------------------------------- MODULE MCParts -------------------------------
(* Small instances of the parts whose promises are about what never happens, *)
(* one behaviour of each: `part' says whose behaviour it is, and the others  *)
(* keep still in an initial state.                                           *)
EXTENDS SpokenNumbers, Transcript, Punctuation, EventHub, Webhook,
        RateLimiter, Completion, Lifecycle, RealtimeWire,
        JobHistory, SpeakerNames, Dictionaries,
        RequestOptions, PipelineRun, WindowsService, VoiceStream,
        VoiceEngine, Tracks, Sortformer, KeyFile

(* Settings that differ in everything that decides about a restart.          *)
MCChosen == {s \in Settings : s.isolation = s.diarization /\ s.isolation = (s.stream # NoName)}

(* Configurations that lack at most one model.                               *)
MCConfig == {c \in Configs :
    Cardinality({f \in {"vad", "diarizer", "realtime", "post", "isolation"} : c[f] \in {"unknown", "known"}}) <= 1}

(* Requests whose strictness and vocabulary follow from the rest, and        *)
(* servers that differ in one thing when they keep no dictionaries.          *)
MCRequests == {r \in Request : /\ ~r.paths /\ r.strict = (r.method = Beam)
                               /\ r.model.unit = "bpe" \/ (r.model.unit = "char" /\ ~r.model.vocab)
                               /\ r.model.method = Beam => r.model.family = "transducer"
                               /\ r.dict = "standing" => r.words = "none" /\ r.model.method = ""}
MCServers == {s \in Server : s.store = "works" \/ (s.standing # "missing" /\ s.budget = "room")}
MCSegmentations == {<<>>, <<4, 1, 2>>}

(* An administrator lists all there is, an owner what is his, or has ended.  *)
MCQueries ==
    {[owner |-> o, admin |-> o = "k1", status |-> st] :
        o \in Owner, st \in {{}, {"succeeded"}}} \ {[owner |-> "k1", admin |-> TRUE, status |-> {"succeeded"}]}

(* A long segment with five words of different lengths, and another of its   *)
(* leg or of the other, with all kinds of tokens, or with two at one onset   *)
(* and one at the end.                                                       *)
Tok(kind, at, len) == [kind |-> kind, at |-> at, len |-> len]
MCLong ==
    [channel |-> 0, start |-> 1, end |-> 7, unit |-> "bpe", timed |-> TRUE,
     tokens |-> <<Tok("open", 0, 2), Tok("open", 1, 1), Tok("open", 2, 1), Tok("open", 3, 1), Tok("open", 4, 4)>>]
MCRecordings ==
    {<<>>} \cup {<<MCLong, [channel |-> where[1], start |-> where[2], end |-> where[2] + 2, unit |-> u, timed |-> t, tokens |-> ts]>> :
        where \in {<<0, 7>>, <<1, 2>>}, u \in {"bpe", "char"}, t \in BOOLEAN,
        ts \in {<<Tok("open", 0, 0), Tok("special", 0, 0), Tok("more", 1, 0),
                  Tok("bare", 1, 1), Tok("more", 1, 2), Tok("mark", 1, 0)>>,
                <<Tok("special", 0, 0), Tok("open", 0, 0), Tok("open", 0, 1), Tok("special", 2, 0), Tok("open", 2, 1)>>,
                <<Tok("bare", 0, 0)>>}}
MCTurnMaps ==
    {<<>>} \cup {<<[start |-> a, end |-> b, speaker |-> "x"], [start |-> b, end |-> c, speaker |-> "y"],
                   [start |-> c, end |-> 9, speaker |-> z]>> :
                 a \in {0, 3}, b \in {2, 3, 4}, c \in 4..6, z \in {"x", "z"}}

(* Numbers with and without what they count, a time, a date and a telephone, *)
(* with a pause before one word and a mark on one.                           *)
MCValues == (0..30) \cup {100, 101, 121, 999, 1000, 1001, 1011, 2025, 21000, 100000, 999999}
Numeral(kind, v) == [kind |-> kind, value |-> v]
Broken(ws) ==
    {[i \in DOMAIN ws |-> [kind |-> ws[i].kind, value |-> ws[i].value, gap |-> i \in g, mark |-> i = n]] :
        g \in {{}} \cup {{k} : k \in 2..Len(ws)}, n \in 0..Len(ws)}
MCSpokenRuns ==
    UNION {Broken(ws) : ws \in
        {SaidAs(n) \o unit : n \in MCValues, unit \in {<<>>, <<Numeral("money", 0)>>}} \cup
        {<<Numeral("unit", 9), Numeral("hour", 0), Numeral("ten", 30), Numeral("minute", 0)>>,
         <<Numeral("ten", 20), Numeral("ordinal", 5), Numeral("month", 12)>>,
         <<Numeral("plus", 0), Numeral("unit", 7), Numeral("unit", 9), Numeral("unit", 1), Numeral("percent", 0)>>}}

(* All answers of up to five characters.                                     *)
Letter(c) == [kind |-> "letter", name |-> c, cap |-> FALSE]
MCPhrases ==
    {<<<<Letter("a"), Letter("b")>>, <<Letter("a")>>>>, <<<<Letter("a")>>, <<[kind |-> "mark"]>>>>,
     <<<<Letter("b"), [kind |-> "mark"]>>, <<[Letter("a") EXCEPT !.cap = TRUE]>>>>}
MCMarkings ==
    UNION {[1..n -> {Letter("a"), [Letter("a") EXCEPT !.cap = TRUE], Letter("b"), [kind |-> "mark"], [kind |-> "space"]}] :
           n \in 0..5}

(* A voice with one or two turns, another that overlaps it, nests in it or   *)
(* follows it, up to the end of the recording and past it.                   *)
TurnSets == {Span(0, 3), Span(0, 6), Span(2, 6), Span(2, 8), Span(5, 8), Span(9, 12)}
MCScenes ==
    {[dur |-> 12, spans |-> <<a, {Span(1, 5)} \cup b>>] :
        a \in {x \in SUBSET TurnSets : Cardinality(x) \in 1..2}, b \in {{}, {Span(7, 15)}, {Span(6, 7), Span(9, 11)}}}
MCTakes ==
    {[n |-> n, keep |-> {Span(a, a + 3), Span(b, c)}] :
        n \in {0, 1, 11, 17}, a \in {-1, 1, 2}, b \in {2, 4, 5, 7}, c \in {8, 21}}

(* Two tracks that repeat words, at the same time and later, and three that  *)
(* share them pair by pair: as loud as in the recording, somewhat less, much *)
(* less (only such a word has leaked), or as good as equal; and a segment    *)
(* without words, of a recording that says something there or does not.      *)
Said(t, x, own) == [start |-> t, end |-> t + 2, text |-> x, own |-> own, rec |-> 9]
SaidIn(ws) == [start |-> Head(ws).start, end |-> Last(ws).end, text |-> Texts(ws), words |-> ws, own |-> 0, rec |-> 0]
Levels == [1..3 -> {5, 9}] \cup {<<8, 8, 8>>, <<2, 9, 9>>, <<9, 2, 9>>, <<9, 9, 2>>}
MCTracks ==
    {<<<<SaidIn(<<Said(0, "a", x[1]), Said(1, "b", x[2]), Said(3, "a", x[3])>>),
         [start |-> 8, end |-> 9, text |-> <<"a">>, words |-> <<>>, own |-> x[1], rec |-> IF y = "a" THEN 9 ELSE 0]>>,
       <<SaidIn(<<Said(t, "a", z[1]), Said(t + 1, y, z[2]), Said(t + 2, "a", z[3])>>)>>>> :
     x \in Levels, z \in Levels, t \in {0, 1, 2}, y \in {"a", "b"}}
    \cup
    {<<<<SaidIn(<<Said(0, "a", x[1]), Said(1, "b", x[2])>>)>>, <<SaidIn(<<Said(0, "a", x[3]), Said(1, "c", 5)>>)>>,
       <<SaidIn(<<Said(0, "c", x[4]), Said(1, "a", x[5]), Said(2, "b", 5)>>)>>>> : x \in [1..5 -> {5, 8, 9}]}

(* One voice all along; another now and then, alone or over the first one;   *)
(* two in turns.                                                             *)
MCOpinions ==
    {[f \in 0..16 |-> <<2, 0>>],
     [f \in 0..16 |-> CASE f \in {3, 4} -> <<0, 1>> [] f = 5 -> <<0, 0>> [] f \in {6, 12} -> <<2, 1>> [] OTHER -> <<2, 0>>],
     [f \in 0..16 |-> CASE f % 3 = 0 -> <<0, 2>> [] f % 3 = 1 -> <<1, 2>> [] OTHER -> <<0, 0>>]}

(* No file, and one with a key that was written by hand beside another.      *)
MCOriginals == {None, <<NamedKey(NoLabel, "s0"), NamedKey("ci", "s1")>>}

(* Properties of two or three parts that are about one thing.                *)

(* What the store holds stays: a walk over the history skips and repeats     *)
(* nothing, a purged row does not come back, names keep what concurrent      *)
(* clients gave them, dictionaries what an import wrote that nobody else     *)
(* interrupted (store.go, pipeline.go, dictionary.go).                       *)
RecordsStay ==
    /\ [](WalkIsWhole /\ RenamesAreKept /\ CreatedByOne /\ ExportsComeBack /\ AppendsKeep)
    /\ PurgedStaysGone /\ AgeSurvives

(* Text that is made readable is the text that was said: numbers have the    *)
(* value of their words, no pause is inside one, and marks change no letter  *)
(* (ru_numbers.go, punctuation).                                             *)
TextIsKept == NumbersAreRead /\ NoPauseInside /\ LettersStay

(* A voice is taken out whole and alone: the stream in pieces is the stream  *)
(* in one, a sample has one voice, and its turns start afresh without a jump *)
(* (voxlock.go, tse.go).                                                     *)
VoiceIsWhole == StreamIsOnePass /\ SampleIsOnlyTheVoice /\ TurnsStartFresh /\ FadesAreSmooth

VARIABLE part

Parts == {"numbers", "transcript", "marks", "hub", "webhook", "limiter",
          "managed", "fetch", "completion", "lifecycle", "wire",
          "keepalive", "downloads", "listing", "speakers", "dictionaries",
          "options", "runs", "winservice", "stream", "sample", "gate",
          "tracks", "diarizer", "keys"}

PartsInit ==
    /\ part \in Parts
    /\ part = "tracks" \/ (parts = CHOOSE t \in TrackSets : TRUE)
    /\ TkInit
    /\ part = "numbers" \/ (said = CHOOSE s \in SpokenRuns : TRUE)
    /\ part = "transcript" \/ (recording = <<>>)
    /\ part = "marks" \/ (phrase = CHOOSE p \in Phrases : TRUE)
    /\ part = "limiter" \/ (rate = CHOOSE r \in Rates : TRUE)
    /\ part = "fetch" \/ (serves = [i \in 1..Sources |-> CHOOSE o \in Offers : o.right])
    /\ part = "completion" \/ ((present = Own /\ manifest = Own))
    /\ part = "lifecycle" \/ (config = CHOOSE c \in Config : TRUE)
    /\ part = "options" \/ ((req = CHOOSE r \in Requests : TRUE) /\ (srv = CHOOSE s \in Servers : TRUE))
    /\ part = "winservice" \/ (registered = "absent")
    /\ part = "stream" \/ ((length = CHOOSE n \in Lengths : TRUE) /\ (fixed = CHOOSE f \in FixedSizes : TRUE))
    /\ part = "sample" \/ (scene = CHOOSE s \in Scenes : TRUE)
    /\ part = "gate" \/ (take = CHOOSE t \in TakeSet : TRUE)
    /\ part = "diarizer" \/ (melFrames = 0)
    /\ part = "keys" \/ (inode = [f \in {"path", "tmp"} |-> None])
    /\ ItnInit /\ TrInit /\ PunctInit /\ EhInit /\ WhInit /\ RlInit /\ MgInit /\ FcInit
    /\ CpInit /\ LcInit /\ WireInit /\ KaInit /\ DlInit /\ HistInit /\ SpInit
    /\ DictInit /\ OptInit /\ PlInit /\ SvcInit /\ VsInit /\ SmInit /\ VgInit
    /\ SfInit /\ KeyInit
    /\ part = "wire" \/ conn.many

(* The part moves and the others do not.                                     *)
PartsNext ==
    /\ UNCHANGED part
    /\ IF part = "numbers" THEN ItnNext ELSE UNCHANGED itnvars
    /\ IF part = "transcript" THEN TrNext ELSE UNCHANGED trvars
    /\ IF part = "marks" THEN PunctNext ELSE UNCHANGED punctvars
    /\ IF part = "hub" THEN EhNext ELSE UNCHANGED ehvars
    /\ IF part = "webhook" THEN WhNext ELSE UNCHANGED whvars
    /\ IF part = "limiter" THEN RlNext ELSE UNCHANGED rlvars
    /\ IF part = "managed" THEN MgNext ELSE UNCHANGED mgvars
    /\ IF part = "fetch" THEN FcNext ELSE UNCHANGED fcvars
    /\ IF part = "completion" THEN CpNext ELSE UNCHANGED cpvars
    /\ IF part = "lifecycle" THEN LcNext ELSE UNCHANGED lcvars
    /\ IF part = "wire" THEN WireNext ELSE UNCHANGED wirevars
    /\ IF part = "keepalive" THEN KaNext ELSE UNCHANGED kavars
    /\ IF part = "downloads" THEN DlNext ELSE UNCHANGED dlvars
    /\ IF part = "listing" THEN HistNext ELSE UNCHANGED histvars
    /\ IF part = "speakers" THEN SpNext ELSE UNCHANGED spvars
    /\ IF part = "dictionaries" THEN DictNext ELSE UNCHANGED dictvars
    /\ IF part = "options" THEN OptNext ELSE UNCHANGED optvars
    /\ IF part = "runs" THEN PlNext ELSE UNCHANGED plvars
    /\ IF part = "winservice" THEN SvcNext ELSE UNCHANGED svcvars
    /\ IF part = "stream" THEN VsNext ELSE UNCHANGED vsvars
    /\ IF part = "sample" THEN SmNext ELSE UNCHANGED smvars
    /\ IF part = "gate" THEN VgNext ELSE UNCHANGED vgvars
    /\ IF part = "tracks" THEN TkNext ELSE UNCHANGED tkvars
    /\ IF part = "diarizer" THEN SfNext ELSE UNCHANGED sfvars
    /\ IF part = "keys" THEN KeyNext ELSE UNCHANGED keyvars

PartsSpec == PartsInit /\ [][PartsNext]_<<part, itnvars, trvars, punctvars, ehvars,
                                        whvars, rlvars, mgvars, fcvars,
                                        cpvars, lcvars, wirevars, kavars,
                                        dlvars, histvars, spvars, dictvars,
                                        optvars, plvars, svcvars, vsvars,
                                        smvars, vgvars, tkvars, sfvars,
                                        keyvars>>
==============================================================================
