------------------------------ MODULE Transcript ------------------------------
(***************************************************************************)
(* From tokens to the transcript that is sent: words.Assemble (internal/   *)
(* words), Pipeline.buildSegments and merge (internal/pipeline), Assign,   *)
(* Apply and Split (internal/diarize), and the text stages that merge      *)
(* words and put them back into segments (internal/postproc).  Times are   *)
(* whole numbers of half a second; a text is the tokens it is made of.     *)
(***************************************************************************)
EXTENDS Naturals, Integers, Sequences, FiniteSets, FiniteSetsExt, SequencesExt

CONSTANTS
    Recordings,     \* sequences of [channel, start, end, unit, timed, tokens], by channel and time
    TurnMaps,       \* what the diarizer may answer: sequences of [start, end, speaker]
    MinTurn,        \* MinTurnSec
    MinTurnWords,
    MaxGap          \* itn.MaxGap

Unattributed == "none"

VARIABLES
    recording,      \* what was recognised
    transcript      \* stage and segments: [channel, start, end, speaker, words]

trvars == <<recording, transcript>>

Clamp(v, lo, hi) == Max({lo, Min({v, hi})})

-----------------------------------------------------------------------------
(* words.Assemble.  A token is [kind, at, len]: "open" begins a word, "more"*)
(* goes on with it, "bare" is the marker alone, "mark" a mark with a marker *)
(* of its own, "special" is the decoder's.                                 *)
IsSeparator(seg, i) == seg.unit = "char" /\ seg.tokens[i].kind = "bare"
StartsWord(seg, i) ==
    seg.unit = "cjkchar" \/ (seg.unit = "bpe" /\ seg.tokens[i].kind \in {"open", "bare", "mark"})

Spoken(seg) == {i \in DOMAIN seg.tokens : seg.tokens[i].kind # "special" /\ ~IsSeparator(seg, i)}

Opens(seg) ==
    {i \in Spoken(seg) :
        LET before == {j \in Spoken(seg) : j < i} IN
        \/ before = {} \/ StartsWord(seg, i)
        \/ \E k \in DOMAIN seg.tokens : IsSeparator(seg, k) /\ k < i /\ \A j \in before : j < k}

LastToken(seg, i) == Max({j \in Spoken(seg) : j >= i /\ \A o \in Opens(seg) : o <= i \/ o > j})

(* Durations, or the onset of the next token, or the end of the segment.   *)
TokenEnd(seg, i) ==
    IF seg.tokens[i].len > 0 THEN seg.tokens[i].at + seg.tokens[i].len
    ELSE IF i < Len(seg.tokens) THEN seg.tokens[i + 1].at ELSE seg.end - seg.start

(* cleanText: of all tokens in between, what the decoder put there too.    *)
TextOf(seg, i, j) == {<<seg.channel, seg.start, k>> : k \in {n \in i..j : seg.tokens[n].kind # "bare"}}

WordAt(seg, i) ==
    LET start == Clamp(seg.start + seg.tokens[i].at, seg.start, seg.end)
    IN  [toks |-> TextOf(seg, i, LastToken(seg, i)), start |-> start,
         end |-> Clamp(seg.start + TokenEnd(seg, LastToken(seg, i)), start, seg.end), speaker |-> Unattributed]

IsPunctuation(seg, w) == \A k \in w.toks : seg.tokens[k[3]].kind = "mark"

(* A comma is not a word with a duration.                                  *)
MergePunctuation(seg, ws) ==
    FoldLeft(LAMBDA out, w :
                 IF out # <<>> /\ IsPunctuation(seg, w)
                 THEN Append(Front(out), [Last(out) EXCEPT !.toks = @ \cup w.toks, !.end = Max({@, w.end})])
                 ELSE Append(out, w), <<>>, ws)

(* Mutant: overlaps stay as rounding left them.                            *)
AsEstimated(ws) == ws

EnforceMonotonic(ws) ==
    [i \in DOMAIN ws |-> IF i = Len(ws) THEN ws[i]
                         ELSE [ws[i] EXCEPT !.end = Max({ws[i].start, Min({@, ws[i + 1].start})})]]

Assemble(seg) ==
    LET openers == SetToSortSeq({i \in Opens(seg) : TextOf(seg, i, LastToken(seg, i)) # {}}, <)
    IN  EnforceMonotonic(MergePunctuation(seg, [n \in DOMAIN openers |-> WordAt(seg, openers[n])]))

(* buildSegments: what has no text is left out; without timings the        *)
(* segment is one word.                                                    *)
BuildSegment(seg) ==
    [channel |-> seg.channel, start |-> seg.start, end |-> seg.end, speaker |-> Unattributed,
     words |-> IF seg.timed THEN Assemble(seg)
               ELSE <<[toks |-> TextOf(seg, 1, Len(seg.tokens)),
                       start |-> seg.start, end |-> seg.end, speaker |-> Unattributed]>>]

BuildSegments(rec) ==
    LET heard == SelectSeq(rec, LAMBDA seg : TextOf(seg, 1, Len(seg.tokens)) # {})
    IN  [i \in DOMAIN heard |-> BuildSegment(heard[i])]

(* merge: by start, then channel, stable.                                  *)
Merge(segs) ==
    LET Precedes(i, j) ==
            \/ segs[i].start < segs[j].start
            \/ segs[i].start = segs[j].start /\ segs[i].channel < segs[j].channel
            \/ segs[i].start = segs[j].start /\ segs[i].channel = segs[j].channel /\ i < j
        order == SetToSortSeq(DOMAIN segs, Precedes)
    IN  [i \in DOMAIN segs |-> segs[order[i]]]

-----------------------------------------------------------------------------
(* diarize.Assign: the turn that overlaps a word most, or the nearest.     *)
Overlap(w, t) == Max({0, Min({w.end, t.end}) - Max({w.start, t.start})})
Distance(w, t) == Max({0, 2 * t.start - w.start - w.end, w.start + w.end - 2 * t.end})

Assign(w, turns) ==
    LET best == CHOOSE i \in DOMAIN turns :
            LET Better(j) == \/ Overlap(w, turns[j]) > Overlap(w, turns[i])
                             \/ /\ \A k \in DOMAIN turns : Overlap(w, turns[k]) = 0
                                /\ Distance(w, turns[j]) < Distance(w, turns[i])
                Equal(j) == ~Better(j) /\ Overlap(w, turns[j]) = Overlap(w, turns[i])
                            /\ ((\A k \in DOMAIN turns : Overlap(w, turns[k]) = 0)
                                   => Distance(w, turns[j]) = Distance(w, turns[i]))
            IN  \A j \in DOMAIN turns : ~Better(j) /\ (j < i => ~Equal(j))
    IN  turns[best].speaker

Attribute(segs, turns) ==
    [i \in DOMAIN segs |-> [segs[i] EXCEPT !.words =
        [n \in DOMAIN segs[i].words |-> [segs[i].words[n] EXCEPT !.speaker = Assign(segs[i].words[n], turns)]]]]

IsTurn(ws, r) == r.to - r.from + 1 >= MinTurnWords /\ ws[r.to].end - ws[r.from].start >= MinTurn

(* speakerRuns: consecutive words of one speaker; a run too short for a    *)
(* turn joins the one before, the first one the one after.                 *)
PlainRuns(ws) ==
    FoldLeftDomain(LAMBDA runs, i :
        IF i > 1 /\ ws[i - 1].speaker = ws[i].speaker THEN [runs EXCEPT ![Len(runs)].to = i]
        ELSE Append(runs, [from |-> i, to |-> i]), <<>>, ws)

Absorbed(ws) ==
    FoldLeft(LAMBDA out, r :
        IF out # <<>> /\ (~IsTurn(ws, r) \/ ws[Last(out).from].speaker = ws[r.from].speaker)
        THEN [out EXCEPT ![Len(out)].to = r.to] ELSE Append(out, r), <<>>, PlainRuns(ws))

(* Mutant: the first run has none before it to join.                       *)
RunsAbsorbed(ws) == Absorbed(ws)

(* Mutant: a run too short to be a turn is passed over.                    *)
RunsOfTurns(ws) ==
    LET turns == SelectSeq(PlainRuns(ws), LAMBDA r : IsTurn(ws, r))
    IN  IF turns = <<>> THEN <<[from |-> 1, to |-> Len(ws)]>> ELSE turns

SpeakerRuns(ws) ==
    LET out == Absorbed(ws) IN
    IF Len(out) > 1 /\ ~IsTurn(ws, out[1])
    THEN <<[out[2] EXCEPT !.from = out[1].from]>> \o SubSeq(out, 3, Len(out)) ELSE out

(* The speaker with most of the time; tieBreak, a fiftieth of our unit, is *)
(* for each word.                                                          *)
SpeakerWeight(ws, who) ==
    FoldLeft(LAMBDA x, w : IF w.speaker = who THEN x + 50 * (w.end - w.start) + 1 ELSE x, 0, ws)
DominantSpeaker(ws) ==
    CHOOSE who \in {ws[n].speaker : n \in DOMAIN ws} :
        \A n \in DOMAIN ws : SpeakerWeight(ws, ws[n].speaker) <= SpeakerWeight(ws, who)

SplitOne(s) ==
    IF s.words = <<>> THEN <<s>> ELSE
    LET runs == SpeakerRuns(s.words) IN
    [i \in DOMAIN runs |->
        LET ws == SubSeq(s.words, runs[i].from, runs[i].to) IN
        [s EXCEPT !.words = ws, !.speaker = DominantSpeaker(ws),
                  !.start = IF i = 1 THEN @ ELSE Head(ws).start,
                  !.end = IF i = Len(runs) THEN @ ELSE Last(ws).end]]

Split(segs) == FlattenSeq([i \in DOMAIN segs |-> SplitOne(segs[i])])

-----------------------------------------------------------------------------
(* postproc.Apply: the chain sees one stream of words; glued are the       *)
(* places where the rules merge a word with the next.                      *)
Flat(segs) == FlattenSeq([i \in DOMAIN segs |-> [n \in DOMAIN segs[i].words |-> [seg |-> i, word |-> segs[i].words[n]]]])

Joins(segs) == {k \in 1..(Len(Flat(segs)) - 1) : Flat(segs)[k + 1].word.start - Flat(segs)[k].word.end <= MaxGap}

(* itn.Rewrite: [start(first), end(last)] of the run.                      *)
Rewritten(flat, glued, k) ==
    LET last == CHOOSE l \in k..Len(flat) : l \notin glued /\ \A x \in k..(l - 1) : x \in glued
    IN  [flat[k].word EXCEPT !.end = flat[last].word.end, !.toks = UNION {flat[x].word.toks : x \in k..last}]

Retime(s) == [s EXCEPT !.start = Min({@, Head(s.words).start}), !.end = Max({@, Last(s.words).end})]

(* Mutant: a widened segment is left over the next one.                    *)
AsWidened(segs) == segs

EnforceOrder(segs) ==
    FoldLeft(LAMBDA out, s :
        IF out = <<>> THEN <<s>>
        ELSE LET start == Max({s.start, Last(out).end})
             IN  Append(out, [s EXCEPT !.start = start, !.end = Max({@, start})]), <<>>, segs)

(* scatter: a merged word goes to the segment of its first input.          *)
Scatter(segs, glued) ==
    LET flat == Flat(segs)
        Bucket(i) == LET mine == SetToSortSeq({k \in DOMAIN flat : flat[k].seg = i /\ k - 1 \notin glued}, <)
                     IN  [n \in DOMAIN mine |-> Rewritten(flat, glued, mine[n])]
        filled == SelectSeq([i \in DOMAIN segs |-> [segs[i] EXCEPT !.words = Bucket(i)]], LAMBDA s : s.words # <<>>)
    IN  EnforceOrder([i \in DOMAIN filled |-> Retime(filled[i])])

(* Mutant: the legs of a call are one conversation.                        *)
OneLeg(segs) == <<segs>>

(* ApplyWithChannels.                                                      *)
Legs(segs) ==
    LET channels == {segs[i].channel : i \in {n \in DOMAIN segs : segs[n].words # <<>>}} IN
    IF Cardinality(channels) < 2 THEN <<segs>>
    ELSE LET ordered == SetToSortSeq({segs[i].channel : i \in DOMAIN segs}, <)
         IN  [c \in DOMAIN ordered |-> SelectSeq(segs, LAMBDA s : s.channel = ordered[c])]

-----------------------------------------------------------------------------
TrInit ==
    /\ recording \in Recordings
    /\ transcript = [stage |-> "assembled", segs |-> Merge(BuildSegments(recording))]

(* Pipeline.diarize: not of legs that are speakers already, nor of         *)
(* silence, and for nothing when it finds no turns.                        *)
Diarizes(turns) ==
    /\ transcript.stage = "assembled" /\ turns # <<>> /\ transcript.segs # <<>>
    /\ \A i \in DOMAIN recording : recording[i].channel = 0
    /\ transcript' = [stage |-> "diarized", segs |-> Split(Attribute(transcript.segs, turns))]
    /\ UNCHANGED recording

(* Pipeline.post; when a stage fails the transcript is unmodified.         *)
Posts ==
    /\ transcript.stage \in {"assembled", "diarized"}
    /\ LET legs == Legs(transcript.segs) IN
       \E glued \in [DOMAIN legs -> UNION {SUBSET Joins(legs[c]) : c \in DOMAIN legs}] :
          /\ \A c \in DOMAIN legs : glued[c] \subseteq Joins(legs[c])
          /\ transcript' = [stage |-> "posted", segs |->
                IF \A c \in DOMAIN legs : glued[c] = {} THEN transcript.segs
                ELSE IF Len(legs) = 1 THEN Scatter(legs[1], glued[1])
                ELSE Merge(FlattenSeq([c \in DOMAIN legs |-> Scatter(legs[c], glued[c])]))]
    /\ UNCHANGED recording

TrNext == (\E turns \in TurnMaps : Diarizes(turns)) \/ Posts

TrSpec == TrInit /\ [][TrNext]_trvars

-----------------------------------------------------------------------------
(* Properties.                                                             *)
Leg(c) == SelectSeq(transcript.segs, LAMBDA s : s.channel = c)
Channels == {recording[i].channel : i \in DOMAIN recording}

(* "w[i].End <= w[i+1].Start" (words.go:7) from the recogniser to the      *)
(* answer: the words of a leg follow each other in time and lie in the     *)
(* segment that shows them, through splitting and merging.  Of words.go:6  *)
(* this is the part with <=, and InstantsAreTold the rest.                 *)
WordsInTime ==
    \A c \in Channels :
        LET flat == Flat(Leg(c)) IN
        \A k \in DOMAIN flat :
            /\ flat[k].word.start <= flat[k].word.end
            /\ k < Len(flat) => flat[k].word.end <= flat[k + 1].word.start
            /\ Leg(c)[flat[k].seg].start <= flat[k].word.start
            /\ flat[k].word.end <= Leg(c)[flat[k].seg].end

(* "w.Start < w.End" (words.go:6) is kept up to the recogniser: a word is  *)
(* an instant only where two tokens have one onset, so that                *)
(* enforceMonotonic leaves nothing of the first (words.go:238), or where it*)
(* was heard at the end of its segment (words.go:91).                      *)
InstantsAreTold ==
    \A i \in DOMAIN transcript.segs : \A n \in DOMAIN transcript.segs[i].words :
        LET w == transcript.segs[i].words[n] IN
        w.start = w.end =>
            \E r \in {recording[x] : x \in DOMAIN recording} :
                /\ r.channel = transcript.segs[i].channel
                /\ \/ r.end = w.end
                   \/ \E k, l \in DOMAIN r.tokens : k # l /\ r.tokens[k].at = r.tokens[l].at
                                                         /\ r.start + r.tokens[k].at = w.start

(* "joining the words reproduces the recognised text" (words.go:9), which  *)
(* the decoder's own tokens are no part of (words.go:162): they are in no  *)
(* word, but where one stands between two pieces of the same word          *)
(* (words.go:85).                                                          *)
TextIsSpoken ==
    \A i \in DOMAIN transcript.segs : \A n \in DOMAIN transcript.segs[i].words :
        LET toks == transcript.segs[i].words[n].toks IN
        \A r \in {recording[x] : x \in DOMAIN recording} :
            LET pieces == {k \in Spoken(r) : <<r.channel, r.start, k>> \in toks} IN
            \A k \in DOMAIN r.tokens :
                (r.timed /\ r.tokens[k].kind = "special" /\ <<r.channel, r.start, k>> \in toks)
                    => \E a, b \in pieces : a < k /\ k < b /\ \A o \in Opens(r) : o <= a \/ o > b

(* "a player would render as two segments active at once"                  *)
(* (segments.go:122): the segments of a leg do not overlap.                *)
SegmentsApart ==
    \A c \in Channels : \A i \in 1..(Len(Leg(c)) - 1) :
        Leg(c)[i].start <= Leg(c)[i].end /\ Leg(c)[i].end <= Leg(c)[i + 1].start

(* Whatever was split, absorbed and merged, every token that was spoken is *)
(* in exactly one word, of its own leg.                                    *)
NothingIsLost ==
    LET flat == Flat(transcript.segs) IN
    \A i \in DOMAIN recording : \A k \in Spoken(recording[i]) :
        \A tok \in TextOf(recording[i], k, k) : Cardinality({n \in DOMAIN flat : tok \in flat[n].word.toks}) = 1

(* "An ITN rule ... must not glue a word from channel 0 onto one from      *)
(* channel 1" (segments.go:152): a word has the text of its own leg only.  *)
LegsStayApart ==
    \A i \in DOMAIN transcript.segs : \A n \in DOMAIN transcript.segs[i].words :
        \A tok \in transcript.segs[i].words[n].toks : tok[1] = transcript.segs[i].channel

(* "a usable transcript and confetti" (split.go:10): a segment that was    *)
(* cut because the speaker changes has a turn in it.                       *)
EveryCutIsATurn ==
    transcript.stage = "diarized" =>
        \A i \in DOMAIN transcript.segs :
            LET ws == transcript.segs[i].words
                whole == \E r \in DOMAIN recording : /\ recording[r].start = transcript.segs[i].start
                                                     /\ recording[r].end = transcript.segs[i].end
            IN  ~whole => \E a, b \in DOMAIN ws : a <= b /\ IsTurn(ws, [from |-> a, to |-> b])

(* The transcript of a recording, from tokens to turns: every word is in   *)
(* it once, in its time, on its leg, and is cut only where the speaker     *)
(* changes; of the contract of words.go:5, what a later stage relies on,   *)
(* and where it is not kept.                                               *)
TranscriptIsWhole ==
    /\ WordsInTime /\ InstantsAreTold /\ TextIsSpoken /\ SegmentsApart
    /\ NothingIsLost /\ LegsStayApart /\ EveryCutIsATurn
=============================================================================
