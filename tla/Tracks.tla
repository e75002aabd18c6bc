-------------------------------- MODULE Tracks ---------------------------------
(***************************************************************************)
(* One transcript out of the tracks' (isolation/leak.go; isolation/        *)
(* transcript.go: merge, silences): words that leaked into a voice's track *)
(* are left out by their level, copies of words two tracks hold by theirs, *)
(* and what is left is put in the order of time.  How loud a word is in    *)
(* its track (own) and in the recording (rec) is part of the word; a text  *)
(* is the sequence of its words, and "" is a word without letters.         *)
(***************************************************************************)
EXTENDS Integers, Sequences, SequencesExt, FiniteSets, FiniteSetsExt

CONSTANTS
    LeakDepth, Silent,                  \* -LeakFloorDB, and silent
    EchoWindow, RunGap, EchoMargin,     \* echoWindow, runGap, echoMarginDB
    Length,                             \* the isolation's Duration
    TrackSets                           \* bound: sequences of transcripts, a transcript a sequence of segments

VARIABLES
    parts,              \* the transcripts, one a track
    leaks,              \* words left out
    drops,              \* the words dropEchoes leaves out
    merged,             \* the transcript: segments, silence, speech
    measured,           \* how many tracks have lost their leaks
    joining             \* "leaks", "echoes", "drop", "merge", "done", "failed"

tkvars == <<parts, leaks, drops, merged, measured, joining>>

TkInit ==
    /\ parts \in TrackSets /\ leaks = 0 /\ drops = {} /\ measured = 0 /\ joining = "leaks"
    /\ merged = [segments |-> <<>>, silence |-> {}, speech |-> 0]

-----------------------------------------------------------------------------
Texts(words) == [i \in DOMAIN words |-> words[i].text]

(* prune, for one segment: the words that are not dropped.                 *)
Pruned(seg, dropped) ==
    LET stay == SelectSeq([k \in DOMAIN seg.words |-> k], LAMBDA k : k \notin dropped)
        kept == [i \in DOMAIN stay |-> seg.words[stay[i]]]
    IN IF Len(kept) = Len(seg.words) \/ kept = <<>> THEN [seg EXCEPT !.words = kept]
       ELSE [seg EXCEPT !.words = kept, !.text = Texts(kept), !.start = Head(kept).start, !.end = Last(kept).end]

(* dropLeaks' question: "a word that voice said is about as loud as in the *)
(* recording".                                                             *)
Leaked(w) == w.rec >= Silent /\ w.rec - w.own > LeakDepth

SumOver(S, f(_)) == MapThenSumSet(f, S)

(* A segment with no word timings is judged whole; one with nothing left   *)
(* goes.                                                                   *)
DropLeaks ==
    /\ joining = "leaks" /\ measured < Len(parts) /\ measured' = measured + 1
    /\ LET segs  == parts[measured + 1]
           bare(s) == s.words = <<>>
           left(s)  == IF bare(s) THEN s ELSE Pruned(s, {i \in DOMAIN s.words : Leaked(s.words[i])})
           gone(s)  == (bare(s) /\ Leaked(s)) \/ (~bare(s) /\ left(s).words = <<>>)
           lost(s)  == IF bare(s) THEN (IF Leaked(s) THEN Len(s.text) ELSE 0) ELSE Len(s.words) - Len(left(s).words)
       IN IF LeakDepth = 0 THEN UNCHANGED <<parts, leaks>>
          ELSE /\ parts' = [parts EXCEPT ![measured + 1] =
                                LET stay == SelectSeq(@, LAMBDA s : ~gone(s)) IN [i \in DOMAIN stay |-> left(stay[i])]]
               /\ leaks' = leaks + SumOver(DOMAIN segs, LAMBDA i : lost(segs[i]))
    /\ UNCHANGED <<drops, merged, joining>>

LeaksDropped ==
    /\ joining = "leaks" /\ measured = Len(parts) /\ joining' = IF LeakDepth = 0 THEN "merge" ELSE "echoes"
    /\ UNCHANGED <<parts, leaks, drops, merged, measured>>

-----------------------------------------------------------------------------
Word(p, s, w) == parts[p][s].words[w]

(* The words with letters, as <<part, seg, word>>.                         *)
EchoWords ==
    {at \in UNION {UNION {{<<p, s, w>> : w \in DOMAIN parts[p][s].words} : s \in DOMAIN parts[p]} : p \in DOMAIN parts} :
        Word(at[1], at[2], at[3]).text # ""}
Of(at) == Word(at[1], at[2], at[3])
Seq_(at) == at[3] + SumOver(1..(at[2] - 1), LAMBDA s : Len(parts[at[1]][s].words))

Gap(x, y) == IF x < y THEN y - x ELSE x - y

(* Mutant: whenever the word was said.                                     *)
CopiesAnywhere(a, b) ==
    {pr \in EchoWords \X EchoWords : pr[1][1] = a /\ pr[2][1] = b /\ Of(pr[1]).text = Of(pr[2]).text}

Copies(a, b) ==
    {pr \in EchoWords \X EchoWords :
        /\ pr[1][1] = a /\ pr[2][1] = b /\ Of(pr[1]).text = Of(pr[2]).text
        /\ Gap(Of(pr[1]).start, Of(pr[2]).start) < EchoWindow}

(* "words follow one another in both tracks, and closely in time".         *)
Follows(x, y) ==
    /\ Seq_(y[1]) - Seq_(x[1]) <= 1 /\ Seq_(y[2]) - Seq_(x[2]) <= 1
    /\ Of(y[1]).start - Of(x[1]).start <= RunGap

Runs(pairs) ==
    FoldLeft(LAMBDA runs, pr :
                IF runs # <<>> /\ Follows(Last(Last(runs)), pr)
                THEN [runs EXCEPT ![Len(runs)] = Append(@, pr)] ELSE Append(runs, <<pr>>),
             <<>>, pairs)

Loudness(run, side) == SumOver(DOMAIN run, LAMBDA i : Of(run[i][side]).own)

(* "the track that holds a run more quietly loses it whole"; a single word *)
(* only when one copy is clearly the louder.                               *)
QuieterCopy(run) ==
    LET la == Loudness(run, 1)  lb == Loudness(run, 2)
    IN IF Len(run) > 1 \/ Gap(la, lb) >= EchoMargin
       THEN {run[i][IF la > lb THEN 2 ELSE 1] : i \in DOMAIN run}
       ELSE {}

(* Pairs in the order of the first track's words; the sort does not say    *)
(* which of two pairs of one word comes first.                             *)
Orders(pairs) ==
    {o \in SetToSeqs(pairs) : \A i, j \in DOMAIN o : i < j => Seq_(o[i][1]) <= Seq_(o[j][1])}

TrackPairs == {ab \in (DOMAIN parts) \X (DOMAIN parts) : ab[1] < ab[2]}

(* dropEchoes.                                                             *)
FindEchoes ==
    /\ joining = "echoes" /\ joining' = "drop"
    /\ \E order \in [TrackPairs -> UNION {Orders(Copies(ab[1], ab[2])) : ab \in TrackPairs}] :
          /\ \A ab \in TrackPairs : order[ab] \in Orders(Copies(ab[1], ab[2]))
          /\ drops' = UNION {UNION {QuieterCopy(run) : run \in ToSet(Runs(order[ab]))} : ab \in TrackPairs}
    /\ UNCHANGED <<parts, leaks, merged, measured>>

DropEchoes ==
    /\ joining = "drop" /\ joining' = "merge" /\ leaks' = leaks + Cardinality(drops)
    /\ parts' = [p \in DOMAIN parts |->
          LET left == [s \in DOMAIN parts[p] |-> Pruned(parts[p][s], {i \in DOMAIN parts[p][s].words : <<p, s, i>> \in drops})]
              stay == SelectSeq([s \in DOMAIN left |-> s],
                                LAMBDA s : parts[p][s].words = <<>> \/ left[s].words # <<>>)
          IN [i \in DOMAIN stay |-> left[stay[i]]]]
    /\ UNCHANGED <<drops, merged, measured>>

-----------------------------------------------------------------------------
(* Mutant: a voice after the other.                                        *)
VoiceByVoice(segs) == segs

(* By start, then in the order of the voices; SetToSortSeq over places in  *)
(* the list keeps the order of what is equal.                              *)
InOrderOfTime(segs) ==
    LET order == SetToSortSeq(DOMAIN segs, LAMBDA i, j :
                    \/ segs[i].start < segs[j].start
                    \/ segs[i].start = segs[j].start /\ i < j)
    IN [i \in DOMAIN segs |-> segs[order[i]]]

(* silences.                                                               *)
Silences(segs) ==
    LET end == FoldLeft(LAMBDA a, s :
                  [at |-> IF s.end > a.at THEN s.end ELSE a.at,
                   speech |-> IF s.end > a.at THEN a.speech + s.end - (IF s.start > a.at THEN s.start ELSE a.at) ELSE a.speech,
                   out |-> a.out \cup (IF s.start > a.at THEN {[start |-> a.at, end |-> s.start]} ELSE {})],
                  [at |-> 0, speech |-> 0, out |-> {}], segs)
    IN [end EXCEPT !.out = @ \cup (IF Length > end.at THEN {[start |-> end.at, end |-> Length]} ELSE {})]

(* merge: segments without text are left out.                              *)
MergeTracks ==
    /\ joining = "merge" /\ joining' = "done"
    /\ LET named == FlattenSeq([p \in DOMAIN parts |->
                        [i \in DOMAIN parts[p] |-> [speaker |-> p, start |-> parts[p][i].start, end |-> parts[p][i].end,
                                                    text |-> parts[p][i].text, words |-> parts[p][i].words]]])
           segs  == InOrderOfTime(SelectSeq(named, LAMBDA s : s.text # <<>>))
       IN merged' = [segments |-> segs, silence |-> Silences(segs).out, speech |-> Silences(segs).speech]
    /\ UNCHANGED <<parts, leaks, drops, measured>>

(* A track cannot be read, a job did not succeed: no transcript.           *)
JoinFails == joining \notin {"done", "failed"} /\ joining' = "failed" /\ UNCHANGED <<parts, leaks, drops, merged, measured>>

TkNext == DropLeaks \/ LeaksDropped \/ FindEchoes \/ DropEchoes \/ MergeTracks \/ JoinFails

TkSpec == TkInit /\ [][TkNext]_tkvars

-----------------------------------------------------------------------------
(* Properties.                                                             *)

(* "words matched across tracks are grouped into runs, and the track that  *)
(* holds a run more quietly loses it whole" (leak.go:177-179): however     *)
(* words repeat and runs share them, of two tracks' copies one is left,    *)
(* near the one that goes; a chain of copies as long as the inputs here    *)
(* have takes it one window further away.  Runs are judged by their mean,  *)
(* so three tracks may each be the quieter of a run and lose all copies.   *)
ACopyStays ==
    joining = "drop" /\ Len(parts) = 2 =>
        \A at \in drops : \E o \in EchoWords \ drops :
            Of(o).text = Of(at).text /\ Gap(Of(o).start, Of(at).start) < 2 * EchoWindow

(* "of two copies the one in the louder track is the voice's own"          *)
(* (leak.go:177): a track that holds every word it shares louder than the  *)
(* other tracks do loses none, however many they are and in whatever runs  *)
(* its words are.                                                          *)
LoudestKeeps ==
    joining = "drop" =>
        \A p \in DOMAIN parts :
            (\A at, o \in EchoWords :
                (/\ at[1] = p /\ o[1] # p /\ Of(at).text = Of(o).text
                 /\ Gap(Of(at).start, Of(o).start) < EchoWindow) => Of(at).own > Of(o).own)
              => \A at \in drops : at[1] # p

(* "silences is where nobody speaks: the gaps between the segments of      *)
(* every voice taken together" (transcript.go:378-379): tick by tick, for  *)
(* segments that overlap, nest and lose words, and what is not silence is  *)
(* counted once as speech.                                                 *)
SilenceIsNobody ==
    joining = "done" =>
        LET speaks(t) == \E s \in ToSet(merged.segments) : s.start <= t /\ t < s.end
        IN /\ \A t \in 0..(Length - 1) : speaks(t) = ~\E q \in merged.silence : q.start <= t /\ t < q.end
           /\ merged.speech = Cardinality({t \in 0..(2 * Length) : speaks(t)})

(* The tracks of one conversation agree: of two copies one stays, the      *)
(* louder one, and the silence between the turns is nobody's.              *)
TracksAgree == ACopyStays /\ LoudestKeeps /\ SilenceIsNobody
=============================================================================
