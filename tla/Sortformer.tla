------------------------------- MODULE Sortformer -------------------------------
(***************************************************************************)
(* Who speaks when, one pass over a recording (diarize/sortformer): the    *)
(* steps of runOffline, the speaker cache and the FIFO each step attends   *)
(* to, and the turns made of the logits.  The network is external: every   *)
(* step it may hold any of some opinions of the whole recording, one of a  *)
(* frame being how sure it is of each channel (0 not, 1 just, 2 quite).    *)
(* Scores are counted in tenths of log 2, for which these are exact.       *)
(***************************************************************************)
EXTENDS Integers, Sequences, SequencesExt, FiniteSets, FiniteSetsExt

CONSTANTS
    ChunkLen, RightCtx,                     \* loopParams
    CacheLen, SilenceSlots, FifoLen, UpdatePeriod,
    MinPositive, StrongBoosted, WeakBoosted, LatestBoost,   \* cacheParams
    NumSpeakers, Rows,                         \* numSpeakers, subsampling
    MelFrames, Opinions                     \* bounds: lengths in 10 ms rows; frame -> channel -> 0..2

(* readConfig: "inconsistent cache sizes".                                 *)
ASSUME ConfigAssumption ==
    /\ ChunkLen >= 1 /\ RightCtx \in 0..ChunkLen
    /\ FifoLen >= 0 /\ UpdatePeriod >= 1 /\ CacheLen >= NumSpeakers * (SilenceSlots + 1)

VARIABLES
    melFrames,          \* rows of the recording
    start,              \* encoder frames behind the pass
    ahead,              \* the look-ahead the last step embedded: the window's rest
    cache, fifo,        \* frames, the cache's with the probabilities stored with them
    compressed,
    tracker,            \* turnTracker: next, open, done
    logits,               \* history: the rows the logits gave each channel
    answer, pass         \* the answer; "running", "done", "failed"

sfvars == <<melFrames, start, ahead, cache, fifo, compressed, tracker, logits, answer, pass>>

Channel == 1..NumSpeakers
Frames  == (melFrames + Rows - 1) \div Rows
Silence == 0
NoScore == -1000
AlwaysKept == 1000

SfInit ==
    /\ melFrames \in MelFrames /\ start = 0 /\ ahead = <<>>
    /\ cache = <<>> /\ fifo = <<>> /\ compressed = FALSE
    /\ tracker = [next |-> 0, open |-> [s \in Channel |-> -1], done |-> {}]
    /\ logits = {} /\ answer = <<>> /\ pass = "running"

-----------------------------------------------------------------------------
(* frameScores: log p - log(1 - p) + the sum of log(1 - v) - log 0.5, for  *)
(* a speaker active in the frame.                                          *)
FrameScore(pr, s) ==
    IF pr[s] = 0 THEN NoScore
    ELSE (IF pr[s] = 2 THEN 10 ELSE 0) - MapThenSumSet(LAMBDA o : 10 * pr[o], Channel \ {s})

Positive(cat, s) == {f \in DOMAIN cat : FrameScore(cat[f].probs, s) > 0}

(* A row is a set of <<frame, score>>.  "A speaker with enough confidently *)
(* positive frames keeps only those"; those just popped from the FIFO are  *)
(* given latestBoost.                                                      *)
RowOf(cat, s) ==
    LET enough == Cardinality(Positive(cat, s)) >= MinPositive
        kept(sc) == sc # NoScore /\ (enough => sc > 0)
    IN {<<f, IF ~kept(FrameScore(cat[f].probs, s)) THEN NoScore
             ELSE FrameScore(cat[f].probs, s) + (IF f > CacheLen THEN LatestBoost ELSE 0)>> : f \in DOMAIN cat}

(* topK: "breaking ties towards the lower index".                          *)
TopOf(row, k) ==
    {x \in row : Cardinality({y \in row : y[2] > x[2] \/ (y[2] = x[2] /\ y[1] < x[1])}) < k}

(* Mutant: the scores compete as they are.                                 *)
UnBoosted(row, k, b) == row

(* boost: "A score of -Inf stays -Inf".                                    *)
Boosted(row, k, b) ==
    LET top == {x \in TopOf(row, k) : x[2] # NoScore}
    IN (row \ top) \cup {<<x[1], x[2] + b>> : x \in top}

Scored(cat, s) ==
    Boosted(Boosted(RowOf(cat, s), StrongBoosted, 20), WeakBoosted, 10)
        \cup {<<Len(cat) + i, AlwaysKept>> : i \in 1..SilenceSlots}

(* compress: the best pairs of a speaker and a frame, in speaker-major     *)
(* order; pairs without a score become silence, after all the others.      *)
SilentSlot == [frame |-> Silence, probs |-> [s \in Channel |-> 0]]

Compressed(cat) ==
    LET width == Len(cat) + SilenceSlots
        pairs == UNION {{<<(s - 1) * width + x[1], x[2]>> : x \in Scored(cat, s)} : s \in Channel}
        best  == {x[1] : x \in {y \in TopOf(pairs, CacheLen) : y[2] # NoScore}}
        order == SelectSeq([i \in 1..(NumSpeakers * width) |-> i], LAMBDA i : i \in best)
        at(i) == ((order[i] - 1) % width) + 1
    IN [i \in 1..CacheLen |-> IF i > Len(order) \/ at(i) > Len(cat) THEN SilentSlot ELSE cat[at(i)]]

-----------------------------------------------------------------------------
(* Mutant: what the step made of the cache's frames counts ever after.     *)
StoredAnew(o) == [i \in DOMAIN cache |-> [cache[i] EXCEPT !.probs = o[cache[i].frame]]]

(* "An uncompressed cache still holds plain chunk frames, whose            *)
(* probabilities this step re-estimated."                                  *)
Stored(o) ==
    [i \in DOMAIN cache |-> IF compressed THEN cache[i] ELSE [cache[i] EXCEPT !.probs = o[cache[i].frame]]]

(* update: the chunk goes into the FIFO, whose oldest frames go into the   *)
(* cache when it overflows.                                                *)
PoppedOf(len) ==
    LET most == IF UpdatePeriod > len - FifoLen THEN UpdatePeriod ELSE len - FifoLen
    IN IF len <= FifoLen THEN 0 ELSE IF most < len THEN most ELSE len

Update(o, chunk) ==
    LET all    == fifo \o chunk
        popped == PoppedOf(Len(all))
        cat    == Stored(o) \o [i \in 1..popped |-> [frame |-> all[i], probs |-> o[all[i]]]]
        full   == Len(cat) > CacheLen
    IN /\ fifo' = SubSeq(all, popped + 1, Len(all))
       /\ cache' = IF popped = 0 THEN cache ELSE IF full THEN Compressed(cat) ELSE cat
       /\ compressed' = (compressed \/ (popped > 0 /\ full))

(* turnTracker.add: a turn is a run of rows above the threshold, and rows  *)
(* past the recording's are its padding.                                   *)
RowHeard(t, row, active) ==
    LET ends == {s \in Channel : t.open[s] >= 0 /\ s \notin active}
    IN [next |-> t.next,
        open |-> [s \in Channel |-> IF s \in ends THEN -1 ELSE IF s \in active /\ t.open[s] < 0 THEN row ELSE t.open[s]],
        done |-> t.done \cup {[start |-> t.open[s], end |-> row, channel |-> s] : s \in ends}]

ActiveIn(o, frame) == {s \in Channel : o[frame][s] > 0}

RowsOf(from, n) == SelectSeq([i \in 1..(n * Rows) |-> from * Rows + i - 1], LAMBDA row : row < melFrames)

Track(o, n) ==
    /\ tracker' = [FoldLeft(LAMBDA t, row : RowHeard(t, row, ActiveIn(o, row \div Rows + 1)), tracker, RowsOf(start, n))
                      EXCEPT !.next = (start + n) * Rows]
    /\ logits' = logits \cup UNION {{<<s, row>> : s \in ActiveIn(o, row \div Rows + 1)} : row \in ToSet(RowsOf(start, n))}

(* One step of runOffline: "the previous step's look-ahead opens this      *)
(* chunk: keep it".                                                        *)
SfStep ==
    /\ pass = "running" /\ start < Frames
    /\ LET n      == Min({ChunkLen, Frames - start})
           right  == Min({start + n + RightCtx, Frames})
           window == ahead \o [i \in 1..(right - start - Len(ahead)) |-> start + Len(ahead) + i]
       IN /\ \E o \in Opinions : Update(o, SubSeq(window, 1, n)) /\ Track(o, n)
          /\ start' = start + ChunkLen
          /\ ahead' = SubSeq(window, n + 1, Len(window))
    /\ UNCHANGED <<melFrames, answer, pass>>

(* turns: what is open ends with the recording; speakers are numbered in   *)
(* order of first appearance.                                              *)
Renumbered(sorted) ==
    LET first(s) == Min({i \in DOMAIN sorted : sorted[i].channel = s})
    IN [i \in DOMAIN sorted |->
           [start |-> sorted[i].start, end |-> sorted[i].end,
            speaker |-> Cardinality({first(sorted[k].channel) : k \in 1..first(sorted[i].channel)})]]

SfTurns ==
    /\ pass = "running" /\ start >= Frames /\ pass' = "done"
    /\ LET end == Min({tracker.next, melFrames})
           all == tracker.done \cup {[start |-> tracker.open[s], end |-> end, channel |-> s] :
                                        s \in {c \in Channel : tracker.open[c] >= 0}}
           places == [i \in 1..(melFrames * NumSpeakers) |-> <<(i - 1) \div NumSpeakers, ((i - 1) % NumSpeakers) + 1>>]
           taken  == SelectSeq(places, LAMBDA p : \E t \in all : t.start = p[1] /\ t.channel = p[2])
       IN answer' = Renumbered([i \in DOMAIN taken |-> CHOOSE t \in all : t.start = taken[i][1] /\ t.channel = taken[i][2]])
    /\ UNCHANGED <<melFrames, start, ahead, cache, fifo, compressed, tracker, logits>>

(* A graph fails or the request is cancelled: no turns.                    *)
SfFails == pass = "running" /\ pass' = "failed" /\ UNCHANGED <<melFrames, start, ahead, cache, fifo, compressed, tracker, logits, answer>>

SfNext == SfStep \/ SfTurns \/ SfFails

SfSpec == SfInit /\ [][SfNext]_sfvars

-----------------------------------------------------------------------------
(* Properties.                                                             *)

Behind == IF start < Frames THEN start ELSE Frames

(* "The FIFO of the most recent frames that every step attends to"         *)
(* (cache.go:38-39): it is the recording's last frames without a gap, the  *)
(* cache before it is the rest until it overflows, and afterwards frames   *)
(* somebody speaks in and the silence every speaker is owed.               *)
ContextIsTheRecording ==
    /\ Len(fifo) <= FifoLen /\ Len(cache) <= CacheLen
    /\ \A i \in DOMAIN fifo : fifo[i] = Behind - Len(fifo) + i
    /\ ~compressed => /\ Len(cache) + Len(fifo) = Behind
                      /\ \A i \in DOMAIN cache : cache[i].frame = i
    /\ compressed => /\ Len(cache) = CacheLen
                     /\ Cardinality({i \in DOMAIN cache : cache[i] = SilentSlot}) >= NumSpeakers * SilenceSlots
                     /\ \A i \in DOMAIN cache : cache[i] # SilentSlot =>
                            cache[i].frame \in 1..(Behind - Len(fifo)) /\ \E s \in Channel : cache[i].probs[s] > 0

(* "A turn is a run of such frames" (sortformer.go:339-340): the turns of   *)
(* a speaker are the maximal runs of rows some channel was active in, over *)
(* all the steps' seams and without the padding, each channel with rows is *)
(* one speaker, and speakers are numbered as they appear.                  *)
TurnsAreTheLogits ==
    pass = "done" =>
        LET rows(k) == UNION {answer[i].start..(answer[i].end - 1) : i \in {j \in DOMAIN answer : answer[j].speaker = k}}
            of(s)   == {x[2] : x \in {y \in logits : y[1] = s}}
            heardIn == {s \in Channel : of(s) # {}}
        IN /\ \E m \in [1..Cardinality(heardIn) -> heardIn] :
                 IsInjective(m) /\ \A k \in DOMAIN m : rows(k) = of(m[k])
           /\ \A i, j \in DOMAIN answer : i < j /\ answer[i].speaker = answer[j].speaker => answer[i].end < answer[j].start
           /\ \A i \in DOMAIN answer : \A k \in 1..answer[i].speaker : \E j \in 1..i : answer[j].speaker = k

Known(s) == \E i \in DOMAIN cache : FrameScore(cache[i].probs, s) >= 0

(* "The most important ones" (cache.go:150-151): a voice the compressed    *)
(* cache knows by a frame that is clearly its own is known ever after,     *)
(* however long the others speak.                                          *)
VoicesAreRemembered ==
    [][compressed => \A s \in Channel : Known(s) => Known(s)']_sfvars

(* Diarization over chunks is the diarization of the recording: the model  *)
(* sees the recording, its turns are what it said, and no voice is pushed  *)
(* out of its memory by another.                                           *)
DiarizationHolds == [](ContextIsTheRecording /\ TurnsAreTheLogits) /\ VoicesAreRemembered
=============================================================================
