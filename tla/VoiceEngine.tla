------------------------------ MODULE VoiceEngine ------------------------------
(***************************************************************************)
(* The two operations of the isolation engine (tse/engine.go).             *)
(*                                                                         *)
(* Samples: which stretch of a recording stands for each voice (tse/tse.go:*)
(* ChooseSample, SampleAt).  The embedder is external: it may fail, and    *)
(* any candidate may be the one nearest the voice.  A sample's audio is    *)
(* the ticks of the recording it is made of; -1 is silence.                *)
(*                                                                         *)
(* Extract: a recording isolated to one voice, region by region, and gated *)
(* (tse/tse.go: Gate.Apply, crossfade).  The extractor is external too: an *)
(* isolated sample is told apart by where the state that made it began,    *)
(* and any decision of the embeddings is possible.  A tick is a sample.    *)
(***************************************************************************)
EXTENDS Spans, FiniteSets

CONSTANTS
    Enroll,             \* ticks of a sample (EnrollSamples)
    MinClean, Margin, Step, MaxCandidates,  \* Selection
    MinPiece,           \* the shortest piece a sample is assembled from
    NearlyFull,         \* how much less speech than the fullest window is as good
    Scenes              \* bound: recordings, [dur, spans: who -> spans]

VARIABLES
    scene,              \* the recording and what the diarizer found, speakers numbered
    voices,             \* Samples' answer so far
    samples             \* "choosing", "done", "placed" by hand once, "failed"

smvars == <<scene, voices, samples>>

SmInit == scene \in Scenes /\ voices = <<>> /\ samples = "choosing"

-----------------------------------------------------------------------------
Others(who) == UNION {scene.spans[o] : o \in DOMAIN scene.spans \ {who}}

(* Mutant: boundaries are taken as they are.                               *)
BusyUnwidened(who) == Merged(Clipped(Others(who), scene.dur))

(* "Margin keeps a sample this far from another speaker's turn".           *)
Busy(who) == Merged(Clipped({Span(s.start - Margin, s.end + Margin) : s \in Others(who)}, scene.dur))

OwnTurns(who)   == Merged(Clipped(scene.spans[who], scene.dur))
Clean(who) == Subtract(OwnTurns(who), Busy(who))
CleanSpeech(who) == FoldLeft(LAMBDA n, s : n + Dur(s), 0, Clean(who))

(* Windows inside the gaps between other speakers, at least half this      *)
(* voice, as <<start, speech>>.                                            *)
Windows(who) ==
    LET grid(free) == [i \in 1..(Dur(free) \div Step + 1) |-> free.start + (i - 1) * Step]
        in(free)   == SelectSeq(grid(free), LAMBDA st : st + Enroll <= free.end)
        all        == FlattenSeq([i \in DOMAIN Subtract(<<Span(0, scene.dur)>>, Busy(who)) |->
                                     in(Subtract(<<Span(0, scene.dur)>>, Busy(who))[i])])
    IN SelectSeq([i \in DOMAIN all |-> <<all[i], Coverage(OwnTurns(who), Span(all[i], all[i] + Enroll))>>],
                 LAMBDA c : 2 * c[2] >= Enroll)

(* spread: "keeps at most n items, evenly spaced through the slice".       *)
Spread(s, n) == IF Len(s) <= n THEN s ELSE [i \in 1..n |-> s[((i - 1) * Len(s)) \div n + 1]]

Fullest(cands) ==
    LET best == Max({c[2] : c \in ToSet(cands)})
    IN Spread(SelectSeq(cands, LAMBDA c : c[2] >= best - NearlyFull), MaxCandidates)

TicksOf(s) == [i \in 1..Dur(s) |-> s.start + i - 1]

(* fit: "repeating it if it is short".                                     *)
Fit(ticks) ==
    [i \in 1..Enroll |-> IF ticks = <<>> THEN -1 ELSE ticks[((i - 1) % Len(ticks)) + 1]]

(* The pieces in any order, joined and repeated to length.                 *)
Assembled(who) ==
    LET pieces == {s \in ToSet(Clean(who)) : Dur(s) >= MinPiece}
    IN {Fit(FlattenSeq([i \in DOMAIN order |-> TicksOf(order[i])])) : order \in SetToSeqs(pieces)}

NoSample == [kind |-> "none", audio |-> <<>>]

(* ChooseSample: what may be chosen.                                       *)
SamplesFor(who) ==
    IF CleanSpeech(who) < MinClean THEN {NoSample}
    ELSE IF Windows(who) # <<>>
    THEN {[kind |-> "window", audio |-> TicksOf(Span(c[1], c[1] + Enroll))] : c \in ToSet(Fullest(Windows(who)))}
    ELSE IF \A s \in ToSet(Clean(who)) : Dur(s) < MinPiece THEN {NoSample}
    ELSE {[kind |-> "assembled", audio |-> a] : a \in Assembled(who)}

(* Samples, for the next speaker: too little speech is that voice's error. *)
Choose ==
    /\ samples = "choosing" /\ Len(voices) < Len(scene.spans)
    /\ \E s \in SamplesFor(Len(voices) + 1) : voices' = Append(voices, s)
    /\ UNCHANGED <<scene, samples>>

AllChosen ==
    /\ samples = "choosing" /\ Len(voices) = Len(scene.spans) /\ samples' = "done"
    /\ UNCHANGED <<scene, voices>>

(* The embedder fails or the context ends: the rest is not chosen, and     *)
(* nothing is returned.                                                    *)
ChoiceFails == samples = "choosing" /\ samples' = "failed" /\ voices' = <<>> /\ UNCHANGED scene

(* SampleAt: "It is trusted as given".                                     *)
PlaceByHand ==
    /\ samples = "done" /\ samples' = "placed"
    /\ \E who \in DOMAIN voices, st \in 0..(scene.dur + 1) :
          voices' = [voices EXCEPT ![who] =
              [kind |-> "placed", audio |-> Fit(TicksOf(Span(Smaller(scene.dur, st), Smaller(scene.dur, st + Enroll))))]]
    /\ UNCHANGED scene

SmNext == Choose \/ AllChosen \/ ChoiceFails \/ PlaceByHand

SmSpec == SmInit /\ [][SmNext]_smvars

-----------------------------------------------------------------------------
(* Properties of a sample.                                                 *)

(* Tick by tick: who speaks, and who speaks with nobody within the margin. *)
Speaks(who, t) == \E s \in scene.spans[who] : s.start <= t /\ t < s.end
Apart(who, t)  == \A d \in 0..Margin, o \in DOMAIN scene.spans \ {who} : ~Speaks(o, t + d) /\ ~Speaks(o, t - d)
Alone(who, t)  == t \in 0..(scene.dur - 1) /\ Speaks(who, t) /\ Apart(who, t)

(* "the bleed at a hand-over is exactly what a sample must not contain"    *)
(* (tse.go:84-85), "for a voice that never speaks alone for 3 seconds at a *)
(* time" (tse.go:57-58): however turns overlap, nest and touch, a chosen   *)
(* sample has nobody else near it; an assembled one is this voice tick by  *)
(* tick and only for a voice without three seconds of its own; and a voice *)
(* gets none only where it has too little.                                 *)
SampleIsOnlyTheVoice ==
    \A who \in DOMAIN voices :
        LET v == voices[who]
            run(t, n) == \A d \in 0..(n - 1) : Alone(who, t + d)
        IN /\ v.kind = "window" => \A t \in ToSet(v.audio) : Apart(who, t) /\ t \in 0..(scene.dur - 1)
           /\ v.kind = "assembled" => /\ \A t \in ToSet(v.audio) : Alone(who, t)
                                      /\ \A t \in 0..scene.dur : ~run(t, Enroll)
           /\ v.kind = "none" => \/ Cardinality({t \in 0..scene.dur : Alone(who, t)}) < MinClean
                                 \/ \A t \in 0..scene.dur : ~run(t, MinPiece)

-----------------------------------------------------------------------------
(* Extracting one voice.                                                   *)

CONSTANTS
    RegionMerge, PreRoll,   \* regionMerge and regionPreRoll
    GateHop, Fade,          \* Gate.Hop and Gate.Fade
    TakeSet                   \* bound: recordings, [n, keep: the voice's own turns]

VARIABLES
    take,               \* the recording
    made,               \* sample -> where the state that made it began; -1 before
    extracted,                 \* how many regions are extracted
    hops,               \* Gate.Apply's decisions so far
    gain,               \* sample -> how much of it is let through, of 2 * Half + 1
    gate                \* "extracting", "gating", "done", "failed"

vgvars == <<take, made, extracted, hops, gain, gate>>

Half == Fade \div 2
Places == 0..(take.n - 1)

VgInit ==
    /\ take \in TakeSet /\ extracted = 0 /\ hops = <<>> /\ gate = "extracting"
    /\ made = [i \in Places |-> -1] /\ gain = [i \in Places |-> 0]

-----------------------------------------------------------------------------
(* regions: the edges of the voice's turns, those joined that are closer   *)
(* than a breath.                                                          *)
Cuts ==
    FoldLeft(LAMBDA c, s :
                IF c.seq # <<>> /\ s.start - c.last < RegionMerge
                THEN [seq |-> Append(Front(c.seq), s.end), last |-> s.end]
                ELSE [seq |-> c.seq \o <<s.start, s.end>>, last |-> s.end],
             [seq |-> <<>>, last |-> 0], Merged(take.keep)).seq

Bounds ==
    LET within(t) == Larger(0, Smaller(take.n, t))
    IN Append(FoldLeft(LAMBDA b, c : IF within(c) > Last(b) /\ within(c) < take.n THEN Append(b, within(c)) ELSE b,
                       <<0>>, Cuts), take.n)

Regions ==
    SelectSeq([i \in 1..(Len(Bounds) - 1) |->
                  [feed |-> Larger(0, Bounds[i] - PreRoll), start |-> Bounds[i], end |-> Bounds[i + 1]]],
              LAMBDA r : r.start < r.end)

(* Isolate from a fresh state; what was fed before the region is dropped.  *)
ExtractRegion ==
    /\ gate = "extracting" /\ extracted < Len(Regions) /\ extracted' = extracted + 1
    /\ made' = [i \in Places |-> IF Regions[extracted + 1].start <= i /\ i < Regions[extracted + 1].end
                                  THEN Regions[extracted + 1].feed ELSE made[i]]
    /\ UNCHANGED <<take, hops, gain, gate>>

Gating ==
    /\ gate = "extracting" /\ extracted = Len(Regions) /\ gate' = "gating"
    /\ UNCHANGED <<take, made, extracted, hops, gain>>

-----------------------------------------------------------------------------
HopCount == (take.n + GateHop - 1) \div GateHop

(* "passed whatever the embedding says: the chosen speaker's own turns";   *)
(* silence is passed, what is not the voice is not.                        *)
Decide ==
    /\ gate = "gating" /\ Len(hops) < HopCount
    /\ LET st  == Len(hops) * GateHop
           own == Coverage(Merged(take.keep), Span(st, Smaller(take.n, st + GateHop))) > 0
       IN \E on \in BOOLEAN : (own => on) /\ hops' = Append(hops, on)
    /\ UNCHANGED <<take, made, extracted, gain, gate>>

PassedAt(i) == hops[Smaller(take.n - 1, Larger(0, i)) \div GateHop + 1]
Through(i) == IF PassedAt(i) THEN 1 ELSE 0
Share(i) == Cardinality({j \in (i - Half)..(i + Half) : PassedAt(j)})

(* Mutant: the hop before decides.                                         *)
SteadySoFar(k) == k = 1 \/ hops[k - 1] = hops[k]

(* A hop between two of its kind needs no ramp.                            *)
Steady(k) == (k = 1 \/ hops[k - 1] = hops[k]) /\ (k = Len(hops) \/ hops[k + 1] = hops[k])

(* "A sliding count over the window": counted at the hop's first sample,   *)
(* then one comes in and one goes out.                                     *)
Slid(k) ==
    LET st == (k - 1) * GateHop
        c[i \in st..(st + GateHop)] ==
            IF i = st THEN Share(st) ELSE c[i - 1] + Through(i + Half) - Through(i - 1 - Half)
    IN c

(* crossfade.                                                              *)
Crossfade ==
    /\ gate = "gating" /\ Len(hops) = HopCount /\ gate' = "done"
    /\ gain' = [i \in Places |->
          LET k == i \div GateHop + 1
          IN IF Steady(k) \/ Half = 0 THEN (2 * Half + 1) * Through(i) ELSE Slid(k)[i]]
    /\ UNCHANGED <<take, made, extracted, hops>>

(* A graph fails, or the context ends: nothing is returned.                *)
ExtractFails ==
    /\ gate \in {"extracting", "gating"} /\ gate' = "failed"
    /\ UNCHANGED <<take, made, extracted, hops, gain>>

VgNext == ExtractRegion \/ Gating \/ Decide \/ Crossfade \/ ExtractFails

VgSpec == VgInit /\ [][VgNext]_vgvars

-----------------------------------------------------------------------------
(* Properties of what is extracted.                                        *)

OwnTick(i) == \E s \in take.keep : s.start <= i /\ i < s.end

(* The voice speaks at i and has not been silent for a breath since j.     *)
SameTurn(j, i) ==
    OwnTick(j) /\ \A t \in j..i : \E u \in (t - RegionMerge + 1)..t : u >= j /\ OwnTick(u)

(* "so the extractor starts every turn of the chosen voice the way it      *)
(* starts a recording" (engine.go:60-61): every sample is made exactly     *)
(* once, a turn in one piece from a state that began its pre-roll before   *)
(* the turn did, and nothing else shares that state.                       *)
TurnsStartFresh ==
    gate \in {"gating", "done"} =>
        \A i \in Places :
            /\ made[i] >= 0
            /\ OwnTick(i) => made[i] = Larger(0, Min({j \in Places : SameTurn(j, i)}) - PreRoll)

(* "The gain at a sample is the share of kept samples in the fade window   *)
(* around it, the ends of the recording held" (tse.go:370-372): no change  *)
(* is a click, what is judged somebody else is silent a fade away from the *)
(* voice, and the voice's own turns always come through.                   *)
FadesAreSmooth ==
    gate = "done" =>
        \A i \in Places :
            /\ gain[i] = Share(i)
            /\ i > 0 => gain[i] - gain[i - 1] \in -1..1
            /\ OwnTick(i) => gain[i] > Half
=============================================================================
