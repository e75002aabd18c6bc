----------------------------- MODULE PipelineRun ------------------------------
(***************************************************************************)
(* Pipeline.transcribe (internal/pipeline/pipeline.go, channels.go,        *)
(* diarize.go, postproc.go, stage.go): several runs share the inference    *)
(* slots and the leases of a model.  A run decodes, leases, works through  *)
(* its channels batch by batch, separates speakers and post-processes; any *)
(* step may fail, its context may end and native code may panic.  The      *)
(* slots are Governor's: a run waits until there are NumThreads free.      *)
(***************************************************************************)
EXTENDS Weighted, Sequences, FiniteSetsExt, SequencesExt

CONSTANTS
    Transcription,          \* the runs
    Slots, NumThreads,      \* the governor's capacity and what a run takes
    BatchMaxSize, BatchMaxSamples,
    Segmentations           \* what vad may find in a channel: sequences of lengths

ASSUME PipelineAssumption ==
    /\ IsFiniteSet(Transcription) /\ Segmentations \subseteq Seq(Nat)
    /\ Slots \in Nat /\ NumThreads \in 1..Slots /\ BatchMaxSize \in Nat \ {0}

VARIABLES
    prun,       \* run -> stage, channels to come, from: segments of this one answered, answers, found
    taken,      \* run -> slots it has of the governor
    leased      \* runs with a lease

plvars == <<prun, taken, leased>>

Start == [stage |-> "starting", split |-> FALSE, diarize |-> FALSE, punctuate |-> FALSE,
          channels |-> <<>>, from |-> 0, answers |-> <<>>, found |-> 0, batch |-> <<>>]

PlInit ==
    /\ prun = [t \in Transcription |-> Start]
    /\ taken = [t \in Transcription |-> 0] /\ leased = {}

Free == Slots - Weight(Transcription, taken)
Moves(t, stage) == prun' = [prun EXCEPT ![t].stage = stage]

-----------------------------------------------------------------------------
(* resolveModel and decode: one track per channel, one unless it is split. *)
DecodesAudio(t, channels, d, p) ==
    /\ prun[t].stage = "starting"
    /\ prun' = [prun EXCEPT ![t] = [Start EXCEPT !.stage = "decoded", !.split = Len(channels) > 1,
                   !.diarize = d, !.punctuate = p, !.channels = channels]]
    /\ UNCHANGED <<taken, leased>>

(* acquire: a lease that the end of the run releases.                      *)
Leases(t) ==
    /\ prun[t].stage = "decoded" /\ leased' = leased \cup {t} /\ Moves(t, "asr")
    /\ UNCHANGED taken

Segments(t) == Head(prun[t].channels)

(* A batch is the places of the next segments; its length is theirs.       *)
Batch(from, n) == [k \in 1..(n - from) |-> from + k]
BatchLength(segs, batch) == FoldLeft(LAMBDA x, k : x + segs[k], 0, batch)

(* Mutant: the duration is looked at before the first segment too.         *)
BatchEndStrict(segs, from) ==
    Max({from} \cup {n \in (from + 1)..Len(segs) : n - from <= BatchMaxSize
          /\ BatchLength(segs, Batch(from, n)) <= BatchMaxSamples})

(* recognise: at least one segment, at most BatchMaxSize, and no more than *)
(* fit in BatchMaxSamples.                                                 *)
BatchEnd(segs, from) ==
    Max({n \in (from + 1)..Len(segs) : n - from <= BatchMaxSize
          /\ (n = from + 1 \/ BatchLength(segs, Batch(from, n)) <= BatchMaxSamples)})

(* Acquire waits for its slots; when the context ends it Fails.            *)
Takes(t) == Free >= NumThreads /\ taken' = [taken EXCEPT ![t] = NumThreads]

BatchTakes(t) ==
    /\ prun[t].stage = "asr" /\ prun[t].channels # <<>> /\ prun[t].from < Len(Segments(t))
    /\ Takes(t)
    /\ prun' = [prun EXCEPT ![t].stage = "decoding",
                            ![t].batch = Batch(prun[t].from, BatchEnd(Segments(t), prun[t].from))]
    /\ UNCHANGED leased

Returned(t) == taken' = [taken EXCEPT ![t] = 0]

BatchDecoded(t) ==
    /\ prun[t].stage = "decoding" /\ Returned(t)
    /\ prun' = [prun EXCEPT ![t].stage = "asr", ![t].from = @ + Len(prun[t].batch),
                            ![t].answers = @ \o prun[t].batch, ![t].batch = <<>>]
    /\ UNCHANGED leased

(* buildSegments, and on to the next channel; after the last, assemble.    *)
ChannelDone(t) ==
    /\ prun[t].stage = "asr" /\ prun[t].channels # <<>> /\ prun[t].from = Len(Segments(t))
    /\ prun' = [prun EXCEPT ![t].channels = Tail(@), ![t].from = 0, ![t].answers = <<>>,
                            ![t].found = @ + Len(prun[t].answers)]
    /\ UNCHANGED <<taken, leased>>

(* runsDiarizer: "the cases it returns early on need no threads".          *)
RunsDiarizer(t) == prun[t].diarize /\ prun[t].found > 0 /\ ~prun[t].split

SpeakersTake(t) ==
    /\ prun[t].stage = "asr" /\ prun[t].channels = <<>>
    /\ IF RunsDiarizer(t) THEN Takes(t) /\ Moves(t, "diarizing")
                          ELSE Moves(t, "separated") /\ UNCHANGED taken
    /\ UNCHANGED leased

(* Mutant: the slots of the diarizer are kept for the punctuation.         *)
SpeakersFoundHolding(t) ==
    /\ prun[t].stage = "diarizing" /\ Moves(t, "separated") /\ UNCHANGED <<taken, leased>>

SpeakersFound(t) ==
    /\ prun[t].stage = "diarizing" /\ Returned(t) /\ Moves(t, "separated") /\ UNCHANGED leased

(* post: only a punctuation model runs threads.                            *)
PostTakes(t) ==
    /\ prun[t].stage = "separated"
    /\ IF prun[t].punctuate THEN Takes(t) ELSE UNCHANGED taken
    /\ Moves(t, "posting")
    /\ UNCHANGED leased

(* A strict request is refused here for its warnings; it is over all the   *)
(* same.                                                                   *)
Ends(t) ==
    /\ prun' = [prun EXCEPT ![t] = [Start EXCEPT !.stage = "over"]]
    /\ Returned(t) /\ leased' = leased \ {t}

PostDone(t) == prun[t].stage = "posting" /\ Ends(t)

(* Mutant: Decode's slots are not given back when it panics.               *)
FailsHolding(t) ==
    /\ prun[t].stage \in {"decoding", "diarizing", "posting"} /\ Moves(t, "over")
    /\ leased' = leased \ {t} /\ UNCHANGED taken

(* An error, the end of the context or a panic that the handler recovers:  *)
(* whatever was deferred runs.                                             *)
Fails(t) == prun[t].stage \notin {"over"} /\ Ends(t)

PlNext ==
    \E t \in Transcription :
        \/ \E channels \in {<<s>> : s \in Segmentations} \cup {<<s, r>> : s, r \in Segmentations},
              d, p \in BOOLEAN : DecodesAudio(t, channels, d, p)
        \/ Leases(t) \/ BatchTakes(t) \/ BatchDecoded(t) \/ ChannelDone(t)
        \/ SpeakersTake(t) \/ SpeakersFound(t) \/ PostTakes(t) \/ PostDone(t)
        \/ Fails(t)

PlSpec == PlInit /\ [][PlNext]_plvars

-----------------------------------------------------------------------------
(* Properties.                                                             *)

(* Slots are held for one step of inference at a time: nobody waits for    *)
(* slots, or has ended, with some in hand, so no two runs can wait for     *)
(* each other, and none is lost when a step fails ("the governor would     *)
(* quietly fill up across panics", pipeline.go:362).                       *)
NobodyWaitsWithSlots ==
    \A t \in Transcription :
        /\ taken[t] # 0 => prun[t].stage \in {"decoding", "diarizing", "posting"}
        /\ prun[t].stage = "over" => t \notin leased

(* Every segment of a channel is decoded once and in its place, so that    *)
(* recognition i is segment i's; a batch is never empty, which would be    *)
(* for ever, and over its duration only when one segment is.               *)
RecognitionsLineUp ==
    \A t \in Transcription :
        /\ prun[t].stage = "decoding" =>
              /\ Len(prun[t].batch) \in 1..BatchMaxSize
              /\ Len(prun[t].batch) = 1 \/ BatchLength(Segments(t), prun[t].batch) <= BatchMaxSamples
        /\ prun[t].answers = [i \in 1..prun[t].from |-> i]

(* Slots that are in use are somebody's who computes: with nobody at work  *)
(* the whole capacity is there, and never more than it is used.            *)
SlotsComeBack ==
    /\ Free >= 0
    /\ (\A t \in Transcription : prun[t].stage \in {"starting", "over"}) => Free = Slots /\ leased = {}

(* Transcriptions share the machine: none waits with slots in its hands,   *)
(* every slot comes back, and each gets its own recognitions in order.     *)
RunsShareTheMachine == NobodyWaitsWithSlots /\ RecognitionsLineUp /\ SlotsComeBack
=============================================================================
