------------------------------ MODULE VoiceStream ------------------------------
(***************************************************************************)
(* One recording isolated to one voice (tse/voxlock): Stream.Push cuts     *)
(* what it is given into overlapping frames and adds up what the extractor *)
(* makes of them, Flush ends the recording, Isolate drives both.  The      *)
(* extractor is external; what it makes of a sample in a frame is told     *)
(* apart by the frame its state has counted and by the sample, so that an  *)
(* output sample is the set of the contributions added up for it.  The     *)
(* envelope env counts the same contributions and is not kept twice.       *)
(***************************************************************************)
EXTENDS Naturals, Sequences

CONSTANTS
    Hop, Nfft,          \* hop and nfft, in samples
    FramesPerRun,       \* framesPerRun
    FixedSizes,         \* what fixedFrames may return: 0, or the frames of every call
    Lengths, Pieces     \* bounds: samples in a recording, in one Push

VARIABLES
    length,             \* samples of the recording
    fixed,              \* fixedFrames
    pushed,             \* samples pushed
    call,               \* the call under way: "none", "Push", "Flush"
    stream,             \* Stream: head, started, buf, ola, dropped; the frames its state has seen
    out,                \* drain's out
    isolated,           \* what Push and Flush returned, joined
    ended               \* "no", "flushed", "failed"

vsvars == <<length, fixed, pushed, call, stream, out, isolated, ended>>

Pad == Nfft \div 2

ASSUME StreamAssumption ==
    /\ Hop \in Nat \ {0} /\ Nfft \in Nat /\ Nfft = 2 * Pad /\ Hop < Pad
    /\ FramesPerRun \in Nat \ {0} /\ FixedSizes \subseteq Nat
    /\ Lengths \subseteq Nat /\ Pieces \subseteq Nat \ {0}

(* A sample is its place in the recording; 0 is silence.                   *)
Zeros(n) == [i \in 1..n |-> 0]
Unadded(n) == [i \in 1..n |-> {}]

VsInit ==
    /\ length \in Lengths /\ fixed \in FixedSizes /\ pushed = 0
    /\ stream = [head |-> <<>>, started |-> FALSE, buf |-> <<>>, ola |-> Unadded(Nfft), dropped |-> 0, seen |-> 0]
    /\ call = "none" /\ out = <<>> /\ isolated = <<>> /\ ended = "no"

-----------------------------------------------------------------------------
(* Frame j of the buffer touches place p of it; the window gives the first *)
(* sample of a frame no weight.                                            *)
Touches(j, p) == j * Hop + 1 < p /\ p <= j * Hop + Nfft

(* "the last call is padded": the state a call of fixed size leaves has    *)
(* seen the padding.                                                       *)
Seen(k) == IF fixed > 0 THEN fixed ELSE k

FramesIn(n) == IF n < Nfft THEN 0 ELSE 1 + (n - Nfft) \div Hop

(* The frames of the next call.                                            *)
PerCall == IF fixed > 0 THEN fixed ELSE FramesPerRun
NextCall == IF FramesIn(Len(stream.buf)) < PerCall THEN FramesIn(Len(stream.buf)) ELSE PerCall

(* Mutant: a call of fixed size is made with whatever there is.            *)
WaitsNever(k) == FALSE

(* "only called with a full chunk until the stream ends".                  *)
Waits(k) == k < PerCall /\ fixed > 0 /\ call # "Flush"

Exhausted == NextCall = 0 \/ Waits(NextCall)

(* What the first k frames of the buffer add to place p of the overlap-add. *)
Added(k, p) ==
    (IF p <= Nfft THEN stream.ola[p] ELSE {}) \cup
    {<<stream.seen + j, stream.buf[p]>> : j \in {i \in 0..(k - 1) : Touches(i, p)}}

(* "the first pad samples mirrored around the first one", and the last.    *)
MirroredStart(head) == [i \in 1..Pad |-> head[Pad + 2 - i]] \o head

Less(n, m) == IF n < m THEN 0 ELSE n - m

MirroredEnd(buf) ==
    buf \o [i \in 1..(IF Pad < Less(Len(buf), 1) THEN Pad ELSE Less(Len(buf), 1)) |-> buf[Len(buf) - i]]

-----------------------------------------------------------------------------
(* Isolate pushes a chunk, or somebody with a stream of their own does.    *)
Push ==
    /\ ended = "no" /\ call = "none" /\ pushed < length
    /\ \E n \in Pieces :
          LET k    == IF n < length - pushed THEN n ELSE length - pushed
              more == [i \in 1..k |-> pushed + i]
              head == stream.head \o more
          IN /\ pushed' = pushed + k
             /\ IF stream.started
                THEN call' = "Push" /\ stream' = [stream EXCEPT !.buf = @ \o more]
                ELSE IF Len(head) <= Pad
                THEN call' = "none" /\ stream' = [stream EXCEPT !.head = head]
                ELSE /\ call' = "Push"
                     /\ stream' = [stream EXCEPT !.buf = MirroredStart(head), !.head = <<>>,
                                                 !.started = TRUE, !.dropped = Pad]
    /\ UNCHANGED <<length, fixed, out, isolated, ended>>

(* drain: one call of the extractor, for the first frames of the buffer.   *)
ExtractFrames ==
    /\ ended = "no" /\ call # "none" /\ ~Exhausted
    /\ LET k    == NextCall
           done == k * Hop
           cut  == IF stream.dropped < done THEN stream.dropped ELSE done
       IN /\ stream' = [stream EXCEPT !.buf = SubSeq(@, done + 1, Len(@)),
                                      !.ola = [p \in 1..Nfft |-> Added(k, done + p)],
                                      !.seen = @ + Seen(k), !.dropped = @ - cut]
          /\ out' = out \o [p \in 1..(done - cut) |-> Added(k, cut + p)]
    /\ UNCHANGED <<length, fixed, pushed, call, isolated, ended>>

(* Push returns what is ready.                                             *)
PushReturns ==
    /\ ended = "no" /\ call = "Push" /\ Exhausted
    /\ isolated' = isolated \o out /\ out' = <<>> /\ call' = "none"
    /\ UNCHANGED <<length, fixed, pushed, stream, ended>>

(* Isolate ends the recording, with zeros up to a whole frame; nothing was *)
(* pushed, nothing comes back.                                             *)
Flush ==
    /\ ended = "no" /\ call = "none" /\ pushed = length
    /\ IF ~stream.started /\ stream.head = <<>>
       THEN ended' = "flushed" /\ UNCHANGED <<call, stream>>
       ELSE LET buf == MirroredEnd(IF stream.started THEN stream.buf ELSE stream.head)
            IN /\ stream' = [stream EXCEPT !.buf = buf \o Zeros(Less(Nfft, Len(buf))),
                                           !.head = <<>>, !.started = TRUE]
               /\ call' = "Flush" /\ ended' = ended
    /\ UNCHANGED <<length, fixed, pushed, out, isolated>>

(* Flush returns what is ready and what is left in the overlap-add; what   *)
(* Isolate then misses is made silence, what is over is cut.               *)
FlushReturns ==
    /\ ended = "no" /\ call = "Flush" /\ Exhausted
    /\ isolated' = isolated \o (out \o stream.ola) /\ out' = <<>>
    /\ stream' = [stream EXCEPT !.buf = <<>>]
    /\ call' = "none" /\ ended' = "flushed"
    /\ UNCHANGED <<length, fixed, pushed>>

(* The extractor fails, or the context ends between two calls.             *)
Abandon ==
    /\ ended = "no" /\ ended' = "failed"
    /\ UNCHANGED <<length, fixed, pushed, call, stream, out, isolated>>

VsNext == Push \/ ExtractFrames \/ PushReturns \/ Flush \/ FlushReturns \/ Abandon

VsSpec == VsInit /\ [][VsNext]_vsvars

-----------------------------------------------------------------------------
(* Properties.                                                             *)

(* What the reference makes of sample i: the contributions of the frames   *)
(* of the padded recording that touch it, each of the audio at its place   *)
(* and with a state that has seen exactly the frames before it.            *)
InOnePass(i) == {<<f, i>> : f \in {j \in 0..(length \div Hop) : Touches(j, i + Pad)}}

(* "exactly as long as the input" (voxlock.go:261-262): however the        *)
(* recording is cut into pieces and whichever graph extracts it, every     *)
(* sample returned is the one the whole recording gives in one pass; when  *)
(* it is flushed every sample has come, and while it runs no more is held  *)
(* back between two calls than the frames of one.                          *)
StreamIsOnePass ==
    /\ length > Pad => \A i \in 1..length : i <= Len(isolated) => isolated[i] = InOnePass(i)
    /\ ended = "flushed" => Len(isolated) >= length
    /\ ended = "no" /\ call = "none" /\ pushed > Pad =>
          pushed < Len(isolated) + Nfft + (IF fixed > 0 THEN fixed - 1 ELSE 0) * Hop
=============================================================================
