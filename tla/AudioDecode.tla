------------------------------ MODULE AudioDecode ------------------------------
(***************************************************************************)
(* A compressed file decoded by ffmpeg (audio/ffmpeg.go): the goroutine    *)
(* that feeds it, the one that reads what it writes, the pipes between     *)
(* them, and the watch that os/exec keeps on the context.  The program     *)
(* started may be a wrapper whose child does the work and holds the pipes; *)
(* it may also hang.  Bytes of the answer are numbered; a header, where    *)
(* channels are split and the answer is a WAV, has the number 0.           *)
(***************************************************************************)
EXTENDS Naturals, Sequences, SequencesExt

CONSTANTS
    SampleBytes,        \* bytes of a sample (a frame, where channels are split)
    Block,              \* samples the WAV decoder reads at once
    Room,               \* bytes a pipe holds
    Inputs,             \* bound: [blocks, samples, sound] of a file
    Limits              \* bound: most samples allowed

ASSUME DecodeAssumption ==
    /\ SampleBytes \in Nat \ {0} /\ Block \in Nat /\ Room \in Nat /\ Limits \subseteq Nat
    /\ Inputs \subseteq [blocks : Nat, samples : Nat, sound : BOOLEAN]
    /\ \A input \in Inputs : input.sound => input.blocks > 0

VARIABLES
    request,              \* [input, split, limit, wrapper]
    feed,               \* the feeding goroutine: [at, left, short]
    stdin,              \* blocks held, and whether the feeder has closed it
    worker,             \* what does the work: [at: "run", "ok", "bad", "killed", took, wrote]
    proc,               \* the program that was started: as worker.at
    stdout,             \* bytes held
    ended,              \* the context: "no", "deadline", "canceled"
    watch,              \* os/exec: "waits", "killed", "over"
    open,               \* our ends of the pipes
    dec                 \* Decode: [at, buf, out, head, err, wait, answer]

advars == <<request, feed, stdin, worker, proc, stdout, ended, watch, open, dec>>

Decodings == [input : Inputs, split : BOOLEAN, limit : Limits, wrapper : BOOLEAN]

AdInit ==
    /\ request \in Decodings
    /\ feed = [at |-> "reads", left |-> request.input.blocks, short |-> FALSE]
    /\ stdin = [held |-> 0, closed |-> FALSE]
    /\ worker = [at |-> "run", took |-> 0, wrote |-> 0]
    /\ proc = "run" /\ stdout = <<>> /\ ended = "no" /\ watch = "waits" /\ open = TRUE
    /\ dec = [at |-> IF request.split THEN "head" ELSE "check", buf |-> <<>>, out |-> <<>>,
              err |-> "none", failed |-> FALSE, answer |-> "none"]

-----------------------------------------------------------------------------
(* The program.  What it makes of n blocks of input.                       *)
Works == worker.at = "run"
First == IF request.split THEN 0 ELSE 1
Makes(n) ==
    IF ~request.input.sound THEN 0 ELSE (request.input.samples * SampleBytes * n) \div request.input.blocks

Stops(how) ==
    /\ worker' = [worker EXCEPT !.at = how]
    /\ proc' = IF request.wrapper THEN proc ELSE how

WorkerTakes ==
    /\ Works /\ stdin.held > 0
    /\ stdin' = [stdin EXCEPT !.held = @ - 1] /\ worker' = [worker EXCEPT !.took = @ + 1]
    /\ UNCHANGED <<request, feed, proc, stdout, ended, watch, open, dec>>

(* A pipe nobody reads ends the program that writes to it.                 *)
WorkerWrites ==
    LET next == First + worker.wrote
    IN /\ Works /\ worker.took > 0 /\ request.input.sound /\ next <= Makes(worker.took)
       /\ IF open
          THEN /\ Len(stdout) < Room /\ stdout' = Append(stdout, next)
               /\ worker' = [worker EXCEPT !.wrote = @ + 1] /\ UNCHANGED proc
          ELSE Stops("bad") /\ UNCHANGED stdout
       /\ UNCHANGED <<request, feed, stdin, ended, watch, open, dec>>

(* The end of its input; a file that has no sound is refused before.       *)
WorkerEnds ==
    /\ Works
    /\ \/ /\ request.input.sound /\ worker.took > 0 /\ First + worker.wrote > Makes(worker.took)
          /\ stdin.held = 0 /\ (stdin.closed \/ ~open)
          /\ Stops("ok")
       \/ (~request.input.sound \/ feed.short) /\ Stops("bad")
    /\ UNCHANGED <<request, feed, stdin, stdout, ended, watch, open, dec>>

WrapperExits ==
    /\ request.wrapper /\ ~Works /\ proc = "run" /\ proc' = worker.at
    /\ UNCHANGED <<request, feed, stdin, worker, stdout, ended, watch, open, dec>>

-----------------------------------------------------------------------------
(* "Feed the input on a goroutine": io.Copy, whose error nobody looks at.  *)
FeedEnds(short) ==
    /\ feed' = [feed EXCEPT !.at = "done", !.short = short]
    /\ stdin' = [stdin EXCEPT !.closed = TRUE]

Feed ==
    /\ feed.at = "reads"
    /\ IF feed.left = 0 \/ ~Works \/ ~open THEN FeedEnds(feed.left > 0)
       ELSE /\ stdin.held < Room
            /\ feed' = [feed EXCEPT !.left = @ - 1] /\ stdin' = [stdin EXCEPT !.held = @ + 1]
    /\ UNCHANGED <<request, worker, proc, stdout, ended, watch, open, dec>>

InputFails ==
    /\ feed.at = "reads" /\ feed.left > 0 /\ FeedEnds(TRUE)
    /\ UNCHANGED <<request, worker, proc, stdout, ended, watch, open, dec>>

(* The decode timeout, or the request's own end.                           *)
RequestEnds(how) ==
    /\ ended = "no" /\ dec.at # "done" /\ ended' = how
    /\ UNCHANGED <<request, feed, stdin, worker, proc, stdout, watch, open, dec>>

(* cmd.Cancel: the program, not its children.                              *)
WatchKills ==
    /\ ended # "no" /\ watch = "waits" /\ watch' = "killed"
    /\ proc' = IF proc = "run" THEN "killed" ELSE proc
    /\ worker' = IF Works /\ ~request.wrapper THEN [worker EXCEPT !.at = "killed"] ELSE worker
    /\ UNCHANGED <<request, feed, stdin, stdout, ended, open, dec>>

(* Mutant: no cmd.WaitDelay.                                               *)
NoDelay == FALSE

(* "WaitDelay is what guarantees the process is gone even if it ignores    *)
(* the signal or a child keeps the pipe open".                             *)
WaitDelay == TRUE

WatchCloses ==
    /\ WaitDelay /\ watch = "killed" /\ open /\ open' = FALSE
    /\ UNCHANGED <<request, feed, stdin, worker, proc, stdout, ended, watch, dec>>

-----------------------------------------------------------------------------
(* consume: the samples in a run of bytes, and what is left of it.         *)
Whole(buf) == [i \in 1..(Len(buf) \div SampleBytes) |-> SubSeq(buf, SampleBytes * (i - 1) + 1, SampleBytes * i)]
Rest(buf) == SubSeq(buf, SampleBytes * (Len(buf) \div SampleBytes) + 1, Len(buf))

(* Mutant: the bytes a read has split off a sample are not kept.           *)
CarryNothing(buf) == <<>>

(* "A read can split a sample; keep the remainder for the next one."       *)
Carry(buf) == Rest(buf)

Drains(out, err) == dec' = [dec EXCEPT !.at = "drain", !.out = out, !.err = err]

(* What has been read is enough for a conversion, or too much, or the end. *)
Converted(buf, eof) ==
    LET out == dec.out \o Whole(buf)
        ready == ~request.split \/ eof \/ Len(buf) = Block * SampleBytes
    IN IF ~ready THEN dec' = [dec EXCEPT !.buf = buf]
       ELSE IF Len(out) > request.limit THEN Drains(out, "exceeded")
       ELSE IF ~eof THEN dec' = [dec EXCEPT !.at = "check", !.buf = Carry(buf), !.out = out]
       ELSE Drains(out, IF request.split /\ out = <<>> THEN "invalid" ELSE "none")

AtEnd == stdout = <<>> /\ ~Works /\ proc # "run"

Check ==
    /\ dec.at = "check"
    /\ IF ended # "no" THEN Drains(dec.out, "context") ELSE dec' = [dec EXCEPT !.at = "read"]
    /\ UNCHANGED <<request, feed, stdin, worker, proc, stdout, ended, watch, open>>

ReadHead ==
    /\ dec.at = "head"
    /\ \/ stdout # <<>> /\ open /\ stdout' = Tail(stdout) /\ dec' = [dec EXCEPT !.at = "check"]
       \/ (AtEnd \/ ~open) /\ Drains(<<>>, "invalid") /\ UNCHANGED stdout
    /\ UNCHANGED <<request, feed, stdin, worker, proc, ended, watch, open>>

(* One read, of as many bytes as there happen to be; where channels are    *)
(* split, io.ReadFull goes on until a block is full.                       *)
Read ==
    /\ dec.at = "read"
    /\ \/ /\ open /\ stdout # <<>>
          /\ \E n \in 1..Len(stdout) :
                /\ request.split => Len(dec.buf) + n <= Block * SampleBytes
                /\ Converted(dec.buf \o SubSeq(stdout, 1, n), FALSE)
                /\ stdout' = SubSeq(stdout, n + 1, Len(stdout))
       \/ open /\ AtEnd /\ Converted(dec.buf, TRUE) /\ UNCHANGED stdout
       \/ ~open /\ Drains(dec.out, IF request.split THEN "invalid" ELSE "internal") /\ UNCHANGED stdout
    /\ UNCHANGED <<request, feed, stdin, worker, proc, ended, watch, open>>

(* "Drain whatever is left so ffmpeg is never blocked".                    *)
Drain ==
    /\ dec.at = "drain"
    /\ stdout' = <<>> /\ dec' = IF AtEnd \/ ~open THEN [dec EXCEPT !.at = "wait"] ELSE dec
    /\ stdout # <<>> \/ AtEnd \/ ~open
    /\ UNCHANGED <<request, feed, stdin, worker, proc, ended, watch, open>>

(* cmd.Wait: the program has gone, and its child has closed stderr or the  *)
(* delay is over.                                                          *)
Wait ==
    /\ dec.at = "wait" /\ proc # "run" /\ (~Works \/ WaitDelay)
    /\ \E late \in BOOLEAN :
          /\ late => watch = "killed"
          /\ dec' = [dec EXCEPT !.at = "feed", !.failed = proc # "ok" \/ Works \/ late]
    /\ watch' = "over" /\ open' = FALSE
    /\ UNCHANGED <<request, feed, stdin, worker, proc, stdout, ended>>

(* Mutant: what the program says when it exits is not request for.           *)
AnswerUnwaited ==
    IF dec.err = "context" THEN ended ELSE IF dec.err # "none" THEN dec.err
    ELSE IF dec.out = <<>> THEN "silent" ELSE "ok"

Answer ==
    IF dec.err = "context" THEN ended ELSE IF dec.err # "none" THEN dec.err
    ELSE IF dec.failed THEN IF ended = "no" THEN "unsupported" ELSE ended
    ELSE IF dec.out = <<>> THEN "silent" ELSE "ok"

FeedWait ==
    /\ dec.at = "feed" /\ feed.at = "done"
    /\ dec' = [dec EXCEPT !.at = "done", !.answer = Answer]
    /\ UNCHANGED <<request, feed, stdin, worker, proc, stdout, ended, watch, open>>

Decode == Check \/ ReadHead \/ Read \/ Drain \/ Wait \/ FeedWait

AdNext ==
    \/ WorkerTakes \/ WorkerWrites \/ WorkerEnds \/ WrapperExits
    \/ Feed \/ InputFails \/ \E how \in {"deadline", "canceled"} : RequestEnds(how)
    \/ WatchKills \/ WatchCloses \/ Decode

AdSpec == AdInit /\ [][AdNext]_advars

-----------------------------------------------------------------------------
(* Properties.                                                             *)

(* "Decode must respect ctx" (audio.go), "a wedged ffmpeg cannot outlive   *)
(* the request that started it": whatever the program and its children do, *)
(* a decode comes back, and when it does the program is gone, the feeder   *)
(* too, and no pipe is left open.                                          *)
DecodesReturn ==
    /\ ended # "no" ~> dec.at = "done"
    /\ [](dec.at = "done" => proc # "run" /\ feed.at = "done" /\ ~open)

(* Audio that is given is the whole of the file's, sample by sample, and   *)
(* within the limit, whatever pieces it came in and whoever stopped early; *)
(* and a refusal says what happened: only audio over the limit exceeds it, *)
(* only what ffmpeg cannot read is unsupported (where its answer is not a  *)
(* WAV), only what lasted too long has timed out.  A file that could not   *)
(* be read to its end is excepted.                                         *)
Samples == [i \in 1..request.input.samples |-> [j \in 1..SampleBytes |-> SampleBytes * (i - 1) + j]]

AnswersAreTrue ==
    dec.at = "done" /\ ~feed.short =>
        /\ dec.answer = "ok" => request.input.sound /\ dec.out = Samples /\ Len(Samples) <= request.limit
        /\ dec.answer = "exceeded" => request.input.samples > request.limit
        /\ dec.answer = "unsupported" => ~request.input.sound
        /\ dec.answer \in {"deadline", "canceled"} => ended = dec.answer
        /\ dec.answer = "internal" => ended # "no"
=============================================================================
