----------------------------- MODULE JobQueue -----------------------------
(***************************************************************************)
(* The transcription job queue: internal/job/queue.go and hub.go, over the *)
(* jobs table of internal/store/sqlite/store.go and the spool, with the    *)
(* start-up order of cmd/nanoasr/wire.go and the shutdown of main.go.      *)
(*                                                                         *)
(* A submitting request, a worker and a cancelling request are threads     *)
(* with a program counter.  One action is what a thread does under one     *)
(* lock or in one database statement, so every interleaving of the code's  *)
(* critical sections is a behaviour.  A process may end between any two of *)
(* them: memory is lost, the jobs table and the audio files are not.       *)
(***************************************************************************)
EXTENDS Spool

CONSTANTS
    Worker,         \* the goroutines of Queue.work
    Canceller,      \* requests that call Cancel, one call after another
    NoJob,
    QueueSize,      \* Queue.size
    Prio,           \* Prio[j]: 0 batch, 10 interactive
    HasDeadline,    \* maxRunTime > 0
    WritesMayFail,  \* a job's UPDATE may fail: a full disk, or a client that
                    \* hung up while its request carried the statement
    MaxRestarts     \* bound on process ends explored

ASSUME QueueAssumption ==
    /\ QueueSize \in Nat \ {0}
    /\ Prio \in [Job -> Nat]
    /\ HasDeadline \in BOOLEAN
    /\ WritesMayFail \in BOOLEAN
    /\ MaxRestarts \in Nat
    /\ NoJob \notin Job

VARIABLES
    items,      \* Queue.items: the waiting jobs
    running,    \* keys of Queue.running
    admitted,   \* Queue.admitted
    carried,    \* jobs carried forward by Recover in this process
    canceled,   \* Item.canceled
    ctx,        \* the job's context: "none" until Item.cancel is set
    stopped,    \* Queue.stopped
    cut,        \* cancelRunning has been called
    row,        \* status column of the jobs table, "none" without a row
    createdAt,  \* creation order of the rows, 0 without a row
    topic,      \* Hub.topics: last status published, "none" without a topic
    sub,        \* program counter of the request that submits the job
    wpc, wjob, verdict,   \* workers: counter, item, outcome of the run
    cpc, cjob,            \* cancelling requests: counter, job
    boot,       \* "up", or how far the start-up has come
    restarts,
    asked,      \* history: a client asked to cancel the job
    settled,    \* history: Cancel found the item and recorded "canceled"
    notified,   \* history: the status the webhook was told
    unwritten   \* history: jobs whose outcome could not be written

memoryVars  == <<items, running, admitted, carried, canceled, ctx>>
storeVars   == <<row, createdAt>>
workerVars  == <<wpc, wjob, verdict>>
cancelVars  == <<cpc, cjob>>
lifeVars    == <<stopped, cut, boot, restarts>>
tellVars    == <<notified, unwritten>>
historyVars == <<asked, settled, tellVars>>

vars == <<memoryVars, storeVars, topic, sub, workerVars, cancelVars,
          lifeVars, historyVars, spoolVars>>

-----------------------------------------------------------------------------
Terminal == {"succeeded", "failed", "canceled"}
Status   == {"none", "queued", "running"} \cup Terminal

SubmitPC == {"new", "admitted", "budgeted", "adopted", "recorded", "queued",
             "accepted", "remove", "release", "giveback", "refused", "lost"}
WorkerPC == {"idle", "popped", "starting", "announcing", "opening",
             "executing", "staging", "staged", "returned", "recording",
             "reporting", "removing", "releasing", "notifying", "exited"}
CancelPC == {"idle", "locate", "signal", "record", "load", "store",
             "publish", "remove", "release"}

(* The order sortLocked keeps: priority first, then age.                   *)
Before(j, k) ==
    \/ Prio[j] > Prio[k]
    \/ Prio[j] = Prio[k] /\ createdAt[j] < createdAt[k]

AtHead(j) == \A k \in items \ {j} : Before(j, k)

(* Mutant: a terminal status is kept as a topic.                           *)
PublishKeepsTopic(j, s) == topic' = [topic EXCEPT ![j] = s]

(* Hub.Publish: a terminal status drops the topic, and makes none.         *)
Publish(j, s) ==
    topic' = [topic EXCEPT ![j] = IF s \in Terminal THEN "none" ELSE s]

Init ==
    /\ SpoolInit
    /\ items = {} /\ running = {} /\ admitted = 0 /\ carried = 0
    /\ canceled = [j \in Job |-> FALSE]
    /\ ctx = [j \in Job |-> "none"]
    /\ stopped = FALSE /\ cut = FALSE
    /\ row = [j \in Job |-> "none"]
    /\ createdAt = [j \in Job |-> 0]
    /\ topic = [j \in Job |-> "none"]
    /\ sub = [j \in Job |-> "new"]
    /\ wpc = [w \in Worker |-> "idle"]
    /\ wjob = [w \in Worker |-> NoJob]
    /\ verdict = [w \in Worker |-> "none"]
    /\ cpc = [c \in Canceller |-> "idle"]
    /\ cjob = [c \in Canceller |-> NoJob]
    /\ boot = "up" /\ restarts = 0
    /\ asked = {} /\ settled = {}
    /\ notified = [j \in Job |-> "none"] /\ unwritten = {}

-----------------------------------------------------------------------------
(* Submit, Queue.Submit: one request per job.                              *)

SubmitGoto(j, from, to) ==
    /\ sub[j] = from
    /\ sub' = [sub EXCEPT ![j] = to]
    /\ UNCHANGED <<workerVars, cancelVars, lifeVars, historyVars,
                   running, carried, canceled, ctx>>

(* Mutant: submissions on their way are not counted.                       *)
HasRoomIgnoringAdmitted == ~stopped /\ Cardinality(items) < QueueSize

HasRoom == ~stopped /\ Cardinality(items) + admitted < QueueSize

(* reserve: draining and queue_full are refusals.                          *)
SubmitReserveSlot(j) ==
    /\ boot = "up"
    /\ \/ HasRoom /\ admitted' = admitted + 1 /\ SubmitGoto(j, "new", "admitted")
       \/ ~HasRoom /\ UNCHANGED admitted /\ SubmitGoto(j, "new", "refused")
    /\ UNCHANGED <<items, storeVars, topic, spoolVars>>

SubmitReserveBytes(j) ==
    /\ \/ Reserve(j) /\ SubmitGoto(j, "admitted", "budgeted")
       \/ /\ ReserveRefused(j)
          /\ SubmitGoto(j, "admitted", "giveback")
          /\ UNCHANGED spoolVars
    /\ UNCHANGED <<items, admitted, storeVars, topic>>

(* Mutant: a failed copy is not noticed.                                   *)
SubmitAdoptUnchecked(j) ==
    /\ Adopt(j) \/ UNCHANGED spoolVars
    /\ SubmitGoto(j, "budgeted", "adopted")
    /\ UNCHANGED <<items, admitted, storeVars, topic>>

SubmitAdopt(j) ==
    /\ \/ Adopt(j) /\ SubmitGoto(j, "budgeted", "adopted")
       \/ AdoptFails(j) /\ SubmitGoto(j, "budgeted", "release")
    /\ UNCHANGED <<items, admitted, storeVars, topic>>

SubmitCreate(j) ==
    /\ \/ /\ SubmitGoto(j, "adopted", "recorded")
          /\ row' = [row EXCEPT ![j] = "queued"]
          /\ createdAt' = [createdAt EXCEPT ![j] =
                             Cardinality({k \in Job : createdAt[k] > 0}) + 1]
       \/ SubmitGoto(j, "adopted", "remove") /\ UNCHANGED storeVars
    /\ UNCHANGED <<items, admitted, topic, spoolVars>>

(* The unwinding of a failed submission, one lock at a time.               *)
SubmitRemove(j) ==
    /\ SubmitGoto(j, "remove", "release")
    /\ RemoveFile(j)
    /\ UNCHANGED <<items, admitted, storeVars, topic>>

SubmitRelease(j) ==
    /\ SubmitGoto(j, "release", "giveback")
    /\ Release(j)
    /\ UNCHANGED <<items, admitted, storeVars, topic>>

SlotReturned == admitted' = IF admitted > 0 THEN admitted - 1 ELSE admitted

SubmitUnreserve(j) ==
    /\ SubmitGoto(j, "giveback", "refused")
    /\ SlotReturned
    /\ UNCHANGED <<items, storeVars, topic, spoolVars>>

(* Mutant: the slot is not given back when the item is queued.             *)
SubmitEnqueueKeepsSlot(j) ==
    /\ SubmitGoto(j, "recorded", "queued")
    /\ items' = items \cup {j}
    /\ UNCHANGED <<admitted, storeVars, topic, spoolVars>>

(* enqueue: the reservation becomes a queued item.                         *)
SubmitEnqueue(j) ==
    /\ SubmitGoto(j, "recorded", "queued")
    /\ SlotReturned
    /\ items' = items \cup {j}
    /\ UNCHANGED <<storeVars, topic, spoolVars>>

SubmitAnnounce(j) ==
    /\ SubmitGoto(j, "queued", "accepted")
    /\ Publish(j, "queued")
    /\ UNCHANGED <<items, admitted, storeVars, spoolVars>>

SubmitContinues(j) ==
    \/ SubmitReserveBytes(j) \/ SubmitAdopt(j) \/ SubmitCreate(j)
    \/ SubmitRemove(j) \/ SubmitRelease(j) \/ SubmitUnreserve(j)
    \/ SubmitEnqueue(j) \/ SubmitAnnounce(j)

-----------------------------------------------------------------------------
(* Workers: work, next, run, finish.                                       *)

WorkerGoto(w, from, to) ==
    /\ wpc[w] = from
    /\ wpc' = [wpc EXCEPT ![w] = to]
    /\ UNCHANGED <<sub, cancelVars, lifeVars, asked, settled,
                   admitted, carried, createdAt>>

(* run returns: the item is let go of and its deferred cancel fires.       *)
WorkerDone(w, from) ==
    /\ WorkerGoto(w, from, "idle")
    /\ ctx' = [ctx EXCEPT ![wjob[w]] = "canceled"]
    /\ wjob' = [wjob EXCEPT ![w] = NoJob]
    /\ verdict' = [verdict EXCEPT ![w] = "none"]

(* next: the head of the queue becomes the worker's item.                  *)
Take(w) ==
    /\ boot = "up" /\ ~stopped
    /\ WorkerGoto(w, "idle", "popped")
    /\ \E j \in items :
          /\ AtHead(j)
          /\ items' = items \ {j}
          /\ running' = running \cup {j}
          /\ wjob' = [wjob EXCEPT ![w] = j]
    /\ UNCHANGED <<canceled, ctx, row, topic, verdict, tellVars, spoolVars>>

(* Mutant: a worker stays until the line is empty, which it no longer takes.*)
LeaveWhenEmpty(w) ==
    /\ boot = "up" /\ stopped /\ items = {}
    /\ WorkerGoto(w, "idle", "exited")
    /\ UNCHANGED <<items, running, canceled, ctx, row, topic, wjob, verdict,
                   tellVars, spoolVars>>

Leave(w) ==
    /\ boot = "up" /\ stopped
    /\ WorkerGoto(w, "idle", "exited")
    /\ UNCHANGED <<items, running, canceled, ctx, row, topic, wjob, verdict,
                   tellVars, spoolVars>>

(* run, first critical section.  The early return leaves running as it is. *)
Begin(w) ==
    LET j == wjob[w] IN
    /\ wpc[w] = "popped"
    /\ \/ canceled[j] /\ WorkerDone(w, "popped")
       \/ /\ ~canceled[j]
          /\ WorkerGoto(w, "popped", "starting")
          /\ ctx' = [ctx EXCEPT ![j] = "live"]
          /\ UNCHANGED <<wjob, verdict>>
    /\ UNCHANGED <<items, running, canceled, row, topic, tellVars, spoolVars>>

(* transition to running, with the job's own context: once that is over    *)
(* the statement fails, the failure is logged and the event still goes out.*)
RecordRunning(w) ==
    LET j == wjob[w] IN
    /\ WorkerGoto(w, "starting", "announcing")
    /\ \/ ctx[j] = "live" /\ row' = [row EXCEPT ![j] = "running"]
       \/ (ctx[j] # "live" \/ WritesMayFail) /\ UNCHANGED row
    /\ UNCHANGED <<items, running, canceled, ctx, topic, wjob, verdict,
                   tellVars, spoolVars>>

AnnounceRunning(w) ==
    /\ WorkerGoto(w, "announcing", "opening")
    /\ Publish(wjob[w], "running")
    /\ UNCHANGED <<items, running, canceled, ctx, row, wjob, verdict,
                   tellVars, spoolVars>>

(* The runner: opens the audio once, reports stages, returns.              *)
RunnerQuiet == UNCHANGED <<items, running, canceled, ctx, row, wjob,
                           tellVars, spoolVars>>

OpenAudio(w) ==
    /\ wpc[w] = "opening"
    /\ \/ /\ wjob[w] \in files
          /\ WorkerGoto(w, "opening", "executing")
          /\ UNCHANGED verdict
       \/ /\ wjob[w] \notin files
          /\ WorkerGoto(w, "opening", "returned")
          /\ verdict' = [verdict EXCEPT ![w] = "error"]
    /\ RunnerQuiet /\ UNCHANGED topic

(* Hub.Stage reads the topic under the lock and publishes after it.  One   *)
(* report per run is explored.                                             *)
StageRead(w) ==
    /\ WorkerGoto(w, "executing", "staging")
    /\ topic[wjob[w]] = "running"
    /\ RunnerQuiet /\ UNCHANGED <<verdict, topic>>

StagePublish(w) ==
    /\ WorkerGoto(w, "staging", "staged")
    /\ Publish(wjob[w], "running")
    /\ RunnerQuiet /\ UNCHANGED verdict

RunnerReturns(w) ==
    /\ \E from \in {"executing", "staged"} : WorkerGoto(w, from, "returned")
    /\ \E v \in {"ok", "error"} : verdict' = [verdict EXCEPT ![w] = v]
    /\ RunnerQuiet /\ UNCHANGED topic

RunnerInterrupted(w) ==
    /\ wjob[w] # NoJob /\ ctx[wjob[w]] \in {"deadline", "canceled"}
    /\ \E from \in {"opening", "executing", "staged"} :
          WorkerGoto(w, from, "returned")
    /\ verdict' = [verdict EXCEPT ![w] = ctx[wjob[w]]]
    /\ RunnerQuiet /\ UNCHANGED topic

(* Mutant: finish does not ask whether the job was canceled.               *)
FinishAlways(w) ==
    /\ WorkerGoto(w, "returned", "recording")
    /\ running' = running \ {wjob[w]}
    /\ UNCHANGED <<items, canceled, ctx, row, topic, wjob, verdict, tellVars,
                   spoolVars>>

(* finish, first critical section.                                         *)
Finish(w) ==
    LET j == wjob[w] IN
    /\ wpc[w] = "returned"
    /\ running' = running \ {j}
    /\ \/ canceled[j] /\ WorkerDone(w, "returned")
       \/ /\ ~canceled[j]
          /\ WorkerGoto(w, "returned", "recording")
          /\ UNCHANGED <<ctx, wjob, verdict>>
    /\ UNCHANGED <<items, canceled, row, topic, tellVars, spoolVars>>

(* Mutant: a job cut short by the shutdown counts as canceled.             *)
OutcomeIgnoringDrain(v) ==
    CASE v = "ok" -> "succeeded"
      [] v = "canceled" -> "canceled"
      [] OTHER -> "failed"

Outcome(v) ==
    CASE v = "ok" -> "succeeded"
      [] v = "canceled" -> IF stopped THEN "failed" ELSE "canceled"
      [] OTHER -> "failed"

(* Mutant: the outcome is written with the context of the job.             *)
RecordOutcomeInContext(w) ==
    LET s == Outcome(verdict[w]) IN
    /\ WorkerGoto(w, "recording", "reporting")
    /\ row' = IF ctx[wjob[w]] = "live" THEN [row EXCEPT ![wjob[w]] = s] ELSE row
    /\ verdict' = [verdict EXCEPT ![w] = s]
    /\ UNCHANGED <<items, running, canceled, ctx, topic, wjob, tellVars,
                   spoolVars>>

(* Mutant: a failed write ends the clean-up.                               *)
RecordOutcomeGivesUp(w) ==
    LET s == Outcome(verdict[w]) IN
    /\ \/ /\ WorkerGoto(w, "recording", "reporting")
          /\ row' = [row EXCEPT ![wjob[w]] = s]
          /\ verdict' = [verdict EXCEPT ![w] = s]
          /\ UNCHANGED <<ctx, wjob, unwritten>>
       \/ /\ WritesMayFail /\ WorkerDone(w, "recording") /\ UNCHANGED row
          /\ unwritten' = unwritten \cup {wjob[w]}
    /\ UNCHANGED <<items, running, canceled, topic, notified, spoolVars>>

(* transition to the outcome, with a context of its own; a failure of the  *)
(* UPDATE is logged and the rest of finish goes on.                        *)
RecordOutcome(w) ==
    LET s == Outcome(verdict[w]) IN
    /\ WorkerGoto(w, "recording", "reporting")
    /\ \/ row' = [row EXCEPT ![wjob[w]] = s] /\ UNCHANGED unwritten
       \/ /\ WritesMayFail /\ UNCHANGED row
          /\ unwritten' = unwritten \cup {wjob[w]}
    /\ verdict' = [verdict EXCEPT ![w] = s]
    /\ UNCHANGED <<items, running, canceled, ctx, topic, wjob, notified,
                   spoolVars>>

ReportOutcome(w) ==
    /\ WorkerGoto(w, "reporting", "removing")
    /\ Publish(wjob[w], verdict[w])
    /\ UNCHANGED <<items, running, canceled, ctx, row, wjob, verdict,
                   tellVars, spoolVars>>

(* Mutant: the bytes are released, the file stays.                         *)
RemoveAudioNot(w) ==
    /\ WorkerGoto(w, "removing", "releasing")
    /\ UNCHANGED <<items, running, canceled, ctx, row, topic, wjob, verdict,
                   tellVars, spoolVars>>

RemoveAudio(w) ==
    /\ WorkerGoto(w, "removing", "releasing")
    /\ RemoveFile(wjob[w])
    /\ UNCHANGED <<items, running, canceled, ctx, row, topic, wjob, verdict,
                   tellVars>>

ReleaseAudio(w) ==
    /\ WorkerGoto(w, "releasing", "notifying")
    /\ Release(wjob[w])
    /\ UNCHANGED <<items, running, canceled, ctx, row, topic, wjob, verdict,
                   tellVars>>

NotifyWebhook(w) ==
    /\ WorkerDone(w, "notifying")
    /\ notified' = [notified EXCEPT ![wjob[w]] = verdict[w]]
    /\ UNCHANGED <<items, running, canceled, row, topic, unwritten, spoolVars>>

WorkerStep(w) ==
    \/ Take(w) \/ Leave(w) \/ Begin(w) \/ RecordRunning(w)
    \/ AnnounceRunning(w) \/ OpenAudio(w) \/ StageRead(w) \/ StagePublish(w)
    \/ RunnerReturns(w) \/ RunnerInterrupted(w) \/ Finish(w)
    \/ RecordOutcome(w) \/ ReportOutcome(w) \/ RemoveAudio(w)
    \/ ReleaseAudio(w) \/ NotifyWebhook(w)

(* jobs.max_processing_time runs out.                                      *)
DeadlineExpires(w) ==
    /\ HasDeadline /\ wjob[w] # NoJob /\ ctx[wjob[w]] = "live"
    /\ ctx' = [ctx EXCEPT ![wjob[w]] = "deadline"]
    /\ UNCHANGED <<items, running, admitted, carried, canceled, storeVars,
                   topic, sub, workerVars, cancelVars, lifeVars, historyVars,
                   spoolVars>>

-----------------------------------------------------------------------------
(* Cancel and cancelStored.                                                *)

CancelGoto(c, from, to) ==
    /\ cpc[c] = from
    /\ cpc' = [cpc EXCEPT ![c] = to]
    /\ UNCHANGED <<sub, workerVars, lifeVars, tellVars, running, admitted,
                   carried, createdAt>>

CancelReturns(c, from) ==
    /\ CancelGoto(c, from, "idle")
    /\ cjob' = [cjob EXCEPT ![c] = NoJob]

(* Pipeline.Cancel: the row is read first, and a finished job is left alone.*)
CancelBegin(c, j) ==
    /\ boot = "up"
    /\ row[j] \in {"queued", "running"}
    /\ CancelGoto(c, "idle", "locate")
    /\ cjob' = [cjob EXCEPT ![c] = j]
    /\ asked' = asked \cup {j}
    /\ UNCHANGED <<items, canceled, ctx, row, topic, settled, spoolVars>>

(* The critical section of Cancel: in line, running, or not in memory.     *)
CancelLocate(c) ==
    LET j == cjob[c] IN
    /\ cpc[c] = "locate"
    /\ \/ /\ j \in items \cup running
          /\ items' = items \ {j}
          /\ canceled' = [canceled EXCEPT ![j] = TRUE]
          /\ CancelGoto(c, "locate", IF ctx[j] = "none" THEN "record" ELSE "signal")
       \/ /\ j \notin items \cup running
          /\ UNCHANGED <<items, canceled>>
          /\ CancelGoto(c, "locate", "load")
    /\ UNCHANGED <<cjob, ctx, row, topic, asked, settled, spoolVars>>

(* Mutant: the run is not told.                                            *)
CancelSignalNot(c) ==
    /\ CancelGoto(c, "signal", "record")
    /\ UNCHANGED <<items, canceled, ctx, cjob, row, topic, asked, settled,
                   spoolVars>>

(* item.cancel(): the first cause of a context's end is the one it keeps.  *)
CancelSignal(c) ==
    LET j == cjob[c] IN
    /\ CancelGoto(c, "signal", "record")
    /\ ctx' = [ctx EXCEPT ![j] = IF @ = "live" THEN "canceled" ELSE @]
    /\ UNCHANGED <<items, canceled, cjob, row, topic, asked, settled, spoolVars>>

(* Mutant: the cancellation is announced and not recorded.                 *)
CancelRecordNot(c) ==
    /\ CancelGoto(c, "record", "publish")
    /\ UNCHANGED <<items, canceled, ctx, cjob, row, topic, asked, settled,
                   spoolVars>>

(* transition to canceled, with the context of the client's request; a     *)
(* failure is logged and the rest of Cancel goes on.                       *)
CancelRecord(c) ==
    LET j == cjob[c] IN
    /\ CancelGoto(c, "record", "publish")
    /\ \/ row' = [row EXCEPT ![j] = "canceled"] /\ settled' = settled \cup {j}
       \/ WritesMayFail /\ UNCHANGED <<row, settled>>
    /\ UNCHANGED <<items, canceled, ctx, cjob, topic, asked, spoolVars>>

CancelLoad(c) ==
    LET j == cjob[c] IN
    /\ cpc[c] = "load"
    /\ \/ row[j] \in Terminal /\ CancelReturns(c, "load")
       \/ /\ row[j] \notin Terminal
          /\ CancelGoto(c, "load", "store")
          /\ UNCHANGED cjob
       \/ WritesMayFail /\ CancelReturns(c, "load")
    /\ UNCHANGED <<items, canceled, ctx, row, topic, asked, settled, spoolVars>>

CancelStore(c) ==
    LET j == cjob[c] IN
    /\ \/ /\ CancelGoto(c, "store", "publish")
          /\ row' = [row EXCEPT ![j] = "canceled"]
          /\ UNCHANGED cjob
       \/ WritesMayFail /\ CancelReturns(c, "store") /\ UNCHANGED row
    /\ UNCHANGED <<items, canceled, ctx, topic, asked, settled, spoolVars>>

(* Mutant: Cancel returns without cleaning up.                             *)
CancelPublishOnly(c) ==
    /\ CancelReturns(c, "publish")
    /\ Publish(cjob[c], "canceled")
    /\ UNCHANGED <<items, canceled, ctx, row, asked, settled, spoolVars>>

CancelPublish(c) ==
    /\ CancelGoto(c, "publish", "remove")
    /\ Publish(cjob[c], "canceled")
    /\ UNCHANGED <<items, canceled, ctx, cjob, row, asked, settled, spoolVars>>

CancelRemove(c) ==
    /\ CancelGoto(c, "remove", "release")
    /\ RemoveFile(cjob[c])
    /\ UNCHANGED <<items, canceled, ctx, cjob, row, topic, asked, settled>>

CancelRelease(c) ==
    /\ CancelReturns(c, "release")
    /\ Release(cjob[c])
    /\ UNCHANGED <<items, canceled, ctx, row, topic, asked, settled>>

CancelContinues(c) ==
    \/ CancelLocate(c) \/ CancelSignal(c) \/ CancelRecord(c) \/ CancelLoad(c)
    \/ CancelStore(c) \/ CancelPublish(c) \/ CancelRemove(c) \/ CancelRelease(c)

-----------------------------------------------------------------------------
(* Shutdown, the end of the process, and server.resume.                    *)

threadVars == <<sub, workerVars, cancelVars>>

(* Shutdown stops the workers from taking more; what waits stays waiting.  *)
Shutdown ==
    /\ boot = "up" /\ ~stopped /\ restarts < MaxRestarts
    /\ stopped' = TRUE
    /\ UNCHANGED <<memoryVars, storeVars, topic, threadVars, cut, boot,
                   restarts, historyVars, spoolVars>>

(* The grace is over: cancelRunning reaches the items whose cancel is set. *)
GraceExpires ==
    /\ stopped /\ ~cut
    /\ cut' = TRUE
    /\ ctx' = [j \in Job |-> IF j \in running /\ ctx[j] = "live"
                             THEN "canceled" ELSE ctx[j]]
    /\ UNCHANGED <<items, running, admitted, carried, canceled, storeVars,
                   topic, threadVars, stopped, boot, restarts, historyVars,
                   spoolVars>>

(* A crash, a kill or the orderly exit: all memory goes.                   *)
ProcessEnds ==
    /\ restarts < MaxRestarts
    /\ restarts' = restarts + 1
    /\ boot' = "down"
    /\ SpoolLost
    /\ items' = {} /\ running' = {} /\ admitted' = 0 /\ carried' = 0
    /\ canceled' = [j \in Job |-> FALSE]
    /\ ctx' = [j \in Job |-> "none"]
    /\ stopped' = FALSE /\ cut' = FALSE
    /\ topic' = [j \in Job |-> "none"]
    /\ sub' = [j \in Job |-> IF sub[j] \in {"new", "accepted", "refused"}
                             THEN sub[j] ELSE "lost"]
    /\ wpc' = [w \in Worker |-> "idle"]
    /\ wjob' = [w \in Worker |-> NoJob]
    /\ verdict' = [w \in Worker |-> "none"]
    /\ cpc' = [c \in Canceller |-> "idle"]
    /\ cjob' = [c \in Canceller |-> NoJob]
    /\ UNCHANGED <<storeVars, historyVars>>

(* Mutant: recovered jobs have to fit in queue_size.                       *)
RecoverWithinSize ==
    LET pending == {j \in Job : row[j] = "queued"} IN
    /\ boot = "down"
    /\ boot' = "recovered"
    /\ \E kept \in SUBSET (pending \cap files) :
          /\ Cardinality(kept) <= QueueSize
          /\ items' = kept /\ carried' = Cardinality(kept)
    /\ row' = [j \in Job |-> IF j \in pending \ files THEN "failed" ELSE row[j]]
    /\ UNCHANGED <<running, admitted, canceled, ctx, createdAt, topic,
                   threadVars, stopped, cut, restarts, historyVars, spoolVars>>

(* Recover: every queued row whose audio is there goes back in line, beyond*)
(* QueueSize if need be; the others fail, unless that write itself fails.  *)
Recover ==
    LET pending == {j \in Job : row[j] = "queued"} IN
    /\ boot = "down"
    /\ boot' = "recovered"
    /\ items' = pending \cap files
    /\ carried' = Cardinality(pending \cap files)
    /\ \E lost \in SUBSET (pending \ files) :
          /\ WritesMayFail \/ lost = {}
          /\ row' = [j \in Job |-> IF j \in pending \ (files \cup lost)
                                  THEN "failed" ELSE row[j]]
    /\ UNCHANGED <<running, admitted, canceled, ctx, createdAt, topic,
                   threadVars, stopped, cut, restarts, historyVars, spoolVars>>

SweepSpool ==
    /\ boot = "recovered"
    /\ boot' = "swept"
    /\ Sweep(items)
    /\ UNCHANGED <<memoryVars, storeVars, topic, threadVars, stopped, cut,
                   restarts, historyVars>>

(* Mutant: interrupted jobs are left as they are.                          *)
FailStaleNot ==
    /\ boot = "swept" /\ boot' = "up"
    /\ UNCHANGED <<memoryVars, storeVars, topic, threadVars, stopped, cut,
                   restarts, historyVars, spoolVars>>

(* Mutant: interrupted jobs go back to queued.                             *)
FailStaleRequeues ==
    /\ boot = "swept" /\ boot' = "up"
    /\ row' = [j \in Job |-> IF row[j] = "running" THEN "queued" ELSE row[j]]
    /\ UNCHANGED <<memoryVars, createdAt, topic, threadVars, stopped, cut,
                   restarts, historyVars, spoolVars>>

(* FailStale, then Start.                                                  *)
FailStale ==
    /\ boot = "swept"
    /\ boot' = "up"
    /\ row' = [j \in Job |-> IF row[j] = "running" THEN "failed" ELSE row[j]]
    /\ UNCHANGED <<memoryVars, createdAt, topic, threadVars, stopped, cut,
                   restarts, historyVars, spoolVars>>

Resume == Recover \/ SweepSpool \/ FailStale

(* main returns once Shutdown has.                                         *)
Exit == stopped /\ (\A w \in Worker : wpc[w] = "exited") /\ ProcessEnds

-----------------------------------------------------------------------------
Next ==
    \/ \E j \in Job : SubmitReserveSlot(j) \/ SubmitContinues(j)
    \/ \E w \in Worker : WorkerStep(w) \/ DeadlineExpires(w)
    \/ \E c \in Canceller : CancelContinues(c) \/ \E j \in Job : CancelBegin(c, j)
    \/ Shutdown \/ GraceExpires \/ ProcessEnds \/ Resume

Spec == Init /\ [][Next]_vars

(* A goroutine that can run does; the runner returns.  Nobody has to       *)
(* submit, cancel, shut down or crash, but a stopped process does exit and *)
(* is started again.                                                       *)
Fairness ==
    /\ \A j \in Job : WF_vars(SubmitContinues(j))
    /\ \A w \in Worker : WF_vars(WorkerStep(w))
    /\ \A c \in Canceller : WF_vars(CancelContinues(c))
    /\ WF_vars(Resume)
    /\ WF_vars(Exit)

FairSpec == Spec /\ Fairness

-----------------------------------------------------------------------------
(* Type correctness.                                                       *)
TypeOK ==
    /\ SpoolTypeOK
    /\ items \subseteq Job /\ running \subseteq Job
    /\ admitted \in Nat /\ carried \in Nat
    /\ canceled \in [Job -> BOOLEAN]
    /\ ctx \in [Job -> {"none", "live", "deadline", "canceled"}]
    /\ stopped \in BOOLEAN /\ cut \in BOOLEAN
    /\ row \in [Job -> Status] /\ createdAt \in [Job -> Nat]
    /\ topic \in [Job -> {"none", "queued", "running"}]
    /\ sub \in [Job -> SubmitPC]
    /\ wpc \in [Worker -> WorkerPC] /\ wjob \in [Worker -> Job \cup {NoJob}]
    /\ verdict \in [Worker -> {"none", "ok", "error", "deadline"} \cup Terminal]
    /\ cpc \in [Canceller -> CancelPC]
    /\ cjob \in [Canceller -> Job \cup {NoJob}]
    /\ boot \in {"up", "down", "recovered", "swept"}
    /\ restarts \in Nat
    /\ asked \subseteq Job /\ settled \subseteq Job
    /\ notified \in [Job -> {"none"} \cup Terminal]
    /\ unwritten \subseteq Job

-----------------------------------------------------------------------------
(* Somebody is still working on the job, or it is in line.                 *)
Submitting(j) == sub[j] \in SubmitPC \ {"new", "accepted", "refused", "lost"}
InHands(j) == (\E w \in Worker : wjob[w] = j) \/ (\E c \in Canceller : cjob[c] = j)
Quiet(j) == boot = "up" /\ j \notin items /\ ~Submitting(j) /\ ~InHands(j)

Larger(a, b) == IF a > b THEN a ELSE b

(* queue.go 10-13: admission is a reservation.  However many submissions   *)
(* are between "yes" and the queue, they and the waiting jobs together     *)
(* never exceed queue_size, or what a restart carried over if that is more.*)
AdmissionBound ==
    Cardinality(items) + admitted <= Larger(QueueSize, carried)

(* admitted counts exactly the submissions inside that window: no path of  *)
(* Submit, failing or not, loses a slot or gives one back twice.           *)
HoldsSlot == {j \in Job : sub[j] \in {"admitted", "budgeted", "adopted",
                                      "recorded", "remove", "release", "giveback"}}
AdmittedExact == admitted = Cardinality(HoldsSlot)

(* spool.go 74-79: a job owns its upload until it is terminal and no       *)
(* longer.  Once every thread has let go of a job its bytes are given back *)
(* and its file is gone, or was asked to go and could not be removed,      *)
(* whichever of completion, cancellation, refusal, failure or restart      *)
(* ended it.                                                               *)
NothingLeftBehind ==
    \A j \in Job : Quiet(j) => j \notin files \ leftover /\ j \notin held

(* queue.go 318-320, wire.go 252-258: a queued job always has its audio,   *)
(* at every instant, so that any process end leaves it resumable.          *)
QueuedHasAudio == \A j \in Job : row[j] = "queued" => j \in files

(* queue_test.go 604-607: no job is left with nobody to run it.  In a      *)
(* serving process a row that is not terminal is in line or in hands.      *)
NobodyStranded == \A j \in Job : Quiet(j) => row[j] \in Terminal \cup {"none"}

(* queue_test.go 333: once Cancel has found a job in memory and recorded   *)
(* the cancellation, no worker's write replaces it.                        *)
CancelSticks == \A j \in settled : row[j] = "canceled"

(* queue.go 397-399: "canceled" is written only where a client asked for   *)
(* it; a job cut short by shutdown or by its deadline is failed.           *)
CanceledOnlyIfAsked == \A j \in Job : row[j] = "canceled" => j \in asked

(* What the webhook was told is what the row says, at once and after every *)
(* restart.  Two things can part them: the outcome could not be written,   *)
(* or a client whose cancellation was on its way wrote "canceled" over it. *)
NotifiedIsRecorded ==
    \A j \in Job : notified[j] # "none" =>
        \/ row[j] = notified[j]
        \/ row[j] = "canceled" /\ j \in asked
        \/ j \in unwritten

(* queue.go 302-305: every accepted job reaches a terminal state, across   *)
(* deadlines, cancellations, shutdowns and restarts.                       *)
EveryJobEnds == \A j \in Job : row[j] = "queued" ~> row[j] \in Terminal

(* queue.go 548-552: a shutdown lets every worker leave.                   *)
ShutdownDrains ==
    stopped ~> (boot = "down" \/ \A w \in Worker : wpc[w] = "exited")

(* The audio of a job is there as long as somebody will run the job, and   *)
(* not longer (queue.go:190, queue.go:411).  A cancellation whose write    *)
(* fails takes the audio and leaves the row queued (queue.go:476).         *)
AudioFollowsItsJob == NothingLeftBehind /\ (WritesMayFail \/ QueuedHasAudio)

(* A cancellation is final once it is recorded, and is recorded only if    *)
(* somebody asked for it (queue.go:366, queue.go:397).                     *)
CancellationHolds == CancelSticks /\ CanceledOnlyIfAsked

(* Admission is exact: what counts as admitted is on its way, and never    *)
(* more than the queue has room for (queue.go:214).                        *)
AdmissionIsExact == TypeOK /\ AdmittedExact /\ AdmissionBound

(* Every byte on the disk is paid for, once, and out of the budget, except *)
(* by files whose removal failed (spool.go:86, spool.go:111, spool.go:139).*)
DiskIsPaidFor ==
    Accounting /\ FilesArePaidFor /\ DiskWithinBudget /\ LeftoverOnlyByFailure

(* Jobs end and shutdowns drain (queue.go:318, queue.go:553).              *)
JobsEnd == EveryJobEnds /\ ShutdownDrains

(* The refinement of the life of a job by the status column of its row:    *)
(* record.go 127-134, a terminal status cannot change, and hub.go 22-25, a *)
(* finished job "will never change again".                                 *)
Life == INSTANCE JobLifecycle WITH status <- row
FollowsLifecycle == Life!LifeSpec

-----------------------------------------------------------------------------
(* Statements of the repository that the interleavings contradict.         *)

(* queue_test.go 333, "The worker's own finish must not overwrite the      *)
(* cancellation": no worker replaces a recorded cancellation.              *)
FinishKeepsCancellation ==
    [][\A j \in Job : row[j] = "canceled" => row'[j] \notin {"succeeded", "failed"}]_vars
=============================================================================
