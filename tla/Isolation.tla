------------------------------ MODULE Isolation ------------------------------
(***************************************************************************)
(* The voice isolation service (internal/isolation).  A session is made    *)
(* from an upload; workers analyse it and put voices on tracks; a follower *)
(* has the tracks transcribed by the job queue and merges the transcripts. *)
(* The sessions are in memory, their files in a directory each; a kept     *)
(* session has a state file, from which the next process restores it.      *)
(* One action is one critical section of Service.mu, or one effect on a    *)
(* file or a job between two of them.  Who may see a session, progress     *)
(* inside a stage, names, samples' audio and warnings are left out.        *)
(***************************************************************************)
EXTENDS Naturals, Sequences, FiniteSets, SequencesExt

CONSTANTS Session,        \* the ids newID may return
          Worker,         \* Options.Concurrency goroutines
          Voice,          \* the voices the diarizer finds in a recording
          Job,            \* room for jobs in the job queue
          MaxIsolations, MaxKept,
          MaxStarts,      \* bound: how often a process is started
          MayFail,        \* what may fail of "write", "remove" and "restore"
          None

ASSUME IsolationAssumption ==
    /\ IsFiniteSet(Session) /\ IsFiniteSet(Worker) /\ IsFiniteSet(Voice)
    /\ MaxIsolations \in Nat \ {0} /\ MaxKept \in Nat \ {0} /\ MaxStarts \in Nat \ {0}
    /\ MayFail \subseteq {"write", "remove", "restore"}
    /\ None \notin Session \cup Worker \cup Voice \cup Job

Statuses == {"none", "queued", "analysing", "awaiting_selection", "extracting",
             "transcribing", "done", "failed"}
Views == [status : Statuses, keep : BOOLEAN, voices : SUBSET Voice, sampled : SUBSET Voice,
          tracks : SUBSET Voice, stale : BOOLEAN,
          transcript : {"none", "queued", "running", "succeeded", "failed"}]

(* No state file is not a state.                                           *)
ASSUME NoneAssumption == None \notin Views

VARIABLES
    phase,      \* "running", "stopping" (Close has cancelled), "stopped", "down"
    starts,     \* processes started so far
    open,       \* Service.sessions; a session that has left it is deleted
    view,       \* session.view, and whose samples are known
    creating,   \* how far Create has come with a session
    pending,    \* Service.pending
    wake,       \* whether Service.wake holds a signal
    worker,     \* what a worker is doing
    follow,     \* what the followJobs of a session is doing
    cancel,     \* whose context session.cancel ends
    ended,      \* the contexts that have ended
    job,        \* the jobs that followers of this process have submitted
    disk,       \* the directory of a session
    unsaved,    \* history: the kept sessions whose last state was not written
    stray,      \* history: the sessions a removal or a restore has failed on
    intact      \* history: "yes" while no track in transcript.json was made
                \* again, "no" after, "torn" if the next process cannot know

memory == <<open, view, pending, wake, worker, follow, cancel, ended>>
vars == <<phase, starts, creating, memory, job, disk, unsaved, stray, intact>>

Busy(st) == st \in {"queued", "analysing", "extracting", "transcribing"}

NoView == [status |-> "none", keep |-> FALSE, voices |-> {}, sampled |-> {},
           tracks |-> {}, transcript |-> "none", stale |-> FALSE]
NoDir  == [dir |-> FALSE, upload |-> FALSE, source |-> FALSE, tracks |-> {},
           transcript |-> FALSE, saved |-> None]
Resting(pc) == [pc |-> pc, s |-> None, kind |-> None, todo |-> {}, made |-> None]
NoFollow == [pc |-> "none", todo |-> {}, jobs |-> {}, ok |-> TRUE]

Init ==
    /\ phase = "running" /\ starts = 1
    /\ open = {} /\ view = [s \in Session |-> NoView]
    /\ creating = [s \in Session |-> "never"]
    /\ pending = <<>> /\ wake = FALSE
    /\ worker = [w \in Worker |-> Resting("looking")]
    /\ follow = [s \in Session |-> NoFollow]
    /\ cancel = [s \in Session |-> None] /\ ended = {}
    /\ job = [j \in Job |-> "free"]
    /\ disk = [s \in Session |-> NoDir]
    /\ unsaved = {} /\ stray = {}
    /\ intact = [s \in Session |-> "yes"]

-----------------------------------------------------------------------------
(* What the critical sections share.                                       *)

(* What a call leaves behind that may fail: what was there.                *)
Failing(call, d) == IF call \in MayFail THEN {d} ELSE {}

(* saveLocked: a kept session's state file is its view as it is now.  A    *)
(* write that fails leaves the file before, and is only logged; while      *)
(* keepUpload has not made the directory, it does fail.                    *)
Written(d, v) == IF v.keep /\ d.dir THEN {[d EXCEPT !.saved = v]} \cup Failing("write", d) ELSE {d}

Becomes(s, v) == view' = [view EXCEPT ![s] = v]
Saves(s, v, d) ==
    \E e \in Written(d, v) :
        /\ disk' = [disk EXCEPT ![s] = e]
        /\ unsaved' = IF v.keep /\ e.saved # v THEN unsaved \cup {s} ELSE unsaved \ {s}

(* Mutant: sessions of both kinds share one limit's count.                 *)
RoomByTotal(keep) == Cardinality(open) <= (IF keep THEN MaxKept ELSE MaxIsolations)

(* roomLocked: kept sessions are counted apart.                            *)
Room(keep) == Cardinality({s \in open : view[s].keep = keep})
                < (IF keep THEN MaxKept ELSE MaxIsolations)

(* slices.DeleteFunc: the tasks of S go, the others move up in their order.*)
TasksWithout(S) ==
    LET kept == {i \in 1 .. Len(pending) : pending[i].s \notin S}
        place == [i \in kept |-> Cardinality({k \in kept : k <= i})]
    IN [n \in 1 .. Cardinality(kept) |-> pending[CHOOSE i \in kept : place[i] = n]]

(* os.RemoveAll, whose error nobody looks at: any part may be left.  What  *)
(* is left without a state file nobody will ever read: it is as if gone.   *)
Remnants(d) ==
    IF "remove" \notin MayFail \/ d.saved = None THEN {NoDir}
    ELSE {NoDir} \cup [dir : {TRUE}, upload : {FALSE, d.upload}, source : {FALSE, d.source}, tracks : SUBSET d.tracks,
                       transcript : {FALSE, d.transcript}, saved : {d.saved}]

Removals(S) ==
    {left \in [S -> UNION {Remnants(disk[s]) : s \in S}] : \A s \in S : left[s] \in Remnants(disk[s])}

DropsEnding(S, contexts) ==
    /\ open' = open \ S
    /\ view' = [s \in Session |-> IF s \in S THEN NoView ELSE view[s]]
    /\ pending' = TasksWithout(S)
    /\ ended' = ended \cup contexts
    /\ cancel' = [s \in Session |-> IF s \in S THEN None ELSE cancel[s]]
    /\ \E left \in Removals(S) :
         /\ disk' = [s \in Session |-> IF s \in S THEN left[s] ELSE disk[s]]
         /\ stray' = stray \cup {s \in S : left[s].saved # None}
    /\ unsaved' = unsaved \ S

(* Mutant: the context of a session that does nothing is cancelled too.    *)
DropsUnchecked(S) == DropsEnding(S, {cancel[s] : s \in S})

(* dropLocked, for each of S: out of the map, its context cancelled, its   *)
(* tasks and its directory gone.                                           *)
Drops(S) == DropsEnding(S, {cancel[s] : s \in S} \ {None})

Enqueues(t) == pending' = Append(pending, t) /\ wake' = TRUE

Task(s, kind, todo) == [s |-> s, kind |-> kind, todo |-> todo]

-----------------------------------------------------------------------------
(* Create: the session is entered, then its upload is written without the  *)
(* lock, then its analysis is queued.                                      *)

CreateEnter(s, keep) ==
    /\ phase = "running" /\ creating[s] = "never" /\ Room(keep)
    /\ creating' = [creating EXCEPT ![s] = "uploading"]
    /\ open' = open \cup {s}
    /\ Becomes(s, [NoView EXCEPT !.status = "queued", !.keep = keep])
    /\ UNCHANGED <<phase, starts, pending, wake, worker, follow, cancel, ended, job, disk, unsaved, stray, intact>>

(* keepUpload, which makes the directory if it is not there.               *)
CreateUpload(s) ==
    /\ creating[s] = "uploading"
    /\ creating' = [creating EXCEPT ![s] = "uploaded"]
    /\ disk' = [disk EXCEPT ![s].dir = TRUE, ![s].upload = TRUE]
    /\ UNCHANGED <<phase, starts, memory, job, unsaved, stray, intact>>

CreateFails(s) ==
    /\ creating[s] = "uploading"
    /\ creating' = [creating EXCEPT ![s] = "created"]
    /\ IF s \in open THEN Drops({s}) ELSE UNCHANGED <<open, view, pending, ended, cancel, disk, unsaved, stray>>
    /\ UNCHANGED <<phase, starts, wake, worker, follow, job, intact>>

CreateQueue(s) ==
    /\ creating[s] = "uploaded"
    /\ creating' = [creating EXCEPT ![s] = "created"]
    /\ Enqueues(Task(s, "analyse", {}))
    /\ IF s \in open THEN Saves(s, view[s], disk[s]) ELSE UNCHANGED <<disk, unsaved>>
    /\ UNCHANGED <<phase, starts, open, view, worker, follow, cancel, ended, job, stray, intact>>

-----------------------------------------------------------------------------
(* The client's other requests, each one critical section.                 *)

(* Mutant: a voice may be chosen whenever the voices are known.            *)
IdleKnown(s) == phase = "running" /\ s \in open /\ view[s].voices # {}

(* idleLocked.  The HTTP server closes its listeners when the context of   *)
(* the service ends, so nothing is started after that.                     *)
Idle(s) == /\ phase = "running" /\ s \in open
           /\ view[s].status \in {"awaiting_selection", "done", "failed"}
           /\ view[s].status = "failed" => view[s].voices # {}

(* missingLocked: a voice without a sample has to be placed by a person.   *)
Missing(s) == view[s].sampled \ view[s].tracks

(* Mutant: the transcript of tracks that are made again stays current.     *)
WithoutQuietly(v, S) == [v EXCEPT !.tracks = @ \ S]

(* dropTrackLocked: the tracks to be made again go first, and a transcript *)
(* they are in is stale.                                                   *)
Without(v, S) == [v EXCEPT !.tracks = @ \ S,
                           !.stale = @ \/ (v.tracks \cap S # {} /\ v.transcript = "succeeded")]

(* startLocked: the files of the tracks that go are removed, or stay.      *)
Starts(s, kind, todo, v, d) ==
    LET queued == [Without(v, todo) EXCEPT !.status = "queued"]
        gone == todo \cap v.tracks IN
    /\ Becomes(s, queued)
    /\ Enqueues(Task(s, kind, todo))
    /\ \E removed \in IF "remove" \in MayFail THEN SUBSET gone ELSE {gone} :
          Saves(s, queued, [d EXCEPT !.tracks = @ \ removed])
    /\ intact' = [intact EXCEPT ![s] = IF @ = "yes" /\ view[s].tracks \cap todo # {} THEN "no" ELSE @]
    /\ UNCHANGED <<phase, starts, creating, open, worker, follow, cancel, ended, job, stray>>

(* A voice with no sample of its own is given one by sample_start.         *)
Extract(s, v) == Idle(s) /\ v \in view[s].voices /\ Starts(s, "extract", {v}, view[s], disk[s])

ExtractAll(s) ==
    /\ Idle(s) /\ Missing(s) # {}
    /\ Starts(s, "extract", Missing(s), view[s], disk[s])

TranscribeSpeakers(s) ==
    /\ Idle(s) /\ (Missing(s) # {} \/ view[s].tracks # {})
    /\ \E there \in {FALSE} \cup Failing("remove", disk[s].transcript) :
          Starts(s, "transcribe", Missing(s), [view[s] EXCEPT !.transcript = "queued", !.stale = FALSE],
                 [disk[s] EXCEPT !.transcript = there])

(* Mutant: the state file of a released session stays.                     *)
UpdateOnly(s) ==
    LET v == [view[s] EXCEPT !.keep = ~@] IN
    /\ s \in open /\ Room(v.keep)
    /\ Becomes(s, v) /\ Saves(s, v, disk[s])
    /\ UNCHANGED <<phase, starts, creating, open, pending, wake, worker, follow, cancel, ended, job, stray, intact>>

(* The removal of a released session's state file, which may fail unseen.  *)
Releases(s) ==
    \E d \in {[disk[s] EXCEPT !.saved = None]} \cup Failing("remove", disk[s]) :
        /\ disk' = [disk EXCEPT ![s] = d]
        /\ stray' = IF d.saved # None THEN stray \cup {s} ELSE stray
        /\ unsaved' = unsaved \ {s}

(* Keeping or releasing; a released session has no state file.             *)
Update(s) ==
    LET v == [view[s] EXCEPT !.keep = ~@] IN
    /\ s \in open /\ Room(v.keep)
    /\ Becomes(s, v)
    /\ IF v.keep THEN Saves(s, v, disk[s]) /\ UNCHANGED stray ELSE Releases(s)
    /\ UNCHANGED <<phase, starts, creating, open, pending, wake, worker, follow, cancel, ended, job, intact>>

Delete(s) ==
    /\ s \in open /\ Drops({s})
    /\ UNCHANGED <<phase, starts, creating, wake, worker, follow, job, intact>>

(* expire: the time is up for a session that is neither kept nor working.  *)
Expire(s) ==
    /\ phase = "running" /\ s \in open
    /\ ~view[s].keep /\ ~Busy(view[s].status)
    /\ Drops({s})
    /\ UNCHANGED <<phase, starts, creating, wake, worker, follow, job, intact>>

-----------------------------------------------------------------------------
(* A worker: next, run and the work itself.                                *)

WorkerIs(w, r) == worker' = [worker EXCEPT ![w] = r]
OnlyWorker == <<phase, starts, creating, open, follow, job, stray, intact>>

(* Mutant: the task taken is not the last, but nobody is woken for it.     *)
NextTakesAlone(w) ==
    /\ worker[w].pc = "looking" /\ pending # <<>>
    /\ LET t == Head(pending) IN
         WorkerIs(w, [Resting("taken") EXCEPT !.s = t.s, !.kind = t.kind, !.todo = t.todo])
    /\ pending' = Tail(pending)
    /\ UNCHANGED <<OnlyWorker, view, wake, cancel, ended, disk, unsaved>>

NextTakes(w) ==
    /\ worker[w].pc = "looking" /\ pending # <<>>
    /\ LET t == Head(pending) IN
         WorkerIs(w, [Resting("taken") EXCEPT !.s = t.s, !.kind = t.kind, !.todo = t.todo])
    /\ pending' = Tail(pending)
    /\ wake' = (wake \/ Len(pending) > 1)
    /\ UNCHANGED <<OnlyWorker, view, cancel, ended, disk, unsaved>>

NextWaits(w) ==
    /\ worker[w].pc = "looking" /\ pending = <<>>
    /\ WorkerIs(w, Resting("asleep"))
    /\ UNCHANGED <<OnlyWorker, view, pending, wake, cancel, ended, disk, unsaved>>

NextWakes(w) ==
    /\ worker[w].pc = "asleep" /\ wake
    /\ wake' = FALSE /\ WorkerIs(w, Resting("looking"))
    /\ UNCHANGED <<OnlyWorker, view, pending, cancel, ended, disk, unsaved>>

(* Mutant: a worker that waits does not hear the service stop.             *)
NextEndsAwake(w) ==
    /\ worker[w].pc = "looking" /\ pending = <<>> /\ phase = "stopping"
    /\ WorkerIs(w, Resting("exited"))
    /\ UNCHANGED <<OnlyWorker, view, pending, wake, cancel, ended, disk, unsaved>>

NextEnds(w) ==
    /\ worker[w].pc = "asleep" /\ phase = "stopping"
    /\ WorkerIs(w, Resting("exited"))
    /\ UNCHANGED <<OnlyWorker, view, pending, wake, cancel, ended, disk, unsaved>>

(* run: the session gets the cancel of this run's context, which is over   *)
(* at once if the service is stopping.                                     *)
RunStarts(w) ==
    LET s == worker[w].s IN
    /\ worker[w].pc = "taken"
    /\ IF s \in open
       THEN /\ WorkerIs(w, [worker[w] EXCEPT !.pc = "working"])
            /\ cancel' = [cancel EXCEPT ![s] = w]
            /\ ended' = IF phase = "stopping" THEN ended \cup {w} ELSE ended \ {w}
       ELSE WorkerIs(w, Resting("looking")) /\ UNCHANGED <<cancel, ended>>
    /\ UNCHANGED <<OnlyWorker, view, pending, wake, disk, unsaved>>

Fails(w) == [worker[w] EXCEPT !.pc = "failing"]

(* Any stage may fail, of its own or because the context ended.            *)
WorkFails(w) ==
    /\ worker[w].pc = "working"
    /\ WorkerIs(w, Fails(w))
    /\ UNCHANGED <<OnlyWorker, view, pending, wake, cancel, ended, disk, unsaved>>

(* analyse, its first half: the upload is decoded into the source.         *)
Decode(w) ==
    LET s == worker[w].s IN
    /\ worker[w].pc = "working" /\ worker[w].kind = "analyse" /\ disk[s].upload
    /\ IF s \in open THEN Becomes(s, [view[s] EXCEPT !.status = "analysing"]) ELSE UNCHANGED view
    /\ \E there \in {FALSE} \cup Failing("remove", TRUE) :
          disk' = [disk EXCEPT ![s].source = TRUE, ![s].upload = there]
    /\ WorkerIs(w, [worker[w] EXCEPT !.pc = "decoded"])
    /\ UNCHANGED <<OnlyWorker, pending, wake, cancel, ended, unsaved>>

(* The second half: the voices, each with a sample or without one.         *)
Voices(w, sampled) ==
    LET s == worker[w].s IN
    /\ worker[w].pc = "decoded"
    /\ IF s \in open
       THEN Becomes(s, [view[s] EXCEPT !.voices = Voice, !.sampled = sampled,
                                       !.status = "awaiting_selection"])
       ELSE UNCHANGED view
    /\ WorkerIs(w, [worker[w] EXCEPT !.pc = "finishing"])
    /\ UNCHANGED <<OnlyWorker, pending, wake, cancel, ended, disk, unsaved>>

NoVoices(w) ==
    /\ worker[w].pc = "decoded"
    /\ WorkerIs(w, Fails(w))
    /\ UNCHANGED <<OnlyWorker, view, pending, wake, cancel, ended, disk, unsaved>>

(* extract, one voice: the track is written, ...                           *)
WriteTrack(w, v) ==
    LET s == worker[w].s IN
    /\ worker[w].pc = "working" /\ v \in worker[w].todo /\ disk[s].source
    /\ IF s \in open THEN Becomes(s, [view[s] EXCEPT !.status = "extracting"]) ELSE UNCHANGED view
    /\ disk' = [disk EXCEPT ![s].tracks = @ \cup {v}]
    /\ WorkerIs(w, [worker[w] EXCEPT !.pc = "written", !.made = v])
    /\ UNCHANGED <<OnlyWorker, pending, wake, cancel, ended, unsaved>>

(* ... then published, unless the session was deleted meanwhile.           *)
PutTrack(w) ==
    LET s == worker[w].s
        v == [view[s] EXCEPT !.tracks = @ \cup {worker[w].made}] IN
    /\ worker[w].pc = "written"
    /\ IF s \in open
       THEN /\ Becomes(s, v) /\ Saves(s, v, disk[s])
            /\ WorkerIs(w, [worker[w] EXCEPT !.pc = "working", !.todo = @ \ {worker[w].made}, !.made = None])
       ELSE WorkerIs(w, [worker[w] EXCEPT !.pc = "finishing", !.made = None]) /\ UNCHANGED <<view, disk, unsaved>>
    /\ UNCHANGED <<OnlyWorker, pending, wake, cancel, ended>>

(* Every voice has its track: an extraction is done, a transcription not.  *)
Extracted(w) ==
    LET s == worker[w].s IN
    /\ worker[w].pc = "working" /\ worker[w].kind # "analyse" /\ worker[w].todo = {}
    /\ IF s \in open /\ worker[w].kind = "extract"
       THEN Becomes(s, [view[s] EXCEPT !.status = "done"]) ELSE UNCHANGED view
    /\ WorkerIs(w, [worker[w] EXCEPT !.pc = "finishing"])
    /\ UNCHANGED <<OnlyWorker, pending, wake, cancel, ended, disk, unsaved>>

(* The end of run.  The follower takes the context over; any other run     *)
(* leaves session.cancel nil, whoever has set it since.                    *)
RunHandsOver(w) ==
    LET s == worker[w].s
        v == [view[s] EXCEPT !.status = "transcribing", !.transcript = "running", !.stale = FALSE] IN
    /\ worker[w].pc = "finishing" /\ worker[w].kind = "transcribe" /\ s \in open
    /\ Becomes(s, v) /\ Saves(s, v, disk[s])
    /\ follow' = [follow EXCEPT ![s] = [pc |-> "submitting", todo |-> v.tracks, jobs |-> {}, ok |-> TRUE]]
    /\ cancel' = [cancel EXCEPT ![s] = IF @ = w THEN s ELSE @]
    /\ ended' = (ended \ {w, s}) \cup (IF w \in ended THEN {s} ELSE {})
    /\ WorkerIs(w, Resting("looking"))
    /\ UNCHANGED <<phase, starts, creating, open, pending, wake, job, stray, intact>>

ViewAtEnd(w) ==
    IF worker[w].pc = "finishing" THEN view[worker[w].s]
    ELSE [view[worker[w].s] EXCEPT !.status = "failed",
             !.transcript = IF worker[w].kind = "transcribe" THEN "failed" ELSE @]

RunEndsWith(w, saves) ==
    LET s == worker[w].s IN
    /\ worker[w].pc \in {"finishing", "failing"}
    /\ worker[w].pc = "finishing" => worker[w].kind # "transcribe" \/ s \notin open
    /\ IF s \in open
       THEN Becomes(s, ViewAtEnd(w)) /\ cancel' = [cancel EXCEPT ![s] = None] /\ saves
       ELSE UNCHANGED <<view, disk, unsaved, cancel>>
    /\ WorkerIs(w, Resting("looking"))
    /\ ended' = ended \ {w}
    /\ UNCHANGED <<OnlyWorker, pending, wake>>

(* Mutant: the state is not saved when a run ends.                         *)
RunEndsUnsaved(w) == RunEndsWith(w, UNCHANGED <<disk, unsaved>>)
RunEnds(w) == RunEndsWith(w, Saves(worker[w].s, ViewAtEnd(w), disk[worker[w].s]))

-----------------------------------------------------------------------------
(* followJobs: submit every track, wait for the jobs, merge the results.   *)

FollowerIs(s, r) == follow' = [follow EXCEPT ![s] = r]
OnlyFollower == <<phase, starts, creating, open, pending, wake, worker, stray, intact>>

Submit(s, v, j) ==
    /\ follow[s].pc = "submitting" /\ v \in follow[s].todo /\ job[j] = "free"
    /\ v \in disk[s].tracks
    /\ job' = [job EXCEPT ![j] = "live"]
    /\ FollowerIs(s, [follow[s] EXCEPT !.todo = @ \ {v}, !.jobs = @ \cup {j}])
    /\ UNCHANGED <<OnlyFollower, view, cancel, ended, disk, unsaved>>

(* The queue is full, the track is gone, or the context is over.           *)
SubmitFails(s) ==
    /\ follow[s].pc = "submitting"
    /\ follow[s].todo # {} \/ view[s].tracks = {}
    /\ \/ s \in ended \/ follow[s].todo = {}
       \/ \A j \in Job : job[j] # "free"
       \/ ~(follow[s].todo \subseteq disk[s].tracks)
    /\ FollowerIs(s, [follow[s] EXCEPT !.pc = "failing", !.ok = FALSE])
    /\ UNCHANGED <<OnlyFollower, view, cancel, ended, job, disk, unsaved>>

(* The jobs are listed in the transcript and the state is saved.           *)
Submitted(s) ==
    /\ follow[s].pc = "submitting" /\ follow[s].todo = {} /\ follow[s].jobs # {}
    /\ FollowerIs(s, [follow[s] EXCEPT !.pc = "awaiting"])
    /\ IF s \in open THEN Saves(s, view[s], disk[s]) ELSE UNCHANGED <<disk, unsaved>>
    /\ UNCHANGED <<OnlyFollower, view, cancel, ended, job>>

(* awaitJobs and merge: a job that did not succeed, or that the follower   *)
(* could not wait for, fails the transcript.                               *)
Awaited(s) ==
    LET js == follow[s].jobs IN
    /\ follow[s].pc = "awaiting"
    /\ s \in ended \/ \A j \in js : job[j] # "live"
    /\ \E ok \in BOOLEAN :
         /\ ok => \A j \in js : job[j] = "succeeded"
         /\ FollowerIs(s, [follow[s] EXCEPT !.pc = IF ok THEN "merged" ELSE "failing", !.ok = ok])
    /\ UNCHANGED <<OnlyFollower, view, cancel, ended, job, disk, unsaved>>

(* A follower that failed because its context is over cancels its jobs.    *)
CancelJobs(s) ==
    /\ follow[s].pc = "failing"
    /\ FollowerIs(s, [follow[s] EXCEPT !.pc = "ending"])
    /\ job' = [j \in Job |-> IF s \in ended /\ j \in follow[s].jobs /\ job[j] = "live"
                             THEN "canceled" ELSE job[j]]
    /\ UNCHANGED <<OnlyFollower, view, cancel, ended, disk, unsaved>>

(* transcript.json, if it can be written: a deleted session may have no    *)
(* directory to write it to.                                               *)
WriteTranscript(s) ==
    /\ follow[s].pc = "merged"
    /\ \E ok \in {disk[s].dir} \cup Failing("write", FALSE) :
         /\ FollowerIs(s, [follow[s] EXCEPT !.pc = "ending", !.ok = ok])
         /\ disk' = [disk EXCEPT ![s].transcript = @ \/ ok]
         /\ intact' = [intact EXCEPT ![s] = IF ok THEN "yes" ELSE @]
    /\ UNCHANGED <<phase, starts, creating, open, view, pending, wake, worker, cancel, ended, job, unsaved, stray>>

FollowEndsWith(s, status) ==
    LET v == [view[s] EXCEPT !.status = status,
                             !.transcript = IF follow[s].ok THEN "succeeded" ELSE "failed"] IN
    /\ follow[s].pc = "ending"
    /\ FollowerIs(s, NoFollow)
    /\ IF s \in open
       THEN Becomes(s, v) /\ Saves(s, v, disk[s]) /\ cancel' = [cancel EXCEPT ![s] = None]
       ELSE UNCHANGED <<view, disk, unsaved, cancel>>
    /\ ended' = ended \ {s}
    /\ UNCHANGED <<OnlyFollower, job>>

(* Mutant: the isolation stays as it was while the jobs ran.               *)
FollowEndsOnly(s) == FollowEndsWith(s, "transcribing")

(* The tracks are as good as they were, however the transcript went.       *)
FollowEnds(s) == FollowEndsWith(s, "done")

-----------------------------------------------------------------------------
(* The job queue, and the life of the process.                             *)

JobEnds(j) ==
    /\ job[j] = "live"
    /\ \E st \in {"succeeded", "failed"} : job' = [job EXCEPT ![j] = st]
    /\ UNCHANGED <<phase, starts, creating, memory, disk, unsaved, stray, intact>>

JobForgotten(j) ==
    /\ job[j] \notin {"free", "live"} /\ \A s \in Session : j \notin follow[s].jobs
    /\ job' = [job EXCEPT ![j] = "free"]
    /\ UNCHANGED <<phase, starts, creating, memory, disk, unsaved, stray, intact>>

Running(w) == worker[w].pc \notin {"looking", "asleep", "taken", "exited"}
Following(s) == follow[s].pc # "none"

Close ==
    /\ phase = "running" /\ phase' = "stopping"
    /\ ended' = ended \cup {w \in Worker : Running(w)} \cup {s \in Session : Following(s)}
    /\ UNCHANGED <<starts, creating, open, view, pending, wake, worker, follow, cancel, job, disk, unsaved, stray, intact>>

(* wg.Wait, then everything that is not kept is deleted.                   *)
CloseEnds ==
    /\ phase = "stopping" /\ phase' = "stopped"
    /\ \A w \in Worker : worker[w].pc = "exited"
    /\ \A s \in Session : ~Following(s)
    /\ Drops({s \in open : ~view[s].keep})
    /\ UNCHANGED <<starts, creating, wake, worker, follow, job, intact>>

Forgotten ==
    /\ open' = {} /\ view' = [s \in Session |-> NoView]
    /\ creating' = [s \in Session |-> IF creating[s] = "never" THEN "never" ELSE "created"]
    /\ pending' = <<>> /\ wake' = FALSE
    /\ worker' = [w \in Worker |-> Resting("exited")]
    /\ follow' = [s \in Session |-> NoFollow]
    /\ cancel' = [s \in Session |-> None] /\ ended' = {}
    /\ job' = [j \in Job |-> "free"]

(* The process ends, after Close or in the middle of anything.             *)
Ends ==
    /\ phase # "down" /\ phase' = "down" /\ Forgotten
    /\ UNCHANGED <<starts, disk, unsaved, stray, intact>>

(* It ends inside startLocked, after a file is removed and before the      *)
(* state that says so is written.                                          *)
EndsInside(s) ==
    /\ Idle(s) /\ view[s].keep /\ phase' = "down"
    /\ \/ \E v \in view[s].tracks : disk' = [disk EXCEPT ![s].tracks = @ \ {v}]
       \/ disk' = [disk EXCEPT ![s].transcript = FALSE]
    /\ intact' = [intact EXCEPT ![s] = "torn"]
    /\ Forgotten
    /\ UNCHANGED <<starts, unsaved, stray>>

(* Work that was cut short did not happen, save an analysis whose upload   *)
(* is still there.                                                         *)
AfterRestart(v, d) ==
    IF ~Busy(v.status) THEN v
    ELSE [v EXCEPT !.status = CASE v.voices = {} /\ d.upload -> "queued"
                                [] v.voices = {} /\ ~d.upload -> "failed"
                                [] v.voices # {} /\ v.tracks # {} -> "done"
                                [] OTHER -> "awaiting_selection",
                   !.transcript = IF @ \in {"queued", "running"} THEN "failed" ELSE @]

(* Mutant: a track is restored whether its file is there or not.           *)
RestoredUnseen(d) == AfterRestart(d.saved, d)

(* restore: a track without a file is none.                                *)
Restored(d) == AfterRestart([d.saved EXCEPT !.tracks = @ \cap d.tracks], d)

(* New and Start: what has no state file is deleted; a state that cannot   *)
(* be restored is left on the disk.                                        *)
Restart ==
    LET filed == {s \in Session : disk[s].saved # None} IN
    /\ phase = "down" /\ starts < MaxStarts
    /\ phase' = "running" /\ starts' = starts + 1
    /\ \E broken \in IF "restore" \in MayFail THEN SUBSET filed ELSE {{}} :
         /\ open' = filed \ broken
         /\ view' = [s \in Session |-> IF s \in filed \ broken THEN Restored(disk[s]) ELSE NoView]
         /\ stray' = stray \cup broken
    /\ disk' = [s \in Session |-> IF s \in filed THEN disk[s] ELSE NoDir]
    /\ unsaved' = {}
    /\ intact' = [s \in Session |-> IF s \in unsaved \cup stray THEN "torn" ELSE intact[s]]
    /\ pending' = SetToSeq({Task(s, "analyse", {}) : s \in {k \in open' : view'[k].status = "queued"}})
    /\ worker' = [w \in Worker |-> Resting("looking")]
    /\ UNCHANGED <<creating, wake, follow, cancel, ended, job>>

-----------------------------------------------------------------------------
WorkerSteps(w) ==
    \/ NextTakes(w) \/ NextWaits(w) \/ NextWakes(w) \/ NextEnds(w) \/ RunStarts(w)
    \/ WorkFails(w) \/ Decode(w) \/ (\E sm \in SUBSET Voice : Voices(w, sm)) \/ NoVoices(w)
    \/ (\E v \in Voice : WriteTrack(w, v)) \/ PutTrack(w) \/ Extracted(w)
    \/ RunHandsOver(w) \/ RunEnds(w)

FollowerSteps(s) ==
    \/ (\E v \in Voice, j \in Job : Submit(s, v, j)) \/ SubmitFails(s) \/ Submitted(s)
    \/ Awaited(s) \/ CancelJobs(s) \/ WriteTranscript(s) \/ FollowEnds(s)

CreateSteps(s) == CreateUpload(s) \/ CreateFails(s) \/ CreateQueue(s)

Requests(s) ==
    \/ (\E keep \in BOOLEAN : CreateEnter(s, keep))
    \/ (\E v \in Voice : Extract(s, v)) \/ ExtractAll(s) \/ TranscribeSpeakers(s)
    \/ Update(s) \/ Delete(s)

Next ==
    \/ \E w \in Worker : WorkerSteps(w)
    \/ \E s \in Session : FollowerSteps(s) \/ CreateSteps(s) \/ Requests(s) \/ Expire(s) \/ EndsInside(s)
    \/ \E j \in Job : JobEnds(j) \/ JobForgotten(j)
    \/ Close \/ CloseEnds \/ Ends \/ Restart

Spec == Init /\ [][Next]_vars

(* Goroutines run, the job queue ends every job, and Close, once called,   *)
(* goes on.  Nobody has to make a request, to crash or to start again.     *)
FairSpec ==
    /\ Spec
    /\ \A w \in Worker : WF_vars(WorkerSteps(w))
    /\ \A s \in Session : WF_vars(FollowerSteps(s)) /\ WF_vars(CreateSteps(s))
    /\ \A j \in Job : WF_vars(JobEnds(j)) /\ WF_vars(JobForgotten(j))
    /\ WF_vars(CloseEnds)

-----------------------------------------------------------------------------
(* Properties.                                                             *)

(* The types; and a worker that runs names the session, the voices and the *)
(* track it is at.                                                         *)
TypeOK ==
    /\ phase \in {"running", "stopping", "stopped", "down"} /\ starts \in 1 .. MaxStarts
    /\ open \subseteq Session /\ view \in [Session -> Views]
    /\ creating \in [Session -> {"never", "uploading", "uploaded", "created"}]
    /\ \A i \in 1 .. Len(pending) :
          /\ pending[i].s \in Session /\ pending[i].todo \subseteq Voice
          /\ pending[i].kind \in {"analyse", "extract", "transcribe"}
    /\ wake \in BOOLEAN /\ ended \subseteq Worker \cup Session
    /\ cancel \in [Session -> Worker \cup Session \cup {None}]
    /\ \A w \in Worker :
          /\ worker[w].todo \subseteq Voice
          /\ (Running(w) \/ worker[w].pc = "taken") => worker[w].s \in Session
          /\ worker[w].pc = "written" <=> worker[w].made \in Voice
    /\ \A s \in Session :
          /\ follow[s].todo \subseteq Voice /\ follow[s].jobs \subseteq Job
          /\ disk[s].saved \in Views \cup {None} /\ disk[s].tracks \subseteq Voice
    /\ unsaved \subseteq Session /\ stray \subseteq Session
    /\ job \in [Job -> {"free", "live", "succeeded", "failed", "canceled"}]

(* Who will still end the work of a session: its Create, a task in line, a *)
(* worker that is not past it, its follower.                               *)
Carriers(s) ==
    {<<"create", s>> : x \in {y \in {s} : creating[y] \in {"uploading", "uploaded"}}}
      \cup {<<"task", i>> : i \in {k \in 1 .. Len(pending) : pending[k].s = s}}
      \cup {<<"run", w>> : w \in {x \in Worker :
               /\ worker[x].s = s
               /\ worker[x].pc = "finishing" => worker[x].kind = "transcribe"}}
      \cup {<<"follow", s>> : x \in {y \in {s} : Following(y)}}

(* A session says it is busy exactly while one activity, and never two,    *)
(* will end its work: nothing can be chosen while something runs, and no   *)
(* session waits for work that nobody does (isolation.go:514, work.go:57,  *)
(* transcript.go:83, store.go:165).                                        *)
BusyHasOneCarrier ==
    \A s \in open : Cardinality(Carriers(s)) = IF Busy(view[s].status) THEN 1 ELSE 0

(* A task in line is not left to a worker that will not look: whenever a   *)
(* worker sleeps there is a signal, or somebody about to look              *)
(* (work.go:28, isolation.go:912).                                         *)
NoTaskForgotten ==
    (pending # <<>> /\ \E w \in Worker : worker[w].pc = "asleep")
        => wake \/ \E w \in Worker : worker[w].pc = "looking"

(* What a session offers for download is on disk, across deletion, repeated*)
(* extraction and a restart (isolation.go:702, store.go:154); but what came*)
(* back although it had been deleted may have lost its recording           *)
(* (isolation.go:909).                                                     *)
ServedFilesExist ==
    \A s \in open : /\ view[s].tracks \subseteq disk[s].tracks
                    /\ view[s].voices # {} => disk[s].source \/ s \in stray

(* max_isolations and max_kept bound their kinds apart, through changes of *)
(* mind and restarts (isolation.go:296, isolation.go:461).  What came back *)
(* because its file could not be removed, or came back late because it     *)
(* could not be read, is beyond the room (isolation.go:504, store.go:101). *)
RoomIsKept ==
    /\ Cardinality({s \in open : view[s].keep} \ stray) <= MaxKept
    /\ Cardinality({s \in open : ~view[s].keep}) <= MaxIsolations

(* Only an isolation that is kept, and is there, would come back with the  *)
(* next process: neither a deleted nor a released one does, unless a       *)
(* removal or a restore has failed on it (isolation.go:498, store.go:54).  *)
OnlyKeptComesBack ==
    \A s \in Session \ stray : disk[s].saved # None => phase = "down" \/ (s \in open /\ view[s].keep)

(* What the next process would make of a kept isolation at rest is what    *)
(* this one shows of it, failing files or not, unless the last write of    *)
(* its own state failed (store.go:51, store.go:54 and store.go:117 against *)
(* every section that changes the view).                                   *)
RestartChangesNothing ==
    \A s \in open \ unsaved :
        (view[s].keep /\ ~Busy(view[s].status) /\ \A w \in Worker : worker[w].s # s)
            => disk[s].saved # None /\ Restored(disk[s]) = view[s]

Current(s) == view[s].transcript = "succeeded" /\ ~view[s].stale

(* A transcript that succeeded and is not called stale is there, and none  *)
(* of the tracks in it was made again since, unless a process ended while  *)
(* it was removing one or with a state it had failed to write              *)
(* (isolation.go:632, transcript.go:164, store.go:77).                     *)
TranscriptIsCurrent ==
    \A s \in open : Current(s) => \/ intact[s] = "yes" /\ disk[s].transcript
                                  \/ intact[s] = "torn"

(* "deleting the isolation, or stopping the server, cancels the jobs"      *)
(* (transcript.go:60): the work of a deleted session, or of a stopped      *)
(* service, has lost its context, and leaves no job behind.                *)
DeletingStops ==
    /\ \A w \in Worker : (worker[w].pc \in {"working", "decoded", "written"} /\ worker[w].s \notin open)
                            => w \in ended
    /\ \A s \in Session : (Following(s) /\ s \notin open) => s \in ended
    /\ (\A s \in Session : ~Following(s)) => \A j \in Job : job[j] # "live"

(* Work on an isolation ends, unless the service is being stopped.         *)
WorkEnds ==
    \A s \in Session : (s \in open /\ Busy(view[s].status))
                          ~> (s \notin open \/ ~Busy(view[s].status) \/ phase # "running")

(* Close returns (isolation.go:212).                                       *)
CloseReturns == phase = "stopping" ~> phase # "stopping"

(* Work and isolations match: a busy isolation is the work of exactly one, *)
(* no task waits for a worker that sleeps, and each kind keeps to its room *)
(* (isolation.go:105, work.go:57).                                         *)
WorkIsHeld == TypeOK /\ BusyHasOneCarrier /\ NoTaskForgotten /\ RoomIsKept

(* What a client is shown is on the disk and of the present choice, and    *)
(* the next process shows the same of what was kept (store.go:54).         *)
ShownIsKept == ServedFilesExist /\ OnlyKeptComesBack /\ RestartChangesNothing /\ TranscriptIsCurrent

(* Work ends, and so does Close.                                           *)
IsolationEnds == WorkEnds /\ CloseReturns
=============================================================================
