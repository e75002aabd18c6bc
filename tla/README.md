# NanoASR in TLA+

A verification development for NanoASR, the speech recognition server of this
repository: TLA+ modules for the parts whose correctness depends on
interleavings, crashes, limits and on the order of steps, TLC configurations
that check them on small instances, and proofs that TLAPS checks for every value
of the constants.

Paths are relative to the repository's Go module; definitions are those of the
modules in this directory. `PROJECT.json` maps each definition to the lines it
models and lists the runs, the properties, the hazards and the theorems.

## 1. Inventory

### Components

| part | state | operations | hard behaviour | what makes it correct |
|---|---|---|---|---|
| job queue, `internal/job/queue.go` | waiting items, running items, `admitted`, `stopped`; per item a `canceled` flag and a cancel function | Submit; next, run, finish of the workers; Cancel; Recover; Shutdown | locks released between a decision and its use; a crash between any two steps; every write may fail | no job lost, none run twice, cancellation final, admission bound, nothing left on disk |
| event hub, `internal/job/hub.go` | one topic per active job: last job, ring of events, subscribers | Publish, Stage, Subscribe, leaving a subscription | publications of different threads overtake each other; slow subscribers; reconnection | a subscriber gets every event after its last one, in order, the last included, or is cut off |
| spool, `internal/spool/spool.go` | byte counter and reservations in memory; audio files on disk | Reserve, Adopt, Release, Remove, Sweep | the counter dies with the process, the files do not | counter exact, disk within budget and no orphan but what could not be removed |
| job store, `internal/store/sqlite` | tables `jobs`, `hotword_dicts`, `hotword_phrases` | Create, Update, Get, Pending, FailStale, List, Purge; dictionary writes | statements interleave with the queue's locks; a row read, changed and written back; pages over a moving table | the row is the authority after a crash; a walk over the pages skips and repeats nothing; no write undoes another |
| start-up and shutdown, `cmd/nanoasr` | what has been built, who runs | build, resume, run, Close | the order of the steps, failure in the middle | recover before sweep before fail-stale before serving; users stop before what they use is freed |
| Windows service, `cmd/nanoasr/service_windows.go` | state reported to the manager, checkpoint | Execute, drain; install, start, stop, remove | restart policy against a stop; drain against the manager's patience | a stop that was taken sticks; progress within the hint |
| model pool, `internal/pool/pool.go` | serving entries, draining entries, reference counts, pins, LRU stamps | AcquireVariant, release, Reload, Unload, Pin, Sweep, Close | loads run without the lock; hot swap, eviction and shutdown under load | a leased model is open, an unreachable one is closed, limits are exceeded only by what is in use |
| model service, `internal/service/models.go` | none of its own | Delete, Reload, Pin, downloads | checks and acts in different critical sections of the pool | a model in use is not removed |
| governor, `internal/pool/governor.go` | used inference slots, waiters | Acquire, Release | weighted semaphore on one condition variable, with cancellable waiters | never above capacity, slots neither lost nor doubled, no lost wake-up |
| pipeline, `internal/pipeline` | per run: lease, batch, answers | transcribe, recognise in batches, Cancel, RenameSpeakers, ListJobs | failure or panic while slots are held; padding and batch order; fallbacks of options | every segment decoded once and in its place, slots come back, nothing asked for is dropped silently |
| voice isolation, `internal/isolation` | sessions, tasks in line, workers, followers, files, state files | Create, Extract, Transcribe, Update, Delete, expire, restore, Close | uploads outside the lock, two workers, restart with busy tasks, quota | a busy session is the work of exactly one; what is shown is on disk; a restart brings back what was shown |
| isolation engine, `internal/tse` | stream buffers, overlap | ChooseSample, Extract, Gate.Apply, Stream.Push, Flush | edges of frames and regions | every sample once; a voice's sample holds only that voice |
| diarisation, `internal/diarize` | speaker cache and FIFO of a recording | the steps of the loop; splitting words by turn | compression of the cache; seams of the steps | turns are the maximal runs of the logits; a known voice stays known |
| realtime, `internal/realtime` | sessions: buffers, pending commit, engine loop | Append, Commit, Clear, Close, step, expire | client calls against the decoding loop; opening that is given up | words in order and once, one answer per commit, slots returned |
| realtime API, `internal/api/realtime` | connection: format, items, ping | messages, keepalive | frames cut anywhere; pongs only seen while reading | audio whole, stated settings true, only the dead are cut |
| registry, `internal/registry` | downloads in flight, model directories, manifests | Ensure, Fetch, begin, run, Cancel, Remove, pull | single flight, resume over sources, crash points of an installation | one transfer at a time; bytes are those wanted; a manifest names what is there |
| webhook, `internal/webhook` | deliveries in flight | Notify, deliver, Close | retries against shutdown | shutdown waits for what was announced, and for nothing else |
| rate limiter, `internal/httpx/ratelimit.go` | token buckets | Allow | arithmetic at the boundaries | never above rate plus burst; the wait that is advised suffices where a token ever comes |
| managed settings, `internal/managed` | settings on disk, in force and announced | Update, plan, announce | a crash in a save; the application reconnects | a save is whole or absent; a needed restart is announced and settles |
| configuration file, `cmd/nanoasr/keys.go`, `internal/config` | the file and its temporary name | issue, remove, init, load | commands are processes of their own | a printed key is in the file, a name has one key |
| audio decoding, `internal/audio` | ffmpeg with its pipes and goroutines | Decode | a child that hangs or holds the pipe; three errors at once | a decode returns and leaves nothing; its answer is true |
| text, `internal/words`, `internal/postproc` | none across requests | Assemble, Assign, Split, rewrite, punctuate | text joined across segments and scattered back | no word lost, moved or changed in value |
| HTTP APIs, recognisers, parsing of configuration, UI | | | | see section 8 |

### Interactions

* A request calls `Queue.Submit`, which calls the spool (`Reserve`, `Adopt`),
  the store (`Create`), and under the queue's own lock `reserve` and `enqueue`.
  The hub is told last. Failure at each step unwinds what was taken.
* A worker takes an item under the lock, writes `running` with the job's own
  context, publishes, runs the pipeline (which opens the audio once and calls
  `Hub.Stage`), decides under the lock whether it was canceled, writes the
  outcome with a background context, publishes, removes the audio, releases its
  bytes and notifies the webhook. Each of these is a step of its own.
* `Cancel` looks for the item under the lock, then signals, writes, publishes
  and cleans up without it; for a job it does not find it goes to the store.
* The pipeline of a job and every synchronous request borrow models from the
  pool and inference slots from the governor, step by step.
* The isolation service has its own workers and models, and for transcripts
  submits jobs to the queue, which a follower awaits.
* A websocket connection opens a session with the engine's loop over a channel
  and from then on shares the session's buffers with it under a mutex.
* `service.Models` reads the pool's list and calls the pool back; the registry
  installs directories the pool loads from.
* Start-up runs Recover (rows to items), Sweep (items to reservations, orphans
  deleted), FailStale (interrupted rows fail), then starts the workers. Close
  stops the users first and frees what they used after.

The hazards of all this, at the line where each bites, and the properties about
them, are the list `hazards` of `PROJECT.json`.

## 2. Modules

| module | models | main state |
|---|---|---|
| `Weighted` | | the total weight of a finite set, defined without recursion so that it can be proved about, with the lemmas about it |
| `Spool` | `internal/spool` | the operations of `Spool`, and `SpoolSpec`, the order in which its callers must use them |
| `JobQueue` | `internal/job/queue.go` | extends `Spool` with the queue, the life of topics, the status column, start-up and shutdown |
| `JobLifecycle` | `record.go` | abstract: a status is accepted once, started at most once, finished once, final |
| `MCJobQueue` | | instances of the queue; `FollowsLifecycle` of `JobQueue` maps the `row` column to `JobLifecycle` |
| `EventHub` | `hub.go`, `Pipeline.Watch` | topic, ring, channels, watchers |
| `Governor` | `pool/governor.go` | `used`, what each caller is doing |
| `ModelPool`, `MCModelPool` | `pool/pool.go`, `service/models.go` | entries, leases, pins, requests, administrators |
| `Isolation`, `MCIsolation` | `internal/isolation` | sessions, tasks, workers, followers, files, jobs, phase of the process |
| `RealtimeSession` | `session.go`, the loop's step | buffers, stream, commits, events of one session |
| `RealtimeEngine` | `realtime.go`, its connections | sessions, slots, requests on channels |
| `RealtimeWire` | `internal/api/realtime` | one connection: audio, settings, items; ping and pong |
| `AudioDecode` | `audio/ffmpeg.go` | child, pipes, feeder, reader, watch |
| `Downloads`, `Fetch`, `Completion` | `internal/registry`, `pull.go` | table and directories; one file over its sources and its unpacking; roles of an installed model |
| `PipelineRun`, `RequestOptions` | `internal/pipeline` | runs sharing slots; a request's way to a recogniser |
| `Transcript`, `Punctuation`, `SpokenNumbers` | `words`, `diarize`, `postproc` | pure functions over bounded inputs |
| `JobHistory`, `SpeakerNames`, `Dictionaries` | `store/sqlite`, `pipeline.go`, `native/dictionary.go` | rows, walks over pages, concurrent edits |
| `Spans`, `VoiceEngine`, `VoiceStream` | `internal/tse` | stretches, samples, regions, frames |
| `Tracks` | `isolation/leak.go`, `transcript.go` | words of the tracks |
| `Sortformer` | `diarize/sortformer` | cache, FIFO, logits, turns |
| `Webhook`, `RateLimiter`, `Managed`, `KeyFile` | packages of these names, `keys.go` | one machine each |
| `Lifecycle`, `WindowsService` | `cmd/nanoasr` | build and close order; service manager |
| `MCServices`, `MCParts` | | several of these modules side by side in one run |
| `JobQueueProofs`, `ModelPoolProofs`, `IsolationProofs` | | theorems about the modules they are named for, the first also about `Spool` |
| `SharedProofs` | | theorems about what many share: `Governor`, `RealtimeEngine`, `JobHistory`, `SpeakerNames`, `Dictionaries`, `RequestOptions`, `SpokenNumbers` and `Punctuation` |
| `ServiceProofs` | | theorems about `RealtimeSession`, `RealtimeWire`, `RateLimiter`, `Lifecycle`, `EventHub`, `PipelineRun` and `WindowsService` |
| `FileProofs` | | theorems about `AudioDecode`, `Downloads`, `Fetch`, `Completion`, `Managed` and `KeyFile` |
| `PartsProofs` | | theorems about `Webhook`, `VoiceStream` and what `MCParts` says of the store and of text |

`MCServices` and `MCParts` check components that do not share state with each
other: the variable `part` says whose behaviour it is, and the others stay in an
initial state. The state graph is the disjoint union of theirs, so a property of
one is checked exactly as in a run of its own.

### How the plan went, and what is left

The queue, spool, governor and pool came first, then the hub, isolation,
realtime, registry, shutdown, the small services and the algorithms of text and
voice. Left, by importance:

1. Proofs: what is not recursive of the algorithms, first that a chunk's context
   in `Sortformer` is the recording around it.
2. The composition of `Isolation` with the queue it submits to, over the
   abstract life of a job.
3. The English rules of inverse text normalisation, tickets, the preview files
   of an isolation.

## 3. How the modules correspond to the code

An action is what one goroutine does under one lock, in one database statement
or in one effect on a file, and its comment names the function. What a handler
does without letting anybody in between is one action. The exceptions are named
in the heads of the modules.

### JobQueue and Spool

`sub[j]` is the program counter of the request that submits `j` (an id is never
used twice), `wpc[w]` that of a worker, `cpc[c]` that of a cancelling request.
`items` is the set of waiting items; `sortLocked` keeps them ordered, so `Take`
takes the one that comes first in `Before`.

| code | actions |
|---|---|
| `Submit` | `SubmitReserveSlot`, `SubmitReserveBytes`, `SubmitAdopt`, `SubmitCreate`, `SubmitEnqueue`, `SubmitAnnounce`; unwinding: `SubmitRemove`, `SubmitRelease`, `SubmitUnreserve` |
| `next`, `work` | `Take`, `Leave` |
| `run` | `Begin`, `RecordRunning`, `AnnounceRunning`, then the runner: `OpenAudio`, `StageRead`, `StagePublish`, `RunnerReturns`, `RunnerInterrupted`; `DeadlineExpires` for the timer |
| `finish` | `Finish`, `RecordOutcome`, `ReportOutcome`, `RemoveAudio`, `ReleaseAudio`, `NotifyWebhook` |
| `Pipeline.Cancel`, `Cancel`, `cancelStored` | `CancelBegin`, `CancelLocate`, `CancelSignal`, `CancelRecord` or `CancelLoad` and `CancelStore`, `CancelPublish`, `CancelRemove`, `CancelRelease` |
| `Shutdown` | `Shutdown`, `GraceExpires`, `Exit` |
| `server.resume` | `Recover`, `SweepSpool`, `FailStale` |

`ProcessEnds` is a crash, a kill or the orderly exit between any two steps: all
memory is lost, `row`, `createdAt` and `files` stay. `ctx[j]` is the state of
the job's context; it is `"none"` until the worker has set the cancel function,
which is why a cancellation or `cancelRunning` in that window reaches nothing.
`WritesMayFail` lets a status UPDATE fail: the disk may be full, and `Cancel`
writes with the context of the client's request; `unwritten` remembers whose
outcome was lost that way. `RemovalsMayFail` lets `os.Remove` fail: `Remove` and
`Sweep` only log it, the file stays and its bytes are given back all the same.
`leftover` holds these files. `running` keeps a key after
`run`'s early return for a canceled item, because the code does not delete it
there. In `Spool`, `Rereserved` abstracts the loop of `Sweep` over a directory
in any order.

### Governor, ModelPool

`Acquire` is `Enter` and, for one that sleeps, `Alarm`, the goroutine
`context.AfterFunc` starts, which takes the mutex and broadcasts. A broadcast
makes every sleeper enter again. What is asked for is clamped as in the code.

In `ModelPool` a load runs between `TryLoad` (the placeholder is installed) and
`LoadFails`, `LoadSucceeds` or `LoadRetired`. An entry is a record of one
instance; `Free` lets a record nobody can reach be used again, so a small set
covers any number of loads. `Reclaim` is `evictLocked` at the end of a critical
section. `open` is what no variable of the code says: which recognisers have
been built and not closed.

### Isolation

A worker's `pc` follows `next`, `run` and `work`; a follower's follows
`transcribeLocked` and `followJobs`; `cancel[s]` is the field of the session both
of them set and clear. `disk[s]` is the directory: source, tracks, transcript and
the state file as it was written last. `Saves` is `saveLocked`; `Restart` is
`restore` of what the directory holds, with the status of a busy session turned
back. The job queue is external here: a job is `live` until it ends or is
canceled.

`MayFail` says which calls on the disk may fail at any time: `"write"` a save of
the state file, after which the session is in `unsaved` until one succeeds;
`"remove"` a removal, which leaves any part of what it was to take away
(`Remnants`, `Removals`); `"restore"` the reading of a state file at start, which
leaves the session out of the process and its files in place. `stray` holds the
sessions whose removal or restore has failed.

### Realtime

`RealtimeSession` has a client with its calls on one side and `step` of the loop
on the other, cut where `step` gives up the mutex. A piece of audio is a number,
a transcript the sequence of numbers that were recognised, so order, loss and
repetition can be told. `RealtimeEngine` leaves audio out and has the channels
between connections and the loop: open, discard, close, and the loop's end.
`building` is the session `admit` is making, in which the loop hears nobody;
`forsaken` those whose `discard` gave up after its 30 seconds meanwhile.
`RealtimeWire` cuts a numbered byte stream into frames anywhere, and
`conn.many` says whether the model has several languages; its second half,
the keepalive of the connection, counts time in units of the write timeout.

### Registry

A model directory is absent, bare (renamed into place, without a manifest) or
complete; `RegistryRestarts` may come at any step. `Fetch` has the bytes of one
file as right or wrong, sources that resume, start over, break or lie about
their length, and then the counters of unpacking, one entry of the archive a
step. `Completion` has processes that may be killed between any two steps.
`ModelsAreWhole` is about the three at once; their behaviours share no state.

### Managed settings and keys

`Managed` is one application with its settings: `file` on disk, `chosen` in
force, `started` what the server was started with, `trying` the update under
way. A save is the write of the temporary file and the rename; the process may
go between them. `KeyFile` has the configuration file as names (`path`, `tmp`)
that lead to texts, so a rename moves a name and an open file keeps its text. Each
command is a process that may be killed at any step.

### Functions

`SpokenNumbers`, `Punctuation`, `Transcript`, `Tracks`, `VoiceEngine` and
`Sortformer` are algorithms. Their control, the
order of the rules, and their arithmetic on indices and times are kept; letters,
samples and probabilities are members of small sets. Networks (recognisers,
extractor, embedder, diariser) are external: an embedder may fail and choose any
candidate, the diariser may hold any of a few opinions about the recording, the
extractor's output is told apart by what went in. `Tracks` compares levels as
whole numbers. `VoiceStream` is a machine: `Push` and `Flush` add to the buffer,
`ExtractFrames` is one turn of `drain`'s loop, `PushReturns` and `FlushReturns`
end the call (`call`) and hand over what it has gathered (`out`); an output
sample is the set of the contributions that were added up for it.

### Time and numbers

`RateLimiter` counts a token in `Token` parts and time in ticks, so that refill
is exact integer arithmetic; the code's floating point is not modelled.
`WindowsService` counts ticks of `drain`'s ticker; `policy.taken` says that the
last process took a stop out of its channel, as against one that waited there
while the server ended by itself. The keepalive of
`RealtimeWire` and `Webhook` keep ages and phases in place of instants.

## 4. Runs and properties

| run | instance | question |
|---|---|---|
| `queue_races` | 2 jobs, 2 workers, 1 client | do submissions, workers and a cancellation interleaved at every lock leave a job stranded or its audio too early or too late? |
| `queue_cancel` | 1 job, 1 worker, 2 clients, deadline, shutdown, 1 restart, failing writes and removals | is the spool used in its order, does nothing stay behind but what cannot be removed, does `canceled` stick and appear only if asked for, does the row say what the webhook was told? |
| `queue_admission` | 3 jobs on 2 slots and 3 units of disk, deadline, 1 restart, failing removals, no client | is admission exact and bounded, the disk within budget, and does the status column implement `JobLifecycle`? |
| `queue_liveness` | 1 job, 1 worker, 1 client, deadline, 1 restart, fair | does every recorded job end and every shutdown drain? |
| `pool_swap` | 3 requests, 1 administrator, a model and its variant, room for one | do loads, hot swap, unloading, eviction and shutdown keep leased models open and close the others? |
| `pool_live` | 2 requests, a model and its variant, memory for one, fair | is everybody who waits for a load woken, is a swap completed? |
| `isolation` | 2 sessions, 2 workers, one of each kind allowed, a full job queue | is a busy session the work of exactly one, is no task left to a sleeping worker, does each kind keep to its room? |
| `isolation_kept` | 1 session, 1 worker, 1 job, a crash or shutdown, failing saves and restores, fair | is what is shown on disk, does a restart show the same, does work end? |
| `services` | governor, realtime session, realtime engine, downloads, ffmpeg, fair | does everybody who is owed an answer get one, and a true one? |
| `parts` | 25 small components | what each may do and may never do, below |
| `queue_overwrite`, `isolation_delete` | the smallest that shows it | statements the code contradicts, section 7 |

| property | what could go wrong |
|---|---|
| `NobodyStranded`, `AudioFollowsItsJob` | `Quiet(j)` says that no thread has the job in hand and it is not in line. Then its row is terminal, no reservation remains, and no file but one that could not be removed; and a queued row has its audio at every instant, which is what makes a crash recoverable. The last holds where status writes succeed (`WritesMayFail` FALSE) and is not asked where they fail: `Cancel` removes the audio though its write failed |
| `CancellationHolds` | a recorded cancellation of a job found in memory is overwritten; or a deadline or a shutdown, whose errors look alike, is recorded as one |
| `SpoolSpec` | completion and cancellation of the same job both remove and release; bytes given back before the removal was tried |
| `AdmissionIsExact` | a slot is lost or given back twice on a path out of `Submit`; after a restart that carried over more than `queue_size` the bound is what was carried |
| `DiskIsPaidFor` | a file nobody paid for that no failed removal explains, a counter that drifts, a sweep that refuses what fits |
| `FollowsLifecycle` | a status that goes back or starts twice across a crash |
| `NotifiedIsRecorded` | the row says something else than the webhook was told, at once or after a crash, and neither a failed write of the outcome nor a cancellation somebody asked for explains it (both do happen, section 7) |
| `JobsEnd` | a job without an end, a shutdown that waits for ever |
| `SwapsAreSafe`, `UnloadIsFinal`, `SwapsEnd` | a leased recogniser closed, one left open that nobody can reach, a wrong reference count, an idle model over the limit, a retired placeholder that serves, a waiter nobody wakes |
| `WorkIsHeld` | a session that says it is busy and is nobody's work, or two workers'; a lost signal; quota passed by a change of mind |
| `ShownIsKept` | a track offered that is not on disk; a deleted session that comes back though its directory could be removed; a restart that shows something else though the last save succeeded; a transcript that is not of the present tracks |
| `IsolationEnds` | work that never ends, `Close` that never returns |
| `GovernorIsExact`, `AcquireReturns` | slots over capacity or drifting; a wake-up lost between a look at the context and the wait; a cancelled caller that stays |
| `WordsArrive`, `CommitsHold` | a piece of audio decoded twice, out of order or lost without the session being closed; a commit answered before its audio was decoded, or never |
| `SlotsComeFree` | a session nobody holds any more keeps its slot, or, where `discard` gave up, keeps it beyond the idle limit; a connection waits for a loop that is gone |
| `AskersAreAnswered` | a watcher of a download is never told of its end |
| `DecodesReturn`, `AnswersAreTrue` | feeder and reader wait for each other; a grandchild keeps the pipe; the wrong one of three errors is reported; a sample split by a block is lost |
| `EventsArrive` | an event twice, out of order or missing between replay and live; a close without the final event |
| `DeliveriesEnd` | Close returns with a delivery under way, or waits out a backoff |
| `RateIsFair` | more admitted than rate and one burst allow in any window; an advised wait that is a tick short or long; a rate whose burst is no request and that lets one in |
| `SettingsOutlast` | a torn settings or key file, a restart that is not announced or never settles, a printed key that is not in the file |
| `ModelsAreWhole` | bytes of the wrong source, limits passed while unpacking, a manifest that names what is not there, two downloads into one directory, a cancelled download reported as done |
| `UpAndDownInOrder` | a refused build that leaves something open, a resource freed under its user, an optional model that keeps the server from starting |
| `TalkIsWhole` | a sample lost at a frame's edge, an update that is acknowledged and not in force (but the language of a model that has only one, section 7), a live client cut, a dead one kept |
| `RequestsAreHonest` | an option dropped without a warning, an option that reaches a loader that ends the process on it, a key that names nothing passed over, a request that asked for nothing refused for another reason than a dictionary store or a budget that fails |
| `RunsShareTheMachine` | a run that waits with slots in hand or fails with them, a recognition in another segment's place |
| `TranscriptIsWhole`, `TextIsKept` | a word lost, doubled or out of order between tokens and segments; a word that ends where it starts, or a special token in the text, anywhere but in the cases of section 7; numbers that read as others; marks that change letters |
| `VoiceIsWhole`, `TracksAgree` | a sample counted twice or not at all at the edge of frames; a sample with two voices; every copy of a word dropped, or none; the louder one dropped; a word dropped for one that is not of it |
| `RecordsStay` | a walk over pages that skips or repeats; a rename that undoes another; an import half done |
| `ServiceObeys` | a service that took its stop comes back; the manager gives up on a drain; an upgrade that runs the old program |
| `DiarizationHolds` | turns cut at the seams of chunks, a gap in the FIFO, a speaker pushed out of the cache |

## 5. Bounds and fairness

The bounds are the sets and numbers the configurations give the constants. One job
is enough wherever the property is about the threads that meet at one job (Cancel,
finish, restart): jobs meet only at the slots, the bytes and the order of the
line, which `queue_races` and `queue_admission` are for. One restart suffices for
the crash points, as a recovered process starts from rows and files alone, both of
which the first process can leave in any reachable combination. Three requests in
`pool_swap` are one that loads, one that waits and one that holds a lease on what
was swapped out; four entries are one more than can be in use. Two workers in
`isolation` are what makes a handover between tasks of one session possible; `Job
= {}` there is a queue that refuses every submission, and `isolation_kept` has the
ones it accepts. That run has one worker, as saves and restores fail in it at any
step: two workers of one session are what `isolation` and `isolation_delete` are
for, removals fail in the latter, and the theorems cover workers and failures of
any number together. In `services` one download is shared by two callers to its
end; in `parts` two downloads follow each other or compete.

In `parts`, inputs are chosen so that the boundaries are among them: frame lengths
around the hop and the window of `VoiceStream`, numbers around the thousands in
`SpokenNumbers`, turns that touch, nest and pass the end of the recording in
`VoiceEngine`, all answers of up to five characters in `Punctuation`, rates that
do not divide a second and one below half a request a second in `RateLimiter`,
files one unit over a limit in `Fetch`. The tracks of `Tracks` are two, with words
as loud as their copies, louder and quieter in every order, words of their own,
repeated words, leaks and a segment without words at three distances, and three
that share words in a cycle at three levels each. The definitions of `MCParts` say
what a set leaves out, and only combinations that repeat another's case are left
out: requests whose strictness follows from the method, servers without a
dictionary store that differ in more than one thing, configurations that lack more
than one model.

Clients and entries of `pool_swap`, workers of `queue_races` and sessions and
workers of `isolation` are interchangeable, and none of these runs checks
liveness: their symmetry is sound. Deadlock is not checked where everybody may be
done: the queue's jobs, the isolations' starts, the finite inputs of `services`
and `parts`. It is checked in the runs of the pool.

Fairness:

* queue: a goroutine that can run does (`SubmitContinues`, `WorkerStep`,
  `CancelContinues`), which includes that the runner returns; the start-up goes
  on; a process whose workers have left exits and is started again. Nobody has
  to submit, cancel or shut down, and a crash is never required.
* pool: loads end, at the latest by their deadline; waiters go on; a handler
  releases its lease, which in the code is deferred.
* isolation: uploads, workers and followers go on, and jobs end in the queue
  (which `queue_liveness` shows of it); no client has to do anything, and no crash
  is required.
* governor: entering callers and the goroutines of `AfterFunc` run. No release
  is assumed, because a decode may hang; `AcquireReturns` is about callers whose
  context has ended and about those the others leave alone.
* realtime: the loop's step goes on; a client need not send or read. Connections
  and the loop of `RealtimeEngine` run, contexts need not end.
* downloads: a download goes on, as each wait in it has a timeout; so do its
  callers. ffmpeg itself is not fair: it may hang, and only the watch over its
  context, the feeder and the reader are.

## 6. Theorems

TLC checks the instances above; the theorems hold for every value of the
constants: every finite set of jobs, callers, clients, sessions or entries, all
sizes, priorities and limits, any number of workers and restarts. They assume only
the named assumptions of the modules (`SpoolAssumption`, `QueueAssumption`,
`GovernorAssumption`, `PoolAssumption`, `IsolationAssumption`, `NoneAssumption`,
`RateAssumption`, `LifecycleAssumption`, `DownloadsAssumption`, `HubAssumption`,
`PipelineAssumption`, `DecodeAssumption`, `FetchAssumption`, `ManagedAssumption`,
`KeyAssumption`, `WireAssumption`, `KeepaliveAssumption`,
`WindowsServiceAssumption`, `EngineAssumption`, `HistoryAssumption`,
`RenamerAssumption`, `RequestsAssumption`, `WebhookAssumption`,
`StreamAssumption`, `SpokenAssumption`, `PunctAssumption`: sets are finite, limits
are numbers, words are words and numbers are below a million, the null value is no
member of what it stands beside, a ping times out before the next is due, a hop is
shorter than half a frame, which has an even number of samples, and a key file
written by hand has no name or secret twice, which no loader checks), and, where
said, that writes succeed or that nobody cancels. Where `MayFail` or
`RemovalsMayFail` lets the disk fail, what is proved covers the failures. Each
inductive invariant was checked by TLC on small instances before it was proved.

* `Weighted`: adding, removing, changing and comparing weights of finite sets.
* `JobQueueProofs`, of the spool: `SpoolAccounting` and `SpoolDiskBudget`. The
  budget alone is not inductive: that a file set fits after `Adopt` rests on every
  file being paid for, and that a reservation is exact. After a crash nothing is
  paid for until `Sweep`, so `SpoolInv` says both halves: files fit at all times,
  and once swept they are within the reservations. As the files of a dead process
  fit, Sweep refuses none of them, unless the operator lowers the budget between
  two starts (`MaxBytes` is a constant here). Both halves leave out the files that
  `os.Remove` refused to delete (`leftover`), whose bytes the code gives back:
  with them the disk may be over its budget (section 7). `LeftoverOnlyByFailure`,
  proved with the budget, says that there are none where removals succeed.
* `JobQueueProofs`, of the queue:
  * `QueueImplementsSpool`: every behaviour of the queue is one of the spool's
    discipline, `SpoolSpec`, which `queue_cancel` checks. The invariant
    `Discipline` behind it says that whoever knows of a job has it from its row,
    hence its submission is past `Create` and touches the spool no more
    (`KnownIsRecorded`); and that a thread about to release has deleted the file
    or failed to, one about to adopt has reserved (`FilesInHand`).
    `QueueDiskIsPaidFor` then follows from what is proved of the spool.
  * `QueueAdmissionIsExact`: exactness is what makes the bound inductive, as
    `enqueue` turns a slot into an item only if `admitted` was not zero;
    `SlotReturned`'s floor is never reached.
  * `QueueTypeOK`: with the fact that a worker past `RecordOutcome` holds an
    outcome (`VerdictIsFinal`), so what it publishes and notifies is terminal.
    The proof has one step per action; the ones of the cancellation are lemmas
    of their own.
* `JobQueueProofs`, second part, invariants that build on each other:
  * `HandsFit` (`QueueHandsFit`): a job is in line or in the hands of one worker,
    and a worker past `finish` has taken it out of `running` uncancelled.
  * `CancelFits`, hence `QueueCancellationHolds`: `Cancel` sets the flag under
    the lock before it signals, and signals before it writes. So when the
    cancellation is recorded, a worker that holds the job has lost the context
    with which it could write `running`, and meets the flag before it could write
    an outcome; a verdict `canceled` goes back to a client or to the shutdown.
  * `CleanFits`, hence `QueueLeavesNothing`: audio of a job is somebody's to
    remove, and that of a cancelled one is the cancelling request's alone, as the
    worker lets go of the job without touching the spool.
  * `RecordFits`, hence `QueueAudioFollowsItsJob` and `QueueStrandsNobody`: a row
    without an end has a worker, a place in line or a request that has yet to
    decide. It holds where UPDATEs succeed (`~WritesMayFail`): a write that fails
    is only logged by the code, and such a row waits for the next start. The first
    half of `AudioFollowsItsJob` needs no such condition.
  * `QueueNotifiedIsRecorded`, whether or not writes fail: who is about to tell the
    webhook has written that outcome, or failed to (`unwritten`), and afterwards
    nobody but a cancelling client writes to the row. Exceptions are named in the
    property: an outcome that could not be written, and `canceled` that somebody
    asked for.
  * `LifeFits`, hence `QueueUnaskedMoves`: every step moves the status of a job
    that nobody asked to cancel along the life of a job, while others are
    cancelled. For a job somebody did ask to cancel this is false of the code
    (section 7), which is why `QueueFollowsLifecycle`, the refinement of
    `JobLifecycle` as a whole, is about a queue without cancelling clients.
* `ModelPoolProofs`: `PoolSwapsAreSafe` and `PoolUnloadIsFinal`, from `PoolInv`.
  That a leased model is open is not inductive alone: an entry is closed when its
  count is zero, so the count must be the number of leases (`RefsExact`); the
  lease may be taken on an entry another client has loaded, so what serves must
  be open or loading, and what loads must have one client that does
  (`LoadsFit`); and the limits hold of what is settled, as a load begins over an
  idle model that it evicts only when it succeeds (`SettledFits`).
* `IsolationProofs`: `IsolationWorkIsHeld` and `IsolationShownIsKept`, from
  `IsolationInv`, a conjunction with one part per question:
  * `CarryFits`: a session's work is in one of upload, line, a worker's hands and
    a follower's at most, no two tasks of it wait, and it is busy exactly when its
    work is in one of them. A worker whose run has handed over still names the
    session until its last critical section; `HandsOn` says which of the two it
    is, without which the count of carriers is not inductive.
  * `DownFits`: what a process that has ended leaves: nothing in memory.
  * `NoTaskForgotten`: the signal, which is one bit; and `RoomFits`: the count of
    each kind, and of the state files a restart will turn into sessions, which
    must not exceed what it may keep.
  * `KeptFits`: for each session, the tracks and the source it offers are on the
    disk, also while a worker is between making a track and publishing it
    (`FilesOf`); a state file belongs to a session that is kept and says nothing
    that the disk does not hold, whatever a crash does next (`SavedOf`); a
    transcript is of the tracks that are there or is called stale (`TextOf`); and
    at rest the file says what is shown, unless its last save failed (`RestOf`). It
    relates the view in memory, the file as it was last written and the tracks,
    which every critical section of the service changes in an order of its own.
  * Saves, removals and restores may fail at any step. Who is `unsaved` is an
    exception to what a restart shows, and to nothing else: what is on the disk
    is still true of the disk. Who is `stray` may come back although deleted and is
    not counted in the rooms; a session becomes stray only by such a failure, and
    stays it (`StrayGrows`).
* `ServiceProofs`, one part per machine:
  * `RealtimeWordsArrive` and `RealtimeCommitIsWhole`. `Line` says that what was
    reported, what is heard, what the recogniser holds and what waits are each in
    order, each before the next, and of the pieces sent so far; each kind of move
    along this line is a lemma. A commit is whole because it was of audio already
    appended and, once the loop has fed the recogniser again, all that waits came
    later (`CommitFits`). That every commit is answered is liveness and stays with
    TLC.
  * `RateLimiterIsFair`, for every rate, those below half a request a second
    included, which are never let in and for which the advised wait is no promise
    (section 7). A window's admissions cannot be bounded from the bucket
    alone, so `Paid(i)` says it for the window that begins at admission `i` and
    ends now: the tokens it took and what the bucket would hold by now are no more
    than a full bucket and the refill of the time between. An admission takes from
    one and adds to the other, the clock adds the same to both sides, and the cap
    on the bucket only helps. Rates and windows are unbounded.
  * `ServerGoesUpAndDownInOrder`, for every set of configurations. Which step of
    the build or of the close has been reached says what is held (`HeldFits`) and
    who still runs (`RunningFits`); a refused build has closed what it held.
  * `WatchersSeeAll`, the event hub. What a watcher has received, what its
    channel holds and what the topic will send are not related by the property;
    the invariant says that the ring and each channel are runs of consecutive
    numbers of one life of the topic (`RingOf`, `StreamOf`), that a subscriber's
    channel ends with the newest event of the topic, and that a channel which was
    closed without being cut off ends with the terminal one (`SubscribedOf`).
    Replay and live events then join without a gap because replay takes the end of
    the ring under the lock that subscribes.
  * `PipelineSharesTheMachine`. Slots are only with a run that computes, and what
    all hold together is within the capacity, which is a sum over the runs and
    rests on `Weighted`; what a channel has answered is exactly the places before
    its next batch (`InPlace`). That a batch is never empty and within its limits
    needs the maximum of a bounded set of numbers to exist, which the library has
    as well-foundedness. `BatchLength`, a fold, is not computed: the code compares
    one and the same length with the limit.
  * `RealtimeTalkIsWhole`, a connection's two halves. For the audio (`AudioFits`):
    the samples and after them the bytes carried over are one run of consecutive
    bytes, from where the stream last began to the last byte read. A frame joins
    that run at its end, wherever it was cut; that cutting the joined run into
    samples goes on where the last cut stopped (`SamplesJoin`) is arithmetic on
    quotients, for a width of one and of two. What was stated holds because each
    update changes the statement, the connection and the running session together,
    but for the language where the model has only one (`conn.many` FALSE): there
    it is only stated. For the items (`ItemsFit`): the item being told becomes the
    last one with its second message. For the watch (`QuietFits`): a dead peer has
    been silent no longer than it was idle, and no longer than the age of the
    ticker, or of the ping, beyond an interval or two.
  * `WindowsServiceObeys`. The manager's state and the process agree
    (`StateIsTrue`), so only the policy or a start command launches, and the
    policy is off once the process took its stop. A stop that is pending when the
    server ends by itself may not be taken, and then nothing holds the policy back
    (section 7). Every tick of a drain reports, so no report gets old; and a
    command that goes on to start has written the new program (`NewIsRegistered`).
* `FileProofs`, what is kept in files and what comes through pipes:
  * `DownloadsInvariant` and `DownloadsAreSingle`: each entry of the table is one
    download of that model between its start and its last critical section, and
    each such download is in the table (`TableFits`). Single flight, exact slots
    and a cancelled download that does not report success follow.
  * `RegistryModelsAreWhole`, with it. What is fetched is the wanted file because
    the hash is of what is on disk (`HashesTheDisk`), also after a source that
    starts over; that the disk keeps its limit rests on the count before each
    block is written, and that of unpacking on `total` being what the disk took
    (`CountsTheDisk`). A manifest is replaced by what a puller read before others
    wrote, so `PullersFit` says of every puller under way that what it read and
    what it fetched is on disk; files are never taken away, so that stays.
  * `SettingsAndKeysOutlast`. For settings, the save under way is the one
    difference between disk and memory (`SavedIsChosen`), and the last
    announcement is what is so now unless the disk has changed and `Changed` has yet
    to be called (`AnnouncedIsNeeded`); that a restart settles is a lemma about
    plans (`StartSettles`). For keys, every text is free of twins however
    commands overlap (`OneNameOneKey` needs only that what a command writes
    extends or shortens a text that was), while a command that is alone has read
    what is in the file, so its document is the file's keys with its own change
    (`SaveFits`), at each step of the save.
  * `AudioAnswersAreTrue`, for samples, blocks, pipes and files of any
    size. The property speaks of the end of a decode only, the invariant of every
    moment of it: a block is to be fed, in the pipe or taken (`FeedFits`); the bytes
    that were converted, those carried over to the next read, and those in the pipe
    are consecutive, and no more are written than the file has (`StreamFits`); how
    the program ended says why, the closing of the pipe by the watch included
    (`EndFits`); and the verdict of the decoder is backed by that (`VerdictFits`).
    That a read which splits a sample loses nothing is `PiecesGoOn`, arithmetic on
    quotients. `DecodeLeavesNothing` is the safety half of `DecodesReturn`. A file
    that has sound has at least one block; that is all the assumption asks of it.
* `PartsProofs`:
  * `WebhookDeliveriesEnd`: the group `Close` waits for counts exactly the
    deliveries under way, a delivery that posts has an attempt left, and a close
    has told every pause. That each delivery ends is liveness.
  * `VoiceStreamIsOnePass`, the part of `VoiceIsWhole` about the stream, for every
    hop and frame length, any number of frames in a call, graphs of fixed and of
    free size, and any cutting of the recording. With `m` the frames extracted so
    far, the buffer is the padded recording from frame `m` on (`Buffered`), the
    overlap-add holds at each place what the first `m` frames made of it
    (`Summed`), and what was returned, what the call has gathered and what is held
    back lie end to end. A sample leaves when no later frame touches it
    (`MadeInOnePass`), and then it is what one pass over the whole gives. The
    steps are arithmetic on multiples of the hop, each a lemma with the products
    named, as the solver does not multiply. A recording no longer than half a
    frame is not padded as the reference pads it; of it only the length is stated.
  * `StoreKeepsItsRecords`: `RecordsStay` of `MCParts` for all sizes. A behaviour of
    the parts side by side is, for each part, one of its own specification, so the
    theorems about the history, the names and the dictionaries carry over.
  * `TextStaysTheText`: `TextIsKept` of `MCParts` in the same way, from the two
    theorems about numbers and marks in `SharedProofs`.
* `SharedProofs`, one part per machine:
  * `GovernorStaysExact`. That `used` is exact makes the floor in `Release`
    unreachable, and the floor not biting keeps it exact: the two are proved
    together, with the wake-ups on top of them (`GovernorInvariant`).
  * `EngineSlotsHaveOwners`. Who holds a session at each point of its way, from
    the loop's answer to its last request, is `LiveIsHeld`; a session that is
    closing is with a closer or in line for the loop (`Handed`). The one without an
    owner is a session whose `discard` gave up while `admit` was still making it:
    the theorem says that nobody uses it and its client has gone, and TLC that the
    idle limit ends it. That the loop
    gives out no slot over the limit (`SlotsAreEnough`) is proved with it, by
    counting sessions before and after an opening. That each connection ends is
    liveness.
  * `HistoryWalkIsWhole`. A page is the first rows beyond the cursor in the order
    of `Sooner`, which is linear although times coincide. A row that was there
    when the walk began matches the filter still or for ever no more
    (`StartsStay`) and does not move in that order, so it has been seen once the
    cursor has passed it (`SeenUpTo`).
  * `SpeakerNamesAreKept`: whoever is between reading and writing has the lock and
    has read what is still stored. A rename that overlaps the purge writes no row.
  * `DictionariesHaveOneCreator`: a key without a dictionary has nobody who was
    told to have created it.
  * `DictionariesKeepTheirPhrases`, both `ExportsComeBack` and `AppendsKeep`. A
    stored list is neat, without blanks and repeats, and an import under way that
    nobody has interrupted has read what is still stored (`PhrasesInv`). Cleaning
    a neat list changes nothing and cleaning keeps a neat beginning; the loops of
    `cleanPhrases` and `Parse` are recursive functions on positions, which are shown
    to exist (`LoopRuns`) and reasoned about by induction in set form
    (`CountingUp`): every set of positions that has the first and with each the
    next has them all.
  * `RequestsHearTheTruth`. The property speaks of the answer and of the loader;
    the invariant follows the request: what the variant asks for is what the model
    can do with what is configured (`VariantIsSound`), what was left out of it is
    among the warnings (`LacksAreTold`), who falls back to the plain recogniser
    has been told the rest (`LeaseIsTold`), a key that names nothing has been
    refused or warned about (`KeysAreAnswered`), and who asked for nothing gets
    there without a warning (`BareIsLeftAlone`), unless the store with the
    server's own dictionaries fails, which refuses the request.
  * `NumbersAreKept`. No rule of the six takes a pause into what it replaces
    (`MatchMayTake`). A number below a million is nought, a group, or a group of
    thousands and a group (`Ways`); `parseNumber`, between its words, has the
    thousands in its total and the rest in its group (`ReadTo`), a part at a time
    (`GroupIsRead`, `ScaleIsRead`); no rule before the plain one, or the one for
    money, takes any of it (`NumberIsNothingElse`), so it is written as it was said
    (`NumbersFollow`), for every such number and every run of words.
  * `LettersAreKept`. Each letter that is wanted is the next one of the answer
    (`LetterWanted`); a word that is put back has its letters in their order
    (`WordIsReattached`), and by induction all words have (`ReattachKeepsLetters`).
    When the answer diverges the words stay as they were.

Model-checked only: all liveness (the prover has no reasoning about fairness), and
the algorithms of transcripts, tracks, voices (but for the stream) and diarization
(`TranscriptIsWhole`, `TracksAgree`, `DiarizationHolds` and the other parts of
`VoiceIsWhole`). They fold, sort and choose over their inputs, and what such a
definition computes for every input needs induction over data. The library's
induction theorems take an operator, which no prover here can instantiate;
induction in set form, as for the dictionaries and the text, works where a loop is
a recursive function of positions, and neither for folds nor for sorted sequences.
Of `TracksAgree`, one part is a statement about the checked bounds and not a
theorem: that of two tracks' copies one stays, within two windows of each that
goes. A longer chain of copies, each louder than the one before and almost a
window away from it, moves the copy that survives further, and runs are judged by
their mean, so nothing general is claimed of them. For want of induction also,
`TasksWithout` of `Isolation` says by ranks what `slices.DeleteFunc` leaves, and
`Words` of `RealtimeSession` looks at one piece, and `Replay` of `EventHub` is the
end of the ring, found by number: the prover knows nothing about `SelectSeq`.

## 7. Where code and statements disagree

Each has a run whose counterexample is the interleaving.

* `queue_overwrite`: `finish` reads the cancelled flag under the lock and writes
  afterwards; in between `Cancel` does not find the job in memory, records
  `canceled` through the store and answers success; the worker's write then
  replaces it. (`queue_test.go:333`, `queue.go:419`.)
* `isolation_delete`: a run sets the status that lets the next task begin before
  its own last critical section, where it clears the session's `cancel`. With
  two workers that is the cancel of the next task, and deleting the isolation
  then stops nothing. (`work.go:85`, `transcript.go:60`.)

Seen in the models, with no run of their own. The properties name each of these
as what they do not promise, or their inputs leave it out.

Job queue and spool:

* Between `Create` and `enqueue` the job is in no list, so `Cancel` marks the row
  and removes the audio and `Submit` queues the item regardless (`queue.go:202`).
* An announcement that comes after the terminal event creates the topic anew, and
  nothing drops it (`hub.go:21`); and `running` may be announced before `queued`
  (`queue.go:206`).
* `Cancel`'s UPDATE fails, is only logged, and the audio goes: the row stays
  `queued` until the next start (`queue.go:476`).
* The webhook is told an outcome that the row does not keep. `Cancel` has
  loaded the row before `finish` records, and writes `canceled` after it; or the UPDATE
  of `finish` fails, is logged, and the webhook is told all the same
  (`queue.go:404`, `queue.go:414`).
* A removal that fails is only logged and the bytes are released: the file stays,
  nobody pays for it, only the next start tries again, and the disk may pass `max_spool_mb`
  (`spool.go:136-141`, `spool.go:183-186`, against `spool.go:74-79`).

Models:

* `Models.Delete` looks at the reference counts, then unloads in another critical
  section (`models.go:132`).
* The variant budget is checked in one critical section and used in another
  (`pool.go:144`).
* A `Reload` whose build ends after `Close` installs a model in a closed pool
  (`pool.go:310`).

Voice isolation:

* A state file that cannot be written is only logged (`store.go:77`); the next
  process shows the state before, as `store.go:51-53` admits. One that cannot be
  read leaves the isolation out of the process and its files on the disk
  (`store.go:101`).
* A directory that cannot be removed is only seen again at the next start (`isolation.go:504`,
  `isolation.go:909`): what was deleted or released comes back with that
  process, perhaps without its recording and beyond the room of its kind.
* Three tracks can lose every copy of a word: each holds it more quietly, on the
  mean of its run, than another does (`leak.go:174`). The comment there speaks of
  two copies (`leak.go:177`).

Realtime:

* `discard` gives up after 30 seconds (`realtime.go:207`). A session that is
  admitted after that has no owner; it keeps its slot until the idle limit, or,
  where `idle_timeout` is 0, until the shutdown.
* On a model with one language an update states the client's language, while the
  stream that runs is not told and keeps its own
  (`api/realtime/realtime.go:733-741`). The client is warned of a language that is
  not the model's.
* An update that is refused for its model has changed the format before.

Requests and text:

* A dictionary of the server's that cannot be read (another error than not found)
  refuses a request that asked for no dictionary (`variant.go:146-149`).
* Two appends to one dictionary at the same time: one is lost
  (`dictionary.go:247`).
* A word may end where it starts, against `words.go:6`: of two tokens with one
  onset `enforceMonotonic` leaves the first no time (`words.go:238`), and a word
  heard at the end of its segment has none left (`words.go:91`).
* A special token between two pieces of one word stays in its text
  (`words.go:85`, against `words.go:9` and `words.go:162`).
* Two numbers said in a row are added where they look like one: 'двадцать
  тридцать' becomes 50 (`ru_numbers.go:100`).

Settings, commands, limits:

* Two key commands at the same time read the same file, and one of the keys is
  lost (`keys.go:146`).
* `init` writes the configuration before the loader has seen it, although the
  comment says "Written only after the loader has accepted it"
  (`init.go:114-118`).
* A stop that waits in the channel while the server ends by itself need not be the
  one `select` takes: `Execute` returns 1, and the restart policy brings back a
  service that Stop-Service has seen stopped (`service_windows.go:80-97`).
* A rate below half a request a second, which the configuration accepts
  (`load.go:146`), gives a bucket that never holds a token. Such a key is refused
  for ever, and told each time to wait (`ratelimit.go:57`, `ratelimit.go:74-78`).

Decoding of audio:

* Errors hide each other. Where channels are split the WAV reader speaks first, so
  a file ffmpeg cannot read, or a decode cut off by its deadline, is answered as an
  invalid WAV; and a deadline the reader sees before ffmpeg's end is a bare context
  error, not `processing_timeout` (`ffmpeg.go:211-221`).
* An upload that cannot be read to its end is only cut short: the feeder drops the
  error (`ffmpeg.go:201`), and what ffmpeg made of the beginning is the answer.

## 8. Not modelled

* Of the queue: `Position`, which reads. Of the store: opening, and
  migrating the database. Of the pool and the registry: listings.
* The governor gives no order to its waiters, so a large request may be passed
  over by small ones for as long as they keep coming; `AcquireReturns` promises
  service only to a caller the others leave alone.
* Of start-up and shutdown: the background preload of models and the loops that purge
  idle models and the history, as users of what Close frees.
* Of the isolation service: waveform previews, levels in decibels and the
  formats of files. Of realtime: tickets (one map under one mutex) and JSON.
* Of the registry: parsing of catalogs and manifests; a digest is a comparison
  of what went through the hasher with what was wanted. Of webhooks: which
  addresses may be called, signatures.
* Signal processing (resampling, mel features, FFT, formats of audio), voice
  activity detection and the bindings to native libraries: numeric code without
  control to explore.
* Text: the English rules of inverse text normalisation, which have the shape of
  the Russian ones, and the model behind the punctuator.
* HTTP: request parsing, response formatting, authentication and headers are
  functions of one request. Configuration: parsing and validation.
* Managed instances: starting and watching the child process. Commands other
  than serve, keys, init, pull and the service's.
* The web interface: static assets and a client of the HTTP API.
