------------------------------ MODULE EventHub ------------------------------
(***************************************************************************)
(* The events of one job (internal/job/hub.go) and those who watch them    *)
(* (Pipeline.Watch and the event stream of api/native).  A submission and  *)
(* the worker write the row and publish, in steps of their own and in any  *)
(* order the queue allows; a watcher reads the row, subscribes, forwards   *)
(* what comes, goes away and comes back with the last sequence number it   *)
(* saw.  Module JobQueue has the cancellations.                            *)
(***************************************************************************)
EXTENDS Naturals, Sequences, SequencesExt, FiniteSets

CONSTANTS Watcher,
          Ring,         \* events kept for replay
          Spare,        \* room in a subscriber's channel beyond the replay (8)
          Stages,       \* how many stages the pipeline reports
          Returns       \* bound: how often a watcher comes back

ASSUME HubAssumption == Ring \in Nat /\ Spare \in Nat

VARIABLES
    row,        \* the job's status in the store
    topic,      \* Hub.topics of the job
    submitter, worker,      \* what is published next
    watcher,    \* each watcher: what it does, what it saw and was sent
    chan        \* each watcher's channel; slow: it was dropped

ehvars == <<row, topic, submitter, worker, watcher, chan>>

NoTopic == [live |-> FALSE, gen |-> 0, seq |-> 0, ring |-> <<>>, last |-> "none"]

NoChannel == [open |-> FALSE, slow |-> FALSE, q |-> <<>>]

EhInit ==
    /\ row = "queued" /\ topic = NoTopic
    /\ submitter = "queued" /\ worker = [pc |-> "take", stage |-> 0]
    /\ watcher = [w \in Watcher |-> [pc |-> "away", row |-> "none", sub |-> FALSE, seen |-> 0, returns |-> 0,
                                     got |-> <<>>]]
    /\ chan = [w \in Watcher |-> NoChannel]

-----------------------------------------------------------------------------
JobEvent(t, s) == [gen |-> t.gen, seq |-> t.seq, status |-> s]

LastOf(s, n) == SubSeq(s, (IF Len(s) > n THEN Len(s) - n + 1 ELSE 1), Len(s))

(* Mutant: a subscriber that has no room misses an event.                  *)
DeliveredOrNot(w, ev) ==
    IF watcher[w].sub /\ Len(chan[w].q) < Ring + Spare THEN [chan[w] EXCEPT !.q = Append(@, ev)] ELSE chan[w]

(* Mutant: the last event closes the channels without going out on them.   *)
DeliveredUnended(w, ev) ==
    IF watcher[w].sub /\ ev.status # "completed" THEN [chan[w] EXCEPT !.q = Append(@, ev)] ELSE chan[w]

(* A subscriber that has no room is dropped, not skipped.                  *)
Delivered(w, ev) ==
    IF ~watcher[w].sub THEN chan[w]
    ELSE IF Len(chan[w].q) < Ring + Spare THEN [chan[w] EXCEPT !.q = Append(@, ev)]
    ELSE [chan[w] EXCEPT !.open = FALSE, !.slow = TRUE]

(* Publish: a topic is made by an event that is not the last one, and goes *)
(* with the one that is.                                                   *)
HubPublish(s) ==
    IF ~topic.live /\ s = "completed" THEN UNCHANGED <<topic, chan, watcher>>
    ELSE LET made == IF topic.live THEN topic ELSE [NoTopic EXCEPT !.live = TRUE, !.gen = topic.gen + 1]
             next == [made EXCEPT !.seq = @ + 1, !.last = s]
             ev   == JobEvent(next, s)
             to   == [w \in Watcher |-> Delivered(w, ev)]
         IN /\ topic' = IF s = "completed" THEN [NoTopic EXCEPT !.gen = topic.gen]
                        ELSE [next EXCEPT !.ring = LastOf(Append(next.ring, ev), Ring)]
            /\ chan' = [w \in Watcher |-> IF s = "completed" THEN [to[w] EXCEPT !.open = FALSE] ELSE to[w]]
            /\ watcher' = [w \in Watcher |->
                 [watcher[w] EXCEPT !.sub = @ /\ to[w].open /\ s # "completed"]]

(* Submit: the item is queued before queued is published, so a worker may  *)
(* be faster.                                                              *)
PublishQueued ==
    /\ submitter = "queued" /\ submitter' = "done"
    /\ HubPublish("queued") /\ UNCHANGED <<row, worker>>

(* A transition writes the row and then publishes.                         *)
WriteRunning ==
    /\ worker.pc = "take" /\ row' = "running"
    /\ worker' = [worker EXCEPT !.pc = "running"]
    /\ UNCHANGED <<topic, submitter, watcher, chan>>

PublishRunning ==
    /\ worker.pc = "running" /\ worker' = [worker EXCEPT !.pc = "work"]
    /\ HubPublish("running") /\ UNCHANGED <<row, submitter>>

(* Stage: only while the topic's last status is running; the lock is left  *)
(* and taken again before the event goes out.                              *)
StageReads ==
    /\ worker.pc = "work" /\ worker.stage < Stages
    /\ worker' = [worker EXCEPT !.stage = @ + 1,
                                !.pc = IF topic.live /\ topic.last = "running" THEN "staging" ELSE "work"]
    /\ UNCHANGED <<row, topic, submitter, watcher, chan>>

StagePublishes ==
    /\ worker.pc = "staging" /\ worker' = [worker EXCEPT !.pc = "work"]
    /\ HubPublish("running") /\ UNCHANGED <<row, submitter>>

WriteCompleted ==
    /\ worker.pc = "work" /\ row' = "completed"
    /\ worker' = [worker EXCEPT !.pc = "completed"]
    /\ UNCHANGED <<topic, submitter, watcher, chan>>

PublishCompleted ==
    /\ worker.pc = "completed" /\ worker' = [worker EXCEPT !.pc = "done"]
    /\ HubPublish("completed") /\ UNCHANGED <<row, submitter>>

-----------------------------------------------------------------------------
(* Pipeline.Watch: the row first, ...                                      *)
WatchReads(w) ==
    /\ watcher[w].pc = "away" /\ watcher[w].returns < Returns
    /\ watcher' = [watcher EXCEPT ![w].pc = "read", ![w].row = row, ![w].returns = @ + 1]
    /\ UNCHANGED <<row, topic, submitter, worker, chan>>

(* Mutant: the replay starts with the event the client already has.        *)
ReplayFrom(w) ==
    SubSeq(topic.ring, Cardinality({i \in DOMAIN topic.ring : topic.ring[i].seq < watcher[w].seen}) + 1,
           Len(topic.ring))

(* What a client that has seen some of it still needs.  The ring is in     *)
(* order, so what the loop passes over is the beginning of it.             *)
Replay(w) ==
    SubSeq(topic.ring, Cardinality({i \in DOMAIN topic.ring : topic.ring[i].seq <= watcher[w].seen}) + 1,
           Len(topic.ring))

(* ... then the subscription; without a topic, the row that was read is    *)
(* the one event there is.                                                 *)
WatchSubscribes(w) ==
    /\ watcher[w].pc = "read"
    /\ IF topic.live
       THEN /\ watcher' = [watcher EXCEPT ![w].pc = "watching", ![w].sub = TRUE]
            /\ chan' = [chan EXCEPT ![w] = [open |-> TRUE, slow |-> FALSE, q |-> Replay(w)]]
       ELSE /\ watcher' = [watcher EXCEPT ![w].pc = "ended", ![w].got = Append(@,
                              [gen |-> 0, seq |-> 0, status |-> watcher[w].row])]
            /\ UNCHANGED chan
    /\ UNCHANGED <<row, topic, submitter, worker>>

WatchForwards(w) ==
    /\ watcher[w].pc = "watching" /\ chan[w].q # <<>>
    /\ watcher' = [watcher EXCEPT ![w].got = Append(@, Head(chan[w].q)), ![w].seen = Head(chan[w].q).seq]
    /\ chan' = [chan EXCEPT ![w].q = Tail(@)]
    /\ UNCHANGED <<row, topic, submitter, worker>>

WatchEnds(w) ==
    /\ watcher[w].pc = "watching" /\ chan[w].q = <<>> /\ ~chan[w].open
    /\ watcher' = [watcher EXCEPT ![w].pc = IF watcher[w].got # <<>> /\ Last(watcher[w].got).status = "completed"
                                            THEN "ended" ELSE "away"]
    /\ UNCHANGED <<row, topic, submitter, worker, chan>>

(* The client goes away: the subscription is cancelled.                    *)
WatchLeaves(w) ==
    /\ watcher[w].pc = "watching"
    /\ watcher' = [watcher EXCEPT ![w].pc = "away", ![w].sub = FALSE]
    /\ chan' = [chan EXCEPT ![w] = NoChannel]
    /\ UNCHANGED <<row, topic, submitter, worker>>

-----------------------------------------------------------------------------
Publishing == PublishQueued \/ WriteRunning \/ PublishRunning \/ StagePublishes \/ WriteCompleted \/ PublishCompleted

Watching(w) == WatchSubscribes(w) \/ WatchForwards(w) \/ WatchEnds(w)

EhNext ==
    \/ Publishing \/ StageReads
    \/ \E w \in Watcher : Watching(w) \/ WatchReads(w) \/ WatchLeaves(w)

EhSpec == EhInit /\ [][EhNext]_ehvars

-----------------------------------------------------------------------------
(* Properties.                                                             *)

(* What a watcher is sent from one topic comes in order and no event twice,*)
(* reconnections included (hub.go:12, Last-Event-ID).                         *)
SeenOnceInOrder ==
    \A w \in Watcher : LET got == watcher[w].got IN
        \A i, j \in 1..Len(got) : (i < j /\ got[i].gen = got[j].gen /\ got[i].gen # 0) => got[i].seq < got[j].seq

(* "A subscriber that cannot keep up with a job's own transitions is gone, *)
(* not slow" (hub.go:79): what waits in a watcher's channel has no gaps.   *)
NoGaps ==
    \A w \in Watcher : LET q == chan[w].q IN
        \A i \in 1..(Len(q) - 1) : q[i + 1].seq = q[i].seq + 1

(* "Once the job is terminal the final event goes out, subscribers are     *)
(* closed" (hub.go:20): a channel that is closed and was not dropped for   *)
(* being slow has, or had, the final event as its last one, and one that   *)
(* is open has the latest.                                                 *)
FinalGoesOut ==
    \A w \in Watcher :
        LET all == watcher[w].got \o chan[w].q IN
        /\ (watcher[w].sub /\ chan[w].q # <<>>) => Last(chan[w].q).seq = topic.seq
        /\ (watcher[w].pc = "watching" /\ ~chan[w].open /\ ~chan[w].slow)
              => all # <<>> /\ Last(all).status = "completed"

(* What a subscriber sees, however it joins, lags and leaves: the events   *)
(* of its job in order, each once, without a gap, and with the last one.   *)
EventsArrive == SeenOnceInOrder /\ NoGaps /\ FinalGoesOut
=============================================================================
