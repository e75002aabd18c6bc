------------------------------- MODULE Webhook -------------------------------
(***************************************************************************)
(* Delivering finished jobs to a URL (internal/webhook/webhook.go) while   *)
(* the process stops: a delivery is a goroutine that tries a few times     *)
(* with pauses between, Close stops the pauses and waits for the rest.     *)
(* What is sent and to whom is left out.                                   *)
(***************************************************************************)
EXTENDS Naturals, FiniteSets

CONSTANTS Delivery,
          MaxAttempts

ASSUME WebhookAssumption == IsFiniteSet(Delivery) /\ MaxAttempts \in Nat \ {0}

VARIABLES
    sent,       \* each delivery: where it is, how often it was tried, its outcome
    minute,     \* deliveries whose minute is over
    group,      \* Sender.wg
    stopping,   \* Sender.stop is closed
    close,      \* Close: "none", "waiting", "done" or "abandoned"
    \* history
    early       \* deliveries that were announced before Close began

whvars == <<sent, minute, group, stopping, close, early>>

WhInit ==
    /\ sent = [d \in Delivery |-> [pc |-> "none", attempt |-> 0]]
    /\ minute = {} /\ group = 0 /\ stopping = FALSE /\ close = "none" /\ early = {}

SentIs(d, r) == sent' = [sent EXCEPT ![d] = r]

(* Mutant: the goroutine joins the group by itself.                        *)
NotifyLate(d) ==
    /\ sent[d].pc = "none"
    /\ SentIs(d, [pc |-> "checking", attempt |-> 0])
    /\ early' = IF close = "none" THEN early \cup {d} ELSE early
    /\ UNCHANGED <<minute, group, stopping, close>>

(* Notify.                                                                 *)
Notify(d) ==
    /\ sent[d].pc = "none"
    /\ SentIs(d, [pc |-> "checking", attempt |-> 0])
    /\ group' = group + 1
    /\ early' = IF close = "none" THEN early \cup {d} ELSE early
    /\ UNCHANGED <<minute, stopping, close>>

(* deliver: the URL is checked, ...                                        *)
CheckUrl(d) ==
    /\ sent[d].pc = "checking"
    /\ \E pc \in {"posting", "ending"} : SentIs(d, [pc |-> pc, attempt |-> 0])
    /\ UNCHANGED <<minute, group, stopping, close, early>>

(* ... the job posted: it is taken, refused for good, or it failed.        *)
Post(d) ==
    /\ sent[d].pc = "posting"
    /\ \E ok \in {"ending", "pausing"} :
          SentIs(d, [pc |-> IF sent[d].attempt + 1 < MaxAttempts THEN ok ELSE "ending", attempt |-> sent[d].attempt + 1])
    /\ UNCHANGED <<minute, group, stopping, close, early>>

PauseEnds(d) ==
    /\ sent[d].pc = "pausing"
    /\ SentIs(d, [sent[d] EXCEPT !.pc = "posting"])
    /\ UNCHANGED <<minute, group, stopping, close, early>>

(* What the pause is selected against besides its timer.                   *)
CutShort(d) == stopping \/ d \in minute

PauseIsCut(d) ==
    /\ sent[d].pc = "pausing" /\ CutShort(d)
    /\ SentIs(d, [sent[d] EXCEPT !.pc = "ending"])
    /\ UNCHANGED <<minute, group, stopping, close, early>>

DeliveryEnds(d) ==
    /\ sent[d].pc = "ending"
    /\ SentIs(d, [sent[d] EXCEPT !.pc = "over"])
    /\ group' = group - 1
    /\ UNCHANGED <<minute, stopping, close, early>>

MinuteEnds(d) ==
    /\ sent[d].pc \notin {"none", "over"} /\ d \notin minute
    /\ minute' = minute \cup {d}
    /\ UNCHANGED <<sent, group, stopping, close, early>>

(* Close.                                                                  *)
SenderCloses ==
    /\ close = "none" /\ close' = "waiting" /\ stopping' = TRUE
    /\ UNCHANGED <<sent, minute, group, early>>

SenderClosed ==
    /\ close = "waiting" /\ group = 0 /\ close' = "done"
    /\ UNCHANGED <<sent, minute, group, stopping, early>>

SenderGivesUp ==
    /\ close = "waiting" /\ close' = "abandoned"
    /\ UNCHANGED <<sent, minute, group, stopping, early>>

WhNext ==
    \/ SenderCloses \/ SenderClosed \/ SenderGivesUp
    \/ \E d \in Delivery : \/ Notify(d) \/ CheckUrl(d) \/ Post(d) \/ PauseEnds(d) \/ PauseIsCut(d)
                           \/ DeliveryEnds(d) \/ MinuteEnds(d)

WhSpec == WhInit /\ [][WhNext]_whvars

-----------------------------------------------------------------------------
(* Properties.                                                             *)

(* "Close waits for deliveries in flight" (webhook.go:190): when it says   *)
(* so, none that was announced before it began is left.                    *)
ClosedMeansDelivered == close = "done" => \A d \in early : sent[d].pc = "over"

UnderWay == {d \in Delivery : sent[d].pc \notin {"none", "over"}}

(* "makes Close stop retrying rather than wait out a backoff"              *)
(* (webhook.go:61): Close waits only while there is a delivery under way,  *)
(* and each of them can end without another attempt, but for the post that *)
(* is under way.                                                           *)
StopCutsPauses ==
    close = "waiting" =>
        /\ group > 0 => UnderWay # {}
        /\ \A d \in UnderWay : sent[d].pc \in {"checking", "posting", "ending"} \/ CutShort(d)

(* Close waits for what was promised and only for that (webhook.go:109).   *)
DeliveriesEnd == ClosedMeansDelivered /\ StopCutsPauses
=============================================================================
