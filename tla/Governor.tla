------------------------------ MODULE Governor ------------------------------
(***************************************************************************)
(* The weighted semaphore over inference threads                           *)
(* (internal/pool/governor.go).  A caller is a goroutine that claims slots *)
(* for one batch, holds them while it decodes and gives them back; its     *)
(* context may end at any time.  One action is one critical section.       *)
(***************************************************************************)
EXTENDS Weighted

CONSTANTS Caller,
          Asks,       \* Asks[c]: the n that c passes to Acquire and Release
          SlotCount   \* the argument of NewGovernor

ASSUME GovernorAssumption ==
    /\ IsFiniteSet(Caller)
    /\ Asks \in [Caller -> Int]
    /\ SlotCount \in Int

VARIABLES
    used,     \* Governor.used
    pc,       \* what the caller is doing
    over,     \* callers whose context has ended
    alarm     \* callers whose AfterFunc has been started and has not run

vars == <<used, pc, over, alarm>>

capacity == IF SlotCount < 1 THEN 1 ELSE SlotCount

(* Mutant: a request above the capacity is taken at its word.              *)
UnclampedNeed == [c \in Caller |-> IF Asks[c] < 1 THEN 1 ELSE Asks[c]]

(* Both operations clamp n to 1 .. capacity.                               *)
Need == [c \in Caller |-> CASE Asks[c] < 1 -> 1
                            [] Asks[c] > capacity -> capacity
                            [] OTHER -> Asks[c]]

(* Mutant: any free slot will do.                                          *)
FitsInPart(c) == used < capacity

Fits(c) == used + Need[c] <= capacity
Holders == {c \in Caller : pc[c] = "holding"}
Waiting(c) == pc[c] \in {"entering", "asleep"}

Init ==
    /\ used = 0
    /\ pc = [c \in Caller |-> "idle"]
    /\ over = {} /\ alarm = {}

(* Broadcast: whoever sleeps will look again.                              *)
Woken(p) == [c \in Caller |-> IF p[c] = "asleep" THEN "entering" ELSE p[c]]

Call(c) ==
    /\ pc[c] = "idle"
    /\ pc' = [pc EXCEPT ![c] = "entering"]
    /\ over' = over \ {c}
    /\ UNCHANGED <<used, alarm>>

(* The context is looked at only by a caller that does not fit.            *)
Admit(c) ==
    /\ pc[c] = "entering" /\ Fits(c)
    /\ used' = used + Need[c]
    /\ pc' = [pc EXCEPT ![c] = "holding"]
    /\ UNCHANGED <<over, alarm>>

Refuse(c) ==
    /\ pc[c] = "entering" /\ ~Fits(c) /\ c \in over
    /\ pc' = [pc EXCEPT ![c] = "idle"]
    /\ UNCHANGED <<used, over, alarm>>

Sleep(c) ==
    /\ pc[c] = "entering" /\ ~Fits(c) /\ c \notin over
    /\ pc' = [pc EXCEPT ![c] = "asleep"]
    /\ UNCHANGED <<used, over, alarm>>

(* The context ends; context.AfterFunc starts a goroutine unless Acquire   *)
(* has already returned and stopped it.                                    *)
ContextEnds(c) ==
    /\ pc[c] # "idle" /\ c \notin over
    /\ over' = over \cup {c}
    /\ alarm' = IF Waiting(c) THEN alarm \cup {c} ELSE alarm
    /\ UNCHANGED <<used, pc>>

(* Mutant: the goroutine wakes nobody.                                     *)
AlarmUnheard(c) ==
    /\ c \in alarm
    /\ alarm' = alarm \ {c}
    /\ UNCHANGED <<used, pc, over>>

Alarm(c) ==
    /\ c \in alarm
    /\ alarm' = alarm \ {c}
    /\ pc' = Woken(pc)
    /\ UNCHANGED <<used, over>>

(* Mutant: Signal in place of Broadcast.                                   *)
ReleaseSignals(c) ==
    /\ pc[c] = "holding"
    /\ used' = IF used < Need[c] THEN 0 ELSE used - Need[c]
    /\ \/ /\ \A d \in Caller : pc[d] # "asleep"
          /\ pc' = [pc EXCEPT ![c] = "idle"]
       \/ \E d \in Caller :
             /\ pc[d] = "asleep"
             /\ pc' = [pc EXCEPT ![c] = "idle", ![d] = "entering"]
    /\ UNCHANGED <<over, alarm>>

(* Mutant: what is given back is not what was taken.                       *)
ReleaseOne(c) ==
    /\ pc[c] = "holding"
    /\ used' = used - 1
    /\ pc' = Woken([pc EXCEPT ![c] = "idle"])
    /\ UNCHANGED <<over, alarm>>

(* Mutant: what comes back is what was asked for.                          *)
ReleaseAsked(c) ==
    /\ pc[c] = "holding"
    /\ used' = used - Asks[c]
    /\ pc' = Woken([pc EXCEPT ![c] = "idle"])
    /\ UNCHANGED <<over, alarm>>

Release(c) ==
    /\ pc[c] = "holding"
    /\ used' = IF used < Need[c] THEN 0 ELSE used - Need[c]
    /\ pc' = Woken([pc EXCEPT ![c] = "idle"])
    /\ UNCHANGED <<over, alarm>>

Enter(c) == Admit(c) \/ Refuse(c) \/ Sleep(c)

Next == \E c \in Caller :
    Call(c) \/ Enter(c) \/ ContextEnds(c) \/ Alarm(c) \/ Release(c)

Spec == Init /\ [][Next]_vars

(* Goroutines that can run do.  Nobody has to call or to cancel, and a     *)
(* decode may hang: no release is assumed.                                 *)
FairSpec == Spec /\ \A c \in Caller : WF_vars(Enter(c)) /\ WF_vars(Alarm(c))

-----------------------------------------------------------------------------
TypeOK ==
    /\ used \in Nat
    /\ pc \in [Caller -> {"idle", "entering", "asleep", "holding"}]
    /\ over \subseteq Caller
    /\ alarm \subseteq Caller

(* governor.go 10-15: the counter is what the holders claim together, over *)
(* any number of refusals and cancellations, so no slot is lost and none   *)
(* is given twice.                                                         *)
UsedExact == used = Weight(Holders, Need)

(* ... and they never claim more threads than the machine was given.       *)
WithinCapacity == Weight(Holders, Need) <= capacity

(* governor.go 44-58: no wake-up is lost.  Whoever sleeps does not fit, and*)
(* if its context has ended a broadcast is on its way.                     *)
NoLostWakeup ==
    \A c \in Caller : pc[c] = "asleep" => ~Fits(c) /\ (c \in over => c \in alarm)

(* A caller whose context has ended does not wait any longer, even if the  *)
(* holders never release.                                                  *)
CancelReturns == \A c \in Caller : (Waiting(c) /\ c \in over) ~> ~Waiting(c)

(* governor.go 34-35, "slowly, not never": a caller that is left alone is  *)
(* served, whatever it asks for.                                           *)
SlowlyNotNever ==
    \A c \in Caller :
        <>[](\A d \in Caller \ {c} : pc[d] = "idle") => []<>~Waiting(c)

(* What the governor promises at every moment: an exact count within the   *)
(* machine, and nobody asleep who could go on (governor.go 10-15, 44-58).  *)
GovernorIsExact == TypeOK /\ UsedExact /\ WithinCapacity /\ NoLostWakeup

(* What it promises in the end: Acquire comes back, with the slots for     *)
(* whoever is left alone and without them for whoever was cancelled        *)
(* (governor.go 34-35).                                                    *)
AcquireReturns == CancelReturns /\ SlowlyNotNever
=============================================================================
