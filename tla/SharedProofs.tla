---------------------------- MODULE SharedProofs ----------------------------
(***************************************************************************)
(* Theorems about what many share, each on its own.                        *)
(*                                                                         *)
(* The slots of the governor, for every finite set of callers, whatever    *)
(* they ask for, and every number of slots; the sessions of the realtime   *)
(* engine, whenever connections go away; the job history, whoever writes   *)
(* between the pages of a walk; the names of speakers and the keys of      *)
(* dictionaries, whoever edits them at the same time; the way of any       *)
(* request's options to a recogniser it shares with others; and the text   *)
(* of any recording, whatever was said and whatever a model answers.       *)
(***************************************************************************)
EXTENDS Governor, RealtimeEngine, JobHistory, SpeakerNames, Dictionaries,
        RequestOptions, SpokenNumbers, Punctuation, FiniteSetTheorems, WellFoundedInduction, TLAPS

-----------------------------------------------------------------------------
(* The governor.                                                           *)

(* The inductive invariant.  That used is exact is what makes the floor in *)
(* Release unreachable, and that floor not biting is what keeps it exact.  *)
GovernorInv ==
    /\ TypeOK
    /\ UsedExact
    /\ used <= capacity
    /\ NoLostWakeup

(* Every clamped request is between one slot and all of them.              *)
LEMMA NeedBounds ==
    /\ capacity \in Nat \ {0}
    /\ \A c \in Caller : Need[c] \in 1..capacity
BY GovernorAssumption DEF Need, capacity

(* Sets of callers can be weighed.                                         *)
LEMMA CallersWeigh ==
    ASSUME NEW S, S \subseteq Caller
    PROVE  IsFiniteSet(S) /\ \A c \in S : Need[c] \in Nat
BY GovernorAssumption, FS_Subset, NeedBounds

(* At first every slot is free.                                            *)
LEMMA GovernorInvInit == Init => GovernorInv
<1> SUFFICES ASSUME Init PROVE GovernorInv
  OBVIOUS
<1>1. Holders = {}
  BY DEF Init, Holders
<1>2. UsedExact
  BY <1>1, WeightEmpty DEF Init, UsedExact
<1>. QED
  BY <1>2, NeedBounds DEF Init, GovernorInv, TypeOK, NoLostWakeup

(* Steps that leave the counter and the holders alone.                     *)
LEMMA QuietStep ==
    ASSUME GovernorInv, TypeOK', used' = used, Holders' = Holders, NoLostWakeup'
    PROVE  GovernorInv'
BY DEF GovernorInv, UsedExact, capacity, Need

(* A call that comes in holds nothing yet.                                 *)
LEMMA CallKeepsInv ==
    ASSUME GovernorInv, NEW c \in Caller, Call(c)
    PROVE  GovernorInv'
<1> USE DEF GovernorInv, TypeOK, Call
<1>1. Holders' = Holders
  BY DEF Holders
<1>2. NoLostWakeup'
  BY DEF NoLostWakeup, Fits
<1>. QED  BY <1>1, <1>2, QuietStep

(* A caller is admitted only where it fits.                                *)
LEMMA AdmitKeepsInv ==
    ASSUME GovernorInv, NEW c \in Caller, Admit(c)
    PROVE  GovernorInv'
<1> USE DEF GovernorInv, TypeOK, Admit
<1>1. Holders' = Holders \cup {c} /\ c \notin Holders
  BY DEF Holders
<1>2. Need[c] \in Nat
  BY NeedBounds
<1>3. Weight(Holders \cup {c}, Need) = Weight(Holders, Need) + Need[c]
  <2>1. IsFiniteSet(Holders) /\ \A x \in Holders \cup {c} : Need[x] \in Nat
    BY <1>2, CallersWeigh DEF Holders
  <2>. QED  BY <1>1, <2>1, WeightAdd
<1>4. UsedExact'
  BY <1>1, <1>3 DEF UsedExact
<1>5. TypeOK'
  BY <1>2
<1>6. used' <= capacity /\ used' >= used
  BY <1>2, NeedBounds DEF Fits
<1>7. NoLostWakeup'
  BY <1>6, NeedBounds DEF NoLostWakeup, Fits
<1>. QED  BY <1>4, <1>5, <1>6, <1>7

(* Who waits, gives up or is refused holds nothing.                        *)
LEMMA WaitingStepKeepsInv ==
    ASSUME GovernorInv, NEW c \in Caller,
           Refuse(c) \/ Sleep(c) \/ ContextEnds(c)
    PROVE  GovernorInv'
<1> USE DEF GovernorInv, TypeOK, Refuse, Sleep, ContextEnds, Waiting
<1>1. Holders' = Holders
  BY DEF Holders
<1>2. NoLostWakeup'
  BY DEF NoLostWakeup, Fits
<1>. QED  BY <1>1, <1>2, QuietStep

(* After a broadcast nobody sleeps, and nobody has started or stopped      *)
(* holding.                                                                *)
LEMMA AfterBroadcast ==
    ASSUME NEW p \in [Caller -> {"idle", "entering", "asleep", "holding"}]
    PROVE  /\ Woken(p) \in [Caller -> {"idle", "entering", "asleep", "holding"}]
           /\ \A d \in Caller : Woken(p)[d] # "asleep"
           /\ \A d \in Caller : Woken(p)[d] = "holding" <=> p[d] = "holding"
BY DEF Woken

(* A deadline wakes everybody.                                             *)
LEMMA AlarmKeepsInv ==
    ASSUME GovernorInv, NEW c \in Caller, Alarm(c)
    PROVE  GovernorInv'
<1> USE DEF GovernorInv, TypeOK, Alarm
<1>1. Holders' = Holders /\ TypeOK'
  BY AfterBroadcast DEF Holders
<1>2. NoLostWakeup'
  BY AfterBroadcast DEF NoLostWakeup
<1>. QED  BY <1>1, <1>2, QuietStep

(* A release frees what was held and wakes everybody.                      *)
LEMMA ReleaseKeepsInv ==
    ASSUME GovernorInv, NEW c \in Caller, Release(c)
    PROVE  GovernorInv'
<1> USE DEF GovernorInv, TypeOK, Release
<1> DEFINE p == [pc EXCEPT ![c] = "idle"]
<1>1. p \in [Caller -> {"idle", "entering", "asleep", "holding"}]
  OBVIOUS
<1>2. Holders' = Holders \ {c} /\ c \in Holders
  BY <1>1, AfterBroadcast DEF Holders
<1>3. NoLostWakeup'
  BY <1>1, AfterBroadcast DEF NoLostWakeup
<1>4. Need[c] \in Nat
  BY NeedBounds
<1>5. IsFiniteSet(Holders) /\ \A x \in Holders : Need[x] \in Nat
  BY CallersWeigh DEF Holders
<1>6. Weight(Holders \ {c}, Need) = Weight(Holders, Need) - Need[c]
  BY <1>2, <1>5, WeightRemove
<1>7. Weight(Holders \ {c}, Need) \in Nat
  BY <1>5, FS_Subset, WeightNat
<1>8. used' = used - Need[c] /\ used' \in Nat
  BY <1>4, <1>6, <1>7 DEF UsedExact
<1>9. UsedExact'
  BY <1>2, <1>6, <1>8 DEF UsedExact
<1>10. TypeOK'
  BY <1>1, <1>8, AfterBroadcast
<1>11. used' <= capacity
  BY <1>4, <1>8, NeedBounds
<1>. QED  BY <1>3, <1>9, <1>10, <1>11

(* Every step keeps count and waiters in order.                            *)
LEMMA GovernorInvStep == GovernorInv /\ [Next]_vars => GovernorInv'
<1> SUFFICES ASSUME GovernorInv, [Next]_vars PROVE GovernorInv'
  OBVIOUS
<1>1. ASSUME NEW c \in Caller, Call(c) PROVE GovernorInv'
  BY <1>1, CallKeepsInv
<1>2. ASSUME NEW c \in Caller, Admit(c) PROVE GovernorInv'
  BY <1>2, AdmitKeepsInv
<1>3. ASSUME NEW c \in Caller, Refuse(c) \/ Sleep(c) \/ ContextEnds(c)
      PROVE GovernorInv'
  BY <1>3, WaitingStepKeepsInv
<1>4. ASSUME NEW c \in Caller, Alarm(c) PROVE GovernorInv'
  BY <1>4, AlarmKeepsInv
<1>5. ASSUME NEW c \in Caller, Release(c) PROVE GovernorInv'
  BY <1>5, ReleaseKeepsInv
<1>6. CASE UNCHANGED vars
  BY <1>6 DEF vars, GovernorInv, TypeOK, UsedExact, NoLostWakeup, Holders, Fits
<1>. QED  BY <1>1, <1>2, <1>3, <1>4, <1>5, <1>6 DEF Next, Enter

-----------------------------------------------------------------------------
(* Every behaviour keeps the inductive invariant.                          *)
THEOREM GovernorInvariant == Spec => []GovernorInv
BY GovernorInvInit, GovernorInvStep, PTL DEF Spec

(* governor.go 57-60 and 74-77: no slot is lost and none is given twice,   *)
(* through any order of admissions, refusals and cancellations.            *)
THEOREM GovernorUsedExact == Spec => []UsedExact
<1>1. GovernorInv => UsedExact
  BY DEF GovernorInv
<1>. QED  BY <1>1, GovernorInvariant, PTL

(* governor.go 10-15: the batches that decode never have more threads than *)
(* the machine was given.                                                  *)
THEOREM GovernorWithinCapacity == Spec => []WithinCapacity
<1>1. GovernorInv => WithinCapacity
  BY DEF GovernorInv, UsedExact, WithinCapacity
<1>. QED  BY <1>1, GovernorInvariant, PTL

(* governor.go 44-58: a caller sleeps only while its request does not fit, *)
(* and the end of its context always has a broadcast to come.              *)
THEOREM GovernorNoLostWakeup == Spec => []NoLostWakeup
<1>1. GovernorInv => NoLostWakeup
  BY DEF GovernorInv
<1>. QED  BY <1>1, GovernorInvariant, PTL

(* The governor's promise of every moment: exact, within the machine, and  *)
(* with nobody asleep who could go on (governor.go 10-15, 44-58).          *)
THEOREM GovernorStaysExact == Spec => []GovernorIsExact
<1>1. GovernorInv => GovernorIsExact
  BY DEF GovernorInv, GovernorIsExact, UsedExact, WithinCapacity
<1>. QED  BY <1>1, GovernorInvariant, PTL

-----------------------------------------------------------------------------
(* The sessions of the realtime engine.                                    *)

ReTypeOK ==
    /\ handler \in [Conn -> {"reading", "asking", "opening", "closing", "draining", "over"}]
    /\ cancelled \subseteq Conn /\ discarder \subseteq Conn /\ closer \subseteq Conn
    /\ pump \in [Conn -> {"none", "running", "done"}]
    /\ reply \in [Conn -> {"none", "session", "refused"}]
    /\ sess \in [Conn -> {"none", "live", "closing", "over"}]
    /\ closeq \in Seq(Conn) /\ engine \in {"running", "stopping", "done"}
    /\ building \subseteq Conn /\ forsaken \subseteq Conn

(* Who will close a session that is live: the connection that is about to  *)
(* hear of it or that uses it, the discard that waits for its reply, or,   *)
(* when that gave up, the idle limit.                                      *)
LiveIsHeld(c) ==
    \/ handler[c] = "opening" /\ reply[c] = "session"
    \/ handler[c] \in {"reading", "closing"} /\ pump[c] # "none"
    \/ c \in discarder /\ reply[c] = "session"
    \/ c \in forsaken

(* The request that is in admit has no answer yet, and it has a caller who *)
(* waits for it, or had one who went away and took up nothing else.  Who   *)
(* asks has no session, and a session was opened before it is heard of.    *)
AnswerIsDue(c) ==
    /\ handler[c] \in {"reading", "asking"} => reply[c] = "none"
    /\ handler[c] \in {"asking", "opening"} => pump[c] = "none"
    /\ reply[c] = "session" \/ pump[c] # "none" => sess[c] # "none"
    /\ c \in building =>
         /\ engine # "done" /\ c \notin LiveSessions /\ reply[c] = "none"
         /\ handler[c] = "opening" \/ c \in discarder \cup forsaken
    /\ c \in discarder \cup forsaken => c \in cancelled /\ pump[c] = "none" /\ handler[c] \in {"closing", "over"}

(* On its way to the loop.                                                 *)
Handed(c) == c \in closer \/ \E i \in 1 .. Len(closeq) : closeq[i] = c

ReInv ==
    /\ ReTypeOK
    /\ engine = "done" => LiveSessions = {}
    /\ \A c \in Conn :
         /\ handler[c] = "asking" => c \notin LiveSessions
         /\ sess[c] = "live" => LiveIsHeld(c)
         /\ sess[c] = "closing" => Handed(c)
         /\ AnswerIsDue(c)

(* The loop never has more sessions than there are slots.                  *)
SlotsAreEnough == Cardinality(LiveSessions) <= MaxSessions

LEMMA ReInvInit == ReInit => ReInv /\ SlotsAreEnough
<1> SUFFICES ASSUME ReInit PROVE ReInv /\ SlotsAreEnough
  OBVIOUS
<1>1. LiveSessions = {}
  BY DEF ReInit, LiveSessions
<1>. QED
  BY <1>1, FS_EmptySet, EngineAssumption DEF ReInit, ReInv, ReTypeOK, SlotsAreEnough, AnswerIsDue

(* What a connection does that leaves the sessions as they are.            *)
LEMMA TalkKeepsInv ==
    ASSUME ReInv, NEW c \in Conn,
           \/ FirstAudio(c) \/ OpenTurnedAway(c) \/ SessionOpened(c) \/ OpenAbandoned(c) \/ OpenTooLate(c)
           \/ ConnContextEnds(c) \/ ReadEnds(c) \/ RunEnds(c) \/ PumpEnds(c) \/ DiscardGivesUp(c) \/ TakeRequest(c)
    PROVE  ReInv' /\ LiveSessions' = LiveSessions
<1>0. sess' = sess /\ closeq' = closeq /\ closer' = closer /\ engine' = engine
  BY DEF FirstAudio, OpenTurnedAway, SessionOpened, OpenAbandoned, OpenTooLate, ConnContextEnds, ReadEnds, RunEnds, PumpEnds,
         DiscardGivesUp, TakeRequest, enginevars
<1>1. LiveSessions' = LiveSessions /\ \A d \in Conn : Handed(d)' <=> Handed(d)
  BY <1>0 DEF LiveSessions, Handed
<1>2. ReTypeOK'
  BY <1>0
     DEF ReInv, ReTypeOK, ConnIs, FirstAudio, OpenTurnedAway, SessionOpened, OpenAbandoned, OpenTooLate, ConnContextEnds,
         ReadEnds, RunEnds, PumpEnds, DiscardGivesUp, TakeRequest, enginevars
<1>3. ASSUME NEW d \in Conn \ {c}
      PROVE  /\ handler'[d] = handler[d] /\ pump'[d] = pump[d] /\ reply'[d] = reply[d]
             /\ d \in discarder' <=> d \in discarder
             /\ d \in forsaken' <=> d \in forsaken
             /\ d \in building' => d \in building
             /\ d \in cancelled => d \in cancelled'
  BY DEF ReInv, ReTypeOK, ConnIs, FirstAudio, OpenTurnedAway, SessionOpened, OpenAbandoned, OpenTooLate, ConnContextEnds,
         ReadEnds, RunEnds, PumpEnds, DiscardGivesUp, TakeRequest, enginevars
<1>4. ASSUME NEW d \in Conn \ {c}
      PROVE  /\ handler'[d] = "asking" => d \notin LiveSessions'
             /\ sess'[d] = "live" => LiveIsHeld(d)'
             /\ AnswerIsDue(d)'
  <2>1. d \in Conn /\ sess'[d] = sess[d]
    BY <1>0
  <2>2. (handler'[d] = "asking" => d \notin LiveSessions') /\ (sess'[d] = "live" => LiveIsHeld(d)')
    BY <1>1, <1>3, <2>1 DEF ReInv, LiveIsHeld
  <2>3. AnswerIsDue(d)'
    BY <1>0, <1>1, <1>3, <2>1 DEF ReInv, AnswerIsDue
  <2>. QED  BY <2>2, <2>3
<1>5. /\ handler'[c] = "asking" => c \notin LiveSessions'
      /\ sess'[c] = "live" => LiveIsHeld(c)'
      /\ AnswerIsDue(c)'
  <2>0. AnswerIsDue(c) /\ (handler[c] = "asking" => c \notin LiveSessions) /\ (sess[c] = "live" => LiveIsHeld(c))
    BY DEF ReInv
  <2>1. CASE FirstAudio(c)
    BY <1>0, <1>1, <2>0, <2>1 DEF ReInv, ReTypeOK, FirstAudio, ConnIs, LiveSessions, LiveIsHeld, AnswerIsDue, enginevars
  <2>2. CASE OpenTurnedAway(c)
    BY <1>0, <1>1, <2>0, <2>2 DEF ReInv, ReTypeOK, OpenTurnedAway, ConnIs, LiveSessions, LiveIsHeld, AnswerIsDue, enginevars
  <2>3. CASE SessionOpened(c)
    BY <1>0, <1>1, <2>0, <2>3 DEF ReInv, ReTypeOK, SessionOpened, ConnIs, LiveSessions, LiveIsHeld, AnswerIsDue, enginevars
  <2>4. CASE OpenAbandoned(c)
    BY <1>0, <1>1, <2>0, <2>4 DEF ReInv, ReTypeOK, OpenAbandoned, ConnIs, LiveSessions, LiveIsHeld, AnswerIsDue, enginevars
  <2>5. CASE OpenTooLate(c)
    BY <1>0, <1>1, <2>0, <2>5 DEF ReInv, ReTypeOK, OpenTooLate, ConnIs, LiveSessions, LiveIsHeld, AnswerIsDue, enginevars
  <2>6. CASE ConnContextEnds(c)
    BY <1>0, <1>1, <2>0, <2>6 DEF ReInv, ReTypeOK, ConnContextEnds, LiveSessions, LiveIsHeld, AnswerIsDue, enginevars
  <2>7. CASE ReadEnds(c)
    BY <1>0, <1>1, <2>0, <2>7 DEF ReInv, ReTypeOK, ReadEnds, ConnIs, LiveSessions, LiveIsHeld, AnswerIsDue, enginevars
  <2>8. CASE RunEnds(c)
    BY <1>0, <1>1, <2>0, <2>8 DEF ReInv, ReTypeOK, RunEnds, ConnIs, LiveSessions, LiveIsHeld, AnswerIsDue, enginevars
  <2>9. CASE PumpEnds(c)
    BY <1>0, <1>1, <2>0, <2>9 DEF ReInv, ReTypeOK, PumpEnds, LiveSessions, LiveIsHeld, AnswerIsDue, enginevars
  <2>10. CASE DiscardGivesUp(c)
    BY <1>0, <1>1, <2>0, <2>10 DEF ReInv, ReTypeOK, DiscardGivesUp, LiveSessions, LiveIsHeld, AnswerIsDue, enginevars
  <2>11. CASE TakeRequest(c)
    BY <1>0, <1>1, <2>0, <2>11 DEF ReInv, ReTypeOK, TakeRequest, Looping, ConnIs, LiveSessions, LiveIsHeld, AnswerIsDue, enginevars
  <2>. QED  BY <2>1, <2>2, <2>3, <2>4, <2>5, <2>6, <2>7, <2>8, <2>9, <2>10, <2>11
<1>. QED  BY <1>0, <1>1, <1>2, <1>4, <1>5 DEF ReInv

(* Session.Close, by whoever calls it, and its way to the loop.            *)
LEMMA ClosesKeepInv ==
    ASSUME ReInv, NEW c \in Conn, DiscardCloses(c) \/ RunCloses(c)
    PROVE  ReInv' /\ LiveSessions' \subseteq LiveSessions
<1>1. /\ closeq' = closeq /\ engine' = engine /\ building' = building /\ forsaken' = forsaken
      /\ closer \subseteq closer' /\ closer' \subseteq closer \cup {c}
      /\ sess' = sess \/ (sess[c] = "live" /\ sess' = [sess EXCEPT ![c] = "closing"] /\ c \in closer')
  <2>1. CASE DiscardCloses(c)
    BY <2>1 DEF DiscardCloses, enginevars
  <2>2. CASE RunCloses(c)
    BY <2>2 DEF RunCloses, ReInv, ReTypeOK, enginevars
  <2>. QED  BY <2>1, <2>2
<1>2. LiveSessions' = LiveSessions
  BY <1>1 DEF ReInv, ReTypeOK, LiveSessions
<1>3. ReTypeOK'
  <2>1. closer' \subseteq Conn /\ closeq' \in Seq(Conn) /\ engine' \in {"running", "stopping", "done"}
        /\ sess' \in [Conn -> {"none", "live", "closing", "over"}]
    BY <1>1 DEF ReInv, ReTypeOK
  <2>2. /\ handler' \in [Conn -> {"reading", "asking", "opening", "closing", "draining", "over"}]
        /\ cancelled' \subseteq Conn /\ discarder' \subseteq Conn
        /\ pump' \in [Conn -> {"none", "running", "done"}] /\ reply' \in [Conn -> {"none", "session", "refused"}]
    BY DEF ReInv, ReTypeOK, DiscardCloses, RunCloses, ConnIs
  <2>3. building' \subseteq Conn /\ forsaken' \subseteq Conn
    BY <1>1 DEF ReInv, ReTypeOK
  <2>. QED  BY <2>1, <2>2, <2>3 DEF ReTypeOK
<1>4. ASSUME NEW d \in Conn, sess'[d] = "closing" PROVE Handed(d)'
  BY <1>1, <1>4 DEF ReInv, ReTypeOK, Handed
<1>5. ASSUME NEW d \in Conn
      PROVE  /\ handler'[d] = "asking" => d \notin LiveSessions'
             /\ sess'[d] = "live" => LiveIsHeld(d)'
             /\ AnswerIsDue(d)'
  <2>1. CASE DiscardCloses(c)
    <3>1. reply[c] = "session" /\ sess[c] = "live" => sess'[c] = "closing"
      BY <2>1 DEF DiscardCloses, ReInv, ReTypeOK
    <3>2. sess[c] = "live" => reply[c] # "none"
      BY <2>1 DEF DiscardCloses, ReInv, LiveSessions
    <3>. QED
      BY <1>1, <1>2, <2>1, <3>1, <3>2 DEF DiscardCloses, ReInv, ReTypeOK, LiveIsHeld, AnswerIsDue
  <2>2. CASE RunCloses(c)
    BY <1>1, <1>2, <2>2 DEF RunCloses, ReInv, ReTypeOK, LiveIsHeld, ConnIs, AnswerIsDue
  <2>. QED  BY <2>1, <2>2
<1>. QED  BY <1>1, <1>2, <1>3, <1>4, <1>5 DEF ReInv

LEMMA CloseSendsKeepsInv ==
    ASSUME ReInv, NEW c \in Conn, CloseSends(c) \/ CloseTooLate(c)
    PROVE  ReInv' /\ LiveSessions' = LiveSessions
<1>1. UNCHANGED <<handler, cancelled, pump, discarder, reply, sess, building, forsaken, engine>> /\ closer' = closer \ {c}
  BY DEF CloseSends, CloseTooLate, enginevars
<1>2. LiveSessions' = LiveSessions /\ \A d \in Conn : (LiveIsHeld(d)' <=> LiveIsHeld(d)) /\ (AnswerIsDue(d)' <=> AnswerIsDue(d))
  BY <1>1 DEF LiveSessions, LiveIsHeld, AnswerIsDue
<1>3. CASE CloseSends(c)
  <2>1. closeq' = Append(closeq, c) /\ closeq \in Seq(Conn)
    BY <1>3 DEF CloseSends, ReInv, ReTypeOK
  <2>2. /\ closeq' \in Seq(Conn) /\ Len(closeq') = Len(closeq) + 1 /\ closeq'[Len(closeq) + 1] = c
        /\ \A i \in 1 .. Len(closeq) : closeq'[i] = closeq[i]
    BY <2>1
  <2>3. ASSUME NEW d \in Conn, Handed(d) PROVE Handed(d)'
    <3>1. CASE d = c
      BY <2>2, <3>1, Len(closeq) \in Nat DEF Handed
    <3>2. CASE d # c
      BY <1>1, <2>2, <2>3, <3>2 DEF Handed
    <3>. QED  BY <3>1, <3>2
  <2>. QED  BY <1>1, <1>2, <2>2, <2>3 DEF ReInv, ReTypeOK
<1>4. CASE CloseTooLate(c)
  <2>1. LiveSessions = {} /\ closeq' = closeq
    BY <1>4 DEF CloseTooLate, ReInv, enginevars
  <2>. QED  BY <1>1, <1>2, <2>1 DEF ReInv, ReTypeOK, LiveSessions
<1>. QED  BY <1>3, <1>4

(* The loop.                                                               *)
LEMMA LoopKeepsInv ==
    ASSUME ReInv, LoopCloses \/ RunReturns \/ EngineStops \/ \E c \in Conn : LoopExpires(c)
    PROVE  ReInv' /\ LiveSessions' \subseteq LiveSessions
<1>1. UNCHANGED <<handler, cancelled, pump, discarder, reply, closer, building, forsaken>>
  BY DEF LoopCloses, RunReturns, EngineStops, LoopExpires, enginevars
<1>2. CASE LoopCloses
  <2>1. closeq \in Seq(Conn) /\ closeq # <<>> /\ closeq' = Tail(closeq) /\ engine' = engine
        /\ sess' = [sess EXCEPT ![Head(closeq)] = "over"]
    BY <1>2 DEF LoopCloses, Looping, ReInv, ReTypeOK
  <2>2. /\ closeq' \in Seq(Conn) /\ Len(closeq') = Len(closeq) - 1 /\ Len(closeq) \in Nat \ {0}
        /\ \A i \in 1 .. Len(closeq) - 1 : closeq'[i] = closeq[i + 1]
    BY <2>1
  <2>3. Head(closeq) = closeq[1] /\ closeq[1] \in Conn
    BY <2>1
  <2>4. ASSUME NEW d \in Conn, sess'[d] = "closing" PROVE Handed(d)'
    <3>1. d # closeq[1] /\ sess[d] = "closing" /\ Handed(d)
      BY <2>1, <2>3, <2>4 DEF ReInv, ReTypeOK
    <3>2. CASE d \in closer
      BY <1>1, <3>2 DEF Handed
    <3>3. CASE d \notin closer
      <4>1. PICK i \in 1 .. Len(closeq) : closeq[i] = d
        BY <3>1, <3>3 DEF Handed
      <4>2. i - 1 \in 1 .. Len(closeq') /\ closeq'[i - 1] = d
        BY <2>2, <3>1, <4>1
      <4>. QED  BY <4>2 DEF Handed
    <3>. QED  BY <3>2, <3>3
  <2>. QED  BY <1>1, <2>1, <2>2, <2>3, <2>4 DEF ReInv, ReTypeOK, LiveSessions, LiveIsHeld, AnswerIsDue
<1>3. CASE \E c \in Conn : LoopExpires(c)
  BY <1>1, <1>3 DEF LoopExpires, enginevars, ReInv, ReTypeOK, LiveSessions, LiveIsHeld, AnswerIsDue, Handed
<1>4. CASE RunReturns
  BY <1>1, <1>4 DEF RunReturns, ReInv, ReTypeOK, LiveSessions, AnswerIsDue
<1>5. CASE EngineStops
  BY <1>1, <1>5 DEF EngineStops, ReInv, ReTypeOK, LiveSessions, LiveIsHeld, AnswerIsDue, Handed
<1>. QED  BY <1>2, <1>3, <1>4, <1>5

LEMMA LiveAreFinite ==
    ASSUME NEW S, S \subseteq Conn
    PROVE  IsFiniteSet(S) /\ Cardinality(S) \in Nat
BY EngineAssumption, FS_Subset, FS_CardinalityType

LEMMA AdmitSessionKeepsInv ==
    ASSUME ReInv, SlotsAreEnough, NEW c \in Conn, AdmitSession(c)
    PROVE  ReInv' /\ SlotsAreEnough'
<1>1. /\ UNCHANGED <<handler, cancelled, pump, discarder, closer, closeq, forsaken, engine>>
      /\ c \in building /\ building' = {} /\ engine # "done" /\ c \notin LiveSessions
      /\ handler[c] = "opening" \/ c \in discarder \cup forsaken
  BY DEF AdmitSession, ReInv, AnswerIsDue
<1>2. \A d \in Conn : Handed(d)' <=> Handed(d)
  BY <1>1 DEF Handed
<1>3. CASE /\ Cardinality(LiveSessions) < MaxSessions
           /\ sess' = [sess EXCEPT ![c] = "live"] /\ reply' = [reply EXCEPT ![c] = "session"]
  <2>1. LiveSessions' = LiveSessions \cup {c}
    BY <1>3 DEF LiveSessions, ReInv, ReTypeOK
  <2>2. IsFiniteSet(LiveSessions) /\ Cardinality(LiveSessions) \in Nat
    BY LiveAreFinite DEF LiveSessions
  <2>3. Cardinality(LiveSessions') = Cardinality(LiveSessions) + 1
    BY <1>1, <2>1, <2>2, FS_AddElement
  <2>. QED
    BY <1>1, <1>2, <1>3, <2>1, <2>2, <2>3, EngineAssumption DEF ReInv, ReTypeOK, LiveIsHeld, AnswerIsDue, SlotsAreEnough
<1>4. CASE reply' = [reply EXCEPT ![c] = "refused"] /\ sess' = sess
  <2>1. LiveSessions' = LiveSessions /\ sess[c] # "live"
    BY <1>1, <1>4 DEF LiveSessions
  <2>. QED  BY <1>1, <1>2, <1>4, <2>1 DEF ReInv, ReTypeOK, LiveIsHeld, AnswerIsDue, SlotsAreEnough
<1>. QED  BY <1>3, <1>4 DEF AdmitSession

(* realtime.go: however many connections open, close, fail and go away, at *)
(* whatever moment, and whenever the engine stops.                         *)
THEOREM EngineInvariant == ReSpec => [](ReInv /\ SlotsAreEnough)
<1>1. ASSUME ReInv, SlotsAreEnough, LiveSessions' \subseteq LiveSessions PROVE SlotsAreEnough'
  <2>1. LiveSessions \subseteq Conn
    BY DEF LiveSessions
  <2>2. IsFiniteSet(LiveSessions) /\ Cardinality(LiveSessions) \in Nat /\ Cardinality(LiveSessions') \in Nat
    BY <1>1, <2>1, LiveAreFinite
  <2>3. Cardinality(LiveSessions') <= Cardinality(LiveSessions)
    BY <1>1, <2>2, FS_Subset
  <2>. QED  BY <1>1, <2>2, <2>3, EngineAssumption DEF SlotsAreEnough
<1>2. ASSUME ReInv, SlotsAreEnough, [ReNext]_revars PROVE (ReInv /\ SlotsAreEnough)'
  <2>1. CASE UNCHANGED revars
    BY <1>2, <2>1 DEF revars, enginevars, ReInv, ReTypeOK, LiveSessions, LiveIsHeld, AnswerIsDue, Handed, SlotsAreEnough
  <2>2. CASE ReNext
    <3>1. CASE \E c \in Conn : AdmitSession(c)
      BY <1>2, <3>1, AdmitSessionKeepsInv
    <3>2. CASE ~\E c \in Conn : AdmitSession(c)
      <4>1. ReInv' /\ LiveSessions' \subseteq LiveSessions
        BY <1>2, <2>2, <3>2, TalkKeepsInv, ClosesKeepInv, CloseSendsKeepsInv, LoopKeepsInv
           DEF ReNext, ConnSteps, LoopSteps
      <4>. QED  BY <1>1, <1>2, <4>1
    <3>. QED  BY <3>1, <3>2
  <2>. QED  BY <1>2, <2>1, <2>2
<1>. QED  BY <1>2, ReInvInit, PTL DEF ReSpec

(* realtime.go:107: no slot is lost to a connection that went away, at     *)
(* whatever point of Open it did: it has an owner, or its client and his   *)
(* discard have gone and the idle limit ends it (realtime.go:207, 478).    *)
THEOREM EngineSlotsHaveOwners == ReSpec => []SlotsHaveOwners
<1>1. ASSUME ReInv, NEW i \in 1 .. Len(closeq) PROVE closeq[i] \in Range(closeq)
  BY <1>1 DEF ReInv, ReTypeOK, Range
<1>2. ReInv => SlotsHaveOwners
  BY <1>1 DEF ReInv, LiveIsHeld, AnswerIsDue, Handed, LiveSessions, SlotsHaveOwners
<1>. QED  BY <1>2, EngineInvariant, PTL

-----------------------------------------------------------------------------
(* A walk over the history.                                                *)

Row == [there : {TRUE}, at : Nat, owner : Owner, status : {"queued", "succeeded"}]
Place == [at : Nat, id : Nat]
PlaceOf(i) == [at |-> hrows[i].at, id |-> i]

Walks ==
    [stage : {"walking", "done"}, filter : Queries, cursor : Seq(Place), seen : Seq(Place), start : SUBSET HistId]

HistTypeOK ==
    /\ hclock \in Nat /\ DOMAIN hrows = HistId
    /\ \A i \in HistId : hrows[i] \in {NoRow, Gone} \cup Row
    /\ \/ walk = [stage |-> "none"]
       \/ walk \in Walks

Descends(s) == \A x, y \in 1 .. Len(s) : x < y => Sooner(s[x], s[y])
Named(s, i) == \E x \in 1 .. Len(s) : s[x].id = i

(* A row that was there at the start has kept what the filter asks about,  *)
(* or has ended, or is gone for good.                                      *)
StartsStay ==
    \A i \in walk.start : hrows[i] # NoRow /\ (hrows[i].there /\ hrows[i].status = "queued" => Matches(i, walk.filter))

(* Everything up to the cursor has been seen.                              *)
SeenUpTo ==
    \A i \in walk.start :
        Matches(i, walk.filter) /\ (walk.stage = "walking" => ~Beyond(walk.cursor, i)) => Named(walk.seen, i)

CursorIsLast ==
    walk.stage = "walking" =>
        IF Len(walk.seen) = 0 THEN walk.cursor = <<>> ELSE walk.cursor = <<walk.seen[Len(walk.seen)]>>

HistInv ==
    /\ HistTypeOK
    /\ walk.stage # "none" => Descends(walk.seen) /\ CursorIsLast /\ StartsStay /\ SeenUpTo

LEMMA HistInvInit == HistInit => HistInv
BY DEF HistInit, HistInv, HistTypeOK

(* The order of the rows is an order.                                      *)
LEMMA SoonerIsOrder ==
    ASSUME NEW a \in Place, NEW b \in Place, NEW c \in Place
    PROVE  ~Sooner(a, a) /\ (Sooner(a, b) /\ Sooner(b, c) => Sooner(a, c))
BY DEF Place, Sooner

(* What the queue and time do to a walk.                                   *)
LEMMA RowsKeepInv ==
    ASSUME HistInv, walk' = walk, hclock' \in Nat, DOMAIN hrows' = HistId,
           \A i \in HistId : /\ hrows'[i] \in {NoRow, Gone} \cup Row
                             /\ hrows[i] # NoRow => hrows'[i] # NoRow
                             /\ hrows'[i].there /\ hrows[i] # NoRow =>
                                   /\ hrows[i].there /\ hrows'[i].at = hrows[i].at /\ hrows'[i].owner = hrows[i].owner
                                   /\ hrows'[i].status # hrows[i].status =>
                                         hrows[i].status = "queued" /\ hrows'[i].status # "queued"
    PROVE  HistInv'
<1>1. HistTypeOK'
  BY DEF HistInv, HistTypeOK, Walks
<1>2. ASSUME walk.stage # "none" PROVE StartsStay' /\ SeenUpTo'
  <2>1. walk.start \subseteq HistId
    BY <1>2 DEF HistInv, HistTypeOK, Walks
  <2>2. ASSUME NEW i \in walk.start, Matches(i, walk.filter)' PROVE Matches(i, walk.filter) /\ hrows'[i].at = hrows[i].at
    <3>1. i \in HistId /\ hrows[i] # NoRow /\ hrows'[i].there
      BY <1>2, <2>1, <2>2 DEF HistInv, StartsStay, Matches
    <3>2. hrows[i].there /\ hrows'[i].at = hrows[i].at /\ hrows'[i].owner = hrows[i].owner
      BY <3>1
    <3>3. CASE hrows'[i].status = hrows[i].status
      BY <2>2, <3>2, <3>3 DEF Matches
    <3>4. CASE hrows'[i].status # hrows[i].status
      BY <1>2, <3>1, <3>2, <3>4 DEF HistInv, StartsStay
    <3>. QED  BY <3>2, <3>3, <3>4
  <2>3. ASSUME NEW i \in walk.start, hrows'[i].there, hrows'[i].status = "queued" PROVE Matches(i, walk.filter)'
    <3>1. i \in HistId /\ hrows[i] # NoRow
      BY <1>2, <2>1 DEF HistInv, StartsStay
    <3>2. hrows[i].there /\ hrows[i].status = "queued" /\ hrows'[i].owner = hrows[i].owner
      BY <2>3, <3>1
    <3>3. Matches(i, walk.filter)
      BY <1>2, <3>2 DEF HistInv, StartsStay
    <3>. QED  BY <2>3, <3>2, <3>3 DEF Matches
  <2>4. StartsStay'
    BY <1>2, <2>1, <2>3 DEF HistInv, StartsStay
  <2>5. ASSUME NEW i \in walk.start, Matches(i, walk.filter)', walk.stage = "walking" => ~Beyond(walk.cursor, i)'
        PROVE  Named(walk.seen, i)
    BY <1>2, <2>2, <2>5 DEF HistInv, SeenUpTo, Beyond
  <2>. QED  BY <2>4, <2>5 DEF SeenUpTo
<1>. QED  BY <1>1, <1>2 DEF HistInv, CursorIsLast

LEMMA QueueKeepsInv ==
    ASSUME HistInv,
           \/ \E i \in HistId : HistEnds(i) \/ \E o \in Owner : HistCreate(i, o)
           \/ \E old \in SUBSET HistId : HistPurge(old)
           \/ HistTick
    PROVE  HistInv'
<1>1. walk' = walk
  BY DEF HistEnds, HistCreate, HistPurge, HistTick
<1>2. hclock' \in Nat
  BY DEF HistInv, HistTypeOK, Walks, HistEnds, HistCreate, HistPurge, HistTick
<1>3. NoRow \notin Row /\ Gone \notin Row /\ NoRow # Gone /\ ~NoRow.there /\ ~Gone.there
  BY DEF NoRow, Gone, Row
<1>4. CASE \E i \in HistId : HistEnds(i)
  <2>1. PICK i \in HistId : HistEnds(i)
    BY <1>4
  <2>2. hrows[i] \in Row /\ hrows[i].status = "queued" /\ hrows' = [hrows EXCEPT ![i].status = "succeeded"]
    BY <1>3, <2>1 DEF HistEnds, HistInv, HistTypeOK
  <2>3. hrows'[i] \in Row /\ hrows'[i].at = hrows[i].at /\ hrows'[i].owner = hrows[i].owner /\ hrows'[i].status = "succeeded"
        /\ hrows[i].there
    BY <2>2 DEF HistInv, HistTypeOK, Walks, Row
  <2>4. DOMAIN hrows' = HistId /\ \A j \in HistId : j # i => hrows'[j] = hrows[j]
    BY <2>2 DEF HistInv, HistTypeOK, Walks
  <2>5. \A j \in HistId : hrows[j] \in {NoRow, Gone} \cup Row
    BY DEF HistInv, HistTypeOK, Walks
  <2>. QED  BY <1>1, <1>2, <1>3, <2>2, <2>3, <2>4, <2>5, RowsKeepInv
<1>5. CASE \E i \in HistId, o \in Owner : HistCreate(i, o)
  <2>1. PICK i \in HistId, o \in Owner : HistCreate(i, o)
    BY <1>5
  <2>2. hrows[i] = NoRow /\ hrows' = [hrows EXCEPT ![i] = [there |-> TRUE, at |-> hclock, owner |-> o, status |-> "queued"]]
    BY <2>1 DEF HistCreate
  <2>3. hrows'[i] \in Row
    BY <2>2 DEF HistInv, HistTypeOK, Walks, Row
  <2>4. DOMAIN hrows' = HistId /\ \A j \in HistId : j # i => hrows'[j] = hrows[j]
    BY <2>2 DEF HistInv, HistTypeOK, Walks
  <2>5. \A j \in HistId : hrows[j] \in {NoRow, Gone} \cup Row
    BY DEF HistInv, HistTypeOK, Walks
  <2>. QED  BY <1>1, <1>2, <1>3, <2>2, <2>3, <2>4, <2>5, RowsKeepInv
<1>6. CASE \E old \in SUBSET HistId : HistPurge(old)
  <2>1. PICK old \in SUBSET HistId : HistPurge(old)
    BY <1>6
  <2>2. hrows' = [i \in HistId |-> IF i \in old THEN Gone ELSE hrows[i]]
    BY <2>1 DEF HistPurge
  <2>3. DOMAIN hrows' = HistId /\ \A j \in HistId : hrows'[j] = Gone \/ hrows'[j] = hrows[j]
    BY <2>2
  <2>4. \A j \in HistId : hrows[j] \in {NoRow, Gone} \cup Row
    BY DEF HistInv, HistTypeOK, Walks
  <2>. QED  BY <1>1, <1>2, <1>3, <2>3, <2>4, RowsKeepInv
<1>7. CASE HistTick
  <2>1. hrows' = hrows /\ DOMAIN hrows = HistId /\ \A j \in HistId : hrows[j] \in {NoRow, Gone} \cup Row
    BY <1>7 DEF HistTick, HistInv, HistTypeOK
  <2>. QED  BY <1>1, <1>2, <2>1, RowsKeepInv
<1>. QED  BY <1>4, <1>5, <1>6, <1>7

LEMMA WalkBeginsKeepsInv == ASSUME HistInv, NEW f \in Queries, WalkBegins(f) PROVE HistInv'
<1>1. /\ walk' = [stage |-> "walking", filter |-> f, cursor |-> <<>>, seen |-> <<>>,
                  start |-> {i \in HistId : Matches(i, f)}]
      /\ UNCHANGED <<hrows, hclock>>
  BY DEF WalkBegins
<1>2. <<>> \in Seq(Place) /\ Len(<<>>) = 0
  OBVIOUS
<1>3. HistTypeOK'
  BY <1>1, <1>2 DEF HistInv, HistTypeOK, Walks
<1>4. \A i \in HistId : Matches(i, f)' <=> Matches(i, f)
  BY <1>1 DEF Matches
<1>5. StartsStay'
  BY <1>1, <1>4 DEF StartsStay, Matches, NoRow
<1>6. SeenUpTo' /\ CursorIsLast' /\ Descends(walk'.seen)
  BY <1>1, <1>2 DEF SeenUpTo, Beyond, CursorIsLast, Descends
<1>. QED  BY <1>3, <1>5, <1>6 DEF HistInv, Descends

(* A page: the rows beyond the cursor, the first of them or all.           *)
LEMMA ListPageKeepsInv == ASSUME HistInv, ListPage PROVE HistInv'
<1>1. walk \in Walks
      /\ walk.stage = "walking" /\ UNCHANGED <<hrows, hclock>>
  BY DEF ListPage, HistInv, HistTypeOK
<1> USE DEF Walks
<1> PICK seen \in Seq(Place) : seen = walk.seen
  BY <1>1
<1> PICK cursor \in Seq(Place) : cursor = walk.cursor
  BY <1>1
<1>2. Descends(seen) /\ (IF Len(seen) = 0 THEN cursor = <<>> ELSE cursor = <<seen[Len(seen)]>>)
  BY <1>1 DEF HistInv, CursorIsLast
<1>3. \A i \in HistId : Matches(i, walk.filter) => hrows[i] \in Row /\ PlaceOf(i) \in Place
  <2> SUFFICES ASSUME NEW i \in HistId, Matches(i, walk.filter) PROVE hrows[i] \in Row /\ PlaceOf(i) \in Place
    OBVIOUS
  <2>1. hrows[i] \in {NoRow, Gone} \cup Row /\ hrows[i].there
    BY DEF HistInv, HistTypeOK, Walks, Matches
  <2>2. hrows[i] \in Row
    BY <2>1 DEF NoRow, Gone
  <2>3. hrows[i].at \in Nat /\ i \in Nat
    BY <2>2, HistoryAssumption DEF Row
  <2>. QED  BY <2>2, <2>3 DEF Place, PlaceOf
<1>4. Found = {PlaceOf(i) : i \in {j \in HistId : Matches(j, walk.filter) /\ Beyond(cursor, j)}}
  BY DEF Found, PlaceOf
<1>5. Found \subseteq Place
  BY <1>3, <1>4
<1>6. Cardinality(Found) \in Nat
  <2> DEFINE Ids == {j \in HistId : Matches(j, walk.filter) /\ Beyond(cursor, j)}
  <2>1. IsFiniteSet(Ids)
    BY HistoryAssumption, FS_Subset
  <2>2. IsFiniteSet(Found)
    <3> DEFINE At(i) == PlaceOf(i)
    <3>1. Found = {At(i) : i \in Ids}
      BY <1>4
    <3>2. [i \in Ids |-> At(i)] \in Surjection(Ids, Found)
      <4> HIDE DEF Ids, At
      <4>. QED  BY <3>1 DEF Surjection
    <3>. QED  BY <2>1, <3>2, FS_Surjection DEF ExistsSurjection
  <2>. QED  BY <2>2, FS_CardinalityType
<1> PICK rows \in Sorted(Found) :
       walk' = IF Len(rows) > Limit
               THEN [walk EXCEPT !.seen = @ \o SubSeq(rows, 1, Limit), !.cursor = <<rows[Limit]>>]
               ELSE [walk EXCEPT !.seen = @ \o rows, !.stage = "done"]
  BY DEF ListPage
<1>7. rows \in Seq(Place) /\ Descends(rows) /\ (\A p \in Found : \E x \in 1 .. Len(rows) : rows[x] = p)
      /\ \A x \in 1 .. Len(rows) : rows[x] \in Found
  <2> PICK n \in Nat : n = Cardinality(Found)
    BY <1>6
  <2>1. rows \in [1 .. n -> Found] /\ Range(rows) = Found /\ \A x, y \in DOMAIN rows : x < y => Sooner(rows[x], rows[y])
    BY DEF Sorted
  <2>2. rows \in Seq(Place) /\ Len(rows) = n
    BY <1>5, <2>1
  <2>3. DOMAIN rows = 1 .. Len(rows)
    BY <2>1, <2>2
  <2>. QED  BY <2>1, <2>2, <2>3 DEF Descends, Range
(* The page, and what is left.                                             *)
<1>8. PICK k \in 0 .. Len(rows) :
         /\ walk'.seen = seen \o SubSeq(rows, 1, k)
         /\ walk' = [walk EXCEPT !.seen = walk'.seen, !.cursor = walk'.cursor, !.stage = walk'.stage]
         /\ \/ k > 0 /\ walk'.cursor = <<rows[k]>> /\ walk'.stage = "walking"
            \/ k = Len(rows) /\ walk'.cursor = cursor /\ walk'.stage = "done"
  <2>1. CASE Len(rows) > Limit
    <3>1. walk' = [walk EXCEPT !.seen = seen \o SubSeq(rows, 1, Limit), !.cursor = <<rows[Limit]>>]
      BY <2>1
    <3>2. /\ walk'.seen = seen \o SubSeq(rows, 1, Limit) /\ walk'.cursor = <<rows[Limit]>> /\ walk'.stage = "walking"
          /\ walk' = [walk EXCEPT !.seen = walk'.seen, !.cursor = walk'.cursor, !.stage = walk'.stage]
      BY <1>1, <3>1
    <3>3. Limit \in 0 .. Len(rows) /\ Limit > 0
      BY <1>7, <2>1, HistoryAssumption
    <3>. QED  BY <3>2, <3>3
  <2>2. CASE ~(Len(rows) > Limit)
    <3>1. walk' = [walk EXCEPT !.seen = seen \o rows, !.stage = "done"]
      BY <2>2
    <3>2. /\ walk'.seen = seen \o rows /\ walk'.cursor = cursor /\ walk'.stage = "done"
          /\ walk' = [walk EXCEPT !.seen = walk'.seen, !.cursor = walk'.cursor, !.stage = walk'.stage]
      BY <1>1, <3>1
    <3>3. rows = SubSeq(rows, 1, Len(rows)) /\ Len(rows) \in 0 .. Len(rows)
      BY <1>7
    <3>. QED  BY <3>2, <3>3
  <2>. QED  BY <2>1, <2>2
<1> PICK page : page = SubSeq(rows, 1, k)
  OBVIOUS
<1>9. page \in Seq(Place) /\ Len(page) = k /\ \A x \in 1 .. k : page[x] = rows[x] /\ x \in 1 .. Len(rows)
  BY <1>7
<1> PICK all : all = seen \o page
  OBVIOUS
<1>10. /\ all \in Seq(Place) /\ Len(all) = Len(seen) + k /\ Len(seen) \in Nat
       /\ \A x \in 1 .. Len(seen) : all[x] = seen[x]
       /\ \A x \in 1 .. k : all[Len(seen) + x] = rows[x]
  <2>1. seen \in Seq(Place) /\ page \in Seq(Place) /\ Len(page) = k /\ k \in Nat
    BY <1>1, <1>8, <1>9 DEF HistInv, HistTypeOK
  <2>2. /\ all \in Seq(Place) /\ Len(all) = Len(seen) + k /\ Len(seen) \in Nat
        /\ \A x \in 1 .. Len(seen) : all[x] = seen[x]
        /\ \A x \in 1 .. k : all[Len(seen) + x] = page[x]
    <3>0. all = seen \o page
      OBVIOUS
    <3>1. all \in Seq(Place) /\ Len(all) = Len(seen) + Len(page) /\ Len(seen) \in Nat /\ Len(page) \in Nat
      <4>1. Len(seen) \in Nat /\ Len(page) \in Nat
        BY ONLY <2>1
      <4>2. Len(all) = Len(seen) + Len(page)
        <5>1. seen \in Seq(Place) /\ page \in Seq(Place)
          BY ONLY <2>1
        <5>2. Len(seen \o page) = Len(seen) + Len(page)
          BY ONLY <5>1
        <5>. QED  BY ONLY <3>0, <5>2
      <4>3. all \in Seq(Place)
        BY ONLY <2>1, <3>0
      <4>. QED  BY ONLY <4>1, <4>2, <4>3
    <3>2. \A x \in 1 .. Len(seen) : all[x] = seen[x]
      BY ONLY <2>1, <3>0
    <3>3. \A x \in 1 .. Len(page) : all[Len(seen) + x] = page[x]
      BY ONLY <2>1, <3>0
    <3>. QED  BY ONLY <2>1, <3>1, <3>2, <3>3
  <2>. QED  BY <1>9, <2>2
<1>11. walk'.seen = all
  BY <1>8
<1>12. HistTypeOK'
  <2>1. walk'.cursor \in Seq(Place)
    <3>1. CASE k > 0 /\ walk'.cursor = <<rows[k]>>
      <4>1. rows[k] \in Place
        BY <1>9, <3>1
      <4>. QED  BY <3>1, <4>1
    <3>2. CASE walk'.cursor = cursor
      BY <3>2
    <3>. QED  BY <1>8, <3>1, <3>2
  <2>2. walk' \in Walks
    BY <1>1, <1>8, <1>10, <1>11, <2>1
  <2>. QED  BY <1>1, <2>2 DEF HistInv, HistTypeOK, Walks
<1>13. \A x \in 1 .. Len(seen), p \in Found : Sooner(seen[x], p)
  <2> SUFFICES ASSUME NEW x \in 1 .. Len(seen), NEW p \in Found PROVE Sooner(seen[x], p)
    OBVIOUS
  <2>1. cursor = <<seen[Len(seen)]>> /\ Len(seen) \in 1 .. Len(seen)
    BY <1>2
  <2>2. PICK i \in HistId : p = PlaceOf(i) /\ Beyond(cursor, i)
    BY <1>4
  <2>3. Sooner(seen[Len(seen)], p)
    BY <2>1, <2>2 DEF Beyond, PlaceOf
  <2>4. seen[x] \in Place /\ seen[Len(seen)] \in Place /\ p \in Place
    BY <1>5, <2>1
  <2>5. CASE x = Len(seen)
    BY <2>3, <2>5
  <2>6. CASE x < Len(seen)
    <3>1. Sooner(seen[x], seen[Len(seen)])
      BY <1>2, <2>1, <2>6 DEF Descends
    <3>. QED  BY <2>3, <2>4, <3>1, SoonerIsOrder
  <2>. QED  BY <2>5, <2>6
<1>14. Descends(all)
  <2> SUFFICES ASSUME NEW x \in 1 .. Len(all), NEW y \in 1 .. Len(all), x < y PROVE Sooner(all[x], all[y])
    BY DEF Descends
  <2>0. x \in Int /\ y \in Int /\ Len(seen) \in Int
    BY <1>10
  <2>1. CASE y <= Len(seen)
    BY <1>2, <1>10, <2>1 DEF Descends
  <2>2. CASE y > Len(seen)
    <3>1. PICK b \in 1 .. k : y = Len(seen) + b /\ all[y] = rows[b]
      <4>1. y - Len(seen) \in 1 .. k /\ y = Len(seen) + (y - Len(seen))
        BY <1>10, <2>2
      <4>. QED  BY <1>10, <4>1
    <3>2. CASE x <= Len(seen)
      <4>1. rows[b] \in Found
        BY <1>7, <1>9
      <4>2. x \in 1 .. Len(seen) /\ all[x] = seen[x]
        BY <1>10, <3>2
      <4>. QED  BY <1>13, <3>1, <4>1, <4>2
    <3>3. CASE x > Len(seen)
      <4>1. PICK a \in 1 .. k : x = Len(seen) + a /\ all[x] = rows[a]
        <5>1. x - Len(seen) \in 1 .. k /\ x = Len(seen) + (x - Len(seen))
          BY <1>10, <3>3
        <5>. QED  BY <1>10, <5>1
      <4>2. a \in 1 .. Len(rows) /\ b \in 1 .. Len(rows) /\ a < b
        BY <1>9, <1>10, <3>1, <4>1
      <4>3. Sooner(rows[a], rows[b])
        BY <1>7, <4>2 DEF Descends
      <4>. QED  BY <3>1, <4>1, <4>3
    <3>4. x <= Len(seen) \/ x > Len(seen)
      BY ONLY <2>0
    <3>. QED  BY ONLY <3>2, <3>3, <3>4
  <2>3. y <= Len(seen) \/ y > Len(seen)
    BY ONLY <2>0
  <2>. QED  BY ONLY <2>1, <2>2, <2>3
<1>15. \A i : Named(seen, i) => Named(all, i)
  BY <1>10 DEF Named
<1>16. ASSUME NEW x \in 1 .. k PROVE Named(all, rows[x].id)
  <2>1. Len(seen) + x \in 1 .. Len(all)
    BY <1>10
  <2>2. all[Len(seen) + x] = rows[x]
    BY <1>10
  <2>. QED  BY ONLY <2>1, <2>2 DEF Named
<1>17. ASSUME walk'.stage = "walking" PROVE Len(all) > 0 /\ walk'.cursor = <<all[Len(all)]>>
  <2>1. k > 0 /\ walk'.cursor = <<rows[k]>>
    BY <1>8, <1>17
  <2>2. k \in 1 .. k /\ Len(seen) + k = Len(all) /\ Len(all) > 0
    BY <1>10, <2>1
  <2>3. all[Len(seen) + k] = rows[k]
    BY <1>10, <2>2
  <2>. QED  BY ONLY <2>1, <2>2, <2>3
<1>18. walk'.start = walk.start /\ walk'.filter = walk.filter /\ walk.start \subseteq HistId
  BY <1>1, <1>8
<1>19. \A i \in HistId : Matches(i, walk.filter)' <=> Matches(i, walk.filter)
  BY <1>1, <1>18 DEF Matches
<1>20. StartsStay'
  BY <1>1, <1>18, <1>19 DEF HistInv, StartsStay
<1>21. SeenUpTo'
  <2> SUFFICES ASSUME NEW i \in walk.start, Matches(i, walk.filter), walk'.stage = "walking" => ~Beyond(walk.cursor, i)'
               PROVE  Named(all, i)
    BY <1>11, <1>18, <1>19 DEF SeenUpTo
  <2>1. CASE ~Beyond(cursor, i)
    BY <1>1, <1>15, <2>1 DEF HistInv, SeenUpTo
  <2>2. CASE Beyond(cursor, i)
    <3>1. i \in HistId /\ PlaceOf(i) \in Found
      BY <1>4, <1>18, <2>2
    <3>2. PICK x \in 1 .. Len(rows) : rows[x] = PlaceOf(i)
      BY <1>7, <3>1
    <3>3. rows[x].id = i
      BY <3>2 DEF PlaceOf
    <3>4. CASE x <= k
      BY <1>16, <3>3, <3>4
    <3>5. CASE x > k
      <4>1. k > 0 /\ walk'.cursor = <<rows[k]>> /\ walk'.stage = "walking"
        BY <1>7, <1>8, <3>5
      <4>2. Sooner(rows[k], rows[x])
        BY <1>7, <1>8, <3>5, <4>1 DEF Descends
      <4>3. Beyond(walk.cursor, i)'
        BY <1>1, <3>2, <4>1, <4>2 DEF Beyond, PlaceOf
      <4>. QED  BY <4>1, <4>3
    <3>. QED  BY <1>7, <3>4, <3>5
  <2>. QED  BY <2>1, <2>2
<1>22. CursorIsLast'
  <2>1. Len(all) > 0 => Len(all) # 0
    OBVIOUS
  <2>. QED  BY <1>11, <1>17, <2>1 DEF CursorIsLast
<1>23. Descends(walk.seen)'
  BY <1>11, <1>14 DEF Descends
<1>. QED  BY <1>12, <1>20, <1>21, <1>22, <1>23 DEF HistInv

(* store.go: whoever submits, ends and purges jobs between the pages.      *)
THEOREM HistoryInvariant == HistSpec => []HistInv
<1>1. ASSUME HistInv, UNCHANGED histvars PROVE HistInv'
  BY <1>1 DEF histvars, HistInv, HistTypeOK, Descends, CursorIsLast, StartsStay, SeenUpTo, Matches, Beyond, Named
<1>2. ASSUME HistInv, HistNext PROVE HistInv'
  BY <1>2, QueueKeepsInv, WalkBeginsKeepsInv, ListPageKeepsInv DEF HistNext
<1>. QED  BY <1>1, <1>2, HistInvInit, PTL DEF HistSpec

(* store.go:222: however many jobs share an instant and whatever happens   *)
(* to the history between two pages, a walk names no job twice and leaves  *)
(* out none that was there all along.                                      *)
THEOREM HistoryWalkIsWhole == HistSpec => []WalkIsWhole
<1>1. ASSUME HistInv PROVE WalkIsWhole
  <2>1. CASE walk.stage # "none"
    <3>1. walk.seen \in Seq(Place) /\ walk.start \subseteq HistId
      BY <1>1, <2>1 DEF HistInv, HistTypeOK, Walks
    <3>2. DOMAIN walk.seen = 1 .. Len(walk.seen)
      BY <3>1
    <3>3. Descends(walk.seen) /\ SeenUpTo
      BY <1>1, <2>1 DEF HistInv
    <3>. QED  BY <3>2, <3>3 DEF WalkIsWhole, Descends, SeenUpTo, Named
  <2>2. CASE walk.stage = "none"
    BY <2>2 DEF WalkIsWhole
  <2>. QED  BY <2>1, <2>2
<1>. QED  BY <1>1, HistoryInvariant, PTL

-----------------------------------------------------------------------------
(* The names of a job's speakers.                                          *)

(* Who has read the record has the lock, and the record is as it was read; *)
(* what was acknowledged last is what is stored.                           *)
SpInv ==
    /\ jobRow \in [there : BOOLEAN, names : [Voice -> Renamer \cup {Unnamed}]]
    /\ acked \in [Voice -> Renamer \cup {Unnamed}]
    /\ renaming \in Renamer \cup {Unnamed} /\ DOMAIN renames = Renamer
    /\ \A c \in Renamer : renames[c].stage = "read" =>
          renaming = c /\ renames[c].who \subseteq Voice /\ renames[c].names = jobRow.names
    /\ RenamesAreKept

(* pipeline.go:142 and store.go:123: whoever renames at the same time, and *)
(* whenever the history is purged, no name that was acknowledged is lost   *)
(* and a purged job does not come back.                                    *)
THEOREM SpeakerNamesAreKept == SpSpec => []RenamesAreKept /\ PurgedStaysGone
<1>1. SpInit => SpInv
  BY DEF SpInit, SpInv, RenamesAreKept
<1>2. ASSUME SpInv, [SpNext]_spvars PROVE SpInv' /\ [~jobRow.there => ~jobRow'.there]_jobRow
  <2>1. CASE UNCHANGED spvars
    BY <1>2, <2>1 DEF spvars, SpInv, RenamesAreKept
  <2>2. ASSUME NEW c \in Renamer, RenameWrites(c) PROVE SpInv' /\ (~jobRow.there => ~jobRow'.there)
    <3> DEFINE New(s) == IF s \in renames[c].who THEN c ELSE jobRow.names[s]
               Said(s) == IF s \in renames[c].who THEN c ELSE acked[s]
    <3>1. /\ renames[c].stage = "read" /\ renaming = c /\ renaming' = Unnamed
          /\ renames' = [renames EXCEPT ![c] = [stage |-> "idle"]]
      BY <1>2, <2>2 DEF RenameWrites, SpInv
    <3>2. \A d \in Renamer : renames'[d].stage # "read"
      BY <1>2, <3>1, RenamerAssumption DEF SpInv
    <3>3. CASE jobRow' = jobRow /\ acked' = acked
      BY <1>2, <3>1, <3>2, <3>3 DEF SpInv, RenamesAreKept
    <3>4. CASE /\ jobRow' = UpdateRow(c)
               /\ acked' = IF jobRow.there THEN [s \in Voice |-> Said(s)] ELSE acked
      <4>1. CASE jobRow.there
        <5>1. jobRow' = [jobRow EXCEPT !.names = [s \in Voice |-> New(s)]] /\ acked' = [s \in Voice |-> Said(s)]
          BY <1>2, <3>1, <3>4, <4>1 DEF UpdateRow, SpInv
        <5>2. \A s \in Voice : New(s) = Said(s) /\ New(s) \in Renamer \cup {Unnamed}
          BY <1>2, <4>1 DEF SpInv, RenamesAreKept
        <5>. QED  BY <1>2, <3>1, <3>2, <4>1, <5>1, <5>2 DEF SpInv, RenamesAreKept
      <4>2. CASE ~jobRow.there
        BY <1>2, <3>1, <3>2, <3>4, <4>2 DEF UpdateRow, SpInv, RenamesAreKept
      <4>. QED  BY <4>1, <4>2
    <3>. QED  BY <2>2, <3>3, <3>4 DEF RenameWrites
  <2>3. ASSUME NEW c \in Renamer, NEW q \in RenameAsked, RenameReads(c, q) PROVE SpInv' /\ jobRow' = jobRow
    <3>1. /\ UNCHANGED <<jobRow, acked>> /\ renaming = Unnamed /\ renaming' = c
          /\ renames' = [renames EXCEPT ![c] = [stage |-> "read", who |-> q.who, names |-> jobRow.names]]
          /\ q.who \subseteq Voice
      BY <2>3 DEF RenameReads, Rereads, Acceptable
    <3>2. \A d \in Renamer : renames[d].stage # "read"
      BY <1>2, <3>1, RenamerAssumption DEF SpInv
    <3>. QED  BY <1>2, <3>1, <3>2 DEF SpInv, RenamesAreKept
  <2>4. CASE RowPurged
    BY <1>2, <2>4 DEF RowPurged, SpInv, RenamesAreKept
  <2>. QED  BY <1>2, <2>1, <2>2, <2>3, <2>4 DEF SpNext, spvars
<1>3. SpInv => RenamesAreKept
  BY DEF SpInv
<1>. QED  BY <1>1, <1>2, <1>3, PTL DEF SpSpec, PurgedStaysGone

-----------------------------------------------------------------------------
(* The keys of the dictionaries.                                           *)

(* A key that is free has no creator.                                      *)
DictInv ==
    /\ DOMAIN dicts = DictKey /\ creators \in [DictKey -> Nat] /\ DOMAIN editing = Editor
    /\ \A e \in Editor : editing[e].stage # "idle" => editing[e].key \in DictKey
    /\ \A k \in DictKey : creators[k] <= 1 /\ (~dicts[k].there => creators[k] = 0)

Ages == \A k \in DictKey : dicts[k].there /\ dicts'[k].there => dicts'[k].created = dicts[k].created

(* A write leaves its key taken and as old as it was.                      *)
LEMMA WriteKeepsAge ==
    ASSUME DictInv, NEW k \in DictKey, NEW name, NEW ps, Write(k, name, ps)
    PROVE  /\ DOMAIN dicts' = DictKey /\ dicts'[k].there /\ Ages
           /\ \A j \in DictKey : j # k => dicts'[j] = dicts[j]
BY DEF DictInv, Write, Ages

(* Who imports into the key is no longer alone.                            *)
LEMMA WroteKeepsEditing ==
    ASSUME DictInv, NEW k \in DictKey, Wrote(k)
    PROVE  DOMAIN editing' = Editor /\ \A e \in Editor : editing'[e].stage # "idle" => editing'[e].key \in DictKey
<1>1. DOMAIN editing' = Editor
  BY DEF Wrote
<1>2. ASSUME NEW e \in Editor, editing'[e].stage # "idle" PROVE editing'[e].key \in DictKey
  <2>1. CASE editing[e].stage # "idle" /\ editing[e].key = k
    <3>1. editing'[e] = [editing[e] EXCEPT !.alone = FALSE]
      BY <2>1 DEF Wrote
    <3>. QED  BY <1>2, <2>1, <3>1 DEF DictInv
  <2>2. CASE ~(editing[e].stage # "idle" /\ editing[e].key = k)
    <3>1. editing'[e] = editing[e]
      BY <2>2 DEF Wrote
    <3>. QED  BY <1>2, <3>1 DEF DictInv
  <2>. QED  BY <2>1, <2>2
<1>. QED  BY <1>1, <1>2

(* sqlite/dictionary.go 164 and 173: whoever creates, replaces, imports    *)
(* and deletes, of clients that race for a key one is told that it created *)
(* the dictionary, and a replacement leaves its age.                       *)
THEOREM DictionariesHaveOneCreator == DictSpec => []CreatedByOne /\ AgeSurvives
<1>1. DictInit => DictInv
  BY DEF DictInit, DictInv, NoDict
<1>2. ASSUME DictInv, [DictNext]_dictvars PROVE DictInv' /\ [Ages]_dicts
  <2>1. CASE UNCHANGED dictvars
    BY <1>2, <2>1 DEF dictvars, DictInv
  <2>2. ASSUME NEW k \in DictKey, NEW ps, NEW name, PostDictionary(k, name, ps) PROVE DictInv' /\ Ages
    <3>1. ~dicts[k].there /\ Write(k, name, Cleaned(ps)) /\ Wrote(k) /\ creators' = [creators EXCEPT ![k] = @ + 1]
      BY <2>2 DEF PostDictionary
    <3>2. creators[k] = 0
      BY <1>2, <3>1 DEF DictInv
    <3>. QED  BY <1>2, <3>1, <3>2, WriteKeepsAge, WroteKeepsEditing DEF DictInv
  <2>3. ASSUME NEW k \in DictKey, NEW ps, NEW name, PutDictionary(k, name, ps) PROVE DictInv' /\ Ages
    <3>1. Write(k, name, Cleaned(ps)) /\ Wrote(k) /\ creators' = creators
      BY <2>3 DEF PutDictionary
    <3>. QED  BY <1>2, <3>1, WriteKeepsAge, WroteKeepsEditing DEF DictInv
  <2>4. ASSUME NEW k \in DictKey, DeleteDictionary(k) PROVE DictInv' /\ Ages
    <3>1. dicts' = [dicts EXCEPT ![k] = NoDict] /\ Wrote(k) /\ creators' = [creators EXCEPT ![k] = 0]
      BY <2>4 DEF DeleteDictionary
    <3>2. ~NoDict.there
      BY DEF NoDict
    <3>. QED  BY <1>2, <3>1, <3>2, WroteKeepsEditing DEF DictInv, Ages
  <2>5. ASSUME NEW e \in Editor, NEW k \in DictKey, NEW lines, NEW mode, ImportReads(e, k, lines, mode)
        PROVE  DictInv' /\ dicts' = dicts
    <3>1. PICK r : editing' = [editing EXCEPT ![e] = r] /\ r.key = k
      <4> DEFINE r == [stage |-> IF dicts[k].there THEN "row" ELSE "read", key |-> k, mode |-> mode,
                       file |-> Parse(lines), name |-> IF dicts[k].there THEN dicts[k].name ELSE "key",
                       found |-> <<>>, alone |-> TRUE]
      <4>1. editing' = [editing EXCEPT ![e] = r]
        BY <2>5 DEF ImportReads
      <4>2. r.key = k
        OBVIOUS
      <4> HIDE DEF r
      <4>. QED  BY <4>1, <4>2
    <3>. QED  BY <1>2, <2>5, <3>1 DEF ImportReads, DictInv
  <2>6. ASSUME NEW e \in Editor, ImportReadsPhrases(e) PROVE DictInv' /\ dicts' = dicts
    <3>1. PICK found : editing' = [editing EXCEPT ![e].stage = "read", ![e].found = found] /\ editing[e].stage = "row"
      BY <2>6 DEF ImportReadsPhrases
    <3>2. editing'[e].key = editing[e].key /\ \A f \in Editor : f # e => editing'[f] = editing[f]
      BY <1>2, <3>1 DEF DictInv
    <3>. QED  BY <1>2, <2>6, <3>1, <3>2 DEF ImportReadsPhrases, DictInv
  <2>7. ASSUME NEW e \in Editor, ImportSaves(e) PROVE DictInv' /\ Ages
    <3> PICK k \in DictKey : k = editing[e].key
      BY <1>2, <2>7 DEF ImportSaves, DictInv
    <3>1. creators' = creators
      BY <2>7 DEF ImportSaves
    <3>2. CASE Permitted(Imported(editing[e]))
      <4>1. /\ Write(k, editing[e].name, Cleaned(Imported(editing[e])))
            /\ editing' = [f \in Editor |-> IF f = e THEN [stage |-> "idle"]
                             ELSE IF editing[f].stage # "idle" /\ editing[f].key = k
                                  THEN [editing[f] EXCEPT !.alone = FALSE] ELSE editing[f]]
        BY <2>7, <3>2 DEF ImportSaves
      <4>2. \A f \in Editor : editing'[f].stage # "idle" => editing'[f].key \in DictKey
        <5> SUFFICES ASSUME NEW f \in Editor, editing'[f].stage # "idle" PROVE editing'[f].key \in DictKey
          OBVIOUS
        <5>1. f # e
          BY <4>1
        <5>2. CASE editing[f].stage # "idle" /\ editing[f].key = k
          <6>1. editing'[f] = [editing[f] EXCEPT !.alone = FALSE]
            BY <4>1, <5>1, <5>2
          <6>. QED  BY <5>2, <6>1 DEF DictInv
        <5>3. CASE ~(editing[f].stage # "idle" /\ editing[f].key = k)
          <6>1. editing'[f] = editing[f]
            BY <4>1, <5>1, <5>3
          <6>. QED  BY <1>2, <6>1 DEF DictInv
        <5>. QED  BY <5>2, <5>3
      <4>3. DOMAIN editing' = Editor
        BY <4>1
      <4>. QED  BY <1>2, <3>1, <4>1, <4>2, <4>3, WriteKeepsAge DEF DictInv
    <3>3. CASE ~Permitted(Imported(editing[e]))
      <4>1. editing' = [editing EXCEPT ![e] = [stage |-> "idle"]] /\ dicts' = dicts
        BY <2>7, <3>3 DEF ImportSaves
      <4>. QED  BY <1>2, <3>1, <4>1 DEF DictInv, Ages
    <3>. QED  BY <3>2, <3>3
  <2>8. CASE DictTick
    BY <1>2, <2>8 DEF DictTick, DictInv
  <2>. QED  BY <1>2, <2>1, <2>2, <2>3, <2>4, <2>5, <2>6, <2>7, <2>8 DEF DictNext, DictTick, dictvars
<1>3. DictInv => CreatedByOne
  BY DEF DictInv, CreatedByOne
<1>. QED  BY <1>1, <1>2, <1>3, PTL DEF DictSpec, AgeSurvives, Ages

-----------------------------------------------------------------------------
(* Loops.                                                                  *)

(* Counting up from nought reaches every number.                           *)
LEMMA CountingUp ==
    ASSUME NEW S, 0 \in S, \A n \in Nat : n \in S => n + 1 \in S
    PROVE  \A n \in Nat : n \in S
<1> SUFFICES ASSUME Nat \ S # {} PROVE FALSE
  OBVIOUS
<1>1. PICK x \in Nat \ S : \A y \in Nat \ S : <<y, x>> \notin OpToRel(<, Nat)
  BY NatLessThanWellFounded, WFMin
<1>2. x # 0 /\ x - 1 \in Nat /\ x - 1 + 1 = x
  OBVIOUS
<1>3. x - 1 \notin S
  BY <1>2
<1>4. <<x - 1, x>> \in OpToRel(<, Nat)
  BY <1>2 DEF OpToRel
<1>. QED  BY <1>1, <1>2, <1>3, <1>4

(* A loop that begins with base and goes from one member of S to another   *)
(* in each of its n rounds has all of them.                                *)
Rounds(f, base, step, n) == \A i \in 0..n : f[i] = IF i = 0 THEN base ELSE step[<<f[i - 1], i>>]
Stays(S, step, n) == \A x \in S, i \in 1..n : step[<<x, i>>] \in S

LEMMA LoopRuns ==
    ASSUME NEW S, NEW base \in S, NEW n \in Nat, NEW step, Stays(S, step, n)
    PROVE  \E f \in [0..n -> S] : Rounds(f, base, step, n)
<1> USE DEF Stays
<1> DEFINE R(m, f) == \A i \in 0..m : f[i] = IF i = 0 THEN base ELSE step[<<f[i - 1], i>>]
           Reached == {m \in Nat : m <= n => \E f \in [0..m -> S] : R(m, f)}
<1>1. 0 \in Reached
  <2> DEFINE f == [i \in 0..0 |-> base]
  <2>1. f \in [0..0 -> S] /\ R(0, f)
    OBVIOUS
  <2>. QED  BY <2>1
<1>2. ASSUME NEW m \in Nat, m \in Reached, m + 1 <= n PROVE \E f \in [0..(m + 1) -> S] : R(m + 1, f)
  <2>1. PICK f \in [0..m -> S] : R(m, f)
    BY <1>2
  <2> DEFINE g == [i \in 0..(m + 1) |-> IF i <= m THEN f[i] ELSE step[<<f[m], m + 1>>]]
  <2>2. step[<<f[m], m + 1>>] \in S
    BY <1>2
  <2>3. g \in [0..(m + 1) -> S]
    BY <2>2
  <2>4. \A i \in 0..m : g[i] = f[i] /\ (i # 0 => g[i - 1] = f[i - 1])
    OBVIOUS
  <2>5. g[m + 1] = step[<<g[m], m + 1>>]
    BY SMTT(30)
  <2>6. R(m + 1, g)
    <3> SUFFICES ASSUME NEW i \in 0..(m + 1) PROVE g[i] = IF i = 0 THEN base ELSE step[<<g[i - 1], i>>]
      BY Zenon
    <3>1. i = m + 1 => i # 0 /\ i - 1 = m
      OBVIOUS
    <3>2. i # m + 1 => i \in 0..m
      OBVIOUS
    <3> HIDE DEF g
    <3>3. CASE i = m + 1
      BY <2>5, <3>1, <3>3, Zenon
    <3>4. CASE i # m + 1
      BY <2>1, <2>4, <3>2, <3>4, Zenon
    <3>. QED  BY <3>3, <3>4
  <2>. QED  BY <2>3, <2>6
<1>3. \A m \in Nat : m \in Reached => m + 1 \in Reached
  BY <1>2
<1>4. n \in Reached
  <2> HIDE DEF Reached
  <2>. QED  BY <1>1, <1>3, CountingUp
<1>. QED  BY <1>4 DEF Rounds

-----------------------------------------------------------------------------
(* The phrases of the dictionaries.                                        *)

(* What a line of a file can hold.                                         *)
Spelling == {"plain", "left,right", "words", "#tag", "left", "right", Blank}

(* No phrase is empty and none comes twice.                                *)
Neat(ps) ==
    /\ ps \in Seq(Spelling) /\ \A i \in DOMAIN ps : ps[i] # Blank
    /\ \A i, j \in DOMAIN ps : ps[i] = ps[j] => i = j

(* The loop of cleanPhrases: what one phrase adds, and all rounds.         *)
CleansOne(out, p) == IF p = Blank \/ Contains(out, p) THEN out ELSE Append(out, p)
Cleans(ps, out) == out = [i \in 0..Len(ps) |-> IF i = 0 THEN <<>> ELSE CleansOne(out[i - 1], ps[i])]

LEMMA CleanedLoops ==
    ASSUME NEW ps \in Seq(Spelling)
    PROVE  \E out : /\ Cleaned(ps) = out[Len(ps)] /\ out[0] = <<>>
                    /\ \A i \in 1..Len(ps) : out[i] = CleansOne(out[i - 1], ps[i])
<1> DEFINE n == Len(ps)
           step == [q \in Seq(Spelling) \X (1..n) |-> CleansOne(q[1], ps[q[2]])]
<1>1. n \in Nat /\ <<>> \in Seq(Spelling) /\ \A i \in 1..n : ps[i] \in Spelling
  OBVIOUS
<1>a. \A x \in Seq(Spelling), p \in Spelling : CleansOne(x, p) \in Seq(Spelling)
  <2> SUFFICES ASSUME NEW x \in Seq(Spelling), NEW p \in Spelling PROVE CleansOne(x, p) \in Seq(Spelling)
    OBVIOUS
  <2>1. Append(x, p) \in Seq(Spelling)
    OBVIOUS
  <2>. QED  BY <2>1, Zenon DEF CleansOne
<1>b. \A x \in Seq(Spelling), i \in 1..n : step[<<x, i>>] = CleansOne(x, ps[i])
  OBVIOUS
<1> HIDE DEF step, n
<1>2. \A x \in Seq(Spelling), i \in 1..n : step[<<x, i>>] = CleansOne(x, ps[i]) /\ step[<<x, i>>] \in Seq(Spelling)
  BY <1>1, <1>a, <1>b, Zenon
<1>c. \A x \in Seq(Spelling), i \in 1..n : step[<<x, i>>] \in Seq(Spelling)
  BY <1>2
<1>d. <<>> \in Seq(Spelling) /\ n \in Nat
  BY <1>1
<1>3. PICK f \in [0..n -> Seq(Spelling)] : Rounds(f, <<>>, step, n)
  BY <1>c, <1>d, LoopRuns DEF Stays
<1>4. \A i \in 0..n : i # 0 => i - 1 \in 0..n /\ i \in 1..n
  BY <1>1
<1>5. f = [i \in 0..n |-> IF i = 0 THEN <<>> ELSE CleansOne(f[i - 1], ps[i])]
  BY <1>2, <1>3, <1>4 DEF Rounds
<1>6. Cleaned(ps) = (CHOOSE out : Cleans(ps, out))[Len(ps)]
  BY Zenon DEF Cleaned, Cleans, CleansOne
<1>7. PICK out : Cleaned(ps) = out[n] /\ Cleans(ps, out)
  BY <1>5, <1>6, Zenon DEF Cleans, n
<1>8. 0 \in 0..n /\ \A i \in 1..n : i \in 0..n /\ i # 0
  BY <1>1
<1>. QED  BY <1>7, <1>8 DEF Cleans, n

(* What is clean at the front stays at the front, the rest is made clean.  *)
LEMMA CleanedKeeps ==
    ASSUME NEW ps \in Seq(Spelling), NEW m \in 0..Len(ps),
           \A i \in 1..m : ps[i] # Blank, \A i, j \in 1..m : ps[i] = ps[j] => i = j
    PROVE  /\ Neat(Cleaned(ps)) /\ Len(Cleaned(ps)) >= m
           /\ \A i \in 1..m : Cleaned(ps)[i] = ps[i]
           /\ m = Len(ps) => Len(Cleaned(ps)) = m
<1>1. PICK out : /\ Cleaned(ps) = out[Len(ps)] /\ out[0] = <<>>
                 /\ \A i \in 1..Len(ps) : out[i] = CleansOne(out[i - 1], ps[i])
  BY CleanedLoops
<1> DEFINE Good(i) == /\ Neat(out[i]) /\ (i <= m => Len(out[i]) = i) /\ (i > m => Len(out[i]) >= m)
                      /\ \A k \in 1..m : k <= i => out[i][k] = ps[k]
           S == {i \in Nat : i <= Len(ps) => Good(i)}
<1>2. Good(0)
  BY <1>1 DEF Neat
<1>3. ASSUME NEW i \in Nat, i + 1 <= Len(ps), Good(i) PROVE Good(i + 1)
  <2>1. out[i + 1] = CleansOne(out[i], ps[i + 1]) /\ ps[i + 1] \in Spelling
    <3>1. i + 1 \in 1..Len(ps) /\ i + 1 - 1 = i
      <4> HIDE DEF Good
      <4>. QED  BY <1>3
    <3>2. ps[i + 1] \in Spelling
      BY <3>1
    <3>. QED  BY <1>1, <3>1, <3>2
  <2>2. out[i] \in Seq(Spelling) /\ Len(out[i]) \in Nat
    BY <1>3 DEF Neat
  <2>3. CASE ps[i + 1] = Blank \/ Contains(out[i], ps[i + 1])
    <3>1. out[i + 1] = out[i]
      BY <2>1, <2>3, Zenon DEF CleansOne
    <3>2. i + 1 > m
      <4> SUFFICES ASSUME i + 1 <= m PROVE FALSE
        OBVIOUS
      <4>1. ps[i + 1] # Blank /\ Len(out[i]) = i
        BY <1>3
      <4>2. PICK k \in 1..i : out[i][k] = ps[i + 1]
        BY <2>3, <4>1 DEF Contains
      <4>3. ps[k] = ps[i + 1] /\ k \in 1..m /\ i + 1 \in 1..m /\ k # i + 1
        BY <1>3, <4>2
      <4>. QED  BY <4>3
    <3>. QED  BY <1>3, <3>1, <3>2
  <2>4. CASE ps[i + 1] # Blank /\ ~Contains(out[i], ps[i + 1])
    <3>1. out[i + 1] = Append(out[i], ps[i + 1])
      BY <2>1, <2>4, Zenon DEF CleansOne
    <3>2. /\ out[i + 1] \in Seq(Spelling) /\ Len(out[i + 1]) = Len(out[i]) + 1
          /\ out[i + 1][Len(out[i]) + 1] = ps[i + 1]
          /\ \A k \in 1..Len(out[i]) : out[i + 1][k] = out[i][k] /\ out[i][k] # ps[i + 1]
      BY <2>1, <2>2, <2>4, <3>1 DEF Contains
    <3>3. Neat(out[i + 1])
      <4> DEFINE l == Len(out[i])
                 o == out[i]
                 q == out[i + 1]
      <4>1. l \in Nat /\ DOMAIN o = 1..l /\ DOMAIN q = 1..(l + 1) /\ q \in Seq(Spelling)
        BY <2>2, <3>2
      <4>2. \A k \in 1..l : q[k] = o[k] /\ o[k] # ps[i + 1] /\ o[k] # Blank
        BY <1>3, <3>2, <4>1 DEF Neat
      <4>3. q[l + 1] = ps[i + 1] /\ ps[i + 1] # Blank
        BY <2>4, <3>2
      <4>4. \A j, k \in 1..l : o[j] = o[k] => j = k
        BY <1>3, <4>1 DEF Neat
      <4> HIDE DEF l, o, q
      <4>5. \A k \in 1..(l + 1) : k \in 1..l \/ k = l + 1
        BY <4>1
      <4>6. \A k \in 1..(l + 1) : q[k] # Blank
        BY <4>2, <4>3, <4>5
      <4>7. \A j, k \in 1..(l + 1) : q[j] = q[k] => j = k
        BY <4>2, <4>3, <4>4, <4>5
      <4>8. Neat(q)
        BY <4>1, <4>6, <4>7, Zenon DEF Neat
      <4>. QED  BY <4>8 DEF q
    <3>4. \A k \in 1..m : k <= i + 1 => out[i + 1][k] = ps[k]
      <4> SUFFICES ASSUME NEW k \in 1..m, k <= i + 1 PROVE out[i + 1][k] = ps[k]
        OBVIOUS
      <4>1. CASE k <= i
        BY <1>3, <2>2, <3>2, <4>1
      <4>2. CASE k = i + 1
        BY <1>3, <2>2, <3>2, <4>2
      <4>. QED  BY <4>1, <4>2
    <3>. QED  BY <1>3, <2>2, <3>2, <3>3, <3>4
  <2>. QED  BY <2>3, <2>4
<1>4. 0 \in S /\ \A i \in Nat : i \in S => i + 1 \in S
  BY <1>2, <1>3
<1>5. Good(Len(ps))
  <2>1. Len(ps) \in Nat /\ \A i \in Nat : i \in S
    <3> HIDE DEF S
    <3>. QED  BY <1>4, CountingUp
  <2>. QED  BY <2>1
<1>. QED  BY <1>1, <1>5

(* A list that is clean already.                                           *)
LEMMA CleanedAgain ==
    ASSUME NEW ps, Neat(ps) PROVE Cleaned(ps) = ps
<1>1. ps \in Seq(Spelling) /\ Len(ps) \in 0..Len(ps) /\ DOMAIN ps = 1..Len(ps)
  BY DEF Neat
<1>2. /\ Neat(Cleaned(ps)) /\ Len(Cleaned(ps)) = Len(ps)
      /\ \A i \in 1..Len(ps) : Cleaned(ps)[i] = ps[i]
  BY <1>1, CleanedKeeps DEF Neat
<1>. QED  BY <1>1, <1>2 DEF Neat

LEMMA CleanedIsNeat ==
    ASSUME NEW ps \in Seq(Spelling) PROVE Neat(Cleaned(ps))
BY CleanedKeeps, 0 \in 0..Len(ps)

(* The loop of Parse.                                                      *)
LEMMA PhrasesOnLine ==
    ASSUME NEW lines \in Seq(Spelling), NEW i \in 1..Len(lines)
    PROVE  PhrasesOn(lines, i) \in Seq(Spelling)
<1>1. lines[i] \in Spelling
  OBVIOUS
<1>2. Fragments(lines[i]) \in Seq(Spelling) /\ <<lines[i]>> \in Seq(Spelling) /\ <<>> \in Seq(Spelling)
  <2>1. \A x, y \in Spelling : <<x, y>> \in Seq(Spelling) /\ <<x>> \in Seq(Spelling)
    OBVIOUS
  <2>2. "left" \in Spelling /\ "right" \in Spelling
    BY DEF Spelling
  <2>3. <<>> \in Seq(Spelling)
    OBVIOUS
  <2>. QED  BY <1>1, <2>1, <2>2, <2>3, Zenon DEF Fragments
<1>. QED  BY <1>2, Zenon DEF PhrasesOn

Parses(lines, out) == out = [i \in 0..Len(lines) |-> IF i = 0 THEN <<>> ELSE out[i - 1] \o PhrasesOn(lines, i)]

LEMMA ParseLoops ==
    ASSUME NEW lines \in Seq(Spelling)
    PROVE  \E out \in [0..Len(lines) -> Seq(Spelling)] :
              /\ Parse(lines) = out[Len(lines)] /\ out[0] = <<>>
              /\ \A i \in 1..Len(lines) : out[i] = out[i - 1] \o PhrasesOn(lines, i)
<1> DEFINE n == Len(lines)
           step == [q \in Seq(Spelling) \X (1..n) |-> q[1] \o PhrasesOn(lines, q[2])]
<1>1. n \in Nat /\ <<>> \in Seq(Spelling)
  OBVIOUS
<1>a. \A x \in Seq(Spelling), i \in 1..n : x \o PhrasesOn(lines, i) \in Seq(Spelling)
  BY PhrasesOnLine
<1>b. \A x \in Seq(Spelling), i \in 1..n : step[<<x, i>>] = x \o PhrasesOn(lines, i)
  OBVIOUS
<1> HIDE DEF step, n
<1>2. Stays(Seq(Spelling), step, n)
  BY <1>a, <1>b DEF Stays
<1>3. PICK f \in [0..n -> Seq(Spelling)] : Rounds(f, <<>>, step, n)
  BY <1>1, <1>2, LoopRuns
<1>4. \A i \in 0..n : i # 0 => i - 1 \in 0..n /\ i \in 1..n
  BY <1>1
<1>5. f = [i \in 0..n |-> IF i = 0 THEN <<>> ELSE f[i - 1] \o PhrasesOn(lines, i)]
  BY <1>b, <1>3, <1>4 DEF Rounds
<1>6. Parse(lines) = (CHOOSE out : Parses(lines, out))[Len(lines)]
  BY Zenon DEF Parse, Parses
<1>7. PICK out : Parse(lines) = out[n] /\ Parses(lines, out)
  BY <1>5, <1>6, Zenon DEF Parses, n
<1>8. /\ out[0] = <<>>
      /\ \A i \in 1..n : out[i] = out[i - 1] \o PhrasesOn(lines, i)
  <2>1. 0 \in 0..n /\ \A i \in 1..n : i \in 0..n /\ i # 0
    BY <1>1
  <2>. QED  BY <1>7, <2>1 DEF Parses, n
<1>9. \A i \in 0..n : out[i] \in Seq(Spelling)
  <2> DEFINE S == {i \in Nat : i <= n => out[i] \in Seq(Spelling)}
  <2>1. 0 \in S
    BY <1>1, <1>8
  <2>2. ASSUME NEW i \in Nat, i \in S PROVE i + 1 \in S
    <3> SUFFICES ASSUME i + 1 <= n PROVE out[i + 1] \in Seq(Spelling)
      OBVIOUS
    <3>1. PICK j \in 1..n : j = i + 1 /\ j - 1 = i /\ i <= n
      BY <1>1
    <3>2. out[j] = out[j - 1] \o PhrasesOn(lines, j)
      BY <1>8
    <3>3. out[j] \in Seq(Spelling)
      BY <1>a, <2>2, <3>1, <3>2, Zenon
    <3>. QED  BY <3>1, <3>3
  <2>3. \A i \in Nat : i \in S
    <3> HIDE DEF S
    <3>. QED  BY <2>1, <2>2, CountingUp
  <2>. QED  BY <1>1, <2>3
<1>10. out \in [0..n -> Seq(Spelling)]
  BY <1>7, <1>9 DEF Parses, n
<1>. QED  BY <1>7, <1>8, <1>10 DEF n

(* An export has a comment or two above its phrases.                       *)
LEMMA TextIs ==
    ASSUME NEW d, d.phrases \in Seq(Spelling), d.name \in {"key", "name"}
    PROVE  \E h \in {1, 2} :
              /\ Text(d) \in Seq(Spelling) /\ Len(Text(d)) = h + Len(d.phrases)
              /\ \A i \in 1..h : Text(d)[i] = "#tag"
              /\ \A i \in 1..Len(d.phrases) : Text(d)[h + i] = d.phrases[i]
<1> DEFINE ps == d.phrases
<1>1. "#tag" \in Spelling
  BY DEF Spelling
<1>2. ASSUME NEW t, t \in Spelling PROVE <<t>> \o <<>> \o ps = <<t>> \o ps
  BY <1>2
<1>3. \A t \in Spelling : /\ (<<t>> \o <<>>) \o ps \in Seq(Spelling) /\ Len((<<t>> \o <<>>) \o ps) = 1 + Len(ps)
                      /\ ((<<t>> \o <<>>) \o ps)[1] = t
                      /\ \A i \in 1..Len(ps) : ((<<t>> \o <<>>) \o ps)[1 + i] = ps[i]
  OBVIOUS
<1>4. \A t \in Spelling : /\ (<<t>> \o <<t>>) \o ps \in Seq(Spelling) /\ Len((<<t>> \o <<t>>) \o ps) = 2 + Len(ps)
                      /\ ((<<t>> \o <<t>>) \o ps)[1] = t /\ ((<<t>> \o <<t>>) \o ps)[2] = t
                      /\ \A i \in 1..Len(ps) : ((<<t>> \o <<t>>) \o ps)[2 + i] = ps[i]
  OBVIOUS
<1>5. CASE d.name = "key"
  <2>1. Text(d) = (<<"#tag">> \o <<>>) \o ps
    BY <1>5 DEF Text
  <2>2. \A i \in 1..1 : i = 1
    OBVIOUS
  <2>. QED  BY <1>1, <1>3, <2>1, <2>2
<1>6. CASE d.name = "name"
  <2>1. Text(d) = (<<"#tag">> \o <<"#tag">>) \o ps
    BY <1>6 DEF Text
  <2>2. \A i \in 1..2 : i = 1 \/ i = 2
    OBVIOUS
  <2>. QED  BY <1>1, <1>4, <2>1, <2>2
<1>. QED  BY <1>5, <1>6

(* Of such a file each line is one phrase.                                 *)
LEMMA ManyLines ==
    ASSUME NEW lines \in Seq(Spelling), NEW i \in 2..Len(lines), lines[1] = "#tag", lines[i] # Blank
    PROVE  NonBlank(lines) # 1
<1> DEFINE D == {j \in DOMAIN lines : lines[j] # Blank}
<1>0. "#tag" # Blank
  BY Zenon DEF Blank
<1>1. D \subseteq 1..Len(lines) /\ 1 \in D /\ i \in D /\ i # 1
  BY <1>0
<1>2. IsFiniteSet(D)
  BY <1>1, FS_Interval, FS_Subset
<1>3. Cardinality(D) = 1 => \E x : D = {x}
  BY <1>2, FS_Singleton
<1>. QED  BY <1>1, <1>3 DEF NonBlank

(* "an export has to import back as what it was".                          *)
LEMMA TextComesBack ==
    ASSUME NEW d, Neat(d.phrases), d.name \in {"key", "name"}, \A i \in DOMAIN d.phrases : ~Hash(d.phrases[i])
    PROVE  Cleaned(Parse(Text(d))) = d.phrases
<1> DEFINE ps == d.phrases
           lines == Text(d)
           n == Len(ps)
<1>1. ps \in Seq(Spelling) /\ n \in Nat /\ DOMAIN ps = 1..n /\ \A k \in 1..n : ps[k] # Blank /\ ~Hash(ps[k])
  BY DEF Neat
<1>2. PICK h \in {1, 2} : /\ lines \in Seq(Spelling) /\ Len(lines) = h + n
                          /\ \A i \in 1..h : lines[i] = "#tag"
                          /\ \A i \in 1..n : lines[h + i] = ps[i]
  BY <1>1, TextIs
<1>3. PICK out \in [0..Len(lines) -> Seq(Spelling)] :
          /\ Parse(lines) = out[Len(lines)] /\ out[0] = <<>>
          /\ \A i \in 1..Len(lines) : out[i] = out[i - 1] \o PhrasesOn(lines, i)
  BY <1>2, ParseLoops
<1> HIDE DEF lines, ps, n
<1>4. \A i \in 1..h : PhrasesOn(lines, i) = <<>>
  BY <1>2 DEF PhrasesOn, Hash
<1>5. ASSUME NEW k \in 1..n PROVE PhrasesOn(lines, h + k) = <<ps[k]>>
  <2>1. h + k \in 2..Len(lines) /\ lines[h + k] = ps[k] /\ h + k # 1 /\ lines[1] = "#tag"
    BY <1>1, <1>2
  <2>2. NonBlank(lines) # 1
    BY <1>1, <1>2, <2>1, ManyLines
  <2>. QED  BY <1>1, <2>1, <2>2 DEF PhrasesOn
<1> DEFINE Good(i) == /\ i <= h => out[i] = <<>>
                      /\ i >= h => Len(out[i]) = i - h /\ \A k \in 1..(i - h) : out[i][k] = ps[k]
           S == {i \in Nat : i <= h + n => Good(i)}
<1>6. 0 \in S
  BY <1>3
<1>7. ASSUME NEW i \in Nat, i \in S PROVE i + 1 \in S
  <2> SUFFICES ASSUME i + 1 <= h + n PROVE Good(i + 1)
    OBVIOUS
  <2>1. PICK j \in 1..(h + n) : j = i + 1 /\ j - 1 = i
    BY <1>1
  <2>a. j \in 1..Len(lines) /\ i \in 0..Len(lines)
    BY <1>1, <1>2, <2>1
  <2>b. out[j] = out[j - 1] \o PhrasesOn(lines, j) /\ out[i] \in Seq(Spelling)
    BY <1>3, <2>a
  <2>c. Good(i)
    BY <1>1, <1>7, <2>1
  <2>2. Good(i) /\ out[j] = out[i] \o PhrasesOn(lines, j) /\ out[i] \in Seq(Spelling)
    <3> HIDE DEF Good
    <3>. QED  BY <2>1, <2>b, <2>c, Zenon
  <2>3. CASE j <= h
    <3>1. out[j] = <<>> /\ out[i] = <<>>
      BY <1>4, <2>1, <2>2, <2>3
    <3>. QED  BY <2>1, <2>3, <3>1
  <2>4. CASE j > h
    <3>1. PICK k \in 1..n : j = h + k
      BY <1>1, <2>1, <2>4
    <3>a. PhrasesOn(lines, j) = <<ps[k]>>
      BY <1>5, <3>1
    <3>b. i >= h /\ i - h = k - 1
      BY <2>1, <2>4, <3>1
    <3>2. out[j] = out[i] \o <<ps[k]>> /\ Len(out[i]) = k - 1
      BY <2>2, <3>a, <3>b
    <3>3. \A l \in 1..(k - 1) : out[i][l] = ps[l]
      BY <2>1, <2>2, <3>1
    <3>4. Len(out[j]) = k /\ \A l \in 1..k : out[j][l] = ps[l]
      BY <2>2, <3>2, <3>3
    <3>. QED  BY <2>1, <2>4, <3>1, <3>4
  <2>. QED  BY <2>1, <2>3, <2>4
<1>8. Good(h + n)
  <2>1. \A i \in Nat : i \in S
    <3> HIDE DEF S
    <3>. QED  BY <1>6, <1>7, CountingUp
  <2>. QED  BY <1>1, <2>1
<1>9. Parse(lines) = ps
  <2>1. Parse(lines) \in Seq(Spelling) /\ Len(Parse(lines)) = n /\ \A k \in 1..n : Parse(lines)[k] = ps[k]
    BY <1>1, <1>2, <1>3, <1>8
  <2>. QED  BY <1>1, <2>1 DEF n
<1>. QED  BY <1>9, CleanedAgain DEF lines, ps

-----------------------------------------------------------------------------
DictName == {"key", "name", "two lines"}
UnderEdit == [stage : {"row", "read"}, key : DictKey, mode : {"append", "replace"}, file : Seq(Spelling),
              name : DictName, found : Seq(Spelling), alone : BOOLEAN]

(* Every list in the store is clean; an import that nobody interrupted has *)
(* read what is still there.                                               *)
PhrasesInv ==
    /\ DOMAIN dicts = DictKey /\ DOMAIN editing = Editor /\ kept
    /\ \A k \in DictKey : dicts[k].there => Neat(dicts[k].phrases) /\ dicts[k].name \in DictName
    /\ \A e \in Editor : editing[e].stage # "idle" => editing[e] \in UnderEdit
    /\ \A e \in Editor : editing[e].stage = "read" /\ editing[e].alone /\ dicts[editing[e].key].there
                            => editing[e].found = dicts[editing[e].key].phrases

(* What a write to the key leaves of an import.                            *)
Interrupted(k, r) == IF r.stage # "idle" /\ r.key = k THEN [r EXCEPT !.alone = FALSE] ELSE r

LEMMA WriteKeepsPhrases ==
    ASSUME PhrasesInv, NEW k \in DictKey, NEW name \in DictName, NEW ps \in Seq(Spelling), Write(k, name, Cleaned(ps))
    PROVE  /\ DOMAIN dicts' = DictKey /\ \A j \in DictKey : j # k => dicts'[j] = dicts[j]
           /\ \A j \in DictKey : dicts'[j].there => Neat(dicts'[j].phrases) /\ dicts'[j].name \in DictName
<1>1. Neat(Cleaned(ps))
  BY CleanedIsNeat
<1>2. /\ DOMAIN dicts' = DictKey /\ dicts'[k].phrases = Cleaned(ps) /\ dicts'[k].name = name
      /\ \A j \in DictKey : j # k => dicts'[j] = dicts[j]
  BY DEF PhrasesInv, Write
<1>. QED  BY <1>1, <1>2 DEF PhrasesInv

LEMMA EditsGoOn ==
    ASSUME PhrasesInv, NEW k \in DictKey, NEW e \in Editor, \A j \in DictKey : j # k => dicts'[j] = dicts[j],
           editing'[e] = Interrupted(k, editing[e])
    PROVE  /\ editing'[e].stage # "idle" => editing'[e] \in UnderEdit
           /\ editing'[e].stage = "read" /\ editing'[e].alone /\ dicts'[editing'[e].key].there
                 => editing'[e].found = dicts'[editing'[e].key].phrases
<1>1. CASE editing[e].stage # "idle" /\ editing[e].key = k
  <2>1. editing[e] \in UnderEdit /\ editing'[e] = [editing[e] EXCEPT !.alone = FALSE]
    BY <1>1 DEF PhrasesInv, Interrupted
  <2>2. editing'[e] \in UnderEdit /\ editing'[e].alone = FALSE
    BY <2>1 DEF UnderEdit
  <2>. QED  BY <2>2
<1>2. CASE ~(editing[e].stage # "idle" /\ editing[e].key = k)
  <2>1. editing'[e] = editing[e]
    BY <1>2 DEF Interrupted
  <2>2. CASE editing[e].stage = "idle"
    BY <2>1, <2>2
  <2>3. CASE editing[e].stage # "idle"
    <3>1. editing[e] \in UnderEdit /\ editing[e].key # k
      BY <1>2, <2>3 DEF PhrasesInv
    <3>2. dicts'[editing[e].key] = dicts[editing[e].key]
      BY <3>1 DEF UnderEdit
    <3>. QED  BY <2>1, <3>1, <3>2 DEF PhrasesInv
  <2>. QED  BY <2>2, <2>3
<1>. QED  BY <1>1, <1>2

LEMMA ListsAndFiles ==
    /\ \A ps \in Lists : ps \in Seq(Spelling)
    /\ \A lines \in Files : Parse(lines) \in Seq(Spelling)
<1>1. /\ "plain" \in Spelling /\ "left,right" \in Spelling /\ "words" \in Spelling /\ "#tag" \in Spelling /\ Blank \in Spelling
  BY DEF Spelling
<1>2. \A x, y, z, w \in Spelling : /\ <<x>> \in Seq(Spelling) /\ <<x, y, z>> \in Seq(Spelling) /\ <<x, y, z, w>> \in Seq(Spelling)
  OBVIOUS
<1>3. /\ \A ps \in Lists : ps \in Seq(Spelling)
      /\ \A lines \in Files : lines \in Seq(Spelling)
  BY <1>1, <1>2, Zenon DEF Lists, Files
<1>4. ASSUME NEW lines \in Seq(Spelling) PROVE Parse(lines) \in Seq(Spelling)
  <2>1. Len(lines) \in 0..Len(lines)
    OBVIOUS
  <2>. QED  BY <2>1, ParseLoops
<1>. QED  BY <1>3, <1>4

(* An import that appends keeps what it found in front.                    *)
LEMMA AppendKeepsFront ==
    ASSUME NEW found, Neat(found), NEW file \in Seq(Spelling)
    PROVE  IsPrefix(found, Cleaned(found \o file))
<1> DEFINE ps == found \o file
           m == Len(found)
<1>1. found \in Seq(Spelling) /\ m \in Nat /\ DOMAIN found = 1..m
  BY DEF Neat
<1>2. ps \in Seq(Spelling) /\ m \in 0..Len(ps) /\ \A i \in 1..m : ps[i] = found[i]
  BY <1>1
<1>3. (\A i \in 1..m : ps[i] # Blank) /\ (\A i, j \in 1..m : ps[i] = ps[j] => i = j)
  BY <1>1, <1>2 DEF Neat
<1>4. /\ Neat(Cleaned(ps)) /\ Len(Cleaned(ps)) >= m
      /\ \A i \in 1..m : Cleaned(ps)[i] = ps[i]
  BY <1>2, <1>3, CleanedKeeps
<1>5. Cleaned(ps) \in Seq(Spelling)
  BY <1>4 DEF Neat
<1> HIDE DEF ps
<1>. QED  BY <1>1, <1>2, <1>4, <1>5 DEF IsPrefix, ps

(* hotwords.go 126-165, 184-290 and dictionary.go: whoever creates,        *)
(* replaces, imports and deletes, every list the store holds is clean, its *)
(* export imports back as what it was, and an import in append mode that   *)
(* nobody interrupts keeps every phrase in its place.                      *)
THEOREM DictionariesKeepTheirPhrases == DictSpec => [](ExportsComeBack /\ AppendsKeep)
<1>1. DictInit => PhrasesInv
  BY DEF DictInit, PhrasesInv, NoDict
<1>2. ASSUME PhrasesInv, [DictNext]_dictvars PROVE PhrasesInv'
  <2>1. CASE UNCHANGED dictvars
    BY <1>2, <2>1 DEF dictvars, PhrasesInv
  <2>2. ASSUME NEW k \in DictKey, NEW ps \in Lists, NEW name \in DictName,
               PostDictionary(k, name, ps) \/ PutDictionary(k, name, ps)
        PROVE  PhrasesInv'
    <3>1. Write(k, name, Cleaned(ps)) /\ Wrote(k) /\ kept' = kept /\ ps \in Seq(Spelling)
      BY <2>2, ListsAndFiles DEF PostDictionary, PutDictionary
    <3>2. DOMAIN editing' = Editor /\ \A e \in Editor : editing'[e] = Interrupted(k, editing[e])
      BY <3>1 DEF Wrote, Interrupted
    <3>3. /\ DOMAIN dicts' = DictKey /\ \A j \in DictKey : j # k => dicts'[j] = dicts[j]
          /\ \A j \in DictKey : dicts'[j].there => Neat(dicts'[j].phrases) /\ dicts'[j].name \in DictName
      BY <1>2, <3>1, WriteKeepsPhrases
    <3>4. \A e \in Editor : /\ editing'[e].stage # "idle" => editing'[e] \in UnderEdit
                            /\ editing'[e].stage = "read" /\ editing'[e].alone /\ dicts'[editing'[e].key].there
                                  => editing'[e].found = dicts'[editing'[e].key].phrases
      BY <1>2, <3>2, <3>3, EditsGoOn
    <3>. QED  BY <1>2, <3>1, <3>2, <3>3, <3>4 DEF PhrasesInv
  <2>3. ASSUME NEW k \in DictKey, DeleteDictionary(k) PROVE PhrasesInv'
    <3>1. dicts' = [dicts EXCEPT ![k] = NoDict] /\ Wrote(k) /\ kept' = kept
      BY <2>3 DEF DeleteDictionary
    <3>2. DOMAIN editing' = Editor /\ \A e \in Editor : editing'[e] = Interrupted(k, editing[e])
      BY <3>1 DEF Wrote, Interrupted
    <3>3. /\ DOMAIN dicts' = DictKey /\ \A j \in DictKey : j # k => dicts'[j] = dicts[j]
          /\ ~dicts'[k].there
      BY <1>2, <3>1 DEF PhrasesInv, NoDict
    <3>4. \A e \in Editor : /\ editing'[e].stage # "idle" => editing'[e] \in UnderEdit
                            /\ editing'[e].stage = "read" /\ editing'[e].alone /\ dicts'[editing'[e].key].there
                                  => editing'[e].found = dicts'[editing'[e].key].phrases
      BY <1>2, <3>2, <3>3, EditsGoOn
    <3>5. \A j \in DictKey : dicts'[j].there => Neat(dicts'[j].phrases) /\ dicts'[j].name \in DictName
      BY <1>2, <3>3 DEF PhrasesInv
    <3>. QED  BY <1>2, <3>1, <3>2, <3>3, <3>4, <3>5 DEF PhrasesInv
  <2>4. ASSUME NEW e \in Editor, NEW k \in DictKey, NEW lines \in Files, NEW mode \in {"append", "replace"},
               ImportReads(e, k, lines, mode)
        PROVE  PhrasesInv'
    <3> DEFINE r == [stage |-> IF dicts[k].there THEN "row" ELSE "read", key |-> k, mode |-> mode,
                     file |-> Parse(lines), name |-> IF dicts[k].there THEN dicts[k].name ELSE "key",
                     found |-> <<>>, alone |-> TRUE]
    <3>1. editing' = [editing EXCEPT ![e] = r] /\ dicts' = dicts /\ kept' = kept
      BY <2>4 DEF ImportReads
    <3>2. Parse(lines) \in Seq(Spelling) /\ <<>> \in Seq(Spelling) /\ Neat(<<>>)
      BY ListsAndFiles DEF Neat
    <3>3. dicts[k].there => dicts[k].name \in DictName
      BY <1>2 DEF PhrasesInv
    <3>4. r \in UnderEdit
      BY <3>2, <3>3 DEF UnderEdit, DictName
    <3>5. r.stage = "read" => ~dicts[r.key].there
      OBVIOUS
    <3> HIDE DEF r
    <3>6. editing'[e] = r /\ \A f \in Editor : f # e => editing'[f] = editing[f]
      BY <1>2, <3>1 DEF PhrasesInv
    <3>. QED  BY <1>2, <3>1, <3>4, <3>5, <3>6 DEF PhrasesInv
  <2>5. ASSUME NEW e \in Editor, ImportReadsPhrases(e) PROVE PhrasesInv'
    <3>1. editing[e] \in UnderEdit /\ dicts' = dicts /\ kept' = kept
      BY <1>2, <2>5 DEF PhrasesInv, ImportReadsPhrases
    <3> DEFINE found == IF dicts[editing[e].key].there THEN dicts[editing[e].key].phrases ELSE <<>>
               r == [editing[e] EXCEPT !.stage = "read", !.found = found]
    <3>2. editing' = [editing EXCEPT ![e] = r]
      BY <1>2, <2>5 DEF ImportReadsPhrases, PhrasesInv
    <3>3. editing[e].key \in DictKey /\ (dicts[editing[e].key].there => Neat(dicts[editing[e].key].phrases))
      BY <1>2, <3>1 DEF PhrasesInv, UnderEdit
    <3>4. found \in Seq(Spelling)
      BY <3>3 DEF Neat
    <3>5. r \in UnderEdit /\ r.key = editing[e].key /\ r.found = found
      BY <3>1, <3>4 DEF UnderEdit
    <3>6. dicts[editing[e].key].there => found = dicts[editing[e].key].phrases
      OBVIOUS
    <3> HIDE DEF r, found
    <3>7. editing'[e] = r /\ \A f \in Editor : f # e => editing'[f] = editing[f]
      BY <1>2, <3>2 DEF PhrasesInv
    <3>. QED  BY <1>2, <3>1, <3>2, <3>5, <3>6, <3>7 DEF PhrasesInv
  <2>6. ASSUME NEW e \in Editor, ImportSaves(e) PROVE PhrasesInv'
    <3> DEFINE r == editing[e]
    <3>1. r \in UnderEdit /\ r.stage = "read"
      BY <1>2, <2>6 DEF PhrasesInv, ImportSaves
    <3>2. r.key \in DictKey /\ r.name \in DictName /\ r.file \in Seq(Spelling) /\ r.found \in Seq(Spelling)
      BY <3>1 DEF UnderEdit
    <3>3. Imported(r) \in Seq(Spelling)
      BY <3>2 DEF Imported
    <3>4. CASE Permitted(Imported(r))
      <4>1. /\ Write(r.key, r.name, Cleaned(Imported(r)))
            /\ editing' = [f \in Editor |-> IF f = e THEN [stage |-> "idle"]
                             ELSE IF editing[f].stage # "idle" /\ editing[f].key = r.key
                                  THEN [editing[f] EXCEPT !.alone = FALSE] ELSE editing[f]]
            /\ kept' = (kept /\ (r.mode = "append" /\ r.alone /\ dicts[r.key].there
                                   => IsPrefix(dicts[r.key].phrases, Cleaned(Imported(r)))))
        BY <2>6, <3>4 DEF ImportSaves
      <4>2. /\ DOMAIN editing' = Editor /\ editing'[e] = [stage |-> "idle"]
            /\ \A f \in Editor : f # e => editing'[f] = Interrupted(r.key, editing[f])
        BY <4>1 DEF Interrupted
      <4>3. /\ DOMAIN dicts' = DictKey /\ \A j \in DictKey : j # r.key => dicts'[j] = dicts[j]
            /\ \A j \in DictKey : dicts'[j].there => Neat(dicts'[j].phrases) /\ dicts'[j].name \in DictName
        BY <1>2, <3>2, <3>3, <4>1, WriteKeepsPhrases
      <4>4. ASSUME NEW f \in Editor
            PROVE  /\ editing'[f].stage # "idle" => editing'[f] \in UnderEdit
                   /\ editing'[f].stage = "read" /\ editing'[f].alone /\ dicts'[editing'[f].key].there
                         => editing'[f].found = dicts'[editing'[f].key].phrases
        <5>1. CASE f = e
          BY <4>2, <5>1
        <5>2. CASE f # e
          BY <1>2, <3>2, <4>2, <4>3, <5>2, EditsGoOn
        <5>. QED  BY <5>1, <5>2
      <4>5. kept'
        <5> SUFFICES ASSUME r.mode = "append", r.alone, dicts[r.key].there
                     PROVE  IsPrefix(dicts[r.key].phrases, Cleaned(Imported(r)))
          BY <1>2, <4>1 DEF PhrasesInv
        <5>1. r.found = dicts[r.key].phrases /\ Neat(r.found)
          BY <1>2, <3>1, <3>2 DEF PhrasesInv
        <5>2. Imported(r) = r.found \o r.file
          BY DEF Imported
        <5>. QED  BY <3>2, <5>1, <5>2, AppendKeepsFront
      <4>. QED  BY <1>2, <4>2, <4>3, <4>4, <4>5 DEF PhrasesInv
    <3>5. CASE ~Permitted(Imported(r))
      <4>1. editing' = [editing EXCEPT ![e] = [stage |-> "idle"]] /\ dicts' = dicts /\ kept' = kept
        BY <2>6, <3>5 DEF ImportSaves
      <4>2. editing'[e] = [stage |-> "idle"] /\ \A f \in Editor : f # e => editing'[f] = editing[f]
        BY <1>2, <4>1 DEF PhrasesInv
      <4>. QED  BY <1>2, <4>1, <4>2 DEF PhrasesInv
    <3>. QED  BY <3>4, <3>5
  <2>7. CASE DictTick
    BY <1>2, <2>7 DEF DictTick, PhrasesInv
  <2>. QED  BY <1>2, <2>1, <2>2, <2>3, <2>4, <2>5, <2>6, <2>7 DEF DictNext, DictName
<1>3. PhrasesInv => ExportsComeBack /\ AppendsKeep
  <2>1. ASSUME PhrasesInv, NEW k \in DictKey, dicts[k].there, dicts[k].name # "two lines",
               \A i \in DOMAIN dicts[k].phrases : ~Hash(dicts[k].phrases[i])
        PROVE  Cleaned(Parse(Text(dicts[k]))) = dicts[k].phrases
    BY <2>1, TextComesBack DEF PhrasesInv, DictName
  <2>. QED  BY <2>1 DEF PhrasesInv, ExportsComeBack, AppendsKeep
<1>. QED  BY <1>1, <1>2, <1>3, PTL DEF DictSpec

-----------------------------------------------------------------------------
(* A request's options on their way to a recogniser.                       *)

Warnings == {"hotwords_unavailable", "hotwords_dict_missing", "decoding_method_unavailable", "decoding_method_promoted"}

OptTypeOK ==
    /\ req \in Request /\ srv \in Server
    /\ asked \in {"resolved", "listed", "built", "answered"}
    /\ phrases \in {"none", "some", "blank", "broken"}
    /\ variant \in [method : {"", Greedy, Beam, "other"}, paths : BOOLEAN, hotwords : BOOLEAN]
    /\ warned \in SUBSET Warnings
    /\ lease \in {"none", "base", "variant", "refused"}

(* Nothing that was asked for.                                             *)
Bare == req.words = "none" /\ req.dict = "none" /\ req.method = "" /\ ~req.paths

(* Until the variant is built there is none; afterwards sherpa-onnx can do *)
(* what it says.                                                           *)
VariantIsSound ==
    /\ asked \in {"resolved", "listed"} => variant = Plain
    /\ variant.method # "" => DecodingSupport(req.model, variant.method)
    /\ variant.hotwords => HotwordsSupport(req.model, Effective)

(* What the variant lacks of what was asked for has its warning.           *)
LacksAreTold ==
    asked \in {"built", "answered"} /\ lease # "refused" =>
        /\ phrases \in {"some", "broken"} /\ ~variant.hotwords => "hotwords_unavailable" \in warned
        /\ req.method = Beam /\ variant.method # Beam => warned \cap Degradations # {}

(* And what the recogniser in hand lacks.                                  *)
LeaseIsTold ==
    /\ lease = "base" => NothingIsDroppedSilently
    /\ asked \in {"resolved", "listed", "built"} => lease = "none"
    /\ asked = "answered" => lease # "none"

(* A request that asks for nothing, of a model that cannot use the         *)
(* dictionaries, is left alone.                                            *)
BareIsLeftAlone ==
    /\ asked = "resolved" => phrases = req.words /\ warned = {}
    /\ Bare /\ ~HotwordsCapability(req.model) =>
          /\ phrases = "none" /\ warned = {} /\ variant = Plain
          /\ asked = "answered" => lease = "base"
    /\ Bare /\ lease = "refused" /\ ~req.strict =>
          srv.budget = "broken" \/ (srv.store = "fails" /\ srv.standing # "none" /\ HotwordsCapability(req.model))

(* A key that names nothing has its warning, or its refusal.               *)
KeysAreAnswered ==
    (asked # "resolved" /\ lease # "refused" /\ (req.dict = "missing" \/ (req.dict = "standing" /\ srv.standing # "there"))) =>
        warned \cap {"hotwords_unavailable", "hotwords_dict_missing"} # {}

OptInv == OptTypeOK /\ VariantIsSound /\ LacksAreTold /\ LeaseIsTold /\ BareIsLeftAlone /\ KeysAreAnswered

LEMMA OptInvInit == OptInit => OptInv
<1> SUFFICES ASSUME OptInit PROVE OptInv
  OBVIOUS
<1>1. req \in Request /\ srv \in Server
  BY RequestsAssumption DEF OptInit
<1>2. phrases = req.words /\ req.words \in {"none", "some", "blank", "broken"}
  BY <1>1 DEF OptInit, Request
<1>. QED
  BY <1>1, <1>2 DEF OptInit, OptInv, OptTypeOK, VariantIsSound, LacksAreTold, LeaseIsTold, BareIsLeftAlone,
     KeysAreAnswered, Plain, Bare

LEMMA ApplyKeepsInv == ASSUME OptInv, ApplyDictionaries PROVE OptInv'
<1>1. UNCHANGED <<req, srv, variant>> /\ variant = Plain /\ lease = "none" /\ warned = {} /\ phrases = req.words
      /\ asked' \in {"listed", "answered"}
  BY DEF ApplyDictionaries, OptInv, VariantIsSound, LeaseIsTold, BareIsLeftAlone, Refused
<1>s. Standing = IF HotwordsCapability(req.model) THEN srv.standing ELSE "none"
  BY DEF Standing
<1>n. /\ KeyNames \in {"none", "there", "missing"}
      /\ req.dict = "none" => KeyNames = "none"
      /\ req.dict = "missing" => KeyNames = "missing"
      /\ req.dict = "standing" /\ srv.standing # "there" => KeyNames = "missing" \/ Standing = "missing"
  <2>1. req.dict \in {"none", "there", "missing", "standing"} /\ srv.standing \in {"none", "there", "missing"}
    BY DEF OptInv, OptTypeOK, Request, Server
  <2>. QED  BY <1>s, <2>1 DEF KeyNames
<1>2. \/ asked' = "listed" /\ lease' = "none"
      \/ asked' = "answered" /\ lease' = "refused" /\ (req.dict # "none" \/ (Standing # "none" /\ srv.store = "fails"))
  BY <1>1, <1>n DEF ApplyDictionaries, Refused
<1>3. phrases' \in {"none", "some", "blank", "broken"} /\ warned' \in SUBSET Warnings
  BY <1>1 DEF ApplyDictionaries, OptInv, OptTypeOK, Warnings
<1>4. Bare /\ ~HotwordsCapability(req.model) => phrases' = phrases /\ warned' = {} /\ asked' = "listed"
  BY <1>1, <1>n, <1>s DEF ApplyDictionaries, Bare
<1>5. KeysAreAnswered'
  <2>1. asked' = "listed" /\ (KeyNames = "missing" \/ Standing = "missing") =>
            warned' \cap {"hotwords_unavailable", "hotwords_dict_missing"} # {}
    BY <1>n DEF ApplyDictionaries, Refused
  <2>. QED  BY <1>1, <1>2, <1>n, <2>1 DEF KeysAreAnswered
<1>6. OptTypeOK' /\ VariantIsSound' /\ LacksAreTold' /\ LeaseIsTold'
  BY <1>1, <1>2, <1>3 DEF OptInv, OptTypeOK, VariantIsSound, LacksAreTold, LeaseIsTold, Effective
<1>7. BareIsLeftAlone'
  BY <1>1, <1>2, <1>4, <1>s DEF OptInv, BareIsLeftAlone, Bare
<1>. QED  BY <1>5, <1>6, <1>7 DEF OptInv

LEMMA BuildKeepsInv == ASSUME OptInv, BuildVariant PROVE OptInv'
<1>1. UNCHANGED <<req, srv, phrases, lease>> /\ asked = "listed" /\ asked' = "built" /\ variant = Plain /\ lease = "none"
  BY DEF BuildVariant, OptInv, VariantIsSound, LeaseIsTold
<1>2. /\ req.model.method \in {"", Beam} /\ req.method \in {"", Greedy, Beam, "other"} /\ req.paths \in BOOLEAN
  BY DEF OptInv, OptTypeOK, Request, Model
<1>3. /\ Kept \in [method : {"", Greedy, Beam, "other"}, paths : BOOLEAN, hotwords : BOOLEAN]
      /\ Kept.method \in {"", req.method} /\ ~Kept.hotwords
      /\ Kept.method # "" => DecodingSupport(req.model, Kept.method)
      /\ Kept.method # req.method => "decoding_method_unavailable" \in Dropped
  <2>1. CASE DecodingSupport(req.model, req.method)
    BY <1>2, <2>1 DEF Kept, Plain
  <2>2. CASE ~DecodingSupport(req.model, req.method)
    BY <1>2, <2>2 DEF Kept, Plain, Dropped
  <2>. QED  BY <2>1, <2>2
<1>4. Dropped \subseteq Warnings
  BY DEF Dropped, Warnings
<1>5. CASE ~WantsVariant
  <2>1. UNCHANGED <<variant, warned>> /\ phrases = "none" /\ req.method = ""
    BY <1>5, <1>1 DEF BuildVariant, WantsVariant
  <2>. QED
    BY <1>1, <2>1 DEF OptInv, OptTypeOK, VariantIsSound, LacksAreTold, LeaseIsTold, BareIsLeftAlone, KeysAreAnswered,
       Bare, Effective, Beam
<1>6. WantsVariant => ~(Bare /\ ~HotwordsCapability(req.model))
  BY <1>1 DEF WantsVariant, OptInv, BareIsLeftAlone, Bare
<1>k. warned \subseteq warned' => KeysAreAnswered'
  BY <1>1 DEF OptInv, KeysAreAnswered
<1>7. ASSUME WantsVariant, variant' = Kept, warned' \subseteq Warnings, warned \cup Dropped \subseteq warned',
             phrases # "none" => "hotwords_unavailable" \in warned'
      PROVE  OptInv'
  <2>1. OptTypeOK'
    BY <1>1, <1>3, <1>7 DEF OptInv, OptTypeOK
  <2>2. VariantIsSound'
    BY <1>1, <1>3, <1>7 DEF VariantIsSound
  <2>3. LacksAreTold'
    BY <1>1, <1>3, <1>7 DEF LacksAreTold, Degradations
  <2>. QED  BY <1>1, <1>6, <1>7, <1>k, <2>1, <2>2, <2>3 DEF OptInv, LeaseIsTold, BareIsLeftAlone, Bare
<1>8. CASE WantsVariant /\ phrases = "none"
  <2>1. variant' = Kept /\ warned' = warned \cup Dropped
    BY <1>8 DEF BuildVariant
  <2>. QED  BY <1>4, <1>7, <1>8, <2>1 DEF OptInv, OptTypeOK
<1>9. CASE WantsVariant /\ phrases # "none" /\ (~srv.enabled \/ ~CanBias)
  <2>1. variant' = Kept /\ warned' = warned \cup Dropped \cup {"hotwords_unavailable"}
    BY <1>9 DEF BuildVariant
  <2>. QED  BY <1>4, <1>7, <1>9, <2>1 DEF OptInv, OptTypeOK, Warnings
<1>10. CASE WantsVariant /\ phrases # "none" /\ ~(~srv.enabled \/ ~CanBias)
  <2>1. /\ variant' = [method |-> IF Promote THEN Beam ELSE Kept.method, paths |-> Kept.paths, hotwords |-> phrases = "some"]
        /\ warned' = warned \cup Dropped \cup (IF Promote THEN {"decoding_method_promoted"} ELSE {})
                       \cup (IF phrases = "broken" THEN {"hotwords_unavailable"} ELSE {})
    BY <1>10 DEF BuildVariant
  <2>2. PICK m \in {"", Greedy, Beam, "other"} :
           /\ variant'.method = m
           /\ (m # "" => DecodingSupport(req.model, m)) /\ HotwordsSupport(req.model, IF m # "" THEN m ELSE Method)
           /\ req.method = Beam => m = Beam \/ Dropped \cap Degradations # {}
    <3>1. CASE Promote
      BY <1>10, <2>1, <3>1 DEF Promote, CanBias, Beam
    <3>2. CASE ~Promote
      <4>1. variant'.method = Kept.method
        BY <2>1, <3>2
      <4>2. Kept.method # "" => Method = Kept.method
        BY DEF Method
      <4>. QED  BY <1>2, <1>3, <1>10, <3>2, <4>1, <4>2 DEF CanBias, Degradations
    <3>. QED  BY <3>1, <3>2
  <2>3. /\ variant'.paths \in BOOLEAN /\ variant'.hotwords \in BOOLEAN /\ (variant'.hotwords <=> phrases = "some")
        /\ variant' \in [method : {"", Greedy, Beam, "other"}, paths : BOOLEAN, hotwords : BOOLEAN]
    BY <1>3, <2>1, <2>2
  <2>4. /\ warned' \in SUBSET Warnings /\ Dropped \subseteq warned' /\ warned \subseteq warned'
        /\ phrases = "broken" => "hotwords_unavailable" \in warned'
    BY <1>4, <2>1 DEF OptInv, OptTypeOK, Warnings
  <2>5. OptTypeOK'
    BY <1>1, <2>3, <2>4 DEF OptInv, OptTypeOK
  <2>6. m = "" => Method = IF req.model.method # "" THEN req.model.method ELSE Greedy
    <3>1. m = "" => Kept.method = ""
      BY <2>1, <2>2 DEF Beam
    <3>. QED  BY <3>1 DEF Method
  <2>7. VariantIsSound'
    BY <1>1, <2>2, <2>6 DEF VariantIsSound, Effective
  <2>8. LacksAreTold'
    BY <1>1, <2>2, <2>3, <2>4 DEF LacksAreTold, Degradations
  <2>. QED  BY <1>1, <1>6, <1>10, <1>k, <2>4, <2>5, <2>7, <2>8 DEF OptInv, LeaseIsTold, BareIsLeftAlone, Bare
<1>. QED  BY <1>5, <1>8, <1>9, <1>10

LEMMA AcquireKeepsInv == ASSUME OptInv, Acquire PROVE OptInv'
<1>1. UNCHANGED <<req, srv, phrases, variant>> /\ asked = "built" /\ asked' = "answered"
  BY DEF Acquire
<1>3. \/ variant = Plain /\ lease' = "base" /\ warned' = warned
      \/ variant # Plain /\ lease' = "variant" /\ warned' = warned
      \/ variant # Plain /\ lease' = "base" /\ warned' = warned \cup VariantRefused
      \/ variant # Plain /\ lease' = "refused" /\ warned' = warned /\ srv.budget = "broken"
  BY DEF Acquire
<1>4. VariantRefused \subseteq Warnings /\ VariantRefused \cap Degradations # {}
      /\ (phrases # "none" => "hotwords_unavailable" \in VariantRefused)
  BY DEF VariantRefused, Warnings, Degradations
<1>5. OptTypeOK' /\ VariantIsSound'
  BY <1>1, <1>3, <1>4 DEF OptInv, OptTypeOK, VariantIsSound, Effective
<1>6. LacksAreTold'
  BY <1>1, <1>3, <1>4 DEF OptInv, LacksAreTold, LeaseIsTold
<1>7. LeaseIsTold'
  <2>1. CASE lease' = "base"
    <3>1. NothingIsDroppedSilently'
      <4>1. CASE variant = Plain
        <5>1. ~variant'.hotwords /\ variant'.method # Beam
          BY <1>1, <4>1 DEF Plain, Beam
        <5>. QED  BY <1>1, <1>6, <2>1, <5>1 DEF LacksAreTold, NothingIsDroppedSilently
      <4>2. CASE variant # Plain
        <5>1. warned' = warned \cup VariantRefused
          BY <1>3, <2>1, <4>2
        <5>2. warned' \cap Degradations # {} /\ (phrases' # "none" => "hotwords_unavailable" \in warned')
          BY <1>1, <1>4, <5>1
        <5>. QED  BY <5>2 DEF NothingIsDroppedSilently
      <4>. QED  BY <4>1, <4>2
    <3>. QED  BY <1>1, <2>1, <3>1 DEF LeaseIsTold
  <2>. QED  BY <1>1, <1>3, <2>1 DEF LeaseIsTold
<1>8. BareIsLeftAlone'
  BY <1>1, <1>3 DEF OptInv, BareIsLeftAlone, Bare
<1>9. KeysAreAnswered'
  BY <1>1, <1>3 DEF OptInv, LeaseIsTold, KeysAreAnswered
<1>. QED  BY <1>5, <1>6, <1>7, <1>8, <1>9 DEF OptInv

LEMMA StrictKeepsInv == ASSUME OptInv, StrictAnswer PROVE OptInv'
BY ZenonT(60) DEF StrictAnswer, OptInv, OptTypeOK, VariantIsSound, LacksAreTold, LeaseIsTold, BareIsLeftAlone,
   KeysAreAnswered, Bare, Effective

(* variant.go: whatever a request asks for and whatever the server has.    *)
THEOREM OptionsInvariant == OptSpec => []OptInv
<1>1. ASSUME OptInv, UNCHANGED optvars PROVE OptInv'
  <2>1. req' = req /\ srv' = srv /\ asked' = asked /\ phrases' = phrases /\ variant' = variant /\ warned' = warned
        /\ lease' = lease
    BY <1>1 DEF optvars
  <2>2. OptTypeOK' /\ VariantIsSound' /\ LacksAreTold'
    <3>1. OptTypeOK'
      BY <1>1, <2>1 DEF OptInv, OptTypeOK
    <3>2. VariantIsSound'
      BY <1>1, <2>1 DEF OptInv, VariantIsSound, Effective
    <3>3. LacksAreTold'
      BY <1>1, <2>1 DEF OptInv, LacksAreTold, Effective
    <3>. QED  BY <3>1, <3>2, <3>3
  <2>3. LeaseIsTold'
    BY <1>1, <2>1 DEF OptInv, LeaseIsTold, NothingIsDroppedSilently
  <2>4. BareIsLeftAlone'
    BY <1>1, <2>1 DEF OptInv, BareIsLeftAlone, Bare
  <2>5. KeysAreAnswered'
    BY <1>1, <2>1 DEF OptInv, KeysAreAnswered
  <2>. QED  BY <2>2, <2>3, <2>4, <2>5 DEF OptInv
<1>. QED
  BY <1>1, OptInvInit, ApplyKeepsInv, BuildKeepsInv, AcquireKeepsInv, StrictKeepsInv, PTL DEF OptSpec, OptNext

(* variant.go 18 and 77, hotwords.go:77: whatever a request asks for, of   *)
(* whichever model and server, it gets that or hears why not, nothing      *)
(* reaches the loader that it cannot do, and the server's own dictionaries *)
(* do not trouble a request that asked for nothing, unless they cannot be  *)
(* read; and no key that names nothing passes in silence (108).            *)
THEOREM RequestsHearTheTruth == OptSpec => []RequestsAreHonest
<1>1. ASSUME OptInv PROVE RequestsAreHonest
  <2>1. LoaderIsSafe
    BY <1>1 DEF OptInv, VariantIsSound, LoaderIsSafe
  <2>2. NothingIsDroppedSilently
    BY <1>1 DEF OptInv, LacksAreTold, LeaseIsTold, NothingIsDroppedSilently
  <2>3. StandingIsQuiet
    BY <1>1 DEF OptInv, BareIsLeftAlone, Bare, StandingIsQuiet
  <2>4. NoTypoIsHidden
    BY <1>1 DEF OptInv, KeysAreAnswered, NoTypoIsHidden
  <2>. QED  BY <2>1, <2>2, <2>3, <2>4 DEF RequestsAreHonest
<1>. QED  BY <1>1, OptionsInvariant, PTL

-----------------------------------------------------------------------------
(* Numbers that are said (internal/postproc/itn): parseNumber, the rules   *)
(* it serves, and Rewrite.                                                 *)

(* Where parseNumber is: what it has read of a number.                     *)
NumberSoFar == [total : Nat, group : Nat, saw : BOOLEAN, count : Nat, over : BOOLEAN, refused : BOOLEAN]
NothingRead == [total |-> 0, group |-> 0, saw |-> FALSE, count |-> 0, over |-> FALSE, refused |-> FALSE]

(* A word is read, or the number is over before it; a pause ends it.       *)
LEMMA ParseStepIs ==
    ASSUME NEW n \in NumberSoFar, NEW ws \in Seq(SpokenWord), NEW i \in 1..Len(ws)
    PROVE  /\ ParseStep(n, ws, i) \in NumberSoFar
           /\ ParseStep(n, ws, i).count \in {n.count, i}
           /\ ParseStep(n, ws, i).count # n.count => ~n.over /\ (i = 1 \/ ~ws[i].gap)
           /\ ~ParseStep(n, ws, i).over => ParseStep(n, ws, i).count = i
<1>1. ws[i] \in SpokenWord /\ i \in Nat
  OBVIOUS
<1>2. ws[i].value \in Nat /\ ws[i].gap \in BOOLEAN /\ ws[i].mark \in BOOLEAN
  BY <1>1 DEF SpokenWord
<1> DEFINE w == ws[i]
           e == Extend(n, w)
           a == [n EXCEPT !.over = TRUE]
           b == [n EXCEPT !.over = TRUE, !.refused = TRUE]
           c == [e EXCEPT !.count = i, !.over = w.mark]
<1>3. a \in NumberSoFar /\ b \in NumberSoFar /\ a.over /\ b.over /\ a.count = n.count /\ b.count = n.count
  BY DEF NumberSoFar
<1>4. IsNumeral(w) => e \in NumberSoFar
  <2>1. n.group + w.value \in Nat
    BY <1>2 DEF NumberSoFar
  <2>2. n.total + (IF n.group = 0 THEN 1 ELSE n.group) * w.value \in Nat
    BY <1>2 DEF NumberSoFar
  <2>3. [n EXCEPT !.group = @ + w.value, !.saw = TRUE] \in NumberSoFar
    BY <2>1 DEF NumberSoFar
  <2>4. [n EXCEPT !.total = @ + (IF n.group = 0 THEN 1 ELSE n.group) * w.value, !.group = 0, !.saw = FALSE] \in NumberSoFar
    BY <2>2 DEF NumberSoFar
  <2>5. CASE w.kind \in {"hundred", "ten"}
    BY <2>3, <2>5 DEF Extend
  <2>6. CASE w.kind = "unit"
    BY <2>3, <2>6 DEF Extend
  <2>7. CASE w.kind = "scale"
    BY <2>4, <2>7 DEF Extend
  <2>. QED  BY <2>5, <2>6, <2>7 DEF IsNumeral
<1>5. IsNumeral(w) => c \in NumberSoFar /\ c.count = i /\ c.over = w.mark
  <2> SUFFICES ASSUME IsNumeral(w) PROVE c \in NumberSoFar /\ c.count = i /\ c.over = w.mark
    OBVIOUS
  <2>1. e \in NumberSoFar
    BY <1>4
  <2> HIDE DEF e
  <2>. QED  BY <1>1, <1>2, <2>1 DEF NumberSoFar
<1>6. \/ ParseStep(n, ws, i) = a
      \/ ParseStep(n, ws, i) = b
      \/ ParseStep(n, ws, i) = c /\ IsNumeral(w) /\ ~n.over /\ ~(i > 1 /\ ws[i].gap)
  BY Zenon DEF ParseStep
<1> HIDE DEF a, b, c
<1>7. i > 1 \/ i = 1
  BY <1>1
<1>. QED  BY <1>3, <1>5, <1>6, <1>7

(* The loop of parseNumber.                                                *)
Parsed(ws, n) == n = [i \in 0..Len(ws) |-> IF i = 0 THEN NothingRead ELSE ParseStep(n[i - 1], ws, i)]
NumberOf(r) == [ok |-> r.count > 0 /\ ~r.refused, value |-> r.total + r.group, count |-> r.count]

(* parseNumber has all of its rounds.                                      *)
LEMMA ParseNumberLoops ==
    ASSUME NEW ws \in Seq(SpokenWord)
    PROVE  \E n : /\ ParseNumber(ws) = NumberOf(n[Len(ws)])
                  /\ n[0] = NothingRead /\ \A i \in 1..Len(ws) : n[i] = ParseStep(n[i - 1], ws, i)
<1> DEFINE l == Len(ws)
           round == [q \in NumberSoFar \X (1..l) |-> ParseStep(q[1], ws, q[2])]
<1>1. l \in Nat /\ NothingRead \in NumberSoFar
  BY DEF NumberSoFar, NothingRead
<1>2. \A r \in NumberSoFar, i \in 1..l : round[<<r, i>>] = ParseStep(r, ws, i)
  OBVIOUS
<1>3. \A r \in NumberSoFar, i \in 1..l : ParseStep(r, ws, i) \in NumberSoFar
  BY ParseStepIs
<1> HIDE DEF round, l
<1>4. Stays(NumberSoFar, round, l)
  BY <1>2, <1>3 DEF Stays
<1>5. PICK f \in [0..l -> NumberSoFar] : Rounds(f, NothingRead, round, l)
  BY <1>1, <1>4, LoopRuns
<1>6. \A i \in 0..l : i # 0 => i - 1 \in 0..l /\ i \in 1..l
  BY <1>1
<1>7. Parsed(ws, f)
  <2>1. f = [i \in 0..l |-> IF i = 0 THEN NothingRead ELSE ParseStep(f[i - 1], ws, i)]
    BY <1>2, <1>5, <1>6 DEF Rounds
  <2>. QED  BY <2>1, Zenon DEF Parsed, l
<1>8. ParseNumber(ws) = NumberOf((CHOOSE n : Parsed(ws, n))[Len(ws)])
  BY Zenon DEF ParseNumber, Parsed, NumberOf, NothingRead
<1>9. PICK n : ParseNumber(ws) = NumberOf(n[Len(ws)]) /\ Parsed(ws, n)
  BY <1>7, <1>8, Zenon
<1>10. 0 \in 0..l /\ \A i \in 1..l : i \in 0..l /\ i # 0
  BY <1>1
<1>. QED  BY <1>9, <1>10 DEF Parsed, l

(* However far a number goes, there is no pause in it.                     *)
Gapless(ws, k) == \A i \in 2..k : ~ws[i].gap

(* No number goes over a pause, and one that is read has words.            *)
LEMMA NumberHasNoPause ==
    ASSUME NEW ws \in Seq(SpokenWord)
    PROVE  /\ ParseNumber(ws).count \in 0..Len(ws) /\ ParseNumber(ws).value \in Nat
           /\ ParseNumber(ws).ok \in BOOLEAN
           /\ ParseNumber(ws).ok => ParseNumber(ws).count > 0
           /\ Gapless(ws, ParseNumber(ws).count)
<1>1. PICK n : /\ ParseNumber(ws) = NumberOf(n[Len(ws)])
               /\ n[0] = NothingRead /\ \A i \in 1..Len(ws) : n[i] = ParseStep(n[i - 1], ws, i)
  BY ParseNumberLoops
<1> DEFINE Good(i) == n[i] \in NumberSoFar /\ n[i].count \in 0..i /\ (~n[i].over => n[i].count = i) /\ Gapless(ws, n[i].count)
           S == {i \in Nat : i <= Len(ws) => Good(i)}
<1>2. Good(0)
  BY <1>1 DEF NothingRead, NumberSoFar, Gapless
<1>3. ASSUME NEW i \in Nat, i + 1 <= Len(ws), Good(i) PROVE Good(i + 1)
  <2>1. i + 1 \in 1..Len(ws) /\ i + 1 - 1 = i
    BY <1>3
  <2>2. n[i + 1] = ParseStep(n[i], ws, i + 1)
    BY <1>1, <2>1
  <2>3. /\ n[i + 1] \in NumberSoFar /\ n[i + 1].count \in {n[i].count, i + 1}
        /\ n[i + 1].count # n[i].count => ~n[i].over /\ (i + 1 = 1 \/ ~ws[i + 1].gap)
        /\ ~n[i + 1].over => n[i + 1].count = i + 1
    BY <1>3, <2>1, <2>2, ParseStepIs
  <2>4. Gapless(ws, n[i + 1].count)
    <3>1. CASE n[i + 1].count = n[i].count
      BY <1>3, <3>1
    <3>2. CASE n[i + 1].count # n[i].count
      <4>1. n[i + 1].count = i + 1 /\ n[i].count = i /\ (i + 1 = 1 \/ ~ws[i + 1].gap)
        BY <1>3, <2>3, <3>2
      <4>2. \A k \in 2..(i + 1) : k \in 2..i \/ (k = i + 1 /\ i + 1 # 1)
        OBVIOUS
      <4>. QED  BY <1>3, <4>1, <4>2 DEF Gapless
    <3>. QED  BY <3>1, <3>2
  <2>. QED  BY <1>3, <2>3, <2>4
<1>4. 0 \in S /\ \A i \in Nat : i \in S => i + 1 \in S
  BY <1>2, <1>3
<1>5. Len(ws) \in Nat /\ Good(Len(ws))
  <2>1. Len(ws) \in Nat /\ \A i \in Nat : i \in S
    <3> HIDE DEF S
    <3>. QED  BY <1>4, CountingUp
  <2>. QED  BY <2>1
<1>6. n[Len(ws)].total \in Nat /\ n[Len(ws)].group \in Nat /\ n[Len(ws)].refused \in BOOLEAN
  BY <1>5 DEF NumberSoFar
<1>7. /\ ParseNumber(ws).count = n[Len(ws)].count /\ ParseNumber(ws).value = n[Len(ws)].total + n[Len(ws)].group
       /\ ParseNumber(ws).ok = (n[Len(ws)].count > 0 /\ ~n[Len(ws)].refused)
  BY <1>1 DEF NumberOf
<1>8. n[Len(ws)].count \in 0..Len(ws) /\ Gapless(ws, n[Len(ws)].count)
  BY <1>5
<1>9. n[Len(ws)].total + n[Len(ws)].group \in Nat
  <2>1. \A x, y \in Nat : x + y \in Nat
    OBVIOUS
  <2>. QED  BY <1>6, <2>1, Zenon
<1>. QED  BY <1>7, <1>8, <1>9, Zenon

-----------------------------------------------------------------------------
(* The rules.                                                              *)

(* What a rule may answer: no more words than there are, without a pause.  *)
Forms == {"none", "phone", "time", "date", "money", "percent", "number"}
MayTake(ws, m) == m.count \in 0..Len(ws) /\ Gapless(ws, m.count) /\ m.value \in Nat /\ m.form \in Forms

(* Nor does a number with what it counts.                                  *)
LEMMA CountedMayTake ==
    ASSUME NEW ws \in Seq(SpokenWord), NEW kind, NEW form \in Forms
    PROVE  MayTake(ws, Counted(ws, kind, form))
<1> DEFINE n == ParseNumber(ws)
<1>1. /\ n.count \in 0..Len(ws) /\ n.value \in Nat /\ Gapless(ws, n.count)
  BY NumberHasNoPause
<1>2. MayTake(ws, NoMatch)
  BY DEF MayTake, Forms, NoMatch, Gapless
<1>3. CASE n.ok /\ n.count < Len(ws) /\ JoinsNext(ws, n.count) /\ ws[n.count + 1].kind = kind
  <2>1. Counted(ws, kind, form) = [count |-> n.count + 1, form |-> form, value |-> n.value]
    BY <1>3 DEF Counted
  <2>2. ~ws[n.count + 1].gap
    BY <1>3 DEF JoinsNext
  <2>3. n.count + 1 \in 0..Len(ws)
    BY <1>1, <1>3
  <2>4. \A k \in 2..(n.count + 1) : k \in 2..n.count \/ k = n.count + 1
    BY <1>1
  <2>5. Gapless(ws, n.count + 1)
    BY <1>1, <2>2, <2>4, Zenon DEF Gapless
  <2>. QED  BY <1>1, <2>1, <2>3, <2>5 DEF MayTake, Forms
<1>4. CASE ~(n.ok /\ n.count < Len(ws) /\ JoinsNext(ws, n.count) /\ ws[n.count + 1].kind = kind)
  <2>1. Counted(ws, kind, form) = NoMatch
    BY <1>4 DEF Counted
  <2>. QED  BY <1>2, <2>1
<1>. QED  BY <1>3, <1>4

(* The greatest of few numbers is one of them.                             *)
LEMMA MaxOfFew ==
    ASSUME NEW a \in Nat, NEW b \in Nat, NEW T, T \subseteq a..b
    PROVE  Max({a} \cup T) \in {a} \cup T /\ \A x \in {a} \cup T : Max({a} \cup T) >= x
<1> DEFINE U == {a} \cup T
           S == {d \in Nat : (\E x \in U : x + d >= b) => \E x \in U : \A y \in U : x >= y}
<1>1. U \subseteq Nat /\ a \in U /\ \A x \in U : x >= a /\ (x <= b \/ x = a)
  OBVIOUS
<1>2. 0 \in S
  BY <1>1
<1>3. ASSUME NEW d \in Nat, d \in S PROVE d + 1 \in S
  <2> SUFFICES ASSUME NEW x \in U, x + d + 1 >= b PROVE \E z \in U : \A y \in U : z >= y
    OBVIOUS
  <2>1. CASE \E z \in U : z + d >= b
    BY <1>3, <2>1
  <2>2. CASE ~\E z \in U : z + d >= b
    BY <1>1, <2>2
  <2>. QED  BY <2>1, <2>2
<1>4. \E x \in U : \A y \in U : x >= y
  <2>1. \A d \in Nat : d \in S
    <3> HIDE DEF S
    <3>. QED  BY <1>2, <1>3, CountingUp
  <2>2. a + b >= b
    OBVIOUS
  <2>. QED  BY <1>1, <2>1, <2>2
<1> HIDE DEF U
<1>5. Max(U) \in U /\ \A x \in U : Max(U) >= x
  BY <1>4, Zenon DEF Max
<1>. QED  BY <1>5, Zenon DEF U

(* The digits of a telephone number, as matchPhone goes through them.      *)
DigitsFrom(ws, from, k) == \A i \in from..k : /\ ws[i].kind = "unit" /\ ws[i].value <= 9
                                              /\ i > 1 => JoinsNext(ws, i - 1)
PhoneFrom(ws) == IF ws[1].kind = "plus" THEN 2 ELSE 1
PhoneTo(ws, from) == Max({from - 1} \cup {k \in from..Len(ws) : DigitsFrom(ws, from, k)})

(* It takes digit after digit, and all of them or none.                    *)
LEMMA PhoneTakes ==
    ASSUME NEW ws \in Seq(SpokenWord), ws # <<>>
    PROVE  \E from \in {1, 2}, last \in 0..Len(ws) :
               /\ last >= from - 1 /\ (last >= from => DigitsFrom(ws, from, last))
               /\ from = IF ws[1].kind = "plus" THEN 2 ELSE 1
               /\ MatchPhone(ws) = IF last - from + 1 >= MinPhone
                                   THEN [count |-> last, form |-> "phone", value |-> last - from + 1] ELSE NoMatch
<1>1. PICK from : from = PhoneFrom(ws)
  OBVIOUS
<1>2. from \in {1, 2} /\ from - 1 \in Nat /\ Len(ws) \in Nat /\ Len(ws) >= 1 /\ from = IF ws[1].kind = "plus" THEN 2 ELSE 1
  BY <1>1 DEF PhoneFrom
<1>3. PICK T : T = {k \in from..Len(ws) : DigitsFrom(ws, from, k)}
  OBVIOUS
<1>4. PICK last : last = Max({from - 1} \cup T)
  OBVIOUS
<1>5. T \subseteq (from - 1)..Len(ws)
  BY <1>2, <1>3
<1>6. last \in {from - 1} \cup T
  BY <1>2, <1>4, <1>5, MaxOfFew
<1>7. last \in 0..Len(ws) /\ last >= from - 1 /\ (last >= from => DigitsFrom(ws, from, last))
  BY <1>2, <1>3, <1>6
<1>8. MatchPhone(ws) = IF last - from + 1 >= MinPhone
                       THEN [count |-> last, form |-> "phone", value |-> last - from + 1] ELSE NoMatch
  <2>1. MatchPhone(ws) = IF PhoneTo(ws, PhoneFrom(ws)) - PhoneFrom(ws) + 1 >= MinPhone
                         THEN [count |-> PhoneTo(ws, PhoneFrom(ws)), form |-> "phone",
                               value |-> PhoneTo(ws, PhoneFrom(ws)) - PhoneFrom(ws) + 1] ELSE NoMatch
    BY Zenon DEF MatchPhone, PhoneTo, PhoneFrom, DigitsFrom
  <2>2. PhoneTo(ws, from) = last
    BY <1>3, <1>4, Zenon DEF PhoneTo
  <2>. QED  BY <1>1, <2>1, <2>2, Zenon
<1>. QED  BY <1>2, <1>7, <1>8, Zenon

(* A telephone number has no pause in it.                                  *)
LEMMA PhoneMayTake ==
    ASSUME NEW ws \in Seq(SpokenWord), ws # <<>>
    PROVE  MayTake(ws, MatchPhone(ws))
<1>1. PICK from \in {1, 2}, last \in 0..Len(ws) :
               /\ last >= from - 1 /\ (last >= from => DigitsFrom(ws, from, last))
               /\ MatchPhone(ws) = IF last - from + 1 >= MinPhone
                                   THEN [count |-> last, form |-> "phone", value |-> last - from + 1] ELSE NoMatch
  BY PhoneTakes
<1>2. Gapless(ws, last)
  <2> SUFFICES ASSUME NEW k \in 2..last PROVE ~ws[k].gap
    BY DEF Gapless
  <2>1. DigitsFrom(ws, from, last) /\ k \in from..last /\ k > 1 /\ k - 1 + 1 = k
    BY <1>1
  <2>2. JoinsNext(ws, k - 1)
    <3>1. \A i \in from..last : i > 1 => JoinsNext(ws, i - 1)
      BY <2>1, Zenon DEF DigitsFrom
    <3>. QED  BY <2>1, <3>1, Zenon
  <2>. QED  BY <2>1, <2>2 DEF JoinsNext
<1>3. MayTake(ws, NoMatch)
  BY DEF MayTake, Forms, NoMatch, Gapless
<1>4. last - from + 1 \in Nat
  BY <1>1
<1>5. CASE last - from + 1 >= MinPhone
  BY <1>1, <1>2, <1>4, <1>5 DEF MayTake, Forms
<1>6. CASE ~(last - from + 1 >= MinPhone)
  BY <1>1, <1>3, <1>6, Zenon
<1>. QED  BY <1>5, <1>6

(* Nor does a time, which is two numbers and what they count.              *)
LEMMA TimeMayTake ==
    ASSUME NEW ws \in Seq(SpokenWord)
    PROVE  MayTake(ws, MatchTime(ws))
<1>1. PICK h : h = Counted(ws, "hour", "time")
  OBVIOUS
<1>2. h.count \in 0..Len(ws) /\ Gapless(ws, h.count) /\ h.value \in Nat
  BY <1>1, CountedMayTake DEF MayTake, Forms
<1>3. PICK rest : rest = SubSeq(ws, h.count + 1, Len(ws))
  OBVIOUS
<1>4. rest \in Seq(SpokenWord) /\ Len(rest) = Len(ws) - h.count /\ \A i \in 1..Len(rest) : rest[i] = ws[h.count + i]
  BY <1>2, <1>3
<1>5. PICK m : m = Counted(rest, "minute", "time")
  OBVIOUS
<1>6. m.count \in 0..Len(rest) /\ Gapless(rest, m.count) /\ m.value \in Nat
  BY <1>4, <1>5, CountedMayTake DEF MayTake, Forms
<1>7. MatchTime(ws) = IF /\ h.count > 0 /\ h.value <= 23 /\ h.count < Len(ws)
                         /\ JoinsNext(ws, h.count) /\ m.count > 0 /\ m.value <= 59
                      THEN [count |-> h.count + m.count, form |-> "time", value |-> 100 * h.value + m.value] ELSE NoMatch
  BY <1>1, <1>3, <1>5, Zenon DEF MatchTime
<1>8. MayTake(ws, NoMatch)
  BY DEF MayTake, Forms, NoMatch, Gapless
<1>9. ASSUME JoinsNext(ws, h.count) PROVE Gapless(ws, h.count + m.count)
  <2> SUFFICES ASSUME NEW k \in 2..(h.count + m.count) PROVE ~ws[k].gap
    BY DEF Gapless
  <2>1. CASE k \in 2..h.count
    BY <1>2, <2>1 DEF Gapless
  <2>2. CASE k = h.count + 1
    BY <1>9, <2>2 DEF JoinsNext
  <2>3. CASE k > h.count + 1
    <3>1. PICK i \in 2..m.count : k = h.count + i
      <4>1. k - h.count \in 2..m.count /\ k = h.count + (k - h.count)
        BY <1>2, <1>6, <2>3
      <4>. QED  BY <4>1
    <3>2. rest[i] = ws[k]
      BY <1>4, <1>6, <3>1
    <3>. QED  BY <1>6, <3>1, <3>2 DEF Gapless
  <2>4. k \in 2..h.count \/ k = h.count + 1 \/ k > h.count + 1
    <3>1. h.count \in Nat /\ m.count \in Nat
      BY <1>2, <1>6
    <3>2. k \in Nat /\ k >= 2
      BY <3>1
    <3>. QED  BY ONLY <3>1, <3>2
  <2>. QED  BY ONLY <2>1, <2>2, <2>3, <2>4
<1>10. h.count + m.count \in 0..Len(ws) /\ 100 * h.value + m.value \in Nat
  <2>1. Len(ws) \in Nat /\ h.count \in 0..Len(ws) /\ h.value \in Nat /\ m.value \in Nat
    BY <1>2, <1>6
  <2>2. m.count \in 0..(Len(ws) - h.count)
    BY <1>4, <1>6
  <2>3. h.count + m.count \in 0..Len(ws)
    BY ONLY <2>1, <2>2
  <2>4. 100 * h.value + m.value \in Nat
    BY ONLY <2>1
  <2>. QED  BY ONLY <2>3, <2>4
<1>11. CASE /\ h.count > 0 /\ h.value <= 23 /\ h.count < Len(ws)
            /\ JoinsNext(ws, h.count) /\ m.count > 0 /\ m.value <= 59
  BY <1>7, <1>9, <1>10, <1>11 DEF MayTake, Forms
<1>12. CASE ~(/\ h.count > 0 /\ h.value <= 23 /\ h.count < Len(ws)
              /\ JoinsNext(ws, h.count) /\ m.count > 0 /\ m.value <= 59)
  BY <1>7, <1>8, <1>12, Zenon
<1>. QED  BY <1>11, <1>12

(* Nor does a date.                                                        *)
LEMMA DateMayTake ==
    ASSUME NEW ws \in Seq(SpokenWord), ws # <<>>
    PROVE  MayTake(ws, MatchDate(ws))
<1>1. PICK d : d = ParseDay(ws)
  OBVIOUS
<1>2. ws[1] \in SpokenWord /\ Len(ws) \in Nat
  OBVIOUS
<1>3. d.count \in {0, 1, 2} /\ d.value \in Nat /\ (d.count = 2 => Len(ws) > 1 /\ ~ws[2].gap)
  <2>1. CASE ws[1].kind = "ten" /\ ws[1].value \in {20, 30} /\ Len(ws) > 1 /\ JoinsNext(ws, 1)
             /\ ws[2].kind = "ordinal" /\ ws[2].value <= 9
    <3>1. d = [count |-> 2, value |-> ws[1].value + ws[2].value]
      BY <1>1, <2>1, Zenon DEF ParseDay
    <3>2. ~ws[2].gap
      BY <2>1 DEF JoinsNext
    <3>3. ws[1].value \in Nat /\ ws[2].value \in Nat
      <4>1. ws[2] \in SpokenWord
        BY <1>2, <2>1
      <4>. QED  BY <1>2, <4>1 DEF SpokenWord
    <3>. QED  BY <2>1, <3>1, <3>2, <3>3
  <2>2. CASE ~(ws[1].kind = "ten" /\ ws[1].value \in {20, 30} /\ Len(ws) > 1 /\ JoinsNext(ws, 1)
               /\ ws[2].kind = "ordinal" /\ ws[2].value <= 9)
    <3>1. d = IF ws[1].kind = "ordinal" THEN [count |-> 1, value |-> ws[1].value] ELSE [count |-> 0, value |-> 0]
      BY <1>1, <2>2, Zenon DEF ParseDay
    <3>2. ws[1].value \in Nat
      BY <1>2 DEF SpokenWord
    <3>. QED  BY <3>1, <3>2
  <2>. QED  BY <2>1, <2>2
<1>4. MatchDate(ws) = IF d.count > 0 /\ d.count < Len(ws) /\ JoinsNext(ws, d.count) /\ ws[d.count + 1].kind = "month"
                      THEN [count |-> d.count + 1, form |-> "date", value |-> d.value] ELSE NoMatch
  BY <1>1, Zenon DEF MatchDate
<1>5. MayTake(ws, NoMatch)
  BY DEF MayTake, Forms, NoMatch, Gapless
<1>6. CASE d.count > 0 /\ d.count < Len(ws) /\ JoinsNext(ws, d.count) /\ ws[d.count + 1].kind = "month"
  <2>1. ~ws[d.count + 1].gap
    BY <1>6 DEF JoinsNext
  <2>2. Gapless(ws, d.count + 1)
    BY <1>3, <1>6, <2>1 DEF Gapless
  <2>3. d.count + 1 \in 0..Len(ws)
    BY <1>2, <1>3, <1>6
  <2>. QED  BY <1>3, <1>4, <1>6, <2>2, <2>3 DEF MayTake, Forms
<1>7. CASE ~(d.count > 0 /\ d.count < Len(ws) /\ JoinsNext(ws, d.count) /\ ws[d.count + 1].kind = "month")
  BY <1>4, <1>5, <1>7, Zenon
<1>. QED  BY <1>6, <1>7

(* Nor does a number alone.                                                *)
LEMMA PlainMayTake ==
    ASSUME NEW ws \in Seq(SpokenWord)
    PROVE  MayTake(ws, MatchPlain(ws))
<1>1. PICK n : n = ParseNumber(ws)
  OBVIOUS
<1>2. n.count \in 0..Len(ws) /\ n.value \in Nat /\ Gapless(ws, n.count)
  BY <1>1, NumberHasNoPause
<1>3. MatchPlain(ws) = IF n.ok /\ ~(n.count = 1 /\ n.value < 10)
                       THEN [count |-> n.count, form |-> "number", value |-> n.value] ELSE NoMatch
  BY <1>1, Zenon DEF MatchPlain
<1>4. MayTake(ws, NoMatch)
  BY DEF MayTake, Forms, NoMatch, Gapless
<1>5. CASE n.ok /\ ~(n.count = 1 /\ n.value < 10)
  BY <1>2, <1>3, <1>5 DEF MayTake, Forms
<1>6. CASE ~(n.ok /\ ~(n.count = 1 /\ n.value < 10))
  BY <1>3, <1>4, <1>6, Zenon
<1>. QED  BY <1>5, <1>6

(* The first rule that takes something is the one that is followed.        *)
Rules(ws) == <<MatchPhone(ws), MatchTime(ws), MatchDate(ws), Counted(ws, "money", "money"),
               Counted(ws, "percent", "percent"), MatchPlain(ws)>>
Hits(rules) == {i \in DOMAIN rules : rules[i].count > 0}

(* The first rule that takes something is the one that is followed.        *)
LEMMA FirstHit ==
    ASSUME NEW ws
    PROVE  \/ /\ Match(ws) = NoMatch
              /\ \A i \in 1..6 : ~(Rules(ws)[i].count > 0)
           \/ \E i \in 1..6 : /\ Match(ws) = Rules(ws)[i] /\ Rules(ws)[i].count > 0
                              /\ \A k \in 1..6 : Rules(ws)[k].count > 0 => i <= k
<1>1. PICK rules : rules = Rules(ws)
  OBVIOUS
<1>2. DOMAIN rules = 1..6
  BY <1>1 DEF Rules
<1>3. PICK hits : hits = Hits(rules)
  OBVIOUS
<1>4. hits = {i \in 1..6 : rules[i].count > 0}
  BY <1>2, <1>3 DEF Hits
<1>5. Match(ws) = IF hits = {} THEN NoMatch ELSE rules[Min(hits)]
  BY <1>1, <1>3, Zenon DEF Match, Rules, Hits
<1>6. CASE hits = {}
  BY <1>1, <1>4, <1>5, <1>6
<1>7. CASE hits # {}
  <2>1. \E x \in hits : \A y \in hits : x <= y
    BY <1>4, <1>7
  <2>2. Min(hits) \in hits /\ \A y \in hits : Min(hits) <= y
    BY <2>1, Zenon DEF Min
  <2>. QED  BY <1>1, <1>4, <1>5, <1>7, <2>2
<1>. QED  BY <1>6, <1>7

(* Whichever rule is followed, it takes no pause.                          *)
LEMMA MatchMayTake ==
    ASSUME NEW ws \in Seq(SpokenWord), ws # <<>>
    PROVE  MayTake(ws, Match(ws))
<1>1. \A i \in 1..6 : MayTake(ws, Rules(ws)[i])
  <2>1. /\ Rules(ws)[1] = MatchPhone(ws) /\ Rules(ws)[2] = MatchTime(ws) /\ Rules(ws)[3] = MatchDate(ws)
        /\ Rules(ws)[4] = Counted(ws, "money", "money") /\ Rules(ws)[5] = Counted(ws, "percent", "percent")
        /\ Rules(ws)[6] = MatchPlain(ws)
    BY DEF Rules
  <2>2. \A i \in 1..6 : i \in {1, 2, 3, 4, 5, 6}
    OBVIOUS
  <2>. QED  BY <2>1, <2>2, PhoneMayTake, TimeMayTake, DateMayTake, PlainMayTake, CountedMayTake, Zenon DEF Forms
<1>2. MayTake(ws, NoMatch)
  BY DEF MayTake, Forms, NoMatch, Gapless
<1>3. Match(ws) = NoMatch \/ \E i \in 1..6 : Match(ws) = Rules(ws)[i]
  BY FirstHit, Zenon
<1>. QED  BY <1>1, <1>2, <1>3, Zenon

-----------------------------------------------------------------------------
(* The rewriting.                                                          *)

(* What a sequence holds.                                                  *)
LEMMA MemberOfSeq ==
    ASSUME NEW S, NEW s \in Seq(S), NEW i \in 1..Len(s)
    PROVE  s[i] \in S
  OBVIOUS

(* A word is passed over when no rule takes it.                            *)
LEMMA OneOrMore ==
    ASSUME NEW x \in Nat
    PROVE  Max({1, x}) = IF x >= 1 THEN x ELSE 1
<1>1. \E z \in {1, x} : \A y \in {1, x} : z >= y
  OBVIOUS
<1>2. Max({1, x}) \in {1, x} /\ \A y \in {1, x} : Max({1, x}) >= y
  BY <1>1, Zenon DEF Max
<1>. QED  BY <1>2

(* What Rewrite notes of a rule.                                           *)
Taken(at, m) == [at |-> at, count |-> Max({1, m.count}), form |-> m.form, value |-> m.value]

(* What is written is of the words that are said, the first of it is what  *)
(* the rules answered for all of them, and no pause is in any of it.       *)
ItnInvariant ==
    /\ said \in SpokenRuns
    /\ written \in Seq([at : Nat, count : Nat \ {0}, form : Forms, value : Nat])
    /\ NoPauseInside
    /\ written # <<>> => written[1] = Taken(1, Match(said)) /\ said # <<>>
    /\ Len(written) > 1 => written[1].count < Len(said)

(* Before anything is rewritten.                                           *)
LEMMA ItnInvariantStarts == ItnInit => ItnInvariant
<1> SUFFICES ASSUME ItnInit PROVE ItnInvariant
  OBVIOUS
<1>1. said \in Seq(SpokenWord)
  BY SpokenAssumption DEF ItnInit
<1>2. written = <<>> /\ said \in SpokenRuns
  BY DEF ItnInit
<1>. QED  BY <1>1, <1>2 DEF ItnInvariant, NoPauseInside, Done

(* Whatever is rewritten next.                                             *)
LEMMA ItnInvariantStays == ItnInvariant /\ [ItnNext]_itnvars => ItnInvariant'
<1> SUFFICES ASSUME ItnInvariant, [ItnNext]_itnvars PROVE ItnInvariant'
  OBVIOUS
<1>1. CASE UNCHANGED itnvars
  BY <1>1 DEF ItnInvariant, itnvars, NoPauseInside, Done
<1>2. CASE Rewrites
  <2>1. said \in Seq(SpokenWord) /\ Len(said) \in Nat
    BY SpokenAssumption DEF ItnInvariant
  <2> DEFINE Kind == [at : Nat, count : Nat \ {0}, form : Forms, value : Nat]
  <2>2. written \in Seq(Kind) /\ NoPauseInside
    BY DEF ItnInvariant
  <2>3. PICK d : d = Done
    OBVIOUS
  <2>4. d \in Nat /\ d < Len(said) /\ (written = <<>> => d = 0)
        /\ (written # <<>> => d = written[Len(written)].at + written[Len(written)].count - 1)
    <3>1. d < Len(said) /\ (written = <<>> => d = 0)
      BY <1>2, <2>3 DEF Rewrites, Done
    <3>2. ASSUME written # <<>> PROVE d = written[Len(written)].at + written[Len(written)].count - 1
      BY <2>3, <3>2 DEF Done, Last
    <3>3. d \in Nat
      <4>1. CASE written # <<>>
        <5>1. written[Len(written)] \in Kind
          <6>1. Len(written) \in 1..Len(written)
            BY <2>2, <4>1
          <6>. QED  BY <2>2, <6>1, MemberOfSeq, Zenon
        <5>. QED  BY <3>2, <4>1, <5>1
      <4>. QED  BY <3>1, <4>1
    <3>. QED  BY <3>1, <3>2, <3>3
  <2>5. PICK rest : rest = SubSeq(said, d + 1, Len(said))
    OBVIOUS
  <2>6. rest \in Seq(SpokenWord) /\ Len(rest) = Len(said) - d /\ rest # <<>> /\ \A i \in 1..Len(rest) : rest[i] = said[d + i]
    <3>1. rest \in Seq(SpokenWord)
      BY <2>1, <2>4, <2>5
    <3>2. Len(rest) = Len(said) - d
      BY <2>1, <2>4, <2>5
    <3>3. \A i \in 1..Len(rest) : rest[i] = said[d + i]
      BY <2>1, <2>4, <2>5
    <3>. QED  BY <2>1, <2>4, <3>1, <3>2, <3>3
  <2>7. PICK m : m = Match(rest)
    OBVIOUS
  <2>8. m.count \in 0..Len(rest) /\ Gapless(rest, m.count) /\ m.value \in Nat /\ m.form \in Forms
    BY <2>6, <2>7, MatchMayTake DEF MayTake
  <2>9. PICK c : c = Max({1, m.count})
    OBVIOUS
  <2>10. c \in 1..Len(rest) /\ (m.count >= 1 => c = m.count) /\ (m.count = 0 => c = 1)
    BY <2>6, <2>8, <2>9, OneOrMore
  <2>11. PICK r : r = [at |-> d + 1, count |-> c, form |-> m.form, value |-> m.value]
    OBVIOUS
  <2>12. written' = Append(written, r) /\ said' = said
    BY <1>2, <2>3, <2>5, <2>7, <2>9, <2>11, Zenon DEF Rewrites
  <2>13. r \in Kind /\ r.at = d + 1 /\ r.count = c
    BY <2>4, <2>8, <2>10, <2>11
  <2> HIDE DEF Kind
  <2>14. written' \in Seq(Kind) /\ Len(written') = Len(written) + 1 /\ written'[Len(written) + 1] = r
         /\ \A i \in 1..Len(written) : written'[i] = written[i]
    BY <2>2, <2>12, <2>13
  <2>15. Done' = d + c
    <3>1. written' # <<>> /\ Last(written)' = r
      BY <2>14 DEF Last
    <3>. QED  BY <2>4, <2>10, <2>13, <3>1 DEF Done
  <2>16. \A k \in (d + 2)..(d + c) : ~said[k].gap
    <3> SUFFICES ASSUME NEW k \in (d + 2)..(d + c) PROVE ~said[k].gap
      OBVIOUS
    <3>1. PICK i \in 2..m.count : k = d + i
      <4>1. k - d \in 2..m.count /\ k = d + (k - d)
        BY <2>4, <2>8, <2>10
      <4>. QED  BY <4>1
    <3>2. i \in 1..Len(rest)
      BY <2>8, <3>1
    <3>. QED  BY <2>6, <2>8, <3>1, <3>2 DEF Gapless
  <2>17. NoPauseInside'
    <3>1. DOMAIN written' = 1..(Len(written) + 1) /\ DOMAIN written = 1..Len(written)
      BY <2>2, <2>14
    <3> SUFFICES ASSUME NEW i \in 1..(Len(written) + 1),
                        NEW k \in (written'[i].at + 1)..(written'[i].at + written'[i].count - 1)
                 PROVE  ~said[k].gap
      BY <2>4, <2>6, <2>10, <2>12, <2>15, <3>1 DEF NoPauseInside
    <3>2. CASE i \in 1..Len(written)
      <4>1. written'[i] = written[i]
        BY <2>14, <3>2
      <4>. QED  BY <2>2, <3>1, <3>2, <4>1 DEF NoPauseInside
    <3>3. CASE i = Len(written) + 1
      <4>1. written'[i].at = d + 1 /\ written'[i].count = c
        BY <2>13, <2>14, <3>3
      <4>2. k \in (d + 2)..(d + c)
        BY <2>4, <2>10, <4>1
      <4>. QED  BY <2>16, <4>2
    <3>. QED  BY <2>2, <3>2, <3>3
  <2>18. Len(written) \in Nat /\ (written = <<>> <=> Len(written) = 0)
    BY <2>2
  <2>19. CASE written = <<>>
    <3>1. d = 0 /\ rest = said
      BY <2>1, <2>4, <2>5, <2>19
    <3>2. written'[1] = Taken(1, Match(said)) /\ said # <<>>
      BY <2>6, <2>7, <2>9, <2>11, <2>14, <2>18, <2>19, <3>1 DEF Taken
    <3>3. Len(written') = 1
      BY <2>14, <2>18, <2>19
    <3>. QED  BY <2>12, <2>14, <2>17, <3>2, <3>3 DEF ItnInvariant, Kind
  <2>20. CASE written # <<>>
    <3>1. written'[1] = written[1] /\ written[1] = Taken(1, Match(said)) /\ said # <<>>
      BY <2>14, <2>18, <2>20 DEF ItnInvariant
    <3>2. written[1].count < Len(said)
      <4>1. CASE Len(written) > 1
        BY <4>1 DEF ItnInvariant
      <4>2. CASE Len(written) = 1
        <5>1. written[1].at = 1
          BY <3>1 DEF Taken
        <5>2. written[1].count \in Nat
          <6>1. written[1] \in Kind
            BY <2>2, <4>2
          <6>. QED  BY <6>1 DEF Kind
        <5>. QED  BY <2>4, <2>20, <4>2, <5>1, <5>2
      <4>. QED  BY <2>18, <2>20, <4>1, <4>2
    <3>. QED  BY <2>12, <2>14, <2>17, <3>1, <3>2 DEF ItnInvariant, Kind
  <2>. QED  BY <2>19, <2>20
<1>. QED  BY <1>1, <1>2 DEF ItnNext

(* What parseNumber has read: the first p words, T in thousands and more,  *)
(* and G since.                                                            *)
ReadsOneByOne(n, ws) == n[0] = NothingRead /\ \A i \in 1..Len(ws) : n[i] = ParseStep(n[i - 1], ws, i)
ReadTo(n, p, T, G) == n[p] \in NumberSoFar /\ n[p].total = T /\ n[p].group = G /\ n[p].count = p /\ ~n[p].over /\ ~n[p].refused

(* A scale closes its group; a scale alone is one of it.                   *)
Scaled(T, G, v) == T + (IF G = 0 THEN 1 ELSE G) * v

(* What the next word does to what has been read.                          *)
LEMMA ReadsOn ==
    ASSUME NEW ws \in Seq(SpokenWord), NEW n, ReadsOneByOne(n, ws), NEW p \in Nat, p + 1 <= Len(ws),
           NEW T, NEW G, ReadTo(n, p, T, G)
    PROVE  /\ ~IsNumeral(ws[p + 1]) => n[p + 1] = [n[p] EXCEPT !.over = TRUE]
           /\ ~ws[p + 1].gap /\ ~ws[p + 1].mark =>
                     /\ ws[p + 1].kind \in {"hundred", "ten"} => ReadTo(n, p + 1, T, G + ws[p + 1].value)
                     /\ ws[p + 1].kind = "unit" /\ G % 10 = 0 => ReadTo(n, p + 1, T, G + ws[p + 1].value)
                     /\ ws[p + 1].kind = "scale" =>
                          ReadTo(n, p + 1, Scaled(T, G, ws[p + 1].value), 0)
<1> DEFINE w == ws[p + 1]
<1>1. p + 1 \in 1..Len(ws) /\ p + 1 - 1 = p
  OBVIOUS
<1>2. n[p + 1] = ParseStep(n[p], ws, p + 1)
  BY <1>1 DEF ReadsOneByOne
<1>3. n[p] \in NumberSoFar /\ n[p].total = T /\ n[p].group = G /\ n[p].count = p /\ ~n[p].over /\ ~n[p].refused
  BY DEF ReadTo
<1>4. n[p + 1] \in NumberSoFar
  BY <1>1, <1>2, <1>3, ParseStepIs
<1>5. ~IsNumeral(w) => n[p + 1] = [n[p] EXCEPT !.over = TRUE]
  BY <1>2, Zenon DEF ParseStep
<1>6. ASSUME ~w.gap, ~w.mark, IsNumeral(w), ~(w.kind = "unit" /\ n[p].saw /\ n[p].group % 10 # 0)
      PROVE  n[p + 1] = [Extend(n[p], w) EXCEPT !.count = p + 1, !.over = w.mark]
  BY <1>2, <1>3, <1>6, Zenon DEF ParseStep
<1>7. ASSUME ~w.gap, ~w.mark, w.kind \in {"hundred", "ten"} PROVE ReadTo(n, p + 1, T, G + w.value)
  <2>1. Extend(n[p], w) = [n[p] EXCEPT !.group = @ + w.value, !.saw = TRUE]
    BY <1>7 DEF Extend
  <2>2. n[p + 1] = [Extend(n[p], w) EXCEPT !.count = p + 1, !.over = w.mark]
    BY <1>6, <1>7 DEF IsNumeral
  <2>. QED  BY <1>3, <1>4, <1>7, <2>1, <2>2 DEF ReadTo, NumberSoFar
<1>8. ASSUME ~w.gap, ~w.mark, w.kind = "unit", G % 10 = 0 PROVE ReadTo(n, p + 1, T, G + w.value)
  <2>1. Extend(n[p], w) = [n[p] EXCEPT !.group = @ + w.value, !.saw = TRUE]
    BY <1>8 DEF Extend
  <2>2. n[p + 1] = [Extend(n[p], w) EXCEPT !.count = p + 1, !.over = w.mark]
    BY <1>3, <1>6, <1>8 DEF IsNumeral
  <2>. QED  BY <1>3, <1>4, <1>8, <2>1, <2>2 DEF ReadTo, NumberSoFar
<1>9. ASSUME ~w.gap, ~w.mark, w.kind = "scale" PROVE ReadTo(n, p + 1, Scaled(T, G, w.value), 0)
  <2>1. Extend(n[p], w) = [n[p] EXCEPT !.total = @ + (IF n[p].group = 0 THEN 1 ELSE n[p].group) * w.value,
                                       !.group = 0, !.saw = FALSE]
    BY <1>9 DEF Extend
  <2>2. n[p + 1] = [Extend(n[p], w) EXCEPT !.count = p + 1, !.over = w.mark]
    BY <1>6, <1>9 DEF IsNumeral
  <2>. QED  BY <1>3, <1>4, <1>9, <2>1, <2>2 DEF ReadTo, NumberSoFar, Scaled
<1>. QED  BY <1>5, <1>7, <1>8, <1>9, Zenon

(* From p on, the words of ws are those of a.                              *)
NumberWord == [kind : {"hundred", "ten", "unit", "scale", "money"}, value : Nat]
Says(ws, p, a) == \A k \in 1..Len(a) : /\ p + k \in 1..Len(ws)
                                       /\ ws[p + k].kind = a[k].kind /\ ws[p + k].value = a[k].value
                                       /\ ~ws[p + k].gap /\ ~ws[p + k].mark

(* Two parts of a number are said one after the other.                     *)
LEMMA SaysOneAfterTheOther ==
    ASSUME NEW ws \in Seq(SpokenWord), NEW p \in Nat, NEW a \in Seq(NumberWord), NEW b \in Seq(NumberWord), Says(ws, p, a \o b)
    PROVE  Says(ws, p, a) /\ Says(ws, p + Len(a), b) /\ Len(a \o b) = Len(a) + Len(b)
<1>1. Len(a \o b) = Len(a) + Len(b) /\ Len(a) \in Nat /\ Len(b) \in Nat
  OBVIOUS
<1>2. \A k \in 1..Len(a) : (a \o b)[k] = a[k] /\ k \in 1..Len(a \o b)
  BY <1>1
<1>3. \A k \in 1..Len(b) : (a \o b)[Len(a) + k] = b[k] /\ Len(a) + k \in 1..Len(a \o b) /\ p + (Len(a) + k) = (p + Len(a)) + k
  BY <1>1
<1>4. Says(ws, p, a)
  BY <1>2 DEF Says
<1>5. Says(ws, p + Len(a), b)
  <2> SUFFICES ASSUME NEW k \in 1..Len(b)
               PROVE  /\ (p + Len(a)) + k \in 1..Len(ws)
                      /\ ws[(p + Len(a)) + k].kind = b[k].kind /\ ws[(p + Len(a)) + k].value = b[k].value
                      /\ ~ws[(p + Len(a)) + k].gap /\ ~ws[(p + Len(a)) + k].mark
    BY DEF Says
  <2>1. PICK j : j = Len(a) + k
    OBVIOUS
  <2>2. j \in 1..Len(a \o b) /\ (a \o b)[j] = b[k] /\ p + j = (p + Len(a)) + k
    BY <1>3, <2>1
  <2>. QED  BY <2>2 DEF Says
<1>. QED  BY <1>1, <1>4, <1>5

(* And three.                                                              *)
LEMMA SaysThree ==
    ASSUME NEW ws \in Seq(SpokenWord), NEW p \in Nat, NEW a \in Seq(NumberWord), NEW b \in Seq(NumberWord),
           NEW c \in Seq(NumberWord), Says(ws, p, (a \o b) \o c)
    PROVE  /\ Says(ws, p, a) /\ Says(ws, p + Len(a), b) /\ Says(ws, p + Len(a) + Len(b), c)
           /\ Len((a \o b) \o c) = Len(a) + Len(b) + Len(c)
<1>1. PICK d \in Seq(NumberWord) : d = a \o b
  <2>1. a \o b \in Seq(NumberWord)
    OBVIOUS
  <2>. QED  BY <2>1, Zenon
<1>2. Says(ws, p, d \o c)
  BY <1>1
<1>3. Says(ws, p, d) /\ Says(ws, p + Len(d), c) /\ Len(d \o c) = Len(d) + Len(c)
  BY <1>2, SaysOneAfterTheOther
<1>4. Says(ws, p, a) /\ Says(ws, p + Len(a), b) /\ Len(d) = Len(a) + Len(b)
  BY <1>1, <1>3, SaysOneAfterTheOther
<1>5. p + Len(d) = p + Len(a) + Len(b)
  BY <1>4
<1>. QED  BY <1>1, <1>3, <1>4, <1>5

(* What the words of two parts are.                                        *)
LEMMA OneAfterTheOther ==
    ASSUME NEW a \in Seq(NumberWord), NEW b \in Seq(NumberWord), NEW c, c = a \o b
    PROVE  /\ c \in Seq(NumberWord) /\ Len(c) = Len(a) + Len(b)
           /\ \A k \in 1..Len(a) : c[k] = a[k]
           /\ \A k \in 1..Len(b) : c[Len(a) + k] = b[k]
  OBVIOUS

(* The three parts of a group.                                             *)
Hundreds(x) == IF x \div 100 > 0 THEN <<[kind |-> "hundred", value |-> 100 * (x \div 100)]>> ELSE <<>>
Tens(x) == IF x % 100 >= 20 THEN <<[kind |-> "ten", value |-> 10 * ((x % 100) \div 10)]>> ELSE <<>>
UnitOf(x) == IF x % 100 >= 20 THEN x % 10 ELSE x % 100
UnitWords(x) == IF UnitOf(x) > 0 THEN <<[kind |-> "unit", value |-> UnitOf(x)]>> ELSE <<>>

(* A group is its hundreds, its tens and its units.                        *)
LEMMA GroupParts == \A x : Group(x) = (Hundreds(x) \o Tens(x)) \o UnitWords(x)
  BY Zenon DEF Group, Hundreds, Tens, UnitWords, UnitOf

(* Numbers by their digits.                                                *)
LEMMA ByHundreds ==
    ASSUME NEW x \in Nat
    PROVE  \E h \in Nat, r \in Nat : r < 100 /\ x = 100 * h + r /\ x \div 100 = h /\ x % 100 = r
<1>1. PICK h \in Nat : h = x \div 100
  OBVIOUS
<1>2. 100 * h <= x /\ x < 100 * h + 100
  BY <1>1
<1>3. PICK r \in Nat : r < 100 /\ x = 100 * h + r
  <2>1. x - 100 * h \in Nat /\ x - 100 * h < 100 /\ x = 100 * h + (x - 100 * h)
    BY <1>2
  <2>. QED  BY <2>1
<1>4. x % 100 = r
  BY <1>3
<1>. QED  BY <1>1, <1>3, <1>4

(* And by their last digit.                                                *)
LEMMA ByTens ==
    ASSUME NEW x \in Nat
    PROVE  \E t \in Nat, u \in Nat : u < 10 /\ x = 10 * t + u /\ x \div 10 = t /\ x % 10 = u
<1>1. PICK t \in Nat : t = x \div 10
  OBVIOUS
<1>2. 10 * t <= x /\ x < 10 * t + 10
  BY <1>1
<1>3. PICK u \in Nat : u < 10 /\ x = 10 * t + u
  <2>1. x - 10 * t \in Nat /\ x - 10 * t < 10 /\ x = 10 * t + (x - 10 * t)
    BY <1>2
  <2>. QED  BY <2>1
<1>4. x % 10 = u
  BY <1>3
<1>. QED  BY <1>1, <1>3, <1>4

(* One word is a sequence of words.                                        *)
LEMMA OneWord ==
    ASSUME NEW kind \in {"hundred", "ten", "unit", "scale", "money"}, NEW v \in Nat,
           NEW a, a = <<[kind |-> kind, value |-> v]>>
    PROVE  a \in Seq(NumberWord) /\ Len(a) = 1 /\ a[1].kind = kind /\ a[1].value = v
<1>1. PICK w : w = [kind |-> kind, value |-> v]
  OBVIOUS
<1>2. w \in NumberWord /\ w.kind = kind /\ w.value = v
  BY <1>1 DEF NumberWord
<1>3. a = <<w>>
  BY <1>1
<1>. QED  BY <1>2, <1>3

(* So is none.                                                             *)
LEMMA NoWord == <<>> \in Seq(NumberWord) /\ Len(<<>>) = 0
  OBVIOUS

(* A number below a thousand adds itself to the group that is open, one of *)
(* the parts after the other.                                              *)
LEMMA GroupIsRead ==
    ASSUME NEW ws \in Seq(SpokenWord), NEW n, ReadsOneByOne(n, ws), NEW p \in Nat, NEW T,
           ReadTo(n, p, T, 0), NEW x \in Nat, x < 1000, Says(ws, p, Group(x))
    PROVE  ReadTo(n, p + Len(Group(x)), T, x)
<1>1. PICK h \in 0..9, r \in 0..99 : x \div 100 = h /\ x % 100 = r /\ x = 100 * h + r
  <2>1. PICK h \in Nat, r \in Nat : r < 100 /\ x = 100 * h + r /\ x \div 100 = h /\ x % 100 = r
    BY ByHundreds
  <2>2. h \in 0..9 /\ r \in 0..99
    BY <2>1
  <2>. QED  BY <2>1, <2>2, Zenon
<1>2. PICK t \in 0..9, u \in 0..9 : r \div 10 = t /\ r % 10 = u /\ r = 10 * t + u
  <2>1. PICK t \in Nat, u \in Nat : u < 10 /\ r = 10 * t + u /\ r \div 10 = t /\ r % 10 = u
    BY ByTens
  <2>2. t \in 0..9 /\ u \in 0..9
    BY <2>1
  <2>. QED  BY <2>1, <2>2, Zenon
<1>3. x % 10 = u /\ (100 * h) % 10 = 0 /\ (100 * h + 10 * t) % 10 = 0
  BY <1>1, <1>2
<1>4. PICK a : a = Hundreds(x)
  OBVIOUS
<1>5. PICK b : b = Tens(x)
  OBVIOUS
<1>6. PICK c : c = UnitWords(x)
  OBVIOUS
<1>7. \/ h > 0 /\ a = <<[kind |-> "hundred", value |-> 100 * h]>>
      \/ h = 0 /\ a = <<>>
  BY <1>1, <1>4 DEF Hundreds
<1>8. \/ r >= 20 /\ b = <<[kind |-> "ten", value |-> 10 * t]>>
      \/ r < 20 /\ b = <<>>
  BY <1>1, <1>2, <1>5 DEF Tens
<1>9. PICK v \in Nat : v = IF r >= 20 THEN u ELSE r
  OBVIOUS
<1>10. \/ v > 0 /\ c = <<[kind |-> "unit", value |-> v]>>
       \/ v = 0 /\ c = <<>>
  BY <1>1, <1>3, <1>6, <1>9 DEF UnitWords, UnitOf
<1>11. a \in Seq(NumberWord) /\ Len(a) \in Nat
  <2>1. 100 * h \in Nat
    OBVIOUS
  <2>2. CASE a = <<[kind |-> "hundred", value |-> 100 * h]>>
    <3>1. a \in Seq(NumberWord) /\ Len(a) = 1
      BY <2>1, <2>2, OneWord
    <3>. QED  BY <3>1
  <2>3. CASE a = <<>>
    BY <2>3, NoWord, Zenon
  <2>. QED  BY <1>7, <2>2, <2>3, Zenon
<1>12. b \in Seq(NumberWord) /\ Len(b) \in Nat
  <2>1. 10 * t \in Nat
    OBVIOUS
  <2>2. CASE b = <<[kind |-> "ten", value |-> 10 * t]>>
    <3>1. b \in Seq(NumberWord) /\ Len(b) = 1
      BY <2>1, <2>2, OneWord
    <3>. QED  BY <3>1
  <2>3. CASE b = <<>>
    BY <2>3, NoWord, Zenon
  <2>. QED  BY <1>8, <2>2, <2>3, Zenon
<1>13. c \in Seq(NumberWord) /\ Len(c) \in Nat
  <2>1. v \in Nat
    OBVIOUS
  <2>2. CASE c = <<[kind |-> "unit", value |-> v]>>
    <3>1. c \in Seq(NumberWord) /\ Len(c) = 1
      BY <2>1, <2>2, OneWord
    <3>. QED  BY <3>1
  <2>3. CASE c = <<>>
    BY <2>3, NoWord, Zenon
  <2>. QED  BY <1>10, <2>2, <2>3, Zenon
<1>14. Group(x) = (a \o b) \o c /\ a \o b \in Seq(NumberWord)
  <2>1. a \o b \in Seq(NumberWord)
    BY <1>11, <1>12
  <2>2. Group(x) = (Hundreds(x) \o Tens(x)) \o UnitWords(x)
    BY GroupParts, Zenon
  <2>. QED  BY <1>4, <1>5, <1>6, <2>1, <2>2, Zenon
<1>15. /\ Says(ws, p, a) /\ Says(ws, p + Len(a), b) /\ Says(ws, p + Len(a) + Len(b), c)
       /\ Len(Group(x)) = Len(a) + Len(b) + Len(c)
  <2>1. Says(ws, p, (a \o b) \o c)
    BY <1>14, Zenon
  <2>2. /\ Says(ws, p, a) /\ Says(ws, p + Len(a), b) /\ Says(ws, p + Len(a) + Len(b), c)
        /\ Len((a \o b) \o c) = Len(a) + Len(b) + Len(c)
    BY <1>11, <1>12, <1>13, <2>1, SaysThree
  <2>. QED  BY <1>14, <2>2, Zenon
<1>16. ReadTo(n, p + Len(a), T, 100 * h)
  <2>1. CASE h > 0
    <3>1. Len(a) = 1 /\ a[1].kind = "hundred" /\ a[1].value = 100 * h
      BY <1>7, <2>1
    <3>2. p + 1 <= Len(ws) /\ ws[p + 1].kind = "hundred" /\ ws[p + 1].value = 100 * h /\ ~ws[p + 1].gap /\ ~ws[p + 1].mark
      BY <1>15, <3>1 DEF Says
    <3>3. ReadTo(n, p + 1, T, 0 + 100 * h)
      BY <3>2, ReadsOn, ZenonT(60)
    <3>. QED  BY <3>1, <3>3
  <2>2. CASE h = 0
    BY <1>7, <2>2
  <2>. QED  BY <2>1, <2>2
<1>17. ReadTo(n, p + Len(a) + Len(b), T, IF r >= 20 THEN 100 * h + 10 * t ELSE 100 * h)
  <2>1. CASE r >= 20
    <3>1. Len(b) = 1 /\ b[1].kind = "ten" /\ b[1].value = 10 * t
      BY <1>8, <2>1
    <3>2. PICK q \in Nat : q = p + Len(a)
      BY <1>11
    <3>3. q + 1 <= Len(ws) /\ ws[q + 1].kind = "ten" /\ ws[q + 1].value = 10 * t /\ ~ws[q + 1].gap /\ ~ws[q + 1].mark
      BY <1>15, <3>1, <3>2 DEF Says
    <3>4. ReadTo(n, q + 1, T, 100 * h + 10 * t)
      BY <1>16, <3>2, <3>3, ReadsOn, ZenonT(60)
    <3>. QED  BY <2>1, <3>1, <3>2, <3>4
  <2>2. CASE ~(r >= 20)
    <3>1. p + Len(a) + Len(b) = p + Len(a)
      BY <1>8, <1>11, <2>2
    <3>. QED  BY <1>16, <2>2, <3>1
  <2>. QED  BY <2>1, <2>2
<1>18. PICK q \in Nat : q = p + Len(a) + Len(b)
  BY <1>11, <1>12
<1>19. PICK g : g = IF r >= 20 THEN 100 * h + 10 * t ELSE 100 * h
  OBVIOUS
<1>20. g \in Nat /\ g % 10 = 0 /\ g + v = x
  BY <1>1, <1>2, <1>3, <1>9, <1>19
<1>21. CASE v > 0
  <2>1. Len(c) = 1 /\ c[1].kind = "unit" /\ c[1].value = v
    BY <1>10, <1>21
  <2>2. q + 1 <= Len(ws) /\ ws[q + 1].kind = "unit" /\ ws[q + 1].value = v /\ ~ws[q + 1].gap /\ ~ws[q + 1].mark
    BY <1>15, <1>18, <2>1 DEF Says
  <2>3. ReadTo(n, q + 1, T, g + v)
    BY <1>17, <1>18, <1>19, <1>20, <2>2, ReadsOn, ZenonT(60)
  <2>. QED  BY <1>15, <1>18, <1>20, <2>1, <2>3
<1>22. CASE v = 0
  <2>1. p + Len(Group(x)) = q /\ g = x
    BY <1>10, <1>11, <1>12, <1>15, <1>18, <1>20, <1>22
  <2>. QED  BY <1>17, <1>18, <1>19, <2>1
<1>. QED  BY <1>9, <1>21, <1>22

(* It is said in words of numbers, and a unit ends it.                     *)
LEMMA GroupIsSaid ==
    ASSUME NEW x \in Nat, x < 1000
    PROVE  /\ Group(x) \in Seq(NumberWord) /\ (x > 0 => Len(Group(x)) > 0)
           /\ \A k \in 1..Len(Group(x)) : k < Len(Group(x)) => Group(x)[k].kind # "unit"
<1>1. PICK h \in Nat, r \in Nat : r < 100 /\ x = 100 * h + r /\ x \div 100 = h /\ x % 100 = r
  BY ByHundreds
<1>2. PICK t \in Nat, u \in Nat : u < 10 /\ x = 10 * t + u /\ x \div 10 = t /\ x % 10 = u
  BY ByTens
<1>3. PICK s \in Nat : s = r \div 10
  BY <1>1
<1>4. PICK a : a = Hundreds(x)
  OBVIOUS
<1>5. PICK b : b = Tens(x)
  OBVIOUS
<1>6. PICK c : c = UnitWords(x)
  OBVIOUS
<1>7. \/ h > 0 /\ a = <<[kind |-> "hundred", value |-> 100 * h]>>
      \/ h = 0 /\ a = <<>>
  BY <1>1, <1>4 DEF Hundreds
<1>8. \/ r >= 20 /\ b = <<[kind |-> "ten", value |-> 10 * s]>>
      \/ r < 20 /\ b = <<>>
  BY <1>1, <1>3, <1>5 DEF Tens
<1>9. PICK v \in Nat : v = IF r >= 20 THEN u ELSE r
  BY <1>1, <1>2
<1>10. \/ v > 0 /\ c = <<[kind |-> "unit", value |-> v]>>
       \/ v = 0 /\ c = <<>>
  BY <1>1, <1>2, <1>6, <1>9 DEF UnitWords, UnitOf
<1>11. a \in Seq(NumberWord) /\ Len(a) <= 1 /\ (h > 0 => Len(a) > 0) /\ \A k \in 1..Len(a) : a[k].kind # "unit"
  <2>1. 100 * h \in Nat
    OBVIOUS
  <2>2. CASE h > 0 /\ a = <<[kind |-> "hundred", value |-> 100 * h]>>
    <3>1. a \in Seq(NumberWord) /\ Len(a) = 1 /\ a[1].kind = "hundred"
      BY <2>1, <2>2, OneWord
    <3>. QED  BY <3>1
  <2>3. CASE h = 0 /\ a = <<>>
    BY <2>3, NoWord
  <2>. QED  BY <1>7, <2>2, <2>3, Zenon
<1>12. b \in Seq(NumberWord) /\ Len(b) <= 1 /\ (r >= 20 => Len(b) > 0) /\ \A k \in 1..Len(b) : b[k].kind # "unit"
  <2>1. 10 * s \in Nat
    OBVIOUS
  <2>2. CASE r >= 20 /\ b = <<[kind |-> "ten", value |-> 10 * s]>>
    <3>1. b \in Seq(NumberWord) /\ Len(b) = 1 /\ b[1].kind = "ten"
      BY <2>1, <2>2, OneWord
    <3>. QED  BY <3>1
  <2>3. CASE r < 20 /\ b = <<>>
    BY <1>1, <2>3, NoWord
  <2>. QED  BY <1>8, <2>2, <2>3, Zenon
<1>13. c \in Seq(NumberWord) /\ Len(c) <= 1 /\ (v > 0 => Len(c) > 0)
  <2>2. CASE v > 0 /\ c = <<[kind |-> "unit", value |-> v]>>
    BY <2>2, OneWord
  <2>3. CASE v = 0 /\ c = <<>>
    BY <2>3, NoWord
  <2>. QED  BY <1>10, <2>2, <2>3, Zenon
<1>14. PICK d : d = a \o b
  OBVIOUS
<1>15. d \in Seq(NumberWord) /\ Len(d) = Len(a) + Len(b) /\ \A k \in 1..Len(d) : d[k].kind # "unit"
  <2>1. d \in Seq(NumberWord) /\ Len(d) = Len(a) + Len(b)
    BY <1>11, <1>12, <1>14
  <2>2. Len(a) \in Nat /\ Len(b) \in Nat
    BY <1>11, <1>12
  <2>3. ASSUME NEW k \in 1..Len(a) PROVE d[k].kind # "unit"
    <3>1. d[k] = a[k]
      BY <1>11, <1>12, <1>14
    <3>. QED  BY <1>11, <3>1
  <2>4. ASSUME NEW k \in 1..Len(b) PROVE d[Len(a) + k].kind # "unit"
    <3>1. d[Len(a) + k] = b[k]
      BY <1>11, <1>12, <1>14
    <3>. QED  BY <1>12, <3>1
  <2>5. ASSUME NEW k \in 1..Len(d) PROVE d[k].kind # "unit"
    <3>1. CASE k \in 1..Len(a)
      BY <2>3, <3>1
    <3>2. CASE k \notin 1..Len(a)
      <4>1. PICK j \in 1..Len(b) : k = Len(a) + j
        <5>1. k - Len(a) \in 1..Len(b) /\ k = Len(a) + (k - Len(a))
          BY <2>1, <2>2, <3>2
        <5>. QED  BY <5>1
      <4>. QED  BY <2>4, <4>1
    <3>. QED  BY <3>1, <3>2
  <2>. QED  BY <2>1, <2>5
<1>16. PICK g : g = Group(x)
  OBVIOUS
<1>17. g = d \o c
  <2>1. Group(x) = (Hundreds(x) \o Tens(x)) \o UnitWords(x)
    BY GroupParts, Zenon
  <2>. QED  BY <1>4, <1>5, <1>6, <1>14, <1>16, <2>1, Zenon
<1>18. g \in Seq(NumberWord) /\ Len(g) = Len(d) + Len(c) /\ \A k \in 1..Len(d) : g[k] = d[k]
  BY <1>13, <1>15, <1>17
<1>19. Len(c) <= 1 /\ Len(c) \in Nat /\ Len(d) \in Nat
  BY <1>13, <1>15
<1>20. \A k \in 1..Len(g) : k < Len(g) => g[k].kind # "unit"
  <2> SUFFICES ASSUME NEW k \in 1..Len(g), k < Len(g) PROVE g[k].kind # "unit"
    OBVIOUS
  <2>1. k \in 1..Len(d)
    BY <1>18, <1>19
  <2>2. g[k] = d[k]
    BY <1>18, <2>1
  <2>. QED  BY <1>15, <2>1, <2>2
<1>21. x > 0 => Len(g) > 0
  <2>1. x > 0 => h > 0 \/ r >= 20 \/ v > 0
    BY <1>1, <1>2, <1>9
  <2>2. Len(a) \in Nat /\ Len(b) \in Nat
    BY <1>11, <1>12
  <2>. QED  BY <1>11, <1>12, <1>13, <1>15, <1>18, <1>19, <2>1, <2>2
<1>. QED  BY <1>16, <1>18, <1>20, <1>21, Zenon

(* A number and its thousands.                                             *)
LEMMA ByThousands ==
    ASSUME NEW x \in Nat
    PROVE  \E q \in Nat, r \in Nat : r < 1000 /\ x = 1000 * q + r /\ x \div 1000 = q /\ x % 1000 = r
<1>1. PICK q \in Nat : q = x \div 1000
  OBVIOUS
<1>2. 1000 * q <= x /\ x < 1000 * q + 1000
  BY <1>1
<1>3. PICK r \in Nat : r < 1000 /\ x = 1000 * q + r
  <2>1. x - 1000 * q \in Nat /\ x - 1000 * q < 1000 /\ x = 1000 * q + (x - 1000 * q)
    BY <1>2
  <2>. QED  BY <2>1
<1>4. x % 1000 = r
  BY <1>3
<1>. QED  BY <1>1, <1>3, <1>4

(* The ways in which a number below a million is said.                     *)
Million == 1000000
Scale == <<[kind |-> "scale", value |-> 1000]>>

(* Nought; a group; a thousand and a group; some thousands and a group.    *)
Ways(x, s) ==
    \/ x = 0 /\ s = <<[kind |-> "unit", value |-> 0]>>
    \/ x > 0 /\ x < 1000 /\ s = Group(x)
    \/ \E r \in Nat : r < 1000 /\ x = 1000 + r /\ s = Scale \o Group(r)
    \/ \E q \in Nat, r \in Nat : /\ q > 1 /\ q < 1000 /\ r < 1000 /\ x = 1000 * q + r
                                /\ s = (Group(q) \o Scale) \o Group(r)

(* What a scale is said after.                                             *)
BeforeScale(q) == IF q = 1 THEN <<>> ELSE Group(q)

(* SaidAs in its parts.                                                    *)
LEMMA SaidAsIs ==
    \A x : /\ SaidAs(x) = IF x = 0 THEN <<[kind |-> "unit", value |-> 0]>> ELSE Thousands(x) \o Group(x % 1000)
           /\ Thousands(x) = IF x < 1000 THEN <<>> ELSE BeforeScale(x \div 1000) \o Scale
<1> TAKE x
<1>1. SaidAs(x) = IF x = 0 THEN <<[kind |-> "unit", value |-> 0]>> ELSE Thousands(x) \o Group(x % 1000)
  BY DEF SaidAs
<1>2. Thousands(x) = IF x < 1000 THEN <<>> ELSE BeforeScale(x \div 1000) \o Scale
  BY DEF Thousands, BeforeScale, Scale
<1>. QED  BY <1>1, <1>2

(* A number below a million is said in one of those ways.                  *)
LEMMA WaysToSay ==
    ASSUME NEW x \in Nat, x < Million
    PROVE  Ways(x, SaidAs(x))
<1>1. PICK q \in Nat, r \in Nat : r < 1000 /\ x = 1000 * q + r /\ x \div 1000 = q /\ x % 1000 = r
  BY ByThousands
<1>2. CASE x = 0
  BY <1>2, SaidAsIs DEF Ways
<1>3. CASE x # 0 /\ x < 1000
  <2>1. x % 1000 = x
    BY <1>3
  <2>2. Thousands(x) = <<>>
    BY <1>3, SaidAsIs
  <2>3. SaidAs(x) = Thousands(x) \o Group(x % 1000)
    BY <1>3, SaidAsIs
  <2>4. PICK g : g = Group(x)
    OBVIOUS
  <2>5. SaidAs(x) = <<>> \o g
    BY <2>1, <2>2, <2>3, <2>4
  <2>6. g \in Seq(NumberWord)
    BY <1>3, <2>4, GroupIsSaid
  <2>7. <<>> \o g = g
    BY <2>6
  <2>. QED  BY <1>3, <2>4, <2>5, <2>7 DEF Ways
<1>4. CASE x >= 1000
  <2>1. q > 0 /\ q < 1000 /\ x # 0 /\ ~(x < 1000)
    BY <1>1, <1>4 DEF Million
  <2>2. SaidAs(x) = Thousands(x) \o Group(r)
    BY <1>1, <2>1, SaidAsIs
  <2>3. Thousands(x) = BeforeScale(q) \o Scale
    <3>1. Thousands(x) = BeforeScale(x \div 1000) \o Scale
      BY <2>1, SaidAsIs, SMTT(30)
    <3>2. x \div 1000 = q
      BY <1>1
    <3>3. BeforeScale(x \div 1000) = BeforeScale(q)
      BY <3>2
    <3>. QED  BY <3>1, <3>3
  <2>4. CASE q = 1
    <3>1. <<>> \o Scale = Scale
      BY DEF Scale
    <3>2. BeforeScale(q) = <<>>
      BY <2>4 DEF BeforeScale
    <3>3. Thousands(x) = Scale
      BY <2>3, <3>1, <3>2
    <3>. QED  BY <1>1, <2>2, <2>4, <3>3 DEF Ways
  <2>5. CASE q # 1
    <3>1. q > 1 /\ q < 1000
      BY <2>1, <2>5
    <3>2. BeforeScale(q) = Group(q)
      BY <2>5 DEF BeforeScale
    <3>3. SaidAs(x) = (Group(q) \o Scale) \o Group(r)
      BY <2>2, <2>3, <3>2
    <3>. QED  BY <1>1, <3>1, <3>3 DEF Ways
  <2>. QED  BY <2>4, <2>5
<1>. QED  BY <1>2, <1>3, <1>4

(* A scale that is read.                                                   *)
LEMMA ScaleIsRead ==
    ASSUME NEW ws \in Seq(SpokenWord), NEW n, ReadsOneByOne(n, ws), NEW p \in Nat, NEW T, NEW G,
           ReadTo(n, p, T, G), Says(ws, p, Scale)
    PROVE  ReadTo(n, p + 1, Scaled(T, G, 1000), 0)
<1>1. Len(Scale) = 1 /\ Scale[1].kind = "scale" /\ Scale[1].value = 1000
  BY DEF Scale
<1>2. p + 1 <= Len(ws) /\ ws[p + 1].kind = "scale" /\ ws[p + 1].value = 1000 /\ ~ws[p + 1].gap /\ ~ws[p + 1].mark
  BY <1>1 DEF Says
<1>3. ReadTo(n, p + 1, Scaled(T, G, ws[p + 1].value), 0)
  <2>1. p + 1 <= Len(ws) /\ ws[p + 1].kind = "scale" /\ ~ws[p + 1].gap /\ ~ws[p + 1].mark
    BY <1>2
  <2>2. /\ ws[p + 1].kind \in {"hundred", "ten"} => ReadTo(n, p + 1, T, G + ws[p + 1].value)
        /\ ws[p + 1].kind = "unit" /\ G % 10 = 0 => ReadTo(n, p + 1, T, G + ws[p + 1].value)
        /\ ws[p + 1].kind = "scale" => ReadTo(n, p + 1, Scaled(T, G, ws[p + 1].value), 0)
    BY <2>1, ReadsOn, Zenon
  <2>. QED  BY <2>1, <2>2
<1>. QED  BY <1>2, <1>3

(* A scale is one word.                                                    *)
LEMMA ScaleIsWord == Scale \in Seq(NumberWord) /\ Len(Scale) = 1 /\ Scale[1].kind = "scale"
<1>1. PICK v \in Nat : v = 1000
  OBVIOUS
<1>2. PICK a : a = <<[kind |-> "scale", value |-> v]>>
  OBVIOUS
<1>3. a \in Seq(NumberWord) /\ Len(a) = 1 /\ a[1].kind = "scale"
  BY <1>2, OneWord
<1>4. Scale = a
  BY <1>1, <1>2 DEF Scale
<1>. QED  BY <1>3, <1>4

(* Nothing is read yet.                                                    *)
LEMMA ReadFromTheStart ==
    ASSUME NEW n, NEW ws, ReadsOneByOne(n, ws)
    PROVE  ReadTo(n, 0, 0, 0)
  BY DEF ReadsOneByOne, ReadTo, NothingRead, NumberSoFar

(* A number is read as it is said.                                         *)
LEMMA NumberIsRead ==
    ASSUME NEW ws \in Seq(SpokenWord), NEW n, ReadsOneByOne(n, ws), NEW x \in Nat, NEW s, Ways(x, s), Says(ws, 0, s)
    PROVE  \E T \in Nat, G \in Nat : T + G = x /\ ReadTo(n, Len(s), T, G)
<1>1. ReadTo(n, 0, 0, 0)
  BY ReadFromTheStart
<1>2. CASE x = 0 /\ s = <<[kind |-> "unit", value |-> 0]>>
  <2>1. Len(s) = 1 /\ s[1].kind = "unit" /\ s[1].value = 0
    BY <1>2, OneWord
  <2>2. 0 + 1 <= Len(ws) /\ ws[0 + 1].kind = "unit" /\ ws[0 + 1].value = 0 /\ ~ws[0 + 1].gap /\ ~ws[0 + 1].mark
    BY <2>1 DEF Says
  <2>3. 0 % 10 = 0
    OBVIOUS
  <2>4. ReadTo(n, 0 + 1, 0, 0 + 0)
    BY <1>1, <2>2, <2>3, ReadsOn
  <2>. QED  BY <1>2, <2>1, <2>4
<1>3. CASE x > 0 /\ x < 1000 /\ s = Group(x)
  <2>1. ReadTo(n, 0 + Len(Group(x)), 0, x)
    BY <1>1, <1>3, GroupIsRead
  <2>2. Len(s) \in Nat
    BY <1>3, GroupIsSaid
  <2>. QED  BY <1>3, <2>1, <2>2
<1>4. ASSUME NEW r \in Nat, r < 1000, x = 1000 + r, s = Scale \o Group(r)
      PROVE  \E T \in Nat, G \in Nat : T + G = x /\ ReadTo(n, Len(s), T, G)
  <2>1. Group(r) \in Seq(NumberWord)
    BY <1>4, GroupIsSaid
  <2>2. Says(ws, 0, Scale) /\ Says(ws, 0 + 1, Group(r)) /\ Len(s) = 1 + Len(Group(r))
    <3>1. Says(ws, 0, Scale \o Group(r))
      BY <1>4
    <3>2. PICK a \in Seq(NumberWord) : a = Scale /\ Len(a) = 1
      BY ScaleIsWord
    <3>3. PICK b \in Seq(NumberWord) : b = Group(r)
      BY <2>1
    <3>4. PICK p \in Nat : p = 0
      OBVIOUS
    <3>5. Says(ws, p, a \o b)
      BY <3>1, <3>2, <3>3, <3>4
    <3>6. Says(ws, p, a) /\ Says(ws, p + Len(a), b) /\ Len(a \o b) = Len(a) + Len(b)
      BY <3>5, SaysOneAfterTheOther
    <3>. QED  BY <1>4, <3>2, <3>3, <3>4, <3>6
  <2>3. ReadTo(n, 0 + 1, Scaled(0, 0, 1000), 0) /\ Scaled(0, 0, 1000) = 1000
    BY <1>1, <2>2, ScaleIsRead DEF Scaled
  <2>4. ReadTo(n, 0 + 1 + Len(Group(r)), 1000, r)
    BY <1>4, <2>2, <2>3, GroupIsRead
  <2>5. ReadTo(n, Len(s), 1000, r)
    BY <2>1, <2>2, <2>4
  <2>. QED  BY <1>4, <2>5
<1>5. ASSUME NEW q \in Nat, NEW r \in Nat, q > 1, q < 1000, r < 1000, x = 1000 * q + r, s = (Group(q) \o Scale) \o Group(r)
      PROVE  \E T \in Nat, G \in Nat : T + G = x /\ ReadTo(n, Len(s), T, G)
  <2>1. Group(r) \in Seq(NumberWord) /\ Group(q) \in Seq(NumberWord)
    BY <1>5, GroupIsSaid
  <2>2. PICK a : a = Group(q)
    OBVIOUS
  <2>3. PICK c : c = Group(r)
    OBVIOUS
  <2>4. Says(ws, 0, (a \o Scale) \o c)
    BY <1>5, <2>2, <2>3
  <2>5. /\ Says(ws, 0, a) /\ Says(ws, 0 + Len(a), Scale) /\ Says(ws, 0 + Len(a) + Len(Scale), c)
        /\ Len((a \o Scale) \o c) = Len(a) + Len(Scale) + Len(c)
    <3>1. PICK sc \in Seq(NumberWord) : sc = Scale
      BY ScaleIsWord
    <3>2. a \in Seq(NumberWord) /\ c \in Seq(NumberWord) /\ Says(ws, 0, (a \o sc) \o c)
      BY <2>1, <2>2, <2>3, <2>4, <3>1
    <3>3. /\ Says(ws, 0, a) /\ Says(ws, 0 + Len(a), sc) /\ Says(ws, 0 + Len(a) + Len(sc), c)
          /\ Len((a \o sc) \o c) = Len(a) + Len(sc) + Len(c)
      BY <3>2, SaysThree
    <3>. QED  BY <3>1, <3>3
  <2>6. PICK k \in Nat : k = Len(a)
    BY <2>1, <2>2
  <2>7. Says(ws, k, Scale) /\ Says(ws, k + 1, c) /\ Len(s) = k + 1 + Len(c)
    BY <1>5, <2>2, <2>3, <2>5, <2>6, ScaleIsWord
  <2>8. ReadTo(n, k, 0, q)
    <3>1. ReadTo(n, 0 + Len(Group(q)), 0, q)
      BY <1>1, <1>5, <2>2, <2>5, GroupIsRead
    <3>. QED  BY <2>2, <2>6, <3>1
  <2>9. ReadTo(n, k + 1, Scaled(0, q, 1000), 0)
    BY <2>7, <2>8, ScaleIsRead
  <2>10. ReadTo(n, k + 1, 1000 * q, 0)
    BY <1>5, <2>9 DEF Scaled
  <2>11. ReadTo(n, k + 1 + Len(Group(r)), 1000 * q, r)
    BY <1>5, <2>3, <2>7, <2>10, GroupIsRead
  <2>12. ReadTo(n, Len(s), 1000 * q, r)
    <3>1. Len(s) = k + 1 + Len(Group(r))
      BY ONLY <2>3, <2>7
    <3>. QED  BY ONLY <2>11, <3>1
  <2>. QED  BY <1>5, <2>12
<1> DEFINE
      Zero == x = 0 /\ s = <<[kind |-> "unit", value |-> 0]>>
      Few == x > 0 /\ x < 1000 /\ s = Group(x)
      AThousand == \E r \in Nat : r < 1000 /\ x = 1000 + r /\ s = Scale \o Group(r)
      ManyThousands == \E q \in Nat, r \in Nat : /\ q > 1 /\ q < 1000 /\ r < 1000 /\ x = 1000 * q + r
                                                /\ s = (Group(q) \o Scale) \o Group(r)
      Read == \E T \in Nat, G \in Nat : T + G = x /\ ReadTo(n, Len(s), T, G)
<1>6. Zero \/ Few \/ AThousand \/ ManyThousands
  BY Zenon DEF Ways
<1>7. (Zero => Read) /\ (Few => Read)
  BY ONLY <1>2, <1>3
<1>8. AThousand => Read
  <2> SUFFICES ASSUME NEW r \in Nat, r < 1000, x = 1000 + r, s = Scale \o Group(r) PROVE Read
    OBVIOUS
  <2>. QED  BY <1>4
<1>9. ASSUME ManyThousands PROVE Read
  <2>1. PICK q \in Nat, r \in Nat : /\ q > 1 /\ q < 1000 /\ r < 1000 /\ x = 1000 * q + r
                                  /\ s = (Group(q) \o Scale) \o Group(r)
    BY <1>9, Zenon
  <2>. QED  BY ONLY <1>5, <2>1, ZenonT(60)
<1> HIDE DEF Zero, Few, AThousand, ManyThousands, Read
<1>10. Read
  BY ONLY <1>6, <1>7, <1>8, <1>9
<1>. QED  BY <1>10 DEF Read

(* It has words, and does not begin with two units.                        *)
LEMMA NumberHasWords ==
    ASSUME NEW x \in Nat, NEW s, Ways(x, s)
    PROVE  /\ s \in Seq(NumberWord) /\ Len(s) > 0
           /\ Len(s) > 1 => ~(s[1].kind = "unit" /\ s[2].kind = "unit")
<1>1. CASE x = 0 /\ s = <<[kind |-> "unit", value |-> 0]>>
  <2>1. s \in Seq(NumberWord) /\ Len(s) = 1
    BY <1>1, OneWord
  <2>. QED  BY <2>1
<1>2. CASE x > 0 /\ x < 1000 /\ s = Group(x)
  <2>1. s \in Seq(NumberWord) /\ Len(s) > 0 /\ \A k \in 1..Len(s) : k < Len(s) => s[k].kind # "unit"
    BY <1>2, GroupIsSaid
  <2>. QED  BY <2>1
<1>3. ASSUME NEW r \in Nat, r < 1000, x = 1000 + r, s = Scale \o Group(r)
      PROVE  s \in Seq(NumberWord) /\ Len(s) > 0 /\ s[1].kind # "unit"
  <2>1. PICK c : c = Group(r)
    OBVIOUS
  <2>2. c \in Seq(NumberWord)
    BY <1>3, <2>1, GroupIsSaid
  <2>3. PICK sc : sc = Scale
    OBVIOUS
  <2>4. sc \in Seq(NumberWord) /\ Len(sc) = 1 /\ sc[1].kind = "scale"
    BY <2>3, ScaleIsWord
  <2>5. s = sc \o c
    BY <1>3, <2>1, <2>3
  <2>6. s \in Seq(NumberWord) /\ Len(s) > 0 /\ s[1] = sc[1]
    <3>1. /\ s \in Seq(NumberWord) /\ Len(s) = Len(sc) + Len(c)
          /\ \A k \in 1..Len(sc) : s[k] = sc[k]
      <4>1. sc \in Seq(NumberWord) /\ c \in Seq(NumberWord)
        BY <2>2, <2>4
      <4>2. /\ sc \o c \in Seq(NumberWord) /\ Len(sc \o c) = Len(sc) + Len(c)
            /\ \A k \in 1..Len(sc) : (sc \o c)[k] = sc[k]
        BY <4>1, OneAfterTheOther, SMTT(30)
      <4>. QED  BY ONLY <2>5, <4>2
    <3>2. Len(c) \in Nat
      BY <2>2
    <3>. QED  BY <2>4, <3>1, <3>2
  <2>. QED  BY <2>4, <2>6
<1>4. ASSUME NEW q \in Nat, NEW r \in Nat, q > 1, q < 1000, r < 1000, x = 1000 * q + r, s = (Group(q) \o Scale) \o Group(r)
      PROVE  s \in Seq(NumberWord) /\ Len(s) > 0 /\ ~(s[1].kind = "unit" /\ s[2].kind = "unit")
  <2>1. PICK a : a = Group(q)
    OBVIOUS
  <2>2. PICK c : c = Group(r)
    OBVIOUS
  <2>3. PICK sc : sc = Scale
    OBVIOUS
  <2>4. a \in Seq(NumberWord) /\ Len(a) > 0 /\ \A k \in 1..Len(a) : k < Len(a) => a[k].kind # "unit"
    BY <1>4, <2>1, GroupIsSaid
  <2>5. c \in Seq(NumberWord)
    BY <1>4, <2>2, GroupIsSaid
  <2>6. sc \in Seq(NumberWord) /\ Len(sc) = 1 /\ sc[1].kind = "scale"
    BY <2>3, ScaleIsWord
  <2>7. PICK d : d = a \o sc
    OBVIOUS
  <2>8. d \in Seq(NumberWord) /\ Len(d) = Len(a) + 1 /\ d[1] = a[1] /\ d[Len(a) + 1] = sc[1]
    <3>1. /\ d \in Seq(NumberWord) /\ Len(d) = Len(a) + Len(sc)
          /\ \A k \in 1..Len(a) : d[k] = a[k]
          /\ \A k \in 1..Len(sc) : d[Len(a) + k] = sc[k]
      <4>1. a \in Seq(NumberWord) /\ sc \in Seq(NumberWord) /\ d = a \o sc
        BY <2>4, <2>6, <2>7, Zenon
      <4>. QED  BY <4>1, OneAfterTheOther
    <3>2. 1 \in 1..Len(sc)
      BY <2>6
    <3>3. Len(a) \in Nat /\ 1 \in 1..Len(a)
      BY <2>4
    <3>. QED  BY <2>6, <3>1, <3>2, <3>3, Zenon
  <2>9. s = d \o c
    BY <1>4, <2>1, <2>2, <2>3, <2>7
  <2>10. s \in Seq(NumberWord) /\ Len(s) > 0 /\ s[1] = d[1] /\ s[2] = d[2]
    BY <2>4, <2>5, <2>8, <2>9
  <2>11. CASE Len(a) = 1
    BY <2>6, <2>8, <2>10, <2>11
  <2>12. CASE Len(a) # 1
    <3>1. a[1].kind # "unit"
      <4>1. Len(a) \in Nat /\ Len(a) > 1 /\ 1 \in 1..Len(a)
        BY <2>4, <2>12
      <4>. QED  BY <2>4, <4>1
    <3>. QED  BY <2>8, <2>10, <3>1
  <2>. QED  BY <2>11, <2>12
<1>. QED  BY <1>1, <1>2, <1>3, <1>4 DEF Ways

(* A number, and perhaps what it counts.                                   *)
NumberAnd(ws, x, s) ==
    /\ Ways(x, s) /\ Says(ws, 0, s)
    /\ \/ Len(ws) = Len(s)
       \/ Len(ws) = Len(s) + 1 /\ ws[Len(s) + 1].kind = "money" /\ ~ws[Len(s) + 1].gap

(* parseNumber answers the number that is said.                            *)
LEMMA NumberIsParsed ==
    ASSUME NEW ws \in Seq(SpokenWord), NEW x \in Nat, NEW s, NumberAnd(ws, x, s)
    PROVE  ParseNumber(ws) = [ok |-> TRUE, value |-> x, count |-> Len(s)]
<1>1. PICK n : ParseNumber(ws) = NumberOf(n[Len(ws)]) /\ ReadsOneByOne(n, ws)
  BY ParseNumberLoops DEF ReadsOneByOne
<1>2. Ways(x, s) /\ Says(ws, 0, s)
  BY DEF NumberAnd
<1>3. PICK T \in Nat, G \in Nat : T + G = x /\ ReadTo(n, Len(s), T, G)
  BY <1>1, <1>2, NumberIsRead
<1>4. Len(s) \in Nat /\ Len(s) > 0
  BY <1>2, NumberHasWords
<1>5. PICK k \in Nat : k = Len(s)
  BY <1>4
<1>6. n[k] \in NumberSoFar /\ n[k].total = T /\ n[k].group = G /\ n[k].count = k /\ ~n[k].refused
  BY <1>3, <1>5 DEF ReadTo
<1>7. n[Len(ws)].total = T /\ n[Len(ws)].group = G /\ n[Len(ws)].count = k /\ ~n[Len(ws)].refused
  <2>1. CASE Len(ws) = Len(s)
    BY <1>5, <1>6, <2>1
  <2>2. CASE Len(ws) = Len(s) + 1 /\ ws[Len(s) + 1].kind = "money"
    <3>1. k + 1 <= Len(ws) /\ ~IsNumeral(ws[k + 1]) /\ Len(ws) = k + 1
      BY <1>5, <2>2 DEF IsNumeral
    <3>2. n[k + 1] = [n[k] EXCEPT !.over = TRUE]
      <4>1. ReadTo(n, k, T, G) /\ ReadsOneByOne(n, ws)
        BY <1>1, <1>3, <1>5
      <4>2. k + 1 <= Len(ws) /\ ~IsNumeral(ws[k + 1])
        BY <3>1
      <4>. QED  BY <4>1, <4>2, ReadsOn
    <3>. QED  BY <1>6, <3>1, <3>2 DEF NumberSoFar
  <2>. QED  BY <2>1, <2>2 DEF NumberAnd
<1>. QED  BY <1>1, <1>3, <1>4, <1>5, <1>7 DEF NumberOf

(* No telephone number, time or date is taken for it.                      *)
LEMMA NumberIsNothingElse ==
    ASSUME NEW ws \in Seq(SpokenWord), NEW x \in Nat, NEW s, NumberAnd(ws, x, s)
    PROVE  MatchPhone(ws) = NoMatch /\ MatchTime(ws) = NoMatch /\ MatchDate(ws) = NoMatch
<1>1. Ways(x, s) /\ Says(ws, 0, s)
  BY DEF NumberAnd
<1>2. s \in Seq(NumberWord) /\ Len(s) > 0 /\ (Len(s) > 1 => ~(s[1].kind = "unit" /\ s[2].kind = "unit"))
  BY <1>1, NumberHasWords
<1>3. \A k \in 1..Len(s) : k \in 1..Len(ws) /\ ws[k].kind = s[k].kind
  BY <1>1, <1>2 DEF Says
<1>4. \A k \in 1..Len(ws) : ws[k].kind \in {"hundred", "ten", "unit", "scale", "money"}
  <2> SUFFICES ASSUME NEW k \in 1..Len(ws) PROVE ws[k].kind \in {"hundred", "ten", "unit", "scale", "money"}
    OBVIOUS
  <2>1. CASE k \in 1..Len(s)
    <3>1. s[k] \in NumberWord
      BY <1>2, <2>1
    <3>. QED  BY <1>3, <2>1, <3>1 DEF NumberWord
  <2>2. CASE k \notin 1..Len(s)
    <3>1. k = Len(s) + 1 /\ ws[Len(s) + 1].kind = "money"
      BY <1>2, <2>2 DEF NumberAnd
    <3>. QED  BY <3>1
  <2>. QED  BY <2>1, <2>2
<1>5. Len(ws) \in Nat /\ Len(ws) > 0 /\ ws # <<>>
  BY <1>2 DEF NumberAnd
<1>6. Len(ws) > 1 => ~(ws[1].kind = "unit" /\ ws[2].kind = "unit")
  <2>1. CASE Len(s) > 1
    <3>1. 1 \in 1..Len(s) /\ 2 \in 1..Len(s)
      BY <1>2, <2>1
    <3>. QED  BY <1>2, <1>3, <2>1, <3>1
  <2>2. CASE Len(s) = 1
    BY <1>5, <2>2 DEF NumberAnd
  <2>3. Len(s) = 1 \/ Len(s) > 1
    <3>1. PICK l \in Nat : l = Len(s) /\ l > 0
      BY <1>2
    <3>. QED  BY <3>1
  <2>. QED  BY <2>1, <2>2, <2>3, Zenon
<1>7. 1 \in 1..Len(ws) /\ ws[1].kind # "plus" /\ ws[1].kind # "ordinal" /\ (Len(ws) > 1 => ws[2].kind # "ordinal")
  BY <1>4, <1>5
<1>8. MatchPhone(ws) = NoMatch
  <2>1. PICK from \in {1, 2}, last \in 0..Len(ws) :
               /\ last >= from - 1 /\ (last >= from => DigitsFrom(ws, from, last))
               /\ from = IF ws[1].kind = "plus" THEN 2 ELSE 1
               /\ MatchPhone(ws) = IF last - from + 1 >= MinPhone
                                   THEN [count |-> last, form |-> "phone", value |-> last - from + 1] ELSE NoMatch
    BY <1>5, PhoneTakes
  <2>2. from = 1
    BY <1>7, <2>1
  <2>3. MinPhone \in Nat /\ MinPhone > 1
    BY SpokenAssumption
  <2>4. ASSUME last - from + 1 >= MinPhone PROVE FALSE
    <3>1. last >= 2 /\ last >= from /\ 1 \in from..last /\ 2 \in from..last
      BY <2>2, <2>3, <2>4
    <3>2. ws[1].kind = "unit" /\ ws[2].kind = "unit"
      BY <2>1, <3>1, Zenon DEF DigitsFrom
    <3>3. Len(ws) > 1
      BY <2>1, <3>1
    <3>. QED  BY <1>6, <3>2, <3>3
  <2>. QED  BY <2>1, <2>4, Zenon
<1>9. Counted(ws, "hour", "time") = NoMatch
  <2>1. PICK n : n = ParseNumber(ws)
    OBVIOUS
  <2>2. n.count = Len(s)
    BY <2>1, NumberIsParsed
  <2>3. ~(n.count < Len(ws) /\ ws[n.count + 1].kind = "hour")
    BY <1>2, <1>5, <2>2 DEF NumberAnd
  <2>. QED  BY <2>1, <2>3, Zenon DEF Counted
<1>10. MatchTime(ws) = NoMatch
  <2>1. ~(Counted(ws, "hour", "time").count > 0)
    BY <1>9 DEF NoMatch
  <2>. QED  BY <2>1, Zenon DEF MatchTime
<1>11. MatchDate(ws) = NoMatch
  <2>1. ~(Len(ws) > 1 /\ ws[2].kind = "ordinal") /\ ~(ws[1].kind = "ordinal")
    BY <1>7
  <2>2. ParseDay(ws) = [count |-> 0, value |-> 0]
    BY <2>1, Zenon DEF ParseDay
  <2>3. ~(ParseDay(ws).count > 0)
    BY <2>2
  <2>. QED  BY <2>3, Zenon DEF MatchDate
<1>. QED  BY <1>8, <1>10, <1>11

(* The rules by their places.                                              *)
LEMMA RulesAre ==
    ASSUME NEW ws
    PROVE  /\ Rules(ws)[1] = MatchPhone(ws) /\ Rules(ws)[2] = MatchTime(ws) /\ Rules(ws)[3] = MatchDate(ws)
           /\ Rules(ws)[4] = Counted(ws, "money", "money") /\ Rules(ws)[5] = Counted(ws, "percent", "percent")
           /\ Rules(ws)[6] = MatchPlain(ws)
  BY DEF Rules

(* The whole number is taken, and with it what it counts.                  *)
LEMMA NumberIsTaken ==
    ASSUME NEW ws \in Seq(SpokenWord), NEW x \in Nat, NEW s, NumberAnd(ws, x, s)
    PROVE  /\ Len(ws) = Len(s) /\ x >= 10 => Match(ws) = [count |-> Len(ws), form |-> "number", value |-> x]
           /\ Len(ws) = Len(s) + 1 => Match(ws) = [count |-> Len(ws), form |-> "money", value |-> x]
<1>1. MatchPhone(ws) = NoMatch /\ MatchTime(ws) = NoMatch /\ MatchDate(ws) = NoMatch
  BY NumberIsNothingElse
<1>2. PICK n : n = ParseNumber(ws)
  OBVIOUS
<1>3. n.ok = TRUE /\ n.value = x /\ n.count = Len(s)
  BY <1>2, NumberIsParsed
<1>4. Len(s) \in Nat /\ Len(s) > 0
  BY NumberHasWords DEF NumberAnd
<1>5. ~(NoMatch.count > 0)
  BY DEF NoMatch
<1>6. PICK k \in Nat : k = Len(s) /\ k > 0
  BY <1>4
<1>7. ASSUME Len(ws) = k, x >= 10 PROVE Match(ws) = [count |-> Len(ws), form |-> "number", value |-> x]
  <2>1. ~(n.count < Len(ws))
    BY <1>3, <1>6, <1>7
  <2>2. Counted(ws, "money", "money") = NoMatch /\ Counted(ws, "percent", "percent") = NoMatch
    BY <1>2, <2>1, Zenon DEF Counted
  <2>3. n.ok /\ ~(n.count = 1 /\ n.value < 10)
    BY <1>3, <1>7
  <2>4. MatchPlain(ws) = [count |-> n.count, form |-> "number", value |-> n.value]
    BY <1>2, <2>3, Zenon DEF MatchPlain
  <2>5. MatchPlain(ws) = [count |-> Len(ws), form |-> "number", value |-> x] /\ MatchPlain(ws).count > 0
    BY <1>3, <1>6, <1>7, <2>4
  <2>6. \A i \in 1..6 : i # 6 => ~(Rules(ws)[i].count > 0)
    BY <1>1, <1>5, <2>2, RulesAre
  <2>7. Rules(ws)[6].count > 0
    BY <2>5, RulesAre
  <2>8. Match(ws) = Rules(ws)[6]
    <3>1. 6 \in 1..6
      OBVIOUS
    <3>. QED  BY <2>6, <2>7, <3>1, FirstHit, Zenon
  <2>. QED  BY <2>5, <2>8, RulesAre
<1>8. ASSUME Len(ws) = k + 1 PROVE Match(ws) = [count |-> Len(ws), form |-> "money", value |-> x]
  <2>1. n.ok /\ n.count < Len(ws) /\ ws[n.count + 1].kind = "money" /\ ~ws[n.count + 1].gap
    BY <1>3, <1>6, <1>8 DEF NumberAnd
  <2>2. JoinsNext(ws, n.count)
    BY <2>1 DEF JoinsNext
  <2>3. Counted(ws, "money", "money") = [count |-> n.count + 1, form |-> "money", value |-> n.value]
    BY <1>2, <2>1, <2>2, Zenon DEF Counted
  <2>4. Counted(ws, "money", "money") = [count |-> Len(ws), form |-> "money", value |-> x]
        /\ Counted(ws, "money", "money").count > 0
    BY <1>3, <1>6, <1>8, <2>3
  <2>5. ~(Rules(ws)[1].count > 0) /\ ~(Rules(ws)[2].count > 0) /\ ~(Rules(ws)[3].count > 0)
    BY <1>1, <1>5, RulesAre, Zenon
  <2>6. Rules(ws)[4].count > 0
    BY <2>4, RulesAre
  <2>7. Match(ws) = Rules(ws)[4]
    <3>1. PICK i \in 1..6 : /\ Match(ws) = Rules(ws)[i] /\ Rules(ws)[i].count > 0
                            /\ \A j \in 1..6 : Rules(ws)[j].count > 0 => i <= j
      <4>1. 4 \in 1..6
        OBVIOUS
      <4>. QED  BY <2>6, <4>1, FirstHit, Zenon
    <3>2. i <= 4 /\ i # 1 /\ i # 2 /\ i # 3
      BY <2>5, <2>6, <3>1
    <3>3. i = 4
      BY <3>2
    <3>. QED  BY <3>1, <3>3
  <2>. QED  BY <2>4, <2>7, RulesAre
<1>. QED  BY <1>6, <1>7, <1>8

-----------------------------------------------------------------------------

(* Two sequences over the same positions are as long.                      *)
LEMMA SameWidth ==
    ASSUME NEW a \in Nat, NEW b \in Nat, NEW D, D = 1..a, D = 1..b
    PROVE  a = b
<1>1. ASSUME a < b PROVE FALSE
  <2>1. b \in 1..b /\ b \notin 1..a
    BY <1>1
  <2>. QED  BY <2>1
<1>2. ASSUME b < a PROVE FALSE
  <2>1. a \in 1..a /\ a \notin 1..b
    BY <1>2
  <2>. QED  BY <2>1
<1>. QED  BY <1>1, <1>2

(* A number below a million that is all that is said, alone or with its    *)
(* roubles, is what is written.                                            *)
LEMMA NumbersFollow == ItnInvariant => NumbersAreRead
<1> SUFFICES ASSUME ItnInvariant, written # <<>>, NEW x \in Values,
                    NEW unit \in {<<>>, <<[kind |-> "money", value |-> 0]>>},
                    AsSaid(said) = SaidAs(x) \o unit,
                    \A i \in DOMAIN said : ~said[i].gap /\ ~said[i].mark,
                    x >= 10 \/ unit # <<>>
             PROVE  written = <<[at |-> 1, count |-> Len(said), value |-> x,
                                 form |-> IF unit = <<>> THEN "number" ELSE "money"]>>
  BY Zenon DEF NumbersAreRead
<1>1. x \in Nat /\ x < Million
  BY SpokenAssumption DEF Million
<1>2. PICK s : s = SaidAs(x)
  OBVIOUS
<1>3. Ways(x, s) /\ s \in Seq(NumberWord) /\ Len(s) > 0
  <2>1. Ways(x, s)
    BY <1>1, <1>2, WaysToSay
  <2>. QED  BY <1>1, <2>1, NumberHasWords
<1>4. said \in Seq(SpokenWord) /\ DOMAIN said = 1..Len(said) /\ Len(said) \in Nat
  BY SpokenAssumption DEF ItnInvariant
<1>5. unit \in Seq(NumberWord) /\ (unit = <<>> => Len(unit) = 0) /\ (unit # <<>> => Len(unit) = 1 /\ unit[1].kind = "money")
  <2>1. CASE unit = <<>>
    BY <2>1, NoWord
  <2>2. CASE unit = <<[kind |-> "money", value |-> 0]>>
    <3>1. unit \in Seq(NumberWord) /\ Len(unit) = 1 /\ unit[1].kind = "money"
      BY <2>2, OneWord
    <3>2. unit # <<>>
      BY <2>2
    <3>. QED  BY <3>1, <3>2, Zenon
  <2>. QED  BY <2>1, <2>2, Zenon
<1>6. PICK c : c = s \o unit
  OBVIOUS
<1>7. /\ c \in Seq(NumberWord) /\ Len(c) = Len(s) + Len(unit)
      /\ \A k \in 1..Len(s) : c[k] = s[k]
      /\ \A k \in 1..Len(unit) : c[Len(s) + k] = unit[k]
  <2>1. s \in Seq(NumberWord) /\ unit \in Seq(NumberWord)
    BY <1>3, <1>5, Zenon
  <2>. QED  BY <1>6, <2>1, OneAfterTheOther
<1>8. c = [i \in 1..Len(said) |-> [kind |-> said[i].kind, value |-> said[i].value]]
  BY <1>2, <1>4, <1>6, Zenon DEF AsSaid
<1>9. Len(c) = Len(said)
  <2>1. DOMAIN c = 1..Len(c)
    BY <1>7
  <2>2. DOMAIN c = 1..Len(said)
    BY <1>8
  <2>3. Len(c) \in Nat
    BY <1>7
  <2>. QED  BY <1>4, <2>1, <2>2, <2>3, SameWidth
<1>10. \A i \in 1..Len(said) : said[i].kind = c[i].kind /\ said[i].value = c[i].value /\ ~said[i].gap /\ ~said[i].mark
  BY <1>4, <1>8
<1>11. Len(s) \in Nat /\ Len(unit) \in Nat
  BY <1>3, <1>5
<1>12. Says(said, 0, s)
  <2> SUFFICES ASSUME NEW k \in 1..Len(s)
               PROVE  /\ 0 + k \in 1..Len(said)
                      /\ said[0 + k].kind = s[k].kind /\ said[0 + k].value = s[k].value
                      /\ ~said[0 + k].gap /\ ~said[0 + k].mark
    BY Zenon DEF Says
  <2>1. 0 + k = k /\ k \in 1..Len(said)
    BY <1>7, <1>9, <1>11
  <2>2. c[k] = s[k]
    BY <1>7
  <2>. QED  BY <1>10, <2>1, <2>2
<1>13. unit # <<>> => Len(said) = Len(s) + 1 /\ said[Len(s) + 1].kind = "money" /\ ~said[Len(s) + 1].gap
  <2> SUFFICES ASSUME unit # <<>> PROVE Len(said) = Len(s) + 1 /\ said[Len(s) + 1].kind = "money" /\ ~said[Len(s) + 1].gap
    OBVIOUS
  <2>1. Len(unit) = 1 /\ unit[1].kind = "money"
    BY <1>5
  <2>2. Len(said) = Len(s) + 1 /\ Len(s) + 1 \in 1..Len(said)
    BY <1>7, <1>9, <1>11, <2>1
  <2>3. c[Len(s) + 1] = unit[1]
    <3>1. 1 \in 1..Len(unit)
      BY <2>1
    <3>. QED  BY <1>7, <3>1
  <2>. QED  BY <1>10, <2>1, <2>2, <2>3
<1>14. unit = <<>> => Len(said) = Len(s)
  BY <1>5, <1>7, <1>9, <1>11
<1>15. NumberAnd(said, x, s)
  BY <1>3, <1>12, <1>13, <1>14 DEF NumberAnd
<1>16. PICK form : form = IF unit = <<>> THEN "number" ELSE "money"
  OBVIOUS
<1>17. Match(said) = [count |-> Len(said), form |-> form, value |-> x]
  <2>1. CASE unit = <<>>
    <3>1. Len(said) = Len(s) /\ x >= 10 /\ form = "number"
      BY <1>14, <1>16, <2>1
    <3>. QED  BY <1>1, <1>4, <1>15, <3>1, NumberIsTaken
  <2>2. CASE unit # <<>>
    <3>1. Len(said) = Len(s) + 1 /\ form = "money"
      BY <1>13, <1>16, <2>2
    <3>. QED  BY <1>1, <1>4, <1>15, <3>1, NumberIsTaken
  <2>. QED  BY <2>1, <2>2
<1>18. Len(said) >= 1
  BY <1>3, <1>11, <1>13, <1>14
<1>19. written[1] = [at |-> 1, count |-> Len(said), form |-> form, value |-> x]
  <2>1. written[1] = [at |-> 1, count |-> Max({1, Match(said).count}), form |-> Match(said).form, value |-> Match(said).value]
    BY DEF ItnInvariant, Taken
  <2>2. Match(said).count = Len(said) /\ Match(said).form = form /\ Match(said).value = x
    BY <1>17
  <2>3. Max({1, Match(said).count}) = Len(said)
    BY <1>4, <1>18, <2>2, OneOrMore
  <2>. QED  BY <2>1, <2>2, <2>3
<1>20. Len(written) = 1
  <2>1. Len(written) \in Nat /\ Len(written) > 0
    BY DEF ItnInvariant
  <2>2. ~(Len(written) > 1)
    <3>1. written[1].count = Len(said)
      BY <1>19
    <3>2. Len(written) > 1 => written[1].count < Len(said)
      BY DEF ItnInvariant
    <3>. QED  BY <1>4, <3>1, <3>2
  <2>3. PICK l \in Nat : l = Len(written)
    BY <2>1
  <2>4. l > 0 /\ ~(l > 1)
    BY <2>1, <2>2, <2>3
  <2>5. l = 1
    BY <2>4
  <2>. QED  BY <2>3, <2>5
<1>21. written = <<written[1]>>
  BY <1>20 DEF ItnInvariant
<1>. QED  BY <1>16, <1>19, <1>21

(* itn/ru.go 182-246, 329-345: whatever is said, no rule takes words from  *)
(* both sides of a pause, and a number below a million that is all that is *)
(* said, alone or with its roubles, is written as it was said.             *)
THEOREM NumbersAreKept == ItnSpec => [](NumbersAreRead /\ NoPauseInside)
<1>1. ItnInvariant => NumbersAreRead /\ NoPauseInside
  BY NumbersFollow DEF ItnInvariant
<1>. QED  BY <1>1, ItnInvariantStarts, ItnInvariantStays, PTL DEF ItnSpec

-----------------------------------------------------------------------------
(* The punctuator (internal/postproc/punct.go).                            *)

(* What holds of <<>> and stays when something is added holds of all.      *)
LEMMA OneByOne ==
    ASSUME NEW S, NEW P, <<>> \in P,
           \A w \in Seq(S) : \A c \in S : w \in P => Append(w, c) \in P
    PROVE  \A w \in Seq(S) : w \in P
<1> DEFINE Q == {n \in Nat : \A w \in Seq(S) : Len(w) = n => w \in P}
<1>1. 0 \in Q
  <2>1. \A w \in Seq(S) : Len(w) = 0 => w = <<>>
    OBVIOUS
  <2>. QED  BY <2>1
<1>2. ASSUME NEW n \in Nat, n \in Q PROVE n + 1 \in Q
  <2> SUFFICES ASSUME NEW w \in Seq(S), Len(w) = n + 1 PROVE w \in P
    OBVIOUS
  <2>1. PICK v : v = [i \in 1..n |-> w[i]]
    OBVIOUS
  <2>2. v \in Seq(S) /\ Len(v) = n
    BY <2>1
  <2>3. w[n + 1] \in S
    OBVIOUS
  <2>4. w = Append(v, w[n + 1])
    BY <2>1, <2>2
  <2>5. v \in P
    BY <1>2, <2>2
  <2>. QED  BY <2>2, <2>3, <2>4, <2>5
<1>3. \A n \in Nat : n \in Q
  <2> HIDE DEF Q
  <2>. QED  BY <1>1, <1>2, CountingUp
<1>. QED  BY <1>3

(* Only, one character after the other.                                    *)
Picks(w, K, g) == g = [i \in 0..Len(w) |-> IF i = 0 THEN <<>> ELSE IF w[i].kind \in K THEN Append(g[i - 1], w[i]) ELSE g[i - 1]]

(* What the rounds of Only are.                                            *)
PicksOf(S, w, K, g) ==
    /\ Only(w, K) = g[Len(w)] /\ g[0] = <<>>
    /\ \A i \in 1..Len(w) : g[i] = IF w[i].kind \in K THEN Append(g[i - 1], w[i]) ELSE g[i - 1]
    /\ \A i \in 0..Len(w) : g[i] \in Seq(S)

(* Only has all of its rounds.                                             *)
LEMMA OnlyLoops ==
    ASSUME NEW S, NEW w \in Seq(S), NEW K
    PROVE  \E g : PicksOf(S, w, K, g)
<1> DEFINE l == Len(w)
           round == [q \in Seq(S) \X (1..l) |-> IF w[q[2]].kind \in K THEN Append(q[1], w[q[2]]) ELSE q[1]]
<1>1. l \in Nat /\ <<>> \in Seq(S) /\ \A i \in 1..l : w[i] \in S
  OBVIOUS
<1>2. \A x \in Seq(S), i \in 1..l : round[<<x, i>>] = IF w[i].kind \in K THEN Append(x, w[i]) ELSE x
  OBVIOUS
<1>3. \A x \in Seq(S), i \in 1..l : (IF w[i].kind \in K THEN Append(x, w[i]) ELSE x) \in Seq(S)
  BY <1>1
<1> HIDE DEF round, l
<1>4. Stays(Seq(S), round, l)
  BY <1>2, <1>3 DEF Stays
<1>5. PICK f \in [0..l -> Seq(S)] : Rounds(f, <<>>, round, l)
  BY <1>1, <1>4, LoopRuns
<1>6. \A i \in 0..l : i # 0 => i - 1 \in 0..l /\ i \in 1..l
  BY <1>1
<1>7. Picks(w, K, f)
  <2>1. f = [i \in 0..l |-> IF i = 0 THEN <<>> ELSE IF w[i].kind \in K THEN Append(f[i - 1], w[i]) ELSE f[i - 1]]
    BY <1>2, <1>5, <1>6 DEF Rounds
  <2>. QED  BY <2>1, Zenon DEF Picks, l
<1>8. Only(w, K) = (CHOOSE g : Picks(w, K, g))[Len(w)]
  BY Zenon DEF Only, Picks
<1>9. PICK g : Only(w, K) = g[Len(w)] /\ Picks(w, K, g)
  BY <1>7, <1>8, Zenon
<1>10. 0 \in 0..l /\ \A i \in 1..l : i \in 0..l /\ i # 0
  BY <1>1
<1>11. /\ g[0] = <<>>
       /\ \A i \in 1..l : g[i] = IF w[i].kind \in K THEN Append(g[i - 1], w[i]) ELSE g[i - 1]
  BY <1>9, <1>10 DEF Picks, l
<1>12. \A i \in 0..l : g[i] \in Seq(S)
  <2> DEFINE Q == {i \in Nat : i <= l => g[i] \in Seq(S)}
  <2>1. 0 \in Q
    BY <1>1, <1>11
  <2>2. ASSUME NEW i \in Nat, i \in Q PROVE i + 1 \in Q
    <3> SUFFICES ASSUME i + 1 <= l PROVE g[i + 1] \in Seq(S)
      OBVIOUS
    <3>1. i + 1 \in 1..l /\ i + 1 - 1 = i /\ g[i] \in Seq(S)
      BY <1>1, <2>2
    <3>2. g[i + 1] = IF w[i + 1].kind \in K THEN Append(g[i], w[i + 1]) ELSE g[i]
      BY <1>11, <3>1
    <3>. QED  BY <1>1, <3>1, <3>2
  <2>3. \A i \in Nat : i \in Q
    <3> HIDE DEF Q
    <3>. QED  BY <2>1, <2>2, CountingUp
  <2>. QED  BY <1>1, <2>3
<1>. QED  BY <1>9, <1>11, <1>12 DEF l, PicksOf

(* There is nothing in <<>>.                                               *)
LEMMA OnlyOfNothing == \A K : Only(<<>>, K) = <<>>
<1> TAKE K
<1>1. PICK w : w = <<>>
  OBVIOUS
<1>2. w \in Seq({}) /\ Len(w) = 0
  BY <1>1
<1>3. PICK g : PicksOf({}, w, K, g)
  BY <1>2, OnlyLoops, Zenon
<1>4. Only(w, K) = <<>>
  BY <1>2, <1>3, Zenon DEF PicksOf
<1>. QED  BY <1>1, <1>4, Zenon

(* A character more is picked, or it is not.                               *)
LEMMA OnlyOneMore ==
    ASSUME NEW S, NEW w \in Seq(S), NEW c \in S, NEW K
    PROVE  /\ Only(Append(w, c), K) = IF c.kind \in K THEN Append(Only(w, K), c) ELSE Only(w, K)
           /\ Only(w, K) \in Seq(S)
<1>1. PICK g : PicksOf(S, w, K, g)
  BY OnlyLoops, Zenon
<1>2. PICK v \in Seq(S) : v = Append(w, c)
  <2>1. Append(w, c) \in Seq(S)
    OBVIOUS
  <2>. QED  BY <2>1, Zenon
<1>3. PICK h : PicksOf(S, v, K, h)
  BY OnlyLoops, Zenon
<1>4. Len(v) = Len(w) + 1 /\ v[Len(w) + 1] = c /\ Len(w) \in Nat /\ \A i \in 1..Len(w) : v[i] = w[i]
  BY <1>2
<1> DEFINE Q == {i \in Nat : i <= Len(w) => h[i] = g[i]}
<1>5. 0 \in Q
  BY <1>1, <1>3 DEF PicksOf
<1>6. ASSUME NEW i \in Nat, i \in Q PROVE i + 1 \in Q
  <2> SUFFICES ASSUME i + 1 <= Len(w) PROVE h[i + 1] = g[i + 1]
    OBVIOUS
  <2>1. i + 1 \in 1..Len(w) /\ i + 1 \in 1..Len(v) /\ i + 1 - 1 = i /\ h[i] = g[i] /\ v[i + 1] = w[i + 1]
    BY <1>4, <1>6
  <2>. QED  BY <1>1, <1>3, <2>1 DEF PicksOf
<1>7. h[Len(w)] = g[Len(w)]
  <2>1. \A i \in Nat : i \in Q
    <3> HIDE DEF Q
    <3>. QED  BY <1>5, <1>6, CountingUp
  <2>. QED  BY <1>4, <2>1
<1>8. h[Len(w) + 1] = IF c.kind \in K THEN Append(h[Len(w)], c) ELSE h[Len(w)]
  <2>1. Len(w) + 1 \in 1..Len(v) /\ Len(w) + 1 - 1 = Len(w)
    BY <1>4
  <2>. QED  BY <1>3, <1>4, <2>1 DEF PicksOf
<1>9. Len(w) \in 0..Len(w)
  BY <1>4
<1>. QED  BY <1>1, <1>2, <1>3, <1>4, <1>7, <1>8, <1>9 DEF PicksOf

(* What is picked is a sequence of the same.                               *)
LEMMA OnlyIsSeq ==
    ASSUME NEW S, NEW w \in Seq(S), NEW K
    PROVE  Only(w, K) \in Seq(S)
<1>1. PICK g : PicksOf(S, w, K, g)
  BY OnlyLoops, Zenon
<1>2. Len(w) \in 0..Len(w)
  OBVIOUS
<1>. QED  BY <1>1, <1>2 DEF PicksOf

(* What is added to two sequences is added to the second.                  *)
AddedLast(x, y, c) == Append(x \o y, c) = x \o Append(y, c)

(* And so it is.                                                           *)
LEMMA AppendsTo ==
    ASSUME NEW S, NEW x \in Seq(S), NEW y \in Seq(S), NEW c \in S
    PROVE  AddedLast(x, y, c)
<1>1. /\ DOMAIN Append(x \o y, c) = DOMAIN (x \o Append(y, c))
      /\ \A i \in DOMAIN Append(x \o y, c) : Append(x \o y, c)[i] = (x \o Append(y, c))[i]
  OBVIOUS
<1>. QED  BY <1>1, SMTT(30) DEF AddedLast

(* What is picked of two sequences is picked of each.                      *)
TakenApart(a, b, K) == Only(a \o b, K) = Only(a, K) \o Only(b, K)

(* Only goes through one after the other.                                  *)
LEMMA OnlyOfBoth ==
    ASSUME NEW S, NEW a \in Seq(S), NEW K
    PROVE  \A b \in Seq(S) : TakenApart(a, b, K)
<1> DEFINE P == {b \in Seq(S) : Only(a \o b, K) = Only(a, K) \o Only(b, K)}
<1>1. Only(a, K) \in Seq(S)
  BY OnlyIsSeq
<1>2. <<>> \in P
  <2>1. a \o <<>> = a /\ Only(a, K) \o <<>> = Only(a, K) /\ <<>> \in Seq(S)
    BY <1>1
  <2>2. Only(<<>>, K) = <<>>
    BY OnlyOfNothing
  <2>. QED  BY <2>1, <2>2
<1>3. ASSUME NEW w \in Seq(S), NEW c \in S, w \in P PROVE Append(w, c) \in P
  <2>1. a \o w \in Seq(S) /\ Append(w, c) \in Seq(S) /\ a \o Append(w, c) = Append(a \o w, c)
    OBVIOUS
  <2>2. PICK v \in Seq(S) : v = a \o w
    BY <2>1, Zenon
  <2>3. Only(Append(v, c), K) = IF c.kind \in K THEN Append(Only(v, K), c) ELSE Only(v, K)
    BY OnlyOneMore
  <2>4. Only(Append(w, c), K) = IF c.kind \in K THEN Append(Only(w, K), c) ELSE Only(w, K)
    BY OnlyOneMore
  <2>5. Only(w, K) \in Seq(S)
    BY OnlyIsSeq
  <2>6. Only(v, K) = Only(a, K) \o Only(w, K)
    BY <1>3, <2>2
  <2>7. Append(Only(a, K) \o Only(w, K), c) = Only(a, K) \o Append(Only(w, K), c)
    <3>1. PICK x \in Seq(S) : x = Only(a, K)
      BY <1>1, Zenon
    <3>2. PICK y \in Seq(S) : y = Only(w, K)
      BY <2>5, Zenon
    <3>3. c \in S
      OBVIOUS
    <3>4. Append(x \o y, c) = x \o Append(y, c)
      <4>1. AddedLast(x, y, c)
        BY AppendsTo, Zenon
      <4>. QED  BY <4>1 DEF AddedLast
    <3>. QED  BY <3>1, <3>2, <3>4, Zenon
  <2>8. Only(Append(v, c), K) = Only(a, K) \o Only(Append(w, c), K)
    <3>1. CASE c.kind \in K
      BY <2>3, <2>4, <2>6, <2>7, <3>1, Zenon
    <3>2. CASE c.kind \notin K
      BY <2>3, <2>4, <2>6, <3>2, Zenon
    <3>. QED  BY <3>1, <3>2
  <2>. QED  BY <2>1, <2>2, <2>8
<1>4. \A b \in Seq(S) : b \in P
  <2>1. \A w \in Seq(S) : \A c \in S : w \in P => Append(w, c) \in P
    BY <1>3
  <2> HIDE DEF P
  <2>. QED  BY <1>2, <2>1, OneByOne
<1>. QED  BY <1>4 DEF TakenApart

(* Picking twice is picking once.                                          *)
LEMMA OnlyOfOnly ==
    ASSUME NEW S, NEW K, NEW L, L \subseteq K
    PROVE  \A w \in Seq(S) : Only(Only(w, K), L) = Only(w, L)
<1> DEFINE P == {w \in Seq(S) : Only(Only(w, K), L) = Only(w, L)}
<1>1. <<>> \in P
  <2>1. <<>> \in Seq(S)
    OBVIOUS
  <2>. QED  BY <2>1, OnlyOfNothing
<1>2. ASSUME NEW w \in Seq(S), NEW c \in S, w \in P PROVE Append(w, c) \in P
  <2>1. Append(w, c) \in Seq(S)
    OBVIOUS
  <2>2. PICK v \in Seq(S) : v = Only(w, K)
    BY OnlyIsSeq
  <2>3. Only(Append(w, c), K) = IF c.kind \in K THEN Append(v, c) ELSE v
    BY <2>2, OnlyOneMore
  <2>4. Only(Append(w, c), L) = IF c.kind \in L THEN Append(Only(w, L), c) ELSE Only(w, L)
    BY OnlyOneMore
  <2>5. Only(Append(v, c), L) = IF c.kind \in L THEN Append(Only(v, L), c) ELSE Only(v, L)
    BY OnlyOneMore
  <2>6. Only(v, L) = Only(w, L)
    BY <1>2, <2>2
  <2>7. Only(Only(Append(w, c), K), L) = Only(Append(w, c), L)
    <3>1. CASE c.kind \in K
      BY <2>3, <2>4, <2>5, <2>6, <3>1, Zenon
    <3>2. CASE c.kind \notin K
      <4>1. c.kind \notin L
        BY <3>2
      <4>. QED  BY <2>3, <2>4, <2>6, <3>2, <4>1, Zenon
    <3>. QED  BY <3>1, <3>2
  <2>. QED  BY <2>1, <2>7
<1>3. \A w \in Seq(S) : w \in P
  <2>1. \A w \in Seq(S) : \A c \in S : w \in P => Append(w, c) \in P
    BY <1>2
  <2> HIDE DEF P
  <2>. QED  BY <1>1, <2>1, OneByOne
<1>. QED  BY <1>3

(* Where there is nothing of the kinds, nothing is picked.                 *)
LEMMA OnlyOfNone ==
    ASSUME NEW S, NEW K, NEW w \in Seq(S), \A k \in 1..Len(w) : w[k].kind \notin K
    PROVE  Only(w, K) = <<>>
<1>1. PICK g : PicksOf(S, w, K, g)
  BY OnlyLoops, Zenon
<1> DEFINE Q == {i \in Nat : i <= Len(w) => g[i] = <<>>}
<1>2. 0 \in Q
  BY <1>1 DEF PicksOf
<1>3. ASSUME NEW i \in Nat, i \in Q PROVE i + 1 \in Q
  <2> SUFFICES ASSUME i + 1 <= Len(w) PROVE g[i + 1] = <<>>
    OBVIOUS
  <2>1. i + 1 \in 1..Len(w) /\ i + 1 - 1 = i /\ g[i] = <<>>
    BY <1>3
  <2>2. g[i + 1] = IF w[i + 1].kind \in K THEN Append(g[i], w[i + 1]) ELSE g[i]
    BY <1>1, <2>1 DEF PicksOf
  <2>. QED  BY <2>1, <2>2
<1>4. \A i \in Nat : i \in Q
  <2> HIDE DEF Q
  <2>. QED  BY <1>2, <1>3, CountingUp
<1>5. Len(w) \in Nat
  OBVIOUS
<1>. QED  BY <1>1, <1>4, <1>5 DEF PicksOf

(* A part of a sequence, by its positions.                                 *)
PartOf(src, a, b, v) ==
    /\ Len(v) = b - a + 1
    /\ \A k \in 1..(b - a + 1) : a + k - 1 \in 1..Len(src) /\ v[k] = src[a + k - 1]

(* What SubSeq is.                                                         *)
LEMMA PartIs ==
    ASSUME NEW S, NEW src \in Seq(S), NEW a \in Nat \ {0}, NEW b \in Nat, b <= Len(src), b >= a - 1
    PROVE  SubSeq(src, a, b) \in Seq(S) /\ PartOf(src, a, b, SubSeq(src, a, b))
<1>1. SubSeq(src, a, b) \in Seq(S)
  OBVIOUS
<1>2. Len(SubSeq(src, a, b)) = b - a + 1
  OBVIOUS
<1>3. \A k \in 1..(b - a + 1) : a + k - 1 \in 1..Len(src) /\ SubSeq(src, a, b)[k] = src[a + k - 1]
  OBVIOUS
<1>. QED  BY <1>1, <1>2, <1>3 DEF PartOf

(* A part that ends with its first letter has that letter.                 *)
LEMMA OnlyItsLetter ==
    ASSUME NEW src \in Seq(Char), NEW a \in Nat \ {0}, NEW m \in a..Len(src), NEW K,
           src[m].kind \in K, \A k \in a..(m - 1) : src[k].kind \notin K
    PROVE  SubSeq(src, a, m) \in Seq(Char) /\ Only(SubSeq(src, a, m), K) = <<src[m]>>
<1>1. m \in Nat /\ m - 1 \in Nat /\ m <= Len(src) /\ m - 1 >= a - 1 /\ Len(src) \in Nat
  OBVIOUS
<1>2. PICK v \in Seq(Char) : PartOf(src, a, m - 1, v)
  <2>1. PICK b \in Nat : b = m - 1
    BY <1>1
  <2>2. b <= Len(src) /\ b >= a - 1
    BY <1>1, <2>1
  <2>3. SubSeq(src, a, b) \in Seq(Char) /\ PartOf(src, a, b, SubSeq(src, a, b))
    BY <2>2, PartIs
  <2>. QED  BY <2>1, <2>3, Zenon
<1>3. PICK u \in Seq(Char) : u = SubSeq(src, a, m) /\ PartOf(src, a, m, u)
  <2>1. m \in Nat /\ m <= Len(src) /\ m >= a - 1
    BY <1>1
  <2>2. SubSeq(src, a, m) \in Seq(Char) /\ PartOf(src, a, m, SubSeq(src, a, m))
    BY <2>1, PartIs
  <2>. QED  BY <2>2, Zenon
<1>4. src[m] \in Char
  BY <1>1
<1>5. u = Append(v, src[m])
  <2>1. Len(v) = m - a /\ \A k \in 1..(m - a) : v[k] = src[a + k - 1]
    BY <1>1, <1>2 DEF PartOf
  <2>2. Len(u) = m - a + 1 /\ \A k \in 1..(m - a + 1) : u[k] = src[a + k - 1]
    BY <1>3 DEF PartOf
  <2>3. m - a \in Nat
    BY <1>1
  <2>4. \A k \in 1..(m - a) : u[k] = v[k]
    BY <2>1, <2>2, <2>3
  <2>5. u[m - a + 1] = src[m]
    <3>1. m - a + 1 \in 1..(m - a + 1) /\ a + (m - a + 1) - 1 = m
      BY <2>3
    <3>. QED  BY <2>2, <3>1
  <2>. QED  BY <2>1, <2>2, <2>3, <2>4, <2>5, <1>4
<1>6. Only(v, K) = <<>>
  <2>1. Len(v) = m - a /\ \A k \in 1..(m - a) : v[k] = src[a + k - 1]
    BY <1>1, <1>2 DEF PartOf
  <2>2. SUFFICES ASSUME NEW k \in 1..(m - a) PROVE v[k].kind \notin K
    BY <2>1, OnlyOfNone
  <2>3. a + k - 1 \in a..(m - 1)
    BY <1>1
  <2>. QED  BY <2>1, <2>3
<1>7. Only(u, K) = Append(<<>>, src[m])
  BY <1>4, <1>5, <1>6, OnlyOneMore, Zenon
<1>8. Append(<<>>, src[m]) = <<src[m]>>
  OBVIOUS
<1>. QED  BY <1>3, <1>7, <1>8

(* The smallest of some numbers.                                           *)
LEMMA SmallestIs ==
    ASSUME NEW U \in SUBSET Nat, U # {}
    PROVE  Min(U) \in U /\ \A x \in U : Min(U) <= x
<1>1. \E x \in U : \A y \in U : x <= y
  <2>1. PICK x \in U : \A y \in U : <<y, x>> \notin OpToRel(<, Nat)
    BY NatLessThanWellFounded, WFMin
  <2>2. \A y \in U : ~(y < x)
    BY <2>1 DEF OpToRel
  <2>. QED  BY <2>2
<1>2. Min(U) = CHOOSE x \in U : \A y \in U : x <= y
  BY Zenon DEF Min
<1>. QED  BY <1>1, <1>2, Zenon

(* The marks that trail.                                                   *)
LEMMA TrailingAre ==
    ASSUME NEW src \in Seq(Char), NEW pos \in Nat \ {0}
    PROVE  /\ Trailing(src, pos) \in Nat
           /\ SubSeq(src, pos, pos + Trailing(src, pos) - 1) \in Seq(Char)
           /\ Only(SubSeq(src, pos, pos + Trailing(src, pos) - 1), {"letter"}) = <<>>
<1> DEFINE T == {k \in 1..(Len(src) - pos + 1) : \A i \in pos..(pos + k - 1) : IsMark(src[i])}
<1>1. Len(src) \in Nat
  OBVIOUS
<1>2. PICK t : t = Trailing(src, pos)
  OBVIOUS
<1>3. t = 0 \/ t \in T
  <2>1. \E x \in {0} \cup T : \A y \in {0} \cup T : x >= y
    <3> DEFINE U == {n \in Nat : n <= Len(src) /\ Len(src) - n \in {0} \cup T}
    <3>1. \A x \in {0} \cup T : x \in Nat /\ x <= Len(src)
      BY <1>1
    <3>2. Len(src) \in U
      BY <1>1
    <3>3. U \in SUBSET Nat /\ U # {}
      BY <3>2
    <3>4. PICK n \in U : \A y \in U : n <= y
      <4> HIDE DEF U
      <4>. QED  BY <3>3, SmallestIs
    <3>5. Len(src) - n \in {0} \cup T
      BY <3>4
    <3>6. \A y \in {0} \cup T : Len(src) - n >= y
      <4> SUFFICES ASSUME NEW y \in {0} \cup T PROVE Len(src) - n >= y
        OBVIOUS
      <4>1. y \in Nat /\ y <= Len(src)
        BY <3>1
      <4> HIDE DEF T
      <4>2. Len(src) - y \in Nat /\ Len(src) - y <= Len(src) /\ Len(src) - (Len(src) - y) = y
        BY <1>1, <4>1
      <4>3. Len(src) - y \in U
        BY <4>2
      <4>. QED  BY <1>1, <3>4, <4>1, <4>3
    <3>. QED  BY <3>5, <3>6
  <2>2. t = Max({0} \cup T)
    BY <1>2, Zenon DEF Trailing
  <2>3. t = CHOOSE x \in {0} \cup T : \A y \in {0} \cup T : x >= y
    BY <2>2, Zenon DEF Max
  <2>4. t \in {0} \cup T
    <3> HIDE DEF T
    <3>. QED  BY <2>1, <2>3, Zenon
  <2>. QED  BY <2>4
<1>4. t \in Nat
  BY <1>1, <1>3
<1>5. PICK b : b = pos + t - 1
  OBVIOUS
<1>6. SubSeq(src, pos, b) \in Seq(Char) /\ Only(SubSeq(src, pos, b), {"letter"}) = <<>>
  <2>1. CASE t = 0
    <3>1. b = pos - 1
      BY <1>5, <2>1
    <3>2. SubSeq(src, pos, b) = <<>>
      BY <1>1, <3>1
    <3>3. <<>> \in Seq(Char)
      OBVIOUS
    <3>. QED  BY <3>2, <3>3, OnlyOfNothing, Zenon
  <2>2. CASE t \in T
    <3>1. b \in Nat /\ b <= Len(src) /\ b >= pos - 1 /\ \A i \in pos..b : IsMark(src[i])
      BY <1>1, <1>5, <2>2
    <3>2. PICK v \in Seq(Char) : v = SubSeq(src, pos, b) /\ PartOf(src, pos, b, v)
      <4>1. SubSeq(src, pos, b) \in Seq(Char) /\ PartOf(src, pos, b, SubSeq(src, pos, b))
        BY <3>1, PartIs
      <4>. QED  BY <4>1, Zenon
    <3>3. \A k \in 1..Len(v) : v[k].kind \notin {"letter"}
      <4> SUFFICES ASSUME NEW k \in 1..Len(v) PROVE v[k].kind \notin {"letter"}
        OBVIOUS
      <4>1. k \in 1..(b - pos + 1)
        BY <3>2 DEF PartOf
      <4>2. v[k] = src[pos + k - 1] /\ pos + k - 1 \in pos..b
        BY <3>1, <3>2, <4>1 DEF PartOf
      <4>3. src[pos + k - 1].kind = "mark"
        BY <3>1, <4>2 DEF IsMark
      <4>. QED  BY <4>2, <4>3
    <3>4. Only(v, {"letter"}) = <<>>
      BY <3>3, OnlyOfNone
    <3>. QED  BY <3>2, <3>4
  <2>. QED  BY <1>3, <2>1, <2>2
<1>. QED  BY <1>2, <1>4, <1>5, <1>6

(* Where reattach is, and the kinds of what it looks for and keeps.        *)
Attached == [ok : BOOLEAN, pos : Nat \ {0}, word : Seq(Char), out : Seq(Seq(Char))]
Letters == {"letter"}
Carried == {"letter", "mark"}

(* One letter more.                                                        *)
OneLetterMore(r, q, want) ==
    q.ok => r.ok /\ \E c \in Char : Small(c) = want /\ Only(q.word, Letters) = Append(Only(r.word, Letters), c)

(* wantLetter (punct.go 149-153) takes the next letter if it is the one    *)
(* that is wanted, and nothing else that is a letter.                      *)
LEMMA LetterWanted ==
    ASSUME NEW r \in Attached, NEW src \in Seq(Char), NEW want
    PROVE  /\ WantLetter(r, src, want) \in Attached
           /\ WantLetter(r, src, want).out = r.out
           /\ OneLetterMore(r, WantLetter(r, src, want), want)
<1> DEFINE here == {k \in r.pos..Len(src) : IsLetter(src[k])}
<1>0. Len(src) \in Nat /\ r.pos \in Nat \ {0} /\ r.word \in Seq(Char) /\ r.out \in Seq(Seq(Char)) /\ r.ok \in BOOLEAN
  BY DEF Attached
<1>1. CASE r.ok /\ here # {} /\ Small(src[Min(here)]) = want
  <2>1. here \in SUBSET Nat
    BY <1>0
  <2>2. Min(here) \in here /\ \A x \in here : Min(here) <= x
    <3> HIDE DEF here
    <3>. QED  BY <1>1, <2>1, SmallestIs
  <2>3. PICK m : m = Min(here)
    OBVIOUS
  <2>4. m \in r.pos..Len(src) /\ src[m].kind = "letter" /\ src[m] \in Char /\ m + 1 \in Nat \ {0}
    BY <1>0, <2>2, <2>3 DEF IsLetter
  <2>5. \A k \in r.pos..(m - 1) : src[k].kind \notin Letters
    <3> SUFFICES ASSUME NEW k \in r.pos..(m - 1), src[k].kind = "letter" PROVE FALSE
      BY DEF Letters
    <3>1. k \in here /\ k < m
      BY <1>0, <2>4 DEF IsLetter
    <3>. QED  BY <1>0, <2>2, <2>3, <2>4, <3>1
  <2>6. PICK piece \in Seq(Char) : piece = SubSeq(src, r.pos, m) /\ Only(piece, Letters) = <<src[m]>>
    <3>1. src[m].kind \in Letters
      BY <2>4 DEF Letters
    <3>2. SubSeq(src, r.pos, m) \in Seq(Char) /\ Only(SubSeq(src, r.pos, m), Letters) = <<src[m]>>
      <4>1. PICK p \in Nat \ {0} : p = r.pos
        BY <1>0
      <4>2. m \in p..Len(src) /\ \A k \in p..(m - 1) : src[k].kind \notin Letters
        BY <2>4, <2>5, <4>1, Zenon
      <4>3. SubSeq(src, p, m) \in Seq(Char) /\ Only(SubSeq(src, p, m), Letters) = <<src[m]>>
        <5>1. src \in Seq(Char) /\ p \in Nat \ {0}
          BY <4>1
        <5>. QED  BY ONLY <5>1, <4>2, <3>1, OnlyItsLetter
      <4>. QED  BY ONLY <4>1, <4>3
    <3>. QED  BY <3>2, Zenon
  <2>7. PICK more \in Seq(Char) : more = Only(piece, Carried) /\ Only(more, Letters) = <<src[m]>>
    <3>1. Only(piece, Carried) \in Seq(Char)
      BY OnlyIsSeq
    <3>2. Letters \subseteq Carried
      BY DEF Letters, Carried
    <3>3. Only(Only(piece, Carried), Letters) = Only(piece, Letters)
      BY <3>2, OnlyOfOnly
    <3>. QED  BY <2>6, <3>1, <3>3, Zenon
  <2>8. WantLetter(r, src, want) = [r EXCEPT !.pos = m + 1, !.word = @ \o more]
    BY <1>1, <2>3, <2>6, <2>7, Zenon DEF WantLetter, Carried
  <2>9. r.word \o more \in Seq(Char)
    BY <1>0
  <2>10. Only(r.word \o more, Letters) = Append(Only(r.word, Letters), src[m])
    <3>1. Only(r.word \o more, Letters) = Only(r.word, Letters) \o Only(more, Letters)
      <4>1. r.word \in Seq(Char) /\ more \in Seq(Char)
        BY <1>0
      <4>2. TakenApart(r.word, more, Letters)
        BY <4>1, OnlyOfBoth, Zenon
      <4>. QED  BY <4>2, Zenon DEF TakenApart
    <3>2. PICK y \in Seq(Char) : y = Only(r.word, Letters)
      BY <1>0, OnlyIsSeq
    <3>3. y \o <<src[m]>> = Append(y, src[m])
      BY <2>4
    <3>. QED  BY <2>7, <3>1, <3>2, <3>3
  <2>11. PICK q : q = WantLetter(r, src, want)
    OBVIOUS
  <2>12. q \in Attached /\ q.out = r.out /\ q.word = r.word \o more
    BY <1>0, <2>4, <2>8, <2>9, <2>11 DEF Attached
  <2>13. OneLetterMore(r, q, want)
    <3>1. Small(src[m]) = want
      BY <1>1, <2>3
    <3>. QED  BY <1>1, <2>4, <2>10, <2>12, <3>1 DEF OneLetterMore
  <2>. QED  BY <2>11, <2>12, <2>13
<1>2. CASE ~(r.ok /\ here # {} /\ Small(src[Min(here)]) = want)
  <2>1. WantLetter(r, src, want) = [r EXCEPT !.ok = FALSE]
    BY <1>2, Zenon DEF WantLetter
  <2>2. PICK q : q = WantLetter(r, src, want)
    OBVIOUS
  <2>3. q \in Attached /\ q.out = r.out /\ ~q.ok
    BY <1>0, <2>1, <2>2 DEF Attached
  <2>. QED  BY <2>2, <2>3 DEF OneLetterMore
<1>. QED  BY <1>1, <1>2

(* The letters of w are the first i that are wanted.                       *)
Has(w, want, i) ==
    /\ Len(Only(w, Letters)) = i
    /\ \A k \in 1..i : Small(Only(w, Letters)[k]) = want[k]

(* One letter more of those that are wanted.                               *)
LEMMA HasOneMore ==
    ASSUME NEW r \in Attached, NEW q \in Attached, NEW want, NEW i \in Nat,
           q.ok, OneLetterMore(r, q, want[i + 1]), Has(r.word, want, i)
    PROVE  r.ok /\ Has(q.word, want, i + 1)
<1>1. PICK c \in Char : Small(c) = want[i + 1] /\ Only(q.word, Letters) = Append(Only(r.word, Letters), c)
  BY DEF OneLetterMore
<1>2. r.ok
  BY DEF OneLetterMore
<1>3. PICK x \in Seq(Char) : x = Only(r.word, Letters)
  <2>1. r.word \in Seq(Char)
    BY DEF Attached
  <2>. QED  BY <2>1, OnlyIsSeq
<1>4. Len(x) = i /\ \A k \in 1..i : Small(x[k]) = want[k]
  BY <1>3, Zenon DEF Has
<1>5. PICK y : y = Append(x, c)
  OBVIOUS
<1>6. Len(y) = i + 1 /\ y[i + 1] = c /\ \A k \in 1..i : y[k] = x[k]
  BY <1>4, <1>5
<1>7. \A k \in 1..(i + 1) : Small(y[k]) = want[k]
  <2> SUFFICES ASSUME NEW k \in 1..(i + 1) PROVE Small(y[k]) = want[k]
    OBVIOUS
  <2>1. k = i + 1 \/ k \in 1..i
    OBVIOUS
  <2>2. CASE k = i + 1
    BY <1>1, <1>6, <2>2, Zenon
  <2>3. CASE k \in 1..i
    BY <1>4, <1>6, <2>3, Zenon
  <2>. QED  BY <2>1, <2>2, <2>3
<1>8. y = Only(q.word, Letters)
  BY <1>1, <1>3, <1>5, Zenon
<1>9. Has(q.word, want, i + 1)
  BY <1>6, <1>7, <1>8, Zenon DEF Has
<1>. QED  BY <1>2, <1>9

(* ReattachWord, one wanted letter after the other.                        *)
WantsEach(r, src, want, g) ==
    g = [i \in 0..Len(want) |-> IF i = 0 THEN [r EXCEPT !.word = <<>>] ELSE WantLetter(g[i - 1], src, want[i])]

(* The end of a word, its trailing marks with it.                          *)
Attaches(end, src) ==
    LET tail == IF end.ok THEN Trailing(src, end.pos) ELSE 0
    IN  IF ~end.ok \/ end.word = <<>> THEN [end EXCEPT !.ok = FALSE]
        ELSE [end EXCEPT !.pos = @ + tail,
                         !.out = Append(@, end.word \o SubSeq(src, end.pos, end.pos + tail - 1))]

(* The letters of a word.                                                  *)
WantedIn(word) == Lower(Only(word, Letters))

(* What the rounds of ReattachWord are.                                    *)
WantsEachOf(r, src, want, g) ==
    /\ g[0] = [r EXCEPT !.word = <<>>]
    /\ \A i \in 1..Len(want) : g[i] = WantLetter(g[i - 1], src, want[i])
    /\ \A i \in 0..Len(want) : g[i] \in Attached

(* ReattachWord has all of its rounds.                                     *)
LEMMA ReattachWordLoops ==
    ASSUME NEW r \in Attached, NEW src \in Seq(Char), NEW word, Len(WantedIn(word)) \in Nat
    PROVE  \E g : /\ ReattachWord(r, src, word) = Attaches(g[Len(WantedIn(word))], src)
                  /\ WantsEachOf(r, src, WantedIn(word), g)
<1>0. PICK want : want = WantedIn(word)
  OBVIOUS
<1> DEFINE l == Len(want)
           base == [r EXCEPT !.word = <<>>]
           round == [q \in Attached \X (1..l) |-> WantLetter(q[1], src, want[q[2]])]
<1>1. l \in Nat
  BY <1>0
<1>2. base \in Attached
  <2>1. <<>> \in Seq(Char)
    OBVIOUS
  <2>. QED  BY <2>1 DEF Attached
<1>3. \A x \in Attached, i \in 1..l : round[<<x, i>>] = WantLetter(x, src, want[i])
  OBVIOUS
<1>4. \A x \in Attached, i \in 1..l : WantLetter(x, src, want[i]) \in Attached
  BY LetterWanted
<1> HIDE DEF round, l, base
<1>5. Stays(Attached, round, l)
  BY <1>3, <1>4 DEF Stays
<1>6. PICK f \in [0..l -> Attached] : Rounds(f, base, round, l)
  BY <1>1, <1>2, <1>5, LoopRuns
<1>7. \A i \in 0..l : i # 0 => i - 1 \in 0..l /\ i \in 1..l
  BY <1>1
<1>8. WantsEach(r, src, want, f)
  <2>1. f = [i \in 0..l |-> IF i = 0 THEN base ELSE WantLetter(f[i - 1], src, want[i])]
    BY <1>3, <1>6, <1>7 DEF Rounds
  <2>. QED  BY <2>1, Zenon DEF WantsEach, l, base
<1>9. ReattachWord(r, src, word) = Attaches((CHOOSE g : WantsEach(r, src, want, g))[Len(want)], src)
  <2>1. ReattachWord(r, src, word)
          = Attaches((CHOOSE g : WantsEach(r, src, WantedIn(word), g))[Len(WantedIn(word))], src)
    BY Zenon DEF ReattachWord, Attaches, WantsEach, WantedIn, Letters
  <2>. QED  BY <1>0, <2>1
<1>10. PICK g : ReattachWord(r, src, word) = Attaches(g[Len(want)], src) /\ WantsEach(r, src, want, g)
  BY <1>8, <1>9, Zenon
<1>11. 0 \in 0..l /\ \A i \in 1..l : i \in 0..l /\ i # 0
  BY <1>1
<1>12. /\ g[0] = base
       /\ \A i \in 1..l : g[i] = WantLetter(g[i - 1], src, want[i])
  BY <1>10, <1>11 DEF WantsEach, l, base
<1>13. \A i \in 0..l : g[i] \in Attached
  <2> DEFINE Q == {i \in Nat : i <= l => g[i] \in Attached}
  <2>1. 0 \in Q
    BY <1>2, <1>12
  <2>2. ASSUME NEW i \in Nat, i \in Q PROVE i + 1 \in Q
    <3> SUFFICES ASSUME i + 1 <= l PROVE g[i + 1] \in Attached
      OBVIOUS
    <3>1. i + 1 \in 1..l /\ i + 1 - 1 = i /\ g[i] \in Attached
      BY <1>1, <2>2
    <3>2. g[i + 1] = WantLetter(g[i], src, want[i + 1])
      BY <1>12, <3>1
    <3>. QED  BY <1>4, <3>1, <3>2
  <2>3. \A i \in Nat : i \in Q
    <3> HIDE DEF Q
    <3>. QED  BY <2>1, <2>2, CountingUp
  <2>. QED  BY <1>1, <2>3
<1>14. WantsEachOf(r, src, want, g)
  BY <1>12, <1>13, Zenon DEF WantsEachOf, l, base
<1>. QED  BY <1>0, <1>10, <1>14, Zenon

(* Lower, by its positions.                                                *)
LEMMA LowerIs ==
    ASSUME NEW x \in Seq(Char)
    PROVE  Len(Lower(x)) = Len(x) /\ Lower(x) = [k \in 1..Len(x) |-> Small(x[k])]
<1>1. Lower(x) = [k \in 1..Len(x) |-> Small(x[k])]
  <2>1. DOMAIN x = 1..Len(x)
    OBVIOUS
  <2>. QED  BY <2>1, Zenon DEF Lower
<1>2. PICK S : S = {Small(x[k]) : k \in 1..Len(x)}
  OBVIOUS
<1>3. Lower(x) \in [1..Len(x) -> S] /\ Len(x) \in Nat
  BY <1>1, <1>2
<1>4. Len(Lower(x)) = Len(x)
  BY <1>3
<1>. QED  BY <1>1, <1>4

(* The letters of a and of b are the same.                                 *)
SameLetters(a, b) == Lower(Only(a, Letters)) = Lower(Only(b, Letters))

(* When all are found, the letters are the same.                           *)
LEMMA HasThemAll ==
    ASSUME NEW w \in Seq(Char), NEW word \in Seq(Char), Has(w, WantedIn(word), Len(WantedIn(word)))
    PROVE  SameLetters(w, word)
<1>1. PICK x \in Seq(Char) : x = Only(w, Letters)
  BY OnlyIsSeq
<1>2. PICK y \in Seq(Char) : y = Only(word, Letters)
  BY OnlyIsSeq
<1>3. WantedIn(word) = Lower(y)
  BY <1>2, Zenon DEF WantedIn
<1>4. Len(Lower(x)) = Len(x) /\ Lower(x) = [k \in 1..Len(x) |-> Small(x[k])]
  BY LowerIs, Zenon
<1>5. Len(Lower(y)) = Len(y) /\ Lower(y) = [k \in 1..Len(y) |-> Small(y[k])]
  BY LowerIs, Zenon
<1>6. Len(x) = Len(y) /\ \A k \in 1..Len(y) : Small(x[k]) = Lower(y)[k]
  BY <1>1, <1>3, <1>5, Zenon DEF Has
<1>7. Lower(x) = Lower(y)
  BY <1>4, <1>5, <1>6
<1>. QED  BY <1>1, <1>2, <1>7, Zenon DEF SameLetters

(* As many as there are.                                                   *)
LEMMA WantedIsLong ==
    ASSUME NEW word \in Seq(Char)
    PROVE  Len(WantedIn(word)) \in Nat
<1>1. PICK y \in Seq(Char) : y = Only(word, Letters)
  BY OnlyIsSeq
<1>2. Len(Lower(y)) = Len(y)
  BY LowerIs, Zenon
<1>3. Len(y) \in Nat
  OBVIOUS
<1>. QED  BY <1>1, <1>2, <1>3 DEF WantedIn

(* As many letters as are wanted so far, in every round that has not failed. *)
LEMMA LettersSoFar ==
    ASSUME NEW r \in Attached, NEW src \in Seq(Char), NEW want, Len(want) \in Nat,
           NEW g, WantsEachOf(r, src, want, g)
    PROVE  \A i \in 0..Len(want) : g[i].out = r.out /\ (g[i].ok => r.ok /\ Has(g[i].word, want, i))
<1> DEFINE Fine(i) == g[i].out = r.out /\ (g[i].ok => r.ok /\ Has(g[i].word, want, i))
           Q == {i \in Nat : i <= Len(want) => Fine(i)}
<1>1. Fine(0)
  <2>1. g[0] = [r EXCEPT !.word = <<>>]
    BY DEF WantsEachOf
  <2>2. g[0].out = r.out /\ g[0].ok = r.ok /\ g[0].word = <<>>
    BY <2>1 DEF Attached
  <2>3. Only(<<>>, Letters) = <<>>
    BY OnlyOfNothing
  <2>4. Has(<<>>, want, 0)
    <3>1. Len(Only(<<>>, Letters)) = 0
      BY <2>3
    <3>2. \A k \in 1..0 : FALSE
      OBVIOUS
    <3>. QED  BY <3>1, <3>2 DEF Has
  <2>. QED  BY <2>2, <2>4
<1>2. ASSUME NEW i \in Nat, i \in Q, i + 1 <= Len(want) PROVE Fine(i + 1)
  <2>1. i + 1 \in 1..Len(want) /\ i + 1 - 1 = i /\ i \in 0..Len(want) /\ Fine(i)
    BY <1>2
  <2>2. g[i] \in Attached /\ g[i + 1] = WantLetter(g[i], src, want[i + 1])
    BY <2>1 DEF WantsEachOf
  <2>3. PICK p \in Attached : p = g[i]
    BY <2>2
  <2>4. PICK q \in Attached : q = g[i + 1] /\ q.out = p.out /\ OneLetterMore(p, q, want[i + 1])
    <3>1. WantLetter(p, src, want[i + 1]) \in Attached /\ WantLetter(p, src, want[i + 1]).out = p.out
          /\ OneLetterMore(p, WantLetter(p, src, want[i + 1]), want[i + 1])
      BY LetterWanted, Zenon
    <3>. QED  BY <2>2, <2>3, <3>1
  <2>5. p.out = r.out /\ (p.ok => r.ok /\ Has(p.word, want, i))
    BY <2>1, <2>3
  <2>6. ASSUME q.ok PROVE r.ok /\ Has(q.word, want, i + 1)
    <3>1. p.ok
      BY <2>4, <2>6 DEF OneLetterMore
    <3>2. r.ok /\ Has(p.word, want, i)
      BY <2>5, <3>1
    <3>3. Has(q.word, want, i + 1)
      BY <2>4, <2>6, <3>2, HasOneMore
    <3>. QED  BY <3>2, <3>3
  <2>. QED  BY <2>4, <2>5, <2>6
<1>3. 0 \in Q
  BY <1>1
<1>4. \A n \in Nat : n \in Q => n + 1 \in Q
  <2> HIDE DEF Fine
  <2>. QED  BY <1>2
<1>5. \A n \in Nat : n \in Q
  <2> HIDE DEF Q
  <2>. QED  BY <1>3, <1>4, CountingUp
<1>6. \A i \in 0..Len(want) : Fine(i)
  <2> HIDE DEF Fine
  <2>. QED  BY <1>5
<1>. QED  BY <1>6

(* A word that is put back has the letters of the word.                    *)
OneWordMore(r, q, word) ==
    q.ok => r.ok /\ \E w \in Seq(Char) : q.out = Append(r.out, w) /\ SameLetters(w, word)

(* ReattachWord keeps the letters of its word, or fails.                   *)
LEMMA WordIsReattached ==
    ASSUME NEW r \in Attached, NEW src \in Seq(Char), NEW word \in Seq(Char)
    PROVE  ReattachWord(r, src, word) \in Attached /\ OneWordMore(r, ReattachWord(r, src, word), word)
<1>1. PICK want : want = WantedIn(word)
  OBVIOUS
<1>2. Len(want) \in Nat
  BY <1>1, WantedIsLong
<1>3. PICK g : ReattachWord(r, src, word) = Attaches(g[Len(want)], src) /\ WantsEachOf(r, src, want, g)
  BY <1>1, <1>2, ReattachWordLoops
<1>4. Len(want) \in 0..Len(want)
  BY <1>2
<1>5. PICK end \in Attached : end = g[Len(want)]
  BY <1>3, <1>4 DEF WantsEachOf
<1>6. end.out = r.out /\ (end.ok => r.ok /\ Has(end.word, want, Len(want)))
  BY <1>2, <1>3, <1>4, <1>5, LettersSoFar
<1>7. PICK q : q = Attaches(end, src)
  OBVIOUS
<1>8. q = ReattachWord(r, src, word)
  BY <1>3, <1>5, <1>7
<1>9. CASE ~end.ok \/ end.word = <<>>
  <2>1. q = [end EXCEPT !.ok = FALSE]
    BY <1>7, <1>9, Zenon DEF Attaches
  <2>2. q \in Attached /\ ~q.ok
    BY <2>1 DEF Attached
  <2>. QED  BY <1>8, <2>2 DEF OneWordMore
<1>10. CASE end.ok /\ end.word # <<>>
  <2>0. end.word \in Seq(Char) /\ end.pos \in Nat \ {0} /\ end.out \in Seq(Seq(Char))
    BY DEF Attached
  <2>1. PICK tail \in Nat : tail = Trailing(src, end.pos)
    BY <2>0, TrailingAre
  <2>2. PICK rest \in Seq(Char) : rest = SubSeq(src, end.pos, end.pos + tail - 1) /\ Only(rest, Letters) = <<>>
    <3>1. PICK p \in Nat \ {0} : p = end.pos
      BY <2>0, Zenon
    <3>2. SubSeq(src, p, p + Trailing(src, p) - 1) \in Seq(Char)
          /\ Only(SubSeq(src, p, p + Trailing(src, p) - 1), {"letter"}) = <<>>
      BY TrailingAre, Zenon
    <3>. QED  BY <2>1, <3>1, <3>2, Zenon DEF Letters
  <2>3. q = [end EXCEPT !.pos = @ + tail, !.out = Append(@, end.word \o rest)]
    BY <1>7, <1>10, <2>1, <2>2, Zenon DEF Attaches
  <2>4. PICK w \in Seq(Char) : w = end.word \o rest
    <3>1. end.word \o rest \in Seq(Char)
      BY <2>0
    <3>. QED  BY <3>1, Zenon
  <2>5. end.pos + tail \in Nat \ {0} /\ Append(end.out, w) \in Seq(Seq(Char))
    BY <2>0
  <2>6. q \in Attached /\ q.out = Append(r.out, w)
    BY <1>6, <2>3, <2>4, <2>5 DEF Attached
  <2>7. Only(w, Letters) = Only(end.word, Letters)
    <3>1. PICK e \in Seq(Char) : e = end.word
      BY <2>0
    <3>2. TakenApart(e, rest, Letters)
      BY OnlyOfBoth, Zenon
    <3>3. PICK y \in Seq(Char) : y = Only(e, Letters)
      BY OnlyIsSeq
    <3>4. y \o <<>> = y
      OBVIOUS
    <3>. QED  BY <2>2, <2>4, <3>1, <3>2, <3>3, <3>4, Zenon DEF TakenApart
  <2>8. SameLetters(w, word)
    <3>1. SameLetters(end.word, word)
      BY <1>1, <1>6, <1>10, <2>0, HasThemAll
    <3>. QED  BY <2>7, <3>1, Zenon DEF SameLetters
  <2>9. OneWordMore(r, q, word)
    BY <1>6, <1>10, <2>6, <2>8 DEF OneWordMore
  <2>. QED  BY <1>8, <2>6, <2>9
<1>. QED  BY <1>9, <1>10

(* Reattach, one word after the other.                                     *)
NotBegun == [ok |-> TRUE, pos |-> 1, word |-> <<>>, out |-> <<>>]

Attaching(in, src, g) ==
    g = [i \in 0..Len(in) |-> IF i = 0 THEN [ok |-> TRUE, pos |-> 1, word |-> <<>>, out |-> <<>>]
                              ELSE ReattachWord(g[i - 1], src, in[i])]

(* What the rounds of Reattach are.                                        *)
AttachingOf(in, src, g) ==
    /\ g[0] = NotBegun
    /\ \A i \in 1..Len(in) : g[i] = ReattachWord(g[i - 1], src, in[i])
    /\ \A i \in 0..Len(in) : g[i] \in Attached

(* Reattach has all of its rounds.                                         *)
LEMMA ReattachLoops ==
    ASSUME NEW in \in Seq(Seq(Char)), NEW src \in Seq(Char)
    PROVE  \E g : Reattach(in, src) = g[Len(in)] /\ AttachingOf(in, src, g)
<1> DEFINE l == Len(in)
           round == [q \in Attached \X (1..l) |-> ReattachWord(q[1], src, in[q[2]])]
<1>1. l \in Nat /\ \A i \in 1..l : in[i] \in Seq(Char)
  OBVIOUS
<1>2. NotBegun \in Attached
  <2>1. <<>> \in Seq(Char) /\ <<>> \in Seq(Seq(Char))
    OBVIOUS
  <2>. QED  BY <2>1 DEF Attached, NotBegun
<1>3. \A x \in Attached, i \in 1..l : round[<<x, i>>] = ReattachWord(x, src, in[i])
  OBVIOUS
<1>4. \A x \in Attached, i \in 1..l : ReattachWord(x, src, in[i]) \in Attached
  BY <1>1, WordIsReattached
<1> HIDE DEF round, l
<1>5. Stays(Attached, round, l)
  BY <1>3, <1>4 DEF Stays
<1>6. PICK f \in [0..l -> Attached] : Rounds(f, NotBegun, round, l)
  BY <1>1, <1>2, <1>5, LoopRuns
<1>7. \A i \in 0..l : i # 0 => i - 1 \in 0..l /\ i \in 1..l
  BY <1>1
<1>8. Attaching(in, src, f)
  <2>1. f = [i \in 0..l |-> IF i = 0 THEN NotBegun ELSE ReattachWord(f[i - 1], src, in[i])]
    BY <1>3, <1>6, <1>7 DEF Rounds
  <2>. QED  BY <2>1, Zenon DEF Attaching, l, NotBegun
<1>9. Reattach(in, src) = (CHOOSE g : Attaching(in, src, g))[Len(in)]
  BY Zenon DEF Reattach, Attaching
<1>10. PICK g : Reattach(in, src) = g[Len(in)] /\ Attaching(in, src, g)
  BY <1>8, <1>9, Zenon
<1>11. 0 \in 0..l /\ \A i \in 1..l : i \in 0..l /\ i # 0
  BY <1>1
<1>12. /\ g[0] = NotBegun
       /\ \A i \in 1..l : g[i] = ReattachWord(g[i - 1], src, in[i])
  BY <1>10, <1>11 DEF Attaching, l, NotBegun
<1>13. \A i \in 0..l : g[i] \in Attached
  <2> DEFINE Q == {i \in Nat : i <= l => g[i] \in Attached}
  <2>1. 0 \in Q
    BY <1>2, <1>12
  <2>2. ASSUME NEW i \in Nat, i \in Q PROVE i + 1 \in Q
    <3> SUFFICES ASSUME i + 1 <= l PROVE g[i + 1] \in Attached
      OBVIOUS
    <3>1. i + 1 \in 1..l /\ i + 1 - 1 = i /\ g[i] \in Attached
      BY <1>1, <2>2
    <3>2. g[i + 1] = ReattachWord(g[i], src, in[i + 1])
      BY <1>12, <3>1
    <3>. QED  BY <1>4, <3>1, <3>2
  <2>3. \A i \in Nat : i \in Q
    <3> HIDE DEF Q
    <3>. QED  BY <2>1, <2>2, CountingUp
  <2>. QED  BY <1>1, <2>3
<1>14. AttachingOf(in, src, g)
  BY <1>12, <1>13, Zenon DEF AttachingOf, l
<1>. QED  BY <1>10, <1>14, Zenon

(* Every word so far has its letters.                                      *)
WordsStay(put, in, i) ==
    /\ put \in Seq(Seq(Char)) /\ Len(put) = i
    /\ \A k \in 1..i : SameLetters(put[k], in[k])

(* And one word more.                                                      *)
LEMMA WordsStayOneMore ==
    ASSUME NEW r \in Attached, NEW q \in Attached, NEW in, NEW i \in Nat,
           q.ok, OneWordMore(r, q, in[i + 1]), r.ok => WordsStay(r.out, in, i)
    PROVE  WordsStay(q.out, in, i + 1)
<1>1. r.ok /\ \E w \in Seq(Char) : q.out = Append(r.out, w) /\ SameLetters(w, in[i + 1])
  BY DEF OneWordMore
<1>2. PICK w \in Seq(Char) : q.out = Append(r.out, w) /\ SameLetters(w, in[i + 1])
  BY <1>1
<1>3. PICK x \in Seq(Seq(Char)) : x = r.out /\ Len(x) = i /\ \A k \in 1..i : SameLetters(x[k], in[k])
  BY <1>1, Zenon DEF WordsStay
<1>4. PICK y : y = Append(x, w)
  OBVIOUS
<1>5. y \in Seq(Seq(Char)) /\ Len(y) = i + 1 /\ y[i + 1] = w /\ \A k \in 1..i : y[k] = x[k]
  BY <1>3, <1>4
<1>6. \A k \in 1..(i + 1) : SameLetters(y[k], in[k])
  <2> SUFFICES ASSUME NEW k \in 1..(i + 1) PROVE SameLetters(y[k], in[k])
    OBVIOUS
  <2>1. k = i + 1 \/ k \in 1..i
    OBVIOUS
  <2>2. CASE k = i + 1
    BY <1>2, <1>5, <2>2, Zenon
  <2>3. CASE k \in 1..i
    BY <1>3, <1>5, <2>3, Zenon
  <2>. QED  BY <2>1, <2>2, <2>3
<1>7. q.out = y
  BY <1>2, <1>3, <1>4
<1>. QED  BY <1>5, <1>6, <1>7, Zenon DEF WordsStay

(* What is put back has, word for word, the letters that were there.       *)
LEMMA ReattachKeepsLetters ==
    ASSUME NEW in \in Seq(Seq(Char)), NEW src \in Seq(Char)
    PROVE  Reattach(in, src).ok => WordsStay(Reattach(in, src).out, in, Len(in))
<1>1. PICK g : Reattach(in, src) = g[Len(in)] /\ AttachingOf(in, src, g)
  BY ReattachLoops
<1> DEFINE Q == {i \in Nat : i <= Len(in) => (g[i].ok => WordsStay(g[i].out, in, i))}
<1>2. 0 \in Q
  <2>1. g[0].out = <<>>
    BY <1>1 DEF AttachingOf, NotBegun
  <2>2. <<>> \in Seq(Seq(Char)) /\ Len(<<>>) = 0
    OBVIOUS
  <2>3. \A k \in 1..0 : FALSE
    OBVIOUS
  <2>. QED  BY <2>1, <2>2, <2>3 DEF WordsStay
<1>3. ASSUME NEW i \in Nat, i \in Q PROVE i + 1 \in Q
  <2> SUFFICES ASSUME i + 1 <= Len(in), g[i + 1].ok PROVE WordsStay(g[i + 1].out, in, i + 1)
    OBVIOUS
  <2>1. i + 1 \in 1..Len(in) /\ i + 1 - 1 = i /\ i \in 0..Len(in)
    OBVIOUS
  <2>2. g[i].ok => WordsStay(g[i].out, in, i)
    BY <1>3, <2>1
  <2>3. PICK p \in Attached : p = g[i]
    BY <1>1, <2>1 DEF AttachingOf
  <2>4. PICK word \in Seq(Char) : word = in[i + 1]
    BY <2>1
  <2>5. PICK q \in Attached : q = g[i + 1] /\ OneWordMore(p, q, word)
    <3>1. ReattachWord(p, src, word) \in Attached /\ OneWordMore(p, ReattachWord(p, src, word), word)
      BY WordIsReattached, Zenon
    <3>2. g[i + 1] = ReattachWord(p, src, word)
      BY <1>1, <2>1, <2>3, <2>4 DEF AttachingOf
    <3>. QED  BY <3>1, <3>2
  <2>6. OneWordMore(p, q, in[i + 1]) /\ (p.ok => WordsStay(p.out, in, i)) /\ q.ok
    BY <2>2, <2>3, <2>4, <2>5
  <2>7. WordsStay(q.out, in, i + 1)
    BY <2>6, WordsStayOneMore
  <2>. QED  BY <2>5, <2>7
<1>4. \A i \in Nat : i \in Q
  <2> HIDE DEF Q
  <2>. QED  BY <1>2, <1>3, CountingUp
<1>5. Len(in) \in Nat
  OBVIOUS
<1>. QED  BY <1>1, <1>4, <1>5

-----------------------------------------------------------------------------

(* A chunk is words, and its words keep their letters.                     *)
PunctInvariant == phrase \in Seq(Seq(Char)) /\ LettersStay

(* Before the model has answered.                                          *)
LEMMA PunctInvariantStarts == PunctInit => PunctInvariant
  BY PunctAssumption DEF PunctInit, PunctInvariant, LettersStay

(* Whatever it answers.                                                    *)
LEMMA PunctInvariantStays == PunctInvariant /\ [PunctNext]_punctvars => PunctInvariant'
<1> SUFFICES ASSUME PunctInvariant, [PunctNext]_punctvars PROVE PunctInvariant'
  OBVIOUS
<1>1. CASE PunctNext
  <2>1. PICK marking \in Markings : Punctuates(marking)
    BY <1>1, Zenon DEF PunctNext
  <2>2. marking \in Seq(Char) /\ phrase \in Seq(Seq(Char)) /\ phrase' = phrase
    BY <2>1, PunctAssumption DEF PunctInvariant, Punctuates
  <2>3. PICK s : s = IF Reattach(phrase, marking).ok THEN Reattach(phrase, marking).out ELSE phrase
    OBVIOUS
  <2>4. punctuated'[1] = s
    BY <2>1, <2>3 DEF Punctuates
  <2>5. Len(s) = Len(phrase) /\ \A k \in 1..Len(phrase) : SameLetters(s[k], phrase[k])
    <3>1. CASE Reattach(phrase, marking).ok
      <4>1. s = Reattach(phrase, marking).out
        BY <2>3, <3>1
      <4>2. WordsStay(s, phrase, Len(phrase))
        BY <2>2, <3>1, <4>1, ReattachKeepsLetters
      <4>. QED  BY <4>2, Zenon DEF WordsStay
    <3>2. CASE ~Reattach(phrase, marking).ok
      BY <2>3, <3>2 DEF SameLetters
    <3>. QED  BY <3>1, <3>2
  <2>6. DOMAIN phrase = 1..Len(phrase)
    BY <2>2
  <2>7. LettersStay'
    BY <2>2, <2>4, <2>5, <2>6 DEF LettersStay, SameLetters, Letters
  <2>. QED  BY <2>2, <2>7 DEF PunctInvariant
<1>2. CASE UNCHANGED punctvars
  BY <1>2 DEF punctvars, PunctInvariant, LettersStay
<1>. QED  BY <1>1, <1>2

(* punct.go 57-72, 88-153: whatever the model answers, every word keeps    *)
(* its letters.                                                            *)
THEOREM LettersAreKept == PunctSpec => []LettersStay
<1>1. PunctInvariant => LettersStay
  BY DEF PunctInvariant
<1>. QED  BY <1>1, PunctInvariantStarts, PunctInvariantStays, PTL DEF PunctSpec
=============================================================================
