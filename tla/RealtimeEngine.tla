---------------------------- MODULE RealtimeEngine ----------------------------
(***************************************************************************)
(* The realtime sessions of one engine (internal/realtime: Open, discard,  *)
(* Run, admit, expire and Session.Close) and the websocket connections     *)
(* that own them (internal/api/realtime: run, read, ensureSession, pump    *)
(* and keepalive).  The loop goroutine alone owns the sessions; everybody  *)
(* else talks to it over channels, gives up when a context ends, and must  *)
(* neither wait for a loop that is gone nor leave a slot taken behind.     *)
(* Module RealtimeSession says what happens to the audio.                  *)
(***************************************************************************)
EXTENDS Naturals, Sequences, SequencesExt, FiniteSets

CONSTANTS Conn,         \* connections; each opens at most one session
          MaxSessions,
          CloseBuffer   \* the capacity of Engine.close

ASSUME EngineAssumption == IsFiniteSet(Conn) /\ MaxSessions \in Nat

VARIABLES
    handler,    \* the request goroutine of a connection
    cancelled,  \* connections whose context has ended
    pump,       \* the event goroutine: "none", "running" or "done"
    discarder,  \* connections for which discard waits for the reply
    reply,      \* the reply channel of an open request
    sess,       \* a connection's session: "none", "live", "closing" (Close was called) or "over"
    closer,     \* connections whose Session.Close blocks
    closeq,     \* Engine.close
    building,   \* the request the loop is in admit with
    forsaken,   \* connections whose discard has given up
    engine      \* "running", "stopping" (ctx is done) or "done"

enginevars == <<closeq, building, engine>>
revars == <<handler, cancelled, pump, discarder, reply, sess, closer, forsaken, enginevars>>

ReInit ==
    /\ handler = [c \in Conn |-> "reading"] /\ cancelled = {}
    /\ pump = [c \in Conn |-> "none"] /\ discarder = {}
    /\ reply = [c \in Conn |-> "none"] /\ sess = [c \in Conn |-> "none"]
    /\ closer = {} /\ closeq = <<>> /\ building = {} /\ forsaken = {} /\ engine = "running"

(* The sessions the loop knows.                                            *)
LiveSessions == {c \in Conn : sess[c] \in {"live", "closing"}}

ConnIs(c, pc) == handler' = [handler EXCEPT ![c] = pc]

-----------------------------------------------------------------------------
(* A connection.                                                           *)

(* The first append or commit: ensureSession calls Open.                   *)
FirstAudio(c) ==
    /\ handler[c] = "reading" /\ sess[c] = "none" /\ c \notin cancelled
    /\ ConnIs(c, "asking")
    /\ UNCHANGED <<cancelled, pump, discarder, reply, sess, closer, forsaken, enginevars>>

(* Open, its first select: the loop takes the request; or the context      *)
(* ends, or the engine is done.                                            *)
OpenTurnedAway(c) ==
    /\ handler[c] = "asking" /\ (c \in cancelled \/ engine = "done")
    /\ ConnIs(c, "closing")
    /\ UNCHANGED <<cancelled, pump, discarder, reply, sess, closer, forsaken, enginevars>>

(* Its second: the reply, ...                                              *)
SessionOpened(c) ==
    /\ handler[c] = "opening" /\ reply[c] # "none"
    /\ reply' = [reply EXCEPT ![c] = "none"]
    /\ IF reply[c] = "session"
       THEN ConnIs(c, "reading") /\ pump' = [pump EXCEPT ![c] = "running"]
       ELSE ConnIs(c, "closing") /\ UNCHANGED pump
    /\ UNCHANGED <<cancelled, discarder, sess, closer, forsaken, enginevars>>

(* Mutant: nobody waits for the reply of a caller that went away.          *)
OpenForsaken(c) ==
    /\ handler[c] = "opening" /\ c \in cancelled
    /\ ConnIs(c, "closing")
    /\ UNCHANGED <<cancelled, pump, discarder, reply, sess, closer, forsaken, enginevars>>

(* ... the context, and whatever is built meanwhile is left to discard, ...*)
OpenAbandoned(c) ==
    /\ handler[c] = "opening" /\ c \in cancelled
    /\ ConnIs(c, "closing")
    /\ discarder' = discarder \cup {c}
    /\ UNCHANGED <<cancelled, pump, reply, sess, closer, forsaken, enginevars>>

(* ... or the end of the engine.                                           *)
OpenTooLate(c) ==
    /\ handler[c] = "opening" /\ engine = "done"
    /\ ConnIs(c, "closing")
    /\ UNCHANGED <<cancelled, pump, discarder, reply, sess, closer, forsaken, enginevars>>

(* discard: a session nobody waits for is closed.                          *)
DiscardCloses(c) ==
    /\ c \in discarder /\ (reply[c] # "none" \/ engine = "done")
    /\ discarder' = discarder \ {c}
    /\ reply' = [reply EXCEPT ![c] = "none"]
    /\ IF reply[c] = "session" /\ sess[c] = "live"
       THEN sess' = [sess EXCEPT ![c] = "closing"] /\ closer' = closer \cup {c}
       ELSE UNCHANGED <<sess, closer>>
    /\ UNCHANGED <<handler, cancelled, pump, forsaken, enginevars>>

(* ... unless half a minute goes by first: whatever admit answers then, to *)
(* a channel that nobody reads, is left to the idle limit.                 *)
DiscardGivesUp(c) ==
    /\ c \in discarder
    /\ discarder' = discarder \ {c} /\ forsaken' = forsaken \cup {c}
    /\ UNCHANGED <<handler, cancelled, pump, reply, sess, closer, enginevars>>

(* The socket fails, the peer goes away, keepalive finds it silent or never*)
(* started, or the server drops the request.                               *)
ConnContextEnds(c) ==
    /\ c \notin cancelled /\ handler[c] # "over"
    /\ cancelled' = cancelled \cup {c}
    /\ UNCHANGED <<handler, pump, discarder, reply, sess, closer, forsaken, enginevars>>

(* read returns.                                                           *)
ReadEnds(c) ==
    /\ handler[c] = "reading" /\ c \in cancelled
    /\ ConnIs(c, "closing")
    /\ UNCHANGED <<cancelled, pump, discarder, reply, sess, closer, forsaken, enginevars>>

(* run after read: the session is closed, if there is one.                 *)
RunCloses(c) ==
    /\ handler[c] = "closing"
    /\ IF pump[c] = "none"
       THEN ConnIs(c, "over") /\ cancelled' = cancelled \cup {c} /\ UNCHANGED <<sess, closer>>
       ELSE /\ ConnIs(c, "draining") /\ UNCHANGED cancelled
            /\ closer' = IF sess[c] # "closing" THEN closer \cup {c} ELSE closer
            /\ sess' = [sess EXCEPT ![c] = IF @ = "live" THEN "closing" ELSE @]
    /\ UNCHANGED <<pump, discarder, reply, forsaken, enginevars>>

(* ... and the event goroutine gets a moment (2 s).                        *)
RunEnds(c) ==
    /\ handler[c] = "draining" /\ c \notin closer
    /\ ConnIs(c, "over") /\ cancelled' = cancelled \cup {c}
    /\ UNCHANGED <<pump, discarder, reply, sess, closer, forsaken, enginevars>>

(* pump: its channel is closed, and that ends the connection; or the       *)
(* connection has ended.                                                   *)
PumpEnds(c) ==
    /\ pump[c] = "running" /\ (sess[c] = "over" \/ c \in cancelled)
    /\ pump' = [pump EXCEPT ![c] = "done"]
    /\ cancelled' = cancelled \cup {c}
    /\ UNCHANGED <<handler, discarder, reply, sess, closer, forsaken, enginevars>>

(* Session.Close hands the session to the loop, ...                        *)
CloseSends(c) ==
    /\ c \in closer /\ Len(closeq) < CloseBuffer
    /\ closeq' = Append(closeq, c) /\ closer' = closer \ {c}
    /\ UNCHANGED <<handler, cancelled, pump, discarder, reply, sess, building, forsaken, engine>>

(* Mutant: or waits for ever.                                              *)
CloseWaits(c) == FALSE

(* ... or finds that there is none.                                        *)
CloseTooLate(c) ==
    /\ c \in closer /\ engine = "done"
    /\ closer' = closer \ {c}
    /\ UNCHANGED <<handler, cancelled, pump, discarder, reply, sess, forsaken, enginevars>>

-----------------------------------------------------------------------------
(* The loop.                                                               *)

(* Its select, when it is not in admit.                                    *)
Looping == engine # "done" /\ building = {}

TakeRequest(c) ==
    /\ Looping /\ handler[c] = "asking"
    /\ ConnIs(c, "opening") /\ building' = {c}
    /\ UNCHANGED <<cancelled, pump, discarder, reply, sess, closer, closeq, forsaken, engine>>

(* admit, which builds a stream and may take long, and its reply.          *)
AdmitSession(c) ==
    /\ c \in building /\ building' = {}
    /\ \/ /\ Cardinality(LiveSessions) < MaxSessions
          /\ sess' = [sess EXCEPT ![c] = "live"] /\ reply' = [reply EXCEPT ![c] = "session"]
       \/ reply' = [reply EXCEPT ![c] = "refused"] /\ UNCHANGED sess   \* full, or NewStream failed
    /\ UNCHANGED <<handler, cancelled, pump, discarder, closer, closeq, forsaken, engine>>

LoopCloses ==
    /\ Looping /\ closeq # <<>>
    /\ closeq' = Tail(closeq)
    /\ sess' = [sess EXCEPT ![Head(closeq)] = "over"]
    /\ UNCHANGED <<handler, cancelled, pump, discarder, reply, closer, building, forsaken, engine>>

(* expire, or a step that failed.                                          *)
LoopExpires(c) ==
    /\ Looping /\ c \in LiveSessions
    /\ sess' = [sess EXCEPT ![c] = "over"]
    /\ UNCHANGED <<handler, cancelled, pump, discarder, reply, closer, forsaken, enginevars>>

(* The idle limit (60 s unless configured otherwise): nobody appends to a  *)
(* session that was never handed over.                                     *)
IdleExpires(c) == c \in forsaken /\ LoopExpires(c)

EngineStops ==
    /\ engine = "running" /\ engine' = "stopping"
    /\ UNCHANGED <<handler, cancelled, pump, discarder, reply, sess, closer, closeq, building, forsaken>>

(* Run returns: every session is torn down, then done is closed.           *)
RunReturns ==
    /\ engine = "stopping" /\ building = {} /\ engine' = "done"
    /\ sess' = [c \in Conn |-> IF c \in LiveSessions THEN "over" ELSE sess[c]]
    /\ UNCHANGED <<handler, cancelled, pump, discarder, reply, closer, closeq, building, forsaken>>

-----------------------------------------------------------------------------
ConnSteps(c) ==
    \/ OpenTurnedAway(c) \/ SessionOpened(c) \/ OpenAbandoned(c) \/ OpenTooLate(c) \/ DiscardCloses(c)
    \/ ReadEnds(c) \/ RunCloses(c) \/ RunEnds(c) \/ PumpEnds(c) \/ CloseSends(c) \/ CloseTooLate(c)

LoopSteps == LoopCloses \/ RunReturns \/ \E c \in Conn : TakeRequest(c) \/ AdmitSession(c)

ReNext ==
    \/ LoopSteps \/ EngineStops
    \/ \E c \in Conn : ConnSteps(c) \/ FirstAudio(c) \/ ConnContextEnds(c) \/ DiscardGivesUp(c) \/ LoopExpires(c)

ReSpec == ReInit /\ [][ReNext]_revars

-----------------------------------------------------------------------------
(* Properties.                                                             *)

(* A slot belongs to somebody: a session the loop knows has a connection   *)
(* that uses it or is about to get it, a discard that waits for it, or is  *)
(* on its way to be closed; or its discard gave up while admit took its    *)
(* half minute (realtime.go:207), its client has gone, nobody uses it, and *)
(* only the idle limit ends it.                                            *)
SlotsHaveOwners ==
    \A c \in LiveSessions :
        \/ sess[c] = "live" /\ handler[c] \in {"opening", "reading"}
        \/ sess[c] = "live" /\ handler[c] = "closing" /\ pump[c] # "none"
        \/ c \in discarder \cup closer \cup Range(closeq)
        \/ c \in forsaken /\ c \in cancelled /\ pump[c] = "none"

(* "Open can fail instead of blocking against an engine that is no longer  *)
(* there" (realtime.go:107), and so can everybody: a connection whose      *)
(* context ends is over some day, the engine running or not, and its       *)
(* session with it, by the idle limit if nobody else ends it; and when the *)
(* engine has stopped every connection with a session is over, too.        *)
ConnectionsEnd ==
    \A c \in Conn : (c \in cancelled \/ (engine = "done" /\ pump[c] = "running"))
                       ~> (handler[c] = "over" /\ c \notin LiveSessions)

(* No slot is lost: each belongs to somebody who gives it back or to       *)
(* nobody and the idle limit, and every connection ends (realtime.go:107). *)
SlotsComeFree == []SlotsHaveOwners /\ ConnectionsEnd
=============================================================================
