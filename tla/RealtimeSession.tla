--------------------------- MODULE RealtimeSession ---------------------------
(***************************************************************************)
(* One realtime session and the decoder loop that serves it                *)
(* (internal/realtime: session.go, and step, observe, finishItem and       *)
(* teardown of realtime.go).  The client appends audio, commits and clears *)
(* under the session's mutex while the loop is anywhere in its step; what  *)
(* the loop reports waits in a bounded channel.  A piece of audio is its   *)
(* number, a transcript the numbers that were recognised; the recogniser   *)
(* decodes a piece once the next has arrived (its lookahead) and may end   *)
(* an utterance after any piece.  Languages, times and words are left out. *)
(***************************************************************************)
EXTENDS Naturals, Sequences, SequencesExt, FiniteSets

CONSTANTS Pieces,       \* bound: how many pieces of audio the client has
          Requests,         \* bound: how often it commits, and how often it clears
          AudioRoom,         \* how many pieces wait for the loop (MaxBufferedSeconds)
          EventBuffer,  \* eventBuffer
          Rounds        \* maxRoundsPerTick

VARIABLES
    said,       \* how many pieces were appended
    asked,      \* how often the client committed and cleared
    pending, commit, clear,             \* Session, under its mutex
    closed,                             \* Session.closed: nobody appends any more
    stream,     \* accepted by the recogniser and not decoded; 0 is silence
    heard,      \* the hypothesis
    spoke, committing, failed,    \* Session, the loop's own
    rounds, lpc,                        \* where the loop is in its step
    events,     \* the channel
    \* history
    finals,     \* what the final events said, in order, delivered or not
    lost,       \* a final event was not delivered
    promised,   \* pieces appended before the commit the loop works on
    wanted,     \* pieces appended before the last commit, 0 if it was cleared
    answered    \* how many of the client's commits were answered or withdrawn

clientvars == <<said, asked, wanted>>
sharedvars == <<pending, commit, clear, closed>>
loopvars   == <<stream, heard, spoke, committing, failed, rounds, lpc>>
rtvars == <<clientvars, sharedvars, loopvars, events, finals, lost, promised, answered>>

Silence == 0

(* What the last piece says, if there is one.                              *)
Words(tail) == IF tail = <<Silence>> THEN <<>> ELSE tail

RtInit ==
    /\ said = 0 /\ asked = [commit |-> 0, clear |-> 0]
    /\ pending = <<>> /\ commit = FALSE /\ clear = FALSE /\ closed = FALSE
    /\ stream = <<>> /\ heard = <<>>
    /\ spoke = FALSE /\ committing = FALSE /\ failed = FALSE
    /\ rounds = 0 /\ lpc = "waiting" /\ events = <<>>
    /\ finals = <<>> /\ lost = FALSE /\ promised = 0 /\ wanted = 0 /\ answered = 0

-----------------------------------------------------------------------------
(* The client.                                                             *)

(* Append, once there is room.                                             *)
AppendAudio ==
    /\ ~closed /\ said < Pieces /\ Len(pending) < AudioRoom
    /\ said' = said + 1 /\ pending' = Append(pending, said + 1)
    /\ UNCHANGED <<asked, wanted, commit, clear, closed, loopvars, events, finals, lost, promised, answered>>

SessionCommit ==
    /\ ~closed /\ asked.commit < Requests
    /\ asked' = [asked EXCEPT !.commit = @ + 1]
    /\ commit' = TRUE /\ wanted' = said
    /\ UNCHANGED <<said, pending, clear, closed, loopvars, events, finals, lost, promised, answered>>

(* Clear: what waits is dropped, and a commit that was not acted on.       *)
SessionClear ==
    /\ ~closed /\ asked.clear < Requests
    /\ asked' = [asked EXCEPT !.clear = @ + 1]
    /\ pending' = <<>> /\ commit' = FALSE /\ clear' = TRUE
    /\ wanted' = 0
    /\ answered' = IF commit THEN asked.commit ELSE answered
    /\ UNCHANGED <<said, closed, loopvars, events, finals, lost, promised>>

ReadEvent ==
    /\ events # <<>> /\ events' = Tail(events)
    /\ UNCHANGED <<clientvars, sharedvars, loopvars, finals, lost, promised, answered>>

(* Close, or an Append that waited for room too long.                      *)
Hangup ==
    /\ ~closed /\ closed' = TRUE
    /\ UNCHANGED <<clientvars, pending, commit, clear, loopvars, events, finals, lost, promised, answered>>

-----------------------------------------------------------------------------
(* Mutant: a final event is dropped like a partial one.                    *)
EmittedLightly(es) ==
    /\ events' = SubSeq(events \o es, 1, IF Len(events \o es) < EventBuffer THEN Len(events \o es) ELSE EventBuffer)
    /\ failed' = failed
    /\ lost' = (lost \/ ("final" \in Range(es) /\ Len(events \o es) > EventBuffer))

(* emit: the events es go into the channel one after the other.  A partial *)
(* one that does not fit is dropped, any other ends the session.           *)
Emitted(es) ==
    LET Put(q, e) == IF Len(q.in) < EventBuffer THEN [q EXCEPT !.in = Append(@, e)]
                     ELSE IF e = "partial" THEN q ELSE [q EXCEPT !.full = TRUE]
        after == FoldLeft(Put, [in |-> events, full |-> FALSE], es)
    IN /\ events' = after.in /\ failed' = (failed \/ after.full)
       /\ lost' = (lost \/ ("final" \in Range(es) /\ after.full))

(* Reset keeps what was accepted and not decoded.                          *)
NextItem == heard' = <<>> /\ spoke' = FALSE

StreamReady == Len(stream) > 1

(* One round of decoding: what is heard then.                              *)
Decoded == IF Head(stream) = Silence THEN heard ELSE Append(heard, Head(stream))

(* Mutant: what was fed is still queued.                                   *)
FeedsAgain == stream' = stream \o pending /\ pending' = pending

(* feed.                                                                   *)
Feeds == stream' = stream \o pending /\ pending' = <<>>

(* step: a clear is carried out before anything is fed.                    *)
StepClears ==
    /\ lpc = "waiting" /\ lpc' = "feed"
    /\ clear' = FALSE
    /\ IF clear THEN Emitted(<<"cleared">>) /\ NextItem
       ELSE UNCHANGED <<events, failed, lost, heard, spoke>>
    /\ UNCHANGED <<clientvars, pending, commit, closed, stream, committing, rounds, finals, promised, answered>>

StepFeeds ==
    /\ lpc = "feed" /\ lpc' = "decode" /\ rounds' = 0
    /\ Feeds
    /\ UNCHANGED <<clientvars, commit, clear, closed, heard, spoke, committing, failed, events, finals,
                   lost, promised, answered>>

(* decodeRound and observe: the first words are announced, a change is a   *)
(* partial event if the last one is long enough ago, and the recogniser    *)
(* may find that the utterance is over.                                    *)
Observes ==
    LET started == IF Decoded # <<>> /\ ~spoke THEN <<"started">> ELSE <<>> IN
    \E partial \in {<<>>, <<"partial">>}, endpoint \in BOOLEAN :
        /\ partial # <<>> => Decoded # heard
        /\ stream' = Tail(stream)
        /\ IF endpoint
           THEN /\ Emitted(started \o partial \o IF Decoded = <<>> THEN <<>> ELSE <<"stopped", "final">>)
                /\ finals' = IF Decoded = <<>> THEN finals ELSE finals \o Decoded
                /\ NextItem
           ELSE /\ Emitted(started \o partial) /\ heard' = Decoded
                /\ spoke' = (spoke \/ Decoded # <<>>)
                /\ UNCHANGED finals

StepDecodes ==
    /\ lpc = "decode" /\ StreamReady /\ rounds < Rounds
    /\ Observes /\ rounds' = rounds + 1
    /\ UNCHANGED <<clientvars, sharedvars, lpc, committing, promised, answered>>

StepDecoded ==
    /\ lpc = "decode" /\ ~(StreamReady /\ rounds < Rounds)
    /\ lpc' = "commit"
    /\ UNCHANGED <<clientvars, sharedvars, stream, heard, spoke, committing, failed, rounds, events, finals,
                   lost, promised, answered>>

TakesCommit(next) ==
    /\ lpc = "commit" /\ commit' = FALSE
    /\ promised' = IF commit THEN wanted ELSE promised
    /\ lpc' = next /\ rounds' = 0
    /\ UNCHANGED <<clientvars, pending, clear, closed, stream, heard, spoke, failed, events, finals, lost, answered>>

(* Mutants: a commit finds the audio that was fed before it, or is forgot- *)
(* ten if it has to wait for the next step.                                *)
TakeCommitUnfed ==
    /\ TakesCommit(IF commit \/ committing THEN "drain" ELSE "check")
    /\ committing' = (committing \/ commit)

TakeCommitAnew ==
    /\ TakesCommit(IF commit THEN "refeed" ELSE "check")
    /\ committing' = commit

(* A commit, once taken, is worked on until everything before it is        *)
(* decoded.                                                                *)
StepTakesCommit ==
    /\ TakesCommit(IF commit THEN "refeed" ELSE IF committing THEN "drain" ELSE "check")
    /\ committing' = (committing \/ commit)

StepRefeeds ==
    /\ lpc = "refeed" /\ lpc' = "drain"
    /\ Feeds
    /\ UNCHANGED <<clientvars, commit, clear, closed, heard, spoke, committing, failed, rounds, events, finals,
                   lost, promised, answered>>

StepDrains ==
    /\ lpc = "drain" /\ StreamReady /\ rounds < Rounds
    /\ Observes /\ rounds' = rounds + 1
    /\ UNCHANGED <<clientvars, sharedvars, lpc, committing, promised, answered>>

(* More to decode: on a later tick.                                        *)
StepPostpones ==
    /\ lpc = "drain" /\ StreamReady /\ rounds >= Rounds
    /\ lpc' = "check"
    /\ UNCHANGED <<clientvars, sharedvars, stream, heard, spoke, committing, failed, rounds, events, finals,
                   lost, promised, answered>>

(* The tail is flushed with silence, and the client has its answer, empty  *)
(* or not.                                                                 *)
StepAnswers ==
    /\ lpc = "drain" /\ ~StreamReady /\ lpc' = "check"
    /\ stream' = <<Silence>> /\ finals' = finals \o heard \o Words(stream)
    /\ Emitted(<<"stopped", "final">>) /\ NextItem
    /\ committing' = FALSE
    /\ answered' = IF commit THEN asked.commit - 1 ELSE asked.commit
    /\ UNCHANGED <<clientvars, sharedvars, rounds, promised>>

(* The end of a step: a session whose client does not read is closed.      *)
StepEnds ==
    /\ lpc = "check"
    /\ IF failed THEN lpc' = "gone" /\ closed' = TRUE ELSE lpc' = "waiting" /\ UNCHANGED closed
    /\ UNCHANGED <<clientvars, pending, commit, clear, stream, heard, spoke, committing, failed, rounds,
                   events, finals, lost, promised, answered>>

(* teardown: the client closed it, or expire found it too old or idle.     *)
SessionTeardown ==
    /\ lpc = "waiting" /\ lpc' = "gone" /\ closed' = TRUE
    /\ \E reason \in {<<>>, <<"error">>} : (reason = <<>> => closed) /\ Emitted(reason)
    /\ UNCHANGED <<clientvars, pending, commit, clear, stream, heard, spoke, committing, rounds,
                   finals, promised, answered>>

-----------------------------------------------------------------------------
LoopStep == StepClears \/ StepFeeds \/ StepDecodes \/ StepDecoded \/ StepTakesCommit \/ StepRefeeds
            \/ StepDrains \/ StepPostpones \/ StepAnswers \/ StepEnds

RtNext == LoopStep \/ SessionTeardown \/ AppendAudio \/ SessionCommit \/ SessionClear \/ ReadEvent \/ Hangup

RtSpec == RtInit /\ [][RtNext]_rtvars

-----------------------------------------------------------------------------
(* Properties.                                                             *)

(* What was reported, what is being heard, what the recogniser holds and   *)
(* what waits for it are, in this order, pieces in the order they were     *)
(* sent, none of them twice, wherever a feed, a clear and an append meet.  *)
WordsInOrderOnce ==
    LET all == finals \o heard \o stream \o pending
    IN \A i, j \in 1 .. Len(all) :
          i < j /\ all[i] # Silence /\ all[j] # Silence => all[i] < all[j]

(* "Finishing the item while audio is still undecoded truncates the        *)
(* transcript" (realtime.go:329): when a commit is answered, nothing that  *)
(* was appended before it is still on its way.                             *)
CommitIsWhole ==
    [][committing /\ ~committing' =>
         \A w \in Range(stream') \cup Range(pending') : w = Silence \/ w > promised]_rtvars

(* "Anything else filling it means the client has stopped reading its own  *)
(* transcript, and the session is closed" (session.go:19): the step that   *)
(* could not deliver a final event is the session's last.                  *)
LostMeansClosed == lost => lpc # "waiting"

(* "A client that asked for a result is answered even if the answer is     *)
(* empty" (realtime.go:446), unless it clears or the session ends.         *)
CommitsAreAnswered ==
    \A k \in 1..Requests : (asked.commit >= k) ~> (answered >= k \/ closed)

(* The words of a session, while it lasts: in order, once, and none lost   *)
(* without the session being closed for it (session.go:19).                *)
WordsArrive == WordsInOrderOnce /\ LostMeansClosed

(* The commits of a session: each is answered, and by everything appended  *)
(* before it (realtime.go:329, realtime.go:446).                           *)
CommitsHold == CommitIsWhole /\ CommitsAreAnswered
=============================================================================
