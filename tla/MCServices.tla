----------------------------- MODULE MCServices ------------------------------
(* Small instances of the services that owe somebody an answer, one          *)
(* behaviour of each: `part' says whose behaviour it is, and the others keep *)
(* still in their initial states.                                            *)
EXTENDS Governor, RealtimeSession, RealtimeEngine, Downloads,
        AudioDecode

CONSTANTS c1, c2, c3, c4

MCAsks == [c \in Caller |-> CASE c = c1 -> 0
                              [] c = c2 -> 1
                              [] c = c3 -> 2
                              [] OTHER -> 7]

(* An odd number of bytes from each block, and what is not audio.            *)
MCInputs == {[blocks |-> 2, samples |-> 3, sound |-> TRUE], [blocks |-> 2, samples |-> 0, sound |-> FALSE]}

VARIABLE part

Parts == {"governor", "session", "engine", "downloads", "decode"}

ServicesInit ==
    /\ part \in Parts
    /\ part = "decode" \/ request = CHOOSE d \in Decodings : TRUE
    /\ Init /\ RtInit /\ ReInit /\ DlInit /\ AdInit

(* The part moves and the others do not.                                     *)
ServicesNext ==
    /\ UNCHANGED part
    /\ IF part = "governor" THEN Next ELSE UNCHANGED vars
    /\ IF part = "session" THEN RtNext ELSE UNCHANGED rtvars
    /\ IF part = "engine" THEN ReNext ELSE UNCHANGED revars
    /\ IF part = "downloads" THEN DlNext ELSE UNCHANGED dlvars
    /\ IF part = "decode" THEN AdNext ELSE UNCHANGED advars

(* Every goroutine that can go on does; nobody has to call, to cancel, to    *)
(* read or to send.                                                          *)
ServicesSpec ==
    /\ ServicesInit
    /\ [][ServicesNext]_<<part, vars, rtvars, revars, dlvars, advars>>
    /\ \A c \in Caller : WF_vars(Enter(c)) /\ WF_vars(Alarm(c))
    /\ WF_rtvars(part = "session" /\ LoopStep)
    /\ WF_revars(LoopCloses) /\ WF_revars(RunReturns)
    /\ \A c \in Conn :
         /\ WF_revars(ConnSteps(c)) /\ WF_revars(AdmitSession(c)) /\ WF_revars(PumpEnds(c))
         /\ WF_revars(CloseSends(c) \/ CloseTooLate(c)) /\ WF_revars(DiscardCloses(c))
         /\ WF_revars(IdleExpires(c))
    /\ \A d \in Download : WF_dlvars(DownloadSteps(d))
    /\ \A c \in Asker : WF_dlvars(AskerSteps(c))
    /\ WF_advars(part = "decode" /\ WatchKills) /\ WF_advars(part = "decode" /\ WatchCloses)
    /\ WF_advars(part = "decode" /\ Feed)
    /\ WF_advars(part = "decode" /\ Decode)
=============================================================================
