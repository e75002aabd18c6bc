---------------------------- MODULE WindowsService ----------------------------
(***************************************************************************)
(* The server under the Windows service control manager (cmd/nanoasr/      *)
(* service_windows.go): Execute and drain, which report to the manager,    *)
(* and the commands that install, start, stop and remove the service.  The *)
(* manager is external: it starts the registered binary, hands a stop to   *)
(* it, and starts again what ended with a code other than zero.  Time is   *)
(* counted in ticks of drain's ticker, half a wait hint.                   *)
(***************************************************************************)
EXTENDS Naturals, FiniteSets

CONSTANTS
    Operator,           \* those who run commands
    StopTimeout,        \* serviceStopTimeout, in ticks
    Hint,               \* the wait hint, in ticks
    Restarts,           \* bound: restarts by the policy
    Commands            \* bound: commands given by one operator

ASSUME WindowsServiceAssumption == StopTimeout \in Nat /\ Hint \in Nat \ {0}

VARIABLES
    registered,         \* "absent", or the archive whose binary is registered: "old", "new"
    scm,                \* what was reported last, and for how long nothing new was
    proc,               \* the process: its stage, its binary, how long it drains
    policy,             \* again: the manager is about to start it again; had a stop been taken; how often it did
    command             \* operator -> verb, step, how long it waits, how many it gave

svcvars == <<registered, scm, proc, policy, command>>

NoProcess == [stage |-> "none", binary |-> "absent", drains |-> 0]

SvcInit ==
    /\ registered \in {"absent", "old"}
    /\ scm = [state |-> "stopped", checkpoint |-> 0, age |-> 0]
    /\ proc = NoProcess /\ policy = [again |-> FALSE, taken |-> FALSE, done |-> 0]
    /\ command = [o \in Operator |-> [verb |-> "none", step |-> "idle", waited |-> 0, given |-> 0]]

Reports(state, n) == scm' = [state |-> state, checkpoint |-> n, age |-> 0]

-----------------------------------------------------------------------------
(* Execute: "Reported as running as soon as the server is launched".       *)
Execute ==
    /\ scm.state = "startpending" /\ proc.stage = "launched"
    /\ proc' = [proc EXCEPT !.stage = "serving"] /\ Reports("running", 0)
    /\ UNCHANGED <<registered, policy, command>>

Exits(taken, code) ==
    /\ proc' = NoProcess /\ Reports("stopped", 0)
    /\ policy' = [policy EXCEPT !.again = code # 0 /\ policy.done < Restarts, !.taken = taken]
    /\ UNCHANGED <<registered, command>>

(* "A non-zero exit code is what makes the restart-on-failure policy fire".*)
(* Execute may look at the server's end before a stop that waits.          *)
ServerReturns == proc.stage \in {"serving", "stopping"} /\ \E code \in {0, 1} : Exits(FALSE, code)

(* The request is taken: the context is cancelled and drain begins.        *)
StopTaken ==
    /\ proc.stage = "stopping" /\ Reports("stoppending", 1)
    /\ proc' = [proc EXCEPT !.stage = "draining"]
    /\ UNCHANGED <<registered, policy, command>>

(* Mutant: the code says what the server returned.                         *)
DrainedAsReturned == proc.stage = "draining" /\ \E code \in {0, 1} : Exits(TRUE, code)

(* drain: the server has returned, or serviceStopTimeout has passed: "The  *)
(* exit code is zero whatever the server returned".                        *)
Drained == proc.stage = "draining" /\ Exits(TRUE, 0)

(* Mutant: every report is the same.                                       *)
SameCheckpoint(n) == n

NextCheckpoint(n) == n + 1

(* A tick of drain's ticker: it reports; the manager looks for a checkpoint*)
(* that has risen.  Commands that wait look again.                         *)
SvcTick ==
    /\ proc.stage = "draining" \/ \E o \in Operator : command[o].step = "waiting"
    /\ proc.stage = "draining" => proc.drains < StopTimeout
    /\ \A o \in Operator : command[o].step = "waiting" => command[o].waited < StopTimeout
    /\ IF proc.stage = "draining"
       THEN /\ proc' = [proc EXCEPT !.drains = @ + 1]
            /\ scm' = [scm EXCEPT !.checkpoint = NextCheckpoint(@),
                                  !.age = IF NextCheckpoint(scm.checkpoint) > scm.checkpoint THEN 0 ELSE @ + 1]
       ELSE UNCHANGED <<proc, scm>>
    /\ command' = [o \in Operator |-> IF command[o].step = "waiting" THEN [command[o] EXCEPT !.waited = @ + 1]
                                                                    ELSE command[o]]
    /\ UNCHANGED <<registered, policy>>

-----------------------------------------------------------------------------
(* The manager starts what is registered.                                  *)
Launch ==
    /\ proc' = [stage |-> "launched", binary |-> registered, drains |-> 0]
    /\ Reports("startpending", 0)

(* SetRecoveryActions: after a delay.                                      *)
PolicyRestarts ==
    /\ policy.again /\ policy' = [policy EXCEPT !.again = FALSE, !.done = @ + 1]
    /\ IF scm.state = "stopped" /\ registered # "absent" THEN Launch ELSE UNCHANGED <<scm, proc>>
    /\ UNCHANGED <<registered, command>>

Steps(o, step) == command' = [command EXCEPT ![o].step = step, ![o].waited = 0]

(* serviceCommand.  Elevation and the configuration are checked before     *)
(* anything changes; a command that is refused for them is none.           *)
CommandGiven(o, verb) ==
    /\ command[o].step \in {"idle", "ok", "failed"} /\ command[o].given < Commands
    /\ command' = [command EXCEPT ![o] = [verb |-> verb, waited |-> 0, given |-> @.given + 1,
           step |-> IF registered # "absent" THEN (IF verb = "start" THEN "start" ELSE "stop")
                    ELSE IF verb = "install" THEN "register"
                    ELSE IF verb = "uninstall" THEN "ok" ELSE "failed"]]
    /\ UNCHANGED <<registered, scm, proc, policy>>

AfterStop(o) ==
    CASE command[o].verb = "install"   -> "register"
      [] command[o].verb = "uninstall" -> "remove"
      [] command[o].verb = "restart"   -> "start"
      [] command[o].verb = "stop"      -> "ok"

(* stopAndWait: a service that is on its way up or down refuses.           *)
StopControl(o) ==
    /\ command[o].step = "stop"
    /\ IF scm.state = "stopped" THEN Steps(o, AfterStop(o)) /\ UNCHANGED proc
       ELSE IF proc.stage = "serving" THEN proc' = [proc EXCEPT !.stage = "stopping"] /\ Steps(o, "waiting")
       ELSE Steps(o, "failed") /\ UNCHANGED proc
    /\ UNCHANGED <<registered, scm, policy>>

(* waitForState: until it is so, or the deadline.                          *)
WaitEnds(o) ==
    /\ \/ command[o].step = "waiting" /\ scm.state = "stopped" /\ Steps(o, AfterStop(o))
       \/ command[o].step = "starting" /\ scm.state = "running" /\ Steps(o, "ok")
       \/ command[o].step = "waiting" /\ command[o].waited = StopTimeout /\ Steps(o, "failed")
       \/ command[o].step = "starting" /\ Steps(o, "failed")
    /\ UNCHANGED <<registered, scm, proc, policy>>

(* UpdateConfig or CreateService, and Delete.                              *)
Registers(o) ==
    /\ \/ command[o].step = "register" /\ registered' = "new" /\ Steps(o, "start")
       \/ command[o].step = "remove" /\ registered' = "absent" /\ Steps(o, "ok")
    /\ UNCHANGED <<scm, proc, policy>>

(* Mutant: a service that runs already is as good.                         *)
AlreadyFine(o) == TRUE

(* startService says so of a service that runs already; installService     *)
(* fails.                                                                  *)
AlreadyRunning(o) == command[o].verb # "install"

StartControl(o) ==
    /\ command[o].step = "start"
    /\ IF registered = "absent" THEN Steps(o, "failed") /\ UNCHANGED <<scm, proc>>
       ELSE IF scm.state = "stopped" THEN Steps(o, "starting") /\ Launch
       ELSE Steps(o, IF AlreadyRunning(o) THEN "ok" ELSE "failed") /\ UNCHANGED <<scm, proc>>
    /\ UNCHANGED <<registered, policy>>

SvcNext ==
    \/ Execute \/ ServerReturns \/ StopTaken \/ Drained \/ SvcTick \/ PolicyRestarts
    \/ \E o \in Operator :
          \/ \E verb \in {"install", "uninstall", "start", "stop", "restart"} : CommandGiven(o, verb)
          \/ StopControl(o) \/ WaitEnds(o) \/ Registers(o) \/ StartControl(o)

SvcSpec == SvcInit /\ [][SvcNext]_svcvars

-----------------------------------------------------------------------------
(* Properties.                                                             *)

(* "an operator who ran Stop-Service would watch the service come back"    *)
(* (service_windows.go:123): the policy does not start a service whose     *)
(* last process took the stop it was handed, whatever the server returned  *)
(* while it drained.  A stop that waits while the server ends on its own   *)
(* is not taken (service_windows.go:82): that service may come back,       *)
(* although Stop-Service saw it stopped.                                   *)
TakenStopSticks == policy.again => ~policy.taken

(* "Without the rising checkpoint the SCM gives up" (service_windows.go:   *)
(* 113): while a shutdown takes its time, the manager sees progress within *)
(* the hint it was given, and no shutdown goes on for ever.                *)
ManagerKeepsWaiting == scm.state = "stoppending" => scm.age < Hint /\ proc.drains <= StopTimeout

(* "so point the service at this binary" (service_windows.go:246): when an *)
(* installation says the service runs, what runs is the new binary,        *)
(* whoever else controls the service and whenever the policy restarts it.  *)
UpgradeRunsTheNew ==
    [][\A o \in Operator :
          command[o].verb = "install" /\ command[o].step \in {"start", "starting"} /\ command'[o].step = "ok"
             => proc.binary = "new"]_svcvars

(* The service does what the commands say: a stop that was taken sticks,   *)
(* the manager is never kept from waiting for a drain, and an upgrade that *)
(* succeeds runs the new program.                                          *)
ServiceObeys == [](TakenStopSticks /\ ManagerKeepsWaiting) /\ UpgradeRunsTheNew
=============================================================================
