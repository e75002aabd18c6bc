------------------------------ MODULE Lifecycle ------------------------------
(***************************************************************************)
(* One life of the server process (cmd/nanoasr: build, resume and Close of *)
(* wire.go, buildIsolation of isolation.go, run of main.go): what it       *)
(* builds before it serves, who works with what while it does, and in      *)
(* which order the stop waits for them and frees what they used.           *)
(***************************************************************************)
EXTENDS Naturals, Sequences, FiniteSets

CONSTANT Config     \* the configurations and models directories tried

(* What holds memory outside Go or a file, in the order it is built.       *)
Resource == {"pool", "vad", "diarizer", "streaming", "post", "store", "isolationModels"}
BuildOrder == <<"pool", "vad", "diarizer", "streaming", "post", "store", "isolationModels">>

(* A model is off, unknown to the registry, known to the catalog only, or  *)
(* installed; sherpa is a diarizer that is loaded at the start.            *)
Configs == [vad : {"off", "unknown", "known", "installed"},
            diarizer : {"off", "unknown", "known", "installed"}, sherpa : BOOLEAN,
            realtime : {"off", "unknown", "known", "installed"},
            post : {"off", "unknown", "known", "installed"},
            isolation : {"off", "unknown", "known", "installed"}]

ASSUME LifecycleAssumption == Config \subseteq Configs

VARIABLES
    config,     \* the configuration
    phase,      \* "building", "starting", "serving", "stopping", "closing" or "exited"
    step,       \* the place in BuildOrder, StopOrder or CloseOrder
    held,       \* what is built and not yet closed
    done,       \* context: the process was told to stop
    running,    \* who runs
    outcome,    \* "well", "unbuilt" or "failed"
    overtime    \* somebody was not waited for to the end

lcvars == <<config, phase, step, held, done, running, outcome, overtime>>

LcInit ==
    /\ config \in Config /\ phase = "building" /\ step = 1
    /\ held = {} /\ running = {} /\ done = FALSE /\ outcome = "well" /\ overtime = FALSE

-----------------------------------------------------------------------------
(* What becomes of each part under a configuration: "ready", "absent" or   *)
(* "refused".                                                              *)
BuildVAD(c) == IF c.vad \in {"off", "installed"} THEN "ready" ELSE "refused"

(* Sherpa's two models are loaded here.                                    *)
SherpaRefused(c) == c.sherpa /\ c.diarizer # "installed"

(* Mutant: as if Sortformer were loaded here too.                          *)
BuildDiarizerNow(c) ==
    CASE c.diarizer = "off"       -> "absent"
      [] c.diarizer = "installed" -> "ready"
      [] OTHER                    -> "refused"

(* Sortformer is loaded by the first request that asks for speakers.       *)
BuildDiarizer(c) ==
    CASE c.diarizer = "off"       -> "absent"
      [] c.diarizer = "unknown"   -> "refused"
      [] OTHER                    -> IF SherpaRefused(c) THEN "refused" ELSE "ready"

BuildRealtime(c) ==
    CASE c.realtime = "off" -> "absent" [] c.realtime = "installed" -> "ready" [] OTHER -> "refused"

BuildPostProc(c) ==
    CASE c.post = "off" -> "absent" [] c.post = "installed" -> "ready" [] OTHER -> "refused"

(* The models of the isolation wait for the first isolation.               *)
BuildIsolation(c) ==
    CASE c.isolation = "off" -> "absent"
      [] c.isolation # "off" /\ (c.diarizer = "off" \/ c.isolation = "unknown") -> "refused"
      [] OTHER -> "ready"

BuildOf(r) ==
    CASE r = "vad"              -> BuildVAD(config)
      [] r = "diarizer"         -> BuildDiarizer(config)
      [] r = "streaming"        -> BuildRealtime(config)
      [] r = "post"             -> BuildPostProc(config)
      [] r = "isolationModels" -> BuildIsolation(config)
      [] OTHER -> "ready"

(* What build closes when r cannot be built.                               *)
Unwound(r) ==
    CASE r = "pool"      -> {}
      [] r = "vad"       -> {"pool"}
      [] r = "diarizer"  -> {"pool", "vad"}
      [] r = "streaming" -> {"pool", "vad", "diarizer"}
      [] r = "post"      -> {"pool", "vad", "diarizer", "streaming"}
      [] r = "store"     -> {"pool", "vad", "diarizer", "streaming", "post"}
      [] OTHER           -> {"pool", "vad", "diarizer", "streaming", "post", "store"}

(* Mutant: a step added to build without its line in the later unwindings. *)
BuildStepForgetful ==
    LET r == BuildOrder[step] IN
    /\ phase = "building"
    /\ \/ /\ BuildOf(r) # "refused"
          /\ held' = IF BuildOf(r) = "ready" THEN held \cup {r} ELSE held
          /\ IF step < Len(BuildOrder) THEN step' = step + 1 /\ UNCHANGED phase
                                       ELSE step' = 1 /\ phase' = "starting"
          /\ UNCHANGED outcome
       \/ /\ BuildOf(r) # "absent" /\ r # "pool" /\ (r = "vad" => config.vad # "off")
          /\ held' = held \ (Unwound(r) \ {"post"}) /\ phase' = "exited" /\ outcome' = "unbuilt"
          /\ UNCHANGED step
    /\ UNCHANGED <<config, done, running, overtime>>

(* One of the builders: a model that is there may still not load.          *)
BuildStep ==
    LET r == BuildOrder[step] IN
    /\ phase = "building"
    /\ \/ /\ BuildOf(r) # "refused"
          /\ held' = IF BuildOf(r) = "ready" THEN held \cup {r} ELSE held
          /\ IF step < Len(BuildOrder) THEN step' = step + 1 /\ UNCHANGED phase
                                       ELSE step' = 1 /\ phase' = "starting"
          /\ UNCHANGED outcome
       \/ /\ BuildOf(r) # "absent" /\ r # "pool" /\ (r = "vad" => config.vad # "off")
          /\ held' = held \ Unwound(r) /\ phase' = "exited" /\ outcome' = "unbuilt"
          /\ UNCHANGED step
    /\ UNCHANGED <<config, done, running, overtime>>

-----------------------------------------------------------------------------
Closes(with) == phase' = "closing" /\ step' = 1 /\ outcome' = with

(* resume: the queue's workers; it may fail before they start.             *)
Resume ==
    /\ phase = "starting" /\ "workers" \notin running
    /\ \/ running' = running \cup {"workers"} /\ UNCHANGED <<phase, step, outcome>>
       \/ Closes("failed") /\ UNCHANGED running
    /\ UNCHANGED <<config, held, done, overtime>>

(* The decoder loop, the isolation's workers and, when the listener has    *)
(* its port, the handlers; something on the way may fail.                  *)
StartServing ==
    /\ phase = "starting" /\ "workers" \in running
    /\ LET begun == running \cup (IF "streaming" \in held THEN {"loop"} ELSE {})
                            \cup (IF "isolationModels" \in held THEN {"isolation"} ELSE {})
       IN \/ running' = begun \cup {"handlers"} /\ phase' = "serving" /\ UNCHANGED <<step, outcome>>
          \/ running' = begun /\ Closes("failed")
    /\ UNCHANGED <<config, held, done, overtime>>

(* A signal, the control manager or the application.                       *)
Interrupt ==
    /\ phase \in {"starting", "serving"} /\ ~done /\ done' = TRUE
    /\ UNCHANGED <<config, phase, step, held, running, outcome, overtime>>

StopsServing ==
    /\ phase = "serving"
    /\ \/ done /\ phase' = "stopping" /\ step' = 1 /\ UNCHANGED outcome
       \/ Closes("failed")
    /\ UNCHANGED <<config, held, done, running, overtime>>

(* Those that run end: handlers and workers when they are asked to, the    *)
(* loop with the context.                                                  *)
StopOrder == <<"handlers", "workers">>
Asked(u) ==
    CASE u = "loop"      -> done
      [] u = "isolation" -> done \/ (phase = "closing" /\ step >= 3)
      [] OTHER -> phase = "closing" \/ (phase = "stopping" /\ \E i \in 1..step : StopOrder[i] = u)

UserEnds(u) ==
    /\ u \in running /\ Asked(u)
    /\ running' = running \ {u}
    /\ UNCHANGED <<config, phase, step, held, done, outcome, overtime>>

(* Shutdown of the listener and of the queue: until they are done or the   *)
(* grace period is over.                                                   *)
StopStep ==
    /\ phase = "stopping"
    /\ overtime' = (overtime \/ StopOrder[step] \in running)
    /\ IF step < Len(StopOrder) THEN step' = step + 1 /\ UNCHANGED <<phase, outcome>> ELSE Closes("well")
    /\ UNCHANGED <<config, held, done, running>>

(* Close: waits for the loop, frees its model, waits for the isolation,    *)
(* frees its models and then everything else.                              *)
CloseOrder == <<"loop", "streaming", "isolation", "isolationModels", "store", "vad", "diarizer", "post", "pool">>

(* Mutant: the models of the isolation go with the streaming model.        *)
CloseStepEarly ==
    LET at == CloseOrder[step] IN
    /\ phase = "closing"
    /\ at = "isolation" => at \notin running
    /\ overtime' = (overtime \/ (at = "loop" /\ at \in running))
    /\ held' = IF at = "streaming" THEN held \ {at, "isolationModels"} ELSE held \ {at}
    /\ IF step < Len(CloseOrder) THEN step' = step + 1 /\ UNCHANGED phase ELSE phase' = "exited" /\ UNCHANGED step
    /\ UNCHANGED <<config, done, running, outcome>>

CloseStep ==
    LET at == CloseOrder[step] IN
    /\ phase = "closing"
    /\ at = "isolation" => at \notin running
    /\ overtime' = (overtime \/ (at = "loop" /\ at \in running))
    /\ held' = held \ {at}
    /\ IF step < Len(CloseOrder) THEN step' = step + 1 /\ UNCHANGED phase ELSE phase' = "exited" /\ UNCHANGED step
    /\ UNCHANGED <<config, done, running, outcome>>

LcNext == BuildStep \/ Resume \/ StartServing \/ Interrupt \/ StopsServing \/ StopStep \/ CloseStep
             \/ \E u \in running : UserEnds(u)

LcSpec == LcInit /\ [][LcNext]_lcvars

-----------------------------------------------------------------------------
(* Properties.                                                             *)

(* Whatever could not be built, what was built before it is closed.        *)
FailedBuildLeavesNothing == outcome = "unbuilt" => held = {}

Needs(u) ==
    CASE u = "workers"   -> {"pool", "vad", "diarizer", "post", "store"}
      [] u = "loop"      -> {"streaming"}
      [] u = "isolation" -> {"isolationModels", "diarizer", "store"}
      [] OTHER           -> {"store"}

(* "Isolation stops first: its workers use the diarizer and its own        *)
(* models" (wire.go:602), and "it has to have returned before the          *)
(* recogniser is freed" (590): nothing is freed under somebody who has it, *)
(* but for those who outlived their grace period and for a run that ends   *)
(* with an error, which waits for nobody but the isolation.                *)
NothingFreedInUse ==
    (~overtime /\ outcome = "well") =>
        \A u \in running : Needs(u) \cap (IF phase \in {"closing", "exited"} THEN Resource \ held ELSE {})
                             \subseteq {r \in Resource : BuildOf(r) = "absent"}

(* "a server upgraded to this default, or one whose model is not on disk   *)
(* yet, starts regardless" (wire.go:653): models that are in the catalog   *)
(* keep nothing from starting when a request is what loads them.           *)
StartsRegardless ==
    (/\ config.vad \in {"off", "installed"} /\ config.realtime \in {"off", "installed"}
     /\ config.post \in {"off", "installed"} /\ ~config.sherpa
     /\ config.diarizer \in {"known", "installed"} /\ config.isolation # "unknown")
      => \A r \in Resource : BuildOf(r) # "refused"

(* The server comes up and goes down in order: a part that cannot be built *)
(* takes with it what was built before, one that only runs late does not   *)
(* hold up the start, and nothing is freed under its user.                 *)
UpAndDownInOrder == FailedBuildLeavesNothing /\ NothingFreedInUse /\ StartsRegardless
=============================================================================
