------------------------------- MODULE Managed -------------------------------
(***************************************************************************)
(* An instance managed by an application (internal/managed: controller.go, *)
(* plan.go, settings.go; cmd/nanoasr/managed.go): what the application     *)
(* chose, what this process was started with, what is on disk, and when      *)
(* the application hears that a restart would change something.  Numbers,  *)
(* paths and the token are left out of the settings.                       *)
(***************************************************************************)
EXTENDS Naturals, FiniteSets

CONSTANTS AsrName, StreamName,      \* the recognition models, those that stream
          VadName, DiarName,
          TseName,      \* the models of the isolation
          HasBuild,     \* names with a CoreML build
          Chosen,       \* bound: which settings the application ever chooses,
          Patches,      \* and how often
          NoName

VARIABLES
    file,       \* settings.json: settings, NoSettings or Torn
    chosen,     \* Controller.settings
    started,    \* Plan.Started
    onDisk,     \* the models on disk
    announced,  \* Controller.announced
    mpc,        \* "down", "serving", or a step of Update
    trying,     \* the settings Update is about to install
    settled,   \* history: the settings that were answered last
    changed,    \* a download or a removal is over, Changed not yet called
    patches, told       \* told: how many restarts were announced, at most 2

mgvars == <<file, chosen, started, onDisk, announced, mpc, trying, settled, changed, patches, told>>

Feature == {"vad", "transcription", "realtime", "diarization", "isolation"}

NoSettings == [asr |-> NoName, stream |-> NoName, diarization |-> FALSE, isolation |-> FALSE, coreml |-> FALSE]
Torn == [NoSettings EXCEPT !.isolation = TRUE]      \* what no Update would save

(* Validate.                                                               *)
Settings == {s \in [asr : AsrName \cup {NoName}, stream : StreamName \cup {NoName}, diarization : BOOLEAN,
                    isolation : BOOLEAN, coreml : BOOLEAN] : s.isolation => s.diarization}

ASSUME ManagedAssumption == Chosen \subseteq Settings /\ Patches \in Nat

(* The build of a model the settings run.                                  *)
Build(s, n) == [name |-> n, coreml |-> s.coreml /\ n \in HasBuild]
Built == {b \in [name : AsrName \cup StreamName \cup {VadName, DiarName} \cup TseName, coreml : BOOLEAN] :
              b.coreml => b.name \in HasBuild}

Wants(s) == [f \in Feature |-> {Build(s, n) : n \in
    CASE f = "vad"           -> {VadName}
      [] f = "transcription" -> {s.asr} \ {NoName}
      [] f = "realtime"      -> {s.stream} \ {NoName}
      [] f = "diarization"   -> IF s.diarization THEN {DiarName} ELSE {}
      [] f = "isolation"     -> IF s.isolation THEN TseName ELSE {}}]

(* Mutant: what was started is remembered without its build.               *)
PlanPlain(s, d) == [f \in Feature |->
    IF f \in {"vad", "realtime"} /\ ~(Wants(s)[f] \subseteq d) THEN {} ELSE {[b EXCEPT !.coreml = FALSE] : b \in Wants(s)[f]}]

(* NewPlan: the VAD and the streaming model cannot wait for their files.   *)
PlanOf(s, d) == [f \in Feature |-> IF f \in {"vad", "realtime"} /\ ~(Wants(s)[f] \subseteq d) THEN {} ELSE Wants(s)[f]]

State(s, run, d, f) ==
    CASE Wants(s)[f] = {} /\ run[f] = {} -> "off"
      [] Wants(s)[f] = {} /\ run[f] # {} -> "restart"
      [] OTHER -> IF ~(Wants(s)[f] \subseteq d) THEN "missing"
                  ELSE IF Wants(s)[f] = run[f] THEN "ready" ELSE "restart"

NeedsRestart(s, run, d) == \E f \in Feature : State(s, run, d, f) = "restart"

MgInit ==
    /\ file = NoSettings /\ chosen = NoSettings /\ settled = NoSettings /\ trying = NoSettings
    /\ onDisk = {} /\ started = PlanOf(NoSettings, {})
    /\ announced = FALSE /\ mpc = "serving" /\ changed = FALSE /\ patches = 0 /\ told = 0

-----------------------------------------------------------------------------
(* Mutant: a restart the settings made necessary is in the answer only.    *)
AnnouncesNot(s) == UNCHANGED <<announced, told>>

(* announceLocked, with s the settings from now on.                        *)
Announces(s) ==
    /\ announced' = NeedsRestart(s, started, onDisk)
    /\ told' = IF announced' /\ ~announced /\ told < 2 THEN told + 1 ELSE told

(* Update, under the mutex: the settings are written beside the old ones,  *)
(* renamed over them, and then they are the settings.                      *)
PatchSettings(s) ==
    /\ mpc = "serving" /\ patches < Patches
    /\ trying' = s /\ mpc' = "saving" /\ patches' = patches + 1
    /\ UNCHANGED <<file, chosen, started, onDisk, announced, settled, changed, told>>

SaveFails ==
    /\ mpc = "saving" /\ mpc' = "serving" /\ trying' = settled
    /\ UNCHANGED <<file, chosen, started, onDisk, announced, settled, changed, patches, told>>

(* Mutant: the settings are written in place.                              *)
SaveInPlace ==
    /\ mpc = "saving" /\ mpc' = "saved"
    /\ file' = Torn
    /\ UNCHANGED <<chosen, started, onDisk, announced, trying, settled, changed, patches, told>>

SaveRenames ==
    /\ mpc = "saving" /\ mpc' = "saved"
    /\ file' = trying
    /\ UNCHANGED <<chosen, started, onDisk, announced, trying, settled, changed, patches, told>>

Installs ==
    /\ mpc = "saved" /\ mpc' = "serving"
    /\ chosen' = trying /\ settled' = trying
    /\ Announces(trying)
    /\ UNCHANGED <<file, started, onDisk, trying, changed, patches>>

(* A download or a removal ends; its last message waits for Changed.       *)
DiskChanges(m) ==
    /\ mpc # "down" /\ ~changed
    /\ onDisk' = IF m \in onDisk THEN onDisk \ {m} ELSE onDisk \cup {m}
    /\ changed' = TRUE
    /\ UNCHANGED <<file, chosen, started, announced, mpc, trying, settled, patches, told>>

Changed ==
    /\ mpc = "serving" /\ changed /\ changed' = FALSE
    /\ Announces(chosen)
    /\ UNCHANGED <<file, chosen, started, onDisk, mpc, trying, settled, patches>>

(* The application stops it, or it dies.                                   *)
Goes ==
    /\ mpc # "down" /\ mpc' = "down" /\ changed' = FALSE
    /\ UNCHANGED <<file, chosen, started, onDisk, announced, trying, settled, patches, told>>

(* managedCommand: settings that cannot be read are moved away.            *)
Comes ==
    LET s == IF file \in Settings THEN file ELSE NoSettings IN
    /\ mpc = "down" /\ mpc' = "serving"
    /\ file' = s /\ chosen' = s /\ settled' = IF file \in Settings THEN file ELSE settled
    /\ started' = PlanOf(s, onDisk)
    /\ announced' = FALSE /\ told' = 0 /\ trying' = settled'
    /\ UNCHANGED <<onDisk, changed, patches>>

MgNext ==
    \/ \E s \in Chosen : PatchSettings(s)
    \/ SaveFails \/ SaveRenames \/ Installs \/ Changed \/ Goes \/ Comes
    \/ \E m \in Built : DiskChanges(m)

MgSpec == MgInit /\ [][MgNext]_mgvars

-----------------------------------------------------------------------------
(* Properties.                                                             *)

(* "restart_required: right after a start it is always false"              *)
(* (nanoasr-embedded.md:432): whatever the settings and the disk, starting *)
(* settles it, and an application that restarts when told does not do so   *)
(* for ever.                                                               *)
RestartSettles == ~NeedsRestart(chosen, PlanOf(chosen, onDisk), onDisk)

(* "Announces a restart the change made necessary" (controller.go:114), be *)
(* it the settings or the models that changed, and takes it back in        *)
(* silence when it is not any more, so that the next one is said again.    *)
RestartIsAnnounced ==
    (mpc = "serving" /\ ~changed) => /\ announced = NeedsRestart(chosen, started, onDisk)
                                     /\ announced => told > 0

(* "A crash leaves the old settings or the new, never half of either"      *)
(* (settings.go:82): what the next start would read is what was settled   *)
(* last, or what an Update that never answered was about to install.       *)
SettingsAreWhole ==
    /\ file \in {settled, trying}
    /\ mpc = "serving" => chosen = settled
=============================================================================
