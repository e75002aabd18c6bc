------------------------------ MODULE Completion ------------------------------
(***************************************************************************)
(* Completing an installed model (internal/registry/complete.go), as       *)
(* `nanoasr models pull' does (cmd/nanoasr/pull.go): the files the catalog *)
(* names and the directory lacks are fetched, and the manifest on disk     *)
(* gets the roles it does not know.  Each puller is a process of its own   *)
(* and may be killed anywhere.  A role and its file are one.               *)
(***************************************************************************)
EXTENDS Fetch, Downloads

CONSTANTS Puller,
          Shipped,      \* the roles of the catalog entry whose files the archive brings
          Beside,       \* those whose files source.extra names
          Own           \* roles an operator added, with their files

VARIABLES
    present,    \* the files in the model's directory
    manifest,   \* the roles model.yaml names
    torn,       \* model.yaml has been truncated and not written
    puller

cpvars == <<present, manifest, torn, puller>>

Pulled == [pc |-> "idle", missing |-> {}, added |-> {}, doc |-> {}]

(* A model that loads, as an older build installed it.                     *)
CpInit ==
    /\ present \in {Own \cup s : s \in SUBSET (Shipped \cup Beside)}
    /\ manifest \in {Own \cup s : s \in SUBSET (present \ Own)}
    /\ torn = FALSE
    /\ puller = [p \in Puller |-> Pulled]

PullerIs(p, r) == puller' = [puller EXCEPT ![p] = r]

FindMissing(p) ==
    /\ puller[p].pc = "idle"
    /\ PullerIs(p, [Pulled EXCEPT !.pc = "reading", !.missing = Beside \ present])
    /\ UNCHANGED <<present, manifest, torn>>

(* Mutant: every role of the catalog.                                      *)
RolesOfCatalog(missing, doc) == (Shipped \cup Beside) \ doc

(* Only roles whose files are there, or will be in a moment.               *)
RolesToAdd(missing, doc) == {r \in (Shipped \cup Beside) \ doc : r \in present \cup missing}

ReadRoles(p) ==
    LET missing == puller[p].missing
        added   == RolesToAdd(missing, manifest)
    IN
    /\ puller[p].pc = "reading"
    /\ IF torn \/ (missing = {} /\ added = {}) THEN PullerIs(p, Pulled)
       ELSE PullerIs(p, [pc |-> "fetching", missing |-> missing, added |-> added, doc |-> manifest])
    /\ UNCHANGED <<present, manifest, torn>>

(* FetchExtra into a temporary name, and a rename.                         *)
FetchBeside(p, f) ==
    /\ puller[p].pc = "fetching" /\ f \in puller[p].missing
    /\ present' = present \cup {f}
    /\ PullerIs(p, [puller[p] EXCEPT !.missing = @ \ {f}])
    /\ UNCHANGED <<manifest, torn>>

(* A fetch that fails ends it; so does whoever kills the process.          *)
PullEnds(p) ==
    /\ puller[p].pc # "idle" /\ PullerIs(p, Pulled)
    /\ UNCHANGED <<present, manifest, torn>>

(* writeManifest truncates the file, ...                                   *)
OpenManifest(p) ==
    /\ puller[p].pc = "fetching" /\ puller[p].missing = {} /\ puller[p].added # {}
    /\ torn' = TRUE /\ PullerIs(p, [puller[p] EXCEPT !.pc = "writing"])
    /\ UNCHANGED <<present, manifest>>

(* Mutant: ... and writes the catalog's entry.                             *)
WriteCatalogEntry(p) ==
    /\ puller[p].pc = "writing"
    /\ manifest' = (puller[p].doc \ Own) \cup puller[p].added /\ torn' = FALSE /\ PullerIs(p, Pulled)
    /\ UNCHANGED present

(* ... and writes what it was and what it lacked.                          *)
WriteRoles(p) ==
    /\ puller[p].pc = "writing"
    /\ manifest' = puller[p].doc \cup puller[p].added /\ torn' = FALSE /\ PullerIs(p, Pulled)
    /\ UNCHANGED present

CpNext == \E p \in Puller :
    \/ FindMissing(p) \/ ReadRoles(p) \/ PullEnds(p) \/ OpenManifest(p) \/ WriteRoles(p)
    \/ \E f \in Beside : FetchBeside(p, f)

CpSpec == CpInit /\ [][CpNext]_cpvars

-----------------------------------------------------------------------------
(* Properties.                                                             *)

(* "Writing that name into the manifest of an older installation would     *)
(* turn a working model into one that cannot load" (complete.go:62): a     *)
(* manifest that can be read names only files that are there, whatever     *)
(* fails and whoever completes the model at the same time.                 *)
ManifestNamesWhatIsThere == ~torn => manifest \subseteq present

(* "The manifest on disk is edited rather than replaced.  It may carry an  *)
(* operator's own changes" (complete.go:26), which stay.                   *)
OwnRolesStay == ~torn => Own \subseteq manifest

(* What the registry serves is what it says: bytes of the source that was  *)
(* asked for, within the limits, under a manifest of the files there are,  *)
(* fetched by one download at a time (download.go, remote.go:33).          *)
ModelsAreWhole ==
    /\ FetchedIsWanted /\ NeverOverLimit /\ UnpackedIsBounded
    /\ ManifestNamesWhatIsThere /\ OwnRolesStay
    /\ OneDownloadPerModel /\ SlotsExact /\ CancelledIsReported
=============================================================================
