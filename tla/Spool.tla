------------------------------- MODULE Spool -------------------------------
(***************************************************************************)
(* The disk budget for queued audio (internal/spool/spool.go).             *)
(*                                                                         *)
(* A queued job owns its upload from the moment it is accepted until it    *)
(* reaches a terminal state.  The budget is a counter in memory; the files *)
(* are on disk and outlive the process.  The actions of this module are    *)
(* the operations of the type Spool; SpoolSpec is the discipline its       *)
(* callers owe it (reserve before adopting, delete before releasing, sweep *)
(* before serving), which JobQueue is shown to keep.                       *)
(***************************************************************************)
EXTENDS Weighted

CONSTANTS Job,        \* job identifiers; an id is never used twice
          Size,       \* Size[j]: bytes of the audio of j
          MaxBytes,   \* Spool.max; 0 means unlimited
          RemovalsMayFail  \* os.Remove may report an error, which is only logged

ASSUME SpoolAssumption ==
    /\ IsFiniteSet(Job)
    /\ Size \in [Job -> Nat]
    /\ MaxBytes \in Nat
    /\ RemovalsMayFail \in BOOLEAN

VARIABLES
    held,    \* domain of Spool.held: jobs with a reservation
    used,    \* Spool.used
    files,   \* jobs whose audio file exists in the spool directory
    leftover, \* history: files that could not be removed, or that Sweep
              \* could not take into the budget again
    swept    \* Sweep has run in this process

spoolVars == <<held, used, files, leftover, swept>>

-----------------------------------------------------------------------------
(* Bytes taken by a set of jobs.                                           *)
Usage(S) == Weight(S, Size)

Fits(n) == MaxBytes = 0 \/ n <= MaxBytes

SpoolInit ==
    /\ held = {}
    /\ used = 0
    /\ files = {} /\ leftover = {}
    /\ swept = TRUE

(* Mutant: the new job itself is not counted against the budget.           *)
ReserveUncounted(j) ==
    /\ j \notin held /\ Fits(used)
    /\ held' = held \cup {j} /\ used' = used + Size[j]
    /\ UNCHANGED <<files, leftover, swept>>

(* Reserve: claim the bytes of a job, or refuse with queue_full.           *)
Reserve(j) ==
    /\ j \notin held
    /\ Fits(used + Size[j])
    /\ held' = held \cup {j}
    /\ used' = used + Size[j]
    /\ UNCHANGED <<files, leftover, swept>>

ReserveRefused(j) == j \in held \/ ~Fits(used + Size[j])

(* Mutant: bytes come back whether or not there was a reservation.         *)
ReleaseUnchecked(j) ==
    /\ held' = held \ {j} /\ used' = used - Size[j]
    /\ UNCHANGED <<files, leftover, swept>>

(* Release is idempotent: a job without a reservation changes nothing.     *)
Release(j) ==
    /\ held' = held \ {j}
    /\ used' = IF j \in held THEN used - Size[j] ELSE used
    /\ UNCHANGED <<files, leftover, swept>>

(* Adopt moves or copies the upload to the path derived from the job id.   *)
Adopt(j) ==
    /\ files' = files \cup {j}
    /\ UNCHANGED <<held, used, leftover, swept>>

(* A copy that fails takes what it wrote away again, if it can.            *)
AdoptFails(j) ==
    \/ UNCHANGED spoolVars
    \/ /\ RemovalsMayFail
       /\ files' = files \cup {j} /\ leftover' = leftover \cup {j}
       /\ UNCHANGED <<held, used, swept>>

(* The first half of Remove: os.Remove, where a missing file is no error   *)
(* and any other error is logged.  The second half is Release, under the   *)
(* mutex, whichever way the first one ended.                               *)
RemoveFile(j) ==
    /\ \/ files' = files \ {j} /\ leftover' = leftover \ {j}
       \/ /\ RemovalsMayFail /\ j \in files
          /\ leftover' = leftover \cup {j} /\ UNCHANGED files
    /\ UNCHANGED <<held, used, swept>>

(* A greedy pass over the directory in any order re-reserves kept and can  *)
(* refuse only what no longer fits.                                        *)
Rereserved(kept, alive) ==
    /\ kept \subseteq alive
    /\ Fits(Usage(kept)) \/ kept = {}
    /\ \A j \in alive \ kept : ~Fits(Usage(kept \cup {j}))

(* Mutant: orphans stay on disk.                                           *)
SweepKeepsOrphans(live) ==
    /\ \E kept \in SUBSET (files \cap live) :
          /\ Rereserved(kept, files \cap live)
          /\ held' = kept /\ used' = used + Usage(kept)
    /\ swept' = TRUE
    /\ UNCHANGED <<files, leftover>>

(* Sweep re-reserves the audio of the live jobs and deletes the orphans; a *)
(* file it can neither pay for nor remove stays where it is.               *)
Sweep(live) ==
    \E kept \in SUBSET (files \cap live), stuck \in SUBSET (files \ live) :
        /\ Rereserved(kept, files \cap live)
        /\ RemovalsMayFail \/ stuck = {}
        /\ held' = kept
        /\ used' = used + Usage(kept)
        /\ files' = (files \cap live) \cup stuck
        /\ leftover' = ((files \cap live) \ kept) \cup stuck
        /\ swept' = TRUE

(* The process ends: the counter is gone, the files stay.                  *)
SpoolLost ==
    /\ held' = {}
    /\ used' = 0
    /\ swept' = FALSE
    /\ UNCHANGED <<files, leftover>>

-----------------------------------------------------------------------------
(* The order in which callers must use the operations.                     *)
SpoolNext ==
    \/ \E j \in Job :
          \/ swept /\ Reserve(j)
          \/ swept /\ j \in held /\ (Adopt(j) \/ AdoptFails(j))
          \/ swept /\ RemoveFile(j)
          \/ swept /\ j \notin files \ leftover /\ Release(j)
    \/ ~swept /\ \E live \in SUBSET Job : Sweep(live)
    \/ SpoolLost

SpoolSpec == SpoolInit /\ [][SpoolNext]_spoolVars

-----------------------------------------------------------------------------
SpoolTypeOK ==
    /\ held \subseteq Job
    /\ files \subseteq Job /\ leftover \subseteq files
    /\ used \in Nat
    /\ swept \in BOOLEAN

(* spool.go 86-87: releasing twice, "a cancellation racing a completion,   *)
(* say", cannot make the counter drift from what is really reserved.       *)
Accounting == used = Usage(held)

(* A file on the disk of a serving process is paid for, so bytes are never *)
(* handed out a second time while the file still occupies them, with one   *)
(* exception: what os.Remove refused to delete is no longer counted        *)
(* (spool.go 137-140).                                                     *)
FilesArePaidFor == swept => files \ leftover \subseteq held

(* Files are left over only where a removal fails.                         *)
LeftoverOnlyByFailure == ~RemovalsMayFail => leftover = {}

(* spool.go 74-79: the disk commitment.  The bytes on disk stay within the *)
(* budget across refusals, cancellations, crashes and sweeps, but for the  *)
(* files that could not be removed.                                        *)
DiskWithinBudget == Fits(Usage(files \ leftover))

(* A reservation is never above the budget, so Used() can be trusted.      *)
ReservedWithinBudget == Fits(used)
=============================================================================
