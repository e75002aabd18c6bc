--------------------------- MODULE JobQueueProofs ---------------------------
(***************************************************************************)
(* Theorems about the spool, for every finite set of jobs, every size and  *)
(* every budget, and about the job queue, for any number of workers and    *)
(* clients besides, every queue size and any number of restarts: that it   *)
(* keeps the discipline of the spool, its bound on admission, and how jobs *)
(* end.                                                                    *)
(***************************************************************************)
EXTENDS JobQueue

-----------------------------------------------------------------------------
(* The bytes taken by a set of jobs.                                       *)

(* A set of jobs is finite and every size is a number.                     *)
LEMMA JobsWeigh ==
    ASSUME NEW S, S \subseteq Job
    PROVE  IsFiniteSet(S) /\ \A j \in S : Size[j] \in Nat
BY SpoolAssumption, FS_Subset

(* No jobs, no bytes.                                                      *)
LEMMA UsageEmpty == Usage({}) = 0
BY WeightEmpty DEF Usage

(* What jobs take is a number of bytes.                                    *)
LEMMA UsageNat ==
    ASSUME NEW S, S \subseteq Job
    PROVE  Usage(S) \in Nat
BY JobsWeigh, WeightNat DEF Usage

(* More jobs take at least as many bytes.                                  *)
LEMMA UsageMonotone ==
    ASSUME NEW A, NEW B, A \subseteq B, B \subseteq Job
    PROVE  Usage(A) <= Usage(B)
BY JobsWeigh, WeightMonotone DEF Usage

(* A further job takes exactly its size.                                   *)
LEMMA UsageAdd ==
    ASSUME NEW S, S \subseteq Job, NEW j \in Job, j \notin S
    PROVE  Usage(S \cup {j}) = Usage(S) + Size[j]
<1>1. IsFiniteSet(S) /\ \A x \in S \cup {j} : Size[x] \in Nat
  BY JobsWeigh, SpoolAssumption
<1>. QED  BY <1>1, WeightAdd DEF Usage

(* A job taken out takes its size along.                                   *)
LEMMA UsageRemove ==
    ASSUME NEW S, S \subseteq Job, NEW j \in S
    PROVE  Usage(S \ {j}) = Usage(S) - Size[j]
BY JobsWeigh, WeightRemove DEF Usage

-----------------------------------------------------------------------------
(* The inductive invariant.  While the process has not swept yet nothing is*)
(* reserved and the files of the previous process are all that counts;     *)
(* afterwards every file is paid for, or is one whose removal failed.      *)
SpoolInv ==
    /\ SpoolTypeOK
    /\ Accounting
    /\ ReservedWithinBudget
    /\ FilesArePaidFor
    /\ DiskWithinBudget
    /\ LeftoverOnlyByFailure
    /\ ~swept => held = {}

(* An empty spool keeps its promises.                                      *)
LEMMA SpoolInvInit == SpoolInit => SpoolInv
BY UsageEmpty, SpoolAssumption
   DEF SpoolInit, SpoolInv, SpoolTypeOK, Accounting, ReservedWithinBudget,
       FilesArePaidFor, DiskWithinBudget, LeftoverOnlyByFailure, Fits

(* What a file set inside the reservations takes is within the budget.     *)
LEMMA FitsBelow ==
    ASSUME NEW a \in Int, NEW b \in Int, a <= b, Fits(b)
    PROVE  Fits(a)
BY SpoolAssumption DEF Fits

(* A reservation is made only where it fits.                               *)
LEMMA ReserveKeepsInv ==
    ASSUME SpoolInv, swept, NEW j \in Job, Reserve(j)
    PROVE  SpoolInv'
<1>1. Usage(held \cup {j}) = Usage(held) + Size[j]
  BY UsageAdd DEF SpoolInv, SpoolTypeOK, Reserve
<1>2. used + Size[j] \in Nat
  BY SpoolAssumption DEF SpoolInv, SpoolTypeOK
<1>. QED
  BY <1>1, <1>2 DEF SpoolInv, SpoolTypeOK, Accounting, ReservedWithinBudget,
        FilesArePaidFor, DiskWithinBudget, LeftoverOnlyByFailure, Fits, Reserve

(* What is paid for fits.                                                  *)
LEMMA PaidFits ==
    ASSUME SpoolInv, NEW F, F \subseteq held
    PROVE  Fits(Usage(F))
<1>1. Usage(F) <= used /\ Usage(F) \in Int /\ used \in Int
  BY UsageMonotone, UsageNat DEF SpoolInv, SpoolTypeOK, Accounting
<1>. QED  BY <1>1, FitsBelow DEF SpoolInv, ReservedWithinBudget

(* A file appears only where bytes are reserved for it, or as the rest of  *)
(* a copy that failed and could not be taken away.                         *)
LEMMA AdoptKeepsInv ==
    ASSUME SpoolInv, swept, NEW j \in held, Adopt(j) \/ AdoptFails(j)
    PROVE  SpoolInv'
<1>1. UNCHANGED <<held, used, swept>> /\ files' \ leftover' \subseteq held
  BY DEF SpoolInv, FilesArePaidFor, Adopt, AdoptFails, spoolVars
<1>2. DiskWithinBudget'
  BY <1>1, PaidFits DEF DiskWithinBudget, Fits
<1>3. SpoolTypeOK' /\ LeftoverOnlyByFailure'
  BY DEF SpoolInv, SpoolTypeOK, LeftoverOnlyByFailure, Adopt, AdoptFails, spoolVars
<1>. QED
  BY <1>1, <1>2, <1>3 DEF SpoolInv, Accounting, ReservedWithinBudget,
        FilesArePaidFor, Fits

(* The budget holds for fewer files, whoever deletes them.                 *)
LEMMA FewerFilesFit ==
    ASSUME SpoolInv, NEW F, F \subseteq files \ leftover
    PROVE  Fits(Usage(F))
<1>1. /\ Usage(F) <= Usage(files \ leftover)
      /\ Usage(F) \in Int /\ Usage(files \ leftover) \in Int
  BY UsageMonotone, UsageNat DEF SpoolInv, SpoolTypeOK
<1>. QED  BY <1>1, FitsBelow DEF SpoolInv, DiskWithinBudget

(* A file that goes makes room on the disk; one that will not go is no     *)
(* longer counted.                                                         *)
LEMMA RemoveFileKeepsInv ==
    ASSUME SpoolInv, NEW j \in Job, RemoveFile(j)
    PROVE  SpoolInv'
<1>1. files' \ leftover' \subseteq files \ leftover
  BY DEF RemoveFile
<1>2. DiskWithinBudget'
  BY <1>1, FewerFilesFit DEF DiskWithinBudget, Fits
<1>3. SpoolTypeOK' /\ LeftoverOnlyByFailure' /\ UNCHANGED <<held, used, swept>>
  BY DEF SpoolInv, SpoolTypeOK, LeftoverOnlyByFailure, RemoveFile
<1>. QED
  BY <1>1, <1>2, <1>3 DEF SpoolInv, Accounting, ReservedWithinBudget,
        FilesArePaidFor, Fits

(* The bytes of a job whose file is gone, or would not go, come back.      *)
LEMMA ReleaseKeepsInv ==
    ASSUME SpoolInv, NEW j \in Job, j \notin files \ leftover, Release(j)
    PROVE  SpoolInv'
<1> USE DEF SpoolInv, SpoolTypeOK
<1>1. used' = Usage(held')
  <2>1. CASE j \in held
    BY <2>1, UsageRemove, SpoolAssumption DEF Accounting, Release
  <2>2. CASE j \notin held
    BY <2>2 DEF Accounting, Release
  <2>. QED  BY <2>1, <2>2
<1>2. used' \in Nat
  <2>1. held' \subseteq Job
    BY DEF Release
  <2>. QED  BY <1>1, <2>1, UsageNat
<1>3. used' <= used
  BY <1>1, UsageMonotone DEF Accounting, Release
<1>4. Fits(used')
  BY <1>2, <1>3, FitsBelow DEF ReservedWithinBudget
<1>5. UNCHANGED <<files, leftover, swept>> /\ held' = held \ {j}
  BY DEF Release
<1>. QED
  BY <1>1, <1>2, <1>4, <1>5 DEF Accounting, ReservedWithinBudget, FilesArePaidFor,
        DiskWithinBudget, LeftoverOnlyByFailure, Fits

(* What Sweep takes into the budget again fits, and the rest is on record  *)
(* as left over.  Where no removal ever failed it never has to refuse: all *)
(* that is on the disk fits, so the greedy pass re-reserves all of it.     *)
LEMMA SweepKeepsInv ==
    ASSUME SpoolInv, ~swept, NEW live \in SUBSET Job, Sweep(live)
    PROVE  SpoolInv'
<1> USE DEF SpoolInv, SpoolTypeOK
<1> DEFINE alive == files \cap live
<1>1. PICK kept \in SUBSET alive, stuck \in SUBSET (files \ live) :
          /\ Rereserved(kept, alive) /\ (RemovalsMayFail \/ stuck = {})
          /\ held' = kept /\ used' = used + Usage(kept)
          /\ files' = alive \cup stuck /\ leftover' = (alive \ kept) \cup stuck
          /\ swept' = TRUE
  BY DEF Sweep
<1>2. used = 0
  BY UsageEmpty DEF Accounting
<1>3. Usage(kept) \in Nat
  BY <1>1, UsageNat
<1>4. used' = Usage(held') /\ used' \in Nat /\ held' = kept
  BY <1>1, <1>2, <1>3
<1>5. Fits(Usage(kept))
  <2>1. Fits(0)
    BY SpoolAssumption DEF Fits
  <2>. QED  BY <1>1, <2>1, UsageEmpty DEF Rereserved
<1>6. files' \ leftover' = kept /\ leftover' \subseteq files' /\ files' \subseteq Job
  BY <1>1
<1>7. LeftoverOnlyByFailure'
  <2>1. ASSUME ~RemovalsMayFail PROVE kept = alive
    <3>1. ASSUME NEW j \in alive \ kept PROVE FALSE
      <4>1. kept \cup {j} \subseteq files \ leftover
        BY <1>1, <2>1, <3>1 DEF LeftoverOnlyByFailure
      <4>2. Fits(Usage(kept \cup {j}))
        BY <4>1, FewerFilesFit
      <4>. QED  BY <1>1, <3>1, <4>2 DEF Rereserved
    <3>. QED  BY <1>1, <3>1
  <2>. QED  BY <1>1, <2>1 DEF LeftoverOnlyByFailure
<1>. QED
  BY <1>1, <1>4, <1>5, <1>6, <1>7 DEF Accounting, ReservedWithinBudget, FilesArePaidFor,
        DiskWithinBudget, Fits

(* A process that ends leaves files and forgets who paid.                  *)
LEMMA SpoolLostKeepsInv ==
    ASSUME SpoolInv, SpoolLost
    PROVE  SpoolInv'
<1>1. /\ held' = {} /\ used' = 0 /\ swept' = FALSE
      /\ files' = files /\ leftover' = leftover
  BY DEF SpoolLost
<1>2. Accounting'
  BY <1>1, UsageEmpty DEF Accounting
<1>3. ReservedWithinBudget'
  BY <1>1, SpoolAssumption DEF ReservedWithinBudget, Fits
<1>4. DiskWithinBudget' /\ LeftoverOnlyByFailure'
  BY <1>1 DEF SpoolInv, DiskWithinBudget, LeftoverOnlyByFailure
<1>5. SpoolTypeOK'
  <2>1. swept' \in BOOLEAN
    BY <1>1, Zenon
  <2>2. /\ held' \subseteq Job /\ files' \subseteq Job /\ used' \in Nat
        /\ leftover' \subseteq files'
    BY <1>1 DEF SpoolInv, SpoolTypeOK
  <2>. QED  BY <2>1, <2>2, Zenon DEF SpoolTypeOK
<1>6. FilesArePaidFor' /\ (~swept' => held' = {})
  BY <1>1 DEF FilesArePaidFor
<1>. QED
  BY <1>2, <1>3, <1>4, <1>5, <1>6, Zenon DEF SpoolInv

(* Every step of the spool keeps its promises.                             *)
LEMMA SpoolInvStep == SpoolInv /\ [SpoolNext]_spoolVars => SpoolInv'
<1> SUFFICES ASSUME SpoolInv, [SpoolNext]_spoolVars PROVE SpoolInv'
  OBVIOUS
<1>1. ASSUME NEW j \in Job, swept, Reserve(j) PROVE SpoolInv'
  BY <1>1, ReserveKeepsInv
<1>2. ASSUME NEW j \in Job, swept, j \in held, Adopt(j) \/ AdoptFails(j) PROVE SpoolInv'
  BY <1>2, AdoptKeepsInv
<1>3. ASSUME NEW j \in Job, swept, RemoveFile(j) PROVE SpoolInv'
  BY <1>3, RemoveFileKeepsInv
<1>4. ASSUME NEW j \in Job, swept, j \notin files \ leftover, Release(j) PROVE SpoolInv'
  BY <1>4, ReleaseKeepsInv
<1>5. ASSUME ~swept, NEW live \in SUBSET Job, Sweep(live) PROVE SpoolInv'
  BY <1>5, SweepKeepsInv
<1>6. CASE SpoolLost
  BY <1>6, SpoolLostKeepsInv
<1>7. CASE UNCHANGED spoolVars
  BY <1>7 DEF spoolVars, SpoolInv, SpoolTypeOK, Accounting, Fits,
              ReservedWithinBudget, FilesArePaidFor, DiskWithinBudget, LeftoverOnlyByFailure
<1>. QED  BY <1>1, <1>2, <1>3, <1>4, <1>5, <1>6, <1>7 DEF SpoolNext

-----------------------------------------------------------------------------
(* Every behaviour that uses the spool in the right order keeps the        *)
(* inductive invariant.                                                    *)
THEOREM SpoolInvariant == SpoolSpec => []SpoolInv
BY SpoolInvInit, SpoolInvStep, PTL DEF SpoolSpec

(* spool.go 86-87: the counter is always the sum of the reservations.      *)
THEOREM SpoolAccounting == SpoolSpec => []Accounting
<1>1. SpoolInv => Accounting
  BY DEF SpoolInv
<1>. QED  BY <1>1, SpoolInvariant, PTL

(* spool.go 74-79: the bytes on disk never exceed max_spool_mb, through    *)
(* any sequence of submissions, removals, crashes and sweeps, but for the  *)
(* files that os.Remove refused to delete (spool.go 137-140); where it     *)
(* never fails there are none of these.                                    *)
THEOREM SpoolDiskBudget == SpoolSpec => [](DiskWithinBudget /\ LeftoverOnlyByFailure)
<1>1. SpoolInv => DiskWithinBudget /\ LeftoverOnlyByFailure
  BY DEF SpoolInv
<1>. QED  BY <1>1, SpoolInvariant, PTL

-----------------------------------------------------------------------------
(* The discipline of the spool.                                            *)

Threads ==
    /\ sub \in [Job -> SubmitPC]
    /\ wpc \in [Worker -> WorkerPC] /\ wjob \in [Worker -> Job \cup {NoJob}]
    /\ cpc \in [Canceller -> CancelPC] /\ cjob \in [Canceller -> Job \cup {NoJob}]
    /\ \A w \in Worker : wpc[w] \notin {"idle", "exited"} => wjob[w] \in Job
    /\ \A c \in Canceller : cpc[c] # "idle" => cjob[c] \in Job

(* Before the process serves, the spool is being swept and nobody moves.   *)
StartUp ==
    /\ boot \in {"up", "down", "recovered", "swept"}
    /\ swept \in BOOLEAN /\ (swept <=> boot \in {"up", "swept"})
    /\ boot # "up" =>
          /\ \A j \in Job : sub[j] \in {"new", "accepted", "refused", "lost"}
          /\ \A w \in Worker : wpc[w] = "idle"
          /\ \A c \in Canceller : cpc[c] = "idle"

(* Whoever knows of a job has got it from its row: its submission is past  *)
(* Create and touches the spool no more.                                   *)
Recorded == {j \in Job : sub[j] \in {"recorded", "queued", "accepted", "lost"}}

KnownIsRecorded ==
    /\ items \subseteq Recorded
    /\ row \in [Job -> Status]
    /\ \A j \in Job : row[j] # "none" => j \in Recorded
    /\ \A w \in Worker : wjob[w] # NoJob => wjob[w] \in Recorded
    /\ \A c \in Canceller : cjob[c] # NoJob => cjob[c] \in Recorded

(* Adopt is preceded by Reserve, and Release by the removal of the file or *)
(* the attempt.                                                            *)
FilesInHand ==
    /\ \A j \in Job : sub[j] = "budgeted" => j \in held
    /\ leftover \subseteq files
    /\ \A j \in Job : sub[j] \in {"new", "admitted", "budgeted"} => j \notin files
    /\ \A j \in Job : sub[j] = "release" => j \notin files \ leftover
    /\ \A w \in Worker : wpc[w] = "releasing" => wjob[w] \notin files \ leftover
    /\ \A c \in Canceller : cpc[c] = "release" => cjob[c] \notin files \ leftover

Discipline == Threads /\ StartUp /\ KnownIsRecorded /\ FilesInHand

(* At first the queue is in order.                                         *)
LEMMA DisciplineInit == Init => Discipline
BY QueueAssumption DEF Init, SpoolInit, Discipline, Threads, StartUp, KnownIsRecorded, FilesInHand,
       Recorded, SubmitPC, WorkerPC, CancelPC, Status

-----------------------------------------------------------------------------
(* A submission takes one step.                                            *)
LEMMA SubmitKeepsDiscipline ==
    ASSUME Discipline, NEW j \in Job, SubmitReserveSlot(j) \/ SubmitContinues(j)
    PROVE  Discipline' /\ [SpoolNext]_spoolVars
<1>. USE QueueAssumption DEF Discipline, Threads, StartUp, KnownIsRecorded, FilesInHand,
       Recorded, SubmitPC, SubmitGoto, workerVars, cancelVars, lifeVars, historyVars,
       storeVars, spoolVars, SpoolNext
<1>1. CASE SubmitReserveSlot(j)
  BY <1>1 DEF SubmitReserveSlot
<1>2. CASE SubmitReserveBytes(j)
  BY <1>2 DEF SubmitReserveBytes, Reserve
<1>3. CASE SubmitAdopt(j)
  BY <1>3 DEF SubmitAdopt, Adopt, AdoptFails
<1>4. CASE SubmitCreate(j)
  BY <1>4 DEF SubmitCreate, Status
<1>5. CASE SubmitRemove(j)
  BY <1>5 DEF SubmitRemove, RemoveFile
<1>6. CASE SubmitRelease(j)
  BY <1>6 DEF SubmitRelease, Release
<1>7. CASE SubmitUnreserve(j)
  BY <1>7 DEF SubmitUnreserve
<1>8. CASE SubmitEnqueue(j)
  BY <1>8 DEF SubmitEnqueue
<1>9. CASE SubmitAnnounce(j)
  BY <1>9 DEF SubmitAnnounce
<1>. QED  BY <1>1, <1>2, <1>3, <1>4, <1>5, <1>6, <1>7, <1>8, <1>9 DEF SubmitContinues

(* A worker takes one step.                                                *)
LEMMA WorkerKeepsDiscipline ==
    ASSUME Discipline, NEW w \in Worker, WorkerStep(w) \/ DeadlineExpires(w)
    PROVE  Discipline' /\ [SpoolNext]_spoolVars
<1>. USE QueueAssumption DEF Discipline, Threads, StartUp, KnownIsRecorded, FilesInHand,
       Recorded, WorkerPC, WorkerGoto, WorkerDone, cancelVars, lifeVars, spoolVars, SpoolNext
<1>1. CASE Take(w)
  BY <1>1 DEF Take
<1>2. CASE Leave(w)
  BY <1>2 DEF Leave
<1>3. CASE Begin(w)
  BY <1>3 DEF Begin
<1>4. CASE RecordRunning(w)
  BY <1>4 DEF RecordRunning, Status
<1>5. CASE AnnounceRunning(w)
  BY <1>5 DEF AnnounceRunning
<1>6. CASE OpenAudio(w)
  BY <1>6 DEF OpenAudio, RunnerQuiet
<1>7. CASE StageRead(w)
  BY <1>7 DEF StageRead, RunnerQuiet
<1>8. CASE StagePublish(w)
  BY <1>8 DEF StagePublish, RunnerQuiet
<1>9. CASE RunnerReturns(w)
  BY <1>9 DEF RunnerReturns, RunnerQuiet
<1>10. CASE RunnerInterrupted(w)
  BY <1>10 DEF RunnerInterrupted, RunnerQuiet
<1>11. CASE Finish(w)
  BY <1>11 DEF Finish
<1>12. CASE RecordOutcome(w)
  BY <1>12 DEF RecordOutcome, Status, Terminal, Outcome
<1>13. CASE ReportOutcome(w)
  BY <1>13 DEF ReportOutcome
<1>14. CASE RemoveAudio(w)
  BY <1>14 DEF RemoveAudio, RemoveFile
<1>15. CASE ReleaseAudio(w)
  BY <1>15 DEF ReleaseAudio, Release
<1>16. CASE NotifyWebhook(w)
  BY <1>16 DEF NotifyWebhook
<1>17. CASE DeadlineExpires(w)
  BY <1>17 DEF DeadlineExpires, workerVars, storeVars
<1>. QED
  BY <1>1, <1>2, <1>3, <1>4, <1>5, <1>6, <1>7, <1>8, <1>9, <1>10, <1>11, <1>12, <1>13, <1>14, <1>15, <1>16, <1>17 DEF WorkerStep

(* A cancelling request takes one step.                                    *)
LEMMA CancelKeepsDiscipline ==
    ASSUME Discipline, NEW c \in Canceller,
           CancelContinues(c) \/ \E j \in Job : CancelBegin(c, j)
    PROVE  Discipline' /\ [SpoolNext]_spoolVars
<1>. USE QueueAssumption DEF Discipline, Threads, StartUp, KnownIsRecorded, FilesInHand,
       Recorded, CancelPC, CancelGoto, CancelReturns, workerVars, lifeVars, spoolVars, SpoolNext
<1>1. CASE CancelLocate(c)
  BY <1>1 DEF CancelLocate
<1>2. CASE CancelSignal(c)
  BY <1>2 DEF CancelSignal
<1>3. CASE CancelRecord(c)
  BY <1>3 DEF CancelRecord, Status, Terminal
<1>4. CASE CancelLoad(c)
  BY <1>4 DEF CancelLoad
<1>5. CASE CancelStore(c)
  BY <1>5 DEF CancelStore, Status, Terminal
<1>6. CASE CancelPublish(c)
  BY <1>6 DEF CancelPublish
<1>7. CASE CancelRemove(c)
  BY <1>7 DEF CancelRemove, RemoveFile
<1>8. CASE CancelRelease(c)
  BY <1>8 DEF CancelRelease, Release
<1>9. ASSUME NEW j \in Job, CancelBegin(c, j) PROVE Discipline' /\ [SpoolNext]_spoolVars
  BY <1>9 DEF CancelBegin
<1>. QED
  BY <1>1, <1>2, <1>3, <1>4, <1>5, <1>6, <1>7, <1>8, <1>9 DEF CancelContinues

(* Shutdown, the end of the process and the start-up.                      *)
LEMMA LifeKeepsDiscipline ==
    ASSUME Discipline, Shutdown \/ GraceExpires \/ ProcessEnds \/ Resume
    PROVE  Discipline' /\ [SpoolNext]_spoolVars
<1>. USE QueueAssumption DEF Discipline, Threads, StartUp, KnownIsRecorded, FilesInHand,
       Recorded, memoryVars, storeVars, threadVars, workerVars, cancelVars, spoolVars, SpoolNext
<1>1. CASE Shutdown
  BY <1>1 DEF Shutdown
<1>2. CASE GraceExpires
  BY <1>2 DEF GraceExpires
<1>3. CASE ProcessEnds
  BY <1>3 DEF ProcessEnds, SpoolLost, SubmitPC, WorkerPC, CancelPC
<1>4. CASE Recover
  BY <1>4 DEF Recover, Status, Terminal
<1>5. CASE SweepSpool
  BY <1>5 DEF SweepSpool, Sweep
<1>6. CASE FailStale
  BY <1>6 DEF FailStale, Status, Terminal
<1>. QED  BY <1>1, <1>2, <1>3, <1>4, <1>5, <1>6 DEF Resume

(* A step keeps that order, and is one of the spool or none.               *)
LEMMA DisciplineStep == Discipline /\ [Next]_vars => Discipline' /\ [SpoolNext]_spoolVars
<1> SUFFICES ASSUME Discipline, [Next]_vars PROVE Discipline' /\ [SpoolNext]_spoolVars
  OBVIOUS
<1>1. CASE UNCHANGED vars
  BY <1>1 DEF vars, memoryVars, storeVars, workerVars, cancelVars, lifeVars, spoolVars,
              Discipline, Threads, StartUp, KnownIsRecorded, FilesInHand, Recorded
<1>2. CASE Next
  BY <1>2, SubmitKeepsDiscipline, WorkerKeepsDiscipline, CancelKeepsDiscipline,
     LifeKeepsDiscipline DEF Next
<1>. QED  BY <1>1, <1>2

(* In every behaviour each thread holds what its place in the code says.   *)
THEOREM QueueKeepsDiscipline == Spec => []Discipline
BY DisciplineInit, DisciplineStep, PTL DEF Spec

(* The queue uses the spool as it must: however submissions, workers,      *)
(* cancellations, crashes and start-ups interleave, bytes are reserved     *)
(* before a file appears, the removal of a file is tried before its bytes  *)
(* come back, and the spool is swept before the process serves.            *)
THEOREM QueueImplementsSpool == Spec => SpoolSpec
<1>1. Init => SpoolInit
  BY DEF Init
<1>2. Discipline /\ [Next]_vars => [SpoolNext]_spoolVars
  BY DisciplineStep
<1>. QED  BY <1>1, <1>2, QueueKeepsDiscipline, PTL DEF Spec, SpoolSpec

(* The audio on the disk never exceeds max_spool_mb, but for the files     *)
(* that could not be removed.                                              *)
THEOREM QueueDiskBudget == Spec => [](DiskWithinBudget /\ LeftoverOnlyByFailure)
BY QueueImplementsSpool, SpoolDiskBudget, PTL

(* The counter of the spool never drifts from what is reserved.            *)
THEOREM QueueAccounting == Spec => []Accounting
BY QueueImplementsSpool, SpoolAccounting, PTL

(* In a serving process every file on the disk is paid for, unless its     *)
(* removal failed.                                                         *)
THEOREM QueueFilesArePaidFor == Spec => []FilesArePaidFor
<1>1. SpoolInv => FilesArePaidFor
  BY DEF SpoolInv
<1>. QED  BY <1>1, QueueImplementsSpool, SpoolInvariant, PTL

-----------------------------------------------------------------------------
(* Admission.                                                              *)

Slots ==
    /\ items \subseteq Job
    /\ admitted \in Nat /\ carried \in Nat
    /\ sub \in [Job -> SubmitPC]
    /\ boot # "up" => HoldsSlot = {}

(* Admission is a reservation: it counts the submissions on their way, and *)
(* with them the line stays within its bound. The second alone would not   *)
(* be inductive: enqueue needs to know that its slot is still counted.     *)
AdmissionInv == Slots /\ AdmittedExact /\ AdmissionBound

(* Sets of jobs can be counted.                                            *)
LEMMA JobsAreFinite ==
    ASSUME NEW S, S \subseteq Job
    PROVE  IsFiniteSet(S) /\ Cardinality(S) \in Nat
BY SpoolAssumption, FS_Subset, FS_CardinalityType

(* Nobody holds no slot.                                                   *)
LEMMA NoSlots == Cardinality({}) = 0
BY FS_EmptySet

(* At first nothing is reserved and nothing waits.                         *)
LEMMA AdmissionInit == Init => AdmissionInv
<1> SUFFICES ASSUME Init PROVE AdmissionInv
  OBVIOUS
<1>1. HoldsSlot = {} /\ items = {} /\ admitted = 0 /\ carried = 0 /\ boot = "up"
  BY DEF Init, HoldsSlot
<1>2. Slots
  BY <1>1 DEF Init, Slots, SubmitPC
<1>3. AdmittedExact /\ AdmissionBound
  BY <1>1, NoSlots, QueueAssumption DEF AdmittedExact, AdmissionBound, Larger
<1>. QED  BY <1>2, <1>3 DEF AdmissionInv

(* Steps that do not touch the slots, and may only shorten the line.       *)
LEMMA ShorterLine ==
    ASSUME AdmissionInv, UNCHANGED <<admitted, carried, sub, boot>>, items' \subseteq items
    PROVE  AdmissionInv'
<1>1. Slots' /\ AdmittedExact'
  BY DEF AdmissionInv, Slots, AdmittedExact, HoldsSlot
<1>2. Cardinality(items') <= Cardinality(items)
  BY JobsAreFinite, FS_Subset DEF AdmissionInv, Slots
<1>3. Cardinality(items') \in Nat /\ Cardinality(items) \in Nat
  BY <1>1, JobsAreFinite DEF AdmissionInv, Slots
<1>4. AdmissionBound'
  BY <1>2, <1>3, QueueAssumption DEF AdmissionInv, Slots, AdmissionBound, Larger
<1>. QED  BY <1>1, <1>4 DEF AdmissionInv

(* A submission moves on inside its window, or outside of it.              *)
LEMMA SameSlot ==
    ASSUME AdmissionInv, NEW j \in Job, NEW to \in SubmitPC, sub' = [sub EXCEPT ![j] = to],
           j \in HoldsSlot <=> j \in HoldsSlot',
           UNCHANGED <<items, admitted, carried, boot>>
    PROVE  AdmissionInv'
<1>1. HoldsSlot' = HoldsSlot
  BY DEF AdmissionInv, Slots, HoldsSlot
<1>. QED
  BY <1>1 DEF AdmissionInv, Slots, AdmittedExact, AdmissionBound

(* reserve: one more submission inside the window.                         *)
LEMMA SlotTaken ==
    ASSUME AdmissionInv, NEW j \in Job, sub[j] = "new", boot = "up", HasRoom,
           sub' = [sub EXCEPT ![j] = "admitted"], admitted' = admitted + 1,
           UNCHANGED <<items, carried, boot>>
    PROVE  AdmissionInv'
<1>1. HoldsSlot' = HoldsSlot \cup {j} /\ j \notin HoldsSlot
  BY DEF AdmissionInv, Slots, HoldsSlot, SubmitPC
<1>2. Cardinality(HoldsSlot') = Cardinality(HoldsSlot) + 1
  BY <1>1, JobsAreFinite, FS_AddElement DEF HoldsSlot
<1>3. Slots' /\ AdmittedExact'
  BY <1>2 DEF AdmissionInv, Slots, AdmittedExact, SubmitPC
<1>4. Cardinality(items) \in Nat
  BY JobsAreFinite DEF AdmissionInv, Slots
<1>5. AdmissionBound'
  BY <1>4, QueueAssumption DEF AdmissionInv, Slots, AdmissionBound, HasRoom, Larger
<1>. QED  BY <1>3, <1>5 DEF AdmissionInv

(* enqueue and unreserve: one submission less inside the window, and at    *)
(* most one more in line.                                                  *)
LEMMA SlotGivenBack ==
    ASSUME AdmissionInv, NEW j \in HoldsSlot, NEW to \in SubmitPC, SlotReturned,
           sub' = [sub EXCEPT ![j] = to], j \notin HoldsSlot',
           (to = "queued" /\ items' = items \cup {j}) \/ items' = items,
           UNCHANGED <<carried, boot>>
    PROVE  AdmissionInv'
<1>1. j \in Job /\ HoldsSlot' = HoldsSlot \ {j}
  BY DEF AdmissionInv, Slots, HoldsSlot
<1>a. IsFiniteSet(HoldsSlot) /\ Cardinality(HoldsSlot) \in Nat
  BY JobsAreFinite DEF HoldsSlot
<1>2. Cardinality(HoldsSlot') = Cardinality(HoldsSlot) - 1 /\ Cardinality(HoldsSlot) \in Nat
  BY <1>1, <1>a, FS_RemoveElement
<1>3. Cardinality(HoldsSlot') \in Nat
  BY JobsAreFinite DEF HoldsSlot
<1>4. admitted' = admitted - 1
  BY <1>2, <1>3 DEF AdmissionInv, Slots, AdmittedExact, SlotReturned
<1>5. Slots' /\ AdmittedExact'
  BY <1>1, <1>2, <1>3, <1>4 DEF AdmissionInv, Slots, AdmittedExact
<1>6. Cardinality(items') <= Cardinality(items) + 1 /\ Cardinality(items) \in Nat
      /\ Cardinality(items') \in Nat
  BY <1>1, <1>5, JobsAreFinite, FS_AddElement DEF AdmissionInv, Slots
<1>7. AdmissionBound'
  BY <1>4, <1>5, <1>6, QueueAssumption DEF AdmissionInv, Slots, AdmissionBound, Larger
<1>. QED  BY <1>5, <1>7 DEF AdmissionInv

(* The steps of a submission.                                              *)
LEMMA SubmitKeepsAdmission ==
    ASSUME AdmissionInv, StartUp, NEW j \in Job, SubmitReserveSlot(j) \/ SubmitContinues(j)
    PROVE  AdmissionInv'
<1>. USE DEF SubmitGoto, lifeVars
<1>t. sub \in [Job -> SubmitPC]
  BY DEF AdmissionInv, Slots
<1>1. CASE SubmitReserveSlot(j)
  <2>1. CASE HasRoom /\ admitted' = admitted + 1 /\ SubmitGoto(j, "new", "admitted")
    BY <1>1, <2>1, SlotTaken DEF SubmitReserveSlot
  <2>2. CASE UNCHANGED admitted /\ SubmitGoto(j, "new", "refused")
    <3>1. j \notin HoldsSlot /\ j \notin HoldsSlot'
      BY <2>2, <1>t DEF HoldsSlot
    <3>. QED  BY <1>1, <2>2, <3>1, SameSlot DEF SubmitReserveSlot, SubmitPC
  <2>. QED  BY <1>1, <2>1, <2>2 DEF SubmitReserveSlot
<1>2. ASSUME NEW from \in SubmitPC, NEW to \in SubmitPC, SubmitGoto(j, from, to),
             from \in {"admitted", "budgeted", "adopted", "remove", "release"},
             to \in {"budgeted", "adopted", "recorded", "remove", "release", "giveback"},
             UNCHANGED <<items, admitted>>
      PROVE  AdmissionInv'
  <2>1. j \in HoldsSlot /\ j \in HoldsSlot'
    BY <1>2, <1>t DEF HoldsSlot
  <2>. QED  BY <1>2, <2>1, SameSlot
<1>3. CASE SubmitReserveBytes(j) \/ SubmitAdopt(j) \/ SubmitCreate(j)
           \/ SubmitRemove(j) \/ SubmitRelease(j)
  BY <1>2, <1>3 DEF SubmitReserveBytes, SubmitAdopt, SubmitCreate, SubmitRemove,
                    SubmitRelease, SubmitPC
<1>4. CASE SubmitUnreserve(j)
  <2>1. j \in HoldsSlot /\ j \notin HoldsSlot'
    BY <1>4, <1>t DEF SubmitUnreserve, HoldsSlot
  <2>. QED  BY <1>4, <2>1, SlotGivenBack DEF SubmitUnreserve, SubmitPC
<1>5. CASE SubmitEnqueue(j)
  <2>1. j \in HoldsSlot /\ j \notin HoldsSlot'
    BY <1>5, <1>t DEF SubmitEnqueue, HoldsSlot
  <2>. QED  BY <1>5, <2>1, SlotGivenBack DEF SubmitEnqueue, SubmitPC
<1>6. CASE SubmitAnnounce(j)
  <2>1. j \notin HoldsSlot /\ j \notin HoldsSlot'
    BY <1>6, <1>t DEF SubmitAnnounce, HoldsSlot
  <2>. QED  BY <1>6, <2>1, SameSlot DEF SubmitAnnounce, SubmitPC
<1>. QED  BY <1>1, <1>3, <1>4, <1>5, <1>6 DEF SubmitContinues

(* Workers and cancelling clients only take jobs out of the line.          *)
LEMMA OthersKeepAdmission ==
    ASSUME AdmissionInv,
           \/ \E w \in Worker : WorkerStep(w) \/ DeadlineExpires(w)
           \/ \E c \in Canceller : CancelContinues(c) \/ \E j \in Job : CancelBegin(c, j)
           \/ Shutdown \/ GraceExpires
    PROVE  AdmissionInv'
<1>1. ASSUME NEW w \in Worker, WorkerStep(w) \/ DeadlineExpires(w)
      PROVE  UNCHANGED <<admitted, carried, sub, boot>> /\ items' \subseteq items
  BY <1>1 DEF WorkerStep, DeadlineExpires, WorkerGoto, WorkerDone, RunnerQuiet, lifeVars,
     Take, Leave, Begin, RecordRunning, AnnounceRunning, OpenAudio, StageRead,
     StagePublish, RunnerReturns, RunnerInterrupted, Finish, RecordOutcome, ReportOutcome,
     RemoveAudio, ReleaseAudio, NotifyWebhook
<1>2. ASSUME NEW c \in Canceller, CancelContinues(c) \/ \E j \in Job : CancelBegin(c, j)
      PROVE  UNCHANGED <<admitted, carried, sub, boot>> /\ items' \subseteq items
  BY <1>2 DEF CancelContinues, CancelGoto, CancelReturns, lifeVars, CancelBegin,
     CancelLocate, CancelSignal, CancelRecord, CancelLoad, CancelStore, CancelPublish,
     CancelRemove, CancelRelease
<1>3. ASSUME Shutdown \/ GraceExpires
      PROVE  UNCHANGED <<admitted, carried, sub, boot>> /\ items' \subseteq items
  BY <1>3 DEF Shutdown, GraceExpires, memoryVars, threadVars
<1>. QED  BY <1>1, <1>2, <1>3, ShorterLine

(* A process that ends takes its slots with it, and the next one may start *)
(* with more jobs than slots: carried is what the bound allows for.        *)
LEMMA RestartKeepsAdmission ==
    ASSUME AdmissionInv, ProcessEnds \/ Resume
    PROVE  AdmissionInv'
<1>1. CASE ProcessEnds
  <2>1. HoldsSlot' = {} /\ items' = {} /\ admitted' = 0 /\ carried' = 0
    BY <1>1 DEF ProcessEnds, HoldsSlot
  <2>2. Slots'
    BY <1>1, <2>1 DEF ProcessEnds, AdmissionInv, Slots, SubmitPC
  <2>. QED
    BY <2>1, <2>2, NoSlots, QueueAssumption
    DEF AdmissionInv, AdmittedExact, AdmissionBound, Larger
<1>2. CASE Recover
  <2>1. HoldsSlot' = {} /\ HoldsSlot = {} /\ UNCHANGED <<admitted, sub>>
    BY <1>2 DEF Recover, AdmissionInv, Slots, HoldsSlot, threadVars
  <2>2. admitted' = 0
    BY <2>1, NoSlots DEF AdmissionInv, AdmittedExact
  <2>3. items' \subseteq Job /\ carried' = Cardinality(items') /\ boot' = "recovered"
    BY <1>2 DEF Recover
  <2>4. carried' \in Nat
    BY <2>3, JobsAreFinite
  <2>5. Slots'
    BY <2>1, <2>2, <2>3, <2>4 DEF AdmissionInv, Slots
  <2>. QED
    BY <2>1, <2>2, <2>3, <2>4, <2>5, NoSlots, QueueAssumption
    DEF AdmissionInv, AdmittedExact, AdmissionBound, Larger
<1>3. CASE SweepSpool \/ FailStale
  BY <1>3 DEF SweepSpool, FailStale, memoryVars, threadVars, AdmissionInv, Slots,
     HoldsSlot, AdmittedExact, AdmissionBound
<1>. QED  BY <1>1, <1>2, <1>3 DEF Resume

(* Every step keeps the count of the reservations.                         *)
LEMMA AdmissionStep == AdmissionInv /\ Discipline /\ [Next]_vars => AdmissionInv'
<1> SUFFICES ASSUME AdmissionInv, Discipline, [Next]_vars PROVE AdmissionInv'
  OBVIOUS
<1>1. CASE UNCHANGED vars
  BY <1>1, ShorterLine DEF vars, memoryVars, lifeVars
<1>2. CASE Next
  BY <1>2, SubmitKeepsAdmission, OthersKeepAdmission, RestartKeepsAdmission
  DEF Next, Discipline
<1>. QED  BY <1>1, <1>2

(* In every behaviour reservations are counted and bounded.                *)
THEOREM QueueAdmission == Spec => []AdmissionInv
BY AdmissionInit, AdmissionStep, QueueKeepsDiscipline, PTL DEF Spec

(* queue.go 10-13: no path of Submit loses a slot or returns one twice.    *)
THEOREM QueueAdmittedExact == Spec => []AdmittedExact
<1>1. AdmissionInv => AdmittedExact
  BY DEF AdmissionInv
<1>. QED  BY <1>1, QueueAdmission, PTL

(* queue.go 10-13: however many submissions are between the answer and the *)
(* line, line and reservations stay within queue_size, or within what a    *)
(* restart carried over.                                                   *)
THEOREM QueueAdmissionBound == Spec => []AdmissionBound
<1>1. AdmissionInv => AdmissionBound
  BY DEF AdmissionInv
<1>. QED  BY <1>1, QueueAdmission, PTL

-----------------------------------------------------------------------------
(* Types.                                                                  *)

(* What a worker announces and tells the webhook is an outcome.            *)
VerdictIsFinal ==
    \A w \in Worker :
        wpc[w] \in {"reporting", "removing", "releasing", "notifying"} => verdict[w] \in Terminal

TypeInv == TypeOK /\ VerdictIsFinal

(* What a run ends with is an outcome.                                     *)
LEMMA OutcomeIsFinal == \A v : Outcome(v) \in Terminal
<1> SUFFICES ASSUME NEW v PROVE Outcome(v) \in Terminal
  OBVIOUS
<1>1. Outcome(v) \in {"succeeded", "failed", "canceled"}
  <2>1. CASE v = "ok"
    BY <2>1, Zenon DEF Outcome
  <2>2. CASE v = "canceled" /\ stopped
    BY <2>2, Zenon DEF Outcome
  <2>3. CASE v = "canceled" /\ ~stopped
    BY <2>3, Zenon DEF Outcome
  <2>4. CASE v # "ok" /\ v # "canceled"
    BY <2>4, Zenon DEF Outcome
  <2>. QED  BY <2>1, <2>2, <2>3, <2>4
<1>. QED  BY <1>1 DEF Terminal

(* At first everything has its type.                                       *)
LEMMA TypesInit == Init => TypeInv
<1> SUFFICES ASSUME Init PROVE TypeInv
  OBVIOUS
<1>1. SpoolTypeOK
  BY SpoolInvInit DEF Init, SpoolInv
<1>2. TypeOK
  BY <1>1 DEF Init, TypeOK, SubmitPC, WorkerPC, CancelPC, Status
<1>3. VerdictIsFinal
  BY DEF Init, VerdictIsFinal
<1>. QED  BY <1>2, <1>3 DEF TypeInv

(* Submissions keep the types.                                             *)
LEMMA SubmitKeepsTypes ==
    ASSUME TypeInv, Discipline, SpoolTypeOK', NEW j \in Job,
           SubmitReserveSlot(j) \/ SubmitContinues(j)
    PROVE  TypeInv'
<1>. USE DEF TypeInv, TypeOK, VerdictIsFinal, SubmitPC, SubmitGoto, workerVars, cancelVars,
       lifeVars, historyVars, tellVars, storeVars
<1>1. CASE SubmitReserveSlot(j)
  BY <1>1 DEF SubmitReserveSlot
<1>2. CASE SubmitReserveBytes(j) \/ SubmitAdopt(j) \/ SubmitRemove(j) \/ SubmitRelease(j)
  BY <1>2 DEF SubmitReserveBytes, SubmitAdopt, SubmitRemove, SubmitRelease
<1>3. CASE SubmitCreate(j)
  <2>1. Cardinality({k \in Job : createdAt[k] > 0}) + 1 \in Nat
    BY JobsAreFinite
  <2>. QED  BY <1>3, <2>1 DEF SubmitCreate, Status
<1>4. CASE SubmitUnreserve(j) \/ SubmitEnqueue(j)
  BY <1>4 DEF SubmitUnreserve, SubmitEnqueue, SlotReturned
<1>5. CASE SubmitAnnounce(j)
  BY <1>5 DEF SubmitAnnounce, Publish, Terminal
<1>. QED  BY <1>1, <1>2, <1>3, <1>4, <1>5 DEF SubmitContinues

(* Workers keep the types.                                                 *)
LEMMA WorkerKeepsTypes ==
    ASSUME TypeInv, Discipline, SpoolTypeOK', NEW w \in Worker,
           WorkerStep(w) \/ DeadlineExpires(w)
    PROVE  TypeInv'
<1>. USE QueueAssumption DEF TypeInv, TypeOK, VerdictIsFinal, Discipline, Threads, WorkerPC,
       WorkerGoto, WorkerDone, RunnerQuiet, cancelVars, lifeVars, tellVars
<1>1. CASE Take(w) \/ Leave(w)
  BY <1>1 DEF Take, Leave
<1>2. CASE Begin(w)
  BY <1>2 DEF Begin
<1>3. CASE RecordRunning(w)
  BY <1>3 DEF RecordRunning, Status
<1>4. CASE AnnounceRunning(w) \/ StagePublish(w)
  BY <1>4 DEF AnnounceRunning, StagePublish, Publish, Terminal
<1>5. CASE OpenAudio(w) \/ StageRead(w)
  BY <1>5 DEF OpenAudio, StageRead
<1>6. CASE RunnerReturns(w)
  BY <1>6 DEF RunnerReturns
<1>7. CASE RunnerInterrupted(w)
  BY <1>7 DEF RunnerInterrupted, Terminal
<1>8. CASE Finish(w)
  BY <1>8 DEF Finish
<1>9. CASE RecordOutcome(w)
  <2>1. Outcome(verdict[w]) \in Terminal
    BY OutcomeIsFinal
  <2>. QED  BY <1>9, <2>1 DEF RecordOutcome, Status
<1>10. CASE ReportOutcome(w)
  BY <1>10 DEF ReportOutcome, Publish
<1>11. CASE RemoveAudio(w) \/ ReleaseAudio(w)
  BY <1>11 DEF RemoveAudio, ReleaseAudio
<1>12. CASE NotifyWebhook(w)
  BY <1>12 DEF NotifyWebhook
<1>13. CASE DeadlineExpires(w)
  BY <1>13 DEF DeadlineExpires, storeVars, workerVars, historyVars, tellVars
<1>. QED
  BY <1>1, <1>2, <1>3, <1>4, <1>5, <1>6, <1>7, <1>8, <1>9, <1>10, <1>11, <1>12, <1>13
  DEF WorkerStep

(* Cancellations keep the types.                                           *)
LEMMA CancelKeepsTypes ==
    ASSUME TypeInv, Discipline, SpoolTypeOK', NEW c \in Canceller,
           CancelContinues(c) \/ \E j \in Job : CancelBegin(c, j)
    PROVE  TypeInv'
<1>. USE QueueAssumption DEF TypeInv, TypeOK, VerdictIsFinal, Discipline, Threads, CancelPC,
       CancelGoto, CancelReturns, workerVars, lifeVars, tellVars
<1>1. CASE CancelLocate(c)
  <2>1. items' \subseteq Job /\ canceled' \in [Job -> BOOLEAN]
    BY <1>1 DEF CancelLocate
  <2>2. \E to \in {"signal", "record", "load"} : cpc' = [cpc EXCEPT ![c] = to]
    BY <1>1 DEF CancelLocate
  <2>3. cpc' \in [Canceller -> CancelPC]
    BY <2>2
  <2>. QED  BY <1>1, <2>1, <2>3 DEF CancelLocate
<1>7. CASE CancelLoad(c)
  BY <1>7 DEF CancelLoad
<1>6. CASE CancelSignal(c)
  BY <1>6 DEF CancelSignal
<1>2. CASE CancelRecord(c) \/ CancelStore(c)
  BY <1>2 DEF CancelRecord, CancelStore, Status, Terminal
<1>3. CASE CancelPublish(c)
  BY <1>3 DEF CancelPublish, Publish, Terminal
<1>4. CASE CancelRemove(c) \/ CancelRelease(c)
  BY <1>4 DEF CancelRemove, CancelRelease
<1>5. ASSUME NEW j \in Job, CancelBegin(c, j) PROVE TypeInv'
  BY <1>5 DEF CancelBegin
<1>. QED  BY <1>1, <1>2, <1>3, <1>4, <1>5, <1>6, <1>7 DEF CancelContinues

(* Shutdown, the end of the process and its start keep the types.          *)
LEMMA LifeKeepsTypes ==
    ASSUME TypeInv, SpoolTypeOK', Shutdown \/ GraceExpires \/ ProcessEnds \/ Resume
    PROVE  TypeInv'
<1>. USE QueueAssumption DEF TypeInv, TypeOK, VerdictIsFinal, memoryVars, storeVars, threadVars,
       workerVars, cancelVars, historyVars, tellVars
<1>1. CASE Shutdown \/ GraceExpires
  BY <1>1 DEF Shutdown, GraceExpires
<1>2. CASE ProcessEnds
  <2>1. sub' \in [Job -> SubmitPC]
    BY <1>2 DEF ProcessEnds, SubmitPC
  <2>2. wpc' \in [Worker -> WorkerPC] /\ VerdictIsFinal'
    BY <1>2 DEF ProcessEnds, WorkerPC
  <2>3. cpc' \in [Canceller -> CancelPC]
    BY <1>2 DEF ProcessEnds, CancelPC
  <2>4. topic' \in [Job -> {"none", "queued", "running"}]
        /\ ctx' \in [Job -> {"none", "live", "deadline", "canceled"}]
        /\ canceled' \in [Job -> BOOLEAN]
    BY <1>2 DEF ProcessEnds
  <2>5. verdict' \in [Worker -> {"none", "ok", "error", "deadline"} \cup Terminal]
        /\ wjob' \in [Worker -> Job \cup {NoJob}]
        /\ cjob' \in [Canceller -> Job \cup {NoJob}]
    BY <1>2 DEF ProcessEnds
  <2>6. items' \subseteq Job /\ running' \subseteq Job /\ admitted' \in Nat /\ carried' \in Nat
    BY <1>2 DEF ProcessEnds
  <2>8. restarts' \in Nat
    BY <1>2 DEF ProcessEnds
  <2>9. stopped' \in BOOLEAN /\ cut' \in BOOLEAN
    BY <1>2, Zenon DEF ProcessEnds
  <2>10. boot' \in {"up", "down", "recovered", "swept"}
    BY <1>2 DEF ProcessEnds
  <2>7. row' \in [Job -> Status] /\ createdAt' \in [Job -> Nat]
        /\ asked' \subseteq Job /\ settled' \subseteq Job
        /\ notified' \in [Job -> {"none"} \cup Terminal] /\ unwritten' \subseteq Job
    BY <1>2 DEF ProcessEnds
  <2>. QED  BY <2>1, <2>2, <2>3, <2>4, <2>5, <2>6, <2>7, <2>8, <2>9, <2>10
<1>3. CASE Recover
  <2>1. carried' \in Nat
    BY <1>3, JobsAreFinite DEF Recover
  <2>. QED  BY <1>3, <2>1 DEF Recover, Status, Terminal
<1>4. CASE SweepSpool \/ FailStale
  BY <1>4 DEF SweepSpool, FailStale, Status, Terminal
<1>. QED  BY <1>1, <1>2, <1>3, <1>4 DEF Resume

(* Every step keeps the types.                                             *)
LEMMA TypesStep == TypeInv /\ Discipline /\ SpoolInv' /\ [Next]_vars => TypeInv'
<1> SUFFICES ASSUME TypeInv, Discipline, SpoolInv', [Next]_vars PROVE TypeInv'
  OBVIOUS
<1>1. SpoolTypeOK'
  BY DEF SpoolInv
<1>2. CASE UNCHANGED vars
  BY <1>1, <1>2 DEF vars, memoryVars, storeVars, workerVars, cancelVars, lifeVars,
     historyVars, tellVars, TypeInv, TypeOK, VerdictIsFinal
<1>3. CASE Next
  BY <1>1, <1>3, SubmitKeepsTypes, WorkerKeepsTypes, CancelKeepsTypes, LifeKeepsTypes DEF Next
<1>. QED  BY <1>2, <1>3

(* Every variable of the queue, the hub, the table and the spool keeps its *)
(* type.                                                                   *)
THEOREM QueueTypeOK == Spec => []TypeOK
<1>1. TypeInv => TypeOK
  BY DEF TypeInv
<1>. QED
  BY <1>1, TypesInit, TypesStep, QueueKeepsDiscipline, QueueImplementsSpool, SpoolInvariant,
     PTL DEF Spec

(* Admission is exact, and never more than the queue has room for or what  *)
(* a restart carried over (queue.go:214).                                  *)
THEOREM QueueAdmissionIsExact == Spec => []AdmissionIsExact
<1>1. TypeOK /\ AdmittedExact /\ AdmissionBound => AdmissionIsExact
  BY DEF AdmissionIsExact
<1>. QED
  BY <1>1, QueueTypeOK, QueueAdmittedExact, QueueAdmissionBound, PTL

(* Every byte on the disk is paid for, once, and out of the budget, except *)
(* by files whose removal failed (spool.go:86, spool.go:111, spool.go:139).*)
THEOREM QueueDiskIsPaidFor == Spec => []DiskIsPaidFor
<1>1. Accounting /\ FilesArePaidFor /\ DiskWithinBudget /\ LeftoverOnlyByFailure => DiskIsPaidFor
  BY DEF DiskIsPaidFor
<1>. QED
  BY <1>1, QueueAccounting, QueueFilesArePaidFor, QueueDiskBudget, PTL
-----------------------------------------------------------------------------
(* How jobs end: cancellations, audio that follows its job, rows that      *)
(* somebody will finish, what the webhook is told, and statuses.  The      *)
(* invariants build on each other: whose hands a job is in, then what a    *)
(* cancellation may rely on, then who removes the audio, then who writes   *)
(* the row, and in which order its statuses come.                          *)

(* What the threads of the queue are known to keep.                        *)
QueueInv == Discipline /\ TypeOK

(* A job whose item has been made; "lost" is a submission that a process   *)
(* end overtook.                                                           *)
Enqueued == {j \in Job : sub[j] \in {"queued", "accepted", "lost"}}

AfterFinish == {"recording", "reporting", "removing", "releasing", "notifying"}

-----------------------------------------------------------------------------
(* A job is in line, or in the hands of one worker, never both; and a      *)
(* worker that is past finish has a job that nobody cancelled in memory or *)
(* can still find there.                                                   *)
HandsFit ==
    /\ \A w \in Worker : wjob[w] = NoJob <=> wpc[w] \in {"idle", "exited"}
    /\ \A c \in Canceller : cjob[c] = NoJob <=> cpc[c] = "idle"
    /\ \A v, w \in Worker : wjob[v] = wjob[w] /\ wjob[v] # NoJob => v = w
    /\ \A w \in Worker : wjob[w] # NoJob => wjob[w] \in Enqueued \ items
    /\ items \cup running \subseteq Enqueued
    /\ \A j \in Job : canceled[j] \/ ctx[j] # "none" => j \in Enqueued \ items
    /\ \A w \in Worker : wpc[w] \in AfterFinish => wjob[w] \notin running /\ ~canceled[wjob[w]]
    /\ boot # "up" => running = {} /\ \A j \in Job : ctx[j] = "none" /\ ~canceled[j]

(* Nobody holds a job of a new queue.                                      *)
LEMMA HandsInit == Init => HandsFit
BY DEF Init, HandsFit, Enqueued, AfterFinish

(* A submission makes an item of a job that nobody has.                    *)
LEMMA SubmitKeepsHands ==
    ASSUME QueueInv, HandsFit, NEW j \in Job, SubmitReserveSlot(j) \/ SubmitContinues(j)
    PROVE  HandsFit'
<1>. USE DEF QueueInv, TypeOK, Discipline, StartUp, HandsFit, Enqueued, SubmitGoto, workerVars,
       cancelVars, lifeVars
<1>1. CASE SubmitReserveSlot(j)
  BY <1>1 DEF SubmitReserveSlot
<1>2. CASE SubmitReserveBytes(j) \/ SubmitAdopt(j) \/ SubmitCreate(j)
  BY <1>2 DEF SubmitReserveBytes, SubmitAdopt, SubmitCreate
<1>3. CASE SubmitRemove(j) \/ SubmitRelease(j) \/ SubmitUnreserve(j)
  BY <1>3 DEF SubmitRemove, SubmitRelease, SubmitUnreserve
<1>4. CASE SubmitEnqueue(j)
  BY <1>4 DEF SubmitEnqueue
<1>5. CASE SubmitAnnounce(j)
  BY <1>5 DEF SubmitAnnounce
<1>. QED  BY <1>1, <1>2, <1>3, <1>4, <1>5 DEF SubmitContinues

(* A worker that moves on with the same job, before finish.                *)
LEMMA WorkerKeepsHands ==
    ASSUME QueueInv, HandsFit, NEW w \in Worker, WorkerStep(w) \/ DeadlineExpires(w)
    PROVE  HandsFit'
<1>. USE QueueAssumption DEF QueueInv, TypeOK, Discipline, Threads, StartUp, HandsFit, Enqueued, AfterFinish,
       WorkerGoto, WorkerDone, cancelVars, lifeVars
<1>1. CASE Take(w)
  BY <1>1 DEF Take
<1>2. CASE Leave(w)
  BY <1>2 DEF Leave
<1>3. CASE Begin(w)
  BY <1>3 DEF Begin
<1>4. CASE RecordRunning(w) \/ AnnounceRunning(w)
  BY <1>4 DEF RecordRunning, AnnounceRunning
<1>5. CASE OpenAudio(w) \/ StageRead(w) \/ StagePublish(w)
  BY <1>5 DEF OpenAudio, StageRead, StagePublish, RunnerQuiet
<1>6. CASE RunnerReturns(w) \/ RunnerInterrupted(w)
  BY <1>6 DEF RunnerReturns, RunnerInterrupted, RunnerQuiet
<1>7. CASE Finish(w)
  BY <1>7 DEF Finish
<1>8. CASE RecordOutcome(w) \/ ReportOutcome(w)
  BY <1>8 DEF RecordOutcome, ReportOutcome
<1>9. CASE RemoveAudio(w) \/ ReleaseAudio(w)
  BY <1>9 DEF RemoveAudio, ReleaseAudio
<1>10. CASE NotifyWebhook(w)
  BY <1>10 DEF NotifyWebhook
<1>11. CASE DeadlineExpires(w)
  BY <1>11 DEF DeadlineExpires, workerVars
<1>. QED
  BY <1>1, <1>2, <1>3, <1>4, <1>5, <1>6, <1>7, <1>8, <1>9, <1>10, <1>11 DEF WorkerStep

(* A cancellation takes an item out of the line, or only marks a running   *)
(* job.                                                                    *)
LEMMA CancelKeepsHands ==
    ASSUME QueueInv, HandsFit, NEW c \in Canceller,
           CancelContinues(c) \/ \E j \in Job : CancelBegin(c, j)
    PROVE  HandsFit'
<1>. USE QueueAssumption DEF QueueInv, TypeOK, Discipline, Threads, StartUp, HandsFit, Enqueued, AfterFinish,
       CancelGoto, CancelReturns, workerVars, lifeVars
<1>1. CASE CancelLocate(c)
  BY <1>1 DEF CancelLocate
<1>2. CASE CancelSignal(c)
  BY <1>2 DEF CancelSignal
<1>3. CASE CancelRecord(c) \/ CancelLoad(c) \/ CancelStore(c)
  BY <1>3 DEF CancelRecord, CancelLoad, CancelStore
<1>4. CASE CancelPublish(c) \/ CancelRemove(c) \/ CancelRelease(c)
  BY <1>4 DEF CancelPublish, CancelRemove, CancelRelease
<1>5. ASSUME NEW j \in Job, CancelBegin(c, j) PROVE HandsFit'
  BY <1>5 DEF CancelBegin
<1>. QED  BY <1>1, <1>2, <1>3, <1>4, <1>5 DEF CancelContinues

(* A process that ends, or starts, leaves nobody's hands full.             *)
LEMMA LifeKeepsHands ==
    ASSUME QueueInv, HandsFit, Shutdown \/ GraceExpires \/ ProcessEnds \/ Resume
    PROVE  HandsFit'
<1>. USE DEF QueueInv, TypeOK, Discipline, Threads, StartUp, KnownIsRecorded, Recorded,
       HandsFit, Enqueued, AfterFinish, memoryVars, threadVars, workerVars, cancelVars
<1>1. CASE Shutdown \/ GraceExpires
  BY <1>1 DEF Shutdown, GraceExpires
<1>2. CASE ProcessEnds
  BY <1>2 DEF ProcessEnds
<1>3. CASE Recover
  BY <1>3 DEF Recover
<1>4. CASE SweepSpool \/ FailStale
  BY <1>4 DEF SweepSpool, FailStale
<1>. QED  BY <1>1, <1>2, <1>3, <1>4 DEF Resume

(* Every step keeps a job in one pair of hands.                            *)
LEMMA HandsStep == QueueInv /\ HandsFit /\ [Next]_vars => HandsFit'
<1> SUFFICES ASSUME QueueInv, HandsFit, [Next]_vars PROVE HandsFit'
  OBVIOUS
<1>1. CASE UNCHANGED vars
  BY <1>1 DEF vars, memoryVars, workerVars, cancelVars, lifeVars, HandsFit, Enqueued, AfterFinish
<1>2. CASE Next
  BY <1>2, SubmitKeepsHands, WorkerKeepsHands, CancelKeepsHands, LifeKeepsHands DEF Next
<1>. QED  BY <1>1, <1>2

(* In every state a job is in line or in the hands of one worker, never    *)
(* both (next, cancel, finish).                                            *)
THEOREM QueueHandsFit == Spec => [](QueueInv /\ HandsFit)
<1>1. Discipline /\ TypeOK => QueueInv
  BY DEF QueueInv
<1>. QED
  BY <1>1, HandsInit, HandsStep, QueueKeepsDiscipline, QueueTypeOK, PTL DEF Spec

-----------------------------------------------------------------------------
(* Cancellations.                                                          *)

(* Whoever ends a run as canceled was told so by a client or by the        *)
(* shutdown; and once the cancellation of a job in memory is recorded, no  *)
(* worker that holds the job is still allowed to write its row: its        *)
(* context is over for "running", its flag is set for the outcome.         *)
CancelFits ==
    /\ \A c \in Canceller : cpc[c] # "idle" => cjob[c] \in asked
    /\ \A c \in Canceller : cpc[c] \in {"signal", "record"} => canceled[cjob[c]]
    /\ \A c \in Canceller : cpc[c] = "record" => ctx[cjob[c]] # "live"
    /\ \A w \in Worker : wjob[w] # NoJob /\ ctx[wjob[w]] = "canceled"
                            => canceled[wjob[w]] \/ stopped
    /\ \A w \in Worker : verdict[w] = "canceled" /\ wpc[w] \in {"returned", "recording"}
                            => canceled[wjob[w]] \/ stopped
    /\ \A j \in settled :
          /\ row[j] = "canceled" /\ j \in Enqueued \ items
          /\ \A w \in Worker : wjob[w] = j => canceled[j] /\ ctx[j] # "live"
    /\ \A j \in Job : row[j] = "canceled" => j \in asked

(* Nobody is cancelling in a new queue.                                    *)
LEMMA CancelFitsInit == Init => CancelFits
BY DEF Init, CancelFits

(* A submission makes a row of its own, and no other.                      *)
LEMMA SubmitKeepsCancel ==
    ASSUME QueueInv, HandsFit, CancelFits, NEW j \in Job,
           SubmitReserveSlot(j) \/ SubmitContinues(j)
    PROVE  CancelFits'
<1>. USE DEF QueueInv, TypeOK, Discipline, KnownIsRecorded, Recorded, HandsFit, CancelFits,
       Enqueued, SubmitGoto, workerVars, cancelVars, lifeVars, historyVars, storeVars
<1>1. CASE SubmitReserveSlot(j)
  BY <1>1 DEF SubmitReserveSlot
<1>2. CASE SubmitReserveBytes(j) \/ SubmitAdopt(j)
  BY <1>2 DEF SubmitReserveBytes, SubmitAdopt
<1>3. CASE SubmitCreate(j)
  BY <1>3 DEF SubmitCreate
<1>4. CASE SubmitRemove(j) \/ SubmitRelease(j) \/ SubmitUnreserve(j)
  BY <1>4 DEF SubmitRemove, SubmitRelease, SubmitUnreserve
<1>5. CASE SubmitEnqueue(j)
  BY <1>5 DEF SubmitEnqueue
<1>6. CASE SubmitAnnounce(j)
  BY <1>6 DEF SubmitAnnounce
<1>. QED  BY <1>1, <1>2, <1>3, <1>4, <1>5, <1>6 DEF SubmitContinues

(* A worker writes "running" only with a live context, and an outcome only *)
(* for a job without the flag.                                             *)
LEMMA WorkerKeepsCancel ==
    ASSUME QueueInv, HandsFit, CancelFits, NEW w \in Worker,
           WorkerStep(w) \/ DeadlineExpires(w)
    PROVE  CancelFits'
<1>. USE QueueAssumption DEF QueueInv, TypeOK, Discipline, Threads, HandsFit, CancelFits,
       Enqueued, AfterFinish, WorkerGoto, WorkerDone, cancelVars, lifeVars
<1>1. CASE Take(w)
  BY <1>1 DEF Take
<1>2. CASE Leave(w)
  BY <1>2 DEF Leave
<1>3. CASE Begin(w)
  BY <1>3 DEF Begin
<1>4. CASE RecordRunning(w)
  BY <1>4 DEF RecordRunning
<1>5. CASE AnnounceRunning(w)
  BY <1>5 DEF AnnounceRunning
<1>6. CASE OpenAudio(w) \/ StageRead(w) \/ StagePublish(w)
  BY <1>6 DEF OpenAudio, StageRead, StagePublish, RunnerQuiet
<1>7. CASE RunnerReturns(w)
  BY <1>7 DEF RunnerReturns, RunnerQuiet
<1>8. CASE RunnerInterrupted(w)
  BY <1>8 DEF RunnerInterrupted, RunnerQuiet
<1>9. CASE Finish(w)
  BY <1>9 DEF Finish
<1>10. CASE RecordOutcome(w)
  <2>1. wpc[w] = "recording" /\ wjob[w] \in Job /\ ~canceled[wjob[w]]
    BY <1>10 DEF RecordOutcome
  <2>2. Outcome(verdict[w]) # "canceled"
    <3>1. CASE verdict[w] = "ok"
      BY <3>1, Zenon DEF Outcome
    <3>2. CASE verdict[w] = "canceled"
      <4>1. stopped
        BY <2>1, <3>2
      <4>. QED  BY <3>2, <4>1, Zenon DEF Outcome
    <3>3. CASE verdict[w] # "ok" /\ verdict[w] # "canceled"
      BY <3>3, Zenon DEF Outcome
    <3>. QED  BY <3>1, <3>2, <3>3
  <2>3. PICK s : s = Outcome(verdict[w])
    OBVIOUS
  <2>4. wjob[w] \notin settled
    BY <2>1
  <2>5. row' = [row EXCEPT ![wjob[w]] = s] \/ row' = row
    BY <1>10, <2>3 DEF RecordOutcome
  <2>. QED  BY <1>10, <2>1, <2>2, <2>3, <2>4, <2>5 DEF RecordOutcome
<1>11. CASE ReportOutcome(w)
  BY <1>11 DEF ReportOutcome
<1>12. CASE RemoveAudio(w) \/ ReleaseAudio(w)
  BY <1>12 DEF RemoveAudio, ReleaseAudio
<1>13. CASE NotifyWebhook(w)
  BY <1>13 DEF NotifyWebhook
<1>14. CASE DeadlineExpires(w)
  BY <1>14 DEF DeadlineExpires, workerVars, storeVars, historyVars
<1>. QED
  BY <1>1, <1>2, <1>3, <1>4, <1>5, <1>6, <1>7, <1>8, <1>9, <1>10, <1>11, <1>12, <1>13, <1>14
  DEF WorkerStep

(* Cancel sets the flag before it signals, and signals before it records.  *)
LEMMA CancelKeepsCancel ==
    ASSUME QueueInv, HandsFit, CancelFits, NEW c \in Canceller,
           CancelContinues(c) \/ \E j \in Job : CancelBegin(c, j)
    PROVE  CancelFits'
<1>. USE QueueAssumption DEF QueueInv, TypeOK, Discipline, Threads, HandsFit, CancelFits,
       Enqueued, AfterFinish, CancelGoto, CancelReturns, workerVars, lifeVars
<1>1. CASE CancelLocate(c)
  BY <1>1 DEF CancelLocate
<1>2. CASE CancelSignal(c)
  BY <1>2 DEF CancelSignal
<1>3. CASE CancelRecord(c)
  BY <1>3 DEF CancelRecord
<1>4. CASE CancelLoad(c)
  BY <1>4 DEF CancelLoad
<1>5. CASE CancelStore(c)
  BY <1>5 DEF CancelStore
<1>6. CASE CancelPublish(c) \/ CancelRemove(c) \/ CancelRelease(c)
  BY <1>6 DEF CancelPublish, CancelRemove, CancelRelease
<1>7. ASSUME NEW j \in Job, CancelBegin(c, j) PROVE CancelFits'
  BY <1>7 DEF CancelBegin
<1>. QED  BY <1>1, <1>2, <1>3, <1>4, <1>5, <1>6, <1>7 DEF CancelContinues

(* The grace cuts runs short only when the process is stopping, and a      *)
(* start-up neither takes up a canceled row nor writes one.                *)
LEMMA LifeKeepsCancel ==
    ASSUME QueueInv, HandsFit, CancelFits, Shutdown \/ GraceExpires \/ ProcessEnds \/ Resume
    PROVE  CancelFits'
<1>. USE QueueAssumption DEF QueueInv, TypeOK, Discipline, Threads, KnownIsRecorded, Recorded,
       HandsFit, CancelFits, Enqueued, memoryVars, threadVars, workerVars, cancelVars,
       storeVars, historyVars
<1>1. CASE Shutdown
  BY <1>1 DEF Shutdown
<1>2. CASE GraceExpires
  BY <1>2 DEF GraceExpires
<1>3. CASE ProcessEnds
  BY <1>3 DEF ProcessEnds
<1>4. CASE Recover
  BY <1>4 DEF Recover
<1>5. CASE SweepSpool
  BY <1>5 DEF SweepSpool
<1>6. CASE FailStale
  BY <1>6 DEF FailStale
<1>. QED  BY <1>1, <1>2, <1>3, <1>4, <1>5, <1>6 DEF Resume

(* Every step keeps what a cancellation relies on.                         *)
LEMMA CancelFitsStep == QueueInv /\ HandsFit /\ CancelFits /\ [Next]_vars => CancelFits'
<1> SUFFICES ASSUME QueueInv, HandsFit, CancelFits, [Next]_vars PROVE CancelFits'
  OBVIOUS
<1>1. CASE UNCHANGED vars
  BY <1>1 DEF vars, memoryVars, storeVars, workerVars, cancelVars, lifeVars, historyVars,
              CancelFits, Enqueued
<1>2. CASE Next
  BY <1>2, SubmitKeepsCancel, WorkerKeepsCancel, CancelKeepsCancel, LifeKeepsCancel DEF Next
<1>. QED  BY <1>1, <1>2

(* queue_test.go:333, queue.go:397: once Cancel has found a job in memory  *)
(* and recorded the cancellation no worker replaces it, whatever it was    *)
(* doing; and no job becomes "canceled" that nobody asked to cancel, not   *)
(* even one that the shutdown or its deadline cut short.                   *)
THEOREM QueueCancellationHolds == Spec => []CancellationHolds
<1>1. CancelFits => CancellationHolds
  BY DEF CancelFits, CancellationHolds, CancelSticks, CanceledOnlyIfAsked
<1>. QED
  BY <1>1, CancelFitsInit, CancelFitsStep, QueueHandsFit, PTL DEF Spec

-----------------------------------------------------------------------------
(* Audio.                                                                  *)

(* Where a cancelling request still has the audio of its job to remove.    *)
Cleaning == {"signal", "record", "publish", "remove", "release"}

(* What a job occupies: bytes in the counter, or a file that nobody has    *)
(* tried to remove in vain.                                                *)
Occupied == held \cup (files \ leftover)

(* Audio that exists is somebody's to remove: the submission's, the line's,*)
(* a worker's, or that of a request that cancelled the job.  A cancelled   *)
(* job is the business of the request alone, for the worker will let go of *)
(* it without touching the spool.                                          *)
CleanFits ==
    /\ \A j \in Job : sub[j] \in {"new", "admitted", "giveback", "refused"}
                         => j \notin Occupied
    /\ boot = "swept" => Occupied \subseteq items
    /\ \A w \in Worker : wpc[w] = "notifying" => wjob[w] \notin Occupied
    /\ \A j \in Enqueued : boot = "up" /\ j \in Occupied =>
          \/ j \in items
          \/ \E w \in Worker : wjob[w] = j
          \/ \E c \in Canceller : cjob[c] = j /\ cpc[c] \in Cleaning
    /\ \A j \in Job : boot = "up" /\ canceled[j] /\ j \in Occupied =>
          \E c \in Canceller : cjob[c] = j /\ cpc[c] \in Cleaning

(* A new queue has no audio to leave behind.                               *)
LEMMA CleanInit == Init => CleanFits
BY DEF Init, SpoolInit, CleanFits, Occupied, Enqueued

(* A submission that ends without a queued job takes its audio with it.    *)
LEMMA SubmitKeepsClean ==
    ASSUME QueueInv, HandsFit, CleanFits, SpoolTypeOK, NEW j \in Job,
           SubmitReserveSlot(j) \/ SubmitContinues(j)
    PROVE  CleanFits'
<1>. USE DEF QueueInv, TypeOK, Discipline, StartUp, FilesInHand, HandsFit, CleanFits,
       Occupied, Enqueued, SubmitGoto, workerVars, cancelVars, lifeVars, spoolVars
<1>1. CASE SubmitReserveSlot(j)
  BY <1>1 DEF SubmitReserveSlot
<1>2. CASE SubmitReserveBytes(j)
  BY <1>2 DEF SubmitReserveBytes, Reserve
<1>3. CASE SubmitAdopt(j)
  BY <1>3 DEF SubmitAdopt, Adopt, AdoptFails
<1>4. CASE SubmitCreate(j)
  BY <1>4 DEF SubmitCreate
<1>5. CASE SubmitRemove(j)
  BY <1>5 DEF SubmitRemove, RemoveFile
<1>6. CASE SubmitRelease(j)
  BY <1>6 DEF SubmitRelease, Release
<1>7. CASE SubmitUnreserve(j)
  BY <1>7 DEF SubmitUnreserve
<1>8. CASE SubmitEnqueue(j)
  BY <1>8 DEF SubmitEnqueue
<1>9. CASE SubmitAnnounce(j)
  BY <1>9 DEF SubmitAnnounce
<1>. QED
  BY <1>1, <1>2, <1>3, <1>4, <1>5, <1>6, <1>7, <1>8, <1>9 DEF SubmitContinues

(* A worker lets go of a job with audio only if the job was cancelled.     *)
LEMMA WorkerKeepsClean ==
    ASSUME QueueInv, HandsFit, CleanFits, SpoolTypeOK, NEW w \in Worker,
           WorkerStep(w) \/ DeadlineExpires(w)
    PROVE  CleanFits'
<1>. USE QueueAssumption DEF QueueInv, TypeOK, Discipline, Threads, StartUp, FilesInHand, HandsFit,
       CleanFits, Occupied, Enqueued, WorkerGoto, WorkerDone, cancelVars, lifeVars, spoolVars
<1>1. CASE Take(w)
  BY <1>1 DEF Take
<1>2. CASE Leave(w)
  BY <1>2 DEF Leave
<1>3. CASE Begin(w)
  BY <1>3 DEF Begin
<1>4. CASE RecordRunning(w) \/ AnnounceRunning(w)
  BY <1>4 DEF RecordRunning, AnnounceRunning
<1>5. CASE OpenAudio(w) \/ StageRead(w) \/ StagePublish(w)
  BY <1>5 DEF OpenAudio, StageRead, StagePublish, RunnerQuiet
<1>6. CASE RunnerReturns(w) \/ RunnerInterrupted(w)
  BY <1>6 DEF RunnerReturns, RunnerInterrupted, RunnerQuiet
<1>7. CASE Finish(w)
  BY <1>7 DEF Finish
<1>8. CASE RecordOutcome(w) \/ ReportOutcome(w)
  BY <1>8 DEF RecordOutcome, ReportOutcome
<1>9. CASE RemoveAudio(w)
  BY <1>9 DEF RemoveAudio, RemoveFile
<1>10. CASE ReleaseAudio(w)
  BY <1>10 DEF ReleaseAudio, Release
<1>11. CASE NotifyWebhook(w)
  BY <1>11 DEF NotifyWebhook
<1>12. CASE DeadlineExpires(w)
  BY <1>12 DEF DeadlineExpires, workerVars
<1>. QED
  BY <1>1, <1>2, <1>3, <1>4, <1>5, <1>6, <1>7, <1>8, <1>9, <1>10, <1>11, <1>12 DEF WorkerStep

(* A request that cancels a job in memory stays with it until its audio is *)
(* gone.                                                                   *)
LEMMA CancelKeepsClean ==
    ASSUME QueueInv, HandsFit, CleanFits, SpoolTypeOK, NEW c \in Canceller,
           CancelContinues(c) \/ \E j \in Job : CancelBegin(c, j)
    PROVE  CleanFits'
<1>. USE QueueAssumption DEF QueueInv, TypeOK, Discipline, Threads, StartUp, FilesInHand, HandsFit,
       CleanFits, Occupied, Cleaning, Enqueued, CancelGoto, CancelReturns, workerVars, lifeVars, spoolVars
<1>1. CASE CancelLocate(c)
  BY <1>1 DEF CancelLocate
<1>2. CASE CancelSignal(c) \/ CancelRecord(c)
  BY <1>2 DEF CancelSignal, CancelRecord
<1>3. CASE CancelLoad(c) \/ CancelStore(c)
  BY <1>3 DEF CancelLoad, CancelStore
<1>4. CASE CancelPublish(c)
  BY <1>4 DEF CancelPublish
<1>5. CASE CancelRemove(c)
  BY <1>5 DEF CancelRemove, RemoveFile
<1>6. CASE CancelRelease(c)
  BY <1>6 DEF CancelRelease, Release
<1>7. ASSUME NEW j \in Job, CancelBegin(c, j) PROVE CleanFits'
  BY <1>7 DEF CancelBegin
<1>. QED  BY <1>1, <1>2, <1>3, <1>4, <1>5, <1>6, <1>7 DEF CancelContinues

(* The sweep leaves exactly the audio of the jobs that are back in line.   *)
LEMMA LifeKeepsClean ==
    ASSUME QueueInv, HandsFit, CleanFits, SpoolTypeOK,
           Shutdown \/ GraceExpires \/ ProcessEnds \/ Resume
    PROVE  CleanFits'
<1>. USE DEF QueueInv, TypeOK, Discipline, Threads, StartUp, FilesInHand, HandsFit,
       CleanFits, Occupied, Enqueued, memoryVars, threadVars, workerVars, cancelVars, spoolVars
<1>1. CASE Shutdown \/ GraceExpires
  BY <1>1 DEF Shutdown, GraceExpires
<1>2. CASE ProcessEnds
  BY <1>2 DEF ProcessEnds, SpoolLost
<1>3. CASE Recover
  BY <1>3 DEF Recover
<1>4. CASE SweepSpool
  BY <1>4 DEF SweepSpool, Sweep
<1>5. CASE FailStale
  BY <1>5 DEF FailStale
<1>. QED  BY <1>1, <1>2, <1>3, <1>4, <1>5 DEF Resume

(* Every step keeps the audio with who will remove it.                     *)
LEMMA CleanStep ==
    QueueInv /\ HandsFit /\ CleanFits /\ [Next]_vars => CleanFits'
<1> SUFFICES ASSUME QueueInv, HandsFit, CleanFits, [Next]_vars PROVE CleanFits'
  OBVIOUS
<1>0. SpoolTypeOK
  BY DEF QueueInv, TypeOK
<1>1. CASE UNCHANGED vars
  BY <1>1 DEF vars, memoryVars, workerVars, cancelVars, lifeVars, spoolVars, CleanFits, Occupied, Enqueued
<1>2. CASE Next
  BY <1>0, <1>2, SubmitKeepsClean, WorkerKeepsClean, CancelKeepsClean, LifeKeepsClean DEF Next
<1>. QED  BY <1>1, <1>2

(* In every state each job's audio has its row, or somebody who will       *)
(* remove it (submit, finish, cancel, restart).                            *)
THEOREM QueueIsClean == Spec => [](QueueInv /\ HandsFit /\ CleanFits)
BY CleanInit, CleanStep, QueueHandsFit, PTL DEF Spec

(* spool.go 74-79: once every thread has let go of a job, its bytes are    *)
(* given back, and its file is gone or would not go, whichever of          *)
(* completion, cancellation, refusal, failure or restart ended it, and     *)
(* whether or not its writes failed.                                       *)
THEOREM QueueLeavesNothing == Spec => []NothingLeftBehind
<1>1. QueueInv /\ HandsFit /\ CleanFits => NothingLeftBehind
  BY DEF QueueInv, TypeOK, SubmitPC, CleanFits, Occupied, NothingLeftBehind, Quiet, Submitting, InHands,
     Enqueued
<1>. QED  BY <1>1, QueueIsClean, PTL

-----------------------------------------------------------------------------
(* Rows.                                                                   *)

(* Where a cancelling request may still come to write the row of its job.  *)
Deciding == {"locate", "signal", "record", "load", "store"}

Announcing == {"reporting", "removing", "releasing", "notifying"}

(* A row that is not terminal is in line, in the hands of a worker, or in  *)
(* those of a request that has yet to decide; what was announced is        *)
(* written; and what is queued has its audio.  All of it rests on UPDATEs  *)
(* that succeed: one that fails leaves a row that nobody will write again. *)
RecordFits ==
    /\ \A w \in Worker : wpc[w] \in Announcing => row[wjob[w]] \in Terminal
    /\ \A c \in Canceller : cpc[c] \in {"publish", "remove", "release"} => row[cjob[c]] # "queued"
    /\ \A j \in Job : canceled[j] =>
          j \in settled \/ \E c \in Canceller : cjob[c] = j /\ cpc[c] \in {"signal", "record"}
    /\ \A j \in Job : sub[j] = "adopted" => j \in files
    /\ QueuedHasAudio
    /\ boot \in {"recovered", "swept"} => \A j \in Job : row[j] = "queued" => j \in items
    /\ \A j \in Enqueued : boot = "up" /\ row[j] \in {"queued", "running"} =>
          \/ j \in items
          \/ \E w \in Worker : wjob[w] = j
          \/ \E c \in Canceller : cjob[c] = j /\ cpc[c] \in Deciding

(* A new queue has no rows.                                                *)
LEMMA RecordInit == Init => RecordFits
BY DEF Init, RecordFits, QueuedHasAudio, Enqueued, Announcing

(* The row is made when its audio is there, and the item follows.          *)
LEMMA SubmitKeepsRecords ==
    ASSUME QueueInv, HandsFit, RecordFits, NEW j \in Job,
           SubmitReserveSlot(j) \/ SubmitContinues(j)
    PROVE  RecordFits'
<1>. USE DEF QueueInv, TypeOK, Discipline, Threads, StartUp, KnownIsRecorded, Recorded, FilesInHand,
       HandsFit, RecordFits, QueuedHasAudio, Enqueued, Announcing, Terminal, SubmitGoto, workerVars,
       cancelVars, lifeVars, historyVars, storeVars, spoolVars
<1>1. CASE SubmitReserveSlot(j)
  BY <1>1 DEF SubmitReserveSlot
<1>2. CASE SubmitReserveBytes(j)
  BY <1>2 DEF SubmitReserveBytes, Reserve
<1>3. CASE SubmitAdopt(j)
  BY <1>3 DEF SubmitAdopt, Adopt, AdoptFails
<1>4. CASE SubmitCreate(j)
  BY <1>4, QueueAssumption DEF SubmitCreate
<1>5. CASE SubmitRemove(j)
  BY <1>5 DEF SubmitRemove, RemoveFile
<1>6. CASE SubmitRelease(j)
  BY <1>6 DEF SubmitRelease, Release
<1>7. CASE SubmitUnreserve(j)
  BY <1>7 DEF SubmitUnreserve
<1>8. CASE SubmitEnqueue(j)
  BY <1>8 DEF SubmitEnqueue
<1>9. CASE SubmitAnnounce(j)
  BY <1>9 DEF SubmitAnnounce
<1>. QED
  BY <1>1, <1>2, <1>3, <1>4, <1>5, <1>6, <1>7, <1>8, <1>9 DEF SubmitContinues

(* A worker lets go of a job when its row is final, or when a cancelling   *)
(* request has taken the row over.                                         *)
LEMMA WorkerKeepsRecords ==
    ASSUME QueueInv, HandsFit, CancelFits, RecordFits, ~WritesMayFail, NEW w \in Worker,
           WorkerStep(w) \/ DeadlineExpires(w)
    PROVE  RecordFits'
<1>. USE QueueAssumption DEF QueueInv, TypeOK, Discipline, Threads, StartUp, HandsFit,
       RecordFits, QueuedHasAudio, Enqueued, Announcing, Terminal, AfterFinish, WorkerGoto, WorkerDone,
       cancelVars, lifeVars, spoolVars
<1>c. \A j \in settled : row[j] = "canceled"
  BY DEF CancelFits
<1>1. CASE Take(w)
  BY <1>1 DEF Take
<1>2. CASE Leave(w)
  BY <1>2 DEF Leave
<1>3. CASE Begin(w)
  BY <1>3, <1>c DEF Begin, Deciding
<1>4. CASE RecordRunning(w)
  BY <1>4, <1>c DEF RecordRunning
<1>5. CASE AnnounceRunning(w)
  BY <1>5 DEF AnnounceRunning
<1>6. CASE OpenAudio(w) \/ StageRead(w) \/ StagePublish(w)
  BY <1>6 DEF OpenAudio, StageRead, StagePublish, RunnerQuiet
<1>7. CASE RunnerReturns(w) \/ RunnerInterrupted(w)
  BY <1>7 DEF RunnerReturns, RunnerInterrupted, RunnerQuiet
<1>8. CASE Finish(w)
  BY <1>8, <1>c DEF Finish, Deciding
<1>9. CASE RecordOutcome(w)
  <2>1. PICK s \in Terminal : s = Outcome(verdict[w])
    BY OutcomeIsFinal
  <2>2. row' = [row EXCEPT ![wjob[w]] = s]
    BY <1>9, <2>1 DEF RecordOutcome
  <2>. QED  BY <1>9, <2>1, <2>2 DEF RecordOutcome
<1>10. CASE ReportOutcome(w)
  BY <1>10 DEF ReportOutcome
<1>11. CASE RemoveAudio(w)
  BY <1>11 DEF RemoveAudio, RemoveFile
<1>12. CASE ReleaseAudio(w)
  BY <1>12 DEF ReleaseAudio, Release
<1>13. CASE NotifyWebhook(w)
  BY <1>13 DEF NotifyWebhook
<1>14. CASE DeadlineExpires(w)
  BY <1>14 DEF DeadlineExpires, workerVars, storeVars, historyVars
<1>. QED
  BY <1>1, <1>2, <1>3, <1>4, <1>5, <1>6, <1>7, <1>8, <1>9, <1>10, <1>11, <1>12, <1>13, <1>14
  DEF WorkerStep

(* A cancelling request writes before it removes the audio.                *)
LEMMA CancelKeepsRecords ==
    ASSUME QueueInv, HandsFit, CancelFits, RecordFits, ~WritesMayFail, NEW c \in Canceller,
           CancelContinues(c) \/ \E j \in Job : CancelBegin(c, j)
    PROVE  RecordFits'
<1>. USE QueueAssumption DEF QueueInv, TypeOK, Discipline, Threads, StartUp, HandsFit,
       RecordFits, QueuedHasAudio, Enqueued, Announcing, Terminal, Deciding, CancelGoto, CancelReturns,
       workerVars, lifeVars, spoolVars
<1>c. \A j \in settled : row[j] = "canceled"
  BY DEF CancelFits
<1>1. CASE CancelLocate(c)
  BY <1>1 DEF CancelLocate
<1>2. CASE CancelSignal(c)
  BY <1>2 DEF CancelSignal
<1>3. CASE CancelRecord(c)
  BY <1>3 DEF CancelRecord
<1>4. CASE CancelLoad(c)
  BY <1>4 DEF CancelLoad
<1>5. CASE CancelStore(c)
  BY <1>5 DEF CancelStore
<1>6. CASE CancelPublish(c)
  BY <1>6 DEF CancelPublish
<1>7. CASE CancelRemove(c)
  BY <1>7 DEF CancelRemove, RemoveFile, KnownIsRecorded, Recorded
<1>8. CASE CancelRelease(c)
  BY <1>8 DEF CancelRelease, Release
<1>9. ASSUME NEW j \in Job, CancelBegin(c, j) PROVE RecordFits'
  BY <1>9 DEF CancelBegin
<1>. QED
  BY <1>1, <1>2, <1>3, <1>4, <1>5, <1>6, <1>7, <1>8, <1>9 DEF CancelContinues

(* The start-up takes up every row that was left queued, and ends every    *)
(* row that was left running.                                              *)
LEMMA LifeKeepsRecords ==
    ASSUME QueueInv, HandsFit, RecordFits, ~WritesMayFail,
           Shutdown \/ GraceExpires \/ ProcessEnds \/ Resume
    PROVE  RecordFits'
<1>. USE QueueAssumption DEF QueueInv, TypeOK, Discipline, Threads, StartUp, HandsFit,
       RecordFits, QueuedHasAudio, Enqueued, Announcing, Terminal, memoryVars, threadVars, workerVars,
       cancelVars, storeVars, historyVars, spoolVars
<1>1. CASE Shutdown \/ GraceExpires
  BY <1>1 DEF Shutdown, GraceExpires
<1>2. CASE ProcessEnds
  BY <1>2 DEF ProcessEnds, SpoolLost
<1>3. CASE Recover
  BY <1>3 DEF Recover
<1>4. CASE SweepSpool
  BY <1>4 DEF SweepSpool, Sweep
<1>5. CASE FailStale
  BY <1>5 DEF FailStale
<1>. QED  BY <1>1, <1>2, <1>3, <1>4, <1>5 DEF Resume

(* While writes succeed, every step keeps rows and hands in agreement.     *)
LEMMA RecordStep ==
    ASSUME QueueInv, HandsFit, CancelFits, RecordFits, ~WritesMayFail, [Next]_vars
    PROVE  RecordFits'
<1>1. CASE UNCHANGED vars
  BY <1>1 DEF vars, memoryVars, storeVars, workerVars, cancelVars, lifeVars, historyVars,
              spoolVars, RecordFits, QueuedHasAudio, Enqueued
<1>2. CASE Next
  BY <1>2, SubmitKeepsRecords, WorkerKeepsRecords, CancelKeepsRecords, LifeKeepsRecords DEF Next
<1>. QED  BY <1>1, <1>2

(* In every state of a queue whose writes succeed, what memory knows of a  *)
(* job's end the store knows or is about to be told (finish, record).      *)
THEOREM QueueRecords == Spec => [](QueueInv /\ (WritesMayFail \/ RecordFits))
<1>1. Init => WritesMayFail \/ RecordFits
  BY RecordInit
<1>2. QueueInv /\ HandsFit /\ CancelFits /\ (WritesMayFail \/ RecordFits) /\ [Next]_vars
         => (WritesMayFail \/ RecordFits)'
  <2>1. WritesMayFail \/ ~WritesMayFail
    OBVIOUS
  <2>. QED  BY <2>1, RecordStep
<1>. QED  BY <1>1, <1>2, CancelFitsInit, CancelFitsStep, QueueHandsFit, PTL DEF Spec

(* queue.go:190, queue.go:411, wire.go 252-258: the audio of a job is on   *)
(* the disk for as long as its row says it is queued, so that any process  *)
(* end leaves it resumable, and is gone when nobody holds the job any      *)
(* more, unless it could not be removed.                                   *)
THEOREM QueueAudioFollowsItsJob == Spec => []AudioFollowsItsJob
<1>1. NothingLeftBehind /\ (WritesMayFail \/ RecordFits) => AudioFollowsItsJob
  BY DEF AudioFollowsItsJob, RecordFits
<1>. QED  BY <1>1, QueueLeavesNothing, QueueRecords, PTL

(* queue_test.go 604-607: in a process whose UPDATEs succeed, a job that   *)
(* is in nobody's hands and not in line has come to an end.                *)
THEOREM QueueStrandsNobody ==
    ASSUME ~WritesMayFail
    PROVE  Spec => []NobodyStranded
<1>1. QueueInv /\ (WritesMayFail \/ RecordFits) => NobodyStranded
  <2> SUFFICES ASSUME QueueInv, RecordFits, NEW j \in Job, Quiet(j)
               PROVE  row[j] \in Terminal \cup {"none"}
    BY DEF NobodyStranded
  <2>1. row[j] = "none" \/ j \in Enqueued
    BY DEF QueueInv, Discipline, KnownIsRecorded, Recorded, Quiet, Submitting, SubmitPC, Enqueued
  <2>2. row[j] \notin {"queued", "running"} \/ row[j] = "none"
    BY <2>1 DEF RecordFits, Quiet, InHands
  <2>. QED  BY <2>2 DEF QueueInv, TypeOK, Status
<1>. QED  BY <1>1, QueueRecords, PTL

-----------------------------------------------------------------------------
(* What the webhook is told.                                               *)

(* The row of j agrees with the outcome s, or one of two things has parted *)
(* them: the UPDATE failed, or a cancellation came after it.               *)
Agrees(j, s) == row[j] = s \/ (row[j] = "canceled" /\ j \in asked) \/ j \in unwritten

(* A worker announces what it has tried to write, and a job whose webhook  *)
(* has spoken is not run again, unless the write of its outcome failed.    *)
ToldFits ==
    /\ \A c \in Canceller : cpc[c] # "idle" => cjob[c] \in asked
    /\ \A w \in Worker : wpc[w] \in Announcing =>
          verdict[w] \in Terminal /\ Agrees(wjob[w], verdict[w])
    /\ \A j \in Job : notified[j] # "none" =>
          /\ j \in Enqueued /\ Agrees(j, notified[j])
          /\ j \in unwritten \/ (j \notin items /\ \A w \in Worker : wjob[w] # j)

(* At first nobody was told anything.                                      *)
LEMMA ToldInit == Init => ToldFits
BY DEF Init, ToldFits, Announcing

(* The webhook speaks only of jobs that were enqueued before.              *)
LEMMA SubmitKeepsTold ==
    ASSUME QueueInv, HandsFit, ToldFits, NEW j \in Job,
           SubmitReserveSlot(j) \/ SubmitContinues(j)
    PROVE  ToldFits'
<1>1. /\ UNCHANGED <<wpc, wjob, verdict, cpc, cjob, asked, notified, unwritten>>
      /\ items' \subseteq items \cup {j} /\ Enqueued \subseteq Enqueued'
      /\ \A k \in Job : row'[k] # row[k] => k = j
      /\ (row'[j] # row[j] \/ j \in items' \ items) => j \notin Enqueued
  BY DEF SubmitContinues, SubmitReserveSlot, SubmitReserveBytes, SubmitAdopt, SubmitCreate,
     SubmitRemove, SubmitRelease, SubmitUnreserve, SubmitEnqueue, SubmitAnnounce, SubmitGoto,
     workerVars, cancelVars, historyVars, tellVars, storeVars, Enqueued, QueueInv, TypeOK
<1>2. \A w \in Worker : wpc[w] \in Announcing => wjob[w] \in Enqueued /\ wjob[w] \in Job
  BY DEF HandsFit, Announcing, Enqueued
<1>3. \A k \in Job : k \in Enqueued => row'[k] = row[k] /\ (k \in items' => k \in items)
  BY <1>1
<1>. QED  BY <1>1, <1>2, <1>3 DEF ToldFits, Agrees, QueueInv, TypeOK

(* A worker that is alone with its job says what it wrote.                 *)
LEMMA WorkerKeepsTold ==
    ASSUME QueueInv, HandsFit, ToldFits, NEW w \in Worker,
           WorkerStep(w) \/ DeadlineExpires(w)
    PROVE  ToldFits'
<1>. USE QueueAssumption DEF QueueInv, TypeOK, Discipline, Threads, HandsFit, ToldFits, Agrees,
       Announcing, Enqueued, Terminal, WorkerGoto, WorkerDone, cancelVars, tellVars
<1>1. CASE Take(w) \/ Leave(w)
  BY <1>1 DEF Take, Leave
<1>2. CASE Begin(w) \/ Finish(w)
  BY <1>2 DEF Begin, Finish
<1>3. CASE RecordRunning(w)
  BY <1>3 DEF RecordRunning
<1>4. CASE AnnounceRunning(w) \/ OpenAudio(w) \/ StageRead(w) \/ StagePublish(w)
  BY <1>4 DEF AnnounceRunning, OpenAudio, StageRead, StagePublish, RunnerQuiet
<1>5. CASE RunnerReturns(w) \/ RunnerInterrupted(w)
  BY <1>5 DEF RunnerReturns, RunnerInterrupted, RunnerQuiet
<1>6. CASE RecordOutcome(w)
  <2>1. PICK s \in Terminal : s = Outcome(verdict[w])
    BY OutcomeIsFinal
  <2>2. /\ verdict' = [verdict EXCEPT ![w] = s] /\ wpc' = [wpc EXCEPT ![w] = "reporting"]
        /\ UNCHANGED <<items, wjob, cpc, cjob, asked, notified, sub>> /\ wpc[w] = "recording"
        /\ \/ row' = [row EXCEPT ![wjob[w]] = s] /\ unwritten' = unwritten
           \/ row' = row /\ unwritten' = unwritten \cup {wjob[w]}
    BY <1>6, <2>1 DEF RecordOutcome
  <2>. QED  BY <2>1, <2>2
<1>7. CASE ReportOutcome(w)
  BY <1>7 DEF ReportOutcome
<1>8. CASE RemoveAudio(w) \/ ReleaseAudio(w)
  BY <1>8 DEF RemoveAudio, ReleaseAudio
<1>9. CASE NotifyWebhook(w)
  BY <1>9 DEF NotifyWebhook
<1>10. CASE DeadlineExpires(w)
  BY <1>10 DEF DeadlineExpires, workerVars, storeVars, historyVars
<1>. QED
  BY <1>1, <1>2, <1>3, <1>4, <1>5, <1>6, <1>7, <1>8, <1>9, <1>10 DEF WorkerStep

(* A cancelling request writes nothing but "canceled", and only where it   *)
(* was asked to.                                                           *)
LEMMA CancelKeepsTold ==
    ASSUME QueueInv, HandsFit, ToldFits, NEW c \in Canceller,
           CancelContinues(c) \/ \E j \in Job : CancelBegin(c, j)
    PROVE  ToldFits'
<1>1. /\ UNCHANGED <<sub, wpc, wjob, verdict, notified, unwritten>>
      /\ items' \subseteq items /\ asked \subseteq asked'
      /\ \A j \in Job : row'[j] = row[j] \/ (row'[j] = "canceled" /\ j \in asked')
  BY DEF CancelContinues, CancelBegin, CancelLocate, CancelSignal, CancelRecord, CancelLoad,
     CancelStore, CancelPublish, CancelRemove, CancelRelease, CancelGoto, CancelReturns,
     workerVars, tellVars, QueueInv, TypeOK, ToldFits
<1>2. \A d \in Canceller : cpc'[d] # "idle" => cjob'[d] \in asked'
  BY DEF CancelContinues, CancelBegin, CancelLocate, CancelSignal, CancelRecord, CancelLoad,
     CancelStore, CancelPublish, CancelRemove, CancelRelease, CancelGoto, CancelReturns,
     QueueInv, TypeOK, ToldFits
<1>3. \A w \in Worker : wpc[w] \in Announcing => wjob[w] \in Job
  BY DEF HandsFit, Announcing, Enqueued
<1>. QED  BY <1>1, <1>2, <1>3 DEF ToldFits, Agrees, Enqueued

(* A start-up takes up the queued rows and fails the running ones; a row   *)
(* that holds what the webhook was told is neither.                        *)
LEMMA LifeKeepsTold ==
    ASSUME QueueInv, HandsFit, ToldFits, Shutdown \/ GraceExpires \/ ProcessEnds \/ Resume
    PROVE  ToldFits'
<1>. USE QueueAssumption DEF QueueInv, TypeOK, Discipline, StartUp, ToldFits, Agrees, Announcing,
       Enqueued, Terminal, memoryVars, storeVars, threadVars, workerVars, cancelVars,
       historyVars, tellVars
<1>1. CASE Shutdown \/ GraceExpires
  BY <1>1 DEF Shutdown, GraceExpires
<1>2. CASE ProcessEnds
  BY <1>2 DEF ProcessEnds
<1>3. CASE Recover
  BY <1>3 DEF Recover
<1>4. CASE SweepSpool \/ FailStale
  BY <1>4 DEF SweepSpool, FailStale
<1>. QED  BY <1>1, <1>2, <1>3, <1>4 DEF Resume

(* Every step keeps the webhook and the row in agreement.                  *)
LEMMA ToldStep ==
    QueueInv /\ HandsFit /\ ToldFits /\ [Next]_vars => ToldFits'
<1> SUFFICES ASSUME QueueInv, HandsFit, ToldFits, [Next]_vars PROVE ToldFits'
  OBVIOUS
<1>1. CASE UNCHANGED vars
  BY <1>1 DEF vars, memoryVars, storeVars, workerVars, cancelVars, historyVars, tellVars,
     ToldFits, Agrees, Enqueued
<1>2. CASE Next
  BY <1>2, SubmitKeepsTold, WorkerKeepsTold, CancelKeepsTold, LifeKeepsTold DEF Next
<1>. QED  BY <1>1, <1>2

(* queue.go 353-357, 404-420: the row says what the webhook was told, at   *)
(* once and after every crash and restart, unless the outcome could not be *)
(* written or a client's cancellation was written over it.                 *)
THEOREM QueueNotifiedIsRecorded == Spec => []NotifiedIsRecorded
<1>1. ToldFits => NotifiedIsRecorded
  BY DEF ToldFits, Agrees, NotifiedIsRecorded
<1>. QED  BY <1>1, ToldInit, ToldStep, QueueHandsFit, PTL DEF Spec

-----------------------------------------------------------------------------
(* Statuses.                                                               *)

(* Until its outcome is written, the row of a job that nobody asked to     *)
(* cancel is "queued" in line and one of "queued" and "running" in the     *)
(* hands of a worker: no row is written twice.                             *)
LifeFits ==
    /\ \A j \in Job \ asked : sub[j] = "recorded" \/ j \in items => row[j] = "queued"
    /\ \A w \in Worker : wjob[w] \in Job \ asked =>
          /\ wpc[w] \in {"popped", "starting"} => row[wjob[w]] = "queued"
          /\ wpc[w] \notin Announcing => row[wjob[w]] \in {"queued", "running"}

(* A step moves the status of a job along its life, or it is the step of a *)
(* job that somebody asked to cancel.                                      *)
UnaskedMoves == \A j \in Job \ asked : Life!MayBecome(row[j], row'[j])

(* A new queue has no status to compare.                                   *)
LEMMA LifeFitsInit == Init => LifeFits
BY QueueAssumption DEF Init, LifeFits

(* A submission inserts the row as queued before its job is in line.       *)
LEMMA SubmitKeepsLife ==
    ASSUME QueueInv, HandsFit, LifeFits, NEW j \in Job,
           SubmitReserveSlot(j) \/ SubmitContinues(j)
    PROVE  LifeFits' /\ UnaskedMoves
<1>. USE DEF QueueInv, TypeOK, Discipline, KnownIsRecorded, Recorded, HandsFit, Enqueued,
       LifeFits, UnaskedMoves, Life!MayBecome, SubmitGoto, workerVars, historyVars, storeVars
<1>1. CASE SubmitCreate(j)
  BY <1>1, QueueAssumption DEF SubmitCreate, Life!Final, Life!Moves
<1>2. CASE SubmitEnqueue(j)
  BY <1>2 DEF SubmitEnqueue
<1>3. CASE SubmitReserveSlot(j) \/ SubmitReserveBytes(j) \/ SubmitAdopt(j)
  BY <1>3 DEF SubmitReserveSlot, SubmitReserveBytes, SubmitAdopt
<1>4. CASE SubmitRemove(j) \/ SubmitRelease(j) \/ SubmitUnreserve(j) \/ SubmitAnnounce(j)
  BY <1>4 DEF SubmitRemove, SubmitRelease, SubmitUnreserve, SubmitAnnounce
<1>. QED  BY <1>1, <1>2, <1>3, <1>4 DEF SubmitContinues

(* One worker holds the job, and it writes "running" before the outcome.   *)
LEMMA WorkerKeepsLife ==
    ASSUME QueueInv, HandsFit, LifeFits, NEW w \in Worker,
           WorkerStep(w) \/ DeadlineExpires(w)
    PROVE  LifeFits' /\ UnaskedMoves
<1>. USE QueueAssumption DEF QueueInv, TypeOK, Discipline, Threads, HandsFit, Enqueued, LifeFits,
       UnaskedMoves, Announcing, Life!MayBecome, WorkerGoto, WorkerDone
<1>1. CASE Take(w)
  BY <1>1 DEF Take
<1>2. CASE Leave(w)
  BY <1>2 DEF Leave
<1>3. CASE Begin(w)
  BY <1>3 DEF Begin
<1>4. CASE RecordRunning(w)
  BY <1>4 DEF RecordRunning, Life!Final, Life!Moves
<1>5. CASE AnnounceRunning(w)
  BY <1>5 DEF AnnounceRunning
<1>6. CASE OpenAudio(w) \/ StageRead(w) \/ StagePublish(w)
  BY <1>6 DEF OpenAudio, StageRead, StagePublish, RunnerQuiet
<1>7. CASE RunnerReturns(w) \/ RunnerInterrupted(w)
  BY <1>7 DEF RunnerReturns, RunnerInterrupted, RunnerQuiet
<1>8. CASE Finish(w)
  BY <1>8 DEF Finish
<1>9. CASE RecordOutcome(w)
  <2>1. PICK s \in Terminal : s = Outcome(verdict[w])
    BY OutcomeIsFinal
  <2>2. row' = [row EXCEPT ![wjob[w]] = s] \/ row' = row
    BY <1>9, <2>1 DEF RecordOutcome
  <2>3. wjob[w] \in Job \ asked => row[wjob[w]] \in {"queued", "running"}
    BY <1>9 DEF RecordOutcome
  <2>. QED  BY <1>9, <2>2, <2>3 DEF RecordOutcome, Terminal, Life!Final, Life!Moves
<1>10. CASE ReportOutcome(w)
  BY <1>10 DEF ReportOutcome
<1>11. CASE RemoveAudio(w) \/ ReleaseAudio(w)
  BY <1>11 DEF RemoveAudio, ReleaseAudio
<1>12. CASE NotifyWebhook(w)
  BY <1>12 DEF NotifyWebhook
<1>13. CASE DeadlineExpires(w)
  BY <1>13 DEF DeadlineExpires, workerVars, storeVars, historyVars
<1>. QED
  BY <1>1, <1>2, <1>3, <1>4, <1>5, <1>6, <1>7, <1>8, <1>9, <1>10, <1>11, <1>12, <1>13
  DEF WorkerStep

(* A cancelling request writes the row of a job it was asked to cancel.    *)
LEMMA CancelKeepsLife ==
    ASSUME QueueInv, HandsFit, CancelFits, LifeFits, NEW c \in Canceller,
           CancelContinues(c) \/ \E j \in Job : CancelBegin(c, j)
    PROVE  LifeFits' /\ UnaskedMoves
<1>. USE QueueAssumption DEF QueueInv, TypeOK, Discipline, Threads, LifeFits, UnaskedMoves,
       Life!MayBecome, CancelGoto, CancelReturns, workerVars
<1>0. cpc[c] # "idle" => cjob[c] \in asked
  BY DEF CancelFits
<1>1. CASE CancelLocate(c) \/ CancelSignal(c) \/ CancelLoad(c)
  BY <1>1 DEF CancelLocate, CancelSignal, CancelLoad
<1>2. CASE CancelRecord(c) \/ CancelStore(c)
  BY <1>0, <1>2 DEF CancelRecord, CancelStore
<1>3. CASE CancelPublish(c) \/ CancelRemove(c) \/ CancelRelease(c)
  BY <1>3 DEF CancelPublish, CancelRemove, CancelRelease
<1>4. ASSUME NEW j \in Job, CancelBegin(c, j) PROVE LifeFits' /\ UnaskedMoves
  BY <1>4 DEF CancelBegin
<1>. QED  BY <1>1, <1>2, <1>3, <1>4 DEF CancelContinues

(* What a process end left queued goes back in line or fails; what it left *)
(* running fails.                                                          *)
LEMMA LifeKeepsLife ==
    ASSUME QueueInv, HandsFit, LifeFits, Shutdown \/ GraceExpires \/ ProcessEnds \/ Resume
    PROVE  LifeFits' /\ UnaskedMoves
<1>. USE QueueAssumption DEF QueueInv, TypeOK, Discipline, StartUp, HandsFit, LifeFits, UnaskedMoves,
       Life!MayBecome, Life!Final, Life!Moves, memoryVars, threadVars, workerVars, storeVars,
       historyVars
<1>1. CASE Shutdown \/ GraceExpires
  BY <1>1 DEF Shutdown, GraceExpires
<1>2. CASE ProcessEnds
  BY <1>2 DEF ProcessEnds
<1>3. CASE Recover
  BY <1>3 DEF Recover
<1>4. CASE SweepSpool
  BY <1>4 DEF SweepSpool
<1>5. CASE FailStale
  BY <1>5 DEF FailStale
<1>. QED  BY <1>1, <1>2, <1>3, <1>4, <1>5 DEF Resume

(* Every step keeps the statuses of a job in the order of its life.        *)
LEMMA LifeFitsStep ==
    QueueInv /\ HandsFit /\ CancelFits /\ LifeFits /\ [Next]_vars => LifeFits' /\ UnaskedMoves
<1> SUFFICES ASSUME QueueInv, HandsFit, CancelFits, LifeFits, [Next]_vars
             PROVE  LifeFits' /\ UnaskedMoves
  OBVIOUS
<1>1. CASE UNCHANGED vars
  BY <1>1 DEF vars, memoryVars, storeVars, workerVars, historyVars, LifeFits, UnaskedMoves,
              Life!MayBecome
<1>2. CASE Next
  BY <1>2, SubmitKeepsLife, WorkerKeepsLife, CancelKeepsLife, LifeKeepsLife DEF Next
<1>. QED  BY <1>1, <1>2

(* record.go 127-134: a terminal status does not change, no job runs       *)
(* twice, and none goes back to the line once it has run.  It holds of     *)
(* every job that nobody asked to cancel, while others are cancelled and   *)
(* the process restarts; a cancellation may race the outcome.              *)
THEOREM QueueUnaskedMoves == Spec => [][UnaskedMoves]_vars
BY LifeFitsInit, LifeFitsStep, CancelFitsInit, CancelFitsStep, QueueHandsFit, PTL DEF Spec

(* hub.go 22-25: without cancelling clients the status column implements   *)
(* the life of a job that the API promises.                                *)
THEOREM QueueFollowsLifecycle ==
    ASSUME Canceller = {}
    PROVE  Spec => FollowsLifecycle
<1>1. Init => Life!LifeInit
  BY DEF Init, Life!LifeInit
<1>2. Init => asked = {}
  BY DEF Init
<1>3. asked = {} /\ [Next]_vars => (asked = {})'
  <2> SUFFICES ASSUME asked = {}, [Next]_vars PROVE asked' = {}
    OBVIOUS
  <2>1. CASE UNCHANGED vars
    BY <2>1 DEF vars, historyVars
  <2>2. ASSUME NEW j \in Job, SubmitReserveSlot(j) \/ SubmitContinues(j) PROVE asked' = {}
    BY <2>2 DEF SubmitContinues, SubmitReserveSlot, SubmitReserveBytes, SubmitAdopt, SubmitCreate,
       SubmitRemove, SubmitRelease, SubmitUnreserve, SubmitEnqueue, SubmitAnnounce, SubmitGoto,
       historyVars
  <2>3. ASSUME NEW w \in Worker, WorkerStep(w) \/ DeadlineExpires(w) PROVE asked' = {}
    BY <2>3 DEF WorkerStep, DeadlineExpires, WorkerGoto, WorkerDone,
       Take, Leave, Begin, RecordRunning, AnnounceRunning, OpenAudio, StageRead,
       StagePublish, RunnerReturns, RunnerInterrupted, Finish, RecordOutcome, ReportOutcome,
       RemoveAudio, ReleaseAudio, NotifyWebhook, historyVars
  <2>4. CASE Shutdown \/ GraceExpires \/ ProcessEnds \/ Resume
    BY <2>4 DEF Shutdown, GraceExpires, ProcessEnds, Resume, Recover, SweepSpool, FailStale,
       historyVars
  <2>. QED  BY <2>1, <2>2, <2>3, <2>4 DEF Next
<1>4. QueueInv /\ QueueInv' /\ asked = {} /\ UnaskedMoves => Life!LifeNext
  BY DEF QueueInv, TypeOK, Status, Terminal, UnaskedMoves, Life!LifeNext, Life!Final
<1>5. UNCHANGED vars => UNCHANGED row
  BY DEF vars, storeVars
<1>6. QueueInv /\ QueueInv' /\ asked = {} /\ [UnaskedMoves]_vars => [Life!LifeNext]_row
  BY <1>4, <1>5
<1>. QED
  BY <1>1, <1>2, <1>3, <1>6, QueueUnaskedMoves, QueueHandsFit, PTL
  DEF Spec, FollowsLifecycle, Life!LifeSpec
=============================================================================
