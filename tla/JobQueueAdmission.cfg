\* Three jobs compete for two slots and three units of disk, with deadlines, a restart
\* and removals that may fail.
SPECIFICATION Spec
CONSTANTS
    j1 = j1
    j2 = j2
    j3 = j3
    NoJob = NoJob
    Job = {j1, j2, j3}
    Worker = {w1}
    Canceller = {}
    Size <- MCSize
    Prio <- MCPrio
    QueueSize = 2
    MaxBytes = 3
    HasDeadline = TRUE
    WritesMayFail = FALSE
    RemovalsMayFail = TRUE
    MaxRestarts = 1
SYMMETRY SymmetricBatch
INVARIANTS
    AdmissionIsExact
    DiskIsPaidFor
PROPERTIES
    FollowsLifecycle
\* every job may be done and nobody has to ask for more
CHECK_DEADLOCK FALSE
