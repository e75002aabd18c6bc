\* Two jobs, two workers and a cancelling client in one process.
SPECIFICATION Spec
CONSTANTS
    j1 = j1
    j2 = j2
    j3 = j3
    NoJob = NoJob
    Job = {j1, j2}
    Worker = {w1, w2}
    Canceller = {c1}
    Size <- MCSize
    Prio <- MCPrio
    QueueSize = 2
    MaxBytes = 3
    HasDeadline = FALSE
    WritesMayFail = FALSE
    RemovalsMayFail = TRUE
    MaxRestarts = 0
SYMMETRY Symmetric
INVARIANTS
    NobodyStranded
    AudioFollowsItsJob
\* every job may be done and nobody has to ask for more
CHECK_DEADLOCK FALSE
