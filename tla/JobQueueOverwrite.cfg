\* A worker's outcome replaces a cancellation recorded while it was finishing.
SPECIFICATION Spec
CONSTANTS
    j1 = j1
    j2 = j2
    j3 = j3
    NoJob = NoJob
    Job = {j1}
    Worker = {w1}
    Canceller = {c1}
    Size <- MCSize
    Prio <- MCPrio
    QueueSize = 1
    MaxBytes = 2
    HasDeadline = FALSE
    WritesMayFail = FALSE
    RemovalsMayFail = FALSE
    MaxRestarts = 0
PROPERTIES
    FinishKeepsCancellation
\* every job may be done and nobody has to ask for more
CHECK_DEADLOCK FALSE
