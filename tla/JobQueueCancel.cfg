\* One job, two clients cancelling it, deadlines, shutdown, one restart, and writes
\* of the status and removals of the audio that may fail.
SPECIFICATION Spec
CONSTANTS
    j1 = j1
    j2 = j2
    j3 = j3
    NoJob = NoJob
    Job = {j1}
    Worker = {w1}
    Canceller = {c1, c2}
    Size <- MCSize
    Prio <- MCPrio
    QueueSize = 1
    MaxBytes = 2
    HasDeadline = TRUE
    WritesMayFail = TRUE
    RemovalsMayFail = TRUE
    MaxRestarts = 1
INVARIANTS
    AudioFollowsItsJob
    CancellationHolds
    NotifiedIsRecorded
PROPERTIES
    SpoolSpec
\* every job may be done and nobody has to ask for more
CHECK_DEADLOCK FALSE
