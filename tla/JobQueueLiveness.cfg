\* One job, one worker, one client, one shutdown or crash, fair scheduling.
SPECIFICATION FairSpec
CONSTANTS
    j1 = j1
    j2 = j2
    j3 = j3
    NoJob = NoJob
    Job = {j1}
    Worker = {w1}
    Canceller = {c1}
    Size <- MCSize
    Prio <- MCPrio
    QueueSize = 1
    MaxBytes = 2
    HasDeadline = TRUE
    WritesMayFail = FALSE
    RemovalsMayFail = TRUE
    MaxRestarts = 1
PROPERTIES
    JobsEnd
\* every job may be done and nobody has to ask for more
CHECK_DEADLOCK FALSE
