\* One isolation, kept and released at will, extracted and transcribed over and over
\* across a crash or a shutdown, while states are not written or not restored; fair scheduling.
SPECIFICATION FairSpec
CONSTANTS
    None = None
    Session = {s1}
    Worker = {w1}
    Voice = {v1}
    Job = {j1}
    MaxIsolations = 1
    MaxKept = 1
    MayFail = {"write", "restore"}
    MaxStarts = 2
INVARIANTS
    ShownIsKept
PROPERTIES
    IsolationEnds
CHECK_DEADLOCK FALSE
