\* Deletion in the moment between the end of one piece of work and the start of the next.
SPECIFICATION Spec
CONSTANTS
    None = None
    Session = {s1}
    Worker = {w1, w2}
    Voice = {v1}
    Job = {j1, j2}
    MaxIsolations = 1
    MaxKept = 1
    MayFail = {"write", "remove"}
    MaxStarts = 1
INVARIANTS
    DeletingStops
CHECK_DEADLOCK FALSE
