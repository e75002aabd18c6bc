\* Two isolations, two workers, one of each kind allowed; the job queue is always full.
SPECIFICATION Spec
CONSTANTS
    None = None
    Session = {s1, s2}
    Worker = {w1, w2}
    Voice = {v1}
    Job = {}
    MaxIsolations = 1
    MaxKept = 1
    MayFail = {}
    MaxStarts = 1
SYMMETRY Symmetric
INVARIANTS
    WorkIsHeld
CHECK_DEADLOCK FALSE
