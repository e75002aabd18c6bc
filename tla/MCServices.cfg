\* One instance of each service, each on its own, fair scheduling.
SPECIFICATION ServicesSpec
CONSTANTS
    c1 = c1
    c2 = c2
    c3 = c3
    c4 = c4
    Caller = {c1, c2, c3, c4}
    Asks <- MCAsks
    SlotCount = 3
    Nobody = Nobody
    Pieces = 3
    Requests = 1
    AudioRoom = 2
    EventBuffer = 3
    Rounds = 1
    Conn = {n1, n2}
    MaxSessions = 1
    CloseBuffer = 1
    Offered = {m1}
    Asker = {a1, a2}
    Remover = {r1}
    Download = {d1}
    Concurrency = 1
    Inbox = 1
    SampleBytes = 2
    Block = 2
    Room = 2
    Inputs <- MCInputs
    Limits = {1, 9}
INVARIANTS
    GovernorIsExact
    WordsArrive
    AnswersAreTrue
PROPERTIES
    AcquireReturns
    CommitsHold
    SlotsComeFree
    AskersAreAnswered
    DecodesReturn
CHECK_DEADLOCK FALSE
