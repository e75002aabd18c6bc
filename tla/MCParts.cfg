\* One instance of each part, each on its own.
SPECIFICATION PartsSpec
CONSTANTS
    Watcher = {w1}
    Ring = 1
    Spare = 1
    Stages = 2
    Returns = 2
    Delivery = {d1, d2}
    MaxAttempts = 3
    Rates = {1, 2, 3, 5}
    Token = 4
    Second = 1
    Horizon = 5
    AsrName = {}
    StreamName = {y}
    VadName = v
    DiarName = z
    TseName = {t}
    HasBuild = {t}
    Chosen <- MCChosen
    Patches = 2
    NoName = NoName
    Sources = 2
    Retries = 2
    FileLen = 2
    FetchLimit = 3
    MaxFiles = 2
    MaxFileBytes = 1
    MaxUnpackedBytes = 2
    Puller = {p1, p2}
    Shipped = {s1}
    Beside = {b1, b2}
    Own = {o1}
    Config <- MCConfig
    Locale = {"en", "fr"}
    MaxBytes = 5
    MaxFrame = 3
    MaxUpdates = 2
    MaxItems = 2
    PingEvery = 2
    PingTimeout = 1
    GracePeriod = 6
    Offered = {m1}
    Asker = {a1, a2}
    Remover = {}
    Download = {d1, d2}
    Concurrency = 1
    Inbox = 1
    Nobody = Nobody
    HistId = {1, 2, 3}
    Stamps = 1
    Limit = 1
    Owner = {"k1", "k2"}
    Queries <- MCQueries
    Renamer = {n1, n2}
    Voice = {v1, v2}
    Editor = {e1}
    DictKey = {k1}
    MaxPhrases = 3
    Clock = 1
    Requests <- MCRequests
    Servers <- MCServers
    Transcription = {t1, t2}
    Slots = 3
    NumThreads = 2
    BatchMaxSize = 2
    BatchMaxSamples = 3
    Segmentations <- MCSegmentations
    Recordings <- MCRecordings
    TurnMaps <- MCTurnMaps
    MinTurn = 1
    MinTurnWords = 2
    MaxGap = 0
    SpokenRuns <- MCSpokenRuns
    Values <- MCValues
    MinPhone = 3
    Phrases <- MCPhrases
    Markings <- MCMarkings
    Operator = {o1, o2}
    StopTimeout = 3
    Hint = 2
    Restarts = 2
    Commands = 1
    Hop = 2
    Nfft = 8
    FramesPerRun = 2
    FixedSizes = {0, 3}
    Lengths = {0, 1, 3, 4, 5, 6, 13, 18}
    Pieces = {1, 3, 5, 16}
    Enroll = 4
    MinClean = 3
    Margin = 1
    Step = 2
    MaxCandidates = 2
    MinPiece = 2
    NearlyFull = 1
    Scenes <- MCScenes
    RegionMerge = 2
    PreRoll = 1
    GateHop = 5
    Fade = 4
    TakeSet <- MCTakes
    LeakDepth = 6
    Silent = 1
    EchoWindow = 2
    RunGap = 2
    EchoMargin = 2
    Length = 10
    TrackSets <- MCTracks
    ChunkLen = 2
    RightCtx = 1
    CacheLen = 6
    SilenceSlots = 1
    FifoLen = 2
    UpdatePeriod = 2
    MinPositive = 1
    StrongBoosted = 1
    WeakBoosted = 3
    LatestBoost = 1
    NumSpeakers = 2
    Rows = 2
    MelFrames = {0, 1, 7, 31}
    Opinions <- MCOpinions
    Command = {c1, c2}
    KeyName = {"ci", "bot"}
    Secret = {"s0", "s1", "s2", "s3"}
    NoLabel = "-"
    Garbled = Garbled
    None = None
    Originals <- MCOriginals
INVARIANTS
    EventsArrive
    DeliveriesEnd
    RateIsFair
    SettingsOutlast
    ModelsAreWhole
    UpAndDownInOrder
    TalkIsWhole
    RequestsAreHonest
    RunsShareTheMachine
    TranscriptIsWhole
    TextIsKept
    VoiceIsWhole
    TracksAgree
PROPERTIES
    RecordsStay
    ServiceObeys
    DiarizationHolds
CHECK_DEADLOCK FALSE
