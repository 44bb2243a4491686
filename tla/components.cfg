\* The components of the agent, the GPU services, the ring client,
\* the evaluation, the identities and their phones, one at a time.
CONSTANTS
    MaxUnits = 2
    MaxChunks = 1
    MaxBargeIns = 1
    Plain = {}
    FunctionWords = {f}
    Strong = {s}
    Weak = {k}
    MinWords = 2
    WeakMinWords = 2
    MaxWords = 2
    MaxIn = 1
    MaxOut = 1
    Slots = {1, 2}
    MaxAttempts = 1
    QueueSize = 2
    MaxRows = 3
    MaxLogs = 2
    MaxCrashes = 1
    Judges = {alice}
    Requests = {r1, r2, r3, r4}
    Limit = 2
    Vocabulary = {da, net}
    MinPrefixWords = 1
    MaxHypothesis = 2
    MaxShadowAttempts = 2
    Windows = 2
    MaxActive = 1
    MaxArms = 2
    Streams = {s1, s2}
    Russian = {s1}
    VadModels = {v1}
    MaxUtterances = 2
    Speakers = {ann, ben}
    MaxTracks = 2
    QueueFrames = 2
    MaxFrames = 4
    Langs = {ru, he}
    Rivals = {near, far}
    Top3 = 1
    Top5 = 2
    Top10 = 2
    TopK = 3
    MinSamples = 1
    WindowMs = 150
    Trips = {100, 600}
    Baselines = {500}
    MaxSamples = 2
    Keys = {1, 2}
    MaxReportRows = 3
    Threads = {t1, t2, t3}
    Processes = {p, q}
    Seeded = {1}
    UserIds = {1, 2, 3}
    Companions = {2}
    Phones = {n1}
    MaxWrites = 3
    MaxChanges = 2
    MaxRestarts = 1
    Numbers = {nn}
    CodeTtl = 2
    VerifiedTtl = 1
    AttemptWindow = 2
    AttemptsPerCode = 2
    AttemptsPerPhone = 2
    MaxLive = 2
    MaxChallenges = 3
    MaxNow = 3
SPECIFICATION Spec
CHECK_DEADLOCK FALSE
INVARIANTS
    ComponentsTypeOK
    HeardIsLogged
    NothingStalePlays
    UnitsAreToldApart
    SpokenStands
    OneLoop
    NoRowVanishes
    VerdictNamesTheHeard
    CardNeverShared
    NoLostWakeup
    ShadowRowsAddUp
    VadNeverShared
    MicrophoneIsRead
    FlushFollowsAudio
    EvaluationIsHonest
    LoadedOnce
    GuessesAreBounded
PROPERTIES
    UnitsSettle
    HangupEnds
    NoWordWaits
    SettledIsNotOffered
    TruthIsStable
    UtterancesInOrder
    StreamsComeToAnEnd
    SavesAreUnions
