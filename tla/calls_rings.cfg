CONSTANTS
    Users = {u1, u2}
    NoUser = NoUser
    MaxCallId = 2
    RingTimeouts = {1}
    IdleLimit = 1
    MaxLifetime = 2
    ArchiveAfter = 3
    MaxCalls = 2
    Reqs = {r1, r2}
    Sweeper = Sweeper
    SlowIO = TRUE
    Signing = "microtask"
    Arriving = {"create", "join", "accept", "decline", "cancel", "end"}
    Resolvable = {"TRANSLATED"}
    LastArrival = 1
    MaxNow = 2
SPECIFICATION Spec
SYMMETRY Symmetry
INVARIANTS
    OneRingPerUser
PROPERTIES
    Settled
    ImplementsProtocol
    SweeperSparesTheJoined
