CONSTANTS
    Users = {u1, u2}
    NoUser = NoUser
    MaxCallId = 2
    RingTimeouts = {1}
    IdleLimit = 1
    MaxLifetime = 2
    ArchiveAfter = 0
    MaxCalls = 2
    Reqs = {r1}
    Sweeper = Sweeper
    SlowIO = TRUE
    Signing = "microtask"
    Arriving = {"create", "invite", "accept", "end"}
    Resolvable = {"DIRECT", "TRANSLATED"}
    LastArrival = 1
    MaxNow = 1
SPECIFICATION Spec
PROPERTY
    NoStaleAccept
