CONSTANTS
    Users = {u1, u2}
    NoUser = NoUser
    MaxCallId = 1
    RingTimeouts = {1}
    IdleLimit = 1
    MaxLifetime = 2
    ArchiveAfter = 0
    MaxCalls = 1
    Reqs = {r1}
    Sweeper = Sweeper
    SlowIO = FALSE
    Signing = "microtask"
    Arriving = {"create", "invite", "join", "accept", "decline", "cancel", "end", "verdict"}
    Resolvable = {"DIRECT", "TRANSLATED"}
    LastArrival = 1
    MaxNow = 3
SPECIFICATION FairSpec
PROPERTIES
    NothingIsImmortal
    WaitersAnswered
