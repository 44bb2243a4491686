CONSTANTS
    Users = {u1, u2}
    NoUser = NoUser
    MaxCallId = 1
    RingTimeouts = {1}
    IdleLimit = 1
    MaxLifetime = 2
    ArchiveAfter = 1
    MaxCalls = 1
    Reqs = {r1, r2}
    Sweeper = Sweeper
    SlowIO = TRUE
    Signing = "microtask"
    Arriving = {"create", "invite", "join", "accept", "decline", "cancel", "end", "mode", "verdict"}
    Resolvable = {"DIRECT", "TRANSLATED"}
    LastArrival = 1
    MaxNow = 1
SPECIFICATION Spec
PROPERTY
    AnsweredIsNeverRelabelled
