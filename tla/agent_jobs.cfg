CONSTANTS
    Relays = {p1, p2}
    NoRelay = NoRelay
    Handlers = {h1, h2}
    MaxHumans = 1
    Grace = 2
    Window = 1
    Deployments = {TRUE, FALSE}
    MaxStarts = 3
SPECIFICATION Spec
SYMMETRY Symmetry
INVARIANTS
    TypeOK
    AliveIsRegistered
    StoppedIsOver
PROPERTIES
    WaitsForTheAnswer
