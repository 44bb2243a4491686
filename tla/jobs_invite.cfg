CONSTANTS
    Relays = {p1}
    NoRelay = NoRelay
    Handlers = {h1}
    MaxHumans = 1
    Grace = 2
    Window = 3
    Deployments = {FALSE}
    MaxStarts = 1
SPECIFICATION FairSpec
PROPERTIES
    WaitsForTheAnswer
