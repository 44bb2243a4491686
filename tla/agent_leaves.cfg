CONSTANTS
    Relays = {p1, p2}
    NoRelay = NoRelay
    Handlers = {h1, h2}
    MaxHumans = 1
    Grace = 1
    Window = 0
    Deployments = {TRUE}
    MaxStarts = 2
SPECIFICATION FairSpec
PROPERTIES
    AgentLeaves
