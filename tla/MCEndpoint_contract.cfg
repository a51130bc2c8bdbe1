CONSTANTS
    Requests = {r1, r2}
    Targets = {"sparql", "predefined"}
    Accepts <- AnyMedia
    Departures = {"gone"}
    Env = {"query", "slow", "panic"}
    Hanging = {r2}
    MaxStatements = 1
    MaxSessions = 1
    MaxEdits = 0
SPECIFICATION FairSpec
PROPERTY ImplementsContract
PROPERTY Served
PROPERTY DisconnectEndsStatement
