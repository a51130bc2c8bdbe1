CONSTANTS
    Requests = {r1, r2}
    Targets = {"sparql", "predefined"}
    Accepts <- AnyMedia
    Departures = {"gone", "half", "reset"}
    Env = {"query", "cancel", "panic", "slow", "pipelined", "large", "socket"}
    Hanging = {}
    MaxStatements = 2
    MaxSessions = 1
    MaxEdits = 0
SPECIFICATION Spec
SYMMETRY Symmetry
INVARIANT IInv
INVARIANT OrphanedOnlyByFailure
INVARIANT CancelledOnlyAfterDeparture
PROPERTY NoStatementAfterAnswer
