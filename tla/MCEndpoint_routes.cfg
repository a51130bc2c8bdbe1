CONSTANTS
    Requests = {r1}
    Targets = {"healthz", "sparql", "predefined", "reformulate", "ontology", "static", "unreadable"}
    Accepts <- SomeMedia
    Departures = {"gone", "half", "reset"}
    Env = {"connect", "query", "cancel", "slow", "pipelined"}
    Hanging = {}
    MaxStatements = 2
    MaxSessions = 1
    MaxEdits = 2
SPECIFICATION Spec
INVARIANT DiagnosisForTextClients
INVARIANT WholeAnswer
