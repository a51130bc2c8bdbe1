SPECIFICATION Spec
CONSTANT Names <- SomeNames
CONSTANT Queries <- SomeQueries
CONSTANT Matches <- SomeMatches
CONSTANT Serialized <- SomeSerialized
CHECK_DEADLOCK FALSE
INVARIANTS TypeOK AnswerAllowed
