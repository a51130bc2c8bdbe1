SPECIFICATION Spec
CONSTANT Names <- SomeNames
CONSTANT Queries <- OrderQueries
CONSTANT Matches <- SomeMatches
CONSTANT Serialized <- SomeSerialized
CHECK_DEADLOCK FALSE
INVARIANT OrderedByAggregate
