SPECIFICATION Spec
CONSTANT Worlds <- SomeWorlds
CHECK_DEADLOCK FALSE
INVARIANTS IInv FoundIsDirectGraph FoundAtSomeMoment FailsOnlyWhenItMust
