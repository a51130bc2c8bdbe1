SPECIFICATION Spec
CONSTANT Vocabularies <- SomeVocabularies
CHECK_DEADLOCK FALSE
INVARIANTS ValueAsWritten TextRoundTrip FilterPathsAgree
