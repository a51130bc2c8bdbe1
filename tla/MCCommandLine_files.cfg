SPECIFICATION Spec
CONSTANT Alphabet <- SomeAlphabet
CONSTANT DeclaredPrefixes <- SomePrefixes
CONSTANT Schemes <- SomeSchemes
CONSTANT ColumnsOf <- SomeColumns
CONSTANT Worlds <- SomeWorlds
CONSTANT Missing = Missing
CONSTANT NoPath = NoPath
CHECK_DEADLOCK FALSE
INVARIANTS IInv PlaceholdersResolve ConversionKeepsTriples RulesAsWritten OutputsAreWhole BootstrapDescribes ValidatedLoads FindsWhatIsThere
PROPERTY SettingsKept
