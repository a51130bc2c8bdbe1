------------------------ MODULE CommandLineProperties ------------------------
(* What the commands owe to the files and databases they work on.              *)
EXTENDS CommandLine

CONSTANT ColumnsOf      \* the names of the columns of a table

Steps == {"shell", "input", "configuration", "connect", "direct mapping", "mapping", "facts", "ontology",
          "default graph", "named graphs", "tables", "columns", "keys", "open", "write", "exited"}

\* A process is at a step of its command, has something to write when it writes,
\* and an exit code.
StateOK(state) ==
    /\ DOMAIN state = DOMAIN Shell(<<>>)
    /\ state.at \in Steps
    /\ state.exit \in {0, 2, 137}
    /\ state.at \in {"open", "write"} => state.pending # <<>>

(* The database is one of those it will be, and every process is at a step of  *)
(* its command and writes only what it still has to write (main).              *)
TypeOK ==
    /\ databases \in Seq(ToSet(databases))
    /\ version \in 1..Len(databases)
    /\ changes \in Nat
    /\ troubles \subseteq {"crash", "disk", "network"}
    /\ DOMAIN disturbed = Process
    /\ \A p \in Process : StateOK(processes[p])

Exited(p, code) == At(p, "exited") /\ processes[p].exit = code

-----------------------------------------------------------------------------
(* v1-to-v3.                                                                 *)

\* The columns a source has for a name.
OutputName(item) ==
    IF AliasesIn(item) # {} THEN Alias(item) ELSE IF IsQualified(item) THEN NameOf(item) ELSE item
\* A bare name is the column of the one table that has it.
Resolved(source, expression) ==
    LET having == {table \in ToSet(source.tables) : expression \in ColumnsOf[table]}
    IN  IF Cardinality(having) = 1 THEN Column(CHOOSE table \in having : TRUE, expression) ELSE expression
Outputs(source) ==
    UNION {IF item = Star THEN UNION {{<<name, Column(table, name)>> : name \in ColumnsOf[table]} : table \in ToSet(source.tables)}
           ELSE {<<OutputName(item), Resolved(source, Expression(item))>>} : item \in ToSet(source.items)}
Columns_(source, name) == {output[2] : output \in {o \in Outputs(source) : o[1] = name}}

\* What an old placeholder stands for: the column, if the source has it.
Meant(source, placeholder) ==
    IF IsQualified(placeholder) THEN {placeholder} \cap {output[2] : output \in Outputs(source)}
    ELSE Columns_(source, placeholder)

\* What the conversion does not keep:
\* the new name of a column is that of another output;
Repeated(target, column) ==
    Len(SelectSeq(Qualified(target), LAMBDA other : NameOf(other) = NameOf(column))) > 1
NewNames(target, column) ==
    IF Repeated(target, column) THEN {NameOf(column) \o <<Digit(n)>> : n \in 1..3} ELSE {NameOf(column)}
NameTaken(target, source, column) ==
    \E name \in NewNames(target, column) : Columns_(source, name) \ {column} # {}
\* the text of a renamed column is in the item the placeholder is about;
TextInside(target, source, placeholder) ==
    \E column \in ToSet(Qualified(target)), item \in ToSet(source.items) :
        /\ item # column /\ Occurrences(item, column) # {}
        /\ Expression(item) = placeholder \/ OutputName(item) = placeholder
\* the column is numbered, but the source does not spell it out;
NumberedUnlisted(target, source, column) ==
    column \notin ToSet(source.items) /\ Repeated(target, column)
\* another column of the tables has the name once the projection is a star.
AmbiguousUnderStar(source, placeholder) ==
    Cardinality(Columns_(Simplified(Source(FALSE, <<<<"1">>>>, source.tables)), placeholder)) > 1

NotKept(target, source, placeholder, simplify) ==
    \/ /\ IsQualified(placeholder)
       /\ \/ NameTaken(target, source, placeholder)
          \/ NumberedUnlisted(target, source, placeholder)
    \/ TextInside(target, source, placeholder)
    \/ simplify /\ AmbiguousUnderStar(source, placeholder)

KeepsPlaceholders(old, new, simplify) ==
    LET target == First(old, "target")
        source == First(old, "source")
    IN  \A i \in DOMAIN Placeholders(target) :
            LET placeholder == Placeholders(target)[i]
            IN  Meant(source, placeholder) = {}
                \/ NotKept(target, source, placeholder, simplify)
                \/ Columns_(First(new, "source"), Placeholders(First(new, "target"))[i]) = Meant(source, placeholder)

SectionsInOrder(text) ==
    LET starts == SetToSortSeq(SectionStarts(text), <) IN [k \in DOMAIN starts |-> SectionFrom(text, starts[k])]

\* Its documents are ready, none is written yet.
Converted(p) == At(p, "open") /\ processes[p].wrote = <<>>

(* A placeholder of a version 1 mapping has the same column in the converted   *)
(* mapping, although a column is renamed in the target and in the text of the  *)
(* source separately (migrate_v1_rule, simplify_v1_projection). This is not    *)
(* claimed in the four cases of NotKept. In two of them, where the new name is *)
(* taken or a renamed text is part of another item of the source, the code     *)
(* does read another column.                                                   *)
PlaceholdersResolve ==
    \A p \in Process :
        Converted(p) /\ processes[p].command.name = "v1-to-v3" /\ processes[p].command.input[2] # "ttl"
        => LET old == SectionsInOrder(processes[p].text)
               new == SectionsInOrder(processes[p].pending[1].text)
           IN  \A k \in DOMAIN old :
                Some(old[k], "target") /\ Some(old[k], "source") => KeepsPlaceholders(old[k], new[k], processes[p].command.simplify)

-----------------------------------------------------------------------------
(* to-obda, to-r2rml and reading R2RML.                                      *)

Relative(term) == term.type = "iri" /\ ~HasColon(term.parts)
IsConstantWithSlots(rule) == rule.object.form = "quoted" /\ HasSlot(rule.object.parts)

\* What a native target cannot say, or says otherwise when it is read again.
LostInNative(rule) ==
    \/ Relative(rule.subject) \/ Relative(rule.object)
    \/ rule.subject.type = "iri" /\ rule.columnSubject
    \/ rule.object.type = "iri" /\ rule.object.form = "plain"
    \/ rule.object.type = "blank"
    \/ IsConstantWithSlots(rule)
\* A word of a target that is taken apart, or taken for a prefixed name.
RefusedInNative(rule) ==
    \/ rule.object.type = "literal" /\ rule.object.form = "plain" /\ ~IsSlot(Head(rule.object.parts)) /\ HasColon(rule.object.parts)
    \/ rule.object.type = "literal" /\ rule.object.form = "plain" /\ HasBreak(rule.object.parts)

\* What R2RML's templates and constants do not say, or say of a label that is
\* no term or of a column of IRIs.
LostInR2rml(rule) ==
    LET term == rule.object
    IN  \/ term.type = "literal" /\ ~term.infers /\ HasSlot(term.parts)
        \/ /\ term.type = "literal" /\ term.infers /\ ~(IsSlot(Head(term.parts)) /\ IsSlot(Last(term.parts)))
           /\ term.language # None \/ term.datatype # None
        \/ term.type = "iri" /\ term.form = "plain" /\ (~HasSlot(term.parts) \/ IsSlot(Head(term.parts)))

Meanings(rules) == {Meaning(rule) : rule \in rules}

(* A converted mapping makes the terms the original makes, in the same graphs  *)
(* (Mapping::to_native_obda, to_r2rml, and reading them again).                *)
ConversionKeepsTriples ==
    \A p \in Process :
        LET text == processes[p].text
            written == processes[p].pending[1].text
        IN  /\ Converted(p) /\ processes[p].command.name = "to-obda"
               => \/ \E rule \in R2rmlRules(text) : RefusedInNative(rule) \/ LostInNative(rule)
                  \/ ~NativeFails(written) /\ Meanings(NativeRules(written)) = Meanings(R2rmlRules(text))
            /\ Converted(p) /\ processes[p].command.name = "to-r2rml"
               => \/ \E rule \in NativeRules(text) : LostInR2rml(rule)
                  \/ ~R2rmlFails(written) /\ Meanings(R2rmlRules(written)) = Meanings(NativeRules(text))

\* R2RML: the term of a term map; constants have no slots.
StandardTerm(map, position, base) ==
    LET type == IF map.kind = "constant literal" THEN "literal"
                ELSE IF map.kind = "column" /\ position = "object" THEN TypeOfMap(map, "literal")
                ELSE TypeOfMap(map, "iri")
    IN  [type |-> type, parts |-> map.parts,
         encoded |-> map.kind = "template" /\ type = "iri" /\ HasSlot(map.parts),
         base |-> IF type = "iri" /\ ~HasColon(map.parts) THEN base ELSE None,
         datatype |-> map.datatype, language |-> map.language,
         infers |-> type = "literal" /\ map.kind # "constant literal"]
StandardGraphs(triplesMap, graphs) == OrDefault(ToSet(triplesMap.graphs) \cup graphs)
StandardObject(map, base) ==
    IF map.kind = "parent" THEN StandardTerm([map.parent.subject EXCEPT !.parts = OfParent(@)], "subject", map.parent.base)
    ELSE StandardTerm(map, "object", base)
StandardMeanings(triplesMap) ==
    LET subject == StandardTerm(triplesMap.subject, "subject", triplesMap.base)
        term(map) == StandardObject(map, triplesMap.base)
        objects == {<<object.predicate, term(object.map), ToSet(object.graphs), SourceOfMap(object.map, triplesMap.source)>> :
                        object \in ToSet(triplesMap.objects)}
        classes == {<<RdfType, term(TermMap("constant IRI", class, None)), {}, triplesMap.source>> : class \in triplesMap.classes}
    IN  UNION {{<<subject, said[1], said[2], graph, said[4]>> : graph \in StandardGraphs(triplesMap, said[3])} :
                said \in objects \cup classes}

\* What is not read as R2RML has it: more than one graph of a subject, a template
\* with a datatype or a language, a template of a literal or a blank node that
\* begins with its only column, one of a blank node without a column, a constant
\* that looks like a template, a column with braces in its name, a parent's column
\* of IRIs.
NotStandard(triplesMap) ==
    \/ Len(triplesMap.graphs) > 1
    \/ \E map \in {object.map : object \in ToSet(triplesMap.objects)} :
        \/ map.kind = "template" /\ (map.datatype # None \/ map.language # None)
        \/ map.kind = "template" /\ TypeOfMap(map, "iri") # "iri" /\ IsSlot(Head(map.parts)) /\ Len(Slots(map.parts)) = 1
        \/ map.kind = "template" /\ TypeOfMap(map, "iri") = "blank" /\ ~HasSlot(map.parts)
        \/ map.kind = "constant literal" /\ HasSlot(map.parts)
        \/ map.kind = "column" /\ (Len(map.parts) # 1 \/ Slots(map.parts) # map.parts)
        \/ map.kind = "parent" /\ map.parent.subject.kind = "column" /\ TypeOfMap(map.parent.subject, "iri") = "iri"

(* The rules read from R2RML make the terms, in the graphs, that its triples   *)
(* maps stand for (Mapping::parse_r2rml).                                      *)
RulesAsWritten ==
    \A p \in Process :
        At(p, "facts") /\ IsR2rml(processes[p].configuration.mapping)
        => LET maps == {line \in ToSet(processes[p].text) : Is(line, "triples map")}
           IN  (\E map \in maps : NotStandard(map)) \/ Meanings(processes[p].rules) = UNION {StandardMeanings(map) : map \in maps}

-----------------------------------------------------------------------------
(* What is written.                                                          *)

Settings(text) == {line.key : line \in {l \in ToSet(text) : Is(l, "setting")}}
Properties_(text) == {line.key : line \in {l \in ToSet(text) : Is(l, "property")}}
Held(key) ==
    \/ \E path \in DOMAIN files : key \in Settings(files[path]) \/ SettingNames[key] \in Properties_(files[path])
    \/ \E p \in Process : \E i \in DOMAIN processes[p].pending :
        processes[p].at \in {"open", "write"} /\ SettingNames[key] \in Properties_(processes[p].pending[i].text)

InPlace(command) == command.name = "v1-to-v3" /\ command.input = command.output
Fails(p) == ~At(p, "exited") /\ processes'[p].at = "exited" /\ processes'[p].exit # 0

(* The connection settings of a version 1 mapping are not lost: they are in    *)
(* some file, or about to be written, until a conversion in place fails        *)
(* between its two documents (migrate_v1_mapping).                             *)
SettingsKept ==
    [][\/ \A key \in DOMAIN SettingNames : Held(key) => Held(key)'
       \/ \E p \in Process : InPlace(processes[p].command) /\ Fails(p)]_vars

\* A document is in its file, unless the file was written again: by somebody else
\* since the command began, or by the command itself.
WroteTwice(state) ==
    \E i, j \in DOMAIN state.wrote : i # j /\ state.wrote[i].path = state.wrote[j].path
Stands(document, state, touched) ==
    document.path \in touched \/ WroteTwice(state) \/ FileAt(document.path) = document.text

(* A command that ends with 0 leaves every document it was asked for whole; a  *)
(* command that fails before it writes has changed no file (std::fs::write as  *)
(* the last step of every command).                                            *)
OutputsAreWhole ==
    \A p \in Process :
        /\ Exited(p, 0) => \A i \in DOMAIN processes[p].wrote : Stands(processes[p].wrote[i], processes[p], disturbed[p])
        /\ Exited(p, 2) /\ processes[p].failed \notin {"open", "write"} => processes[p].wrote = <<>>

\* The databases there were while a command ran, or has run so far.
Moments(state, history, now) == {history[v] : v \in state.since..(IF state.at = "exited" THEN state.until ELSE now)}
Versions(p) == Moments(processes[p], databases, version)
CatalogOf(database) == [i \in DOMAIN database.relations |-> [database.relations[i] EXCEPT !.rows = {}]]

\* A name in a target that nothing encloses.
IsUnreadable(relation) ==
    \/ \E column \in ToSet(relation.columns) : ToSet(column) \cap Breaks # {}
    \/ relation.key = <<>> /\ relation.name \in Breaks

(* What bootstrap has written describes the database: the mapping can be read, *)
(* and if the database did not change meanwhile, mapping and ontology are      *)
(* those of its catalog. A catalog without tables makes a mapping that cannot  *)
(* be read, and so does a name with a blank (bootstrap, bootstrap_documents,   *)
(* database_metadata).                                                         *)
BootstrapDescribes ==
    \A p \in Process :
        Exited(p, 0) /\ processes[p].command.name = "bootstrap"
        => LET mapping == processes[p].wrote[1].text
               ontology == processes[p].wrote[2].text
               relations == ToSet(processes[p].relations)
           IN  /\ NativeFails(mapping)
                  => (\A relation \in relations : relation.columns = <<>>) \/ \E relation \in relations : IsUnreadable(relation)
               /\ \A database \in Versions(p) : Cardinality(Versions(p)) = 1
                    => mapping = BootstrapMapping(CatalogOf(database)) /\ ontology = BootstrapOntology(CatalogOf(database))
               /\ {line.table : line \in {l \in ToSet(ontology) : Is(l, "class")}}
                    = {line.id : line \in {l \in ToSet(mapping) : Is(l, "mappingId")}}

-----------------------------------------------------------------------------
(* What is read.                                                             *)

(* What validate accepts can be loaded: after it ended with 0 and no file      *)
(* changed, no command of the same configuration fails over it, the mapping,   *)
(* the facts or the ontology. With direct_mapping nothing is loaded (main).    *)
LoadsWhatWasValidated(state) ==
    /\ state.at = "exited" /\ state.exit = 2 /\ state.failed \in {"configuration", "mapping", "facts", "ontology"}
    /\ state.before.command.name = "validate" /\ state.before.command.config = state.command.config
    /\ state.before.changesBefore = state.changesUntil
    => state.before.exit # 0
ValidatedLoads == \A p \in Process : LoadsWhatWasValidated(processes[p])

RowsOf(database, rule) == RowsIn(database, Head(rule.source.tables))
\* The rows a rule had at some moment, and those it had all the while.
SomeRows(moments, rule) == UNION {RowsOf(database, rule) : database \in moments}
StableRows(moments, rule) == {row \in SomeRows(moments, rule) : \A database \in moments : row \in RowsOf(database, rule)}

\* The rules a command asks: those of the named graphs are for materialize.
AskedRules(state) == {rule \in state.rules : state.command.name = "materialize" \/ rule.graph = <<>>}

\* Of some rules, what was there all the while, and nothing that never was.
FoundOf(state, rules, moments) ==
    /\ \A rule \in rules : TriplesOf(rule, StableRows(moments, rule)) \subseteq state.found
    /\ state.found \subseteq Stated(state.command, state.facts) \cup UNION {TriplesOf(rule, SomeRows(moments, rule)) : rule \in AskedRules(state)}
    /\ Stated(state.command, state.facts) \subseteq state.found

(* What materialize and query find was in the database while they ran, and what *)
(* was there all the while is found, in the default graph and in the named      *)
(* graphs, although every rule has a statement of its own (materialize).        *)
FindsWhatIsThere ==
    \A p \in Process :
        Exited(p, 0) /\ processes[p].command.name \in {"query", "materialize"}
        => FoundOf(processes[p], AskedRules(processes[p]), Versions(p))

-----------------------------------------------------------------------------
(* Why these hold: the inductive invariant.                                  *)

\* Who is at which step.
StepOfCommand(state) ==
    /\ state.at = "shell" => state.command.name = None
    /\ state.at = "input" => state.command.name \in MappingCommands
    /\ state.at \in {"mapping", "facts", "ontology"} => state.command.name \in Loading /\ ~state.configuration.direct
    /\ state.at \in {"default graph", "named graphs"} => state.command.name \in {"query", "materialize"}
    /\ state.at = "named graphs" => state.command.name = "materialize"
    /\ state.at \in {"tables", "columns", "keys"} => state.command.name \notin Loading
    /\ state.at \in {"open", "write"} => state.command.name # "validate"

\* Commands have begun, and ended, at moments that have been.
MomentsPast(state, now, changed) ==
    /\ state.since \in 1..now
    /\ state.at = "exited" => state.until \in state.since..now
    /\ state.changesBefore \in 0..changed
    /\ state.changesUntil \in 0..changed
    /\ state.before.changesBefore \in 0..state.changesBefore

\* A process that asks, or has asked, has found what the rules asked so far have.
FoundSoFar(state, moments) ==
    /\ state.command.name \in {"query", "materialize"}
    /\ state.at \in {"default graph", "named graphs", "open", "write"} \/ (state.at = "exited" /\ state.exit = 0)
    => /\ state.remaining \subseteq state.rules
       /\ FoundOf(state, state.rules \ state.remaining, moments)
       /\ state.at = "default graph" => \A rule \in state.rules \ state.remaining : rule.graph = <<>>
       /\ state.at # "default graph" => AskedRules(state) \cap state.remaining \subseteq {rule \in state.rules : rule.graph # <<>>}
       /\ state.at \notin {"default graph", "named graphs"} => AskedRules(state) \cap state.remaining = {}

\* The files say that what a configuration names can be loaded.
Accepted(config) ==
    LET c == FileAt(config)[1]
    IN  /\ ~ConfigurationFails(FileAt(config))
        /\ c.direct \/ (~MappingFails(c.mapping) /\ ~FactsFail(c) /\ ~OntologyFails(c.ontology, FactsOf(c)))

\* What a command has loaded is in the files, as long as none has changed.
LoadedFromFiles(state) ==
    /\ state.at \in {"connect", "mapping", "facts", "ontology"}
       => ~ConfigurationFails(FileAt(state.command.config)) /\ state.configuration = FileAt(state.command.config)[1]
    /\ state.at \in {"facts", "ontology"} => ~MappingFails(state.configuration.mapping)
    /\ state.at = "ontology" => ~FactsFail(state.configuration) /\ state.facts = FactsOf(state.configuration)
    /\ state.at = "exited" /\ state.exit = 0 /\ state.command.name = "validate" => Accepted(state.command.config)
Validated(state) == state.before.command.name = "validate" /\ state.before.exit = 0

Run(state) ==
    /\ StateOK(state)
    /\ StepOfCommand(state)
    /\ MomentsPast(state, version, changes)
    /\ FoundSoFar(state, Moments(state, databases, version))
    /\ state.changesBefore = changes => LoadedFromFiles(state)
    /\ Validated(state) /\ state.before.changesBefore = changes => Accepted(state.before.command.config)
    /\ LoadsWhatWasValidated(state)

\* The rules a process has read are those of a document in R2RML.
HasRead(state) ==
    state.at = "facts" /\ IsR2rml(state.configuration.mapping)
    => IsText(state.text) /\ ~R2rmlFails(state.text) /\ state.rules = R2rmlRules(state.text)

\* What a mapping command is about to write is made of the text it has read.
HasConverted(state) ==
    /\ state.at \notin {"shell", "input", "open", "write", "exited"} => state.command.name \notin MappingCommands
    /\ state.command.name \in MappingCommands /\ state.at = "open" /\ state.wrote = <<>>
       => IsText(state.text) /\ state.pending = Documents(state.command, state.text)

\* The relations read so far are the first of a catalog, the tables the others.
CatalogSoFar(state, catalog) ==
    LET read == Len(state.relations) - (IF state.at = "keys" THEN 1 ELSE 0)
    IN  /\ \A i \in 1..read : state.relations[i] = catalog[i]
        /\ state.at = "keys" => state.relations[read + 1] = [catalog[read + 1] EXCEPT !.key = <<>>]
        /\ IF state.at \in {"columns", "keys"}
           THEN /\ read + Len(state.tables) = Len(catalog)
                /\ \A i \in 1..Len(state.tables) : state.tables[i] = catalog[read + i].name
           ELSE read = Len(catalog)

IsEntry(relation) ==
    /\ relation = Relation(relation.name, relation.columns, relation.key, {})
    /\ \A column \in ToSet(relation.columns) : IsIdentifier(column)

\* bootstrap has read a catalog and writes its two documents. If the database was
\* the same all the while, the catalog is that of the database.
HasDescribed(state, moments) ==
    LET documents == BootstrapDocuments(state.command, state.relations)
        complete == state.at = "exited" /\ state.exit = 0
    IN  state.command.name = "bootstrap"
        => /\ \A relation \in ToSet(state.relations) : IsEntry(relation)
           /\ state.at \in {"configuration", "connect", "tables"} => state.relations = <<>>
           /\ state.at \in {"columns", "keys"} => state.tables \in Seq(ToSet(state.tables))
           /\ state.at = "keys" => state.tables # <<>> /\ state.relations # <<>>
           /\ state.at \in {"columns", "keys", "open", "write"} \/ complete
              => \A database \in moments : moments = {database} => CatalogSoFar(state, CatalogOf(database))
           /\ state.at = "open" => state.wrote \o state.pending = documents
           /\ state.at = "write" => state.wrote \o Tail(state.pending) = documents
           /\ complete => state.wrote = documents

\* What a process holds is finite, and can be written.
AreDocuments(documents) ==
    documents \in Seq(ToSet(documents)) /\ \A document \in ToSet(documents) : IsText(document.text)
Holds(state) ==
    /\ IsFiniteSet(state.rules)
    /\ IsFiniteSet(state.facts) /\ IsFiniteSet(state.found)
    /\ IsCatalog(state.relations)
    /\ AreDocuments(state.pending) /\ AreDocuments(state.wrote)

\* A command has written the beginning of its last document, and all the others.
Begun(document, state, touched) ==
    \/ document.path \in touched \/ WroteTwice(state)
    \/ LET text == FileAt(document.path)
       IN  Len(text) <= Len(document.text) /\ text = SubSeq(document.text, 1, Len(text))
SavedSoFar(state, touched) ==
    /\ state.at \notin {"open", "write", "exited"} => state.wrote = <<>>
    /\ state.at = "exited" /\ state.exit = 2 /\ state.failed \notin {"open", "write"} => state.wrote = <<>>
    /\ state.at = "open" \/ (state.at = "exited" /\ state.exit = 0)
       => \A i \in DOMAIN state.wrote : Stands(state.wrote[i], state, touched)
    /\ state.at = "write"
       => /\ state.wrote # <<>> /\ state.wrote[Len(state.wrote)] = Head(state.pending)
          /\ \A i \in 1..Len(state.wrote) - 1 : Stands(state.wrote[i], state, touched)
          /\ Head(state.pending).path \in DOMAIN files /\ Begun(Head(state.pending), state, touched)

(* Every step belongs to the command that is run, what is found so far is what *)
(* the rules asked so far have, what was loaded is in unchanged files, what    *)
(* was written so far is in the files nobody else has written to, and rules    *)
(* and documents are those of the text or the catalog that was read.           *)
IInv ==
    /\ TypeOK
    /\ \A p \in Process : Run(processes[p])
    /\ \A path \in DOMAIN files : IsText(files[path])
    /\ \A v \in DOMAIN databases : DatabaseOK(databases[v])
    /\ \A p \in Process : Holds(processes[p]) /\ SavedSoFar(processes[p], disturbed[p])
    /\ \A p \in Process : HasRead(processes[p])
    /\ \A p \in Process : HasConverted(processes[p]) /\ HasDescribed(processes[p], Versions(p))
=============================================================================
