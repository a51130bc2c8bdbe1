----------------------------- MODULE CommandLine -----------------------------
(***************************************************************************)
(* The commands of rtop (src/src/main.rs, src/src/config.rs) as processes  *)
(* that share files and a database: each reads what it needs, asks the     *)
(* database, writes its documents line by line and exits with 0 or 2.      *)
(*                                                                         *)
(* No step is protected from another process, and none from a crash, a     *)
(* full disk or a database that changes between two statements. Commands   *)
(* of a configuration with direct_mapping go no further here than reading  *)
(* it; DirectMapping goes on from there.                                   *)
(***************************************************************************)
EXTENDS MappingText

CONSTANT
    Worlds,         \* where the system may start: files, commands of each process, databases, troubles
    Missing,        \* what a path holds that is no file
    NoPath          \* an option of the configuration that is not given

Relation(name, columns, key, rows) == [t |-> "relation", name |-> name, columns |-> columns, key |-> key, rows |-> rows]

\* A quoted identifier is no syntax of SQL.
IsIdentifier(name) == name # <<>> /\ ToSet(name) \cap {" AS ", "max(", ")"} = {} /\ name \in Seq(ToSet(name))

\* Tables have names of their own, a list of columns and finitely many rows.
DatabaseOK(database) ==
    LET relations == database.relations
    IN  /\ relations \in Seq(ToSet(relations))
        /\ \A i, j \in DOMAIN relations : relations[i].name = relations[j].name => i = j
        /\ \A relation \in ToSet(relations) :
            /\ relation = Relation(relation.name, relation.columns, relation.key, relation.rows)
            /\ relation.columns \in Seq(ToSet(relation.columns)) /\ \A column \in ToSet(relation.columns) : IsIdentifier(column)
            /\ IsFiniteSet(relation.rows)

(* There is a database, the files are finite, and troubles are of these kinds. *)
ASSUME WorldAssumption ==
    \A world \in Worlds :
        /\ world.databases \in Seq(ToSet(world.databases)) \ {<<>>}
        /\ \A database \in ToSet(world.databases) : DatabaseOK(database)
        /\ \A path \in DOMAIN world.files : IsText(world.files[path])
        /\ world.troubles \subseteq {"crash", "disk", "network"}

VARIABLES
    files,          \* the texts of the files, by path
    databases,      \* what the database is and will be
    version,        \* which of them it is
    troubles,       \* the faults still to come
    processes,      \* what each process is doing
    changes,        \* how many times a file was changed
    disturbed       \* the files others have changed since a process began its command
vars == <<files, databases, version, troubles, processes, changes, disturbed>>

Process == DOMAIN processes
Database == databases[version]
FileAt(path) == IF path \in DOMAIN files THEN files[path] ELSE Missing

\* A path is <<stem, extension>>. Path::with_extension
PropertiesOf(path) == <<path[1], "properties">>

Malformed == [t |-> "malformed"]
\* A triple in a facts file, in a graph if there are N-Quads, or in an ontology.
Fact(graph, subject, predicate, object) ==
    [t |-> "fact", graph |-> graph, subject |-> subject, predicate |-> predicate, object |-> object]
DisjointWith == <<"owl:disjointWith">>
OfClass(subject, class) == Fact(<<>>, subject, RdfType, class)
Disjoint(one, other) == Fact(<<>>, one, DisjointWith, other)

-----------------------------------------------------------------------------
(* load_configuration: a text of one line, with what the options say.        *)

Formats == {"turtle", "ttl", "nquads", "nq", "rdf", "xml", "rdfxml"}

ConfigurationFails(text) ==
    \/ text = Missing
    \/ LET c == text[1]
       IN  \/ c.jdbc
           \/ c.kind # "postgres"
           \/ Cardinality(c.passwords) # 1
           \/ c.passwordFile # NoPath /\ FileAt(c.passwordFile) = Missing
           \/ Cardinality(c.predefined) = 1
           \/ (c.mapping # NoPath) = c.direct
           \/ c.direct /\ (c.relations = <<>> \/ ~c.validBase)
           \/ c.format \notin Formats \cup {None}

-----------------------------------------------------------------------------
(* What a process is doing.                                                  *)

Nothing == [mapping |-> NoPath, facts |-> NoPath, ontology |-> NoPath, format |-> None]

\* What a process has run before: nothing yet.
NoCommand == [command |-> [name |-> None], exit |-> 0, changesBefore |-> 0]

Shell(todo) ==
    [todo |-> todo, at |-> "shell", command |-> [name |-> None], before |-> NoCommand,
     configuration |-> Nothing, text |-> <<>>, rules |-> {}, remaining |-> {}, facts |-> {}, found |-> {},
     tables |-> <<>>, relations |-> <<>>, pending |-> <<>>, wrote |-> <<>>, exit |-> 0, failed |-> None,
     since |-> 1, until |-> 1, changesBefore |-> 0, changesUntil |-> 0]

Init ==
    \E world \in Worlds :
        /\ files = world.files
        /\ databases = world.databases
        /\ version = 1
        /\ troubles = world.troubles
        /\ processes = [p \in DOMAIN world.todo |-> Shell(world.todo[p])]
        /\ changes = 0
        /\ disturbed = [p \in DOMAIN world.todo |-> {}]

Becomes(p, state) == processes' = [processes EXCEPT ![p] = state]
Ended(state, code) == [state EXCEPT !.at = "exited", !.exit = code, !.until = version, !.changesUntil = changes]
\* An error is printed, and the exit code is 2.
Failing(state) == [Ended(state, 2) EXCEPT !.failed = state.at]

Untouched == UNCHANGED <<files, databases, version, troubles, changes, disturbed>>
At(p, step) == processes[p].at = step

MappingCommands == {"pretty-r2rml", "v1-to-v3", "to-obda", "to-r2rml"}
Loading == {"validate", "query", "materialize"}

Start(p) ==
    /\ processes[p].at \in {"shell", "exited"}
    /\ processes[p].todo # <<>>
    /\ LET command == Head(processes[p].todo)
       IN  Becomes(p, [Shell(Tail(processes[p].todo)) EXCEPT
                        !.command = command,
                        !.before = [command |-> processes[p].command, exit |-> processes[p].exit, changesBefore |-> processes[p].changesBefore],
                        !.since = version, !.changesBefore = changes,
                        !.at = IF command.name \in MappingCommands THEN "input" ELSE "configuration"])
    /\ disturbed' = [disturbed EXCEPT ![p] = {}]
    /\ UNCHANGED <<files, databases, version, troubles, changes>>

-----------------------------------------------------------------------------
(* The mapping commands: what is to be written of an input.                  *)

\* migrate_v1_mapping: a mapping in R2RML is converted as a native document.
InR2rml(command, migrated) ==
    IF migrated[1] \/ NativeFails(migrated[2]) THEN <<>>
    ELSE <<[path |-> command.output, text |-> R2rmlText(NativeRules(migrated[2]))]>>
InNative(command, migrated) ==
    IF migrated[1] THEN <<>>
    ELSE <<[path |-> command.output, text |-> migrated[2]]>>
         \o IF migrated[3] = <<>> THEN <<>>
            ELSE <<[path |-> PropertiesOf(command.output), text |-> migrated[3]]>>

MigratedDocuments(command, text) ==
    IF command.input[2] # "ttl" THEN InNative(command, Migrated(text, command.simplify))
    ELSE IF R2rmlFails(text) THEN <<>>
    ELSE InR2rml(command, Migrated(NativeText(R2rmlRules(text)), command.simplify))

\* The documents of a command, none if it fails.
Documents(command, text) ==
    CASE command.name = "v1-to-v3" -> MigratedDocuments(command, text)
      [] command.name = "pretty-r2rml" ->
            IF Some(text, "malformed") THEN <<>> ELSE <<[path |-> command.output, text |-> text]>>
      [] command.name = "to-obda" ->
            IF R2rmlFails(text) THEN <<>> ELSE <<[path |-> command.output, text |-> NativeText(R2rmlRules(text))]>>
      [] command.name = "to-r2rml" ->
            IF RepeatsId(text) \/ NativeFails(text) THEN <<>>
            ELSE <<[path |-> command.output, text |-> R2rmlText(NativeRules(text))]>>

Writing(state, text, documents) ==
    IF documents = <<>> THEN Failing(state) ELSE [state EXCEPT !.at = "open", !.text = text, !.pending = documents]

\* prettify_r2rml, migrate_v1_mapping, r2rml_to_obda, obda_to_r2rml
ReadInput(p) ==
    LET state == processes[p]
        text == FileAt(state.command.input)
    IN  /\ At(p, "input")
        /\ Becomes(p, IF text = Missing THEN Failing(state)
                      ELSE Writing(state, text, Documents(state.command, text)))
        /\ Untouched

-----------------------------------------------------------------------------
(* The other commands: the configuration, the connection, what is loaded.    *)

Configure(p) ==
    LET state == processes[p]
        text == FileAt(state.command.config)
        next == IF state.command.name = "validate" THEN "mapping" ELSE "connect"
    IN  /\ At(p, "configuration")
        /\ Becomes(p, IF ConfigurationFails(text) THEN Failing(state)
                      ELSE IF state.command.name = "validate" /\ text[1].direct
                      THEN Ended([state EXCEPT !.configuration = text[1]], 0)
                      ELSE [state EXCEPT !.at = next, !.configuration = text[1]])
        /\ Untouched

\* PostgresDataSource::connect
Connect(p) ==
    /\ At(p, "connect")
    /\ LET state == processes[p]
           next == IF state.command.name \in Loading
                   THEN IF state.configuration.direct THEN "direct mapping" ELSE "mapping"
                   ELSE "tables"
       IN  \/ /\ Becomes(p, [state EXCEPT !.at = next])
              /\ Untouched
           \/ /\ "network" \in troubles
              /\ troubles' = troubles \ {"network"}
              /\ Becomes(p, Failing(state))
              /\ UNCHANGED <<files, databases, version, changes, disturbed>>

\* Mapping::parse_file
IsR2rml(path) == path[2] \in {"ttl", "turtle"}
MappingFails(path) ==
    \/ FileAt(path) = Missing
    \/ IsR2rml(path) /\ R2rmlFails(FileAt(path))
    \/ ~IsR2rml(path) /\ NativeFails(FileAt(path))

LoadMapping(p) ==
    LET state == processes[p]
        path == state.configuration.mapping
        text == FileAt(path)
    IN  /\ At(p, "mapping")
        /\ Becomes(p, IF MappingFails(path) THEN Failing(state)
                      ELSE [state EXCEPT !.at = "facts", !.text = text,
                                         !.rules = IF IsR2rml(path) THEN R2rmlRules(text) ELSE NativeRules(text)])
        /\ Untouched

\* load_facts: the format is the option's, or else the extension's. Only N-Quads
\* have graphs.
FactsFail(c) ==
    LET format == IF c.format # None THEN c.format ELSE c.facts[2]
        text == FileAt(c.facts)
    IN  /\ c.facts # NoPath
        /\ \/ text = Missing \/ format \notin Formats \/ Some(text, "malformed")
           \/ format \notin {"nquads", "nq"} /\ \E line \in ToSet(text) : Is(line, "fact") /\ line.graph # <<>>
FactsOf(c) == IF c.facts = NoPath THEN {} ELSE ToSet(FileAt(c.facts))

LoadFacts(p) ==
    LET state == processes[p]
    IN  /\ At(p, "facts")
        /\ Becomes(p, IF FactsFail(state.configuration) THEN Failing(state)
                      ELSE [state EXCEPT !.at = "ontology", !.facts = FactsOf(state.configuration)])
        /\ Untouched

Triple(graph, predicate, row) == [t |-> "triple", graph |-> graph, predicate |-> predicate, row |-> row]

\* What a line states; those of an ontology are facts too, whatever they state.
Statement(line) ==
    IF Is(line, "fact") THEN Triple(line.graph, line.predicate, [line EXCEPT !.graph = <<>>]) ELSE Triple(<<>>, RdfType, line)

\* The facts a command answers: those of the default graph, and for materialize
\* those of the named graphs.
Stated(command, facts) ==
    {Statement(fact) : fact \in {line \in facts : command.name = "materialize" \/ Statement(line).graph = <<>>}}

OntologyFacts(path) == IF path = NoPath THEN {} ELSE ToSet(FileAt(path))

\* Ontology::validate_facts
Inconsistent(ontology, facts) ==
    \E axiom \in ToSet(ontology), one, other \in facts \cup ToSet(ontology) :
        /\ Is(axiom, "fact") /\ Is(one, "fact") /\ Is(other, "fact")
        /\ axiom.predicate = DisjointWith /\ one.predicate = RdfType /\ other.predicate = RdfType
        /\ one.subject = other.subject /\ one.object = axiom.subject /\ other.object = axiom.object

OntologyFails(path, facts) ==
    path # NoPath /\ (FileAt(path) = Missing \/ Some(FileAt(path), "malformed") \/ Inconsistent(FileAt(path), facts))

\* The facts of the runtime are those of the facts file and of the ontology.
Loaded(state) ==
    LET facts == state.facts \cup OntologyFacts(state.configuration.ontology)
    IN  IF state.command.name = "validate" THEN Ended(state, 0)
        ELSE [state EXCEPT !.at = "default graph", !.facts = facts, !.remaining = state.rules,
                           !.found = Stated(state.command, facts)]

\* Fault: validate is content with the mapping and the facts.
LoadOntologyUnlessValidating(p) ==
    LET state == processes[p]
    IN  /\ At(p, "ontology")
        /\ Becomes(p, IF state.command.name # "validate" /\ OntologyFails(state.configuration.ontology, state.facts) THEN Failing(state) ELSE Loaded(state))
        /\ Untouched

\* load_ontology, and the end of from_mapping.
LoadOntology(p) ==
    LET state == processes[p]
    IN  /\ At(p, "ontology")
        /\ Becomes(p, IF OntologyFails(state.configuration.ontology, state.facts) THEN Failing(state) ELSE Loaded(state))
        /\ Untouched

-----------------------------------------------------------------------------
(* materialize and query: the default graph, then the named graphs, a        *)
(* statement for each rule, in any order.                                    *)

RowsIn(database, table) == UNION {relation.rows : relation \in {r \in ToSet(database.relations) : <<r.name>> = table}}
Known(table) == \E relation \in ToSet(Database.relations) : <<relation.name>> = table

\* The rules of a graph that are still to be asked.
Remaining(state) == {rule \in state.remaining : (rule.graph = <<>>) = (state.at = "default graph")}

TriplesOf(rule, rows) == {Triple(rule.graph, rule.predicate, row) : row \in rows}

Asking(p, Found(_, _)) ==
    LET state == processes[p]
    IN  /\ state.at \in {"default graph", "named graphs"}
        /\ \E rule \in Remaining(state) :
            LET table == Head(rule.source.tables)
            IN  Becomes(p, IF ~Known(table) THEN Failing(state)
                           ELSE [state EXCEPT !.found = Found(state, TriplesOf(rule, RowsIn(Database, table))),
                                              !.remaining = @ \ {rule}])
        /\ Untouched

\* Fault: what the named graphs hold takes the place of the default graph.
AskReplacing(p) == Asking(p, LAMBDA state, triples : IF state.at = "named graphs" THEN triples ELSE state.found \cup triples)

Ask(p) == Asking(p, LAMBDA state, triples : state.found \cup triples)

\* Turtle has no graphs.
Written(command, triples) ==
    SetToSeq(IF command.format \in {"turtle", "ttl"} THEN {[triple EXCEPT !.graph = <<>>] : triple \in triples} ELSE triples)

\* Nothing that was given can hold a triple of the default graph.
IsUnmatched(state) ==
    /\ state.configuration.facts = NoPath /\ state.facts = {}
    /\ \A rule \in state.rules : rule.graph # <<>>

\* query asks for all triples of the default graph, and fails if there is nothing
\* to ask (NotFullyTranslatable); materialize goes on to the named graphs all the
\* same, and only then looks at the format.
Asked(p) ==
    LET state == processes[p]
        command == state.command
    IN  /\ state.at \in {"default graph", "named graphs"}
        /\ Remaining(state) = {}
        /\ Becomes(p, CASE command.name = "query" -> IF IsUnmatched(state) THEN Failing(state) ELSE Ended(state, 0)
                        [] command.name # "query" /\ At(p, "default graph") -> [state EXCEPT !.at = "named graphs"]
                        [] OTHER ->
                            IF command.format \notin {"turtle", "ttl", "nquads", "nq"} THEN Failing(state)
                            ELSE IF command.output = NoPath THEN Ended(state, 0)
                            ELSE [state EXCEPT !.at = "open",
                                               !.pending = <<[path |-> command.output, text |-> Written(command, state.found)]>>])
        /\ Untouched

-----------------------------------------------------------------------------
(* bootstrap and extract-db-metadata: the tables, then each table's columns  *)
(* and its keys, each with a statement of its own.                           *)

Tables(p) ==
    /\ At(p, "tables")
    /\ Becomes(p, [processes[p] EXCEPT !.at = "columns", !.tables = [i \in DOMAIN Database.relations |-> Database.relations[i].name]])
    /\ Untouched

Found(name) == {relation \in ToSet(Database.relations) : relation.name = name}

Columns(p) ==
    LET state == processes[p]
        name == Head(state.tables)
        columns == IF Found(name) = {} THEN <<>> ELSE (CHOOSE relation \in Found(name) : TRUE).columns
    IN  /\ At(p, "columns") /\ state.tables # <<>>
        /\ Becomes(p, [state EXCEPT !.at = "keys", !.relations = Append(@, Relation(name, columns, <<>>, {}))])
        /\ Untouched

Keys(p) ==
    LET state == processes[p]
        name == Head(state.tables)
        key == IF Found(name) = {} THEN <<>> ELSE (CHOOSE relation \in Found(name) : TRUE).key
    IN  /\ At(p, "keys")
        /\ Becomes(p, [state EXCEPT !.at = "columns", !.tables = Tail(@), !.relations[Len(state.relations)].key = key])
        /\ Untouched

BootstrapDocuments(command, relations) ==
    <<[path |-> command.output, text |-> BootstrapMapping(relations)],
      [path |-> command.ontology, text |-> BootstrapOntology(relations)]>>

\* bootstrap and extract_db_metadata, once the catalog is read. The latter prints
\* it without a path.
Catalog(p) ==
    LET state == processes[p]
        command == state.command
        documents == IF command.name = "bootstrap" THEN BootstrapDocuments(command, state.relations)
                     ELSE <<[path |-> command.output, text |-> state.relations]>>
    IN  /\ At(p, "columns") /\ state.tables = <<>>
        /\ Becomes(p, IF command.name # "bootstrap" /\ command.output = NoPath THEN Ended(state, 0)
                      ELSE [state EXCEPT !.at = "open", !.pending = documents])
        /\ Untouched

-----------------------------------------------------------------------------
(* std::fs::write: the file is emptied, then written.                        *)

Changed(p, state, text) ==
    LET path == Head(processes[p].pending).path
    IN  /\ files' = [other \in DOMAIN files \cup {path} |-> IF other = path THEN text ELSE files[other]]
        /\ changes' = changes + 1
        /\ disturbed' = [q \in Process |-> IF q = p THEN disturbed[p] ELSE disturbed[q] \cup {path}]
        /\ Becomes(p, state)
        /\ UNCHANGED <<databases, version, troubles>>

Opening(p, text) ==
    /\ At(p, "open")
    /\ Changed(p, [processes[p] EXCEPT !.at = "write", !.wrote = Append(@, Head(processes[p].pending))], text)

\* Fault: what was there is written over.
OpenWithoutTruncation(p) ==
    LET document == Head(processes[p].pending)
        old == FileAt(document.path)
    IN  Opening(p, IF old = Missing THEN <<>> ELSE SelectSeq(old, LAMBDA line : Is(line, "source")))

Open(p) == Opening(p, <<>>)

WriteLine(p) ==
    LET state == processes[p]
        document == Head(state.pending)
        text == FileAt(document.path)
    IN  /\ At(p, "write") /\ Len(text) < Len(document.text)
        /\ Changed(p, state, Append(text, document.text[Len(text) + 1]))

\* Fault: a command goes on to a document it does not have.
CloseForNext(p) ==
    /\ At(p, "write") /\ Len(FileAt(Head(processes[p].pending).path)) >= Len(Head(processes[p].pending).text)
    /\ Becomes(p, [processes[p] EXCEPT !.at = "open", !.pending = Tail(@)])
    /\ Untouched

Close(p) ==
    LET state == processes[p]
    IN  /\ At(p, "write") /\ Len(FileAt(Head(state.pending).path)) >= Len(Head(state.pending).text)
        /\ Becomes(p, IF Tail(state.pending) = <<>> THEN Ended(state, 0) ELSE [state EXCEPT !.at = "open", !.pending = Tail(@)])
        /\ Untouched

\* The disk is full: the file is left as it is.
DiskFull(p) ==
    /\ processes[p].at \in {"open", "write"}
    /\ "disk" \in troubles
    /\ troubles' = troubles \ {"disk"}
    /\ Becomes(p, Failing(processes[p]))
    /\ UNCHANGED <<files, databases, version, changes, disturbed>>

-----------------------------------------------------------------------------
Crash(p) ==
    /\ processes[p].at \notin {"shell", "exited"}
    /\ "crash" \in troubles
    /\ troubles' = troubles \ {"crash"}
    /\ Becomes(p, Ended(processes[p], 137))
    /\ UNCHANGED <<files, databases, version, changes, disturbed>>

\* Another client changes the database.
Alter ==
    /\ version < Len(databases)
    /\ version' = version + 1
    /\ UNCHANGED <<files, databases, troubles, processes, changes, disturbed>>

Next ==
    \/ \E p \in Process :
        \/ Start(p) \/ ReadInput(p)
        \/ Configure(p) \/ Connect(p) \/ LoadMapping(p) \/ LoadFacts(p) \/ LoadOntology(p)
        \/ Ask(p) \/ Asked(p)
        \/ Tables(p) \/ Columns(p) \/ Keys(p) \/ Catalog(p)
        \/ Open(p) \/ WriteLine(p) \/ Close(p)
        \/ DiskFull(p) \/ Crash(p)
    \/ Alter

Spec == Init /\ [][Next]_vars
=============================================================================
