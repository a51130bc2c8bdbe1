# rtop in TLA+

rtop answers SPARQL queries over a PostgreSQL database as if it were an RDF
graph: a mapping says which triples the rows of which SQL queries stand for, an
OWL 2 QL ontology says which further triples follow, a facts file adds static
ones, and an HTTP endpoint (or a command line) answers queries. This directory
holds TLA+ models of the parts of it whose correctness depends on order,
concurrency or long chains of steps, the TLC runs that check them and proofs,
checked by TLAPS, of what matters most. Paths below are relative to the
repository (`src/server.rs`); `PROJECT.json` gives the exact lines of every
definition, with the repository under the prefix `src/`.

## 1. The system

| Component | State it keeps | Operations | Interacts with |
|---|---|---|---|
| HTTP endpoint (`server.rs`) | `startup_error`; per connection a handler thread, and for `/sparql` a worker thread, a result channel, a cancel channel, the socket and its duplicate | accept, route, negotiate, run a query and watch the client, cancel, answer | configuration (read again by every request), runtime, PostgreSQL (one session per query, cancel requests on a separate connection), the client's socket |
| Configuration (`config.rs`) | none | `load_configuration`: parse, check, resolve paths | endpoint, command line |
| Ontology (`ontology.rs`) | hierarchies of classes and properties, domains, ranges, inverses, disjointness, ABox facts; during loading the set of visited documents | `load_closure` with `owl:imports`, `add_subclass`, `add_subproperty`, `is_descendant_of`, `inferred_types`, `properties_asserting_type`, `validate_facts` | runtime (type and property expansion), facts |
| Mapping (`mapping.rs`) | rules | parse native OBDA and R2RML, print them, build a Direct Mapping from the catalog, `reformulate` a pattern into SQL plans | runtime, PostgreSQL catalog |
| Runtime (`lib.rs`) | mapping, facts, ontology, data source, buffer cache of GeoSPARQL | `select` of one triple pattern, `select_bgp`, push-down of a BGP to SQL, join order, `evaluate_graph_pattern`, property path closures, expressions, aggregates, modifiers, query forms | all of the above |
| SPARQL parser (`sparql.rs`) | none | text to algebra | runtime |
| Facts and terms (`facts.rs`, `rdf.rs`, `model.rs`) | none | parse Turtle, N-Quads, RDF/XML | runtime, ontology |
| PostgreSQL adapter (`datasource.rs`) | one `postgres::Client` | connect, execute, cancel, decode values, read the catalog, geospatial calls | runtime, endpoint |
| Command line (`main.rs`) | none | query, materialize, validate, bootstrap, extract metadata, convert and migrate mappings | all of the above, files |

What is hard about it, and for each component what makes it correct:

* **Endpoint.** A thread per connection, a second one per query, two channels,
  a socket shared by two descriptors, a cancel request that races with the
  statements it is meant for, clients that leave at any moment, a configuration
  file that changes under the process. Correct: a request is answered once;
  every session taken is given back before its answer; a query is cancelled only
  for a client that has left; one request cannot hold up another.
* **Ontology.** Hierarchies are maintained eagerly, document by document, in
  whatever order axioms and imports come, and are not transitively closed.
  Correct: every question is answered as the declared axioms entail, each
  document counts once, cyclic imports end, a missing document fails the load.
* **Triple patterns.** Rewriting has a branch per shape of the pattern and per
  presence of mapping rules, uses internal variables, and runs one SQL statement
  per plan outside a transaction. Correct: answers are entailed, none of those
  the rewriting covers is missing, class membership is answered once.
* **Graph patterns.** Solutions are handed down into nested patterns, from which
  some variables must be hidden and joined again; the join order is picked from
  the data; a predicate without a rule is an error in one place and no triples
  in another; paths are closures. Correct: the answer is the bag of solutions
  SPARQL's algebra gives, and none of these choices is visible.
* **Expressions.** The parser has no grammar: it splits the text at the operator
  that binds least, again and again, over quotes, IRIs and parentheses. Values
  are terms or errors, and only some operators absorb an error. Correct: an
  expression has the value SPARQL gives its text; the fast path of FILTER
  cannot be told from the slow one.
* **Grouping and ordering.** Rows pass through seven steps, two of which sort.
  Correct: the answer is one that SPARQL allows.
* **Mappings.** The same rules are read from two languages, written in both, and
  migrated from an old version of one. Correct: reading and writing keep which
  triples a rule makes, in which graphs.
* **Direct Mapping.** Rules of separate statements must name the same row in the
  same way, over a catalog and rows that change between them. Correct: what is
  found is the direct graph of the W3C recommendation.
* **Command line.** Files are written one after the other, also over their own
  input; commands share files and database with each other. Correct: exit code 0
  means whole documents; what validate accepts can be loaded; nothing is lost.

`PROJECT.json` lists each hazard at its line with the properties that cover it,
or the reason why none does yet.

## 2. Modules

| Module | What it is |
|---|---|
| `Endpoint` | the endpoint: process, clients, handler and worker threads, channels, sessions, cancel requests |
| `EndpointProperties` | its properties, its inductive invariant, and the mapping to `RequestContract` |
| `RequestContract` | the abstract specification: what rtop's documentation promises of requests and their PostgreSQL work |
| `EndpointProofs` | theorems about `Endpoint`, checked by TLAPS |
| `Reachability` | the relation "can be reached along the edges", stated without recursion; a reference definition |
| `Ontology` | the loader, the hierarchies, the questions asked of them, validation |
| `OntologyProperties`, `OntologyProofs` | properties, inductive invariant; theorems about the hierarchies, about facts, consistency and types |
| `TriplePattern` | `select`: rewriting along the ontology, one statement per plan, facts; uses the operators of `Ontology` through an instance |
| `TriplePatternProperties` | entailment as a reference, soundness, coverage, multiplicity, the inductive invariant |
| `TriplePatternProofs` | theorems about them |
| `Solutions` | solutions and what may be asked of one, shared by the next modules |
| `Joins`, `JoinsProofs` | the join of relations and of a group of triples, relation by relation; theorems that neither index nor order shows |
| `GraphPattern` | the parser's groups and `evaluate_graph_pattern` |
| `SparqlAlgebra` | the abstract specification: the bags SPARQL 1.1 section 18 gives the same query |
| `GraphQuery` | the two composed: both read the same query, item by item |
| `GraphQueryProperties` | their agreement, and for which queries it is claimed |
| `Expressions` | values: `evaluate_expression`, `evaluate_function`, comparison, arithmetic, casts |
| `ExpressionText` | a text written token by token, the tree `parse_expression` makes of it, the fast path of FILTER |
| `ExpressionGrammar` | the abstract specification: the grammar of SPARQL as a relation between texts and trees, and the value of a tree |
| `ExpressionProperties` | reading and value against the grammar, with the misreadings named |
| `SelectQuery` | `query` after the pattern: groups, aggregates, HAVING, ORDER BY, DISTINCT, OFFSET, LIMIT; uses `Expressions` |
| `SelectProperties` | the answers SPARQL allows, and where the code departs |
| `MappingRules` | rules, R2RML triples maps and native targets, each read and written |
| `MappingText` | native documents line by line, the migration of version 1, the documents of bootstrap |
| `CommandLine` | the commands as processes over shared files and a database |
| `CommandLineProperties` | what the commands owe to files and databases, their inductive invariant |
| `MappingTextProofs`, `CommandLineProofs` | lemmas about mappings as text; theorems about the commands |
| `DirectMapping` | the catalog read, the rules planned from it, their statements |
| `DirectMappingProperties` | the direct graph of the W3C recommendation, agreement with it, the inductive invariant |
| `DirectMappingProofs` | theorems about them |
| `DataProofs` | lemmas about sequences, finite sets, induction and reachability that the other proofs cite |
| `MCEndpoint`, `MCOntology`, `MCTriplePattern`, `MCGraphQuery`, `MCExpression`, `MCSelect`, `MCCommandLine`, `MCDirectMapping` | instances for TLC; the `.cfg` files are named after their module |

`CommandLine` extends `MappingText` and that `MappingRules`: a command that
converts a document applies their operators to the text it has read. `SelectQuery`
and `ExpressionText` extend `Expressions`. `GraphQuery` composes `GraphPattern`
with `SparqlAlgebra`, and `TriplePattern` asks the operators of `Ontology`.

Operators named after a variant of another one and introduced by `Fault:` are
not part of the model. Each is a plausible bug at that place; substituted for the
operator it stands before, it must make the property named in `PROJECT.json`
fail, which shows that the property says something about the code.

### 2.1 Endpoint

One request is one connection, since the server answers `Connection: close`.
State and code correspond as follows.

| Variable | In the code |
|---|---|
| `server`, `config`, `edits` | the process between `TcpListener::bind` and the accept loop, its `startup_error`; the configuration file, which its owner edits and each request reads again |
| `client`, `unread` | the client's end: open, half-closed, closed, reset; whether bytes beyond the request are unread, which `peek` reports before the end of the stream |
| `target`, `accept` | route and media admitted by the Accept header |
| `handler` | program counter of `handle` and of `execute_until_disconnect`: `read`, `poll`, `token` (waiting up to a second for the cancel token), `cancel`, `drain` (the last blocking receive), `sync` (a route that runs its query itself), `reply`, `done` |
| `worker`, `outcome` | program counter of the query in `execute_cancellable`, or of the same work done by the handler; its result. `worker = "done"` stands for a result in the channel, `"panicked"` for a sender dropped without one |
| `token` | the cancel channel |
| `backend`, `issued` | the PostgreSQL session, the statements sent |
| `interrupt` | cancel requests under way to PostgreSQL, each acting on whatever is running when it arrives |
| `nonblocking` | O_NONBLOCK of the connection, shared by the duplicate that is watched |
| `reply`, `delivery` | status answered, what the client can read of the answer |

Abstractions: dropping a runtime closes its session at once; SQL statements have
no content; a body is within or beyond the send buffer (`"large"`); the time
limits (10 ms, 1 s) may end whenever the environment is `"slow"`; failing to
spawn a thread is not modelled. A client may leave in the ways of `Departures`,
and faults happen only if `Env` names them, so that a run can say which faults a
property withstands.

### 2.2 Ontology

A document is a sequence of axioms; which sequences there may be, which
documents are broken, and what the facts file asserts, are inputs chosen in the
initial state. `stack` is the recursion of `load_closure`: a document, its pass
and position. `Open` marks the document before anything of it is read, `Normalize`
is the first pass over class expressions, the `Read` actions are the second one,
`ReadImport` descends. `Add` is `add_subclass` and `add_subproperty`, including
what they fail to add. `IsSubclassOf` is the depth-first search
`is_descendant_of`, stated as reachability: `superclass` has fewer pairs than
the entailed ones, and the search makes up for it. `Validate` is
`validate_facts`. `declared` is a history variable.

### 2.3 TriplePattern

Mapping, facts, loaded ontology and pattern are inputs. `Plan` rewrites:
`Rewrite` for the branches of `select`, `TypePlans` for types that follow from
domains and ranges, with the auxiliary variable those plans project. `RunPlan`
is one statement: `Selected` is its WHERE clause, `Solution` its columns and the
bindings built from them, with the internal marks on mapping values. `Update` is
another client of the database. `Finish` adds the facts with their inverses and
inferred types, drops the auxiliary variable, and deduplicates where the code
does. Solutions carry what they were derived from (`by`), which makes a set of
them a bag. `ever` and `always` are history variables: the rows some statement
could see, and those all could.

Abstractions: the default graph only; terms are resources (no literals, no
blank nodes); rows without NULL; plans run in any order, the code's being one.
`PatternAssumption` leaves out patterns whose predicate variable is also subject
or object, and `TBoxAssumption` ontologies that speak of rdf:type itself.
`Translatable`, `Selected` and `Solution` follow the code where it is wrong for
constant subjects in rules, for patterns without variables and for variables
repeated in a pattern. The run has all three; what is claimed of them is said in
`RuleForAnother` and in the second half of `AnswersEntailed`, and neither can be
dropped.

The plans of a pattern are a set: where the closures of two inverse properties
overlap, the code runs the same plan twice and the model once.

### 2.4 Joins, GraphPattern, SparqlAlgebra, GraphQuery

A query is read item by item, and `groups` is the stack of groups that are open,
each with what `parse_group_content` keeps: `current`, the filters put off to
the end, the number of the next path node, and as `operand` the group read last
with the UNIONs that follow it, which joins `current` when something else
begins. Every item is an action, as is every closing brace; `Answer` evaluates
the pattern. `Evaluate` has one arm per arm of `evaluate_graph_pattern`: it is
given solutions and extends them. Rows are lists, in the order the code makes
them; solutions are functions in which unbound is a value. `dataset` is the rows
each predicate has, and whether the graph is virtual without facts, in which
case a predicate that no rule has is an error (`NotFullyTranslatable`).

`Joins` is what the arm of a group of triples calls: `JoinRelations` is
`join_binding_relations` with its index, `NextCandidate` picks the relation to
join next, and `JoinAll` is the loop, a recursive function of the number of
rounds.

`SparqlAlgebra` reads the same items and keeps for every open group a bag, by
the definitions of SPARQL: groups are evaluated on their own, joined by
compatibility; the filters of an OPTIONAL decide what it adds; EXISTS is a
filter of its group wherever it stands. `GraphQuery` conjoins each pair of
actions, so that a behaviour is one query and its two meanings.

`AnswersAreSolutions` claims their agreement for the queries with

* `SelfContained`: no nested pattern takes notice of a variable that it is
  handed and would not see on its own (a filter, an alias, or an OPTIONAL in a
  nested group, that mentions a variable its own group may leave unbound). The
  code hides variables in some such cases and not in others; TLC finds the
  disagreement as soon as any part of the condition is dropped;
* `ExistsLast`, `NamesUsedOnce`, `~PartlyFaulty`: see section 5.

Nine of ten queries of the run satisfy all four.

Abstractions: the triples of a predicate are rows, what `TriplePattern` models is
not repeated; filters are `bound`, `!bound` and equality; BIND is of a variable;
no GRAPH or FROM, no closure of a sequence, no aggregates or ORDER BY; a path is
over two predicates at most; groups are not empty, and the pattern of an EXISTS
has no group and no alias in it (for it, putting the values of a solution into
the pattern is then the same as joining with it).

### 2.5 Expressions, ExpressionText, ExpressionGrammar

A behaviour writes a text token by token, from a vocabulary, spaced or not; in
every state `Parse` is the tree `parse_expression` makes of it and `Evaluate` the
value `evaluate_expression` gives that tree in a row, while `Tree` and `Meaning`
in `ExpressionGrammar` are what SPARQL gives. A term is a record; `Error` is
`None`. A literal has a lexical form that says which number it is and whether it
is written in another way, so that equal values and equal texts can be told
apart. `Or` and `And` absorb errors; `Membership` is IN; `Apply` has the
functions and casts. `See` is the scan that keeps track of quotes, IRIs and
parentheses: that it takes `<` for the beginning of an IRI when a `>` follows is
in the model, and so are the blanks on which it depends.

`ValueAsWritten` claims that reading and value are those of the grammar for texts
without one of five misreadings, each of which is needed: `!` and the signs take
all that follows them on their level for their operand (`UnaryTakesAll`), `+` is
dropped (`PlusDropped`), and three that come from blanks (`SignAfterBlank`,
`LessTakenForIri`, `EqualsTakenForGreater`), for which it claims that the text is
refused and never given another value. `EqualityFilter` and `MatchesEquality` are the path
`?variable = literal` takes in a FILTER. `IsEqualityFilter` says which texts take
it: bare comparisons (`IsBareEquality`), but also longer filters, of which the
whole rest up to the last `>` becomes the datatype (`TakenForOneLiteral`).
`FilterPathsAgree` claims of the bare ones that the path keeps the same solutions
as the ordinary one, but for the cases `FilterDeviates` names, and of the others
that it keeps none. `Trimmed` is `trim_matches`: in a text without blanks it takes
the parentheses off both ends; in a spaced one it reaches the first blank only
and takes those of FILTER itself.

Abstractions: strings are opaque but for what the properties tell apart; no
regular expressions, text functions, hashes, dates with times; numbers are exact
fractions and NaN, so the rounding of doubles is not in the model. Where the code orders
no booleans, compares NaN and booleans as texts, and gives IN no error for an
unknown datatype, `ExpressionGrammar` follows the code and not SPARQL: those are
listed in section 5.

### 2.6 SelectQuery

`matched` is the sequence of rows the pattern has, `solutions` what has become
of them, `stage` how far `query` has come: `AggregateBindings` groups, evaluates
the aggregates and applies HAVING (`Panic` is its unwrapping of an average of
nothing); `Representatives` and `ProjectExpressions` are the two other ways to
the same point; `SortGroups` and `Sort` sort, the second with any order
`sort_by` may leave when its comparator is not an order; `Project`, `Deduplicate`, `Cut`
follow. `EvaluateAggregate` has the eight aggregates with the types they give.

`SelectProperties` states the answers SPARQL allows as a set: groups as a set of
keys, any arrangement that ORDER BY allows, the slice of it. `AnswerAllowed`
holds but for seven named departures, each of which TLC needs.

### 2.7 MappingRules, MappingText, CommandLine

`MappingRules` has the rule as `Mapping` keeps it, `RuleOfMap` (reading R2RML
with term maps, classes, graphs, parents), `TermMapOf` and its opposite for
native targets, and `Meaning`, the term a rule makes. `MappingText` is a document
as a sequence of lines: `NativeRules` reads sections and fails where
`Mapping::parse` does, `Migrated` is the state machine of
`migrate_v1_native_text` line by line, with `AliasFor` and `Simplified` for the
columns it renames; identifiers are sequences of pieces so that one name can be
found inside another, as `String::replace` does. `BootstrapMapping` and
`BootstrapOntology` are the two documents of bootstrap.

`CommandLine` has one process per command, at a step named after what it does
next: it reads input or configuration, connects, loads mapping, facts and
ontology, asks the default graph and the named ones, reads the catalog, and
writes. `Open` truncates (`File::create`, `fs::write`), `WriteLine` writes the
next line, `Close` goes on to the next document. `Crash` ends a process
anywhere, `DiskFull` and a lost network end a step with an error, and `Alter` is
another client of the database. `since` and `until` are history variables: the
states of the database a process could see; `wrote` is what it has written, and
`disturbed` which files other processes have changed since its command began.
`files` is a function of the paths there are, `FileAt` what a path holds. The
rules still to be asked are a set, `remaining`, asked in any order, since the
code's order is that of a document and says nothing. A command answers from its
facts too (`Stated`): those of the facts file, in named graphs if it is N-Quads,
and every triple of the ontology's document; `Inconsistent` holds both against
the ontology's disjoint classes. `query` fails where there is nothing to ask:
no rule of the default graph, no facts file and no fact (`IsUnmatched`);
materialize takes the same for an empty graph and goes on. `WorldAssumption` says of
the inputs what the proofs need: texts are sequences of lines (`IsText`, with
`IsLine` for the parts a target and a triples map must have), tables have names of
their own, a list of columns and finitely many rows (`DatabaseOK`), a column's
name is no syntax of SQL (`IsIdentifier`: rtop quotes it), and there is a database.

Abstractions: one mapping rule per migrated document and two tables; targets are
one line, with one statement; the query is fixed to all triples of the default
graph; an ontology is one document, and of what follows from it the commands model
disjointness only (`Ontology` and `TriplePattern` have the rest); a configuration
with `direct_mapping` stops where `DirectMapping` starts.

`PlaceholdersResolve` claims nothing where `NotKept` holds: the new name of a
column is another output's (`NameTaken`), a renamed column's text is inside
another item (`TextInside`), a numbered column is not spelled out in the source
(`NumberedUnlisted`), or a projection simplified to a star is ambiguous
(`AmbiguousUnderStar`). The first two are the hazard at `src/main.rs:566` itself:
there a placeholder does read another column.

### 2.8 DirectMapping

`runtime.at` goes through `columns`, `key`, `foreign keys` for every listed
relation, the three statements of `relation_metadata`; then `Plan` is
`from_direct_mapping` with the validation before it, `Ask` one rule's statement
and `Answer` the end. `Alter` changes the database in between, by a history
chosen at the start. A rule has a subject, a predicate, an object and a source:
`PlainSource` knows rows by `ctid` or, without `preserve_physical_rows`, by the
text of all their columns; `ForeignKeySource` is the join, which knows them by
`ctid` always. A template is a head and slots, each with the text before it, as
`template_parts` takes it apart. `id` and `partition` of a row are known to
nobody: they let `DirectMappingProperties` state the direct graph, where a row
without a key is a blank node of its own, and `FoundIsDirectGraph` look for a
renaming of blank nodes. The graph is stated in the parts the recommendation
has: `ClassTriples`, `ColumnTriples` and `ReferenceTriples` of a relation.

`WorldAssumption` and `DatabaseOK` say what PostgreSQL guarantees of a database:
keys are not NULL and foreign keys refer to rows of tables, pair by pair, views
have neither, no two rows have one `id`, a `ctid` has no dash in it, and no
column is called like those rtop's statements add (`__rtop_direct_...`).

## 3. What TLC checks

| Run | Instance | Shows |
|---|---|---|
| `endpoint_threads` | 2 requests, `/sparql` and `/predefined`, all departures and faults, 1 session, 2 statements each | the inductive invariant `IInv`; work is left behind only by a failed socket (`OrphanedOnlyByFailure`); no connected client is cancelled; no statement is started for an answered request |
| `endpoint_routes` | 1 request, all routes, two Accept headers, 2 edits of the configuration | a process started on a broken configuration keeps saying so and opens no session; connected clients get whole answers |
| `endpoint_contract` | 2 requests, one with SQL that never ends, clients may close, query threads may panic; with fairness | `RequestContract` is implemented, with its liveness; the other request is served; the endless statement ends when its client closes |
| `ontology_closure` | 2 documents of up to 2 of 11 axioms, importing each other, themselves, or nothing that exists, and single documents of up to 3 of 14 axioms of every kind; each may be unreadable; up to 2 given facts | `IInv`; answers are those the declared axioms entail; each document is read once, in bounded recursion; failure exactly when incomplete; validation rejects exactly the inconsistent inputs; the properties that assert a type are the ones that entail it |
| `ontology_intersection` | the same | a disagreement, section 5 |
| `pattern_rewriting` | up to 2 of 6 rules, 3 sets of facts, 4 ontologies, 12 patterns, 2 possible rows per source, 1 update | `IInv`; answers entailed, nothing covered missing, types answered once, only the pattern's variables bound |
| `graph_algebra` | three themes of queries (groups in groups; everything that is written in a group; paths) of up to 4 items, 6 for nested groups, where a group counts as two; up to 3 groups open; rows that repeat, a cycle, a predicate without rows or without a rule | the answer is the bag of the algebra; a query fails only for a predicate that is required |
| `expression_reading` | every text of 5 to 8 tokens from four vocabularies (operators, values, functions, filters), spaced and not | an expression has the value of its text, or is refused; literals and numbers survive being taken apart and put together; the fast path of FILTER keeps the same solutions for bare comparisons, and none for the longer filters it takes |
| `select_grouping` | 39 queries on every sequence of up to 3 of 6 rows | the answer is one SPARQL allows |
| `select_order` | ORDER BY an aggregate and a key | a disagreement, section 5 |
| `command_files` | four thousand worlds: version 1 mappings of one rule over two tables, R2RML and OBDA documents to convert and to load, configurations to validate and to use, one or two commands at once, crashes, a full disk, a lost connection, a database that changes | `IInv`; a converted mapping makes the same triples and its placeholders have the same columns; R2RML is read as the standard has it; exit code 0 means whole documents, failure before writing no change; bootstrap describes the database; settings are not lost; what validate accepts loads; materialize finds what is there |
| `direct_mapping` | four thousand worlds: pairs of rows of one relation, a child and its parent with every choice of keys, partitions, views, relations that are not there, four histories of changes | `IInv`; what is found is the direct graph; under changes each triple is of some moment and none that was there throughout is missing; refused only when it must be |

Why the bounds suffice: two requests with one session make every conflict over a
session, and every independence of two requests, happen; two statements are the
least for which a cancel request can fall between statements; two edits let the
configuration break and heal. Two documents give every import cycle that is not
longer than two, three classes every way an eagerly kept hierarchy can miss a
pair (child, middle and parent in each of the orders); longer closures and
larger hierarchies are covered by the proofs. Two rules show every interplay of
rules (a rule of the property itself and of a subproperty, two rules of one
property), and one update between statements moves a row in or out of sight.
For graph patterns six items are two groups with something in each and something
after them, in any nesting; rows that repeat tell bags from sets, a node without
a `q` edge tells a matched OPTIONAL from an unmatched one, and the cycle makes
closures meet themselves. Eight tokens hold two operators in parentheses, a call
with two arguments, or three comparisons joined by `||`; five suffice for two
operators of different precedence with a prefix each. Three rows fill one group,
two, or three, and give each aggregate values that repeat, are missing or are of
mixed types; six rows have both numbers that compare and terms that do not. Two
tables with a shared column name are the least for which the aliases of
migration can collide, and two commands the least that can write over each
other. One or two relations give every foreign key there is (to a key, to other
columns, to a table without key, to itself), and histories of three states let a
row move, disappear and have its `ctid` used again.

A query, an expression, a command and a Direct Mapping end when they are
answered, hence `CHECK_DEADLOCK FALSE` in their configurations.

Fairness (`FairSpec` of `Endpoint`): threads are scheduled by the operating
system, hence weak fairness of each thread's steps; PostgreSQL acts on a cancel
request and ends each statement, except for requests in `Hanging`, whose
statements only a cancel request ends. Clients owe nothing: they may never leave.
Receives in the code have time limits or a sender that is certain to send or be
dropped, which is what makes weak fairness enough. Contract liveness and
`Served` are checked without symmetry.

## 4. What is proved

The proofs assume only the named assumptions on constants (`EndpointAssumption`,
`OntologyAssumption`, `VariablesAssumption`, `PatternAssumption`, `TBoxAssumption`, and a
`WorldAssumption` each for `CommandLine` and `DirectMapping`), which TLC evaluates
in the runs, and for three theorems of the endpoint that some faults are not in
`Env`, as stated with them. In every component the theorem `InvariantHolds` is
that `IInv`, or what the component calls it, holds in every state; TLC checks the
same invariant in the component's run.

**Endpoint** (`EndpointProofs`), for every set of requests, every environment and
every bound: `TypeCorrect`, `InvariantHolds`, `OrphansNeedFailure`
(`OrphanedOnlyByFailure`), `CancellationNeedsDeparture`, `DiagnosisIsKept`
(`DiagnosisForTextClients`), `AnswerIsWhole` (`WholeAnswer`, without socket
failures, panics and answers beyond the send buffer), `AnsweredStartsNothing` (an
action property), `NothingOrphaned`, and `RefinesContract`: without connection
resets and socket failures the endpoint implements the safety part of
`RequestContract`.

The inductive invariant adds to the properties what they rest on: a session is
open exactly between connecting and finishing (`SessionFollowsQuery`); a query
has been started by a handler that has read its request and is watched on a
non-blocking socket (`QueryFollowsHandler`); every trace of a cancellation
belongs to a client that has left (`CancellationFollowsClient`); an answer is
there exactly when the handler has given it (`AnswerFollowsHandler`), it is the
diagnosis in a process that has one (`DiagnosisKept`), and it is whole unless a
named fault cut it (`WholeUnlessFault`). Without the first, nothing connects the
end of the worker with the release of the session; without the second, work could
be left behind by a handler that never started it; without the third, an
interrupt could outlive the reason for it.

**Ontology** (`OntologyProofs`), for every set of documents, however long and however they import
each other:

* `TypeCorrect`, `HierarchyIsSound`, `ClosureHolds`.
* `HierarchyIsExact`: `is_subclass_of` answers at every moment exactly what the
  pairs declared so far entail. Soundness goes by reachability being transitive:
  all `Add` puts in is reachable in the declared pairs. Completeness goes by the
  declared pairs being contained in the hierarchy, so that the search finds any
  chain of them although the chain's ends are not a pair of it.
* `LoadedAnswersDeclared`: after loading, the answers are those of all axioms of
  all documents reachable by imports together. It needs that a document is
  visited only if imported (`OnlyImported`), that no axiom of a visited document
  is passed over (`NothingSkipped`) and the shape of the recursion
  (`StackShape`).
* `NeverIncomplete`: loading fails only for want of an imported document, and
  never succeeds without one.
* `DocumentsReadOnce` (`EachDocumentOnce`), `ConsistencyIsDecided`,
  `TypesAreEntailed`. The invariant adds that a document
  has one frame on the stack (`OneFramePerDocument`), that the facts loaded so
  far are those of the places read so far, each once (`FactsAreRead`), and that
  domains, ranges, inverses and disjointness are what these say
  (`RelationsFollowFacts`). The number of facts is compared with the number of
  places by a bijection, and induction is over the finite sets of places.

**Triple patterns** (`TriplePatternProofs`), for all rules, facts, ontologies, patterns
and rows: `AnswersAreEntailed`, `NothingIsMissing`, `TypesOnce`
(`TypesAnsweredOnce`), whatever other clients do between the statements. The
invariant says that the rows of the moment lie between those that were always
there and those that ever were, and so do the answers: between what the plans run
so far make of the former and what they make of the latter (`AnswersDerived`).
What is left is about one plan and one row, in both directions: a row a plan
selects is entailed for the pattern, and for a triple that the rewriting covers
some plan selects its row. `Finish` is where the auxiliary variable is dropped and
duplicates go; that the solutions of both steps are the same is a lemma about
bindings.

**Joins** (`JoinsProofs`), for all relations of any length over finitely many
variables:

* `IndexIsInvisible`: the index of `join_binding_relations` leaves out only what
  is not compatible; the relation is the same, in the same order.
* `JoinAllCombines`: the loop over a group of triples ends with one solution for
  every choice of a row and of one solution per triple that fit together, and
  with no other (`JoinOfAll`, which knows no order).
* `JoinsInAnyOrder`: hence, however the triples are permuted in the text, the
  answer has the same solutions, each as often. The comments at `src/lib.rs:756`
  and `src/lib.rs:947` say so; the code picks its own order from the data.

The invariant of the loop is that whatever is the join of the rows found and the
relations left is the join of all (`JoiningKeeps`). Its step takes a choice for
the joined relation apart into a pair of places and back, with the last relation
in the place of the one taken out; which one is picked matters to nothing but
that there is one (`NextIsOne`, where the variables must be finitely many).

**Command line** (`CommandLineProofs`), for all files, databases, command lists
and faults, and any number of processes:

* `FindsHold` (`FindsWhatIsThere`): what `query` and `materialize` found, rule by
  rule, was there at some moment, and what was there all the while was found.
* `ValidatedHolds` (`ValidatedLoads`): what `validate` accepted loads later.
* `OutputsHold` (`OutputsAreWhole`): exit code 0 means whole documents.
* `ReadsHold` (`RulesAsWritten`): the rules read from an R2RML document make the
  terms, in the graphs, that its triples maps stand for.
* `ConversionHolds` (`ConversionKeepsTriples`): what `to-obda` and `to-r2rml` are
  about to write can be read, and its rules make the same terms in the same
  graphs.
* `BootstrapHolds` (`BootstrapDescribes`): the mapping bootstrap writes can be
  read, its ontology has a class for each section of it, and both say what the
  catalog says if the database stays as it is meanwhile.

The invariant has parts, each about one process. `Run` says that a step
belongs to its command, that what was found is what the rules asked so far have
(`FoundSoFar`), and that what was loaded is in the files unless some have changed
since (`LoadedFromFiles`). `Holds` and `SavedSoFar` say that what is to be written is a text and
what was written stands in its file, the last one up to the line reached.
`HasRead` says that the rules of a process are those of the text it has read,
`HasConverted` that a mapping command is about to write what is made of that text,
and `HasDescribed` that bootstrap's relations are, table by table, the first of
the catalog (`CatalogSoFar`, which at the step between the two statements about a
table knows its columns and not yet its key). A step
of one process leaves the other processes' parts alone but for two things: it can
write a file another one relies on, which `changes` and `disturbed` record. That
the documents of every command are texts, and that rules are finitely many, is
proved for all texts in `MappingTextProofs`.

For `ReadsHold` the rest is about one triples map and is independent of states
(`ObjectAsWritten`, `GraphsAsWritten`, `TriplesMapAsWritten`): one case for every
kind of term map and type of term. It assumes of the text that its term maps are
ones a document can have (`IsTriplesMap`: a subject is no literal, a constant IRI has no
braces, only literals have a datatype or a language). What `NotStandard` excludes
is what the code reads differently. Two of its disjuncts came from leaves that
could not be proved: a blank node whose template has no column, which makes no
blank node (`Broken`), and a column with braces in its name, of which the text
between braces is taken for the column. A third leaf showed that the model refused a
template with both a datatype and a language, which the code accepts
(`src/mapping.rs:860`); `MapFails` was corrected.

`ConversionHolds` has the same lemmas about one rule, in both directions. A rule that
can be loaded (`Formed` for R2RML, `OfTarget` for native targets) is written as a
token or a term map; read again it has the same terms, by cases of the kind of term
(`SubjectThroughNative`, `ObjectThroughNative`, `SubjectThroughR2rml`,
`ObjectThroughR2rml`), source, parent and graph (`RuleThroughNative`,
`RuleThroughR2rml`). The rest is about text: a native document that is made of one
section for each rule reads as these sections and no others (`MappingIsRead`, on
which `ObdaKeepsMeanings` and `BootstrapMappingIsRead` rest), an R2RML document as
one triples map for each rule (`R2rmlKeepsMeanings`). For
`BootstrapHolds` it remains that a catalog read in 1 + 2n statements is one: tables
have names of their own, so that a statement about a name answers for its table
(`FoundByName`), as long as there is one database (`StillThere`).

The proofs changed the model. Leaves that could not be proved, each with an
execution TLC then found, added these exceptions: an object `_:b` is read as an IRI;
a column of IRIs is percent-encoded once it is a template; a name with a blank or a
point, which braces do not protect from being cut (`HasBreak`), also in what
bootstrap writes (`IsUnreadable`). And these corrections, the code being stricter
or less so than the model was: a target without a triple is refused, the sources of
triples maps and of their parents are validated (`SourceFails`, `ParentFails`), and
bootstrap writes whatever its paths are.

**Direct Mapping** (`DirectMappingProofs`), for every schema, all rows, every list of
relations and every history of the database:

* `GraphHolds` (`FoundIsDirectGraph`): over a database that stays as it is, what
  is found is the direct graph of the recommendation but for the names of blank
  nodes.
* `MomentsHold` (`FoundAtSomeMoment`): while rows change, what is found was in the
  graph at some moment, and what a part of it had all the while is found.
* `FailsHold` (`FailsOnlyWhenItMust`).

The invariant follows the runtime: each of the three statements about a relation
has read what the catalog said at some moment (`ReadAtSomeMoment`), what is found
is what the rules asked so far answered when they were asked (`FoundSoFar`), and
what failed had a reason (`FailedFor`). The rest is about one rule and one
database: a rule answers exactly its part of the graph, with rows called what the
statements call them (`ClassAnswers`, `ColumnAnswers`, `ReferenceAnswers`). The
last has the four cases of a foreign key (the parent's key is the one referred
to, another one, or none, and the child's own subject); in each the term the
child's statement writes is the one the parent's statements write. For
`GraphHolds` it remains that names tell rows apart: a name is a relation, a dash
and a `ctid`, in which there is no dash, so that the last one splits it
(`DashSplits`). The exceptions of the properties (`Spelled`, `Confused`) are
hypotheses of these lemmas, each at the place where it is needed.

Only model-checked:

* Liveness (`Served`, `DisconnectEndsStatement`, the liveness of the contract):
  fairness and ENABLED are outside the prover.
* Graph patterns beyond the join of triples, expressions, grouping and ordering (`AnswersAreSolutions`,
  `FailureIsRequired`, `ValueAsWritten`, `TextRoundTrip`, `FilterPathsAgree`,
  `AnswerAllowed`, and the type invariants of these modules): their evaluation is
  recursive over the pattern, the expression or the text, and the prover cannot
  do induction over such data.
* Of the mapping documents, `PlaceholdersResolve`, which is about text put into
  text, and `SettingsKept`, which holds for the commands of its run only: a
  command told to write over the last file with the settings loses them.


## 5. Where code and documentation disagree

Two are runs that TLC must find violated; the findings in `PROJECT.json` quote
both sides.

* `ontology_intersection`: `(A and B) subClassOf C` is loaded as if it were
  `C subClassOf A` and `C subClassOf B`.
* `select_order`: groups sorted by an aggregate are sorted again without it, so
  that LIMIT takes the wrong ones.

Met while modelling, in the model, and not given a run of their own. Where a
property would fail because of one of them, its departure is named in the
property, and none of the departures can be dropped.

**Endpoint.** A reset connection makes `peek` fail (`src/server.rs:231`), and the
handler returns without waiting for the worker whose clean-up the comment at
line 237 promises. The watched duplicate shares O_NONBLOCK with the connection
the answer is written to (216); a long answer is cut. A client that only
half-closes is cancelled; the startup diagnosis turns into 406 for clients that
accept results formats only; a query starts for a client known to be gone if
connecting took more than a second; the only cancel request can fall between two
statements, and then the next one runs for a client that is gone
(`DisconnectEndsStatement` is of the statement in progress).

**Triple patterns.** The statement of a pattern without variables ignores the
object (`src/mapping.rs:1207`), so that an ASK of it may be true wrongly; a
variable repeated in a pattern is not joined on mapping rows (`Solution`); a rule
with another constant subject hides the answers of all other rules
(`Translatable`); the mark on mapping values defeats the deduplication of types
that both mapping and facts assert; with a variable predicate, n rules of a
property answer every row n times, because `reformulate_predicate_variable`
rewrites once per rule with all rules of its property.

**Graph patterns**, outside `AnswersAreSolutions`:

* FILTER EXISTS written before the triples of its group tests its pattern
  without their bindings, though the comment at `src/sparql.rs:1279` says that a
  filter's place does not matter (`ExistsLast`).
* The nodes inside property paths are numbered from zero in every group, and
  `Scoped`, OPTIONAL and MINUS do not hide them: two sequence paths in nested
  groups are joined on their middles (`NamesUsedOnce`).
* Later branches of a UNION, and groups that begin an OPTIONAL, are not `Scoped`
  as other nested groups are: their filters see the bindings around them.
* In an OPTIONAL, MINUS or EXISTS one UNION branch without a rule empties the
  whole side (`PartlyFaulty`).
* `p{0}` fails on a virtual graph without facts, since the predicate that no
  rule can have is not translatable, though the comment on `ZeroLengthPath` asks
  for no edges; `p*` from a constant that no triple has lacks its own end.
* UNION removes the aliases of BIND from its branches. CONSTRUCT WHERE and ASK
  ignore FROM; a CONSTRUCT template with a literal object gives no triple.

**Expressions.** `!?a = ?b` is read as `!(?a = ?b)` and `-?a + ?b` as
`-(?a + ?b)`; a `+` in front is dropped. A sign after a blank, `?a<?b` with a
`>` to come, and `=` right after an IRI are refused. The fast path of FILTER takes
everything up to the last `>` for a datatype (`src/sparql.rs:3631`, where the
comment at 3601 says that it takes a bare comparison only), so that two
comparisons joined by `||` keep nothing (`TakenForOneLiteral`); it lets `"a"@en` match `"a"`, ignores
the datatype of booleans and finds ill-formed numbers equal. Booleans are
ordered as texts, NaN equals itself, IN has no error for an unknown datatype, a
simple literal and the same `xsd:string` are two terms, ABS of a double is a
decimal, `xsd:boolean(NaN)` is true, two mapped literals with one tag compare
without their text (`src/lib.rs:2418`, not in the model).

**Grouping and ordering**, outside `AnswerAllowed`: rows for which GROUP BY fails
are dropped; COALESCE, IF and `||` do not absorb the error of an aggregate; the
second argument of `COALESCE(aggregate, ?g)` does not see the group;
`COUNT(DISTINCT *)` counts duplicates; numbers are ordered by value and other
pairs as text, which is no order of mixed types; ungrouped variables may be
projected when aggregates stand in expressions only. `STR(AVG(?x))` of an empty
group panics. `(COUNT(?x) + COUNT(?y) AS ?z)` and expressions over the keys are
rejected, GROUP_CONCAT fails on numbers, and `ORDER BY DESC (?x)` is split at the
blank.

**Mapping documents.** An object `_:b` of a native target is read as an IRI
(`src/mapping.rs:3208` tests for a colon first), so that `to_native_obda` loses
blank objects, which its comment at 186 denies. A literal template with a blank
or a colon in it makes a document that does not load; a quoted literal with
slots is executed with its quotes and becomes a constant in R2RML. Of R2RML, the
language and datatype of a template are dropped, and all graphs of a subject map
but the first; a literal template that starts with its only slot gives broken
SQL; columns of IRIs, also of a parent, become percent-encoded templates;
`{a}-{b}` is written as the column `a}-{b`. Relative templates take another base
in OBDA and lose it in R2RML. Migration numbers columns of one name into names
that exist, replaces text inside other names, and with a simplified projection
drops DISTINCT and functions. A truncated document parses as a smaller mapping.

**Commands.** Migration with the output `x.properties` writes the properties over
the mapping; interrupted in place, it loses the connection settings. Bootstrap of
a catalog without tables, or with a blank in the name of a column, writes a
mapping that cannot be read (`src/main.rs:359` puts the name in braces, and
`src/mapping.rs:3335` cuts there), and uses only the first column of a composite
key. `validate` does not look at a direct mapping.
`materialize` finds out that its format is not known after all its queries, and
drops graph names in Turtle. Migrating an empty text ends with 0.

**Direct Mapping**, outside `FoundIsDirectGraph`: without
`preserve_physical_rows` the rules of foreign keys still know rows by `ctid`, so
that their blank nodes are others (`RowsByValue`), and the texts of two rows or
two tables can be one (`OneText`); the name of a parent without key is escaped
in references only (`EscapedOnce`); `;` and `=` in a key are not escaped, so that
two composite keys can be one IRI (`SeparatorWritten`); a reference is spelled with the
child's text, `1` for `1.00` (`WrittenOtherwise`); rows of two partitions can have
one `ctid` (`SharedCtid`). A view has no `ctid`, and with the option its rules
fail. Catalog and rows are read in statements of their own, so that a table
altered in between gives a plan no state of the database has.

## 6. Not modelled, and the plan

Not modelled: the syntax of RDF documents and of the properties file, result
formats, the prologue and heads of queries, GeoSPARQL functions (each is one
statement of PostGIS), value decoding, GRAPH and FROM, the push-down of a group
of triples. They are sequential translations of text, or what they compute is
PostgreSQL's. The hazards they have are listed with a note.

Of the command line: the `endpoint` command is `Endpoint`; reading the query from
a file or from `-`, wrong arguments, and two processes that hold one file open
are left out. Of mapping documents: comments, sources and targets over several
lines or with several statements, prefixes of generated documents, several
predicates of one map, template graph maps.

Planned: GRAPH and FROM, the push-down of a group of triples against the same
algebra, NUMERIC decoding at its limits.
