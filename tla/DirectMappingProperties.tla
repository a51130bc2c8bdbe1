---------------------- MODULE DirectMappingProperties ----------------------
(* What a Direct Mapping owes to the W3C recommendation and to the database.   *)
EXTENDS DirectMapping

Relations == ToSet(options.relations)

\* The databases there were until the runtime answered or failed, or so far.
Ended == runtime.at \in {"answered", "failed"}
Moments == {databases[v] : v \in 1..(IF Ended THEN runtime.until ELSE version)}
SchemaOf(relation) == <<relation.kind, relation.columns, relation.key, relation.foreign>>
Schema(database) == [name \in Relations |-> SchemaOf(CatalogOf(database, name))]
SameSchema == \A one, other \in Moments : Schema(one) = Schema(other)

-----------------------------------------------------------------------------
(* The recommendation: a row is an IRI made of its primary key, or else a      *)
(* blank node of its own.                                                      *)

StandardEscapes == [piece \in DOMAIN Escapes \cup {";", "="} |->
    IF piece = ";" THEN "%3B" ELSE IF piece = "=" THEN "%3D" ELSE Escapes[piece]]
Standard(text) == [i \in DOMAIN text |-> IF text[i] \in DOMAIN StandardEscapes THEN StandardEscapes[text[i]] ELSE text[i]]
StandardEach(names) == [i \in DOMAIN names |-> Standard(names[i])]

Iri(text) == [type |-> "iri", text |-> text]
Literal(text) == [type |-> "literal", text |-> text]
RowNode(database, name, row) ==
    LET key == database[name].key
    IN  IF key = <<>> THEN [type |-> "row", name |-> name, id |-> row.id]
        ELSE Iri(Standard(name) \o <<"/">> \o FlattenSeq([i \in DOMAIN key |->
                (IF i = 1 THEN <<>> ELSE <<";">>) \o Standard(key[i]) \o <<"=">> \o Standard(row.values[key[i]])]))

\* The rows of a table and the rows they refer to.
PairsOf(database, name, foreign) ==
    {pair \in database[name].rows \X database[foreign.parent].rows : pair[2] \in Referenced(database, foreign, pair[1])}

\* The parts of a graph: the rows of a relation, their values in a column, and
\* what they refer to.
ClassTriples(database, name) ==
    {<<RowNode(database, name, row), TypePredicate, Iri(Standard(name))>> : row \in database[name].rows}
ColumnTriples(database, name, column) ==
    {<<RowNode(database, name, row), ColumnPredicate(Standard(name), Standard(column)), Literal(row.values[column])>> :
        row \in {r \in database[name].rows : r.values[column] # Null}}
ReferenceTriples(database, name, foreign) ==
    {<<RowNode(database, name, pair[1]), ReferencePredicate(Standard(name), StandardEach(foreign.columns)),
       RowNode(database, foreign.parent, pair[2])>> : pair \in PairsOf(database, name, foreign)}
DirectGraph(database) ==
    UNION {ClassTriples(database, name)
           \cup (UNION {ColumnTriples(database, name, column) : column \in ToSet(database[name].columns)})
           \cup (UNION {ReferenceTriples(database, name, foreign) : foreign \in ToSet(database[name].foreign)}) : name \in Relations}

\* The rows that are blank nodes, and a graph with other names for them.
Keyless(database) == {name \in Relations : database[name].key = <<>>}
RowNodes(database) == UNION {{RowNode(database, name, row) : row \in database[name].rows} : name \in Keyless(database)}
Renamed(graph, naming) ==
    LET term(t) == IF t.type = "row" THEN naming[t] ELSE t
    IN  {<<term(triple[1]), triple[2], term(triple[3])>> : triple \in graph}
RowOf(database, node) == CHOOSE row \in database[node.name].rows : row.id = node.id
BlankNodes(graph) == {triple[1] : triple \in {t \in graph : t[1].type = "blank"}}

\* The same graph but for the names of blank nodes. Without preserve_physical_rows
\* equal rows are one node.
OneNode(database, left, right) ==
    \/ left = right
    \/ ~options.preserve /\ left.name = right.name /\ RowOf(database, left).values = RowOf(database, right).values
Isomorphic(database, found) ==
    \E naming \in [RowNodes(database) -> BlankNodes(found)] :
        /\ \A left, right \in RowNodes(database) : naming[left] = naming[right] <=> OneNode(database, left, right)
        /\ found = Renamed(DirectGraph(database), naming)

-----------------------------------------------------------------------------
(* Where the mapping is another one.                                           *)

References(database) == UNION {{<<name, foreign>> : foreign \in ToSet(database[name].foreign)} : name \in Relations}

\* ; and = are not escaped in names and in the values of a key;
HasSeparator(text) == ToSet(text) \cap {";", "="} # {}
SeparatorWritten(database) ==
    \E name \in Relations :
        \/ HasSeparator(name) \/ \E column \in ToSet(database[name].columns) : HasSeparator(column)
        \/ \E row \in database[name].rows, column \in ToSet(database[name].key) : HasSeparator(row.values[column])
\* the name of a relation without a key is escaped where it is referred to only;
EscapedOnce(database) ==
    \E reference \in References(database) :
        LET parent == reference[2].parent IN database[parent].key = <<>> /\ Escape(parent) # parent
\* rows of two partitions have one ctid;
SharedCtid(database) ==
    /\ options.preserve
    /\ \E name \in Keyless(database) : \E left, right \in database[name].rows : left # right /\ left.ctid = right.ctid
\* the join of a foreign key knows rows by their ctid when other statements do not;
RowsByValue(database) ==
    /\ ~options.preserve
    /\ \E reference \in References(database) :
        LET parent == database[reference[2].parent]
        IN  parent.key = <<>> \/ (database[reference[1]].key = <<>> /\ parent.key # reference[2].referenced)
\* the texts of the columns of different rows are one text;
OneText(database) ==
    /\ ~options.preserve
    /\ \E one, other \in Keyless(database) : \E left \in database[one].rows, right \in database[other].rows :
        /\ <<one, left.values>> # <<other, right.values>>
        /\ one \o <<"-">> \o Concatenated(database[one].columns, left) = other \o <<"-">> \o Concatenated(database[other].columns, right)
\* a child writes the key of its parent in another way.
WrittenOtherwise(database) ==
    \E reference \in References(database) : \E row \in database[reference[1]].rows :
        \E parent \in Referenced(database, reference[2], row) :
            /\ database[reference[2].parent].key = reference[2].referenced
            /\ \E i \in DOMAIN reference[2].columns : row.values[reference[2].columns[i]] # parent.values[reference[2].referenced[i]]

\* Keys and names are spelled otherwise; rows are told apart otherwise.
Spelled(database) == SeparatorWritten(database) \/ EscapedOnce(database) \/ WrittenOtherwise(database)
Confused(database) == SharedCtid(database) \/ RowsByValue(database) \/ OneText(database)

(* While the database does not change, the triples found are the direct graph  *)
(* of the listed relations but for the names of blank nodes                    *)
(* (Mapping::from_direct_mapping and the statements of its rules).             *)
FoundIsDirectGraph ==
    At("answered") =>
        \A database \in Moments : Moments = {database} => Spelled(database) \/ Confused(database) \/ Isomorphic(database, runtime.found)

\* The names the statements give to rows.
RowText(database, name, row) == IF options.preserve THEN row.ctid ELSE Concatenated(database[name].columns, row)
BlankNode(text) == [type |-> "blank", text |-> text]
Named(database) ==
    [node \in RowNodes(database) |-> BlankNode(node.name \o <<"-">> \o RowText(database, node.name, RowOf(database, node)))]
GraphOf(database) == Renamed(DirectGraph(database), Named(database))

\* What a part of the graph has all the while, it is found to have.
Lasting(part) ==
    \A triple \in part[databases[1]] : (\A database \in Moments : triple \in part[database]) => triple \in runtime.found

(* When rows change while rules are asked, every triple found is of the        *)
(* database at some moment, and what a relation, a column or a foreign key had *)
(* all the while is found, although every rule is a statement of its own.      *)
FoundAtSomeMoment ==
    At("answered") /\ SameSchema
    => \/ \E database \in Moments : Spelled(database) \/ RowsByValue(database)
       \/ /\ runtime.found \subseteq UNION {GraphOf(database) : database \in Moments}
          /\ \A name \in Relations :
                /\ Lasting([database \in Moments |-> Renamed(ClassTriples(database, name), Named(database))])
                /\ \A column \in ToSet(databases[1][name].columns) :
                    Lasting([database \in Moments |-> Renamed(ColumnTriples(database, name, column), Named(database))])
                /\ \A foreign \in ToSet(databases[1][name].foreign) :
                    Lasting([database \in Moments |-> Renamed(ReferenceTriples(database, name, foreign), Named(database))])

(* The mapping is refused only when a listed relation is not there, or refers  *)
(* to one that is not listed; a statement fails only over a view, which has no *)
(* ctid; unless the schema changed (validate_direct_relation_metadata).        *)
FailsOnlyWhenItMust ==
    At("failed") /\ SameSchema
    => \A database \in Moments :
        IF runtime.failed = "plan"
        THEN \/ \E name \in Relations : CatalogOf(database, name).columns = <<>>
             \/ \E name \in Relations : \E foreign \in ToSet(CatalogOf(database, name).foreign) : foreign.parent \notin Relations
        ELSE options.preserve /\ \E name \in Relations : CatalogOf(database, name).kind = "view"

-----------------------------------------------------------------------------
(* Why these hold: the inductive invariant.                                    *)

Steps == {"columns", "key", "foreign keys", "plan", "ask", "answered", "failed"}

\* The runtime reads the catalog of one listed relation after the other.
TypeOK ==
    /\ databases \in Seq(ToSet(databases)) /\ \A v \in DOMAIN databases : DatabaseOK(databases[v])
    /\ version \in DOMAIN databases
    /\ options.relations \in Seq(Text) \ {<<>>} /\ options.preserve \in BOOLEAN
    /\ DOMAIN runtime = {"at", "metadata", "rules", "found", "until", "failed"}
    /\ runtime.at \in Steps
    /\ runtime.metadata \in Seq(ToSet(runtime.metadata)) /\ runtime.rules \in Seq(ToSet(runtime.rules))
    /\ Ended => runtime.until \in 1..version
    /\ Current <= Len(options.relations)
    /\ \A i \in DOMAIN runtime.metadata :
        DOMAIN runtime.metadata[i] = {"name", "columns", "key", "foreign"} /\ runtime.metadata[i].name = options.relations[i]
    /\ At("columns") => Current < Len(options.relations)
    /\ At("key") \/ At("foreign keys") => Current > 0
    /\ At("plan") \/ At("ask") \/ Ended => Current = Len(options.relations)

\* What is read of a relation was in the catalog at some moment.
ReadAtSomeMoment ==
    \A i \in DOMAIN runtime.metadata :
        LET relation == runtime.metadata[i]
        IN  /\ \E database \in Moments : relation.columns = CatalogOf(database, relation.name).columns
            /\ (i = Current /\ At("key")) \/ \E database \in Moments : relation.key = CatalogOf(database, relation.name).key
            /\ (i = Current /\ (At("key") \/ At("foreign keys")))
               \/ \E database \in Moments : relation.foreign = CatalogOf(database, relation.name).foreign

\* What the rules asked so far had when they were asked is found, and no more.
Rules == DirectRules(runtime.metadata, options.preserve)
AnsweredAt(rule) == {database \in Moments : ~Refused(rule.source, database)}
FoundSoFar ==
    /\ runtime.at \in {"columns", "key", "foreign keys", "plan"} => runtime.found = {}
    /\ At("ask") \/ At("answered")
       => /\ ~MetadataFails(runtime.metadata)
          /\ ToSet(runtime.rules) \subseteq ToSet(Rules)
          /\ At("answered") => runtime.rules = <<>>
          /\ runtime.found \subseteq UNION {UNION {Answers(rule, database) : database \in AnsweredAt(rule)} : rule \in ToSet(Rules)}
          /\ \A rule \in ToSet(Rules) \ ToSet(runtime.rules) :
                \E database \in AnsweredAt(rule) : Answers(rule, database) \subseteq runtime.found

\* A plan that failed had reason to; so had a statement.
FailedFor ==
    At("failed")
    => IF runtime.failed = "plan" THEN MetadataFails(runtime.metadata)
       ELSE ~MetadataFails(runtime.metadata) /\ \E rule \in ToSet(Rules), database \in Moments : Refused(rule.source, database)

(* What is read was in the catalog and what is found was in the database when  *)
(* it was asked for (VkgRuntime::new_with_direct_mapping, execute_typed).      *)
IInv == TypeOK /\ ReadAtSomeMoment /\ FoundSoFar /\ FailedFor
=============================================================================
