---------------------------- MODULE DirectMapping ----------------------------
(***************************************************************************)
(* The Direct Mapping of a PostgreSQL schema: VkgRuntime reads the catalog *)
(* of the listed relations, Mapping::from_direct_mapping plans rules, and  *)
(* `SELECT ?s ?p ?o` asks each of them (src/src/mapping.rs,                *)
(* src/src/datasource.rs, src/src/lib.rs).                                 *)
(*                                                                         *)
(* Each statement sees one state of the database; between two of them the  *)
(* database may change. Names, values and texts are sequences of pieces.   *)
(***************************************************************************)
EXTENDS Integers, SequencesExt, FiniteSetsExt, Functions

CONSTANT
    Worlds      \* where the system may start: databases in turn, listed relations, preserve_physical_rows

VARIABLES
    databases,  \* what the database is and will be, relations by name
    version,    \* which of them it is
    options,    \* what the configuration says
    runtime     \* what the runtime has read, planned and found
vars == <<databases, version, options, runtime>>

Database == databases[version]

\* A row of a relation: [id, partition, ctid, values]; id is known to nobody.
Null == <<"null">>
Foreign(columns, parent, referenced) == [columns |-> columns, parent |-> parent, referenced |-> referenced]
Relation(kind, columns, key, foreign, rows) ==
    [kind |-> kind, columns |-> columns, key |-> key, foreign |-> foreign, rows |-> rows]
NoRelation == Relation("none", <<>>, <<>>, <<>>, {})

CatalogOf(database, name) == IF name \in DOMAIN database THEN database[name] ELSE NoRelation

\* Equality of SQL: 1 and 1.00 are equal, nothing is equal to NULL.
ValueOf(text) == SelectSeq(text, LAMBDA piece : piece # ".00")
Same(left, right) == left # Null /\ right # Null /\ ValueOf(left) = ValueOf(right)

-----------------------------------------------------------------------------
(* Templates: fixed text and slots for what a source projects.               *)

\* A head, and slots with the text before each.
Slot(fixed, alias) == [fixed |-> fixed, alias |-> alias]
Template(type, head, slots) == [type |-> type, head |-> head, slots |-> slots]

\* direct_iri_identifier and iri_component_projection.
Escapes == [piece \in {" ", "|", "("} |-> CASE piece = " " -> "%20" [] piece = "|" -> "%7C" [] piece = "(" -> "%28"]
Escape(text) == [i \in DOMAIN text |-> IF text[i] \in DOMAIN Escapes THEN Escapes[text[i]] ELSE text[i]]

RowId == <<"row id">>
ParentRowId == <<"parent row id">>
ParentKey(i) == <<"parent key", i>>

\* direct_iri_template
IriTemplate(name, columns, aliases) ==
    Template("iri", Escape(name) \o <<"/">>,
        [i \in DOMAIN columns |-> Slot((IF i = 1 THEN <<>> ELSE <<";">>) \o Escape(columns[i]) \o <<"=">>, aliases[i])])
\* A blank node is a name and what identifies a row.
BlankTemplate(name, alias) == Template("blank", name \o <<"-">>, <<Slot(<<>>, alias)>>)

\* The term of a row of a source, none if a slot is NULL.
IsNull(template, row) == \E i \in DOMAIN template.slots : row[template.slots[i].alias] = Null
TermOf(template, row) ==
    LET text(slot) == slot.fixed \o (IF template.type = "iri" THEN Escape(row[slot.alias]) ELSE row[slot.alias])
    IN  [type |-> template.type,
         text |-> template.head \o FlattenSeq([i \in DOMAIN template.slots |-> text(template.slots[i])])]

-----------------------------------------------------------------------------
(* Sources: the columns of a relation and an identity of its rows, or the    *)
(* join of a foreign key.                                                    *)

\* direct_source
PlainSource(name, columns, preserve) ==
    [name |-> name, columns |-> columns, byCtid |-> preserve, parent |-> <<>>, on |-> {}, parentKey |-> <<>>]

\* Fault: only the first columns are compared.
ForeignKeySourceOnFirst(name, columns, foreign, parentKey) ==
    [PlainSource(name, columns, TRUE) EXCEPT !.parent = foreign.parent,
        !.on = {<<Head(foreign.columns), Head(foreign.referenced)>>}, !.parentKey = parentKey]

\* direct_foreign_key_source: its rows are known by their ctid, whatever the option says.
ForeignKeySource(name, columns, foreign, parentKey) ==
    [PlainSource(name, columns, TRUE) EXCEPT !.parent = foreign.parent,
        !.on = {<<foreign.columns[i], foreign.referenced[i]>> : i \in DOMAIN foreign.columns}, !.parentKey = parentKey]

\* concat_ws('|', COALESCE(column, '<NULL>'), ...)
Concatenated(columns, row) ==
    FlattenSeq([i \in DOMAIN columns |->
        (IF i = 1 THEN <<>> ELSE <<"|">>) \o (IF row.values[columns[i]] = Null THEN <<"<NULL>">> ELSE row.values[columns[i]])])

Projected(source, row) ==
    [alias \in {RowId} \cup ToSet(source.columns) |->
        IF alias = RowId THEN IF source.byCtid THEN row.ctid ELSE Concatenated(source.columns, row)
        ELSE row.values[alias]]
ProjectedParent(source, parent) ==
    [alias \in {ParentRowId} \cup {ParentKey(i) : i \in DOMAIN source.parentKey} |->
        IF alias = ParentRowId THEN parent.ctid ELSE parent.values[source.parentKey[alias[2]]]]
Merged(left, right) == [alias \in DOMAIN left \cup DOMAIN right |-> IF alias \in DOMAIN left THEN left[alias] ELSE right[alias]]

RowsOfSource(source, database) ==
    IF source.parent = <<>> THEN {Projected(source, row) : row \in database[source.name].rows}
    ELSE {Merged(Projected(source, pair[1]), ProjectedParent(source, pair[2])) :
            pair \in {p \in database[source.name].rows \X database[source.parent].rows :
                        \A on \in source.on : Same(p[1].values[on[1]], p[2].values[on[2]])}}

\* PostgreSQL refuses a statement over what is not there; a view has no ctid.
Refused(source, database) ==
    LET relation == CatalogOf(database, source.name)
        parent == CatalogOf(database, source.parent)
    IN  \/ ~(ToSet(source.columns) \subseteq ToSet(relation.columns)) \/ relation.kind = "none"
        \/ source.byCtid /\ relation.kind = "view"
        \/ /\ source.parent # <<>>
           /\ \/ parent.kind # "table"
              \/ ~({on[2] : on \in source.on} \cup ToSet(source.parentKey) \subseteq ToSet(parent.columns))

-----------------------------------------------------------------------------
(* Mapping::from_direct_mapping.                                             *)

Rule(subject, predicate, object, source) ==
    [subject |-> subject, predicate |-> predicate, object |-> object, source |-> source]
Class(name) == Template("iri", Escape(name), <<>>)
EscapeEach(names) == [i \in DOMAIN names |-> Escape(names[i])]
TypePredicate == <<"type">>
ColumnPredicate(name, column) == <<"column", name, column>>
ReferencePredicate(name, columns) == <<"ref", name>> \o columns

\* direct_subject
Subject(relation) ==
    IF relation.key = <<>> THEN BlankTemplate(relation.name, RowId)
    ELSE IriTemplate(relation.name, relation.key, relation.key)

\* Fault: a parent is known by what its child refers to.
ForeignRuleByReference(relation, foreign, parent, preserve) ==
    LET keyless == parent.key = <<>>
    IN  Rule(Subject(relation), ReferencePredicate(Escape(relation.name), EscapeEach(foreign.columns)),
             IF keyless THEN BlankTemplate(Escape(foreign.parent), ParentRowId)
             ELSE IriTemplate(foreign.parent, foreign.referenced, foreign.columns),
             IF keyless THEN ForeignKeySource(relation.name, relation.columns, foreign, <<>>)
             ELSE PlainSource(relation.name, relation.columns, preserve))

\* The parent is a blank node, or has the key referred to, or another one.
ForeignRule(relation, foreign, parent, preserve) ==
    LET keyless == parent.key = <<>>
        direct == parent.key = foreign.referenced
    IN  Rule(Subject(relation), ReferencePredicate(Escape(relation.name), EscapeEach(foreign.columns)),
             IF keyless THEN BlankTemplate(Escape(foreign.parent), ParentRowId)
             ELSE IF direct THEN IriTemplate(foreign.parent, foreign.referenced, foreign.columns)
             ELSE IriTemplate(foreign.parent, parent.key, [i \in DOMAIN parent.key |-> ParentKey(i)]),
             IF ~keyless /\ direct THEN PlainSource(relation.name, relation.columns, preserve)
             ELSE ForeignKeySource(relation.name, relation.columns, foreign, parent.key))

\* What is read of a relation, last if it is listed twice.
IsGiven(metadata, name) == \E i \in DOMAIN metadata : metadata[i].name = name
Given(metadata, name) == metadata[Max({i \in DOMAIN metadata : metadata[i].name = name})]

RulesOfRelation(relation, metadata, preserve) ==
    LET source == PlainSource(relation.name, relation.columns, preserve)
    IN  <<Rule(Subject(relation), TypePredicate, Class(relation.name), source)>>
        \o [i \in DOMAIN relation.columns |->
                Rule(Subject(relation), ColumnPredicate(Escape(relation.name), Escape(relation.columns[i])),
                     Template("literal", <<>>, <<Slot(<<>>, relation.columns[i])>>), source)]
        \o [i \in DOMAIN relation.foreign |->
                ForeignRule(relation, relation.foreign[i], Given(metadata, relation.foreign[i].parent), preserve)]

DirectRules(metadata, preserve) ==
    FlattenSeq([i \in DOMAIN metadata |-> RulesOfRelation(metadata[i], metadata, preserve)])

\* Fault: a relation without columns is taken for an empty one.
MetadataFailsButForEmpty(metadata) ==
    \E relation \in ToSet(metadata) : \E foreign \in ToSet(relation.foreign) : ~IsGiven(metadata, foreign.parent)

\* validate_direct_relation_metadata
MetadataFails(metadata) ==
    \E relation \in ToSet(metadata) :
        \/ relation.columns = <<>>
        \/ ~(ToSet(relation.key) \subseteq ToSet(relation.columns))
        \/ \E foreign \in ToSet(relation.foreign) :
            \/ foreign.columns = <<>> \/ Len(foreign.columns) # Len(foreign.referenced)
            \/ ~(ToSet(foreign.columns) \subseteq ToSet(relation.columns))
            \/ ~IsGiven(metadata, foreign.parent)
            \/ ~(ToSet(foreign.referenced) \subseteq ToSet(Given(metadata, foreign.parent).columns))

-----------------------------------------------------------------------------
(* What PostgreSQL keeps.                                                    *)

Text == Seq(STRING)
\* No column is called like those the statements add (__rtop_direct_...).
ColumnOK(column) == column \in Text \ {<<>>} /\ Head(column) \notin {"row id", "parent row id", "parent key"}

\* A row has a text or NULL in every column, never NULL in its key.
RowOK(row, relation) ==
    /\ DOMAIN row.values = ToSet(relation.columns)
    /\ \A column \in ToSet(relation.columns) : row.values[column] \in Text
    /\ \A column \in ToSet(relation.key) : row.values[column] # Null
    /\ row.ctid \in Text \ {Null} /\ "-" \notin ToSet(row.ctid)

Referenced(database, foreign, row) ==
    {parent \in database[foreign.parent].rows :
        \A i \in DOMAIN foreign.columns : Same(row.values[foreign.columns[i]], parent.values[foreign.referenced[i]])}

\* A foreign key pairs columns of two tables; a row that has them all refers to a row.
ForeignOK(foreign, relation, database) ==
    /\ foreign.columns \in Seq(ToSet(relation.columns)) \ {<<>>}
    /\ foreign.parent \in DOMAIN database /\ database[foreign.parent].kind = "table"
    /\ foreign.referenced \in Seq(ToSet(database[foreign.parent].columns))
    /\ Len(foreign.columns) = Len(foreign.referenced)
    /\ \A row \in relation.rows :
        (\A i \in DOMAIN foreign.columns : row.values[foreign.columns[i]] # Null) => Referenced(database, foreign, row) # {}

RelationOK(relation, database) ==
    /\ relation.kind \in {"table", "view"}
    /\ relation.columns \in Seq(ToSet(relation.columns)) /\ \A column \in ToSet(relation.columns) : ColumnOK(column)
    /\ relation.key \in Seq(ToSet(relation.columns))
    /\ relation.foreign \in Seq(ToSet(relation.foreign))
    /\ relation.kind = "view" => relation.key = <<>> /\ relation.foreign = <<>>
    /\ \A row \in relation.rows : RowOK(row, relation)
    /\ \A one, other \in relation.rows : one.id = other.id => one = other
    /\ \A foreign \in ToSet(relation.foreign) : ForeignOK(foreign, relation, database)

DatabaseOK(database) == \A name \in DOMAIN database : name \in Text \ {<<>>} /\ RelationOK(database[name], database)

(* There is a database, at every moment one that PostgreSQL accepts, and a     *)
(* configuration lists some relation (load_configuration).                     *)
ASSUME WorldAssumption ==
    \A world \in Worlds :
        /\ world.databases \in Seq(ToSet(world.databases)) \ {<<>>}
        /\ \A database \in ToSet(world.databases) : DatabaseOK(database)
        /\ world.relations \in Seq(Text) \ {<<>>}
        /\ world.preserve \in BOOLEAN

-----------------------------------------------------------------------------
Init ==
    \E world \in Worlds :
        /\ databases = world.databases
        /\ version = 1
        /\ options = [relations |-> world.relations, preserve |-> world.preserve]
        /\ runtime = [at |-> "columns", metadata |-> <<>>, rules |-> <<>>, found |-> {}, until |-> 1, failed |-> "no"]

At(step) == runtime.at = step
Becomes(state) == runtime' = state /\ UNCHANGED <<databases, version, options>>
Failing == [runtime EXCEPT !.at = "failed", !.failed = runtime.at, !.until = version]

\* The relation whose catalog entries are read, and the one they are of.
Asked == options.relations[Len(runtime.metadata) + 1]
Current == Len(runtime.metadata)

\* PostgresDataSource::relation_metadata: three statements for each relation.
ReadColumns ==
    /\ At("columns")
    /\ Becomes([runtime EXCEPT !.at = "key",
                               !.metadata = Append(@, [name |-> Asked, columns |-> CatalogOf(Database, Asked).columns, key |-> <<>>, foreign |-> <<>>])])

ReadPrimaryKey ==
    /\ At("key")
    /\ Becomes([runtime EXCEPT !.at = "foreign keys", !.metadata[Current].key = CatalogOf(Database, runtime.metadata[Current].name).key])

\* Fault: the catalog is not left after the last relation.
ReadForeignKeysOfFirst ==
    /\ At("foreign keys")
    /\ Becomes([runtime EXCEPT !.at = "columns", !.metadata[Current].foreign = CatalogOf(Database, runtime.metadata[Current].name).foreign])

ReadForeignKeys ==
    /\ At("foreign keys")
    /\ Becomes([runtime EXCEPT !.at = IF Current = Len(options.relations) THEN "plan" ELSE "columns",
                               !.metadata[Current].foreign = CatalogOf(Database, runtime.metadata[Current].name).foreign])

Plan ==
    /\ At("plan")
    /\ Becomes(IF MetadataFails(runtime.metadata) THEN Failing
               ELSE [runtime EXCEPT !.at = "ask", !.rules = DirectRules(runtime.metadata, options.preserve)])

\* A rule's statement. A row with a NULL gives no triple.
Answers(rule, database) ==
    {<<TermOf(rule.subject, row), rule.predicate, TermOf(rule.object, row)>> :
        row \in {r \in RowsOfSource(rule.source, database) : ~IsNull(rule.subject, r) /\ ~IsNull(rule.object, r)}}

Ask ==
    /\ At("ask") /\ runtime.rules # <<>>
    /\ LET rule == Head(runtime.rules)
       IN  Becomes(IF Refused(rule.source, Database) THEN Failing
                   ELSE [runtime EXCEPT !.rules = Tail(@), !.found = @ \cup Answers(rule, Database)])

Answer ==
    /\ At("ask") /\ runtime.rules = <<>>
    /\ Becomes([runtime EXCEPT !.at = "answered", !.until = version])

\* Another client changes the database.
Alter ==
    /\ version < Len(databases)
    /\ version' = version + 1
    /\ UNCHANGED <<databases, options, runtime>>

Next == ReadColumns \/ ReadPrimaryKey \/ ReadForeignKeys \/ Plan \/ Ask \/ Answer \/ Alter

Spec == Init /\ [][Next]_vars
=============================================================================
