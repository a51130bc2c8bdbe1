--------------------------- MODULE MCDirectMapping ---------------------------
(* Instances of the Direct Mapping for TLC.                                    *)
EXTENDS DirectMappingProperties, TLC

A == <<"a">>
B == <<"b">>
T == <<"t">>
U == <<"u">>

\* Rows of two columns.
Row(id, left, right) == [id |-> id, partition |-> 1, ctid |-> <<"(", id, ")">>, values |-> (A :> left) @@ (B :> right)]
Moved(row, ctid) == [row EXCEPT !.ctid = ctid]
Two(key, foreign, rows) == Relation("table", <<A, B>>, key, foreign, rows)

One == <<"1">>
OnePoint == <<"1", ".00">>
\* What PostgreSQL accepts: keys are unique and not null, references are met.
KeyOf(relation, row) == [i \in DOMAIN relation.key |-> ValueOf(row.values[relation.key[i]])]
Keeps(database) ==
    \A name \in DOMAIN database :
        LET relation == database[name]
        IN  /\ \A row \in relation.rows, column \in ToSet(relation.key) : row.values[column] # Null
            /\ relation.key # <<>> => \A one, other \in relation.rows : KeyOf(relation, one) = KeyOf(relation, other) => one = other
            /\ \A foreign \in ToSet(relation.foreign) : \A row \in relation.rows :
                \/ \E column \in ToSet(foreign.columns) : row.values[column] = Null
                \/ Cardinality(Referenced(database, foreign, row)) = 1

World(databases_, relations, preserve) == [databases |-> databases_, relations |-> relations, preserve |-> preserve]

\* One relation with two rows.
Pairs ==
    {<<One, One>>, <<One, Null>>, <<Null, One>>, <<One, <<"<NULL>">>>>, <<<<"1", "|", "1">>, One>>, <<One, <<"1", "|", "1">>>>,
     <<<<"1", ";", "b", "=", "2">>, <<"3">>>>, <<One, <<"2", ";", "b", "=", "3">>>>, <<One, OnePoint>>, <<<<"2">>, <<"a", " ", "b">>>>}
Alone ==
    {World(<<name :> Two(key, <<>>, {Row("1", one[1], one[2]), Row("2", other[1], other[2])})>>, <<name>>, preserve) :
        key \in {<<>>, <<A>>, <<A, B>>}, one \in Pairs, other \in Pairs, preserve \in BOOLEAN, name \in {T, <<"t", " ", "1">>}}

\* A child that refers to a parent.
ForeignKeys(parent) == {<<>>, <<Foreign(<<A>>, parent, <<A>>)>>, <<Foreign(<<B>>, parent, <<A>>)>>, <<Foreign(<<A, B>>, parent, <<B, A>>)>>}
Parented ==
    {<<Two(key, <<>>, {Row("1", One, values[1]), Row("2", <<"2">>, values[2])}), Two(childKey, <<>>, {Row("3", child[1], child[2])})>> :
        key \in {<<>>, <<A>>, <<B>>, <<A, B>>}, childKey \in {<<>>, <<A>>},
        values \in {<<One, One>>, <<One, <<"2">>>>, <<<<"2">>, One>>, <<OnePoint, Null>>}, child \in {One, <<"2">>, Null, OnePoint} \X {One, <<"2">>, Null}}
Families ==
    UNION {{World(<<(chosen[1] :> pair[1]) @@ (U :> [pair[2] EXCEPT !.foreign = foreign])>>, <<chosen[1], U>>, chosen[2]) :
                pair \in Parented, foreign \in ForeignKeys(chosen[1])} :
           chosen \in {<<T, TRUE>>, <<T, FALSE>>, <<<<"t", " ", "1">>, TRUE>>}}

\* Rows of partitions, of tables whose names run into their rows, of a view.
Particular ==
    {World(<<T :> Two(<<>>, <<>>, {Row("1", One, One), [Row("2", One, One) EXCEPT !.partition = 2, !.ctid = Row("1", One, One).ctid]})>>, <<T>>, preserve) :
        preserve \in BOOLEAN}
    \cup {World(<<(T :> Two(<<>>, <<>>, {Row("1", <<"1", "-", "2">>, One)})) @@ (<<"t", "-", "1">> :> Two(<<>>, <<>>, {Row("2", <<"2">>, One)}))>>,
                <<T, <<"t", "-", "1">>>>, preserve) : preserve \in BOOLEAN}
    \cup {World(<<T :> Relation("view", <<A, B>>, <<>>, <<>>, {Row("1", One, Null)})>>, <<T>>, preserve) : preserve \in BOOLEAN}
    \cup {World(<<(T :> Two(<<A>>, <<>>, {})) @@ (U :> Two(<<>>, <<Foreign(<<A>>, T, <<A>>)>>, {}))>>, relations, TRUE) : relations \in {<<<<"v">>>>, <<U>>, <<U, T>>, <<T, U, T>>}}
    \cup {World(<<U :> Two(<<>>, <<Foreign(<<A>>, U, <<A>>)>>, {Row("1", One, Null), Row("2", Null, Null)})>>, <<U>>, preserve) : preserve \in BOOLEAN}

\* The database changes meanwhile: rows move, come and go, keys are dropped.
Parents == {Row("1", One, One), Row("2", <<"2">>, One)}
Children == {Row("3", One, One), Row("4", One, <<"2">>)}
Pair(key, childKey, columns, parents, children) ==
    (T :> Two(key, <<>>, parents)) @@ (U :> Two(childKey, <<Foreign(columns, T, columns)>>, children))
Histories(key, childKey, columns) ==
    LET P(parents, children) == Pair(key, childKey, columns, parents, children)
        moved == Moved(Row("1", One, One), <<"(", "9", ")">>)
    IN  {<<P(Parents, Children), P({moved, Row("2", <<"2">>, One)}, Children), P({moved}, Children)>>,
         <<P(Parents, Children), P(Parents, {}), P({Row("2", <<"2">>, One)}, {}),
           P({Row("2", <<"2">>, One), Moved(Row("5", One, One), <<"(", "1", ")">>)}, {Moved(Row("6", One, One), <<"(", "3", ")">>)})>>,
         <<P(Parents, {Row("3", One, One)}), P(Parents, {Row("3", <<"2">>, One)}), P({Row("2", <<"2">>, One)}, {Row("3", <<"2">>, One)})>>,
         <<P(Parents, Children), Pair(<<>>, <<>>, columns, Parents, Children), T :> Two(<<>>, <<>>, Parents)>>}
Changing ==
    UNION {{World(history, relations, preserve) : history \in Histories(key, childKey, columns), relations \in {<<T, U>>, <<U, T>>}, preserve \in BOOLEAN} :
        key \in {<<>>, <<A>>, <<A, B>>}, childKey \in {<<>>, <<A, B>>}, columns \in {<<A>>, <<A, B>>}}

SomeWorlds == {world \in Alone \cup Families \cup Particular \cup Changing : \A i \in DOMAIN world.databases : Keeps(world.databases[i])}
=============================================================================
