------------------------ MODULE DirectMappingProofs ------------------------
(***************************************************************************)
(* The Direct Mapping finds the direct graph, for every schema, every      *)
(* content and every change of it meanwhile. First what the runtime has    *)
(* read and found so far, then what a rule says of one database.           *)
(***************************************************************************)
EXTENDS DirectMappingProperties, DataProofs

Fields == {"at", "metadata", "rules", "found", "until", "failed"}
Entry == {"name", "columns", "key", "foreign"}

(* What sequences and the variables are.                                       *)
LEMMA SequenceDomain ==
    ASSUME NEW S, NEW s \in Seq(S)
    PROVE DOMAIN s = 1..Len(s) /\ Len(s) \in Nat /\ \A i \in DOMAIN s : s[i] \in S /\ s[i] \in ToSet(s)
    BY DEF ToSet

(* What the variables are.                                                     *)
LEMMA Typed ==
    ASSUME TypeOK
    PROVE /\ DOMAIN databases = 1..Len(databases) /\ Len(databases) \in Nat /\ version \in 1..Len(databases)
          /\ \A v \in 1..Len(databases) : DatabaseOK(databases[v])
          /\ options.relations \in Seq(Text) /\ Len(options.relations) \in Nat
          /\ DOMAIN runtime = Fields /\ runtime.at \in Steps
          /\ runtime.metadata \in Seq(ToSet(runtime.metadata)) /\ runtime.rules \in Seq(ToSet(runtime.rules))
          /\ Current = Len(runtime.metadata) /\ Current \in Nat /\ DOMAIN runtime.metadata = 1..Current
          /\ \A i \in 1..Current : DOMAIN runtime.metadata[i] = Entry
<1>1. databases \in Seq(ToSet(databases)) /\ version \in DOMAIN databases
      /\ \A v \in DOMAIN databases : DatabaseOK(databases[v])
    BY DEF TypeOK
<1>2. options.relations \in Seq(Text) /\ runtime.metadata \in Seq(ToSet(runtime.metadata)) /\ runtime.rules \in Seq(ToSet(runtime.rules))
    BY DEF TypeOK
<1>3. DOMAIN databases = 1..Len(databases) /\ Len(databases) \in Nat /\ Len(options.relations) \in Nat
      /\ DOMAIN runtime.metadata = 1..Len(runtime.metadata) /\ Len(runtime.metadata) \in Nat
    BY <1>1, <1>2, SequenceDomain
<1>4. DOMAIN runtime = Fields /\ runtime.at \in Steps /\ \A i \in DOMAIN runtime.metadata : DOMAIN runtime.metadata[i] = Entry
    BY DEF TypeOK, Fields, Entry
<1>. QED
    BY <1>1, <1>2, <1>3, <1>4 DEF Current

(* What is left of a sequence.                                                 *)
LEMMA TailElements ==
    ASSUME NEW S, NEW s \in Seq(S), s # <<>>
    PROVE Tail(s) \in Seq(S)
    OBVIOUS

(* The moments of a runtime that goes on, or that is about to end, stay.       *)
LEMMA SameMoments ==
    ASSUME TypeOK, ~Ended, UNCHANGED <<databases, version>>, ~Ended' \/ runtime'.until = version
    PROVE Moments' = Moments
    BY DEF Moments, Ended

(* There are always some, and all are databases PostgreSQL accepts.            *)
LEMMA MomentsOK ==
    ASSUME TypeOK
    PROVE /\ databases[1] \in Moments
          /\ ~Ended => Database \in Moments
          /\ \A database \in Moments : DatabaseOK(database)
<1>1. version \in 1..Len(databases) /\ Len(databases) \in Nat /\ \A v \in 1..Len(databases) : DatabaseOK(databases[v])
    BY Typed
<1>2. Ended => runtime.until \in 1..version
    BY DEF TypeOK
<1>3. PICK n : n = IF Ended THEN runtime.until ELSE version
    OBVIOUS
<1>4. n \in 1..version /\ Moments = {databases[v] : v \in 1..n} /\ (~Ended => n = version)
    BY <1>1, <1>2, <1>3 DEF Moments
<1>. QED
    BY <1>1, <1>4 DEF Database

(* The initial states.                                                         *)
LEMMA Begins == Init => IInv
<1> SUFFICES ASSUME Init PROVE IInv
    OBVIOUS
<1>1. PICK world \in Worlds :
        /\ databases = world.databases
        /\ version = 1
        /\ options = [relations |-> world.relations, preserve |-> world.preserve]
        /\ runtime = [at |-> "columns", metadata |-> <<>>, rules |-> <<>>, found |-> {}, until |-> 1, failed |-> "no"]
    BY DEF Init
<1>2. /\ databases \in Seq(ToSet(databases)) /\ databases # <<>>
      /\ \A database \in ToSet(databases) : DatabaseOK(database)
      /\ options.relations \in Seq(Text) \ {<<>>} /\ options.preserve \in BOOLEAN
    BY <1>1, WorldAssumption
<1>3. 1 \in DOMAIN databases /\ \A v \in DOMAIN databases : databases[v] \in ToSet(databases)
    BY <1>2, SequenceDomain
<1>4. /\ DOMAIN runtime = {"at", "metadata", "rules", "found", "until", "failed"}
      /\ runtime.at = "columns" /\ runtime.metadata = <<>> /\ runtime.rules = <<>> /\ runtime.found = {}
    BY <1>1
<1>5. Len(options.relations) \in Nat \ {0}
    BY <1>2
<1>6. <<>> \in Seq(ToSet(<<>>)) /\ DOMAIN <<>> = {} /\ Len(<<>>) = 0
    OBVIOUS
<1>7. TypeOK
    <2>1. Current = 0 /\ DOMAIN runtime.metadata = {} /\ ~Ended /\ ~At("key") /\ ~At("foreign keys") /\ ~At("plan") /\ ~At("ask")
        BY <1>4, <1>6 DEF Current, Ended, At
    <2>2. databases \in Seq(ToSet(databases)) /\ (\A v \in DOMAIN databases : DatabaseOK(databases[v])) /\ version \in DOMAIN databases
        BY <1>1, <1>2, <1>3
    <2>3. runtime.metadata \in Seq(ToSet(runtime.metadata)) /\ runtime.rules \in Seq(ToSet(runtime.rules))
        BY <1>4, <1>6
    <2>4. runtime.at \in Steps
        BY <1>4 DEF Steps
    <2>5. /\ Current <= Len(options.relations)
          /\ \A i \in DOMAIN runtime.metadata :
                DOMAIN runtime.metadata[i] = {"name", "columns", "key", "foreign"} /\ runtime.metadata[i].name = options.relations[i]
          /\ At("columns") => Current < Len(options.relations)
        <3>1. Current <= Len(options.relations) /\ Current < Len(options.relations) /\ DOMAIN runtime.metadata = {}
            BY <1>4, <1>5, <1>6 DEF Current
        <3>. QED
            BY <3>1
    <2>. QED
        BY <1>2, <1>4, <2>1, <2>2, <2>3, <2>4, <2>5 DEF TypeOK
<1>. QED
    BY <1>4, <1>6, <1>7 DEF IInv, ReadAtSomeMoment, FoundSoFar, FailedFor, At

-----------------------------------------------------------------------------
(* Reading the catalog.                                                      *)

(* The columns of the next relation are read.                                  *)
LEMMA ReadColumnsKeeps == IInv /\ ReadColumns => IInv'
<1> SUFFICES ASSUME IInv, ReadColumns PROVE IInv'
    OBVIOUS
<1> DEFINE entry == [name |-> Asked, columns |-> CatalogOf(Database, Asked).columns, key |-> <<>>, foreign |-> <<>>]
<1>1. /\ runtime.at = "columns" /\ runtime' = [runtime EXCEPT !.at = "key", !.metadata = Append(@, entry)]
      /\ UNCHANGED <<databases, version, options>>
    BY DEF ReadColumns, At, Becomes
<1>2. DOMAIN entry = Entry /\ entry.name = Asked /\ entry.columns = CatalogOf(Database, Asked).columns
    BY DEF Entry
<1> HIDE DEF entry
<1>3. TypeOK /\ DOMAIN runtime = Fields
    BY DEF IInv, TypeOK, Fields
<1>4. DOMAIN runtime' = Fields /\ runtime'.at = "key" /\ runtime'.rules = runtime.rules /\ runtime'.metadata = Append(runtime.metadata, entry)
    BY <1>1, <1>3 DEF Fields
<1>5. /\ Len(runtime.metadata) \in Nat /\ Len(runtime.metadata) < Len(options.relations)
      /\ runtime.metadata \in Seq(ToSet(runtime.metadata))
    BY <1>1, <1>3 DEF TypeOK, Current, At
<1>6. /\ runtime'.metadata \in Seq(ToSet(runtime'.metadata)) /\ Len(runtime'.metadata) = Len(runtime.metadata) + 1
      /\ DOMAIN runtime'.metadata = 1..Len(runtime.metadata) + 1
      /\ \A i \in DOMAIN runtime'.metadata : runtime'.metadata[i] = IF i = Len(runtime.metadata) + 1 THEN entry ELSE runtime.metadata[i]
    <2>1. runtime.metadata \in Seq(ToSet(runtime.metadata) \cup {entry})
        BY <1>5
    <2>2. runtime'.metadata \in Seq(ToSet(runtime.metadata) \cup {entry})
        BY <1>4, <2>1
    <2>3. DOMAIN runtime.metadata = 1..Len(runtime.metadata)
        BY <1>3, Typed DEF Current
    <2>4. runtime'.metadata \in Seq(ToSet(runtime'.metadata))
        BY <2>2, SequenceOfItself
    <2>5. Len(runtime'.metadata) = Len(runtime.metadata) + 1 /\ DOMAIN runtime'.metadata = 1..Len(runtime.metadata) + 1
        BY <1>4, <1>5, <2>1
    <2>6. \A i \in 1..Len(runtime.metadata) + 1 : runtime'.metadata[i] = IF i = Len(runtime.metadata) + 1 THEN entry ELSE runtime.metadata[i]
        BY <1>4, <1>5, <2>1
    <2>. QED
        BY <2>4, <2>5, <2>6
<1>7. ~Ended /\ ~Ended' /\ Moments' = Moments
    BY <1>1, <1>3, <1>4, SameMoments DEF Ended
<1>8. TypeOK'
    BY <1>1, <1>2, <1>3, <1>4, <1>5, <1>6, <1>7 DEF TypeOK, Fields, Entry, Steps, Current, At, Asked
<1>9. ReadAtSomeMoment'
    <2> SUFFICES ASSUME NEW i \in DOMAIN runtime'.metadata
                 PROVE LET relation == runtime'.metadata[i]
                       IN  /\ \E database \in Moments : relation.columns = CatalogOf(database, relation.name).columns
                           /\ i = Len(runtime.metadata) + 1
                              \/ \E database \in Moments : relation.key = CatalogOf(database, relation.name).key
                           /\ i = Len(runtime.metadata) + 1
                              \/ \E database \in Moments : relation.foreign = CatalogOf(database, relation.name).foreign
        BY <1>4, <1>6, <1>7 DEF ReadAtSomeMoment, Current, At, CatalogOf
    <2>1. CASE i = Len(runtime.metadata) + 1
        BY <1>2, <1>3, <1>6, <1>7, <2>1, MomentsOK
    <2>2. CASE i # Len(runtime.metadata) + 1
        <3>1. i \in DOMAIN runtime.metadata /\ runtime'.metadata[i] = runtime.metadata[i]
            BY <1>5, <1>6, <2>2
        <3>. QED
            BY <1>1, <3>1 DEF IInv, ReadAtSomeMoment, At
    <2>. QED
        BY <2>1, <2>2
<1>. QED
    BY <1>1, <1>3, <1>4, <1>8, <1>9 DEF IInv, FoundSoFar, FailedFor, At, Fields

(* Part of an entry is written.                                                *)
LEMMA EntryWritten ==
    ASSUME TypeOK, Current > 0, NEW t, t \in {"key", "foreign"}, NEW x, NEW at,
           runtime' = [runtime EXCEPT !.at = at, !.metadata = [runtime.metadata EXCEPT ![Current] = [runtime.metadata[Current] EXCEPT ![t] = x]]]
    PROVE /\ DOMAIN runtime' = Fields /\ runtime'.at = at /\ runtime'.rules = runtime.rules /\ runtime'.found = runtime.found
          /\ runtime'.metadata \in Seq(ToSet(runtime'.metadata)) /\ Len(runtime'.metadata) = Current
          /\ DOMAIN runtime'.metadata = DOMAIN runtime.metadata
          /\ \A i \in DOMAIN runtime.metadata : i # Current => runtime'.metadata[i] = runtime.metadata[i]
          /\ DOMAIN runtime'.metadata[Current] = Entry /\ runtime'.metadata[Current][t] = x
          /\ \A other \in Entry \ {t} : runtime'.metadata[Current][other] = runtime.metadata[Current][other]
<1> DEFINE old == runtime.metadata[Current]
           new == [old EXCEPT ![t] = x]
<1>1. /\ DOMAIN runtime = Fields /\ Current \in Nat /\ Current = Len(runtime.metadata) /\ Current \in DOMAIN runtime.metadata
      /\ DOMAIN runtime.metadata = 1..Current
      /\ runtime.metadata \in Seq(ToSet(runtime.metadata)) /\ DOMAIN old = Entry
    BY Typed
<1>2. /\ runtime'.metadata = [runtime.metadata EXCEPT ![Current] = new]
      /\ DOMAIN runtime' = Fields /\ runtime'.at = at /\ runtime'.rules = runtime.rules /\ runtime'.found = runtime.found
    BY <1>1 DEF Fields
<1>3. DOMAIN new = Entry /\ new[t] = x /\ \A other \in Entry \ {t} : new[other] = old[other]
    BY <1>1 DEF Entry
<1> HIDE DEF new
<1>4. runtime'.metadata \in Seq(ToSet(runtime.metadata) \cup {new}) /\ Len(runtime'.metadata) = Current
    BY <1>1, <1>2
<1>5. runtime'.metadata \in Seq(ToSet(runtime'.metadata))
    BY <1>4, SequenceOfItself
<1>6. DOMAIN runtime'.metadata = DOMAIN runtime.metadata /\ runtime'.metadata[Current] = new
      /\ \A i \in DOMAIN runtime.metadata : i # Current => runtime'.metadata[i] = runtime.metadata[i]
    BY <1>1, <1>2
<1>. QED
    BY <1>2, <1>3, <1>4, <1>5, <1>6

(* The runtime stays where it may be.                                          *)
LEMMA WritingTyped ==
    ASSUME TypeOK, Current > 0, Current <= Len(options.relations), UNCHANGED <<databases, version, options>>,
           DOMAIN runtime' = Fields, runtime'.rules = runtime.rules,
           \/ runtime'.at = "foreign keys"
           \/ runtime'.at = IF Current = Len(options.relations) THEN "plan" ELSE "columns",
           runtime'.metadata \in Seq(ToSet(runtime'.metadata)), Len(runtime'.metadata) = Current,
           DOMAIN runtime'.metadata = DOMAIN runtime.metadata,
           \A i \in DOMAIN runtime.metadata : i # Current => runtime'.metadata[i] = runtime.metadata[i],
           DOMAIN runtime'.metadata[Current] = Entry, runtime'.metadata[Current].name = runtime.metadata[Current].name
    PROVE TypeOK'
<1>1. Current' = Current /\ Current \in Nat /\ Len(options.relations) \in Nat
    BY Typed DEF Current
<1>2. /\ databases' \in Seq(ToSet(databases')) /\ (\A v \in DOMAIN databases' : DatabaseOK(databases'[v])) /\ version' \in DOMAIN databases'
      /\ options'.relations \in Seq(Text) \ {<<>>} /\ options'.preserve \in BOOLEAN
    BY DEF TypeOK
<1>3. runtime'.metadata \in Seq(ToSet(runtime'.metadata)) /\ runtime'.rules \in Seq(ToSet(runtime'.rules)) /\ runtime'.at \in Steps
    BY Typed DEF Steps
<1>4. \A i \in DOMAIN runtime'.metadata : DOMAIN runtime'.metadata[i] = Entry /\ runtime'.metadata[i].name = options'.relations[i]
    BY DEF TypeOK, Entry
<1>5. CASE runtime'.at = "foreign keys"
    <2>1. Current' > 0 /\ Current' <= Len(options'.relations)
        BY <1>1
    <2>. QED
        BY <1>2, <1>3, <1>4, <1>5, <2>1 DEF TypeOK, Fields, Entry, Ended, At
<1>6. CASE runtime'.at = "plan" /\ Current = Len(options.relations)
    <2>1. Current' = Len(options'.relations) /\ Current' <= Len(options'.relations)
        BY <1>1, <1>6
    <2>. QED
        BY <1>2, <1>3, <1>4, <1>6, <2>1 DEF TypeOK, Fields, Entry, Ended, At
<1>7. CASE runtime'.at = "columns" /\ Current # Len(options.relations)
    <2>1. Current' < Len(options'.relations) /\ Current' <= Len(options'.relations)
        BY <1>1, <1>7
    <2>. QED
        BY <1>2, <1>3, <1>4, <1>7, <2>1 DEF TypeOK, Fields, Entry, Ended, At
<1>. QED
    BY <1>5, <1>6, <1>7

(* So is the primary key of a relation.                                        *)
LEMMA ReadPrimaryKeyKeeps == IInv /\ ReadPrimaryKey => IInv'
<1> SUFFICES ASSUME IInv, ReadPrimaryKey PROVE IInv'
    OBVIOUS
<1> DEFINE key == CatalogOf(Database, runtime.metadata[Current].name).key
<1>1. runtime.at = "key" /\ TypeOK /\ UNCHANGED <<databases, version, options>>
    BY DEF ReadPrimaryKey, At, Becomes, IInv
<1>2. Current > 0 /\ Current <= Len(options.relations)
    BY <1>1 DEF TypeOK, At
<1>3. runtime' = [runtime EXCEPT !.at = "foreign keys", !.metadata = [runtime.metadata EXCEPT ![Current] = [runtime.metadata[Current] EXCEPT !.key = key]]]
    BY <1>1, Typed DEF ReadPrimaryKey, Becomes, Fields
<1>4. key = CatalogOf(Database, runtime.metadata[Current].name).key
    OBVIOUS
<1> HIDE DEF key
<1>5. /\ DOMAIN runtime' = Fields /\ runtime'.at = "foreign keys" /\ runtime'.rules = runtime.rules /\ runtime'.found = runtime.found
      /\ runtime'.metadata \in Seq(ToSet(runtime'.metadata)) /\ Len(runtime'.metadata) = Current
      /\ DOMAIN runtime'.metadata = DOMAIN runtime.metadata
      /\ \A i \in DOMAIN runtime.metadata : i # Current => runtime'.metadata[i] = runtime.metadata[i]
      /\ DOMAIN runtime'.metadata[Current] = Entry /\ runtime'.metadata[Current].key = key
      /\ \A other \in Entry \ {"key"} : runtime'.metadata[Current][other] = runtime.metadata[Current][other]
    BY <1>1, <1>2, <1>3, EntryWritten
<1>6. ~Ended /\ ~Ended' /\ Moments' = Moments /\ Database \in Moments
    BY <1>1, <1>5, SameMoments, MomentsOK DEF Ended
<1>7. TypeOK'
    <2>1. runtime'.metadata[Current].name = runtime.metadata[Current].name
        BY <1>5 DEF Entry
    <2>. QED
        BY <1>1, <1>2, <1>5, <2>1, WritingTyped
<1>8. ReadAtSomeMoment'
    <2> SUFFICES ASSUME NEW i \in DOMAIN runtime.metadata
                 PROVE LET relation == runtime'.metadata[i]
                       IN  /\ \E database \in Moments : relation.columns = CatalogOf(database, relation.name).columns
                           /\ \E database \in Moments : relation.key = CatalogOf(database, relation.name).key
                           /\ i = Current \/ \E database \in Moments : relation.foreign = CatalogOf(database, relation.name).foreign
        BY <1>5, <1>6 DEF ReadAtSomeMoment, Current, At, CatalogOf
    <2>1. CASE i = Current
        <3>1. runtime'.metadata[i].name = runtime.metadata[i].name /\ runtime'.metadata[i].columns = runtime.metadata[i].columns
            BY <1>5, <2>1 DEF Entry
        <3>. QED
            BY <1>4, <1>5, <1>6, <2>1, <3>1 DEF IInv, ReadAtSomeMoment
    <2>2. CASE i # Current
        BY <1>1, <1>5, <2>2 DEF IInv, ReadAtSomeMoment
    <2>. QED
        BY <2>1, <2>2
<1>. QED
    BY <1>1, <1>5, <1>7, <1>8 DEF IInv, FoundSoFar, FailedFor, At

(* And what it refers to.                                                      *)
LEMMA ReadForeignKeysKeeps == IInv /\ ReadForeignKeys => IInv'
<1> SUFFICES ASSUME IInv, ReadForeignKeys PROVE IInv'
    OBVIOUS
<1> DEFINE foreign == CatalogOf(Database, runtime.metadata[Current].name).foreign
<1>1. runtime.at = "foreign keys" /\ TypeOK /\ UNCHANGED <<databases, version, options>>
    BY DEF ReadForeignKeys, At, Becomes, IInv
<1>2. Current > 0 /\ Current <= Len(options.relations)
    BY <1>1 DEF TypeOK, At
<1>0. PICK next : next = IF Current = Len(options.relations) THEN "plan" ELSE "columns"
    OBVIOUS
<1>3. runtime' = [runtime EXCEPT !.at = next, !.metadata = [runtime.metadata EXCEPT ![Current] = [runtime.metadata[Current] EXCEPT !.foreign = foreign]]]
    BY <1>0, <1>1, Typed DEF ReadForeignKeys, Becomes, Fields
<1>4. foreign = CatalogOf(Database, runtime.metadata[Current].name).foreign
    OBVIOUS
<1> HIDE DEF foreign
<1>5. /\ DOMAIN runtime' = Fields /\ runtime'.at = next /\ runtime'.rules = runtime.rules /\ runtime'.found = runtime.found
      /\ runtime'.metadata \in Seq(ToSet(runtime'.metadata)) /\ Len(runtime'.metadata) = Current
      /\ DOMAIN runtime'.metadata = DOMAIN runtime.metadata
      /\ \A i \in DOMAIN runtime.metadata : i # Current => runtime'.metadata[i] = runtime.metadata[i]
      /\ DOMAIN runtime'.metadata[Current] = Entry /\ runtime'.metadata[Current].foreign = foreign
      /\ \A other \in Entry \ {"foreign"} : runtime'.metadata[Current][other] = runtime.metadata[Current][other]
    BY <1>1, <1>2, <1>3, EntryWritten
<1>6. ~Ended /\ ~Ended' /\ Moments' = Moments /\ Database \in Moments
    BY <1>0, <1>1, <1>5, SameMoments, MomentsOK DEF Ended
<1>7. TypeOK'
    <2>1. runtime'.metadata[Current].name = runtime.metadata[Current].name
        BY <1>5 DEF Entry
    <2>. QED
        BY <1>0, <1>1, <1>2, <1>5, <2>1, WritingTyped
<1>8. ReadAtSomeMoment'
    <2> SUFFICES ASSUME NEW i \in DOMAIN runtime.metadata
                 PROVE LET relation == runtime'.metadata[i]
                       IN  /\ \E database \in Moments : relation.columns = CatalogOf(database, relation.name).columns
                           /\ \E database \in Moments : relation.key = CatalogOf(database, relation.name).key
                           /\ \E database \in Moments : relation.foreign = CatalogOf(database, relation.name).foreign
        BY <1>5, <1>6 DEF ReadAtSomeMoment, Current, At, CatalogOf
    <2>1. CASE i = Current
        <3>1. /\ runtime'.metadata[i].name = runtime.metadata[i].name /\ runtime'.metadata[i].columns = runtime.metadata[i].columns
              /\ runtime'.metadata[i].key = runtime.metadata[i].key
            BY <1>5, <2>1 DEF Entry
        <3>. QED
            BY <1>1, <1>4, <1>5, <1>6, <2>1, <3>1 DEF IInv, ReadAtSomeMoment, At
    <2>2. CASE i # Current
        BY <1>1, <1>5, <2>2 DEF IInv, ReadAtSomeMoment
    <2>. QED
        BY <2>1, <2>2
<1>. QED
    BY <1>0, <1>1, <1>5, <1>7, <1>8 DEF IInv, FoundSoFar, FailedFor, At

-----------------------------------------------------------------------------
(* The rules of a plan.                                                      *)

ClassRule(relation, preserve) ==
    Rule(Subject(relation), TypePredicate, Class(relation.name), PlainSource(relation.name, relation.columns, preserve))
ColumnRule(relation, column, preserve) ==
    Rule(Subject(relation), ColumnPredicate(Escape(relation.name), Escape(column)),
         Template("literal", <<>>, <<Slot(<<>>, column)>>), PlainSource(relation.name, relation.columns, preserve))
ReferenceRule(relation, foreign, metadata, preserve) ==
    ForeignRule(relation, foreign, Given(metadata, foreign.parent), preserve)
RulesAbout(relation, metadata, preserve) ==
    {ClassRule(relation, preserve)}
    \cup {ColumnRule(relation, column, preserve) : column \in ToSet(relation.columns)}
    \cup {ReferenceRule(relation, foreign, metadata, preserve) : foreign \in ToSet(relation.foreign)}

(* A relation has these rules.                                                 *)
LEMMA RulesOfOne ==
    ASSUME NEW relation, NEW metadata, NEW preserve, NEW C, relation.columns \in Seq(C), NEW F, relation.foreign \in Seq(F)
    PROVE /\ RulesOfRelation(relation, metadata, preserve) \in Seq(RulesAbout(relation, metadata, preserve))
          /\ ToSet(RulesOfRelation(relation, metadata, preserve)) = RulesAbout(relation, metadata, preserve)
<1> DEFINE all == RulesAbout(relation, metadata, preserve)
           a == <<ClassRule(relation, preserve)>>
           f == [i \in DOMAIN relation.columns |-> ColumnRule(relation, relation.columns[i], preserve)]
           g == [i \in DOMAIN relation.foreign |-> ReferenceRule(relation, relation.foreign[i], metadata, preserve)]
<1>1. RulesOfRelation(relation, metadata, preserve) = a \o f \o g
    BY DEF RulesOfRelation, ClassRule, ColumnRule, ReferenceRule
<1>2. /\ DOMAIN relation.columns = 1..Len(relation.columns) /\ Len(relation.columns) \in Nat
      /\ DOMAIN relation.foreign = 1..Len(relation.foreign) /\ Len(relation.foreign) \in Nat
    BY SequenceDomain
<1>3. ToSet(f) = {ColumnRule(relation, column, preserve) : column \in ToSet(relation.columns)} /\ \A i \in DOMAIN f : f[i] \in ToSet(f)
    BY DEF ToSet
<1>4. ToSet(g) = {ReferenceRule(relation, foreign, metadata, preserve) : foreign \in ToSet(relation.foreign)}
      /\ \A i \in DOMAIN g : g[i] \in ToSet(g)
    BY DEF ToSet
<1>5. a \in Seq(all) /\ ToSet(a) = {ClassRule(relation, preserve)}
    BY DEF ToSet, RulesAbout
<1>6. ToSet(f) \subseteq all /\ ToSet(g) \subseteq all
    BY <1>3, <1>4 DEF RulesAbout
<1>11. DOMAIN f = 1..Len(relation.columns) /\ f = [i \in 1..Len(relation.columns) |-> f[i]]
    BY <1>2
<1>12. DOMAIN g = 1..Len(relation.foreign) /\ g = [i \in 1..Len(relation.foreign) |-> g[i]]
    BY <1>2
<1> HIDE DEF a, f, g, all
<1>7. f \in Seq(all)
    <2>1. f \in Seq(ToSet(f))
        BY <1>2, <1>11, AsSequence
    <2>. QED
        BY <1>6, <2>1
<1>8. g \in Seq(all)
    <2>1. g \in Seq(ToSet(g))
        BY <1>2, <1>12, AsSequence
    <2>. QED
        BY <1>6, <2>1
<1>9. a \o f \in Seq(all) /\ ToSet(a \o f) = ToSet(a) \cup ToSet(f)
    BY <1>5, <1>7, ConcatElements
<1>13. PICK af : af = a \o f
    OBVIOUS
<1>10. af \o g \in Seq(all) /\ ToSet(af \o g) = ToSet(af) \cup ToSet(g)
    <2>1. af \in Seq(all)
        BY <1>9, <1>13
    <2>. QED
        BY <1>8, <2>1, ConcatElements
<1>. QED
    BY <1>1, <1>3, <1>4, <1>5, <1>9, <1>10, <1>13 DEF all, RulesAbout

(* The rules of a plan are those of its relations.                             *)
LEMMA RulesOfAll ==
    ASSUME NEW M, NEW metadata \in Seq(M), NEW preserve,
           \A i \in DOMAIN metadata : metadata[i].columns \in Seq(ToSet(metadata[i].columns)) /\ metadata[i].foreign \in Seq(ToSet(metadata[i].foreign))
    PROVE /\ DirectRules(metadata, preserve) \in Seq(ToSet(DirectRules(metadata, preserve)))
          /\ ToSet(DirectRules(metadata, preserve)) = UNION {RulesAbout(metadata[i], metadata, preserve) : i \in DOMAIN metadata}
<1> DEFINE S == UNION {RulesAbout(metadata[i], metadata, preserve) : i \in DOMAIN metadata}
           rules == [i \in DOMAIN metadata |-> RulesOfRelation(metadata[i], metadata, preserve)]
<1>1. \A i \in DOMAIN metadata : rules[i] \in Seq(RulesAbout(metadata[i], metadata, preserve)) /\ ToSet(rules[i]) = RulesAbout(metadata[i], metadata, preserve)
    BY RulesOfOne
<1>2. \A i \in DOMAIN metadata : RulesAbout(metadata[i], metadata, preserve) \subseteq S
    OBVIOUS
<1> HIDE DEF S
<1>3. \A i \in DOMAIN metadata : rules[i] \in Seq(S)
    BY <1>1, <1>2
<1>4. DOMAIN metadata = 1..Len(metadata) /\ Len(metadata) \in Nat
    BY SequenceDomain
<1>5. rules \in Seq(Seq(S)) /\ DOMAIN rules = DOMAIN metadata
    BY <1>3, <1>4
<1>6. DirectRules(metadata, preserve) = FlattenSeq(rules)
    BY DEF DirectRules
<1> HIDE DEF rules
<1>7. FlattenSeq(rules) \in Seq(S) /\ ToSet(FlattenSeq(rules)) = UNION {ToSet(rules[i]) : i \in DOMAIN rules}
    BY <1>5, FlattenElements
<1>8. ToSet(FlattenSeq(rules)) = S
    BY <1>1, <1>5, <1>7 DEF S
<1>. QED
    BY <1>6, <1>7, <1>8 DEF S

-----------------------------------------------------------------------------
(* Planning and asking.                                                      *)

(* What the catalog says of a relation are sequences.                          *)
LEMMA CatalogSequences ==
    ASSUME NEW database, DatabaseOK(database), NEW name
    PROVE LET relation == CatalogOf(database, name)
          IN  relation.columns \in Seq(ToSet(relation.columns)) /\ relation.key \in Seq(ToSet(relation.key))
              /\ relation.foreign \in Seq(ToSet(relation.foreign))
<1>1. CASE name \in DOMAIN database
    <2>1. RelationOK(database[name], database)
        BY <1>1 DEF DatabaseOK
    <2>2. database[name].columns \in Seq(ToSet(database[name].columns)) /\ database[name].foreign \in Seq(ToSet(database[name].foreign))
        BY <2>1 DEF RelationOK
    <2>3. database[name].key \in Seq(ToSet(database[name].columns))
        BY <2>1 DEF RelationOK
    <2>4. database[name].key \in Seq(ToSet(database[name].key))
        BY <2>3, SequenceOfItself
    <2>. QED
        BY <1>1, <2>2, <2>4 DEF CatalogOf
<1>2. CASE name \notin DOMAIN database
    BY <1>2 DEF CatalogOf, NoRelation, Relation
<1>. QED
    BY <1>1, <1>2

(* So is what the runtime has read when it has read everything.                *)
LEMMA ReadEverything ==
    ASSUME TypeOK, ReadAtSomeMoment, runtime.at \notin {"columns", "key", "foreign keys"}
    PROVE \A i \in DOMAIN runtime.metadata :
            LET relation == runtime.metadata[i]
            IN  /\ \E database \in Moments : relation.columns = CatalogOf(database, relation.name).columns
                /\ \E database \in Moments : relation.key = CatalogOf(database, relation.name).key
                /\ \E database \in Moments : relation.foreign = CatalogOf(database, relation.name).foreign
                /\ relation.columns \in Seq(ToSet(relation.columns)) /\ relation.key \in Seq(ToSet(relation.key))
                /\ relation.foreign \in Seq(ToSet(relation.foreign))
<1>1. \A i \in DOMAIN runtime.metadata :
            LET relation == runtime.metadata[i]
            IN  /\ \E database \in Moments : relation.columns = CatalogOf(database, relation.name).columns
                /\ \E database \in Moments : relation.key = CatalogOf(database, relation.name).key
                /\ \E database \in Moments : relation.foreign = CatalogOf(database, relation.name).foreign
    BY DEF ReadAtSomeMoment, At
<1>2. \A database \in Moments : \A name : LET relation == CatalogOf(database, name)
          IN  relation.columns \in Seq(ToSet(relation.columns)) /\ relation.key \in Seq(ToSet(relation.key))
              /\ relation.foreign \in Seq(ToSet(relation.foreign))
    BY MomentsOK, CatalogSequences
<1>. QED
    BY <1>1, <1>2

(* The rules of what was read.                                                 *)
LEMMA RulesRead ==
    ASSUME TypeOK, ReadAtSomeMoment, runtime.at \notin {"columns", "key", "foreign keys"}
    PROVE /\ Rules \in Seq(ToSet(Rules))
          /\ ToSet(Rules) = UNION {RulesAbout(runtime.metadata[i], runtime.metadata, options.preserve) : i \in DOMAIN runtime.metadata}
<1>1. runtime.metadata \in Seq(ToSet(runtime.metadata))
    BY Typed
<1>2. \A i \in DOMAIN runtime.metadata : /\ runtime.metadata[i].columns \in Seq(ToSet(runtime.metadata[i].columns))
                                          /\ runtime.metadata[i].foreign \in Seq(ToSet(runtime.metadata[i].foreign))
    BY ReadEverything
<1>. QED
    BY <1>1, <1>2, RulesOfAll DEF Rules

(* A step that leaves the database and what was read alone.                    *)
LEMMA GoingOn ==
    ASSUME TypeOK, ReadAtSomeMoment, runtime.at \in {"plan", "ask"}, UNCHANGED <<databases, version, options>>,
           DOMAIN runtime' = Fields, runtime'.metadata = runtime.metadata, runtime'.rules \in Seq(ToSet(runtime'.rules)),
           runtime'.at = "ask" \/ (runtime'.at \in {"answered", "failed"} /\ runtime'.until = version)
    PROVE TypeOK' /\ ReadAtSomeMoment' /\ Moments' = Moments /\ Rules' = Rules /\ Database \in Moments
<1>1. ~Ended /\ (~Ended' \/ runtime'.until = version)
    BY DEF Ended
<1>2. Moments' = Moments
    BY <1>1, SameMoments
<1>3. Current' = Current /\ Current \in Nat /\ Current = Len(options.relations) /\ Current' <= Len(options'.relations)
    <2>1. Current' = Current /\ Current \in Nat /\ Current = Len(options.relations)
        BY Typed DEF TypeOK, Current, At
    <2>. QED
        BY <2>1
<1>4. version \in 1..version
    BY Typed
<1>5. TypeOK'
    BY <1>3, <1>4 DEF TypeOK, Fields, Steps, At, Ended
<1>6. ReadAtSomeMoment'
    BY <1>2, ReadEverything DEF ReadAtSomeMoment, At, CatalogOf
<1>. QED
    BY <1>1, <1>2, <1>5, <1>6, MomentsOK DEF Rules

(* A plan is made of all that was read, or of none of it.                      *)
LEMMA PlanKeeps == IInv /\ Plan => IInv'
<1> SUFFICES ASSUME IInv, Plan PROVE IInv'
    OBVIOUS
<1>1. runtime.at = "plan" /\ TypeOK /\ ReadAtSomeMoment /\ UNCHANGED <<databases, version, options>> /\ DOMAIN runtime = Fields
      /\ runtime.found = {}
    BY Typed DEF IInv, Plan, At, Becomes, FoundSoFar
<1>2. CASE MetadataFails(runtime.metadata)
    <2>1. /\ DOMAIN runtime' = Fields /\ runtime'.metadata = runtime.metadata /\ runtime'.rules = runtime.rules
          /\ runtime'.at = "failed" /\ runtime'.failed = "plan" /\ runtime'.until = version
        BY <1>1, <1>2 DEF Plan, Becomes, Failing, Fields
    <2>2. TypeOK' /\ ReadAtSomeMoment'
        BY <1>1, <2>1, Typed, GoingOn
    <2>3. FoundSoFar'
        BY <2>1 DEF FoundSoFar, At
    <2>4. FailedFor'
        BY <1>2, <2>1 DEF FailedFor
    <2>. QED
        BY <2>2, <2>3, <2>4 DEF IInv
<1>3. CASE ~MetadataFails(runtime.metadata)
    <2>1. /\ DOMAIN runtime' = Fields /\ runtime'.metadata = runtime.metadata /\ runtime'.rules = Rules
          /\ runtime'.at = "ask" /\ runtime'.found = {}
        BY <1>1, <1>3 DEF Plan, Becomes, Rules, Fields
    <2>2. Rules \in Seq(ToSet(Rules))
        BY <1>1, RulesRead
    <2>3. TypeOK' /\ ReadAtSomeMoment' /\ Moments' = Moments /\ Rules' = Rules
        BY <1>1, <2>1, <2>2, GoingOn
    <2>4. FoundSoFar'
        BY <1>3, <2>1, <2>3 DEF FoundSoFar, At
    <2>5. FailedFor'
        BY <2>1 DEF FailedFor, At
    <2>. QED
        BY <2>3, <2>4, <2>5 DEF IInv
<1>. QED
    BY <1>2, <1>3

(* What a statement answers is of the database as it is then.                  *)
LEMMA AskKeeps == IInv /\ Ask => IInv'
<1> SUFFICES ASSUME IInv, Ask PROVE IInv'
    OBVIOUS
<1>1. PICK rule : rule = Head(runtime.rules)
    OBVIOUS
<1>2. /\ runtime.at = "ask" /\ TypeOK /\ ReadAtSomeMoment /\ UNCHANGED <<databases, version, options>> /\ DOMAIN runtime = Fields
      /\ runtime.rules \in Seq(ToSet(runtime.rules)) /\ runtime.rules # <<>>
    BY Typed DEF IInv, Ask, At, Becomes
<1>3. /\ ~MetadataFails(runtime.metadata) /\ ToSet(runtime.rules) \subseteq ToSet(Rules)
      /\ runtime.found \subseteq UNION {UNION {Answers(r, database) : database \in AnsweredAt(r)} : r \in ToSet(Rules)}
      /\ \A r \in ToSet(Rules) \ ToSet(runtime.rules) : \E database \in AnsweredAt(r) : Answers(r, database) \subseteq runtime.found
    BY <1>2 DEF IInv, FoundSoFar, At
<1>4. rule \in ToSet(runtime.rules)
    <2>1. 1 \in DOMAIN runtime.rules /\ Head(runtime.rules) = runtime.rules[1]
        BY <1>2
    <2>. QED
        BY <1>1, <1>2, <2>1, SequenceDomain
<1>5. CASE Refused(rule.source, Database)
    <2>1. /\ DOMAIN runtime' = Fields /\ runtime'.metadata = runtime.metadata /\ runtime'.rules = runtime.rules
          /\ runtime'.at = "failed" /\ runtime'.failed = "ask" /\ runtime'.until = version
        BY <1>1, <1>2, <1>5 DEF Ask, Becomes, Failing, Fields
    <2>2. TypeOK' /\ ReadAtSomeMoment' /\ Moments' = Moments /\ Rules' = Rules /\ Database \in Moments
        BY <1>2, <2>1, GoingOn
    <2>3. FoundSoFar'
        BY <2>1 DEF FoundSoFar, At
    <2>4. FailedFor'
        BY <1>3, <1>4, <1>5, <2>1, <2>2 DEF FailedFor
    <2>. QED
        BY <2>2, <2>3, <2>4 DEF IInv
<1>6. CASE ~Refused(rule.source, Database)
    <2>1. /\ DOMAIN runtime' = Fields /\ runtime'.metadata = runtime.metadata /\ runtime'.rules = Tail(runtime.rules)
          /\ runtime'.at = "ask" /\ runtime'.found = runtime.found \cup Answers(rule, Database)
        BY <1>1, <1>2, <1>6 DEF Ask, Becomes, Fields
    <2>2. Tail(runtime.rules) \in Seq(ToSet(Tail(runtime.rules)))
        <3>1. Tail(runtime.rules) \in Seq(ToSet(runtime.rules))
            BY <1>2, TailElements
        <3>. QED
            BY <3>1, SequenceOfItself
    <2>3. ToSet(runtime.rules) \subseteq ToSet(Tail(runtime.rules)) \cup {rule}
        <3> SUFFICES ASSUME NEW i \in DOMAIN runtime.rules PROVE runtime.rules[i] \in ToSet(Tail(runtime.rules)) \cup {rule}
            BY DEF ToSet
        <3>1. i \in 1..Len(runtime.rules) /\ Len(runtime.rules) \in Nat
            BY <1>2, SequenceDomain
        <3>2. CASE i = 1
            BY <1>1, <1>2, <3>2
        <3>3. CASE i # 1
            <4>1. i - 1 \in DOMAIN Tail(runtime.rules) /\ Tail(runtime.rules)[i - 1] = runtime.rules[i]
                BY <1>2, <3>1, <3>3
            <4>. QED
                BY <2>2, <4>1, SequenceDomain
        <3>. QED
            BY <3>2, <3>3
    <2>4. ToSet(Tail(runtime.rules)) \subseteq ToSet(runtime.rules)
        <3>1. Tail(runtime.rules) \in Seq(ToSet(runtime.rules))
            BY <1>2, TailElements
        <3>. QED
            BY <3>1, SequenceOfItself
    <2>5. TypeOK' /\ ReadAtSomeMoment' /\ Moments' = Moments /\ Rules' = Rules /\ Database \in Moments
        BY <1>2, <2>1, <2>2, GoingOn
    <2>6. Database \in AnsweredAt(rule) /\ rule \in ToSet(Rules)
        BY <1>3, <1>4, <1>6, <2>5 DEF AnsweredAt
    <2>7. \A r : AnsweredAt(r)' = AnsweredAt(r)
        BY <2>5 DEF AnsweredAt
    <2>8. FoundSoFar'
        <3>1. \A r \in ToSet(Rules) \ ToSet(runtime'.rules) : \E database \in AnsweredAt(r) : Answers(r, database) \subseteq runtime'.found
            BY <1>3, <2>1, <2>3, <2>6
        <3>2. runtime'.found \subseteq UNION {UNION {Answers(r, database) : database \in AnsweredAt(r)} : r \in ToSet(Rules)}
            BY <1>3, <2>1, <2>6
        <3>. QED
            BY <1>3, <2>1, <2>4, <2>5, <2>7, <3>1, <3>2 DEF FoundSoFar, At
    <2>9. FailedFor'
        BY <2>1 DEF FailedFor, At
    <2>. QED
        BY <2>5, <2>8, <2>9 DEF IInv
<1>. QED
    BY <1>5, <1>6

(* The runtime answers when every rule was asked.                              *)
LEMMA AnswerKeeps == IInv /\ Answer => IInv'
<1> SUFFICES ASSUME IInv, Answer PROVE IInv'
    OBVIOUS
<1>1. /\ runtime.at = "ask" /\ TypeOK /\ ReadAtSomeMoment /\ UNCHANGED <<databases, version, options>> /\ DOMAIN runtime = Fields
      /\ runtime.rules \in Seq(ToSet(runtime.rules)) /\ runtime.rules = <<>>
    BY Typed DEF IInv, Answer, At, Becomes
<1>2. /\ DOMAIN runtime' = Fields /\ runtime'.metadata = runtime.metadata /\ runtime'.rules = runtime.rules
      /\ runtime'.at = "answered" /\ runtime'.found = runtime.found /\ runtime'.until = version
    BY <1>1 DEF Answer, Becomes, Fields
<1>3. TypeOK' /\ ReadAtSomeMoment' /\ Moments' = Moments /\ Rules' = Rules
    BY <1>1, <1>2, GoingOn
<1>4. \A r : AnsweredAt(r)' = AnsweredAt(r)
    BY <1>3 DEF AnsweredAt
<1>5. FoundSoFar'
    BY <1>1, <1>2, <1>3, <1>4 DEF IInv, FoundSoFar, At
<1>6. FailedFor'
    BY <1>2 DEF FailedFor, At
<1>. QED
    BY <1>3, <1>5, <1>6 DEF IInv

(* What was read and found stays so while there are more moments.              *)
LEMMA MoreMoments ==
    ASSUME ReadAtSomeMoment, FoundSoFar, FailedFor, UNCHANGED <<databases, options, runtime>>, Moments \subseteq Moments'
    PROVE ReadAtSomeMoment' /\ FoundSoFar' /\ FailedFor'
<1>1. UNCHANGED <<databases, options, runtime>> /\ Moments \subseteq Moments'
    OBVIOUS
<1>6. Rules' = Rules /\ \A r : AnsweredAt(r) \subseteq AnsweredAt(r)'
    BY <1>1 DEF Rules, AnsweredAt
<1>7. ReadAtSomeMoment'
    BY <1>1 DEF ReadAtSomeMoment, Current, At, CatalogOf
<1>8. FoundSoFar'
    <2>1. CASE ~(At("ask") \/ At("answered"))
        BY <1>1, <2>1 DEF FoundSoFar, At
    <2>2. CASE At("ask") \/ At("answered")
        <3>1. /\ ~MetadataFails(runtime.metadata) /\ ToSet(runtime.rules) \subseteq ToSet(Rules)
              /\ At("answered") => runtime.rules = <<>>
              /\ runtime.found \subseteq UNION {UNION {Answers(r, database) : database \in AnsweredAt(r)} : r \in ToSet(Rules)}
              /\ \A r \in ToSet(Rules) \ ToSet(runtime.rules) : \E database \in AnsweredAt(r) : Answers(r, database) \subseteq runtime.found
            BY <2>2 DEF FoundSoFar
        <3>2. \A r \in ToSet(Rules) \ ToSet(runtime.rules) : \E database \in AnsweredAt(r)' : Answers(r, database) \subseteq runtime.found
            <4> TAKE r \in ToSet(Rules) \ ToSet(runtime.rules)
            <4>1. PICK database \in AnsweredAt(r) : Answers(r, database) \subseteq runtime.found
                BY <3>1
            <4>2. database \in AnsweredAt(r)'
                BY <1>6, <4>1
            <4>. QED
                BY <4>1, <4>2
        <3>3. ASSUME NEW triple \in runtime.found
              PROVE \E r \in ToSet(Rules) : \E database \in AnsweredAt(r)' : triple \in Answers(r, database)
            <4>1. PICK r \in ToSet(Rules) : \E database \in AnsweredAt(r) : triple \in Answers(r, database)
                BY <3>1
            <4>2. PICK database \in AnsweredAt(r) : triple \in Answers(r, database)
                BY <4>1
            <4>3. database \in AnsweredAt(r)'
                BY <1>6, <4>2
            <4>. QED
                BY <4>2, <4>3
        <3>4. runtime.found \subseteq UNION {UNION {Answers(r, database) : database \in AnsweredAt(r)'} : r \in ToSet(Rules)}
            BY <3>3
        <3>5. \A r : AnsweredAt(r)' = {database \in Moments' : ~Refused(r.source, database)}
            BY DEF AnsweredAt
        <3>6. runtime'.rules = runtime.rules /\ runtime'.found = runtime.found /\ runtime'.metadata = runtime.metadata /\ runtime'.at = runtime.at
            BY <1>1
        <3>7. At("ask")' = At("ask") /\ At("answered")' = At("answered")
            BY <3>6 DEF At
        <3>. QED
            BY <1>6, <2>2, <3>1, <3>2, <3>4, <3>6, <3>7 DEF FoundSoFar, At
    <2>. QED
        BY <2>1, <2>2
<1>9. FailedFor'
    BY <1>1, <1>6 DEF FailedFor, At
<1>. QED
    BY <1>7, <1>8, <1>9

(* The database changes: what was is still a moment of it.                     *)
LEMMA AlterKeeps == IInv /\ Alter => IInv'
<1> SUFFICES ASSUME IInv, Alter PROVE IInv'
    OBVIOUS
<1>1. /\ version' = version + 1 /\ version < Len(databases) /\ UNCHANGED <<databases, options, runtime>> /\ TypeOK
      /\ version \in 1..Len(databases) /\ Len(databases) \in Nat /\ DOMAIN databases = 1..Len(databases)
    BY Typed DEF IInv, Alter
<1>2. version' \in DOMAIN databases'
    BY <1>1
<1>3. Ended => runtime.until \in 1..version /\ runtime.until \in 1..version'
    <2>1. ASSUME Ended PROVE runtime.until \in 1..version
        BY <1>1, <2>1 DEF TypeOK
    <2>2. 1..version \subseteq 1..version'
        BY <1>1
    <2>. QED
        BY <2>1, <2>2
<1>4. TypeOK'
    BY <1>1, <1>2, <1>3 DEF TypeOK, Steps, Current, At, Ended
<1>5. Moments \subseteq Moments'
    <2>1. PICK n : n = IF Ended THEN runtime.until ELSE version
        OBVIOUS
    <2>2. PICK m : m = IF Ended THEN runtime.until ELSE version'
        OBVIOUS
    <2>3. Moments = {databases[v] : v \in 1..n} /\ Moments' = {databases[v] : v \in 1..m}
        BY <1>1, <2>1, <2>2 DEF Moments, Ended
    <2>4. 1..n \subseteq 1..m
        <3>1. CASE Ended
            BY <2>1, <2>2, <3>1
        <3>2. CASE ~Ended
            <4>1. 1..version \subseteq 1..version'
                BY <1>1
            <4>. QED
                BY <2>1, <2>2, <3>2, <4>1
        <3>. QED
            BY <3>1, <3>2
    <2>. QED
        BY <2>3, <2>4
<1>6. ReadAtSomeMoment' /\ FoundSoFar' /\ FailedFor'
    BY <1>1, <1>5, MoreMoments DEF IInv
<1>. QED
    BY <1>4, <1>6 DEF IInv

(* Nothing happens.                                                            *)
LEMMA StutterKeeps == IInv /\ UNCHANGED vars => IInv'
<1> SUFFICES ASSUME IInv, UNCHANGED <<databases, version, options, runtime>> PROVE IInv'
    BY DEF vars
<1>1. Moments' = Moments
    BY DEF Moments, Ended
<1>2. TypeOK'
    BY DEF IInv, TypeOK, Steps, Current, At, Ended
<1>3. ReadAtSomeMoment' /\ FoundSoFar' /\ FailedFor'
    BY <1>1, MoreMoments DEF IInv
<1>. QED
    BY <1>2, <1>3 DEF IInv

(* What is read was in the catalog and what is found was in the database when  *)
(* it was asked for, whatever the database does meanwhile.                     *)
THEOREM InvariantHolds == Spec => []IInv
<1>1. IInv /\ [Next]_vars => IInv'
    BY ReadColumnsKeeps, ReadPrimaryKeyKeeps, ReadForeignKeysKeeps, PlanKeeps, AskKeeps, AnswerKeeps, AlterKeeps, StutterKeeps DEF Next
<1>. QED
    BY <1>1, Begins, PTL DEF Spec

-----------------------------------------------------------------------------
(* While the schema is one, what was read is the catalog.                    *)

(* The greatest number of a range that has a property.                         *)
LEMMA GreatestNumber ==
    ASSUME NEW n \in Nat, NEW T, T \subseteq 1..n, T # {}
    PROVE Max(T) \in T
<1>1. PICK k \in {n - j : j \in T} : \A m \in {n - j : j \in T} : k <= m
    BY LeastNumber, {n - j : j \in T} \subseteq Nat, {n - j : j \in T} # {}
<1>2. PICK x \in T : k = n - x
    BY <1>1
<1>3. \A y \in T : x >= y
    <2> TAKE y \in T
    <2>1. k <= n - y
        BY <1>1
    <2>2. x \in Nat /\ y \in Nat
        <3>1. x \in 1..n /\ y \in 1..n
            BY <1>2
        <3>. QED
            BY <3>1
    <2>. QED
        BY <1>2, <2>1, <2>2
<1>. QED
    BY <1>2, <1>3 DEF Max

(* What is given is an entry of that name.                                     *)
LEMMA GivenIs ==
    ASSUME NEW M, NEW metadata \in Seq(M), NEW name, IsGiven(metadata, name)
    PROVE \E i \in DOMAIN metadata : metadata[i].name = name /\ Given(metadata, name) = metadata[i]
<1> DEFINE T == {i \in DOMAIN metadata : metadata[i].name = name}
<1>1. T \subseteq 1..Len(metadata) /\ Len(metadata) \in Nat /\ T # {}
    BY SequenceDomain DEF IsGiven
<1>2. Max(T) \in T
    BY <1>1, GreatestNumber
<1>. QED
    BY <1>2 DEF Given

\* An entry of what was read, as the catalog of a database has it.
Reads(relation, database) ==
    LET catalog == CatalogOf(database, relation.name)
    IN  relation.columns = catalog.columns /\ relation.key = catalog.key /\ relation.foreign = catalog.foreign
AllRead(metadata, database) ==
    /\ metadata \in Seq(ToSet(metadata))
    /\ \A i \in DOMAIN metadata : metadata[i].name \in Relations /\ Reads(metadata[i], database)
    /\ \A name \in Relations : \E i \in DOMAIN metadata : metadata[i].name = name

(* What was read is the catalog of every moment.                               *)
LEMMA ReadIsCatalog ==
    ASSUME TypeOK, ReadAtSomeMoment, Ended, SameSchema
    PROVE \A database \in Moments : AllRead(runtime.metadata, database)
<1> TAKE database \in Moments
<1>1. runtime.at \notin {"columns", "key", "foreign keys"} /\ runtime.metadata \in Seq(ToSet(runtime.metadata))
    BY Typed DEF Ended
<1>2. DOMAIN runtime.metadata = DOMAIN options.relations
    <2>1. Current = Len(options.relations) /\ DOMAIN runtime.metadata = 1..Current
        BY Typed DEF TypeOK
    <2>2. DOMAIN options.relations = 1..Len(options.relations)
        BY Typed, SequenceDomain
    <2>. QED
        BY <2>1, <2>2
<1>3. \A i \in DOMAIN runtime.metadata : runtime.metadata[i].name = options.relations[i] /\ options.relations[i] \in Relations
    BY <1>2 DEF TypeOK, Relations, ToSet
<1>4. \A name \in Relations : \E i \in DOMAIN runtime.metadata : runtime.metadata[i].name = name
    BY <1>2, <1>3 DEF Relations, ToSet
<1>5. ASSUME NEW other \in Moments, NEW name \in Relations
      PROVE  SchemaOf(CatalogOf(other, name)) = SchemaOf(CatalogOf(database, name))
    <2>1. Schema(other) = Schema(database)
        BY DEF SameSchema
    <2>2. Schema(other)[name] = SchemaOf(CatalogOf(other, name)) /\ Schema(database)[name] = SchemaOf(CatalogOf(database, name))
        BY DEF Schema
    <2>. QED
        BY <2>1, <2>2
<1>6. ASSUME NEW i \in DOMAIN runtime.metadata PROVE Reads(runtime.metadata[i], database)
    <2>1. runtime.metadata[i].name \in Relations
        BY <1>3
    <2>2. \A other \in Moments : LET name == runtime.metadata[i].name
            IN  /\ CatalogOf(other, name).columns = CatalogOf(database, name).columns
                /\ CatalogOf(other, name).key = CatalogOf(database, name).key
                /\ CatalogOf(other, name).foreign = CatalogOf(database, name).foreign
        BY <1>5, <2>1 DEF SchemaOf
    <2>. QED
        BY <1>1, <2>2, ReadEverything DEF Reads
<1>. QED
    BY <1>1, <1>3, <1>4, <1>6 DEF AllRead

(* What is given is what the catalog says.                                     *)
LEMMA GivenReads ==
    ASSUME NEW metadata, NEW database, AllRead(metadata, database), NEW name
    PROVE /\ IsGiven(metadata, name) <=> name \in Relations
          /\ IsGiven(metadata, name) => Given(metadata, name).name = name /\ Reads(Given(metadata, name), database)
<1>1. IsGiven(metadata, name) <=> name \in Relations
    BY DEF IsGiven, AllRead
<1>2. ASSUME IsGiven(metadata, name) PROVE Given(metadata, name).name = name /\ Reads(Given(metadata, name), database)
    <2>1. PICK i \in DOMAIN metadata : metadata[i].name = name /\ Given(metadata, name) = metadata[i]
        BY <1>2, GivenIs DEF AllRead
    <2>. QED
        BY <2>1 DEF AllRead
<1>. QED
    BY <1>1, <1>2

(* What a catalog says of a foreign key.                                       *)
LEMMA CatalogForeign ==
    ASSUME NEW database, DatabaseOK(database), NEW name, NEW foreign \in ToSet(CatalogOf(database, name).foreign)
    PROVE /\ name \in DOMAIN database /\ ForeignOK(foreign, database[name], database) /\ database[name].kind = "table"
          /\ foreign.columns # <<>> /\ Len(foreign.columns) = Len(foreign.referenced)
          /\ DOMAIN foreign.columns = 1..Len(foreign.columns) /\ Len(foreign.columns) \in Nat /\ DOMAIN foreign.referenced = DOMAIN foreign.columns
          /\ ToSet(foreign.columns) \subseteq ToSet(database[name].columns)
          /\ foreign.parent \in DOMAIN database /\ foreign.parent # <<>> /\ database[foreign.parent].kind = "table"
          /\ ToSet(foreign.referenced) \subseteq ToSet(database[foreign.parent].columns)
<1>1. name \in DOMAIN database
    BY DEF CatalogOf, NoRelation, Relation, ToSet
<1>2. RelationOK(database[name], database) /\ foreign \in ToSet(database[name].foreign)
    BY <1>1 DEF DatabaseOK, CatalogOf
<1>3. ForeignOK(foreign, database[name], database)
    BY <1>2 DEF RelationOK
<1>4. database[name].kind = "table"
    <2>1. database[name].foreign # <<>>
        BY <1>2 DEF ToSet
    <2>. QED
        BY <1>2, <2>1 DEF RelationOK
<1>5. /\ foreign.columns \in Seq(ToSet(database[name].columns)) /\ foreign.columns # <<>>
      /\ foreign.parent \in DOMAIN database /\ database[foreign.parent].kind = "table"
      /\ foreign.referenced \in Seq(ToSet(database[foreign.parent].columns))
      /\ Len(foreign.columns) = Len(foreign.referenced)
    BY <1>3 DEF ForeignOK
<1>6. /\ ToSet(foreign.columns) \subseteq ToSet(database[name].columns)
      /\ ToSet(foreign.referenced) \subseteq ToSet(database[foreign.parent].columns)
    BY <1>5, SequenceOfItself
<1>7. foreign.parent # <<>>
    BY <1>5 DEF DatabaseOK
<1>8. DOMAIN foreign.columns = 1..Len(foreign.columns) /\ Len(foreign.columns) \in Nat /\ DOMAIN foreign.referenced = DOMAIN foreign.columns
    BY <1>5, SequenceDomain
<1>. QED
    BY <1>1, <1>3, <1>4, <1>5, <1>6, <1>7, <1>8

(* A key is made of columns.                                                   *)
LEMMA CatalogKey ==
    ASSUME NEW database, DatabaseOK(database), NEW name
    PROVE ToSet(CatalogOf(database, name).key) \subseteq ToSet(CatalogOf(database, name).columns)
<1>1. CASE name \in DOMAIN database
    <2>1. database[name].key \in Seq(ToSet(database[name].columns))
        BY <1>1 DEF DatabaseOK, RelationOK
    <2>. QED
        BY <1>1, <2>1, SequenceOfItself DEF CatalogOf
<1>2. CASE name \notin DOMAIN database
    BY <1>2 DEF CatalogOf, NoRelation, Relation, ToSet
<1>. QED
    BY <1>1, <1>2

(* A catalog is refused as it should be.                                       *)
LEMMA PlanFails ==
    ASSUME NEW database, DatabaseOK(database), NEW metadata, AllRead(metadata, database), MetadataFails(metadata)
    PROVE \/ \E name \in Relations : CatalogOf(database, name).columns = <<>>
          \/ \E name \in Relations : \E foreign \in ToSet(CatalogOf(database, name).foreign) : foreign.parent \notin Relations
<1>1. PICK relation \in ToSet(metadata) :
        \/ relation.columns = <<>>
        \/ ~(ToSet(relation.key) \subseteq ToSet(relation.columns))
        \/ \E foreign \in ToSet(relation.foreign) :
            \/ foreign.columns = <<>> \/ Len(foreign.columns) # Len(foreign.referenced)
            \/ ~(ToSet(foreign.columns) \subseteq ToSet(relation.columns))
            \/ ~IsGiven(metadata, foreign.parent)
            \/ ~(ToSet(foreign.referenced) \subseteq ToSet(Given(metadata, foreign.parent).columns))
    BY DEF MetadataFails
<1>2. PICK i \in DOMAIN metadata : relation = metadata[i]
    BY DEF ToSet
<1>3. /\ relation.name \in Relations /\ relation.columns = CatalogOf(database, relation.name).columns
      /\ relation.key = CatalogOf(database, relation.name).key /\ relation.foreign = CatalogOf(database, relation.name).foreign
    BY <1>2 DEF AllRead, Reads
<1>4. CASE relation.columns = <<>>
    BY <1>3, <1>4
<1>5. CASE ~(ToSet(relation.key) \subseteq ToSet(relation.columns))
    BY <1>3, <1>5, CatalogKey
<1>6. ASSUME NEW foreign \in ToSet(relation.foreign),
            \/ foreign.columns = <<>> \/ Len(foreign.columns) # Len(foreign.referenced)
            \/ ~(ToSet(foreign.columns) \subseteq ToSet(relation.columns))
            \/ ~IsGiven(metadata, foreign.parent)
            \/ ~(ToSet(foreign.referenced) \subseteq ToSet(Given(metadata, foreign.parent).columns))
      PROVE foreign.parent \notin Relations
    <2>1. /\ relation.name \in DOMAIN database /\ foreign.columns # <<>> /\ Len(foreign.columns) = Len(foreign.referenced)
          /\ ToSet(foreign.columns) \subseteq ToSet(database[relation.name].columns)
          /\ foreign.parent \in DOMAIN database
          /\ ToSet(foreign.referenced) \subseteq ToSet(database[foreign.parent].columns)
        <3>1. foreign \in ToSet(CatalogOf(database, relation.name).foreign)
            BY <1>3
        <3>. QED
            BY <3>1, CatalogForeign
    <2>2. relation.columns = database[relation.name].columns
        BY <1>3, <2>1 DEF CatalogOf
    <2>3. ASSUME IsGiven(metadata, foreign.parent) PROVE Given(metadata, foreign.parent).columns = database[foreign.parent].columns
        <3>1. Given(metadata, foreign.parent).name = foreign.parent /\ Reads(Given(metadata, foreign.parent), database)
            BY <2>3, GivenReads
        <3>. QED
            BY <2>1, <3>1 DEF Reads, CatalogOf
    <2>4. ~IsGiven(metadata, foreign.parent)
        BY <1>6, <2>1, <2>2, <2>3
    <2>. QED
        BY <2>4, GivenReads
<1>. QED
    BY <1>1, <1>2, <1>3, <1>4, <1>5, <1>6

(* What a rule of a catalog that was not refused asks for.                     *)
LEMMA RuleSource ==
    ASSUME NEW metadata, NEW preserve, NEW i \in DOMAIN metadata, NEW rule \in RulesAbout(metadata[i], metadata, preserve)
    PROVE LET relation == metadata[i] IN
          \/ rule.source = PlainSource(relation.name, relation.columns, preserve)
          \/ \E foreign \in ToSet(relation.foreign) :
                LET key == Given(metadata, foreign.parent).key
                IN  rule.source = ForeignKeySource(relation.name, relation.columns, foreign, key)
<1>1. PICK relation : relation = metadata[i]
    OBVIOUS
<1>2. CASE rule = ClassRule(relation, preserve)
    BY <1>1, <1>2 DEF ClassRule, Rule
<1>3. ASSUME NEW column, rule = ColumnRule(relation, column, preserve)
      PROVE rule.source = PlainSource(relation.name, relation.columns, preserve)
    BY <1>3 DEF ColumnRule, Rule
<1>4. ASSUME NEW foreign \in ToSet(relation.foreign), rule = ReferenceRule(relation, foreign, metadata, preserve)
      PROVE \/ rule.source = PlainSource(relation.name, relation.columns, preserve)
            \/ rule.source = ForeignKeySource(relation.name, relation.columns, foreign, Given(metadata, foreign.parent).key)
    BY <1>4 DEF ReferenceRule, ForeignRule, Rule
<1>. QED
    BY <1>1, <1>2, <1>3, <1>4 DEF RulesAbout

(* The statements of such a rule are refused over a view only.                 *)
LEMMA AskFails ==
    ASSUME NEW database, DatabaseOK(database), NEW metadata, AllRead(metadata, database), ~MetadataFails(metadata),
           NEW preserve \in BOOLEAN, NEW i \in DOMAIN metadata, NEW rule \in RulesAbout(metadata[i], metadata, preserve),
           Refused(rule.source, database)
    PROVE preserve /\ CatalogOf(database, metadata[i].name).kind = "view"
<1>1. PICK relation : relation = metadata[i]
    OBVIOUS
<1>2. PICK name : name = relation.name
    OBVIOUS
<1>3. /\ relation.columns = CatalogOf(database, name).columns /\ relation.foreign = CatalogOf(database, name).foreign
      /\ relation \in ToSet(metadata)
    BY <1>1, <1>2 DEF AllRead, Reads, ToSet
<1>4. relation.columns # <<>>
    BY <1>3 DEF MetadataFails
<1>5. name \in DOMAIN database
    BY <1>3, <1>4 DEF CatalogOf, NoRelation, Relation
<1>6. CatalogOf(database, name) = database[name] /\ database[name].kind \in {"table", "view"}
    BY <1>5 DEF CatalogOf, DatabaseOK, RelationOK
<1>7. CASE rule.source = PlainSource(name, relation.columns, preserve)
    <2>1. rule.source.name = name /\ rule.source.columns = relation.columns /\ rule.source.byCtid = preserve /\ rule.source.parent = <<>>
        BY <1>7 DEF PlainSource
    <2>. QED
        BY <1>1, <1>2, <1>3, <1>6, <2>1 DEF Refused
<1>8. ASSUME NEW foreign \in ToSet(relation.foreign),
             rule.source = ForeignKeySource(name, relation.columns, foreign, Given(metadata, foreign.parent).key)
      PROVE  FALSE
    <2>1. PICK key : key = Given(metadata, foreign.parent).key
        OBVIOUS
    <2>2. /\ rule.source.name = name /\ rule.source.columns = relation.columns /\ rule.source.parent = foreign.parent
          /\ rule.source.on = {<<foreign.columns[j], foreign.referenced[j]>> : j \in DOMAIN foreign.columns}
          /\ rule.source.parentKey = key
        BY <1>8, <2>1 DEF ForeignKeySource, PlainSource
    <2>3. /\ database[name].kind = "table" /\ foreign.parent \in DOMAIN database /\ database[foreign.parent].kind = "table"
          /\ ToSet(foreign.referenced) \subseteq ToSet(database[foreign.parent].columns)
          /\ DOMAIN foreign.referenced = DOMAIN foreign.columns
        BY <1>3, CatalogForeign
    <2>4. IsGiven(metadata, foreign.parent)
        BY <1>3 DEF MetadataFails
    <2>5. Given(metadata, foreign.parent).name = foreign.parent /\ Reads(Given(metadata, foreign.parent), database)
        BY <2>4, GivenReads
    <2>6. CatalogOf(database, foreign.parent) = database[foreign.parent]
        BY <2>3 DEF CatalogOf
    <2>7. ToSet(key) \subseteq ToSet(database[foreign.parent].columns)
        BY <2>1, <2>5, <2>6, CatalogKey DEF Reads
    <2>8. {on[2] : on \in rule.source.on} \subseteq ToSet(foreign.referenced)
        BY <2>2, <2>3 DEF ToSet
    <2>. QED
        BY <1>3, <1>6, <2>2, <2>3, <2>6, <2>7, <2>8 DEF Refused
<1>. QED
    BY <1>1, <1>2, <1>7, <1>8, RuleSource

(* A Direct Mapping is refused, and a statement of it fails, only for reasons  *)
(* that are there (validate_direct_relation_metadata), for every schema and    *)
(* every change of the rows.                                                   *)
THEOREM FailsHold == Spec => []FailsOnlyWhenItMust
<1>1. ASSUME IInv PROVE FailsOnlyWhenItMust
    <2> SUFFICES ASSUME runtime.at = "failed", SameSchema, NEW database \in Moments
                 PROVE  IF runtime.failed = "plan"
                        THEN \/ \E name \in Relations : CatalogOf(database, name).columns = <<>>
                             \/ \E name \in Relations : \E foreign \in ToSet(CatalogOf(database, name).foreign) : foreign.parent \notin Relations
                        ELSE options.preserve /\ \E name \in Relations : CatalogOf(database, name).kind = "view"
        BY DEF FailsOnlyWhenItMust, At
    <2>1. TypeOK /\ ReadAtSomeMoment /\ Ended /\ options.preserve \in BOOLEAN
        BY <1>1 DEF IInv, TypeOK, Ended
    <2>2. \A moment \in Moments : AllRead(runtime.metadata, moment) /\ DatabaseOK(moment)
        BY <2>1, ReadIsCatalog, MomentsOK
    <2>3. CASE runtime.failed = "plan"
        <3>1. MetadataFails(runtime.metadata)
            BY <1>1, <2>3 DEF IInv, FailedFor, At
        <3>. QED
            BY <2>2, <2>3, <3>1, PlanFails
    <2>4. CASE runtime.failed # "plan"
        <3>1. PICK rule \in ToSet(Rules), moment \in Moments : Refused(rule.source, moment)
            BY <1>1, <2>4 DEF IInv, FailedFor, At
        <3>2. ~MetadataFails(runtime.metadata)
            BY <1>1, <2>4 DEF IInv, FailedFor, At
        <3>3. ToSet(Rules) = UNION {RulesAbout(runtime.metadata[i], runtime.metadata, options.preserve) : i \in DOMAIN runtime.metadata}
            BY <2>1, RulesRead DEF Ended
        <3>4. PICK i \in DOMAIN runtime.metadata : rule \in RulesAbout(runtime.metadata[i], runtime.metadata, options.preserve)
            BY <3>1, <3>3
        <3>5. options.preserve /\ CatalogOf(moment, runtime.metadata[i].name).kind = "view"
            BY <2>1, <2>2, <3>1, <3>2, <3>4, AskFails
        <3>6. PICK name \in Relations : name = runtime.metadata[i].name
            BY <2>2 DEF AllRead
        <3>7. Schema(moment) = Schema(database)
            BY DEF SameSchema
        <3>8. Schema(moment)[name] = SchemaOf(CatalogOf(moment, name)) /\ Schema(database)[name] = SchemaOf(CatalogOf(database, name))
            BY DEF Schema
        <3>9. CatalogOf(database, name).kind = CatalogOf(moment, name).kind
            BY <3>7, <3>8 DEF SchemaOf
        <3>. QED
            BY <2>4, <3>5, <3>6, <3>9
    <2>. QED
        BY <2>3, <2>4
<1>. QED
    BY <1>1, InvariantHolds, PTL

-----------------------------------------------------------------------------
(* What a rule says of one database: terms.                                  *)

(* Sequences joined and flattened.                                             *)
LEMMA EmptyJoined ==
    ASSUME NEW S, NEW s \in Seq(S)
    PROVE <<>> \o s = s /\ s \o <<>> = s
    OBVIOUS

(* One text flattened is itself; none is the empty one.                        *)
LEMMA FlattenedOne ==
    ASSUME NEW f, DOMAIN f = 1..1, f = [i \in 1..1 |-> f[i]]
    PROVE FlattenSeq(f) = f[1]
<1>1. f \in Seq(ToSet(f)) /\ Len(f) = 1
    BY AsSequence
<1>. QED
    BY <1>1 DEF FlattenSeq

(* Where there is no ; and no = the texts are escaped as they should be.       *)
LEMMA EscapeIsStandard ==
    ASSUME NEW text \in Text, ~HasSeparator(text)
    PROVE Escape(text) = Standard(text) /\ Escape(text) \in Seq(ToSet(Escape(text)))
<1>1. \A i \in DOMAIN text : text[i] # ";" /\ text[i] # "="
    BY DEF HasSeparator, ToSet
<1>2. DOMAIN StandardEscapes = DOMAIN Escapes \cup {";", "="}
    BY DEF StandardEscapes
<1>3. \A piece \in DOMAIN Escapes \cup {";", "="} : piece # ";" /\ piece # "=" => StandardEscapes[piece] = Escapes[piece]
    BY DEF StandardEscapes
<1>4. \A i \in DOMAIN text : /\ text[i] \in DOMAIN StandardEscapes <=> text[i] \in DOMAIN Escapes
                             /\ text[i] \in DOMAIN Escapes => StandardEscapes[text[i]] = Escapes[text[i]]
    BY <1>1, <1>2, <1>3
<1>5. Escape(text) = Standard(text)
    BY <1>4 DEF Escape, Standard
<1>6. DOMAIN text = 1..Len(text) /\ Len(text) \in Nat
    BY SequenceDomain DEF Text
<1>7. PICK e : e = Escape(text)
    OBVIOUS
<1>8. DOMAIN e = 1..Len(text) /\ e = [i \in 1..Len(text) |-> e[i]]
    BY <1>6, <1>7 DEF Escape
<1>9. e \in Seq(ToSet(e))
    BY <1>6, <1>8, AsSequence
<1>. QED
    BY <1>5, <1>7, <1>9

(* What a row of a source makes of a template: a blank node,                   *)
LEMMA BlankTerm ==
    ASSUME NEW name, NEW alias, NEW p, NEW S, p[alias] \in Seq(S)
    PROVE /\ TermOf(BlankTemplate(name, alias), p) = BlankNode(name \o <<"-">> \o p[alias])
          /\ IsNull(BlankTemplate(name, alias), p) <=> p[alias] = Null
<1>1. PICK template : template = BlankTemplate(name, alias)
    OBVIOUS
<1>2. /\ template.type = "blank" /\ template.head = name \o <<"-">> /\ DOMAIN template.slots = 1..1
      /\ template.slots[1].fixed = <<>> /\ template.slots[1].alias = alias
    BY <1>1 DEF BlankTemplate, Template, Slot
<1> DEFINE f == [i \in DOMAIN template.slots |-> template.slots[i].fixed \o
                    (IF template.type = "iri" THEN Escape(p[template.slots[i].alias]) ELSE p[template.slots[i].alias])]
<1>3. DOMAIN f = 1..1 /\ f = [i \in 1..1 |-> f[i]] /\ f[1] = <<>> \o p[alias]
    <2>1. DOMAIN f = 1..1 /\ f = [i \in 1..1 |-> f[i]]
        BY <1>2
    <2>2. 1 \in DOMAIN template.slots
        BY <1>2
    <2>3. f[1] = template.slots[1].fixed \o (IF template.type = "iri" THEN Escape(p[template.slots[1].alias]) ELSE p[template.slots[1].alias])
        BY <2>2
    <2>. QED
        BY <1>2, <2>1, <2>3
<1>4. TermOf(template, p) = [type |-> template.type, text |-> template.head \o FlattenSeq(f)]
    BY DEF TermOf
<1> HIDE DEF f
<1>5. <<>> \o p[alias] = p[alias]
    BY EmptyJoined
<1>6. FlattenSeq(f) = p[alias]
    BY <1>3, <1>5, FlattenedOne
<1>7. IsNull(template, p) <=> p[alias] = Null
    BY <1>2 DEF IsNull
<1>. QED
    BY <1>1, <1>2, <1>4, <1>6, <1>7 DEF BlankNode

(* a literal,                                                                  *)
LEMMA LiteralTerm ==
    ASSUME NEW alias, NEW p, p[alias] \in Text
    PROVE LET template == Template("literal", <<>>, <<Slot(<<>>, alias)>>)
          IN  TermOf(template, p) = Literal(p[alias]) /\ (IsNull(template, p) <=> p[alias] = Null)
<1>1. PICK template : template = Template("literal", <<>>, <<Slot(<<>>, alias)>>)
    OBVIOUS
<1>2. /\ template.type = "literal" /\ template.head = <<>> /\ DOMAIN template.slots = 1..1
      /\ template.slots[1].fixed = <<>> /\ template.slots[1].alias = alias
    BY <1>1 DEF Template, Slot
<1> DEFINE f == [i \in DOMAIN template.slots |-> template.slots[i].fixed \o
                    (IF template.type = "iri" THEN Escape(p[template.slots[i].alias]) ELSE p[template.slots[i].alias])]
<1>3. DOMAIN f = 1..1 /\ f = [i \in 1..1 |-> f[i]] /\ f[1] = <<>> \o p[alias]
    <2>1. DOMAIN f = 1..1 /\ f = [i \in 1..1 |-> f[i]]
        BY <1>2
    <2>2. 1 \in DOMAIN template.slots
        BY <1>2
    <2>3. f[1] = template.slots[1].fixed \o (IF template.type = "iri" THEN Escape(p[template.slots[1].alias]) ELSE p[template.slots[1].alias])
        BY <2>2
    <2>. QED
        BY <1>2, <2>1, <2>3
<1>4. TermOf(template, p) = [type |-> template.type, text |-> template.head \o FlattenSeq(f)]
    BY DEF TermOf
<1> HIDE DEF f
<1>5. <<>> \o p[alias] = p[alias]
    BY DEF Text
<1>6. FlattenSeq(f) = p[alias]
    BY <1>3, <1>5, FlattenedOne
<1>7. IsNull(template, p) <=> p[alias] = Null
    BY <1>2 DEF IsNull
<1>. QED
    BY <1>1, <1>2, <1>4, <1>5, <1>6, <1>7 DEF Literal

(* a class,                                                                    *)
LEMMA ClassTerm ==
    ASSUME NEW name \in Text, ~HasSeparator(name), NEW p
    PROVE TermOf(Class(name), p) = Iri(Standard(name)) /\ ~IsNull(Class(name), p)
<1>1. PICK template : template = Class(name)
    OBVIOUS
<1>2. template.type = "iri" /\ template.head = Escape(name) /\ template.slots = <<>> /\ DOMAIN template.slots = {}
    BY <1>1 DEF Class, Template
<1> DEFINE f == [i \in DOMAIN template.slots |-> template.slots[i].fixed \o
                    (IF template.type = "iri" THEN Escape(p[template.slots[i].alias]) ELSE p[template.slots[i].alias])]
<1>3. TermOf(template, p) = [type |-> template.type, text |-> template.head \o FlattenSeq(f)]
    BY DEF TermOf
<1>4. f = <<>>
    BY <1>2
<1> HIDE DEF f
<1>5. FlattenSeq(f) = <<>>
    BY <1>4 DEF FlattenSeq
<1>6. Escape(name) = Standard(name) /\ Escape(name) \o <<>> = Escape(name)
    BY EscapeIsStandard, EmptyJoined
<1>7. ~IsNull(template, p)
    BY <1>2 DEF IsNull
<1>. QED
    BY <1>1, <1>2, <1>3, <1>5, <1>6, <1>7 DEF Iri

\* The IRI of a row by its key.
KeyIri(name, key, values) ==
    Iri(Standard(name) \o <<"/">> \o FlattenSeq([i \in DOMAIN key |->
        (IF i = 1 THEN <<>> ELSE <<";">>) \o Standard(key[i]) \o <<"=">> \o Standard(values[i])]))

(* or an IRI.                                                                  *)
LEMMA IriTerm ==
    ASSUME NEW name \in Text, ~HasSeparator(name), NEW key, \A i \in DOMAIN key : key[i] \in Text /\ ~HasSeparator(key[i]),
           NEW aliases, NEW values, NEW p,
           \A i \in DOMAIN key : p[aliases[i]] = values[i] /\ values[i] \in Text,
           (\A i \in DOMAIN key : values[i] # Null) => \A i \in DOMAIN key : ~HasSeparator(values[i])
    PROVE /\ IsNull(IriTemplate(name, key, aliases), p) <=> \E i \in DOMAIN key : values[i] = Null
          /\ ~IsNull(IriTemplate(name, key, aliases), p) => TermOf(IriTemplate(name, key, aliases), p) = KeyIri(name, key, values)
<1>1. PICK template : template = IriTemplate(name, key, aliases)
    OBVIOUS
<1>2. /\ template.type = "iri" /\ template.head = Escape(name) \o <<"/">> /\ DOMAIN template.slots = DOMAIN key
      /\ \A i \in DOMAIN key : /\ template.slots[i].fixed = (IF i = 1 THEN <<>> ELSE <<";">>) \o Escape(key[i]) \o <<"=">>
                               /\ template.slots[i].alias = aliases[i]
    BY <1>1 DEF IriTemplate, Template, Slot
<1>5. \A i \in DOMAIN key : p[template.slots[i].alias] = values[i]
    BY <1>2
<1>3. IsNull(template, p) <=> \E i \in DOMAIN key : values[i] = Null
    <2>1. IsNull(template, p) <=> \E i \in DOMAIN key : p[template.slots[i].alias] = Null
        BY <1>2 DEF IsNull
    <2>. QED
        BY <1>5, <2>1
<1>4. ASSUME \A i \in DOMAIN key : ~HasSeparator(values[i]) PROVE TermOf(template, p) = KeyIri(name, key, values)
    <2> DEFINE f == [i \in DOMAIN template.slots |-> template.slots[i].fixed \o
                        (IF template.type = "iri" THEN Escape(p[template.slots[i].alias]) ELSE p[template.slots[i].alias])]
               g == [i \in DOMAIN key |-> (IF i = 1 THEN <<>> ELSE <<";">>) \o Standard(key[i]) \o <<"=">> \o Standard(values[i])]
    <2>1. TermOf(template, p) = [type |-> template.type, text |-> template.head \o FlattenSeq(f)]
        BY DEF TermOf
    <2>2. \A i \in DOMAIN key : Escape(key[i]) = Standard(key[i]) /\ Escape(values[i]) = Standard(values[i])
        BY <1>4, EscapeIsStandard
    <2>3. f = g
        <3>1. \A i \in DOMAIN key : template.slots[i].fixed \o
                    (IF template.type = "iri" THEN Escape(p[template.slots[i].alias]) ELSE p[template.slots[i].alias])
                = (IF i = 1 THEN <<>> ELSE <<";">>) \o Standard(key[i]) \o <<"=">> \o Standard(values[i])
            <4> TAKE i \in DOMAIN key
            <4>1. template.slots[i].fixed = (IF i = 1 THEN <<>> ELSE <<";">>) \o Standard(key[i]) \o <<"=">>
                BY <1>2, <2>2
            <4>2. (IF template.type = "iri" THEN Escape(p[template.slots[i].alias]) ELSE p[template.slots[i].alias]) = Standard(values[i])
                BY <1>2, <1>5, <2>2
            <4>. QED
                BY <4>1, <4>2
        <3>. QED
            BY <1>2, <3>1
    <2>4. KeyIri(name, key, values) = Iri(Standard(name) \o <<"/">> \o FlattenSeq(g))
        BY DEF KeyIri
    <2> HIDE DEF f, g
    <2>5. Escape(name) = Standard(name)
        BY EscapeIsStandard
    <2>. QED
        BY <1>2, <2>1, <2>3, <2>4, <2>5 DEF Iri
<1>. QED
    BY <1>1, <1>3, <1>4

\* What the texts of a row are made of.
Pieces == STRING \cup {"|", "<NULL>"}

(* The texts of the columns of a row are a text.                               *)
LEMMA ConcatenatedText ==
    ASSUME NEW C, NEW columns \in Seq(C), columns # <<>>, NEW row, \A column \in ToSet(columns) : row.values[column] \in Text
    PROVE Concatenated(columns, row) \in Seq(Pieces) /\ Concatenated(columns, row) # Null
<1> DEFINE value(i) == IF row.values[columns[i]] = Null THEN <<"<NULL>">> ELSE row.values[columns[i]]
           f == [i \in DOMAIN columns |-> (IF i = 1 THEN <<>> ELSE <<"|">>) \o value(i)]
<1>1. DOMAIN columns = 1..Len(columns) /\ Len(columns) \in Nat \ {0} /\ \A i \in DOMAIN columns : columns[i] \in ToSet(columns)
    BY SequenceDomain
<1>2. \A i \in DOMAIN columns : value(i) \in Seq(Pieces) /\ value(i) # Null
    <2> TAKE i \in DOMAIN columns
    <2>1. row.values[columns[i]] \in Seq(Pieces)
        <3>1. row.values[columns[i]] \in Seq(STRING)
            BY <1>1 DEF Text
        <3>. QED
            BY <3>1 DEF Pieces
    <2>2. CASE row.values[columns[i]] = Null
        <3>1. value(i) = <<"<NULL>">>
            BY <2>2
        <3>2. "<NULL>" \in Pieces
            BY DEF Pieces
        <3>3. <<"<NULL>">> \in Seq(Pieces)
            BY <3>2
        <3>4. <<"<NULL>">>[1] # Null[1]
            BY DEF Null
        <3>. QED
            BY <3>1, <3>3, <3>4
    <2>3. CASE row.values[columns[i]] # Null
        BY <2>1, <2>3
    <2>. QED
        BY <2>2, <2>3
<1>3. Concatenated(columns, row) = FlattenSeq(f)
    BY DEF Concatenated
<1> HIDE DEF value
<1>4. \A i \in DOMAIN columns : f[i] \in Seq(Pieces)
    <2> TAKE i \in DOMAIN columns
    <2>1. f[i] = (IF i = 1 THEN <<>> ELSE <<"|">>) \o value(i) /\ value(i) \in Seq(Pieces)
        BY <1>2
    <2>2. (IF i = 1 THEN <<>> ELSE <<"|">>) \in Seq(Pieces)
        <3>1. "|" \in Pieces
            BY DEF Pieces
        <3>2. <<>> \in Seq(Pieces) /\ <<"|">> \in Seq(Pieces)
            BY <3>1
        <3>. QED
            BY <3>2
    <2>. QED
        BY <2>1, <2>2
<1>5. DOMAIN f = 1..Len(columns) /\ f = [i \in 1..Len(columns) |-> f[i]] /\ \A i \in 1..Len(columns) : f[i] = (IF i = 1 THEN <<>> ELSE <<"|">>) \o value(i)
    BY <1>1
<1> HIDE DEF f
<1>6. f \in Seq(Seq(Pieces))
    <2>1. f \in Seq(ToSet(f))
        BY <1>1, <1>5, AsSequence
    <2>2. ToSet(f) \subseteq Seq(Pieces)
        BY <1>1, <1>4, <1>5 DEF ToSet
    <2>. QED
        BY <2>1, <2>2
<1>7. FlattenSeq(f) \in Seq(Pieces) /\ ToSet(FlattenSeq(f)) = UNION {ToSet(f[i]) : i \in DOMAIN f}
    BY <1>6, FlattenElements
<1>8. CASE Len(columns) = 1
    <2>1. FlattenSeq(f) = f[1]
        BY <1>5, <1>8, FlattenedOne
    <2>2. f[1] = <<>> \o value(1) /\ value(1) \in Seq(Pieces) /\ value(1) # Null
        BY <1>1, <1>2, <1>5
    <2>3. <<>> \o value(1) = value(1)
        BY <2>2, EmptyJoined
    <2>. QED
        BY <1>3, <1>7, <2>1, <2>2, <2>3
<1>9. CASE Len(columns) # 1
    <2>0. 2 \in DOMAIN columns /\ 2 \in DOMAIN f /\ 2 # 1
        BY <1>1, <1>5, <1>9
    <2>1. f[2] = <<"|">> \o value(2) /\ value(2) \in Seq(Pieces)
        <3>1. f[2] = (IF 2 = 1 THEN <<>> ELSE <<"|">>) \o value(2)
            BY <1>1, <1>5, <2>0
        <3>. QED
            BY <1>2, <2>0, <3>1
    <2>2. "|" \in ToSet(f[2])
        <3>1. 1 \in DOMAIN f[2] /\ f[2][1] = "|"
            BY <2>1
        <3>. QED
            BY <3>1 DEF ToSet
    <2>3. "|" \in ToSet(FlattenSeq(f))
        BY <1>7, <2>0, <2>2
    <2>4. "|" \notin ToSet(Null)
        BY DEF ToSet, Null
    <2>. QED
        BY <1>3, <1>7, <2>3, <2>4
<1>. QED
    BY <1>8, <1>9

-----------------------------------------------------------------------------
(* What a rule says of one database: rows.                                   *)

\* What was read is the catalog of a database that is spelled as it should be.
Exact(database, metadata) ==
    /\ DatabaseOK(database) /\ AllRead(metadata, database) /\ ~MetadataFails(metadata)
    /\ ~Spelled(database) /\ ~RowsByValue(database)

\* What a statement calls a row.
Node(database, name, row) ==
    IF database[name].key = <<>> THEN BlankNode(name \o <<"-">> \o RowText(database, name, row)) ELSE RowNode(database, name, row)
Called(naming, t) == IF t.type = "row" THEN naming[t] ELSE t

(* What is known of a listed relation.                                         *)
LEMMA ListedIs ==
    ASSUME NEW database, NEW metadata, Exact(database, metadata), NEW name \in Relations
    PROVE LET relation == database[name] IN
          /\ name \in DOMAIN database /\ name \in Text /\ name # <<>> /\ ~HasSeparator(name) /\ CatalogOf(database, name) = relation
          /\ relation.columns \in Seq(ToSet(relation.columns)) /\ relation.columns # <<>>
          /\ \A column \in ToSet(relation.columns) : ColumnOK(column) /\ column \in Text /\ ~HasSeparator(column)
          /\ relation.key \in Seq(ToSet(relation.columns))
          /\ \A i \in DOMAIN relation.key : relation.key[i] \in ToSet(relation.columns) /\ relation.key[i] \in ToSet(relation.key)
          /\ \A row \in relation.rows : RowOK(row, relation) /\ \A column \in ToSet(relation.key) : ~HasSeparator(row.values[column])
          /\ \A one, other \in relation.rows : one.id = other.id => one = other
<1>1. DatabaseOK(database) /\ AllRead(metadata, database) /\ ~MetadataFails(metadata) /\ ~SeparatorWritten(database)
    BY DEF Exact, Spelled
<1>2. PICK i \in DOMAIN metadata : metadata[i].name = name
    BY <1>1 DEF AllRead
<1>3. metadata[i].columns = CatalogOf(database, name).columns /\ metadata[i] \in ToSet(metadata)
    BY <1>1, <1>2 DEF AllRead, Reads, ToSet
<1>4. metadata[i].columns # <<>>
    BY <1>1, <1>3 DEF MetadataFails
<1>5. name \in DOMAIN database /\ CatalogOf(database, name) = database[name]
    BY <1>3, <1>4 DEF CatalogOf, NoRelation, Relation
<1>6. name \in Text /\ name # <<>> /\ RelationOK(database[name], database) /\ database[name].columns # <<>>
    BY <1>1, <1>3, <1>4, <1>5 DEF DatabaseOK
<1>7. /\ database[name].columns \in Seq(ToSet(database[name].columns)) /\ \A column \in ToSet(database[name].columns) : ColumnOK(column)
      /\ database[name].key \in Seq(ToSet(database[name].columns))
      /\ \A row \in database[name].rows : RowOK(row, database[name])
      /\ \A one, other \in database[name].rows : one.id = other.id => one = other
    BY <1>6 DEF RelationOK
<1>8. \A i_1 \in DOMAIN database[name].key : database[name].key[i_1] \in ToSet(database[name].columns) /\ database[name].key[i_1] \in ToSet(database[name].key)
    BY <1>7, SequenceDomain
<1>9. /\ ~HasSeparator(name) /\ \A column \in ToSet(database[name].columns) : ~HasSeparator(column)
      /\ \A row \in database[name].rows : \A column \in ToSet(database[name].key) : ~HasSeparator(row.values[column])
    BY <1>1 DEF SeparatorWritten
<1>10. \A column \in ToSet(database[name].columns) : column \in Text
    BY <1>7 DEF ColumnOK
<1>. QED
    BY <1>5, <1>6, <1>7, <1>8, <1>9, <1>10

(* What is known of a row of it.                                               *)
LEMMA RowIs ==
    ASSUME NEW database, NEW metadata, Exact(database, metadata), NEW name \in Relations, NEW row \in database[name].rows
    PROVE /\ \A column \in ToSet(database[name].columns) : row.values[column] \in Text
          /\ row.ctid \in Text /\ row.ctid # Null /\ "-" \notin ToSet(row.ctid) /\ row.ctid \in Seq(Pieces)
          /\ RowText(database, name, row) \in Seq(Pieces) /\ RowText(database, name, row) # Null
          /\ \A i \in DOMAIN database[name].key : /\ row.values[database[name].key[i]] \in Text
                                                /\ row.values[database[name].key[i]] # Null
                                                /\ ~HasSeparator(row.values[database[name].key[i]])
<1>1. RowOK(row, database[name]) /\ database[name].columns \in Seq(ToSet(database[name].columns)) /\ database[name].columns # <<>>
    BY ListedIs
<1>2. \A column \in ToSet(database[name].columns) : row.values[column] \in Text
    BY <1>1 DEF RowOK
<1>3. row.ctid \in Text /\ row.ctid # Null /\ "-" \notin ToSet(row.ctid)
    BY <1>1 DEF RowOK
<1>4. row.ctid \in Seq(Pieces)
    <2>1. row.ctid \in Seq(STRING)
        BY <1>3 DEF Text
    <2>. QED
        BY <2>1 DEF Pieces
<1>5. Concatenated(database[name].columns, row) \in Seq(Pieces) /\ Concatenated(database[name].columns, row) # Null
    BY <1>1, <1>2, ConcatenatedText
<1>6. RowText(database, name, row) \in Seq(Pieces) /\ RowText(database, name, row) # Null
    BY <1>3, <1>4, <1>5 DEF RowText
<1>7. \A i \in DOMAIN database[name].key : database[name].key[i] \in ToSet(database[name].columns) /\ database[name].key[i] \in ToSet(database[name].key)
    BY ListedIs
<1>8. \A column \in ToSet(database[name].key) : row.values[column] # Null /\ ~HasSeparator(row.values[column])
    <2>1. \A column \in ToSet(database[name].key) : ~HasSeparator(row.values[column])
        BY ListedIs
    <2>. QED
        BY <1>1, <2>1 DEF RowOK
<1>. QED
    BY <1>2, <1>3, <1>4, <1>6, <1>7, <1>8

(* A row is called what the recommendation calls it.                           *)
LEMMA NodeIsNamed ==
    ASSUME NEW database, NEW metadata, Exact(database, metadata), NEW name \in Relations, NEW row \in database[name].rows
    PROVE Called(Named(database), RowNode(database, name, row)) = Node(database, name, row)
<1>1. PICK node : node = RowNode(database, name, row)
    OBVIOUS
<1>2. CASE database[name].key = <<>>
    <2>1. node.type = "row" /\ node.name = name /\ node.id = row.id
        BY <1>1, <1>2 DEF RowNode
    <2>2. node \in RowNodes(database)
        BY <1>1, <1>2 DEF RowNodes, Keyless
    <2>3. \A one, other \in database[name].rows : one.id = other.id => one = other
        BY ListedIs
    <2>4. RowOf(database, node) = row
        BY <2>1, <2>3 DEF RowOf
    <2>5. Named(database)[node] = BlankNode(node.name \o <<"-">> \o RowText(database, node.name, RowOf(database, node)))
        BY <2>2 DEF Named
    <2>. QED
        BY <1>1, <1>2, <2>1, <2>4, <2>5 DEF Node, Called
<1>3. CASE database[name].key # <<>>
    <2>1. node.type = "iri"
        BY <1>1, <1>3 DEF RowNode, Iri
    <2>. QED
        BY <1>1, <1>3, <2>1 DEF Node, Called
<1>. QED
    BY <1>2, <1>3

\* What a source projects has the key of a row.
HasKey(p, aliases, key, row, name, database, metadata) ==
    /\ Exact(database, metadata) /\ name \in Relations /\ row \in database[name].rows
    /\ key = database[name].key /\ key # <<>> /\ \A j \in DOMAIN key : p[aliases[j]] = row.values[key[j]]

(* So is a template filled with its key,                                       *)
LEMMA KeyTerm ==
    ASSUME NEW p, NEW aliases, NEW key, NEW row, NEW name, NEW database, NEW metadata, HasKey(p, aliases, key, row, name, database, metadata)
    PROVE ~IsNull(IriTemplate(name, key, aliases), p) /\ TermOf(IriTemplate(name, key, aliases), p) = Node(database, name, row)
<1>0. /\ Exact(database, metadata) /\ name \in Relations /\ row \in database[name].rows
      /\ key = database[name].key /\ key # <<>> /\ \A j \in DOMAIN key : p[aliases[j]] = row.values[key[j]]
    BY DEF HasKey
<1>1. PICK values : values = [j \in DOMAIN key |-> row.values[key[j]]]
    OBVIOUS
<1>2. name \in Text /\ ~HasSeparator(name) /\ \A j \in DOMAIN key : key[j] \in Text /\ ~HasSeparator(key[j])
    BY <1>0, ListedIs
<1>3. \A j \in DOMAIN key : values[j] \in Text /\ values[j] # Null /\ ~HasSeparator(values[j])
    BY <1>0, <1>1, RowIs
<1>4. \A j \in DOMAIN key : p[aliases[j]] = values[j] /\ values[j] \in Text
    BY <1>0, <1>1, <1>3
<1>5. (\A j \in DOMAIN key : values[j] # Null) => \A j \in DOMAIN key : ~HasSeparator(values[j])
    BY <1>3
<1>6. /\ IsNull(IriTemplate(name, key, aliases), p) <=> \E j \in DOMAIN key : values[j] = Null
      /\ ~IsNull(IriTemplate(name, key, aliases), p) => TermOf(IriTemplate(name, key, aliases), p) = KeyIri(name, key, values)
    BY <1>2, <1>4, <1>5, IriTerm
<1>7. ~IsNull(IriTemplate(name, key, aliases), p)
    BY <1>3, <1>6
<1>8. RowNode(database, name, row) = KeyIri(name, key, values)
    BY <1>0, <1>1 DEF RowNode, KeyIri
<1>. QED
    BY <1>0, <1>6, <1>7, <1>8 DEF Node

(* and so is the subject of every rule about it.                               *)
LEMMA SubjectTerm ==
    ASSUME NEW database, NEW metadata, Exact(database, metadata), NEW i \in DOMAIN metadata,
           NEW name, name = metadata[i].name, NEW row \in database[name].rows, NEW p,
           \A column \in ToSet(database[name].columns) : p[column] = row.values[column],
           database[name].key = <<>> => p[RowId] = RowText(database, name, row)
    PROVE ~IsNull(Subject(metadata[i]), p) /\ TermOf(Subject(metadata[i]), p) = Node(database, name, row)
<1>1. name \in Relations /\ metadata[i].key = CatalogOf(database, name).key
    BY DEF Exact, AllRead, Reads
<1>2. metadata[i].key = database[name].key
    BY <1>1, ListedIs
<1>3. CASE database[name].key = <<>>
    <2>1. p[RowId] \in Seq(Pieces) /\ p[RowId] # Null /\ p[RowId] = RowText(database, name, row)
        BY <1>1, <1>3, RowIs
    <2>2. Subject(metadata[i]) = BlankTemplate(name, RowId)
        BY <1>2, <1>3 DEF Subject
    <2>3. TermOf(BlankTemplate(name, RowId), p) = BlankNode(name \o <<"-">> \o p[RowId]) /\ ~IsNull(BlankTemplate(name, RowId), p)
        BY <2>1, BlankTerm
    <2>4. BlankNode(name \o <<"-">> \o p[RowId]) = Node(database, name, row)
        BY <1>3, <2>1 DEF Node
    <2>. QED
        BY <2>2, <2>3, <2>4
<1>4. CASE database[name].key # <<>>
    <2>1. PICK key : key = database[name].key
        OBVIOUS
    <2>2. \A j \in DOMAIN key : key[j] \in ToSet(database[name].columns)
        BY <1>1, <2>1, ListedIs
    <2>3. \A j \in DOMAIN key : p[key[j]] = row.values[key[j]]
        BY <2>2
    <2>4. Subject(metadata[i]) = IriTemplate(name, key, key)
        BY <1>2, <1>4, <2>1 DEF Subject
    <2>. QED
        BY <1>1, <1>4, <2>1, <2>3, <2>4, KeyTerm DEF HasKey
<1>. QED
    BY <1>3, <1>4

(* What a source projects of a row.                                            *)
LEMMA ProjectedIs ==
    ASSUME NEW database, NEW metadata, Exact(database, metadata), NEW name \in Relations, NEW row \in database[name].rows,
           NEW source, source.columns = database[name].columns
    PROVE LET p == Projected(source, row) IN
          /\ \A column \in ToSet(database[name].columns) : column \in DOMAIN p /\ p[column] = row.values[column]
          /\ RowId \in DOMAIN p /\ p[RowId] = IF source.byCtid THEN row.ctid ELSE Concatenated(source.columns, row)
          /\ ParentRowId \notin DOMAIN p /\ \A j : ParentKey(j) \notin DOMAIN p
<1>1. \A column \in ToSet(database[name].columns) : Head(column) # "row id" /\ Head(column) # "parent row id" /\ Head(column) # "parent key"
    BY ListedIs DEF ColumnOK
<1>2. /\ Head(RowId) = "row id" /\ Head(ParentRowId) = "parent row id" /\ \A j : Head(ParentKey(j)) = "parent key"
    BY DEF RowId, ParentRowId, ParentKey
<1>3. PICK p : p = Projected(source, row)
    OBVIOUS
<1>4. DOMAIN p = {RowId} \cup ToSet(database[name].columns)
    BY <1>3 DEF Projected
<1>5. \A alias \in DOMAIN p : p[alias] = IF alias = RowId THEN IF source.byCtid THEN row.ctid ELSE Concatenated(source.columns, row)
                                          ELSE row.values[alias]
    BY <1>3 DEF Projected
<1>. QED
    BY <1>1, <1>2, <1>3, <1>4, <1>5

(* What a plain source shows of a row.                                         *)
LEMMA PlainRows ==
    ASSUME NEW database, NEW metadata, Exact(database, metadata), NEW i \in DOMAIN metadata, NEW name, name = metadata[i].name
    PROVE LET source == PlainSource(name, metadata[i].columns, options.preserve) IN
          /\ RowsOfSource(source, database) = {Projected(source, row) : row \in database[name].rows}
          /\ \A row \in database[name].rows :
                /\ \A column \in ToSet(database[name].columns) : Projected(source, row)[column] = row.values[column]
                /\ ~IsNull(Subject(metadata[i]), Projected(source, row))
                /\ TermOf(Subject(metadata[i]), Projected(source, row)) = Node(database, name, row)
<1>1. PICK source : source = PlainSource(name, metadata[i].columns, options.preserve)
    OBVIOUS
<1>2. name \in Relations /\ metadata[i].columns = CatalogOf(database, name).columns
    BY DEF Exact, AllRead, Reads
<1>3. /\ source.name = name /\ source.columns = metadata[i].columns /\ source.byCtid = options.preserve /\ source.parent = <<>>
      /\ metadata[i].columns = database[name].columns
    BY <1>1, <1>2, ListedIs DEF PlainSource
<1>4. RowsOfSource(source, database) = {Projected(source, row) : row \in database[name].rows}
    BY <1>3 DEF RowsOfSource
<1>5. ASSUME NEW row \in database[name].rows
      PROVE  /\ \A column \in ToSet(database[name].columns) : Projected(source, row)[column] = row.values[column]
             /\ ~IsNull(Subject(metadata[i]), Projected(source, row))
             /\ TermOf(Subject(metadata[i]), Projected(source, row)) = Node(database, name, row)
    <2>1. PICK p : p = Projected(source, row)
        OBVIOUS
    <2>2. /\ \A column \in ToSet(database[name].columns) : p[column] = row.values[column]
          /\ p[RowId] = IF source.byCtid THEN row.ctid ELSE Concatenated(source.columns, row)
        BY <1>2, <1>3, <2>1, ProjectedIs
    <2>3. p[RowId] = RowText(database, name, row)
        BY <1>3, <2>2 DEF RowText
    <2>. QED
        BY <2>1, <2>2, <2>3, SubjectTerm
<1>. QED
    BY <1>1, <1>4, <1>5

(* What is renamed, and what is answered.                                      *)
LEMMA RenamedIs ==
    ASSUME NEW graph, NEW naming, NEW triple
    PROVE triple \in Renamed(graph, naming) <=> \E t \in graph : triple = <<Called(naming, t[1]), t[2], Called(naming, t[3])>>
    BY DEF Renamed, Called

\* A graph of one predicate.
IsPart(graph, R, f, predicate, g) == \A t : t \in graph <=> \E r \in R : t = <<f[r], predicate, g[r]>>

(* Such a graph renamed.                                                       *)
LEMMA RenamedPart ==
    ASSUME NEW R, NEW f, NEW g, NEW predicate, NEW graph, IsPart(graph, R, f, predicate, g), NEW naming
    PROVE \A triple : triple \in Renamed(graph, naming) <=> \E r \in R : triple = <<Called(naming, f[r]), predicate, Called(naming, g[r])>>
<1> TAKE triple
<1> USE DEF IsPart
<1>1. \A t \in graph : \E r \in R : t[1] = f[r] /\ t[2] = predicate /\ t[3] = g[r]
    OBVIOUS
<1>2. \A r \in R : \E t \in graph : t[1] = f[r] /\ t[2] = predicate /\ t[3] = g[r]
    <2> TAKE r \in R
    <2>1. <<f[r], predicate, g[r]>> \in graph
        OBVIOUS
    <2>. QED
        BY <2>1
<1>3. triple \in Renamed(graph, naming) <=> \E t \in graph : triple = <<Called(naming, t[1]), t[2], Called(naming, t[3])>>
    BY RenamedIs
<1>. QED
    BY <1>1, <1>2, <1>3

(* A row that gives a triple.                                                  *)
LEMMA AnswerIs ==
    ASSUME NEW rule, NEW database, NEW triple
    PROVE triple \in Answers(rule, database)
          <=> \E p \in RowsOfSource(rule.source, database) :
                /\ ~IsNull(rule.subject, p) /\ ~IsNull(rule.object, p)
                /\ triple = <<TermOf(rule.subject, p), rule.predicate, TermOf(rule.object, p)>>
    BY DEF Answers

-----------------------------------------------------------------------------
(* What a rule says of one database: its part of the direct graph.           *)

(* The rows of a relation.                                                     *)
LEMMA ClassAnswers ==
    ASSUME NEW database, NEW metadata, Exact(database, metadata), NEW i \in DOMAIN metadata, NEW name, name = metadata[i].name
    PROVE Answers(ClassRule(metadata[i], options.preserve), database) = Renamed(ClassTriples(database, name), Named(database))
<1>1. PICK source : source = PlainSource(name, metadata[i].columns, options.preserve)
    OBVIOUS
<1>2. PICK rule : rule = ClassRule(metadata[i], options.preserve)
    OBVIOUS
<1>3. rule.subject = Subject(metadata[i]) /\ rule.predicate = TypePredicate /\ rule.object = Class(name) /\ rule.source = source
    BY <1>1, <1>2 DEF ClassRule, Rule
<1>4. name \in Relations /\ name \in Text /\ ~HasSeparator(name)
    <2>1. name \in Relations
        BY DEF Exact, AllRead
    <2>. QED
        BY <2>1, ListedIs
<1>5. /\ RowsOfSource(source, database) = {Projected(source, row) : row \in database[name].rows}
      /\ \A row \in database[name].rows :
            /\ ~IsNull(Subject(metadata[i]), Projected(source, row))
            /\ TermOf(Subject(metadata[i]), Projected(source, row)) = Node(database, name, row)
    BY <1>1, PlainRows
<1>6. \A p : TermOf(Class(name), p) = Iri(Standard(name)) /\ ~IsNull(Class(name), p)
    BY <1>4, ClassTerm
<1>7. ASSUME NEW triple
      PROVE triple \in Answers(rule, database) <=> \E row \in database[name].rows : triple = <<Node(database, name, row), TypePredicate, Iri(Standard(name))>>
    <2>1. triple \in Answers(rule, database)
          <=> \E p \in RowsOfSource(source, database) :
                /\ ~IsNull(Subject(metadata[i]), p) /\ ~IsNull(Class(name), p)
                /\ triple = <<TermOf(Subject(metadata[i]), p), TypePredicate, TermOf(Class(name), p)>>
        BY <1>3, AnswerIs
    <2>. QED
        BY <1>5, <1>6, <2>1
<1>8. ASSUME NEW triple
      PROVE triple \in Renamed(ClassTriples(database, name), Named(database))
            <=> \E row \in database[name].rows : triple = <<Node(database, name, row), TypePredicate, Iri(Standard(name))>>
    <2>1. triple \in Renamed(ClassTriples(database, name), Named(database))
          <=> \E row \in database[name].rows : triple = <<Called(Named(database), RowNode(database, name, row)), TypePredicate, Called(Named(database), Iri(Standard(name)))>>
        <3> DEFINE f == [row \in database[name].rows |-> RowNode(database, name, row)]
                   g == [row \in database[name].rows |-> Iri(Standard(name))]
        <3>1. IsPart(ClassTriples(database, name), database[name].rows, f, TypePredicate, g)
            BY DEF ClassTriples, IsPart
        <3>2. \A row \in database[name].rows : f[row] = RowNode(database, name, row) /\ g[row] = Iri(Standard(name))
            OBVIOUS
        <3> HIDE DEF f, g
        <3>3. triple \in Renamed(ClassTriples(database, name), Named(database))
              <=> \E row \in database[name].rows : triple = <<Called(Named(database), f[row]), TypePredicate, Called(Named(database), g[row])>>
            BY <3>1, RenamedPart
        <3>. QED
            BY <3>1, <3>2, <3>3
    <2>2. Called(Named(database), Iri(Standard(name))) = Iri(Standard(name))
        BY DEF Called, Iri
    <2>3. \A row \in database[name].rows : Called(Named(database), RowNode(database, name, row)) = Node(database, name, row)
        BY <1>4, NodeIsNamed
    <2>. QED
        BY <2>1, <2>2, <2>3
<1>. QED
    BY <1>2, <1>7, <1>8

(* Their values in a column.                                                   *)
LEMMA ColumnAnswers ==
    ASSUME NEW database, NEW metadata, Exact(database, metadata), NEW i \in DOMAIN metadata, NEW name, name = metadata[i].name,
           NEW column \in ToSet(metadata[i].columns)
    PROVE Answers(ColumnRule(metadata[i], column, options.preserve), database) = Renamed(ColumnTriples(database, name, column), Named(database))
<1>1. PICK source : source = PlainSource(name, metadata[i].columns, options.preserve)
    OBVIOUS
<1>2. PICK rule : rule = ColumnRule(metadata[i], column, options.preserve)
    OBVIOUS
<1>0. PICK literal : literal = Template("literal", <<>>, <<Slot(<<>>, column)>>)
    OBVIOUS
<1>9. PICK predicate : predicate = ColumnPredicate(Standard(name), Standard(column))
    OBVIOUS
<1>4. name \in Relations /\ name \in Text /\ ~HasSeparator(name) /\ column \in ToSet(database[name].columns) /\ column \in Text /\ ~HasSeparator(column)
    <2>1. name \in Relations /\ metadata[i].columns = CatalogOf(database, name).columns
        BY DEF Exact, AllRead, Reads
    <2>. QED
        BY <2>1, ListedIs
<1>3. rule.subject = Subject(metadata[i]) /\ rule.predicate = predicate /\ rule.object = literal /\ rule.source = source
    BY <1>0, <1>1, <1>2, <1>4, <1>9, EscapeIsStandard DEF ColumnRule, Rule
<1>5. /\ RowsOfSource(source, database) = {Projected(source, row) : row \in database[name].rows}
      /\ \A row \in database[name].rows :
            /\ Projected(source, row)[column] = row.values[column]
            /\ ~IsNull(Subject(metadata[i]), Projected(source, row))
            /\ TermOf(Subject(metadata[i]), Projected(source, row)) = Node(database, name, row)
    BY <1>1, <1>4, PlainRows
<1>6. ASSUME NEW row \in database[name].rows
      PROVE  LET p == Projected(source, row)
             IN  TermOf(literal, p) = Literal(row.values[column]) /\ (IsNull(literal, p) <=> row.values[column] = Null)
    <2>1. PICK p : p = Projected(source, row)
        OBVIOUS
    <2>2. p[column] = row.values[column] /\ p[column] \in Text
        BY <1>4, <1>5, <2>1, RowIs
    <2>. QED
        BY <1>0, <2>1, <2>2, LiteralTerm
<1>7. ASSUME NEW triple
      PROVE triple \in Answers(rule, database)
            <=> \E row \in database[name].rows : row.values[column] # Null /\ triple = <<Node(database, name, row), predicate, Literal(row.values[column])>>
    <2>1. triple \in Answers(rule, database)
          <=> \E p \in RowsOfSource(source, database) :
                /\ ~IsNull(Subject(metadata[i]), p) /\ ~IsNull(literal, p)
                /\ triple = <<TermOf(Subject(metadata[i]), p), predicate, TermOf(literal, p)>>
        BY <1>3, AnswerIs
    <2>. QED
        BY <1>5, <1>6, <2>1
<1>8. ASSUME NEW triple
      PROVE triple \in Renamed(ColumnTriples(database, name, column), Named(database))
            <=> \E row \in database[name].rows : row.values[column] # Null /\ triple = <<Node(database, name, row), predicate, Literal(row.values[column])>>
    <2>1. triple \in Renamed(ColumnTriples(database, name, column), Named(database))
          <=> \E row \in database[name].rows :
                /\ row.values[column] # Null
                /\ triple = <<Called(Named(database), RowNode(database, name, row)), predicate, Called(Named(database), Literal(row.values[column]))>>
        <3> DEFINE R == {row \in database[name].rows : row.values[column] # Null}
                   f == [row \in R |-> RowNode(database, name, row)]
                   g == [row \in R |-> Literal(row.values[column])]
        <3>1. IsPart(ColumnTriples(database, name, column), R, f, predicate, g)
            BY <1>9 DEF ColumnTriples, IsPart
        <3>2. \A row \in R : f[row] = RowNode(database, name, row) /\ g[row] = Literal(row.values[column])
            OBVIOUS
        <3>3. \A row : row \in R <=> row \in database[name].rows /\ row.values[column] # Null
            OBVIOUS
        <3> HIDE DEF R, f, g
        <3>4. triple \in Renamed(ColumnTriples(database, name, column), Named(database))
              <=> \E row \in R : triple = <<Called(Named(database), f[row]), predicate, Called(Named(database), g[row])>>
            BY <3>1, RenamedPart
        <3>. QED
            BY <3>1, <3>2, <3>3, <3>4
    <2>2. \A text : Called(Named(database), Literal(text)) = Literal(text)
        BY DEF Called, Literal
    <2>3. \A row \in database[name].rows : Called(Named(database), RowNode(database, name, row)) = Node(database, name, row)
        BY <1>4, NodeIsNamed
    <2>. QED
        BY <2>1, <2>2, <2>3
<1>. QED
    BY <1>2, <1>7, <1>8

(* What is known of a foreign key.                                             *)
LEMMA ForeignIs ==
    ASSUME NEW database, NEW metadata, Exact(database, metadata), NEW i \in DOMAIN metadata, NEW name, name = metadata[i].name,
           NEW foreign \in ToSet(metadata[i].foreign)
    PROVE /\ name \in Relations /\ foreign \in ToSet(database[name].foreign)
          /\ foreign.parent \in Relations /\ foreign.parent # <<>> /\ Given(metadata, foreign.parent).key = database[foreign.parent].key
          /\ DOMAIN foreign.referenced = DOMAIN foreign.columns
          /\ \A j \in DOMAIN foreign.columns : /\ foreign.columns[j] \in ToSet(database[name].columns)
                                              /\ foreign.referenced[j] \in ToSet(database[foreign.parent].columns)
          /\ EscapeEach(foreign.columns) = StandardEach(foreign.columns)
          /\ \A row \in database[name].rows :
                (\A j \in DOMAIN foreign.columns : row.values[foreign.columns[j]] # Null) => Referenced(database, foreign, row) # {}
<1>1. name \in Relations /\ metadata[i].foreign = CatalogOf(database, name).foreign /\ metadata[i] \in ToSet(metadata)
    BY DEF Exact, AllRead, Reads, ToSet
<1>2. foreign \in ToSet(database[name].foreign) /\ foreign \in ToSet(CatalogOf(database, name).foreign)
    BY <1>1, ListedIs
<1>3. IsGiven(metadata, foreign.parent)
    BY <1>1 DEF Exact, MetadataFails
<1>4. foreign.parent \in Relations /\ Reads(Given(metadata, foreign.parent), database) /\ Given(metadata, foreign.parent).name = foreign.parent
    BY <1>3, GivenReads DEF Exact
<1>5. Given(metadata, foreign.parent).key = database[foreign.parent].key
    BY <1>4, ListedIs DEF Reads
<1>6. /\ foreign.parent # <<>> /\ DOMAIN foreign.referenced = DOMAIN foreign.columns /\ ForeignOK(foreign, database[name], database)
      /\ DOMAIN foreign.columns = 1..Len(foreign.columns)
    <2>1. DatabaseOK(database)
        BY DEF Exact
    <2>2. \A f \in ToSet(CatalogOf(database, name).foreign) : f.parent # <<>>
        BY <2>1, CatalogForeign
    <2>3. \A f \in ToSet(CatalogOf(database, name).foreign) : DOMAIN f.referenced = DOMAIN f.columns
        BY <2>1, CatalogForeign
    <2>4. \A f \in ToSet(CatalogOf(database, name).foreign) : ForeignOK(f, database[name], database)
        BY <2>1, CatalogForeign
    <2>5. \A f \in ToSet(CatalogOf(database, name).foreign) : DOMAIN f.columns = 1..Len(f.columns)
        BY <2>1, CatalogForeign
    <2>. QED
        BY <1>2, <2>2, <2>3, <2>4, <2>5
<1>7. \A j \in DOMAIN foreign.columns : /\ foreign.columns[j] \in ToSet(database[name].columns)
                                       /\ foreign.referenced[j] \in ToSet(database[foreign.parent].columns)
    BY <1>6, SequenceDomain DEF ForeignOK
<1>8. \A j \in DOMAIN foreign.columns : Escape(foreign.columns[j]) = Standard(foreign.columns[j])
    BY <1>1, <1>7, ListedIs, EscapeIsStandard
<1>9. EscapeEach(foreign.columns) = StandardEach(foreign.columns)
    BY <1>8 DEF EscapeEach, StandardEach
<1>10. \A row \in database[name].rows :
                (\A j \in DOMAIN foreign.columns : row.values[foreign.columns[j]] # Null) => Referenced(database, foreign, row) # {}
    BY <1>6 DEF ForeignOK
<1>. QED
    BY <1>1, <1>2, <1>4, <1>5, <1>6, <1>7, <1>9, <1>10

(* What a database that is spelled as it should be does not have.              *)
LEMMA ForeignSpelled ==
    ASSUME NEW database, NEW metadata, Exact(database, metadata), NEW name \in Relations, NEW foreign \in ToSet(database[name].foreign)
    PROVE LET parent == database[foreign.parent] IN
          /\ parent.key = <<>> => Escape(foreign.parent) = foreign.parent
          /\ ~options.preserve => parent.key # <<>> /\ (database[name].key # <<>> \/ parent.key = foreign.referenced)
          /\ \A row \in database[name].rows : \A referred \in Referenced(database, foreign, row) :
                parent.key = foreign.referenced
                => \A j \in DOMAIN foreign.columns : row.values[foreign.columns[j]] = referred.values[foreign.referenced[j]]
<1>1. PICK reference : reference = <<name, foreign>>
    OBVIOUS
<1>2. reference \in References(database) /\ reference[1] = name /\ reference[2] = foreign
    BY <1>1 DEF References
<1>3. ~EscapedOnce(database) /\ ~WrittenOtherwise(database) /\ ~RowsByValue(database)
    BY DEF Exact, Spelled
<1>4. database[foreign.parent].key = <<>> => Escape(foreign.parent) = foreign.parent
    BY <1>2, <1>3 DEF EscapedOnce
<1>5. ~options.preserve => database[foreign.parent].key # <<>> /\ (database[name].key # <<>> \/ database[foreign.parent].key = foreign.referenced)
    BY <1>2, <1>3 DEF RowsByValue
<1>6. \A row \in database[name].rows : \A referred \in Referenced(database, foreign, row) :
                database[foreign.parent].key = foreign.referenced
                => \A j \in DOMAIN foreign.columns : row.values[foreign.columns[j]] = referred.values[foreign.referenced[j]]
    BY <1>2, <1>3 DEF WrittenOtherwise
<1>. QED
    BY <1>4, <1>5, <1>6

(* What rows refer to, as the recommendation has it.                           *)
LEMMA ReferencesRenamed ==
    ASSUME NEW database, NEW metadata, Exact(database, metadata), NEW name \in Relations, NEW foreign, foreign.parent \in Relations,
           NEW triple
    PROVE triple \in Renamed(ReferenceTriples(database, name, foreign), Named(database))
          <=> \E row \in database[name].rows : \E referred \in Referenced(database, foreign, row) :
                triple = <<Node(database, name, row), ReferencePredicate(Standard(name), StandardEach(foreign.columns)), Node(database, foreign.parent, referred)>>
<1>1. PICK predicate : predicate = ReferencePredicate(Standard(name), StandardEach(foreign.columns))
    OBVIOUS
<1> DEFINE R == PairsOf(database, name, foreign)
           f == [pair \in R |-> RowNode(database, name, pair[1])]
           g == [pair \in R |-> RowNode(database, foreign.parent, pair[2])]
<1>2. IsPart(ReferenceTriples(database, name, foreign), R, f, predicate, g)
    BY <1>1 DEF ReferenceTriples, IsPart
<1>3. \A pair \in R : f[pair] = RowNode(database, name, pair[1]) /\ g[pair] = RowNode(database, foreign.parent, pair[2])
    OBVIOUS
<1>4. \A pair \in R : pair[1] \in database[name].rows /\ pair[2] \in database[foreign.parent].rows /\ pair[2] \in Referenced(database, foreign, pair[1])
    BY DEF PairsOf
<1>5. \A row \in database[name].rows : \A referred \in Referenced(database, foreign, row) :
        <<row, referred>> \in R /\ <<row, referred>>[1] = row /\ <<row, referred>>[2] = referred
    BY DEF PairsOf, Referenced
<1> HIDE DEF R, f, g
<1>6. triple \in Renamed(ReferenceTriples(database, name, foreign), Named(database))
      <=> \E pair \in R : triple = <<Called(Named(database), f[pair]), predicate, Called(Named(database), g[pair])>>
    BY <1>2, RenamedPart
<1>7. \A pair \in R : /\ Called(Named(database), f[pair]) = Node(database, name, pair[1])
                     /\ Called(Named(database), g[pair]) = Node(database, foreign.parent, pair[2])
    BY <1>3, <1>4, NodeIsNamed
<1>8. triple \in Renamed(ReferenceTriples(database, name, foreign), Named(database))
      <=> \E pair \in R : triple = <<Node(database, name, pair[1]), predicate, Node(database, foreign.parent, pair[2])>>
    BY <1>6, <1>7
<1>9. ASSUME NEW pair \in R, triple = <<Node(database, name, pair[1]), predicate, Node(database, foreign.parent, pair[2])>>
      PROVE  \E row \in database[name].rows : \E referred \in Referenced(database, foreign, row) :
                triple = <<Node(database, name, row), predicate, Node(database, foreign.parent, referred)>>
    BY <1>4, <1>9
<1>10. ASSUME NEW row \in database[name].rows, NEW referred \in Referenced(database, foreign, row),
              triple = <<Node(database, name, row), predicate, Node(database, foreign.parent, referred)>>
       PROVE  \E pair \in R : triple = <<Node(database, name, pair[1]), predicate, Node(database, foreign.parent, pair[2])>>
    <2>1. PICK pair \in R : pair[1] = row /\ pair[2] = referred
        BY <1>5
    <2>. QED
        BY <1>10, <2>1
<1>. QED
    BY <1>1, <1>8, <1>9, <1>10

\* The source of a foreign key.
Joins(source, database, metadata, i, foreign, key) ==
    /\ Exact(database, metadata) /\ i \in DOMAIN metadata /\ foreign \in ToSet(metadata[i].foreign)
    /\ source = ForeignKeySource(metadata[i].name, metadata[i].columns, foreign, key)

(* What such a source is.                                                      *)
LEMMA JoinIs ==
    ASSUME NEW source, NEW database, NEW metadata, NEW i, NEW foreign, NEW key, Joins(source, database, metadata, i, foreign, key)
    PROVE /\ source.name = metadata[i].name /\ source.columns = metadata[i].columns /\ source.byCtid
          /\ source.parent = foreign.parent /\ source.parentKey = key
    BY DEF Joins, ForeignKeySource, PlainSource

(* Both relations are listed.                                                  *)
LEMMA JoinListed ==
    ASSUME NEW source, NEW database, NEW metadata, NEW i, NEW foreign, NEW key, Joins(source, database, metadata, i, foreign, key)
    PROVE LET name == metadata[i].name
          IN  name \in Relations /\ foreign.parent # <<>> /\ metadata[i].columns = database[name].columns
<1>0. PICK name : name = metadata[i].name
    OBVIOUS
<1>2. /\ name \in Relations /\ foreign.parent # <<>> /\ metadata[i].columns = database[name].columns
    <2>1. name \in Relations /\ metadata[i].columns = CatalogOf(database, name).columns
        BY <1>0 DEF Joins, Exact, AllRead, Reads
    <2>2. foreign.parent # <<>>
        BY <1>0, ForeignIs DEF Joins
    <2>. QED
        BY <2>1, <2>2, ListedIs DEF Joins
<1>. QED
    BY <1>0, <1>2

(* The rows of a join,                                                         *)
LEMMA JoinRows ==
    ASSUME NEW source, NEW database, NEW metadata, NEW i, NEW foreign, NEW key, Joins(source, database, metadata, i, foreign, key), NEW p
    PROVE p \in RowsOfSource(source, database)
          <=> \E row \in database[metadata[i].name].rows : \E referred \in Referenced(database, foreign, row) :
                p = Merged(Projected(source, row), ProjectedParent(source, referred))
<1>0. PICK name : name = metadata[i].name
    OBVIOUS
<1>1. /\ source.name = name /\ source.columns = metadata[i].columns /\ source.parent = foreign.parent
      /\ source.on = {<<foreign.columns[j], foreign.referenced[j]>> : j \in DOMAIN foreign.columns}
    BY <1>0 DEF Joins, ForeignKeySource, PlainSource
<1>2. name \in Relations /\ foreign.parent # <<>> /\ metadata[i].columns = database[name].columns
    BY <1>0, JoinListed
<1>3. ASSUME NEW row, NEW referred
      PROVE (\A on \in source.on : Same(row.values[on[1]], referred.values[on[2]]))
            <=> \A j \in DOMAIN foreign.columns : Same(row.values[foreign.columns[j]], referred.values[foreign.referenced[j]])
    <2>1. \A on \in source.on : \E j \in DOMAIN foreign.columns : on[1] = foreign.columns[j] /\ on[2] = foreign.referenced[j]
        BY <1>1
    <2>2. \A j \in DOMAIN foreign.columns : \E on \in source.on : on[1] = foreign.columns[j] /\ on[2] = foreign.referenced[j]
        <3> TAKE j \in DOMAIN foreign.columns
        <3>1. <<foreign.columns[j], foreign.referenced[j]>> \in source.on
            BY <1>1
        <3>. QED
            BY <3>1
    <2>. QED
        BY <2>1, <2>2
<1> DEFINE joined == {pair \in database[name].rows \X database[foreign.parent].rows :
                        \A on \in source.on : Same(pair[1].values[on[1]], pair[2].values[on[2]])}
<1>4. RowsOfSource(source, database) = {Merged(Projected(source, pair[1]), ProjectedParent(source, pair[2])) : pair \in joined}
    BY <1>1, <1>2 DEF RowsOfSource
<1>5. ASSUME NEW pair \in joined
      PROVE pair[1] \in database[name].rows /\ pair[2] \in Referenced(database, foreign, pair[1])
    <2>1. pair[1] \in database[name].rows /\ pair[2] \in database[foreign.parent].rows
          /\ \A on \in source.on : Same(pair[1].values[on[1]], pair[2].values[on[2]])
        OBVIOUS
    <2>2. \A j \in DOMAIN foreign.columns : Same(pair[1].values[foreign.columns[j]], pair[2].values[foreign.referenced[j]])
        BY <1>3, <2>1
    <2>. QED
        BY <2>1, <2>2 DEF Referenced
<1>6. ASSUME NEW row \in database[name].rows, NEW referred \in Referenced(database, foreign, row)
      PROVE \E pair \in joined : pair[1] = row /\ pair[2] = referred
    <2>1. referred \in database[foreign.parent].rows
          /\ \A j \in DOMAIN foreign.columns : Same(row.values[foreign.columns[j]], referred.values[foreign.referenced[j]])
        BY DEF Referenced
    <2>2. \A on \in source.on : Same(row.values[on[1]], referred.values[on[2]])
        BY <1>3, <2>1
    <2>3. <<row, referred>> \in joined
        BY <2>1, <2>2
    <2>. QED
        BY <2>3
<1> HIDE DEF joined
<1>7. p \in RowsOfSource(source, database)
      <=> \E row \in database[name].rows : \E referred \in Referenced(database, foreign, row) :
            p = Merged(Projected(source, row), ProjectedParent(source, referred))
    <2>1. p \in RowsOfSource(source, database) <=> \E pair \in joined : p = Merged(Projected(source, pair[1]), ProjectedParent(source, pair[2]))
        BY <1>4
    <2>. QED
        BY <1>5, <1>6, <2>1
<1>. QED
    BY <1>0, <1>7

(* and what they show of the two.                                              *)
LEMMA JoinRow ==
    ASSUME NEW source, NEW database, NEW metadata, NEW i, NEW foreign, NEW key, Joins(source, database, metadata, i, foreign, key),
           NEW row \in database[metadata[i].name].rows, NEW referred
    PROVE LET p == Merged(Projected(source, row), ProjectedParent(source, referred)) IN
          /\ \A column \in ToSet(database[metadata[i].name].columns) : p[column] = row.values[column]
          /\ p[RowId] = row.ctid /\ p[ParentRowId] = referred.ctid
          /\ \A j \in DOMAIN key : p[ParentKey(j)] = referred.values[key[j]]
<1>0. PICK name : name = metadata[i].name
    OBVIOUS
<1>1. /\ source.name = name /\ source.columns = metadata[i].columns /\ source.byCtid /\ source.parent = foreign.parent
      /\ source.parentKey = key
    BY <1>0, JoinIs
<1>2. name \in Relations /\ foreign.parent # <<>> /\ metadata[i].columns = database[name].columns
    BY <1>0, JoinListed
<1>3. PICK left : left = Projected(source, row)
    OBVIOUS
<1>4. PICK right : right = ProjectedParent(source, referred)
    OBVIOUS
<1>5. PICK p : p = Merged(left, right)
    OBVIOUS
<1>6. /\ \A column \in ToSet(database[name].columns) : column \in DOMAIN left /\ left[column] = row.values[column]
      /\ RowId \in DOMAIN left /\ left[RowId] = row.ctid
      /\ ParentRowId \notin DOMAIN left /\ \A j : ParentKey(j) \notin DOMAIN left
    BY <1>0, <1>1, <1>2, <1>3, ProjectedIs DEF Joins
<1>7. DOMAIN right = {ParentRowId} \cup {ParentKey(j) : j \in DOMAIN key}
      /\ \A alias \in DOMAIN right : right[alias] = IF alias = ParentRowId THEN referred.ctid ELSE referred.values[key[alias[2]]]
    BY <1>1, <1>4 DEF ProjectedParent
<1>8. \A j : ParentKey(j) # ParentRowId /\ ParentKey(j)[2] = j
    <2>1. \A j : ParentKey(j)[1] = "parent key" /\ ParentKey(j)[2] = j
        BY DEF ParentKey
    <2>2. ParentRowId[1] = "parent row id"
        BY DEF ParentRowId
    <2>. QED
        BY <2>1, <2>2
<1>9. ParentRowId \in DOMAIN right /\ right[ParentRowId] = referred.ctid
      /\ \A j \in DOMAIN key : ParentKey(j) \in DOMAIN right /\ right[ParentKey(j)] = referred.values[key[j]]
    BY <1>7, <1>8
<1>10. \A alias \in DOMAIN left \cup DOMAIN right : p[alias] = IF alias \in DOMAIN left THEN left[alias] ELSE right[alias]
    BY <1>5 DEF Merged
<1>. QED
    BY <1>0, <1>3, <1>4, <1>5, <1>6, <1>9, <1>10
(* What rows refer to.                                                         *)
LEMMA ReferenceAnswers ==
    ASSUME NEW database, NEW metadata, Exact(database, metadata), NEW i \in DOMAIN metadata, NEW name, name = metadata[i].name,
           NEW foreign \in ToSet(metadata[i].foreign)
    PROVE Answers(ReferenceRule(metadata[i], foreign, metadata, options.preserve), database)
          = Renamed(ReferenceTriples(database, name, foreign), Named(database))
<1>1. PICK rule : rule = ReferenceRule(metadata[i], foreign, metadata, options.preserve)
    OBVIOUS
<1>2. PICK parent : parent = foreign.parent
    OBVIOUS
<1>3. PICK predicate : predicate = ReferencePredicate(Standard(name), StandardEach(foreign.columns))
    OBVIOUS
<1>4. PICK key : key = database[parent].key
    OBVIOUS
<1>5. /\ name \in Relations /\ name \in Text /\ ~HasSeparator(name) /\ parent \in Relations
      /\ foreign \in ToSet(database[name].foreign) /\ Given(metadata, parent).key = key
      /\ EscapeEach(foreign.columns) = StandardEach(foreign.columns)
    <2>1. /\ name \in Relations /\ parent \in Relations /\ foreign \in ToSet(database[name].foreign) /\ Given(metadata, parent).key = key
          /\ EscapeEach(foreign.columns) = StandardEach(foreign.columns)
        BY <1>2, <1>4, ForeignIs
    <2>. QED
        BY <2>1, ListedIs
<1>6. /\ key = <<>> => Escape(parent) = parent
      /\ ~options.preserve => key # <<>> /\ (database[name].key # <<>> \/ key = foreign.referenced)
      /\ \A row \in database[name].rows : \A referred \in Referenced(database, foreign, row) :
            key = foreign.referenced => \A j \in DOMAIN foreign.columns : row.values[foreign.columns[j]] = referred.values[foreign.referenced[j]]
    BY <1>2, <1>4, <1>5, ForeignSpelled
<1>7. rule.subject = Subject(metadata[i]) /\ rule.predicate = predicate
    <2>1. Escape(name) = Standard(name)
        BY <1>5, EscapeIsStandard
    <2>. QED
        BY <1>1, <1>3, <1>5, <2>1 DEF ReferenceRule, ForeignRule, Rule
<1>8. rule.object = IF key = <<>> THEN BlankTemplate(Escape(parent), ParentRowId)
                    ELSE IF key = foreign.referenced THEN IriTemplate(parent, foreign.referenced, foreign.columns)
                    ELSE IriTemplate(parent, key, [j \in DOMAIN key |-> ParentKey(j)])
    BY <1>1, <1>2, <1>5 DEF ReferenceRule, ForeignRule, Rule
<1>9. rule.source = IF key # <<>> /\ key = foreign.referenced THEN PlainSource(name, metadata[i].columns, options.preserve)
                    ELSE ForeignKeySource(name, metadata[i].columns, foreign, key)
    BY <1>1, <1>2, <1>5 DEF ReferenceRule, ForeignRule, Rule
<1>10. \A triple : triple \in Renamed(ReferenceTriples(database, name, foreign), Named(database))
          <=> \E row \in database[name].rows : \E referred \in Referenced(database, foreign, row) :
                triple = <<Node(database, name, row), predicate, Node(database, parent, referred)>>
    BY <1>2, <1>3, <1>5, ReferencesRenamed
<1>11. \A triple : triple \in Answers(rule, database)
          <=> \E p \in RowsOfSource(rule.source, database) :
                /\ ~IsNull(Subject(metadata[i]), p) /\ ~IsNull(rule.object, p)
                /\ triple = <<TermOf(Subject(metadata[i]), p), predicate, TermOf(rule.object, p)>>
    <2> TAKE triple
    <2>1. triple \in Answers(rule, database)
          <=> \E p \in RowsOfSource(rule.source, database) :
                /\ ~IsNull(rule.subject, p) /\ ~IsNull(rule.object, p)
                /\ triple = <<TermOf(rule.subject, p), rule.predicate, TermOf(rule.object, p)>>
        BY AnswerIs
    <2>. QED
        BY <1>7, <2>1
<1>12. \A row \in database[name].rows : Referenced(database, foreign, row) \subseteq database[parent].rows
    BY <1>2 DEF Referenced
\* The parent has the key referred to.
<1>13. CASE key # <<>> /\ key = foreign.referenced
    <2>1. PICK object : object = IriTemplate(parent, key, foreign.columns)
        OBVIOUS
    <2>2. PICK source : source = PlainSource(name, metadata[i].columns, options.preserve)
        OBVIOUS
    <2>3. rule.object = object /\ rule.source = source
        BY <1>8, <1>9, <1>13, <2>1, <2>2
    <2>4. /\ RowsOfSource(source, database) = {Projected(source, row) : row \in database[name].rows}
          /\ \A row \in database[name].rows :
                /\ \A column \in ToSet(database[name].columns) : Projected(source, row)[column] = row.values[column]
                /\ ~IsNull(Subject(metadata[i]), Projected(source, row))
                /\ TermOf(Subject(metadata[i]), Projected(source, row)) = Node(database, name, row)
        BY <2>2, PlainRows
    <2>5. DOMAIN key = DOMAIN foreign.columns /\ \A j \in DOMAIN key : foreign.columns[j] \in ToSet(database[name].columns)
        BY <1>13, ForeignIs
    <2>6. ASSUME NEW row \in database[name].rows, ~IsNull(object, Projected(source, row))
          PROVE  Referenced(database, foreign, row) # {}
        <3>1. \A j \in DOMAIN key : Projected(source, row)[foreign.columns[j]] # Null
            BY <2>1, <2>6 DEF IsNull, IriTemplate, Template, Slot
        <3>2. \A j \in DOMAIN foreign.columns : row.values[foreign.columns[j]] # Null
            BY <2>4, <2>5, <3>1
        <3>. QED
            BY <3>2, ForeignIs
    <2>7. ASSUME NEW row \in database[name].rows, NEW referred \in Referenced(database, foreign, row)
          PROVE  ~IsNull(object, Projected(source, row)) /\ TermOf(object, Projected(source, row)) = Node(database, parent, referred)
        <3>1. PICK p : p = Projected(source, row)
            OBVIOUS
        <3>2. \A j \in DOMAIN key : p[foreign.columns[j]] = referred.values[key[j]]
            BY <1>6, <1>13, <2>4, <2>5, <3>1
        <3>3. referred \in database[parent].rows
            BY <1>12
        <3>4. PICK aliases : aliases = foreign.columns
            OBVIOUS
        <3>5. \A j \in DOMAIN key : p[aliases[j]] = referred.values[key[j]]
            BY <3>2, <3>4
        <3>6. HasKey(p, aliases, key, referred, parent, database, metadata)
            BY <1>4, <1>5, <1>13, <3>3, <3>5 DEF HasKey
        <3>7. ~IsNull(IriTemplate(parent, key, aliases), p) /\ TermOf(IriTemplate(parent, key, aliases), p) = Node(database, parent, referred)
            BY <3>6, KeyTerm
        <3>. QED
            BY <2>1, <3>1, <3>4, <3>7
    <2>8. ASSUME NEW triple
          PROVE  triple \in Answers(rule, database)
                 <=> \E row \in database[name].rows : \E referred \in Referenced(database, foreign, row) :
                        triple = <<Node(database, name, row), predicate, Node(database, parent, referred)>>
        <3>1. triple \in Answers(rule, database)
              <=> \E row \in database[name].rows : /\ ~IsNull(object, Projected(source, row))
                                                  /\ triple = <<Node(database, name, row), predicate, TermOf(object, Projected(source, row))>>
            BY <1>11, <2>3, <2>4
        <3>. QED
            BY <2>6, <2>7, <3>1
    <2>. QED
        BY <1>1, <1>10, <2>8
\* It has another one, or none.
<1>14. CASE key = <<>> \/ key # foreign.referenced
    <2>1. PICK source : source = ForeignKeySource(name, metadata[i].columns, foreign, key)
        OBVIOUS
    <2>2. rule.source = source
        BY <1>9, <1>14, <2>1
    <2>7. Joins(source, database, metadata, i, foreign, key)
        BY <2>1 DEF Joins
    <2>6. \A p : p \in RowsOfSource(source, database)
                 <=> \E row \in database[name].rows : \E referred \in Referenced(database, foreign, row) :
                        p = Merged(Projected(source, row), ProjectedParent(source, referred))
        BY <2>7, JoinRows
    <2>3. ASSUME NEW row \in database[name].rows, NEW referred, NEW p, p = Merged(Projected(source, row), ProjectedParent(source, referred))
          PROVE /\ \A column \in ToSet(database[name].columns) : p[column] = row.values[column]
                /\ p[RowId] = row.ctid /\ p[ParentRowId] = referred.ctid
                /\ \A j \in DOMAIN key : p[ParentKey(j)] = referred.values[key[j]]
        BY <2>3, <2>7, JoinRow
    <2>4. ASSUME NEW row \in database[name].rows, NEW referred \in Referenced(database, foreign, row)
          PROVE  LET p == Merged(Projected(source, row), ProjectedParent(source, referred))
                 IN  /\ ~IsNull(Subject(metadata[i]), p) /\ TermOf(Subject(metadata[i]), p) = Node(database, name, row)
                     /\ ~IsNull(rule.object, p) /\ TermOf(rule.object, p) = Node(database, parent, referred)
        <3>1. PICK p : p = Merged(Projected(source, row), ProjectedParent(source, referred))
            OBVIOUS
        <3>2. /\ \A column \in ToSet(database[name].columns) : p[column] = row.values[column]
              /\ p[RowId] = row.ctid /\ p[ParentRowId] = referred.ctid
              /\ \A j \in DOMAIN key : p[ParentKey(j)] = referred.values[key[j]]
            BY <2>3, <3>1
        <3>3. referred \in database[parent].rows
            BY <1>12
        <3>4. database[name].key = <<>> => p[RowId] = RowText(database, name, row)
            BY <1>6, <1>14, <3>2 DEF RowText
        <3>5. ~IsNull(Subject(metadata[i]), p) /\ TermOf(Subject(metadata[i]), p) = Node(database, name, row)
            BY <3>2, <3>4, SubjectTerm
        <3>6. CASE key = <<>>
            <4>1. rule.object = BlankTemplate(parent, ParentRowId)
                BY <1>6, <1>8, <3>6
            <4>2. p[ParentRowId] \in Seq(Pieces) /\ p[ParentRowId] # Null
                BY <1>5, <3>2, <3>3, RowIs
            <4>3. ~IsNull(rule.object, p) /\ TermOf(rule.object, p) = BlankNode(parent \o <<"-">> \o p[ParentRowId])
                BY <4>1, <4>2, BlankTerm
            <4>4. RowText(database, parent, referred) = p[ParentRowId]
                BY <1>6, <3>2, <3>6 DEF RowText
            <4>5. Node(database, parent, referred) = BlankNode(parent \o <<"-">> \o p[ParentRowId])
                BY <1>4, <3>6, <4>4 DEF Node
            <4>. QED
                BY <3>1, <3>5, <4>3, <4>5
        <3>7. CASE key # <<>>
            <4>1. PICK aliases : aliases = [j \in DOMAIN key |-> ParentKey(j)]
                OBVIOUS
            <4>2. rule.object = IriTemplate(parent, key, aliases)
                BY <1>8, <1>14, <3>7, <4>1
            <4>3. \A j \in DOMAIN key : p[aliases[j]] = referred.values[key[j]]
                BY <3>2, <4>1
            <4>4. ~IsNull(IriTemplate(parent, key, aliases), p) /\ TermOf(IriTemplate(parent, key, aliases), p) = Node(database, parent, referred)
                BY <1>4, <1>5, <3>3, <3>7, <4>3, KeyTerm DEF HasKey
            <4>. QED
                BY <3>1, <3>5, <4>2, <4>4
        <3>. QED
            BY <3>6, <3>7
    <2>5. ASSUME NEW triple
          PROVE  triple \in Answers(rule, database)
                 <=> \E row \in database[name].rows : \E referred \in Referenced(database, foreign, row) :
                        triple = <<Node(database, name, row), predicate, Node(database, parent, referred)>>
        BY <1>11, <2>2, <2>4, <2>6
    <2>. QED
        BY <1>1, <1>10, <2>5
<1>. QED
    BY <1>13, <1>14

-----------------------------------------------------------------------------
(* What is found.                                                            *)

\* What a graph has of a relation.
ColumnsOf(database, name) == UNION {ColumnTriples(database, name, column) : column \in ToSet(database[name].columns)}
ReferencesOf(database, name) == UNION {ReferenceTriples(database, name, foreign) : foreign \in ToSet(database[name].foreign)}
PartOf(database, name) == ClassTriples(database, name) \cup ColumnsOf(database, name) \cup ReferencesOf(database, name)

(* The parts of a graph are in it, and it has no other.                        *)
LEMMA GraphParts ==
    ASSUME NEW database, NEW triple
    PROVE triple \in DirectGraph(database)
          <=> \E name \in Relations :
                \/ triple \in ClassTriples(database, name)
                \/ \E column \in ToSet(database[name].columns) : triple \in ColumnTriples(database, name, column)
                \/ \E foreign \in ToSet(database[name].foreign) : triple \in ReferenceTriples(database, name, foreign)
<1>1. DirectGraph(database) = UNION {PartOf(database, name) : name \in Relations}
    BY DEF DirectGraph, PartOf, ColumnsOf, ReferencesOf
<1>2. ASSUME NEW name \in Relations
      PROVE triple \in PartOf(database, name)
            <=> \/ triple \in ClassTriples(database, name)
                \/ \E column \in ToSet(database[name].columns) : triple \in ColumnTriples(database, name, column)
                \/ \E foreign \in ToSet(database[name].foreign) : triple \in ReferenceTriples(database, name, foreign)
    <2>1. triple \in PartOf(database, name)
          <=> triple \in ClassTriples(database, name) \/ triple \in ColumnsOf(database, name) \/ triple \in ReferencesOf(database, name)
        BY DEF PartOf
    <2>2. triple \in ColumnsOf(database, name) <=> \E column \in ToSet(database[name].columns) : triple \in ColumnTriples(database, name, column)
        BY DEF ColumnsOf
    <2>3. triple \in ReferencesOf(database, name) <=> \E foreign \in ToSet(database[name].foreign) : triple \in ReferenceTriples(database, name, foreign)
        BY DEF ReferencesOf
    <2>. QED
        BY <2>1, <2>2, <2>3
<1>3. triple \in UNION {PartOf(database, name) : name \in Relations} <=> \E name \in Relations : triple \in PartOf(database, name)
    OBVIOUS
<1>. QED
    BY <1>1, <1>2, <1>3

(* So it is with other names.                                                  *)
LEMMA RenamedParts ==
    ASSUME NEW database, NEW triple
    PROVE triple \in GraphOf(database)
          <=> \E name \in Relations :
                \/ triple \in Renamed(ClassTriples(database, name), Named(database))
                \/ \E column \in ToSet(database[name].columns) : triple \in Renamed(ColumnTriples(database, name, column), Named(database))
                \/ \E foreign \in ToSet(database[name].foreign) : triple \in Renamed(ReferenceTriples(database, name, foreign), Named(database))
<1>1. PICK naming : naming = Named(database)
    OBVIOUS
<1>2. triple \in GraphOf(database)
      <=> \E t \in DirectGraph(database) : triple = <<Called(naming, t[1]), t[2], Called(naming, t[3])>>
    BY <1>1, RenamedIs DEF GraphOf
<1>3. \A graph : triple \in Renamed(graph, naming) <=> \E t \in graph : triple = <<Called(naming, t[1]), t[2], Called(naming, t[3])>>
    BY RenamedIs
<1>4. ASSUME triple \in GraphOf(database)
      PROVE \E name \in Relations :
                \/ triple \in Renamed(ClassTriples(database, name), naming)
                \/ \E column \in ToSet(database[name].columns) : triple \in Renamed(ColumnTriples(database, name, column), naming)
                \/ \E foreign \in ToSet(database[name].foreign) : triple \in Renamed(ReferenceTriples(database, name, foreign), naming)
    <2>1. PICK t \in DirectGraph(database) : triple = <<Called(naming, t[1]), t[2], Called(naming, t[3])>>
        BY <1>2, <1>4
    <2>2. PICK name \in Relations :
            \/ t \in ClassTriples(database, name)
            \/ \E column \in ToSet(database[name].columns) : t \in ColumnTriples(database, name, column)
            \/ \E foreign \in ToSet(database[name].foreign) : t \in ReferenceTriples(database, name, foreign)
        BY <2>1, GraphParts
    <2>. QED
        BY <1>3, <2>1, <2>2
<1>5. ASSUME NEW name \in Relations,
                \/ triple \in Renamed(ClassTriples(database, name), naming)
                \/ \E column \in ToSet(database[name].columns) : triple \in Renamed(ColumnTriples(database, name, column), naming)
                \/ \E foreign \in ToSet(database[name].foreign) : triple \in Renamed(ReferenceTriples(database, name, foreign), naming)
      PROVE triple \in GraphOf(database)
    <2>1. PICK t : /\ triple = <<Called(naming, t[1]), t[2], Called(naming, t[3])>>
                   /\ \/ t \in ClassTriples(database, name)
                      \/ \E column \in ToSet(database[name].columns) : t \in ColumnTriples(database, name, column)
                      \/ \E foreign \in ToSet(database[name].foreign) : t \in ReferenceTriples(database, name, foreign)
        BY <1>3, <1>5
    <2>2. t \in DirectGraph(database)
        BY <2>1, GraphParts
    <2>. QED
        BY <1>2, <2>1, <2>2
<1>. QED
    BY <1>1, <1>4, <1>5

\* A rule, and the part of a graph it is for.
AllExact(moments, metadata) == \A database \in moments : Exact(database, metadata)
IsRule(rule, metadata) == \E i \in DOMAIN metadata : rule \in RulesAbout(metadata[i], metadata, options.preserve)

(* What a rule answers is of the graph.                                        *)
LEMMA AnswersInGraph ==
    ASSUME NEW database, NEW metadata, Exact(database, metadata), NEW rule, IsRule(rule, metadata), NEW triple \in Answers(rule, database)
    PROVE triple \in GraphOf(database)
<1>1. PICK i \in DOMAIN metadata : rule \in RulesAbout(metadata[i], metadata, options.preserve)
    BY DEF IsRule
<1>2. PICK name : name = metadata[i].name
    OBVIOUS
<1>3. name \in Relations /\ metadata[i].columns = database[name].columns /\ metadata[i].foreign = database[name].foreign
    <2>1. name \in Relations /\ metadata[i].columns = CatalogOf(database, name).columns /\ metadata[i].foreign = CatalogOf(database, name).foreign
        BY <1>2 DEF Exact, AllRead, Reads
    <2>. QED
        BY <2>1, ListedIs
<1>4. CASE rule = ClassRule(metadata[i], options.preserve)
    <2>1. triple \in Renamed(ClassTriples(database, name), Named(database))
        BY <1>2, <1>4, ClassAnswers
    <2>. QED
        BY <1>3, <2>1, RenamedParts
<1>5. ASSUME NEW column \in ToSet(metadata[i].columns), rule = ColumnRule(metadata[i], column, options.preserve)
      PROVE triple \in GraphOf(database)
    <2>1. triple \in Renamed(ColumnTriples(database, name, column), Named(database))
        BY <1>2, <1>5, ColumnAnswers
    <2>. QED
        BY <1>3, <2>1, RenamedParts
<1>6. ASSUME NEW foreign \in ToSet(metadata[i].foreign), rule = ReferenceRule(metadata[i], foreign, metadata, options.preserve)
      PROVE triple \in GraphOf(database)
    <2>1. triple \in Renamed(ReferenceTriples(database, name, foreign), Named(database))
        BY <1>2, <1>6, ReferenceAnswers
    <2>. QED
        BY <1>3, <2>1, RenamedParts
<1>. QED
    BY <1>1, <1>4, <1>5, <1>6 DEF RulesAbout

(* Every part of the graph has its rule, the same for every database of one    *)
(* schema.                                                                     *)
LEMMA RuleOfPart ==
    ASSUME NEW moments, NEW metadata, AllExact(moments, metadata), NEW some \in moments, NEW name \in Relations
    PROVE /\ \E rule : IsRule(rule, metadata)
                /\ \A database \in moments : Answers(rule, database) = Renamed(ClassTriples(database, name), Named(database))
          /\ \A column \in ToSet(some[name].columns) : \E rule : IsRule(rule, metadata)
                /\ \A database \in moments : Answers(rule, database) = Renamed(ColumnTriples(database, name, column), Named(database))
          /\ \A foreign \in ToSet(some[name].foreign) : \E rule : IsRule(rule, metadata)
                /\ \A database \in moments : Answers(rule, database) = Renamed(ReferenceTriples(database, name, foreign), Named(database))
<1>1. PICK i \in DOMAIN metadata : metadata[i].name = name
    BY DEF AllExact, Exact, AllRead
<1>2. metadata[i].columns = some[name].columns /\ metadata[i].foreign = some[name].foreign
    <2>1. metadata[i].columns = CatalogOf(some, name).columns /\ metadata[i].foreign = CatalogOf(some, name).foreign
        BY <1>1 DEF AllExact, Exact, AllRead, Reads
    <2>. QED
        BY <2>1, ListedIs DEF AllExact
<1>3. \E rule : IsRule(rule, metadata)
                /\ \A database \in moments : Answers(rule, database) = Renamed(ClassTriples(database, name), Named(database))
    <2>1. PICK rule : rule = ClassRule(metadata[i], options.preserve)
        OBVIOUS
    <2>2. IsRule(rule, metadata)
        BY <2>1 DEF IsRule, RulesAbout
    <2>3. \A database \in moments : Answers(rule, database) = Renamed(ClassTriples(database, name), Named(database))
        BY <1>1, <2>1, ClassAnswers DEF AllExact
    <2>. QED
        BY <2>2, <2>3
<1>4. ASSUME NEW column \in ToSet(some[name].columns)
      PROVE \E rule : IsRule(rule, metadata)
                /\ \A database \in moments : Answers(rule, database) = Renamed(ColumnTriples(database, name, column), Named(database))
    <2>1. PICK rule : rule = ColumnRule(metadata[i], column, options.preserve)
        OBVIOUS
    <2>2. IsRule(rule, metadata)
        BY <1>2, <2>1 DEF IsRule, RulesAbout
    <2>3. \A database \in moments : Answers(rule, database) = Renamed(ColumnTriples(database, name, column), Named(database))
        BY <1>1, <1>2, <2>1, ColumnAnswers DEF AllExact
    <2>. QED
        BY <2>2, <2>3
<1>5. ASSUME NEW foreign \in ToSet(some[name].foreign)
      PROVE \E rule : IsRule(rule, metadata)
                /\ \A database \in moments : Answers(rule, database) = Renamed(ReferenceTriples(database, name, foreign), Named(database))
    <2>1. PICK rule : rule = ReferenceRule(metadata[i], foreign, metadata, options.preserve)
        OBVIOUS
    <2>2. IsRule(rule, metadata)
        BY <1>2, <2>1 DEF IsRule, RulesAbout
    <2>3. \A database \in moments : Answers(rule, database) = Renamed(ReferenceTriples(database, name, foreign), Named(database))
        BY <1>1, <1>2, <2>1, ReferenceAnswers DEF AllExact
    <2>. QED
        BY <2>2, <2>3
<1>. QED
    BY <1>3, <1>4, <1>5

(* What the runtime has found when it answers.                                 *)
LEMMA WhatIsFound ==
    ASSUME IInv, At("answered"), SameSchema, \A database \in Moments : ~Spelled(database) /\ ~RowsByValue(database)
    PROVE /\ \A database \in Moments : Exact(database, runtime.metadata)
          /\ \A triple \in runtime.found : \E database \in Moments : triple \in GraphOf(database)
          /\ \A rule : IsRule(rule, runtime.metadata) => \E database \in Moments : Answers(rule, database) \subseteq runtime.found
<1>1. TypeOK /\ ReadAtSomeMoment /\ FoundSoFar /\ Ended /\ runtime.at \notin {"columns", "key", "foreign keys"}
    BY DEF IInv, At, Ended
<1>2. \A database \in Moments : DatabaseOK(database) /\ AllRead(runtime.metadata, database)
    BY <1>1, ReadIsCatalog, MomentsOK
<1>3. /\ ~MetadataFails(runtime.metadata) /\ runtime.rules = <<>>
      /\ runtime.found \subseteq UNION {UNION {Answers(rule, database) : database \in AnsweredAt(rule)} : rule \in ToSet(Rules)}
      /\ \A rule \in ToSet(Rules) \ ToSet(runtime.rules) : \E database \in AnsweredAt(rule) : Answers(rule, database) \subseteq runtime.found
    BY <1>1 DEF FoundSoFar
<1>4. \A database \in Moments : Exact(database, runtime.metadata)
    BY <1>2, <1>3 DEF Exact
<1>5. ToSet(Rules) = UNION {RulesAbout(runtime.metadata[i], runtime.metadata, options.preserve) : i \in DOMAIN runtime.metadata}
    BY <1>1, RulesRead
<1>6. \A rule : rule \in ToSet(Rules) <=> IsRule(rule, runtime.metadata)
    BY <1>5 DEF IsRule
<1>7. \A rule : AnsweredAt(rule) \subseteq Moments
    BY DEF AnsweredAt
<1>8. ASSUME NEW triple \in runtime.found PROVE \E database \in Moments : triple \in GraphOf(database)
    <2>1. PICK rule \in ToSet(Rules) : \E database \in AnsweredAt(rule) : triple \in Answers(rule, database)
        BY <1>3
    <2>2. PICK database \in AnsweredAt(rule) : triple \in Answers(rule, database)
        BY <2>1
    <2>3. database \in Moments /\ IsRule(rule, runtime.metadata)
        BY <1>6, <1>7, <2>1, <2>2
    <2>. QED
        BY <1>4, <2>2, <2>3, AnswersInGraph
<1>9. ASSUME NEW rule, IsRule(rule, runtime.metadata) PROVE \E database \in Moments : Answers(rule, database) \subseteq runtime.found
    <2>1. ToSet(runtime.rules) = {}
        BY <1>3 DEF ToSet
    <2>. QED
        BY <1>3, <1>6, <1>7, <1>9, <2>1
<1>. QED
    BY <1>4, <1>8, <1>9

(* What a rule answers all the while is found.                                 *)
LEMMA LastingPart ==
    ASSUME NEW part, NEW rule, \A database \in Moments : part[database] = Answers(rule, database),
           \E database \in Moments : Answers(rule, database) \subseteq runtime.found
    PROVE Lasting(part)
    BY DEF Lasting

(* Whatever the rows do while rules are asked, every triple found was in the   *)
(* direct graph at some moment, and what a relation, a column or a foreign key *)
(* had all the while is found (VkgRuntime::execute_typed).                     *)
THEOREM MomentsHold == Spec => []FoundAtSomeMoment
<1>1. ASSUME IInv PROVE FoundAtSomeMoment
    <2> SUFFICES ASSUME At("answered"), SameSchema, \A database \in Moments : ~Spelled(database) /\ ~RowsByValue(database)
                 PROVE  /\ runtime.found \subseteq UNION {GraphOf(database) : database \in Moments}
                        /\ \A name \in Relations :
                            /\ Lasting([database \in Moments |-> Renamed(ClassTriples(database, name), Named(database))])
                            /\ \A column \in ToSet(databases[1][name].columns) :
                                Lasting([database \in Moments |-> Renamed(ColumnTriples(database, name, column), Named(database))])
                            /\ \A foreign \in ToSet(databases[1][name].foreign) :
                                Lasting([database \in Moments |-> Renamed(ReferenceTriples(database, name, foreign), Named(database))])
        BY DEF FoundAtSomeMoment
    <2>1. /\ AllExact(Moments, runtime.metadata)
          /\ \A triple \in runtime.found : \E database \in Moments : triple \in GraphOf(database)
          /\ \A rule : IsRule(rule, runtime.metadata) => \E database \in Moments : Answers(rule, database) \subseteq runtime.found
        BY <1>1, WhatIsFound DEF AllExact
    <2>2. PICK some \in Moments : some = databases[1]
        BY <1>1, MomentsOK DEF IInv
    <2>3. runtime.found \subseteq UNION {GraphOf(database) : database \in Moments}
        BY <2>1
    <2>4. ASSUME NEW name \in Relations
          PROVE /\ Lasting([database \in Moments |-> Renamed(ClassTriples(database, name), Named(database))])
                /\ \A column \in ToSet(databases[1][name].columns) :
                    Lasting([database \in Moments |-> Renamed(ColumnTriples(database, name, column), Named(database))])
                /\ \A foreign \in ToSet(databases[1][name].foreign) :
                    Lasting([database \in Moments |-> Renamed(ReferenceTriples(database, name, foreign), Named(database))])
        <3>1. /\ \E rule : IsRule(rule, runtime.metadata)
                    /\ \A database \in Moments : Answers(rule, database) = Renamed(ClassTriples(database, name), Named(database))
              /\ \A column \in ToSet(some[name].columns) : \E rule : IsRule(rule, runtime.metadata)
                    /\ \A database \in Moments : Answers(rule, database) = Renamed(ColumnTriples(database, name, column), Named(database))
              /\ \A foreign \in ToSet(some[name].foreign) : \E rule : IsRule(rule, runtime.metadata)
                    /\ \A database \in Moments : Answers(rule, database) = Renamed(ReferenceTriples(database, name, foreign), Named(database))
            BY <2>1, RuleOfPart
        <3>2. Lasting([database \in Moments |-> Renamed(ClassTriples(database, name), Named(database))])
            <4>1. PICK rule : IsRule(rule, runtime.metadata)
                    /\ \A database \in Moments : Answers(rule, database) = Renamed(ClassTriples(database, name), Named(database))
                BY <3>1
            <4>2. PICK part : part = [database \in Moments |-> Renamed(ClassTriples(database, name), Named(database))]
                OBVIOUS
            <4>. QED
                BY <2>1, <4>1, <4>2, LastingPart
        <3>3. ASSUME NEW column \in ToSet(databases[1][name].columns)
              PROVE Lasting([database \in Moments |-> Renamed(ColumnTriples(database, name, column), Named(database))])
            <4>1. PICK rule : IsRule(rule, runtime.metadata)
                    /\ \A database \in Moments : Answers(rule, database) = Renamed(ColumnTriples(database, name, column), Named(database))
                BY <2>2, <3>1
            <4>2. PICK part : part = [database \in Moments |-> Renamed(ColumnTriples(database, name, column), Named(database))]
                OBVIOUS
            <4>. QED
                BY <2>1, <4>1, <4>2, LastingPart
        <3>4. ASSUME NEW foreign \in ToSet(databases[1][name].foreign)
              PROVE Lasting([database \in Moments |-> Renamed(ReferenceTriples(database, name, foreign), Named(database))])
            <4>1. PICK rule : IsRule(rule, runtime.metadata)
                    /\ \A database \in Moments : Answers(rule, database) = Renamed(ReferenceTriples(database, name, foreign), Named(database))
                BY <2>2, <3>1
            <4>2. PICK part : part = [database \in Moments |-> Renamed(ReferenceTriples(database, name, foreign), Named(database))]
                OBVIOUS
            <4>. QED
                BY <2>1, <4>1, <4>2, LastingPart
        <3>. QED
            BY <3>2, <3>3, <3>4
    <2>. QED
        BY <2>3, <2>4
<1>. QED
    BY <1>1, InvariantHolds, PTL

-----------------------------------------------------------------------------
(* No two rows are one node, but where the mapping tells rows apart otherwise. *)

(* A text ends after its last dash.                                            *)
LEMMA DashEnds ==
    ASSUME NEW S, "-" \in S, NEW a \in Seq(S), NEW b \in Seq(S), NEW s \in Seq(S), NEW t \in Seq(S),
           "-" \notin ToSet(s), a \o <<"-">> \o s = b \o <<"-">> \o t
    PROVE Len(b) <= Len(a)
<1> SUFFICES ASSUME Len(a) < Len(b) PROVE FALSE
    OBVIOUS
<1>1. PICK left : left = a \o <<"-">> \o s
    OBVIOUS
<1>2. PICK right : right = b \o <<"-">> \o t
    OBVIOUS
<1>3. Len(left) = Len(a) + 1 + Len(s) /\ Len(right) = Len(b) + 1 + Len(t)
    BY <1>1, <1>2
<1>4. PICK i : i = Len(b) - Len(a)
    OBVIOUS
<1>5. i \in 1..Len(s)
    BY <1>1, <1>2, <1>3, <1>4
<1>6. right[Len(b) + 1] = "-"
    BY <1>2
<1>7. left[Len(a) + 1 + i] = s[i]
    BY <1>1, <1>5
<1>8. s[i] = "-"
    <2>1. Len(a) + 1 + i = Len(b) + 1
        BY <1>4
    <2>2. left = right
        BY <1>1, <1>2
    <2>. QED
        BY <1>6, <1>7, <2>1, <2>2
<1>. QED
    BY <1>5, <1>8 DEF ToSet

(* So what is before it and after it is known.                                 *)
LEMMA DashSplits ==
    ASSUME NEW S, "-" \in S, NEW a \in Seq(S), NEW b \in Seq(S), NEW s \in Seq(S), NEW t \in Seq(S),
           "-" \notin ToSet(s), "-" \notin ToSet(t), a \o <<"-">> \o s = b \o <<"-">> \o t
    PROVE a = b /\ s = t
<1>1. Len(a) = Len(b)
    <2>1. Len(b) <= Len(a)
        BY DashEnds
    <2>2. b \o <<"-">> \o t = a \o <<"-">> \o s
        OBVIOUS
    <2>3. Len(a) <= Len(b)
        BY <2>2, DashEnds
    <2>. QED
        BY <2>1, <2>3
<1>2. PICK left : left = a \o <<"-">> \o s
    OBVIOUS
<1>3. left = b \o <<"-">> \o t
    BY <1>2
<1>4. Len(left) = Len(a) + 1 + Len(s) /\ Len(left) = Len(b) + 1 + Len(t)
    BY <1>2, <1>3
<1>5. ASSUME NEW i \in 1..Len(a) PROVE a[i] = b[i]
    <2>1. left[i] = a[i]
        BY <1>2
    <2>2. left[i] = b[i]
        BY <1>1, <1>3
    <2>. QED
        BY <2>1, <2>2
<1>6. ASSUME NEW i \in 1..Len(s) PROVE s[i] = t[i]
    <2>1. left[Len(a) + 1 + i] = s[i]
        BY <1>2
    <2>2. left[Len(b) + 1 + i] = t[i]
        BY <1>1, <1>3, <1>4
    <2>. QED
        BY <1>1, <2>1, <2>2
<1>7. Len(s) = Len(t)
    BY <1>1, <1>4
<1>8. a = [i \in 1..Len(a) |-> a[i]] /\ b = [i \in 1..Len(b) |-> b[i]]
    OBVIOUS
<1>9. s = [i \in 1..Len(s) |-> s[i]] /\ t = [i \in 1..Len(t) |-> t[i]]
    OBVIOUS
<1>10. a = b
    BY <1>1, <1>5, <1>8
<1>11. s = t
    BY <1>6, <1>7, <1>9
<1>. QED
    BY <1>10, <1>11

(* What a node of a row is.                                                    *)
LEMMA NodeOfRow ==
    ASSUME NEW database, NEW metadata, Exact(database, metadata), NEW node \in RowNodes(database)
    PROVE /\ node.name \in Relations /\ node.name \in Keyless(database)
          /\ RowOf(database, node) \in database[node.name].rows
          /\ node = [type |-> "row", name |-> node.name, id |-> RowOf(database, node).id]
          /\ node = RowNode(database, node.name, RowOf(database, node))
          /\ Named(database)[node] = BlankNode(node.name \o <<"-">> \o RowText(database, node.name, RowOf(database, node)))
<1>1. PICK name \in Keyless(database) : \E row \in database[name].rows : node = RowNode(database, name, row)
    BY DEF RowNodes
<1>2. PICK row \in database[name].rows : node = RowNode(database, name, row)
    BY <1>1
<1>3. name \in Relations /\ database[name].key = <<>>
    BY DEF Keyless
<1>4. node = [type |-> "row", name |-> name, id |-> row.id]
    BY <1>2, <1>3 DEF RowNode
<1>5. \A one, other \in database[name].rows : one.id = other.id => one = other
    BY <1>3, ListedIs
<1>6. RowOf(database, node) = row
    BY <1>4, <1>5 DEF RowOf
<1>7. Named(database)[node] = BlankNode(node.name \o <<"-">> \o RowText(database, node.name, RowOf(database, node)))
    BY DEF Named
<1>8. node.name = name /\ name \in Keyless(database)
    BY <1>4
<1>9. node.name \in Relations /\ RowOf(database, node) \in database[node.name].rows
    BY <1>2, <1>3, <1>6, <1>8
<1>10. node = [type |-> "row", name |-> node.name, id |-> RowOf(database, node).id]
    BY <1>4, <1>6, <1>8
<1>11. node = RowNode(database, node.name, RowOf(database, node))
    BY <1>2, <1>6, <1>8
<1>. QED
    BY <1>7, <1>8, <1>9, <1>10, <1>11

(* Rows have one name if they are one node, and only then.                     *)
LEMMA NamesTell ==
    ASSUME NEW database, NEW metadata, Exact(database, metadata), ~Confused(database),
           NEW left \in RowNodes(database), NEW right \in RowNodes(database)
    PROVE Named(database)[left] = Named(database)[right] <=> OneNode(database, left, right)
<1>1. PICK one : one = RowOf(database, left)
    OBVIOUS
<1>2. PICK other : other = RowOf(database, right)
    OBVIOUS
<1>3. PICK text : text = left.name \o <<"-">> \o RowText(database, left.name, one)
    OBVIOUS
<1>4. PICK another : another = right.name \o <<"-">> \o RowText(database, right.name, other)
    OBVIOUS
<1>5. /\ left.name \in Relations /\ left.name \in Keyless(database) /\ one \in database[left.name].rows
      /\ left = [type |-> "row", name |-> left.name, id |-> one.id]
      /\ Named(database)[left] = BlankNode(text)
    BY <1>1, <1>3, NodeOfRow
<1>6. /\ right.name \in Relations /\ right.name \in Keyless(database) /\ other \in database[right.name].rows
      /\ right = [type |-> "row", name |-> right.name, id |-> other.id]
      /\ Named(database)[right] = BlankNode(another)
    BY <1>2, <1>4, NodeOfRow
<1>7. Named(database)[left] = Named(database)[right] <=> text = another
    BY <1>5, <1>6 DEF BlankNode
<1>8. CASE options.preserve
    <2>1. text = left.name \o <<"-">> \o one.ctid /\ another = right.name \o <<"-">> \o other.ctid
        BY <1>3, <1>4, <1>8 DEF RowText
    <2>. DEFINE S == STRING \cup {"-"}
    <2>2. left.name \in Seq(S) /\ right.name \in Seq(S) /\ "-" \in S
        <3>1. left.name \in Seq(STRING) /\ right.name \in Seq(STRING)
            BY <1>5, <1>6, ListedIs DEF Text
        <3>. QED
            BY <3>1
    <2>3. "-" \notin ToSet(one.ctid) /\ one.ctid \in Seq(S) /\ "-" \notin ToSet(other.ctid) /\ other.ctid \in Seq(S)
        <3>1. one.ctid \in Seq(STRING) /\ other.ctid \in Seq(STRING)
            BY <1>5, <1>6, RowIs DEF Text
        <3>2. "-" \notin ToSet(one.ctid) /\ "-" \notin ToSet(other.ctid)
            BY <1>5, <1>6, RowIs
        <3>. QED
            BY <3>1, <3>2
    <2>. HIDE DEF S
    <2>4. ASSUME text = another PROVE left = right
        <3>1. left.name = right.name /\ one.ctid = other.ctid
            BY <2>1, <2>2, <2>3, <2>4, DashSplits
        <3>2. one = other
            BY <1>5, <1>6, <1>8, <3>1 DEF Confused, SharedCtid
        <3>. QED
            BY <1>5, <1>6, <3>1, <3>2
    <2>5. ASSUME left = right PROVE text = another
        BY <1>1, <1>2, <1>3, <1>4, <2>5
    <2>6. OneNode(database, left, right) <=> left = right
        BY <1>8 DEF OneNode
    <2>. QED
        BY <1>7, <2>4, <2>5, <2>6
<1>9. CASE ~options.preserve
    <2>1. /\ text = left.name \o <<"-">> \o Concatenated(database[left.name].columns, one)
          /\ another = right.name \o <<"-">> \o Concatenated(database[right.name].columns, other)
        BY <1>3, <1>4, <1>9 DEF RowText
    <2>2. ASSUME text = another PROVE left.name = right.name /\ one.values = other.values
        <3>1. ~OneText(database)
            BY DEF Confused
        <3>. QED
            BY <1>5, <1>6, <1>9, <2>1, <2>2, <3>1 DEF OneText
    <2>3. ASSUME left.name = right.name, one.values = other.values PROVE text = another
        <3>1. Concatenated(database[left.name].columns, one) = Concatenated(database[right.name].columns, other)
            BY <2>3 DEF Concatenated
        <3>. QED
            BY <2>1, <2>3, <3>1
    <2>4. ASSUME left = right PROVE left.name = right.name /\ one.values = other.values
        BY <1>1, <1>2, <2>4
    <2>5. OneNode(database, left, right) <=> left = right \/ (left.name = right.name /\ one.values = other.values)
        BY <1>1, <1>2, <1>9 DEF OneNode
    <2>. QED
        BY <1>7, <2>2, <2>3, <2>4, <2>5
<1>. QED
    BY <1>8, <1>9

(* A graph with the names of the statements is the direct graph but for names. *)
LEMMA NamesFit ==
    ASSUME NEW database, NEW metadata, Exact(database, metadata), ~Confused(database)
    PROVE Isomorphic(database, GraphOf(database))
<1>1. PICK naming : naming = Named(database)
    OBVIOUS
<1>2. PICK found : found = GraphOf(database)
    OBVIOUS
<1>3. found = Renamed(DirectGraph(database), naming)
    BY <1>1, <1>2 DEF GraphOf
<1>4. ASSUME NEW node \in RowNodes(database) PROVE naming[node] \in BlankNodes(found)
    <2>1. PICK name : name = node.name
        OBVIOUS
    <2>2. PICK row \in database[name].rows : row = RowOf(database, node)
        BY <2>1, NodeOfRow
    <2>3. name \in Relations /\ node = RowNode(database, name, row) /\ node.type = "row" /\ naming[node].type = "blank"
        <3>1. name \in Relations /\ node = RowNode(database, name, row)
            BY <2>1, <2>2, NodeOfRow
        <3>2. node.type = "row"
            BY NodeOfRow
        <3>3. PICK text : naming[node] = BlankNode(text)
            BY <1>1, NodeOfRow
        <3>. QED
            BY <3>1, <3>2, <3>3 DEF BlankNode
    <2>4. PICK triple : triple = <<node, TypePredicate, Iri(Standard(name))>>
        OBVIOUS
    <2>5. triple \in DirectGraph(database)
        <3>1. triple \in ClassTriples(database, name)
            BY <2>2, <2>3, <2>4 DEF ClassTriples
        <3>. QED
            BY <2>3, <3>1, GraphParts
    <2>6. PICK answer : answer = <<Called(naming, triple[1]), triple[2], Called(naming, triple[3])>>
        OBVIOUS
    <2>7. answer \in found
        BY <1>3, <2>5, <2>6, RenamedIs
    <2>8. answer[1] = naming[node]
        BY <2>3, <2>4, <2>6 DEF Called
    <2>. QED
        BY <2>3, <2>7, <2>8 DEF BlankNodes
<1>5. naming \in [RowNodes(database) -> BlankNodes(found)]
    BY <1>1, <1>4 DEF Named
<1>6. \A left, right \in RowNodes(database) : naming[left] = naming[right] <=> OneNode(database, left, right)
    BY <1>1, NamesTell
<1>. QED
    BY <1>2, <1>3, <1>5, <1>6 DEF Isomorphic

(* Everything in the graph is answered by some rule.                           *)
LEMMA GraphInAnswers ==
    ASSUME NEW some, NEW metadata, Exact(some, metadata), NEW triple \in GraphOf(some)
    PROVE \E rule : IsRule(rule, metadata) /\ triple \in Answers(rule, some)
<1>1. PICK name \in Relations :
        \/ triple \in Renamed(ClassTriples(some, name), Named(some))
        \/ \E column \in ToSet(some[name].columns) : triple \in Renamed(ColumnTriples(some, name, column), Named(some))
        \/ \E foreign \in ToSet(some[name].foreign) : triple \in Renamed(ReferenceTriples(some, name, foreign), Named(some))
    BY RenamedParts
<1>2. PICK moments : moments = {some}
    OBVIOUS
<1>3. some \in moments
    BY <1>2
<1>4. AllExact(moments, metadata)
    BY <1>2 DEF AllExact
<1>5. \E rule : IsRule(rule, metadata)
            /\ \A database \in moments : Answers(rule, database) = Renamed(ClassTriples(database, name), Named(database))
    BY <1>3, <1>4, RuleOfPart
<1>6. \A column \in ToSet(some[name].columns) : \E rule : IsRule(rule, metadata)
            /\ \A database \in moments : Answers(rule, database) = Renamed(ColumnTriples(database, name, column), Named(database))
    BY <1>3, <1>4, RuleOfPart
<1>7. \A foreign \in ToSet(some[name].foreign) : \E rule : IsRule(rule, metadata)
            /\ \A database \in moments : Answers(rule, database) = Renamed(ReferenceTriples(database, name, foreign), Named(database))
    BY <1>3, <1>4, RuleOfPart
<1>8. CASE triple \in Renamed(ClassTriples(some, name), Named(some))
    BY <1>3, <1>5, <1>8
<1>9. ASSUME NEW column \in ToSet(some[name].columns), triple \in Renamed(ColumnTriples(some, name, column), Named(some))
      PROVE \E rule : IsRule(rule, metadata) /\ triple \in Answers(rule, some)
    BY <1>3, <1>6, <1>9
<1>10. ASSUME NEW foreign \in ToSet(some[name].foreign), triple \in Renamed(ReferenceTriples(some, name, foreign), Named(some))
      PROVE \E rule : IsRule(rule, metadata) /\ triple \in Answers(rule, some)
    BY <1>3, <1>7, <1>10
<1>. QED
    BY <1>1, <1>8, <1>9, <1>10

(* While the database does not change, the triples found are the direct graph  *)
(* of the listed relations but for the names of blank nodes, for every schema, *)
(* all rows and every list of relations (Mapping::from_direct_mapping).        *)
THEOREM GraphHolds == Spec => []FoundIsDirectGraph
<1>1. ASSUME IInv PROVE FoundIsDirectGraph
    <2> SUFFICES ASSUME At("answered"), NEW database \in Moments, Moments = {database}, ~Spelled(database), ~Confused(database)
                 PROVE  Isomorphic(database, runtime.found)
        BY DEF FoundIsDirectGraph
    <2>1. SameSchema /\ \A d \in Moments : d = database
        BY DEF SameSchema
    <2>2. ~RowsByValue(database)
        BY DEF Confused
    <2>3. /\ Exact(database, runtime.metadata)
          /\ \A d \in Moments : Exact(d, runtime.metadata)
          /\ \A triple \in runtime.found : triple \in GraphOf(database)
          /\ \A rule : IsRule(rule, runtime.metadata) => Answers(rule, database) \subseteq runtime.found
        BY <1>1, <2>1, <2>2, WhatIsFound
    <2>4. ASSUME NEW triple \in GraphOf(database) PROVE triple \in runtime.found
        <3>1. PICK rule : IsRule(rule, runtime.metadata) /\ triple \in Answers(rule, database)
            BY <2>3, GraphInAnswers
        <3>. QED
            BY <2>3, <3>1
    <2>5. runtime.found = GraphOf(database)
        BY <2>3, <2>4
    <2>. QED
        BY <2>3, <2>5, NamesFit
<1>. QED
    BY <1>1, InvariantHolds, PTL
=============================================================================
