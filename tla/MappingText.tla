------------------------------ MODULE MappingText ------------------------------
(***************************************************************************)
(* Native OBDA mappings as text: read by Mapping::parse, converted from    *)
(* version 1 by `rtop mapping v1-to-v3`, written by `rtop bootstrap`       *)
(* (src/src/main.rs, src/src/mapping.rs). A text is a sequence of lines.   *)
(*                                                                         *)
(* A target is that of a rule, a source the items of its SELECT and its    *)
(* tables. Identifiers are sequences of pieces, so that one can be found   *)
(* inside another: a column of a table is the table's pieces, a point and  *)
(* the name's.                                                             *)
(***************************************************************************)
EXTENDS MappingRules

CONSTANT
    Alphabet        \* the pieces, in the order of their text

SourceDeclaration == [t |-> "[SourceDeclaration]"]
MappingDeclaration == [t |-> "[MappingDeclaration]"]
Closing == [t |-> "]]"]
R2rmlPrefix == [t |-> "@prefix rr:"]
Empty == [t |-> ""]
Setting(key) == [t |-> "setting", key |-> key]
MappingId(id) == [t |-> "mappingId", id |-> id]
Target(graph, subject, pairs) == [t |-> "target", graph |-> graph, subject |-> subject, pairs |-> pairs]
Source(distinct, items, tables) ==
    [t |-> "source", distinct |-> distinct, items |-> items, tables |-> tables, join |-> <<>>]
Property(key) == [t |-> "property", key |-> key]

Is(line, kind) == line.t = kind

\* A text is a sequence of lines whose parts are finite. A source can be told from
\* other lines, and a literal has one suffix.
HasOneSuffix(term) == {"datatype", "language"} \subseteq DOMAIN term /\ (term.datatype = None \/ term.language = None)
IsSource(line) == {"t", "items"} \subseteq DOMAIN line /\ Is(line, "source")
IsLine(line) ==
    /\ "t" \in DOMAIN line
    /\ Is(line, "source") => IsSource(line)
    /\ Is(line, "target") =>
        /\ "pairs" \in DOMAIN line /\ line.pairs \in Seq(ToSet(line.pairs))
        /\ \A pair \in ToSet(line.pairs) : "object" \in DOMAIN pair /\ HasOneSuffix(pair.object)
    /\ Is(line, "triples map") =>
        /\ IsTriplesMap(line) /\ IsSource(line.source) /\ IsFiniteSet(line.classes) /\ line.objects \in Seq(ToSet(line.objects))
        /\ \A object \in ToSet(line.objects) : object.graphs \in Seq(ToSet(object.graphs))
IsText(text) == text \in Seq(ToSet(text)) /\ \A line \in ToSet(text) : IsLine(line)

\* What is read of a catalog: relations with a list of columns.
IsRelation(line) ==
    {"t", "columns"} \subseteq DOMAIN line /\ Is(line, "relation") /\ line.columns \in Seq(ToSet(line.columns))
IsCatalog(relations) ==
    relations \in Seq(ToSet(relations)) /\ \A relation \in ToSet(relations) : IsRelation(relation)

-----------------------------------------------------------------------------
(* Columns and the items of SELECT.                                          *)

Column(table, name) == table \o <<".">> \o name
IsQualified(column) == Contains(column, ".")
PointOf(column) == CHOOSE i \in DOMAIN column : column[i] = "."
NameOf(column) == SubSeq(column, PointOf(column) + 1, Len(column))

Star == <<"*">>
Aliased(item, alias) == item \o <<" AS ">> \o alias
Max_(item) == <<"max(">> \o item \o <<")">>
IsFunction(item) == Head(item) = "max("

AliasesIn(item) == {i \in DOMAIN item : item[i] = " AS "}
Expression(item) == IF AliasesIn(item) = {} THEN item ELSE SubSeq(item, 1, Min(AliasesIn(item)) - 1)
Alias(item) == SubSeq(item, Min(AliasesIn(item)) + 1, Len(item))

\* validate_source_sql: what the SQL parser takes for an item.
WellFormed(item) ==
    /\ Cardinality(AliasesIn(item)) <= 1
    /\ AliasesIn(item) # {} => Alias(item) # <<>> /\ ~IsQualified(Alias(item)) /\ Last(item) # ")"
    /\ IsFunction(Expression(item)) => Last(Expression(item)) = ")"

\* The lines of SQL are cut at commas again after text was put into them.
Comma == ","
Joined(items) == FlattenSeq([i \in DOMAIN items |-> IF i = 1 THEN items[i] ELSE <<Comma>> \o items[i]])
Split(text) ==
    LET commas == {i \in DOMAIN text : text[i] = Comma}
        ends == SetToSortSeq(commas \cup {Len(text) + 1}, <)
    IN  [i \in DOMAIN ends |-> SubSeq(text, (IF i = 1 THEN 1 ELSE ends[i - 1] + 1), ends[i] - 1)]

\* str::replace. No column occurs across the end of another occurrence.
Occurrences(text, part) ==
    {i \in 1..Len(text) - Len(part) + 1 : SubSeq(text, i, i + Len(part) - 1) = part}
WithPlaces(text, at, length, by) ==
    FlattenSeq([i \in DOMAIN text |-> IF i \in at THEN by
                                      ELSE IF \E j \in at : j < i /\ i < j + length THEN <<>>
                                      ELSE <<text[i]>>])
ReplaceText(text, part, by) == WithPlaces(text, Occurrences(text, part), Len(part), by)

-----------------------------------------------------------------------------
(* v1-to-v3: migrate_v1_rule.                                                *)

PartsOf(target) ==
    target.graph \o target.subject.parts
    \o FlattenSeq([i \in DOMAIN target.pairs |-> target.pairs[i].object.parts])
Placeholders(target) == LET slots == Slots(PartsOf(target)) IN [i \in DOMAIN slots |-> slots[i].column]

\* The columns of a table among the placeholders, in the target's order.
Qualified(target) == SelectSeq(Placeholders(target), IsQualified)

\* The target with other columns in its slots.
Renamed(target, Name(_)) ==
    LET parts(old) == [i \in DOMAIN old |-> IF IsSlot(old[i]) THEN Slot(Name(old[i].column)) ELSE old[i]]
        pair(old) == [old EXCEPT !.object.parts = parts(@)]
    IN  [target EXCEPT !.graph = parts(@), !.subject.parts = parts(@), !.pairs = [i \in DOMAIN @ |-> pair(@[i])]]

Place(piece) == CHOOSE i \in DOMAIN Alphabet : Alphabet[i] = piece
\* The order of BTreeMap: that of the texts.
Before(left, right) ==
    LET apart == {i \in 1..Min({Len(left), Len(right)}) : left[i] # right[i]}
    IN  IF apart = {} THEN Len(left) < Len(right)
        ELSE Place(left[Min(apart)]) < Place(right[Min(apart)])

Digit(n) == CASE n = 1 -> "1" [] n = 2 -> "2" [] n = 3 -> "3"

\* Fault: columns of one name are not told apart.
AliasForName(column, columns) == NameOf(column)

\* The column's name, numbered if other placeholders have it too.
Numbered(column, named) ==
    IF Len(named) = 1 THEN NameOf(column)
    ELSE NameOf(column) \o <<Digit(Min({i \in DOMAIN named : named[i] = column}))>>
AliasFor(column, columns) ==
    Numbered(column, SelectSeq(columns, LAMBDA other : NameOf(other) = NameOf(column)))

\* simplify_v1_projection: with no alias that renames; whatever else the
\* projection says goes too. Tables are listed, not joined.
Simplified(source) ==
    IF \/ Star \in ToSet(source.items)
       \/ \E i \in DOMAIN source.items :
            \/ ~WellFormed(source.items[i])
            \/ AliasesIn(source.items[i]) # {} /\ Alias(source.items[i]) # Expression(source.items[i])
    THEN source ELSE Source(FALSE, <<Star>>, source.tables)

\* The items with a name for every column of a table.
NamedItems(items, columns) ==
    IF columns = <<>> THEN items
    ELSE Split(FoldLeft(LAMBDA text, column : ReplaceText(text, column, Aliased(column, AliasFor(column, columns))),
                        Joined(items), SetToSortSeq(ToSet(columns), Before)))

Projection(source, simplify) == IF simplify THEN Simplified(source) ELSE source

\* The target and the source of a rule, with those names.
MigrateWith(columns, target, source, simplify) ==
    LET alias(column) == IF IsQualified(column) THEN AliasFor(column, columns) ELSE column
    IN  <<Renamed(target, alias), Projection([source EXCEPT !.items = NamedItems(@, columns)], simplify)>>
MigrateRule(target, source, simplify) == MigrateWith(Qualified(target), target, source, simplify)

\* migrate_v1_native_text, line by line: what is converted, the settings, whether
\* a declaration is open, the line of the last target, and whether it failed.
SettingNames ==
    [connectionUrl |-> "jdbc.url", username |-> "jdbc.user", password |-> "jdbc.password", driverClass |-> "jdbc.driver"]

WithRule(state, rule) == [state EXCEPT !.converted = Append([@ EXCEPT ![state.target] = rule[1]], rule[2])]

MigrateLine(state, line, simplify) ==
    CASE state.failed -> state
      [] Is(line, "[SourceDeclaration]") -> [state EXCEPT !.declaring = TRUE]
      [] state.declaring /\ Is(line, "") -> [state EXCEPT !.declaring = FALSE]
      [] state.declaring ->
            IF Is(line, "setting") /\ line.key \in DOMAIN SettingNames
            THEN [state EXCEPT !.properties = Append(@, Property(SettingNames[line.key]))]
            ELSE [state EXCEPT !.failed = TRUE]
      [] Is(line, "target") ->
            [state EXCEPT !.converted = Append(@, line), !.target = Len(state.converted) + 1]
      [] Is(line, "source") /\ state.target # 0 ->
            WithRule(state, MigrateRule(state.converted[state.target], line, simplify))
      [] OTHER -> [state EXCEPT !.converted = Append(@, line)]

NothingScanned == [converted |-> <<>>, properties |-> <<>>, declaring |-> FALSE, target |-> 0, failed |-> FALSE]
Scanned(text, simplify) ==
    LET after[n \in 0..Len(text)] == IF n = 0 THEN NothingScanned ELSE MigrateLine(after[n - 1], text[n], simplify)
    IN  after[Len(text)]

\* Fault: the settings are dropped.
OutcomeWithoutSettings(end) == <<end.failed \/ end.declaring, end.converted, <<>>>>

\* <<failed, mapping, properties>>
Outcome(end) == <<end.failed \/ end.declaring, end.converted, end.properties>>

Migrated(text, simplify) == Outcome(Scanned(text, simplify))

-----------------------------------------------------------------------------
(* Mapping::parse.                                                           *)

\* A section begins with a mappingId and ends before the next.
SectionStarts(text) == {i \in DOMAIN text : Is(text[i], "mappingId")}
SectionFrom(text, start) ==
    LET later == {i \in SectionStarts(text) : i > start}
    IN  SubSeq(text, start, IF later = {} THEN Len(text) ELSE Min(later) - 1)
Sections(text) == IF SectionStarts(text) = {} THEN {text} ELSE {SectionFrom(text, start) : start \in SectionStarts(text)}

Some(section, kind) == \E line \in ToSet(section) : Is(line, kind)
First(section, kind) == section[Min({i \in DOMAIN section : Is(section[i], kind)})]

SourceFails(source) == \E item \in ToSet(source.items) : ~WellFormed(item)
SectionFails(section) ==
    \/ ~Some(section, "target") \/ ~Some(section, "source")
    \/ SourceFails(First(section, "source"))
    \/ TargetFails(First(section, "target"))

\* A text cut short is not refused: nothing asks for its last line.
NativeFails(text) ==
    \/ Some(text, "[SourceDeclaration]") \/ ~Some(text, "[MappingDeclaration]")
    \/ \E section \in Sections(text) : SectionFails(section)

NativeRules(text) ==
    UNION {RulesOfTarget(First(section, "target"), First(section, "source")) : section \in Sections(text)}

\* Mapping::parse_r2rml. The source of a parent is validated too.
ParentFails(map) == map.kind = "parent" /\ SourceFails(map.parent.source)
R2rmlFails(text) ==
    \/ ~Some(text, "triples map")
    \/ \E line \in {line \in ToSet(text) : Is(line, "triples map")} :
        \/ TriplesMapFails(line) \/ SourceFails(line.source)
        \/ \E object \in ToSet(line.objects) : ParentFails(object.map)
R2rmlRules(text) == UNION {RulesOfTriplesMap(line) : line \in {line \in ToSet(text) : Is(line, "triples map")}}

\* has_duplicate_native_mapping_id
RepeatsId(text) ==
    \E i, j \in DOMAIN text : i # j /\ Is(text[i], "mappingId") /\ Is(text[j], "mappingId") /\ text[i].id = text[j].id

\* to_native_obda and to_r2rml write a document for the rules.
NativeText(rules) ==
    LET some == SetToSeq(rules)
        section(i) ==
            LET triple == NativeTriple(some[i])
            IN  <<MappingId(i), Target(triple.graph, triple.subject, triple.pairs), some[i].source>>
    IN  <<MappingDeclaration>> \o FlattenSeq([i \in DOMAIN some |-> section(i)]) \o <<Closing>>
R2rmlText(rules) == LET some == SetToSeq(rules) IN <<R2rmlPrefix>> \o [i \in DOMAIN some |-> TriplesMapOf(some[i])]

-----------------------------------------------------------------------------
(* bootstrap_documents: a mapping and an ontology of the relations of a      *)
(* catalog, [name, columns, keys], the columns of its primary key in order.  *)

\* The first column of the primary key, or every column, makes the subject.
BootstrapSubject(relation) == IF relation.key = <<>> THEN relation.columns ELSE <<Head(relation.key)>>

\* A column belongs to its table's name space: Fixed(name) stands for the IRI.
BootstrapRule(relation) ==
    LET parts(columns) == [i \in DOMAIN columns |-> Slot(columns[i])]
    IN  <<MappingId(relation.name),
          Target(<<>>, Token(IF relation.key = <<>> THEN "blank" ELSE "iri",
                             <<Fixed(relation.name)>> \o parts(BootstrapSubject(relation))),
                 <<[predicate |-> RdfType, object |-> Token("iri", <<Fixed(relation.name)>>)]>>
                 \o [i \in DOMAIN relation.columns |->
                        [predicate |-> relation.columns[i], object |-> Token("bare", parts(<<relation.columns[i]>>))]]),
          Source(FALSE, [i \in DOMAIN relation.columns |-> Aliased(relation.columns[i], relation.columns[i])],
                 << <<relation.name>> >>)>>

\* A table without columns is left out.
BootstrapMapping(relations) ==
    <<MappingDeclaration>>
    \o FlattenSeq([i \in DOMAIN relations |-> IF relations[i].columns = <<>> THEN <<>> ELSE BootstrapRule(relations[i])])
    \o <<Closing>>

OwlClass(table) == [t |-> "class", table |-> table]
OwlProperty(table, column) == [t |-> "datatype property", table |-> table, column |-> column]

Described(relation) ==
    <<OwlClass(relation.name)>> \o [i \in DOMAIN relation.columns |-> OwlProperty(relation.name, relation.columns[i])]

\* Fault: a table without columns is described too.
BootstrapOntologyOfAll(relations) == FlattenSeq([i \in DOMAIN relations |-> Described(relations[i])])

BootstrapOntology(relations) ==
    FlattenSeq([i \in DOMAIN relations |-> IF relations[i].columns = <<>> THEN <<>> ELSE Described(relations[i])])
=============================================================================
