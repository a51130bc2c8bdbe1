----------------------------- MODULE MappingRules -----------------------------
(***************************************************************************)
(* The rules of a mapping and the two documents they are written in: the   *)
(* triples maps of R2RML and the targets of native OBDA                    *)
(* (src/src/mapping.rs).                                                   *)
(*                                                                         *)
(* A value is a sequence of parts, fixed text and slots for columns. The   *)
(* code keeps <, > and quotes in its strings and decides by them; here     *)
(* they are flags. A rule is what Mapping holds and executes; Meaning is   *)
(* the term it makes of a row.                                             *)
(***************************************************************************)
EXTENDS Integers, SequencesExt, FiniteSetsExt

CONSTANT
    DeclaredPrefixes,   \* the prefixes a native document declares, fixed texts
    Schemes             \* fixed texts with a colon that no document declares

Fixed(text) == [fixed |-> text, column |-> <<>>]
Slot(column) == [fixed |-> "", column |-> column]
IsSlot(part) == part.column # <<>>
Slots(parts) == SelectSeq(parts, IsSlot)
HasSlot(parts) == Slots(parts) # <<>>

None == "none"
RdfType == <<"rdf:type">>
DefaultBase == Fixed("http://example.com/base/")
BlankLabel == Fixed("_:")

\* str::contains(':'), blanks, and what ends a token of a target.
HasColon(parts) ==
    \E part \in ToSet(parts) : part.fixed \in DeclaredPrefixes \cup Schemes \cup {DefaultBase.fixed, BlankLabel.fixed}
Breaks == {" ", "."}
HasBreak(parts) == \E part \in ToSet(parts) : part.fixed \in Breaks \/ ToSet(part.column) \cap Breaks # {}

\* A value of a rule: <parts>, "parts"suffix or parts, with its BindingTerm.
Term(type, parts, form) ==
    [type |-> type, parts |-> parts, form |-> form, datatype |-> None, language |-> None, infers |-> FALSE]
LiteralTerm(parts, form, datatype, language, infers) ==
    [Term("literal", parts, form) EXCEPT !.datatype = datatype, !.language = language, !.infers = infers]

Rule(subject, predicate, object, graph, source) ==
    [subject |-> subject, columnSubject |-> FALSE, predicate |-> predicate, object |-> object,
     templateObject |-> FALSE, graph |-> graph, source |-> source, base |-> None]

-----------------------------------------------------------------------------
(* MappingRule::reformulate and object_projection, resolve_mapping_iri and   *)
(* decode_mapping_term: the term a rule makes. Slots of a template of an IRI *)
(* are percent-encoded.                                                      *)

Made(term, parts, encoded, base) ==
    [type |-> term.type, parts |-> parts, encoded |-> encoded /\ HasSlot(parts),
     base |-> IF term.type = "iri" /\ ~HasColon(parts) THEN base ELSE None,
     datatype |-> term.datatype, language |-> term.language, infers |-> term.infers]

\* The SQL of the rule is broken, or the rule has no value.
Broken == [Term("broken", <<>>, "plain") EXCEPT !.form = "broken"]

MeaningOfSubject(rule) ==
    Made(rule.subject, rule.subject.parts, rule.subject.type = "iri" /\ ~rule.columnSubject, rule.base)

Suffix(term) ==
    IF term.language # None THEN <<Fixed("@"), Fixed(term.language)>>
    ELSE IF term.datatype # None THEN <<Fixed("^^"), Fixed(term.datatype)>>
    ELSE <<>>
QuotedText(term) == <<Fixed("\"")>> \o term.parts \o <<Fixed("\"")>> \o Suffix(term)

\* A plain value that begins with its only slot is a column, whatever follows;
\* a quoted value with slots is a template with its quotes.
MeaningOfObject(rule) ==
    LET term == rule.object
        alone == Len(Slots(term.parts)) = 1 /\ term.form = "plain" /\ IsSlot(Head(term.parts))
    IN  CASE alone -> IF Len(term.parts) = 1 THEN Made(term, term.parts, FALSE, rule.base) ELSE Broken
          [] ~alone /\ HasSlot(term.parts) ->
                Made(term, IF term.form = "quoted" THEN QuotedText(term) ELSE term.parts, term.type = "iri", rule.base)
          [] OTHER ->
                IF term.form = "plain" /\ term.type # "literal" THEN Broken
                ELSE Made(term, term.parts, FALSE, rule.base)

Meaning(rule) == <<MeaningOfSubject(rule), rule.predicate, MeaningOfObject(rule), rule.graph, rule.source>>

-----------------------------------------------------------------------------
(* Native targets. A token is <parts>, _:parts, BNODE(parts), "parts"suffix  *)
(* or a bare word with a suffix.                                             *)

Token(form, parts) == [form |-> form, parts |-> parts, angled |-> FALSE, datatype |-> None, language |-> None]

\* native_serialized_term
TokenOf(term, isTemplate, base) ==
    CASE term.type = "iri" ->
            Token("iri", IF HasColon(term.parts) THEN term.parts
                         ELSE IF isTemplate THEN <<DefaultBase>> \o term.parts
                         ELSE IF base # None THEN <<Fixed(base)>> \o term.parts
                         ELSE term.parts)
      [] term.type = "blank" -> [Token("blank", term.parts) EXCEPT !.angled = term.form = "angled"]
      [] term.type = "literal" ->
            [Token(IF term.form = "quoted" THEN "quoted" ELSE "bare", term.parts) EXCEPT
                !.datatype = IF term.language = None THEN term.datatype ELSE None, !.language = term.language]

\* Mapping::to_native_obda: the parts of a target for one rule.
NativeTriple(rule) ==
    [graph |-> rule.graph,
     subject |-> TokenOf(rule.subject, ~rule.columnSubject, rule.base),
     pairs |-> <<[predicate |-> rule.predicate, object |-> TokenOf(rule.object, rule.templateObject, rule.base)]>>]

\* expand: a prefixed name. A label of a blank node is left as it is.
Declared(parts) == parts # <<>> /\ Head(parts).fixed \in DeclaredPrefixes

\* native_target_tokens cuts a token that nothing encloses; braces do not.
IsCut(token) == token.form \in {"blank", "bare"} /\ ~token.angled /\ HasBreak(token.parts)

IsPrefixed(token) ==
    /\ token.form = "bare"
    /\ ~IsSlot(Head(token.parts))
    /\ HasColon(token.parts) \/ token.datatype # None

SubjectFails(token) == IsCut(token) \/ (token.form = "bare" /\ ~Declared(token.parts))
ObjectFails(token) == IsCut(token) \/ (IsPrefixed(token) /\ ~Declared(token.parts))

\* native_subject
SubjectRead(token) ==
    IF token.form \in {"blank", "BNODE"} THEN Term("blank", token.parts, IF token.angled THEN "angled" ELSE "plain")
    ELSE Term("iri", token.parts, "angled")

\* native_object: _: has a colon, and what has one is an IRI.
ObjectRead(token) ==
    CASE token.form = "BNODE" -> Term("blank", token.parts, "plain")
      [] token.form = "iri" \/ IsPrefixed(token) -> Term("iri", token.parts, "angled")
      [] token.form = "blank" -> Term("iri", <<BlankLabel>> \o token.parts, "plain")
      [] token.form = "quoted" -> LiteralTerm(token.parts, "plain", token.datatype, token.language, FALSE)
      [] OTHER -> LiteralTerm(token.parts, "plain", token.datatype, token.language, TRUE)

\* parse_native_target
TargetFails(target) ==
    \/ target.pairs = <<>>
    \/ SubjectFails(target.subject)
    \/ \E pair \in ToSet(target.pairs) : ObjectFails(pair.object)
RulesOfTarget(target, source) ==
    {Rule(SubjectRead(target.subject), pair.predicate, ObjectRead(pair.object), target.graph, source) :
        pair \in ToSet(target.pairs)}

-----------------------------------------------------------------------------
(* R2RML. A term map has a constant, a template or a column.                 *)

TermMap(kind, parts, termType) ==
    [kind |-> kind, parts |-> parts, termType |-> termType, datatype |-> None, language |-> None]
TriplesMap(source, subject, graphs, objects, base) ==
    [t |-> "triples map", source |-> source, subject |-> subject, classes |-> {}, graphs |-> graphs, objects |-> objects,
     base |-> base]
ObjectMap(predicate, map, graphs) == [predicate |-> predicate, map |-> map, graphs |-> graphs]
ReferenceMap(parent, conditions) ==
    [kind |-> "parent", parent |-> parent, conditions |-> conditions, termType |-> None, datatype |-> None, language |-> None]

\* Fault: what a template writes is not said: a blank node's or a literal's becomes an IRI.
TermMapWithoutType(term, isSubject) ==
    IF HasSlot(term.parts) THEN TermMap("template", term.parts, None)
    ELSE TermMap("constant IRI", term.parts, None)

\* r2rml_term_map
TermMapOf(term, isSubject) ==
    CASE term.type = "iri" ->
            IF HasSlot(term.parts) THEN TermMap("template", term.parts, None) ELSE TermMap("constant IRI", term.parts, None)
      [] term.type = "blank" -> TermMap("template", term.parts, "blank")
      [] term.type = "literal" ->
            LET wholly == IsSlot(Head(term.parts)) /\ IsSlot(Last(term.parts)) /\ term.form = "plain"
                map == IF ~term.infers /\ ~isSubject THEN TermMap("constant literal", term.parts, None)
                       ELSE IF wholly THEN TermMap("column", term.parts, None)
                       ELSE TermMap("template", term.parts, "literal")
            IN  [map EXCEPT !.datatype = IF term.language = None THEN term.datatype ELSE None,
                            !.language = term.language]

\* Mapping::to_r2rml: a triples map for one rule, and no base.
TriplesMapOf(rule) ==
    TriplesMap(rule.source, TermMapOf(rule.subject, TRUE), IF rule.graph = <<>> THEN <<>> ELSE <<rule.graph>>,
               <<ObjectMap(rule.predicate, TermMapOf(rule.object, FALSE), <<>>)>>, None)

TypeOfMap(map, otherwise) == IF map.termType = None THEN otherwise ELSE map.termType

\* The subject of a triples map is kept in < >, a blank node's too.
SubjectOfMap(map) == Term(TypeOfMap(map, "iri"), map.parts, "angled")

\* ref_object_parent_projection: the columns of a parent, under other names.
OfParent(parts) == [i \in DOMAIN parts |-> IF IsSlot(parts[i]) THEN Slot(<<"parent", ".">> \o parts[i].column) ELSE parts[i]]

\* The object of an object map. A template has neither datatype nor language.
ObjectOfMap(map) ==
    CASE map.kind = "constant IRI" -> Term("iri", map.parts, "angled")
      [] map.kind = "constant literal" -> LiteralTerm(map.parts, "quoted", map.datatype, map.language, FALSE)
      [] map.kind = "template" ->
            CASE TypeOfMap(map, "iri") = "iri" -> Term("iri", map.parts, "angled")
              [] TypeOfMap(map, "iri") = "blank" -> Term("blank", map.parts, "plain")
              [] OTHER -> LiteralTerm(map.parts, "plain", None, None, TRUE)
      [] map.kind = "column" ->
            IF TypeOfMap(map, "literal") = "literal" THEN LiteralTerm(map.parts, "plain", map.datatype, map.language, TRUE)
            ELSE Term(map.termType, map.parts, "plain")
      [] map.kind = "parent" -> Term(TypeOfMap(map.parent.subject, "iri"), OfParent(map.parent.subject.parts), "angled")

\* The source of a rule: the child's, joined with the parent's.
SourceOfMap(map, source) == IF map.kind = "parent" THEN [source EXCEPT !.join = <<map.parent.source, map.conditions>>] ELSE source

\* The term maps of a document: a subject is no literal, a constant IRI has neither
\* slots nor a type, only literals have a datatype or a language, and a parent
\* has the base of its document.
IsSubjectMap(map) ==
    /\ DOMAIN map = {"kind", "parts", "termType", "datatype", "language"}
    /\ map.kind \in {"constant IRI", "template", "column"} /\ map.termType \in {None, "iri", "blank"}
    /\ map.datatype = None /\ map.language = None
    /\ map.kind = "constant IRI" => ~HasSlot(map.parts) /\ map.termType = None
IsObjectMap(map, base) ==
    CASE map.kind = "parent" -> IsSubjectMap(map.parent.subject) /\ map.parent.base = base
      [] map.kind \in {"template", "column"} ->
            /\ map.termType \in {None, "iri", "blank", "literal"}
            /\ map.kind = "column" => IsSlot(Head(map.parts))
            /\ map.kind = "column" /\ map.termType \in {"iri", "blank"} => map.datatype = None /\ map.language = None
      [] map.kind = "constant IRI" -> IsSubjectMap(map)
      [] OTHER -> map.kind = "constant literal"
IsTriplesMap(line) ==
    /\ IsSubjectMap(line.subject)
    /\ line.graphs \in Seq(ToSet(line.graphs))
    /\ \A class \in line.classes : ~HasSlot(class)
    /\ \A object \in ToSet(line.objects) : IsObjectMap(object.map, line.base)

\* What Mapping::parse_r2rml refuses of a triples map.
MapFails(map) ==
    \/ map.kind \in {"constant literal", "column"} /\ map.datatype # None /\ map.language # None
    \/ map.kind = "parent" /\ ~HasSlot(map.parent.subject.parts)
TriplesMapFails(triplesMap) ==
    triplesMap.objects = <<>> \/ \E object \in ToSet(triplesMap.objects) : MapFails(object.map)

OrDefault(graphs) == IF graphs = {} THEN {<<>>} ELSE graphs
FirstGraph(triplesMap) == {triplesMap.graphs[i] : i \in DOMAIN triplesMap.graphs \cap {1}}

\* Fault: the graphs of the object map replace the subject's.
GraphsOfObjectOnly(triplesMap, object) ==
    OrDefault(IF object.graphs # <<>> THEN ToSet(object.graphs) ELSE FirstGraph(triplesMap))

\* The graphs of a rule: the first of the subject map, those of the object map.
RuleGraphs(triplesMap, object) == OrDefault(FirstGraph(triplesMap) \cup ToSet(object.graphs))

RuleOfMap(triplesMap, predicate, object, graph) ==
    [Rule(SubjectOfMap(triplesMap.subject), predicate, object, graph, triplesMap.source)
        EXCEPT !.columnSubject = triplesMap.subject.kind = "column", !.base = triplesMap.base]

\* A template of an IRI is resolved; a parent's source is joined to the child's.
RuleOfObject(triplesMap, object, graph) ==
    [RuleOfMap(triplesMap, object.predicate, ObjectOfMap(object.map), graph)
        EXCEPT !.templateObject = object.map.kind = "template" /\ TypeOfMap(object.map, "iri") = "iri",
               !.source = SourceOfMap(object.map, @)]
RuleOfClass(triplesMap, class, graph) == RuleOfMap(triplesMap, RdfType, Term("iri", class, "angled"), graph)

\* The classes of the subject map are in its graph only.
RulesOfTriplesMap(triplesMap) ==
    (UNION {{RuleOfObject(triplesMap, object, graph) : graph \in RuleGraphs(triplesMap, object)} :
                object \in ToSet(triplesMap.objects)})
    \cup (UNION {{RuleOfClass(triplesMap, class, graph) : graph \in OrDefault(FirstGraph(triplesMap))} :
                    class \in triplesMap.classes})
=============================================================================
