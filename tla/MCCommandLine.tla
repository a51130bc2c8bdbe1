---------------------------- MODULE MCCommandLine ----------------------------
(* Instances of the command line for TLC.                                      *)
EXTENDS CommandLineProperties

SomeAlphabet == <<"*", ".", "1", "2", "a", "b", "id", "max(", "n">>
SomePrefixes == {"xsd:"}
SomeSchemes == {"http:", "n:", "doc:"}

A(name) == Column(<<"a">>, name)
B(name) == Column(<<"b">>, name)
Id == <<"id">>
Id1 == <<"id", "1">>
Name == <<"n">>
SomeColumns == (<<"a">> :> {Id, Id1, Name}) @@ (<<"b">> :> {Id, Name})

IriToken(columns) == Token("iri", <<Fixed("http:")>> \o [i \in DOMAIN columns |-> Slot(columns[i])])
Thing == Token("iri", <<Fixed("http:")>>)
P == <<"p">>
Rdf(subject, object) == Target(<<>>, subject, <<[predicate |-> P, object |-> object]>>)
MakeTarget(columns) == Rdf(IriToken(columns), Thing)

Native(target, source) == <<MappingDeclaration, MappingId("m"), target, source, Closing>>

\* Commands.
Convert(name, input, output) == [name |-> name, input |-> input, output |-> output, simplify |-> FALSE]
Migrate(input, output) == Convert("v1-to-v3", input, output)
Validate == [name |-> "validate", config |-> <<"c", "toml">>]
Query == [Validate EXCEPT !.name = "query"]
Bootstrap == [name |-> "bootstrap", config |-> <<"c", "toml">>, output |-> <<"m", "obda">>, ontology |-> <<"o", "ttl">>]
Extract == [name |-> "extract", config |-> <<"c", "toml">>, output |-> <<"d", "json">>]
Materialize(format) == [name |-> "materialize", config |-> <<"c", "toml">>, output |-> <<"f", "out">>, format |-> format]

Complete ==
    [t |-> "configuration", jdbc |-> FALSE, kind |-> "postgres", passwords |-> {"password"}, passwordFile |-> NoPath,
     predefined |-> {}, mapping |-> <<"m", "obda">>, direct |-> FALSE, relations |-> <<>>, validBase |-> TRUE,
     ontology |-> <<"o", "ttl">>, facts |-> NoPath, format |-> None]

World(texts, todo) ==
    [files |-> texts, todo |-> <<todo>>, databases |-> <<[relations |-> <<>>]>>, troubles |-> {}]

-----------------------------------------------------------------------------
(* Version 1 mappings, one rule each.                                        *)

SomePlaceholders ==
    UNION {[1..n -> {A(Id), A(Id1), B(Id), Name}] : n \in 1..2}
    \cup {<<A(Id1), B(Id), A(Name)>>, <<A(Id1), A(Id), B(Id)>>, <<A(Id), B(Id), B(Name)>>, <<A(Name), A(Id), A(Name)>>}
SomeItems ==
    {<<Star>>, <<A(Id)>>, <<Name>>, <<A(Id), B(Id)>>, <<A(Id), A(Id1)>>, <<A(Id1), B(Id)>>, <<A(Id), Name>>, <<A(Id), A(Id1), B(Id)>>,
     <<A(Id1), A(Id), B(Id), A(Name)>>, <<Aliased(A(Id), <<"id">>)>>, <<Aliased(A(Id), <<"n">>), B(Id)>>,
     <<Max_(A(Id))>>, <<Aliased(Max_(A(Id)), <<"n">>), A(Id1)>>}
OldSources == {Source(distinct, items, tables) :
    distinct \in BOOLEAN, items \in SomeItems, tables \in {<<<<"a">>>>, <<<<"a">>, <<"b">>>>}}

Migrations ==
    {World(<<"m", "obda">> :> Native(MakeTarget(columns), source),
           <<[Migrate(<<"m", "obda">>, <<"n", "obda">>) EXCEPT !.simplify = simplify]>>) :
        columns \in SomePlaceholders, source \in OldSources, simplify \in BOOLEAN}

-----------------------------------------------------------------------------
(* Documents to convert and to read.                                         *)

Plain == Source(FALSE, <<Id, Name>>, <<<<"a">>>>)
Parent == Source(FALSE, <<Id, Name>>, <<<<"b">>>>)
X == Slot(Id)
Y == Slot(Name)
Http == Fixed("http:")
Text == Fixed("text")

SomeParts == {<<Http, X>>, <<Text, X>>, <<X>>, <<X, Text>>, <<X, Text, Y>>, <<Fixed("n:"), X>>, <<X, Fixed(" "), Y>>}
Tagged(map) == {map, [map EXCEPT !.language = "en"], [map EXCEPT !.datatype = "xsd:int"]}
SubjectMaps ==
    {TermMap("template", <<Http, X>>, None), TermMap("template", <<Text, X>>, None), TermMap("template", <<Text, X>>, "blank"),
     TermMap("column", <<X>>, None), TermMap("constant IRI", <<Http>>, None)}
ObjectMaps ==
    {TermMap("constant IRI", <<Http>>, None), [TermMap("column", <<X>>, None) EXCEPT !.datatype = "xsd:int", !.language = "en"],
     TermMap("column", <<X>>, "iri"), TermMap("column", <<X>>, "blank")}
    \cup Tagged(TermMap("constant literal", <<Text>>, None)) \cup Tagged(TermMap("constant literal", <<X>>, None))
    \cup Tagged(TermMap("column", <<X>>, None))
    \cup UNION {Tagged(TermMap("template", parts, "literal")) : parts \in SomeParts}
    \cup {TermMap("template", parts, type) : parts \in SomeParts, type \in {None, "blank"}}

G(name) == <<Http, Fixed(name)>>
TriplesMaps ==
    {TriplesMap(Plain, subject, <<>>, <<ObjectMap(P, object, <<>>)>>, base) :
        subject \in SubjectMaps, object \in ObjectMaps, base \in {None, "doc:"}}
    \cup {[TriplesMap(Plain, TermMap("template", <<Http, X>>, None), graphs,
                      <<ObjectMap(P, TermMap("column", <<Y>>, None), of), ObjectMap(<<"q">>, TermMap("column", <<X>>, None), <<>>)>>, None)
             EXCEPT !.classes = {<<Http, Fixed("c")>>}] :
            graphs \in {<<>>, <<G("g")>>, <<G("g"), G("h")>>}, of \in {<<>>, <<G("g")>>, <<G("k"), G("h")>>}}
    \cup {TriplesMap(Plain, TermMap("column", <<X>>, None), <<>>, <<>>, None),
          TriplesMap([Plain EXCEPT !.items = <<Aliased(Aliased(Id, Name), Id)>>], TermMap("template", <<Http, X>>, None), <<>>,
                     <<ObjectMap(P, TermMap("column", <<Y>>, None), <<>>)>>, None)}
    \cup {TriplesMap(Plain, TermMap("template", <<Http, X>>, None), <<>>,
                     <<ObjectMap(P, ReferenceMap(TriplesMap(Parent, subject, <<>>, <<>>, None), conditions), <<>>)>>, None) :
            subject \in SubjectMaps \cup {TermMap("template", <<Http, X, Text, Y>>, None), TermMap("column", <<X>>, "blank")},
            conditions \in {{}, {<<Id, Id>>}}}

WithR2rml(map, todo) ==
    World(<<"m", "ttl">> :> <<R2rmlPrefix, map>> @@ <<"c", "toml">> :> <<[Complete EXCEPT !.mapping = <<"m", "ttl">>, !.ontology = NoPath]>>, todo)

SomeTokens ==
    {Thing, Token("blank", <<Text, X>>), Token("BNODE", <<X>>), Token("bare", <<X>>), Token("bare", <<X, Text>>),
     Token("bare", <<X, Text, Y>>), Token("bare", <<Fixed("n:"), X>>), Token("bare", <<Fixed("xsd:"), Text>>),
     Token("bare", <<X, Fixed(" "), Y>>), Token("blank", <<Text>>), Token("bare", <<Slot(A(Id))>>)}
    \cup UNION {{token, [token EXCEPT !.language = "en"], [token EXCEPT !.datatype = "xsd:int"]} :
            token \in {Token("bare", <<X>>), Token("bare", <<X, Text, Y>>), Token("bare", <<Text, X>>), Token("quoted", <<Text>>), Token("quoted", <<X>>)}}
Targets == {[Rdf(subject, object) EXCEPT !.graph = graph] :
    subject \in {IriToken(<<Id>>), Token("blank", <<Text, X>>), Token("bare", <<Text, X>>)}, object \in SomeTokens, graph \in {<<>>, G("g")}}

Conversions ==
    {WithR2rml(map, <<Convert("to-obda", <<"m", "ttl">>, <<"n", "obda">>)>>) : map \in TriplesMaps}
    \cup {WithR2rml(map, <<Validate>>) : map \in TriplesMaps}
    \cup {World(<<"m", "obda">> :> Native(target, Plain), <<Convert("to-r2rml", <<"m", "obda">>, <<"n", "ttl">>)>>) : target \in Targets}
    \cup {WithR2rml(TriplesMap(Plain, TermMap("template", <<Http, X>>, None), <<>>, <<ObjectMap(P, object, <<>>)>>, None),
                    <<Convert(name, <<"m", "ttl">>, <<"n", "ttl">>)>>) :
            name \in {"v1-to-v3", "pretty-r2rml"}, object \in ObjectMaps}

-----------------------------------------------------------------------------
(* Configurations.                                                           *)

Configurations ==
    {Complete, [Complete EXCEPT !.jdbc = TRUE], [Complete EXCEPT !.kind = "mysql"], [Complete EXCEPT !.passwords = {}],
     [Complete EXCEPT !.passwords = {"password", "password_file"}],
     [Complete EXCEPT !.passwords = {"password_file"}, !.passwordFile = <<"w", "txt">>],
     [Complete EXCEPT !.passwords = {"password_file"}, !.passwordFile = <<"m", "obda">>],
     [Complete EXCEPT !.predefined = {"config"}], [Complete EXCEPT !.mapping = NoPath], [Complete EXCEPT !.direct = TRUE],
     [Complete EXCEPT !.mapping = NoPath, !.direct = TRUE], [Complete EXCEPT !.mapping = NoPath, !.direct = TRUE, !.relations = <<"a">>],
     [Complete EXCEPT !.mapping = NoPath, !.direct = TRUE, !.relations = <<"a">>, !.validBase = FALSE],
     [Complete EXCEPT !.mapping = <<"n", "obda">>], [Complete EXCEPT !.mapping = <<"m", "turtle">>], [Complete EXCEPT !.ontology = <<"w", "txt">>],
     [Complete EXCEPT !.facts = <<"g", "ttl">>], [Complete EXCEPT !.facts = <<"g", "txt">>], [Complete EXCEPT !.facts = <<"g", "txt">>, !.format = "ttl"],
     [Complete EXCEPT !.facts = <<"g", "txt">>, !.format = "nq"],
     [Complete EXCEPT !.format = "csv"], [Complete EXCEPT !.facts = <<"w", "txt">>, !.format = "nq"]}

Row(n) == [t |-> "row", n |-> n]
DatabaseOf(rows) == [relations |-> <<Relation("a", <<Id, Name>>, <<Id>>, rows)>>]
NamedRule == Native(Target(G("g"), IriToken(<<Id>>), <<[predicate |-> P, object |-> Token("bare", <<Y>>)]>>), Plain)
TwoRules == Native(MakeTarget(<<Id>>), Plain) \o SubSeq(NamedRule, 2, 4)

SomeFacts == {<<OfClass("s", "C"), OfClass("s", "D")>>, <<OfClass("s", "C")>>, <<Fact(G("g"), "s", RdfType, "C")>>, <<Malformed>>}
SomeOntologies == {<<>>, <<Disjoint("C", "D")>>, <<Disjoint("C", "D"), OfClass("s", "D")>>, <<Malformed>>}
AnyR2rml == <<R2rmlPrefix, TriplesMap(Plain, TermMap("template", <<Http, X>>, None), <<>>, <<ObjectMap(P, TermMap("column", <<Y>>, None), <<>>)>>, None)>>
Loads ==
    {[World(<<"c", "toml">> :> <<configuration>> @@ <<"m", "obda">> :> TwoRules @@ <<"m", "turtle">> :> AnyR2rml @@ <<"o", "ttl">> :> ontology
              @@ <<"g", "ttl">> :> facts @@ <<"g", "txt">> :> facts, <<Validate, command>>)
        EXCEPT !.databases = <<DatabaseOf({Row(1)})>>] :
        configuration \in Configurations, ontology \in SomeOntologies, facts \in SomeFacts, command \in {Query, Materialize("nquads")}}

-----------------------------------------------------------------------------
(* Processes and faults.                                                     *)

Old == <<SourceDeclaration, Setting("connectionUrl"), Setting("username"), Empty>> \o Native(MakeTarget(<<A(Id)>>), Source(FALSE, <<A(Id)>>, <<<<"a">>>>))
Again(command) == <<command, command>>

Troubled ==
    {[World(<<"m", "obda">> :> text, Again(Migrate(<<"m", "obda">>, output))) EXCEPT !.troubles = {"crash", "disk"}] :
        text \in {Old, SubSeq(Old, 1, 3), <<SourceDeclaration, Setting("sourceUri"), Empty>> \o Old, <<>>},
        output \in {<<"m", "obda">>, <<"n", "obda">>, <<"n", "properties">>}}
Configured(rules, facts) ==
    World(<<"c", "toml">> :> <<[Complete EXCEPT !.facts = <<"g", "ttl">>]>> @@ <<"m", "obda">> :> rules @@ <<"o", "ttl">> :> <<>>
            @@ <<"g", "ttl">> :> facts, <<>>)
Renaming == <<DatabaseOf({Row(1)}), [relations |-> <<Relation("a", <<Name>>, <<>>, {Row(1)}), Relation("b", <<Id>>, <<Id>>, {})>>], [relations |-> <<>>]>>
Changing == <<DatabaseOf({Row(1), Row(2)}), DatabaseOf({Row(2), Row(3)}), DatabaseOf({Row(3)})>>
Concurrent ==
    {[Configured(TwoRules, <<OfClass("s", "C")>>) EXCEPT !.todo = <<<<Materialize(format), Query>>>>, !.databases = Changing, !.troubles = {"network", "disk"}] :
        format \in {"turtle", "nquads", "json"}}
    \cup {[Configured(TwoRules, <<>>) EXCEPT !.todo = <<<<Bootstrap>>, <<Validate, Query>>>>, !.databases = <<Renaming[1]>>, !.troubles = {"crash"}]}
    \cup {[Configured(TwoRules, <<>>) EXCEPT !.todo = <<<<Bootstrap>>>>, !.databases = <<[relations |-> <<Relation("a", <<column, Id>>, key, {})>>]>>] :
            column \in {Name, <<"n", " ", "n">>}, key \in {<<>>, <<Id>>}}
    \cup {[Configured(NamedRule, <<>>) EXCEPT !.todo = <<<<Query, Materialize("nquads")>>>>, !.files[<<"c", "toml">>] = <<Complete>>]}
    \cup {[Configured(NamedRule, <<>>) EXCEPT !.todo = <<<<Extract, Bootstrap, Validate>>>>, !.databases = Renaming, !.troubles = {"network", "disk"}]}
    \cup {[Configured(TwoRules, <<>>) EXCEPT !.todo = <<<<Bootstrap, Bootstrap>>, <<Materialize("nquads")>>>>, !.databases = <<Renaming[2]>>]}

SomeWorlds == Migrations \cup Conversions \cup Loads \cup Troubled \cup Concurrent
=============================================================================
