-------------------------- MODULE MCTriplePattern --------------------------
EXTENDS TriplePatternProperties, FiniteSets

CONSTANTS i, j, c, d, p, q, r, x, y, z

Rule(pred, subject, object) == [pred |-> pred, subject |-> subject, object |-> object]
Pattern(s, pred, o) == [s |-> s, p |-> pred, o |-> o]

\* At most two rules of three properties and two classes; their order says nothing.
TemplateRules ==
    <<Rule(p, Template, Template), Rule(q, Template, Template), Rule(q, Template, j), Rule(q, j, Template),
      Rule(Type, Template, c), Rule(Type, Template, d)>>
Pairs ==
    {<<>>} \cup {<<TemplateRules[m]>> : m \in 1..6}
        \cup {<<TemplateRules[e[1]], TemplateRules[e[2]]>> : e \in {e \in (1..6) \X (1..6) : e[1] <= e[2]}}

SomeRows == {<<i, j>>, <<j, i>>}

SomeFacts == {{}, {<<i, q, j>>}, {<<j, Type, d>>, <<j, p, i>>}}

\* Ontologies as the loader builds them: p below q, and d below c.
TBox(sc, sp, dom, ran, inv) ==
    [superclass |-> sc, superproperty |-> sp, domain |-> dom, range |-> ran, inverse |-> inv]
Symmetric(a, b) == {<<a, b>>, <<b, a>>}
SomeTBoxes ==
    {TBox({<<d, c>>}, {<<p, q>>}, {}, {}, {}),
     TBox({<<d, c>>}, {<<p, q>>}, {<<q, d>>}, {<<p, c>>}, {}),
     TBox({<<c, d>>, <<d, c>>, <<c, c>>, <<d, d>>}, {<<p, q>>}, {<<p, c>>}, {}, Symmetric(r, q)),
     TBox({}, {<<q, p>>}, {}, {<<p, c>>, <<r, d>>}, Symmetric(p, r) \cup Symmetric(q, q))}

SomeQueries ==
    {Pattern(x, q, y), Pattern(i, q, y), Pattern(x, q, j), Pattern(x, r, y), Pattern(i, r, y),
     Pattern(x, Type, c), Pattern(i, Type, c), Pattern(x, Type, y), Pattern(x, z, y), Pattern(i, q, j), Pattern(x, q, x),
     Pattern(i, z, j)}
=============================================================================
