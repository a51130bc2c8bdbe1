----------------------------- MODULE MCOntology -----------------------------
EXTENDS OntologyProperties, TLC

CONSTANTS a, b, c, p, q, x, f1, f2

Ax(kind, s, o) == [kind |-> kind, s |-> s, o |-> o]

UpTo(n, S) == UNION {[1..m -> S] : m \in 0..n}

ImportAxioms == {Ax("import", f1, f) : f \in Documents}

\* Documents that import each other and order three classes.
ClosureContents ==
    UpTo(2, {Ax("sub", a, b), Ax("sub", b, c), Ax("sub", c, a), Ax("sub", c, b),
             Ax("equiv", b, c), Ax("conjunct", c, a)} \cup ImportAxioms)

\* Every kind of axiom in one document, with types that come into conflict.
EntailmentContents ==
    UpTo(3, {Ax("subprop", p, q), Ax("subprop", q, p), Ax("domain", p, a), Ax("domain", q, b),
             Ax("range", q, a), Ax("some", q, a), Ax("sub", a, b), Ax("equiv", b, a),
             Ax("below", a, b), Ax("conjunct", b, c), Ax("inverse", p, q), Ax("disjoint", a, c),
             Ax("disjoint", c, b), Ax("type", x, a)})

SomeContents == [Files -> ClosureContents] \cup {(f1 :> document) @@ (f2 :> <<>>) : document \in EntailmentContents}
SomeFacts == {<<x, a>>, <<x, c>>}
=============================================================================
