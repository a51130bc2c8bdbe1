------------------------------ MODULE Ontology ------------------------------
(***************************************************************************)
(* Loading of an ontology and its imports (src/src/ontology.rs): each      *)
(* document is read once, depth first; every pass over its triples adds to *)
(* the hierarchies the query rewriting consults, which are kept closed     *)
(* eagerly but not completely. The result is checked against the facts.    *)
(*                                                                         *)
(* A document is a sequence of axioms [kind, s, o], each standing for the  *)
(* triples that state it:                                                  *)
(*   sub, equiv       s rdfs:subClassOf / owl:equivalentClass o, both named *)
(*   conjunct         s is equivalent to, or below, an intersection with o *)
(*   below            an intersection with s is below the named class o    *)
(*   some             (exists s.owl:Thing) rdfs:subClassOf o               *)
(*   subprop, domain, range, inverse, disjoint                             *)
(*   type             the individual s is asserted to be of class o        *)
(*   import           owl:imports of document o                            *)
(***************************************************************************)
EXTENDS Integers, Sequences, Reachability

CONSTANTS
    Classes, Properties, Individuals,
    Files,          \* documents an import may resolve to
    Root,           \* the configured ontology
    Unmapped,       \* an import that resolves to no document
    Contents,       \* what the documents may say: a sequence of axioms each
    GivenFacts      \* the type assertions <<s, o>> the facts file may hold

Documents == Files \cup {Unmapped}

AxiomsOver ==
    [kind : {"sub", "equiv", "conjunct", "below", "disjoint"}, s : Classes, o : Classes]
        \cup [kind : {"subprop", "inverse"}, s : Properties, o : Properties]
        \cup [kind : {"some", "domain", "range"}, s : Properties, o : Classes]
        \cup [kind : {"type"}, s : Individuals, o : Classes]
        \cup [kind : {"import"}, s : Files, o : Documents]

ASSUME OntologyAssumption ==
    /\ Root \in Files /\ Unmapped \notin Files
    /\ Contents \subseteq [Files -> Seq(AxiomsOver)]
    /\ GivenFacts \subseteq Individuals \X Classes

VARIABLES
    content,        \* what each document says
    broken,         \* documents that cannot be read or parsed
    given,          \* type assertions of the facts file
    status,
    stack,          \* documents being loaded, each with its pass and position
    visited,
    superclass, superproperty, domain, range, inverse, disjoint,
    facts,          \* the triples of the documents, as they are met
    declared        \* history: the subclass pairs added so far

inputs == <<content, broken, given>>
relations == <<superclass, superproperty, domain, range, inverse, disjoint>>
vars == <<inputs, status, stack, visited, relations, facts, declared>>

Frame(f) == [file |-> f, pass |-> "open", next |-> 1]

Init ==
    /\ content \in Contents
    /\ broken \in SUBSET Files
    /\ given \in SUBSET GivenFacts
    /\ status = "loading"
    /\ stack = <<Frame(Root)>>
    /\ visited = {}
    /\ superclass = {} /\ superproperty = {} /\ domain = {} /\ range = {}
    /\ inverse = {} /\ disjoint = {}
    /\ facts = <<>>
    /\ declared = {}

Top == stack[Len(stack)]

\* The axiom a pass has come to.
Here(pass, kinds) ==
    /\ status = "loading" /\ Top.pass = pass
    /\ Top.next <= Len(content[Top.file]) /\ content[Top.file][Top.next].kind \in kinds

Axiom == content[Top.file][Top.next]

Advanced == [stack EXCEPT ![Len(stack)].next = @ + 1]

Advance == stack' = Advanced

Pop ==
    /\ stack' = SubSeq(stack, 1, Len(stack) - 1)
    /\ status' = IF Len(stack) = 1 THEN "loaded" ELSE status

-----------------------------------------------------------------------------
(* The hierarchies.                                                          *)

\* Fault: the pair is handed to the ancestors of the parent.
AddAboveParent(R, child, parent) ==
    LET Own == R \cup {<<child, parent>>}
    IN  Own \cup {<<e[1], child>> : e \in {e \in Own : e[2] = parent}}

\* Fault: what the parent already has is copied, the parent itself is not.
AddInherited(R, child, parent) ==
    R \cup {<<child, e[2]>> : e \in {e \in R : e[1] = parent}}

\* add_subclass, add_subproperty: the child takes the parent and all that the
\* parent has; what has the child takes the parent, but not what the parent has.
Add(R, child, parent) ==
    LET Own == R \cup {<<child, parent>>}
                 \cup {<<child, e[2]>> : e \in {e \in R : e[1] = parent}}
    IN  Own \cup {<<e[1], parent>> : e \in {e \in Own : e[2] = child}}

IsSubclassOf(c, p) == Reaches(superclass, Classes, c, p)

IsSubpropertyOf(q, p) == Reaches(superproperty, Properties, q, p)

\* Fault: what the superproperties declare is not inherited.
InferredTypesOwn(p, R) == {e[2] : e \in {e \in R : e[1] = p}}

\* The types a subject (R = domain) or an object (R = range) of p has.
InferredTypes(p, R) ==
    LET known == {p} \cup UNION {{e[1], e[2]} : e \in superproperty}
    IN  {e[2] : e \in {e \in R : e[1] \in known /\ IsSubpropertyOf(p, e[1])}}

\* The properties an assertion of which makes its subject or object a c.
PropertiesAssertingType(c, R) ==
    {p \in {e[1] : e \in R \cup superproperty} : \E t \in InferredTypes(p, R) : IsSubclassOf(t, c)}

-----------------------------------------------------------------------------
(* One document.                                                             *)

\* A document met before, also one whose loading is still under way.
Revisit ==
    /\ status = "loading" /\ Top.pass = "open" /\ Top.file \in visited
    /\ Pop
    /\ UNCHANGED <<inputs, visited, relations, facts, declared>>

Unreadable ==
    /\ status = "loading" /\ Top.pass = "open"
    /\ Top.file \notin visited /\ Top.file \in broken
    /\ status' = "failed"
    /\ UNCHANGED <<inputs, stack, visited, relations, facts, declared>>

\* Fault: a document counts as visited only when it has been read to its end.
OpenUnmarked ==
    /\ status = "loading" /\ Top.pass = "open"
    /\ Top.file \notin visited \cup broken
    /\ stack' = [stack EXCEPT ![Len(stack)].pass = "normalize"]
    /\ UNCHANGED <<inputs, status, visited, relations, facts, declared>>

Open ==
    /\ status = "loading" /\ Top.pass = "open"
    /\ Top.file \notin visited \cup broken
    /\ visited' = visited \cup {Top.file}
    /\ stack' = [stack EXCEPT ![Len(stack)].pass = "normalize"]
    /\ UNCHANGED <<inputs, status, relations, facts, declared>>

\* First pass: class expressions the second one does not see. An intersection
\* is read as one above the class, whichever side of subClassOf it stands on.
Normalize ==
    /\ Here("normalize", {"conjunct", "below", "some"})
    /\ \/ /\ Axiom.kind = "conjunct"
          /\ superclass' = Add(superclass, Axiom.s, Axiom.o)
          /\ declared' = declared \cup {<<Axiom.s, Axiom.o>>}
          /\ UNCHANGED domain
       \/ /\ Axiom.kind = "below"
          /\ superclass' = Add(superclass, Axiom.o, Axiom.s)
          /\ declared' = declared \cup {<<Axiom.o, Axiom.s>>}
          /\ UNCHANGED domain
       \/ /\ Axiom.kind = "some"
          /\ domain' = domain \cup {<<Axiom.s, Axiom.o>>}
          /\ UNCHANGED <<superclass, declared>>
    /\ Advance
    /\ UNCHANGED <<inputs, status, visited, superproperty, range, inverse, disjoint, facts>>

NormalizeOther ==
    /\ Here("normalize", {"sub", "equiv", "subprop", "domain", "range", "inverse",
                          "disjoint", "type", "import"})
    /\ Advance
    /\ UNCHANGED <<inputs, status, visited, relations, facts, declared>>

Normalized ==
    /\ status = "loading" /\ Top.pass = "normalize" /\ Top.next > Len(content[Top.file])
    /\ stack' = [stack EXCEPT ![Len(stack)] = [Frame(Top.file) EXCEPT !.pass = "read"]]
    /\ UNCHANGED <<inputs, status, visited, relations, facts, declared>>

\* Second pass: every triple becomes a fact, and some feed a relation.
ReadSubclass ==
    /\ Here("read", {"sub", "equiv"})
    /\ IF Axiom.kind = "sub"
       THEN /\ superclass' = Add(superclass, Axiom.s, Axiom.o)
            /\ declared' = declared \cup {<<Axiom.s, Axiom.o>>}
       ELSE /\ superclass' = Add(Add(superclass, Axiom.s, Axiom.o), Axiom.o, Axiom.s)
            /\ declared' = declared \cup {<<Axiom.s, Axiom.o>>, <<Axiom.o, Axiom.s>>}
    /\ facts' = Append(facts, Axiom)
    /\ Advance
    /\ UNCHANGED <<inputs, status, visited, superproperty, domain, range, inverse, disjoint>>

ReadProperty ==
    /\ Here("read", {"subprop", "domain", "range", "inverse"})
    /\ LET pair == <<Axiom.s, Axiom.o>>
       IN  /\ superproperty' = IF Axiom.kind = "subprop" THEN Add(superproperty, Axiom.s, Axiom.o)
                                                         ELSE superproperty
           /\ domain' = IF Axiom.kind = "domain" THEN domain \cup {pair} ELSE domain
           /\ range' = IF Axiom.kind = "range" THEN range \cup {pair} ELSE range
           /\ inverse' = IF Axiom.kind = "inverse" THEN inverse \cup {pair, <<Axiom.o, Axiom.s>>}
                                                   ELSE inverse
    /\ facts' = Append(facts, Axiom)
    /\ Advance
    /\ UNCHANGED <<inputs, status, visited, superclass, disjoint, declared>>

ReadDisjoint ==
    /\ Here("read", {"disjoint"})
    /\ disjoint' = disjoint \cup {<<Axiom.s, Axiom.o>>, <<Axiom.o, Axiom.s>>}
    /\ facts' = Append(facts, Axiom)
    /\ Advance
    /\ UNCHANGED <<inputs, status, visited, superclass, superproperty, domain, range, inverse,
                   declared>>

ReadOther ==
    /\ Here("read", {"conjunct", "below", "some", "type"})
    /\ facts' = Append(facts, Axiom)
    /\ Advance
    /\ UNCHANGED <<inputs, status, visited, relations, declared>>

\* Fault: an import nobody mapped is skipped.
ReadImportLeniently ==
    /\ Here("read", {"import"})
    /\ facts' = Append(facts, Axiom)
    /\ stack' = IF Axiom.o = Unmapped THEN Advanced ELSE Append(Advanced, Frame(Axiom.o))
    /\ UNCHANGED <<inputs, status, visited, relations, declared>>

\* An import is loaded on the spot, before the rest of the document; one that
\* nothing resolves ends the loading.
ReadImport ==
    /\ Here("read", {"import"})
    /\ facts' = Append(facts, Axiom)
    /\ \/ /\ Axiom.o \in Files
          /\ stack' = Append(Advanced, Frame(Axiom.o))
          /\ UNCHANGED status
       \/ /\ Axiom.o = Unmapped
          /\ status' = "failed"
          /\ UNCHANGED stack
    /\ UNCHANGED <<inputs, visited, relations, declared>>

Close ==
    /\ status = "loading" /\ Top.pass = "read" /\ Top.next > Len(content[Top.file])
    /\ Pop
    /\ UNCHANGED <<inputs, visited, relations, facts, declared>>

-----------------------------------------------------------------------------
(* validate_facts: types asserted by the facts file and by the documents,    *)
(* with the classes above them, must not be disjoint.                        *)

Asserted == given \cup {<<facts[i].s, facts[i].o>> : i \in {i \in DOMAIN facts : facts[i].kind = "type"}}

\* Fault: only the asserted classes are compared.
TypesAsserted(x) == {a[2] : a \in {a \in Asserted : a[1] = x}}

TypesOf(x) ==
    LET known == UNION {{e[1], e[2]} : e \in superclass \cup disjoint}
    IN  UNION {{a[2]} \cup {c \in known : IsSubclassOf(a[2], c)} : a \in {a \in Asserted : a[1] = x}}

Conflicting(x) == \E c, d \in TypesOf(x) : <<c, d>> \in disjoint

Validate ==
    /\ status = "loaded"
    /\ status' = IF \E x \in Individuals : Conflicting(x) THEN "rejected" ELSE "accepted"
    /\ UNCHANGED <<inputs, stack, visited, relations, facts, declared>>

Terminated ==
    /\ status \in {"failed", "accepted", "rejected"}
    /\ UNCHANGED vars

Next ==
    \/ Revisit \/ Unreadable \/ Open
    \/ Normalize \/ NormalizeOther \/ Normalized
    \/ ReadSubclass \/ ReadProperty \/ ReadDisjoint \/ ReadOther \/ ReadImport
    \/ Close \/ Validate \/ Terminated

Spec == Init /\ [][Next]_vars
=============================================================================
