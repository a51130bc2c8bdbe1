------------------------- MODULE OntologyProperties -------------------------
(* What the loaded ontology must say, measured against all the documents the  *)
(* root imports, directly or through others, whatever the order they were     *)
(* read in.                                                                   *)
EXTENDS Ontology, FiniteSets

Axioms(f, kinds) == {content[f][i] : i \in {i \in DOMAIN content[f] : content[f][i].kind \in kinds}}

Imports == UNION {{<<f, a.o>> : a \in Axioms(f, {"import"})} : f \in Files}

Imported == {f \in Documents : Reaches(Imports, Documents, Root, f)}

\* The pairs the axioms of these kinds state, in all the documents imported.
Stated(kinds) ==
    UNION {{<<a.s, a.o>> : a \in Axioms(f, kinds)} : f \in Imported \ {Unmapped}}

Turned(R) == {<<e[2], e[1]>> : e \in R}

\* The subclass pairs the loader takes them to state.
Subclasses ==
    Stated({"sub", "equiv", "conjunct"}) \cup Turned(Stated({"equiv", "below"}))

Loaded == status \in {"loaded", "accepted", "rejected"}

AxiomKinds ==
    {"sub", "equiv", "conjunct", "below", "some", "subprop", "domain", "range",
     "inverse", "disjoint", "type", "import"}

Frames == [file : Files, pass : {"open", "normalize", "read"}, next : Nat \ {0}]

TypeOK ==
    /\ content \in [Files -> Seq(AxiomsOver)] /\ broken \subseteq Files
    /\ given \subseteq Individuals \X Classes
    /\ status \in {"loading", "failed", "loaded", "accepted", "rejected"}
    /\ stack \in Seq(Frames)
    /\ visited \subseteq Files
    /\ superclass \subseteq Classes \X Classes /\ disjoint \subseteq Classes \X Classes
    /\ superproperty \subseteq Properties \X Properties
    /\ inverse \subseteq Properties \X Properties
    /\ domain \subseteq Properties \X Classes /\ range \subseteq Properties \X Classes
    /\ facts \in Seq(AxiomsOver)
    /\ declared \subseteq Classes \X Classes

\* Eager closing of the hierarchy (add_subclass) neither loses nor invents a
\* pair: every set closed under what was declared is closed under what is kept.
HierarchySound ==
    /\ declared \subseteq superclass
    /\ \A S \in SUBSET Classes : Closed(declared, S) => Closed(superclass, S)

\* is_subclass_of answers at any moment of the loading what the pairs declared
\* so far entail, though the hierarchy is not kept transitively closed.
HierarchyExact ==
    \A c, d \in Classes : IsSubclassOf(c, d) <=> Reaches(declared, Classes, c, d)

\* load_closure ends with the hierarchy all the imported documents entail
\* together, whichever of them states a pair first and however they import each
\* other.
AnswersDeclared ==
    Loaded => \A c, d \in Classes : IsSubclassOf(c, d) <=> Reaches(Subclasses, Classes, c, d)

\* Where an axiom stands: a document and a place in it.
Positions(documents) == UNION {{f} \X DOMAIN content[f] : f \in documents}

PlacesOf(a, places) == {l \in places : content[l[1]][l[2]] = a}

FactsOf(a) == {k \in DOMAIN facts : facts[k] = a}

\* Documents that import each other do not send load_closure into the ground, and
\* one imported along two paths, or by itself, adds its facts once.
EachDocumentOnce ==
    /\ Len(stack) <= Cardinality(Files) + 1
    /\ Loaded =>
        \A a \in UNION {Axioms(f, AxiomKinds) : f \in Files} :
            Cardinality(FactsOf(a)) = Cardinality(PlacesOf(a, Positions(Imported \ {Unmapped})))

\* Loading fails exactly when an imported document cannot be read or an import
\* cannot be resolved; it never goes on without one.
FailsWhenIncomplete ==
    /\ Loaded => Unmapped \notin Imported /\ Imported \cap broken = {}
    /\ status = "failed" => Unmapped \in Imported \/ Imported \cap broken # {}

\* validate_facts rejects exactly the facts that put an individual, by its
\* asserted classes and those above them, into two classes declared disjoint in
\* either order.
ConsistencyDecided ==
    status \in {"accepted", "rejected"} =>
        LET Types == given \cup Stated({"type"})
            IsA(x, c) == \E t \in Types : t[1] = x /\ Reaches(Subclasses, Classes, t[2], c)
        IN  status = "rejected" <=>
                \E x \in Individuals : \E e \in Stated({"disjoint"}) : IsA(x, e[1]) /\ IsA(x, e[2])

\* properties_asserting_type finds every property whose assertion makes the
\* subject or the object a c: by a domain or range of its own or of a property
\* above it, of c or of a class below it.
TypesEntailed ==
    Loaded =>
        \A c \in Classes : \A side \in {"domain", "range"} :
            LET R == IF side = "domain" THEN domain ELSE range
                Declared == Stated(IF side = "domain" THEN {"domain", "some"} ELSE {"range"})
            IN  PropertiesAssertingType(c, R)
                    = {p \in Properties : \E e \in Declared :
                          /\ Reaches(Stated({"subprop"}), Properties, p, e[1])
                          /\ Reaches(Subclasses, Classes, e[2], c)}

\* The comment on the intersections (ontology.rs:255): only the safe direction
\* is kept. A class above an intersection is not below the members of it.
SafeDirectionOnly ==
    Loaded =>
        \A c, d \in Classes : IsSubclassOf(c, d) =>
            Reaches(Stated({"sub", "equiv", "conjunct"}) \cup Turned(Stated({"equiv"})), Classes, c, d)
-----------------------------------------------------------------------------
(* The inductive invariant behind AnswersDeclared.                           *)

\* Whether a document being loaded still has the i-th axiom of f ahead of pass p.
Covers(frame, f, p, i) ==
    /\ frame.file = f
    /\ \/ frame.pass = "normalize" /\ (p = "read" \/ frame.next <= i)
       \/ frame.pass = "read" /\ p = "read" /\ frame.next <= i

Ahead(f, p, i) == \E j \in DOMAIN stack : Covers(stack[j], f, p, i)

PairsOf(a) ==
    CASE a.kind \in {"sub", "conjunct"} -> {<<a.s, a.o>>}
      [] a.kind = "below" -> {<<a.o, a.s>>}
      [] a.kind = "equiv" -> {<<a.s, a.o>>, <<a.o, a.s>>}
      [] OTHER -> {}

PassOf(a) == IF a.kind \in {"conjunct", "below", "some"} THEN "normalize" ELSE "read"

\* A document met is either being opened or was opened before.
Met(f) == f \in visited \/ \E j \in DOMAIN stack : stack[j].file = f /\ stack[j].pass = "open"

StackShape ==
    /\ \A j \in DOMAIN stack : j < Len(stack) => stack[j].pass = "read"
    /\ \A j \in DOMAIN stack : stack[j].pass # "open" => stack[j].file \in visited
    /\ \A j \in DOMAIN stack : stack[j].pass = "open" => stack[j].next = 1
    /\ status = "loading" => stack # <<>>
    /\ Loaded => stack = <<>>

\* Everything met is imported, every pair declared is stated by what is imported.
OnlyImported ==
    /\ visited \subseteq Imported
    /\ \A j \in DOMAIN stack : stack[j].file \in Imported
    /\ declared \subseteq Subclasses
    /\ visited \cap broken = {}
    /\ status = "failed" => Unmapped \in Imported \/ Imported \cap broken # {}

\* What reading an axiom leaves behind.
Done(a) ==
    /\ PairsOf(a) \subseteq declared
    /\ a.kind = "some" => <<a.s, a.o>> \in domain
    /\ a.kind = "import" => a.o \in Files /\ Met(a.o)

\* Unless the loading has failed, an axiom of a document visited is ahead of a
\* pass that is under way or has had its effect.
NothingSkipped ==
    status # "failed" =>
        /\ Met(Root)
        /\ \A f \in visited : \A i \in DOMAIN content[f] :
              Ahead(f, PassOf(content[f][i]), i) \/ Done(content[f][i])

ClosureInv == TypeOK /\ HierarchySound /\ StackShape /\ OnlyImported /\ NothingSkipped

-----------------------------------------------------------------------------
(* The part of it behind the other properties: what the facts are, and what  *)
(* the other relations make of them.                                         *)

\* A document is loaded once at a time, so that no two passes share a place.
OneFramePerDocument ==
    \A j, k \in DOMAIN stack :
        stack[j].pass # "open" /\ stack[k].pass # "open" /\ stack[j].file = stack[k].file => j = k

\* The places the second pass has been to.
ReadSoFar == {l \in Positions(visited) : ~Ahead(l[1], "read", l[2])}

\* The facts are the axioms at these places, each as often as it stands there.
FactsAt(places) ==
    /\ IsFiniteSet(places)
    /\ \A a \in {facts[k] : k \in DOMAIN facts} \cup {content[l[1]][l[2]] : l \in places} :
          Cardinality(FactsOf(a)) = Cardinality(PlacesOf(a, places))

FactsAreRead == status # "failed" => FactsAt(ReadSoFar)

FactPairs(kinds) == {<<facts[k].s, facts[k].o>> : k \in {k \in DOMAIN facts : facts[k].kind \in kinds}}

\* The relations say what the facts say, the properties of a class expression
\* apart, which the first pass reads; the hierarchy of properties is kept as the
\* one of classes is.
RelationsFollowFacts ==
    /\ FactPairs({"domain"}) \subseteq domain
    /\ domain \subseteq FactPairs({"domain"}) \cup Stated({"some"})
    /\ range = FactPairs({"range"})
    /\ inverse = FactPairs({"inverse"}) \cup Turned(FactPairs({"inverse"}))
    /\ disjoint = FactPairs({"disjoint"}) \cup Turned(FactPairs({"disjoint"}))
    /\ FactPairs({"subprop"}) \subseteq superproperty
    /\ \A S \in SUBSET Properties : Closed(FactPairs({"subprop"}), S) => Closed(superproperty, S)

\* validate_facts has the last word on what was loaded.
VerdictStands ==
    status \in {"accepted", "rejected"} =>
        (status = "rejected" <=> \E x \in Individuals : Conflicting(x))

IInv == ClosureInv /\ OneFramePerDocument /\ FactsAreRead /\ RelationsFollowFacts /\ VerdictStands
=============================================================================
