--------------------------- MODULE OntologyProofs ---------------------------
(***************************************************************************)
(* What the loader builds, proved for every set of classes and every set   *)
(* of documents: the eagerly kept hierarchy answers what the declared      *)
(* pairs entail, at the end these are the pairs of all the imported        *)
(* documents, each read once, the relations say what was read, and the     *)
(* facts are rejected exactly when they are inconsistent with them.        *)
(***************************************************************************)
EXTENDS OntologyProperties, Integers, SequenceTheorems, FiniteSetTheorems, DataProofs, TLAPS

-----------------------------------------------------------------------------
(* Adding a pair to a hierarchy.                                             *)

\* add_subclass keeps what there was and adds the pair, over the same classes.
LEMMA AddKeeps ==
    ASSUME NEW N, NEW R \in SUBSET (N \X N), NEW u \in N, NEW w \in N
    PROVE  /\ Add(R, u, w) \subseteq N \X N
           /\ R \subseteq Add(R, u, w)
           /\ <<u, w>> \in Add(R, u, w)
  BY DEF Add

\* A set closed under a hierarchy and under the new pair is closed under the
\* hierarchy add_subclass makes of them.
LEMMA AddCloses ==
    ASSUME NEW R, NEW u, NEW w, NEW S, Closed(R, S), u \in S => w \in S
    PROVE  Closed(Add(R, u, w), S)
<1> DEFINE Own == R \cup {<<u, w>>} \cup {<<u, e[2]>> : e \in {e \in R : e[1] = w}}
<1>1. Closed(Own, S)
  BY DEF Closed
<1>2. ASSUME NEW e \in Own, e[2] = u
      PROVE  e[1] \in S => w \in S
  BY <1>1, <1>2 DEF Closed
<1>3. Add(R, u, w) = Own \cup {<<e[1], w>> : e \in {e \in Own : e[2] = u}}
  BY DEF Add
<1> QED
  BY <1>1, <1>2, <1>3 DEF Closed

\* One more declared pair leaves the hierarchy sound.
LEMMA AddSound ==
    ASSUME NEW N, NEW D, NEW R \in SUBSET (N \X N), NEW u \in N, NEW w \in N,
           D \subseteq R,
           \A S \in SUBSET N : Closed(D, S) => Closed(R, S)
    PROVE  /\ Add(R, u, w) \subseteq N \X N
           /\ D \cup {<<u, w>>} \subseteq Add(R, u, w)
           /\ \A S \in SUBSET N : Closed(D \cup {<<u, w>>}, S) => Closed(Add(R, u, w), S)
<1>1. ASSUME NEW S \in SUBSET N, Closed(D \cup {<<u, w>>}, S)
      PROVE  Closed(Add(R, u, w), S)
  <2> DEFINE e == <<u, w>>
  <2>1. e \in D \cup {<<u, w>>} /\ e[1] = u /\ e[2] = w
    OBVIOUS
  <2>2. Closed(D, S)
    BY <1>1 DEF Closed
  <2>3. u \in S => w \in S
    BY <1>1, <2>1 DEF Closed
  <2> QED
    BY <2>2, <2>3, <1>1, AddCloses
<1> QED
  BY <1>1, AddKeeps

-----------------------------------------------------------------------------
(* Types and the shape of the stack.                                         *)

\* What an axiom of each kind relates.
LEMMA AxiomTyped ==
    ASSUME NEW a \in AxiomsOver
    PROVE  /\ a.kind \in AxiomKinds
           /\ a.kind \in {"sub", "equiv", "conjunct", "below", "disjoint"} =>
                  a.s \in Classes /\ a.o \in Classes
           /\ a.kind \in {"subprop", "inverse"} => a.s \in Properties /\ a.o \in Properties
           /\ a.kind \in {"some", "domain", "range"} => a.s \in Properties /\ a.o \in Classes
           /\ a.kind = "import" => a.o \in Documents
  BY DEF AxiomsOver, AxiomKinds

\* While loading there is a document on top, and an axiom when a pass is at one.
LEMMA TopTyped ==
    ASSUME TypeOK, StackShape, status = "loading"
    PROVE  /\ Len(stack) \in Nat \ {0} /\ Top \in Frames
           /\ content[Top.file] \in Seq(AxiomsOver)
<1>1. stack \in Seq(Frames) /\ stack # <<>>
  BY DEF TypeOK, StackShape
<1>2. Len(stack) \in Nat \ {0}
  BY <1>1
<1>3. Top \in Frames
  BY <1>1, <1>2 DEF Top
<1> QED
  BY <1>2, <1>3 DEF TypeOK, Frames

\* A pass that has come to an axiom has one of the kinds it was looked up for.
LEMMA HereTyped ==
    ASSUME TypeOK, StackShape,
           NEW pass, NEW kinds, Here(pass, kinds)
    PROVE  /\ Top.next \in DOMAIN content[Top.file]
           /\ Axiom = content[Top.file][Top.next]
           /\ Axiom \in AxiomsOver
           /\ Axiom.kind \in kinds
<1>1. content[Top.file] \in Seq(AxiomsOver) /\ Top.next \in Nat \ {0}
  BY TopTyped DEF Here, Frames
<1>2. Top.next \in DOMAIN content[Top.file]
  BY <1>1 DEF Here
<1> QED
  BY <1>1, <1>2 DEF Here, Axiom

\* The frame on top when its pass has gone one axiom further.
Further == [Top EXCEPT !.next = @ + 1]

\* Going further changes nothing but the position.
LEMMA FurtherTyped ==
    ASSUME Top \in Frames
    PROVE  Further \in Frames /\ Further.file = Top.file /\ Further.pass = Top.pass
           /\ Further.next = Top.next + 1
  BY DEF Further, Frames

\* Replacing the last member of a sequence.
LEMMA ReplaceLast ==
    ASSUME NEW T, NEW s \in Seq(T), s # <<>>, NEW e \in T
    PROVE  LET r == [s EXCEPT ![Len(s)] = e]
           IN  /\ r \in Seq(T) /\ Len(r) = Len(s) /\ r[Len(s)] = e
               /\ \A j \in 1..Len(s) - 1 : r[j] = s[j]
  OBVIOUS

\* Adding a member at the end of a sequence.
LEMMA AddLast ==
    ASSUME NEW T, NEW s \in Seq(T), NEW e \in T
    PROVE  /\ Append(s, e) \in Seq(T) /\ Len(Append(s, e)) = Len(s) + 1
           /\ Append(s, e)[Len(s) + 1] = e
           /\ \A j \in 1..Len(s) : Append(s, e)[j] = s[j]
  OBVIOUS

\* Dropping the last member of a sequence.
LEMMA DropLast ==
    ASSUME NEW T, NEW s \in Seq(T), s # <<>>
    PROVE  LET r == SubSeq(s, 1, Len(s) - 1)
           IN  /\ r \in Seq(T) /\ Len(r) = Len(s) - 1
               /\ \A j \in 1..Len(s) - 1 : r[j] = s[j]
               /\ r = <<>> <=> Len(s) = 1
<1>1. Len(s) \in Nat \ {0}
  OBVIOUS
<1> DEFINE n == Len(s) - 1
<1>2. 1 \in Int /\ n \in Int /\ n \in Nat /\ n <= Len(s)
  BY <1>1
<1>3. \A i \in 1..n : s[i] \in T
  BY <1>1
<1> HIDE DEF n
<1>4. /\ SubSeq(s, 1, n) \in Seq(T)
      /\ Len(SubSeq(s, 1, n)) = IF 1 <= n THEN n - 1 + 1 ELSE 0
      /\ \A i \in 1..n - 1 + 1 : SubSeq(s, 1, n)[i] = s[1 + i - 1]
  BY <1>2, <1>3, SubSeqProperties
<1> DEFINE r == SubSeq(s, 1, n)
<1> HIDE DEF r
<1>5. r \in Seq(T) /\ Len(r) = n /\ \A j \in 1..n : r[j] = s[j]
  BY <1>2, <1>4 DEF r
<1>6. r = <<>> <=> Len(r) = 0
  BY <1>5, EmptySeq
<1> QED
  BY <1>1, <1>5, <1>6 DEF r, n

\* The stack when the top pass goes one axiom further.
LEMMA AdvancedTop ==
    ASSUME TypeOK, StackShape, status = "loading"
    PROVE  /\ Advanced \in Seq(Frames) /\ Len(Advanced) = Len(stack)
           /\ Advanced[Len(stack)] = Further
           /\ \A j \in 1..Len(stack) - 1 : Advanced[j] = stack[j]
<1>1. stack \in Seq(Frames) /\ stack # <<>>
  BY DEF TypeOK, StackShape
<1>2. Further \in Frames
  BY TopTyped, FurtherTyped
<1>3. Advanced = [stack EXCEPT ![Len(stack)] = Further]
  BY DEF Advanced, Further, Top
<1> QED
  BY <1>1, <1>2, <1>3, ReplaceLast

\* The stack when the top document goes over to another pass.
LEMMA TurnedTop ==
    ASSUME TypeOK, StackShape, status = "loading", NEW frame \in Frames,
           stack' = [stack EXCEPT ![Len(stack)] = frame]
    PROVE  /\ stack' \in Seq(Frames) /\ Len(stack') = Len(stack)
           /\ stack'[Len(stack)] = frame
           /\ \A j \in 1..Len(stack) - 1 : stack'[j] = stack[j]
<1>1. stack \in Seq(Frames) /\ stack # <<>>
  BY DEF TypeOK, StackShape
<1> QED
  BY <1>1, ReplaceLast

\* The stack when an import is put on top.
LEMMA PushedTop ==
    ASSUME TypeOK, StackShape, status = "loading",
           NEW f \in Files, stack' = Append(Advanced, Frame(f))
    PROVE  /\ stack' \in Seq(Frames) /\ Len(stack') = Len(stack) + 1
           /\ stack'[Len(stack)] = Further /\ stack'[Len(stack) + 1] = Frame(f)
           /\ \A j \in 1..Len(stack) - 1 : stack'[j] = stack[j]
<1>1. Frame(f) \in Frames
  BY DEF Frame, Frames
<1>2. Len(stack) \in Nat \ {0}
  BY TopTyped
<1> QED
  BY <1>1, <1>2, AdvancedTop, AddLast

\* The stack when the top document is done with.
LEMMA PoppedTop ==
    ASSUME TypeOK, StackShape, status = "loading", Pop
    PROVE  /\ stack' \in Seq(Frames) /\ Len(stack') = Len(stack) - 1
           /\ \A j \in 1..Len(stack) - 1 : stack'[j] = stack[j]
           /\ stack' = <<>> <=> status' = "loaded"
           /\ status' \in {"loading", "loaded"}
<1>1. stack \in Seq(Frames) /\ stack # <<>>
  BY DEF TypeOK, StackShape
<1> QED
  BY <1>1, DropLast DEF Pop

\* What a step may do to the stack, and what it then does to the rest.
StackStep ==
    \/ /\ status = "loading" /\ Top.pass # "open" /\ stack' = Advanced
       /\ UNCHANGED <<status, visited>>
    \/ /\ Here("read", {"import"}) /\ Axiom.o \in Files
       /\ stack' = Append(Advanced, Frame(Axiom.o))
       /\ UNCHANGED <<status, visited>>
    \/ /\ status = "loading" /\ Pop /\ UNCHANGED visited
    \/ /\ status = "loading" /\ visited' = visited \cup {Top.file}
       /\ \E frame \in Frames : /\ frame.file = Top.file /\ frame.pass # "open"
                                /\ stack' = [stack EXCEPT ![Len(stack)] = frame]
       /\ UNCHANGED status
    \/ /\ UNCHANGED <<stack, visited>>
       /\ \/ status' = status
          \/ status = "loading" /\ status' = "failed"
          \/ status = "loaded" /\ status' \in {"accepted", "rejected"}

\* Every step is one of these.
LEMMA StepOfStack ==
    ASSUME TypeOK, StackShape, [Next]_vars
    PROVE  StackStep
<1>1. CASE Open
  <2> DEFINE frame == [Top EXCEPT !.pass = "normalize"]
  <2>1. frame \in Frames /\ frame.file = Top.file /\ frame.pass # "open"
    BY <1>1, TopTyped DEF Open, Frames
  <2>2. stack' = [stack EXCEPT ![Len(stack)] = frame]
    BY <1>1 DEF Open, Top
  <2> QED
    BY <1>1, <2>1, <2>2 DEF Open, StackStep
<1>2. CASE Normalized
  <2> DEFINE frame == [Frame(Top.file) EXCEPT !.pass = "read"]
  <2>1. frame \in Frames /\ frame.file = Top.file /\ frame.pass # "open"
    <3>1. Top \in Frames
      BY <1>2, TopTyped DEF Normalized
    <3> QED
      BY <3>1 DEF Frame, Frames
  <2>2. stack' = [stack EXCEPT ![Len(stack)] = frame]
    BY <1>2 DEF Normalized, Top
  <2>3. visited' = visited \cup {Top.file}
    <3>1. Top.file \in visited
      BY <1>2, TopTyped DEF Normalized, StackShape, TypeOK, Top
    <3> QED
      BY <1>2, <3>1 DEF Normalized
  <2> QED
    BY <1>2, <2>1, <2>2, <2>3 DEF Normalized, StackStep
<1>3. CASE ReadImport
  BY <1>3 DEF ReadImport, Here, Axiom, StackStep
<1>4. CASE Revisit \/ Close
  BY <1>4 DEF Revisit, Close, StackStep
<1>5. CASE Normalize \/ NormalizeOther \/ ReadSubclass \/ ReadProperty \/ ReadDisjoint \/ ReadOther
  BY <1>5 DEF Normalize, NormalizeOther, ReadSubclass, ReadProperty, ReadDisjoint, ReadOther,
              Here, Advance, StackStep
<1>6. CASE Unreadable \/ Validate \/ Terminated \/ UNCHANGED vars
  BY <1>6 DEF Unreadable, Validate, Terminated, vars, StackStep
<1> QED
  BY <1>1, <1>2, <1>3, <1>4, <1>5, <1>6 DEF Next

\* The stack keeps its shape.
LEMMA ShapeKept ==
    ASSUME TypeOK, StackShape, StackStep
    PROVE  /\ stack' \in Seq(Frames) /\ visited' \subseteq Files
           /\ status' \in {"loading", "failed", "loaded", "accepted", "rejected"}
           /\ StackShape'
<1>1. CASE /\ status = "loading" /\ Top.pass # "open" /\ stack' = Advanced
           /\ UNCHANGED <<status, visited>>
  <2> DEFINE n == Len(stack)
  <2>1. n \in Nat \ {0} /\ Top \in Frames /\ Top = stack[n] /\ n \in DOMAIN stack
        /\ DOMAIN stack = 1..n
    BY <1>1, TopTyped DEF TypeOK, Top
  <2>2. stack' \in Seq(Frames) /\ Len(stack') = n /\ stack'[n] = Further
        /\ \A j \in 1..n - 1 : stack'[j] = stack[j]
    BY <1>1, AdvancedTop
  <2>3. DOMAIN stack' = 1..n
    BY <2>2
  <2> HIDE DEF n
  <2>4. \A j \in DOMAIN stack' : j < Len(stack') => stack'[j].pass = "read"
    BY <1>1, <2>1, <2>2, <2>3, FurtherTyped DEF StackShape
  <2>5. \A j \in DOMAIN stack' : stack'[j].pass # "open" => stack'[j].file \in visited'
    BY <1>1, <2>1, <2>2, <2>3, FurtherTyped DEF StackShape
  <2>8. \A j \in DOMAIN stack' : stack'[j].pass = "open" => stack'[j].next = 1
    BY <1>1, <2>1, <2>2, <2>3, FurtherTyped DEF StackShape
  <2>6. stack' \in Seq(Frames) /\ visited' \subseteq Files /\ status' \in {"loading", "loaded"}
    BY <1>1, <2>1, <2>2 DEF TypeOK, Frames
  <2>7. (status' = "loading" => stack' # <<>>) /\ (Loaded' => stack' = <<>>)
    BY <1>1, <2>1, <2>2, <2>6 DEF Loaded
  <2> QED
    BY <2>4, <2>5, <2>6, <2>7, <2>8 DEF StackShape
<1>2. CASE /\ Here("read", {"import"}) /\ Axiom.o \in Files
           /\ stack' = Append(Advanced, Frame(Axiom.o))
           /\ UNCHANGED <<status, visited>>
  <2>0. status = "loading" /\ Top.pass = "read"
    BY <1>2 DEF Here
  <2> DEFINE n == Len(stack)
  <2>1. n \in Nat \ {0} /\ Top \in Frames /\ Top = stack[n] /\ n \in DOMAIN stack
        /\ DOMAIN stack = 1..n
    BY <1>2, <2>0, TopTyped DEF TypeOK, Top
  <2>2. /\ stack' \in Seq(Frames) /\ Len(stack') = n + 1
        /\ stack'[n] = Further /\ stack'[n + 1] = Frame(Axiom.o)
        /\ \A j \in 1..n - 1 : stack'[j] = stack[j]
    BY <1>2, <2>0, PushedTop
  <2>3. DOMAIN stack' = 1..n + 1
    BY <2>1, <2>2
  <2> HIDE DEF n
  <2>4. \A j \in DOMAIN stack' : j < Len(stack') => stack'[j].pass = "read"
    BY <1>2, <2>0, <2>1, <2>2, <2>3, FurtherTyped DEF StackShape, Frame
  <2>5. \A j \in DOMAIN stack' : stack'[j].pass # "open" => stack'[j].file \in visited'
    BY <1>2, <2>0, <2>1, <2>2, <2>3, FurtherTyped DEF StackShape, Frame
  <2>8. \A j \in DOMAIN stack' : stack'[j].pass = "open" => stack'[j].next = 1
    BY <1>2, <2>0, <2>1, <2>2, <2>3, FurtherTyped DEF StackShape, Frame
  <2>6. stack' \in Seq(Frames) /\ visited' \subseteq Files /\ status' \in {"loading", "loaded"}
    BY <1>2, <2>0, <2>1, <2>2 DEF TypeOK, Frames
  <2>7. (status' = "loading" => stack' # <<>>) /\ (Loaded' => stack' = <<>>)
    BY <1>2, <2>0, <2>1, <2>2, <2>6 DEF Loaded
  <2> QED
    BY <2>4, <2>5, <2>6, <2>7, <2>8 DEF StackShape
<1>3. CASE status = "loading" /\ Pop /\ UNCHANGED visited
  <2> DEFINE n == Len(stack)
  <2>1. n \in Nat \ {0} /\ Top \in Frames /\ Top = stack[n] /\ n \in DOMAIN stack
        /\ DOMAIN stack = 1..n
    BY <1>3, TopTyped DEF TypeOK, Top
  <2>2. /\ stack' \in Seq(Frames) /\ Len(stack') = n - 1
        /\ \A j \in 1..n - 1 : stack'[j] = stack[j]
        /\ stack' = <<>> <=> status' = "loaded"
        /\ status' \in {"loading", "loaded"}
    BY <1>3, PoppedTop
  <2>3. DOMAIN stack' = 1..n - 1
    BY <2>1, <2>2
  <2> HIDE DEF n
  <2>4. \A j \in DOMAIN stack' : j < Len(stack') => stack'[j].pass = "read"
    BY <1>3, <2>1, <2>2, <2>3 DEF StackShape
  <2>5. \A j \in DOMAIN stack' : stack'[j].pass # "open" => stack'[j].file \in visited'
    BY <1>3, <2>1, <2>2, <2>3 DEF StackShape
  <2>8. \A j \in DOMAIN stack' : stack'[j].pass = "open" => stack'[j].next = 1
    BY <1>3, <2>1, <2>2, <2>3 DEF StackShape
  <2>6. stack' \in Seq(Frames) /\ visited' \subseteq Files /\ status' \in {"loading", "loaded"}
    BY <1>3, <2>1, <2>2 DEF TypeOK, Frames
  <2>7. (status' = "loading" => stack' # <<>>) /\ (Loaded' => stack' = <<>>)
    BY <1>3, <2>1, <2>2, <2>6 DEF Loaded
  <2> QED
    BY <2>4, <2>5, <2>6, <2>7, <2>8 DEF StackShape
<1>4. CASE /\ status = "loading" /\ visited' = visited \cup {Top.file}
           /\ \E frame \in Frames : /\ frame.file = Top.file /\ frame.pass # "open"
                                    /\ stack' = [stack EXCEPT ![Len(stack)] = frame]
           /\ UNCHANGED status
  <2> DEFINE n == Len(stack)
  <2>1. n \in Nat \ {0} /\ Top \in Frames /\ Top = stack[n] /\ n \in DOMAIN stack
        /\ DOMAIN stack = 1..n
    BY <1>4, TopTyped DEF TypeOK, Top
  <2>2. PICK frame \in Frames :
          /\ frame.file = Top.file /\ frame.pass # "open"
          /\ stack' \in Seq(Frames) /\ Len(stack') = n /\ stack'[n] = frame
          /\ \A j \in 1..n - 1 : stack'[j] = stack[j]
    BY <1>4, TurnedTop
  <2>3. DOMAIN stack' = 1..n
    BY <2>2
  <2> HIDE DEF n
  <2>4. \A j \in DOMAIN stack' : j < Len(stack') => stack'[j].pass = "read"
    BY <1>4, <2>1, <2>2, <2>3 DEF StackShape, Frames
  <2>5. \A j \in DOMAIN stack' : stack'[j].pass # "open" => stack'[j].file \in visited'
    BY <1>4, <2>1, <2>2, <2>3 DEF StackShape, Frames
  <2>8. \A j \in DOMAIN stack' : stack'[j].pass = "open" => stack'[j].next = 1
    BY <1>4, <2>1, <2>2, <2>3 DEF StackShape
  <2>6. stack' \in Seq(Frames) /\ visited' \subseteq Files /\ status' \in {"loading", "loaded"}
    BY <1>4, <2>1, <2>2 DEF TypeOK, Frames
  <2>7. (status' = "loading" => stack' # <<>>) /\ (Loaded' => stack' = <<>>)
    BY <1>4, <2>1, <2>2, <2>6 DEF Loaded
  <2> QED
    BY <2>4, <2>5, <2>6, <2>7, <2>8 DEF StackShape
<1>5. CASE /\ UNCHANGED <<stack, visited>>
           /\ \/ status' = status
              \/ status = "loading" /\ status' = "failed"
              \/ status = "loaded" /\ status' \in {"accepted", "rejected"}
  BY <1>5 DEF TypeOK, StackShape, Loaded
<1> QED
  BY <1>1, <1>2, <1>3, <1>4, <1>5 DEF StackStep

-----------------------------------------------------------------------------
(* Types of what the documents feed.                                         *)

\* The relations and the facts keep their types.
LEMMA RelationsTyped ==
    ASSUME TypeOK, StackShape, [Next]_vars
    PROVE  /\ content' \in [Files -> Seq(AxiomsOver)] /\ broken' \subseteq Files
           /\ given' \subseteq Individuals \X Classes
           /\ superclass' \subseteq Classes \X Classes /\ disjoint' \subseteq Classes \X Classes
           /\ superproperty' \subseteq Properties \X Properties
           /\ inverse' \subseteq Properties \X Properties
           /\ domain' \subseteq Properties \X Classes /\ range' \subseteq Properties \X Classes
           /\ facts' \in Seq(AxiomsOver)
           /\ declared' \subseteq Classes \X Classes
<1>1. /\ superclass \in SUBSET (Classes \X Classes)
      /\ superproperty \in SUBSET (Properties \X Properties)
  BY DEF TypeOK
<1>2. ASSUME NEW R \in SUBSET (Classes \X Classes), NEW u \in Classes, NEW w \in Classes
      PROVE  Add(R, u, w) \in SUBSET (Classes \X Classes)
  BY AddKeeps
<1>3. \A u, w \in Properties : Add(superproperty, u, w) \in SUBSET (Properties \X Properties)
  BY <1>1, AddKeeps
<1>4. \A a \in AxiomsOver : Append(facts, a) \in Seq(AxiomsOver)
  BY AddLast DEF TypeOK
<1> USE DEF TypeOK
<1>5. CASE Normalize
  <2>1. Axiom \in AxiomsOver /\ Axiom.kind \in {"conjunct", "below", "some"}
    BY <1>5, HereTyped DEF Normalize
  <2>2. CASE Axiom.kind = "some"
    BY <1>5, <2>1, <2>2, AxiomTyped DEF Normalize, inputs
  <2>3. CASE Axiom.kind # "some"
    <3>1. Axiom.s \in Classes /\ Axiom.o \in Classes
      BY <2>1, <2>3, AxiomTyped
    <3>2. /\ Add(superclass, Axiom.s, Axiom.o) \subseteq Classes \X Classes
          /\ Add(superclass, Axiom.o, Axiom.s) \subseteq Classes \X Classes
      BY <3>1, <1>1, <1>2
    <3> QED
      BY <1>5, <2>1, <2>3, <3>1, <3>2 DEF Normalize, inputs
  <2> QED
    BY <2>2, <2>3
<1>6. CASE ReadSubclass
  <2>1. Axiom \in AxiomsOver /\ Axiom.s \in Classes /\ Axiom.o \in Classes
    BY <1>6, HereTyped, AxiomTyped DEF ReadSubclass
  <2>2. Add(superclass, Axiom.s, Axiom.o) \in SUBSET (Classes \X Classes)
    BY <2>1, <1>1, <1>2
  <2>3. Add(Add(superclass, Axiom.s, Axiom.o), Axiom.o, Axiom.s) \subseteq Classes \X Classes
    <3> DEFINE R == Add(superclass, Axiom.s, Axiom.o)
    <3>1. R \in SUBSET (Classes \X Classes)
      BY <2>2
    <3> HIDE DEF R, TypeOK
    <3>2. Add(R, Axiom.o, Axiom.s) \in SUBSET (Classes \X Classes)
      BY <2>1, <3>1, <1>2
    <3> QED
      BY <3>2 DEF R
  <2> QED
    BY <1>6, <2>1, <2>2, <2>3, <1>4 DEF ReadSubclass, inputs
<1>7. CASE ReadProperty
  <2>1. Axiom \in AxiomsOver /\ Axiom.kind \in {"subprop", "domain", "range", "inverse"}
    BY <1>7, HereTyped DEF ReadProperty
  <2>2. superproperty' \subseteq Properties \X Properties
    <3>1. Axiom.kind = "subprop" =>
            Add(superproperty, Axiom.s, Axiom.o) \subseteq Properties \X Properties
      BY <2>1, AxiomTyped, <1>3
    <3> QED
      BY <1>7, <3>1 DEF ReadProperty
  <2>3. /\ domain' \subseteq Properties \X Classes /\ range' \subseteq Properties \X Classes
        /\ inverse' \subseteq Properties \X Properties
    BY <1>7, <2>1, AxiomTyped DEF ReadProperty
  <2> QED
    BY <1>7, <2>1, <2>2, <2>3, <1>4 DEF ReadProperty, inputs
<1>8. CASE ReadDisjoint
  <2>1. Axiom \in AxiomsOver /\ Axiom.s \in Classes /\ Axiom.o \in Classes
    BY <1>8, HereTyped, AxiomTyped DEF ReadDisjoint
  <2> QED
    BY <1>8, <2>1, <1>4 DEF ReadDisjoint, inputs
<1>9. CASE ReadOther \/ ReadImport
  <2>1. Axiom \in AxiomsOver
    BY <1>9, HereTyped DEF ReadOther, ReadImport
  <2> QED
    BY <1>9, <2>1, <1>4 DEF ReadOther, ReadImport, inputs, relations
<1>10. CASE \/ Revisit \/ Unreadable \/ Open \/ NormalizeOther \/ Normalized
           \/ Close \/ Validate \/ Terminated \/ UNCHANGED vars
  BY <1>10 DEF Revisit, Unreadable, Open, NormalizeOther, Normalized, Close, Validate, Terminated,
              vars, inputs, relations
<1> QED
  BY <1>5, <1>6, <1>7, <1>8, <1>9, <1>10 DEF Next

\* The initial states are typed and the stack has its shape.
LEMMA InitTyped == Init => TypeOK /\ StackShape
<1> SUFFICES ASSUME Init PROVE TypeOK /\ StackShape
  OBVIOUS
<1>1. Frame(Root) \in Frames /\ Frame(Root).pass = "open" /\ Frame(Root).next = 1
  BY OntologyAssumption DEF Frame, Frames
<1>2. stack \in Seq(Frames) /\ Len(stack) = 1 /\ stack[1] = Frame(Root)
  BY <1>1 DEF Init
<1> QED
  BY <1>1, <1>2, OntologyAssumption DEF Init, TypeOK, StackShape, Loaded

\* Every step keeps the types and the shape of the stack.
LEMMA StepTyped == TypeOK /\ StackShape /\ [Next]_vars => TypeOK' /\ StackShape'
<1> SUFFICES ASSUME TypeOK, StackShape, [Next]_vars PROVE TypeOK' /\ StackShape'
  OBVIOUS
<1>1. StackStep
  BY StepOfStack
<1>2. /\ stack' \in Seq(Frames) /\ visited' \subseteq Files /\ StackShape'
      /\ status' \in {"loading", "failed", "loaded", "accepted", "rejected"}
  BY <1>1, ShapeKept
<1> QED
  BY <1>2, RelationsTyped DEF TypeOK

\* Every state the loader can be in is well formed (load_closure).
THEOREM TypeCorrect == Spec => []TypeOK
<1>1. Init => TypeOK /\ StackShape
  BY InitTyped
<1>2. TypeOK /\ StackShape /\ [Next]_vars => (TypeOK /\ StackShape)'
  BY StepTyped
<1> QED
  BY <1>1, <1>2, PTL DEF Spec

-----------------------------------------------------------------------------
(* The hierarchy answers what was declared.                                  *)

\* Every step keeps the hierarchy sound: the two that add to it declare what
\* they add.
LEMMA SoundKept ==
    ASSUME TypeOK, StackShape, HierarchySound, [Next]_vars
    PROVE  HierarchySound'
<1> DEFINE Sound(D, R) == /\ D \subseteq R
                          /\ \A S \in SUBSET Classes : Closed(D, S) => Closed(R, S)
<1>1. Sound(declared, superclass) /\ superclass \in SUBSET (Classes \X Classes)
  BY DEF HierarchySound, TypeOK
<1>2. ASSUME NEW D, NEW R \in SUBSET (Classes \X Classes), Sound(D, R),
             NEW u \in Classes, NEW w \in Classes
      PROVE  /\ Add(R, u, w) \in SUBSET (Classes \X Classes)
             /\ Sound(D \cup {<<u, w>>}, Add(R, u, w))
  BY <1>2, AddSound
<1>3. CASE Normalize
  <2>1. Axiom \in AxiomsOver /\ Axiom.kind \in {"conjunct", "below", "some"}
    BY <1>3, HereTyped DEF Normalize
  <2>2. CASE Axiom.kind = "some"
    BY <1>3, <2>2, <1>1 DEF Normalize, HierarchySound
  <2>3. CASE Axiom.kind # "some"
    <3> HIDE DEF Sound
    <3>1. Axiom.s \in Classes /\ Axiom.o \in Classes
      BY <2>1, <2>3, AxiomTyped
    <3>2. Sound(declared', superclass')
      BY <1>1, <1>2, <1>3, <2>1, <2>3, <3>1 DEF Normalize
    <3> QED
      BY <3>2 DEF Sound, HierarchySound
  <2> QED
    BY <2>2, <2>3
<1>4. CASE ReadSubclass
  <2> HIDE DEF Sound
  <2>1. Axiom.s \in Classes /\ Axiom.o \in Classes /\ Axiom.kind \in {"sub", "equiv"}
    BY <1>4, HereTyped, AxiomTyped DEF ReadSubclass
  <2> DEFINE D == declared \cup {<<Axiom.s, Axiom.o>>}
             R == Add(superclass, Axiom.s, Axiom.o)
  <2>2. Sound(D, R) /\ R \in SUBSET (Classes \X Classes)
    BY <1>1, <1>2, <2>1
  <2>3. Sound(D \cup {<<Axiom.o, Axiom.s>>}, Add(R, Axiom.o, Axiom.s))
    <3> HIDE DEF D, R
    <3> QED BY <1>2, <2>1, <2>2
  <2>4. \/ declared' = D /\ superclass' = R
        \/ /\ declared' = D \cup {<<Axiom.o, Axiom.s>>}
           /\ superclass' = Add(R, Axiom.o, Axiom.s)
    BY <1>4, <2>1 DEF ReadSubclass
  <2>5. Sound(declared', superclass')
    <3> HIDE DEF D, R
    <3> QED BY <2>2, <2>3, <2>4
  <2> QED
    BY <2>5 DEF Sound, HierarchySound
<1>5. CASE UNCHANGED <<superclass, declared>>
  BY <1>1, <1>5 DEF HierarchySound
<1>6. Normalize \/ ReadSubclass \/ UNCHANGED <<superclass, declared>>
  BY DEF Next, Revisit, Unreadable, Open, NormalizeOther, Normalized, ReadProperty, ReadDisjoint,
         ReadOther, ReadImport, Close, Validate, Terminated, vars, relations
<1> QED
  BY <1>3, <1>4, <1>5, <1>6

\* A sound hierarchy answers exactly what the declared pairs entail.
LEMMA SoundIsExact ==
    ASSUME HierarchySound
    PROVE  HierarchyExact
<1>1. \A S \in SUBSET Classes : Closed(superclass, S) <=> Closed(declared, S)
  BY DEF HierarchySound, Closed
<1> QED
  BY <1>1 DEF HierarchyExact, IsSubclassOf, Reaches

\* The eagerly kept hierarchy is sound at every moment of the loading
\* (add_subclass), for every set of classes and of documents.
THEOREM HierarchyIsSound == Spec => []HierarchySound
<1>1. Init => TypeOK /\ StackShape /\ HierarchySound
  BY InitTyped DEF Init, HierarchySound
<1>2. TypeOK /\ StackShape /\ HierarchySound /\ [Next]_vars => (TypeOK /\ StackShape /\ HierarchySound)'
  BY StepTyped, SoundKept
<1> QED
  BY <1>1, <1>2, PTL DEF Spec

\* is_subclass_of answers exactly what was declared, at every moment.
THEOREM HierarchyIsExact == Spec => []HierarchyExact
<1>1. HierarchySound => HierarchyExact
  BY SoundIsExact
<1> QED
  BY <1>1, HierarchyIsSound, PTL

-----------------------------------------------------------------------------
(* Nothing but what the imported documents state is declared.                *)

\* The root is imported, and so is what an imported document imports.
LEMMA ImportedCloses ==
    ASSUME TypeOK
    PROVE  /\ Root \in Imported /\ Imported \subseteq Documents
           /\ \A f \in Imported \cap Files : \A i \in DOMAIN content[f] :
                 content[f][i].kind = "import" => content[f][i].o \in Imported
<1>1. Root \in Imported /\ Imported \subseteq Documents
  BY OntologyAssumption DEF Imported, Reaches, Documents
<1>2. ASSUME NEW f \in Imported \cap Files, NEW i \in DOMAIN content[f],
             content[f][i].kind = "import"
      PROVE  content[f][i].o \in Imported
  <2> DEFINE a == content[f][i]
  <2>1. a \in AxiomsOver
    BY DEF TypeOK
  <2>2. a.o \in Documents
    BY <1>2, <2>1, AxiomTyped
  <2>3. a \in Axioms(f, {"import"})
    BY <1>2 DEF Axioms
  <2>4. <<f, a.o>> \in Imports
    BY <2>3 DEF Imports
  <2>5. \A S \in SUBSET Documents : f \in S /\ Closed(Imports, S) => a.o \in S
    <3> DEFINE e == <<f, a.o>>
    <3>1. e \in Imports /\ e[1] = f /\ e[2] = a.o
      BY <2>4
    <3> HIDE DEF e, a
    <3> QED BY <3>1 DEF Closed
  <2> QED
    BY <2>2, <2>5 DEF Imported, Reaches
<1> QED
  BY <1>1, <1>2

\* The pairs of an axiom of an imported document are among Subclasses.
LEMMA PairsStated ==
    ASSUME TypeOK, NEW f \in Imported \cap Files, NEW i \in DOMAIN content[f]
    PROVE  PairsOf(content[f][i]) \subseteq Subclasses
<1> DEFINE a == content[f][i]
           st == <<a.s, a.o>>
<1>1. f \in Imported \ {Unmapped}
  BY OntologyAssumption
<1>2. ASSUME NEW kinds, a.kind \in kinds
      PROVE  st \in Stated(kinds)
  <2>1. a \in Axioms(f, kinds)
    BY <1>2 DEF Axioms
  <2> QED
    BY <1>1, <2>1 DEF Stated
<1>3. ASSUME NEW kinds, a.kind \in kinds
      PROVE  <<a.o, a.s>> \in Turned(Stated(kinds))
  <2>1. st \in Stated(kinds) /\ <<st[2], st[1]>> = <<a.o, a.s>>
    BY <1>2, <1>3
  <2> QED
    BY <2>1 DEF Turned
<1>4. a.kind \in {"sub", "conjunct"} => st \in Subclasses
  BY <1>2 DEF Subclasses
<1>5. a.kind = "below" => <<a.o, a.s>> \in Subclasses
  BY <1>3 DEF Subclasses
<1>6. a.kind = "equiv" => st \in Subclasses /\ <<a.o, a.s>> \in Subclasses
  BY <1>2, <1>3 DEF Subclasses
<1> HIDE DEF a
<1>7. PairsOf(a) \subseteq Subclasses
  BY <1>4, <1>5, <1>6 DEF PairsOf
<1> QED
  BY <1>7 DEF a

\* What is stated depends on the documents alone.
LEMMA StatedFixed ==
    ASSUME UNCHANGED inputs
    PROVE  Imported' = Imported /\ Subclasses' = Subclasses
  BY DEF inputs, Imported, Imports, Axioms, Reaches, Closed, Subclasses, Stated, Turned

\* Nothing changes the documents.
LEMMA InputsFixed ==
    ASSUME [Next]_vars
    PROVE  UNCHANGED inputs
  BY DEF Next, Revisit, Unreadable, Open, Normalize, NormalizeOther, Normalized, ReadSubclass,
         ReadProperty, ReadDisjoint, ReadOther, ReadImport, Close, Validate, Terminated, vars

\* A step declares the pairs of the axiom it has come to, and no others.
LEMMA DeclaredBy ==
    ASSUME TypeOK, StackShape, [Next]_vars
    PROVE  \/ UNCHANGED declared
           \/ /\ Normalize \/ ReadSubclass
              /\ declared' = declared \cup PairsOf(Axiom)
<1>1. CASE Normalize
  <2>1. Axiom.kind \in {"conjunct", "below", "some"}
    BY <1>1, HereTyped DEF Normalize
  <2> QED
    BY <1>1, <2>1 DEF Normalize, PairsOf
<1>2. CASE ReadSubclass
  <2>1. Axiom.kind \in {"sub", "equiv"}
    BY <1>2, HereTyped DEF ReadSubclass
  <2> QED
    BY <1>2, <2>1 DEF ReadSubclass, PairsOf
<1> QED
  BY <1>1, <1>2 DEF Next, Revisit, Unreadable, Open, NormalizeOther, Normalized, ReadProperty,
     ReadDisjoint, ReadOther, ReadImport, Close, Validate, Terminated, vars

\* Every step stays within the imported documents and what they state.
LEMMA ImportedKept ==
    ASSUME TypeOK, StackShape, OnlyImported, [Next]_vars
    PROVE  OnlyImported'
<1>1. Imported' = Imported /\ Subclasses' = Subclasses /\ UNCHANGED <<content, broken>>
  BY InputsFixed, StatedFixed DEF inputs
<1>2. status = "loading" => Top.file \in Imported \cap Files
  BY TopTyped DEF OnlyImported, Top, Frames
<1>3. visited' \subseteq Imported /\ visited' \cap broken = {}
  <2>1. Open \/ UNCHANGED visited
    BY DEF Next, Revisit, Unreadable, Normalize, NormalizeOther, Normalized, ReadSubclass,
           ReadProperty, ReadDisjoint, ReadOther, ReadImport, Close, Validate, Terminated, vars
  <2> QED
    BY <1>2, <2>1 DEF Open, OnlyImported
<1>4. \A j \in DOMAIN stack' : stack'[j].file \in Imported
  <2>1. StackStep /\ stack \in Seq(Frames)
    BY StepOfStack DEF TypeOK
  <2>2. \A j \in 1..Len(stack) : stack[j].file \in Imported
    BY <2>1 DEF OnlyImported
  <2>3. CASE status = "loading" /\ stack' = Advanced
    BY <1>2, <2>2, <2>3, AdvancedTop, FurtherTyped, TopTyped
  <2>4. CASE /\ Here("read", {"import"}) /\ Axiom.o \in Files
             /\ stack' = Append(Advanced, Frame(Axiom.o))
    <3>1. status = "loading" /\ Axiom.o \in Imported
      BY <1>2, <2>4, HereTyped, ImportedCloses DEF Here
    <3>2. /\ stack' \in Seq(Frames) /\ Len(stack') = Len(stack) + 1
          /\ stack'[Len(stack)] = Further /\ stack'[Len(stack) + 1] = Frame(Axiom.o)
          /\ \A j \in 1..Len(stack) - 1 : stack'[j] = stack[j]
      BY <2>4, <3>1, PushedTop
    <3>3. Further.file \in Imported /\ Frame(Axiom.o).file \in Imported
      BY <1>2, <3>1, FurtherTyped, TopTyped DEF Frame
    <3> QED
      BY <2>2, <3>1, <3>2, <3>3, TopTyped
  <2>5. CASE status = "loading" /\ Pop
    BY <2>2, <2>5, PoppedTop, TopTyped
  <2>6. CASE /\ status = "loading"
             /\ \E frame \in Frames : /\ frame.file = Top.file
                                      /\ stack' = [stack EXCEPT ![Len(stack)] = frame]
    BY <1>2, <2>2, <2>6, TurnedTop, TopTyped
  <2>7. CASE UNCHANGED stack
    BY <2>7 DEF OnlyImported
  <2> QED
    BY <2>1, <2>3, <2>4, <2>5, <2>6, <2>7 DEF StackStep
<1>5. declared' \subseteq Subclasses
  <2>1. CASE UNCHANGED declared
    BY <2>1 DEF OnlyImported
  <2>2. CASE (Normalize \/ ReadSubclass) /\ declared' = declared \cup PairsOf(Axiom)
    <3>1. /\ status = "loading" /\ Top.next \in DOMAIN content[Top.file]
          /\ Axiom = content[Top.file][Top.next]
      BY <2>2, HereTyped DEF Normalize, ReadSubclass, Here
    <3>2. PairsOf(Axiom) \subseteq Subclasses
      BY <1>2, <3>1, PairsStated
    <3> QED
      BY <2>2, <3>2 DEF OnlyImported
  <2> QED
    BY <2>1, <2>2, DeclaredBy
<1>6. status' = "failed" => Unmapped \in Imported \/ Imported \cap broken # {}
  <2>1. CASE status' = status
    BY <2>1 DEF OnlyImported
  <2>2. CASE Unreadable
    BY <1>2, <2>2 DEF Unreadable
  <2>3. CASE ReadImport /\ Axiom.o = Unmapped
    BY <1>2, <2>3, HereTyped, ImportedCloses DEF ReadImport, Here
  <2>4. status' = "failed" => status' = status \/ Unreadable \/ (ReadImport /\ Axiom.o = Unmapped)
    BY DEF Next, Revisit, Open, Normalize, NormalizeOther, Normalized, ReadSubclass, Pop,
           ReadProperty, ReadDisjoint, ReadOther, ReadImport, Close, Validate, Terminated, vars
  <2> QED
    BY <2>1, <2>2, <2>3, <2>4
<1> QED
  BY <1>1, <1>3, <1>4, <1>5, <1>6 DEF OnlyImported

-----------------------------------------------------------------------------
(* No axiom of a document visited is passed over.                            *)

\* What a step must see to: what is met stays met, an axiom no longer ahead
\* has been done, and a document just visited has everything ahead.
LEMMA SkippedFrom ==
    ASSUME NothingSkipped, status # "failed", UNCHANGED content, declared \subseteq declared',
           domain \subseteq domain',
           \A g : Met(g) => Met(g)',
           \A f \in visited : \A i, a :
               i \in DOMAIN content[f] /\ a = content[f][i] /\ Ahead(f, PassOf(a), i) =>
                   Ahead(f, PassOf(a), i)' \/ Done(a)',
           \A f \in visited' \ visited : \A i, a :
               i \in DOMAIN content[f] /\ a = content[f][i] => Ahead(f, PassOf(a), i)'
    PROVE  NothingSkipped'
<1>1. ASSUME NEW a, Done(a) PROVE Done(a)'
  BY <1>1 DEF Done
<1>2. Met(Root)'
  BY DEF NothingSkipped
<1>3. ASSUME NEW f \in visited', NEW i \in DOMAIN content[f], NEW a, a = content[f][i]
      PROVE  Ahead(f, PassOf(a), i)' \/ Done(a)'
  BY <1>1, <1>3 DEF NothingSkipped
<1> QED
  BY <1>2, <1>3 DEF NothingSkipped

\* Going one axiom further leaves that one alone behind.
LEMMA AheadFurther ==
    ASSUME TypeOK, StackShape, status = "loading", Top.pass # "open",
           Len(stack') >= Len(stack), stack' \in Seq(Frames), stack'[Len(stack)] = Further,
           \A j \in 1..Len(stack) - 1 : stack'[j] = stack[j],
           NEW f, NEW p \in {"normalize", "read"}, NEW i \in Nat, Ahead(f, p, i)
    PROVE  Ahead(f, p, i)' \/ (f = Top.file /\ i = Top.next /\ p = Top.pass)
<1>1. Len(stack) \in Nat \ {0} /\ Top \in Frames /\ Top = stack[Len(stack)]
  BY TopTyped DEF Top
<1>2. DOMAIN stack = 1..Len(stack) /\ DOMAIN stack' = 1..Len(stack')
  BY DEF TypeOK
<1>3. PICK j \in DOMAIN stack : Covers(stack[j], f, p, i)
  BY DEF Ahead
<1>4. CASE j = Len(stack)
  <2>1. Top.next \in Nat /\ Further.file = Top.file /\ Further.pass = Top.pass
        /\ Further.next = Top.next + 1
    BY <1>1, FurtherTyped DEF Frames
  <2>2. Covers(Further, f, p, i) \/ (f = Top.file /\ i = Top.next /\ p = Top.pass)
    BY <1>1, <1>3, <1>4, <2>1 DEF Covers
  <2> QED
    BY <1>1, <1>2, <2>2 DEF Ahead, Covers
<1>5. CASE j # Len(stack)
  BY <1>1, <1>2, <1>3, <1>5 DEF Ahead, Covers
<1> QED
  BY <1>4, <1>5

\* Documents met stay met while what is below the top frame stays.
LEMMA MetStays ==
    ASSUME TypeOK, StackShape, status = "loading", visited \subseteq visited',
           stack' \in Seq(Frames), Len(stack') >= Len(stack) - 1,
           \A j \in 1..Len(stack) - 1 : stack'[j] = stack[j],
           Top.pass = "open" => Top.file \in visited'
    PROVE  \A g : Met(g) => Met(g)'
<1>1. Len(stack) \in Nat \ {0} /\ Top = stack[Len(stack)]
  BY TopTyped DEF Top
<1>2. DOMAIN stack = 1..Len(stack) /\ DOMAIN stack' = 1..Len(stack')
  BY DEF TypeOK
<1>3. ASSUME NEW g, NEW j \in DOMAIN stack, stack[j].file = g, stack[j].pass = "open"
      PROVE  Met(g)'
  <2>1. CASE j = Len(stack)
    BY <1>1, <1>3, <2>1 DEF Met
  <2>2. CASE j # Len(stack)
    <3>1. j \in DOMAIN stack' /\ stack'[j] = stack[j]
      BY <1>1, <1>2, <2>2
    <3> QED
      BY <1>3, <3>1 DEF Met
  <2> QED
    BY <2>1, <2>2
<1> QED
  BY <1>3 DEF Met

\* No step passes an axiom over.
LEMMA SkippedKept ==
    ASSUME TypeOK, StackShape, NothingSkipped, [Next]_vars
    PROVE  NothingSkipped'
<1> SUFFICES ASSUME status' # "failed" PROVE NothingSkipped'
  BY DEF NothingSkipped
<1>1. status # "failed" /\ UNCHANGED content
  BY StepOfStack, InputsFixed DEF StackStep, inputs
<1>2. declared \subseteq declared' /\ visited \subseteq visited' /\ domain \subseteq domain'
  <2>1. declared \subseteq declared'
    BY DeclaredBy
  <2>3. domain \subseteq domain'
    BY DEF Next, Revisit, Unreadable, Open, Normalize, NormalizeOther, Normalized, ReadSubclass,
           ReadProperty, ReadDisjoint, ReadOther, ReadImport, Close, Validate, Terminated, vars,
           relations
  <2>2. visited \subseteq visited'
    BY DEF Next, Revisit, Unreadable, Open, Normalize, NormalizeOther, Normalized, ReadSubclass,
           ReadProperty, ReadDisjoint, ReadOther, ReadImport, Close, Validate, Terminated, vars
  <2> QED
    BY <2>1, <2>2, <2>3
<1>3. \A f \in visited : \A i \in DOMAIN content[f] :
        i \in Nat \ {0} /\ PassOf(content[f][i]) \in {"normalize", "read"}
  BY DEF TypeOK, PassOf
<1>4. status = "loading" =>
        /\ Len(stack) \in Nat \ {0} /\ Top = stack[Len(stack)] /\ Top \in Frames
        /\ DOMAIN stack = 1..Len(stack)
  BY TopTyped DEF Top, TypeOK
<1>5. CASE \/ Normalize \/ NormalizeOther \/ ReadSubclass \/ ReadProperty \/ ReadDisjoint
           \/ ReadOther \/ ReadImport
  <2>1. /\ status = "loading" /\ UNCHANGED visited
        /\ \/ stack' = Advanced /\ ~ReadImport
           \/ Here("read", {"import"}) /\ Axiom.o \in Files /\ stack' = Append(Advanced, Frame(Axiom.o))
    BY <1>5 DEF Normalize, NormalizeOther, ReadSubclass, ReadProperty, ReadDisjoint, ReadOther,
                ReadImport, Here, Axiom, Advance
  <2>2. /\ Len(stack') >= Len(stack) /\ stack' \in Seq(Frames) /\ stack'[Len(stack)] = Further
        /\ \A j \in 1..Len(stack) - 1 : stack'[j] = stack[j]
    BY <1>4, <2>1, AdvancedTop, PushedTop
  <2>3. /\ Top.pass \in {"normalize", "read"} /\ Top.next \in DOMAIN content[Top.file]
        /\ Axiom = content[Top.file][Top.next]
    BY <1>5, HereTyped DEF Normalize, NormalizeOther, ReadSubclass, ReadProperty, ReadDisjoint,
                ReadOther, ReadImport, Here
  <2>4. \A g : Met(g) => Met(g)'
    BY <1>2, <1>4, <2>1, <2>2, <2>3, MetStays
  <2>5. ASSUME NEW a, a = Axiom, PassOf(a) = Top.pass
        PROVE  Done(a)'
    <3>1. CASE ReadImport
      <4>1. a.kind = "import" /\ a.o \in Files
        BY <2>1, <2>5, <3>1, HereTyped
      <4>2. stack' = Append(Advanced, Frame(a.o))
        BY <2>1, <2>5, <3>1
      <4>3. stack'[Len(stack) + 1] = Frame(a.o) /\ Len(stack') = Len(stack) + 1
        BY <2>1, <4>1, <4>2, PushedTop
      <4>4. Met(a.o)'
        BY <1>4, <2>1, <2>2, <4>3 DEF Met, Frame
      <4> QED
        BY <4>1, <4>4 DEF Done, PairsOf
    <3>2. CASE Normalize \/ ReadSubclass
      <4>1. /\ declared' = declared \cup PairsOf(a) /\ a.kind # "import"
            /\ a.kind = "some" => <<a.s, a.o>> \in domain'
        BY <2>5, <3>2, HereTyped DEF Normalize, ReadSubclass, PairsOf
      <4> QED
        BY <4>1 DEF Done
    <3>3. CASE NormalizeOther \/ ReadProperty \/ ReadDisjoint \/ ReadOther
      <4>1. a.kind \notin {"import", "some"} /\ PairsOf(a) = {}
        BY <2>5, <3>3, HereTyped DEF NormalizeOther, ReadProperty, ReadDisjoint, ReadOther, Here,
                                     PairsOf, PassOf
      <4> QED
        BY <4>1 DEF Done
    <3> QED
      BY <1>5, <3>1, <3>2, <3>3
  <2>6. ASSUME NEW f \in visited, NEW i, NEW a,
               i \in DOMAIN content[f], a = content[f][i], Ahead(f, PassOf(a), i)
        PROVE  Ahead(f, PassOf(a), i)' \/ Done(a)'
    <3> DEFINE p == PassOf(a)
    <3>1. i \in Nat /\ p \in {"normalize", "read"} /\ Ahead(f, p, i)
      BY <1>3, <2>6
    <3>2. Ahead(f, p, i)' \/ (f = Top.file /\ i = Top.next /\ p = Top.pass)
      <4> HIDE DEF p
      <4> QED BY <2>1, <2>2, <2>3, <3>1, AheadFurther
    <3> QED
      BY <2>3, <2>5, <2>6, <3>2
  <2> QED
    BY <1>1, <1>2, <2>1, <2>4, <2>6, SkippedFrom
<1>6. CASE Revisit \/ Close
  <2>1. status = "loading" /\ Pop /\ UNCHANGED visited
    BY <1>6 DEF Revisit, Close
  <2>2. /\ stack' \in Seq(Frames) /\ Len(stack') = Len(stack) - 1
        /\ \A j \in 1..Len(stack) - 1 : stack'[j] = stack[j]
    BY <2>1, PoppedTop
  <2>3. \A g : Met(g) => Met(g)'
    BY <1>4, <1>6, <2>1, <2>2, MetStays DEF Revisit, Close
  <2>4. ASSUME NEW f \in visited, NEW i, NEW a,
               i \in DOMAIN content[f], a = content[f][i], Ahead(f, PassOf(a), i)
        PROVE  Ahead(f, PassOf(a), i)'
    <3> DEFINE p == PassOf(a)
    <3>1. PICK j \in DOMAIN stack : Covers(stack[j], f, p, i)
      BY <2>4 DEF Ahead
    <3>2. ~Covers(Top, f, p, i)
      <4>1. content[f] \in Seq(AxiomsOver) /\ i <= Len(content[f]) /\ i \in Nat
        BY <2>4 DEF TypeOK
      <4>2. Top.pass = "open" \/ (Top.pass = "read" /\ Top.next > Len(content[Top.file]))
        BY <1>6 DEF Revisit, Close
      <4>3. Top.next \in Nat
        BY <1>4, <2>1 DEF Frames
      <4> QED
        BY <4>1, <4>2, <4>3 DEF Covers
    <3>3. j \in DOMAIN stack' /\ stack'[j] = stack[j]
      BY <1>4, <2>1, <2>2, <3>1, <3>2
    <3> QED
      BY <3>1, <3>3 DEF Ahead, Covers
  <2> QED
    BY <1>1, <1>2, <2>1, <2>3, <2>4, SkippedFrom
<1>7. CASE Open \/ Normalized
  <2>1. PICK frame \in Frames :
          /\ stack' = [stack EXCEPT ![Len(stack)] = frame]
          /\ frame.file = Top.file /\ frame.next = 1
          /\ \/ Open /\ frame.pass = "normalize"
             \/ Normalized /\ frame.pass = "read"
    <3>1. CASE Open
      <4> DEFINE new == [Top EXCEPT !.pass = "normalize"]
      <4>1. Top.next = 1 /\ status = "loading"
        BY <1>4, <3>1 DEF Open, StackShape
      <4>2. new \in Frames /\ new.file = Top.file /\ new.next = 1 /\ new.pass = "normalize"
        BY <1>4, <4>1 DEF Frames
      <4>3. stack' = [stack EXCEPT ![Len(stack)] = new]
        BY <1>4, <3>1, <4>1 DEF Open
      <4> HIDE DEF new
      <4> QED
        BY <3>1, <4>2, <4>3
    <3>2. CASE Normalized
      <4> DEFINE new == [Frame(Top.file) EXCEPT !.pass = "read"]
      <4>1. new \in Frames /\ new.file = Top.file /\ new.next = 1 /\ new.pass = "read"
        BY <1>4, <3>2 DEF Normalized, Frame, Frames
      <4>2. stack' = [stack EXCEPT ![Len(stack)] = new]
        BY <3>2 DEF Normalized
      <4> HIDE DEF new
      <4> QED
        BY <3>2, <4>1, <4>2
    <3> QED
      BY <1>7, <3>1, <3>2
  <2>2. status = "loading" /\ Top.file \in visited'
    BY <1>4, <1>7 DEF Open, Normalized, StackShape
  <2>3. /\ stack' \in Seq(Frames) /\ Len(stack') = Len(stack) /\ stack'[Len(stack)] = frame
        /\ \A j \in 1..Len(stack) - 1 : stack'[j] = stack[j]
    BY <2>1, <2>2, TurnedTop
  <2>4. \A g : Met(g) => Met(g)'
    BY <1>2, <1>4, <2>2, <2>3, MetStays
  <2>5. DOMAIN stack' = 1..Len(stack)
    BY <2>3
  <2>6. ASSUME NEW f \in visited, NEW i, NEW a,
               i \in DOMAIN content[f], a = content[f][i], Ahead(f, PassOf(a), i)
        PROVE  Ahead(f, PassOf(a), i)'
    <3> DEFINE p == PassOf(a)
    <3>1. PICK j \in DOMAIN stack : Covers(stack[j], f, p, i)
      BY <2>6 DEF Ahead
    <3>2. i \in Nat \ {0} /\ content[f] \in Seq(AxiomsOver) /\ p \in {"normalize", "read"}
      BY <1>3, <2>6 DEF TypeOK
    <3>3. CASE j = Len(stack)
      <4>1. Covers(Top, f, p, i)
        BY <1>4, <2>2, <3>1, <3>3
      <4>2. Normalized /\ Top.pass = "normalize" /\ Top.next > Len(content[Top.file])
        BY <1>7, <4>1 DEF Open, Normalized, Covers
      <4>3. i <= Len(content[f]) /\ Top.next \in Nat
        BY <1>4, <2>2, <2>6, <3>2 DEF Frames
      <4>4. p = "read"
        BY <3>2, <4>1, <4>2, <4>3 DEF Covers
      <4>5. frame.pass = "read"
        BY <2>1, <4>2 DEF Open, Normalized
      <4>6. Covers(frame, f, p, i)
        BY <2>1, <3>2, <4>1, <4>4, <4>5 DEF Covers
      <4> QED
        BY <1>4, <2>2, <2>3, <2>5, <4>6 DEF Ahead, Covers
    <3>4. CASE j # Len(stack)
      BY <1>4, <2>2, <2>3, <2>5, <3>1, <3>4 DEF Ahead, Covers
    <3> QED
      BY <3>3, <3>4
  <2>7. ASSUME NEW f \in visited' \ visited, NEW i, NEW a,
               i \in DOMAIN content[f], a = content[f][i]
        PROVE  Ahead(f, PassOf(a), i)'
    <3>1. Open /\ f = Top.file /\ f \in Files
      BY <1>4, <1>7, <2>2 DEF Open, Normalized, Frames
    <3>2. i \in Nat \ {0} /\ PassOf(a) \in {"normalize", "read"}
      BY <2>7, <3>1 DEF TypeOK, PassOf
    <3>3. frame.pass = "normalize"
      BY <2>1, <3>1 DEF Open, Normalized
    <3>4. Covers(frame, f, PassOf(a), i)
      BY <2>1, <3>1, <3>2, <3>3 DEF Covers
    <3> QED
      BY <1>4, <2>2, <2>3, <2>5, <3>4 DEF Ahead, Covers
  <2> QED
    BY <1>1, <1>2, <2>4, <2>6, <2>7, SkippedFrom
<1>8. CASE Validate \/ Terminated \/ UNCHANGED vars
  <2>1. UNCHANGED <<stack, visited, declared, domain, content>>
    BY <1>8 DEF Validate, Terminated, vars, inputs, relations
  <2> QED
    BY <1>1, <2>1 DEF NothingSkipped, Ahead, Covers, Met, Done
<1>9. ~Unreadable
  BY DEF Unreadable
<1> QED
  BY <1>5, <1>6, <1>7, <1>8, <1>9 DEF Next

-----------------------------------------------------------------------------
(* The theorems.                                                             *)

\* The loading starts within the invariant.
LEMMA InitClosure == Init => ClosureInv
<1> SUFFICES ASSUME Init PROVE ClosureInv
  OBVIOUS
<1>1. TypeOK /\ StackShape
  BY InitTyped
<1>2. HierarchySound
  BY DEF Init, HierarchySound
<1>3. \A j \in DOMAIN stack : j = 1 /\ stack[j] = Frame(Root)
  BY DEF Init
<1>4. OnlyImported
  BY <1>1, <1>3, ImportedCloses DEF Init, OnlyImported, Frame
<1>5. NothingSkipped
  <2>1. 1 \in DOMAIN stack /\ stack[1] = Frame(Root)
    BY DEF Init
  <2> QED
    BY <2>1 DEF Init, NothingSkipped, Met, Frame
<1> QED
  BY <1>1, <1>2, <1>4, <1>5 DEF ClosureInv

\* Every step stays within it.
LEMMA StepClosure == ClosureInv /\ [Next]_vars => ClosureInv'
  BY StepTyped, SoundKept, ImportedKept, SkippedKept DEF ClosureInv

\* The invariant behind the hierarchy holds in every state.
THEOREM ClosureHolds == Spec => []ClosureInv
  BY InitClosure, StepClosure, PTL DEF Spec

\* When the loading is over, what was visited is what is imported, and what was
\* declared is what the imported documents state.
LEMMA AllIsRead ==
    ASSUME ClosureInv, Loaded
    PROVE  /\ visited = Imported
           /\ declared = Subclasses
<1>1. stack = <<>> /\ status # "failed" /\ visited \subseteq Files
  BY DEF ClosureInv, StackShape, Loaded, TypeOK
<1>2. \A f, p, i : ~Ahead(f, p, i)
  BY <1>1 DEF Ahead
<1>3. \A g : Met(g) <=> g \in visited
  BY <1>1 DEF Met
<1>4. Root \in visited /\ \A f \in visited : \A i \in DOMAIN content[f] : Done(content[f][i])
  BY <1>1, <1>2, <1>3 DEF ClosureInv, NothingSkipped
<1>5. Closed(Imports, visited)
  <2>1. ASSUME NEW f \in Files, NEW a \in Axioms(f, {"import"}), f \in visited
        PROVE  a.o \in visited
    BY <1>3, <1>4, <2>1 DEF Axioms, Done
  <2> QED
    BY <2>1 DEF Closed, Imports
<1>6. visited = Imported
  <2>1. visited \in SUBSET Documents
    BY <1>1 DEF Documents
  <2>2. Imported \subseteq visited
    BY <1>4, <1>5, <2>1 DEF Imported, Reaches
  <2> QED
    BY <2>2 DEF ClosureInv, OnlyImported
<1>7. ASSUME NEW kinds, NEW e \in Stated(kinds)
      PROVE  \E f \in visited : \E a : a \in Axioms(f, kinds) /\ e = <<a.s, a.o>>
  BY <1>6 DEF Stated
<1>8. ASSUME NEW f \in visited, NEW kinds, NEW a \in Axioms(f, kinds)
      PROVE  a.kind \in kinds /\ PairsOf(a) \subseteq declared
  BY <1>4 DEF Axioms, Done
<1>9. Stated({"sub", "equiv", "conjunct"}) \subseteq declared
  <2> SUFFICES ASSUME NEW e \in Stated({"sub", "equiv", "conjunct"}) PROVE e \in declared
    OBVIOUS
  <2>1. PICK f \in visited : \E a : a \in Axioms(f, {"sub", "equiv", "conjunct"}) /\ e = <<a.s, a.o>>
    BY <1>7
  <2>2. PICK a : a \in Axioms(f, {"sub", "equiv", "conjunct"}) /\ e = <<a.s, a.o>>
    BY <2>1
  <2> QED
    BY <1>8, <2>2 DEF PairsOf
<1>10. Turned(Stated({"equiv", "below"})) \subseteq declared
  <2> SUFFICES ASSUME NEW e \in Stated({"equiv", "below"}) PROVE <<e[2], e[1]>> \in declared
    BY DEF Turned
  <2>1. PICK f \in visited : \E a : a \in Axioms(f, {"equiv", "below"}) /\ e = <<a.s, a.o>>
    BY <1>7
  <2>2. PICK a : a \in Axioms(f, {"equiv", "below"}) /\ e = <<a.s, a.o>>
    BY <2>1
  <2> QED
    BY <1>8, <2>2 DEF PairsOf
<1> QED
  BY <1>6, <1>9, <1>10 DEF ClosureInv, OnlyImported, Subclasses

\* load_closure ends with the hierarchy that all the imported documents entail
\* together, whatever they are and however they import each other.
THEOREM LoadedAnswersDeclared == Spec => []AnswersDeclared
<1>1. ClosureInv => AnswersDeclared
  <2> SUFFICES ASSUME ClosureInv, Loaded
               PROVE  \A c, d \in Classes : IsSubclassOf(c, d) <=> Reaches(Subclasses, Classes, c, d)
    BY DEF AnswersDeclared
  <2>1. HierarchyExact
    BY SoundIsExact DEF ClosureInv
  <2> QED
    BY <2>1, AllIsRead DEF HierarchyExact
<1> QED
  BY <1>1, ClosureHolds, PTL

\* Loading fails only for want of a document, and never goes on without one.
THEOREM NeverIncomplete == Spec => []FailsWhenIncomplete
<1>1. ClosureInv => FailsWhenIncomplete
  BY AllIsRead, OntologyAssumption DEF ClosureInv, OnlyImported, TypeOK, FailsWhenIncomplete
<1> QED
  BY <1>1, ClosureHolds, PTL

-----------------------------------------------------------------------------
(* Each document is loaded by one frame.                                     *)

\* What the stack consists of after a step: what was below the top, the top
\* document in another place or pass, and documents to be opened.
LEMMA FramesAfter ==
    ASSUME TypeOK, StackShape, status = "loading", [Next]_vars
    PROVE  \A j \in DOMAIN stack' :
              \/ j \in 1..Len(stack) - 1 /\ stack'[j] = stack[j]
              \/ /\ j = Len(stack) /\ stack'[j].file = Top.file
                 /\ stack'[j].pass = "open" \/ Top.pass # "open" \/ Top.file \notin visited
              \/ stack'[j].pass = "open"
<1>1. /\ Len(stack) \in Nat \ {0} /\ Top \in Frames /\ Top = stack[Len(stack)]
      /\ DOMAIN stack = 1..Len(stack)
  BY TopTyped DEF Top, TypeOK
<1>2. CASE UNCHANGED stack
  BY <1>1, <1>2
<1>3. CASE Top.pass # "open" /\ stack' = Advanced
  <2>1. /\ stack' \in Seq(Frames) /\ Len(stack') = Len(stack) /\ stack'[Len(stack)].file = Top.file
        /\ \A j \in 1..Len(stack) - 1 : stack'[j] = stack[j]
    BY <1>1, <1>3, AdvancedTop, FurtherTyped
  <2>. QED  BY <1>1, <1>3, <2>1
<1>4. CASE Here("read", {"import"}) /\ Axiom.o \in Files /\ stack' = Append(Advanced, Frame(Axiom.o))
  <2>1. /\ stack' \in Seq(Frames) /\ Len(stack') = Len(stack) + 1
        /\ stack'[Len(stack)] = Further /\ stack'[Len(stack) + 1] = Frame(Axiom.o)
        /\ \A j \in 1..Len(stack) - 1 : stack'[j] = stack[j]
    BY <1>4, PushedTop
  <2>2. DOMAIN stack' = 1..Len(stack) + 1
    BY <1>1, <2>1
  <2>3. Top.pass = "read"
    BY <1>4 DEF Here
  <2>4. Further.file = Top.file /\ Frame(Axiom.o).pass = "open"
    BY <1>1, FurtherTyped DEF Frame
  <2>. QED  BY <1>1, <2>1, <2>2, <2>3, <2>4
<1>5. CASE Pop
  BY <1>1, <1>5, PoppedTop
<1>6. CASE Open \/ Normalized
  <2>1. PICK frame \in Frames : frame.file = Top.file /\ stack' = [stack EXCEPT ![Len(stack)] = frame]
    <3>1. CASE Open
      <4>1. [Top EXCEPT !.pass = "normalize"] \in Frames
        BY <1>1 DEF Frames
      <4>. QED  BY <1>1, <3>1, <4>1 DEF Open, Frames
    <3>2. CASE Normalized
      <4>1. [Frame(Top.file) EXCEPT !.pass = "read"] \in Frames
        BY <1>1 DEF Frame, Frames
      <4>. QED  BY <3>2, <4>1 DEF Normalized, Frame
    <3>. QED  BY <1>6, <3>1, <3>2
  <2>2. /\ stack' \in Seq(Frames) /\ Len(stack') = Len(stack) /\ stack'[Len(stack)] = frame
        /\ \A j \in 1..Len(stack) - 1 : stack'[j] = stack[j]
    BY <2>1, TurnedTop
  <2>. QED  BY <1>1, <1>6, <2>1, <2>2 DEF Open, Normalized
<1>. QED
  BY <1>2, <1>3, <1>4, <1>5, <1>6 DEF Next, Revisit, Unreadable, Normalize, NormalizeOther,
     ReadSubclass, ReadProperty, ReadDisjoint, ReadOther, ReadImport, Close, Validate, Terminated,
     vars, Here, Axiom, Advance

\* A document is opened only when no frame has it yet.
LEMMA OneFrameKept ==
    ASSUME TypeOK, StackShape, OneFramePerDocument, [Next]_vars
    PROVE  OneFramePerDocument'
<1>1. CASE status = "loading"
  <2>1. /\ Len(stack) \in Nat \ {0} /\ Top = stack[Len(stack)] /\ DOMAIN stack = 1..Len(stack)
    BY <1>1, TopTyped DEF Top, TypeOK
  <2>2. ASSUME NEW j \in DOMAIN stack', NEW k \in DOMAIN stack', stack'[j].pass # "open",
               stack'[k].pass # "open", stack'[j].file = stack'[k].file,
               j # Len(stack)
        PROVE  j = k
    <3>1. j \in 1..Len(stack) - 1 /\ stack'[j] = stack[j]
      BY <1>1, <2>2, FramesAfter
    <3>2. CASE k # Len(stack)
      <4>1. k \in 1..Len(stack) - 1 /\ stack'[k] = stack[k]
        BY <1>1, <2>2, <3>2, FramesAfter
      <4>. QED  BY <2>1, <2>2, <3>1, <4>1 DEF OneFramePerDocument
    <3>3. CASE k = Len(stack)
      <4>1. stack'[k].file = Top.file /\ (Top.pass # "open" \/ Top.file \notin visited)
        BY <1>1, <2>2, <3>3, FramesAfter
      <4>2. Top.file \in visited
        BY <2>1, <2>2, <3>1, <4>1 DEF StackShape
      <4>. QED  BY <2>1, <2>2, <3>1, <3>3, <4>1, <4>2 DEF OneFramePerDocument
    <3>. QED  BY <3>2, <3>3
  <2>. QED  BY <2>2 DEF OneFramePerDocument
<1>2. CASE status # "loading"
  <2>1. UNCHANGED stack
    BY <1>2, StepOfStack DEF StackStep, Here
  <2>. QED  BY <2>1 DEF OneFramePerDocument
<1>. QED  BY <1>1, <1>2

-----------------------------------------------------------------------------
(* What a step reads.                                                        *)

\* A frame below the top still has the i-th axiom of f to read.
Below(f, i) == \E j \in 1..Len(stack) - 1 : Covers(stack[j], f, "read", i)

\* What is ahead is ahead of the top frame or of one below it, before and after
\* a step that leaves those below alone and puts at most a document to open above.
LEMMA AheadSplit ==
    ASSUME TypeOK, StackShape, status = "loading",
           stack' \in Seq(Frames), Len(stack') >= Len(stack) - 1,
           \A j \in 1..Len(stack) - 1 : stack'[j] = stack[j],
           \A j \in DOMAIN stack' : j > Len(stack) => stack'[j].pass = "open",
           NEW f, NEW i
    PROVE  /\ Ahead(f, "read", i) <=> Below(f, i) \/ Covers(Top, f, "read", i)
           /\ Ahead(f, "read", i)' <=>
                 \/ Below(f, i)
                 \/ Len(stack) \in DOMAIN stack' /\ Covers(stack'[Len(stack)], f, "read", i)
<1>1. /\ Len(stack) \in Nat \ {0} /\ Top = stack[Len(stack)] /\ DOMAIN stack = 1..Len(stack)
      /\ DOMAIN stack' = 1..Len(stack') /\ Len(stack') \in Nat
  BY TopTyped DEF Top, TypeOK
<1>2. Ahead(f, "read", i) <=> Below(f, i) \/ Covers(Top, f, "read", i)
  BY <1>1 DEF Ahead, Below
<1>3. Ahead(f, "read", i)' <=> \E j \in DOMAIN stack' : Covers(stack'[j], f, "read", i)
  BY DEF Ahead, Covers
<1>4. ASSUME NEW j \in DOMAIN stack', j > Len(stack) PROVE ~Covers(stack'[j], f, "read", i)
  BY <1>4 DEF Covers
<1>5. Ahead(f, "read", i)' <=>
         \/ \E j \in 1..Len(stack) - 1 : Covers(stack'[j], f, "read", i)
         \/ Len(stack) \in DOMAIN stack' /\ Covers(stack'[Len(stack)], f, "read", i)
  BY <1>1, <1>3, <1>4
<1>. QED  BY <1>2, <1>5 DEF Below

\* A place has been read when its document was visited and nothing has it ahead.
LEMMA ReadPlaces ==
    /\ \A l \in ReadSoFar : l = <<l[1], l[2]>>
    /\ \A f, i : <<f, i>> \in ReadSoFar <=>
          f \in visited /\ i \in DOMAIN content[f] /\ ~Ahead(f, "read", i)
    /\ \A l \in ReadSoFar' : l = <<l[1], l[2]>>
    /\ \A f, i : <<f, i>> \in ReadSoFar' <=>
          f \in visited' /\ i \in DOMAIN content'[f] /\ ~Ahead(f, "read", i)'
<1>1. \A documents, l : l \in Positions(documents) <=>
         l = <<l[1], l[2]>> /\ l[1] \in documents /\ l[2] \in DOMAIN content[l[1]]
  BY DEF Positions
<1>2. \A documents, l : l \in Positions(documents)' <=>
         l = <<l[1], l[2]>> /\ l[1] \in documents' /\ l[2] \in DOMAIN content'[l[1]]
  BY DEF Positions
<1>. QED  BY <1>1, <1>2 DEF ReadSoFar

\* Opening a document, turning to its second pass, going through the first and
\* leaving a document read nothing.
LEMMA NothingRead ==
    ASSUME TypeOK, StackShape, [Next]_vars,
           \/ Revisit \/ Open \/ Normalize \/ NormalizeOther \/ Normalized \/ Close
           \/ Validate \/ Terminated \/ UNCHANGED vars
    PROVE  ReadSoFar' = ReadSoFar /\ UNCHANGED facts
<1>1. UNCHANGED <<content, facts>>
  BY InputsFixed DEF inputs, Revisit, Open, Normalize, NormalizeOther, Normalized, Close, Validate,
     Terminated, vars
<1>2. ASSUME NEW f, NEW i
      PROVE  /\ <<f, i>> \in ReadSoFar <=>
                   f \in visited /\ i \in DOMAIN content[f] /\ ~Ahead(f, "read", i)
             /\ <<f, i>> \in ReadSoFar' <=>
                   f \in visited' /\ i \in DOMAIN content[f] /\ ~Ahead(f, "read", i)'
  BY <1>1, ReadPlaces
<1>3. ASSUME \A f, i : <<f, i>> \in ReadSoFar' <=> <<f, i>> \in ReadSoFar
      PROVE  ReadSoFar' = ReadSoFar
  BY <1>3, ReadPlaces
<1>4. status = "loading" =>
        /\ Len(stack) \in Nat \ {0} /\ Top = stack[Len(stack)] /\ Top \in Frames
        /\ content[Top.file] \in Seq(AxiomsOver)
  BY TopTyped DEF Top
<1>5. CASE Normalize \/ NormalizeOther
  <2>1. status = "loading" /\ Top.pass = "normalize" /\ stack' = Advanced /\ UNCHANGED visited
    BY <1>5 DEF Normalize, NormalizeOther, Here, Advance
  <2>2. /\ stack' \in Seq(Frames) /\ Len(stack') = Len(stack) /\ stack'[Len(stack)] = Further
        /\ \A j \in 1..Len(stack) - 1 : stack'[j] = stack[j]
    BY <2>1, AdvancedTop
  <2>3. Further.file = Top.file /\ Further.pass = "normalize"
    BY <1>4, <2>1, FurtherTyped
  <2>4. \A f, i : Covers(Further, f, "read", i) <=> Covers(Top, f, "read", i)
    BY <2>1, <2>3 DEF Covers
  <2>5. Len(stack) \in DOMAIN stack' /\ \A j \in DOMAIN stack' : ~(j > Len(stack))
    BY <1>4, <2>1, <2>2
  <2>6. \A f, i : Ahead(f, "read", i)' <=> Ahead(f, "read", i)
    BY <1>4, <2>1, <2>2, <2>4, <2>5, AheadSplit
  <2>. QED  BY <1>1, <1>2, <1>3, <2>1, <2>6
<1>6. CASE Open
  <2> DEFINE frame == [Top EXCEPT !.pass = "normalize"]
  <2>1. /\ status = "loading" /\ Top.pass = "open" /\ Top.file \notin visited
        /\ visited' = visited \cup {Top.file}
        /\ stack' = [stack EXCEPT ![Len(stack)] = frame]
    BY <1>6 DEF Open, Top
  <2>2. frame \in Frames /\ frame.file = Top.file /\ frame.pass = "normalize"
    BY <1>4, <2>1 DEF Frames
  <2>3. /\ stack' \in Seq(Frames) /\ Len(stack') = Len(stack) /\ stack'[Len(stack)] = frame
        /\ \A j \in 1..Len(stack) - 1 : stack'[j] = stack[j]
    BY <2>1, <2>2, TurnedTop
  <2> HIDE DEF frame
  <2>0. status = "loading"
    BY <2>1
  <2>4. Len(stack) \in DOMAIN stack' /\ \A j \in DOMAIN stack' : ~(j > Len(stack))
    BY <1>4, <2>0, <2>3
  <2>5. \A f, i : ~Covers(Top, f, "read", i) /\ (Covers(frame, f, "read", i) <=> f = Top.file)
    BY <2>1, <2>2 DEF Covers
  <2>6. \A f, i : Ahead(f, "read", i)' <=> Ahead(f, "read", i) \/ f = Top.file
    BY <1>4, <2>0, <2>3, <2>4, <2>5, AheadSplit
  <2>. QED  BY <1>1, <1>2, <1>3, <2>1, <2>6
<1>7. CASE Normalized
  <2> DEFINE frame == [Frame(Top.file) EXCEPT !.pass = "read"]
  <2>1. /\ status = "loading" /\ Top.pass = "normalize" /\ UNCHANGED visited
        /\ stack' = [stack EXCEPT ![Len(stack)] = frame]
    BY <1>7 DEF Normalized, Top
  <2>2. frame \in Frames /\ frame.file = Top.file /\ frame.pass = "read" /\ frame.next = 1
    BY <1>4, <2>1 DEF Frame, Frames
  <2>3. /\ stack' \in Seq(Frames) /\ Len(stack') = Len(stack) /\ stack'[Len(stack)] = frame
        /\ \A j \in 1..Len(stack) - 1 : stack'[j] = stack[j]
    BY <2>1, <2>2, TurnedTop
  <2> HIDE DEF frame
  <2>0. status = "loading"
    BY <2>1
  <2>4. Len(stack) \in DOMAIN stack' /\ \A j \in DOMAIN stack' : ~(j > Len(stack))
    BY <1>4, <2>0, <2>3
  <2>5. ASSUME NEW f \in visited, NEW i \in DOMAIN content[f]
        PROVE  Ahead(f, "read", i)' <=> Ahead(f, "read", i)
    <3>1. i \in Nat /\ 1 <= i
      BY DEF TypeOK
    <3>2. Covers(frame, f, "read", i) <=> Covers(Top, f, "read", i)
      BY <2>1, <2>2, <3>1 DEF Covers
    <3>. QED  BY <1>4, <2>0, <2>3, <2>4, <3>2, AheadSplit
  <2>. QED  BY <1>1, <1>2, <1>3, <2>1, <2>5
<1>8. CASE Revisit \/ Close
  <2>1. status = "loading" /\ Pop /\ UNCHANGED visited
    BY <1>8 DEF Revisit, Close
  <2>2. /\ stack' \in Seq(Frames) /\ Len(stack') = Len(stack) - 1
        /\ \A j \in 1..Len(stack) - 1 : stack'[j] = stack[j]
    BY <2>1, PoppedTop
  <2>3. Len(stack) \notin DOMAIN stack' /\ \A j \in DOMAIN stack' : ~(j > Len(stack))
    BY <1>4, <2>1, <2>2
  <2>4. ASSUME NEW f \in visited, NEW i \in DOMAIN content[f]
        PROVE  Ahead(f, "read", i)' <=> Ahead(f, "read", i)
    <3>1. content[f] \in Seq(AxiomsOver) /\ i \in Nat /\ i <= Len(content[f])
      BY DEF TypeOK
    <3>2. Top.pass = "open" \/ (Top.pass = "read" /\ Top.next > Len(content[Top.file]))
      BY <1>8 DEF Revisit, Close
    <3>3. ~Covers(Top, f, "read", i)
      BY <1>4, <2>1, <3>1, <3>2 DEF Covers, Frames
    <3>. QED  BY <1>4, <2>1, <2>2, <2>3, <3>3, AheadSplit
  <2>. QED  BY <1>1, <1>2, <1>3, <2>1, <2>4
<1>9. CASE Validate \/ Terminated \/ UNCHANGED vars
  <2>1. UNCHANGED <<stack, visited>>
    BY <1>9 DEF Validate, Terminated, vars
  <2>. QED  BY <1>1, <2>1 DEF ReadSoFar, Positions, Ahead, Covers
<1>. QED  BY <1>1, <1>5, <1>6, <1>7, <1>8, <1>9

\* The second pass reads the place it has come to, which was not read before.
LEMMA OneRead ==
    ASSUME TypeOK, StackShape, OneFramePerDocument, [Next]_vars, status' # "failed",
           ReadSubclass \/ ReadProperty \/ ReadDisjoint \/ ReadOther \/ ReadImport
    PROVE  LET place == <<Top.file, Top.next>>
           IN  /\ place \notin ReadSoFar /\ ReadSoFar' = ReadSoFar \cup {place}
               /\ facts' = Append(facts, Axiom) /\ Axiom = content[Top.file][Top.next]
               /\ Axiom \in AxiomsOver
<1>1. /\ status = "loading" /\ Top.pass = "read" /\ facts' = Append(facts, Axiom)
      /\ Top.next \in DOMAIN content[Top.file] /\ Axiom = content[Top.file][Top.next]
      /\ Axiom \in AxiomsOver /\ UNCHANGED <<visited, content>>
  BY HereTyped, InputsFixed DEF ReadSubclass, ReadProperty, ReadDisjoint, ReadOther, ReadImport,
     Here, inputs
<1>2. /\ Len(stack) \in Nat \ {0} /\ Top = stack[Len(stack)] /\ Top \in Frames
      /\ DOMAIN stack = 1..Len(stack)
  BY <1>1, TopTyped DEF Top, TypeOK
<1>3. \/ stack' = Advanced
      \/ Here("read", {"import"}) /\ Axiom.o \in Files /\ stack' = Append(Advanced, Frame(Axiom.o))
  BY DEF ReadSubclass, ReadProperty, ReadDisjoint, ReadOther, ReadImport, Here, Axiom, Advance
<1>4. /\ stack' \in Seq(Frames) /\ Len(stack') >= Len(stack) /\ stack'[Len(stack)] = Further
      /\ \A j \in 1..Len(stack) - 1 : stack'[j] = stack[j]
      /\ \A j \in DOMAIN stack' : j > Len(stack) => stack'[j].pass = "open"
  <2>1. CASE stack' = Advanced
    BY <1>1, <1>2, <2>1, AdvancedTop
  <2>2. CASE /\ Here("read", {"import"}) /\ Axiom.o \in Files
             /\ stack' = Append(Advanced, Frame(Axiom.o))
    <3>1. /\ stack' \in Seq(Frames) /\ Len(stack') = Len(stack) + 1
          /\ stack'[Len(stack)] = Further /\ stack'[Len(stack) + 1] = Frame(Axiom.o)
          /\ \A j \in 1..Len(stack) - 1 : stack'[j] = stack[j]
      BY <1>1, <2>2, PushedTop
    <3>2. DOMAIN stack' = 1..Len(stack) + 1 /\ Frame(Axiom.o).pass = "open"
      BY <1>2, <3>1 DEF Frame
    <3>. QED  BY <1>2, <3>1, <3>2
  <2>. QED  BY <1>3, <2>1, <2>2
<1>5. Top.next \in Nat \ {0} /\ Further.file = Top.file /\ Further.pass = "read"
      /\ Further.next = Top.next + 1
  BY <1>1, <1>2, FurtherTyped DEF Frames
<1>6. Len(stack) \in DOMAIN stack'
  BY <1>2, <1>4
<1>7. ASSUME NEW f, NEW i \in Nat
      PROVE  /\ Ahead(f, "read", i) <=> Below(f, i) \/ (f = Top.file /\ Top.next <= i)
             /\ Ahead(f, "read", i)' <=> Below(f, i) \/ (f = Top.file /\ Top.next + 1 <= i)
  <2>1. /\ Covers(Top, f, "read", i) <=> f = Top.file /\ Top.next <= i
        /\ Covers(Further, f, "read", i) <=> f = Top.file /\ Top.next + 1 <= i
    BY <1>1, <1>5 DEF Covers
  <2>. QED  BY <1>1, <1>2, <1>4, <1>6, <2>1, AheadSplit
<1>8. \A i : ~Below(Top.file, i)
  <2> SUFFICES ASSUME NEW i, NEW j \in 1..Len(stack) - 1, Covers(stack[j], Top.file, "read", i)
               PROVE  FALSE
    BY DEF Below
  <2>1. stack[j].pass # "open" /\ stack[j].file = Top.file
    BY DEF Covers
  <2>. QED  BY <1>1, <1>2, <2>1 DEF OneFramePerDocument
<1>9. Top.file \in visited
  BY <1>1, <1>2 DEF StackShape
<1>10. ASSUME NEW f, NEW i
       PROVE  <<f, i>> \in ReadSoFar' <=>
                 <<f, i>> \in ReadSoFar \/ (f = Top.file /\ i = Top.next)
  <2>1. CASE f \in visited /\ i \in DOMAIN content[f]
    <3>1. i \in Nat
      BY <2>1 DEF TypeOK
    <3>. QED  BY <1>1, <1>5, <1>7, <1>8, <2>1, <3>1, ReadPlaces
  <2>2. CASE ~(f \in visited /\ i \in DOMAIN content[f])
    BY <1>1, <1>9, <2>2, ReadPlaces
  <2>. QED  BY <2>1, <2>2
<1>11. <<Top.file, Top.next>> \notin ReadSoFar
  BY <1>5, <1>7, ReadPlaces
<1>12. ReadSoFar' = ReadSoFar \cup {<<Top.file, Top.next>>}
  BY <1>10, ReadPlaces
<1>. QED  BY <1>1, <1>11, <1>12

-----------------------------------------------------------------------------
(* The facts are the axioms read, each as often.                             *)

\* An axiom that is neither a fact nor at any of the places is in both as often.
LEMMA Counted ==
    ASSUME NEW places, FactsAt(places), NEW a
    PROVE  Cardinality(FactsOf(a)) = Cardinality(PlacesOf(a, places))
<1> DEFINE All == {facts[k] : k \in DOMAIN facts} \cup {content[l[1]][l[2]] : l \in places}
<1>1. CASE a \in All
  BY <1>1 DEF FactsAt
<1>2. CASE a \notin All
  <2>1. FactsOf(a) = {} /\ PlacesOf(a, places) = {}
    BY <1>2 DEF FactsOf, PlacesOf
  <2>. QED  BY <2>1
<1>. QED  BY <1>1, <1>2

\* One more fact, from one more place.
LEMMA FactsGrow ==
    ASSUME NEW places, NEW place, place \notin places, FactsAt(places),
           facts \in Seq(AxiomsOver), NEW a \in AxiomsOver,
           a = content[place[1]][place[2]], facts' = Append(facts, a)
    PROVE  /\ IsFiniteSet(places \cup {place})
           /\ \A b : Cardinality(FactsOf(b)') = Cardinality(PlacesOf(b, places \cup {place}))
<1>1. IsFiniteSet(places)
  BY DEF FactsAt
<1>2. IsFiniteSet(places \cup {place})
  BY <1>1, FS_AddElement
<1>3. ASSUME NEW b
      PROVE  Cardinality(FactsOf(b)') = Cardinality(PlacesOf(b, places \cup {place}))
  <2> DEFINE F == FactsOf(b)
             P == PlacesOf(b, places)
             n == Len(facts) + 1
  <2>1. Cardinality(F) = Cardinality(P)
    BY Counted
  <2>2. DOMAIN facts = 1..Len(facts) /\ Len(facts) \in Nat /\ DOMAIN facts' = 1..n
        /\ facts'[n] = a /\ \A k \in 1..Len(facts) : facts'[k] = facts[k]
    OBVIOUS
  <2>3. IsFiniteSet(F) /\ n \notin F
    <3>1. IsFiniteSet(1..Len(facts))
      BY <2>2, FS_Interval
    <3>2. F \in SUBSET (1..Len(facts))
      BY <2>2 DEF FactsOf
    <3>. QED  BY <2>2, <3>1, <3>2, FS_Subset
  <2>4. IsFiniteSet(P) /\ place \notin P
    <3>1. P \in SUBSET places
      BY DEF PlacesOf
    <3>. QED  BY <1>1, <3>1, FS_Subset
  <2>5. CASE a = b
    <3>1. FactsOf(b)' = F \cup {n}
      BY <2>2, <2>5 DEF FactsOf
    <3>2. PlacesOf(b, places \cup {place}) = P \cup {place}
      BY <2>5 DEF PlacesOf
    <3>. HIDE DEF F, P, n
    <3>3. Cardinality(F \cup {n}) = Cardinality(F) + 1
      BY <2>3, FS_AddElement
    <3>4. Cardinality(P \cup {place}) = Cardinality(P) + 1
      BY <2>4, FS_AddElement
    <3>. QED  BY <2>1, <3>1, <3>2, <3>3, <3>4
  <2>6. CASE a # b
    <3>1. FactsOf(b)' = F
      BY <2>2, <2>6 DEF FactsOf
    <3>2. PlacesOf(b, places \cup {place}) = P
      BY <2>6 DEF PlacesOf
    <3>. QED  BY <2>1, <3>1, <3>2
  <2>. QED  BY <2>5, <2>6
<1>. QED  BY <1>2, <1>3

\* Every step keeps the count.
LEMMA FactsKept ==
    ASSUME TypeOK, StackShape, OneFramePerDocument, FactsAreRead, [Next]_vars
    PROVE  FactsAreRead'
<1>. SUFFICES ASSUME status' # "failed" PROVE FactsAt(ReadSoFar)'
  BY DEF FactsAreRead
<1>1. status # "failed" /\ UNCHANGED content
  BY StepOfStack, InputsFixed DEF StackStep, inputs
<1>2. FactsAt(ReadSoFar)
  BY <1>1 DEF FactsAreRead
<1>3. CASE ReadSubclass \/ ReadProperty \/ ReadDisjoint \/ ReadOther \/ ReadImport
  <2> DEFINE place == <<Top.file, Top.next>>
  <2>1. /\ place \notin ReadSoFar /\ ReadSoFar' = ReadSoFar \cup {place}
        /\ facts' = Append(facts, Axiom) /\ Axiom = content[Top.file][Top.next]
        /\ Axiom \in AxiomsOver
    BY <1>3, OneRead
  <2>2. Axiom = content[place[1]][place[2]] /\ facts \in Seq(AxiomsOver)
    BY <2>1 DEF TypeOK
  <2> HIDE DEF place
  <2>3. /\ IsFiniteSet(ReadSoFar \cup {place})
        /\ \A b : Cardinality(FactsOf(b)') = Cardinality(PlacesOf(b, ReadSoFar \cup {place}))
    BY <1>2, <2>1, <2>2, FactsGrow
  <2>4. \A b : PlacesOf(b, ReadSoFar)' = PlacesOf(b, ReadSoFar \cup {place})
    BY <1>1, <2>1 DEF PlacesOf
  <2>. QED  BY <2>1, <2>3, <2>4 DEF FactsAt
<1>4. CASE \/ Revisit \/ Open \/ Normalize \/ NormalizeOther \/ Normalized \/ Close
           \/ Validate \/ Terminated \/ UNCHANGED vars
  <2>1. ReadSoFar' = ReadSoFar /\ UNCHANGED facts
    BY <1>4, NothingRead
  <2>2. \A b : PlacesOf(b, ReadSoFar)' = PlacesOf(b, ReadSoFar) /\ FactsOf(b)' = FactsOf(b)
    BY <1>1, <2>1 DEF PlacesOf, FactsOf
  <2>. QED  BY <1>1, <1>2, <2>1, <2>2 DEF FactsAt
<1>5. ~Unreadable
  BY DEF Unreadable
<1>. QED  BY <1>3, <1>4, <1>5 DEF Next

-----------------------------------------------------------------------------
(* The relations say what the facts say.                                     *)

\* One more fact states one more pair, of its own kind.
LEMMA FactPairsGrow ==
    ASSUME facts \in Seq(AxiomsOver), NEW a \in AxiomsOver, facts' = Append(facts, a), NEW kinds
    PROVE  /\ a.kind \in kinds => FactPairs(kinds)' = FactPairs(kinds) \cup {<<a.s, a.o>>}
           /\ a.kind \notin kinds => FactPairs(kinds)' = FactPairs(kinds)
<1> DEFINE n == Len(facts) + 1
<1>1. DOMAIN facts = 1..Len(facts) /\ Len(facts) \in Nat /\ DOMAIN facts' = 1..n
      /\ facts'[n] = a /\ \A k \in 1..Len(facts) : facts'[k] = facts[k]
  OBVIOUS
<1>2. ASSUME NEW e
      PROVE  e \in FactPairs(kinds)' <=>
                e \in FactPairs(kinds) \/ (a.kind \in kinds /\ e = <<a.s, a.o>>)
  <2>1. /\ e \in FactPairs(kinds) <=>
              \E k \in DOMAIN facts : facts[k].kind \in kinds /\ e = <<facts[k].s, facts[k].o>>
        /\ e \in FactPairs(kinds)' <=>
              \E k \in DOMAIN facts' : facts'[k].kind \in kinds /\ e = <<facts'[k].s, facts'[k].o>>
    BY DEF FactPairs
  <2>2. n \in 1..n /\ \A k \in 1..n : k = n \/ k \in 1..Len(facts)
    BY <1>1
  <2>. HIDE DEF n
  <2>. QED  BY <1>1, <2>1, <2>2
<1>. QED  BY <1>2

\* Turning a relation with one more pair around.
LEMMA TurnedGrows ==
    ASSUME NEW R, NEW u, NEW w
    PROVE  Turned(R \cup {<<u, w>>}) = Turned(R) \cup {<<w, u>>}
<1> DEFINE pair == <<u, w>>
<1>1. pair[1] = u /\ pair[2] = w
  OBVIOUS
<1>2. \A Q, e : e \in Turned(Q) <=> \E d \in Q : e = <<d[2], d[1]>>
  BY DEF Turned
<1>. HIDE DEF pair
<1>3. \A e : e \in Turned(R \cup {pair}) <=> e \in Turned(R) \/ e = <<w, u>>
  BY <1>1, <1>2
<1>. QED  BY <1>3 DEF pair

\* The pairs of the class expressions do not change.
LEMMA SomeFixed ==
    ASSUME [Next]_vars
    PROVE  Stated({"some"})' = Stated({"some"})
<1>1. UNCHANGED content /\ Imported' = Imported
  BY InputsFixed, StatedFixed DEF inputs
<1>. QED  BY <1>1 DEF Stated, Axioms

\* Every step keeps the relations in line with the facts.
LEMMA RelationsKept ==
    ASSUME TypeOK, StackShape, OnlyImported, RelationsFollowFacts, [Next]_vars
    PROVE  RelationsFollowFacts'
<1>1. Stated({"some"})' = Stated({"some"})
  BY SomeFixed
<1>2. facts \in Seq(AxiomsOver) /\ superproperty \in SUBSET (Properties \X Properties)
  BY DEF TypeOK
<1>3. ASSUME UNCHANGED facts PROVE \A kinds : FactPairs(kinds)' = FactPairs(kinds)
  BY <1>3 DEF FactPairs
<1>4. CASE UNCHANGED <<facts, superproperty, domain, range, inverse, disjoint>>
  BY <1>1, <1>3, <1>4 DEF RelationsFollowFacts, Turned
<1>5. CASE Normalize
  <2>1. /\ status = "loading" /\ Top.next \in DOMAIN content[Top.file]
        /\ Axiom = content[Top.file][Top.next]
    BY <1>5, HereTyped DEF Normalize, Here
  <2>2. Top.file \in Imported \ {Unmapped}
    BY <2>1, TopTyped, OntologyAssumption DEF OnlyImported, Top, Frames
  <2>3. Axiom.kind = "some" => <<Axiom.s, Axiom.o>> \in Stated({"some"})
    <3>1. Axiom.kind = "some" => Axiom \in Axioms(Top.file, {"some"})
      BY <2>1 DEF Axioms
    <3>. QED  BY <2>2, <3>1 DEF Stated
  <2>4. /\ UNCHANGED <<facts, superproperty, range, inverse, disjoint>>
        /\ UNCHANGED domain \/ (Axiom.kind = "some" /\ domain' = domain \cup {<<Axiom.s, Axiom.o>>})
    BY <1>5 DEF Normalize
  <2>. QED  BY <1>1, <1>3, <2>3, <2>4 DEF RelationsFollowFacts, Turned
<1>6. CASE ReadSubclass \/ ReadProperty \/ ReadDisjoint \/ ReadOther \/ ReadImport
  <2>1. Axiom \in AxiomsOver /\ facts' = Append(facts, Axiom)
    BY <1>6, HereTyped DEF ReadSubclass, ReadProperty, ReadDisjoint, ReadOther, ReadImport
  <2> DEFINE pair == <<Axiom.s, Axiom.o>>
  <2>2. ASSUME NEW kinds
        PROVE  /\ Axiom.kind \in kinds => FactPairs(kinds)' = FactPairs(kinds) \cup {pair}
               /\ Axiom.kind \notin kinds => FactPairs(kinds)' = FactPairs(kinds)
    BY <1>2, <2>1, FactPairsGrow
  <2>3. CASE ReadSubclass \/ ReadOther \/ ReadImport
    <3>1. /\ Axiom.kind \notin {"domain", "range", "inverse", "disjoint", "subprop"}
          /\ UNCHANGED <<superproperty, domain, range, inverse, disjoint>>
      BY <2>3, HereTyped DEF ReadSubclass, ReadOther, ReadImport, relations
    <3>. QED  BY <1>1, <2>2, <3>1 DEF RelationsFollowFacts, Turned
  <2>4. CASE ReadDisjoint
    <3>1. /\ Axiom.kind = "disjoint" /\ disjoint' = disjoint \cup {pair, <<Axiom.o, Axiom.s>>}
          /\ UNCHANGED <<superproperty, domain, range, inverse>>
      BY <2>4, HereTyped DEF ReadDisjoint
    <3>2. disjoint' = FactPairs({"disjoint"})' \cup Turned(FactPairs({"disjoint"})')
      <4> DEFINE D == FactPairs({"disjoint"})
      <4>1. FactPairs({"disjoint"})' = D \cup {pair} /\ disjoint = D \cup Turned(D)
        BY <2>2, <3>1 DEF RelationsFollowFacts
      <4>. HIDE DEF D
      <4>2. Turned(D \cup {pair}) = Turned(D) \cup {<<Axiom.o, Axiom.s>>}
        BY TurnedGrows
      <4>. QED  BY <3>1, <4>1, <4>2
    <3>. QED  BY <1>1, <2>2, <3>1, <3>2 DEF RelationsFollowFacts, Turned
  <2>5. CASE ReadProperty
    <3>1. /\ Axiom.kind \in {"subprop", "domain", "range", "inverse"} /\ UNCHANGED disjoint
          /\ superproperty' = IF Axiom.kind = "subprop" THEN Add(superproperty, Axiom.s, Axiom.o)
                                                        ELSE superproperty
          /\ domain' = IF Axiom.kind = "domain" THEN domain \cup {pair} ELSE domain
          /\ range' = IF Axiom.kind = "range" THEN range \cup {pair} ELSE range
          /\ inverse' = IF Axiom.kind = "inverse" THEN inverse \cup {pair, <<Axiom.o, Axiom.s>>}
                                                  ELSE inverse
      BY <2>5, HereTyped DEF ReadProperty
    <3>2. /\ FactPairs({"domain"})' \subseteq domain'
          /\ domain' \subseteq FactPairs({"domain"})' \cup Stated({"some"})'
      BY <1>1, <2>2, <3>1 DEF RelationsFollowFacts
    <3>3. range' = FactPairs({"range"})' /\ disjoint' = FactPairs({"disjoint"})' \cup Turned(FactPairs({"disjoint"})')
      BY <2>2, <3>1 DEF RelationsFollowFacts
    <3>4. inverse' = FactPairs({"inverse"})' \cup Turned(FactPairs({"inverse"})')
      <4> DEFINE D == FactPairs({"inverse"})
      <4>1. CASE Axiom.kind = "inverse"
        <5>1. FactPairs({"inverse"})' = D \cup {pair} /\ inverse = D \cup Turned(D)
          BY <2>2, <4>1 DEF RelationsFollowFacts
        <5>. HIDE DEF D
        <5>2. Turned(D \cup {pair}) = Turned(D) \cup {<<Axiom.o, Axiom.s>>}
          BY TurnedGrows
        <5>. QED  BY <3>1, <4>1, <5>1, <5>2
      <4>2. CASE Axiom.kind # "inverse"
        <5>1. FactPairs({"inverse"})' = FactPairs({"inverse"}) /\ inverse' = inverse
          BY <2>2, <3>1, <4>2
        <5>. QED  BY <5>1 DEF RelationsFollowFacts
      <4>. QED  BY <4>1, <4>2
    <3>5. /\ FactPairs({"subprop"})' \subseteq superproperty'
          /\ \A S \in SUBSET Properties : Closed(FactPairs({"subprop"})', S) => Closed(superproperty', S)
      <4>1. CASE Axiom.kind = "subprop"
        <5>1. Axiom.s \in Properties /\ Axiom.o \in Properties
          BY <2>1, <4>1, AxiomTyped
        <5> DEFINE D == FactPairs({"subprop"})
        <5>2. D \subseteq superproperty /\ \A S \in SUBSET Properties : Closed(D, S) => Closed(superproperty, S)
          BY DEF RelationsFollowFacts
        <5>3. FactPairs({"subprop"})' = D \cup {<<Axiom.s, Axiom.o>>}
              /\ superproperty' = Add(superproperty, Axiom.s, Axiom.o)
          BY <2>2, <3>1, <4>1
        <5>. HIDE DEF D
        <5>4. /\ D \cup {<<Axiom.s, Axiom.o>>} \subseteq Add(superproperty, Axiom.s, Axiom.o)
              /\ \A S \in SUBSET Properties :
                    Closed(D \cup {<<Axiom.s, Axiom.o>>}, S) => Closed(Add(superproperty, Axiom.s, Axiom.o), S)
          BY <1>2, <5>1, <5>2, AddSound
        <5>. QED  BY <5>3, <5>4
      <4>2. CASE Axiom.kind # "subprop"
        <5>1. FactPairs({"subprop"})' = FactPairs({"subprop"}) /\ superproperty' = superproperty
          BY <2>2, <3>1, <4>2
        <5>. QED  BY <5>1 DEF RelationsFollowFacts
      <4>. QED  BY <4>1, <4>2
    <3>. QED  BY <3>2, <3>3, <3>4, <3>5 DEF RelationsFollowFacts
  <2>. QED  BY <1>6, <2>3, <2>4, <2>5
<1>. QED
  BY <1>4, <1>5, <1>6 DEF Next, Revisit, Unreadable, Open, NormalizeOther, Normalized, Close,
     Validate, Terminated, vars, relations

-----------------------------------------------------------------------------
(* The verdict, and the invariant.                                           *)

\* Whether an individual is in conflict depends on the facts and the relations.
LEMMA ConflictFixed ==
    ASSUME UNCHANGED <<given, facts, superclass, disjoint>>
    PROVE  \A x : Conflicting(x)' <=> Conflicting(x)
<1>1. Asserted' = Asserted
  BY DEF Asserted
<1>2. \A c, d : IsSubclassOf(c, d)' <=> IsSubclassOf(c, d)
  BY DEF IsSubclassOf, Reaches, Closed
<1>3. ASSUME NEW x PROVE TypesOf(x)' = TypesOf(x)
  <2> DEFINE known == UNION {{e[1], e[2]} : e \in superclass \cup disjoint}
  <2>1. known' = known
    OBVIOUS
  <2>. HIDE DEF known
  <2>2. /\ TypesOf(x) = UNION {{a[2]} \cup {c \in known : IsSubclassOf(a[2], c)} : a \in {a \in Asserted : a[1] = x}}
        /\ TypesOf(x)' = UNION {{a[2]} \cup {c \in known' : IsSubclassOf(a[2], c)'} : a \in {a \in Asserted' : a[1] = x}}
    BY DEF TypesOf, known
  <2>3. \A a : {c \in known' : IsSubclassOf(a[2], c)'} = {c \in known : IsSubclassOf(a[2], c)}
    BY <1>2, <2>1
  <2>. QED  BY <1>1, <2>2, <2>3
<1>. QED  BY <1>3 DEF Conflicting

\* A verdict is given on what was loaded, and stands.
LEMMA VerdictKept ==
    ASSUME TypeOK, StackShape, VerdictStands, [Next]_vars
    PROVE  VerdictStands'
<1>. SUFFICES ASSUME status' \in {"accepted", "rejected"}
              PROVE  status' = "rejected" <=> \E x \in Individuals : Conflicting(x)'
  BY DEF VerdictStands
<1>1. CASE Validate
  <2>1. \A x : Conflicting(x)' <=> Conflicting(x)
    BY <1>1, ConflictFixed DEF Validate, inputs, relations
  <2>. QED  BY <1>1, <2>1 DEF Validate
<1>2. CASE Terminated \/ UNCHANGED vars
  <2>1. \A x : Conflicting(x)' <=> Conflicting(x)
    BY <1>2, ConflictFixed DEF Terminated, vars, inputs, relations
  <2>2. status' = status
    BY <1>2 DEF Terminated, vars
  <2>. QED  BY <2>1, <2>2 DEF VerdictStands
<1>3. Validate \/ Terminated \/ UNCHANGED vars
  BY DEF Next, Revisit, Unreadable, Open, Normalize, NormalizeOther, Normalized, ReadSubclass, Pop,
     ReadProperty, ReadDisjoint, ReadOther, ReadImport, Close, Here
<1>. QED  BY <1>1, <1>2, <1>3

\* Before anything is read nothing is known.
LEMMA InitFacts == Init => OneFramePerDocument /\ FactsAreRead /\ RelationsFollowFacts /\ VerdictStands
<1>. SUFFICES ASSUME Init
              PROVE  OneFramePerDocument /\ FactsAreRead /\ RelationsFollowFacts /\ VerdictStands
  OBVIOUS
<1>1. OneFramePerDocument
  BY DEF Init, OneFramePerDocument
<1>2. ReadSoFar = {} /\ DOMAIN facts = {}
  BY DEF Init, ReadSoFar, Positions
<1>3. FactsAreRead
  <2>1. {facts[k] : k \in DOMAIN facts} \cup {content[l[1]][l[2]] : l \in {}} = {}
    BY <1>2
  <2>. QED  BY <1>2, <2>1, FS_EmptySet DEF FactsAreRead, FactsAt
<1>4. \A kinds : FactPairs(kinds) = {} /\ Turned(FactPairs(kinds)) = {}
  BY <1>2 DEF FactPairs, Turned
<1>5. RelationsFollowFacts
  BY <1>4 DEF Init, RelationsFollowFacts, Closed
<1>. QED  BY <1>1, <1>3, <1>5 DEF Init, VerdictStands

\* The inductive invariant of the loading and of the verdict on it holds in
\* every state (load_closure, validate_facts).
THEOREM InvariantHolds == Spec => []IInv
<1>1. Init => IInv
  BY InitClosure, InitFacts DEF IInv
<1>2. IInv /\ [Next]_vars => IInv'
  <2>1. IInv /\ [Next]_vars =>
          OneFramePerDocument' /\ FactsAreRead' /\ RelationsFollowFacts' /\ VerdictStands'
    BY OneFrameKept, FactsKept, RelationsKept, VerdictKept DEF IInv, ClosureInv
  <2>. QED  BY <2>1, StepClosure DEF IInv
<1>. QED  BY <1>1, <1>2, PTL DEF Spec

-----------------------------------------------------------------------------
(* What is known at the end.                                                 *)

\* An axiom is a fact exactly when it stands at one of the places.
LEMMA FactsWhere ==
    ASSUME TypeOK, NEW places, FactsAt(places), NEW a
    PROVE  (\E k \in DOMAIN facts : facts[k] = a) <=> (\E l \in places : content[l[1]][l[2]] = a)
<1>1. Cardinality(FactsOf(a)) = Cardinality(PlacesOf(a, places))
  BY Counted
<1>2. IsFiniteSet(FactsOf(a))
  <2>1. IsFiniteSet(1..Len(facts)) /\ FactsOf(a) \in SUBSET (1..Len(facts))
    BY FS_Interval DEF TypeOK, FactsOf
  <2>. QED  BY <2>1, FS_Subset
<1>3. IsFiniteSet(PlacesOf(a, places))
  <2>1. IsFiniteSet(places) /\ PlacesOf(a, places) \in SUBSET places
    BY DEF FactsAt, PlacesOf
  <2>. QED  BY <2>1, FS_Subset
<1>4. FactsOf(a) = {} <=> PlacesOf(a, places) = {}
  BY <1>1, <1>2, <1>3, FS_EmptySet
<1>. QED  BY <1>4 DEF FactsOf, PlacesOf

\* When the loading is over, the facts are the axioms of the imported documents.
LEMMA AllFactsRead ==
    ASSUME IInv, Loaded
    PROVE  Imported \ {Unmapped} = visited /\ FactsAt(Positions(visited))
<1>1. stack = <<>> /\ status # "failed" /\ visited \subseteq Files /\ visited = Imported
  BY AllIsRead DEF IInv, ClosureInv, StackShape, Loaded, TypeOK
<1>2. Imported \ {Unmapped} = visited
  BY <1>1, OntologyAssumption
<1>3. ReadSoFar = Positions(visited)
  BY <1>1 DEF ReadSoFar, Ahead
<1>. QED  BY <1>1, <1>2, <1>3 DEF IInv, FactsAreRead

\* The pairs among the facts are then what these documents state.
LEMMA FactsStated ==
    ASSUME IInv, Loaded, NEW kinds
    PROVE  FactPairs(kinds) = Stated(kinds)
<1>1. Imported \ {Unmapped} = visited /\ FactsAt(Positions(visited)) /\ TypeOK
  BY AllFactsRead DEF IInv, ClosureInv
<1>2. ASSUME NEW a
      PROVE  (\E k \in DOMAIN facts : facts[k] = a)
                <=> (\E f \in visited : \E i \in DOMAIN content[f] : content[f][i] = a)
  <2>1. (\E l \in Positions(visited) : content[l[1]][l[2]] = a)
            <=> (\E f \in visited : \E i \in DOMAIN content[f] : content[f][i] = a)
    <3>1. \A f \in visited : \A i \in DOMAIN content[f] : <<f, i>> \in Positions(visited)
      BY DEF Positions
    <3>2. \A l \in Positions(visited) : l[1] \in visited /\ l[2] \in DOMAIN content[l[1]]
      BY DEF Positions
    <3>3. \A f, i : <<f, i>>[1] = f /\ <<f, i>>[2] = i
      OBVIOUS
    <3>4. ASSUME NEW f \in visited, NEW i \in DOMAIN content[f], content[f][i] = a
          PROVE  \E l \in Positions(visited) : content[l[1]][l[2]] = a
      <4>1. <<f, i>> \in Positions(visited) /\ content[<<f, i>>[1]][<<f, i>>[2]] = a
        BY <3>1, <3>3, <3>4
      <4>. QED  BY <4>1
    <3>. QED  BY <3>2, <3>4
  <2>. QED  BY <1>1, <2>1, FactsWhere
<1>3. ASSUME NEW e
      PROVE  e \in FactPairs(kinds) <=>
                \E k \in DOMAIN facts : facts[k].kind \in kinds /\ e = <<facts[k].s, facts[k].o>>
  BY DEF FactPairs
<1>4. ASSUME NEW e
      PROVE  e \in Stated(kinds) <=>
                \E f \in visited : \E i \in DOMAIN content[f] :
                    content[f][i].kind \in kinds /\ e = <<content[f][i].s, content[f][i].o>>
  <2>1. e \in Stated(kinds) <=> \E f \in visited : \E a \in Axioms(f, kinds) : e = <<a.s, a.o>>
    BY <1>1 DEF Stated
  <2>. QED  BY <2>1 DEF Axioms
<1>. QED  BY <1>2, <1>3, <1>4

\* The hierarchies of the end.
LEMMA HierarchiesStated ==
    ASSUME IInv, Loaded
    PROVE  /\ \A c, d \in Classes : IsSubclassOf(c, d) <=> Reaches(Subclasses, Classes, c, d)
           /\ \A p, q : IsSubpropertyOf(p, q) <=> Reaches(Stated({"subprop"}), Properties, p, q)
<1>1. HierarchyExact
  BY SoundIsExact DEF IInv, ClosureInv
<1>2. declared = Subclasses
  BY AllIsRead DEF IInv
<1>3. \A S \in SUBSET Properties : Closed(superproperty, S) <=> Closed(Stated({"subprop"}), S)
  BY FactsStated DEF IInv, RelationsFollowFacts, Closed
<1>. QED  BY <1>1, <1>2, <1>3 DEF HierarchyExact, IsSubpropertyOf, Reaches

-----------------------------------------------------------------------------
(* The theorems.                                                             *)

\* Documents that import each other do not send load_closure into the ground,
\* and one imported along two paths, or by itself, adds its facts once.
THEOREM DocumentsReadOnce ==
    ASSUME IsFiniteSet(Files)
    PROVE  Spec => []EachDocumentOnce
<1>1. IInv => EachDocumentOnce
  <2>. SUFFICES ASSUME IInv PROVE EachDocumentOnce
    OBVIOUS
  <2>1. Len(stack) <= Cardinality(Files) + 1
    <3> DEFINE n == Len(stack)
               below == [j \in 1..n - 1 |-> stack[j].file]
    <3>1. n \in Nat /\ DOMAIN stack = 1..n /\ Cardinality(Files) \in Nat
          /\ \A j \in 1..n : stack[j] \in Frames
      BY FS_CardinalityType DEF IInv, ClosureInv, TypeOK
    <3>2. CASE n = 0
      BY <3>1, <3>2
    <3>3. CASE n # 0
      <4>1. \A j \in 1..n - 1 : stack[j].pass = "read" /\ stack[j].file \in Files /\ j \in DOMAIN stack
        BY <3>1 DEF IInv, ClosureInv, StackShape, Frames
      <4>2. \A j, k \in 1..n - 1 : stack[j].file = stack[k].file => j = k
        BY <4>1 DEF IInv, OneFramePerDocument
      <4>3. below \in Injection(1..n - 1, Files)
        BY <4>1, <4>2 DEF Injection, IsInjective
      <4>4. Cardinality(1..n - 1) <= Cardinality(Files)
        <5>. HIDE DEF below
        <5>. QED  BY <4>3, FS_Injection
      <4>5. Cardinality(1..n - 1) = n - 1
        BY <3>1, <3>3, FS_Interval
      <4>. QED  BY <3>1, <4>4, <4>5
    <3>. QED  BY <3>2, <3>3
  <2>2. Loaded => \A a : Cardinality(FactsOf(a)) = Cardinality(PlacesOf(a, Positions(Imported \ {Unmapped})))
    BY AllFactsRead, Counted
  <2>. QED  BY <2>1, <2>2 DEF EachDocumentOnce
<1>. QED  BY <1>1, InvariantHolds, PTL

\* validate_facts rejects what is loaded exactly when the facts, the documents'
\* and the given ones, put an individual into two disjoint classes.
THEOREM ConsistencyIsDecided == Spec => []ConsistencyDecided
<1>1. IInv => ConsistencyDecided
  <2>. SUFFICES ASSUME IInv, status \in {"accepted", "rejected"} PROVE ConsistencyDecided
    BY DEF ConsistencyDecided
  <2> DEFINE Types == given \cup Stated({"type"})
             IsA(x, c) == \E t \in Types : t[1] = x /\ Reaches(Subclasses, Classes, t[2], c)
  <2>1. Loaded /\ TypeOK
    BY DEF Loaded, IInv, ClosureInv
  <2>2. Asserted = Types
    BY <2>1, FactsStated DEF Asserted, FactPairs
  <2>3. \A a \in Types : a[2] \in Classes
    <3>1. \A e \in FactPairs({"type"}) : e[2] \in Classes
      <4>1. \A a \in AxiomsOver : a.kind = "type" => a.o \in Classes
        BY DEF AxiomsOver
      <4>2. \A k \in DOMAIN facts : facts[k] \in AxiomsOver
        BY <2>1 DEF TypeOK
      <4>. QED  BY <4>1, <4>2 DEF FactPairs
    <3>. QED  BY <2>1, <3>1, FactsStated DEF TypeOK
  <2>4. disjoint = Stated({"disjoint"}) \cup Turned(Stated({"disjoint"}))
        /\ disjoint \subseteq Classes \X Classes
    BY <2>1, FactsStated DEF IInv, RelationsFollowFacts, TypeOK
  <2>. HIDE DEF Types
  <2>5. ASSUME NEW x, NEW c \in Classes, \E e \in disjoint : c \in {e[1], e[2]}
        PROVE  c \in TypesOf(x) <=> IsA(x, c)
    <3>1. c \in UNION {{e[1], e[2]} : e \in superclass \cup disjoint}
      BY <2>5
    <3>2. c \in TypesOf(x) <=> \E a \in Types : a[1] = x /\ (c = a[2] \/ IsSubclassOf(a[2], c))
      BY <2>2, <3>1 DEF TypesOf
    <3>3. \A a \in Types : c = a[2] \/ IsSubclassOf(a[2], c) <=> Reaches(Subclasses, Classes, a[2], c)
      BY <2>1, <2>3, HierarchiesStated DEF Reaches
    <3>. QED  BY <3>2, <3>3
  <2>6. ASSUME NEW x
        PROVE  Conflicting(x) <=> \E e \in Stated({"disjoint"}) : IsA(x, e[1]) /\ IsA(x, e[2])
    <3>1. \A c, d : <<c, d>> \in disjoint =>
             c \in Classes /\ d \in Classes
             /\ (c \in TypesOf(x) <=> IsA(x, c)) /\ (d \in TypesOf(x) <=> IsA(x, d))
      <4>. SUFFICES ASSUME NEW c, NEW d, <<c, d>> \in disjoint
                    PROVE  c \in Classes /\ d \in Classes
                           /\ (c \in TypesOf(x) <=> IsA(x, c)) /\ (d \in TypesOf(x) <=> IsA(x, d))
        OBVIOUS
      <4> DEFINE e == <<c, d>>
      <4>1. e \in disjoint /\ e[1] = c /\ e[2] = d /\ c \in Classes /\ d \in Classes
        BY <2>4
      <4>. HIDE DEF e, IsA
      <4>. QED  BY <2>5, <4>1
    <3>. HIDE DEF IsA
    <3>2. Conflicting(x) <=> \E c, d : <<c, d>> \in disjoint /\ IsA(x, c) /\ IsA(x, d)
      BY <3>1 DEF Conflicting
    <3>3. \A e \in Stated({"disjoint"}) : e = <<e[1], e[2]>>
      BY <2>4
    <3>4. ASSUME NEW c, NEW d
          PROVE  <<c, d>> \in disjoint <=> <<c, d>> \in Stated({"disjoint"}) \/ <<d, c>> \in Stated({"disjoint"})
      BY <2>4, <3>3 DEF Turned
    <3>. QED  BY <3>2, <3>3, <3>4
  <2>7. status = "rejected" <=> \E x \in Individuals : Conflicting(x)
    BY DEF IInv, VerdictStands
  <2>. QED  BY <2>6, <2>7 DEF ConsistencyDecided, Types
<1>. QED  BY <1>1, InvariantHolds, PTL

\* The domains and ranges of the end.
LEMMA DomainsStated ==
    ASSUME IInv, Loaded
    PROVE  domain = Stated({"domain", "some"}) /\ range = Stated({"range"})
<1>1. range = Stated({"range"}) /\ FactPairs({"domain"}) = Stated({"domain"})
  BY FactsStated DEF IInv, RelationsFollowFacts
<1>2. Stated({"domain", "some"}) = Stated({"domain"}) \cup Stated({"some"})
  BY DEF Stated, Axioms
<1>3. stack = <<>> /\ status # "failed" /\ Imported \ {Unmapped} = visited
  BY AllFactsRead DEF IInv, ClosureInv, StackShape, Loaded
<1>4. \A f \in visited : \A i \in DOMAIN content[f] : Done(content[f][i])
  BY <1>3 DEF IInv, ClosureInv, NothingSkipped, Ahead
<1>5. Stated({"some"}) \subseteq domain
  <2>. SUFFICES ASSUME NEW e \in Stated({"some"}) PROVE e \in domain
    OBVIOUS
  <2>1. PICK f \in visited : \E a : a \in Axioms(f, {"some"}) /\ e = <<a.s, a.o>>
    BY <1>3 DEF Stated
  <2>2. PICK a : a \in Axioms(f, {"some"}) /\ e = <<a.s, a.o>>
    BY <2>1
  <2>3. Done(a) /\ a.kind = "some"
    BY <1>4, <2>2 DEF Axioms
  <2>. QED  BY <2>2, <2>3 DEF Done
<1>. QED  BY <1>1, <1>2, <1>5 DEF IInv, RelationsFollowFacts

\* properties_asserting_type finds every property whose assertion makes the
\* subject or the object of a class, by what all the documents declare.
THEOREM TypesAreEntailed == Spec => []TypesEntailed
<1>1. IInv => TypesEntailed
  <2>. SUFFICES ASSUME IInv, Loaded, NEW c \in Classes, NEW R, R = domain \/ R = range
                PROVE  PropertiesAssertingType(c, R)
                           = {p \in Properties : \E e \in R :
                                 /\ Reaches(Stated({"subprop"}), Properties, p, e[1])
                                 /\ Reaches(Subclasses, Classes, e[2], c)}
    BY DomainsStated DEF TypesEntailed
  <2>1. R \subseteq Properties \X Classes /\ superproperty \in SUBSET (Properties \X Properties)
    BY DEF IInv, ClosureInv, TypeOK
  <2>2. \A p, q : IsSubpropertyOf(p, q) <=> Reaches(Stated({"subprop"}), Properties, p, q)
    BY HierarchiesStated
  <2>3. \A e \in R : IsSubclassOf(e[2], c) <=> Reaches(Subclasses, Classes, e[2], c)
    BY <2>1, HierarchiesStated
  <2> DEFINE Known(p) == {p} \cup UNION {{e[1], e[2]} : e \in superproperty}
             Finds(p) == \E e \in R : IsSubpropertyOf(p, e[1]) /\ IsSubclassOf(e[2], c)
  <2>4. ASSUME NEW p \in Properties, NEW e \in R, IsSubpropertyOf(p, e[1])
        PROVE  e[1] \in Known(p) /\ p \in {d[1] : d \in R \cup superproperty}
    <3>1. CASE p = e[1]
      BY <3>1
    <3>2. CASE p # e[1]
      <4>1. e[1] \in Properties /\ Reaches(superproperty, Properties, p, e[1])
        BY <2>1, <2>4 DEF IsSubpropertyOf
      <4>2. (\E d \in superproperty : d[1] = p) /\ (\E d \in superproperty : d[2] = e[1])
        BY <2>1, <3>2, <4>1, ReachedByEdges
      <4>. QED  BY <4>2
    <3>. QED  BY <3>1, <3>2
  <2>5. \A p : {e[2] : e \in {e \in R : e[1] \in Known(p) /\ IsSubpropertyOf(p, e[1])}} = InferredTypes(p, R)
    BY DEF InferredTypes
  <2>6. \A p : p \in {d[1] : d \in R \cup superproperty} => p \in Properties
    BY <2>1
  <2>. HIDE DEF Known
  <2>7. ASSUME NEW p
        PROVE  p \in PropertiesAssertingType(c, R) <=> p \in Properties /\ Finds(p)
    <3>1. p \in PropertiesAssertingType(c, R) <=>
            /\ p \in {d[1] : d \in R \cup superproperty}
            /\ \E e \in R : e[1] \in Known(p) /\ IsSubpropertyOf(p, e[1]) /\ IsSubclassOf(e[2], c)
      BY <2>5 DEF PropertiesAssertingType
    <3>. QED  BY <2>4, <2>6, <3>1
  <2>. QED  BY <2>2, <2>3, <2>7
<1>. QED  BY <1>1, InvariantHolds, PTL
=============================================================================
