----------------------------- MODULE DataProofs -----------------------------
(***************************************************************************)
(* Lemmas about numbers, sequences and finite sets that the proofs of      *)
(* other modules rest on: induction over the numbers, what FlattenSeq and  *)
(* SetToSeq make, and which sets are finite.                               *)
(* s \in Seq(ToSet(s)) says of s that it is a sequence.                    *)
(*                                                                         *)
(* The induction theorems of the library have an operator for the          *)
(* statement to prove; Induction has the set of the numbers it holds for.  *)
(***************************************************************************)
EXTENDS Reachability, Integers, SequencesExt, FiniteSetTheorems, SequenceTheorems, WellFoundedInduction, TLAPS

(* A set of numbers has a least one.                                           *)
LEMMA LeastNumber ==
    ASSUME NEW T, T \subseteq Nat, T # {}
    PROVE \E x \in T : \A y \in T : x <= y
<1> DEFINE Below == {0..n : n \in T}
<1>1. IsWellFoundedOn(StrictSubsetOrdering(Nat), FiniteSubsetsOf(Nat))
    BY FS_StrictSubsetOrderingWellFounded, Zenon
<1>2. Below \subseteq FiniteSubsetsOf(Nat)
  <2>1. \A n \in T : IsFiniteSet(0..n) /\ 0..n \subseteq Nat
    BY FS_Interval
  <2> QED
    BY <2>1 DEF FiniteSubsetsOf
<1>3. Below # {}
    OBVIOUS
<1> HIDE DEF Below
<1>4. PICK least \in Below : \A other \in Below : ~(<<other, least>> \in StrictSubsetOrdering(Nat))
    BY <1>1, <1>2, <1>3, WFMin, Zenon
<1> USE DEF Below
<1>5. PICK x \in T : least = 0..x
    OBVIOUS
<1>6. ASSUME NEW y \in T PROVE x <= y
  <2>1. ~(<<0..y, 0..x>> \in StrictSubsetOrdering(Nat))
    BY <1>4, <1>5, <1>6
  <2>2. 0..y \subseteq 0..x => 0..y = 0..x
    BY <2>1 DEF StrictSubsetOrdering
  <2> QED
    BY <2>2
<1>. QED
    BY <1>6

(* A set that has 0, and n + 1 if it has n, has every number.                  *)
LEMMA Induction ==
    ASSUME NEW T, 0 \in T, \A n \in Nat : n \in T => n + 1 \in T
    PROVE \A n \in Nat : n \in T
<1> SUFFICES ASSUME NEW m \in Nat, m \notin T PROVE FALSE
    OBVIOUS
<1>1. PICK x \in Nat \ T : \A y \in Nat \ T : x <= y
    BY LeastNumber, Nat \ T \subseteq Nat, Nat \ T # {}
<1>2. x - 1 \in Nat /\ x - 1 \in T
    BY <1>1
<1>. QED
    BY <1>1, <1>2

-----------------------------------------------------------------------------
(* A member of a set of sequences is a sequence of its own elements.           *)
LEMMA SequenceOfItself ==
    ASSUME NEW S, NEW s \in Seq(S)
    PROVE s \in Seq(ToSet(s)) /\ ToSet(s) \subseteq S
    BY DEF ToSet

(* The elements of two sequences, one after the other.                         *)
LEMMA ConcatElements ==
    ASSUME NEW S, NEW s \in Seq(S), NEW t \in Seq(S)
    PROVE s \o t \in Seq(S) /\ ToSet(s \o t) = ToSet(s) \cup ToSet(t)
<1>1. s \o t \in Seq(S) /\ Len(s \o t) = Len(s) + Len(t)
    OBVIOUS
<1>2. ASSUME NEW x PROVE x \in ToSet(s \o t) <=> x \in ToSet(s) \/ x \in ToSet(t)
  <2>1. ASSUME x \in ToSet(s) PROVE x \in ToSet(s \o t)
    <3>1. PICK i \in 1..Len(s) : s[i] = x
        BY <2>1 DEF ToSet
    <3>2. (s \o t)[i] = x /\ i \in 1..Len(s \o t)
        BY <3>1, <1>1
    <3>. QED
        BY <3>2, <1>1 DEF ToSet
  <2>2. ASSUME x \in ToSet(t) PROVE x \in ToSet(s \o t)
    <3>1. PICK i \in 1..Len(t) : t[i] = x
        BY <2>2 DEF ToSet
    <3>2. (s \o t)[Len(s) + i] = x /\ Len(s) + i \in 1..Len(s \o t)
        BY <3>1, <1>1
    <3>. QED
        BY <3>2, <1>1 DEF ToSet
  <2>3. ASSUME x \in ToSet(s \o t) PROVE x \in ToSet(s) \/ x \in ToSet(t)
    <3>1. PICK i \in 1..Len(s \o t) : (s \o t)[i] = x
        BY <2>3, <1>1 DEF ToSet
    <3>2. CASE i <= Len(s)
      <4>1. s[i] = x /\ i \in 1..Len(s)
        BY <3>1, <3>2, <1>1
      <4>. QED
        BY <4>1 DEF ToSet
    <3>3. CASE i > Len(s)
      <4>1. t[i - Len(s)] = x /\ i - Len(s) \in 1..Len(t)
        BY <3>1, <3>3, <1>1
      <4>. QED
        BY <4>1 DEF ToSet
    <3>. QED
        BY <3>2, <3>3, <1>1
  <2>. QED
    BY <2>1, <2>2, <2>3
<1>. QED
    BY <1>1, <1>2

(* The first element of a sequence at the end of another.                      *)
LEMMA HeadMoves ==
    ASSUME NEW S, NEW s \in Seq(S), NEW u \in Seq(S), u # <<>>
    PROVE Append(s, Head(u)) \o Tail(u) = s \o u
<1>1. Head(u) \in S /\ Tail(u) \in Seq(S) /\ Len(Tail(u)) = Len(u) - 1 /\ \A i \in 1..Len(Tail(u)) : Tail(u)[i] = u[i + 1]
    BY HeadTailProperties
<1>2. Len(u) \in Nat \ {0} /\ Len(s) \in Nat
    BY EmptySeq
<1>3. PICK v \in Seq(S) : v = Tail(u)
    BY <1>1
<1>4. PICK w \in Seq(S) : w = Append(s, Head(u))
    <2>1. PICK e \in S : e = Head(u)
        BY <1>1
    <2>2. Append(s, e) \in Seq(S)
        OBVIOUS
    <2>. QED
        BY <2>1, <2>2
<1>5. Len(w) = Len(s) + 1 /\ (\A i \in 1..Len(s) : w[i] = s[i]) /\ w[Len(s) + 1] = u[1]
    BY <1>1, <1>4
<1>6. Len(v) = Len(u) - 1 /\ \A i \in 1..Len(v) : v[i] = u[i + 1]
    BY <1>1, <1>3
<1>7. w \o v \in Seq(S) /\ s \o u \in Seq(S) /\ Len(w \o v) = Len(s) + Len(u) /\ Len(s \o u) = Len(s) + Len(u)
    <2>1. w \o v \in Seq(S) /\ Len(w \o v) = Len(w) + Len(v) /\ s \o u \in Seq(S) /\ Len(s \o u) = Len(s) + Len(u)
        BY ConcatProperties
    <2>2. Len(w) + Len(v) = Len(s) + Len(u)
        BY <1>2, <1>5, <1>6
    <2>. QED
        BY <2>1, <2>2
<1>8. ASSUME NEW i \in 1..Len(s) + Len(u) PROVE (w \o v)[i] = (s \o u)[i]
    <2>1. CASE i <= Len(s)
        BY <1>2, <1>5, <1>6, <2>1
    <2>2. CASE i = Len(s) + 1
        <3>1. i \in 1..Len(w) + Len(v) /\ i <= Len(w) /\ ~(i <= Len(s)) /\ i - Len(s) = 1
            BY <1>2, <1>5, <1>6, <2>2
        <3>2. (w \o v)[i] = w[i] /\ (s \o u)[i] = u[i - Len(s)]
            BY <3>1, ConcatProperties
        <3>. QED
            BY <1>5, <2>2, <3>1, <3>2
    <2>3. CASE i > Len(s) + 1
        <3>1. (w \o v)[i] = v[i - (Len(s) + 1)] /\ (s \o u)[i] = u[i - Len(s)]
            BY <1>2, <1>5, <1>6, <2>3
        <3>2. i - (Len(s) + 1) \in 1..Len(v) /\ (i - (Len(s) + 1)) + 1 = i - Len(s)
            BY <1>2, <1>6, <2>3
        <3>. QED
            BY <1>6, <3>1, <3>2
    <2>4. i <= Len(s) \/ i = Len(s) + 1 \/ i > Len(s) + 1
        BY <1>2
    <2>. QED
        BY <2>1, <2>2, <2>3, <2>4, Zenon
<1>9. w \o v = s \o u
    BY <1>7, <1>8, SeqEqual
<1>. QED
    BY <1>3, <1>4, <1>9

-----------------------------------------------------------------------------
\* What FlattenSeq computes: the first n sequences, one after the other.
Flattens(f, ss, n) == f = [i \in 1..n |-> IF i = 1 THEN ss[i] ELSE f[i - 1] \o ss[i]]

(* Each entry of it.                                                           *)
LEMMA FlattensEntry ==
    ASSUME NEW f, NEW ss, NEW n, Flattens(f, ss, n), NEW i \in 1..n
    PROVE f[i] = IF i = 1 THEN ss[i] ELSE f[i - 1] \o ss[i]
<1> DEFINE h == [j \in 1..n |-> IF j = 1 THEN ss[j] ELSE f[j - 1] \o ss[j]]
<1>1. f = h
    BY DEF Flattens
<1>2. h[i] = IF i = 1 THEN ss[i] ELSE f[i - 1] \o ss[i]
    OBVIOUS
<1>. QED
    BY <1>1, <1>2

(* There is such a function for every n.                                       *)
LEMMA FlattenExists ==
    ASSUME NEW ss
    PROVE \A n \in Nat : \E f : Flattens(f, ss, n)
<1> DEFINE T == {n \in Nat : \E f : Flattens(f, ss, n)}
<1>1. 0 \in T
  <2>1. Flattens([i \in 1..0 |-> ss[i]], ss, 0)
    BY DEF Flattens
  <2>. QED
    BY <2>1
<1>2. ASSUME NEW n \in Nat, n \in T PROVE n + 1 \in T
  <2>1. PICK f : Flattens(f, ss, n)
    BY <1>2
  <2> DEFINE g == [i \in 1..n + 1 |-> IF i <= n THEN f[i] ELSE IF i = 1 THEN ss[i] ELSE f[i - 1] \o ss[i]]
  <2>2. ASSUME NEW i \in 1..n + 1 PROVE g[i] = IF i = 1 THEN ss[i] ELSE g[i - 1] \o ss[i]
    <3>1. CASE i = n + 1
        BY <3>1
    <3>2. CASE i <= n
      <4>1. f[i] = IF i = 1 THEN ss[i] ELSE f[i - 1] \o ss[i]
        BY <3>2, <2>1, FlattensEntry
      <4>. QED
        BY <4>1, <3>2
    <3>. QED
        BY <3>1, <3>2
  <2>3. g = [i \in 1..n + 1 |-> IF i = 1 THEN ss[i] ELSE g[i - 1] \o ss[i]]
    <3> HIDE DEF g
    <3>1. g = [i \in 1..n + 1 |-> g[i]]
        BY DEF g
    <3>. QED
        BY <3>1, <2>2
  <2> HIDE DEF g
  <2>4. Flattens(g, ss, n + 1)
    BY <2>3 DEF Flattens
  <2>. QED
    BY <2>4
<1> HIDE DEF T
<1>3. \A n \in Nat : n \in T
    BY <1>1, <1>2, Induction
<1>. QED
    BY <1>3 DEF T

(* Sequences of a set make a sequence of it, with the elements of them all.    *)
LEMMA FlattenElements ==
    ASSUME NEW S, NEW ss \in Seq(Seq(S))
    PROVE FlattenSeq(ss) \in Seq(S) /\ ToSet(FlattenSeq(ss)) = UNION {ToSet(ss[i]) : i \in DOMAIN ss}
<1>1. CASE Len(ss) = 0
  <2>1. FlattenSeq(ss) = <<>> /\ ss = <<>>
    BY <1>1 DEF FlattenSeq
  <2>. QED
    BY <2>1 DEF ToSet
<1>2. CASE Len(ss) # 0
  <2> DEFINE f == CHOOSE f : Flattens(f, ss, Len(ss))
  <2>1. FlattenSeq(ss) = f[Len(ss)]
    BY <1>2 DEF FlattenSeq, Flattens
  <2>2. Flattens(f, ss, Len(ss))
    <3>1. Len(ss) \in Nat
        OBVIOUS
    <3>2. \E g : Flattens(g, ss, Len(ss))
        BY <3>1, FlattenExists
    <3>. QED
        BY <3>2, Zenon
  <2> HIDE DEF f
  <2>3. ASSUME NEW i \in 1..Len(ss) PROVE f[i] = IF i = 1 THEN ss[i] ELSE f[i - 1] \o ss[i]
    BY <2>2, FlattensEntry
  <2> DEFINE T == {n \in Nat : n \in 1..Len(ss) =>
                        f[n] \in Seq(S) /\ ToSet(f[n]) = UNION {ToSet(ss[i]) : i \in 1..n}}
  <2>4. 0 \in T
    OBVIOUS
  <2>5. ASSUME NEW n \in Nat, n \in T PROVE n + 1 \in T
    <3> SUFFICES ASSUME n + 1 \in 1..Len(ss)
                 PROVE f[n + 1] \in Seq(S) /\ ToSet(f[n + 1]) = UNION {ToSet(ss[i]) : i \in 1..n + 1}
        OBVIOUS
    <3>1. ss[n + 1] \in Seq(S)
        OBVIOUS
    <3>2. CASE n = 0
        BY <3>1, <3>2, <2>3
    <3>3. CASE n # 0
      <4>1. f[n] \in Seq(S) /\ ToSet(f[n]) = UNION {ToSet(ss[i]) : i \in 1..n}
        BY <3>3, <2>5
      <4>2. f[n + 1] = f[n] \o ss[n + 1]
        <5> HIDE DEF T
        <5>1. n + 1 # 1 /\ (n + 1) - 1 = n
            BY <3>3
        <5>2. f[n + 1] = IF n + 1 = 1 THEN ss[n + 1] ELSE f[(n + 1) - 1] \o ss[n + 1]
            BY <2>3, Zenon
        <5>. QED
            BY <5>1, <5>2, Zenon
      <4>3. f[n + 1] \in Seq(S) /\ ToSet(f[n + 1]) = ToSet(f[n]) \cup ToSet(ss[n + 1])
        BY <4>1, <4>2, <3>1, ConcatElements
      <4>4. 1..n + 1 = (1..n) \cup {n + 1}
        OBVIOUS
      <4>. QED
        BY <4>1, <4>3, <4>4
    <3>. QED
        BY <3>2, <3>3
  <2> HIDE DEF T
  <2>6. \A n \in Nat : n \in T
    BY <2>4, <2>5, Induction
  <2>7. Len(ss) \in T /\ Len(ss) \in 1..Len(ss) /\ DOMAIN ss = 1..Len(ss)
    BY <2>6, <1>2
  <2>. QED
    BY <2>7, <2>1 DEF T
<1>. QED
    BY <1>1, <1>2

\* A sequence is part of another, k elements after its beginning.
LiesAt(part, whole, k) ==
    k \in 0..Len(whole) - Len(part) /\ \A j \in 1..Len(part) : whole[k + j] = part[j]

(* Parts of a sequence, and that which follows it, are parts of the two.       *)
LEMMA LiesInConcat ==
    ASSUME NEW S, NEW s \in Seq(S), NEW u \in Seq(S)
    PROVE /\ LiesAt(u, s \o u, Len(s))
          /\ \A part \in Seq(S) : \A k : LiesAt(part, s, k) => LiesAt(part, s \o u, k)
<1>1. s \o u \in Seq(S) /\ Len(s \o u) = Len(s) + Len(u) /\ Len(s) \in Nat /\ Len(u) \in Nat
    BY ConcatProperties, LenProperties
<1>2. \A i \in 1..Len(s) + Len(u) : (s \o u)[i] = IF i <= Len(s) THEN s[i] ELSE u[i - Len(s)]
    BY ConcatProperties
<1> DEFINE w == s \o u
<1> HIDE DEF w
<1>3. LiesAt(u, w, Len(s))
    <2>1. Len(s) \in 0..Len(w) - Len(u)
        BY <1>1 DEF w
    <2>2. ASSUME NEW j \in 1..Len(u) PROVE w[Len(s) + j] = u[j]
        <3>1. Len(s) + j \in 1..Len(s) + Len(u) /\ ~(Len(s) + j <= Len(s)) /\ (Len(s) + j) - Len(s) = j
            BY <1>1
        <3>. QED
            BY <1>2, <3>1 DEF w
    <2>. QED
        BY <2>1, <2>2 DEF LiesAt
<1>4. ASSUME NEW part \in Seq(S), NEW k, LiesAt(part, s, k)
      PROVE LiesAt(part, w, k)
    <2>1. k \in 0..Len(s) - Len(part) /\ Len(part) \in Nat
        BY <1>4, LenProperties DEF LiesAt
    <2>2. k \in 0..Len(w) - Len(part)
        BY <1>1, <2>1 DEF w
    <2>3. ASSUME NEW j \in 1..Len(part) PROVE w[k + j] = part[j]
        <3>1. k + j \in 1..Len(s) + Len(u) /\ k + j <= Len(s)
            BY <1>1, <2>1
        <3>2. w[k + j] = s[k + j]
            BY <1>2, <3>1 DEF w
        <3>. QED
            BY <1>4, <3>2 DEF LiesAt
    <2>. QED
        BY <2>2, <2>3 DEF LiesAt
<1>. QED
    BY <1>3, <1>4 DEF w

(* Where the sequences lie that FlattenSeq puts one after the other, and that   *)
(* there is nothing else.                                                      *)
LEMMA FlattenPlaces ==
    ASSUME NEW S, NEW ss \in Seq(Seq(S))
    PROVE /\ \A i \in DOMAIN ss : \E k : LiesAt(ss[i], FlattenSeq(ss), k)
          /\ \A m \in DOMAIN FlattenSeq(ss) :
                \E i \in DOMAIN ss : \E k : LiesAt(ss[i], FlattenSeq(ss), k) /\ m \in k + 1..k + Len(ss[i])
<1>1. CASE Len(ss) = 0
  <2>1. FlattenSeq(ss) = <<>> /\ ss = <<>>
    BY <1>1 DEF FlattenSeq
  <2>. QED
    BY <2>1
<1>2. CASE Len(ss) # 0
  <2> DEFINE f == CHOOSE f : Flattens(f, ss, Len(ss))
  <2>1. FlattenSeq(ss) = f[Len(ss)]
    BY <1>2 DEF FlattenSeq, Flattens
  <2>2. Flattens(f, ss, Len(ss))
    <3>1. Len(ss) \in Nat
        OBVIOUS
    <3>2. \E g : Flattens(g, ss, Len(ss))
        BY <3>1, FlattenExists
    <3>. QED
        BY <3>2, Zenon
  <2> HIDE DEF f
  <2>3. ASSUME NEW i \in 1..Len(ss) PROVE f[i] = IF i = 1 THEN ss[i] ELSE f[i - 1] \o ss[i]
    BY <2>2, FlattensEntry
  <2> DEFINE Placed(n) ==
                /\ f[n] \in Seq(S)
                /\ \A i \in 1..n : \E k : LiesAt(ss[i], f[n], k)
                /\ \A m \in 1..Len(f[n]) : \E i \in 1..n : \E k : LiesAt(ss[i], f[n], k) /\ m \in k + 1..k + Len(ss[i])
             T == {n \in Nat : n \in 1..Len(ss) => Placed(n)}
  <2>4. 0 \in T
    OBVIOUS
  <2>5. ASSUME NEW n \in Nat, n \in T PROVE n + 1 \in T
    <3> SUFFICES ASSUME n + 1 \in 1..Len(ss)
                 PROVE Placed(n + 1)
        OBVIOUS
    <3>1. PICK u \in Seq(S) : u = ss[n + 1]
        OBVIOUS
    <3>2. Len(u) \in Nat
        BY LenProperties
    <3>3. CASE n = 0
      <4>1. f[1] = u
        BY <2>3, <3>1, <3>3
      <4>2. LiesAt(u, u, 0)
        BY <3>2 DEF LiesAt
      <4>3. \A m \in 1..Len(u) : m \in 0 + 1..0 + Len(u)
        BY <3>2
      <4>4. n + 1 = 1 /\ 1 \in 1..1 /\ \A i \in 1..1 : i = 1
        BY <3>3
      <4> HIDE DEF T
      <4>5. f[1] \in Seq(S) /\ ss[1] = u
        BY <3>1, <3>3, <4>1
      <4>. QED
        BY <4>1, <4>2, <4>3, <4>4, <4>5
    <3>4. CASE n # 0
      <4>1. n \in 1..Len(ss) /\ Placed(n)
        BY <3>4, <2>5
      <4>2. PICK v \in Seq(S) : v = f[n]
        BY <4>1
      <4>3. PICK w : w = f[n + 1]
        OBVIOUS
      <4>4. w = v \o u
        <5> HIDE DEF T, Placed
        <5>1. n + 1 # 1 /\ (n + 1) - 1 = n
            BY <3>4
        <5>2. f[n + 1] = IF n + 1 = 1 THEN ss[n + 1] ELSE f[(n + 1) - 1] \o ss[n + 1]
            BY <2>3, Zenon
        <5>. QED
            BY <5>1, <5>2, <4>2, <4>3, <3>1, Zenon
      <4>5. w \in Seq(S) /\ Len(w) = Len(v) + Len(u) /\ Len(v) \in Nat
        BY <4>4, ConcatProperties, LenProperties
      <4>6. LiesAt(u, w, Len(v)) /\ \A part \in Seq(S) : \A k : LiesAt(part, v, k) => LiesAt(part, w, k)
        BY <4>4, LiesInConcat
      <4>7. ASSUME NEW i \in 1..n + 1 PROVE \E k : LiesAt(ss[i], w, k)
        <5>1. CASE i = n + 1
            BY <5>1, <3>1, <4>6
        <5>2. CASE i # n + 1
          <6>1. i \in 1..n /\ ss[i] \in Seq(S)
            BY <5>2, <4>1
          <6>2. PICK k : LiesAt(ss[i], v, k)
            BY <4>1, <4>2, <6>1
          <6>. QED
            BY <4>6, <6>1, <6>2
        <5>. QED
            BY <5>1, <5>2
      <4>8. ASSUME NEW m \in 1..Len(w) PROVE \E i \in 1..n + 1 : \E k : LiesAt(ss[i], w, k) /\ m \in k + 1..k + Len(ss[i])
        <5>1. CASE m <= Len(v)
          <6>1. m \in 1..Len(v)
            BY <4>5, <5>1
          <6>2. PICK i \in 1..n : \E k : LiesAt(ss[i], v, k) /\ m \in k + 1..k + Len(ss[i])
            BY <4>1, <4>2, <6>1
          <6>3. PICK k : LiesAt(ss[i], v, k) /\ m \in k + 1..k + Len(ss[i])
            BY <6>2
          <6>4. ss[i] \in Seq(S) /\ i \in 1..n + 1
            BY <4>1
          <6>. QED
            BY <4>6, <6>3, <6>4
        <5>2. CASE m > Len(v)
          <6>1. m \in Len(v) + 1..Len(v) + Len(ss[n + 1])
            BY <3>1, <3>2, <4>5, <5>2
          <6>2. LiesAt(ss[n + 1], w, Len(v)) /\ n + 1 \in 1..n + 1
            BY <3>1, <4>6
          <6>. QED
            BY <6>1, <6>2
        <5>. QED
            BY <5>1, <5>2, <4>5
      <4> HIDE DEF T
      <4>. QED
        BY <4>3, <4>5, <4>7, <4>8
    <3>. QED
        BY <3>3, <3>4
  <2> HIDE DEF T
  <2>6. \A n \in Nat : n \in T
    BY <2>4, <2>5, Induction
  <2>7. Len(ss) \in T /\ Len(ss) \in 1..Len(ss) /\ DOMAIN ss = 1..Len(ss)
    BY <2>6, <1>2
  <2>8. Placed(Len(ss))
    BY <2>7 DEF T
  <2>9. DOMAIN f[Len(ss)] = 1..Len(f[Len(ss)])
    BY <2>8, LenProperties
  <2>. QED
    BY <2>1, <2>7, <2>8, <2>9
<1>. QED
    BY <1>1, <1>2

\* part and place say of each entry of flat which of the first n sequences of ss
\* it is an entry of, and of which place of it.
Splits(part, place, flat, ss, n) ==
    /\ part \in [DOMAIN flat -> 1..n] /\ place \in [DOMAIN flat -> Nat]
    /\ \A m \in DOMAIN flat : place[m] \in DOMAIN ss[part[m]] /\ flat[m] = ss[part[m]][place[m]]
    /\ \A m, o \in DOMAIN flat : part[m] = part[o] /\ place[m] = place[o] => m = o
    /\ \A i \in 1..n : \A j \in DOMAIN ss[i] : \E m \in DOMAIN flat : part[m] = i /\ place[m] = j

(* One sequence more.                                                          *)
LEMMA SplitsGrow ==
    ASSUME NEW S, NEW ss \in Seq(Seq(S)), NEW n \in Nat, n + 1 \in DOMAIN ss,
           NEW v \in Seq(S), NEW part, NEW place, Splits(part, place, v, ss, n)
    PROVE \E further, within : Splits(further, within, v \o ss[n + 1], ss, n + 1)
<1>1. PICK u \in Seq(S) : u = ss[n + 1]
    OBVIOUS
<1>2. PICK w \in Seq(S) : w = v \o u
    BY ConcatProperties
<1>3. Len(w) = Len(v) + Len(u) /\ Len(v) \in Nat /\ Len(u) \in Nat
    BY <1>2, ConcatProperties, LenProperties
<1>4. DOMAIN w = 1..Len(v) + Len(u) /\ DOMAIN v = 1..Len(v) /\ DOMAIN u = 1..Len(u)
    BY <1>3, LenProperties
<1>5. \A m \in 1..Len(v) + Len(u) : w[m] = IF m <= Len(v) THEN v[m] ELSE u[m - Len(v)]
    BY <1>2, ConcatProperties
<1>6. /\ part \in [DOMAIN v -> 1..n] /\ place \in [DOMAIN v -> Nat]
      /\ \A m \in DOMAIN v : place[m] \in DOMAIN ss[part[m]] /\ v[m] = ss[part[m]][place[m]]
      /\ \A m, o \in DOMAIN v : part[m] = part[o] /\ place[m] = place[o] => m = o
      /\ \A i \in 1..n : \A j \in DOMAIN ss[i] : \E m \in DOMAIN v : part[m] = i /\ place[m] = j
    BY DEF Splits
<1> DEFINE further == [m \in DOMAIN w |-> IF m <= Len(v) THEN part[m] ELSE n + 1]
           within == [m \in DOMAIN w |-> IF m <= Len(v) THEN place[m] ELSE m - Len(v)]
<1>7. ASSUME NEW m \in DOMAIN w
      PROVE /\ m <= Len(v) => m \in DOMAIN v /\ further[m] = part[m] /\ within[m] = place[m] /\ w[m] = v[m]
            /\ ~(m <= Len(v)) => /\ further[m] = n + 1 /\ within[m] = m - Len(v)
                                 /\ m - Len(v) \in 1..Len(u) /\ w[m] = u[m - Len(v)]
    BY <1>3, <1>4, <1>5
<1>8. \A m \in DOMAIN w : further[m] \in 1..n + 1 /\ within[m] \in Nat
    BY <1>6, <1>7
<1>9. further \in [DOMAIN w -> 1..n + 1] /\ within \in [DOMAIN w -> Nat]
    BY <1>8
<1> HIDE DEF further, within
<1>10. ASSUME NEW m \in DOMAIN w PROVE within[m] \in DOMAIN ss[further[m]] /\ w[m] = ss[further[m]][within[m]]
    <2>1. CASE m <= Len(v)
        BY <1>6, <1>7, <2>1
    <2>2. CASE ~(m <= Len(v))
        <3>1. further[m] = n + 1 /\ within[m] = m - Len(v) /\ m - Len(v) \in DOMAIN u /\ w[m] = u[m - Len(v)]
            BY <1>4, <1>7, <2>2
        <3>. QED
            BY <1>1, <3>1
    <2>. QED
        BY <2>1, <2>2
<1>11. ASSUME NEW m \in DOMAIN w, NEW o \in DOMAIN w, further[m] = further[o], within[m] = within[o]
       PROVE m = o
    <2>1. CASE m <= Len(v) /\ o <= Len(v)
        BY <1>6, <1>7, <1>11, <2>1
    <2>2. CASE ~(m <= Len(v)) /\ ~(o <= Len(v))
        BY <1>3, <1>4, <1>7, <1>11, <2>2
    <2>3. CASE (m <= Len(v)) # (o <= Len(v))
        BY <1>6, <1>7, <1>11, <2>3
    <2>. QED
        BY <2>1, <2>2, <2>3
<1>12. ASSUME NEW i \in 1..n + 1, NEW j \in DOMAIN ss[i]
       PROVE \E m \in DOMAIN w : further[m] = i /\ within[m] = j
    <2>1. CASE i = n + 1
        <3>1. j \in 1..Len(u)
            BY <1>1, <1>4, <2>1
        <3>2. PICK m : m = Len(v) + j
            OBVIOUS
        <3>3. m \in DOMAIN w /\ ~(m <= Len(v)) /\ m - Len(v) = j
            BY <1>3, <1>4, <3>1, <3>2
        <3>. QED
            BY <1>7, <2>1, <3>3
    <2>2. CASE i # n + 1
        <3>1. i \in 1..n
            BY <2>2
        <3>2. PICK m \in DOMAIN v : part[m] = i /\ place[m] = j
            BY <1>6, <3>1
        <3>3. m \in DOMAIN w /\ m <= Len(v)
            BY <1>3, <1>4, <3>2
        <3>. QED
            BY <1>7, <3>2, <3>3
    <2>. QED
        BY <2>1, <2>2
<1>13. Splits(further, within, w, ss, n + 1)
    BY <1>9, <1>10, <1>11, <1>12 DEF Splits
<1>. QED
    BY <1>1, <1>2, <1>13

(* The entries of the sequences FlattenSeq puts one after the other are the    *)
(* entries of what it makes, each once.                                        *)
LEMMA FlattenSplits ==
    ASSUME NEW S, NEW ss \in Seq(Seq(S))
    PROVE \E part, place : Splits(part, place, FlattenSeq(ss), ss, Len(ss))
<1>0. Len(ss) \in Nat /\ DOMAIN ss = 1..Len(ss)
    BY LenProperties
<1>1. Splits(<<>>, <<>>, <<>>, ss, 0)
    BY DEF Splits
<1>2. CASE Len(ss) = 0
  <2>1. FlattenSeq(ss) = <<>>
    BY <1>2 DEF FlattenSeq
  <2>. QED
    BY <1>1, <1>2, <2>1
<1>3. CASE Len(ss) # 0
  <2> DEFINE f == CHOOSE f : Flattens(f, ss, Len(ss))
  <2>1. FlattenSeq(ss) = f[Len(ss)]
    BY <1>3 DEF FlattenSeq, Flattens
  <2>2. Flattens(f, ss, Len(ss))
    BY <1>0, FlattenExists
  <2> HIDE DEF f
  <2>3. ASSUME NEW i \in 1..Len(ss) PROVE f[i] = IF i = 1 THEN ss[i] ELSE f[i - 1] \o ss[i]
    BY <2>2, FlattensEntry
  <2> DEFINE Split(n) == f[n] \in Seq(S) /\ \E part, place : Splits(part, place, f[n], ss, n)
             T == {n \in Nat : n \in 1..Len(ss) => Split(n)}
  <2>4. 0 \in T
    OBVIOUS
  <2>5. ASSUME NEW n \in Nat, n \in T PROVE n + 1 \in T
    <3> SUFFICES ASSUME n + 1 \in 1..Len(ss) PROVE Split(n + 1)
        OBVIOUS
    <3>1. n + 1 \in DOMAIN ss /\ ss[n + 1] \in Seq(S)
        BY <1>0
    <3>2. CASE n = 0
        <4>1. f[1] = ss[1]
            BY <2>3, <3>2
        <4>2. <<>> \in Seq(S) /\ <<>> \o ss[1] = ss[1]
            BY <3>1, <3>2
        <4>3. \E part, place : Splits(part, place, <<>> \o ss[n + 1], ss, n + 1)
            BY <1>1, <3>1, <3>2, <4>2, SplitsGrow
        <4>. QED
            BY <3>1, <3>2, <4>1, <4>2, <4>3
    <3>3. CASE n # 0
        <4>1. n \in 1..Len(ss) /\ Split(n)
            BY <1>0, <3>3, <2>5
        <4>2. f[n + 1] = f[n] \o ss[n + 1]
            <5> HIDE DEF T, Split
            <5>1. n + 1 # 1 /\ (n + 1) - 1 = n
                BY <3>3
            <5>2. f[n + 1] = IF n + 1 = 1 THEN ss[n + 1] ELSE f[(n + 1) - 1] \o ss[n + 1]
                BY <2>3, Zenon
            <5>. QED
                BY <5>1, <5>2, Zenon
        <4>3. PICK part, place : Splits(part, place, f[n], ss, n)
            BY <4>1
        <4>4. f[n] \o ss[n + 1] \in Seq(S)
            BY <3>1, <4>1, ConcatProperties
        <4>5. \E further, within : Splits(further, within, f[n] \o ss[n + 1], ss, n + 1)
            BY <3>1, <4>1, <4>3, SplitsGrow
        <4>. QED
            BY <4>2, <4>4, <4>5
    <3>. QED
        BY <3>2, <3>3
  <2> HIDE DEF T
  <2>6. \A n \in Nat : n \in T
    BY <2>4, <2>5, Induction
  <2>7. Len(ss) \in 1..Len(ss)
    BY <1>0, <1>3
  <2>8. Split(Len(ss))
    BY <1>0, <2>6, <2>7 DEF T
  <2>. QED
    BY <2>1, <2>8
<1>. QED
    BY <1>2, <1>3

(* SetToSeq lists the elements of a finite set.                                *)
LEMMA SetToSeqElements ==
    ASSUME NEW S, IsFiniteSet(S)
    PROVE SetToSeq(S) \in Seq(S) /\ ToSet(SetToSeq(S)) = S
<1> DEFINE N == 1..Cardinality(S)
           s == SetToSeq(S)
<1>1. Cardinality(S) \in Nat /\ ExistsBijection(N, S) /\ Cardinality(N) = Cardinality(S)
  <2>1. Cardinality(S) \in Nat /\ ExistsBijection(N, S)
    BY FS_CardinalityType
  <2>. QED
    BY <2>1, FS_Interval
<1>2. PICK g : g \in [N -> S] /\ IsInjective(g)
    BY <1>1, Zenon DEF ExistsBijection, Bijection, Injection
<1>3. s \in [N -> S] /\ IsInjective(s)
    BY <1>2, Zenon DEF SetToSeq
<1> HIDE DEF s
<1>4. s \in Surjection(N, S)
  <2>1. s \in Injection(N, S)
    BY <1>3, Zenon DEF Injection
  <2>. QED
    BY <2>1, <1>1, FS_Injection
<1>5. s \in Seq(S) /\ DOMAIN s = N
    BY <1>1, <1>3
<1>6. \A y \in S : \E i \in N : s[i] = y
    BY <1>4, Zenon DEF Surjection
<1>. QED
    BY <1>3, <1>5, <1>6 DEF ToSet, s

-----------------------------------------------------------------------------
(* Finite sets.                                                              *)

(* What is made of a finite set is finite.                                     *)
LEMMA FiniteImage ==
    ASSUME NEW S, IsFiniteSet(S), NEW f
    PROVE IsFiniteSet({f[x] : x \in S})
<1> DEFINE T == {f[x] : x \in S}
           g == [x \in S |-> f[x]]
<1>1. g \in Surjection(S, T)
    BY DEF Surjection
<1>. QED
    BY <1>1, FS_Surjection

(* Finitely many finite sets have a finite union.                              *)
LEMMA FiniteUnion ==
    ASSUME NEW S, IsFiniteSet(S), NEW f, \A x \in S : IsFiniteSet(f[x])
    PROVE IsFiniteSet(UNION {f[x] : x \in S})
<1>1. PICK n \in Nat : ExistsBijection(1..n, S)
    BY FS_NatBijection
<1>2. PICK g \in Bijection(1..n, S) : TRUE
    BY <1>1 DEF ExistsBijection
<1>3. g \in [1..n -> S] /\ \A x \in S : \E i \in 1..n : g[i] = x
    BY <1>2 DEF Bijection, Surjection, Injection
<1> DEFINE U(k) == UNION {f[g[i]] : i \in 1..k}
           T == {k \in Nat : k <= n => IsFiniteSet(U(k))}
<1>4. 0 \in T
    <2>1. U(0) = {}
        OBVIOUS
    <2>. QED
        BY <2>1, FS_EmptySet
<1>5. ASSUME NEW k \in Nat, k \in T
      PROVE k + 1 \in T
    <2> SUFFICES ASSUME k + 1 <= n
                 PROVE IsFiniteSet(U(k + 1))
        OBVIOUS
    <2>1. IsFiniteSet(U(k)) /\ IsFiniteSet(f[g[k + 1]])
        BY <1>3, <1>5
    <2>2. 1..(k + 1) = 1..k \cup {k + 1}
        OBVIOUS
    <2>3. U(k + 1) = (U(k)) \cup (f[g[k + 1]])
        BY <2>2
    <2> HIDE DEF U
    <2>4. IsFiniteSet((U(k)) \cup (f[g[k + 1]]))
        BY <2>1, FS_Union
    <2>. QED
        BY <2>3, <2>4
<1> HIDE DEF T
<1>6. n \in T
    BY <1>4, <1>5, Induction
<1>7. UNION {f[x] : x \in S} = U(n)
    BY <1>3
<1>8. IsFiniteSet(U(n))
    <2> HIDE DEF U
    <2>1. n <= n
        OBVIOUS
    <2>. QED
        BY <1>6, <2>1 DEF T
<1>. QED
    BY <1>7, <1>8, Zenon

(* A sequence has finitely many elements.                                      *)
LEMMA FiniteElements ==
    ASSUME NEW S, NEW s \in Seq(S)
    PROVE IsFiniteSet(ToSet(s)) /\ IsFiniteSet(DOMAIN s)
<1>1. DOMAIN s = 1..Len(s) /\ Len(s) \in Nat
    OBVIOUS
<1>2. IsFiniteSet(1..Len(s))
    BY <1>1, FS_Interval
<1>3. IsFiniteSet({s[i] : i \in 1..Len(s)})
    BY <1>2, FiniteImage
<1>. QED
    BY <1>1, <1>2, <1>3 DEF ToSet

(* Sequences that are written as functions.                                    *)
LEMMA AsSequence ==
    ASSUME NEW n \in Nat, NEW f, DOMAIN f = 1..n, f = [i \in 1..n |-> f[i]]
    PROVE f \in Seq(ToSet(f)) /\ Len(f) = n
<1>1. f \in [1..n -> ToSet(f)]
    BY DEF ToSet
<1>. QED
    BY <1>1

-----------------------------------------------------------------------------
(* What can be said of Reaches without following the edges one by one.       *)

\* A node is reached from itself.
LEMMA ReachesItself == \A R, N, a : Reaches(R, N, a, a)
  BY DEF Reaches

\* What is reached from what is reached is reached.
LEMMA ReachesThrough ==
    ASSUME NEW R, NEW N, NEW a, NEW b, NEW c, Reaches(R, N, a, b), Reaches(R, N, b, c)
    PROVE  Reaches(R, N, a, c)
  BY DEF Reaches

\* An edge leads to its end.
LEMMA ReachesEdge ==
    ASSUME NEW R, NEW N, NEW e \in R
    PROVE  Reaches(R, N, e[1], e[2])
  BY DEF Reaches, Closed

\* Who is reached from somewhere else is at the end of an edge, and there is one
\* at the start.
LEMMA ReachedByEdges ==
    ASSUME NEW N, NEW R \in SUBSET (N \X N), NEW a \in N, NEW b \in N, Reaches(R, N, a, b), a # b
    PROVE  (\E e \in R : e[1] = a) /\ (\E e \in R : e[2] = b)
<1>1. ASSUME \A e \in R : e[1] # a PROVE FALSE
  <2>1. {a} \in SUBSET N /\ a \in {a} /\ Closed(R, {a})
    BY <1>1 DEF Closed
  <2>. QED  BY <2>1 DEF Reaches
<1>2. ASSUME \A e \in R : e[2] # b PROVE FALSE
  <2>1. N \ {b} \in SUBSET N /\ a \in N \ {b} /\ Closed(R, N \ {b})
    BY <1>2 DEF Closed
  <2>. QED  BY <2>1 DEF Reaches
<1>. QED  BY <1>1, <1>2

\* A map of the nodes that takes edges to edges takes what is reached to what
\* is reached.
LEMMA ReachesMapped ==
    ASSUME NEW N, NEW R \in SUBSET (N \X N), NEW M, NEW Q, NEW g \in [N -> M],
           \A e \in R : \E d \in Q : d[1] = g[e[1]] /\ d[2] = g[e[2]],
           NEW a \in N, NEW b \in N, Reaches(R, N, a, b)
    PROVE  Reaches(Q, M, g[a], g[b])
<1>. SUFFICES ASSUME NEW S \in SUBSET M, g[a] \in S, Closed(Q, S)
              PROVE  g[b] \in S
  BY DEF Reaches
<1> DEFINE T == {n \in N : g[n] \in S}
<1>1. T \in SUBSET N /\ a \in T
  OBVIOUS
<1>2. Closed(R, T)
  <2>. SUFFICES ASSUME NEW e \in R, g[e[1]] \in S PROVE e[2] \in T
    BY DEF Closed
  <2>1. PICK d \in Q : d[1] = g[e[1]] /\ d[2] = g[e[2]]
    OBVIOUS
  <2>2. g[e[2]] \in S /\ e[2] \in N
    BY <2>1 DEF Closed
  <2>. QED  BY <2>2
<1>. QED  BY <1>1, <1>2 DEF Reaches
=============================================================================
