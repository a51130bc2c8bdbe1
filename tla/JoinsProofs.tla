----------------------------- MODULE JoinsProofs -----------------------------
(* Theorems about Joins, for all relations: an index does not change a join,   *)
(* and the order in which the relations of a group of triples are joined does  *)
(* not change which solutions there are, nor how often.                        *)
EXTENDS Joins, DataProofs

(* Merging is of solutions.                                                    *)
LEMMA MergeWhat ==
    ASSUME NEW left \in Binding, NEW right \in Binding
    PROVE /\ Merge(left, right) \in Binding
          /\ \A v \in Variables : Merge(left, right)[v] = IF left[v] # Unbound THEN left[v] ELSE right[v]
    BY DEF Merge, Binding, Bound

(* What join gives: at most one solution.                                      *)
LEMMA JoinOneWhat ==
    ASSUME NEW left \in Binding, NEW right \in Binding
    PROVE /\ JoinOne(left, right) \in Seq(Binding)
          /\ ToSet(JoinOne(left, right)) = {s \in Binding : Compatible(left, right) /\ s = Merge(left, right)}
<1>1. PICK m \in Binding : m = Merge(left, right)
    BY MergeWhat
<1>2. CASE Compatible(left, right)
    <2>1. JoinOne(left, right) = <<m>>
        BY <1>1, <1>2 DEF JoinOne
    <2>. QED
        BY <1>1, <1>2, <2>1 DEF ToSet
<1>3. CASE ~Compatible(left, right)
    <2>1. JoinOne(left, right) = <<>>
        BY <1>3 DEF JoinOne
    <2>. QED
        BY <1>3, <2>1 DEF ToSet
<1>. QED
    BY <1>2, <1>3

-----------------------------------------------------------------------------
(* Two relations.                                                            *)

\* Every solution of one with every solution of the other, in their order.
EveryPair(left, right) == FlattenSeq([i \in DOMAIN left |-> Joined(left[i], right)])

(* The relations of two sides are the same as joined without an index, also in *)
(* how often and in which order they have their solutions: what an index on a  *)
(* variable that all bind leaves out is not compatible (join_binding_relations)*)
THEOREM IndexIsInvisible ==
    ASSUME NEW left \in Seq(Binding), NEW right \in Seq(Binding)
    PROVE JoinRelations(left, right) = EveryPair(left, right)
<1>1. PICK keys : keys = {v \in Variables : \A row \in ToSet(left) \cup ToSet(right) : Bound(row, v)}
    OBVIOUS
<1>2. JoinRelations(left, right) = JoinByKey(keys, left, right)
    BY <1>1 DEF JoinRelations
<1>3. CASE keys = {}
    BY <1>2, <1>3 DEF JoinByKey, EveryPair
<1>4. CASE keys # {}
    <2>1. PICK key : key = CHOOSE v \in keys : TRUE
        OBVIOUS
    <2>2. key \in Variables /\ \A row \in ToSet(left) \cup ToSet(right) : row[key] # Unbound
        BY <1>1, <1>4, <2>1 DEF Bound
    <2>3. ASSUME NEW i \in DOMAIN left PROVE JoinedByKey(keys, left[i], right) = Joined(left[i], right)
        <3>1. PICK row : row = left[i]
            OBVIOUS
        <3>2. row \in ToSet(left)
            BY <3>1 DEF ToSet
        <3>3. ASSUME NEW j \in DOMAIN right
              PROVE (IF right[j][key] = row[key] THEN JoinOne(row, right[j]) ELSE <<>>) = JoinOne(row, right[j])
            <4>1. CASE right[j][key] = row[key]
                BY <4>1
            <4>2. CASE right[j][key] # row[key]
                <5>1. right[j] \in ToSet(right)
                    BY DEF ToSet
                <5>2. ~Compatible(row, right[j])
                    BY <2>2, <3>2, <4>2, <5>1 DEF Compatible, Bound
                <5>. QED
                    BY <4>2, <5>2 DEF JoinOne
            <4>. QED
                BY <4>1, <4>2
        <3>4. [j \in DOMAIN right |-> IF right[j][key] = row[key] THEN JoinOne(row, right[j]) ELSE <<>>]
              = [j \in DOMAIN right |-> JoinOne(row, right[j])]
            BY <3>3
        <3>5. JoinedByKey(keys, row, right)
              = FlattenSeq([j \in DOMAIN right |-> IF right[j][key] = row[key] THEN JoinOne(row, right[j]) ELSE <<>>])
            BY <2>1 DEF JoinedByKey
        <3>. QED
            BY <3>1, <3>4, <3>5 DEF Joined
    <2>4. [i \in DOMAIN left |-> IF keys = {} THEN Joined(left[i], right) ELSE JoinedByKey(keys, left[i], right)]
          = [i \in DOMAIN left |-> Joined(left[i], right)]
        BY <1>4, <2>3
    <2>. QED
        BY <1>2, <2>4 DEF JoinByKey, EveryPair
<1>. QED
    BY <1>3, <1>4

\* The places of a join stand for the compatible pairs, each once.
PairsOf(leftAt, rightAt, made, left, right) ==
    /\ leftAt \in [DOMAIN made -> DOMAIN left] /\ rightAt \in [DOMAIN made -> DOMAIN right]
    /\ \A m \in DOMAIN made : /\ Compatible(left[leftAt[m]], right[rightAt[m]])
                              /\ made[m] = Merge(left[leftAt[m]], right[rightAt[m]])
    /\ \A m, o \in DOMAIN made : leftAt[m] = leftAt[o] /\ rightAt[m] = rightAt[o] => m = o
    /\ \A i \in DOMAIN left, j \in DOMAIN right :
           Compatible(left[i], right[j]) => \E m \in DOMAIN made : leftAt[m] = i /\ rightAt[m] = j

\* The same for one solution on the left.
PlacesOf(at, made, left, right) ==
    /\ at \in [DOMAIN made -> DOMAIN right]
    /\ \A m \in DOMAIN made : Compatible(left, right[at[m]]) /\ made[m] = Merge(left, right[at[m]])
    /\ \A m, o \in DOMAIN made : at[m] = at[o] => m = o
    /\ \A j \in DOMAIN right : Compatible(left, right[j]) => \E m \in DOMAIN made : at[m] = j

(* What one solution makes with a relation.                                    *)
LEMMA JoinedWhat ==
    ASSUME NEW left \in Binding, NEW right \in Seq(Binding)
    PROVE /\ Joined(left, right) \in Seq(Binding)
          /\ \E at : PlacesOf(at, Joined(left, right), left, right)
<1> DEFINE parts == [j \in DOMAIN right |-> JoinOne(left, right[j])]
<1>1. Joined(left, right) = FlattenSeq(parts)
    BY DEF Joined
<1>2. DOMAIN right = 1..Len(right) /\ Len(right) \in Nat
    BY LenProperties
<1>3. ASSUME NEW j \in DOMAIN right
      PROVE /\ right[j] \in Binding /\ parts[j] \in Seq(Binding)
            /\ Compatible(left, right[j]) => DOMAIN parts[j] = {1} /\ parts[j][1] = Merge(left, right[j])
            /\ ~Compatible(left, right[j]) => DOMAIN parts[j] = {}
    <2>1. right[j] \in Binding /\ parts[j] = JoinOne(left, right[j]) /\ JoinOne(left, right[j]) \in Seq(Binding)
        BY JoinOneWhat
    <2>2. CASE Compatible(left, right[j])
        <3>1. PICK m : m = Merge(left, right[j])
            OBVIOUS
        <3>2. parts[j] = <<m>>
            BY <2>1, <2>2, <3>1 DEF JoinOne
        <3>3. DOMAIN <<m>> = {1} /\ (<<m>>)[1] = m
            OBVIOUS
        <3>4. DOMAIN parts[j] = {1} /\ parts[j][1] = Merge(left, right[j])
            BY <3>1, <3>2, <3>3
        <3> HIDE DEF parts
        <3>. QED
            BY <2>1, <2>2, <3>4
    <2>3. CASE ~Compatible(left, right[j])
        <3>1. parts[j] = <<>>
            BY <2>1, <2>3 DEF JoinOne
        <3>2. DOMAIN <<>> = {}
            OBVIOUS
        <3> HIDE DEF parts
        <3>. QED
            BY <2>1, <2>3, <3>1, <3>2
    <2>. QED
        BY <2>2, <2>3
<1>4. parts \in Seq(Seq(Binding)) /\ DOMAIN parts = DOMAIN right /\ Len(parts) = Len(right)
    BY <1>2, <1>3
<1> HIDE DEF parts
<1>5. PICK made : made = FlattenSeq(parts)
    OBVIOUS
<1>6. made \in Seq(Binding)
    BY <1>4, <1>5, FlattenElements
<1>7. PICK at, place : Splits(at, place, made, parts, Len(right))
    BY <1>4, <1>5, FlattenSplits
<1>8. /\ at \in [DOMAIN made -> DOMAIN right]
      /\ \A m \in DOMAIN made : place[m] \in DOMAIN parts[at[m]] /\ made[m] = parts[at[m]][place[m]]
      /\ \A m, o \in DOMAIN made : at[m] = at[o] /\ place[m] = place[o] => m = o
      /\ \A j \in DOMAIN right : \A k \in DOMAIN parts[j] : \E m \in DOMAIN made : at[m] = j /\ place[m] = k
    BY <1>2, <1>7 DEF Splits
<1>9. ASSUME NEW m \in DOMAIN made
      PROVE place[m] = 1 /\ Compatible(left, right[at[m]]) /\ made[m] = Merge(left, right[at[m]])
    <2>1. PICK j \in DOMAIN right : j = at[m]
        BY <1>8
    <2>2. place[m] \in DOMAIN parts[j] /\ made[m] = parts[j][place[m]]
        BY <1>8, <2>1
    <2>3. Compatible(left, right[j])
        BY <1>3, <2>2
    <2>4. DOMAIN parts[j] = {1} /\ parts[j][1] = Merge(left, right[j])
        BY <1>3, <2>3
    <2>5. place[m] = 1
        BY <2>2, <2>4
    <2>. QED
        BY <2>1, <2>2, <2>3, <2>4, <2>5
<1>10. ASSUME NEW j \in DOMAIN right, Compatible(left, right[j]) PROVE \E m \in DOMAIN made : at[m] = j
    <2>1. 1 \in DOMAIN parts[j]
        BY <1>3, <1>10
    <2>. QED
        BY <1>8, <2>1
<1>11. \A m, o \in DOMAIN made : at[m] = at[o] => m = o
    BY <1>8, <1>9
<1>12. PlacesOf(at, made, left, right)
    BY <1>8, <1>9, <1>10, <1>11 DEF PlacesOf
<1>. QED
    BY <1>1, <1>5, <1>6, <1>12

(* What is in the join of two relations: every compatible pair, once.          *)
LEMMA JoinWhat ==
    ASSUME NEW left \in Seq(Binding), NEW right \in Seq(Binding)
    PROVE /\ JoinRelations(left, right) \in Seq(Binding)
          /\ \E leftAt, rightAt : PairsOf(leftAt, rightAt, JoinRelations(left, right), left, right)
<1> DEFINE parts == [i \in DOMAIN left |-> Joined(left[i], right)]
<1>1. PICK made : made = JoinRelations(left, right) /\ made = FlattenSeq(parts)
    BY IndexIsInvisible DEF EveryPair
<1>2. DOMAIN left = 1..Len(left) /\ Len(left) \in Nat
    BY LenProperties
<1>3. ASSUME NEW i \in DOMAIN left
      PROVE left[i] \in Binding /\ parts[i] \in Seq(Binding) /\ \E at : PlacesOf(at, parts[i], left[i], right)
    <2>1. left[i] \in Binding /\ parts[i] = Joined(left[i], right)
        OBVIOUS
    <2> HIDE DEF parts
    <2>. QED
        BY <2>1, JoinedWhat
<1>4. parts \in Seq(Seq(Binding)) /\ DOMAIN parts = DOMAIN left /\ Len(parts) = Len(left)
    BY <1>2, <1>3
<1> HIDE DEF parts
<1>5. made \in Seq(Binding)
    BY <1>1, <1>4, FlattenElements
<1>6. PICK leftAt, place : Splits(leftAt, place, made, parts, Len(left))
    BY <1>1, <1>4, FlattenSplits
<1>7. /\ leftAt \in [DOMAIN made -> DOMAIN left]
      /\ \A m \in DOMAIN made : place[m] \in DOMAIN parts[leftAt[m]] /\ made[m] = parts[leftAt[m]][place[m]]
      /\ \A m, o \in DOMAIN made : leftAt[m] = leftAt[o] /\ place[m] = place[o] => m = o
      /\ \A i \in DOMAIN left : \A k \in DOMAIN parts[i] : \E m \in DOMAIN made : leftAt[m] = i /\ place[m] = k
    BY <1>2, <1>6 DEF Splits
<1>8. PICK within : within = [i \in DOMAIN left |-> CHOOSE at : PlacesOf(at, parts[i], left[i], right)]
    OBVIOUS
<1>9. ASSUME NEW i \in DOMAIN left PROVE PlacesOf(within[i], parts[i], left[i], right)
    BY <1>3, <1>8
<1>10. PICK rightAt : rightAt = [m \in DOMAIN made |-> within[leftAt[m]][place[m]]]
    OBVIOUS
<1>11. ASSUME NEW m \in DOMAIN made
       PROVE /\ rightAt[m] \in DOMAIN right
             /\ Compatible(left[leftAt[m]], right[rightAt[m]])
             /\ made[m] = Merge(left[leftAt[m]], right[rightAt[m]])
    <2>1. PICK i \in DOMAIN left : i = leftAt[m]
        BY <1>7
    <2>2. place[m] \in DOMAIN parts[i] /\ made[m] = parts[i][place[m]] /\ rightAt[m] = within[i][place[m]]
        BY <1>7, <1>10, <2>1
    <2>. QED
        BY <1>9, <2>1, <2>2 DEF PlacesOf
<1>12. ASSUME NEW m \in DOMAIN made, NEW o \in DOMAIN made, leftAt[m] = leftAt[o], rightAt[m] = rightAt[o]
       PROVE m = o
    <2>1. PICK i \in DOMAIN left : i = leftAt[m] /\ i = leftAt[o]
        BY <1>7, <1>12
    <2>2. place[m] \in DOMAIN parts[i] /\ place[o] \in DOMAIN parts[i] /\ within[i][place[m]] = within[i][place[o]]
        BY <1>7, <1>10, <1>12, <2>1
    <2>3. place[m] = place[o]
        BY <1>9, <2>2 DEF PlacesOf
    <2>. QED
        BY <1>7, <1>12, <2>3
<1>13. ASSUME NEW i \in DOMAIN left, NEW j \in DOMAIN right, Compatible(left[i], right[j])
       PROVE \E m \in DOMAIN made : leftAt[m] = i /\ rightAt[m] = j
    <2>1. PICK k \in DOMAIN parts[i] : within[i][k] = j
        BY <1>9, <1>13 DEF PlacesOf
    <2>2. PICK m \in DOMAIN made : leftAt[m] = i /\ place[m] = k
        BY <1>7
    <2>. QED
        BY <1>10, <2>1, <2>2
<1>14. rightAt \in [DOMAIN made -> DOMAIN right]
    BY <1>10, <1>11
<1>15. PairsOf(leftAt, rightAt, made, left, right)
    BY <1>7, <1>11, <1>12, <1>13, <1>14 DEF PairsOf
<1>. QED
    BY <1>1, <1>5, <1>15

-----------------------------------------------------------------------------
(* All relations of a group of triples.                                      *)

\* A row and one solution of each relation make solution s: none disagrees with
\* it, and they bind all it binds.
Combines(row, choice, s) ==
    /\ \A v \in Variables : row[v] \in {Unbound, s[v]}
    /\ \A i \in DOMAIN choice, v \in Variables : choice[i][v] \in {Unbound, s[v]}
    /\ \A v \in Variables : s[v] # Unbound =>
           \/ row[v] # Unbound
           \/ \E i \in DOMAIN choice : choice[i][v] # Unbound

Selected(candidates, choice) == [i \in DOMAIN candidates |-> candidates[i][choice[i]]]

\* Each entry of result is made of the row at first and of the solutions at each,
\* and each choice of them that makes a solution is that of one entry.
IsEach(first, each, result, rows, candidates) ==
    /\ first \in [DOMAIN result -> DOMAIN rows] /\ each \in [DOMAIN result -> [DOMAIN candidates -> Nat]]
    /\ \A m \in DOMAIN result : \A i \in DOMAIN candidates : each[m][i] \in DOMAIN candidates[i]
    /\ \A m \in DOMAIN result : Combines(rows[first[m]], Selected(candidates, each[m]), result[m])
    /\ \A m, o \in DOMAIN result : first[m] = first[o] /\ each[m] = each[o] => m = o
    /\ \A k \in DOMAIN rows, choice \in [DOMAIN candidates -> Nat], s \in Binding :
           (\A i \in DOMAIN candidates : choice[i] \in DOMAIN candidates[i]) /\ Combines(rows[k], Selected(candidates, choice), s)
           => \E m \in DOMAIN result : first[m] = k /\ each[m] = choice

\* The join of a group of triples, said without an order of the relations.
JoinOfAll(result, rows, candidates) == \E first, each : IsEach(first, each, result, rows, candidates)

\* Two relations with the same solutions, each as often in one as in the other.
SameSolutions(a, b) ==
    \E place \in [DOMAIN a -> DOMAIN b] :
        /\ \A m, o \in DOMAIN a : place[m] = place[o] => m = o
        /\ \A k \in DOMAIN b : \E m \in DOMAIN a : place[m] = k
        /\ \A m \in DOMAIN a : a[m] = b[place[m]]

(* A choice makes one solution.                                                *)
LEMMA CombinesOne ==
    ASSUME NEW row, NEW choice, NEW s \in Binding, NEW t \in Binding, Combines(row, choice, s), Combines(row, choice, t)
    PROVE s = t
<1>1. ASSUME NEW v \in Variables PROVE s[v] = t[v]
    BY DEF Combines
<1>. QED
    BY <1>1 DEF Binding

(* Relations whose entries are those of the same choices.                      *)
LEMMA JoinIsOne ==
    ASSUME NEW a \in Seq(Binding), NEW b \in Seq(Binding), NEW rows, NEW candidates,
           JoinOfAll(a, rows, candidates), JoinOfAll(b, rows, candidates)
    PROVE SameSolutions(a, b)
<1>1. PICK first, each : IsEach(first, each, a, rows, candidates)
    BY DEF JoinOfAll
<1>2. PICK row, choice : IsEach(row, choice, b, rows, candidates)
    BY DEF JoinOfAll
<1>3. ASSUME NEW m \in DOMAIN a PROVE \E k \in DOMAIN b : row[k] = first[m] /\ choice[k] = each[m] /\ a[m] = b[k]
    <2>1. PICK i, e : i = first[m] /\ e = each[m]
        OBVIOUS
    <2>2. /\ i \in DOMAIN rows /\ e \in [DOMAIN candidates -> Nat] /\ a[m] \in Binding
          /\ \A j \in DOMAIN candidates : e[j] \in DOMAIN candidates[j]
          /\ Combines(rows[i], Selected(candidates, e), a[m])
        BY <1>1, <2>1 DEF IsEach
    <2>3. PICK k \in DOMAIN b : row[k] = i /\ choice[k] = e
        BY <1>2, <2>2 DEF IsEach
    <2>4. b[k] \in Binding /\ Combines(rows[i], Selected(candidates, e), b[k])
        BY <1>2, <2>3 DEF IsEach
    <2>5. a[m] = b[k]
        BY <2>2, <2>4, CombinesOne
    <2>. QED
        BY <2>1, <2>3, <2>5
<1>4. PICK place \in [DOMAIN a -> DOMAIN b] :
          \A m \in DOMAIN a : row[place[m]] = first[m] /\ choice[place[m]] = each[m] /\ a[m] = b[place[m]]
    <2> DEFINE Goes(m, k) == row[k] = first[m] /\ choice[k] = each[m] /\ a[m] = b[k]
               place == [m \in DOMAIN a |-> CHOOSE k \in DOMAIN b : Goes(m, k)]
    <2>1. ASSUME NEW m \in DOMAIN a PROVE place[m] \in DOMAIN b /\ Goes(m, place[m])
        <3> HIDE DEF Goes
        <3>1. \E k \in DOMAIN b : Goes(m, k)
            BY <1>3 DEF Goes
        <3>. QED
            BY <3>1
    <2>2. place \in [DOMAIN a -> DOMAIN b]
        BY <2>1
    <2> HIDE DEF place
    <2>. QED
        BY <2>1, <2>2
<1>5. ASSUME NEW m \in DOMAIN a, NEW o \in DOMAIN a, place[m] = place[o] PROVE m = o
    <2>1. first[m] = first[o] /\ each[m] = each[o]
        BY <1>4, <1>5
    <2>. QED
        BY <1>1, <2>1 DEF IsEach
<1>6. ASSUME NEW k \in DOMAIN b PROVE \E m \in DOMAIN a : place[m] = k
    <2>1. PICK i, e : i = row[k] /\ e = choice[k]
        OBVIOUS
    <2>2. /\ i \in DOMAIN rows /\ e \in [DOMAIN candidates -> Nat] /\ b[k] \in Binding
          /\ \A j \in DOMAIN candidates : e[j] \in DOMAIN candidates[j]
          /\ Combines(rows[i], Selected(candidates, e), b[k])
        BY <1>2, <2>1 DEF IsEach
    <2>3. PICK m \in DOMAIN a : first[m] = i /\ each[m] = e
        BY <1>1, <2>2 DEF IsEach
    <2>4. place[m] \in DOMAIN b /\ row[place[m]] = row[k] /\ choice[place[m]] = choice[k]
        BY <1>4, <2>1, <2>3
    <2>5. place[m] = k
        BY <1>2, <2>4 DEF IsEach
    <2>. QED
        BY <2>5
<1>. QED
    BY <1>4, <1>5, <1>6 DEF SameSolutions

(* There is a relation that next_bgp_candidate picks: one with most variables  *)
(* in common, of those one with the fewest solutions, of those the first.      *)
LEMMA NextIsOne ==
    ASSUME NEW rows \in Seq(Binding), NEW candidates \in Seq(Seq(Binding)), candidates # <<>>
    PROVE NextCandidate(rows, candidates) \in DOMAIN candidates
<1> DEFINE Shared(i) == Cardinality(BoundNames(candidates[i]) \cap BoundNames(rows))
           Better(i, j) == \/ Shared(i) > Shared(j)
                           \/ Shared(i) = Shared(j) /\ Len(candidates[i]) < Len(candidates[j])
           Places == DOMAIN candidates
           Most == Cardinality(Variables)
<1>1. DOMAIN candidates = 1..Len(candidates) /\ Len(candidates) \in Nat /\ Len(candidates) >= 1
    OBVIOUS
<1>2. Most \in Nat
    BY VariablesAssumption, FS_CardinalityType
<1>3. ASSUME NEW i \in Places PROVE Shared(i) \in Nat /\ Most - Shared(i) \in Nat
    <2>1. BoundNames(candidates[i]) \cap BoundNames(rows) \subseteq Variables
        BY DEF BoundNames
    <2>2. Shared(i) \in Nat /\ Shared(i) <= Most
        BY <2>1, VariablesAssumption, FS_Subset, FS_CardinalityType
    <2>. QED
        BY <1>2, <2>2
<1>4. ASSUME NEW i \in Places PROVE Len(candidates[i]) \in Nat
    BY LenProperties
<1> HIDE DEF Shared, Most
<1>5. PICK a \in Places : \A j \in Places : Shared(j) <= Shared(a)
    <2> DEFINE T == {Most - Shared(i) : i \in Places}
    <2>1. T \subseteq Nat /\ T # {}
        BY <1>1, <1>3
    <2>2. PICK x \in T : \A y \in T : x <= y
        BY <2>1, LeastNumber
    <2>3. PICK a \in Places : x = Most - Shared(a)
        BY <2>2
    <2>4. ASSUME NEW j \in Places PROVE Shared(j) <= Shared(a)
        <3>1. Most - Shared(a) <= Most - Shared(j)
            BY <2>2, <2>3
        <3>. QED
            BY <3>1, <1>2, <1>3
    <2>. QED
        BY <2>4
<1>6. PICK b \in Places : /\ Shared(b) = Shared(a)
                          /\ \A j \in Places : Shared(j) = Shared(a) => Len(candidates[b]) <= Len(candidates[j])
    <2> DEFINE T == {Len(candidates[i]) : i \in {j \in Places : Shared(j) = Shared(a)}}
    <2>1. T \subseteq Nat /\ T # {}
        BY <1>4
    <2>2. PICK x \in T : \A y \in T : x <= y
        BY <2>1, LeastNumber
    <2>. QED
        BY <2>2
<1>7. PICK c \in Places : /\ Shared(c) = Shared(a) /\ Len(candidates[c]) = Len(candidates[b])
                          /\ \A j \in Places : Shared(j) = Shared(a) /\ Len(candidates[j]) = Len(candidates[b]) => c <= j
    <2> DEFINE T == {i \in Places : Shared(i) = Shared(a) /\ Len(candidates[i]) = Len(candidates[b])}
    <2>1. T \subseteq Nat /\ T # {}
        BY <1>1, <1>6
    <2>2. PICK x \in T : \A y \in T : x <= y
        BY <2>1, LeastNumber
    <2>. QED
        BY <2>2
<1>8. ASSUME NEW j \in Places \ {c} PROVE Better(c, j) \/ (c < j /\ ~Better(j, c))
    <2>1. Shared(j) <= Shared(c) /\ Shared(j) \in Nat /\ Shared(c) \in Nat
        BY <1>3, <1>5, <1>7
    <2>2. Shared(j) = Shared(c) => Len(candidates[c]) <= Len(candidates[j])
        BY <1>6, <1>7
    <2>3. Shared(j) = Shared(c) /\ Len(candidates[c]) = Len(candidates[j]) => c < j
        BY <1>1, <1>7
    <2>4. Len(candidates[j]) \in Nat /\ Len(candidates[c]) \in Nat
        BY <1>4
    <2>. QED
        BY <2>1, <2>2, <2>3, <2>4
<1>9. NextCandidate(rows, candidates)
      = CHOOSE i \in Places : \A j \in Places \ {i} : Better(i, j) \/ (i < j /\ ~Better(j, i))
    BY DEF NextCandidate, Shared
<1> HIDE DEF Better
<1>. QED
    BY <1>8, <1>9, Zenon

(* What is left when one is taken out, the last in its place.                  *)
LEMMA SwapRemoved ==
    ASSUME NEW S, NEW seq \in Seq(S), NEW i \in DOMAIN seq
    PROVE /\ SwapRemove(seq, i) \in Seq(S)
          /\ Len(SwapRemove(seq, i)) = Len(seq) - 1
          /\ \A j \in 1..Len(seq) - 1 : SwapRemove(seq, i)[j] = IF j = i THEN seq[Len(seq)] ELSE seq[j]
<1>1. DOMAIN seq = 1..Len(seq) /\ Len(seq) \in Nat /\ Len(seq) >= 1
    OBVIOUS
<1>2. SwapRemove(seq, i) = [j \in 1..Len(seq) - 1 |-> IF j = i THEN seq[Len(seq)] ELSE seq[j]]
    BY DEF SwapRemove, Last
<1>. QED
    BY <1>1, <1>2

\* What swap_remove leaves of a choice.
Swapped(chosen, choice, i, n) == \A j \in 1..n - 1 : chosen[j] = IF j = i THEN choice[n] ELSE choice[j]

(* Solution i joined to the row, the last in its place: the same is made.      *)
LEMMA CombinesJoined ==
    ASSUME NEW n \in Nat, NEW i \in 1..n, NEW row \in Binding, NEW choice \in [1..n -> Binding],
           NEW chosen \in [1..n - 1 -> Binding], NEW s \in Binding,
           Swapped(chosen, choice, i, n)
    PROVE /\ Combines(row, choice, s) => Compatible(row, choice[i]) /\ Combines(Merge(row, choice[i]), chosen, s)
          /\ Compatible(row, choice[i]) /\ Combines(Merge(row, choice[i]), chosen, s) => Combines(row, choice, s)
<1>1. PICK x \in Binding : x = choice[i]
    OBVIOUS
<1>2. PICK merged \in Binding : merged = Merge(row, x) /\ \A v \in Variables : merged[v] = IF row[v] # Unbound THEN row[v] ELSE x[v]
    BY MergeWhat
<1> USE DEF Swapped
<1>3. ASSUME NEW j \in 1..n, j # i PROVE \E k \in 1..n - 1 : chosen[k] = choice[j]
    <2>1. CASE j = n
        <3>1. i \in 1..n - 1
            BY <1>3, <2>1
        <3>. QED
            BY <2>1, <3>1
    <2>2. CASE j # n
        <3>1. j \in 1..n - 1
            BY <2>2
        <3>. QED
            BY <1>3, <3>1
    <2>. QED
        BY <2>1, <2>2
<1>4. ASSUME NEW k \in 1..n - 1 PROVE \E j \in 1..n : chosen[k] = choice[j]
    BY n \in 1..n, k \in 1..n
<1>5. ASSUME Combines(row, choice, s) PROVE Compatible(row, x) /\ Combines(merged, chosen, s)
    <2>1. \A v \in Variables : row[v] \in {Unbound, s[v]}
        BY <1>5 DEF Combines
    <2>2. \A j \in 1..n, v \in Variables : choice[j][v] \in {Unbound, s[v]}
        BY <1>5 DEF Combines
    <2>3. \A v \in Variables : x[v] \in {Unbound, s[v]}
        BY <1>1, <2>2
    <2>4. Compatible(row, x)
        BY <2>1, <2>3 DEF Compatible, Bound
    <2>5. \A v \in Variables : merged[v] \in {Unbound, s[v]}
        BY <1>2, <2>1, <2>3
    <2>6. \A k \in 1..n - 1, v \in Variables : chosen[k][v] \in {Unbound, s[v]}
        BY <1>4, <2>2
    <2>7. ASSUME NEW v \in Variables, s[v] # Unbound
          PROVE merged[v] # Unbound \/ \E k \in 1..n - 1 : chosen[k][v] # Unbound
        <3>1. CASE row[v] # Unbound
            BY <1>2, <3>1
        <3>2. CASE row[v] = Unbound
            <4>1. PICK j \in 1..n : choice[j][v] # Unbound
                BY <1>5, <2>7, <3>2 DEF Combines
            <4>2. CASE j = i
                BY <1>1, <1>2, <3>2, <4>1, <4>2
            <4>3. CASE j # i
                BY <1>3, <4>1, <4>3
            <4>. QED
                BY <4>2, <4>3
        <3>. QED
            BY <3>1, <3>2
    <2>. QED
        BY <2>4, <2>5, <2>6, <2>7 DEF Combines
<1>6. ASSUME Compatible(row, x), Combines(merged, chosen, s) PROVE Combines(row, choice, s)
    <2>1. \A v \in Variables : row[v] # Unbound /\ x[v] # Unbound => row[v] = x[v]
        BY <1>6 DEF Compatible, Bound
    <2>2. \A v \in Variables : merged[v] \in {Unbound, s[v]}
        BY <1>6 DEF Combines
    <2>3. \A v \in Variables : row[v] \in {Unbound, s[v]} /\ x[v] \in {Unbound, s[v]}
        BY <1>2, <2>1, <2>2
    <2>4. \A k \in 1..n - 1, v \in Variables : chosen[k][v] \in {Unbound, s[v]}
        BY <1>6 DEF Combines
    <2>5. ASSUME NEW j \in 1..n, NEW v \in Variables PROVE choice[j][v] \in {Unbound, s[v]}
        <3>1. CASE j = i
            BY <1>1, <2>3, <3>1
        <3>2. CASE j # i
            BY <1>3, <2>4, <3>2
        <3>. QED
            BY <3>1, <3>2
    <2>6. ASSUME NEW v \in Variables, s[v] # Unbound
          PROVE row[v] # Unbound \/ \E j \in 1..n : choice[j][v] # Unbound
        <3>1. CASE merged[v] # Unbound
            BY <1>1, <1>2, <3>1
        <3>2. CASE merged[v] = Unbound
            <4>1. PICK k \in 1..n - 1 : chosen[k][v] # Unbound
                BY <1>6, <2>6, <3>2 DEF Combines
            <4>. QED
                BY <1>4, <4>1
        <3>. QED
            BY <3>1, <3>2
    <2>. QED
        BY <2>3, <2>5, <2>6 DEF Combines
<1>. QED
    BY <1>1, <1>2, <1>5, <1>6

(* Taking one relation over into the rows keeps what is made.                  *)
LEMMA JoiningKeeps ==
    ASSUME NEW rows \in Seq(Binding), NEW left \in Seq(Seq(Binding)), NEW i \in DOMAIN left,
           NEW result \in Seq(Binding), JoinOfAll(result, JoinRelations(rows, left[i]), SwapRemove(left, i))
    PROVE JoinOfAll(result, rows, left)
<1> DEFINE n == Len(left)
           rest == SwapRemove(left, i)
           joined == JoinRelations(rows, left[i])
<1>1. DOMAIN left = 1..n /\ n \in Nat /\ n >= 1 /\ i \in 1..n /\ left[i] \in Seq(Binding)
    OBVIOUS
<1>2. rest \in Seq(Seq(Binding)) /\ DOMAIN rest = 1..n - 1
    <2>1. rest \in Seq(Seq(Binding)) /\ Len(rest) = n - 1
        BY SwapRemoved
    <2> HIDE DEF rest, n
    <2>2. DOMAIN rest = 1..Len(rest)
        BY <2>1, LenProperties
    <2>. QED
        BY <2>1, <2>2
<1>3. \A j \in 1..n - 1 : rest[j] = IF j = i THEN left[n] ELSE left[j]
    BY SwapRemoved
<1>4. joined \in Seq(Binding)
    BY <1>1, JoinWhat
<1>5. PICK leftAt, rightAt : PairsOf(leftAt, rightAt, joined, rows, left[i])
    BY <1>1, JoinWhat
<1>6. PICK row, choice : IsEach(row, choice, result, joined, rest)
    BY DEF JoinOfAll
<1> HIDE DEF n, rest, joined
<1>7. \A j \in 1..n : left[j] \in Seq(Binding)
    BY <1>1
<1> DEFINE Back(k, chosen) == [j \in 1..n |-> IF j = i THEN rightAt[k] ELSE IF j = n THEN chosen[i] ELSE chosen[j]]
           first == [m \in DOMAIN result |-> leftAt[row[m]]]
           each == [m \in DOMAIN result |-> Back(row[m], choice[m])]
<1>8. ASSUME NEW k \in DOMAIN joined, NEW chosen \in [1..n - 1 -> Nat],
             \A j \in 1..n - 1 : chosen[j] \in DOMAIN rest[j]
      PROVE /\ Back(k, chosen) \in [1..n -> Nat]
            /\ \A j \in 1..n : Back(k, chosen)[j] \in DOMAIN left[j]
            /\ \A s \in Binding : Combines(rows[leftAt[k]], Selected(left, Back(k, chosen)), s)
                                  <=> Combines(joined[k], Selected(rest, chosen), s)
    <2>1. PICK whole : whole = Back(k, chosen)
        OBVIOUS
    <2>2. \A j \in 1..n : whole[j] = IF j = i THEN rightAt[k] ELSE IF j = n THEN chosen[i] ELSE chosen[j]
        BY <2>1
    <2>3. whole = [j \in 1..n |-> whole[j]]
        BY <2>1
    <2> HIDE DEF Back
    <2>4. ASSUME NEW j \in 1..n PROVE whole[j] \in DOMAIN left[j]
        <3>1. CASE j = i
            BY <1>5, <2>2, <3>1 DEF PairsOf
        <3>2. CASE j # i /\ j = n
            <4>1. i \in 1..n - 1 /\ whole[j] = chosen[i] /\ rest[i] = left[n]
                BY <1>1, <1>3, <2>2, <3>2
            <4>. QED
                BY <1>8, <3>2, <4>1
        <3>3. CASE j # i /\ j # n
            <4>1. j \in 1..n - 1 /\ whole[j] = chosen[j] /\ rest[j] = left[j]
                BY <1>1, <1>3, <2>2, <3>3
            <4>. QED
                BY <1>8, <4>1
        <3>. QED
            BY <3>1, <3>2, <3>3
    <2>5. \A j \in 1..n : DOMAIN left[j] \subseteq Nat
        BY <1>7
    <2>6. whole \in [1..n -> Nat]
        BY <2>3, <2>4, <2>5
    <2>7. PICK a : a = Selected(left, whole)
        OBVIOUS
    <2>8. PICK b : b = Selected(rest, chosen)
        OBVIOUS
    <2>9. (\A j \in 1..n : a[j] = left[j][whole[j]]) /\ \A j \in 1..n - 1 : b[j] = rest[j][chosen[j]]
        BY <1>1, <1>2, <2>7, <2>8 DEF Selected
    <2>10. a \in [1..n -> Binding]
        <3>1. \A j \in 1..n : left[j][whole[j]] \in Binding
            BY <1>7, <2>4
        <3>. QED
            BY <1>1, <2>7, <3>1 DEF Selected
    <2>11. b \in [1..n - 1 -> Binding]
        <3>1. ASSUME NEW j \in 1..n - 1 PROVE rest[j][chosen[j]] \in Binding
            <4>1. rest[j] \in Seq(Binding)
                <5>1. j \in 1..n /\ n \in 1..n
                    BY <1>1
                <5>2. left[j] \in Seq(Binding) /\ left[n] \in Seq(Binding)
                    BY <1>7, <5>1
                <5>3. rest[j] = left[n] \/ rest[j] = left[j]
                    BY <1>3
                <5>. QED
                    BY <5>2, <5>3
            <4>. QED
                BY <1>8, <4>1
        <3>. QED
            BY <1>2, <2>8, <3>1 DEF Selected
    <2>12. ASSUME NEW j \in 1..n - 1 PROVE b[j] = IF j = i THEN a[n] ELSE a[j]
        <3>1. CASE j = i
            <4>1. n \in 1..n /\ n # i /\ whole[n] = chosen[i] /\ rest[j] = left[n]
                BY <1>1, <1>3, <2>2, <3>1
            <4>. QED
                BY <2>9, <3>1, <4>1
        <3>2. CASE j # i
            <4>1. j \in 1..n /\ j # n /\ whole[j] = chosen[j] /\ rest[j] = left[j]
                BY <1>1, <1>3, <2>2, <3>2
            <4>. QED
                BY <2>9, <3>2, <4>1
        <3>. QED
            BY <3>1, <3>2
    <2>13. PICK h \in Binding : h = rows[leftAt[k]]
        BY <1>5 DEF PairsOf
    <2>14. a[i] = left[i][rightAt[k]]
        BY <1>1, <2>2, <2>9
    <2>15. Compatible(h, a[i]) /\ joined[k] = Merge(h, a[i])
        BY <1>5, <2>13, <2>14 DEF PairsOf
    <2>16. ASSUME NEW s \in Binding PROVE Combines(h, a, s) <=> Combines(joined[k], b, s)
        <3>1. n \in Nat /\ i \in 1..n
            BY <1>1
        <3>2. Swapped(b, a, i, n)
            BY <2>12 DEF Swapped
        <3>3. /\ Combines(h, a, s) => Compatible(h, a[i]) /\ Combines(Merge(h, a[i]), b, s)
              /\ Compatible(h, a[i]) /\ Combines(Merge(h, a[i]), b, s) => Combines(h, a, s)
            BY <2>10, <2>11, <2>13, <3>1, <3>2, CombinesJoined
        <3>. QED
            BY <2>15, <3>3
    <2>. QED
        BY <2>1, <2>4, <2>6, <2>7, <2>8, <2>13, <2>16
<1>9. /\ row \in [DOMAIN result -> DOMAIN joined] /\ choice \in [DOMAIN result -> [1..n - 1 -> Nat]]
      /\ \A m \in DOMAIN result : \A j \in 1..n - 1 : choice[m][j] \in DOMAIN rest[j]
      /\ \A m \in DOMAIN result : Combines(joined[row[m]], Selected(rest, choice[m]), result[m])
      /\ \A m, o \in DOMAIN result : row[m] = row[o] /\ choice[m] = choice[o] => m = o
    BY <1>2, <1>6 DEF IsEach
<1>10. ASSUME NEW k \in DOMAIN joined, NEW chosen \in [1..n - 1 -> Nat], NEW s \in Binding,
              \A j \in 1..n - 1 : chosen[j] \in DOMAIN rest[j], Combines(joined[k], Selected(rest, chosen), s)
       PROVE \E m \in DOMAIN result : row[m] = k /\ choice[m] = chosen
    BY <1>2, <1>6, <1>10 DEF IsEach
<1>11. ASSUME NEW k \in DOMAIN joined, NEW l \in DOMAIN joined,
              NEW chosen \in [1..n - 1 -> Nat], NEW other \in [1..n - 1 -> Nat],
              leftAt[k] = leftAt[l], Back(k, chosen) = Back(l, other)
       PROVE k = l /\ chosen = other
    <2>1. \A j \in 1..n : Back(k, chosen)[j] = Back(l, other)[j]
        BY <1>11
    <2>2. \A j \in 1..n : (IF j = i THEN rightAt[k] ELSE IF j = n THEN chosen[i] ELSE chosen[j])
                          = (IF j = i THEN rightAt[l] ELSE IF j = n THEN other[i] ELSE other[j])
        BY <2>1
    <2>3. rightAt[k] = rightAt[l]
        BY <1>1, <2>2
    <2>4. k = l
        BY <1>5, <1>11, <2>3 DEF PairsOf
    <2>5. ASSUME NEW j \in 1..n - 1 PROVE chosen[j] = other[j]
        <3>1. CASE j = i
            <4>1. n \in 1..n /\ n # i
                BY <1>1, <3>1
            <4>. QED
                BY <2>2, <3>1, <4>1
        <3>2. CASE j # i
            <4>1. j \in 1..n /\ j # n
                BY <1>1
            <4>. QED
                BY <2>2, <3>2, <4>1
        <3>. QED
            BY <3>1, <3>2
    <2>6. chosen = other
        BY <1>1, <2>5
    <2>. QED
        BY <2>4, <2>6
<1>12. ASSUME NEW h \in DOMAIN rows, NEW whole \in [1..n -> Nat], NEW s \in Binding,
              \A j \in 1..n : whole[j] \in DOMAIN left[j], Combines(rows[h], Selected(left, whole), s)
       PROVE \E k \in DOMAIN joined, chosen \in [1..n - 1 -> Nat] :
                /\ \A j \in 1..n - 1 : chosen[j] \in DOMAIN rest[j]
                /\ leftAt[k] = h /\ Back(k, chosen) = whole
    <2>1. PICK x \in Binding : x = left[i][whole[i]]
        BY <1>1, <1>12
    <2>2. PICK g \in Binding : g = rows[h]
        OBVIOUS
    <2>3. \A v \in Variables : g[v] \in {Unbound, s[v]}
        BY <1>12, <2>2 DEF Combines
    <2>4. \A v \in Variables : x[v] \in {Unbound, s[v]}
        <3>1. DOMAIN Selected(left, whole) = 1..n /\ Selected(left, whole)[i] = x
            BY <1>1, <2>1 DEF Selected
        <3>. QED
            BY <1>1, <1>12, <3>1 DEF Combines
    <2>5. Compatible(g, x)
        BY <2>3, <2>4 DEF Compatible, Bound
    <2>6. PICK k \in DOMAIN joined : leftAt[k] = h /\ rightAt[k] = whole[i]
        BY <1>1, <1>5, <1>12, <2>1, <2>2, <2>5 DEF PairsOf
    <2>7. PICK chosen \in [1..n - 1 -> Nat] : \A j \in 1..n - 1 : chosen[j] = IF j = i THEN whole[n] ELSE whole[j]
        <3>1. \A j \in 1..n - 1 : (IF j = i THEN whole[n] ELSE whole[j]) \in Nat
            BY <1>1
        <3>2. [j \in 1..n - 1 |-> IF j = i THEN whole[n] ELSE whole[j]] \in [1..n - 1 -> Nat]
            BY <3>1
        <3>. QED
            BY <3>2
    <2>8. ASSUME NEW j \in 1..n - 1 PROVE chosen[j] \in DOMAIN rest[j]
        <3>1. CASE j = i
            <4>1. chosen[j] = whole[n] /\ rest[j] = left[n] /\ n \in 1..n
                BY <1>1, <1>3, <2>7, <3>1
            <4>. QED
                BY <1>12, <4>1
        <3>2. CASE j # i
            <4>1. chosen[j] = whole[j] /\ rest[j] = left[j] /\ j \in 1..n
                BY <1>1, <1>3, <2>7, <3>2
            <4>. QED
                BY <1>12, <4>1
        <3>. QED
            BY <3>1, <3>2
    <2>9. ASSUME NEW j \in 1..n
          PROVE (IF j = i THEN rightAt[k] ELSE IF j = n THEN chosen[i] ELSE chosen[j]) = whole[j]
        <3>1. CASE j = i
            BY <2>6, <3>1
        <3>2. CASE j # i /\ j = n
            <4>1. i \in 1..n - 1
                BY <1>1, <3>2
            <4>. QED
                BY <2>7, <3>2, <4>1
        <3>3. CASE j # i /\ j # n
            <4>1. j \in 1..n - 1
                BY <1>1, <3>3
            <4>. QED
                BY <2>7, <3>3, <4>1
        <3>. QED
            BY <3>1, <3>2, <3>3
    <2>10. Back(k, chosen) = whole
        BY <2>9
    <2> HIDE DEF Back
    <2>. QED
        BY <2>6, <2>8, <2>10
<1>13. \A m \in DOMAIN result : first[m] = leftAt[row[m]] /\ each[m] = Back(row[m], choice[m])
    OBVIOUS
<1>14. /\ \A m \in DOMAIN result : each[m] \in [1..n -> Nat]
       /\ \A m \in DOMAIN result : \A j \in 1..n : each[m][j] \in DOMAIN left[j]
       /\ \A m \in DOMAIN result : Combines(rows[first[m]], Selected(left, each[m]), result[m])
    <2> HIDE DEF Back, first, each
    <2>1. ASSUME NEW m \in DOMAIN result
          PROVE /\ each[m] \in [1..n -> Nat]
                /\ \A j \in 1..n : each[m][j] \in DOMAIN left[j]
                /\ Combines(rows[first[m]], Selected(left, each[m]), result[m])
        <3>1. PICK k \in DOMAIN joined, chosen \in [1..n - 1 -> Nat] : k = row[m] /\ chosen = choice[m]
            BY <1>9
        <3>2. (\A j \in 1..n - 1 : chosen[j] \in DOMAIN rest[j]) /\ Combines(joined[k], Selected(rest, chosen), result[m])
            BY <1>9, <3>1
        <3>3. first[m] = leftAt[k] /\ each[m] = Back(k, chosen) /\ result[m] \in Binding
            BY <1>13, <3>1
        <3>. QED
            BY <1>8, <3>2, <3>3
    <2>. QED
        BY <2>1
<1>15. first \in [DOMAIN result -> DOMAIN rows]
    BY <1>5, <1>9 DEF PairsOf
<1>16. each \in [DOMAIN result -> [1..n -> Nat]]
    <2> HIDE DEF Back
    <2>. QED
        BY <1>14
<1> HIDE DEF Back, first, each
<1>17. ASSUME NEW m \in DOMAIN result, NEW o \in DOMAIN result, first[m] = first[o], each[m] = each[o] PROVE m = o
    <2>1. row[m] \in DOMAIN joined /\ row[o] \in DOMAIN joined /\ choice[m] \in [1..n - 1 -> Nat] /\ choice[o] \in [1..n - 1 -> Nat]
        BY <1>9
    <2>2. leftAt[row[m]] = leftAt[row[o]] /\ Back(row[m], choice[m]) = Back(row[o], choice[o])
        BY <1>13, <1>17
    <2>3. row[m] = row[o] /\ choice[m] = choice[o]
        BY <1>11, <2>1, <2>2
    <2>. QED
        BY <1>9, <2>3
<1>18. ASSUME NEW h \in DOMAIN rows, NEW whole \in [1..n -> Nat], NEW s \in Binding,
              \A j \in 1..n : whole[j] \in DOMAIN left[j], Combines(rows[h], Selected(left, whole), s)
       PROVE \E m \in DOMAIN result : first[m] = h /\ each[m] = whole
    <2>1. PICK k \in DOMAIN joined, chosen \in [1..n - 1 -> Nat] :
              /\ \A j \in 1..n - 1 : chosen[j] \in DOMAIN rest[j]
              /\ leftAt[k] = h /\ Back(k, chosen) = whole
        BY <1>12, <1>18
    <2>2. Combines(joined[k], Selected(rest, chosen), s)
        BY <1>8, <1>18, <2>1
    <2>3. PICK m \in DOMAIN result : row[m] = k /\ choice[m] = chosen
        BY <1>10, <2>1, <2>2
    <2>. QED
        BY <1>13, <2>1, <2>3
<1>19. IsEach(first, each, result, rows, left)
    BY <1>1, <1>14, <1>15, <1>16, <1>17, <1>18 DEF IsEach
<1>. QED
    BY <1>19 DEF JoinOfAll

(* With no relation left, what is made are the rows.                           *)
LEMMA NoneLeft ==
    ASSUME NEW rows \in Seq(Binding)
    PROVE JoinOfAll(rows, rows, <<>>)
<1>1. ASSUME NEW row \in Binding, NEW s \in Binding, NEW choice
      PROVE Combines(row, Selected(<<>>, choice), s) <=> row = s
    <2>1. DOMAIN Selected(<<>>, choice) = {}
        BY DEF Selected
    <2>2. Combines(row, Selected(<<>>, choice), s) <=> \A v \in Variables : row[v] = s[v]
        BY <2>1 DEF Combines
    <2>3. (\A v \in Variables : row[v] = s[v]) <=> row = s
        BY DEF Binding
    <2>. QED
        BY <2>2, <2>3
<1>2. DOMAIN <<>> = {}
    OBVIOUS
<1>3. PICK none \in [DOMAIN <<>> -> Nat] : \A choice \in [DOMAIN <<>> -> Nat] : choice = none
    <2>1. [i \in {} |-> 0] \in [{} -> Nat] /\ \A choice \in [{} -> Nat] : choice = [i \in {} |-> 0]
        OBVIOUS
    <2>. QED
        BY <1>2, <2>1
<1>4. PICK first : first = [m \in DOMAIN rows |-> m]
    OBVIOUS
<1>5. PICK each : each = [m \in DOMAIN rows |-> none]
    OBVIOUS
<1>6. first \in [DOMAIN rows -> DOMAIN rows] /\ each \in [DOMAIN rows -> [DOMAIN <<>> -> Nat]]
    BY <1>3, <1>4, <1>5
<1>7. \A m \in DOMAIN rows : rows[m] \in Binding
    OBVIOUS
<1>8. ASSUME NEW k \in DOMAIN rows, NEW choice \in [DOMAIN <<>> -> Nat], NEW s \in Binding,
             Combines(rows[k], Selected(<<>>, choice), s)
      PROVE \E m \in DOMAIN rows : first[m] = k /\ each[m] = choice
    BY <1>3, <1>4, <1>5
<1>9. \A m \in DOMAIN rows : Combines(rows[first[m]], Selected(<<>>, each[m]), rows[m])
    BY <1>1, <1>4, <1>7
<1>10. \A m, o \in DOMAIN rows : first[m] = first[o] /\ each[m] = each[o] => m = o
    BY <1>4
<1>11. \A m \in DOMAIN rows : \A i \in DOMAIN <<>> : each[m][i] \in DOMAIN (<<>>)[i]
    BY <1>2
<1>12. IsEach(first, each, rows, rows, <<>>)
    BY <1>6, <1>8, <1>9, <1>10, <1>11 DEF IsEach
<1>. QED
    BY <1>12 DEF JoinOfAll

\* f is how far the loop of select_bgp is after each of its first n rounds.
Loops(f, rows, candidates, n) ==
    f = [k \in 0..n |-> IF k = 0 THEN [rows |-> rows, left |-> candidates] ELSE JoinNext(f[k - 1])]

(* What that says of one round.                                                *)
LEMMA LoopsEntry ==
    ASSUME NEW f, NEW rows, NEW candidates, NEW n \in Nat, Loops(f, rows, candidates, n), NEW k \in 0..n
    PROVE f[k] = IF k = 0 THEN [rows |-> rows, left |-> candidates] ELSE JoinNext(f[k - 1])
<1> DEFINE g == [m \in 0..n |-> IF m = 0 THEN [rows |-> rows, left |-> candidates] ELSE JoinNext(f[m - 1])]
<1>1. f = g
    BY DEF Loops
<1>2. g[k] = IF k = 0 THEN [rows |-> rows, left |-> candidates] ELSE JoinNext(f[k - 1])
    OBVIOUS
<1> HIDE DEF g
<1>. QED
    BY <1>1, <1>2

(* What a round does.                                                          *)
LEMMA LoopsNext ==
    ASSUME NEW f, NEW rows, NEW candidates, NEW n \in Nat, Loops(f, rows, candidates, n), NEW k \in 0..n, k # 0
    PROVE f[k] = JoinNext(f[k - 1])
<1> DEFINE g == [m \in 0..n |-> IF m = 0 THEN [rows |-> rows, left |-> candidates] ELSE JoinNext(f[m - 1])]
<1>1. f = g
    BY DEF Loops
<1>2. g[k] = JoinNext(f[k - 1])
    OBVIOUS
<1> HIDE DEF g
<1>. QED
    BY <1>1, <1>2

(* The loop has a state after every number of rounds.                          *)
LEMMA LoopsExists ==
    ASSUME NEW rows, NEW candidates
    PROVE \A n \in Nat : \E f : Loops(f, rows, candidates, n)
<1> DEFINE T == {n \in Nat : \E f : Loops(f, rows, candidates, n)}
           First == [rows |-> rows, left |-> candidates]
<1>1. 0 \in T
    <2> DEFINE f == [k \in 0..0 |-> First]
    <2>1. f = [k \in 0..0 |-> IF k = 0 THEN First ELSE JoinNext(f[k - 1])]
        OBVIOUS
    <2> HIDE DEF f
    <2>. QED
        BY <2>1 DEF Loops
<1>2. ASSUME NEW n \in Nat, n \in T PROVE n + 1 \in T
    <2>1. PICK f : Loops(f, rows, candidates, n)
        BY <1>2
    <2> DEFINE g == [k \in 0..n + 1 |-> IF k <= n THEN f[k] ELSE JoinNext(f[k - 1])]
    <2>2. ASSUME NEW k \in 0..n + 1 PROVE g[k] = IF k = 0 THEN First ELSE JoinNext(g[k - 1])
        <3>1. CASE k = n + 1
            <4>1. g[k] = JoinNext(f[k - 1]) /\ g[k - 1] = f[k - 1] /\ k # 0
                BY <3>1
            <4>. QED
                BY <4>1
        <3>2. CASE k <= n
            <4>1. f[k] = IF k = 0 THEN First ELSE JoinNext(f[k - 1])
                BY <3>2, <2>1, LoopsEntry
            <4>2. g[k] = f[k] /\ (k # 0 => g[k - 1] = f[k - 1])
                BY <3>2
            <4>. QED
                BY <4>1, <4>2
        <3>. QED
            BY <3>1, <3>2
    <2>3. g = [k \in 0..n + 1 |-> IF k = 0 THEN First ELSE JoinNext(g[k - 1])]
        <3> HIDE DEF g
        <3>1. g = [k \in 0..n + 1 |-> g[k]]
            BY DEF g
        <3>. QED
            BY <3>1, <2>2
    <2> HIDE DEF g
    <2>4. Loops(g, rows, candidates, n + 1)
        BY <2>3 DEF Loops
    <2>. QED
        BY <2>4
<1> HIDE DEF T
<1>3. \A n \in Nat : n \in T
    BY <1>1, <1>2, Induction
<1>. QED
    BY <1>3 DEF T

(* What the loop comes to: for every choice of a row and of one solution of    *)
(* each relation that are compatible, what they make, once.                    *)
THEOREM JoinAllCombines ==
    ASSUME NEW rows \in Seq(Binding), NEW candidates \in Seq(Seq(Binding))
    PROVE JoinAll(rows, candidates) \in Seq(Binding) /\ JoinOfAll(JoinAll(rows, candidates), rows, candidates)
<1> DEFINE n == Len(candidates)
           after == CHOOSE f : Loops(f, rows, candidates, n)
           Kept(k) == /\ after[k].rows \in Seq(Binding)
                      /\ after[k].left \in Seq(Seq(Binding))
                      /\ Len(after[k].left) = n - k
                      /\ \A result \in Seq(Binding) : JoinOfAll(result, after[k].rows, after[k].left)
                                                      => JoinOfAll(result, rows, candidates)
           T == {k \in Nat : k <= n => Kept(k)}
<1>1. n \in Nat
    BY LenProperties
<1>2. JoinAll(rows, candidates) = after[n].rows
    BY DEF JoinAll, Loops
<1>3. Loops(after, rows, candidates, n)
    BY <1>1, LoopsExists
<1> HIDE DEF after, n
<1>4. 0 \in T
    <2>1. after[0] = [rows |-> rows, left |-> candidates]
        BY <1>1, <1>3, LoopsEntry
    <2>. QED
        BY <1>1, <2>1 DEF n
<1>5. ASSUME NEW k \in Nat, k \in T PROVE k + 1 \in T
    <2> SUFFICES ASSUME k + 1 <= n PROVE Kept(k + 1)
        OBVIOUS
    <2>1. Kept(k)
        BY <1>1, <1>5
    <2>2. after[k + 1] = JoinNext(after[k])
        <3>1. PICK m : m = k + 1
            OBVIOUS
        <3>2. m \in 0..n /\ m # 0 /\ m - 1 = k
            BY <1>1, <3>1
        <3>3. after[m] = JoinNext(after[m - 1])
            BY <1>1, <1>3, <3>2, LoopsNext
        <3>. QED
            BY <3>1, <3>2, <3>3
    <2>3. PICK found, left : found = after[k].rows /\ left = after[k].left
        OBVIOUS
    <2>4. found \in Seq(Binding) /\ left \in Seq(Seq(Binding)) /\ Len(left) = n - k /\ n - k >= 1
        BY <1>1, <2>1, <2>3
    <2>5. PICK i : i = NextCandidate(found, left)
        OBVIOUS
    <2>6. i \in DOMAIN left /\ left[i] \in Seq(Binding)
        BY <2>4, <2>5, NextIsOne
    <2>7. after[k + 1] = [rows |-> JoinRelations(found, left[i]), left |-> SwapRemove(left, i)]
        BY <2>2, <2>3, <2>5 DEF JoinNext
    <2>8. JoinRelations(found, left[i]) \in Seq(Binding)
        BY <2>4, <2>6, JoinWhat
    <2>9. SwapRemove(left, i) \in Seq(Seq(Binding)) /\ Len(SwapRemove(left, i)) = Len(left) - 1
        BY <2>4, <2>6, SwapRemoved
    <2>10. ASSUME NEW result \in Seq(Binding), JoinOfAll(result, JoinRelations(found, left[i]), SwapRemove(left, i))
           PROVE JoinOfAll(result, rows, candidates)
        <3>1. JoinOfAll(result, found, left)
            BY <2>4, <2>6, <2>10, JoiningKeeps
        <3>. QED
            BY <2>1, <2>3, <3>1
    <2>11. Len(left) - 1 = n - (k + 1)
        BY <1>1, <2>4
    <2>. QED
        BY <2>7, <2>8, <2>9, <2>10, <2>11
<1>6. Kept(n)
    <2> HIDE DEF Kept
    <2> HIDE DEF T
    <2>1. \A k \in Nat : k \in T
        BY <1>4, <1>5, Induction
    <2>. QED
        BY <1>1, <2>1 DEF T
<1>7. after[n].left = <<>>
    BY <1>1, <1>6
<1>8. JoinOfAll(after[n].rows, after[n].rows, <<>>)
    BY <1>6, NoneLeft
<1>. QED
    BY <1>2, <1>6, <1>7, <1>8

(* The relations in another order.                                             *)
LEMMA JoinInOrder ==
    ASSUME NEW rows \in Seq(Binding), NEW candidates \in Seq(Seq(Binding)), NEW result \in Seq(Binding),
           NEW order \in [DOMAIN candidates -> DOMAIN candidates],
           \A i \in DOMAIN candidates : \E j \in DOMAIN candidates : order[j] = i,
           \A i, j \in DOMAIN candidates : order[i] = order[j] => i = j,
           JoinOfAll(result, rows, [i \in DOMAIN candidates |-> candidates[order[i]]])
    PROVE JoinOfAll(result, rows, candidates)
<1> DEFINE written == [i \in DOMAIN candidates |-> candidates[order[i]]]
<1>1. PICK row, choice : IsEach(row, choice, result, rows, written)
    BY DEF JoinOfAll
<1>2. DOMAIN written = DOMAIN candidates /\ \A i \in DOMAIN candidates : written[i] = candidates[order[i]]
    OBVIOUS
<1> HIDE DEF written
<1>3. PICK back \in [DOMAIN candidates -> DOMAIN candidates] : \A i \in DOMAIN candidates : order[back[i]] = i
    <2>1. [i \in DOMAIN candidates |-> CHOOSE j \in DOMAIN candidates : order[j] = i] \in [DOMAIN candidates -> DOMAIN candidates]
        OBVIOUS
    <2>. QED
        BY <2>1
<1>4. \A i \in DOMAIN candidates : back[order[i]] = i
    BY <1>3
<1> DEFINE Turned(chosen) == [i \in DOMAIN candidates |-> chosen[back[i]]]
           each == [m \in DOMAIN result |-> Turned(choice[m])]
<1>5. ASSUME NEW chosen \in [DOMAIN candidates -> Nat], \A i \in DOMAIN candidates : chosen[i] \in DOMAIN written[i]
      PROVE Turned(chosen) \in [DOMAIN candidates -> Nat] /\ \A i \in DOMAIN candidates : Turned(chosen)[i] \in DOMAIN candidates[i]
    <2>1. ASSUME NEW i \in DOMAIN candidates PROVE Turned(chosen)[i] \in Nat /\ Turned(chosen)[i] \in DOMAIN candidates[i]
        <3>1. PICK j \in DOMAIN candidates : j = back[i] /\ order[j] = i
            BY <1>3
        <3>2. Turned(chosen)[i] = chosen[j]
            BY <3>1
        <3>. QED
            BY <1>2, <1>5, <3>1, <3>2
    <2>. QED
        BY <2>1
<1>6. ASSUME NEW chosen \in [DOMAIN candidates -> Nat], NEW s, NEW r
      PROVE Combines(r, Selected(written, chosen), s) <=> Combines(r, Selected(candidates, Turned(chosen)), s)
    <2>1. PICK a, b : a = Selected(written, chosen) /\ b = Selected(candidates, Turned(chosen))
        OBVIOUS
    <2>2. DOMAIN a = DOMAIN candidates /\ DOMAIN b = DOMAIN candidates
        BY <1>2, <2>1 DEF Selected
    <2>3. ASSUME NEW i \in DOMAIN candidates PROVE b[i] = a[back[i]] /\ a[i] = b[order[i]]
        <3>1. \A j \in DOMAIN candidates : Turned(chosen)[j] = chosen[back[j]]
            OBVIOUS
        <3> HIDE DEF Turned
        <3>2. \A j \in DOMAIN candidates : a[j] = written[j][chosen[j]] /\ b[j] = candidates[j][Turned(chosen)[j]]
            BY <1>2, <2>1 DEF Selected
        <3>3. back[i] \in DOMAIN candidates /\ order[i] \in DOMAIN candidates /\ order[back[i]] = i /\ back[order[i]] = i
            BY <1>3, <1>4
        <3>4. written[i] = candidates[order[i]] /\ written[back[i]] = candidates[i]
            BY <1>2, <3>3
        <3>5. b[i] = candidates[i][chosen[back[i]]] /\ a[back[i]] = written[back[i]][chosen[back[i]]]
            BY <3>1, <3>2, <3>3
        <3>6. a[i] = written[i][chosen[i]] /\ b[order[i]] = candidates[order[i]][chosen[i]]
            <4>1. PICK k \in DOMAIN candidates : k = order[i] /\ back[k] = i
                BY <3>3
            <4>2. Turned(chosen)[k] = chosen[i] /\ b[k] = candidates[k][Turned(chosen)[k]]
                BY <3>1, <3>2, <4>1
            <4>3. a[i] = written[i][chosen[i]]
                BY <3>2
            <4>. QED
                BY <4>1, <4>2, <4>3
        <3>. QED
            BY <3>4, <3>5, <3>6
    <2>4. \A i \in DOMAIN candidates : back[i] \in DOMAIN candidates /\ order[i] \in DOMAIN candidates
        BY <1>3
    <2>5. (\A i \in DOMAIN candidates, v \in Variables : a[i][v] \in {Unbound, s[v]}) <=> \A i \in DOMAIN candidates, v \in Variables : b[i][v] \in {Unbound, s[v]}
        <3>1. ASSUME \A i \in DOMAIN candidates, v \in Variables : a[i][v] \in {Unbound, s[v]},
                     NEW i \in DOMAIN candidates, NEW v \in Variables
              PROVE b[i][v] \in {Unbound, s[v]}
            <4>1. PICK j \in DOMAIN candidates : b[i] = a[j]
                BY <2>3, <2>4
            <4>. QED
                BY <3>1, <4>1
        <3>2. ASSUME \A i \in DOMAIN candidates, v \in Variables : b[i][v] \in {Unbound, s[v]},
                     NEW i \in DOMAIN candidates, NEW v \in Variables
              PROVE a[i][v] \in {Unbound, s[v]}
            <4>1. PICK j \in DOMAIN candidates : a[i] = b[j]
                BY <2>3, <2>4
            <4>. QED
                BY <3>2, <4>1
        <3>. QED
            BY <3>1, <3>2
    <2>6. ASSUME NEW v \in Variables PROVE (\E i \in DOMAIN candidates : a[i][v] # Unbound) <=> \E i \in DOMAIN candidates : b[i][v] # Unbound
        <3>1. ASSUME NEW i \in DOMAIN candidates, a[i][v] # Unbound PROVE \E j \in DOMAIN candidates : b[j][v] # Unbound
            <4>1. PICK j \in DOMAIN candidates : a[i] = b[j]
                BY <2>3, <2>4
            <4>. QED
                BY <3>1, <4>1
        <3>2. ASSUME NEW i \in DOMAIN candidates, b[i][v] # Unbound PROVE \E j \in DOMAIN candidates : a[j][v] # Unbound
            <4>1. PICK j \in DOMAIN candidates : b[i] = a[j]
                BY <2>3, <2>4
            <4>. QED
                BY <3>2, <4>1
        <3>. QED
            BY <3>1, <3>2
    <2>7. Combines(r, a, s) <=> Combines(r, b, s)
        BY <2>2, <2>5, <2>6 DEF Combines
    <2>. QED
        BY <2>1, <2>7
<1>7. ASSUME NEW chosen \in [DOMAIN candidates -> Nat], NEW other \in [DOMAIN candidates -> Nat], Turned(chosen) = Turned(other) PROVE chosen = other
    <2>1. ASSUME NEW i \in DOMAIN candidates PROVE chosen[i] = other[i]
        <3>1. order[i] \in DOMAIN candidates /\ back[order[i]] = i
            BY <1>4
        <3>2. Turned(chosen)[order[i]] = chosen[i] /\ Turned(other)[order[i]] = other[i]
            BY <3>1
        <3>. QED
            BY <1>7, <3>2
    <2>. QED
        BY <2>1
<1>8. ASSUME NEW whole \in [DOMAIN candidates -> Nat], \A i \in DOMAIN candidates : whole[i] \in DOMAIN candidates[i]
      PROVE \E chosen \in [DOMAIN candidates -> Nat] : (\A i \in DOMAIN candidates : chosen[i] \in DOMAIN written[i]) /\ Turned(chosen) = whole
    <2>1. \A i \in DOMAIN candidates : order[i] \in DOMAIN candidates
        OBVIOUS
    <2>2. PICK chosen \in [DOMAIN candidates -> Nat] : \A i \in DOMAIN candidates : chosen[i] = whole[order[i]]
        <3>1. [i \in DOMAIN candidates |-> whole[order[i]]] \in [DOMAIN candidates -> Nat]
            BY <2>1
        <3>. QED
            BY <3>1
    <2>3. \A i \in DOMAIN candidates : chosen[i] \in DOMAIN written[i]
        BY <1>2, <1>8, <2>1, <2>2
    <2>4. \A i \in DOMAIN candidates : chosen[back[i]] = whole[i]
        BY <1>3, <2>2
    <2>5. Turned(chosen) = whole
        BY <2>4
    <2>. QED
        BY <2>3, <2>5
<1>9. \A m \in DOMAIN result : each[m] = Turned(choice[m])
    OBVIOUS
<1>10. /\ choice \in [DOMAIN result -> [DOMAIN candidates -> Nat]]
       /\ \A m \in DOMAIN result : \A i \in DOMAIN candidates : choice[m][i] \in DOMAIN written[i]
       /\ \A m \in DOMAIN result : Combines(rows[row[m]], Selected(written, choice[m]), result[m])
       /\ \A m, o \in DOMAIN result : row[m] = row[o] /\ choice[m] = choice[o] => m = o
    BY <1>1, <1>2 DEF IsEach
<1>17. row \in [DOMAIN result -> DOMAIN rows]
    BY <1>1 DEF IsEach
<1>18. ASSUME NEW k \in DOMAIN rows, NEW chosen \in [DOMAIN candidates -> Nat], NEW s \in Binding,
              \A i \in DOMAIN candidates : chosen[i] \in DOMAIN written[i], Combines(rows[k], Selected(written, chosen), s)
       PROVE \E m \in DOMAIN result : row[m] = k /\ choice[m] = chosen
    <2>1. chosen \in [DOMAIN written -> Nat]
        BY <1>2
    <2>2. \A i \in DOMAIN written : chosen[i] \in DOMAIN written[i]
        BY <1>2, <1>18
    <2>. QED
        BY <1>1, <1>18, <2>1, <2>2 DEF IsEach
<1> HIDE DEF Turned
<1>11. each \in [DOMAIN result -> [DOMAIN candidates -> Nat]]
    BY <1>5, <1>10
<1> HIDE DEF each
<1>12. \A m \in DOMAIN result : \A i \in DOMAIN candidates : each[m][i] \in DOMAIN candidates[i]
    <2>1. ASSUME NEW m \in DOMAIN result PROVE \A i \in DOMAIN candidates : each[m][i] \in DOMAIN candidates[i]
        <3>1. PICK chosen \in [DOMAIN candidates -> Nat] : chosen = choice[m]
            BY <1>10
        <3>2. \A i \in DOMAIN candidates : chosen[i] \in DOMAIN written[i]
            BY <1>10, <3>1
        <3>. QED
            BY <1>5, <1>9, <3>1, <3>2
    <2>. QED
        BY <2>1
<1>13. \A m \in DOMAIN result : Combines(rows[row[m]], Selected(candidates, each[m]), result[m])
    BY <1>6, <1>9, <1>10
<1>14. \A m, o \in DOMAIN result : row[m] = row[o] /\ each[m] = each[o] => m = o
    <2>1. ASSUME NEW m \in DOMAIN result, NEW o \in DOMAIN result, row[m] = row[o], each[m] = each[o] PROVE m = o
        <3>1. choice[m] \in [DOMAIN candidates -> Nat] /\ choice[o] \in [DOMAIN candidates -> Nat]
            BY <1>10
        <3>2. Turned(choice[m]) = Turned(choice[o])
            BY <1>9, <2>1
        <3>3. choice[m] = choice[o]
            BY <1>7, <3>1, <3>2
        <3>. QED
            BY <1>10, <2>1, <3>3
    <2>. QED
        BY <2>1
<1>15. ASSUME NEW k \in DOMAIN rows, NEW whole \in [DOMAIN candidates -> Nat], NEW s \in Binding,
              \A i \in DOMAIN candidates : whole[i] \in DOMAIN candidates[i], Combines(rows[k], Selected(candidates, whole), s)
       PROVE \E m \in DOMAIN result : row[m] = k /\ each[m] = whole
    <2>1. PICK chosen \in [DOMAIN candidates -> Nat] : (\A i \in DOMAIN candidates : chosen[i] \in DOMAIN written[i]) /\ Turned(chosen) = whole
        BY <1>8, <1>15
    <2>2. Combines(rows[k], Selected(written, chosen), s)
        BY <1>6, <1>15, <2>1
    <2>3. PICK m \in DOMAIN result : row[m] = k /\ choice[m] = chosen
        BY <1>18, <2>1, <2>2
    <2>. QED
        BY <1>9, <2>1, <2>3
<1>16. IsEach(row, each, result, rows, candidates)
    BY <1>11, <1>12, <1>13, <1>14, <1>15, <1>17 DEF IsEach
<1>. QED
    BY <1>16 DEF JoinOfAll

(* The triples of a group may be written in any order: whatever the order of   *)
(* their relations, the loop of select_bgp ends with the same solutions, each  *)
(* as often, though it joins them in another order (lib.rs:756 says so of the  *)
(* text of a query, lib.rs:947 of the join).                                   *)
THEOREM JoinsInAnyOrder ==
    ASSUME NEW rows \in Seq(Binding), NEW candidates \in Seq(Seq(Binding)),
           NEW order \in [DOMAIN candidates -> DOMAIN candidates],
           \A i \in DOMAIN candidates : \E j \in DOMAIN candidates : order[j] = i,
           \A i, j \in DOMAIN candidates : order[i] = order[j] => i = j
    PROVE SameSolutions(JoinAll(rows, [i \in DOMAIN candidates |-> candidates[order[i]]]), JoinAll(rows, candidates))
<1> DEFINE written == [i \in DOMAIN candidates |-> candidates[order[i]]]
<1>1. DOMAIN candidates = 1..Len(candidates) /\ Len(candidates) \in Nat
    BY LenProperties
<1>2. written \in Seq(Seq(Binding))
    BY <1>1
<1>3. JoinAll(rows, candidates) \in Seq(Binding) /\ JoinOfAll(JoinAll(rows, candidates), rows, candidates)
    BY JoinAllCombines
<1>4. PICK result \in Seq(Binding) : result = JoinAll(rows, written) /\ JoinOfAll(result, rows, written)
    <2> HIDE DEF written
    <2>. QED
        BY <1>2, JoinAllCombines
<1>5. JoinOfAll(result, rows, candidates)
    BY <1>4, JoinInOrder
<1>. QED
    BY <1>3, <1>4, <1>5, JoinIsOne
=============================================================================
