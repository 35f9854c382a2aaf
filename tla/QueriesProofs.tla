--------------------------- MODULE QueriesProofs ---------------------------
(* Proofs about Indexes and Reports, for any store, any commands and any    *)
(* limits.  An index or a report keeps what it was made from, in lists that *)
(* were sorted, joined, summed up or run through: the first part says what  *)
(* Common's operators make of a list, whatever is in it.                    *)
EXTENDS Indexes, Reports, SequenceTheorems, FiniteSetTheorems,
        WellFoundedInduction, TLAPS

-----------------------------------------------------------------------------
(* Induction up to a number, over the set of the numbers that are right.    *)
LEMMA Induct ==
    ASSUME NEW N \in Nat, NEW T, 0 \in T,
           \A n \in 1..N : n - 1 \in T => n \in T
    PROVE  \A n \in 0..N : n \in T
<1> DEFINE Bad == {n \in 0..N : n \notin T}
<1>1. SUFFICES ASSUME Bad # {} PROVE FALSE
  OBVIOUS
<1>2. PICK x \in Bad : \A y \in Bad : <<y, x>> \notin OpToRel(<, Nat)
  <2>1. Bad \subseteq Nat
    OBVIOUS
  <2> QED
    BY <1>1, <2>1, NatLessThanWellFounded, WFMin
<1>3. x \in 1..N /\ x - 1 \in 0..N
  OBVIOUS
<1>4. x - 1 \notin Bad
  <2>1. x \in Nat /\ x - 1 \in Nat /\ x - 1 < x
    BY <1>3
  <2>2. <<x - 1, x>> \in OpToRel(<, Nat)
    BY <2>1 DEF OpToRel
  <2> HIDE DEF Bad
  <2> QED
    BY <1>2, <2>2
<1>5. x - 1 \in T
  BY <1>3, <1>4
<1>6. x \in T
  BY <1>3, <1>5
<1> QED
  BY <1>6

\* The runs of N steps from a, each of them a step of S.
RunsOf(N, S, a, step) ==
    {f \in [0..N -> S] : f[0] = a /\ \A n \in 1..N : f[n] = step[n][f[n - 1]]}

(* A step leads from any value to a run of as many steps as one likes.      *)
LEMMA Recursion ==
    ASSUME NEW N \in Nat, NEW S, NEW a \in S, NEW step \in [1..N -> [S -> S]]
    PROVE  RunsOf(N, S, a, step) # {}
<1> DEFINE T == {n \in 0..N : RunsOf(n, S, a, step) # {}}
<1>1. 0 \in T
  <2>1. [i \in 0..0 |-> a] \in RunsOf(0, S, a, step)
    BY DEF RunsOf
  <2> QED
    BY <2>1
<1>2. ASSUME NEW n \in 1..N, n - 1 \in T PROVE n \in T
  <2>1. PICK f \in [0..(n - 1) -> S] :
           f[0] = a /\ \A i \in 1..(n - 1) : f[i] = step[i][f[i - 1]]
    BY <1>2 DEF RunsOf
  <2> DEFINE g == [i \in 0..n |-> IF i = n THEN step[n][f[n - 1]] ELSE f[i]]
  <2>2. f[n - 1] \in S /\ step[n][f[n - 1]] \in S
    OBVIOUS
  <2>3. g \in [0..n -> S] /\ g[0] = a
    BY <2>1, <2>2
  <2>4. \A i \in 1..n : g[i] = step[i][g[i - 1]]
    <3>1. ASSUME NEW i \in 1..n PROVE g[i] = step[i][g[i - 1]]
      <4>1. CASE i = n
        BY <4>1
      <4>2. CASE i # n
        BY <4>2, <2>1
      <4> QED
        BY <4>1, <4>2
    <3> QED
      BY <3>1
  <2>5. g \in RunsOf(n, S, a, step)
    BY <2>3, <2>4 DEF RunsOf
  <2> QED
    BY <2>5
<1> HIDE DEF T
<1>3. N \in T
  <2>1. \A n \in 0..N : n \in T
    BY <1>1, <1>2, Induct
  <2> QED
    BY <2>1
<1> QED
  BY <1>3 DEF T

(* What a run goes through.                                                 *)
LEMMA RunSteps ==
    ASSUME NEW N \in Nat, NEW S, NEW a, NEW step,
           NEW f \in RunsOf(N, S, a, step), NEW n \in 1..N
    PROVE  f[n - 1] \in S /\ f[n] \in S /\ f[n] = step[n][f[n - 1]]
<1>1. n - 1 \in 0..N /\ n \in 0..N
  OBVIOUS
<1>2. f \in [0..N -> S] /\ f[n] = step[n][f[n - 1]]
  BY DEF RunsOf
<1> QED
  BY <1>1, <1>2

(* A function that begins like a run and goes on like it is one.            *)
LEMMA RunIs ==
    ASSUME NEW N \in Nat, NEW S, NEW a \in S, NEW step \in [1..N -> [S -> S]],
           NEW g, DOMAIN g = 0..N, g = [n \in DOMAIN g |-> g[n]], g[0] = a,
           \A n \in 1..N : g[n - 1] \in S => g[n] = step[n][g[n - 1]]
    PROVE  g \in RunsOf(N, S, a, step)
<1> DEFINE T == {n \in 0..N : g[n] \in S}
<1>1. 0 \in T
  OBVIOUS
<1>2. ASSUME NEW n \in 1..N, n - 1 \in T PROVE n \in T
  <2>1. g[n - 1] \in S
    BY <1>2
  <2>2. g[n] = step[n][g[n - 1]]
    BY <2>1
  <2>3. step[n] \in [S -> S]
    OBVIOUS
  <2>4. n \in 0..N
    OBVIOUS
  <2> QED
    BY <2>1, <2>2, <2>3, <2>4
<1>3. \A n \in 0..N : n \in T
  <2> HIDE DEF T
  <2> QED
    BY <1>1, <1>2, Induct
<1>4. \A n \in 0..N : g[n] \in S
  BY <1>3
<1>5. g \in [0..N -> S]
  BY <1>4
<1>6. \A n \in 1..N : g[n] = step[n][g[n - 1]]
  <2>1. ASSUME NEW n \in 1..N PROVE g[n] = step[n][g[n - 1]]
    <3>1. n - 1 \in 0..N
      OBVIOUS
    <3> QED
      BY <3>1, <1>4
  <2> QED
    BY <2>1
<1> QED
  BY <1>5, <1>6 DEF RunsOf

-----------------------------------------------------------------------------
\* The order has every two elements of the set one way round.
TotalOn(order, set) ==
    /\ \A x, y \in set : <<x, y>> \in order \/ <<y, x>> \in order
    /\ \A x, y \in set : <<x, y>> \in order /\ <<y, x>> \in order => x = y
    /\ \A x, y, z \in set :
          <<x, y>> \in order /\ <<y, z>> \in order => <<x, z>> \in order

\* The list goes through the set, each element once, as the order has them.
Goes(list, set, order) ==
    /\ list \in [1..Cardinality(set) -> set]
    /\ \A i, j \in 1..Cardinality(set) : i # j => list[i] # list[j]
    /\ \A i, j \in 1..Cardinality(set) : i < j => <<list[i], list[j]>> \in order
    /\ \A x \in set : \E i \in 1..Cardinality(set) : list[i] = x

(* A finite set is arranged as a total order of it has it.                  *)
LEMMA ArrangedGoes ==
    ASSUME NEW set, IsFiniteSet(set), NEW order, TotalOn(order, set)
    PROVE  Goes(Arranged(set, order), set, order)
<1> DEFINE n == Cardinality(set)
           Upto(x) == {y \in set : <<y, x>> \in order}
           rank == [x \in set |-> Cardinality(Upto(x))]
<1>1. n \in Nat
  BY FS_CardinalityType
<1>2. \A x \in set : IsFiniteSet(Upto(x)) /\ rank[x] \in Nat /\ rank[x] <= n
  <2>1. ASSUME NEW x \in set
        PROVE  IsFiniteSet(Upto(x)) /\ rank[x] \in Nat /\ rank[x] <= n
    <3>1. Upto(x) \in SUBSET set
      OBVIOUS
    <3>2. IsFiniteSet(Upto(x)) /\ Cardinality(Upto(x)) <= n
      <4> HIDE DEF Upto
      <4> QED
        BY <3>1, FS_Subset
    <3> QED
      BY <3>2, FS_CardinalityType
  <2> QED
    BY <2>1
<1>3. ASSUME NEW x \in set, NEW y \in set, x # y, <<x, y>> \in order
      PROVE  rank[x] < rank[y]
  <2>1. Upto(x) \in SUBSET Upto(y)
    BY <1>3 DEF TotalOn
  <2>2. y \in Upto(y) /\ y \notin Upto(x)
    BY <1>3 DEF TotalOn
  <2>3. Upto(x) # Upto(y)
    BY <2>2
  <2>4. IsFiniteSet(Upto(x)) /\ IsFiniteSet(Upto(y))
    BY <1>2
  <2>5. /\ Cardinality(Upto(x)) <= Cardinality(Upto(y))
        /\ Cardinality(Upto(x)) # Cardinality(Upto(y))
    <3> HIDE DEF Upto
    <3> QED
      BY <2>1, <2>3, <2>4, FS_Subset
  <2>6. rank[x] = Cardinality(Upto(x)) /\ rank[y] = Cardinality(Upto(y))
    OBVIOUS
  <2>7. rank[x] \in Nat /\ rank[y] \in Nat
    BY <1>2
  <2> HIDE DEF Upto, rank
  <2> QED
    BY <2>5, <2>6, <2>7
<1>4. \A x \in set : rank[x] \in 1..n
  <2>1. ASSUME NEW x \in set PROVE rank[x] # 0
    <3>1. x \in Upto(x)
      BY DEF TotalOn
    <3>2. IsFiniteSet(Upto(x)) /\ Upto(x) # {}
      BY <1>2, <3>1
    <3>3. Cardinality(Upto(x)) # 0
      <4> HIDE DEF Upto
      <4> QED
        BY <3>2, FS_EmptySet
    <3> QED
      BY <3>3
  <2> HIDE DEF rank, n, Upto
  <2> QED
    BY <2>1, <1>1, <1>2
<1>5. \A x, y \in set : x # y => rank[x] # rank[y]
  <2>1. ASSUME NEW x \in set, NEW y \in set, x # y PROVE rank[x] # rank[y]
    <3>1. rank[x] \in Nat /\ rank[y] \in Nat
      BY <1>2
    <3>2. <<x, y>> \in order \/ <<y, x>> \in order
      BY DEF TotalOn
    <3>3. rank[x] < rank[y] \/ rank[y] < rank[x]
      <4> HIDE DEF rank
      <4> QED
        BY <3>2, <2>1, <1>3
    <3> HIDE DEF rank
    <3> QED
      BY <3>1, <3>3
  <2> QED
    BY <2>1
<1>6. rank \in Injection(set, 1..n)
  <2>1. rank \in [set -> 1..n]
    BY <1>4
  <2> HIDE DEF rank
  <2> QED
    BY <2>1, <1>5 DEF Injection, IsInjective
<1>7. \A i \in 1..n : \E x \in set : rank[x] = i
  <2>1. IsFiniteSet(1..n) /\ Cardinality(1..n) = n
    <3> HIDE DEF n
    <3> QED
      BY <1>1, FS_Interval
  <2>2. Cardinality(set) = Cardinality(1..n)
    BY <2>1
  <2>3. rank \in Surjection(set, 1..n)
    <3> HIDE DEF rank, n
    <3> QED
      BY <1>6, <2>1, <2>2, FS_Injection
  <2> HIDE DEF rank, n
  <2> QED
    BY <2>3 DEF Surjection
<1> DEFINE list == [i \in 1..n |-> CHOOSE x \in set : rank[x] = i]
<1>8. Arranged(set, order) = list
  BY DEF Arranged
<1>9. \A i \in 1..n : list[i] \in set /\ rank[list[i]] = i
  <2>1. ASSUME NEW i \in 1..n PROVE list[i] \in set /\ rank[list[i]] = i
    <3>1. \E x \in set : rank[x] = i
      BY <1>7
    <3>2. list[i] = CHOOSE x \in set : rank[x] = i
      OBVIOUS
    <3> HIDE DEF rank, list, n
    <3> QED
      BY <3>1, <3>2
  <2> QED
    BY <2>1
<1>10. list \in [1..n -> set]
  <2>1. \A i \in 1..n : (CHOOSE x \in set : rank[x] = i) \in set
    <3> HIDE DEF rank, n
    <3> QED
      BY <1>7
  <2> HIDE DEF rank, n
  <2> QED
    BY <2>1
<1>11. \A x \in set : \E i \in 1..n : list[i] = x
  <2>1. ASSUME NEW x \in set PROVE list[rank[x]] = x
    <3> HIDE DEF rank, list
    <3> QED
      BY <1>4, <1>9, <1>5
  <2> HIDE DEF rank, list, n
  <2> QED
    BY <2>1, <1>4
<1>12. \A i, j \in 1..n : i < j => <<list[i], list[j]>> \in order
  <2>1. ASSUME NEW i \in 1..n, NEW j \in 1..n, i < j
        PROVE  <<list[i], list[j]>> \in order
    <3>1. /\ list[i] \in set /\ list[j] \in set
          /\ rank[list[i]] = i /\ rank[list[j]] = j
      <4> HIDE DEF rank, list
      <4> QED
        BY <1>9
    <3>2. list[i] # list[j]
      <4> HIDE DEF rank, list
      <4> QED
        BY <3>1, <2>1, <1>1
    <3>3. <<list[i], list[j]>> \in order \/ <<list[j], list[i]>> \in order
      <4> HIDE DEF rank, list
      <4> QED
        BY <3>1 DEF TotalOn
    <3>4. ~(rank[list[j]] < rank[list[i]])
      <4> HIDE DEF rank, list
      <4> QED
        BY <3>1, <2>1, <1>1
    <3> HIDE DEF rank, list
    <3> QED
      BY <3>1, <3>2, <3>3, <3>4, <1>3
  <2> HIDE DEF list, n
  <2> QED
    BY <2>1
<1>13. \A i, j \in 1..n : i # j => list[i] # list[j]
  <2> HIDE DEF rank, list, n
  <2> QED
    BY <1>9
<1> HIDE DEF list
<1> QED
  BY <1>8, <1>10, <1>11, <1>12, <1>13 DEF Goes

\* A list, rearranged as an order of its places has it.
Rearranged(list, sorted, order) ==
    \E place \in [DOMAIN list -> DOMAIN list] :
        /\ \A i, j \in DOMAIN list : i # j => place[i] # place[j]
        /\ \A i, j \in DOMAIN list : i < j => <<place[i], place[j]>> \in order
        /\ \A x \in DOMAIN list : \E i \in DOMAIN list : place[i] = x
        /\ sorted = [i \in DOMAIN list |-> list[place[i]]]

(* The places of a list, arranged, rearrange it.                            *)
LEMMA ArrangedList ==
    ASSUME NEW S, NEW list \in Seq(S), NEW order, TotalOn(order, DOMAIN list)
    PROVE  Rearranged(list, [i \in DOMAIN list |->
                                list[Arranged(DOMAIN list, order)[i]]], order)
<1> DEFINE place == Arranged(DOMAIN list, order)
<1>1. /\ DOMAIN list = 1..Len(list)
      /\ IsFiniteSet(DOMAIN list)
      /\ Cardinality(DOMAIN list) = Len(list)
  <2>1. Len(list) \in Nat /\ DOMAIN list = 1..Len(list)
    OBVIOUS
  <2>2. IsFiniteSet(1..Len(list)) /\ Cardinality(1..Len(list)) = Len(list)
    BY <2>1, FS_Interval
  <2> QED
    BY <2>1, <2>2
<1>2. Goes(place, DOMAIN list, order)
  BY <1>1, ArrangedGoes
<1> HIDE DEF place
<1>3. /\ place \in [DOMAIN list -> DOMAIN list]
      /\ \A i, j \in DOMAIN list : i # j => place[i] # place[j]
      /\ \A i, j \in DOMAIN list : i < j => <<place[i], place[j]>> \in order
      /\ \A x \in DOMAIN list : \E i \in DOMAIN list : place[i] = x
  BY <1>1, <1>2 DEF Goes
<1>4. Rearranged(list, [i \in DOMAIN list |-> list[place[i]]], order)
  BY <1>3 DEF Rearranged
<1> QED
  BY <1>4 DEF place

(* What is rearranged is the same list but for its order.                   *)
LEMMA RearrangedKeeps ==
    ASSUME NEW S, NEW list \in Seq(S), NEW order, NEW sorted,
           Rearranged(list, sorted, order)
    PROVE  /\ sorted \in Seq(S)
           /\ Len(sorted) = Len(list)
           /\ DOMAIN sorted = DOMAIN list
           /\ Range(sorted) = Range(list)
<1>1. PICK place \in [DOMAIN list -> DOMAIN list] :
        /\ \A x \in DOMAIN list : \E i \in DOMAIN list : place[i] = x
        /\ sorted = [i \in DOMAIN list |-> list[place[i]]]
  BY DEF Rearranged
<1>2. Len(list) \in Nat /\ DOMAIN list = 1..Len(list)
  OBVIOUS
<1>3. sorted \in [1..Len(list) -> S]
  BY <1>1, <1>2
<1>4. sorted \in Seq(S) /\ Len(sorted) = Len(list)
  BY <1>2, <1>3
<1>5. Range(sorted) = Range(list)
  <2>1. ASSUME NEW x \in Range(sorted) PROVE x \in Range(list)
    BY <1>1 DEF Range
  <2>2. ASSUME NEW x \in Range(list) PROVE x \in Range(sorted)
    <3>1. PICK k \in DOMAIN list : list[k] = x
      BY DEF Range
    <3>2. PICK i \in DOMAIN list : place[i] = k
      BY <1>1
    <3>3. sorted[i] = x /\ i \in DOMAIN sorted
      BY <1>1, <3>1, <3>2
    <3> QED
      BY <3>3 DEF Range
  <2> QED
    BY <2>1, <2>2
<1> QED
  BY <1>1, <1>4, <1>5

(* The numbers of a finite set are put in order.                            *)
LEMMA InOrderIs ==
    ASSUME NEW set \in SUBSET Nat, IsFiniteSet(set)
    PROVE  /\ Cardinality(set) \in Nat
           /\ InOrder(set) \in [1..Cardinality(set) -> set]
           /\ InOrder(set) \in Seq(set)
           /\ Len(InOrder(set)) = Cardinality(set)
           /\ DOMAIN InOrder(set) = 1..Cardinality(set)
           /\ \A i, j \in 1..Cardinality(set) :
                 i < j => InOrder(set)[i] < InOrder(set)[j]
           /\ \A x \in set : \E i \in 1..Cardinality(set) : InOrder(set)[i] = x
<1> DEFINE order == {pair \in set \X set : pair[1] <= pair[2]}
           n == Cardinality(set)
<1>1. \A x, y \in set : <<x, y>> \in order <=> x <= y
  OBVIOUS
<1>2. TotalOn(order, set)
  <2> HIDE DEF order
  <2> QED
    BY <1>1 DEF TotalOn
<1>3. n \in Nat
  BY FS_CardinalityType
<1>4. Goes(InOrder(set), set, order)
  BY <1>2, ArrangedGoes DEF InOrder
<1> HIDE DEF order, n
<1>5. /\ InOrder(set) \in [1..n -> set]
      /\ \A i, j \in 1..n : i # j => InOrder(set)[i] # InOrder(set)[j]
      /\ \A i, j \in 1..n : i < j => <<InOrder(set)[i], InOrder(set)[j]>> \in order
      /\ \A x \in set : \E i \in 1..n : InOrder(set)[i] = x
  BY <1>4 DEF Goes, n
<1>6. \A i, j \in 1..n : i < j => InOrder(set)[i] < InOrder(set)[j]
  <2>1. ASSUME NEW i \in 1..n, NEW j \in 1..n, i < j
        PROVE  InOrder(set)[i] < InOrder(set)[j]
    <3>1. InOrder(set)[i] \in set /\ InOrder(set)[j] \in set
      BY <1>5
    <3>2. InOrder(set)[i] # InOrder(set)[j]
      BY <1>3, <1>5, <2>1
    <3>3. InOrder(set)[i] <= InOrder(set)[j]
      <4>1. <<InOrder(set)[i], InOrder(set)[j]>> \in order
        BY <1>5, <2>1
      <4> QED
        BY <1>1, <4>1, <3>1
    <3>4. InOrder(set)[i] \in Nat /\ InOrder(set)[j] \in Nat
      BY <3>1
    <3> QED
      BY <3>2, <3>3, <3>4
  <2> QED
    BY <2>1
<1>7. InOrder(set) \in Seq(set) /\ Len(InOrder(set)) = n
  BY <1>3, <1>5
<1> QED
  BY <1>3, <1>5, <1>6, <1>7 DEF n

-----------------------------------------------------------------------------
Flats(lists) ==
    CHOOSE flat : flat = [n \in 0..Len(lists) |->
                             IF n = 0 THEN <<>> ELSE flat[n - 1] \o lists[n]]

(* The lists Flat goes through are there.                                   *)
LEMMA FlatsAre ==
    ASSUME NEW S, NEW lists \in Seq(Seq(S))
    PROVE  /\ Flat(lists) = Flats(lists)[Len(lists)]
           /\ Flats(lists)[0] = <<>>
           /\ \A n \in 1..Len(lists) :
                 /\ Flats(lists)[n - 1] \in Seq(S)
                 /\ Flats(lists)[n] = Flats(lists)[n - 1] \o lists[n]
                 /\ Flats(lists)[n] \in Seq(S)
<1> DEFINE N == Len(lists)
           V == Seq(S)
           a == <<>>
           On(x, n) == x \o lists[n]
           step == [n \in 1..N |-> [x \in V |-> On(x, n)]]
           P(f) == f = [n \in 0..N |-> IF n = 0 THEN a ELSE On(f[n - 1], n)]
<1>1. N \in Nat /\ a \in V /\ step \in [1..N -> [V -> V]]
  OBVIOUS
<1>2. \A n \in 1..N : \A x \in V : step[n][x] = On(x, n)
  OBVIOUS
<1>3. Flats(lists) = CHOOSE g : P(g)
  BY DEF Flats
<1>4. Flat(lists) = Flats(lists)[N]
  BY DEF Flat, Flats
<1> HIDE DEF step, N, V, a, On
<1>5. PICK f : f \in RunsOf(N, V, a, step)
  BY <1>1, Recursion
<1>6. P(f)
  <2>1. \A n \in 0..N : f[n] = IF n = 0 THEN a ELSE On(f[n - 1], n)
    <3>1. f[0] = a
      BY <1>5 DEF RunsOf
    <3>2. ASSUME NEW n \in 1..N PROVE f[n] = On(f[n - 1], n)
      <4>1. f[n - 1] \in V /\ f[n] = step[n][f[n - 1]]
        BY <1>1, <1>5, RunSteps
      <4> QED
        BY <1>2, <4>1
    <3> QED
      BY <1>1, <3>1, <3>2
  <2>2. f = [n \in 0..N |-> f[n]]
    BY <1>5 DEF RunsOf
  <2> QED
    BY <2>1, <2>2
<1>7. P(Flats(lists))
  <2> HIDE DEF P
  <2> QED
    BY <1>3, <1>6
<1>8. Flats(lists) \in RunsOf(N, V, a, step)
  <2> DEFINE g == Flats(lists)
  <2>1. g = [n \in 0..N |-> IF n = 0 THEN a ELSE On(g[n - 1], n)]
    BY <1>7
  <2> HIDE DEF g
  <2>2. \A n \in 1..N : g[n - 1] \in V => g[n] = step[n][g[n - 1]]
    BY <1>1, <1>2, <2>1
  <2>3. DOMAIN g = 0..N /\ g[0] = a /\ g = [n \in DOMAIN g |-> g[n]]
    BY <1>1, <2>1
  <2>4. g \in RunsOf(N, V, a, step)
    BY <1>1, <2>2, <2>3, RunIs
  <2> QED
    BY <2>4 DEF g
<1>9. Flats(lists)[0] = a
  BY <1>8 DEF RunsOf
<1>10. \A n \in 1..N : /\ Flats(lists)[n - 1] \in V
                       /\ Flats(lists)[n] = On(Flats(lists)[n - 1], n)
                       /\ Flats(lists)[n] \in V
  BY <1>1, <1>2, <1>8, RunSteps
<1> QED
  BY <1>4, <1>9, <1>10 DEF a, N, V, On

(* What two lists, one after the other, hold.                               *)
LEMMA CatHolds ==
    ASSUME NEW S, NEW s \in Seq(S), NEW t \in Seq(S)
    PROVE  /\ s \o t \in Seq(S)
           /\ Len(s \o t) = Len(s) + Len(t)
           /\ Range(s \o t) = Range(s) \cup Range(t)
<1>1. /\ s \o t \in Seq(S)
      /\ Len(s \o t) = Len(s) + Len(t)
      /\ \A i \in 1..(Len(s) + Len(t)) :
            (s \o t)[i] = IF i <= Len(s) THEN s[i] ELSE t[i - Len(s)]
  BY ConcatProperties
<1> DEFINE u == s \o t
           m == Len(s)
           n == Len(t)
<1>2. /\ u \in Seq(S)
      /\ Len(u) = m + n
      /\ \A i \in 1..(m + n) : u[i] = IF i <= m THEN s[i] ELSE t[i - m]
  BY <1>1
<1>3. m \in Nat /\ n \in Nat /\ DOMAIN s = 1..m /\ DOMAIN t = 1..n
  OBVIOUS
<1> HIDE DEF u, m, n
<1>4. DOMAIN u = 1..(m + n)
  BY <1>2
<1>5. ASSUME NEW x \in Range(u) PROVE x \in Range(s) \cup Range(t)
  <2>1. PICK i \in 1..(m + n) : u[i] = x
    BY <1>4 DEF Range
  <2>2. CASE i <= m
    <3>1. i \in 1..m /\ s[i] = x
      BY <1>2, <1>3, <2>1, <2>2
    <3> QED
      BY <1>3, <3>1 DEF Range
  <2>3. CASE i > m
    <3>1. i - m \in 1..n /\ t[i - m] = x
      BY <1>2, <1>3, <2>1, <2>3
    <3> QED
      BY <1>3, <3>1 DEF Range
  <2> QED
    BY <1>3, <2>2, <2>3
<1>6. ASSUME NEW x \in Range(s) PROVE x \in Range(u)
  <2>1. PICK i \in 1..m : s[i] = x
    BY <1>3 DEF Range
  <2>2. i \in 1..(m + n) /\ u[i] = x
    BY <1>2, <1>3, <2>1
  <2> QED
    BY <1>4, <2>2 DEF Range
<1>7. ASSUME NEW x \in Range(t) PROVE x \in Range(u)
  <2>1. PICK i \in 1..n : t[i] = x
    BY <1>3 DEF Range
  <2>2. i + m \in 1..(m + n) /\ u[i + m] = x
    BY <1>2, <1>3, <2>1
  <2> QED
    BY <1>4, <2>2 DEF Range
<1> QED
  BY <1>1, <1>5, <1>6, <1>7 DEF u

(* Lists of things of one kind make a list of them, of them all and of      *)
(* nothing else.                                                            *)
LEMMA FlatIs ==
    ASSUME NEW S, NEW lists \in Seq(Seq(S))
    PROVE  /\ Flat(lists) \in Seq(S)
           /\ \A x \in Range(Flat(lists)) : \E n \in DOMAIN lists : x \in Range(lists[n])
<1>1. /\ Flat(lists) = Flats(lists)[Len(lists)]
      /\ Flats(lists)[0] = <<>>
      /\ \A n \in 1..Len(lists) :
            /\ Flats(lists)[n - 1] \in Seq(S)
            /\ Flats(lists)[n] = Flats(lists)[n - 1] \o lists[n]
            /\ Flats(lists)[n] \in Seq(S)
  BY FlatsAre
<1> DEFINE N == Len(lists)
           f == Flats(lists)
           From(x) == \E k \in DOMAIN lists : x \in Range(lists[k])
           T == {n \in 0..N : f[n] \in Seq(S) /\ \A x \in Range(f[n]) : From(x)}
<1>2. N \in Nat /\ DOMAIN lists = 1..N
  OBVIOUS
<1>3. f[0] = <<>>
  BY <1>1
<1>4. \A n \in 1..N : f[n - 1] \in Seq(S) /\ f[n] \in Seq(S)
  BY <1>1
<1>5. ASSUME NEW n \in 1..N PROVE Range(f[n]) = Range(f[n - 1]) \cup Range(lists[n])
  <2>1. f[n] = f[n - 1] \o lists[n]
    BY <1>1
  <2>2. f[n - 1] \in Seq(S) /\ lists[n] \in Seq(S)
    BY <1>4
  <2> HIDE DEF f
  <2> QED
    BY <2>1, <2>2, CatHolds
<1>6. \A n \in 1..N : \A x \in Range(lists[n]) : From(x)
  BY <1>2
<1>7. Flat(lists) = f[N]
  BY <1>1
<1> HIDE DEF f, N, From
<1>8. 0 \in T
  <2>1. f[0] \in Seq(S) /\ Range(f[0]) = {}
    BY <1>3 DEF Range
  <2> QED
    BY <1>2, <2>1
<1>9. ASSUME NEW n \in 1..N, n - 1 \in T PROVE n \in T
  BY <1>2, <1>4, <1>5, <1>6, <1>9
<1>10. \A n \in 0..N : n \in T
  <2> HIDE DEF T
  <2> QED
    BY <1>2, <1>8, <1>9, Induct
<1>11. f[N] \in Seq(S) /\ \A x \in Range(f[N]) : From(x)
  BY <1>2, <1>10
<1> QED
  BY <1>7, <1>11 DEF From

-----------------------------------------------------------------------------
Sums(numbers) ==
    CHOOSE sum : sum = [n \in 0..Len(numbers) |->
                           IF n = 0 THEN 0 ELSE sum[n - 1] + numbers[n]]

(* The sums Total goes through are there.                                   *)
LEMMA SumsAre ==
    ASSUME NEW numbers \in Seq(Nat)
    PROVE  /\ Total(numbers) = Sums(numbers)[Len(numbers)]
           /\ Sums(numbers)[0] = 0
           /\ \A n \in 1..Len(numbers) :
                 /\ Sums(numbers)[n - 1] \in Nat
                 /\ Sums(numbers)[n] = Sums(numbers)[n - 1] + numbers[n]
                 /\ Sums(numbers)[n] \in Nat
<1> DEFINE N == Len(numbers)
           V == Nat
           a == 0
           On(x, n) == x + numbers[n]
           step == [n \in 1..N |-> [x \in V |-> On(x, n)]]
           P(f) == f = [n \in 0..N |-> IF n = 0 THEN a ELSE On(f[n - 1], n)]
<1>1. N \in Nat /\ a \in V /\ step \in [1..N -> [V -> V]]
  OBVIOUS
<1>2. \A n \in 1..N : \A x \in V : step[n][x] = On(x, n)
  OBVIOUS
<1>3. Sums(numbers) = CHOOSE g : P(g)
  BY DEF Sums
<1>4. Total(numbers) = Sums(numbers)[N]
  BY DEF Total, Sums
<1> HIDE DEF step, N, V, a, On
<1>5. PICK f : f \in RunsOf(N, V, a, step)
  BY <1>1, Recursion
<1>6. P(f)
  <2>1. \A n \in 0..N : f[n] = IF n = 0 THEN a ELSE On(f[n - 1], n)
    <3>1. f[0] = a
      BY <1>5 DEF RunsOf
    <3>2. ASSUME NEW n \in 1..N PROVE f[n] = On(f[n - 1], n)
      <4>1. f[n - 1] \in V /\ f[n] = step[n][f[n - 1]]
        BY <1>1, <1>5, RunSteps
      <4> QED
        BY <1>2, <4>1
    <3> QED
      BY <1>1, <3>1, <3>2
  <2>2. f = [n \in 0..N |-> f[n]]
    BY <1>5 DEF RunsOf
  <2> QED
    BY <2>1, <2>2
<1>7. P(Sums(numbers))
  <2> HIDE DEF P
  <2> QED
    BY <1>3, <1>6
<1>8. Sums(numbers) \in RunsOf(N, V, a, step)
  <2> DEFINE g == Sums(numbers)
  <2>1. g = [n \in 0..N |-> IF n = 0 THEN a ELSE On(g[n - 1], n)]
    BY <1>7
  <2> HIDE DEF g
  <2>2. \A n \in 1..N : g[n - 1] \in V => g[n] = step[n][g[n - 1]]
    BY <1>1, <1>2, <2>1
  <2>3. DOMAIN g = 0..N /\ g[0] = a /\ g = [n \in DOMAIN g |-> g[n]]
    BY <1>1, <2>1
  <2>4. g \in RunsOf(N, V, a, step)
    BY <1>1, <2>2, <2>3, RunIs
  <2> QED
    BY <2>4 DEF g
<1>9. Sums(numbers)[0] = a
  BY <1>8 DEF RunsOf
<1>10. \A n \in 1..N : /\ Sums(numbers)[n - 1] \in V
                       /\ Sums(numbers)[n] = On(Sums(numbers)[n - 1], n)
                       /\ Sums(numbers)[n] \in V
  BY <1>1, <1>2, <1>8, RunSteps
<1> QED
  BY <1>4, <1>9, <1>10 DEF N, V, a, On

(* The total is a number.                                                   *)
LEMMA TotalIs ==
    ASSUME NEW numbers \in Seq(Nat)
    PROVE  Total(numbers) \in Nat
<1> DEFINE n == Len(numbers)
           f == Sums(numbers)
<1>1. Total(numbers) = f[n] /\ f[0] = 0 /\ \A i \in 1..n : f[i] \in Nat
  BY SumsAre
<1>2. n \in Nat
  OBVIOUS
<1> HIDE DEF n, f
<1>3. n = 0 \/ n \in 1..n
  BY <1>2
<1> QED
  BY <1>1, <1>3

(* Two lists of numbers that stand to each other as their totals do.        *)
LEMMA TotalAtMost ==
    ASSUME NEW n \in Nat, NEW s \in [1..n -> Nat], NEW t \in [1..n -> Nat],
           NEW k \in Nat, \A i \in 1..n : s[i] <= k * t[i]
    PROVE  Total(s) <= k * Total(t)
<1> DEFINE f == Sums(s)
           g == Sums(t)
           T == {i \in 0..n : f[i] \in Nat /\ g[i] \in Nat /\ f[i] <= k * g[i]}
<1>1. s \in Seq(Nat) /\ t \in Seq(Nat) /\ Len(s) = n /\ Len(t) = n
  OBVIOUS
<1>2. /\ Total(s) = f[n] /\ Total(t) = g[n] /\ f[0] = 0 /\ g[0] = 0
      /\ \A i \in 1..n : /\ f[i - 1] \in Nat /\ g[i - 1] \in Nat
                         /\ f[i] = f[i - 1] + s[i] /\ g[i] = g[i - 1] + t[i]
  BY <1>1, SumsAre
<1> HIDE DEF f, g
<1>3. 0 \in T
  BY <1>2
<1>4. ASSUME NEW i \in 1..n, i - 1 \in T PROVE i \in T
  <2> DEFINE a == f[i - 1]
             b == g[i - 1]
             x == s[i]
             y == t[i]
  <2>1. /\ a \in Nat /\ b \in Nat /\ x \in Nat /\ y \in Nat
        /\ a <= k * b /\ x <= k * y
        /\ f[i] = a + x /\ g[i] = b + y
    BY <1>2, <1>4
  <2> HIDE DEF a, b, x, y
  <2>2. a + x <= k * (b + y)
    BY <2>1
  <2> QED
    BY <2>1, <2>2
<1>5. \A i \in 0..n : i \in T
  <2> HIDE DEF T
  <2> QED
    BY <1>3, <1>4, Induct
<1> QED
  BY <1>2, <1>5

(* The total of the sums of two lists.                                      *)
LEMMA TotalAdds ==
    ASSUME NEW n \in Nat, NEW s \in [1..n -> Nat], NEW t \in [1..n -> Nat],
           NEW u \in [1..n -> Nat], \A i \in 1..n : u[i] = s[i] + t[i]
    PROVE  Total(u) = Total(s) + Total(t)
<1> DEFINE f == Sums(s)
           g == Sums(t)
           h == Sums(u)
           T == {i \in 0..n : f[i] \in Nat /\ g[i] \in Nat /\ h[i] = f[i] + g[i]}
<1>1. /\ s \in Seq(Nat) /\ t \in Seq(Nat) /\ u \in Seq(Nat)
      /\ Len(s) = n /\ Len(t) = n /\ Len(u) = n
  OBVIOUS
<1>2. /\ Total(s) = f[n] /\ Total(t) = g[n] /\ Total(u) = h[n]
      /\ f[0] = 0 /\ g[0] = 0 /\ h[0] = 0
      /\ \A i \in 1..n : /\ f[i - 1] \in Nat /\ g[i - 1] \in Nat
                         /\ f[i] = f[i - 1] + s[i] /\ g[i] = g[i - 1] + t[i]
                         /\ h[i] = h[i - 1] + u[i]
  BY <1>1, SumsAre
<1> HIDE DEF f, g, h
<1>3. 0 \in T
  BY <1>2
<1>4. ASSUME NEW i \in 1..n, i - 1 \in T PROVE i \in T
  <2> DEFINE a == f[i - 1]
             b == g[i - 1]
             x == s[i]
             y == t[i]
  <2>1. /\ a \in Nat /\ b \in Nat /\ x \in Nat /\ y \in Nat
        /\ h[i - 1] = a + b /\ u[i] = x + y
        /\ f[i] = a + x /\ g[i] = b + y /\ h[i] = h[i - 1] + u[i]
    BY <1>2, <1>4
  <2> HIDE DEF a, b, x, y
  <2>2. f[i] \in Nat /\ g[i] \in Nat
    BY <2>1
  <2>3. h[i] = (a + b) + (x + y) /\ f[i] + g[i] = (a + x) + (b + y)
    BY <2>1
  <2>4. (a + b) + (x + y) = (a + x) + (b + y)
    BY <2>1
  <2>5. h[i] = f[i] + g[i]
    BY <2>3, <2>4
  <2> QED
    BY <2>2, <2>5
<1>5. \A i \in 0..n : i \in T
  <2> HIDE DEF T
  <2> QED
    BY <1>3, <1>4, Induct
<1> QED
  BY <1>2, <1>5

(* The total with one more number.                                          *)
LEMMA TotalAppend ==
    ASSUME NEW s \in Seq(Nat), NEW x \in Nat
    PROVE  Total(Append(s, x)) = Total(s) + x
<1> DEFINE n == Len(s)
           t == Append(s, x)
           f == Sums(s)
           g == Sums(t)
           T == {i \in 0..n : f[i] = g[i]}
<1>1. /\ n \in Nat /\ t \in Seq(Nat) /\ Len(t) = n + 1
      /\ t[n + 1] = x /\ \A i \in 1..n : t[i] = s[i]
  OBVIOUS
<1>2. /\ Total(s) = f[n] /\ f[0] = 0
      /\ \A i \in 1..n : f[i] = f[i - 1] + s[i]
  BY SumsAre
<1> HIDE DEF f, n, t
<1>3. /\ Total(t) = g[n + 1] /\ g[0] = 0
      /\ \A i \in 1..(n + 1) : g[i] = g[i - 1] + t[i]
  BY <1>1, SumsAre
<1> HIDE DEF g
<1>4. 0 \in T
  BY <1>1, <1>2, <1>3
<1>5. ASSUME NEW i \in 1..n, i - 1 \in T PROVE i \in T
  <2>1. i \in 1..(n + 1)
    BY <1>1
  <2> QED
    BY <1>1, <1>2, <1>3, <1>5, <2>1
<1>6. \A i \in 0..n : i \in T
  <2> HIDE DEF T
  <2> QED
    BY <1>1, <1>4, <1>5, Induct
<1>7. f[n] = g[n]
  BY <1>1, <1>6
<1>8. g[n + 1] = g[n] + x
  BY <1>1, <1>3
<1> QED
  BY <1>2, <1>3, <1>7, <1>8 DEF t

-----------------------------------------------------------------------------
\* Which places of a list come before which: none before one that comes before
\* it, and any place on one side or the other of two that are so.
Weak(before, D) ==
    /\ \A x, y \in D : <<x, y>> \in before => <<y, x>> \notin before
    /\ \A x, y, z \in D :
          <<x, y>> \in before => <<x, z>> \in before \/ <<z, y>> \in before

\* The order std::sort puts the places in.
Stable(before, D) ==
    {pair \in D \X D : \/ pair \in before
                       \/ pair[1] <= pair[2] /\ <<pair[2], pair[1]>> \notin before}

(* It is a total order.                                                     *)
LEMMA StableIsTotal ==
    ASSUME NEW D \in SUBSET Nat, NEW before, Weak(before, D)
    PROVE  TotalOn(Stable(before, D), D)
<1> DEFINE order == Stable(before, D)
<1>1. ASSUME NEW x \in D, NEW y \in D
      PROVE  <<x, y>> \in order <=>
                \/ <<x, y>> \in before
                \/ x <= y /\ <<y, x>> \notin before
  BY DEF Stable
<1> HIDE DEF order
<1>2. ASSUME NEW x \in D, NEW y \in D
      PROVE  <<x, y>> \in order \/ <<y, x>> \in order
  <2>1. x \in Nat /\ y \in Nat
    OBVIOUS
  <2>2. x <= y \/ y <= x
    BY <2>1
  <2> QED
    BY <1>1, <2>2
<1>3. ASSUME NEW x \in D, NEW y \in D, <<x, y>> \in order, <<y, x>> \in order
      PROVE  x = y
  <2>1. x \in Nat /\ y \in Nat
    OBVIOUS
  <2>2. x <= y /\ y <= x
    BY <1>1, <1>3 DEF Weak
  <2> QED
    BY <2>1, <2>2
<1>4. ASSUME NEW x \in D, NEW y \in D, NEW z \in D,
             <<x, y>> \in order, <<y, z>> \in order
      PROVE  <<x, z>> \in order
  <2>1. x \in Nat /\ y \in Nat /\ z \in Nat
    OBVIOUS
  <2>2. CASE <<x, y>> \in before
    BY <1>1, <1>4, <2>2 DEF Weak
  <2>3. CASE <<y, z>> \in before
    BY <1>1, <1>4, <2>3 DEF Weak
  <2>4. CASE <<x, y>> \notin before /\ <<y, z>> \notin before
    <3>1. x <= y /\ y <= z /\ <<y, x>> \notin before /\ <<z, y>> \notin before
      BY <1>1, <1>4, <2>4
    <3>2. x <= z
      BY <2>1, <3>1
    <3>3. <<z, x>> \notin before
      BY <3>1 DEF Weak
    <3> QED
      BY <1>1, <3>2, <3>3
  <2> QED
    BY <2>2, <2>3, <2>4
<1>5. TotalOn(order, D)
  BY <1>2, <1>3, <1>4 DEF TotalOn
<1> QED
  BY <1>5 DEF order

(* std::sort of a list whose places come before each other in such a way.   *)
LEMMA SortedList ==
    ASSUME NEW S, NEW list \in Seq(S), NEW before, Weak(before, DOMAIN list)
    PROVE  Rearranged(list,
                      [i \in DOMAIN list |->
                          list[Arranged(DOMAIN list, Stable(before, DOMAIN list))[i]]],
                      Stable(before, DOMAIN list))
<1>1. DOMAIN list \in SUBSET Nat
  OBVIOUS
<1>2. TotalOn(Stable(before, DOMAIN list), DOMAIN list)
  BY <1>1, StableIsTotal
<1> QED
  BY <1>2, ArrangedList

(* The fields of a schema, sorted, are the same fields.                     *)
LEMMA FieldsSorted ==
    ASSUME NEW fields \in Seq(FieldType)
    PROVE  /\ Sorted(fields, FieldBefore) \in Seq(FieldType)
           /\ Range(Sorted(fields, FieldBefore)) = Range(fields)
<1> DEFINE D == DOMAIN fields
           before == {pair \in D \X D : FieldBefore(fields[pair[1]], fields[pair[2]])}
           order == {pair \in D \X D :
                        \/ FieldBefore(fields[pair[1]], fields[pair[2]])
                        \/ /\ pair[1] <= pair[2]
                           /\ ~FieldBefore(fields[pair[2]], fields[pair[1]])}
<1>1. Sorted(fields, FieldBefore) = [i \in D |-> fields[Arranged(D, order)[i]]]
  BY DEF Sorted
<1>2. order = Stable(before, D)
  BY DEF Stable
<1>3. \A x \in D : fields[x].offset \in Int
  <2>1. ASSUME NEW x \in D PROVE fields[x].offset \in Int
    <3>1. fields[x] \in FieldType
      OBVIOUS
    <3> QED
      BY <3>1, RowConstants DEF FieldType
  <2> QED
    BY <2>1
<1>4. \A x, y \in D : <<x, y>> \in before <=> fields[x].offset < fields[y].offset
  BY DEF FieldBefore
<1> HIDE DEF before, order
<1>5. Weak(before, D)
  <2>1. ASSUME NEW x \in D, NEW y \in D, <<x, y>> \in before
        PROVE  <<y, x>> \notin before
    BY <1>3, <1>4, <2>1
  <2>2. ASSUME NEW x \in D, NEW y \in D, NEW z \in D, <<x, y>> \in before
        PROVE  <<x, z>> \in before \/ <<z, y>> \in before
    <3> DEFINE a == fields[x].offset
               b == fields[y].offset
               c == fields[z].offset
    <3>1. a \in Int /\ b \in Int /\ c \in Int /\ a < b
      BY <1>3, <1>4, <2>2
    <3> HIDE DEF a, b, c
    <3>2. a < c \/ c < b
      BY <3>1
    <3> QED
      BY <1>4, <3>2 DEF a, b, c
  <2> QED
    BY <2>1, <2>2 DEF Weak
<1>6. Rearranged(fields, Sorted(fields, FieldBefore), order)
  BY <1>1, <1>2, <1>5, SortedList
<1> QED
  BY <1>6, RearrangedKeeps

-----------------------------------------------------------------------------
(* The store the indexes and the reports are made from.                     *)

\* A table of the store: of some identifiers, each with a value of a kind.
Table(t, ids, S) ==
    /\ IsFiniteSet(DOMAIN t)
    /\ DOMAIN t \subseteq ids
    /\ t = [id \in DOMAIN t |-> t[id]]
    /\ \A id \in DOMAIN t : t[id] \in S

Document == [title : Titles, body : Bodies]

\* A page as it may be when there were so many epochs.
Page(age) == [bytes : PageBytes, generation : 0..age]

\* Tables as the store holds them, and as a snapshot does.
Held(docs, pgs, nds, age) ==
    /\ Table(docs, DocIds, Document)
    /\ Table(pgs, PageIds, Page(age))
    /\ Table(nds, NodeIds, Values)

HoldInv ==
    /\ epoch \in Nat
    /\ watches \in Nat
    /\ Held(documents, pages, nodes, epoch)
    /\ IsFiniteSet(DOMAIN snapshots)
    /\ \A id \in DOMAIN snapshots :
          Held(snapshots[id].documents, snapshots[id].pages, snapshots[id].nodes, epoch)

(* A table of nothing is a table.                                           *)
LEMMA EmptyTable ==
    ASSUME NEW ids, NEW S
    PROVE  Table(Empty, ids, S)
<1>1. DOMAIN Empty = {}
  BY DEF Empty
<1>2. Empty = [id \in DOMAIN Empty |-> Empty[id]]
  BY DEF Empty
<1> QED
  BY <1>1, <1>2, FS_EmptySet DEF Table

(* A table with another entry is one.                                       *)
LEMMA PutTable ==
    ASSUME NEW ids, NEW S, NEW t, Table(t, ids, S), NEW x \in ids, NEW v \in S
    PROVE  Table(Put(t, x, v), ids, S)
<1> DEFINE u == Put(t, x, v)
<1>1. DOMAIN u = DOMAIN t \cup {x}
  BY DEF Put
<1>2. \A y \in DOMAIN u : u[y] = IF y = x THEN v ELSE t[y]
  BY DEF Put
<1>3. u = [y \in DOMAIN u |-> u[y]]
  BY DEF Put
<1> HIDE DEF u
<1>4. IsFiniteSet(DOMAIN u)
  BY <1>1, FS_AddElement DEF Table
<1>5. DOMAIN u \subseteq ids /\ \A y \in DOMAIN u : u[y] \in S
  BY <1>1, <1>2 DEF Table
<1>6. Table(u, ids, S)
  BY <1>3, <1>4, <1>5 DEF Table
<1> QED
  BY <1>6 DEF u

(* Some of the entries of a table are one.                                  *)
LEMMA PartTable ==
    ASSUME NEW ids, NEW S, NEW t, Table(t, ids, S), NEW part \in SUBSET DOMAIN t
    PROVE  Table(Restrict(t, part), ids, S)
<1> DEFINE u == Restrict(t, part)
<1>1. DOMAIN u = part /\ (\A y \in part : u[y] = t[y]) /\ u = [y \in DOMAIN u |-> u[y]]
  BY DEF Restrict
<1> HIDE DEF u
<1>2. IsFiniteSet(part)
  BY FS_Subset DEF Table
<1>3. Table(u, ids, S)
  BY <1>1, <1>2 DEF Table
<1> QED
  BY <1>3 DEF u

(* What was held when there were fewer epochs may be held now.              *)
LEMMA HeldOn ==
    ASSUME NEW age \in Nat, NEW later \in Nat, age <= later,
           NEW docs, NEW pgs, NEW nds, Held(docs, pgs, nds, age)
    PROVE  Held(docs, pgs, nds, later)
<1>1. Page(age) \subseteq Page(later)
  BY DEF Page
<1>2. Table(pgs, PageIds, Page(later))
  BY <1>1 DEF Held, Table
<1> QED
  BY <1>2 DEF Held

(* There is nothing in the store at first.                                  *)
LEMMA HoldStart ==
    HoldInit /\ epoch = 0 => HoldInv
<1> SUFFICES ASSUME HoldInit, epoch = 0 PROVE HoldInv
  OBVIOUS
<1>1. Held(documents, pages, nodes, epoch)
  BY EmptyTable DEF HoldInit, Held
<1>2. DOMAIN snapshots = {}
  BY DEF HoldInit, Empty
<1> QED
  BY <1>1, <1>2, FS_EmptySet DEF HoldInv, HoldInit

\* The tables of the store and the epochs after a step.
HeldThen == Held(documents, pages, nodes, epoch)'

(* Where the tables a step leaves are right, and it takes or keeps no other *)
(* snapshots than those of the tables before, what is held stays right.     *)
LEMMA HoldKept ==
    ASSUME HoldInv, HeldThen, epoch' \in Nat, epoch <= epoch', watches' \in Nat,
           snapshots' = snapshots
               \/ \E id : snapshots' = Put(snapshots, id, Contents)
    PROVE  HoldInv'
<1>1. epoch \in Nat
  BY DEF HoldInv
<1>2. ASSUME NEW id \in DOMAIN snapshots
      PROVE  Held(snapshots[id].documents, snapshots[id].pages, snapshots[id].nodes,
                  epoch')
  <2>1. Held(snapshots[id].documents, snapshots[id].pages, snapshots[id].nodes, epoch)
    BY DEF HoldInv
  <2> QED
    BY <1>1, <2>1, HeldOn
<1>3. Held(documents, pages, nodes, epoch')
  <2>1. Held(documents, pages, nodes, epoch)
    BY DEF HoldInv
  <2> QED
    BY <1>1, <2>1, HeldOn
<1> DEFINE Fine(s) ==
      /\ IsFiniteSet(DOMAIN s)
      /\ \A id \in DOMAIN s :
            Held(s[id].documents, s[id].pages, s[id].nodes, epoch')
<1>4. Fine(snapshots)
  BY <1>2 DEF HoldInv
<1>5. ASSUME NEW id PROVE Fine(Put(snapshots, id, Contents))
  <2> DEFINE u == Put(snapshots, id, Contents)
  <2>1. DOMAIN u = DOMAIN snapshots \cup {id}
    BY DEF Put
  <2>2. \A y \in DOMAIN u : u[y] = IF y = id THEN Contents ELSE snapshots[y]
    BY DEF Put
  <2>3. IsFiniteSet(DOMAIN snapshots)
    BY DEF HoldInv
  <2> HIDE DEF u
  <2>4. IsFiniteSet(DOMAIN u)
    BY <2>1, <2>3, FS_AddElement
  <2>5. /\ Contents.documents = documents /\ Contents.pages = pages
        /\ Contents.nodes = nodes
    BY DEF Contents
  <2>6. \A y \in DOMAIN u : Held(u[y].documents, u[y].pages, u[y].nodes, epoch')
    BY <1>2, <1>3, <2>1, <2>2, <2>5
  <2> QED
    BY <2>4, <2>6 DEF u
<1> HIDE DEF Fine
<1>6. Fine(snapshots')
  BY <1>4, <1>5
<1> QED
  BY <1>6 DEF HoldInv, HeldThen, Fine

(* Every command on the store leaves it right.                              *)
LEMMA HoldStep ==
    HoldInv /\ HoldNext => HoldInv' /\ epoch <= epoch'
<1> SUFFICES ASSUME HoldInv, HoldNext PROVE HoldInv' /\ epoch <= epoch'
  OBVIOUS
<1>1. epoch \in Nat /\ watches \in Nat /\ Held(documents, pages, nodes, epoch)
  BY DEF HoldInv
<1>2. /\ Table(documents, DocIds, Document)
      /\ Table(pages, PageIds, Page(epoch))
      /\ Table(nodes, NodeIds, Values)
  BY <1>1 DEF Held
<1>3. NextEpoch => /\ epoch' \in Nat /\ epoch' = epoch + 1 /\ epoch <= epoch'
                   /\ Table(pages, PageIds, Page(epoch'))
  <2> SUFFICES ASSUME NextEpoch
               PROVE  /\ epoch' \in Nat /\ epoch' = epoch + 1 /\ epoch <= epoch'
                      /\ Table(pages, PageIds, Page(epoch'))
    OBVIOUS
  <2>1. epoch' \in Nat /\ epoch' = epoch + 1 /\ epoch <= epoch'
    BY <1>1 DEF NextEpoch
  <2>2. Held(documents, pages, nodes, epoch')
    BY <1>1, <2>1, HeldOn
  <2> QED
    BY <2>1, <2>2 DEF Held
<1>4. ASSUME NEW id \in DocIds, NEW title \in Titles, NEW body \in Bodies,
             AddDocument(id, title, body)
      PROVE  HoldInv' /\ epoch <= epoch'
  <2>1. /\ NextEpoch
        /\ documents' = Put(documents, id, [title |-> title, body |-> body])
        /\ UNCHANGED <<pages, nodes, watches, snapshots>>
    BY <1>4 DEF AddDocument
  <2>2. [title |-> title, body |-> body] \in Document
    BY DEF Document
  <2>3. Table(documents', DocIds, Document)
    BY <1>2, <2>1, <2>2, PutTable
  <2>4. HeldThen
    BY <1>2, <1>3, <2>1, <2>3 DEF HeldThen, Held
  <2> QED
    BY <1>1, <1>3, <2>1, <2>4, HoldKept
<1>5. ASSUME NEW id \in DocIds, NEW title \in Titles, RenameDocument(id, title)
      PROVE  HoldInv' /\ epoch <= epoch'
  <2>1. /\ NextEpoch
        /\ id \in DOMAIN documents
        /\ documents' = [documents EXCEPT ![id].title = title]
        /\ UNCHANGED <<pages, nodes, watches, snapshots>>
    BY <1>5 DEF RenameDocument
  <2>2. Table(documents', DocIds, Document)
    <3>1. /\ DOMAIN documents' = DOMAIN documents
          /\ documents' = [y \in DOMAIN documents' |-> documents'[y]]
          /\ \A y \in DOMAIN documents : documents'[y] =
                IF y = id THEN [documents[y] EXCEPT !.title = title] ELSE documents[y]
      BY <2>1
    <3>2. documents[id] \in Document
      BY <1>2, <2>1 DEF Table
    <3>3. [documents[id] EXCEPT !.title = title] \in Document
      BY <3>2 DEF Document
    <3> QED
      BY <1>2, <3>1, <3>3 DEF Table
  <2>3. HeldThen
    BY <1>2, <1>3, <2>1, <2>2 DEF HeldThen, Held
  <2> QED
    BY <1>1, <1>3, <2>1, <2>3, HoldKept
<1>6. ASSUME NEW id \in PageIds, NEW bytes \in PageBytes, AddPage(id, bytes)
      PROVE  HoldInv' /\ epoch <= epoch'
  <2>1. /\ pages' = Put(pages, id, [bytes |-> bytes, generation |-> epoch])
        /\ UNCHANGED <<documents, nodes, watches, snapshots, epoch>>
    BY <1>6 DEF AddPage
  <2>2. [bytes |-> bytes, generation |-> epoch] \in Page(epoch)
    BY <1>1 DEF Page
  <2>3. Table(pages', PageIds, Page(epoch))
    BY <1>2, <2>1, <2>2, PutTable
  <2>4. HeldThen
    BY <1>2, <2>1, <2>3 DEF HeldThen, Held
  <2> QED
    BY <1>1, <2>1, <2>4, HoldKept
<1>7. ASSUME CompactPages
      PROVE  HoldInv' /\ epoch <= epoch'
  <2>1. /\ NextEpoch
        /\ pages' = [id \in DOMAIN pages |->
                        [pages[id] EXCEPT !.generation = epoch + 1]]
        /\ UNCHANGED <<documents, nodes, watches, snapshots>>
    BY <1>7 DEF CompactPages
  <2>2. Table(pages', PageIds, Page(epoch'))
    <3>1. ASSUME NEW id \in DOMAIN pages
          PROVE  [pages[id] EXCEPT !.generation = epoch + 1] \in Page(epoch')
      <4>1. pages[id] \in Page(epoch)
        BY <1>2 DEF Table
      <4> QED
        BY <1>1, <1>3, <2>1, <4>1 DEF Page
    <3>2. /\ DOMAIN pages' = DOMAIN pages
          /\ pages' = [y \in DOMAIN pages' |-> pages'[y]]
          /\ \A y \in DOMAIN pages :
                pages'[y] = [pages[y] EXCEPT !.generation = epoch + 1]
      BY <2>1
    <3> QED
      BY <1>2, <3>1, <3>2 DEF Table
  <2>3. HeldThen
    BY <1>2, <2>1, <2>2 DEF HeldThen, Held
  <2> QED
    BY <1>1, <1>3, <2>1, <2>3, HoldKept
<1>8. ASSUME NEW id \in NodeIds, NEW value \in Values, AddNode(id, value)
      PROVE  HoldInv' /\ epoch <= epoch'
  <2>1. /\ nodes' = Put(nodes, id, value)
        /\ UNCHANGED <<documents, pages, watches, snapshots, epoch>>
    BY <1>8 DEF AddNode
  <2>2. Table(nodes', NodeIds, Values)
    BY <1>2, <2>1, PutTable
  <2>3. HeldThen
    BY <1>2, <2>1, <2>2 DEF HeldThen, Held
  <2> QED
    BY <1>1, <2>1, <2>3, HoldKept
<1>9. ASSUME WatchNode
      PROVE  HoldInv' /\ epoch <= epoch'
  <2>1. watches' = watches + 1 /\ UNCHANGED <<documents, pages, nodes, snapshots, epoch>>
    BY <1>9 DEF WatchNode
  <2>2. HeldThen
    BY <1>2, <2>1 DEF HeldThen, Held
  <2> QED
    BY <1>1, <2>1, <2>2, HoldKept
<1>10. ASSUME NEW id \in NodeIds, DropNode(id)
       PROVE  HoldInv' /\ epoch <= epoch'
  <2>1. /\ NextEpoch
        /\ nodes' = Restrict(nodes, DOMAIN nodes \ {id})
        /\ UNCHANGED <<documents, pages, watches, snapshots>>
    BY <1>10 DEF DropNode
  <2>2. Table(nodes', NodeIds, Values)
    BY <1>2, <2>1, PartTable
  <2>3. HeldThen
    BY <1>2, <1>3, <2>1, <2>2 DEF HeldThen, Held
  <2> QED
    BY <1>1, <1>3, <2>1, <2>3, HoldKept
<1>11. ASSUME NEW id \in SnapshotIds, CaptureSnapshot(id)
       PROVE  HoldInv' /\ epoch <= epoch'
  <2>1. /\ snapshots' = Put(snapshots, id, Contents)
        /\ UNCHANGED <<documents, pages, nodes, watches, epoch>>
    BY <1>11 DEF CaptureSnapshot
  <2>2. HeldThen
    BY <1>2, <2>1 DEF HeldThen, Held
  <2> QED
    BY <1>1, <2>1, <2>2, HoldKept
<1>12. ASSUME NEW id \in SnapshotIds, RestoreSnapshot(id)
       PROVE  HoldInv' /\ epoch <= epoch'
  <2>1. /\ id \in DOMAIN snapshots
        /\ documents' = snapshots[id].documents
        /\ pages' = snapshots[id].pages
        /\ nodes' = snapshots[id].nodes
        /\ watches' = 0
        /\ UNCHANGED <<snapshots, epoch>>
    BY <1>12 DEF RestoreSnapshot
  <2>2. Held(snapshots[id].documents, snapshots[id].pages, snapshots[id].nodes, epoch)
    BY <2>1 DEF HoldInv
  <2>3. HeldThen
    BY <2>1, <2>2 DEF HeldThen, Held
  <2> QED
    BY <1>1, <2>1, <2>3, HoldKept
<1> QED
  BY <1>4, <1>5, <1>6, <1>7, <1>8, <1>9, <1>10, <1>11, <1>12 DEF HoldNext

-----------------------------------------------------------------------------
(* The links.                                                               *)

LinkInv ==
    /\ links \in Seq(Nat)
    /\ selected \in 0..Len(links)

(* EXPORT finds its link in the table; LINKS and FOLLOW leave it there.     *)
LEMMA LinkStep ==
    LinkInv /\ LinkNext => LinkInv' /\ status' # Crash
<1> SUFFICES ASSUME LinkInv, LinkNext PROVE LinkInv' /\ status' # Crash
  OBVIOUS
<1>1. ASSUME NEW targets \in LinkTables, DefineLinks(targets)
      PROVE  LinkInv' /\ status' # Crash
  <2>1. targets \in Seq(Nat)
    BY ReferenceConstants
  <2>2. status' \in {"limit", "ok"}
    BY <1>1 DEF DefineLinks
  <2>3. \/ links' = targets /\ selected' = 0
        \/ UNCHANGED linkVars
    BY <1>1 DEF DefineLinks, InstallLinks
  <2> QED
    BY <2>1, <2>2, <2>3 DEF LinkInv, linkVars, Crash
<1>2. ASSUME NEW index \in 1..(Len(links) + 1), SelectLink(index)
      PROVE  LinkInv' /\ status' # Crash
  <2>1. status' \in {"limit", "ok"} /\ links' = links
    BY <1>2 DEF SelectLink
  <2>2. \/ index \in DOMAIN links /\ selected' = index
        \/ selected' = selected
    BY <1>2 DEF SelectLink
  <2> QED
    BY <2>1, <2>2 DEF LinkInv, Crash
<1>3. ASSUME ExportSelectedLink
      PROVE  LinkInv' /\ status' # Crash
  <2>1. UNCHANGED linkVars
    BY <1>3 DEF ExportSelectedLink
  <2>2. selected # 0 => selected \in DOMAIN links
    BY DEF LinkInv
  <2>3. status' \in {"invalid_state", "ok"}
    BY <1>3, <2>2 DEF ExportSelectedLink, ReadOutcome
  <2> QED
    BY <2>1, <2>3 DEF LinkInv, linkVars, Crash
<1> QED
  BY <1>1, <1>2, <1>3 DEF LinkNext

-----------------------------------------------------------------------------
(* Rows and schemas.                                                        *)

SchemaType == [row_size : Nat, fields : Seq(FieldType), verified : BOOLEAN]

Fitting(s) == \A field \in Range(s.fields) : FieldFits(field, s.row_size)

RowInv ==
    /\ schema \in SchemaType
    /\ row \in Nat
    /\ redefined \in BOOLEAN
    /\ Fitting(schema)
    /\ ~redefined /\ row # 0 => row = schema.row_size

(* There is neither schema nor row at first.                                *)
LEMMA RowStart ==
    RowInit => RowInv
<1> SUFFICES ASSUME RowInit PROVE RowInv
  OBVIOUS
<1>1. <<>> \in Seq(FieldType) /\ Range(<<>>) = {}
  BY DEF Range
<1> QED
  BY <1>1 DEF RowInit, RowInv, SchemaType, Fitting

(* SCHEMA, ROW and PROJECT leave a schema whose fields fit the size it says. *)
LEMMA RowStep ==
    RowInv /\ RowNext => RowInv'
<1> SUFFICES ASSUME RowInv, RowNext PROVE RowInv'
  OBVIOUS
<1>1. ASSUME NEW size \in RowSizes, NEW fields \in FieldLists,
             DefineSchema(size, fields)
      PROVE  RowInv'
  <2>1. size \in Nat /\ fields \in Seq(FieldType)
    BY RowConstants
  <2>2. CASE status' # "ok"
    BY <1>1, <2>2 DEF DefineSchema, RowInv
  <2>3. CASE status' = "ok"
    <3> DEFINE sorted == Sorted(fields, FieldBefore)
    <3>1. SchemaCheck(size, fields) = "ok"
      BY <1>1, <2>3 DEF DefineSchema
    <3>2. ~\E i \in DOMAIN fields : ~FieldFits(fields[i], size)
      BY <3>1 DEF SchemaCheck
    <3>3. \A field \in Range(fields) : FieldFits(field, size)
      BY <3>2 DEF Range
    <3>4. sorted \in Seq(FieldType) /\ Range(sorted) = Range(fields)
      BY <2>1, FieldsSorted
    <3>5. /\ schema' = [row_size |-> size, verified |-> TRUE, fields |-> sorted]
          /\ redefined' = (row # 0)
          /\ row' = row
      BY <1>1, <2>3 DEF DefineSchema
    <3> HIDE DEF sorted
    <3>6. schema' \in SchemaType
      BY <2>1, <3>4, <3>5 DEF SchemaType
    <3>7. Fitting(schema')
      BY <3>3, <3>4, <3>5 DEF Fitting
    <3> QED
      BY <3>5, <3>6, <3>7 DEF RowInv
  <2> QED
    BY <2>2, <2>3
<1>2. ASSUME NEW size \in RowSizes, InstallRow(size)
      PROVE  RowInv'
  <2>1. size \in Nat
    BY RowConstants
  <2>2. schema' = schema
    BY <1>2 DEF InstallRow
  <2>3. \/ row' = size /\ redefined' = FALSE /\ size = schema.row_size
        \/ row' = row /\ redefined' = redefined
    BY <1>2 DEF InstallRow, RowCheck
  <2> QED
    BY <2>1, <2>2, <2>3 DEF RowInv
<1>3. ASSUME ProjectRow
      PROVE  RowInv'
  BY <1>3 DEF ProjectRow, RowInv, rowVars
<1> QED
  BY <1>1, <1>2, <1>3 DEF RowNext

(* A field that fits is read inside the row, but in the two ways told.      *)
LEMMA RowReads ==
    RowInv => FieldsInRow
<1> SUFFICES ASSUME RowInv, ~redefined, row # 0,
                    NEW i \in DOMAIN schema.fields,
                    \A k \in DOMAIN schema.fields :
                       ~(schema.fields[k].offset + schema.fields[k].width >= Word)
             PROVE  InRow(schema.fields[i])
  BY DEF FieldsInRow
<1> DEFINE f == schema.fields[i]
           o == f.offset
           w == f.width
           size == schema.row_size
<1>1. schema.fields \in Seq(FieldType) /\ size \in Nat /\ row = size
  BY DEF RowInv, SchemaType
<1>2. f \in FieldType /\ f \in Range(schema.fields)
  BY <1>1 DEF Range
<1>3. o \in Nat /\ w \in Nat /\ Word \in Nat /\ o + w < Word
  BY <1>2, RowConstants DEF FieldType
<1>4. FieldFits(f, size)
  BY <1>2 DEF RowInv, Fitting
<1>5. (o + w) % Word <= size
  BY <1>4 DEF FieldFits
<1> HIDE DEF f, o, w, size
<1>6. \A n \in Nat : n < Word => n % Word = n
  BY <1>3
<1>7. o + w <= size
  BY <1>3, <1>5, <1>6
<1>8. ASSUME NEW n \in 0..(w - 1) PROVE (o + n) % Word \in 0..(row - 1)
  <2>1. o + n \in Nat /\ o + n < Word /\ o + n < size
    BY <1>1, <1>3, <1>7
  <2>2. (o + n) % Word = o + n
    BY <1>6, <2>1
  <2> QED
    BY <1>1, <2>1, <2>2
<1>9. Touched(f) \subseteq 0..(row - 1)
  BY <1>8 DEF Touched, o, w
<1> QED
  BY <1>9 DEF InRow, f

-----------------------------------------------------------------------------
(* The filter.                                                              *)

(* The lesser of two numbers.                                               *)
LEMMA MinOfTwo ==
    ASSUME NEW a \in Int, NEW b \in Int
    PROVE  Min({a, b}) = IF a <= b THEN a ELSE b
<1> DEFINE m == IF a <= b THEN a ELSE b
<1>1. m \in {a, b} /\ \A y \in {a, b} : m =< y
  OBVIOUS
<1>2. \A x \in {a, b} : (\A y \in {a, b} : x =< y) => x = m
  OBVIOUS
<1> HIDE DEF m
<1>3. Min({a, b}) = m
  BY <1>1, <1>2 DEF Min
<1> QED
  BY <1>3 DEF m

\* A list, whatever it is of.
IsList(list) == \E S : list \in Seq(S)

(* A list is one of its own elements; its places are those up to its length. *)
LEMMA Lists ==
    ASSUME NEW list, IsList(list)
    PROVE  /\ Len(list) \in Nat
           /\ DOMAIN list = 1..Len(list)
           /\ list \in Seq(Range(list))
<1>1. PICK S : list \in Seq(S)
  BY DEF IsList
<1>2. Len(list) \in Nat /\ DOMAIN list = 1..Len(list) /\ list \in [1..Len(list) -> S]
  BY <1>1
<1>3. list \in [1..Len(list) -> Range(list)]
  BY <1>2 DEF Range
<1> QED
  BY <1>2, <1>3

(* Two lists, one after the other, are a list.                              *)
LEMMA CatList ==
    ASSUME NEW s, NEW t, IsList(s), IsList(t)
    PROVE  IsList(s \o t)
<1> DEFINE S == Range(s) \cup Range(t)
<1>1. /\ Len(s) \in Nat /\ s \in [1..Len(s) -> Range(s)]
      /\ Len(t) \in Nat /\ t \in [1..Len(t) -> Range(t)]
  BY Lists
<1>2. s \in [1..Len(s) -> S] /\ t \in [1..Len(t) -> S]
  BY <1>1
<1>3. s \in Seq(S) /\ t \in Seq(S)
  BY <1>1, <1>2
<1> HIDE DEF S
<1>4. s \o t \in Seq(S)
  BY <1>3, CatHolds
<1> QED
  BY <1>4 DEF IsList

(* A function of the places of a list is a list.                            *)
LEMMA MapList ==
    ASSUME NEW n \in Nat, NEW f, f = [i \in 1..n |-> f[i]]
    PROVE  IsList(f)
<1>1. f \in [1..n -> Range(f)]
  <2>1. DOMAIN f = 1..n
    BY Zenon
  <2>2. \A i \in 1..n : f[i] \in Range(f)
    BY <2>1 DEF Range
  <2> QED
    BY <2>2
<1>2. f \in Seq(Range(f))
  BY <1>1
<1> QED
  BY <1>2 DEF IsList

(* Lists, one after the other, are a list.                                  *)
LEMMA FlatList ==
    ASSUME NEW n \in Nat, NEW f, f = [i \in 1..n |-> f[i]],
           \A i \in 1..n : IsList(f[i])
    PROVE  IsList(Flat(f))
<1> DEFINE S == UNION {Range(f[i]) : i \in 1..n}
<1>1. ASSUME NEW i \in 1..n PROVE f[i] \in Seq(S)
  <2>1. Len(f[i]) \in Nat /\ f[i] \in [1..Len(f[i]) -> Range(f[i])]
    BY Lists
  <2>2. Range(f[i]) \subseteq S
    OBVIOUS
  <2> HIDE DEF S
  <2>3. f[i] \in [1..Len(f[i]) -> S]
    BY <2>1, <2>2
  <2> QED
    BY <2>1, <2>3
<1> HIDE DEF S
<1>2. f \in Seq(Seq(S))
  <2>1. f \in [1..n -> Seq(S)]
    BY <1>1, Zenon
  <2> QED
    BY <2>1
<1>3. Flat(f) \in Seq(S)
  BY <1>2, FlatIs
<1> QED
  BY <1>3 DEF IsList

(* The identifiers of a table.                                              *)
LEMMA IdsAre ==
    ASSUME NEW ids \in SUBSET Nat, NEW S, NEW t, Table(t, ids, S)
    PROVE  /\ Len(Ids(t)) \in Nat
           /\ DOMAIN Ids(t) = 1..Len(Ids(t))
           /\ \A i \in 1..Len(Ids(t)) : Ids(t)[i] \in DOMAIN t
           /\ \A id \in DOMAIN t : \E i \in 1..Len(Ids(t)) : Ids(t)[i] = id
<1>1. DOMAIN t \in SUBSET Nat /\ IsFiniteSet(DOMAIN t)
  BY DEF Table
<1> DEFINE set == DOMAIN t
<1> HIDE DEF set
<1>2. /\ Cardinality(set) \in Nat
      /\ InOrder(set) \in [1..Cardinality(set) -> set]
      /\ Len(InOrder(set)) = Cardinality(set)
      /\ DOMAIN InOrder(set) = 1..Cardinality(set)
      /\ \A x \in set : \E i \in 1..Cardinality(set) : InOrder(set)[i] = x
  BY <1>1, InOrderIs DEF set
<1> QED
  BY <1>2 DEF Ids, set

(* The texts the filter is built from are a list.                           *)
LEMMA TextsList ==
    HoldInv /\ RowInv /\ LinkInv => IsList(Texts)
<1> SUFFICES ASSUME HoldInv, RowInv, LinkInv PROVE IsList(Texts)
  OBVIOUS
<1> DEFINE docs == Ids(documents)
           some == Ids(pages)
           A == [i \in DOMAIN docs |-> DocumentTexts(documents[docs[i]])]
           B == [i \in DOMAIN some |-> <<Prefix(pages[some[i]].bytes, PagePrefix)>>]
           C == [i \in DOMAIN schema.fields |-> <<schema.fields[i].name>>]
           D == [i \in DOMAIN links |-> <<LinkWord, <<links[i]>> >>]
<1>1. DocIds \in SUBSET Nat /\ PageIds \in SUBSET Nat
  BY IndexesConstants
<1>2. Table(documents, DocIds, Document) /\ Table(pages, PageIds, Page(epoch))
  BY DEF HoldInv, Held
<1>3. /\ Len(docs) \in Nat /\ DOMAIN docs = 1..Len(docs)
      /\ Len(some) \in Nat /\ DOMAIN some = 1..Len(some)
  BY <1>1, <1>2, IdsAre
<1>4. IsList(Flat(A))
  <2>1. ASSUME NEW i \in DOMAIN docs PROVE IsList(A[i])
    <3> DEFINE d == documents[docs[i]]
    <3>1. A[i] = DocumentTexts(d)
      OBVIOUS
    <3> HIDE DEF d, A
    <3>2. IsList(<<d.title>>) /\ IsList(<<>>) /\ IsList(<< <<Prefix(d.body, BodyPrefix)>> >>)
      <4>1. <<d.title>> \in Seq({d.title}) /\ <<>> \in Seq({})
        OBVIOUS
      <4> DEFINE x == <<Prefix(d.body, BodyPrefix)>>
      <4> HIDE DEF x
      <4>2. <<x>> \in Seq({x})
        OBVIOUS
      <4> QED
        BY <4>1, <4>2 DEF IsList, x
    <3>3. IsList(DocumentTexts(d))
      <4> DEFINE u == IF d.body = <<>> THEN <<>>
                      ELSE << <<Prefix(d.body, BodyPrefix)>> >>
      <4>1. IsList(u)
        BY <3>2
      <4>2. DocumentTexts(d) = <<d.title>> \o u
        BY DEF DocumentTexts
      <4> HIDE DEF u
      <4> QED
        BY <3>2, <4>1, <4>2, CatList
    <3> QED
      BY <3>1, <3>3
  <2>2. A = [i \in 1..Len(docs) |-> A[i]]
    BY <1>3
  <2> HIDE DEF A
  <2> QED
    BY <1>3, <2>1, <2>2, FlatList
<1>5. IsList(B)
  <2>1. B = [i \in 1..Len(some) |-> B[i]]
    BY <1>3
  <2> HIDE DEF B
  <2> QED
    BY <1>3, <2>1, MapList
<1>6. IsList(C)
  <2>1. Len(schema.fields) \in Nat /\ DOMAIN schema.fields = 1..Len(schema.fields)
    BY DEF RowInv, SchemaType
  <2>2. C = [i \in 1..Len(schema.fields) |-> C[i]]
    BY <2>1
  <2> HIDE DEF C
  <2> QED
    BY <2>1, <2>2, MapList
<1>7. IsList(D)
  <2>1. Len(links) \in Nat /\ DOMAIN links = 1..Len(links)
    BY DEF LinkInv
  <2>2. D = [i \in 1..Len(links) |-> D[i]]
    BY <2>1
  <2> HIDE DEF D
  <2> QED
    BY <2>1, <2>2, MapList
<1>8. Texts = Flat(A) \o B \o C \o D
  BY DEF Texts
<1> HIDE DEF A, B, C, D
<1>9. IsList(Flat(A) \o B)
  BY <1>4, <1>5, CatList
<1>10. IsList(Flat(A) \o B \o C)
  BY <1>6, <1>9, CatList
<1> QED
  BY <1>7, <1>8, <1>10, CatList

BloomInv ==
    /\ IsList(probes)
    /\ NoFalseNegatives

(* There is no filter at first.                                             *)
LEMMA BloomStart ==
    BloomInit => BloomInv
<1> SUFFICES ASSUME BloomInit PROVE BloomInv
  OBVIOUS
<1>1. probes = <<>> /\ inserted = {}
  BY DEF BloomInit
<1>2. <<>> \in Seq({}) /\ Len(<<>>) = 0 /\ DOMAIN <<>> = {}
  OBVIOUS
<1>3. ProbeLimit \in Nat
  BY BloomConstants
<1> QED
  BY <1>1, <1>2, <1>3 DEF BloomInv, NoFalseNegatives, IsList

(* The beginning of a list.                                                 *)
LEMMA PrefixIs ==
    ASSUME NEW list, IsList(list), NEW n \in Nat
    PROVE  /\ IsList(Prefix(list, n))
           /\ Len(Prefix(list, n)) <= n
           /\ Len(Prefix(list, n)) <= Len(list)
           /\ Len(Prefix(list, n)) = IF Len(list) <= n THEN Len(list) ELSE n
           /\ DOMAIN Prefix(list, n) = 1..Len(Prefix(list, n))
           /\ \A i \in DOMAIN Prefix(list, n) :
                 i \in DOMAIN list /\ Prefix(list, n)[i] = list[i]
<1> DEFINE m == Min({n, Len(list)})
           S == Range(list)
           p == SubSeq(list, 1, m)
<1>1. Len(list) \in Nat /\ list \in Seq(S) /\ DOMAIN list = 1..Len(list)
  BY Lists
<1>2. m = IF n <= Len(list) THEN n ELSE Len(list)
  BY <1>1, MinOfTwo
<1>3. Prefix(list, n) = p
  BY DEF Prefix
<1> HIDE DEF m, S
<1>4. m \in Nat /\ m <= n /\ m <= Len(list) /\ m = IF Len(list) <= n THEN Len(list) ELSE n
  <2> DEFINE k == Len(list)
  <2>1. k \in Nat /\ m = IF n <= k THEN n ELSE k
    BY <1>1, <1>2
  <2> HIDE DEF k
  <2>2. (n <= k => m = n /\ n <= k) /\ (~(n <= k) => m = k /\ k <= n)
    BY <2>1
  <2>3. n <= k \/ ~(n <= k)
    OBVIOUS
  <2>4. m \in Nat /\ m <= n /\ m <= k /\ m = IF k <= n THEN k ELSE n
    <3>1. m \in Nat /\ m <= n /\ m <= k
      BY <2>1, <2>2, <2>3
    <3> QED
      BY <2>1, <2>2, <3>1
  <2> QED
    BY <2>4 DEF k
<1>9. m \in Nat /\ m <= n /\ m <= Len(list)
  BY <1>4
<1>5. p \in Seq(S) /\ Len(p) = m /\ \A i \in 1..m : p[i] = list[i]
  <2>1. m \in Int /\ 1 \in Int /\ \A i \in 1..m : list[i] \in S
    <3>1. \A i \in 1..m : i \in 1..Len(list)
      BY <1>1, <1>9
    <3> QED
      BY <1>1, <1>9, <3>1
  <2>2. /\ SubSeq(list, 1, m) \in Seq(S)
        /\ Len(SubSeq(list, 1, m)) = IF 1 <= m THEN m - 1 + 1 ELSE 0
        /\ \A i \in 1..(m - 1 + 1) : SubSeq(list, 1, m)[i] = list[1 + i - 1]
    BY <2>1, SubSeqProperties
  <2> HIDE DEF p
  <2>3. /\ p \in Seq(S)
        /\ Len(p) = IF 1 <= m THEN m - 1 + 1 ELSE 0
        /\ \A i \in 1..(m - 1 + 1) : p[i] = list[1 + i - 1]
    BY <2>2 DEF p
  <2>4. m - 1 + 1 = m /\ \A i \in 1..m : 1 + i - 1 = i
    BY <1>4
  <2> QED
    BY <1>4, <2>3, <2>4
<1>6. DOMAIN p = 1..m
  BY <1>4, <1>5
<1> HIDE DEF p
<1>7. \A i \in 1..m : i \in DOMAIN list
  BY <1>1, <1>9
<1>8. /\ IsList(p) /\ Len(p) <= n /\ Len(p) <= Len(list)
      /\ Len(p) = IF Len(list) <= n THEN Len(list) ELSE n
      /\ DOMAIN p = 1..Len(p)
      /\ \A i \in DOMAIN p : i \in DOMAIN list /\ p[i] = list[i]
  <2>1. IsList(p)
    BY <1>5 DEF IsList
  <2> QED
    BY <2>1, <1>4, <1>9, <1>5, <1>6, <1>7
<1> QED
  BY <1>3, <1>8

(* The end of a list.                                                       *)
LEMMA SuffixIs ==
    ASSUME NEW list, IsList(list), NEW k \in 1..(Len(list) + 1)
    PROVE  /\ IsList(SubSeq(list, k, Len(list)))
           /\ Len(SubSeq(list, k, Len(list))) = Len(list) - k + 1
           /\ DOMAIN SubSeq(list, k, Len(list)) = 1..(Len(list) - k + 1)
           /\ \A i \in 1..(Len(list) - k + 1) :
                 SubSeq(list, k, Len(list))[i] = list[k + i - 1]
<1> DEFINE S == Range(list)
           n == Len(list)
           p == SubSeq(list, k, n)
<1>1. n \in Nat /\ list \in Seq(S) /\ DOMAIN list = 1..n
  BY Lists
<1> HIDE DEF S
<1>2. p \in Seq(S) /\ Len(p) = n - k + 1 /\ \A i \in 1..(n - k + 1) : p[i] = list[k + i - 1]
  BY <1>1
<1>3. DOMAIN p = 1..(n - k + 1)
  BY <1>2
<1> HIDE DEF p, n
<1> QED
  BY <1>2, <1>3 DEF IsList, p, n

(* One more at the end of a list.                                           *)
LEMMA AppendIs ==
    ASSUME NEW list, IsList(list), NEW x
    PROVE  /\ IsList(Append(list, x))
           /\ Len(Append(list, x)) = Len(list) + 1
           /\ DOMAIN Append(list, x) = 1..(Len(list) + 1)
           /\ \A i \in 1..(Len(list) + 1) :
                 Append(list, x)[i] = IF i = Len(list) + 1 THEN x ELSE list[i]
<1> DEFINE S == Range(list) \cup {x}
           u == Append(list, x)
<1>1. Len(list) \in Nat /\ list \in [1..Len(list) -> Range(list)]
  BY Lists
<1>2. list \in [1..Len(list) -> S]
  BY <1>1
<1>3. list \in Seq(S) /\ x \in S
  BY <1>1, <1>2
<1> HIDE DEF S
<1>4. /\ u \in Seq(S) /\ Len(u) = Len(list) + 1
      /\ \A i \in 1..Len(list) : u[i] = list[i]
      /\ u[Len(list) + 1] = x
  BY <1>3
<1>5. DOMAIN u = 1..(Len(list) + 1)
  BY <1>4
<1> HIDE DEF u
<1>6. \A i \in 1..(Len(list) + 1) : u[i] = IF i = Len(list) + 1 THEN x ELSE list[i]
  BY <1>1, <1>4
<1> QED
  BY <1>4, <1>5, <1>6 DEF IsList, u

\* What a probe says is right.
Right(probe) ==
    /\ probe.token \in inserted => probe.maybe_present
    /\ probe.maybe_present <=> Range(probe.slots) \subseteq bloom.bits

(* BLOOM puts every text in, and PROBE answers by the bits there are.       *)
LEMMA BloomStep ==
    HoldInv /\ RowInv /\ LinkInv /\ BloomInv /\ BloomNext => BloomInv'
<1> SUFFICES ASSUME HoldInv, RowInv, LinkInv, BloomInv, BloomNext PROVE BloomInv'
  OBVIOUS
<1>1. /\ {WordLimit, HashLimit, BodyPrefix, PagePrefix, TextLimit,
          SampleLimit, ProbeLimit, ProbeTrim} \subseteq Nat
      /\ ProbeTrim \in 1..ProbeLimit /\ SampleLimit <= ProbeLimit
  BY BloomConstants
<1>2. SampleLimit \in Nat /\ ProbeLimit \in Nat /\ ProbeTrim \in Nat
  BY <1>1
<1>3. /\ \A i \in DOMAIN probes : Right(probes[i])
      /\ \A text \in inserted : Range(ProbeSlots(text)) \subseteq bloom.bits
      /\ Len(probes) <= ProbeLimit
      /\ IsList(probes)
  BY DEF BloomInv, NoFalseNegatives, Right
<1>4. ASSUME NEW words, NEW rounds, BuildBloom(words, rounds) PROVE BloomInv'
  <2>1. CASE status' # "ok"
    <3>1. UNCHANGED bloomVars
      BY <1>4, <2>1 DEF BuildBloom
    <3> QED
      BY <3>1 DEF bloomVars, BloomInv, NoFalseNegatives, ProbeSlots
  <2>2. CASE status' = "ok"
    <3> DEFINE kept == Prefix(Texts, SampleLimit)
               all == Range(Texts)
    <3>1. PICK seed \in Seeds :
             /\ bloom' = FilterOf(words, rounds, seed)
             /\ probes' = [i \in DOMAIN kept |-> Sample(kept[i], words, rounds, seed)]
             /\ inserted' = all
      BY <1>4, <2>2 DEF BuildBloom
    <3>2. IsList(Texts)
      BY TextsList
    <3>3. /\ Len(kept) \in Nat /\ Len(kept) <= SampleLimit
          /\ DOMAIN kept = 1..Len(kept)
          /\ \A i \in DOMAIN kept : kept[i] \in all
      <4>1. /\ IsList(kept)
            /\ Len(kept) <= SampleLimit
            /\ DOMAIN kept = 1..Len(kept)
            /\ \A i \in DOMAIN kept : i \in DOMAIN Texts /\ kept[i] = Texts[i]
        BY <1>2, <3>2, PrefixIs
      <4>2. Len(kept) \in Nat
        BY <4>1, Lists
      <4> QED
        BY <4>1, <4>2 DEF Range
    <3>4. /\ bloom'.bits = UNION {Range(SlotsOf(text, words, rounds, seed)) : text \in all}
          /\ bloom'.words = words /\ bloom'.hash_functions = rounds /\ bloom'.seed = seed
      BY <3>1 DEF FilterOf
    <3> HIDE DEF kept, all
    <3>5. \A text \in all : Range(SlotsOf(text, words, rounds, seed)) \subseteq bloom'.bits
      BY <3>4
    <3>6. \A text : ProbeSlots(text)' = SlotsOf(text, words, rounds, seed)
      BY <3>4 DEF ProbeSlots, SlotsOf
    <3>7. IsList(probes') /\ Len(probes') = Len(kept) /\ DOMAIN probes' = DOMAIN kept
      <4>1. probes' = [i \in 1..Len(kept) |-> probes'[i]]
        BY <3>1, <3>3
      <4>2. IsList(probes')
        BY <3>3, <4>1, MapList
      <4>3. DOMAIN probes' = 1..Len(probes') /\ Len(probes') \in Nat
        BY <4>2, Lists
      <4>4. DOMAIN probes' = 1..Len(kept)
        BY <3>1, <3>3
      <4> QED
        <5> DEFINE a == Len(probes')
                   b == Len(kept)
        <5>1. a \in Nat /\ b \in Nat /\ 1..a = 1..b /\ DOMAIN probes' = 1..a /\ DOMAIN kept = 1..b
          BY <3>3, <4>3, <4>4
        <5> HIDE DEF a, b
        <5>2. a = b
          BY <5>1
        <5>3. DOMAIN probes' = DOMAIN kept
          BY <5>1, <5>2
        <5> QED
          BY <4>2, <5>2, <5>3 DEF a, b
    <3>8. ASSUME NEW i \in DOMAIN probes'
          PROVE  /\ probes'[i].maybe_present
                 /\ Range(probes'[i].slots) \subseteq bloom'.bits
      <4>1. probes'[i] = Sample(kept[i], words, rounds, seed) /\ kept[i] \in all
        BY <3>1, <3>3, <3>7
      <4>2. /\ probes'[i].slots = SlotsOf(kept[i], words, rounds, seed)
            /\ probes'[i].maybe_present = TRUE
        BY <4>1 DEF Sample
      <4> QED
        BY <3>5, <4>1, <4>2
    <3>9. \A text \in inserted' : Range(ProbeSlots(text)') \subseteq bloom'.bits
      BY <3>1, <3>5, <3>6
    <3>10. Len(probes') <= ProbeLimit
      BY <1>1, <1>2, <3>3, <3>7
    <3> QED
      BY <3>7, <3>8, <3>9, <3>10 DEF BloomInv, NoFalseNegatives
  <2> QED
    BY <2>1, <2>2
<1>5. ASSUME NEW text, ProbeBloom(text) PROVE BloomInv'
  <2>1. CASE status' # "ok"
    <3>1. UNCHANGED bloomVars
      BY <1>5, <2>1 DEF ProbeBloom, bloomVars
    <3> QED
      BY <3>1 DEF bloomVars, BloomInv, NoFalseNegatives, ProbeSlots
  <2>2. CASE status' = "ok"
    <3> DEFINE slots == ProbeSlots(text)
               probe == [token |-> text, slots |-> slots,
                         maybe_present |-> Range(slots) \subseteq bloom.bits]
               more == Append(probes, probe)
    <3>1. probes' = Trimmed(more) /\ bloom' = bloom /\ inserted' = inserted
      BY <1>5, <2>2 DEF ProbeBloom
    <3>2. Right(probe)
      BY <1>3 DEF Right
    <3> HIDE DEF probe, slots
    <3>3. /\ IsList(more) /\ Len(more) = Len(probes) + 1
          /\ DOMAIN more = 1..(Len(probes) + 1)
          /\ \A i \in 1..(Len(probes) + 1) :
                more[i] = IF i = Len(probes) + 1 THEN probe ELSE probes[i]
      BY <1>3, AppendIs
    <3>4. Len(probes) \in Nat /\ DOMAIN probes = 1..Len(probes)
      BY <1>3, Lists
    <3> HIDE DEF more
    <3>5. \A i \in DOMAIN more : Right(more[i])
      BY <1>3, <3>2, <3>3, <3>4
    <3>6. /\ IsList(Trimmed(more))
          /\ Len(Trimmed(more)) <= ProbeLimit
          /\ \A i \in DOMAIN Trimmed(more) : Right(Trimmed(more)[i])
      <4>1. CASE Len(more) <= ProbeLimit
        BY <1>2, <3>3, <3>4, <3>5, <4>1 DEF Trimmed
      <4>2. CASE Len(more) > ProbeLimit
        <5> DEFINE rest == SubSeq(more, ProbeTrim + 1, Len(more))
        <5>1. Trimmed(more) = rest
          BY <4>2 DEF Trimmed
        <5>2. ProbeTrim + 1 \in 1..(Len(more) + 1)
          BY <1>1, <1>2, <3>3, <3>4, <4>2
        <5>3. /\ IsList(rest)
              /\ Len(rest) = Len(more) - (ProbeTrim + 1) + 1
              /\ DOMAIN rest = 1..(Len(more) - (ProbeTrim + 1) + 1)
              /\ \A i \in 1..(Len(more) - (ProbeTrim + 1) + 1) :
                    rest[i] = more[(ProbeTrim + 1) + i - 1]
          BY <3>3, <5>2, SuffixIs
        <5> HIDE DEF rest
        <5>4. \A i \in DOMAIN rest : Right(rest[i])
          <6>1. ASSUME NEW i \in DOMAIN rest PROVE Right(rest[i])
            <7>1. (ProbeTrim + 1) + i - 1 \in DOMAIN more
              BY <1>2, <3>3, <3>4, <5>3
            <7> QED
              BY <3>5, <5>3, <7>1
          <6> QED
            BY <6>1
        <5>5. Len(rest) <= ProbeLimit
          <6> DEFINE a == Len(probes)
                     b == Len(more)
                     c == Len(rest)
          <6>1. /\ a \in Nat /\ a <= ProbeLimit /\ b = a + 1
                /\ c = b - (ProbeTrim + 1) + 1
            BY <1>3, <3>3, <3>4, <5>3
          <6> HIDE DEF a, b, c
          <6>2. c <= ProbeLimit
            BY <1>1, <1>2, <6>1
          <6> QED
            BY <6>2 DEF c
        <5> QED
          BY <5>1, <5>3, <5>4, <5>5
      <4> QED
        BY <1>2, <3>3, <3>4, <4>1, <4>2
    <3>7. \A t : ProbeSlots(t)' = ProbeSlots(t)
      BY <3>1 DEF ProbeSlots, SlotsOf
    <3> QED
      BY <1>3, <3>1, <3>6, <3>7 DEF BloomInv, NoFalseNegatives, Right
  <2> QED
    BY <2>1, <2>2
<1> QED
  BY <1>4, <1>5 DEF BloomNext

-----------------------------------------------------------------------------
(* Plans.                                                                   *)

StepNames == {"doc-scan", "page-scan", "graph-expand", "bloom-filter", "skip-seek"}

StepType == [name : StepNames, fanout : Nat, cardinality : Nat]

\* The shares each step adds one to.
Given(steps, limit) ==
    CHOOSE given : given = [n \in 0..Len(steps) |->
        IF n = 0 THEN <<>>
        ELSE Append(given[n - 1], Min({limit - Total(given[n - 1]), Wanted(steps[n])}))]

\* Lists of numbers that add up to no more than the limit.
Payable(limit) == {s \in Seq(Nat) : Total(s) <= limit}

(* The smaller of two numbers.                                              *)
LEMMA MinIs ==
    ASSUME NEW a \in Nat, NEW b \in Nat
    PROVE  /\ Min({a, b}) \in Nat /\ Min({a, b}) <= a /\ Min({a, b}) <= b
           /\ Min({a, b}) = a \/ Min({a, b}) = b
<1> DEFINE m == Min({a, b})
<1>1. m = IF a <= b THEN a ELSE b
  BY MinOfTwo
<1> HIDE DEF m
<1>2. (a <= b => m = a) /\ (~(a <= b) => m = b)
  BY <1>1
<1>3. m \in Nat /\ m <= a /\ m <= b /\ (m = a \/ m = b)
  BY <1>2
<1> QED
  BY <1>3 DEF m

(* A list with one more number, no more than is left.                       *)
LEMMA PaysOn ==
    ASSUME NEW limit \in Nat, NEW s \in Payable(limit), NEW w \in Nat
    PROVE  Append(s, Min({limit - Total(s), w})) \in Payable(limit)
<1> DEFINE t == Total(s)
           left == limit - t
           m == Min({left, w})
<1>1. s \in Seq(Nat) /\ t \in Nat /\ t <= limit
  BY TotalIs DEF Payable
<1> HIDE DEF t
<1>2. left \in Nat
  BY <1>1
<1>3. m \in Nat /\ m <= left
  <2> HIDE DEF left
  <2> QED
    BY <1>2, MinIs
<1>4. Total(Append(s, m)) = t + m
  <2> HIDE DEF m
  <2> QED
    BY <1>1, <1>3, TotalAppend DEF t
<1> HIDE DEF m
<1>5. Append(s, m) \in Seq(Nat) /\ t + m <= limit
  BY <1>1, <1>3
<1>6. Append(s, m) \in Payable(limit)
  BY <1>4, <1>5 DEF Payable
<1> QED
  BY <1>6 DEF m, t

(* The shares SharedOut goes through are there.                             *)
LEMMA GivenAre ==
    ASSUME NEW steps \in Seq(StepType), NEW limit \in Nat
    PROVE  /\ SharedOut(steps, limit) = Given(steps, limit)[Len(steps)]
           /\ Given(steps, limit)[0] = <<>>
           /\ \A n \in 1..Len(steps) :
                 LET before == Given(steps, limit)[n - 1]
                 IN  /\ before \in Payable(limit)
                     /\ Given(steps, limit)[n] =
                           Append(before, Min({limit - Total(before), Wanted(steps[n])}))
<1> DEFINE N == Len(steps)
           V == Payable(limit)
           a == <<>>
           G == Given(steps, limit)
           On(x, n) == Append(x, Min({limit - Total(x), Wanted(steps[n])}))
           step == [n \in 1..N |-> [x \in V |-> On(x, n)]]
           P(f) == f = [n \in 0..N |-> IF n = 0 THEN a ELSE On(f[n - 1], n)]
<1>1. N \in Nat
  OBVIOUS
<1>2. a \in V
  <2>1. <<>> \in Seq(Nat) /\ Len(<<>>) = 0
    OBVIOUS
  <2>2. Total(<<>>) = 0
    BY <2>1, SumsAre
  <2> QED
    BY <2>1, <2>2 DEF Payable
<1>3. \A n \in 1..N : Wanted(steps[n]) \in Nat
  <2>1. \A n \in 1..N : steps[n] \in StepType
    OBVIOUS
  <2> QED
    BY <2>1 DEF Wanted, StepType
<1>4. \A n \in 1..N : \A x \in V : On(x, n) \in V
  <2> HIDE DEF N
  <2> QED
    BY <1>3, PaysOn
<1>5. G = CHOOSE g : P(g)
  BY DEF Given
<1>6. SharedOut(steps, limit) = G[N]
  BY DEF SharedOut, Given
<1> HIDE DEF N, V, a, On, G
<1>7. step \in [1..N -> [V -> V]]
  BY <1>4
<1>8. \A n \in 1..N : \A x \in V : step[n][x] = On(x, n)
  OBVIOUS
<1> HIDE DEF step
<1>9. PICK f : f \in RunsOf(N, V, a, step)
  BY <1>1, <1>2, <1>7, Recursion
<1>10. P(f)
  <2>1. \A n \in 0..N : f[n] = IF n = 0 THEN a ELSE On(f[n - 1], n)
    <3>1. f[0] = a
      BY <1>9 DEF RunsOf
    <3>2. ASSUME NEW n \in 1..N PROVE f[n] = On(f[n - 1], n)
      <4>1. f[n - 1] \in V /\ f[n] = step[n][f[n - 1]]
        BY <1>1, <1>9, RunSteps
      <4> QED
        BY <1>8, <4>1
    <3> QED
      BY <1>1, <3>1, <3>2
  <2>2. f = [n \in 0..N |-> f[n]]
    BY <1>9 DEF RunsOf
  <2> QED
    BY <2>1, <2>2
<1>11. P(G)
  <2> HIDE DEF P
  <2> QED
    BY <1>5, <1>10
<1>12. G \in RunsOf(N, V, a, step)
  <2>1. \A n \in 1..N : G[n - 1] \in V => G[n] = step[n][G[n - 1]]
    BY <1>1, <1>8, <1>11
  <2>2. DOMAIN G = 0..N /\ G[0] = a /\ G = [n \in DOMAIN G |-> G[n]]
    BY <1>1, <1>11
  <2> QED
    BY <1>1, <1>2, <1>7, <2>1, <2>2, RunIs
<1>13. G[0] = a
  BY <1>12 DEF RunsOf
<1>14. \A n \in 1..N : G[n - 1] \in V /\ G[n] = On(G[n - 1], n)
  BY <1>1, <1>8, <1>12, RunSteps
<1> QED
  BY <1>6, <1>13, <1>14 DEF a, N, V, On, G

\* What the shares after some steps say: nobody who wants more goes before one
\* who gets something, and all that is left goes to those who want it.
Shared(given, steps, limit, n) ==
    /\ given \in Payable(limit)
    /\ Len(given) = n
    /\ Total(given) <= Sums([i \in DOMAIN steps |-> Wanted(steps[i])])[n]
    /\ \/ Total(given) = limit
       \/ Total(given) = Sums([i \in DOMAIN steps |-> Wanted(steps[i])])[n]
    /\ \A i \in 1..n : given[i] < Wanted(steps[i]) => Total(given) = limit
    /\ \A i, j \in 1..n : given[i] < Wanted(steps[i]) /\ i < j => given[j] = 0

(* One more step gets what it wants or what is left.                        *)
LEMMA SharesOn ==
    ASSUME NEW limit \in Nat, NEW steps \in Seq(StepType), NEW n \in 1..Len(steps),
           NEW given, Shared(given, steps, limit, n - 1)
    PROVE  Shared(Append(given, Min({limit - Total(given), Wanted(steps[n])})),
                  steps, limit, n)
<1> DEFINE wants == [i \in DOMAIN steps |-> Wanted(steps[i])]
           N == Len(steps)
           before == Sums(wants)[n - 1]
           after == Sums(wants)[n]
           t == Total(given)
           w == wants[n]
           m == Min({limit - t, w})
           more == Append(given, m)
<1>1. N \in Nat /\ DOMAIN steps = 1..N /\ n - 1 \in Nat
  OBVIOUS
<1>2. \A i \in 1..N : wants[i] = Wanted(steps[i]) /\ wants[i] \in Nat
  <2>1. \A i \in 1..N : steps[i] \in StepType
    OBVIOUS
  <2>2. \A s \in StepType : Wanted(s) \in Nat
    BY DEF Wanted, StepType
  <2>3. \A i \in 1..N : wants[i] = Wanted(steps[i])
    BY <1>1
  <2> QED
    BY <2>1, <2>2, <2>3
<1>3. wants \in Seq(Nat) /\ Len(wants) = N
  <2>1. wants = [i \in 1..N |-> wants[i]]
    BY <1>1
  <2> HIDE DEF wants, N
  <2>2. wants \in [1..N -> Nat]
    BY <1>2, <2>1
  <2> QED
    BY <1>1, <2>2
<1>4. /\ given \in Payable(limit)
      /\ Len(given) = n - 1
      /\ t <= before
      /\ t = limit \/ t = before
      /\ \A i \in 1..(n - 1) : given[i] < Wanted(steps[i]) => t = limit
      /\ \A i, j \in 1..(n - 1) : given[i] < Wanted(steps[i]) /\ i < j => given[j] = 0
  BY DEF Shared
<1>5. more \in Payable(limit)
  <2>1. w \in Nat
    BY <1>2
  <2> HIDE DEF wants
  <2> QED
    BY <1>4, <2>1, PaysOn
<1>6. more = Append(given, Min({limit - Total(given), Wanted(steps[n])}))
  <2>1. w = Wanted(steps[n])
    BY <1>2
  <2> HIDE DEF w
  <2> QED
    BY <2>1
<1> HIDE DEF wants
<1>7. before \in Nat /\ after = before + w
  BY <1>3, SumsAre
<1>8. given \in Seq(Nat) /\ t \in Nat /\ t <= limit
  BY <1>4, TotalIs DEF Payable
<1>9. w \in Nat /\ w = Wanted(steps[n])
  BY <1>2
<1> HIDE DEF N, before, after, t, w
<1>10. m \in Nat /\ m <= limit - t /\ m <= w /\ (m = limit - t \/ m = w)
  <2> DEFINE left == limit - t
  <2>1. left \in Nat
    BY <1>8
  <2> HIDE DEF left
  <2>2. Min({left, w}) \in Nat /\ Min({left, w}) <= left /\ Min({left, w}) <= w
    BY <1>9, <2>1, MinIs
  <2>3. Min({left, w}) = left \/ Min({left, w}) = w
    BY <1>9, <2>1, MinIs
  <2> QED
    BY <2>2, <2>3 DEF left
<1> HIDE DEF m
<1>11. Total(more) = t + m
  BY <1>8, <1>10, TotalAppend DEF t
<1>12. /\ Len(more) = n /\ more[n] = m
       /\ \A i \in 1..(n - 1) : more[i] = given[i]
  BY <1>4, <1>8, <1>10
<1> HIDE DEF more
<1>13. Total(more) <= after
  BY <1>4, <1>7, <1>8, <1>9, <1>10, <1>11
<1>14. Total(more) = limit \/ Total(more) = after
  <2>1. m = limit - t => Total(more) = limit
    BY <1>8, <1>10, <1>11
  <2>2. t = limit => m = 0 /\ Total(more) = limit
    BY <1>8, <1>10, <1>11
  <2>3. t = before /\ m = w => Total(more) = after
    BY <1>7, <1>11
  <2> QED
    BY <1>4, <1>10, <2>1, <2>2, <2>3
<1>15. ASSUME NEW i \in 1..n, more[i] < Wanted(steps[i])
       PROVE  Total(more) = limit
  <2>1. CASE i = n
    <3>1. m < w
      BY <1>9, <1>12, <1>15, <2>1
    <3>2. m = limit - t
      BY <1>9, <1>10, <3>1
    <3> QED
      BY <1>8, <1>11, <3>2
  <2>2. CASE i # n
    <3>1. i \in 1..(n - 1) /\ given[i] < Wanted(steps[i])
      BY <1>12, <1>15, <2>2
    <3>2. t = limit
      BY <1>4, <3>1
    <3> QED
      BY <1>8, <1>10, <1>11, <3>2
  <2> QED
    BY <2>1, <2>2
<1>16. ASSUME NEW i \in 1..n, NEW j \in 1..n, more[i] < Wanted(steps[i]), i < j
       PROVE  more[j] = 0
  <2>1. i \in 1..(n - 1) /\ given[i] < Wanted(steps[i])
    BY <1>12, <1>16
  <2>2. CASE j = n
    <3>1. t = limit
      BY <1>4, <2>1
    <3>2. m = 0
      BY <1>8, <1>10, <3>1
    <3> QED
      BY <1>12, <2>2, <3>2
  <2>3. CASE j # n
    BY <1>4, <1>12, <1>16, <2>1, <2>3
  <2> QED
    BY <2>2, <2>3
<1>17. Shared(more, steps, limit, n)
  <2>1. Total(more) <= Sums([i \in DOMAIN steps |-> Wanted(steps[i])])[n]
    BY <1>13 DEF after, wants
  <2>2. \/ Total(more) = limit
        \/ Total(more) = Sums([i \in DOMAIN steps |-> Wanted(steps[i])])[n]
    BY <1>14 DEF after, wants
  <2> QED
    BY <1>5, <1>12, <1>15, <1>16, <2>1, <2>2 DEF Shared
<1> QED
  BY <1>6, <1>17

(* The budget is shared out as the plan has it.                             *)
LEMMA SharedOutFairly ==
    ASSUME NEW limit \in Nat, NEW steps \in Seq(StepType)
    PROVE  Shared(SharedOut(steps, limit), steps, limit, Len(steps))
<1> DEFINE N == Len(steps)
           G == Given(steps, limit)
           T == {n \in 0..N : Shared(G[n], steps, limit, n)}
<1>1. N \in Nat
  OBVIOUS
<1>2. SharedOut(steps, limit) = G[N] /\ G[0] = <<>>
  BY GivenAre
<1>3. ASSUME NEW n \in 1..N
      PROVE  G[n] = Append(G[n - 1], Min({limit - Total(G[n - 1]), Wanted(steps[n])}))
  BY GivenAre
<1> HIDE DEF G
<1>4. 0 \in T
  <2> DEFINE wants == [i \in DOMAIN steps |-> Wanted(steps[i])]
  <2>1. wants \in Seq(Nat)
    <3>1. \A i \in 1..N : Wanted(steps[i]) \in Nat
      <4>1. \A i \in 1..N : steps[i] \in StepType
        OBVIOUS
      <4> QED
        BY <4>1 DEF Wanted, StepType
    <3>2. wants = [i \in 1..N |-> Wanted(steps[i])]
      OBVIOUS
    <3> HIDE DEF wants, N
    <3>3. wants \in [1..N -> Nat]
      BY <3>1, <3>2
    <3> QED
      BY <1>1, <3>3
  <2> HIDE DEF wants
  <2>2. Sums(wants)[0] = 0
    BY <2>1, SumsAre
  <2>3. <<>> \in Seq(Nat) /\ Len(<<>>) = 0
    OBVIOUS
  <2>4. Total(<<>>) = 0
    BY <2>3, SumsAre
  <2>5. Shared(<<>>, steps, limit, 0)
    BY <2>2, <2>3, <2>4 DEF Shared, Payable, wants
  <2> QED
    BY <1>1, <1>2, <2>5
<1>5. ASSUME NEW n \in 1..N, n - 1 \in T PROVE n \in T
  <2>1. Shared(G[n - 1], steps, limit, n - 1)
    BY <1>5
  <2>2. Shared(Append(G[n - 1], Min({limit - Total(G[n - 1]), Wanted(steps[n])})),
               steps, limit, n)
    BY <2>1, SharesOn
  <2>3. Shared(G[n], steps, limit, n)
    BY <1>3, <2>2
  <2> QED
    BY <2>3
<1>6. \A n \in 0..N : n \in T
  <2> HIDE DEF T, N
  <2> QED
    BY <1>1, <1>4, <1>5, Induct
<1>7. Shared(G[N], steps, limit, N)
  <2> HIDE DEF N
  <2> QED
    BY <1>1, <1>6
<1> QED
  BY <1>2, <1>7

(* The plan and the shares of its last evaluation.                          *)
PlanInv ==
    /\ plan.steps \in Seq(StepType)
    /\ plan.limit \in Nat
    /\ shares = <<>> \/ shares = SharedOut(plan.steps, plan.limit)

(* What an evaluation leaves is within the budget.                          *)
LEMMA PlanPays ==
    PlanInv => PlanWithinBudget
<1> SUFFICES ASSUME PlanInv, shares # <<>> PROVE PlanWithinBudget
  BY DEF PlanWithinBudget
<1> DEFINE steps == plan.steps
           limit == plan.limit
           N == Len(steps)
           wants == [i \in DOMAIN steps |-> Wanted(steps[i])]
           t == Total(shares)
           w == Total(wants)
<1>1. steps \in Seq(StepType) /\ limit \in Nat /\ shares = SharedOut(steps, limit)
  BY DEF PlanInv
<1>2. Shared(shares, steps, limit, N)
  <2> HIDE DEF steps, limit
  <2> QED
    BY <1>1, SharedOutFairly
<1>3. N \in Nat /\ DOMAIN steps = 1..N
  BY <1>1
<1>4. \A i \in 1..N : Wanted(steps[i]) \in Nat
  <2>1. \A i \in 1..N : steps[i] \in StepType
    BY <1>1, <1>3
  <2> QED
    BY <2>1 DEF Wanted, StepType
<1>5. wants \in Seq(Nat) /\ Len(wants) = N
  <2>1. wants = [i \in 1..N |-> Wanted(steps[i])]
    BY <1>3
  <2> HIDE DEF wants, N
  <2>2. wants \in [1..N -> Nat]
    BY <1>4, <2>1
  <2> QED
    BY <1>3, <2>2
<1>6. w = Sums(wants)[N]
  <2> HIDE DEF wants, N
  <2> QED
    BY <1>5, SumsAre
<1>7. w \in Nat
  <2> HIDE DEF wants
  <2> QED
    BY <1>5, TotalIs
<1>8. /\ shares \in Payable(limit) /\ Len(shares) = N
      /\ t <= w /\ (t = limit \/ t = w)
      /\ \A i \in 1..N : shares[i] < Wanted(steps[i]) => t = limit
      /\ \A i, j \in 1..N : shares[i] < Wanted(steps[i]) /\ i < j => shares[j] = 0
  BY <1>2, <1>6 DEF Shared
<1>9. DOMAIN shares = 1..N /\ t \in Nat /\ t <= limit
  BY <1>8, TotalIs DEF Payable
<1>10. t = Min({limit, w})
  <2> HIDE DEF t, w, limit
  <2>1. limit \in Nat
    BY <1>1
  <2>2. Min({limit, w}) = IF limit <= w THEN limit ELSE w
    BY <2>1, <1>7, MinOfTwo
  <2> QED
    BY <2>1, <2>2, <1>7, <1>8, <1>9
<1>11. \A i \in DOMAIN shares :
          shares[i] < Wanted(steps[i]) =>
              \A j \in DOMAIN shares : j > i => shares[j] = 0
  BY <1>8, <1>9
<1> QED
  BY <1>10, <1>11 DEF PlanWithinBudget

(* The steps of a plan, with what they are thought to read.                 *)
LEMMA StepsAre ==
    ASSUME HoldInv, LinkInv, NEW mode
    PROVE  Steps(mode, StoreSizes) \in Seq(StepType)
<1> DEFINE d == Cardinality(DOMAIN documents)
           p == Cardinality(DOMAIN pages)
           g == Len(links) + Cardinality(DOMAIN nodes)
           If(wanted, step) == IF wanted THEN <<step>> ELSE <<>>
<1>1. d \in Nat /\ p \in Nat /\ g \in Nat
  <2>1. /\ IsFiniteSet(DOMAIN documents) /\ IsFiniteSet(DOMAIN pages)
        /\ IsFiniteSet(DOMAIN nodes)
    BY DEF HoldInv, Held, Table
  <2>2. Len(links) \in Nat
    BY DEF LinkInv
  <2> QED
    BY <2>1, <2>2, FS_CardinalityType
<1>2. StoreSizes.docs = d /\ StoreSizes.pages = p /\ StoreSizes.graph = g
  BY DEF StoreSizes
<1> HIDE DEF d, p, g
<1>4. /\ Step("doc-scan", 4, d) \in StepType
      /\ Step("page-scan", 8, p) \in StepType
      /\ Step("graph-expand", 3, g) \in StepType
      /\ Step("bloom-filter", 1, d + p) \in StepType
      /\ Step("skip-seek", 1, p) \in StepType
  <2>1. ASSUME NEW name \in StepNames, NEW fanout \in Nat, NEW many \in Nat
        PROVE  Step(name, fanout, many) \in StepType
    BY DEF Step, StepType
  <2>2. /\ "doc-scan" \in StepNames /\ "page-scan" \in StepNames
        /\ "graph-expand" \in StepNames /\ "bloom-filter" \in StepNames
        /\ "skip-seek" \in StepNames
    BY DEF StepNames
  <2>3. d + p \in Nat
    BY <1>1
  <2>4. 1 \in Nat /\ 3 \in Nat /\ 4 \in Nat /\ 8 \in Nat
    OBVIOUS
  <2> QED
    BY <1>1, <2>1, <2>2, <2>3, <2>4
<1>5. ASSUME NEW wanted, NEW step \in StepType
      PROVE  If(wanted, step) \in Seq(StepType)
  OBVIOUS
<1>6. Steps(mode, StoreSizes) =
         If(mode \in {"docs", "mixed"}, Step("doc-scan", 4, d))
         \o If(mode \in {"pages", "mixed"}, Step("page-scan", 8, p))
         \o If(mode \in {"graph", "mixed"}, Step("graph-expand", 3, g))
         \o If(bloom.ready, Step("bloom-filter", 1, d + p))
         \o If(skip.built, Step("skip-seek", 1, p))
  BY <1>2 DEF Steps
<1> HIDE DEF If
<1>7. \A s, t \in Seq(StepType) : s \o t \in Seq(StepType)
  BY CatHolds
<1> QED
  BY <1>4, <1>5, <1>6, <1>7

(* PLAN and EVAL leave the shares those of the plan there is.               *)
LEMMA PlanStep ==
    HoldInv /\ LinkInv /\ PlanInv /\ PlanNext => PlanInv'
<1> SUFFICES ASSUME HoldInv, LinkInv, PlanInv, PlanNext PROVE PlanInv'
  OBVIOUS
<1>1. ASSUME NEW mode, NEW limit, BuildQueryPlan(mode, limit) PROVE PlanInv'
  <2>1. CASE status' = "limit"
    BY <1>1, <2>1 DEF BuildQueryPlan, PlanInv, planVars
  <2>2. CASE status' # "limit"
    <3>1. /\ plan' = [steps |-> Steps(mode, StoreSizes), limit |-> limit,
                      ready |-> plan.ready \/ status' = "ok"]
          /\ shares' = <<>>
      BY <1>1, <2>2 DEF BuildQueryPlan
    <3>2. limit \in Nat
      <4>1. status' = PlanCheck(mode, limit)
        BY <1>1 DEF BuildQueryPlan
      <4>2. ~(mode = "" \/ limit \notin 1..PlanLimit)
        BY <2>2, <4>1, Zenon DEF PlanCheck
      <4>3. limit \in 1..PlanLimit
        BY <4>2, Zenon
      <4> QED
        BY <4>3, PlanConstants
    <3>3. Steps(mode, StoreSizes) \in Seq(StepType)
      BY StepsAre
    <3>4. plan'.steps = Steps(mode, StoreSizes) /\ plan'.limit = limit
      BY <3>1
    <3> QED
      BY <3>1, <3>2, <3>3, <3>4 DEF PlanInv
  <2> QED
    BY <2>1, <2>2
<1>2. ASSUME EvaluateQueryPlan PROVE PlanInv'
  <2>1. /\ plan' = plan
        /\ shares' = shares \/ shares' = SharedOut(plan.steps, plan.limit)
    BY <1>2 DEF EvaluateQueryPlan
  <2> QED
    BY <2>1 DEF PlanInv
<1> QED
  BY <1>1, <1>2 DEF PlanNext

(* No plan was made and nothing shared out.                                 *)
LEMMA PlanStart ==
    PlanInit => PlanInv
<1> SUFFICES ASSUME PlanInit PROVE PlanInv
  OBVIOUS
<1>1. <<>> \in Seq(StepType)
  OBVIOUS
<1> QED
  BY <1>1 DEF PlanInit, PlanInv

(* One more list, at the end of lists that are put together.                *)
LEMMA FlatAppend ==
    ASSUME NEW S, NEW lists \in Seq(Seq(S)), NEW l \in Seq(S)
    PROVE  Flat(Append(lists, l)) = Flat(lists) \o l
<1> DEFINE n == Len(lists)
           more == Append(lists, l)
           f == Flats(lists)
           g == Flats(more)
           T == {i \in 0..n : f[i] = g[i]}
<1>1. /\ n \in Nat /\ more \in Seq(Seq(S)) /\ Len(more) = n + 1
      /\ more[n + 1] = l /\ \A i \in 1..n : more[i] = lists[i]
  OBVIOUS
<1>2. /\ Flat(lists) = f[n] /\ f[0] = <<>>
      /\ \A i \in 1..n : f[i] = f[i - 1] \o lists[i]
  BY FlatsAre
<1> HIDE DEF f, n, more
<1>3. /\ Flat(more) = g[n + 1] /\ g[0] = <<>>
      /\ \A i \in 1..(n + 1) : g[i] = g[i - 1] \o more[i]
  BY <1>1, FlatsAre
<1> HIDE DEF g
<1>4. 0 \in T
  BY <1>1, <1>2, <1>3
<1>5. ASSUME NEW i \in 1..n, i - 1 \in T PROVE i \in T
  <2>1. i \in 1..(n + 1)
    BY <1>1
  <2>2. f[i - 1] = g[i - 1] /\ more[i] = lists[i]
    BY <1>1, <1>5
  <2>3. f[i] = f[i - 1] \o lists[i] /\ g[i] = g[i - 1] \o more[i]
    BY <1>2, <1>3, <2>1
  <2>4. f[i] = g[i]
    BY <2>2, <2>3, Zenon
  <2> QED
    BY <2>4
<1>6. \A i \in 0..n : i \in T
  <2> HIDE DEF T
  <2> QED
    BY <1>1, <1>4, <1>5, Induct
<1>7. f[n] = g[n]
  BY <1>1, <1>6
<1>8. n + 1 \in 1..(n + 1) /\ (n + 1) - 1 = n
  BY <1>1
<1>9. g[n + 1] = g[n] \o more[n + 1]
  BY <1>3, <1>8
<1> QED
  BY <1>1, <1>2, <1>3, <1>7, <1>9 DEF more

-----------------------------------------------------------------------------
(* Packed blocks.                                                           *)

RunType == [value : Nat, length : Nat]

\* What a run stands for.
Unrolling(run) == [j \in 1..run.length |-> run.value]

(* What a list of runs with one more unrolls to.                            *)
LEMMA UnrolledAppend ==
    ASSUME NEW runs \in Seq(RunType), NEW run \in RunType
    PROVE  /\ Unrolled(runs) \in Seq(Nat)
           /\ Unrolling(run) \in Seq(Nat)
           /\ Unrolled(Append(runs, run)) = Unrolled(runs) \o Unrolling(run)
<1> DEFINE n == Len(runs)
           more == Append(runs, run)
           lists == [i \in DOMAIN runs |-> Unrolling(runs[i])]
           longer == [i \in DOMAIN more |-> Unrolling(more[i])]
           l == Unrolling(run)
<1>1. /\ n \in Nat /\ DOMAIN runs = 1..n
      /\ more \in Seq(RunType) /\ DOMAIN more = 1..(n + 1)
      /\ more[n + 1] = run /\ \A i \in 1..n : more[i] = runs[i]
  OBVIOUS
<1>2. ASSUME NEW r \in RunType PROVE Unrolling(r) \in Seq(Nat)
  <2>1. r.length \in Nat /\ r.value \in Nat
    BY DEF RunType
  <2>2. Unrolling(r) \in [1..r.length -> Nat]
    BY <2>1 DEF Unrolling
  <2> QED
    BY <2>1, <2>2
<1>3. l \in Seq(Nat)
  BY <1>2
<1>4. lists \in Seq(Seq(Nat)) /\ Len(lists) = n
  <2>1. \A i \in 1..n : Unrolling(runs[i]) \in Seq(Nat)
    <3>1. \A i \in 1..n : runs[i] \in RunType
      BY <1>1
    <3> QED
      BY <1>2, <3>1
  <2>2. lists = [i \in 1..n |-> Unrolling(runs[i])]
    BY <1>1
  <2> HIDE DEF lists, n
  <2>3. lists \in [1..n -> Seq(Nat)]
    BY <2>1, <2>2
  <2> QED
    BY <1>1, <2>3
<1>5. longer = Append(lists, l)
  <2> DEFINE u == Append(lists, l)
  <2>1. /\ u \in Seq(Seq(Nat)) /\ Len(u) = n + 1 /\ u[n + 1] = l
        /\ \A i \in 1..n : u[i] = lists[i]
    <3> HIDE DEF lists, l, n
    <3> QED
      BY <1>1, <1>3, <1>4
  <2>2. \A i \in 1..n : lists[i] = Unrolling(runs[i])
    BY <1>1
  <2>3. longer = [i \in 1..(n + 1) |-> Unrolling(more[i])]
    BY <1>1
  <2> HIDE DEF n, u, longer, lists, more
  <2>4. \A i \in 1..(n + 1) : u[i] = Unrolling(more[i])
    <3>1. ASSUME NEW i \in 1..(n + 1) PROVE u[i] = Unrolling(more[i])
      <4>1. CASE i = n + 1
        BY <1>1, <2>1, <4>1
      <4>2. CASE i # n + 1
        <5>1. i \in 1..n
          BY <1>1, <4>2
        <5> QED
          BY <1>1, <2>1, <2>2, <5>1
      <4> QED
        BY <4>1, <4>2
    <3> QED
      BY <3>1
  <2>5. u = [i \in 1..(n + 1) |-> u[i]]
    BY <2>1
  <2>6. u = longer
    BY <2>3, <2>4, <2>5
  <2> QED
    BY <2>6 DEF u
<1>6. Unrolled(runs) = Flat(lists) /\ Unrolled(more) = Flat(longer)
  BY DEF Unrolled, Unrolling
<1> HIDE DEF lists, longer, l
<1>7. Flat(lists) \in Seq(Nat) /\ Flat(Append(lists, l)) = Flat(lists) \o l
  BY <1>3, <1>4, FlatIs, FlatAppend
<1> QED
  BY <1>3, <1>5, <1>6, <1>7 DEF l

\* The runs each byte adds to.
RunLists(bytes, size) ==
    CHOOSE runs : runs = [n \in 0..Len(bytes) |->
        IF n = 0 THEN <<>> ELSE WithByte(runs[n - 1], bytes[n], size)]

(* Another byte lengthens the last run, or makes one of its own.            *)
LEMMA WithByteIs ==
    ASSUME NEW runs \in Seq(RunType), NEW byte \in Nat, NEW size \in Nat
    PROVE  \/ \E front \in Seq(RunType), length \in Nat :
                 /\ length < size
                 /\ runs = Append(front, [value |-> byte, length |-> length])
                 /\ WithByte(runs, byte, size) =
                       Append(front, [value |-> byte, length |-> length + 1])
           \/ /\ \A n \in Nat \ {0} :
                    n = Len(runs) => ~(runs[n].value = byte /\ runs[n].length < size)
              /\ WithByte(runs, byte, size) = Append(runs, [value |-> byte, length |-> 1])
<1> DEFINE n == Len(runs)
           last == runs[n]
           front == SubSeq(runs, 1, n - 1)
           more == [value |-> byte, length |-> last.length + 1]
           Longer == runs # <<>> /\ last.value = byte /\ last.length < size
<1>1. Last(runs) = last /\ Front(runs) = front
  BY DEF Last, Front
<1>2. n \in Nat /\ (runs # <<>> <=> n # 0)
  OBVIOUS
<1>3. CASE Longer
  <2>1. n \in 1..n /\ 1 \in 1..n
    BY <1>2, <1>3
  <2>2. last \in RunType
    BY <2>1
  <2>3. front \in Seq(RunType)
    <3>1. \A i \in 1..(n - 1) : runs[i] \in RunType
      BY <1>2
    <3>2. 1 \in Int /\ n - 1 \in Int
      BY <1>2
    <3> HIDE DEF n
    <3> QED
      BY <3>1, <3>2, SubSeqProperties
  <2>4. last.length \in Nat /\ more \in RunType
    <3>1. last.length \in Nat /\ last.length + 1 \in Nat
      BY <2>2 DEF RunType
    <3> QED
      BY <3>1 DEF RunType
  <2>5. last = [value |-> byte, length |-> last.length]
    BY <1>3, <2>2 DEF RunType
  <2>6. runs = SubSeq(runs, 1, n)
    BY SubSeqFull
  <2>7. SubSeq(runs, 1, n) = front \o <<last>>
    <3> HIDE DEF front, last
    <3> QED
      BY <2>1, SubSeqRecursiveSecond DEF front, last
  <2>8. WithByte(runs, byte, size) = front \o <<more>>
    BY <1>1, <1>3 DEF WithByte
  <2> HIDE DEF front, last, more
  <2>9. front \o <<last>> = Append(front, last) /\ front \o <<more>> = Append(front, more)
    BY <2>2, <2>3, <2>4, AppendIsConcat
  <2>10. runs = Append(front, [value |-> byte, length |-> last.length])
    BY <2>5, <2>6, <2>7, <2>9
  <2>11. WithByte(runs, byte, size) =
            Append(front, [value |-> byte, length |-> last.length + 1])
    BY <2>8, <2>9 DEF more
  <2> QED
    BY <1>3, <2>3, <2>4, <2>10, <2>11
<1>4. CASE ~Longer
  <2>1. WithByte(runs, byte, size) = Append(runs, [value |-> byte, length |-> 1])
    BY <1>1, <1>4 DEF WithByte
  <2>2. \A k \in Nat \ {0} : k = n => ~(runs[k].value = byte /\ runs[k].length < size)
    BY <1>2, <1>4
  <2> QED
    BY <2>1, <2>2
<1> QED
  BY <1>3, <1>4

(* The runs pack_page goes through are there.                               *)
LEMMA RunListsAre ==
    ASSUME NEW bytes \in Seq(Nat), NEW size \in Nat
    PROVE  /\ Runs(bytes, size) = RunLists(bytes, size)[Len(bytes)]
           /\ RunLists(bytes, size)[0] = <<>>
           /\ \A n \in 1..Len(bytes) :
                 /\ RunLists(bytes, size)[n - 1] \in Seq(RunType)
                 /\ RunLists(bytes, size)[n] =
                       WithByte(RunLists(bytes, size)[n - 1], bytes[n], size)
<1> DEFINE N == Len(bytes)
           V == Seq(RunType)
           a == <<>>
           G == RunLists(bytes, size)
           On(x, n) == WithByte(x, bytes[n], size)
           step == [n \in 1..N |-> [x \in V |-> On(x, n)]]
           P(f) == f = [n \in 0..N |-> IF n = 0 THEN a ELSE On(f[n - 1], n)]
<1>1. N \in Nat /\ a \in V
  OBVIOUS
<1>2. ASSUME NEW n \in 1..N, NEW x \in V PROVE On(x, n) \in V
  <2>1. bytes[n] \in Nat
    OBVIOUS
  <2>2. \A length \in Nat : [value |-> bytes[n], length |-> length] \in RunType
    BY <2>1 DEF RunType
  <2>3. \A s \in V, r \in RunType : Append(s, r) \in V
    OBVIOUS
  <2> DEFINE byte == bytes[n]
             new == WithByte(x, byte, size)
  <2> HIDE DEF byte
  <2>4. \/ \E front \in Seq(RunType), length \in Nat :
              /\ length < size
              /\ x = Append(front, [value |-> byte, length |-> length])
              /\ new = Append(front, [value |-> byte, length |-> length + 1])
        \/ /\ \A k \in Nat \ {0} :
                 k = Len(x) => ~(x[k].value = byte /\ x[k].length < size)
           /\ new = Append(x, [value |-> byte, length |-> 1])
    BY <2>1, WithByteIs DEF byte
  <2>5. ASSUME NEW length \in Nat PROVE [value |-> byte, length |-> length] \in RunType
    BY <2>2 DEF byte
  <2> HIDE DEF new
  <2>6. new \in V
    <3>1. CASE new = Append(x, [value |-> byte, length |-> 1])
      <4>1. [value |-> byte, length |-> 1] \in RunType
        BY <2>5
      <4> DEFINE r == [value |-> byte, length |-> 1]
      <4> HIDE DEF r, V
      <4> QED
        BY <2>3, <3>1, <4>1 DEF r
    <3>2. ASSUME NEW front \in Seq(RunType), NEW length \in Nat,
                 new = Append(front, [value |-> byte, length |-> length + 1])
          PROVE  new \in V
      <4>1. [value |-> byte, length |-> length + 1] \in RunType
        BY <2>5
      <4> DEFINE r == [value |-> byte, length |-> length + 1]
      <4> HIDE DEF r
      <4> QED
        BY <2>3, <3>2, <4>1 DEF r
    <3> QED
      BY <2>4, <3>1, <3>2
  <2> QED
    BY <2>6 DEF new, byte
<1>3. G = CHOOSE g : P(g)
  BY DEF RunLists
<1>4. Runs(bytes, size) = G[N]
  BY DEF Runs, RunLists
<1> HIDE DEF N, V, a, On, G
<1>5. step \in [1..N -> [V -> V]]
  BY <1>2
<1>6. \A n \in 1..N : \A x \in V : step[n][x] = On(x, n)
  OBVIOUS
<1> HIDE DEF step
<1>7. PICK f : f \in RunsOf(N, V, a, step)
  BY <1>1, <1>5, Recursion
<1>8. P(f)
  <2>1. \A n \in 0..N : f[n] = IF n = 0 THEN a ELSE On(f[n - 1], n)
    <3>1. f[0] = a
      BY <1>7 DEF RunsOf
    <3>2. ASSUME NEW n \in 1..N PROVE f[n] = On(f[n - 1], n)
      <4>1. f[n - 1] \in V /\ f[n] = step[n][f[n - 1]]
        BY <1>1, <1>7, RunSteps
      <4> QED
        BY <1>6, <4>1
    <3> QED
      BY <1>1, <3>1, <3>2
  <2>2. f = [n \in 0..N |-> f[n]]
    BY <1>7 DEF RunsOf
  <2> QED
    BY <2>1, <2>2
<1>9. P(G)
  <2> HIDE DEF P
  <2> QED
    BY <1>3, <1>8
<1>10. G \in RunsOf(N, V, a, step)
  <2>1. \A n \in 1..N : G[n - 1] \in V => G[n] = step[n][G[n - 1]]
    BY <1>1, <1>6, <1>9
  <2>2. DOMAIN G = 0..N /\ G[0] = a /\ G = [n \in DOMAIN G |-> G[n]]
    BY <1>1, <1>9
  <2> QED
    BY <1>1, <1>5, <2>1, <2>2, RunIs
<1>11. G[0] = a
  BY <1>10 DEF RunsOf
<1>12. \A n \in 1..N : G[n - 1] \in V /\ G[n] = On(G[n - 1], n)
  BY <1>1, <1>6, <1>10, RunSteps
<1> QED
  BY <1>4, <1>11, <1>12 DEF a, N, V, On, G

\* Runs the first bytes of a page were packed to.
Packed(runs, bytes, size, n) ==
    /\ runs \in Seq(RunType)
    /\ Unrolled(runs) = SubSeq(bytes, 1, n)
    /\ \A i \in 1..Len(runs) : runs[i].length \in 1..size
    /\ \A i \in 1..(Len(runs) - 1) :
          runs[i].value = runs[i + 1].value => runs[i].length = size
    /\ Len(runs) <= n
    /\ IF Len(runs) = 0 THEN n = 0
       ELSE n <= (Len(runs) - 1) * size + runs[Len(runs)].length

(* A run that is one longer unrolls to one more byte.                       *)
LEMMA UnrollingMore ==
    ASSUME NEW byte \in Nat, NEW length \in Nat
    PROVE  /\ Unrolling([value |-> byte, length |-> length + 1]) =
                 Unrolling([value |-> byte, length |-> length]) \o <<byte>>
           /\ Unrolling([value |-> byte, length |-> 1]) = <<byte>>
<1> DEFINE s == [j \in 1..length |-> byte]
           t == [j \in 1..(length + 1) |-> byte]
           u == s \o <<byte>>
<1>1. s \in Seq(Nat) /\ Len(s) = length /\ <<byte>> \in Seq(Nat) /\ Len(<<byte>>) = 1
  OBVIOUS
<1>2. \A j \in 1..length : s[j] = byte
  OBVIOUS
<1>3. <<byte>>[1] = byte
  OBVIOUS
<1> DEFINE one == <<byte>>
<1> HIDE DEF s, one
<1>4. /\ u \in Seq(Nat) /\ Len(u) = length + 1
      /\ \A j \in 1..(length + 1) : u[j] = IF j <= length THEN s[j] ELSE one[j - length]
  BY <1>1, <1>3, ConcatProperties DEF one
<1>5. \A j \in 1..(length + 1) : u[j] = byte
  <2>1. ASSUME NEW j \in 1..(length + 1) PROVE u[j] = byte
    <3>1. CASE j <= length
      BY <1>2, <1>4, <3>1
    <3>2. CASE ~(j <= length)
      <4>1. j - length = 1
        BY <3>2
      <4> QED
        BY <1>3, <1>4, <3>2, <4>1 DEF one
    <3> QED
      BY <3>1, <3>2
  <2> QED
    BY <2>1
<1>6. u = [j \in 1..(length + 1) |-> u[j]]
  BY <1>4
<1> HIDE DEF u
<1>7. u = t
  BY <1>5, <1>6
<1>8. [j \in 1..1 |-> byte] = <<byte>>
  OBVIOUS
<1> QED
  BY <1>7, <1>8 DEF Unrolling, u, s, one

(* Lists, one after the other, whichever two are put together first.        *)
LEMMA Associative ==
    ASSUME NEW a \in Seq(Nat), NEW b \in Seq(Nat), NEW c \in Seq(Nat)
    PROVE  (a \o b) \o c = a \o (b \o c)
  OBVIOUS

(* One more byte makes the runs those of one more byte.                     *)
LEMMA PacksOn ==
    ASSUME NEW bytes \in Seq(Nat), NEW size \in Nat \ {0}, NEW n \in 1..Len(bytes),
           NEW runs, Packed(runs, bytes, size, n - 1)
    PROVE  Packed(WithByte(runs, bytes[n], size), bytes, size, n)
<1> DEFINE byte == bytes[n]
           k == Len(runs)
           head == SubSeq(bytes, 1, n - 1)
           new == WithByte(runs, byte, size)
<1>1. byte \in Nat
  OBVIOUS
<1>2. SubSeq(bytes, 1, n) = head \o <<byte>>
  BY SubSeqRecursiveSecond
<1>3. head \in Seq(Nat)
  <2>1. \A i \in 1..(n - 1) : bytes[i] \in Nat
    OBVIOUS
  <2> QED
    BY <2>1, SubSeqProperties
<1>4. /\ runs \in Seq(RunType)
      /\ Unrolled(runs) = head
      /\ \A i \in 1..k : runs[i].length \in 1..size
      /\ \A i \in 1..(k - 1) :
            runs[i].value = runs[i + 1].value => runs[i].length = size
      /\ k <= n - 1
      /\ k = 0 => n - 1 = 0
      /\ k # 0 => n - 1 <= (k - 1) * size + runs[k].length
  BY DEF Packed
<1>5. k \in Nat
  BY <1>4
<1> HIDE DEF byte, head
<1>6. \/ \E front \in Seq(RunType), length \in Nat :
            /\ length < size
            /\ runs = Append(front, [value |-> byte, length |-> length])
            /\ new = Append(front, [value |-> byte, length |-> length + 1])
      \/ /\ \A i \in Nat \ {0} :
               i = k => ~(runs[i].value = byte /\ runs[i].length < size)
         /\ new = Append(runs, [value |-> byte, length |-> 1])
  BY <1>1, <1>4, WithByteIs
<1> HIDE DEF new
<1>7. \A l \in Nat : [value |-> byte, length |-> l] \in RunType
  BY <1>1 DEF RunType
<1>8. ASSUME NEW front \in Seq(RunType), NEW length \in Nat, length < size,
             runs = Append(front, [value |-> byte, length |-> length]),
             new = Append(front, [value |-> byte, length |-> length + 1])
      PROVE  Packed(new, bytes, size, n)
  <2> DEFINE old == [value |-> byte, length |-> length]
             more == [value |-> byte, length |-> length + 1]
             m == Len(front)
  <2>1. /\ old \in RunType /\ old.value = byte /\ old.length = length
        /\ more \in RunType /\ more.value = byte /\ more.length = length + 1
    BY <1>7
  <2>2. runs = Append(front, old) /\ new = Append(front, more)
    BY <1>8
  <2>3. Unrolling(more) = Unrolling(old) \o <<byte>>
    BY <1>1, UnrollingMore
  <2> HIDE DEF old, more
  <2>4. /\ m \in Nat /\ k = m + 1 /\ runs[m + 1] = old
        /\ \A i \in 1..m : runs[i] = front[i]
    BY <2>1, <2>2
  <2>5. /\ new \in Seq(RunType) /\ Len(new) = m + 1 /\ new[m + 1] = more
        /\ \A i \in 1..m : new[i] = front[i]
    BY <2>1, <2>2
  <2>6. Unrolled(new) = SubSeq(bytes, 1, n)
    <3> DEFINE a == Unrolled(front)
               b == Unrolling(old)
               c == <<byte>>
    <3>1. a \in Seq(Nat) /\ b \in Seq(Nat) /\ Unrolled(runs) = a \o b
      BY <2>1, <2>2, UnrolledAppend
    <3>2. Unrolled(new) = a \o Unrolling(more)
      BY <2>1, <2>2, UnrolledAppend
    <3>3. c \in Seq(Nat)
      BY <1>1
    <3> HIDE DEF a, b, c
    <3>4. (a \o b) \o c = a \o (b \o c)
      <4>1. a \in Seq(Nat) /\ b \in Seq(Nat)
        BY <3>1
      <4> QED
        BY <3>3, <4>1, Associative, ZenonT(60)
    <3>5. Unrolled(new) = a \o (b \o c)
      BY <3>2, <2>3 DEF b, c
    <3>6. SubSeq(bytes, 1, n) = head \o c
      BY <1>2 DEF c
    <3>7. head = a \o b
      BY <1>4, <3>1, Zenon
    <3>8. SubSeq(bytes, 1, n) = (a \o b) \o c
      BY <3>6, <3>7, Zenon
    <3> QED
      BY <3>4, <3>5, <3>8, Zenon
  <2> HIDE DEF m, k
  <2>7. \A i \in 1..(m + 1) : new[i].length \in 1..size
    <3>1. ASSUME NEW i \in 1..(m + 1) PROVE new[i].length \in 1..size
      <4>1. CASE i = m + 1
        BY <1>8, <2>1, <2>5, <4>1
      <4>2. CASE i # m + 1
        <5>1. i \in 1..m /\ i \in 1..k
          BY <2>4, <4>2
        <5> QED
          BY <1>4, <2>4, <2>5, <5>1
      <4> QED
        BY <4>1, <4>2
    <3> QED
      BY <3>1
  <2>8. ASSUME NEW i \in 1..m, new[i].value = new[i + 1].value
        PROVE  new[i].length = size
    <3>1. i \in 1..(k - 1) /\ new[i] = runs[i]
      <4>1. i \in 1..(k - 1)
        BY <2>4
      <4>2. runs[i] = front[i] /\ new[i] = front[i]
        BY <2>4, <2>5
      <4> QED
        BY <4>1, <4>2
    <3>2. new[i + 1].value = runs[i + 1].value
      <4>1. CASE i = m
        BY <2>1, <2>4, <2>5, <4>1
      <4>2. CASE i # m
        <5>1. i + 1 \in 1..m
          BY <2>4, <4>2
        <5> QED
          BY <2>4, <2>5, <5>1
      <4> QED
        BY <4>1, <4>2
    <3> QED
      BY <1>4, <2>8, <3>1, <3>2
  <2>9. n <= m * size + (length + 1)
    <3>1. n - 1 <= (k - 1) * size + length
      BY <1>4, <2>1, <2>4
    <3>2. k - 1 = m
      BY <2>4
    <3>3. n - 1 <= m * size + length
      BY <3>1, <3>2
    <3> DEFINE p == m * size
    <3>4. p \in Nat
      BY <2>4
    <3> HIDE DEF p
    <3>5. n - 1 <= p + length
      BY <3>3 DEF p
    <3>6. n <= p + (length + 1)
      BY <3>4, <3>5
    <3> QED
      BY <3>6 DEF p
  <2>10. Len(new) - 1 = m /\ Len(new) # 0 /\ Len(new) <= n /\ new[Len(new)].length = length + 1
    BY <1>4, <2>1, <2>4, <2>5
  <2>11. Packed(new, bytes, size, n)
    BY <2>5, <2>6, <2>7, <2>8, <2>9, <2>10 DEF Packed
  <2> QED
    BY <2>11
<1>9. ASSUME \A i \in Nat \ {0} :
                i = k => ~(runs[i].value = byte /\ runs[i].length < size),
             new = Append(runs, [value |-> byte, length |-> 1])
      PROVE  Packed(new, bytes, size, n)
  <2> DEFINE one == [value |-> byte, length |-> 1]
  <2>1. one \in RunType /\ one.value = byte /\ one.length = 1
    BY <1>7
  <2>2. new = Append(runs, one)
    BY <1>9
  <2>3. Unrolling(one) = <<byte>>
    BY <1>1, UnrollingMore
  <2> HIDE DEF one
  <2>4. /\ new \in Seq(RunType) /\ Len(new) = k + 1 /\ new[k + 1] = one
        /\ \A i \in 1..k : new[i] = runs[i]
    BY <1>4, <2>1, <2>2
  <2>5. Unrolled(new) = SubSeq(bytes, 1, n)
    <3>1. Unrolled(new) = Unrolled(runs) \o Unrolling(one)
      BY <1>4, <2>1, <2>2, UnrolledAppend
    <3> QED
      BY <1>2, <1>4, <2>3, <3>1, Zenon
  <2> HIDE DEF k
  <2>6. \A i \in 1..(k + 1) : new[i].length \in 1..size
    <3>1. ASSUME NEW i \in 1..(k + 1) PROVE new[i].length \in 1..size
      <4>1. CASE i = k + 1
        BY <2>1, <2>4, <4>1
      <4>2. CASE i # k + 1
        <5>1. i \in 1..k
          BY <1>5, <4>2
        <5> QED
          BY <1>4, <2>4, <5>1
      <4> QED
        BY <4>1, <4>2
    <3> QED
      BY <3>1
  <2>7. ASSUME NEW i \in 1..k, new[i].value = new[i + 1].value
        PROVE  new[i].length = size
    <3>1. new[i] = runs[i] /\ runs[i].length \in 1..size
      BY <1>4, <2>4
    <3>2. CASE i = k
      <4>1. runs[i].value = byte
        BY <2>1, <2>4, <2>7, <3>1, <3>2
      <4>2. ~(runs[i].length < size)
        BY <1>9, <3>2, <4>1
      <4> QED
        BY <3>1, <4>2
    <3>3. CASE i # k
      <4>1. i \in 1..(k - 1) /\ i + 1 \in 1..k
        BY <1>5, <3>3
      <4>2. new[i + 1] = runs[i + 1]
        BY <2>4, <4>1
      <4> QED
        BY <1>4, <2>7, <3>1, <4>1, <4>2
    <3> QED
      BY <3>2, <3>3
  <2>8. n <= k * size + 1
    <3>1. CASE k = 0
      BY <1>4, <3>1
    <3>2. CASE k # 0
      <4> DEFINE l == runs[k].length
      <4>1. l \in 1..size /\ n - 1 <= (k - 1) * size + l
        BY <1>4, <1>5, <3>2
      <4> HIDE DEF l
      <4>2. (k - 1) * size = k * size - size
        BY <1>5
      <4> DEFINE p == k * size
      <4>3. p \in Nat /\ n - 1 <= (p - size) + l
        BY <1>5, <4>1, <4>2
      <4> HIDE DEF p
      <4>4. n <= p + 1
        BY <4>1, <4>3
      <4> QED
        BY <4>4 DEF p
    <3> QED
      BY <3>1, <3>2
  <2>9. Len(new) - 1 = k /\ Len(new) # 0 /\ Len(new) <= n /\ new[Len(new)].length = 1
    BY <1>4, <1>5, <2>1, <2>4
  <2>10. Packed(new, bytes, size, n)
    BY <2>4, <2>5, <2>6, <2>7, <2>8, <2>9 DEF Packed
  <2> QED
    BY <2>10
<1>10. Packed(new, bytes, size, n)
  BY <1>6, <1>8, <1>9
<1> QED
  BY <1>10 DEF new, byte

(* What pack_page makes of a page.                                          *)
LEMMA RunsPack ==
    ASSUME NEW bytes \in Seq(Nat), NEW size \in Nat \ {0}
    PROVE  Packed(Runs(bytes, size), bytes, size, Len(bytes))
<1> DEFINE N == Len(bytes)
           G == RunLists(bytes, size)
           T == {n \in 0..N : Packed(G[n], bytes, size, n)}
<1>1. N \in Nat
  OBVIOUS
<1>2. Runs(bytes, size) = G[N] /\ G[0] = <<>>
  BY RunListsAre
<1>3. ASSUME NEW n \in 1..N PROVE G[n] = WithByte(G[n - 1], bytes[n], size)
  BY RunListsAre
<1> HIDE DEF G
<1>4. Packed(<<>>, bytes, size, 0)
  <2>1. <<>> \in Seq(RunType) /\ Len(<<>>) = 0 /\ DOMAIN <<>> = {}
    OBVIOUS
  <2>2. Unrolled(<<>>) = <<>>
    <3> DEFINE lists == [i \in DOMAIN <<>> |-> [j \in 1..<<>>[i].length |-> <<>>[i].value]]
    <3>1. lists = <<>>
      OBVIOUS
    <3>2. Unrolled(<<>>) = Flat(lists)
      BY DEF Unrolled
    <3> HIDE DEF lists
    <3>3. Flat(<<>>) = <<>>
      <4>1. <<>> \in Seq(Seq(Nat)) /\ Len(<<>>) = 0
        OBVIOUS
      <4> QED
        BY <4>1, FlatsAre
    <3> QED
      BY <3>1, <3>2, <3>3
  <2>3. SubSeq(bytes, 1, 0) = <<>>
    BY SubSeqEmpty
  <2> DEFINE e == <<>>
  <2>4. /\ e \in Seq(RunType) /\ Len(e) = 0
        /\ Unrolled(e) = SubSeq(bytes, 1, 0)
    BY <2>1, <2>2, <2>3
  <2> HIDE DEF e
  <2>5. 1..Len(e) = {} /\ 1..(Len(e) - 1) = {}
    BY <2>4
  <2>6. Packed(e, bytes, size, 0)
    BY <2>4, <2>5 DEF Packed
  <2> QED
    BY <2>6 DEF e
<1>5. 0 \in T
  BY <1>1, <1>2, <1>4
<1>6. ASSUME NEW n \in 1..N, n - 1 \in T PROVE n \in T
  <2>1. Packed(G[n - 1], bytes, size, n - 1)
    BY <1>6
  <2>2. Packed(WithByte(G[n - 1], bytes[n], size), bytes, size, n)
    BY <2>1, PacksOn
  <2>3. Packed(G[n], bytes, size, n)
    BY <1>3, <2>2
  <2> QED
    BY <2>3
<1>7. \A n \in 0..N : n \in T
  <2> HIDE DEF T, N
  <2> QED
    BY <1>1, <1>5, <1>6, Induct
<1>8. Packed(G[N], bytes, size, N)
  <2> HIDE DEF N
  <2> QED
    BY <1>1, <1>7
<1> QED
  BY <1>2, <1>8

(* The chunks and what is told of them.                                     *)
BlockInv == PackLossless

(* PACK leaves of each page what unrolls to it again.                       *)
LEMMA BlockStep ==
    HoldInv /\ BlockInv /\ BlockNext => BlockInv'
<1> SUFFICES ASSUME HoldInv, BlockInv, BlockNext PROVE BlockInv'
  OBVIOUS
<1>1. ASSUME NEW size, PackBlocks(size) PROVE BlockInv'
  <2>1. CASE status' = "limit"
    <3>1. blocks' = blocks
      BY <1>1, <2>1 DEF PackBlocks
    <3> QED
      BY <3>1 DEF BlockInv, PackLossless, RoundTrips, Unrolled
  <2>2. CASE status' # "limit"
    <3> DEFINE ids == Ids(pages)
               N == Len(ids)
               P(id) == [flat |-> pages[id].bytes, runs |-> Runs(pages[id].bytes, size)]
               chunks == [id \in DOMAIN pages |-> P(id)]
               less == [i \in DOMAIN ids |-> Len(chunks[ids[i]].runs)]
               more == [i \in DOMAIN ids |-> Len(chunks[ids[i]].flat)]
    <3>1. size \in Nat \ {0}
      <4>1. status' = PackCheck(size)
        BY <1>1 DEF PackBlocks
      <4>2. ~(size \notin 1..RunLimit)
        BY <2>2, <4>1, Zenon DEF PackCheck
      <4>3. size \in 1..RunLimit
        BY <4>2, Zenon
      <4> QED
        BY <4>3, BlockConstants
    <3>2. /\ blocks'.chunks = chunks /\ blocks'.block_size = size
          /\ blocks'.packed = Total(less) /\ blocks'.unpacked = Total(more)
      BY <1>1, <2>2 DEF PackBlocks
    <3>3. Table(pages, PageIds, Page(epoch)) /\ PageIds \in SUBSET Nat
      BY IndexesConstants DEF HoldInv, Held
    <3>4. ASSUME NEW id \in DOMAIN pages
          PROVE  pages[id].bytes \in Seq(Nat) /\ Len(pages[id].bytes) # 0
      <4>1. pages[id] \in Page(epoch)
        BY <3>3 DEF Table
      <4>2. pages[id].bytes \in PageBytes
        BY <4>1 DEF Page
      <4>3. pages[id].bytes \in Seq(0..(Radix - 1)) \ {<<>>}
        BY <4>2, SkipConstants
      <4> DEFINE b == pages[id].bytes
                 D == 0..(Radix - 1)
      <4>4. D \subseteq Nat
        BY SkipConstants
      <4>5. b \in Seq(D) /\ b # <<>>
        BY <4>3
      <4> HIDE DEF b, D
      <4>6. Len(b) \in Nat /\ b \in [1..Len(b) -> D] /\ Len(b) # 0
        BY <4>5
      <4>7. b \in [1..Len(b) -> Nat]
        BY <4>4, <4>6
      <4>8. b \in Seq(Nat)
        BY <4>6, <4>7
      <4> QED
        BY <4>6, <4>8 DEF b
    <3>5. ASSUME NEW id \in DOMAIN pages
          PROVE  /\ chunks[id].flat = pages[id].bytes
                 /\ Packed(chunks[id].runs, pages[id].bytes, size, Len(pages[id].bytes))
      <4>1. chunks[id].flat = pages[id].bytes /\ chunks[id].runs = Runs(pages[id].bytes, size)
        OBVIOUS
      <4> HIDE DEF chunks
      <4> QED
        BY <3>1, <3>4, <4>1, RunsPack
    <3>6. DOMAIN chunks = DOMAIN pages
      OBVIOUS
    <3>7. /\ N \in Nat /\ DOMAIN ids = 1..N
          /\ \A i \in 1..N : ids[i] \in DOMAIN pages
      BY <3>3, IdsAre
    <3>8. less = [i \in 1..N |-> Len(chunks[ids[i]].runs)]
      BY <3>7
    <3>9. more = [i \in 1..N |-> Len(chunks[ids[i]].flat)]
      BY <3>7
    <3> HIDE DEF chunks, ids, N, less, more
    <3>10. ASSUME NEW id \in DOMAIN pages
           PROVE  LET r == Len(chunks[id].runs)
                      f == Len(chunks[id].flat)
                  IN  r \in Nat /\ f \in Nat /\ r <= f /\ f <= r * size
      <4> DEFINE runs == chunks[id].runs
                 r == Len(runs)
                 f == Len(chunks[id].flat)
      <4>1. /\ runs \in Seq(RunType) /\ r <= f
            /\ \A i \in 1..r : runs[i].length \in 1..size
            /\ r = 0 => f = 0
            /\ r # 0 => f <= (r - 1) * size + runs[r].length
        BY <3>5 DEF Packed
      <4>2. r \in Nat /\ f \in Nat
        BY <3>4, <3>5, <4>1
      <4> HIDE DEF runs, f
      <4>3. f <= r * size
        <5>1. CASE r = 0
          BY <4>1, <5>1, <3>1
        <5>2. CASE r # 0
          <6> DEFINE l == runs[r].length
          <6>1. l \in 1..size /\ f <= (r - 1) * size + l
            BY <4>1, <4>2, <5>2
          <6> HIDE DEF l, r
          <6>2. (r - 1) * size = r * size - size
            BY <3>1, <4>2
          <6> DEFINE p == r * size
          <6>3. p \in Nat /\ f <= (p - size) + l
            BY <3>1, <4>2, <6>1, <6>2
          <6> HIDE DEF p
          <6>4. f <= p
            BY <3>1, <4>2, <6>1, <6>3
          <6> QED
            BY <6>4 DEF p
        <5> QED
          BY <5>1, <5>2
      <4> QED
        BY <4>1, <4>2, <4>3 DEF runs, f
    <3>11. less \in [1..N -> Nat] /\ more \in [1..N -> Nat]
      BY <3>7, <3>8, <3>9, <3>10
    <3>12. /\ \A i \in 1..N : less[i] <= 1 * more[i]
           /\ \A i \in 1..N : more[i] <= size * less[i]
      <4>1. ASSUME NEW i \in 1..N
            PROVE  less[i] <= 1 * more[i] /\ more[i] <= size * less[i]
        <5> DEFINE r == less[i]
                   f == more[i]
        <5>1. r = Len(chunks[ids[i]].runs) /\ f = Len(chunks[ids[i]].flat)
          BY <3>8, <3>9
        <5>2. r \in Nat /\ f \in Nat /\ r <= f /\ f <= r * size
          BY <3>7, <3>10, <5>1
        <5> HIDE DEF r, f
        <5>3. r <= 1 * f /\ f <= size * r
          BY <3>1, <5>2
        <5> QED
          BY <5>3 DEF r, f
      <4> QED
        BY <4>1
    <3>13. Total(less) <= 1 * Total(more) /\ Total(more) <= size * Total(less)
      BY <3>1, <3>7, <3>11, <3>12, TotalAtMost
    <3>14. Total(less) \in Nat /\ Total(more) \in Nat
      <4>1. less \in Seq(Nat) /\ more \in Seq(Nat)
        BY <3>7, <3>11
      <4> QED
        BY <4>1, TotalIs
    <3>15. Total(less) <= Total(more) /\ Total(more) <= Total(less) * size
      <4> DEFINE a == Total(less)
                 b == Total(more)
      <4>1. a \in Nat /\ b \in Nat /\ a <= 1 * b /\ b <= size * a
        BY <3>13, <3>14
      <4> HIDE DEF a, b
      <4>2. a <= b /\ b <= a * size
        BY <3>1, <4>1
      <4> QED
        BY <4>2 DEF a, b
    <3>16. ASSUME NEW id \in DOMAIN pages
           PROVE  /\ Unrolled(chunks[id].runs) = chunks[id].flat
                  /\ \A i \in DOMAIN chunks[id].runs :
                        chunks[id].runs[i].length \in 1..size
                  /\ \A i \in 1..(Len(chunks[id].runs) - 1) :
                        chunks[id].runs[i].value = chunks[id].runs[i + 1].value
                            => chunks[id].runs[i].length = size
      <4> DEFINE bytes == pages[id].bytes
                 runs == chunks[id].runs
      <4>1. bytes \in Seq(Nat) /\ chunks[id].flat = bytes
        BY <3>4, <3>5
      <4>2. /\ runs \in Seq(RunType)
            /\ Unrolled(runs) = SubSeq(bytes, 1, Len(bytes))
            /\ \A i \in 1..Len(runs) : runs[i].length \in 1..size
            /\ \A i \in 1..(Len(runs) - 1) :
                  runs[i].value = runs[i + 1].value => runs[i].length = size
        BY <3>5 DEF Packed
      <4>3. DOMAIN runs = 1..Len(runs)
        BY <4>2
      <4>4. SubSeq(bytes, 1, Len(bytes)) = bytes
        <5> HIDE DEF bytes
        <5> QED
          BY <4>1, SubSeqFull
      <4> QED
        BY <4>1, <4>2, <4>3, <4>4
    <3>17. \A id \in DOMAIN pages : RoundTrips(chunks[id])
      BY <3>16 DEF RoundTrips
    <3> DEFINE b == blocks'
    <3>18. b.chunks = chunks /\ b.block_size = size
      BY <3>2
    <3>19. BlockInv'
      BY <3>2, <3>6, <3>15, <3>16 DEF BlockInv, PackLossless, RoundTrips, Unrolled
    <3> QED
      BY <3>19
  <2> QED
    BY <2>1, <2>2
<1>2. ASSUME UnpackBlocks PROVE BlockInv'
  <2>1. blocks' = blocks
    BY <1>2 DEF UnpackBlocks
  <2> QED
    BY <2>1 DEF BlockInv, PackLossless, RoundTrips, Unrolled
<1> QED
  BY <1>1, <1>2 DEF BlockNext

(* There are no chunks at first.                                            *)
LEMMA BlockStart ==
    BlockInit => BlockInv
<1> SUFFICES ASSUME BlockInit PROVE BlockInv
  OBVIOUS
<1>1. blocks.chunks = Empty /\ blocks.packed = 0 /\ blocks.unpacked = 0
      /\ blocks.block_size = 0
  BY DEF BlockInit
<1>2. DOMAIN Empty = {}
  BY DEF Empty
<1> QED
  BY <1>1, <1>2 DEF BlockInv, PackLossless

-----------------------------------------------------------------------------
(* The skip index.                                                          *)

PointType == [key : Nat, page_id : Nat, offset : Nat, span : Int]

\* The byte a point is about is in a page, and is what its key says.
InPages(point) ==
    /\ point.page_id \in DOMAIN pages
    /\ point.offset < Len(pages[point.page_id].bytes)
    /\ point.key = KeyOf(pages[point.page_id].bytes[point.offset + 1],
                         point.offset, point.page_id)

(* Steps of a stride, as many as it takes to go through n places, do not go *)
(* further.                                                                 *)
LEMMA StridesIn ==
    ASSUME NEW n \in Nat, NEW stride \in Nat \ {0},
           NEW i \in 1..((n + stride - 1) \div stride)
    PROVE  (i - 1) * stride \in Nat /\ (i - 1) * stride < n
<1> DEFINE m == n + stride - 1
           q == m \div stride
<1>1. m \in Nat
  OBVIOUS
<1>2. q \in Nat /\ q * stride <= m
  <2> HIDE DEF m
  <2> QED
    BY <1>1
<1>3. i \in Nat /\ i >= 1 /\ i <= q
  BY <1>2
<1> HIDE DEF q
<1>4. i * stride <= q * stride
  BY <1>2, <1>3
<1>5. (i - 1) * stride = i * stride - stride
  BY <1>3
<1>6. i * stride \in Nat /\ i * stride >= stride
  BY <1>3
<1> DEFINE p == i * stride
<1> HIDE DEF p, m
<1>7. p \in Nat /\ p >= stride /\ p <= m
  <2> DEFINE r == q * stride
  <2>1. p <= r /\ r <= m /\ r \in Nat
    BY <1>2, <1>4 DEF p
  <2> HIDE DEF r
  <2> QED
    BY <1>1, <1>6, <2>1 DEF p
<1>8. p - stride \in Nat /\ p - stride < n
  BY <1>1, <1>7 DEF m
<1> QED
  BY <1>5, <1>8 DEF p

(* The key of a byte is a number.                                           *)
LEMMA KeyIs ==
    ASSUME NEW byte \in Nat, NEW offset \in Nat, NEW id \in Nat
    PROVE  KeyOf(byte, offset, id) \in Nat
<1> DEFINE two == Radix * Radix
           four == two * two
           a == offset % Radix
           b == (id * two) % four
<1>1. Radix \in Nat \ {0}
  BY SkipConstants
<1>2. a \in Nat
  BY <1>1
<1>3. two \in Nat \ {0}
  BY <1>1
<1>4. four \in Nat \ {0}
  <2> HIDE DEF two
  <2> QED
    BY <1>3
<1>5. b \in Nat
  <2> DEFINE c == id * two
  <2>1. c \in Nat
    <3> HIDE DEF two
    <3> QED
      BY <1>3
  <2> HIDE DEF c, four
  <2>2. c % four \in Nat
    BY <1>4, <2>1
  <2> QED
    BY <2>2 DEF c
<1>6. KeyOf(byte, offset, id) = byte + a * Radix + b
  BY DEF KeyOf
<1> HIDE DEF a, b
<1>7. a * Radix \in Nat
  BY <1>1, <1>2
<1> QED
  BY <1>5, <1>6, <1>7

(* Every point of a page is about one of its bytes.                         *)
LEMMA PointsAre ==
    ASSUME HoldInv, NEW id \in DOMAIN pages, NEW stride \in Nat \ {0}
    PROVE  PagePoints(id, stride) \in Seq({p \in PointType : InPages(p)})
<1> DEFINE bytes == pages[id].bytes
           n == Len(bytes)
           m == (n + stride - 1) \div stride
           S == {p \in PointType : InPages(p)}
<1>1. Table(pages, PageIds, Page(epoch)) /\ PageIds \in SUBSET Nat
  BY IndexesConstants DEF HoldInv, Held
<1>2. bytes \in Seq(0..(Radix - 1)) /\ id \in Nat
  <2>1. pages[id] \in Page(epoch) /\ id \in PageIds
    BY <1>1 DEF Table
  <2>2. bytes \in PageBytes
    BY <2>1 DEF Page
  <2> QED
    BY <1>1, <2>1, <2>2, SkipConstants
<1>3. n \in Nat /\ \A k \in 1..n : bytes[k] \in Nat
  <2> DEFINE D == 0..(Radix - 1)
  <2>1. D \subseteq Nat
    BY SkipConstants
  <2> HIDE DEF D, bytes
  <2>2. bytes \in Seq(D)
    BY <1>2 DEF D
  <2>3. n \in Nat /\ \A k \in 1..n : bytes[k] \in D
    BY <2>2
  <2> QED
    BY <2>1, <2>3
<1>4. m \in Nat
  <2> DEFINE c == n + stride - 1
  <2>1. c \in Nat
    BY <1>3
  <2> HIDE DEF c
  <2>2. c \div stride \in Nat
    BY <2>1
  <2> QED
    BY <2>2 DEF c
<1>5. ASSUME NEW i \in 1..m PROVE PointAt(id, (i - 1) * stride, stride) \in S
  <2> DEFINE o == (i - 1) * stride
             point == PointAt(id, o, stride)
  <2>1. o \in Nat /\ o < n
    <3> HIDE DEF n
    <3> QED
      BY <1>3, StridesIn
  <2> HIDE DEF o
  <2>2. bytes[o + 1] \in Nat
    <3>1. o + 1 \in 1..n
      BY <1>3, <2>1
    <3> QED
      BY <1>3, <3>1
  <2> DEFINE key == KeyOf(bytes[o + 1], o, id)
             span == Min({stride, n - o})
  <2>3. key \in Nat
    <3> HIDE DEF bytes
    <3> QED
      BY <1>2, <2>1, <2>2, KeyIs
  <2>4. span \in Int
    <3> DEFINE left == n - o
    <3>1. left \in Int /\ stride \in Int
      BY <1>3, <2>1
    <3> HIDE DEF left
    <3>2. Min({stride, left}) = IF stride <= left THEN stride ELSE left
      BY <3>1, MinOfTwo
    <3> QED
      BY <3>1, <3>2 DEF left
  <2>5. point = [key |-> key, page_id |-> id, offset |-> o, span |-> span]
    BY DEF PointAt
  <2>6. point.key = key /\ point.page_id = id /\ point.offset = o
    BY <2>5
  <2> HIDE DEF key, span
  <2>7. point \in PointType
    BY <1>2, <2>1, <2>3, <2>4, <2>5 DEF PointType
  <2> HIDE DEF point
  <2>8. InPages(point)
    BY <2>1, <2>6 DEF InPages, key
  <2>9. point \in S
    BY <2>7, <2>8
  <2> QED
    BY <2>9 DEF point, o
<1>6. PagePoints(id, stride) = [i \in 1..m |-> PointAt(id, (i - 1) * stride, stride)]
  BY DEF PagePoints
<1> HIDE DEF m, S
<1>7. PagePoints(id, stride) \in [1..m -> S]
  BY <1>5, <1>6
<1>8. PagePoints(id, stride) \in Seq(S)
  BY <1>4, <1>7
<1> QED
  BY <1>8 DEF S

\* Whose keys do not fall.
Rising(layer) ==
    \A i, j \in DOMAIN layer : i < j => layer[i].key <= layer[j].key

(* The base layer: points of the pages there are, their keys rising.        *)
LEMMA BaseIs ==
    ASSUME HoldInv, NEW stride \in Nat \ {0}
    PROVE  /\ BasePoints(stride) \in Seq({p \in PointType : InPages(p)})
           /\ Rising(BasePoints(stride))
<1> DEFINE S == {p \in PointType : InPages(p)}
           ids == Ids(pages)
           lists == [i \in DOMAIN ids |-> PagePoints(ids[i], stride)]
           list == Flat(lists)
           D == DOMAIN list
           before == {pair \in D \X D : PointBefore(list[pair[1]], list[pair[2]])}
           order == {pair \in D \X D :
                        \/ PointBefore(list[pair[1]], list[pair[2]])
                        \/ /\ pair[1] <= pair[2]
                           /\ ~PointBefore(list[pair[2]], list[pair[1]])}
           sorted == BasePoints(stride)
<1>1. Table(pages, PageIds, Page(epoch)) /\ PageIds \in SUBSET Nat
  BY IndexesConstants DEF HoldInv, Held
<1>2. /\ Len(ids) \in Nat /\ DOMAIN ids = 1..Len(ids)
      /\ \A i \in 1..Len(ids) : ids[i] \in DOMAIN pages
  BY <1>1, IdsAre
<1>3. \A i \in 1..Len(ids) : PagePoints(ids[i], stride) \in Seq(S)
  BY <1>2, PointsAre
<1>4. lists \in Seq(Seq(S))
  <2>1. lists = [i \in 1..Len(ids) |-> PagePoints(ids[i], stride)]
    BY <1>2
  <2> HIDE DEF S, lists, ids
  <2>2. lists \in [1..Len(ids) -> Seq(S)]
    BY <1>3, <2>1
  <2> QED
    BY <1>2, <2>2
<1>5. list \in Seq(S)
  <2> HIDE DEF S, lists
  <2> QED
    BY <1>4, FlatIs
<1>6. sorted = [i \in D |-> list[Arranged(D, order)[i]]]
  BY DEF BasePoints, Sorted
<1>7. order = Stable(before, D)
  BY DEF Stable
<1>8. \A x, y \in D : <<x, y>> \in before <=> PointBefore(list[x], list[y])
  OBVIOUS
<1>9. \A x \in D : /\ list[x].key \in Nat /\ list[x].page_id \in Nat
                   /\ list[x].offset \in Nat
  <2>1. \A x \in D : list[x] \in S
    <3> HIDE DEF S, list
    <3> QED
      BY <1>5
  <2> HIDE DEF list
  <2>2. \A x \in D : list[x] \in PointType
    BY <2>1
  <2> QED
    BY <2>2 DEF PointType
<1> HIDE DEF S, lists, list, before, order
<1>10. Weak(before, D)
  <2>1. ASSUME NEW x \in D, NEW y \in D, <<x, y>> \in before
        PROVE  <<y, x>> \notin before
    <3>1. PointBefore(list[x], list[y])
      BY <1>8, <2>1
    <3>2. ~PointBefore(list[y], list[x])
      BY <1>9, <3>1 DEF PointBefore
    <3> QED
      BY <1>8, <3>2
  <2>2. ASSUME NEW x \in D, NEW y \in D, NEW z \in D, <<x, y>> \in before
        PROVE  <<x, z>> \in before \/ <<z, y>> \in before
    <3>1. PointBefore(list[x], list[y])
      BY <1>8, <2>2
    <3>2. PointBefore(list[x], list[z]) \/ PointBefore(list[z], list[y])
      BY <1>9, <3>1 DEF PointBefore
    <3> QED
      BY <1>8, <3>2
  <2> QED
    BY <2>1, <2>2 DEF Weak
<1>11. Rearranged(list, sorted, order)
  BY <1>5, <1>6, <1>7, <1>10, SortedList
<1> HIDE DEF sorted
<1>12. sorted \in Seq(S) /\ DOMAIN sorted = D
  BY <1>5, <1>11, RearrangedKeeps
<1>13. Rising(sorted)
  <2>1. PICK place \in [D -> D] :
          /\ \A i, j \in D : i < j => <<place[i], place[j]>> \in order
          /\ sorted = [i \in D |-> list[place[i]]]
    BY <1>11 DEF Rearranged
  <2>2. ASSUME NEW x \in D, NEW y \in D, <<x, y>> \in order
        PROVE  list[x].key <= list[y].key
    <3>1. PointBefore(list[x], list[y]) \/ ~PointBefore(list[y], list[x])
      BY <2>2 DEF order
    <3> QED
      BY <1>9, <3>1 DEF PointBefore
  <2>3. ASSUME NEW i \in D, NEW j \in D, i < j
        PROVE  sorted[i].key <= sorted[j].key
    <3>1. <<place[i], place[j]>> \in order /\ place[i] \in D /\ place[j] \in D
      BY <2>1, <2>3
    <3>2. sorted[i] = list[place[i]] /\ sorted[j] = list[place[j]]
      BY <2>1
    <3> QED
      BY <2>2, <3>1, <3>2
  <2> QED
    BY <1>12, <2>3 DEF Rising
<1> QED
  BY <1>12, <1>13 DEF S, sorted

(* A layer with points but no more than one stride-th of them.              *)
LEMMA AboveIs ==
    ASSUME NEW layer \in Seq(PointType), NEW stride \in Nat \ {0}
    PROVE  Above(layer, stride) \in Seq(PointType)
<1> DEFINE n == Len(layer)
           m == (n + stride - 1) \div stride
           From(i) == (i - 1) * stride + 1
           P(i) == [layer[From(i)] EXCEPT !.span = Min({stride, n - From(i) + 1})]
<1>1. n \in Nat
  OBVIOUS
<1>2. m \in Nat
  <2> DEFINE c == n + stride - 1
  <2>1. c \in Nat
    BY <1>1
  <2> HIDE DEF c
  <2>2. c \div stride \in Nat
    BY <2>1
  <2> QED
    BY <2>2 DEF c
<1>3. ASSUME NEW i \in 1..m PROVE P(i) \in PointType
  <2>1. (i - 1) * stride \in Nat /\ (i - 1) * stride < n
    <3> HIDE DEF n
    <3> QED
      BY <1>1, StridesIn
  <2>2. From(i) \in 1..n
    BY <1>1, <2>1
  <2> DEFINE from == From(i)
             span == Min({stride, n - from + 1})
  <2> HIDE DEF from
  <2>3. layer[from] \in PointType
    BY <2>2 DEF from
  <2>4. span \in Int
    <3> DEFINE left == n - from + 1
    <3>1. left \in Int /\ stride \in Int
      BY <1>1, <2>2 DEF from
    <3> HIDE DEF left
    <3>2. Min({stride, left}) = IF stride <= left THEN stride ELSE left
      BY <3>1, MinOfTwo
    <3> QED
      BY <3>1, <3>2 DEF left
  <2> HIDE DEF span
  <2>5. [layer[from] EXCEPT !.span = span] \in PointType
    BY <2>3, <2>4 DEF PointType
  <2> QED
    BY <2>5 DEF span, from
<1>4. Above(layer, stride) = [i \in 1..m |-> P(i)]
  BY DEF Above
<1> HIDE DEF m, P
<1>5. Above(layer, stride) \in [1..m -> PointType]
  BY <1>3, <1>4
<1> QED
  BY <1>2, <1>5

\* The layers each level adds to, and what a search of them has found.
LayersTo(base, stride, levels) ==
    CHOOSE layers : layers = [n \in 0..(levels - 1) |->
        IF n = 0 THEN <<base>>
        ELSE IF n > 1 /\ Len(Last(layers[n - 1])) <= 1 THEN layers[n - 1]
             ELSE Append(layers[n - 1], Above(Last(layers[n - 1]), stride))]

FoundIn(layers, key) ==
    CHOOSE found : found = [n \in 0..Len(layers) |->
        IF n = 0 THEN NoMatch
        ELSE IF layers[Len(layers) - n + 1] = <<>> THEN found[n - 1]
             ELSE LowerBound(layers[Len(layers) - n + 1], key)]

\* Layers over a base.
Over(base) == {s \in Seq(Seq(PointType)) : Len(s) >= 1 /\ s[1] = base}

(* Layers go on the base and leave it.                                      *)
LEMMA LayersAre ==
    ASSUME NEW base \in Seq(PointType), NEW stride \in Nat \ {0},
           NEW levels \in Nat \ {0}
    PROVE  Layers(base, stride, levels) \in Over(base)
<1> DEFINE N == levels - 1
           V == Over(base)
           a == <<base>>
           G == LayersTo(base, stride, levels)
           On(x, n) == IF n > 1 /\ Len(Last(x)) <= 1 THEN x
                       ELSE Append(x, Above(Last(x), stride))
           step == [n \in 1..N |-> [x \in V |-> On(x, n)]]
           P(f) == f = [n \in 0..N |-> IF n = 0 THEN a ELSE On(f[n - 1], n)]
<1>1. N \in Nat
  OBVIOUS
<1>2. a \in V
  <2>1. <<base>> \in Seq(Seq(PointType)) /\ Len(<<base>>) = 1 /\ <<base>>[1] = base
    OBVIOUS
  <2> QED
    BY <2>1 DEF Over
<1>3. ASSUME NEW n \in 1..N, NEW x \in V PROVE On(x, n) \in V
  <2> DEFINE last == x[Len(x)]
             new == Above(last, stride)
  <2>1. x \in Seq(Seq(PointType)) /\ Len(x) >= 1 /\ x[1] = base
    BY DEF Over
  <2>2. last \in Seq(PointType)
    <3>1. Len(x) \in 1..Len(x)
      BY <2>1
    <3> QED
      BY <2>1, <3>1
  <2>3. Last(x) = last
    BY DEF Last
  <2> HIDE DEF last
  <2>4. new \in Seq(PointType)
    BY <2>2, AboveIs
  <2> HIDE DEF new
  <2>5. /\ Append(x, new) \in Seq(Seq(PointType))
        /\ Len(Append(x, new)) >= 1
        /\ Append(x, new)[1] = base
    <3> DEFINE R == Seq(PointType)
    <3>1. x \in Seq(R) /\ new \in R /\ Len(x) \in Nat
      BY <2>1, <2>4
    <3> HIDE DEF R
    <3>2. /\ Append(x, new) \in Seq(R)
          /\ Len(Append(x, new)) = Len(x) + 1
          /\ \A i \in 1..Len(x) : Append(x, new)[i] = x[i]
      BY <3>1, AppendProperties
    <3>3. 1 \in 1..Len(x)
      BY <2>1, <3>1
    <3> QED
      BY <2>1, <3>1, <3>2, <3>3 DEF R
  <2>6. Append(x, new) \in V
    BY <2>5 DEF Over
  <2>7. On(x, n) = x \/ On(x, n) = Append(x, new)
    BY <2>3 DEF new
  <2> QED
    BY <2>6, <2>7
<1>4. G = CHOOSE g : P(g)
  BY DEF LayersTo
<1>5. Layers(base, stride, levels) = G[N]
  BY DEF Layers, LayersTo
<1> HIDE DEF N, V, a, On, G
<1>6. step \in [1..N -> [V -> V]]
  BY <1>3
<1>7. \A n \in 1..N : \A x \in V : step[n][x] = On(x, n)
  OBVIOUS
<1> HIDE DEF step
<1>8. PICK f : f \in RunsOf(N, V, a, step)
  BY <1>1, <1>2, <1>6, Recursion
<1>9. P(f)
  <2>1. \A n \in 0..N : f[n] = IF n = 0 THEN a ELSE On(f[n - 1], n)
    <3>1. f[0] = a
      BY <1>8 DEF RunsOf
    <3>2. ASSUME NEW n \in 1..N PROVE f[n] = On(f[n - 1], n)
      <4>1. f[n - 1] \in V /\ f[n] = step[n][f[n - 1]]
        BY <1>1, <1>8, RunSteps
      <4> QED
        BY <1>7, <4>1
    <3> QED
      BY <1>1, <3>1, <3>2
  <2>2. f = [n \in 0..N |-> f[n]]
    BY <1>8 DEF RunsOf
  <2> QED
    BY <2>1, <2>2
<1>10. P(G)
  <2> HIDE DEF P
  <2> QED
    BY <1>4, <1>9
<1>11. G \in RunsOf(N, V, a, step)
  <2>1. \A n \in 1..N : G[n - 1] \in V => G[n] = step[n][G[n - 1]]
    BY <1>1, <1>7, <1>10
  <2>2. DOMAIN G = 0..N /\ G[0] = a /\ G = [n \in DOMAIN G |-> G[n]]
    BY <1>1, <1>10
  <2> QED
    BY <1>1, <1>2, <1>6, <2>1, <2>2, RunIs
<1>12. G[N] \in V
  BY <1>1, <1>11 DEF RunsOf
<1> QED
  BY <1>5, <1>12 DEF V

(* A search of a layer ends at one of its points.                           *)
LEMMA LowerBoundIs ==
    ASSUME NEW S \in SUBSET PointType, NEW layer \in Seq(S), layer # <<>>,
           Rising(layer), NEW key \in Nat
    PROVE  LET found == LowerBound(layer, key)
           IN  /\ found \in Range(layer)
               /\ found.key < key => \A p \in Range(layer) : p.key <= found.key
               /\ found.key >= key =>
                     \A p \in Range(layer) : p.key >= key => p.key >= found.key
<1> DEFINE n == Len(layer)
           notBelow == {i \in DOMAIN layer : layer[i].key >= key}
           found == LowerBound(layer, key)
           Told(x) ==
              /\ x \in Range(layer)
              /\ x.key < key => \A p \in Range(layer) : p.key <= x.key
              /\ x.key >= key => \A p \in Range(layer) : p.key >= key => p.key >= x.key
<1>1. /\ n \in Nat /\ n # 0 /\ DOMAIN layer = 1..n
      /\ \A i \in 1..n : layer[i] \in S
  OBVIOUS
<1>2. \A i \in 1..n : layer[i].key \in Nat
  BY <1>1 DEF PointType
<1>3. \A p \in Range(layer) : \E i \in 1..n : p = layer[i]
  BY <1>1 DEF Range
<1>4. \A i \in 1..n : layer[i] \in Range(layer)
  BY <1>1 DEF Range
<1>5. \A i, j \in 1..n : i < j => layer[i].key <= layer[j].key
  BY <1>1 DEF Rising
<1>6. CASE notBelow # {}
  <2>1. notBelow \in SUBSET Nat
    BY <1>1
  <2>2. PICK m \in notBelow : \A y \in notBelow : <<y, m>> \notin OpToRel(<, Nat)
    <3> HIDE DEF notBelow
    <3> QED
      BY <1>6, <2>1, NatLessThanWellFounded, WFMin
  <2>3. \A y \in notBelow : m <= y
    <3>1. ASSUME NEW y \in notBelow PROVE m <= y
      <4>1. m \in Nat /\ y \in Nat
        BY <2>1
      <4>2. ~(y < m)
        <5>1. y < m => <<y, m>> \in OpToRel(<, Nat)
          BY <4>1 DEF OpToRel
        <5> QED
          BY <2>2, <5>1
      <4> QED
        BY <4>1, <4>2
    <3> QED
      BY <3>1
  <2>4. \A x \in notBelow : (\A y \in notBelow : x =< y) => x = m
    <3>1. ASSUME NEW x \in notBelow, \A y \in notBelow : x =< y PROVE x = m
      <4>1. x <= m /\ m <= x /\ x \in Nat /\ m \in Nat
        BY <2>1, <2>3, <3>1
      <4> QED
        BY <4>1
    <3> QED
      BY <3>1
  <2>5. m \in 1..n /\ layer[m].key >= key
    BY <1>1
  <2>6. \A i \in 1..n : layer[i].key >= key => m <= i
    BY <1>1, <2>3
  <2>7. found = IF notBelow # {} THEN layer[Min(notBelow)] ELSE Last(layer)
    BY DEF LowerBound
  <2> HIDE DEF notBelow, found
  <2>8. Min(notBelow) = m
    BY <2>3, <2>4 DEF Min
  <2>9. found = layer[m]
    BY <1>6, <2>7, <2>8
  <2>10. \A p \in Range(layer) : p.key >= key => p.key >= found.key
    <3>1. ASSUME NEW i \in 1..n, layer[i].key >= key
          PROVE  layer[i].key >= layer[m].key
      <4>1. m <= i
        BY <2>6, <3>1
      <4>2. m = i \/ m < i
        BY <2>5, <4>1
      <4> QED
        BY <1>2, <1>5, <2>5, <4>2
    <3> QED
      BY <1>3, <2>9, <3>1
  <2>11. Told(found)
    <3>1. found \in Range(layer) /\ ~(found.key < key)
      BY <1>2, <1>4, <2>5, <2>9
    <3> QED
      BY <2>10, <3>1
  <2> QED
    BY <2>11 DEF found
<1>7. CASE notBelow = {}
  <2>1. found = layer[n]
    BY <1>7 DEF LowerBound, Last
  <2>2. n \in 1..n
    BY <1>1
  <2>3. \A i \in 1..n : layer[i].key < key
    BY <1>1, <1>2, <1>7
  <2> HIDE DEF found
  <2>4. ASSUME NEW i \in 1..n PROVE layer[i].key <= layer[n].key
    <3>1. i = n \/ i < n
      <4>1. n \in Nat
        BY <1>1
      <4> HIDE DEF n
      <4> QED
        BY <4>1
    <3>2. layer[n].key \in Nat
      BY <1>2, <2>2
    <3>3. CASE i = n
      BY <3>2, <3>3
    <3>4. CASE i < n
      BY <1>5, <2>2, <3>4
    <3> QED
      BY <3>1, <3>3, <3>4
  <2>5. Told(found)
    <3>1. found \in Range(layer) /\ found.key < key
      BY <1>4, <2>1, <2>2, <2>3
    <3>2. ~(found.key >= key)
      BY <1>2, <2>1, <2>2, <3>1
    <3> QED
      BY <1>3, <2>1, <2>4, <3>1, <3>2
  <2> QED
    BY <2>5 DEF found
<1> QED
  BY <1>6, <1>7

(* A search of the layers ends with the search of the base.                 *)
LEMMA CandidateIs ==
    ASSUME NEW base \in Seq(PointType), base # <<>>, Rising(base),
           NEW layers \in Over(base), NEW key \in Nat
    PROVE  Candidate(layers, key) = LowerBound(base, key)
<1> DEFINE N == Len(layers)
           G == FoundIn(layers, key)
           B(layer) == LowerBound(layer, key)
           On(x, n) == IF layers[N - n + 1] = <<>> THEN x ELSE B(layers[N - n + 1])
           V == {NoMatch} \cup {B(layers[i]) : i \in 1..N}
           a == NoMatch
           step == [n \in 1..N |-> [x \in V |-> On(x, n)]]
           P(f) == f = [n \in 0..N |-> IF n = 0 THEN a ELSE On(f[n - 1], n)]
<1>1. N \in Nat /\ N >= 1 /\ layers[1] = base
  BY DEF Over
<1>2. a \in V
  OBVIOUS
<1>3. ASSUME NEW n \in 1..N, NEW x \in V PROVE On(x, n) \in V
  <2>1. N - n + 1 \in 1..N
    BY <1>1
  <2> DEFINE i == N - n + 1
  <2> HIDE DEF i, B
  <2>2. i \in 1..N
    BY <2>1 DEF i
  <2>3. B(layers[i]) \in V
    BY <2>2
  <2>4. On(x, n) = x \/ On(x, n) = B(layers[i])
    BY DEF i
  <2> HIDE DEF V, On
  <2> QED
    BY <2>3, <2>4
<1>4. G = CHOOSE g : P(g)
  BY DEF FoundIn
<1>5. Candidate(layers, key) = G[N]
  BY DEF Candidate, FoundIn
<1>6. \A x : On(x, N) = IF base = <<>> THEN x ELSE B(base)
  <2>1. N - N + 1 = 1
    BY <1>1
  <2> HIDE DEF N, B
  <2> QED
    BY <1>1, <2>1
<1> HIDE DEF N, V, a, On, G, B
<1>7. step \in [1..N -> [V -> V]]
  BY <1>3
<1>8. \A n \in 1..N : \A x \in V : step[n][x] = On(x, n)
  OBVIOUS
<1> HIDE DEF step
<1>9. PICK f : f \in RunsOf(N, V, a, step)
  BY <1>1, <1>2, <1>7, Recursion
<1>10. P(f)
  <2>1. \A n \in 0..N : f[n] = IF n = 0 THEN a ELSE On(f[n - 1], n)
    <3>1. f[0] = a
      BY <1>9 DEF RunsOf
    <3>2. ASSUME NEW n \in 1..N PROVE f[n] = On(f[n - 1], n)
      <4>1. f[n - 1] \in V /\ f[n] = step[n][f[n - 1]]
        BY <1>1, <1>9, RunSteps
      <4> QED
        BY <1>8, <4>1
    <3> QED
      BY <1>1, <3>1, <3>2
  <2>2. f = [n \in 0..N |-> f[n]]
    BY <1>9 DEF RunsOf
  <2> QED
    BY <2>1, <2>2
<1>11. P(G)
  <2> HIDE DEF P
  <2> QED
    BY <1>4, <1>10
<1>12. G[N] = On(G[N - 1], N)
  BY <1>1, <1>11
<1>13. G[N] = B(base)
  BY <1>6, <1>12
<1> QED
  BY <1>5, <1>13 DEF B

\* What SEEK reads, and what it is read from.
SkipInv ==
    /\ skip.built =>
          /\ skip.layers \in Over(skip.layers[1])
          /\ skip.layers[1] \in Seq(PointType)
          /\ skip.layers[1] # <<>>
          /\ Rising(skip.layers[1])
          /\ ~replaced => \A point \in Range(skip.layers[1]) : InPages(point)
    /\ skip.last_match # NoMatch =>
          /\ skip.built
          /\ skip.search_key \in Nat
          /\ skip.last_match = LowerBound(skip.layers[1], skip.search_key)

(* A match is where it says.                                                *)
LEMMA SkipTells ==
    SkipInv => SeekTellsPlace
<1> SUFFICES ASSUME SkipInv, skip.last_match # NoMatch PROVE SeekTellsPlace
  BY DEF SeekTellsPlace
<1> DEFINE base == skip.layers[1]
           key == skip.search_key
           found == skip.last_match
           S == PointType
<1>1. /\ base \in Seq(S) /\ base # <<>> /\ Rising(base)
      /\ ~replaced => \A point \in Range(base) : InPages(point)
      /\ key \in Nat /\ found = LowerBound(base, key)
  BY DEF SkipInv
<1> HIDE DEF base, key, found
<1>2. S \in SUBSET PointType
  OBVIOUS
<1> HIDE DEF S
<1>3. /\ found \in Range(base)
      /\ found.key < key => \A p \in Range(base) : p.key <= found.key
      /\ found.key >= key => \A p \in Range(base) : p.key >= key => p.key >= found.key
  BY <1>1, <1>2, LowerBoundIs
<1>4. ~replaced => InPages(found)
  BY <1>1, <1>3
<1> QED
  BY <1>3, <1>4 DEF SeekTellsPlace, InPages, base, key, found

(* INDEX and SEEK leave the index what SEEK needs, and so does a command on *)
(* the store, but for a restore.                                            *)
LEMMA SkipStep ==
    HoldInv /\ SkipInv /\ SkipNext /\ UNCHANGED pages => SkipInv'
<1> SUFFICES ASSUME HoldInv, SkipInv, SkipNext, UNCHANGED pages PROVE SkipInv'
  OBVIOUS
<1>1. ASSUME NEW stride, NEW levels, BuildSkipIndex(stride, levels) PROVE SkipInv'
  <2>1. CASE status' # "ok"
    <3>1. UNCHANGED <<skip, replaced, pages>>
      BY <1>1, <2>1 DEF BuildSkipIndex, skipVars
    <3> QED
      BY <3>1 DEF SkipInv, InPages
  <2>2. CASE status' = "ok"
    <3> DEFINE base == BasePoints(stride)
               layers == Layers(base, stride, levels)
    <3>1. stride \in Nat \ {0} /\ levels \in Nat \ {0} /\ base # <<>>
      <4>1. IndexCheck(stride, levels) = "ok"
        BY <1>1, <2>2 DEF BuildSkipIndex
      <4>2. /\ ~(stride \notin 1..StrideLimit \/ levels \notin 1..LevelLimit)
            /\ base # <<>>
        BY <4>1 DEF IndexCheck
      <4>3. stride \in 1..StrideLimit /\ levels \in 1..LevelLimit
        BY <4>2, Zenon
      <4> QED
        BY <4>2, <4>3, SkipConstants
    <3>2. skip' = [skip EXCEPT !.layers = layers, !.last_match = NoMatch, !.built = TRUE]
          /\ replaced' = FALSE
      BY <1>1, <2>2 DEF BuildSkipIndex
    <3>3. base \in Seq({p \in PointType : InPages(p)}) /\ Rising(base)
      BY <3>1, BaseIs
    <3> HIDE DEF base
    <3>4. base \in Seq(PointType) /\ \A point \in Range(base) : InPages(point)
      BY <3>3 DEF Range
    <3>5. layers \in Over(base)
      BY <3>1, <3>4, LayersAre
    <3>6. layers[1] = base
      BY <3>5 DEF Over
    <3> HIDE DEF layers
    <3>7. skip'.layers = layers /\ skip'.last_match = NoMatch
      BY <3>2
    <3>8. \A point : InPages(point) => InPages(point)'
      BY DEF InPages
    <3> QED
      BY <3>1, <3>2, <3>3, <3>4, <3>5, <3>6, <3>7, <3>8 DEF SkipInv
  <2> QED
    BY <2>1, <2>2
<1>2. ASSUME NEW key \in Needles, SeekSkipIndex(key) PROVE SkipInv'
  <2>1. CASE status' # "ok"
    <3>1. UNCHANGED <<skip, replaced, pages>>
      BY <1>2, <2>1 DEF SeekSkipIndex
    <3> QED
      BY <3>1 DEF SkipInv, InPages
  <2>2. CASE status' = "ok"
    <3> DEFINE base == skip.layers[1]
               found == Candidate(skip.layers, key)
    <3>1. skip.built /\ key \in Nat
      <4>1. status' = IF skip.built THEN "ok" ELSE "invalid_state"
        BY <1>2 DEF SeekSkipIndex
      <4> QED
        BY <2>2, <4>1, SkipConstants
    <3>2. skip' = [skip EXCEPT !.search_key = key, !.last_match = found]
          /\ replaced' = replaced
      BY <1>2, <2>2 DEF SeekSkipIndex
    <3>3. /\ skip.layers \in Over(base) /\ base \in Seq(PointType)
          /\ base # <<>> /\ Rising(base)
          /\ ~replaced => \A point \in Range(base) : InPages(point)
      BY <3>1 DEF SkipInv
    <3>4. found = LowerBound(base, key)
      BY <3>1, <3>3, CandidateIs
    <3>5. \A point : InPages(point) => InPages(point)'
      BY DEF InPages
    <3> HIDE DEF found
    <3>6. skip'.layers = skip.layers /\ skip'.built = skip.built
          /\ skip'.search_key = key /\ skip'.last_match = found
      BY <3>2
    <3> QED
      BY <3>1, <3>2, <3>3, <3>4, <3>5, <3>6 DEF SkipInv
  <2> QED
    BY <2>1, <2>2
<1> QED
  BY <1>1, <1>2 DEF SkipNext

(* The bytes of a page stay while it does, and only a restore takes it.     *)
LEMMA PagesStay ==
    ASSUME HoldInv, HoldNext, ~\E id \in SnapshotIds : RestoreSnapshot(id),
           NEW id \in DOMAIN pages
    PROVE  id \in DOMAIN pages' /\ pages'[id].bytes = pages[id].bytes
<1> DEFINE Stays == id \in DOMAIN pages' /\ pages'[id].bytes = pages[id].bytes
<1>1. pages' = pages => Stays
  OBVIOUS
<1>2. ASSUME NEW new, NEW bytes, AddPage(new, bytes) PROVE Stays
  <2>1. new \notin DOMAIN pages
    BY <1>2 DEF AddPage
  <2>2. pages' = Put(pages, new, [bytes |-> bytes, generation |-> epoch])
    BY <1>2 DEF AddPage
  <2>3. DOMAIN pages' = DOMAIN pages \cup {new} /\ pages'[id] = pages[id]
    BY <2>1, <2>2 DEF Put
  <2> QED
    BY <2>3
<1>3. ASSUME CompactPages PROVE Stays
  <2>1. pages' = [i \in DOMAIN pages |-> [pages[i] EXCEPT !.generation = epoch + 1]]
    BY <1>3 DEF CompactPages
  <2>2. pages[id] \in Page(epoch)
    BY DEF HoldInv, Held, Table
  <2>3. [pages[id] EXCEPT !.generation = epoch + 1].bytes = pages[id].bytes
    BY <2>2 DEF Page
  <2> QED
    BY <2>1, <2>3
<1>4. \/ pages' = pages
      \/ \E new \in PageIds, bytes \in PageBytes : AddPage(new, bytes)
      \/ CompactPages
  BY DEF HoldNext, AddDocument, RenameDocument, AddNode, WatchNode, DropNode,
         CaptureSnapshot
<1> QED
  BY <1>1, <1>2, <1>3, <1>4

(* So what the skip index has stays true of the store.                      *)
LEMMA SkipKept ==
    HoldInv /\ HoldNext /\ SkipInv /\ UNCHANGED skip
        /\ replaced' = (replaced \/ \E id \in SnapshotIds : RestoreSnapshot(id))
        => SkipInv'
<1> SUFFICES ASSUME HoldInv, HoldNext, SkipInv, UNCHANGED skip,
                    replaced' = (replaced \/ \E id \in SnapshotIds : RestoreSnapshot(id))
             PROVE  SkipInv'
  OBVIOUS
<1>1. ASSUME ~replaced', NEW point, InPages(point) PROVE InPages(point)'
  <2>1. ~\E id \in SnapshotIds : RestoreSnapshot(id)
    BY <1>1
  <2> DEFINE id == point.page_id
  <2>2. id \in DOMAIN pages
    BY <1>1 DEF InPages
  <2> HIDE DEF id
  <2>3. id \in DOMAIN pages' /\ pages'[id].bytes = pages[id].bytes
    BY <2>1, <2>2, PagesStay
  <2> QED
    BY <1>1, <2>3 DEF InPages, id
<1>2. ~replaced' => ~replaced
  OBVIOUS
<1> QED
  BY <1>1, <1>2 DEF SkipInv

(* There is no index at first.                                              *)
LEMMA SkipStart ==
    SkipInit => SkipInv
  BY DEF SkipInit, SkipInv

-----------------------------------------------------------------------------
(* The normalizer.                                                          *)

\* The number at a place of a word, and nothing beyond its end; the place at
\* which one word comes before another.
Letter(word, i) == IF i <= Len(word) THEN word[i] + 1 ELSE 0

Parts(left, right, i) ==
    /\ Letter(left, i) < Letter(right, i)
    /\ \A j \in 1..(i - 1) : Letter(left, j) = Letter(right, j)

(* A word comes before another at the first place they differ at.           *)
LEMMA LessParts ==
    ASSUME NEW left \in Seq(Nat), NEW right \in Seq(Nat)
    PROVE  Less(left, right) <=> \E i \in Nat \ {0} : Parts(left, right, i)
<1> DEFINE m == Len(left)
           n == Len(right)
           Apart(i) == left[i] < right[i] /\ \A j \in 1..(i - 1) : left[j] = right[j]
<1>1. /\ m \in Nat /\ n \in Nat /\ DOMAIN left = 1..m /\ DOMAIN right = 1..n
      /\ \A i \in 1..m : left[i] \in Nat
      /\ \A i \in 1..n : right[i] \in Nat
  OBVIOUS
<1>2. /\ \A i \in 1..m : Letter(left, i) = left[i] + 1
      /\ \A i \in Nat : i > m => Letter(left, i) = 0
      /\ \A i \in 1..n : Letter(right, i) = right[i] + 1
      /\ \A i \in Nat : i > n => Letter(right, i) = 0
  BY <1>1 DEF Letter
<1>3. IsStrictPrefix(left, right) <=>
         m < n /\ \A j \in 1..m : left[j] = right[j]
  <2> DEFINE p == SubSeq(left, 1, m)
             q == SubSeq(right, 1, m)
  <2>1. ASSUME m <= n
        PROVE  p = q <=> \A j \in 1..m : left[j] = right[j]
    <3>1. p = left
      BY SubSeqFull
    <3>2. \A j \in 1..m : right[j] \in Nat
      BY <1>1, <2>1
    <3>3. /\ q \in Seq(Nat) /\ Len(q) = IF 1 <= m THEN m - 1 + 1 ELSE 0
          /\ \A i \in 1..(m - 1 + 1) : q[i] = right[1 + i - 1]
      BY <1>1, <3>2, SubSeqProperties
    <3> HIDE DEF q, m
    <3>4. q \in Seq(Nat) /\ Len(q) = m /\ \A i \in 1..m : q[i] = right[i]
      <4>1. m - 1 + 1 = m /\ (~(1 <= m) => m = 0) /\ \A i \in 1..m : 1 + i - 1 = i
        BY <1>1
      <4> QED
        BY <3>3, <4>1
    <3>5. q = [i \in 1..m |-> q[i]] /\ left = [i \in 1..m |-> left[i]]
      BY <1>1, <3>4
    <3> QED
      BY <3>1, <3>4, <3>5
  <2>2. ASSUME m = n, \A j \in 1..m : left[j] = right[j] PROVE left = right
    <3>1. left = [i \in 1..m |-> left[i]] /\ right = [i \in 1..n |-> right[i]]
      BY <1>1
    <3> HIDE DEF m, n
    <3> QED
      BY <2>2, <3>1
  <2>3. IsStrictPrefix(left, right) <=> m <= n /\ p = q /\ left # right
    BY DEF IsStrictPrefix, IsPrefix
  <2>4. left = right => m = n
    OBVIOUS
  <2> HIDE DEF m, n, p, q
  <2> QED
    BY <1>1, <2>1, <2>2, <2>3, <2>4
<1>4. Less(left, right) <=>
         \/ IsStrictPrefix(left, right)
         \/ \E i \in 1..m : i \in 1..n /\ Apart(i)
  BY <1>1 DEF Less
<1> HIDE DEF m, n
<1>5. ASSUME IsStrictPrefix(left, right) PROVE \E i \in Nat \ {0} : Parts(left, right, i)
  <2>1. m + 1 \in 1..n /\ m + 1 \in Nat \ {0} /\ m + 1 > m
    BY <1>1, <1>3, <1>5
  <2>2. Letter(left, m + 1) = 0 /\ Letter(right, m + 1) = right[m + 1] + 1
    BY <1>2, <2>1
  <2>3. right[m + 1] \in Nat
    BY <1>1, <2>1
  <2>4. \A j \in 1..((m + 1) - 1) : Letter(left, j) = Letter(right, j)
    <3>1. ASSUME NEW j \in 1..((m + 1) - 1) PROVE Letter(left, j) = Letter(right, j)
      <4>1. j \in 1..m /\ j \in 1..n
        BY <1>1, <1>3, <1>5
      <4> QED
        BY <1>2, <1>3, <1>5, <4>1
    <3> QED
      BY <3>1
  <2>5. Parts(left, right, m + 1)
    BY <2>2, <2>3, <2>4 DEF Parts
  <2> QED
    BY <2>1, <2>5
<1>6. ASSUME NEW i \in 1..m, i \in 1..n, Apart(i)
      PROVE  \E k \in Nat \ {0} : Parts(left, right, k)
  <2>1. Letter(left, i) < Letter(right, i)
    <3>1. left[i] \in Nat /\ right[i] \in Nat /\ left[i] < right[i]
      BY <1>1, <1>6
    <3>2. Letter(left, i) = left[i] + 1 /\ Letter(right, i) = right[i] + 1
      BY <1>2, <1>6
    <3> QED
      BY <3>1, <3>2
  <2>2. ASSUME NEW j \in 1..(i - 1) PROVE Letter(left, j) = Letter(right, j)
    <3>1. j \in 1..m /\ j \in 1..n
      BY <1>1, <1>6
    <3> QED
      BY <1>2, <1>6, <3>1
  <2>3. Parts(left, right, i)
    BY <2>1, <2>2 DEF Parts
  <2> QED
    BY <1>1, <2>3
<1>7. ASSUME NEW i \in Nat \ {0}, Parts(left, right, i) PROVE Less(left, right)
  <2>1. /\ Letter(left, i) < Letter(right, i)
        /\ \A j \in 1..(i - 1) : Letter(left, j) = Letter(right, j)
    BY <1>7 DEF Parts
  <2>2. i <= n
    <3>1. ASSUME i > n PROVE FALSE
      <4>1. Letter(right, i) = 0
        BY <1>2, <3>1
      <4>2. Letter(left, i) \in Nat
        <5>1. CASE i > m
          BY <1>2, <5>1
        <5>2. CASE i <= m
          <6>1. i \in 1..m
            BY <1>1, <5>2
          <6> QED
            BY <1>1, <1>2, <6>1
        <5> QED
          BY <1>1, <5>1, <5>2
      <4> QED
        BY <2>1, <4>1, <4>2
    <3> QED
      BY <1>1, <3>1
  <2>3. ASSUME NEW j \in 1..(i - 1), j <= m PROVE left[j] = right[j]
    <3>1. j \in 1..m /\ j \in 1..n
      BY <1>1, <2>2, <2>3
    <3> DEFINE x == left[j]
               y == right[j]
    <3>2. x + 1 = y + 1 /\ x \in Nat /\ y \in Nat
      BY <1>1, <1>2, <2>1, <3>1
    <3> HIDE DEF x, y
    <3>3. x = y
      BY <3>2
    <3> QED
      BY <3>3 DEF x, y
  <2>4. CASE i <= m
    <3>1. i \in 1..m /\ i \in 1..n
      BY <1>1, <2>2, <2>4
    <3>2. left[i] + 1 < right[i] + 1 /\ left[i] \in Nat /\ right[i] \in Nat
      BY <1>1, <1>2, <2>1, <3>1
    <3>3. left[i] < right[i]
      BY <3>2
    <3>4. Apart(i)
      BY <1>1, <2>3, <2>4, <3>3
    <3> QED
      BY <1>4, <3>1, <3>4
  <2>5. CASE i > m
    <3>1. m < n
      BY <1>1, <2>2, <2>5
    <3>2. \A j \in 1..m : left[j] = right[j]
      BY <1>1, <2>3, <2>5
    <3> QED
      BY <1>3, <1>4, <3>1, <3>2
  <2> QED
    BY <1>1, <2>4, <2>5
<1> QED
  BY <1>4, <1>5, <1>6, <1>7

(* No word comes before one that comes before it, and of two that differ    *)
(* one at least differs on the same side from any third.                    *)
LEMMA LessIsWeak ==
    ASSUME NEW x \in Seq(Nat), NEW y \in Seq(Nat), Less(x, y)
    PROVE  /\ ~Less(y, x)
           /\ \A z \in Seq(Nat) : Less(x, z) \/ Less(z, y)
<1>1. \A s \in Seq(Nat), i \in Nat \ {0} : Letter(s, i) \in Nat
  <2>1. ASSUME NEW s \in Seq(Nat), NEW i \in Nat \ {0} PROVE Letter(s, i) \in Nat
    <3> DEFINE n == Len(s)
    <3>1. n \in Nat /\ \A k \in 1..n : s[k] \in Nat
      OBVIOUS
    <3>2. Letter(s, i) = IF i <= n THEN s[i] + 1 ELSE 0
      BY DEF Letter
    <3> HIDE DEF n
    <3>3. CASE i <= n
      <4>1. s[i] \in Nat
        BY <3>1, <3>3
      <4> QED
        BY <3>2, <3>3, <4>1
    <3>4. CASE ~(i <= n)
      BY <3>2, <3>4
    <3> QED
      BY <3>3, <3>4
  <2> QED
    BY <2>1
<1>2. PICK i \in Nat \ {0} : Parts(x, y, i)
  BY LessParts
<1>3. Letter(x, i) < Letter(y, i) /\ \A j \in 1..(i - 1) : Letter(x, j) = Letter(y, j)
  BY <1>2 DEF Parts
<1>4. ASSUME Less(y, x) PROVE FALSE
  <2>1. PICK k \in Nat \ {0} : Parts(y, x, k)
    BY <1>4, LessParts
  <2>2. Letter(y, k) < Letter(x, k) /\ \A j \in 1..(k - 1) : Letter(y, j) = Letter(x, j)
    BY <2>1 DEF Parts
  <2>3. /\ Letter(x, i) \in Nat /\ Letter(y, i) \in Nat
        /\ Letter(x, k) \in Nat /\ Letter(y, k) \in Nat
    BY <1>1
  <2>4. CASE k < i
    <3>1. k \in 1..(i - 1)
      BY <2>4
    <3> QED
      BY <1>3, <2>2, <2>3, <3>1
  <2>5. CASE i < k
    <3>1. i \in 1..(k - 1)
      BY <2>5
    <3> QED
      BY <1>3, <2>2, <2>3, <3>1
  <2>6. CASE i = k
    BY <1>3, <2>2, <2>3, <2>6
  <2> QED
    BY <2>4, <2>5, <2>6
<1>5. ASSUME NEW z \in Seq(Nat) PROVE Less(x, z) \/ Less(z, y)
  <2> DEFINE Bad == {k \in 1..i : Letter(x, k) # Letter(z, k)}
  <2>1. \A k \in 1..i : /\ Letter(x, k) \in Nat /\ Letter(y, k) \in Nat
                        /\ Letter(z, k) \in Nat
    BY <1>1
  <2>2. CASE Bad = {}
    <3>1. \A k \in 1..i : Letter(x, k) = Letter(z, k)
      BY <2>2
    <3>2. Letter(z, i) < Letter(y, i)
      <4>1. i \in 1..i
        OBVIOUS
      <4> QED
        BY <1>3, <3>1, <4>1
    <3>3. \A j \in 1..(i - 1) : Letter(z, j) = Letter(y, j)
      <4>1. \A j \in 1..(i - 1) : j \in 1..i
        OBVIOUS
      <4> QED
        BY <1>3, <3>1, <4>1
    <3>4. Parts(z, y, i)
      BY <3>2, <3>3 DEF Parts
    <3> QED
      BY <3>4, LessParts
  <2>3. CASE Bad # {}
    <3>1. PICK k \in Bad : \A b \in Bad : <<b, k>> \notin OpToRel(<, Nat)
      <4>1. Bad \subseteq Nat
        OBVIOUS
      <4> HIDE DEF Bad
      <4> QED
        BY <2>3, <4>1, NatLessThanWellFounded, WFMin
    <3>2. k \in 1..i /\ Letter(x, k) # Letter(z, k)
      OBVIOUS
    <3>3. \A j \in 1..(k - 1) : Letter(x, j) = Letter(z, j)
      <4>1. ASSUME NEW j \in 1..(k - 1) PROVE Letter(x, j) = Letter(z, j)
        <5>1. j \in 1..i /\ j < k /\ j \in Nat /\ k \in Nat
          BY <3>2
        <5>2. <<j, k>> \in OpToRel(<, Nat)
          BY <5>1 DEF OpToRel
        <5>3. j \notin Bad
          BY <3>1, <5>2
        <5> QED
          BY <5>1, <5>3
      <4> QED
        BY <4>1
    <3>4. k \in Nat \ {0}
      BY <3>2
    <3>5. CASE Letter(x, k) < Letter(z, k)
      <4>1. Parts(x, z, k)
        BY <3>3, <3>5 DEF Parts
      <4> QED
        BY <3>4, <4>1, LessParts
    <3>6. CASE Letter(z, k) < Letter(x, k)
      <4>1. Letter(z, k) < Letter(y, k)
        <5>1. CASE k = i
          BY <1>3, <2>1, <3>2, <3>6, <5>1
        <5>2. CASE k # i
          <6>1. k \in 1..(i - 1)
            BY <3>2, <5>2
          <6> QED
            BY <1>3, <3>6, <6>1
        <5> QED
          BY <5>1, <5>2
      <4>2. \A j \in 1..(k - 1) : Letter(z, j) = Letter(y, j)
        <5>1. \A j \in 1..(k - 1) : j \in 1..(i - 1)
          BY <3>2
        <5> QED
          BY <1>3, <3>3, <5>1
      <4>3. Parts(z, y, k)
        BY <4>1, <4>2 DEF Parts
      <4> QED
        BY <3>4, <4>3, LessParts
    <3> QED
      BY <2>1, <3>2, <3>5, <3>6
  <2> QED
    BY <2>2, <2>3
<1> QED
  BY <1>4, <1>5

(* The least of some numbers.                                               *)
LEMMA MinOfSome ==
    ASSUME NEW S \in SUBSET Nat, S # {}
    PROVE  Min(S) \in S /\ \A x \in S : Min(S) <= x
<1>1. PICK m \in S : \A y \in S : <<y, m>> \notin OpToRel(<, Nat)
  BY NatLessThanWellFounded, WFMin
<1>2. \A y \in S : m =< y
  <2>1. ASSUME NEW y \in S PROVE m =< y
    <3>1. m \in Nat /\ y \in Nat
      OBVIOUS
    <3>2. y < m => <<y, m>> \in OpToRel(<, Nat)
      BY <3>1 DEF OpToRel
    <3>3. ~(y < m)
      BY <1>1, <3>2
    <3> QED
      BY <3>1, <3>3
  <2> QED
    BY <2>1
<1>3. \E x \in S : \A y \in S : x =< y
  BY <1>2
<1>4. Min(S) \in S /\ \A y \in S : Min(S) =< y
  BY <1>3 DEF Min
<1> QED
  BY <1>4

(* The greatest of some numbers none of which is beyond another.            *)
LEMMA MaxOfSome ==
    ASSUME NEW n \in Nat, NEW S \in SUBSET (0..n), S # {}
    PROVE  Max(S) \in S /\ \A x \in S : Max(S) >= x
<1> DEFINE U == {u \in Nat : \A x \in S : x <= u}
           m == Min(U)
<1>1. n \in U
  OBVIOUS
<1>2. U \in SUBSET Nat /\ U # {}
  BY <1>1
<1>3. m \in U /\ \A u \in U : m <= u
  <2> HIDE DEF U
  <2> QED
    BY <1>2, MinOfSome
<1> HIDE DEF m
<1>4. m \in Nat /\ \A x \in S : x <= m
  BY <1>3
<1>5. m \in S
  <2>1. ASSUME m \notin S PROVE FALSE
    <3>1. \A x \in S : x \in Nat /\ x <= m - 1
      <4>1. ASSUME NEW x \in S PROVE x \in Nat /\ x <= m - 1
        <5>1. x \in Nat /\ x <= m /\ x # m /\ m \in Nat
          BY <1>4, <2>1
        <5> QED
          BY <5>1
      <4> QED
        BY <4>1
    <3>2. m - 1 \in Nat
      <4>1. PICK x : x \in S
        OBVIOUS
      <4>2. x \in Nat /\ x <= m - 1 /\ m \in Nat
        BY <1>4, <3>1, <4>1
      <4> QED
        BY <4>2
    <3>3. m - 1 \in U
      BY <3>1, <3>2
    <3>4. m <= m - 1
      BY <1>3, <3>3
    <3> QED
      BY <1>4, <3>4
  <2> QED
    BY <2>1
<1>6. \E x \in S : \A y \in S : x >= y
  BY <1>4, <1>5
<1>7. Max(S) \in S /\ \A y \in S : Max(S) >= y
  BY <1>6 DEF Max
<1> QED
  BY <1>7

(* A word without the dashes at its ends is a word.                         *)
LEMMA CanonicalIs ==
    ASSUME NEW word \in Seq(Nat)
    PROVE  Canonical(word) \in Seq(Nat)
<1> DEFINE n == Len(word)
           solid == {i \in DOMAIN word : word[i] # Dash}
           lo == Min(solid)
           hi == Max(solid)
<1>1. n \in Nat /\ DOMAIN word = 1..n /\ \A i \in 1..n : word[i] \in Nat
  OBVIOUS
<1>2. Canonical(word) = IF solid = {} THEN <<>> ELSE SubSeq(word, lo, hi)
  BY DEF Canonical
<1>3. CASE solid = {}
  BY <1>2, <1>3
<1>4. CASE solid # {}
  <2>1. solid \in SUBSET (1..n) /\ solid \in SUBSET Nat /\ solid \in SUBSET (0..n)
    BY <1>1
  <2> HIDE DEF solid
  <2>2. lo \in solid
    BY <1>4, <2>1, MinOfSome
  <2>3. hi \in solid
    <3> HIDE DEF n
    <3> QED
      BY <1>1, <1>4, <2>1, MaxOfSome
  <2>4. lo \in 1..n /\ hi \in 1..n
    BY <2>1, <2>2, <2>3
  <2>5. SubSeq(word, lo, hi) \in Seq(Nat)
    <3>1. \A i \in lo..hi : word[i] \in Nat
      <4>1. \A i \in lo..hi : i \in 1..n
        BY <1>1, <2>4
      <4> QED
        BY <1>1, <4>1
    <3>2. lo \in Int /\ hi \in Int
      BY <1>1, <2>4
    <3> HIDE DEF lo, hi
    <3> QED
      BY <3>1, <3>2, SubSeqProperties
  <2> QED
    BY <1>2, <1>4, <2>5
<1> QED
  BY <1>3, <1>4

(* The words of a text are words.                                           *)
LEMMA TokenizedIs ==
    ASSUME NEW text \in Seq(Seq(Nat))
    PROVE  Tokenized(text) \in Seq(Seq(Nat))
<1> DEFINE words == [i \in DOMAIN text |-> Canonical(text[i])]
           places == {i \in DOMAIN words : words[i] # <<>>}
           place == InOrder(places)
           n == Len(text)
           R == Seq(Nat)
<1>1. n \in Nat /\ DOMAIN text = 1..n /\ \A i \in 1..n : text[i] \in R
  OBVIOUS
<1>2. DOMAIN words = 1..n /\ \A i \in 1..n : words[i] \in R
  BY <1>1, CanonicalIs
<1>3. Tokenized(text) = [i \in DOMAIN place |-> words[place[i]]]
  BY DEF Tokenized, At
<1>4. places \in SUBSET (1..n)
  BY <1>2
<1> HIDE DEF words, n, R, places
<1>5. places \in SUBSET Nat /\ IsFiniteSet(places)
  <2>1. n \in Int /\ 1..n \subseteq Nat
    BY <1>1
  <2>2. IsFiniteSet(1..n)
    BY <2>1, FS_Interval
  <2>3. IsFiniteSet(places)
    BY <1>4, <2>2, FS_Subset
  <2> QED
    BY <1>4, <2>1, <2>3
<1>6. /\ Cardinality(places) \in Nat /\ DOMAIN place = 1..Cardinality(places)
      /\ \A i \in 1..Cardinality(places) : place[i] \in places
  BY <1>5, InOrderIs
<1> HIDE DEF place
<1>7. Tokenized(text) \in [1..Cardinality(places) -> R]
  BY <1>2, <1>3, <1>4, <1>6
<1>8. Tokenized(text) \in Seq(R)
  BY <1>6, <1>7
<1> QED
  BY <1>8 DEF R

TokenType == [normalized : Seq(Nat), count : Nat]

\* The places, among the first of a list, that hold a word.
Places(words, n, word) == {k \in 1..n : words[k] = word}

\* Tokens that tell of the first words of a list each one once, with the
\* number of its occurrences.
Counted(tokens, words, n) ==
    /\ tokens \in Seq(TokenType)
    /\ \A i \in 1..Len(tokens) :
          tokens[i].count = Cardinality(Places(words, n, tokens[i].normalized))
    /\ \A i, j \in 1..Len(tokens) :
          i # j => tokens[i].normalized # tokens[j].normalized
    /\ \A k \in 1..n : \E i \in 1..Len(tokens) : tokens[i].normalized = words[k]
    /\ \A i \in 1..Len(tokens) : \E k \in 1..n : words[k] = tokens[i].normalized

(* One more place holds one more word.                                      *)
LEMMA PlacesOn ==
    ASSUME NEW words, NEW n \in Nat \ {0}, NEW word
    PROVE  /\ Cardinality(Places(words, n - 1, word)) \in Nat
           /\ Cardinality(Places(words, n, word)) =
                 Cardinality(Places(words, n - 1, word))
                     + IF words[n] = word THEN 1 ELSE 0
<1> DEFINE old == Places(words, n - 1, word)
           new == Places(words, n, word)
<1>1. IsFiniteSet(old)
  <2>1. old \in SUBSET (1..(n - 1)) /\ n - 1 \in Int
    BY DEF Places
  <2>2. IsFiniteSet(1..(n - 1))
    BY <2>1, FS_Interval
  <2> HIDE DEF old
  <2> QED
    BY <2>1, <2>2, FS_Subset
<1>2. n \notin old
  BY DEF Places
<1>3. new = IF words[n] = word THEN old \cup {n} ELSE old
  <2>1. \A k : k \in 1..n <=> k \in 1..(n - 1) \/ k = n
    OBVIOUS
  <2> QED
    BY <2>1 DEF Places
<1> HIDE DEF old, new
<1>4. Cardinality(old) \in Nat
  BY <1>1, FS_CardinalityType
<1>5. Cardinality(old \cup {n}) = Cardinality(old) + 1
  BY <1>1, <1>2, FS_AddElement
<1>6. Cardinality(new) = Cardinality(old) + IF words[n] = word THEN 1 ELSE 0
  BY <1>3, <1>4, <1>5
<1> QED
  BY <1>4, <1>6 DEF old, new

(* One more word is counted with the others.                                *)
LEMMA MergeTokenOn ==
    ASSUME NEW words \in Seq(Seq(Nat)), NEW n \in 1..Len(words),
           NEW tokens, Counted(tokens, words, n - 1)
    PROVE  Counted(MergeToken(tokens, words[n]), words, n)
<1> DEFINE word == words[n]
           N == Len(tokens)
           same == {i \in DOMAIN tokens : tokens[i].normalized = word}
           m == Min(same)
           next == MergeToken(tokens, word)
           Name(i) == tokens[i].normalized
           Was(x) == Cardinality(Places(words, n - 1, x))
           Is(x) == Cardinality(Places(words, n, x))
<1>1. n \in Nat \ {0} /\ word \in Seq(Nat)
  OBVIOUS
<1>2. /\ tokens \in Seq(TokenType) /\ N \in Nat /\ DOMAIN tokens = 1..N
      /\ \A i \in 1..N : tokens[i] \in TokenType
  BY DEF Counted
<1>3. /\ \A i \in 1..N : tokens[i].count = Was(Name(i))
      /\ \A i, j \in 1..N : i # j => Name(i) # Name(j)
      /\ \A k \in 1..(n - 1) : \E i \in 1..N : Name(i) = words[k]
      /\ \A i \in 1..N : \E k \in 1..(n - 1) : words[k] = Name(i)
  BY DEF Counted
<1>4. \A x : Was(x) \in Nat /\ Is(x) = Was(x) + IF word = x THEN 1 ELSE 0
  BY <1>1, PlacesOn
<1>5. \A k : k \in 1..n <=> k \in 1..(n - 1) \/ k = n
  BY <1>1
<1>6. next = IF same # {}
             THEN [tokens EXCEPT ![m].count = @ + 1]
             ELSE Append(tokens, [normalized |-> word, count |-> 1])
  BY DEF MergeToken
<1>7. \A i \in 1..N : i \in same <=> Name(i) = word
  BY <1>2
<1>8. same \subseteq 1..N /\ same \subseteq Nat
  BY <1>2
<1> HIDE DEF Was, Is, same
<1>9. ASSUME same # {} PROVE Counted(next, words, n)
  <2>1. m \in same
    BY <1>8, <1>9, MinOfSome
  <2> HIDE DEF m
  <2>2. m \in 1..N /\ Name(m) = word
    BY <1>7, <1>8, <2>1
  <2>3. next = [tokens EXCEPT ![m].count = @ + 1]
    BY <1>6, <1>9
  <2> HIDE DEF next, N
  <2>4. /\ DOMAIN next = 1..N
        /\ \A i \in 1..N : next[i] =
              IF i = m THEN [tokens[i] EXCEPT !.count = @ + 1] ELSE tokens[i]
    BY <1>2, <2>2, <2>3
  <2>5. ASSUME NEW i \in 1..N
        PROVE  /\ next[i] \in TokenType
               /\ next[i].normalized = Name(i)
               /\ next[i].count = Is(Name(i))
    <3>1. tokens[i] \in TokenType /\ tokens[i].count = Was(Name(i))
      BY <1>2, <1>3
    <3>2. CASE i = m
      <4>1. next[i] = [normalized |-> tokens[i].normalized, count |-> tokens[i].count + 1]
        BY <2>4, <3>1, <3>2 DEF TokenType
      <4>2. Is(Name(i)) = Was(Name(i)) + 1
        BY <1>4, <2>2, <3>2
      <4>3. tokens[i].normalized \in Seq(Nat) /\ tokens[i].count \in Nat
        BY <3>1 DEF TokenType
      <4>4. next[i].normalized = tokens[i].normalized /\ next[i].count = tokens[i].count + 1
        BY <4>1
      <4>5. next[i] \in TokenType
        <5> DEFINE R == Seq(Nat)
                   x == tokens[i].normalized
                   c == tokens[i].count
        <5>1. x \in R /\ c \in Nat
          BY <4>3
        <5> HIDE DEF R, x, c
        <5>2. [normalized |-> x, count |-> c + 1] \in [normalized : R, count : Nat]
          BY <5>1
        <5> QED
          BY <4>1, <5>2 DEF TokenType, R, x, c
      <4> QED
        BY <3>1, <4>2, <4>4, <4>5
    <3>3. CASE i # m
      <4>1. next[i] = tokens[i]
        BY <2>4, <3>3
      <4>2. Name(i) # word
        BY <1>3, <2>2, <3>3
      <4>3. Was(Name(i)) \in Nat /\ Is(Name(i)) = Was(Name(i)) + 0
        BY <1>4, <4>2
      <4>4. Is(Name(i)) = Was(Name(i))
        BY <4>3
      <4> QED
        BY <3>1, <4>1, <4>4
    <3> QED
      BY <3>2, <3>3
  <2>6. next \in Seq(TokenType) /\ Len(next) = N
    <3>1. next = [i \in 1..N |-> next[i]]
      BY <2>3, <2>4, <1>2
    <3>2. next \in [1..N -> TokenType]
      BY <2>5, <3>1
    <3> QED
      BY <1>2, <3>2
  <2>7. \A k \in 1..n : \E i \in 1..N : next[i].normalized = words[k]
    <3>1. ASSUME NEW k \in 1..n PROVE \E i \in 1..N : next[i].normalized = words[k]
      <4>1. CASE k = n
        BY <2>2, <2>5, <4>1
      <4>2. CASE k \in 1..(n - 1)
        <5>1. PICK i \in 1..N : Name(i) = words[k]
          BY <1>3, <4>2
        <5> QED
          BY <2>5, <5>1
      <4> QED
        BY <1>5, <4>1, <4>2
    <3> QED
      BY <3>1
  <2>8. \A i \in 1..N : \E k \in 1..n : words[k] = next[i].normalized
    <3>1. ASSUME NEW i \in 1..N PROVE \E k \in 1..n : words[k] = next[i].normalized
      <4>1. PICK k \in 1..(n - 1) : words[k] = Name(i)
        BY <1>3
      <4> QED
        BY <1>5, <2>5, <4>1
    <3> QED
      BY <3>1
  <2>9. \A i, j \in 1..N : i # j => next[i].normalized # next[j].normalized
    BY <1>3, <2>5
  <2>10. \A i \in 1..N : next[i].count = Cardinality(Places(words, n, next[i].normalized))
    BY <2>5 DEF Is
  <2> QED
    BY <2>6, <2>7, <2>8, <2>9, <2>10 DEF Counted
<1>10. ASSUME same = {} PROVE Counted(next, words, n)
  <2> DEFINE new == [normalized |-> word, count |-> 1]
  <2>1. next = Append(tokens, new)
    BY <1>6, <1>10
  <2>2. new \in TokenType
    BY <1>1 DEF TokenType
  <2>3. \A i \in 1..N : Name(i) # word
    BY <1>7, <1>10
  <2> HIDE DEF next
  <2>4. /\ next \in Seq(TokenType) /\ Len(next) = N + 1
        /\ \A i \in 1..N : next[i] = tokens[i]
        /\ next[N + 1] = new
    <3> HIDE DEF new
    <3> QED
      BY <1>2, <2>1, <2>2
  <2>5. Was(word) = 0
    <3>1. \A k \in 1..(n - 1) : words[k] # word
      BY <1>3, <2>3
    <3>2. Places(words, n - 1, word) = {}
      BY <3>1 DEF Places
    <3> QED
      BY <3>2, FS_EmptySet DEF Was
  <2>6. Is(word) = 1
    BY <1>4, <2>5
  <2> HIDE DEF N
  <2>7. N \in Nat /\ \A i : i \in 1..(N + 1) <=> i \in 1..N \/ i = N + 1
    BY <1>2
  <2>8. next[N + 1].normalized = word /\ next[N + 1].count = Is(word)
    BY <2>4, <2>6
  <2>9. ASSUME NEW i \in 1..N
        PROVE  /\ next[i].normalized = Name(i)
               /\ next[i].count = Is(Name(i))
    <3>1. Was(Name(i)) \in Nat /\ Is(Name(i)) = Was(Name(i)) + 0
      BY <1>4, <2>3
    <3>2. Is(Name(i)) = Was(Name(i))
      BY <3>1
    <3> QED
      BY <1>3, <2>4, <3>2
  <2>10. \A i \in 1..(N + 1) :
            next[i].count = Cardinality(Places(words, n, next[i].normalized))
    BY <2>7, <2>8, <2>9 DEF Is
  <2>11. \A i, j \in 1..(N + 1) : i # j => next[i].normalized # next[j].normalized
    <3>1. ASSUME NEW i \in 1..(N + 1), NEW j \in 1..(N + 1), i # j
          PROVE  next[i].normalized # next[j].normalized
      <4>1. CASE i \in 1..N /\ j \in 1..N
        BY <1>3, <2>9, <3>1, <4>1
      <4>2. CASE i \in 1..N /\ j = N + 1
        BY <2>3, <2>8, <2>9, <4>2
      <4>3. CASE i = N + 1 /\ j \in 1..N
        BY <2>3, <2>8, <2>9, <4>3
      <4> QED
        BY <2>7, <3>1, <4>1, <4>2, <4>3
    <3> QED
      BY <3>1
  <2>12. \A k \in 1..n : \E i \in 1..(N + 1) : next[i].normalized = words[k]
    <3>1. ASSUME NEW k \in 1..n PROVE \E i \in 1..(N + 1) : next[i].normalized = words[k]
      <4>1. CASE k = n
        BY <2>7, <2>8, <4>1
      <4>2. CASE k \in 1..(n - 1)
        <5>1. PICK i \in 1..N : Name(i) = words[k]
          BY <1>3, <4>2
        <5> QED
          BY <2>7, <2>9, <5>1
      <4> QED
        BY <1>5, <4>1, <4>2
    <3> QED
      BY <3>1
  <2>13. \A i \in 1..(N + 1) : \E k \in 1..n : words[k] = next[i].normalized
    <3>1. ASSUME NEW i \in 1..(N + 1) PROVE \E k \in 1..n : words[k] = next[i].normalized
      <4>1. CASE i = N + 1
        BY <1>5, <2>8, <4>1
      <4>2. CASE i \in 1..N
        <5>1. PICK k \in 1..(n - 1) : words[k] = Name(i)
          BY <1>3, <4>2
        <5> QED
          BY <1>5, <2>9, <4>2, <5>1
      <4> QED
        BY <2>7, <4>1, <4>2
    <3> QED
      BY <3>1
  <2> QED
    BY <2>4, <2>10, <2>11, <2>12, <2>13 DEF Counted
<1> QED
  BY <1>9, <1>10

\* The tokens the first words of a list make.
TokenLists(words) ==
    CHOOSE tokens : tokens = [n \in 0..Len(words) |->
        IF n = 0 THEN <<>> ELSE MergeToken(tokens[n - 1], words[n])]

(* Merging a word makes tokens of tokens.                                   *)
LEMMA MergeTokenIs ==
    ASSUME NEW tokens \in Seq(TokenType), NEW word \in Seq(Nat)
    PROVE  MergeToken(tokens, word) \in Seq(TokenType)
<1> DEFINE N == Len(tokens)
           same == {i \in DOMAIN tokens : tokens[i].normalized = word}
           m == Min(same)
           next == MergeToken(tokens, word)
           new == [normalized |-> word, count |-> 1]
<1>1. N \in Nat /\ DOMAIN tokens = 1..N /\ \A i \in 1..N : tokens[i] \in TokenType
  OBVIOUS
<1>2. next = IF same # {}
             THEN [tokens EXCEPT ![m].count = @ + 1] ELSE Append(tokens, new)
  BY DEF MergeToken
<1>3. new \in TokenType
  BY DEF TokenType
<1>4. same \subseteq 1..N /\ same \subseteq Nat
  BY <1>1
<1> HIDE DEF same, next, new
<1>5. ASSUME same # {} PROVE next \in Seq(TokenType)
  <2>1. m \in same
    BY <1>4, <1>5, MinOfSome
  <2> HIDE DEF m, N
  <2>2. m \in 1..N /\ next = [tokens EXCEPT ![m].count = @ + 1]
    BY <1>2, <1>4, <1>5, <2>1
  <2>3. /\ DOMAIN next = 1..N /\ next = [i \in 1..N |-> next[i]]
        /\ \A i \in 1..N : next[i] =
              IF i = m THEN [tokens[i] EXCEPT !.count = @ + 1] ELSE tokens[i]
    BY <1>1, <2>2
  <2>4. ASSUME NEW t \in TokenType PROVE [t EXCEPT !.count = @ + 1] \in TokenType
    <3>1. t.normalized \in Seq(Nat) /\ t.count + 1 \in Nat
      BY DEF TokenType
    <3>2. [t EXCEPT !.count = @ + 1] = [normalized |-> t.normalized, count |-> t.count + 1]
      BY DEF TokenType
    <3> QED
      BY <3>1, <3>2 DEF TokenType
  <2>5. next \in [1..N -> TokenType]
    BY <1>1, <2>3, <2>4
  <2> QED
    BY <1>1, <2>5
<1>6. ASSUME same = {} PROVE next \in Seq(TokenType)
  BY <1>2, <1>3, <1>6
<1> QED
  BY <1>5, <1>6 DEF next

(* The tokens of a list of words tell of each word once, and how often it   *)
(* comes.                                                                   *)
LEMMA MergedAre ==
    ASSUME NEW words \in Seq(Seq(Nat))
    PROVE  Counted(Merged(words), words, Len(words))
<1> DEFINE N == Len(words)
           V == Seq(TokenType)
           a == <<>>
           G == TokenLists(words)
           On(x, n) == MergeToken(x, words[n])
           step == [n \in 1..N |-> [x \in V |-> On(x, n)]]
           P(f) == f = [n \in 0..N |-> IF n = 0 THEN a ELSE On(f[n - 1], n)]
           C(f, n) == Counted(f[n], words, n)
           T == {n \in 0..N : C(G, n)}
<1>1. N \in Nat /\ a \in V /\ \A n \in 1..N : words[n] \in Seq(Nat)
  OBVIOUS
<1>2. \A n \in 1..N : \A x \in V : On(x, n) \in V
  BY <1>1, MergeTokenIs
<1>3. G = CHOOSE g : P(g)
  BY DEF TokenLists
<1>4. Merged(words) = G[N]
  BY DEF Merged, TokenLists
<1>5. Len(a) = 0 /\ \A i \in 1..0 : FALSE
  OBVIOUS
<1>6. Counted(a, words, 0)
  BY <1>1, <1>5 DEF Counted
<1>7. ASSUME NEW n \in 1..N, NEW x, Counted(x, words, n - 1)
      PROVE  Counted(On(x, n), words, n)
  BY <1>7, MergeTokenOn
<1> HIDE DEF N, V, a, On, G, C
<1>8. step \in [1..N -> [V -> V]]
  BY <1>2
<1>9. \A n \in 1..N : \A x \in V : step[n][x] = On(x, n)
  OBVIOUS
<1> HIDE DEF step
<1>10. PICK f : f \in RunsOf(N, V, a, step)
  BY <1>1, <1>8, Recursion
<1>11. P(f)
  <2>1. \A n \in 0..N : f[n] = IF n = 0 THEN a ELSE On(f[n - 1], n)
    <3>1. f[0] = a
      BY <1>10 DEF RunsOf
    <3>2. ASSUME NEW n \in 1..N PROVE f[n] = On(f[n - 1], n)
      <4>1. f[n - 1] \in V /\ f[n] = step[n][f[n - 1]]
        BY <1>1, <1>10, RunSteps
      <4> QED
        BY <1>9, <4>1
    <3> QED
      BY <1>1, <3>1, <3>2
  <2>2. f = [n \in 0..N |-> f[n]]
    BY <1>10 DEF RunsOf
  <2> QED
    BY <2>1, <2>2
<1>12. P(G)
  <2> HIDE DEF P
  <2> QED
    BY <1>3, <1>11
<1>13. 0 \in T
  <2>1. G[0] = a
    BY <1>1, <1>12
  <2> QED
    BY <1>1, <1>6, <2>1 DEF C
<1>14. ASSUME NEW n \in 1..N, n - 1 \in T PROVE n \in T
  <2>1. G[n] = On(G[n - 1], n)
    BY <1>1, <1>12
  <2>2. Counted(G[n - 1], words, n - 1)
    BY <1>14 DEF C
  <2>3. Counted(G[n], words, n)
    BY <1>7, <2>1, <2>2
  <2>4. n \in 0..N
    BY <1>1
  <2> QED
    BY <2>3, <2>4 DEF C
<1> HIDE DEF T, P
<1>15. \A n \in 0..N : n \in T
  BY <1>1, <1>13, <1>14, Induct
<1>16. N \in 0..N
  BY <1>1
<1>17. Counted(G[N], words, N)
  BY <1>15, <1>16 DEF T, C
<1> QED
  BY <1>4, <1>17 DEF N, G

\* Tokens the most frequent of which come first.
Falling(tokens) ==
    \A i, j \in 1..Len(tokens) : i < j => tokens[i].count >= tokens[j].count

(* Sorting leaves the tokens what they are, the most frequent first.        *)
LEMMA TokensSorted ==
    ASSUME NEW words \in Seq(Seq(Nat)), NEW tokens, Counted(tokens, words, Len(words))
    PROVE  /\ Counted(Sorted(tokens, TokenBefore), words, Len(words))
           /\ Falling(Sorted(tokens, TokenBefore))
<1> DEFINE D == DOMAIN tokens
           N == Len(tokens)
           before == {pair \in D \X D : TokenBefore(tokens[pair[1]], tokens[pair[2]])}
           order == {pair \in D \X D :
                        \/ TokenBefore(tokens[pair[1]], tokens[pair[2]])
                        \/ /\ pair[1] <= pair[2]
                           /\ ~TokenBefore(tokens[pair[2]], tokens[pair[1]])}
           sorted == Sorted(tokens, TokenBefore)
           n == Len(words)
<1>1. sorted = [i \in D |-> tokens[Arranged(D, order)[i]]]
  BY DEF Sorted
<1>2. order = Stable(before, D)
  BY DEF Stable
<1>3. tokens \in Seq(TokenType) /\ N \in Nat /\ D = 1..N
  BY DEF Counted
<1>4. ASSUME NEW x \in D
      PROVE  /\ tokens[x] \in TokenType
             /\ tokens[x].count \in Nat
             /\ tokens[x].normalized \in Seq(Nat)
  <2>1. tokens[x] \in TokenType
    BY <1>3
  <2> QED
    BY <2>1 DEF TokenType
<1>5. ASSUME NEW x \in D, NEW y \in D
      PROVE  <<x, y>> \in before <=>
                \/ tokens[x].count > tokens[y].count
                \/ /\ tokens[x].count = tokens[y].count
                   /\ Less(tokens[x].normalized, tokens[y].normalized)
  BY DEF TokenBefore
<1>6. ASSUME NEW x \in D, NEW y \in D, <<x, y>> \in order
      PROVE  tokens[x].count >= tokens[y].count
  <2>1. \/ TokenBefore(tokens[x], tokens[y])
        \/ ~TokenBefore(tokens[y], tokens[x])
    BY <1>6
  <2>2. \/ tokens[x].count > tokens[y].count
        \/ tokens[x].count = tokens[y].count
        \/ ~(tokens[y].count > tokens[x].count)
    BY <2>1 DEF TokenBefore
  <2> QED
    BY <1>4, <2>2
<1> HIDE DEF before, D, order
<1>7. Weak(before, D)
  <2>1. ASSUME NEW x \in D, NEW y \in D, <<x, y>> \in before
        PROVE  <<y, x>> \notin before
    <3>1. tokens[x].count = tokens[y].count /\ Less(tokens[x].normalized, tokens[y].normalized)
             => ~Less(tokens[y].normalized, tokens[x].normalized)
      BY <1>4, LessIsWeak
    <3> QED
      BY <1>4, <1>5, <2>1, <3>1
  <2>2. ASSUME NEW x \in D, NEW y \in D, NEW z \in D, <<x, y>> \in before
        PROVE  <<x, z>> \in before \/ <<z, y>> \in before
    <3>1. Less(tokens[x].normalized, tokens[y].normalized)
             => \/ Less(tokens[x].normalized, tokens[z].normalized)
                \/ Less(tokens[z].normalized, tokens[y].normalized)
      BY <1>4, LessIsWeak
    <3> DEFINE a == tokens[x].count
               b == tokens[y].count
               c == tokens[z].count
    <3>2. a \in Nat /\ b \in Nat /\ c \in Nat
      BY <1>4
    <3>3. a > b \/ (a = b /\ Less(tokens[x].normalized, tokens[y].normalized))
      BY <1>5, <2>2
    <3> HIDE DEF a, b, c
    <3>4. \/ a > c \/ c > b
          \/ a = c /\ Less(tokens[x].normalized, tokens[z].normalized)
          \/ c = b /\ Less(tokens[z].normalized, tokens[y].normalized)
      <4>1. a > b => a > c \/ c > b
        BY <3>2
      <4>2. a = b => a > c \/ c > b \/ (a = c /\ c = b)
        BY <3>2
      <4> QED
        BY <3>1, <3>3, <4>1, <4>2
    <3> QED
      BY <1>5, <3>4 DEF a, b, c
  <2> QED
    BY <2>1, <2>2 DEF Weak
<1>8. Rearranged(tokens, sorted, order)
  BY <1>1, <1>2, <1>3, <1>7, SortedList DEF D
<1>9. PICK place \in [D -> D] :
         /\ \A i, j \in D : i # j => place[i] # place[j]
         /\ \A i, j \in D : i < j => <<place[i], place[j]>> \in order
         /\ \A x \in D : \E i \in D : place[i] = x
         /\ sorted = [i \in D |-> tokens[place[i]]]
  BY <1>8 DEF Rearranged, D
<1>10. sorted \in Seq(TokenType) /\ Len(sorted) = N
  BY <1>3, <1>8, RearrangedKeeps
<1> HIDE DEF sorted, N, n
<1>11. \A i \in 1..N : place[i] \in 1..N /\ sorted[i] = tokens[place[i]]
  BY <1>3, <1>9
<1>12. /\ \A i \in 1..N :
             tokens[i].count = Cardinality(Places(words, n, tokens[i].normalized))
       /\ \A i, j \in 1..N : i # j => tokens[i].normalized # tokens[j].normalized
       /\ \A k \in 1..n : \E i \in 1..N : tokens[i].normalized = words[k]
       /\ \A i \in 1..N : \E k \in 1..n : words[k] = tokens[i].normalized
  BY DEF Counted, N, n
<1>13. \A i \in 1..N : sorted[i].count = Cardinality(Places(words, n, sorted[i].normalized))
  <2>1. ASSUME NEW i \in 1..N
        PROVE  sorted[i].count = Cardinality(Places(words, n, sorted[i].normalized))
    <3>1. place[i] \in 1..N /\ sorted[i] = tokens[place[i]]
      BY <1>11
    <3>2. tokens[place[i]].count =
             Cardinality(Places(words, n, tokens[place[i]].normalized))
      BY <1>12, <3>1
    <3> QED
      BY <3>1, <3>2
  <2> QED
    BY <2>1
<1>14. \A i, j \in 1..N : i # j => sorted[i].normalized # sorted[j].normalized
  <2>1. ASSUME NEW i \in 1..N, NEW j \in 1..N, i # j
        PROVE  sorted[i].normalized # sorted[j].normalized
    <3>1. place[i] # place[j]
      BY <1>3, <1>9, <2>1
    <3>2. place[i] \in 1..N /\ place[j] \in 1..N
      BY <1>11
    <3>3. tokens[place[i]].normalized # tokens[place[j]].normalized
      BY <1>12, <3>1, <3>2
    <3> QED
      BY <1>11, <3>3
  <2> QED
    BY <2>1
<1>15. \A k \in 1..n : \E i \in 1..N : sorted[i].normalized = words[k]
  <2>1. ASSUME NEW k \in 1..n PROVE \E i \in 1..N : sorted[i].normalized = words[k]
    <3>1. PICK x \in 1..N : tokens[x].normalized = words[k]
      BY <1>12
    <3>2. PICK i \in 1..N : place[i] = x
      BY <1>3, <1>9
    <3> QED
      BY <1>11, <3>1, <3>2
  <2> QED
    BY <2>1
<1>16. \A i \in 1..N : \E k \in 1..n : words[k] = sorted[i].normalized
  BY <1>11, <1>12
<1>17. Counted(sorted, words, n)
  BY <1>10, <1>13, <1>14, <1>15, <1>16 DEF Counted
<1>18. Falling(sorted)
  <2>1. ASSUME NEW i \in 1..N, NEW j \in 1..N, i < j
        PROVE  sorted[i].count >= sorted[j].count
    <3>1. <<place[i], place[j]>> \in order /\ place[i] \in D /\ place[j] \in D
      BY <1>3, <1>9, <2>1
    <3> QED
      BY <1>6, <1>11, <3>1
  <2> QED
    BY <1>10, <2>1 DEF Falling
<1> QED
  BY <1>17, <1>18 DEF sorted, n

\* What TOKENS lists, and what it is taken from.
NormalizerInv ==
    /\ normalizer = [tokens  |-> normalizer.tokens, emitted |-> normalizer.emitted,
                     ready   |-> normalizer.ready]
    /\ source \in Seq(Seq(Nat))
    /\ Counted(normalizer.tokens, source, Len(source))
    /\ Falling(normalizer.tokens)
    /\ \E m \in 0..Len(normalizer.tokens) :
          normalizer.emitted = SubSeq(normalizer.tokens, 1, m)

(* The first elements of a list.                                            *)
LEMMA FirstOnes ==
    ASSUME NEW S, NEW list \in Seq(S), NEW m \in 0..Len(list)
    PROVE  Range(SubSeq(list, 1, m)) = {list[i] : i \in 1..m}
<1> DEFINE p == SubSeq(list, 1, m)
<1>1. Len(list) \in Nat /\ m \in Nat /\ m <= Len(list)
  OBVIOUS
<1>2. DOMAIN p = 1..m /\ \A i \in 1..m : p[i] = list[i]
  BY <1>1
<1> HIDE DEF p
<1>3. Range(p) = {list[i] : i \in 1..m}
  BY <1>2 DEF Range
<1> QED
  BY <1>3 DEF p

(* The tokens listed are those of the document as it was.                   *)
LEMMA NormalizerTells ==
    NormalizerInv => TokensCounted
<1> SUFFICES ASSUME NormalizerInv PROVE TokensCounted
  OBVIOUS
<1> DEFINE tokens == normalizer.tokens
           emitted == normalizer.emitted
           N == Len(tokens)
           n == Len(source)
<1>1. /\ source \in Seq(Seq(Nat)) /\ n \in Nat /\ DOMAIN source = 1..n
      /\ Counted(tokens, source, n) /\ Falling(tokens)
  BY DEF NormalizerInv
<1>2. PICK m \in 0..N : emitted = SubSeq(tokens, 1, m)
  BY DEF NormalizerInv
<1>3. /\ tokens \in Seq(TokenType) /\ N \in Nat /\ DOMAIN tokens = 1..N
  BY <1>1 DEF Counted
<1>4. /\ \A i \in 1..N :
             tokens[i].count = Cardinality(Places(source, n, tokens[i].normalized))
      /\ \A i, j \in 1..N : i # j => tokens[i].normalized # tokens[j].normalized
      /\ \A k \in 1..n : \E i \in 1..N : tokens[i].normalized = source[k]
      /\ \A i \in 1..N : \E k \in 1..n : source[k] = tokens[i].normalized
  BY <1>1 DEF Counted
<1>5. Range(emitted) = {tokens[i] : i \in 1..m}
  BY <1>2, <1>3, FirstOnes
<1>6. \A i, j \in 1..N : i < j => tokens[i].count >= tokens[j].count
  BY <1>1 DEF Falling
<1> HIDE DEF tokens, emitted, N, n
<1>7. {tokens[i].normalized : i \in DOMAIN tokens} = Range(source)
  <2>1. Range(source) = {source[k] : k \in 1..n}
    BY <1>1 DEF Range
  <2>2. ASSUME NEW k \in 1..n
        PROVE  source[k] \in {tokens[i].normalized : i \in DOMAIN tokens}
    BY <1>3, <1>4
  <2>3. ASSUME NEW i \in 1..N PROVE tokens[i].normalized \in Range(source)
    BY <1>4, <2>1
  <2> QED
    BY <1>3, <2>1, <2>2, <2>3
<1>8. \A i \in DOMAIN tokens :
         tokens[i].count = Occurrences(tokens[i].normalized, source)
  BY <1>1, <1>3, <1>4 DEF Occurrences, Places
<1>9. Range(tokens) = {tokens[i] : i \in 1..N}
  BY <1>3 DEF Range
<1>10. m \in Nat /\ m <= N
  BY <1>2, <1>3
<1>11. Range(emitted) \subseteq Range(tokens)
  <2>1. \A i \in 1..m : i \in 1..N
    BY <1>3, <1>10
  <2> QED
    BY <1>5, <1>9, <2>1
<1>12. ASSUME NEW listed \in Range(emitted), NEW left \in Range(tokens) \ Range(emitted)
       PROVE  listed.count >= left.count
  <2>1. PICK i \in 1..m : listed = tokens[i]
    BY <1>5
  <2>2. PICK j \in 1..N : left = tokens[j]
    BY <1>9
  <2>3. j \notin 1..m
    BY <1>5, <2>2
  <2>4. i \in 1..N /\ i < j
    BY <1>3, <1>10, <2>3
  <2> QED
    BY <1>6, <2>1, <2>2, <2>4
<1>13. \A i, j \in DOMAIN tokens : i # j => tokens[i].normalized # tokens[j].normalized
  BY <1>3, <1>4
<1> QED
  BY <1>7, <1>8, <1>11, <1>12, <1>13 DEF TokensCounted, tokens, emitted

(* Nothing was normalized at first.                                         *)
LEMMA NormalizerStart ==
    NormalizerInit => NormalizerInv
<1> SUFFICES ASSUME NormalizerInit PROVE NormalizerInv
  OBVIOUS
<1>1. normalizer = [tokens |-> <<>>, emitted |-> <<>>, ready |-> FALSE] /\ source = <<>>
  BY DEF NormalizerInit
<1>2. /\ <<>> \in Seq(Seq(Nat)) /\ <<>> \in Seq(TokenType) /\ Len(<<>>) = 0
      /\ SubSeq(<<>>, 1, 0) = <<>> /\ \A i \in 1..0 : FALSE
  OBVIOUS
<1>3. Counted(<<>>, <<>>, 0) /\ Falling(<<>>)
  BY <1>2 DEF Counted, Falling
<1>4. 0 \in 0..Len(<<>>)
  BY <1>2
<1> QED
  BY <1>1, <1>2, <1>3, <1>4 DEF NormalizerInv

(* The words of a document are words.                                       *)
LEMMA WordsAre ==
    ASSUME NEW document \in Document
    PROVE  Words(document) \in Seq(Seq(Nat))
<1>1. document.title \in Titles /\ document.body \in Bodies
  BY DEF Document
<1>2. document.title \in Seq(Seq(Nat))
  BY <1>1, NormalizerConstants
<1>3. document.body \in Seq(Nat)
  <2>1. document.body \in Seq(Nat \ {Dash})
    BY <1>1, NormalizerConstants
  <2> QED
    BY <2>1
<1>4. <<document.body>> \in Seq(Seq(Nat))
  <2> DEFINE R == Seq(Nat)
             body == document.body
  <2>1. body \in R
    BY <1>3
  <2> HIDE DEF R, body
  <2>2. <<body>> \in Seq(R)
    BY <2>1
  <2> QED
    BY <2>2 DEF R, body
<1> DEFINE R == Seq(Nat)
           s == Tokenized(document.title)
           t == Tokenized(<<document.body>>)
<1>5. s \in Seq(R) /\ t \in Seq(R)
  BY <1>2, <1>4, TokenizedIs
<1> HIDE DEF R, s, t
<1>6. s \o t \in Seq(R)
  BY <1>5, CatHolds
<1> QED
  BY <1>6 DEF Words, R, s, t

(* NORMALIZE counts the words of the document there is; TOKENS lists the    *)
(* first of the tokens.                                                     *)
LEMMA NormalizerStep ==
    HoldInv /\ NormalizerInv /\ NormalizerNext => NormalizerInv'
<1> SUFFICES ASSUME HoldInv, NormalizerInv, NormalizerNext PROVE NormalizerInv'
  OBVIOUS
<1>1. ASSUME NEW id \in DocIds, NormalizeDocument(id) PROVE NormalizerInv'
  <2>1. CASE status' # "ok"
    <3>1. UNCHANGED normalizerVars
      BY <1>1, <2>1 DEF NormalizeDocument
    <3> QED
      BY <3>1 DEF normalizerVars, NormalizerInv
  <2>2. CASE status' = "ok"
    <3> DEFINE words == Words(documents[id])
               merged == Merged(words)
               sorted == Sorted(merged, TokenBefore)
    <3>1. id \in DOMAIN documents /\ source' = words
          /\ normalizer' = [tokens  |-> Sorted(Merged(source'), TokenBefore),
                            emitted |-> <<>>, ready |-> TRUE]
      BY <1>1, <2>2 DEF NormalizeDocument
    <3>2. documents[id] \in Document
      BY <3>1 DEF HoldInv, Held, Table
    <3>3. words \in Seq(Seq(Nat))
      BY <3>2, WordsAre
    <3>4. normalizer' = [tokens |-> sorted, emitted |-> <<>>, ready |-> TRUE]
      BY <3>1
    <3> HIDE DEF words
    <3>5. Counted(merged, words, Len(words))
      BY <3>3, MergedAre
    <3> HIDE DEF merged
    <3>6. Counted(sorted, words, Len(words)) /\ Falling(sorted)
      BY <3>3, <3>5, TokensSorted
    <3> HIDE DEF sorted
    <3>7. 0 \in 0..Len(sorted) /\ <<>> = SubSeq(sorted, 1, 0)
      <4>1. sorted \in Seq(TokenType)
        BY <3>6 DEF Counted
      <4>2. Len(sorted) \in Nat
        BY <4>1
      <4> QED
        BY <4>1, <4>2
    <3>8. normalizer'.tokens = sorted /\ normalizer'.emitted = <<>>
          /\ normalizer'.ready = TRUE
      BY <3>4
    <3> QED
      BY <3>1, <3>3, <3>4, <3>6, <3>7, <3>8 DEF NormalizerInv
  <2> QED
    BY <2>1, <2>2
<1>2. ASSUME NEW limit \in EmitCounts, EmitNormalizedTokens(limit) PROVE NormalizerInv'
  <2>1. CASE status' # "ok"
    <3>1. normalizer' = normalizer /\ source' = source
      BY <1>2, <2>1 DEF EmitNormalizedTokens
    <3> QED
      BY <3>1 DEF NormalizerInv
  <2>2. CASE status' = "ok"
    <3> DEFINE tokens == normalizer.tokens
               N == Len(tokens)
               m == Min({limit, N})
    <3>1. /\ status' = EmitCheck(limit) /\ source' = source
          /\ normalizer' = [normalizer EXCEPT !.emitted = SubSeq(tokens, 1, m)]
      BY <1>2, <2>2 DEF EmitNormalizedTokens
    <3>2. limit \in Nat
      <4>1. ~(limit \notin 1..EmitLimit)
        BY <2>2, <3>1 DEF EmitCheck
      <4>2. limit \in 1..EmitLimit
        BY <4>1, Zenon
      <4> QED
        BY <4>2, NormalizerConstants
    <3>3. N \in Nat
      <4>1. tokens \in Seq(TokenType)
        BY DEF NormalizerInv, Counted
      <4> QED
        BY <4>1
    <3>4. m = IF limit <= N THEN limit ELSE N
      <4> HIDE DEF N
      <4> QED
        BY <3>2, <3>3, MinOfTwo
    <3> HIDE DEF m
    <3>5. m \in 0..N
      BY <3>2, <3>3, <3>4
    <3>6. /\ normalizer' = [tokens  |-> normalizer.tokens,
                            emitted |-> SubSeq(tokens, 1, m),
                            ready   |-> normalizer.ready]
      BY <3>1 DEF NormalizerInv
    <3>7. /\ normalizer'.tokens = tokens /\ normalizer'.emitted = SubSeq(tokens, 1, m)
          /\ normalizer'.ready = normalizer.ready
      BY <3>6
    <3> QED
      BY <3>1, <3>5, <3>6, <3>7 DEF NormalizerInv
  <2> QED
    BY <2>1, <2>2
<1> QED
  BY <1>1, <1>2 DEF NormalizerNext

-----------------------------------------------------------------------------
(* The indexes of a journal.                                                *)

IndexInv ==
    /\ HoldInv
    /\ LinkInv
    /\ RowInv
    /\ BloomInv
    /\ SkipInv
    /\ PlanInv
    /\ BlockInv
    /\ NormalizerInv

(* A command that leaves what an invariant is about leaves it true.         *)
LEMMA IndexesKept ==
    ASSUME IndexInv
    PROVE  /\ UNCHANGED <<holdVars, epoch>> => HoldInv'
           /\ UNCHANGED linkVars => LinkInv'
           /\ UNCHANGED rowVars => RowInv'
           /\ UNCHANGED bloomVars => BloomInv'
           /\ UNCHANGED skipVars /\ UNCHANGED <<holdVars, epoch>> => SkipInv'
           /\ UNCHANGED planVars => PlanInv'
           /\ UNCHANGED blocks => BlockInv'
           /\ UNCHANGED normalizerVars => NormalizerInv'
<1>1. UNCHANGED <<holdVars, epoch>> => HoldInv'
  BY DEF IndexInv, HoldInv, Held, holdVars
<1>2. UNCHANGED linkVars => LinkInv'
  BY DEF IndexInv, LinkInv, linkVars
<1>3. UNCHANGED rowVars => RowInv'
  BY DEF IndexInv, RowInv, rowVars
<1>4. UNCHANGED bloomVars => BloomInv'
  BY DEF IndexInv, BloomInv, NoFalseNegatives, ProbeSlots, bloomVars
<1>5. UNCHANGED skipVars /\ UNCHANGED <<holdVars, epoch>> => SkipInv'
  BY DEF IndexInv, SkipInv, InPages, skipVars, holdVars
<1>6. UNCHANGED planVars => PlanInv'
  BY DEF IndexInv, PlanInv, planVars
<1>7. UNCHANGED blocks => BlockInv'
  BY DEF IndexInv, BlockInv, PackLossless
<1>8. UNCHANGED normalizerVars => NormalizerInv'
  BY DEF IndexInv, NormalizerInv, normalizerVars
<1> QED
  BY <1>1, <1>2, <1>3, <1>4, <1>5, <1>6, <1>7, <1>8

(* At first there is nothing to read.                                       *)
LEMMA IndexStart ==
    IndexInit => IndexInv
<1> SUFFICES ASSUME IndexInit PROVE IndexInv
  OBVIOUS
<1>1. HoldInv
  BY HoldStart DEF IndexInit
<1>2. LinkInv
  <2>1. links = <<>> /\ selected = 0
    BY DEF IndexInit, LinkInit
  <2>2. <<>> \in Seq(Nat) /\ 0 \in 0..Len(<<>>)
    OBVIOUS
  <2> QED
    BY <2>1, <2>2 DEF LinkInv
<1>3. RowInv /\ BloomInv /\ SkipInv /\ PlanInv
  BY RowStart, BloomStart, SkipStart, PlanStart DEF IndexInit
<1>4. BlockInv /\ NormalizerInv
  BY BlockStart, NormalizerStart DEF IndexInit
<1> QED
  BY <1>1, <1>2, <1>3, <1>4 DEF IndexInv

(* No command takes away what the indexes rest on.                          *)
LEMMA IndexGoesOn ==
    IndexInv /\ [IndexStep]_indexVars => IndexInv'
<1> SUFFICES ASSUME IndexInv, [IndexStep]_indexVars PROVE IndexInv'
  OBVIOUS
<1> DEFINE Store == UNCHANGED <<holdVars, epoch>>
           Links == UNCHANGED linkVars
           Rows == UNCHANGED rowVars
           Filter == UNCHANGED bloomVars
           Points == UNCHANGED skipVars
           Plans == UNCHANGED planVars
           Packs == UNCHANGED blocks
           Tokens == UNCHANGED normalizerVars
<1>1. /\ Store => HoldInv'
      /\ Links => LinkInv'
      /\ Rows => RowInv'
      /\ Filter => BloomInv'
      /\ Points /\ Store => SkipInv'
      /\ Plans => PlanInv'
      /\ Packs => BlockInv'
      /\ Tokens => NormalizerInv'
  BY IndexesKept
<1>2. /\ HoldInv /\ LinkInv /\ RowInv /\ BloomInv /\ SkipInv /\ PlanInv
      /\ BlockInv /\ NormalizerInv
  BY DEF IndexInv
<1>3. ASSUME StoreNext PROVE IndexInv'
  <2>1. HoldInv'
    BY <1>2, <1>3, HoldStep DEF StoreNext
  <2>2. SkipInv'
    BY <1>2, <1>3, SkipKept DEF StoreNext
  <2>3. Rows /\ Links /\ Filter /\ Plans /\ Packs /\ Tokens
    BY <1>3 DEF StoreNext
  <2> HIDE DEF Rows, Links, Filter, Plans, Packs, Tokens
  <2> QED
    BY <1>1, <2>1, <2>2, <2>3 DEF IndexInv
<1>4. ASSUME IndexNext, Store PROVE IndexInv'
  <2>1. HoldInv' /\ UNCHANGED pages
    BY <1>1, <1>4 DEF holdVars
  <2>2. \/ RowNext /\ Links /\ Filter /\ Points /\ Plans /\ Packs /\ Tokens
        \/ LinkNext /\ Rows /\ Filter /\ Points /\ Plans /\ Packs /\ Tokens
        \/ BloomNext /\ Rows /\ Links /\ Points /\ Plans /\ Packs /\ Tokens
        \/ SkipNext /\ Rows /\ Links /\ Filter /\ Plans /\ Packs /\ Tokens
        \/ PlanNext /\ Rows /\ Links /\ Filter /\ Points /\ Packs /\ Tokens
        \/ BlockNext /\ Rows /\ Links /\ Filter /\ Points /\ Plans /\ Tokens
        \/ NormalizerNext /\ Rows /\ Links /\ Filter /\ Points /\ Plans /\ Packs
    BY <1>4 DEF IndexNext
  <2>3. /\ RowNext => RowInv'
        /\ LinkNext => LinkInv'
        /\ BloomNext => BloomInv'
        /\ SkipNext => SkipInv'
        /\ PlanNext => PlanInv'
        /\ BlockNext => BlockInv'
        /\ NormalizerNext => NormalizerInv'
    BY <1>2, <2>1, RowStep, LinkStep, BloomStep, SkipStep, PlanStep, BlockStep,
       NormalizerStep
  <2> HIDE DEF Store, Rows, Links, Filter, Points, Plans, Packs, Tokens
  <2>4. /\ HoldInv' /\ LinkInv' /\ RowInv' /\ BloomInv' /\ SkipInv' /\ PlanInv'
        /\ BlockInv' /\ NormalizerInv'
    BY <1>1, <1>4, <2>1, <2>2, <2>3
  <2> QED
    BY <2>4 DEF IndexInv
<1>5. CASE UNCHANGED indexVars
  <2>1. Store /\ Links /\ Rows /\ Filter
    BY <1>5 DEF indexVars
  <2>2. Points /\ Plans /\ Packs /\ Tokens
    BY <1>5 DEF indexVars
  <2> HIDE DEF Store, Rows, Links, Filter, Points, Plans, Packs, Tokens
  <2> QED
    BY <1>1, <2>1, <2>2 DEF IndexInv
<1> QED
  BY <1>3, <1>4, <1>5 DEF IndexStep

(* Whatever commands come, in whatever order, the indexes rest on what they *)
(* were built from.                                                         *)
THEOREM Safety ==
    IndexSpec => []IndexInv
<1> QED
  BY IndexStart, IndexGoesOn, PTL DEF IndexSpec

(* A reading through an index goes outside what it reads in one way only, a *)
(* PROJECT whose schema came after its row or hides the end of a field; and *)
(* the link EXPORT takes is in the table (project_row, bounded_read and     *)
(* export_selected_link).                                                   *)
THEOREM ReadingsStayInside ==
    IndexSpec => []ReadsInside
<1>1. IndexInv => ReadsInside
  <2>1. IndexInv => RowInv /\ selected \in 0..Len(links)
    BY DEF IndexInv, LinkInv
  <2> QED
    BY <2>1, RowReads DEF ReadsInside
<1> QED
  BY <1>1, Safety, PTL

(* A text that was put into the filter is never reported absent, and every  *)
(* probe kept is right for the filter there is (build_bloom_filter and      *)
(* probe_bloom_filter).                                                     *)
THEOREM FilterMissesNothing ==
    IndexSpec => []NoFalseNegatives
<1>1. IndexInv => NoFalseNegatives
  BY DEF IndexInv, BloomInv
<1> QED
  BY <1>1, Safety, PTL

(* What SEEK finds is the nearest point there is, and lies in its page as   *)
(* long as no restore put other pages there (build_skip_index and           *)
(* seek_skip_index).                                                        *)
THEOREM SeekFindsThePlace ==
    IndexSpec => []SeekTellsPlace
<1>1. IndexInv => SeekTellsPlace
  BY SkipTells DEF IndexInv
<1> QED
  BY <1>1, Safety, PTL

(* What EVAL shares out among the steps of a plan is within the budget, in  *)
(* all and to each step (evaluate_query_plan).                              *)
THEOREM PlansArePaidFor ==
    IndexSpec => []PlanWithinBudget
<1>1. IndexInv => PlanWithinBudget
  BY PlanPays DEF IndexInv
<1> QED
  BY <1>1, Safety, PTL

(* Packed pages unpack to the bytes they were packed from, whatever came of *)
(* the pages since (pack_page and unpack_block).                            *)
THEOREM PackingLosesNothing ==
    IndexSpec => []PackLossless
<1>1. IndexInv => PackLossless
  BY DEF IndexInv, BlockInv
<1> QED
  BY <1>1, Safety, PTL

(* The tokens are the words of the document as it was normalized, each once *)
(* with the number of its occurrences, and TOKENS lists the most frequent   *)
(* (normalize_document and emit_normalized_tokens).                         *)
THEOREM WordsAreCounted ==
    IndexSpec => []TokensCounted
<1>1. IndexInv => TokensCounted
  BY NormalizerTells DEF IndexInv
<1> QED
  BY <1>1, Safety, PTL

-----------------------------------------------------------------------------
(* The codecs.                                                              *)

CodecInv ==
    /\ vector.allocated \in {0, vector.count * vector.width}
    /\ label.text \in 0..LabelLimit
    /\ label.declared_size = label.text
    /\ palette \in 0..(PaletteSize - 1)

(* There is nothing to decode or render at first, and the first color to    *)
(* emit.                                                                    *)
LEMMA CodecStart ==
    CodecInit => CodecInv
<1> SUFFICES ASSUME CodecInit PROVE CodecInv
  OBVIOUS
<1>1. LabelLimit \in Nat /\ PaletteSize \in Nat \ {0}
  BY CodecConstants
<1>2. vector.allocated = 0
  BY DEF CodecInit, NoVector
<1>3. label.text = 0 /\ label.declared_size = 0 /\ palette = 0
  BY DEF CodecInit
<1> QED
  BY <1>1, <1>2, <1>3 DEF CodecInv

(* What a use of a plan reads is there: DECODE, RENDER and COLOR need not   *)
(* look, since VECTOR, LABEL and PALETTE did.                               *)
LEMMA CodecStep ==
    CodecInv /\ CodecNext => CodecInv' /\ status' # Crash
<1> SUFFICES ASSUME CodecInv, CodecNext PROVE CodecInv' /\ status' # Crash
  OBVIOUS
<1>1. LabelLimit \in Nat /\ PaletteSize \in Nat \ {0} /\ Colors \subseteq Nat
  BY CodecConstants
<1>2. ASSUME NEW count, NEW width, NEW origin, ConfigureVector(count, width, origin)
      PROVE  CodecInv' /\ status' # Crash
  <2>1. status' \in {"limit", "ok"} /\ UNCHANGED <<label, palette>>
    BY <1>2 DEF ConfigureVector, VectorCheck
  <2>2. vector'.allocated \in {0, vector'.count * vector'.width}
    <3>1. CASE PlanFits(count, width, origin)
      <4>1. /\ vector'.count = count /\ vector'.width = width
            /\ vector'.allocated \in {0, count * width}
        BY <1>2, <3>1 DEF ConfigureVector
      <4> QED
        BY <4>1
    <3>2. CASE ~PlanFits(count, width, origin)
      BY <1>2, <3>2 DEF ConfigureVector, CodecInv
    <3> QED
      BY <3>1, <3>2
  <2> QED
    BY <2>1, <2>2 DEF CodecInv, Crash
<1>3. ASSUME DecodeVector
      PROVE  CodecInv' /\ status' # Crash
  <2>1. UNCHANGED codecVars
    BY <1>3 DEF DecodeVector
  <2>2. vector.allocated = 0 \/ vector.count * vector.width = vector.allocated
    BY DEF CodecInv
  <2>3. status' \in {"invalid_state", "ok"}
    BY <1>3, <2>2 DEF DecodeVector, ReadOutcome
  <2> QED
    BY <2>1, <2>3 DEF CodecInv, codecVars, Crash
<1>4. ASSUME NEW declared, NEW size, ConfigureLabel(declared, size)
      PROVE  CodecInv' /\ status' # Crash
  <2>1. status' \in {"malformed", "limit", "ok"} /\ UNCHANGED <<vector, palette>>
    BY <1>4 DEF ConfigureLabel, LabelCheck
  <2>2. CASE status' = "ok"
    <3>1. declared \in 1..DeclaredLimit /\ size = declared /\ ~(declared > LabelLimit)
      BY <1>4, <2>2 DEF ConfigureLabel, LabelCheck
    <3>2. DeclaredLimit \in Nat
      BY CodecConstants
    <3>3. label' = [declared_size |-> declared, text |-> size]
      BY <1>4, <2>2 DEF ConfigureLabel
    <3>4. label'.text = size /\ label'.declared_size = declared
      BY <3>3
    <3>5. size \in 0..LabelLimit
      BY <1>1, <3>1, <3>2
    <3> QED
      BY <2>1, <3>1, <3>4, <3>5 DEF CodecInv, Crash
  <2>3. CASE status' # "ok"
    <3>1. label' = label
      BY <1>4, <2>3 DEF ConfigureLabel
    <3> QED
      BY <2>1, <3>1 DEF CodecInv, Crash
  <2> QED
    BY <2>2, <2>3
<1>5. ASSUME RenderLabel
      PROVE  CodecInv' /\ status' # Crash
  <2>1. UNCHANGED codecVars
    BY <1>5 DEF RenderLabel
  <2>2. label.declared_size <= label.text /\ label.declared_size <= LabelLimit
    BY <1>1 DEF CodecInv
  <2>3. status' \in {"invalid_state", "ok"}
    BY <1>5, <2>2 DEF RenderLabel, ReadOutcome
  <2> QED
    BY <2>1, <2>3 DEF CodecInv, codecVars, Crash
<1>6. ASSUME NEW index \in Colors, ChoosePalette(index)
      PROVE  CodecInv' /\ status' # Crash
  <2>1. /\ status' = IF index >= PaletteSize THEN "limit" ELSE "ok"
        /\ palette' = IF status' = "ok" THEN index ELSE palette
        /\ UNCHANGED <<vector, label>>
    BY <1>6 DEF ChoosePalette
  <2>2. status' \in {"limit", "ok"}
    BY <2>1
  <2>3. palette' = palette \/ (palette' = index /\ ~(index >= PaletteSize))
    BY <2>1
  <2>4. palette' \in 0..(PaletteSize - 1)
    BY <1>1, <2>3 DEF CodecInv
  <2> QED
    BY <2>1, <2>2, <2>4 DEF CodecInv, Crash
<1>7. ASSUME EmitPaletteColor
      PROVE  CodecInv' /\ status' # Crash
  <2>1. UNCHANGED codecVars
    BY <1>7 DEF EmitPaletteColor
  <2>2. palette < PaletteSize
    BY <1>1 DEF CodecInv
  <2>3. status' = "ok"
    BY <1>7, <2>2 DEF EmitPaletteColor, ReadOutcome
  <2> QED
    BY <2>1, <2>3 DEF CodecInv, codecVars, Crash
<1> QED
  BY <1>2, <1>3, <1>4, <1>5, <1>6, <1>7 DEF CodecNext

-----------------------------------------------------------------------------
(* The ledger.                                                              *)

\* A command that succeeds leaves an event.
Counts == events' = IF status' = "ok" THEN events + 1 ELSE events

Grows == events' = events \/ events' = events + 1

LedgerInv ==
    /\ known => ledger.folded \in {<<>>, ledger.entries}
    /\ ~known => Len(ledger.entries) = 3
    /\ ledger.entries # <<>> /\ known => ledger.entries[3].value \in 0..(events - 1)

(* The ledger agrees with what it was made from.                            *)
LEMMA LedgerTells ==
    events \in Nat /\ LedgerInv => LedgerAgrees
<1> SUFFICES ASSUME events \in Nat, LedgerInv PROVE LedgerAgrees
  OBVIOUS
<1>1. Len(CommonEntries) = 3
  BY DEF CommonEntries
<1> QED
  BY <1>1 DEF LedgerInv, LedgerAgrees

(* The third entry of a ledger is that of the events, whatever its mode.    *)
LEMMA LedgerCounts ==
    ASSUME NEW mode
    PROVE  /\ EntriesOf(mode)[3].value = events
           /\ mode \notin LedgerModes => Len(EntriesOf(mode)) = 3
<1> DEFINE E == {Entry("documents", Cardinality(DOMAIN documents)),
                 Entry("pages", Cardinality(DOMAIN pages)), Entry("events", events),
                 Entry("snapshots", Cardinality(DOMAIN snapshots)), Entry("segments", 0),
                 Entry("links", Len(links)), Entry("nodes", Cardinality(DOMAIN nodes)),
                 Entry("watches", watches), Entry("vector-width", vector.width),
                 Entry("label-size", label.declared_size), Entry("palette", palette)}
<1>0. ASSUME NEW x \in E, NEW y \in E, NEW z \in E
      PROVE  /\ <<x, y, z>> \in Seq(E) /\ Len(<<x, y, z>>) = 3
             /\ <<x, y, z>>[3] = z /\ <<x, y>> \in Seq(E)
  <2> HIDE DEF E
  <2> QED
    OBVIOUS
<1>1. /\ CommonEntries \in Seq(E) /\ Len(CommonEntries) = 3
      /\ CommonEntries[3].value = events
  <2>1. /\ Entry("documents", Cardinality(DOMAIN documents)) \in E
        /\ Entry("pages", Cardinality(DOMAIN pages)) \in E
        /\ Entry("events", events) \in E
    OBVIOUS
  <2>2. Entry("events", events).value = events
    BY DEF Entry
  <2> DEFINE d == Entry("documents", Cardinality(DOMAIN documents))
             p == Entry("pages", Cardinality(DOMAIN pages))
             e == Entry("events", events)
  <2>3. CommonEntries = <<d, p, e>>
    BY DEF CommonEntries
  <2> HIDE DEF E, d, p, e
  <2>4. d \in E /\ p \in E /\ e \in E /\ e.value = events
    BY <2>1, <2>2 DEF d, p, e
  <2> QED
    BY <1>0, <2>3, <2>4
<1>2. ArchiveEntries \in Seq(E) /\ QueryEntries \in Seq(E) /\ CodecEntries \in Seq(E)
  <2>1. /\ Entry("snapshots", Cardinality(DOMAIN snapshots)) \in E
        /\ Entry("segments", 0) \in E /\ Entry("links", Len(links)) \in E
        /\ Entry("nodes", Cardinality(DOMAIN nodes)) \in E
        /\ Entry("watches", watches) \in E
    OBVIOUS
  <2>2. /\ Entry("vector-width", vector.width) \in E
        /\ Entry("label-size", label.declared_size) \in E /\ Entry("palette", palette) \in E
    OBVIOUS
  <2> DEFINE a == Entry("snapshots", Cardinality(DOMAIN snapshots))
             b == Entry("segments", 0)
             c == Entry("links", Len(links))
             d == Entry("nodes", Cardinality(DOMAIN nodes))
             e == Entry("watches", watches)
             f == Entry("vector-width", vector.width)
             g == Entry("label-size", label.declared_size)
             h == Entry("palette", palette)
  <2>3. ArchiveEntries = <<a, b>> /\ QueryEntries = <<c, d, e>> /\ CodecEntries = <<f, g, h>>
    BY DEF ArchiveEntries, QueryEntries, CodecEntries
  <2> HIDE DEF E, a, b, c, d, e, f, g, h
  <2>4. a \in E /\ b \in E /\ c \in E /\ d \in E /\ e \in E /\ f \in E /\ g \in E /\ h \in E
    BY <2>1, <2>2 DEF a, b, c, d, e, f, g, h
  <2> QED
    BY <1>0, <2>3, <2>4
<1> HIDE DEF E
<1>3. ASSUME NEW a \in Seq(E), Len(a) >= 3, NEW b \in Seq(E)
      PROVE  a \o b \in Seq(E) /\ Len(a \o b) >= 3 /\ (a \o b)[3] = a[3]
  <2>1. /\ a \o b \in Seq(E)
        /\ Len(a \o b) = Len(a) + Len(b)
        /\ \A i \in 1..(Len(a) + Len(b)) :
              (a \o b)[i] = IF i <= Len(a) THEN a[i] ELSE b[i - Len(a)]
    BY ConcatProperties
  <2>2. Len(a) \in Nat /\ Len(b) \in Nat
    OBVIOUS
  <2> QED
    BY <1>3, <2>1, <2>2
<1>5. /\ (CommonEntries \o ArchiveEntries)[3] = CommonEntries[3]
      /\ (CommonEntries \o QueryEntries)[3] = CommonEntries[3]
      /\ (CommonEntries \o CodecEntries)[3] = CommonEntries[3]
  <2>1. Len(CommonEntries) >= 3
    BY <1>1
  <2> QED
    BY <1>1, <1>2, <1>3, <2>1
<1>6. ((CommonEntries \o QueryEntries) \o CodecEntries)[3] = CommonEntries[3]
  <2>1. CommonEntries \o QueryEntries \in Seq(E)
    BY <1>1, <1>2, <1>3
  <2>2. Len(CommonEntries \o QueryEntries) >= 3
    <3>1. Len(CommonEntries) >= 3
      BY <1>1
    <3> QED
      BY <1>1, <1>2, <1>3, <3>1
  <2>3. CodecEntries \in Seq(E)
    BY <1>2
  <2> DEFINE cq == CommonEntries \o QueryEntries
  <2>4. cq[3] = CommonEntries[3]
    BY <1>5
  <2> HIDE DEF cq
  <2>5. cq \in Seq(E) /\ Len(cq) >= 3
    BY <2>1, <2>2 DEF cq
  <2>6. (cq \o CodecEntries)[3] = cq[3]
    BY <1>3, <2>3, <2>5
  <2> QED
    BY <2>4, <2>6 DEF cq
<1>7. EntriesOf(mode) \in {CommonEntries \o ArchiveEntries, CommonEntries \o QueryEntries,
                           CommonEntries \o CodecEntries,
                           (CommonEntries \o QueryEntries) \o CodecEntries, CommonEntries}
  BY Zenon DEF EntriesOf
<1>8. mode \notin LedgerModes => EntriesOf(mode) = CommonEntries
  BY DEF EntriesOf, LedgerModes
<1> QED
  BY <1>1, <1>5, <1>6, <1>7, <1>8

(* LEDGER counts the events before its own, and FOLDLEDGER folds what there *)
(* is.                                                                      *)
LEMMA LedgerStep ==
    events \in Nat /\ Counts /\ LedgerInv /\ LedgerNext => LedgerInv'
<1> SUFFICES ASSUME events \in Nat, Counts, LedgerInv, LedgerNext PROVE LedgerInv'
  OBVIOUS
<1>1. ASSUME NEW mode, BuildLedger(mode) PROVE LedgerInv'
  <2>1. CASE status' = "limit"
    BY <1>1, <2>1 DEF BuildLedger, ledgerVars, LedgerInv, Counts
  <2>2. CASE status' # "limit"
    <3>1. /\ ledger' = Started(mode)
          /\ known' = (mode \in LedgerModes)
          /\ mode \in LedgerModes => status' = "ok"
      BY <1>1, <2>2 DEF BuildLedger, LedgerCheck
    <3>2. ledger'.entries = EntriesOf(mode)
      BY <3>1 DEF Started
    <3>3. mode \in LedgerModes => ledger'.folded = <<>>
      BY <3>1 DEF Started
    <3>4. mode \in LedgerModes => events' = events + 1
      BY <3>1 DEF Counts
    <3>5. /\ ledger'.entries[3].value = events
          /\ mode \notin LedgerModes => Len(ledger'.entries) = 3
      BY <3>2, LedgerCounts
    <3>6. mode \in LedgerModes => ledger'.entries[3].value \in 0..(events' - 1)
      BY <3>4, <3>5
    <3> QED
      BY <3>1, <3>3, <3>5, <3>6 DEF LedgerInv
  <2> QED
    BY <2>1, <2>2
<1>2. ASSUME FoldLedger PROVE LedgerInv'
  <2>1. known' = known /\ events <= events'
    BY <1>2 DEF FoldLedger, Counts
  <2>2. ledger'.entries = ledger.entries
    BY <1>2 DEF FoldLedger
  <2>3. ledger'.folded \in {ledger.folded, ledger.entries}
    BY <1>2 DEF FoldLedger
  <2>4. ledger.entries[3].value \in 0..(events - 1) =>
           ledger.entries[3].value \in 0..(events' - 1)
    <3> DEFINE v == ledger.entries[3].value
    <3>1. events' = events \/ events' = events + 1
      BY DEF Counts
    <3> HIDE DEF v
    <3>2. v \in 0..(events - 1) => v \in 0..(events' - 1)
      BY <3>1
    <3> QED
      BY <3>2 DEF v
  <2> QED
    BY <2>1, <2>2, <2>3, <2>4 DEF LedgerInv
<1> QED
  BY <1>1, <1>2 DEF LedgerNext

-----------------------------------------------------------------------------
(* The quotas.                                                              *)

\* A bucket as QUOTA makes it and ENFORCE keeps it.
JudgedBucket(bucket) ==
    /\ bucket.used \in Nat
    /\ bucket.limit \in Nat
    /\ bucket.exceeded = (bucket.used > bucket.limit)

\* What a bucket was judged by is what there is.
CurrentBuckets ==
    \A name \in DOMAIN quota.buckets :
        IF name = "events" THEN quota.buckets[name].used < events
        ELSE ~moved => quota.buckets[name].used = Used[name]

QuotaNames == {"documents", "pages", "events", "links", "nodes"}

QuotaInv ==
    quota.prepared =>
        /\ DOMAIN quota.buckets = QuotaNames
        /\ \A name \in DOMAIN quota.buckets : JudgedBucket(quota.buckets[name])
        /\ CurrentBuckets

(* The verdicts are those of the store.                                     *)
LEMMA QuotaTells ==
    events \in Nat /\ QuotaInv => QuotaAgrees
<1> SUFFICES ASSUME events \in Nat, QuotaInv, quota.prepared,
                    NEW name \in DOMAIN quota.buckets
             PROVE  LET bucket == quota.buckets[name]
                    IN  IF name = "events"
                        THEN bucket.used < events /\ (bucket.exceeded => events > bucket.limit)
                        ELSE ~moved => (bucket.exceeded <=> Used[name] > bucket.limit)
  BY DEF QuotaAgrees
<1> DEFINE bucket == quota.buckets[name]
           count == bucket.used
           limit == bucket.limit
           over == bucket.exceeded
<1>1. count \in Nat /\ limit \in Nat /\ over = (count > limit)
  BY DEF QuotaInv, JudgedBucket
<1>2. name = "events" => count < events
  BY DEF QuotaInv, CurrentBuckets
<1>3. name # "events" => (~moved => count = Used[name])
  BY DEF QuotaInv, CurrentBuckets
<1> HIDE DEF count, limit, over
<1>4. name = "events" => count < events /\ (over => events > limit)
  <2>1. over => count > limit
    BY <1>1, Zenon
  <2>2. count < events /\ count > limit => events > limit
    BY <1>1
  <2> QED
    BY <1>2, <2>1, <2>2
<1>5. name # "events" => (~moved => (over <=> Used[name] > limit))
  BY <1>1, <1>3
<1> QED
  BY <1>4, <1>5 DEF count, limit, over

(* What is counted is as it was, but for the events.                        *)
LEMMA UsedStays ==
    UNCHANGED <<holdVars, linkVars>> =>
        \A name \in QuotaNames : name # "events" => Used'[name] = Used[name]
<1> SUFFICES ASSUME UNCHANGED <<holdVars, linkVars>>,
                    NEW name \in QuotaNames, name # "events"
             PROVE  Used'[name] = Used[name]
  OBVIOUS
<1> DEFINE d == Cardinality(DOMAIN documents)
           p == Cardinality(DOMAIN pages)
           n == Cardinality(DOMAIN nodes)
           l == Len(links)
<1>1. Used = [documents |-> d, pages |-> p, events |-> events, links |-> l, nodes |-> n]
  BY DEF Used
<1>2. Used' = [documents |-> d, pages |-> p, events |-> events', links |-> l, nodes |-> n]
  BY DEF Used, holdVars, linkVars
<1> HIDE DEF d, p, n, l
<1> QED
  BY <1>1, <1>2 DEF QuotaNames

(* How many there are of what a quota counts.                               *)
LEMMA UsedIs ==
    HoldInv /\ LinkInv /\ events \in Nat =>
        /\ Used \in [QuotaNames -> Nat]
        /\ Used["events"] = events
        /\ Factor \in [QuotaNames -> Nat]
<1> SUFFICES ASSUME HoldInv, LinkInv, events \in Nat
             PROVE  /\ Used \in [QuotaNames -> Nat]
                    /\ Used["events"] = events
                    /\ Factor \in [QuotaNames -> Nat]
  OBVIOUS
<1>1. /\ IsFiniteSet(DOMAIN documents) /\ IsFiniteSet(DOMAIN pages)
      /\ IsFiniteSet(DOMAIN nodes)
  BY DEF HoldInv, Held, Table
<1> DEFINE d == Cardinality(DOMAIN documents)
           p == Cardinality(DOMAIN pages)
           n == Cardinality(DOMAIN nodes)
           l == Len(links)
<1>2. d \in Nat /\ p \in Nat /\ n \in Nat
  BY <1>1, FS_CardinalityType
<1>3. l \in Nat
  BY DEF LinkInv
<1>4. Used = [documents |-> d, pages |-> p, events |-> events, links |-> l, nodes |-> n]
  BY DEF Used
<1> HIDE DEF d, p, n, l
<1>6. /\ Used \in [QuotaNames -> Nat]
      /\ Used["events"] = events
  BY <1>2, <1>3, <1>4 DEF QuotaNames
<1>7. Factor \in [QuotaNames -> Nat]
  BY DEF Factor, QuotaNames
<1> QED
  BY <1>6, <1>7

(* QUOTA judges every count by that of the store, ENFORCE judges one again. *)
LEMMA QuotaStep ==
    HoldInv /\ LinkInv /\ events \in Nat /\ Counts /\ UNCHANGED <<holdVars, linkVars>>
        /\ QuotaInv /\ QuotaNext => QuotaInv'
<1> SUFFICES ASSUME HoldInv, LinkInv, events \in Nat, Counts,
                    UNCHANGED <<holdVars, linkVars>>, QuotaInv, QuotaNext
             PROVE  QuotaInv'
  OBVIOUS
<1>1. /\ Used \in [QuotaNames -> Nat]
      /\ Used["events"] = events
      /\ Factor \in [QuotaNames -> Nat]
  BY UsedIs
<1>2. \A name \in QuotaNames : name # "events" => Used'[name] = Used[name]
  BY UsedStays
<1>3. events <= events' /\ events' \in Nat
  BY DEF Counts
<1>4. ASSUME NEW scale \in Scales, PrepareQuota(scale) PROVE QuotaInv'
  <2>1. CASE status' = "ok"
    <3>1. scale \in Nat
      BY <1>4, <2>1, QuotaConstants DEF PrepareQuota
    <3> DEFINE B == [name \in DOMAIN Used |->
                        [used |-> Used[name], limit |-> scale * Factor[name],
                         exceeded |-> Verdict(Used[name], scale * Factor[name])]]
    <3>2. quota'.buckets = B
      BY <1>4, <2>1 DEF PrepareQuota
    <3>3. events' = events + 1
      BY <2>1 DEF Counts
    <3>4. /\ DOMAIN B = DOMAIN Used
          /\ \A name \in DOMAIN Used :
                /\ B[name].used = Used[name]
                /\ B[name].limit = scale * Factor[name]
                /\ B[name].exceeded = (Used[name] > scale * Factor[name])
      BY DEF Verdict
    <3> HIDE DEF B
    <3>0. DOMAIN Used = QuotaNames
      BY <1>1
    <3>5. ASSUME NEW name \in QuotaNames PROVE JudgedBucket(B[name])
      <4> DEFINE u == Used[name]
                 f == Factor[name]
                 m == scale * f
      <4>1. u \in Nat /\ f \in Nat
        BY <1>1
      <4> HIDE DEF u, f
      <4>2. m \in Nat
        BY <3>1, <4>1
      <4> HIDE DEF m
      <4>3. B[name].used = u /\ B[name].limit = m /\ B[name].exceeded = (u > m)
        BY <3>0, <3>4 DEF u, f, m
      <4> QED
        BY <4>1, <4>2, <4>3 DEF JudgedBucket
    <3>6. B["events"].used < events'
      BY <1>1, <3>0, <3>3, <3>4 DEF QuotaNames
    <3>7. \A name \in QuotaNames : name # "events" => B[name].used = Used'[name]
      BY <1>2, <3>0, <3>4
    <3>8. CurrentBuckets'
      BY <3>0, <3>2, <3>4, <3>6, <3>7 DEF CurrentBuckets
    <3>9. \A name \in DOMAIN quota'.buckets : JudgedBucket(quota'.buckets[name])
      BY <3>0, <3>2, <3>4, <3>5
    <3>10. DOMAIN quota'.buckets = QuotaNames
      BY <3>0, <3>2, <3>4
    <3> QED
      BY <3>8, <3>9, <3>10 DEF QuotaInv
  <2>2. CASE status' # "ok"
    <3>1. UNCHANGED quotaVars
      BY <1>4, <2>2 DEF PrepareQuota
    <3>2. events' = events
      BY <2>2 DEF Counts
    <3> QED
      BY <1>2, <3>1, <3>2 DEF QuotaInv, CurrentBuckets, quotaVars
  <2> QED
    BY <2>1, <2>2
<1>5. ASSUME NEW name \in {"documents", "events", "mystery"}, EnforceQuota(name)
      PROVE  QuotaInv'
  <2>1. moved' = moved
    BY <1>5 DEF EnforceQuota
  <2>2. CASE status' = "ok"
    <3> DEFINE b == quota.buckets
               v == Verdict(b[name].used, b[name].limit)
    <3>1. quota.prepared /\ name \in DOMAIN b
      BY <1>5, <2>2 DEF EnforceQuota
    <3>2. quota' = [quota EXCEPT !.buckets[name].exceeded = v]
      BY <1>5, <2>2 DEF EnforceQuota
    <3>3. JudgedBucket(b[name]) /\ v = b[name].exceeded
      BY <3>1 DEF QuotaInv, JudgedBucket, Verdict
    <3>4. quota'.buckets = [b EXCEPT ![name].exceeded = v]
      BY <3>2
    <3> HIDE DEF b, v
    <3>5. /\ DOMAIN quota'.buckets = DOMAIN b
          /\ \A n \in DOMAIN b : /\ quota'.buckets[n].used = b[n].used
                                 /\ quota'.buckets[n].limit = b[n].limit
                                 /\ quota'.buckets[n].exceeded = b[n].exceeded
      BY <3>3, <3>4
    <3> QED
      BY <1>2, <1>3, <2>1, <3>1, <3>5 DEF QuotaInv, CurrentBuckets, JudgedBucket, b
  <2>3. CASE status' # "ok"
    <3>1. quota' = quota
      BY <1>5, <2>3 DEF EnforceQuota
    <3>2. events' = events
      BY <2>3 DEF Counts
    <3> QED
      BY <1>2, <2>1, <3>1, <3>2 DEF QuotaInv, CurrentBuckets
  <2> QED
    BY <2>2, <2>3
<1> QED
  BY <1>4, <1>5 DEF QuotaNext

(* What a command that keeps the quota may do to it: add an event, or change *)
(* the store, which is told.                                                *)
LEMMA QuotaKept ==
    ASSUME events \in Nat, Grows, QuotaInv, quota' = quota,
           ~moved' => ~moved /\ UNCHANGED <<holdVars, linkVars>>
    PROVE  QuotaInv'
<1>1. ~moved' => \A name \in QuotaNames : name # "events" => Used'[name] = Used[name]
  BY UsedStays
<1>2. events' = events \/ events' = events + 1
  BY DEF Grows
<1> SUFFICES ASSUME quota.prepared PROVE CurrentBuckets'
  BY DEF QuotaInv
<1>3. \A name \in DOMAIN quota.buckets : quota.buckets[name].used \in Nat
  BY DEF QuotaInv, JudgedBucket
<1>4. DOMAIN quota.buckets = QuotaNames /\ CurrentBuckets
  BY DEF QuotaInv
<1>5. ASSUME NEW name \in QuotaNames
      PROVE  IF name = "events" THEN quota.buckets[name].used < events'
             ELSE ~moved' => quota.buckets[name].used = Used'[name]
  <2>1. CASE name = "events"
    <3> DEFINE u == quota.buckets[name].used
    <3>1. u < events /\ u \in Nat
      BY <1>3, <1>4, <2>1 DEF CurrentBuckets
    <3> HIDE DEF u
    <3>2. u < events'
      BY <1>2, <3>1
    <3> QED
      BY <2>1, <3>2 DEF u
  <2>2. CASE name # "events"
    <3>1. ~moved => quota.buckets[name].used = Used[name]
      BY <1>4, <2>2 DEF CurrentBuckets
    <3> QED
      BY <1>1, <2>2, <3>1
  <2> QED
    BY <2>1, <2>2
<1> QED
  BY <1>4, <1>5 DEF CurrentBuckets

-----------------------------------------------------------------------------
(* The digest catalogue.                                                    *)

\* An entry as it may be in an epoch: what it speaks of was there before.
FineEntry(entry, now) ==
    /\ entry.stamp \in 0..now
    /\ entry.digest[1] = "page" => entry.digest[3].generation < entry.stamp

\* Entries in the order they came in.
FineEntries(entries, now) ==
    /\ IsList(entries)
    /\ \A i \in DOMAIN entries : FineEntry(entries[i], now)
    /\ \A i, j \in DOMAIN entries : i < j => entries[i].stamp < entries[j].stamp

DigestInv ==
    /\ FineEntries(digests.entries, epoch)
    /\ Len(digests.entries) <= DigestLimit
    /\ digests.verified # <<>> => digests.entries # <<>>

(* The catalogue agrees with what it was made from.                         *)
LEMMA DigestTells ==
    epoch \in Nat /\ DigestInv => DigestsAgree
<1> SUFFICES ASSUME epoch \in Nat, DigestInv PROVE DigestsAgree
  OBVIOUS
<1> DEFINE entries == digests.entries
<1>1. /\ Len(entries) <= DigestLimit
      /\ digests.verified # <<>> => entries # <<>>
  BY DEF DigestInv
<1>2. \A i, j \in DOMAIN entries : i < j => entries[i].stamp < entries[j].stamp
  BY DEF DigestInv, FineEntries
<1>3. \A i \in DOMAIN entries : FineEntry(entries[i], epoch)
  BY DEF DigestInv, FineEntries
<1>4. \A i \in DOMAIN entries :
         /\ entries[i].stamp <= epoch
         /\ entries[i].digest[1] = "page" =>
               entries[i].digest[3].generation < entries[i].stamp
  BY <1>3 DEF FineEntry
<1> QED
  BY <1>1, <1>2, <1>4 DEF DigestsAgree

(* Later, entries are as fine as they were.                                 *)
LEMMA FineOn ==
    ASSUME NEW entries, NEW now \in Nat, NEW later \in Nat, now <= later,
           FineEntries(entries, now)
    PROVE  FineEntries(entries, later)
<1>1. ASSUME NEW i \in DOMAIN entries PROVE FineEntry(entries[i], later)
  <2>1. FineEntry(entries[i], now)
    BY DEF FineEntries
  <2> QED
    BY <2>1 DEF FineEntry
<1> QED
  BY <1>1 DEF FineEntries

(* The entry of a digest is fine in the epoch it begins.                    *)
LEMMA NewEntryFine ==
    ASSUME HoldInv, NEW kind, NEW id, Found(kind, id)
    PROVE  FineEntry(CatalogueEntry(kind, id), epoch + 1)
<1> DEFINE entry == CatalogueEntry(kind, id)
<1>1. epoch \in Nat /\ entry.stamp = epoch + 1 /\ entry.digest = Content(kind, id)
  BY DEF CatalogueEntry, HoldInv
<1>2. CASE kind = "page"
  <2>1. id \in DOMAIN pages
    BY <1>2 DEF Found
  <2>2. pages[id] \in Page(epoch)
    BY <2>1 DEF HoldInv, Held, Table
  <2>3. pages[id].generation < epoch + 1
    BY <1>1, <2>2 DEF Page
  <2>4. Content(kind, id) = <<kind, id, pages[id]>>
    BY <1>2 DEF Content
  <2>5. Content(kind, id)[3] = pages[id]
    BY <2>4
  <2> HIDE DEF entry
  <2> QED
    BY <1>1, <2>3, <2>5 DEF FineEntry, entry
<1>3. CASE kind # "page"
  <2>1. kind \in {"doc", "links", "nodes", "events"}
    BY <1>3 DEF Found
  <2>2. Content(kind, id)[1] = kind
    BY <2>1 DEF Content
  <2> HIDE DEF entry
  <2> QED
    BY <1>1, <1>3, <2>2 DEF FineEntry, entry
<1> QED
  BY <1>2, <1>3

(* One more entry, later than those before, and what a trim leaves of them. *)
LEMMA ShortenedFine ==
    ASSUME NEW now \in Nat, NEW entries, FineEntries(entries, now),
           Len(entries) <= DigestLimit,
           NEW entry, FineEntry(entry, now + 1), entry.stamp = now + 1
    PROVE  /\ FineEntries(Shortened(Append(entries, entry)), now + 1)
           /\ Len(Shortened(Append(entries, entry))) <= DigestLimit
           /\ Shortened(Append(entries, entry)) # <<>>
<1> DEFINE n == Len(entries)
           more == Append(entries, entry)
           k == DigestTrim + 1
           less == SubSeq(more, k, n + 1)
<1>1. DigestLimit \in Nat /\ DigestTrim \in 1..DigestLimit
  BY DigestConstants
<1>2. n \in Nat /\ DOMAIN entries = 1..n
  BY Lists DEF FineEntries
<1>3. /\ IsList(more)
      /\ Len(more) = n + 1
      /\ DOMAIN more = 1..(n + 1)
      /\ \A i \in 1..(n + 1) : more[i] = IF i = n + 1 THEN entry ELSE entries[i]
  BY AppendIs DEF FineEntries
<1>4. FineEntries(entries, now + 1)
  BY FineOn
<1> HIDE DEF more, n
<1>5. FineEntries(more, now + 1)
  <2>1. ASSUME NEW i \in 1..(n + 1) PROVE FineEntry(more[i], now + 1)
    <3>1. i \in 1..n \/ i = n + 1
      BY <1>2
    <3> QED
      BY <1>2, <1>3, <1>4, <3>1 DEF FineEntries
  <2>2. ASSUME NEW i \in 1..(n + 1), NEW j \in 1..(n + 1), i < j
        PROVE  more[i].stamp < more[j].stamp
    <3>1. i \in 1..n /\ more[i] = entries[i]
      BY <1>2, <1>3, <2>2
    <3>2. CASE j = n + 1
      <4>1. more[j] = entry
        BY <1>3, <3>2
      <4>2. FineEntry(entries[i], now)
        BY <1>2, <3>1 DEF FineEntries
      <4>3. entries[i].stamp < now + 1
        BY <4>2 DEF FineEntry
      <4> QED
        BY <3>1, <4>1, <4>3
    <3>3. CASE j # n + 1
      <4>1. j \in 1..n /\ more[j] = entries[j]
        BY <1>2, <1>3, <3>3
      <4> QED
        BY <1>2, <2>2, <3>1, <4>1 DEF FineEntries
    <3> QED
      BY <3>2, <3>3
  <2> QED
    BY <1>3, <2>1, <2>2 DEF FineEntries
<1>6. CASE n + 1 > DigestLimit
  <2>1. k \in 1..(Len(more) + 1) /\ k <= n + 1
    BY <1>1, <1>2, <1>3, <1>6
  <2>2. /\ IsList(less)
        /\ Len(less) = (n + 1) - k + 1
        /\ DOMAIN less = 1..((n + 1) - k + 1)
        /\ \A i \in 1..((n + 1) - k + 1) : less[i] = more[k + i - 1]
    BY <1>3, <2>1, SuffixIs
  <2>3. Shortened(more) = less
    BY <1>3, <1>6 DEF Shortened
  <2> DEFINE m == (n + 1) - k + 1
  <2>4. m \in Nat /\ m >= 1 /\ m <= DigestLimit /\ k \in Nat
    BY <1>1, <1>2, <1>6, <2>1
  <2>5. \A i \in 1..m : k + i - 1 \in 1..(n + 1)
    BY <1>1, <1>2, <2>4
  <2> HIDE DEF less, k
  <2>6. FineEntries(less, now + 1)
    <3>1. ASSUME NEW i \in 1..m PROVE FineEntry(less[i], now + 1)
      BY <1>3, <1>5, <2>2, <2>5 DEF FineEntries
    <3>2. ASSUME NEW i \in 1..m, NEW j \in 1..m, i < j
          PROVE  less[i].stamp < less[j].stamp
      <4>1. k + i - 1 < k + j - 1
        BY <2>4, <3>2
      <4> QED
        BY <1>3, <1>5, <2>2, <2>5, <4>1 DEF FineEntries
    <3> QED
      BY <2>2, <3>1, <3>2 DEF FineEntries
  <2>7. less # <<>>
    BY <2>2, <2>4
  <2> QED
    BY <2>2, <2>3, <2>4, <2>6, <2>7 DEF more
<1>7. CASE ~(n + 1 > DigestLimit)
  <2>1. Shortened(more) = more
    BY <1>3, <1>7 DEF Shortened
  <2>2. more # <<>> /\ Len(more) <= DigestLimit
    BY <1>1, <1>2, <1>3, <1>7
  <2> QED
    BY <1>5, <2>1, <2>2 DEF more
<1> QED
  BY <1>6, <1>7

(* DIGEST adds an entry of the epoch it begins, VERIFY none.                *)
LEMMA DigestStep ==
    HoldInv /\ DigestInv /\ DigestNext =>
        DigestInv' /\ epoch' \in Nat /\ epoch <= epoch'
<1> SUFFICES ASSUME HoldInv, DigestInv, DigestNext
             PROVE  DigestInv' /\ epoch' \in Nat /\ epoch <= epoch'
  OBVIOUS
<1>1. epoch \in Nat
  BY DEF HoldInv
<1>2. ASSUME NEW kind, NEW id, CaptureDigest(kind, id)
      PROVE  DigestInv' /\ epoch' \in Nat /\ epoch <= epoch'
  <2>1. CASE status' = "ok"
    <3> DEFINE more == Shortened(Append(digests.entries, CatalogueEntry(kind, id)))
    <3>1. Found(kind, id)
      BY <1>2, <2>1 DEF CaptureDigest
    <3>2. digests' = [digests EXCEPT !.entries = more] /\ NextEpoch
      BY <1>2, <2>1 DEF CaptureDigest
    <3>3. epoch' = epoch + 1
      BY <3>2 DEF NextEpoch
    <3>4. CatalogueEntry(kind, id).stamp = epoch + 1
      BY DEF CatalogueEntry
    <3>5. FineEntry(CatalogueEntry(kind, id), epoch + 1)
      BY <3>1, NewEntryFine
    <3>6. FineEntries(more, epoch + 1) /\ Len(more) <= DigestLimit /\ more # <<>>
      BY <1>1, <3>4, <3>5, ShortenedFine DEF DigestInv
    <3> HIDE DEF more
    <3>7. digests'.entries = more \/ digests'.entries = digests.entries
      BY <3>2
    <3>8. digests'.verified = digests.verified
      BY <3>2
    <3>9. FineEntries(digests.entries, epoch + 1)
      BY <1>1, FineOn DEF DigestInv
    <3> QED
      BY <1>1, <3>3, <3>6, <3>7, <3>8, <3>9 DEF DigestInv
  <2>2. CASE status' # "ok"
    BY <1>1, <1>2, <2>2 DEF CaptureDigest, DigestInv
  <2> QED
    BY <2>1, <2>2
<1>3. ASSUME NEW expected, VerifyDigest(expected)
      PROVE  DigestInv' /\ epoch' \in Nat /\ epoch <= epoch'
  <2>1. epoch' = epoch
    BY <1>3 DEF VerifyDigest
  <2>2. \/ digests' = digests
        \/ digests.entries # <<>> /\ digests'.entries = digests.entries
    BY <1>3 DEF VerifyDigest
  <2> QED
    BY <1>1, <2>1, <2>2 DEF DigestInv
<1> QED
  BY <1>2, <1>3 DEF DigestNext

-----------------------------------------------------------------------------
(* Walks.                                                                   *)

WalkOn(walk, start, step) ==
    LET place == IF walk = <<>> THEN start ELSE Last(walk)
        edges == Matching(place)
    IN  IF edges = {} \/ Len(walk) < step - 1 THEN walk
        ELSE Append(walk, relation.edges[Min(edges)].to)

WalkLists(start, steps) ==
    CHOOSE walk : walk = [n \in 0..steps |->
                             IF n = 0 THEN <<>> ELSE WalkOn(walk[n - 1], start, n)]

\* The ends of edges.
Ends == {edge.to : edge \in Range(relation.edges)}

(* The first matching edge is one, and its end is one of the ends.          *)
LEMMA FirstMatches ==
    ASSUME IsList(relation.edges), NEW place, Matching(place) # {}
    PROVE  \E edge \in Range(relation.edges) :
              /\ edge = relation.edges[Min(Matching(place))]
              /\ place \in {edge.from, edge.to}
              /\ edge.to \in Ends
<1>1. DOMAIN relation.edges \in SUBSET Nat
  BY Lists
<1>2. Matching(place) \in SUBSET Nat
  BY <1>1 DEF Matching
<1>3. Min(Matching(place)) \in Matching(place)
  BY <1>2, MinOfSome
<1> DEFINE i == Min(Matching(place))
           edge == relation.edges[i]
<1> HIDE DEF i
<1>4. i \in DOMAIN relation.edges /\ place \in {edge.from, edge.to}
  BY <1>3 DEF Matching, i
<1>5. edge \in Range(relation.edges)
  BY <1>4 DEF Range
<1>6. edge.to \in Ends
  BY <1>5 DEF Ends
<1> QED
  BY <1>4, <1>5, <1>6 DEF i

(* Where an edge ends, one matches.                                         *)
LEMMA EndsMatch ==
    ASSUME NEW place \in Ends
    PROVE  Matching(place) # {}
<1>1. PICK edge \in Range(relation.edges) : edge.to = place
  BY DEF Ends
<1>2. PICK i \in DOMAIN relation.edges : relation.edges[i] = edge
  BY DEF Range
<1>3. i \in Matching(place)
  BY <1>1, <1>2 DEF Matching
<1> QED
  BY <1>3

(* The walks WalkFrom goes through are there.                               *)
LEMMA WalksAre ==
    ASSUME IsList(relation.edges), NEW start, NEW steps \in Nat
    PROVE  /\ WalkFrom(start, steps) = WalkLists(start, steps)[steps]
           /\ WalkLists(start, steps)[0] = <<>>
           /\ \A n \in 1..steps :
                 /\ WalkLists(start, steps)[n - 1] \in Seq(Ends)
                 /\ WalkLists(start, steps)[n] =
                       WalkOn(WalkLists(start, steps)[n - 1], start, n)
<1> DEFINE N == steps
           V == Seq(Ends)
           a == <<>>
           G == WalkLists(start, steps)
           On(x, n) == WalkOn(x, start, n)
           step == [n \in 1..N |-> [x \in V |-> On(x, n)]]
           P(f) == f = [n \in 0..N |-> IF n = 0 THEN a ELSE On(f[n - 1], n)]
<1>1. N \in Nat /\ a \in V
  OBVIOUS
<1>2. ASSUME NEW n \in 1..N, NEW x \in V PROVE On(x, n) \in V
  <2> DEFINE place == IF x = <<>> THEN start ELSE Last(x)
  <2>1. ASSUME NEW e \in Ends PROVE Append(x, e) \in V
    OBVIOUS
  <2>2. \/ On(x, n) = x
        \/ /\ Matching(place) # {}
           /\ On(x, n) = Append(x, relation.edges[Min(Matching(place))].to)
    BY DEF WalkOn
  <2> HIDE DEF place, V, On
  <2> QED
    BY <2>1, <2>2, FirstMatches
<1>3. G = CHOOSE g : P(g)
  BY DEF WalkLists
<1>4. WalkFrom(start, steps) = G[N]
  BY DEF WalkFrom, WalkLists, WalkOn
<1> HIDE DEF N, V, a, On, G
<1>5. step \in [1..N -> [V -> V]]
  BY <1>2
<1>6. \A n \in 1..N : \A x \in V : step[n][x] = On(x, n)
  OBVIOUS
<1> HIDE DEF step
<1>7. PICK f : f \in RunsOf(N, V, a, step)
  BY <1>1, <1>5, Recursion
<1>8. P(f)
  <2>1. \A n \in 0..N : f[n] = IF n = 0 THEN a ELSE On(f[n - 1], n)
    <3>1. f[0] = a
      BY <1>7 DEF RunsOf
    <3>2. ASSUME NEW n \in 1..N PROVE f[n] = On(f[n - 1], n)
      <4>1. f[n - 1] \in V /\ f[n] = step[n][f[n - 1]]
        BY <1>1, <1>7, RunSteps
      <4> QED
        BY <1>6, <4>1
    <3> QED
      BY <1>1, <3>1, <3>2
  <2>2. f = [n \in 0..N |-> f[n]]
    BY <1>7 DEF RunsOf
  <2> QED
    BY <2>1, <2>2
<1>9. P(G)
  <2> HIDE DEF P
  <2> QED
    BY <1>3, <1>8
<1>10. G \in RunsOf(N, V, a, step)
  <2>1. \A n \in 1..N : G[n - 1] \in V => G[n] = step[n][G[n - 1]]
    BY <1>1, <1>6, <1>9
  <2>2. DOMAIN G = 0..N /\ G = [n \in DOMAIN G |-> G[n]]
    BY <1>9
  <2>3. G[0] = a
    BY <1>1, <1>9
  <2> QED
    BY <1>1, <1>5, <2>1, <2>2, <2>3, RunIs
<1>11. G[0] = a
  BY <1>10 DEF RunsOf
<1>12. \A n \in 1..N : G[n - 1] \in V /\ G[n] = On(G[n - 1], n)
  BY <1>1, <1>6, <1>10, RunSteps
<1> QED
  BY <1>4, <1>11, <1>12 DEF a, N, V, On, G

\* A walk along edges.
Along(walk, edges) ==
    \A i \in DOMAIN walk : \E edge \in Range(edges) :
        /\ edge.to = walk[i]
        /\ i > 1 => walk[i - 1] \in {edge.from, edge.to}

(* A walk goes as far as it was asked to, or does not begin.                *)
LEMMA WalkGoes ==
    ASSUME IsList(relation.edges), NEW start, NEW steps \in Nat
    PROVE  /\ WalkFrom(start, steps) \in Seq(Ends)
           /\ Len(WalkFrom(start, steps)) \in {0, steps}
           /\ Along(WalkFrom(start, steps), relation.edges)
<1> DEFINE W == WalkLists(start, steps)
           V == Seq(Ends)
           Good(w, n) == /\ w \in V
                         /\ Len(w) = IF Matching(start) = {} THEN 0 ELSE n
                         /\ Along(w, relation.edges)
           T == {n \in 0..steps : Good(W[n], n)}
<1>1. /\ WalkFrom(start, steps) = W[steps]
      /\ W[0] = <<>>
      /\ \A n \in 1..steps : W[n - 1] \in V /\ W[n] = WalkOn(W[n - 1], start, n)
  BY WalksAre
<1> HIDE DEF W
<1>2. 0 \in T
  <2>1. <<>> \in V /\ Len(<<>>) = 0 /\ DOMAIN <<>> = {}
    OBVIOUS
  <2>2. Along(<<>>, relation.edges)
    BY <2>1 DEF Along
  <2>3. Good(W[0], 0)
    <3> HIDE DEF V
    <3> QED
      BY <1>1, <2>1, <2>2
  <2>4. 0 \in 0..steps
    OBVIOUS
  <2> HIDE DEF Good
  <2> QED
    BY <2>3, <2>4
<1>3. ASSUME NEW n \in 1..steps, n - 1 \in T PROVE n \in T
  <2> DEFINE w == W[n - 1]
             place == IF w = <<>> THEN start ELSE Last(w)
             m == Len(w)
  <2>1. Good(w, n - 1) /\ W[n] = WalkOn(w, start, n)
    BY <1>1, <1>3
  <2>2. m \in Nat /\ DOMAIN w = 1..m
    BY <2>1
  <2>3. \/ Matching(place) = {} /\ W[n] = w
        \/ m < n - 1 /\ W[n] = w
        \/ /\ Matching(place) # {}
           /\ W[n] = Append(w, relation.edges[Min(Matching(place))].to)
    BY <2>1 DEF WalkOn
  <2>4. w = <<>> <=> m = 0
    BY <2>1
  <2>5. m # 0 => place = w[m] /\ place \in Ends
    BY <2>1, <2>2, <2>4 DEF Last
  <2> HIDE DEF place
  <2>6. CASE Matching(start) = {}
    <3>1. m = 0 /\ place = start
      BY <2>1, <2>4, <2>6 DEF place
    <3>2. W[n] = w
      BY <2>3, <2>6, <3>1
    <3> QED
      BY <2>1, <2>6, <3>2
  <2>7. CASE Matching(start) # {}
    <3>1. m = n - 1
      BY <2>1, <2>7
    <3>2. Matching(place) # {}
      BY <2>4, <2>5, <2>7, EndsMatch DEF place
    <3>3. PICK edge \in Range(relation.edges) :
             /\ edge = relation.edges[Min(Matching(place))]
             /\ place \in {edge.from, edge.to}
             /\ edge.to \in Ends
      BY <3>2, FirstMatches
    <3> DEFINE x == edge.to
               u == Append(w, x)
    <3>4. W[n] = u
      BY <2>3, <2>2, <3>1, <3>2, <3>3
    <3>5. w \in V /\ x \in Ends
      BY <2>1, <3>3
    <3> HIDE DEF w, x
    <3>6. /\ u \in V /\ Len(u) = n /\ DOMAIN u = 1..n
          /\ \A i \in 1..n : u[i] = IF i = n THEN x ELSE w[i]
      BY <2>2, <3>1, <3>5
    <3> HIDE DEF u
    <3>7. ASSUME NEW i \in 1..n
          PROVE  \E e \in Range(relation.edges) :
                    /\ e.to = u[i]
                    /\ i > 1 => u[i - 1] \in {e.from, e.to}
      <4>1. CASE i = n
        <5>1. i > 1 => u[i - 1] = place
          BY <2>2, <2>5, <3>1, <3>6, <4>1
        <5> QED
          BY <3>3, <3>6, <4>1, <5>1 DEF x
      <4>2. CASE i # n
        <5>1. i \in 1..m /\ u[i] = w[i] /\ (i > 1 => u[i - 1] = w[i - 1])
          BY <3>1, <3>6, <4>2
        <5>2. \E e \in Range(relation.edges) :
                 /\ e.to = w[i]
                 /\ i > 1 => w[i - 1] \in {e.from, e.to}
          BY <2>1, <2>2, <5>1 DEF Along
        <5> QED
          BY <5>1, <5>2
      <4> QED
        BY <4>1, <4>2
    <3>8. Along(u, relation.edges)
      BY <3>6, <3>7 DEF Along
    <3> QED
      BY <2>7, <3>4, <3>6, <3>8
  <2> QED
    BY <2>6, <2>7
<1>4. \A n \in 0..steps : n \in T
  <2> HIDE DEF T
  <2> QED
    BY <1>2, <1>3, Induct
<1>5. Good(W[steps], steps)
  BY <1>4
<1> QED
  BY <1>1, <1>5

RelationInv ==
    /\ relation = [edges    |-> relation.edges,
                   walk     |-> relation.walk,
                   prepared |-> relation.prepared]
    /\ IsList(relation.edges)
    /\ WalkNeverStops

(* There is no walk at first.                                               *)
LEMMA RelationStart ==
    RelationInit => RelationInv
<1> SUFFICES ASSUME RelationInit PROVE RelationInv
  OBVIOUS
<1>1. relation = [edges |-> <<>>, walk |-> <<>>, prepared |-> FALSE] /\ asked = 0
  BY DEF RelationInit
<1>2. relation.edges = <<>> /\ relation.walk = <<>>
  BY <1>1
<1>3. <<>> \in Seq({}) /\ Len(<<>>) = 0 /\ DOMAIN <<>> = {}
  OBVIOUS
<1>4. WalkNeverStops
  BY <1>1, <1>2, <1>3 DEF WalkNeverStops
<1> QED
  BY <1>1, <1>2, <1>3, <1>4 DEF RelationInv, IsList

(* The edges of a table are a list, in whatever order they come.            *)
LEMMA TableEdgesList ==
    ASSUME NEW t, IsFiniteSet(DOMAIN t), NEW edges \in TableEdges(t)
    PROVE  IsList(edges)
<1> DEFINE n == Cardinality(DOMAIN t)
<1>1. n \in Nat
  BY FS_CardinalityType
<1>2. PICK order \in Bijection(1..n, DOMAIN t) :
         edges = [i \in DOMAIN order |-> Edge(order[i], t[order[i]])]
  BY DEF TableEdges
<1> HIDE DEF n
<1>3. DOMAIN order = 1..n
  BY DEF Bijection, Injection
<1>4. edges = [i \in 1..n |-> edges[i]]
  BY <1>2, <1>3
<1> QED
  BY <1>1, <1>4, MapList

(* So are those a mode may make.                                            *)
LEMMA EdgesList ==
    ASSUME HoldInv, LinkInv, NEW mode, NEW edges \in EdgesOf(mode)
    PROVE  IsList(edges)
<1> DEFINE titles == [id \in DOMAIN documents |-> SizeOf(documents[id].title)]
<1>1. IsFiniteSet(DOMAIN documents) /\ IsFiniteSet(DOMAIN nodes)
  BY DEF HoldInv, Held, Table
<1>2. \A d \in DocEdges : IsList(d)
  <2>1. DocEdges = TableEdges(titles) /\ DOMAIN titles = DOMAIN documents
    BY DEF DocEdges
  <2> HIDE DEF titles
  <2> QED
    BY <1>1, <2>1, TableEdgesList
<1>3. \A n \in NodeEdges : IsList(n)
  BY <1>1, TableEdgesList DEF NodeEdges
<1>4. IsList(LinkEdges)
  <2>1. Len(links) \in Nat /\ DOMAIN links = 1..Len(links)
    BY DEF LinkInv
  <2>2. LinkEdges = [i \in 1..Len(links) |-> LinkEdges[i]]
    BY <2>1 DEF LinkEdges
  <2> QED
    BY <2>1, <2>2, MapList
<1>5. IsList(<<>>)
  <2>1. <<>> \in Seq({})
    OBVIOUS
  <2> QED
    BY <2>1 DEF IsList
<1>6. ASSUME NEW d \in DocEdges, NEW n \in NodeEdges
      PROVE  IsList((d \o LinkEdges) \o n)
  BY <1>2, <1>3, <1>4, CatList
<1>7. CASE mode = "links"
  BY <1>4, <1>7 DEF EdgesOf
<1>8. CASE mode = "docs"
  BY <1>2, <1>8 DEF EdgesOf
<1>9. CASE mode = "nodes"
  BY <1>3, <1>9 DEF EdgesOf
<1>10. CASE mode = "mixed"
  <2>1. edges \in MixedEdges
    BY <1>10 DEF EdgesOf
  <2>2. \E d \in DocEdges, n \in NodeEdges : edges = (d \o LinkEdges) \o n
    BY <2>1 DEF MixedEdges
  <2> QED
    BY <1>6, <2>2, Zenon
<1>11. CASE mode \notin {"links", "docs", "nodes", "mixed"}
  BY <1>5, <1>11 DEF EdgesOf
<1> QED
  BY <1>7, <1>8, <1>9, <1>10, <1>11

(* RELATE leaves no walk, and WALKREL one that goes on or none.             *)
LEMMA RelationStep ==
    HoldInv /\ LinkInv /\ RelationInv /\ RelationNext => RelationInv'
<1> SUFFICES ASSUME HoldInv, LinkInv, RelationInv, RelationNext PROVE RelationInv'
  OBVIOUS
<1>1. ASSUME UNCHANGED relationVars PROVE RelationInv'
  BY <1>1 DEF RelationInv, WalkNeverStops, relationVars
<1>2. ASSUME NEW mode, BuildRelations(mode) PROVE RelationInv'
  <2>1. CASE status' = "limit"
    BY <1>1, <1>2, <2>1 DEF BuildRelations
  <2>2. CASE status' # "limit"
    <3> DEFINE ready == relation.prepared \/ status' = "ok"
    <3>1. PICK edges \in EdgesOf(mode) :
             relation' = [edges |-> edges, walk |-> <<>>, prepared |-> ready]
      BY <1>2, <2>2 DEF BuildRelations
    <3>2. IsList(edges)
      BY EdgesList
    <3>3. relation'.walk = <<>> /\ relation'.edges = edges
      BY <3>1
    <3>4. Len(<<>>) = 0 /\ DOMAIN <<>> = {}
      OBVIOUS
    <3>5. WalkNeverStops'
      BY <3>3, <3>4 DEF WalkNeverStops
    <3> HIDE DEF ready
    <3>6. relation' = [edges    |-> relation'.edges,
                       walk     |-> relation'.walk,
                       prepared |-> relation'.prepared]
      BY <3>1
    <3> QED
      BY <3>2, <3>3, <3>5, <3>6 DEF RelationInv
  <2> QED
    BY <2>1, <2>2
<1>3. ASSUME NEW start, NEW steps, WalkRelations(start, steps) PROVE RelationInv'
  <2>1. CASE status' \in {"ok", "not_found"}
    <3> DEFINE w == WalkFrom(start, steps)
    <3>1. steps \in Nat
      <4>1. steps \in 1..WalkLimit
        BY <1>3, <2>1 DEF WalkRelations, WalkCheck
      <4> QED
        BY <4>1, RelationConstants
    <3>2. relation' = [relation EXCEPT !.walk = w] /\ asked' = steps
      BY <1>3, <2>1 DEF WalkRelations
    <3>3. Len(w) \in {0, steps} /\ Along(w, relation.edges)
      BY <3>1, WalkGoes DEF RelationInv
    <3> HIDE DEF w
    <3> DEFINE e == relation.edges
               v == relation.walk
               p == relation.prepared
    <3>4. relation = [edges |-> e, walk |-> v, prepared |-> p] /\ IsList(e)
      BY DEF RelationInv
    <3> HIDE DEF e, v, p
    <3>5. relation' = [edges |-> e, walk |-> w, prepared |-> p]
      BY <3>2, <3>4
    <3>6. relation'.edges = e /\ relation'.walk = w /\ relation'.prepared = p
      BY <3>5
    <3>7. Along(w, e)
      BY <3>3 DEF e
    <3>8. WalkNeverStops'
      BY <3>2, <3>3, <3>6, <3>7 DEF WalkNeverStops, Along
    <3> QED
      BY <3>4, <3>5, <3>6, <3>8 DEF RelationInv
  <2>2. CASE status' \notin {"ok", "not_found"}
    BY <1>1, <1>3, <2>2 DEF WalkRelations
  <2> QED
    BY <2>1, <2>2
<1> QED
  BY <1>2, <1>3 DEF RelationNext

-----------------------------------------------------------------------------
(* Rows of objects, the heavier first.                                      *)

RowType == [kind : {"doc", "link", "node", "page"}, id : Nat, weight : Nat]

(* RowBefore is an order but for rows that are alike.                       *)
LEMMA RowsWeak ==
    ASSUME NEW a \in RowType, NEW b \in RowType, NEW c \in RowType, RowBefore(a, b)
    PROVE  ~RowBefore(b, a) /\ (RowBefore(a, c) \/ RowBefore(c, b))
<1> DEFINE wa == a.weight
           wb == b.weight
           wc == c.weight
           ka == KindRank[a.kind]
           kb == KindRank[b.kind]
           kc == KindRank[c.kind]
           ia == a.id
           ib == b.id
           ic == c.id
<1>1. /\ wa \in Nat /\ wb \in Nat /\ wc \in Nat
      /\ ia \in Nat /\ ib \in Nat /\ ic \in Nat
      /\ ka \in Nat /\ kb \in Nat /\ kc \in Nat
  BY DEF RowType, KindRank
<1>2. /\ (a.kind = b.kind) <=> ka = kb
      /\ (a.kind = c.kind) <=> ka = kc
      /\ (c.kind = b.kind) <=> kc = kb
  BY DEF RowType, KindRank
<1>3. wa > wb \/ (wa = wb /\ (ka < kb \/ (ka = kb /\ ia < ib)))
  BY <1>2 DEF RowBefore
<1>4. /\ RowBefore(b, a) <=> wb > wa \/ (wb = wa /\ (kb < ka \/ (kb = ka /\ ib < ia)))
      /\ RowBefore(a, c) <=> wa > wc \/ (wa = wc /\ (ka < kc \/ (ka = kc /\ ia < ic)))
      /\ RowBefore(c, b) <=> wc > wb \/ (wc = wb /\ (kc < kb \/ (kc = kb /\ ic < ib)))
  BY <1>2 DEF RowBefore
<1> HIDE DEF wa, wb, wc, ka, kb, kc, ia, ib, ic
<1> QED
  BY <1>1, <1>3, <1>4

(* Sorted rows are the same rows, none before one that it comes after.      *)
LEMMA RowsSorted ==
    ASSUME NEW rows \in Seq(RowType)
    PROVE  /\ Sorted(rows, RowBefore) \in Seq(RowType)
           /\ Len(Sorted(rows, RowBefore)) = Len(rows)
           /\ Range(Sorted(rows, RowBefore)) = Range(rows)
           /\ \A i, j \in 1..Len(rows) : i < j =>
                 ~RowBefore(Sorted(rows, RowBefore)[j], Sorted(rows, RowBefore)[i])
<1> DEFINE D == DOMAIN rows
           before == {pair \in D \X D : RowBefore(rows[pair[1]], rows[pair[2]])}
           order == {pair \in D \X D :
                        \/ RowBefore(rows[pair[1]], rows[pair[2]])
                        \/ /\ pair[1] <= pair[2]
                           /\ ~RowBefore(rows[pair[2]], rows[pair[1]])}
           sorted == Sorted(rows, RowBefore)
<1>1. sorted = [i \in D |-> rows[Arranged(D, order)[i]]]
  BY DEF Sorted
<1>2. order = Stable(before, D)
  BY DEF Stable
<1>3. D = 1..Len(rows) /\ \A i \in D : rows[i] \in RowType
  OBVIOUS
<1>4. \A x, y \in D : <<x, y>> \in before <=> RowBefore(rows[x], rows[y])
  OBVIOUS
<1>5. \A x, y \in D : <<x, y>> \in order =>
         RowBefore(rows[x], rows[y]) \/ ~RowBefore(rows[y], rows[x])
  OBVIOUS
<1> HIDE DEF before, order, D
<1>6. Weak(before, D)
  BY <1>3, <1>4, RowsWeak DEF Weak
<1>7. Rearranged(rows, sorted, order)
  BY <1>1, <1>2, <1>6, SortedList DEF D
<1> HIDE DEF sorted
<1>8. /\ sorted \in Seq(RowType) /\ Len(sorted) = Len(rows)
      /\ Range(sorted) = Range(rows)
  BY <1>7, RearrangedKeeps
<1>9. PICK place \in [D -> D] :
         /\ \A i, j \in D : i < j => <<place[i], place[j]>> \in order
         /\ sorted = [i \in D |-> rows[place[i]]]
  BY <1>7 DEF Rearranged, D
<1>10. ASSUME NEW i \in D, NEW j \in D, i < j
       PROVE  ~RowBefore(sorted[j], sorted[i])
  <2>1. sorted[i] = rows[place[i]] /\ sorted[j] = rows[place[j]]
    BY <1>9
  <2>2. \/ RowBefore(rows[place[i]], rows[place[j]])
        \/ ~RowBefore(rows[place[j]], rows[place[i]])
    BY <1>5, <1>9, <1>10
  <2>3. rows[place[i]] \in RowType /\ rows[place[j]] \in RowType
    BY <1>3
  <2> QED
    BY <2>1, <2>2, <2>3, RowsWeak
<1> QED
  BY <1>3, <1>8, <1>10 DEF sorted

(* The rows of the objects of a kind.                                       *)
LEMMA RowsOfIs ==
    ASSUME NEW kind \in {"doc", "link", "node", "page"},
           NEW weights, IsFiniteSet(DOMAIN weights), DOMAIN weights \subseteq Nat,
           \A id \in DOMAIN weights : weights[id] \in Nat
    PROVE  RowsOf(kind, weights) \in Seq(RowType)
<1> DEFINE ids == Ids(weights)
           n == Cardinality(DOMAIN weights)
           R(i) == Row(kind, ids[i], weights[ids[i]])
<1>1. n \in Nat /\ ids \in [1..n -> DOMAIN weights] /\ DOMAIN ids = 1..n
  BY InOrderIs DEF Ids
<1>2. RowsOf(kind, weights) = [i \in 1..n |-> R(i)]
  BY <1>1 DEF RowsOf
<1> HIDE DEF ids, n
<1>3. ASSUME NEW i \in 1..n PROVE R(i) \in RowType
  <2>1. ids[i] \in DOMAIN weights
    BY <1>1
  <2>2. ids[i] \in Nat /\ weights[ids[i]] \in Nat
    BY <2>1
  <2> QED
    BY <2>2 DEF Row, RowType
<1> HIDE DEF R
<1> QED
  BY <1>1, <1>2, <1>3

(* The sizes of what the store holds.                                       *)
LEMMA SizesAre ==
    ASSUME HoldInv
    PROVE  /\ IsFiniteSet(DOMAIN documents) /\ DOMAIN documents \subseteq Nat
           /\ IsFiniteSet(DOMAIN pages) /\ DOMAIN pages \subseteq Nat
           /\ IsFiniteSet(DOMAIN nodes) /\ DOMAIN nodes \subseteq Nat
           /\ \A id \in DOMAIN documents :
                 SizeOf(documents[id].title) \in Nat /\ SizeOf(documents[id].body) \in Nat
           /\ \A id \in DOMAIN pages :
                 SizeOf(pages[id].bytes) \in Nat /\ pages[id].generation \in Nat
           /\ \A id \in DOMAIN nodes : nodes[id] \in Nat
<1>1. /\ \A text \in Titles \cup Bodies \cup PageBytes : SizeOf(text) \in Nat
      /\ DocIds \cup PageIds \cup NodeIds \cup Values \subseteq Nat
  BY SourceConstants
<1>2. /\ Table(documents, DocIds, Document)
      /\ Table(pages, PageIds, Page(epoch))
      /\ Table(nodes, NodeIds, Values)
  BY DEF HoldInv, Held
<1>3. /\ IsFiniteSet(DOMAIN documents) /\ DOMAIN documents \subseteq Nat
      /\ IsFiniteSet(DOMAIN pages) /\ DOMAIN pages \subseteq Nat
      /\ IsFiniteSet(DOMAIN nodes) /\ DOMAIN nodes \subseteq Nat
  BY <1>1, <1>2 DEF Table
<1>4. ASSUME NEW id \in DOMAIN documents
      PROVE  SizeOf(documents[id].title) \in Nat /\ SizeOf(documents[id].body) \in Nat
  <2>1. documents[id] \in Document
    BY <1>2 DEF Table
  <2>2. documents[id].title \in Titles /\ documents[id].body \in Bodies
    BY <2>1 DEF Document
  <2> QED
    BY <1>1, <2>2
<1>5. ASSUME NEW id \in DOMAIN pages
      PROVE  SizeOf(pages[id].bytes) \in Nat /\ pages[id].generation \in Nat
  <2>1. pages[id] \in Page(epoch)
    BY <1>2 DEF Table
  <2>2. pages[id].bytes \in PageBytes /\ pages[id].generation \in 0..epoch
    BY <2>1 DEF Page
  <2> QED
    BY <1>1, <2>2
<1>6. \A id \in DOMAIN nodes : nodes[id] \in Nat
  BY <1>1, <1>2 DEF Table
<1> QED
  BY <1>3, <1>4, <1>5, <1>6

(* What is listed are rows.                                                 *)
LEMMA RowsAre ==
    ASSUME HoldInv, LinkInv
    PROVE  /\ DocRows \in Seq(RowType) /\ PageRows \in Seq(RowType)
           /\ LinkRows \in Seq(RowType) /\ NodeRows \in Seq(RowType)
<1> DEFINE D == [id \in DOMAIN documents |->
                    SizeOf(documents[id].title) + SizeOf(documents[id].body)]
           P == [id \in DOMAIN pages |-> SizeOf(pages[id].bytes) + pages[id].generation]
<1>1. /\ DOMAIN D = DOMAIN documents /\ \A id \in DOMAIN documents : D[id] \in Nat
      /\ DOMAIN P = DOMAIN pages /\ \A id \in DOMAIN pages : P[id] \in Nat
  BY SizesAre
<1>2. DocRows = RowsOf("doc", D) /\ PageRows = RowsOf("page", P)
  BY DEF DocRows, PageRows
<1> HIDE DEF D, P
<1>3. DocRows \in Seq(RowType) /\ PageRows \in Seq(RowType)
  BY <1>1, <1>2, SizesAre, RowsOfIs
<1>4. NodeRows \in Seq(RowType)
  BY SizesAre, RowsOfIs DEF NodeRows
<1>5. LinkRows \in Seq(RowType)
  <2>1. Len(links) \in Nat /\ DOMAIN links = 1..Len(links)
        /\ \A i \in 1..Len(links) : links[i] \in Nat
    BY DEF LinkInv
  <2>2. ASSUME NEW i \in 1..Len(links) PROVE LinkRows[i] \in RowType
    <3> DEFINE l == links[i]
    <3>1. l \in Nat /\ LinkRows[i] = Row("link", l, l * 3)
      BY <2>1 DEF LinkRows
    <3> HIDE DEF l
    <3>2. l * 3 \in Nat
      BY <3>1
    <3> QED
      BY <3>1, <3>2 DEF Row, RowType
  <2>3. LinkRows = [i \in 1..Len(links) |-> LinkRows[i]]
    BY <2>1 DEF LinkRows
  <2> QED
    BY <2>1, <2>2, <2>3
<1> QED
  BY <1>3, <1>4, <1>5

-----------------------------------------------------------------------------
(* Samples.                                                                 *)

SampleInv ==
    /\ sample = [rows |-> sample.rows, folds |-> sample.folds, limit |-> sample.limit]
    /\ sampled \in Seq(RowType)
    /\ sample.limit \in Nat
    /\ sample.rows = Heaviest(sampled, sample.limit)
    /\ sample.folds = <<>> \/ sample.folds = [i \in DOMAIN sample.rows |->
                                                 sample.rows[i].weight]

(* The heaviest rows are some of the rows, as many as asked for, and no     *)
(* lighter than the others.                                                 *)
LEMMA HeaviestIs ==
    ASSUME NEW rows \in Seq(RowType), NEW limit \in Nat
    PROVE  /\ Heaviest(rows, limit) \in Seq(RowType)
           /\ Len(Heaviest(rows, limit)) = IF Len(rows) < limit THEN Len(rows) ELSE limit
           /\ Range(Heaviest(rows, limit)) \subseteq Range(rows)
           /\ \A r \in Range(Heaviest(rows, limit)),
                 left \in Range(rows) \ Range(Heaviest(rows, limit)) :
                    r.weight >= left.weight
<1> DEFINE sorted == Sorted(rows, RowBefore)
           n == Len(rows)
           h == Heaviest(rows, limit)
           m == IF n < limit THEN n ELSE limit
<1>1. /\ sorted \in Seq(RowType) /\ Len(sorted) = n /\ Range(sorted) = Range(rows)
      /\ \A i, j \in 1..n : i < j => ~RowBefore(sorted[j], sorted[i])
  BY RowsSorted
<1>2. h = IF Len(sorted) > limit THEN SubSeq(sorted, 1, limit) ELSE sorted
  BY DEF Heaviest
<1>3. n \in Nat
  OBVIOUS
<1> HIDE DEF sorted, h, n
<1>4. m \in Nat /\ m <= n
  BY <1>3
<1>5. /\ h \in Seq(RowType) /\ Len(h) = m /\ DOMAIN h = 1..m
      /\ \A i \in 1..m : h[i] = sorted[i]
  <2>1. CASE n > limit
    <3>1. h = SubSeq(sorted, 1, limit) /\ m = limit
      BY <1>1, <1>2, <1>3, <2>1
    <3> QED
      BY <1>1, <1>3, <2>1, <3>1
  <2>2. CASE ~(n > limit)
    <3>1. h = sorted /\ m = n
      BY <1>1, <1>2, <1>3, <2>2
    <3> QED
      BY <1>1, <1>3, <3>1
  <2> QED
    BY <2>1, <2>2
<1> HIDE DEF m
<1>6. DOMAIN sorted = 1..n
  BY <1>1, <1>3
<1>7. Range(h) \subseteq Range(rows)
  <2>1. \A i \in 1..m : h[i] \in Range(sorted)
    BY <1>3, <1>4, <1>5, <1>6 DEF Range
  <2>2. Range(h) \subseteq Range(sorted)
    BY <1>5, <2>1 DEF Range
  <2> QED
    BY <1>1, <2>2
<1>8. ASSUME NEW r \in Range(h), NEW left \in Range(rows) \ Range(h)
      PROVE  r.weight >= left.weight
  <2>1. PICK i \in 1..m : r = sorted[i] /\ r = h[i]
    BY <1>5 DEF Range
  <2>2. PICK j \in 1..n : left = sorted[j]
    BY <1>1, <1>6 DEF Range
  <2>3. j \notin 1..m
    <3>1. ASSUME j \in 1..m PROVE FALSE
      <4>1. h[j] = left /\ j \in DOMAIN h
        BY <1>5, <2>2, <3>1
      <4> QED
        BY <4>1 DEF Range
    <3> QED
      BY <3>1
  <2>4. i < j /\ i \in 1..n
    BY <1>3, <1>4, <2>3
  <2>5. ~RowBefore(left, r)
    BY <1>1, <2>1, <2>2, <2>4
  <2>6. r \in RowType /\ left \in RowType
    <3>1. \A k \in 1..n : sorted[k] \in RowType
      BY <1>1, <1>6
    <3> QED
      BY <2>1, <2>2, <2>4, <3>1
  <2>7. r.weight \in Nat /\ left.weight \in Nat
    BY <2>6 DEF RowType
  <2>8. ~(left.weight > r.weight)
    BY <2>5 DEF RowBefore
  <2> QED
    BY <2>7, <2>8
<1> QED
  BY <1>5, <1>7, <1>8 DEF h, m, n

(* A sample agrees with what it was chosen from.                            *)
LEMMA SampleTells ==
    SampleInv => SampleAgrees
<1> SUFFICES ASSUME SampleInv PROVE SampleAgrees
  OBVIOUS
<1> DEFINE h == sample.rows
           k == sample.limit
<1>1. sampled \in Seq(RowType) /\ k \in Nat /\ h = Heaviest(sampled, k)
  BY DEF SampleInv
<1>2. sample.folds = <<>> \/ sample.folds = [i \in DOMAIN h |-> h[i].weight]
  BY DEF SampleInv
<1> HIDE DEF h, k
<1>3. /\ Len(h) = IF Len(sampled) < k THEN Len(sampled) ELSE k
      /\ Range(h) \subseteq Range(sampled)
      /\ \A r \in Range(h), left \in Range(sampled) \ Range(h) : r.weight >= left.weight
  BY <1>1, HeaviestIs
<1>4. sample.folds # <<>> => /\ DOMAIN sample.folds = DOMAIN h
                             /\ \A i \in DOMAIN h : sample.folds[i] = h[i].weight
  BY <1>2
<1> QED
  BY <1>3, <1>4 DEF SampleAgrees, h, k

(* There is nothing of nothing.                                             *)
LEMMA HeaviestOfNone ==
    ASSUME NEW limit \in Nat
    PROVE  Heaviest(<<>>, limit) = <<>>
<1>1. <<>> \in Seq(RowType) /\ Len(<<>>) = 0
  OBVIOUS
<1> DEFINE none == <<>>
           h == Heaviest(none, limit)
           m == IF Len(none) < limit THEN Len(none) ELSE limit
<1> HIDE DEF none
<1>2. none \in Seq(RowType) /\ Len(none) = 0
  BY <1>1 DEF none
<1>3. h \in Seq(RowType) /\ Len(h) = m
  BY <1>2, HeaviestIs
<1>4. m = 0
  BY <1>2
<1> HIDE DEF h, m
<1>5. h = <<>>
  BY <1>3, <1>4
<1> QED
  BY <1>5 DEF h, none

(* There is no sample at first.                                             *)
LEMMA SampleStart ==
    SampleInit => SampleInv
<1> SUFFICES ASSUME SampleInit PROVE SampleInv
  OBVIOUS
<1>1. sample = [rows |-> <<>>, folds |-> <<>>, limit |-> 0] /\ sampled = <<>>
  BY DEF SampleInit
<1>2. <<>> \in Seq(RowType) /\ 0 \in Nat /\ <<>> = Heaviest(<<>>, 0)
  BY HeaviestOfNone
<1>3. sample.rows = <<>> /\ sample.folds = <<>> /\ sample.limit = 0
  BY <1>1
<1> QED
  BY <1>1, <1>2, <1>3 DEF SampleInv

(* SAMPLE takes new rows and no folds, FOLD the weights of the rows.        *)
LEMMA SampleStep ==
    HoldInv /\ LinkInv /\ SampleInv /\ SampleNext => SampleInv'
<1> SUFFICES ASSUME HoldInv, LinkInv, SampleInv, SampleNext PROVE SampleInv'
  OBVIOUS
<1>1. ASSUME NEW scope, NEW limit, SampleScope(scope, limit) PROVE SampleInv'
  <2>1. CASE status' = "limit"
    BY <1>1, <2>1 DEF SampleScope, SampleInv, sampleVars
  <2>2. CASE status' # "limit"
    <3>1. limit \in Nat
      <4>1. limit \in 1..SampleMax
        BY <1>1, <2>2 DEF SampleScope, SampleCheck
      <4> QED
        BY <4>1, SampleConstants
    <3>2. sampled' \in Seq(RowType)
      <4>1. CASE status' = "ok"
        <5>1. scope \in SampleScopes /\ sampled' = RowsSampled(scope)
          BY <1>1, <4>1 DEF SampleScope, SampleCheck
        <5>2. /\ DocRows \in Seq(RowType) /\ PageRows \in Seq(RowType)
              /\ NodeRows \in Seq(RowType)
          BY RowsAre
        <5>3. (DocRows \o PageRows) \o NodeRows \in Seq(RowType)
          BY <5>2, CatHolds
        <5> QED
          BY <5>1, <5>2, <5>3 DEF RowsSampled, SampleScopes
      <4>2. CASE status' # "ok"
        <5>1. sampled' = <<>>
          BY <1>1, <2>2, <4>2 DEF SampleScope
        <5> QED
          BY <5>1
      <4> QED
        BY <4>1, <4>2
    <3> DEFINE h == Heaviest(sampled', limit)
    <3>3. sample' = [rows |-> h, folds |-> <<>>, limit |-> limit]
      BY <1>1, <2>2 DEF SampleScope
    <3> HIDE DEF h
    <3>4. sample'.rows = h /\ sample'.folds = <<>> /\ sample'.limit = limit
      BY <3>3
    <3> QED
      BY <3>1, <3>2, <3>3, <3>4 DEF SampleInv, h
  <2> QED
    BY <2>1, <2>2
<1>2. ASSUME FoldSample PROVE SampleInv'
  <2> DEFINE r == sample.rows
             f == sample.folds
             k == sample.limit
             w == [i \in DOMAIN r |-> r[i].weight]
  <2>1. sample = [rows |-> r, folds |-> f, limit |-> k] /\ sampled' = sampled
    BY <1>2 DEF SampleInv, FoldSample
  <2>2. sample' = [sample EXCEPT !.folds = w] \/ sample' = sample
    BY <1>2 DEF FoldSample
  <2>3. f = <<>> \/ f = w
    BY DEF SampleInv
  <2>4. r = Heaviest(sampled, k) /\ k \in Nat /\ sampled \in Seq(RowType)
    BY DEF SampleInv
  <2> HIDE DEF r, f, k, w
  <2>5. sample' = [rows |-> r, folds |-> w, limit |-> k] \/ sample' = sample
    BY <2>1, <2>2
  <2>6. /\ sample'.rows = r /\ sample'.limit = k /\ sample'.folds \in {f, w}
        /\ sample' = [rows |-> r, folds |-> sample'.folds, limit |-> k]
    BY <2>1, <2>5
  <2>7. sample'.folds = <<>> \/ sample'.folds = w
    BY <2>3, <2>6
  <2> QED
    BY <2>1, <2>4, <2>6, <2>7 DEF SampleInv, w
<1> QED
  BY <1>1, <1>2 DEF SampleNext

-----------------------------------------------------------------------------
(* Metrics.                                                                 *)

(* A total of which one number only is not zero.                            *)
LEMMA TotalOfOne ==
    ASSUME NEW n \in Nat, NEW s \in [1..n -> Nat], NEW k \in 1..n,
           \A i \in 1..n : i # k => s[i] = 0
    PROVE  Total(s) = s[k]
<1> DEFINE f == Sums(s)
           x == s[k]
           T == {i \in 0..n : f[i] = IF i < k THEN 0 ELSE x}
<1>1. s \in Seq(Nat) /\ Len(s) = n
  OBVIOUS
<1>2. /\ Total(s) = f[n] /\ f[0] = 0
      /\ \A i \in 1..n : f[i] = f[i - 1] + s[i]
  BY <1>1, SumsAre
<1> HIDE DEF f
<1>3. x \in Nat /\ s[k] = x
  OBVIOUS
<1> HIDE DEF x
<1>4. 0 \in T
  BY <1>2
<1>5. ASSUME NEW i \in 1..n, i - 1 \in T PROVE i \in T
  <2>1. f[i - 1] = IF i - 1 < k THEN 0 ELSE x
    BY <1>5
  <2>2. f[i] = f[i - 1] + s[i]
    BY <1>2
  <2>3. CASE i < k
    <3>1. s[i] = 0 /\ f[i - 1] = 0
      BY <2>1, <2>3
    <3> QED
      BY <2>2, <2>3, <3>1
  <2>4. CASE i = k
    <3>1. s[i] = x /\ f[i - 1] = 0
      BY <1>3, <2>1, <2>4
    <3> QED
      BY <1>3, <2>2, <2>4, <3>1
  <2>5. CASE i > k
    <3>1. s[i] = 0 /\ f[i - 1] = x
      BY <2>1, <2>5
    <3> QED
      BY <1>3, <2>2, <2>5, <3>1
  <2> QED
    BY <2>3, <2>4, <2>5
<1>6. \A i \in 0..n : i \in T
  <2> HIDE DEF T
  <2> QED
    BY <1>4, <1>5, Induct
<1> QED
  BY <1>2, <1>3, <1>6

(* The total of the same number, so many times.                             *)
LEMMA TotalOfSame ==
    ASSUME NEW n \in Nat, NEW x \in Nat, NEW s \in [1..n -> Nat],
           \A i \in 1..n : s[i] = x
    PROVE  Total(s) = x * n
<1> DEFINE f == Sums(s)
           T == {i \in 0..n : f[i] = x * i}
<1>1. s \in Seq(Nat) /\ Len(s) = n
  OBVIOUS
<1>2. /\ Total(s) = f[n] /\ f[0] = 0
      /\ \A i \in 1..n : f[i] = f[i - 1] + s[i]
  BY <1>1, SumsAre
<1> HIDE DEF f
<1>3. 0 \in T
  BY <1>2
<1>4. ASSUME NEW i \in 1..n, i - 1 \in T PROVE i \in T
  <2>1. f[i] = x * (i - 1) + x
    BY <1>2, <1>4
  <2>2. x * (i - 1) + x = x * i
    OBVIOUS
  <2> QED
    BY <2>1, <2>2
<1>5. \A i \in 0..n : i \in T
  <2> HIDE DEF T
  <2> QED
    BY <1>3, <1>4, Induct
<1> QED
  BY <1>2, <1>5

\* Each number is in one row of a table and in one only.
Spread(line, m, v, n) ==
    /\ \A i \in 1..m : line[i] \in [1..n -> Nat]
    /\ \A k \in 1..n : \E i \in 1..m :
          /\ line[i][k] = v[k]
          /\ \A j \in 1..m : j # i => line[j][k] = 0

(* The totals of the rows then add up to that of the numbers.               *)
LEMMA RowsAddUp ==
    ASSUME NEW m \in Nat, NEW n \in Nat, NEW line, NEW v \in [1..n -> Nat],
           Spread(line, m, v, n)
    PROVE  Total([i \in 1..m |-> Total(line[i])]) = Total(v)
<1> USE DEF Spread
<1> DEFINE f(i) == Sums(line[i])
           g == Sums(v)
           Col(k) == [i \in 1..m |-> f(i)[k]]
           Good(k) == Col(k) \in [1..m -> Nat] /\ Total(Col(k)) = g[k]
           T == {k \in 0..n : Good(k)}
<1>1. v \in Seq(Nat) /\ Len(v) = n
  OBVIOUS
<1>2. /\ Total(v) = g[n] /\ g[0] = 0
      /\ \A k \in 1..n : g[k] = g[k - 1] + v[k]
  BY <1>1, SumsAre
<1>3. ASSUME NEW i \in 1..m
      PROVE  /\ Total(line[i]) = f(i)[n] /\ f(i)[0] = 0
             /\ \A k \in 1..n : /\ f(i)[k - 1] \in Nat
                                /\ f(i)[k] = f(i)[k - 1] + line[i][k]
                                /\ f(i)[k] \in Nat
  <2> DEFINE s == line[i]
  <2>1. s \in Seq(Nat) /\ Len(s) = n
    OBVIOUS
  <2> HIDE DEF s
  <2>2. /\ Total(s) = Sums(s)[n] /\ Sums(s)[0] = 0
        /\ \A k \in 1..n : /\ Sums(s)[k - 1] \in Nat
                           /\ Sums(s)[k] = Sums(s)[k - 1] + s[k]
                           /\ Sums(s)[k] \in Nat
    BY <2>1, SumsAre
  <2> QED
    BY <2>2 DEF s
<1> HIDE DEF f, g
<1>4. [i \in 1..m |-> Total(line[i])] = Col(n)
  BY <1>3
<1>5. 0 \in T
  <2> DEFINE zero == Col(0)
  <2>1. zero \in [1..m -> Nat] /\ \A i \in 1..m : zero[i] = 0
    BY <1>3
  <2> HIDE DEF zero
  <2>2. Total(zero) = 0 * m
    BY <2>1, TotalOfSame
  <2>3. Total(zero) = 0
    BY <2>2
  <2> QED
    BY <1>2, <2>1, <2>3 DEF zero
<1>6. ASSUME NEW k \in 1..n, k - 1 \in T PROVE k \in T
  <2> DEFINE s == Col(k - 1)
             t == [i \in 1..m |-> line[i][k]]
             u == Col(k)
  <2>1. s \in [1..m -> Nat] /\ Total(s) = g[k - 1]
    BY <1>6
  <2>2. t \in [1..m -> Nat]
    OBVIOUS
  <2>3. u \in [1..m -> Nat] /\ \A i \in 1..m : u[i] = s[i] + t[i]
    BY <1>3
  <2>4. Total(t) = v[k]
    <3>1. PICK i \in 1..m : line[i][k] = v[k] /\ \A j \in 1..m : j # i => line[j][k] = 0
      OBVIOUS
    <3>2. t[i] = v[k] /\ \A j \in 1..m : j # i => t[j] = 0
      BY <3>1
    <3> HIDE DEF t
    <3> QED
      BY <2>2, <3>2, TotalOfOne
  <2> HIDE DEF s, t, u
  <2>5. Total(u) = Total(s) + Total(t)
    BY <2>1, <2>2, <2>3, TotalAdds
  <2>6. Total(u) = g[k]
    BY <1>2, <2>1, <2>4, <2>5
  <2> QED
    BY <2>3, <2>6 DEF u
<1>7. \A k \in 0..n : k \in T
  <2> HIDE DEF T
  <2> QED
    BY <1>5, <1>6, Induct
<1>8. Good(n)
  <2> HIDE DEF Good
  <2>1. n \in T
    BY <1>7
  <2> QED
    BY <2>1
<1> DEFINE totals == [i \in 1..m |-> Total(line[i])]
<1>9. totals = Col(n)
  BY <1>4
<1> HIDE DEF Col, totals
<1>10. Total(totals) = Total(v)
  BY <1>2, <1>8, <1>9
<1> QED
  BY <1>10 DEF totals

(* A division.                                                              *)
LEMMA DivIs ==
    ASSUME NEW x \in Nat, NEW w \in Nat \ {0}
    PROVE  /\ x \div w \in Nat
           /\ (x \div w) * w <= x
           /\ x < (x \div w) * w + w
<1>1. x \div w \in Nat
  OBVIOUS
<1>2. (x \div w) * w <= x
  OBVIOUS
<1>3. x < (x \div w) * w + w
  OBVIOUS
<1> QED
  BY <1>1, <1>2, <1>3

(* Of some multiples, that less than another has the smaller factor.        *)
LEMMA Factors ==
    ASSUME NEW a \in Nat, NEW b \in Nat, NEW w \in Nat, a * w < b * w
    PROVE  a < b
<1>1. CASE a < b
  BY <1>1
<1>2. CASE b <= a
  <2>1. b * w <= a * w
    BY <1>2
  <2>2. a * w \in Nat /\ b * w \in Nat
    OBVIOUS
  <2> QED
    BY <2>1, <2>2
<1> QED
  BY <1>1, <1>2

\* How many buckets there are up to a number.
Count(high) == Min({16, ((high + Width(high)) \div Width(high)) + 1})

(* A number up to the greatest is in one bucket and in one only.            *)
LEMMA OneBucket ==
    ASSUME NEW high \in Nat, NEW x \in 0..high
    PROVE  /\ Width(high) \in Nat \ {0}
           /\ Count(high) \in Nat
           /\ \E i \in 1..Count(high) :
                 /\ InBucket(x, (i - 1) * Width(high), Width(high))
                 /\ \A j \in 1..Count(high) :
                       InBucket(x, (j - 1) * Width(high), Width(high)) => j = i
<1> DEFINE w == Width(high)
           e == high \div 8
           q == x \div w
           r == (high + w) \div w
           c == Count(high)
<1>1. w = e + 1 /\ e \in Nat
  <2>1. e \in Nat
    BY DivIs
  <2> HIDE DEF e
  <2> DEFINE S == {1, e + 1}
  <2>2. w = Max(S)
    BY DEF Width, e
  <2>3. S \in SUBSET (0..(e + 1)) /\ S # {} /\ e + 1 \in Nat
    BY <2>1
  <2>4. Max(S) \in S /\ \A y \in S : Max(S) >= y
    <3> HIDE DEF S
    <3> QED
      BY <2>3, MaxOfSome
  <2> HIDE DEF w
  <2>5. Max(S) = e + 1
    BY <2>1, <2>4
  <2> QED
    BY <2>1, <2>2, <2>5
<1>2. w \in Nat \ {0} /\ high < w * 8
  <2>1. high < e * 8 + 8
    BY DivIs
  <2> HIDE DEF e, w
  <2> QED
    BY <1>1, <2>1
<1>3. c = Min({16, r + 1})
  BY DEF Count
<1> HIDE DEF w, e, c
<1>4. x \in Nat /\ x <= high
  OBVIOUS
<1>5. q \in Nat /\ q * w <= x /\ x < q * w + w
  BY <1>2, <1>4, DivIs
<1>6. r \in Nat /\ high + w < r * w + w
  BY <1>2, DivIs
<1> HIDE DEF q, r
<1>7. q < 8
  <2>1. q * w < 8 * w
    BY <1>2, <1>4, <1>5
  <2> QED
    BY <1>2, <1>5, <2>1, Factors
<1>8. q < r + 1
  <2>1. (r + 1) * w = r * w + w
    BY <1>2, <1>6
  <2>2. q * w < (r + 1) * w
    BY <1>2, <1>4, <1>5, <1>6, <2>1
  <2> QED
    BY <1>2, <1>5, <1>6, <2>2, Factors
<1>9. c \in Nat /\ q < c
  <2> DEFINE S == {16, r + 1}
  <2>1. S \in SUBSET Nat /\ S # {}
    BY <1>6
  <2>2. Min(S) \in S
    <3> HIDE DEF S
    <3> QED
      BY <2>1, MinOfSome
  <2>3. c = 16 \/ c = r + 1
    BY <1>3, <2>2
  <2> QED
    BY <1>5, <1>6, <1>7, <1>8, <2>3
<1>10. q + 1 \in 1..c /\ InBucket(x, ((q + 1) - 1) * w, w)
  <2>1. (q + 1) - 1 = q /\ q + 1 \in 1..c
    BY <1>5, <1>9
  <2>2. q * w <= x /\ x <= q * w + w - 1
    BY <1>2, <1>4, <1>5
  <2> QED
    BY <2>1, <2>2 DEF InBucket
<1>11. ASSUME NEW j \in 1..c, InBucket(x, (j - 1) * w, w)
       PROVE  j = q + 1
  <2> DEFINE k == j - 1
  <2>1. k \in Nat /\ j = k + 1
    BY <1>9
  <2>2. k * w <= x /\ x <= k * w + w - 1
    BY <1>11 DEF InBucket
  <2> HIDE DEF k
  <2>3. (k + 1) * w = k * w + w /\ (q + 1) * w = q * w + w
    BY <1>2, <1>5, <2>1
  <2>4. k * w < (q + 1) * w /\ q * w < (k + 1) * w
    BY <1>2, <1>4, <1>5, <2>1, <2>2, <2>3
  <2>5. k < q + 1 /\ q < k + 1
    BY <1>2, <1>5, <2>1, <2>4, Factors
  <2> QED
    BY <1>5, <2>1, <2>5
<1> QED
  BY <1>2, <1>9, <1>10, <1>11 DEF w, c

(* The buckets of some numbers count each of them once, and their weights   *)
(* are those of the numbers.                                                *)
LEMMA BucketsAddUp ==
    ASSUME NEW n \in Nat, NEW samples \in [1..n -> Nat], NEW buckets,
           buckets = BucketsOf(samples),
           NEW high \in Nat, high = Max(Range(samples)),
           \A k \in 1..n : samples[k] <= high
    PROVE  /\ Total([i \in DOMAIN buckets |-> buckets[i].count]) = n
           /\ Total([i \in DOMAIN buckets |-> buckets[i].weight]) = Total(samples)
<1> DEFINE w == Width(high)
           c == Count(high)
           In(i, k) == InBucket(samples[k], (i - 1) * w, w)
           Ones(i) == [k \in 1..n |-> IF In(i, k) THEN 1 ELSE 0]
           Them(i) == [k \in 1..n |-> IF In(i, k) THEN samples[k] ELSE 0]
           ones == [i \in 1..c |-> Ones(i)]
           them == [i \in 1..c |-> Them(i)]
           one == [k \in 1..n |-> 1]
<1>1. buckets = [i \in 1..c |-> Bucket(samples, (i - 1) * w, w)]
  BY DEF BucketsOf, Count
<1>2. DOMAIN samples = 1..n
  OBVIOUS
<1>3. ASSUME NEW i \in 1..c
      PROVE  buckets[i].count = Total(ones[i]) /\ buckets[i].weight = Total(them[i])
  <2>1. buckets[i] = Bucket(samples, (i - 1) * w, w)
    <3> HIDE DEF c, w
    <3> QED
      BY <1>1
  <2>2. /\ Bucket(samples, (i - 1) * w, w).count = Total(Ones(i))
        /\ Bucket(samples, (i - 1) * w, w).weight = Total(Them(i))
    <3> HIDE DEF w
    <3> QED
      BY <1>2 DEF Bucket
  <2>3. ones[i] = Ones(i) /\ them[i] = Them(i)
    <3> HIDE DEF c, Ones, Them
    <3> QED
      OBVIOUS
  <2> HIDE DEF Ones, Them, ones, them
  <2> QED
    BY <2>1, <2>2, <2>3
<1>4. DOMAIN buckets = 1..c
  <2> HIDE DEF c, w
  <2> QED
    BY <1>1
<1>5. ASSUME NEW k \in 1..n
      PROVE  /\ c \in Nat
             /\ \E i \in 1..c : In(i, k) /\ \A j \in 1..c : In(j, k) => j = i
  <2>1. samples[k] \in 0..high
    OBVIOUS
  <2> QED
    BY <2>1, OneBucket
<1>6. c \in Nat
  <2>1. 0 \in 0..high
    OBVIOUS
  <2> QED
    BY <2>1, OneBucket
<1> HIDE DEF w, c, In
<1>7. \A i \in 1..c : ones[i] \in [1..n -> Nat] /\ them[i] \in [1..n -> Nat]
  OBVIOUS
<1>8. ASSUME NEW k \in 1..n
      PROVE  /\ \E i \in 1..c :
                   /\ ones[i][k] = one[k]
                   /\ \A j \in 1..c : j # i => ones[j][k] = 0
             /\ \E i \in 1..c :
                   /\ them[i][k] = samples[k]
                   /\ \A j \in 1..c : j # i => them[j][k] = 0
  <2>1. PICK i \in 1..c : In(i, k) /\ \A j \in 1..c : In(j, k) => j = i
    BY <1>5
  <2>2. \A j \in 1..c : /\ ones[j][k] = IF In(j, k) THEN 1 ELSE 0
                        /\ them[j][k] = IF In(j, k) THEN samples[k] ELSE 0
    OBVIOUS
  <2>3. one[k] = 1
    OBVIOUS
  <2> HIDE DEF ones, them, one
  <2> QED
    BY <2>1, <2>2, <2>3
<1>9. one \in [1..n -> Nat] /\ \A k \in 1..n : one[k] = 1
  OBVIOUS
<1> HIDE DEF ones, them, one
<1>10. Total([i \in 1..c |-> Total(ones[i])]) = Total(one)
  <2>1. \A i \in 1..c : ones[i] \in [1..n -> Nat]
    BY <1>7
  <2>2. \A k \in 1..n : \E i \in 1..c :
           ones[i][k] = one[k] /\ \A j \in 1..c : j # i => ones[j][k] = 0
    BY <1>8
  <2>3. Spread(ones, c, one, n)
    BY <2>1, <2>2 DEF Spread
  <2>4. one \in [1..n -> Nat]
    BY <1>9
  <2> QED
    BY <1>6, <2>3, <2>4, RowsAddUp
<1>11. Total([i \in 1..c |-> Total(them[i])]) = Total(samples)
  <2>1. \A i \in 1..c : them[i] \in [1..n -> Nat]
    BY <1>7
  <2>2. \A k \in 1..n : \E i \in 1..c :
           them[i][k] = samples[k] /\ \A j \in 1..c : j # i => them[j][k] = 0
    BY <1>8
  <2>3. Spread(them, c, samples, n)
    BY <2>1, <2>2 DEF Spread
  <2> QED
    BY <1>6, <2>3, RowsAddUp
<1>12. Total(one) = n
  <2>1. Total(one) = 1 * n
    BY <1>9, TotalOfSame
  <2> QED
    BY <2>1
<1>13. /\ [i \in DOMAIN buckets |-> buckets[i].count] = [i \in 1..c |-> Total(ones[i])]
       /\ [i \in DOMAIN buckets |-> buckets[i].weight] = [i \in 1..c |-> Total(them[i])]
  BY <1>3, <1>4
<1> QED
  BY <1>10, <1>11, <1>12, <1>13

(* Numbers, sorted, are the same numbers, the smaller ones first.           *)
LEMMA NumbersSorted ==
    ASSUME NEW list \in Seq(Nat)
    PROVE  /\ Sorted(list, <) \in Seq(Nat)
           /\ Len(Sorted(list, <)) = Len(list)
           /\ \A i, j \in 1..Len(list) : i < j => Sorted(list, <)[i] <= Sorted(list, <)[j]
<1> DEFINE D == DOMAIN list
           before == {pair \in D \X D : list[pair[1]] < list[pair[2]]}
           order == {pair \in D \X D :
                        \/ list[pair[1]] < list[pair[2]]
                        \/ /\ pair[1] <= pair[2]
                           /\ ~(list[pair[2]] < list[pair[1]])}
           sorted == Sorted(list, <)
<1>1. sorted = [i \in D |-> list[Arranged(D, order)[i]]]
  BY DEF Sorted
<1>2. order = Stable(before, D)
  BY DEF Stable
<1>3. D = 1..Len(list) /\ \A i \in D : list[i] \in Nat
  OBVIOUS
<1>4. \A x, y \in D : <<x, y>> \in before <=> list[x] < list[y]
  OBVIOUS
<1>5. \A x, y \in D : <<x, y>> \in order => list[x] <= list[y]
  <2>1. \A x, y \in D : <<x, y>> \in order =>
           list[x] < list[y] \/ ~(list[y] < list[x])
    OBVIOUS
  <2> HIDE DEF order, D
  <2> QED
    BY <1>3, <2>1
<1> HIDE DEF before, order, D
<1>6. Weak(before, D)
  <2>1. \A x, y \in D : list[x] < list[y] => ~(list[y] < list[x])
    BY <1>3
  <2>2. \A x, y, z \in D : list[x] < list[y] => list[x] < list[z] \/ list[z] < list[y]
    BY <1>3
  <2> QED
    BY <1>4, <2>1, <2>2 DEF Weak
<1>7. Rearranged(list, sorted, order)
  BY <1>1, <1>2, <1>6, SortedList DEF D
<1> HIDE DEF sorted
<1>8. sorted \in Seq(Nat) /\ Len(sorted) = Len(list)
  BY <1>7, RearrangedKeeps
<1>9. PICK place \in [D -> D] :
         /\ \A i, j \in D : i < j => <<place[i], place[j]>> \in order
         /\ sorted = [i \in D |-> list[place[i]]]
  BY <1>7 DEF Rearranged, D
<1>10. ASSUME NEW i \in D, NEW j \in D, i < j
       PROVE  sorted[i] <= sorted[j]
  <2>1. sorted[i] = list[place[i]] /\ sorted[j] = list[place[j]]
    BY <1>9
  <2>2. list[place[i]] <= list[place[j]]
    BY <1>5, <1>9, <1>10
  <2> QED
    BY <2>1, <2>2
<1> QED
  BY <1>3, <1>8, <1>10 DEF sorted

MetricsInv ==
    /\ metrics = [scope |-> metrics.scope, samples |-> metrics.samples,
                  buckets |-> metrics.buckets, minimum |-> metrics.minimum,
                  maximum |-> metrics.maximum, average |-> metrics.average,
                  collected |-> metrics.collected]
    /\ measured \in Seq(Nat)
    /\ \A i, j \in 1..Len(measured) : i < j => measured[i] <= measured[j]
    /\ metrics.samples \in {<<>>, measured}
    /\ metrics.collected =>
          /\ measured # <<>>
          /\ metrics.buckets = BucketsOf(measured)
          /\ metrics.minimum = Head(measured)
          /\ metrics.maximum = Last(measured)
          /\ metrics.average = Total(measured) \div Len(measured)
    /\ ~metrics.collected => measured = <<>> /\ metrics.buckets = <<>>

(* The average of some numbers is between the least and the greatest.       *)
LEMMA AverageIs ==
    ASSUME NEW n \in Nat \ {0}, NEW s \in [1..n -> Nat], NEW low \in Nat, NEW high \in Nat,
           \A i \in 1..n : low <= s[i] /\ s[i] <= high
    PROVE  Total(s) \div n \in low..high
<1> DEFINE lows == [i \in 1..n |-> low]
           ones == [i \in 1..n |-> 1]
           t == Total(s)
           q == t \div n
<1>1. lows \in [1..n -> Nat] /\ (\A i \in 1..n : lows[i] = low)
  OBVIOUS
<1>2. ones \in [1..n -> Nat] /\ (\A i \in 1..n : ones[i] = 1)
  OBVIOUS
<1> HIDE DEF lows, ones
<1>3. Total(lows) = low * n /\ Total(ones) = 1 * n
  BY <1>1, <1>2, TotalOfSame
<1>4. Total(lows) <= 1 * t
  <2>1. \A i \in 1..n : lows[i] <= 1 * s[i]
    BY <1>1
  <2> QED
    BY <1>1, <2>1, TotalAtMost
<1>5. t <= high * Total(ones)
  <2>1. \A i \in 1..n : s[i] <= high * ones[i]
    BY <1>2
  <2> QED
    BY <1>2, <2>1, TotalAtMost
<1>6. t \in Nat
  <2>1. s \in Seq(Nat)
    OBVIOUS
  <2> QED
    BY <2>1, TotalIs
<1> HIDE DEF t
<1>7. low * n <= t /\ t <= high * n
  BY <1>3, <1>4, <1>5, <1>6
<1>8. q \in Nat /\ q * n <= t /\ t < q * n + n
  BY <1>6, DivIs
<1> HIDE DEF q
<1>9. low < q + 1
  <2>1. (q + 1) * n = q * n + n
    BY <1>8
  <2>2. low * n < (q + 1) * n
    BY <1>6, <1>7, <1>8, <2>1
  <2> QED
    BY <1>8, <2>2, Factors
<1>10. q < high + 1
  <2>1. (high + 1) * n = high * n + n
    OBVIOUS
  <2>2. q * n < (high + 1) * n
    BY <1>6, <1>7, <1>8, <2>1
  <2> QED
    BY <1>8, <2>2, Factors
<1>11. q \in low..high
  BY <1>8, <1>9, <1>10
<1> QED
  BY <1>11 DEF q, t

(* What metrics tell is true of the numbers they were made from.            *)
LEMMA MetricsTells ==
    MetricsInv => MetricsAgree
<1> SUFFICES ASSUME MetricsInv PROVE MetricsAgree
  OBVIOUS
<1> DEFINE buckets == metrics.buckets
           n == Len(measured)
           low == Head(measured)
           high == Last(measured)
<1>1. n \in Nat /\ measured \in [1..n -> Nat]
  BY DEF MetricsInv
<1>2. CASE metrics.collected
  <2>1. /\ measured \in Seq(Nat) /\ measured # <<>> /\ buckets = BucketsOf(measured)
        /\ metrics.minimum = low /\ metrics.maximum = high
        /\ metrics.average = Total(measured) \div n
        /\ \A i, j \in 1..n : i < j => measured[i] <= measured[j]
    BY <1>2 DEF MetricsInv
  <2>2. n # 0 /\ low = measured[1] /\ high = measured[n]
    BY <2>1 DEF Last
  <2> HIDE DEF n, low, high, buckets
  <2>3. n \in Nat \ {0} /\ 1 \in 1..n /\ n \in 1..n
    BY <1>1, <2>2
  <2>4. low \in Nat /\ high \in Nat
    BY <1>1, <2>2, <2>3
  <2>5. ASSUME NEW i \in 1..n
        PROVE  measured[i] \in Nat /\ low <= measured[i] /\ measured[i] <= high
    <3>1. measured[i] \in Nat
      BY <1>1
    <3>2. low <= measured[i]
      <4>1. i = 1 \/ 1 < i
        BY <1>1
      <4> QED
        BY <2>1, <2>2, <2>3, <2>4, <3>1, <4>1
    <3>3. measured[i] <= high
      <4>1. i = n \/ i < n
        BY <1>1
      <4> QED
        BY <2>1, <2>2, <2>3, <2>4, <3>1, <4>1
    <3> QED
      BY <3>1, <3>2, <3>3
  <2>6. high = Max(Range(measured))
    <3> DEFINE S == Range(measured)
    <3>1. S = {measured[i] : i \in 1..n}
      BY <1>1 DEF Range
    <3>2. S \in SUBSET (0..high) /\ high \in S
      <4>1. \A i \in 1..n : measured[i] \in 0..high
        BY <2>4, <2>5
      <4>2. S \in SUBSET (0..high)
        BY <3>1, <4>1
      <4> QED
        BY <2>2, <2>3, <3>1, <4>2
    <3> HIDE DEF S
    <3>3. Max(S) \in S /\ \A x \in S : Max(S) >= x
      <4>1. S # {}
        BY <3>2
      <4> QED
        BY <2>4, <3>2, <4>1, MaxOfSome
    <3>4. Max(S) = high
      <4>1. Max(S) \in 0..high /\ Max(S) >= high
        BY <3>2, <3>3
      <4> QED
        BY <2>4, <4>1
    <3> QED
      BY <3>4 DEF S
  <2>7. /\ Total([i \in DOMAIN buckets |-> buckets[i].count]) = n
        /\ Total([i \in DOMAIN buckets |-> buckets[i].weight]) = Total(measured)
    BY <1>1, <2>1, <2>4, <2>5, <2>6, BucketsAddUp
  <2>8. Total(measured) \div n \in low..high
    BY <1>1, <2>3, <2>4, <2>5, AverageIs
  <2>9. metrics.samples \in {<<>>, measured}
    BY DEF MetricsInv
  <2>10. \A i \in DOMAIN measured : measured[i] \in low..high
    BY <1>1, <2>4, <2>5
  <2> QED
    BY <2>1, <2>7, <2>8, <2>9, <2>10 DEF MetricsAgree, buckets, n
<1>3. CASE ~metrics.collected
  <2>1. measured = <<>> /\ buckets = <<>> /\ metrics.samples \in {<<>>, measured}
    BY <1>3 DEF MetricsInv
  <2> DEFINE counts == [i \in DOMAIN buckets |-> buckets[i].count]
             weights == [i \in DOMAIN buckets |-> buckets[i].weight]
  <2>2. counts = <<>> /\ weights = <<>>
    <3> HIDE DEF buckets
    <3>1. DOMAIN buckets = 1..0
      BY <2>1
    <3>2. counts \in [1..0 -> Nat] /\ weights \in [1..0 -> Nat]
      BY <3>1
    <3> QED
      BY <3>2
  <2>3. Total(<<>>) = 0
    <3>1. <<>> \in [1..0 -> Nat] /\ \A i \in 1..0 : <<>>[i] = 0
      OBVIOUS
    <3>2. Total(<<>>) = 0 * 0
      BY <3>1, TotalOfSame
    <3> QED
      BY <3>2
  <2>4. Len(measured) = 0
    BY <2>1
  <2> QED
    BY <1>3, <2>1, <2>2, <2>3, <2>4 DEF MetricsAgree
<1> QED
  BY <1>2, <1>3

(* The two numbers of each identifier make a list of numbers.               *)
LEMMA PairedIs ==
    ASSUME NEW numbers, IsFiniteSet(DOMAIN numbers), DOMAIN numbers \subseteq Nat,
           \A id \in DOMAIN numbers : numbers[id] \in Seq(Nat)
    PROVE  Paired(numbers) \in Seq(Nat)
<1> DEFINE ids == Ids(numbers)
           n == Cardinality(DOMAIN numbers)
           R == Seq(Nat)
           lists == [i \in 1..n |-> numbers[ids[i]]]
<1>1. n \in Nat /\ ids \in [1..n -> DOMAIN numbers] /\ DOMAIN ids = 1..n
  BY InOrderIs DEF Ids
<1>2. Paired(numbers) = Flat(lists)
  BY <1>1 DEF Paired
<1>3. \A id \in DOMAIN numbers : numbers[id] \in R
  OBVIOUS
<1> HIDE DEF ids, n, R
<1>4. lists \in [1..n -> R]
  BY <1>1, <1>3
<1> HIDE DEF lists
<1>5. lists \in Seq(R)
  BY <1>1, <1>4
<1>6. Flat(lists) \in Seq(Nat)
  BY <1>5, FlatIs DEF R
<1> QED
  BY <1>2, <1>6

(* What is collected are numbers.                                           *)
LEMMA SamplesAre ==
    ASSUME HoldInv, LinkInv, NEW scope
    PROVE  SamplesOf(scope) \in Seq(Nat)
<1> DEFINE D == [id \in DOMAIN documents |->
                    <<SizeOf(documents[id].title), SizeOf(documents[id].body)>>]
           P == [id \in DOMAIN pages |->
                    <<SizeOf(pages[id].bytes), pages[id].generation % 4096>>]
           R == Seq(Nat)
<1>0. \A x, y \in Nat : <<x, y>> \in R
  OBVIOUS
<1>1. \A x, y \in Nat : <<x, y % 4096>> \in R
  OBVIOUS
<1>2. ASSUME NEW id \in DOMAIN documents
      PROVE  <<SizeOf(documents[id].title), SizeOf(documents[id].body)>> \in R
  <2> DEFINE x == SizeOf(documents[id].title)
             y == SizeOf(documents[id].body)
  <2>1. x \in Nat /\ y \in Nat
    BY SizesAre
  <2> HIDE DEF x, y, R
  <2>2. <<x, y>> \in R
    BY <1>0, <2>1
  <2> QED
    BY <2>2 DEF x, y
<1>3. \A id \in DOMAIN pages :
         <<SizeOf(pages[id].bytes), pages[id].generation % 4096>> \in R
  <2> HIDE DEF R
  <2> QED
    BY <1>1, SizesAre
<1>4. /\ DOMAIN D = DOMAIN documents /\ \A id \in DOMAIN D : D[id] \in R
      /\ DOMAIN P = DOMAIN pages /\ \A id \in DOMAIN P : P[id] \in R
  <2> HIDE DEF R
  <2> QED
    BY <1>2, <1>3
<1>5. DocumentSamples = Paired(D) /\ PageSamples = Paired(P)
  BY DEF DocumentSamples, PageSamples
<1> HIDE DEF D, P
<1>6. DocumentSamples \in Seq(Nat) /\ PageSamples \in Seq(Nat)
  BY <1>4, <1>5, SizesAre, PairedIs
<1>7. GraphSamples \in Seq(Nat)
  <2> DEFINE ids == Ids(nodes)
             n == Cardinality(DOMAIN nodes)
             N == [i \in DOMAIN Ids(nodes) |-> nodes[Ids(nodes)[i]] % ValueMask]
  <2>1. n \in Nat /\ ids \in [1..n -> DOMAIN nodes] /\ DOMAIN ids = 1..n
    BY SizesAre, InOrderIs DEF Ids
  <2>2. N = [i \in 1..n |-> nodes[ids[i]] % ValueMask]
    BY <2>1
  <2>3. ASSUME NEW i \in 1..n PROVE nodes[ids[i]] % ValueMask \in Nat
    <3> DEFINE v == nodes[ids[i]]
    <3>1. v \in Nat
      BY <2>1, SizesAre
    <3> HIDE DEF v
    <3>2. v % ValueMask \in Nat
      BY <3>1, MetricsConstants
    <3> QED
      BY <3>2 DEF v
  <2> HIDE DEF n, ids, N
  <2>4. N \in [1..n -> Nat]
    BY <2>2, <2>3
  <2>5. N \in R /\ links \in R /\ <<watches>> \in R
    BY <2>1, <2>4 DEF LinkInv, HoldInv
  <2> HIDE DEF R
  <2>6. N \o links \in R
    BY <2>5, CatHolds DEF R
  <2>7. (N \o links) \o <<watches>> \in R
    BY <2>5, <2>6, CatHolds DEF R
  <2> QED
    BY <2>7 DEF GraphSamples, N, R
<1>8. (DocumentSamples \o PageSamples) \o GraphSamples \in Seq(Nat)
  <2>1. DocumentSamples \o PageSamples \in Seq(Nat)
    BY <1>6, CatHolds
  <2> QED
    BY <1>7, <2>1, CatHolds
<1>9. <<>> \in Seq(Nat)
  OBVIOUS
<1> QED
  BY <1>6, <1>7, <1>8, <1>9 DEF SamplesOf

(* Nothing is collected at first.                                           *)
LEMMA MetricsStart ==
    MetricsInit => MetricsInv
<1> SUFFICES ASSUME MetricsInit PROVE MetricsInv
  OBVIOUS
<1>1. metrics = [scope |-> "", samples |-> <<>>, buckets |-> <<>>, minimum |-> 0,
                 maximum |-> 0, average |-> 0, collected |-> FALSE]
      /\ measured = <<>>
  BY DEF MetricsInit
<1>2. metrics = [scope |-> metrics.scope, samples |-> metrics.samples,
                  buckets |-> metrics.buckets, minimum |-> metrics.minimum,
                  maximum |-> metrics.maximum, average |-> metrics.average,
                  collected |-> metrics.collected]
  BY <1>1
<1>3. /\ metrics.samples = <<>> /\ metrics.buckets = <<>>
      /\ ~metrics.collected
  BY <1>1
<1>4. <<>> \in Seq(Nat) /\ Len(<<>>) = 0
  OBVIOUS
<1>5. \A i, j \in 1..Len(measured) : i < j => measured[i] <= measured[j]
  <2>1. Len(measured) = 0
    BY <1>1, <1>4
  <2> QED
    BY <2>1
<1>6. measured = <<>>
  BY <1>1
<1>7. measured \in Seq(Nat) /\ metrics.samples \in {<<>>, measured}
  BY <1>3, <1>4, <1>6
<1> QED
  BY <1>2, <1>3, <1>5, <1>6, <1>7 DEF MetricsInv

(* METRICS puts samples, buckets and range in their places together, or     *)
(* takes the samples alone.                                                 *)
LEMMA MetricsStep ==
    HoldInv /\ LinkInv /\ MetricsInv /\ MetricsNext => MetricsInv'
<1> SUFFICES ASSUME HoldInv, LinkInv, MetricsInv, MetricsNext PROVE MetricsInv'
  OBVIOUS
<1>1. ASSUME UNCHANGED metricsVars PROVE MetricsInv'
  BY <1>1 DEF MetricsInv, metricsVars
<1>2. ASSUME NEW scope, CollectMetrics(scope) PROVE MetricsInv'
  <2>1. CASE status' = "limit"
    BY <1>1, <1>2, <2>1 DEF CollectMetrics, metricsVars
  <2>2. CASE status' = "ok"
    <3> DEFINE list == SamplesOf(scope)
               sorted == Sorted(list, <)
    <3>1. metrics' = Collected(scope) /\ measured' = metrics'.samples
      BY <1>2, <2>2 DEF CollectMetrics
    <3>2. list \in Seq(Nat) /\ list # <<>>
      BY <1>2, <2>2, SamplesAre DEF CollectMetrics, MetricsCheck
    <3>3. Collected(scope) =
             [scope |-> scope, samples |-> sorted, buckets |-> BucketsOf(sorted),
              minimum |-> Head(sorted), maximum |-> Last(sorted),
              average |-> Total(sorted) \div Len(sorted), collected |-> TRUE]
      BY DEF Collected
    <3> HIDE DEF list
    <3>4. /\ sorted \in Seq(Nat) /\ Len(sorted) = Len(list)
          /\ \A i, j \in 1..Len(list) : i < j => sorted[i] <= sorted[j]
      BY <3>2, NumbersSorted
    <3> HIDE DEF sorted
    <3>5. sorted # <<>>
      <4>1. Len(list) # 0
        BY <3>2
      <4> QED
        BY <3>4, <4>1
    <3>6. measured' = sorted /\ metrics'.samples = sorted /\ metrics'.collected
      BY <3>1, <3>3
    <3>7. /\ metrics'.buckets = BucketsOf(measured')
          /\ metrics'.minimum = Head(measured')
          /\ metrics'.maximum = Last(measured')
          /\ metrics'.average = Total(measured') \div Len(measured')
      BY <3>1, <3>3, <3>6
    <3>8. metrics' = [scope |-> metrics'.scope, samples |-> metrics'.samples,
                      buckets |-> metrics'.buckets, minimum |-> metrics'.minimum,
                      maximum |-> metrics'.maximum, average |-> metrics'.average,
                      collected |-> metrics'.collected]
      BY <3>1, <3>3
    <3>9. \A i, j \in 1..Len(measured') : i < j => measured'[i] <= measured'[j]
      BY <3>4, <3>6
    <3> QED
      BY <3>4, <3>5, <3>6, <3>7, <3>8, <3>9 DEF MetricsInv
  <2>3. CASE status' \notin {"limit", "ok"}
    <3>1. /\ metrics' = [metrics EXCEPT !.scope = scope, !.samples = <<>>]
          /\ measured' = measured
      BY <1>2, <2>3 DEF CollectMetrics
    <3>2. metrics = [scope |-> metrics.scope, samples |-> metrics.samples,
                  buckets |-> metrics.buckets, minimum |-> metrics.minimum,
                  maximum |-> metrics.maximum, average |-> metrics.average,
                  collected |-> metrics.collected]
      BY DEF MetricsInv
    <3>3. metrics' = [scope |-> scope, samples |-> <<>>,
                  buckets |-> metrics.buckets, minimum |-> metrics.minimum,
                  maximum |-> metrics.maximum, average |-> metrics.average,
                  collected |-> metrics.collected]
      BY <3>1, <3>2
    <3>4. /\ metrics'.samples = <<>> /\ metrics'.buckets = metrics.buckets
          /\ metrics'.minimum = metrics.minimum /\ metrics'.maximum = metrics.maximum
          /\ metrics'.average = metrics.average
          /\ metrics'.collected = metrics.collected
          /\ metrics'.scope = scope
      BY <3>3
    <3>5. metrics' = [scope |-> metrics'.scope, samples |-> metrics'.samples,
                      buckets |-> metrics'.buckets, minimum |-> metrics'.minimum,
                      maximum |-> metrics'.maximum, average |-> metrics'.average,
                      collected |-> metrics'.collected]
      BY <3>3, <3>4
    <3> QED
      BY <3>1, <3>4, <3>5 DEF MetricsInv
  <2> QED
    BY <2>1, <2>2, <2>3
<1>3. ASSUME ReduceMetrics PROVE MetricsInv'
  BY <1>1, <1>3 DEF ReduceMetrics
<1> QED
  BY <1>2, <1>3 DEF MetricsNext

-----------------------------------------------------------------------------
(* Merges.                                                                  *)

MergeInv ==
    /\ merge = [rows |-> merge.rows, cursor |-> merge.cursor,
                prepared |-> merge.prepared, turn |-> merge.turn]
    /\ merge.rows \in Seq(RowType)
    /\ merge.cursor \in Nat

\* The list NEXT goes through, as Listing has it.
ListGoes ==
    [HandedOut!Next]_<<merge.rows, IF merge.rows = <<>> THEN 0 ELSE merge.cursor,
                       merge.turn>>

(* There is no list at first.                                               *)
LEMMA MergeStart ==
    MergeInit => MergeInv /\ HandedOut!Init
<1> SUFFICES ASSUME MergeInit PROVE MergeInv /\ HandedOut!Init
  OBVIOUS
<1>1. merge = [rows |-> <<>>, cursor |-> 0, prepared |-> FALSE, turn |-> FALSE]
  BY DEF MergeInit
<1>2. /\ merge.rows = <<>> /\ merge.cursor = 0 /\ merge.prepared = FALSE
      /\ merge.turn = FALSE
  BY <1>1
<1>3. <<>> \in Seq(RowType)
  OBVIOUS
<1>4. MergeInv
  BY <1>1, <1>2, <1>3 DEF MergeInv
<1>5. HandedOut!Init
  BY <1>2 DEF HandedOut!Init
<1> QED
  BY <1>4, <1>5

(* A new list opens, from its first row, or the next rows are taken.        *)
LEMMA MergeStep ==
    HoldInv /\ LinkInv /\ MergeInv /\ MergeNext => MergeInv' /\ ListGoes
<1> SUFFICES ASSUME HoldInv, LinkInv, MergeInv, MergeNext PROVE MergeInv' /\ ListGoes
  OBVIOUS
<1> DEFINE given == IF merge.rows = <<>> THEN 0 ELSE merge.cursor
<1>1. ASSUME merge' = merge PROVE MergeInv' /\ ListGoes
  <2>1. MergeInv'
    BY <1>1 DEF MergeInv
  <2>2. UNCHANGED <<merge.rows, given, merge.turn>>
    BY <1>1
  <2> QED
    BY <2>1, <2>2 DEF ListGoes
<1>2. ASSUME HandedOut!Next PROVE ListGoes
  BY <1>2 DEF ListGoes
<1>3. /\ merge = [rows |-> merge.rows, cursor |-> merge.cursor,
                  prepared |-> merge.prepared, turn |-> merge.turn]
      /\ merge.rows \in Seq(RowType) /\ merge.cursor \in Nat
  BY DEF MergeInv
<1>4. ASSUME NEW mode, PrepareMerge(mode) PROVE MergeInv' /\ ListGoes
  <2>1. CASE status' = "limit"
    BY <1>1, <1>4, <2>1 DEF PrepareMerge
  <2>2. CASE status' = "ok"
    <3> DEFINE all == RowsMerged(mode)
               sorted == Sorted(all, RowBefore)
    <3>1. merge' = Listed(sorted) /\ mode \in MergeModes
      BY <1>4, <2>2 DEF PrepareMerge, MergeCheck
    <3>2. all \in Seq(RowType)
      <4>1. /\ DocRows \in Seq(RowType) /\ PageRows \in Seq(RowType)
            /\ LinkRows \in Seq(RowType)
        BY RowsAre
      <4>2. (DocRows \o PageRows) \o LinkRows \in Seq(RowType)
        <5>1. DocRows \o PageRows \in Seq(RowType)
          BY <4>1, CatHolds
        <5> QED
          BY <4>1, <5>1, CatHolds
      <4> QED
        BY <3>1, <4>1, <4>2 DEF RowsMerged, MergeModes
    <3> HIDE DEF all
    <3>3. /\ sorted \in Seq(RowType) /\ Len(sorted) = Len(all)
          /\ \A i, j \in 1..Len(all) : i < j => ~RowBefore(sorted[j], sorted[i])
      BY <3>2, RowsSorted
    <3> HIDE DEF sorted
    <3>4. /\ merge'.rows = sorted /\ merge'.cursor = 0 /\ merge'.prepared = TRUE
          /\ merge'.turn = ~merge.turn
      BY <3>1 DEF Listed
    <3>5. MergeInv'
      BY <3>1, <3>3, <3>4 DEF MergeInv, Listed
    <3>6. HandedOut!Ordered(merge'.rows)
      <4>1. ASSUME NEW i \in 1..(Len(sorted) - 1)
            PROVE  ~RowBefore(sorted[i + 1], sorted[i])
        <5>1. Len(sorted) \in Nat
          BY <3>3
        <5>2. i \in 1..Len(all) /\ i + 1 \in 1..Len(all) /\ i < i + 1
          BY <3>3, <5>1
        <5> QED
          BY <3>3, <5>2
      <4> QED
        BY <3>4, <4>1 DEF HandedOut!Ordered
    <3>7. (IF merge'.rows = <<>> THEN 0 ELSE merge'.cursor) = 0
      BY <3>4
    <3>8. HandedOut!Open
      BY <3>4, <3>6, <3>7 DEF HandedOut!Open
    <3>9. HandedOut!Next
      BY <3>8 DEF HandedOut!Next
    <3> QED
      BY <1>2, <3>5, <3>9
  <2>3. CASE status' \notin {"limit", "ok"}
    <3>1. merge' = [merge EXCEPT !.rows = <<>>, !.turn = ~merge.turn]
      BY <1>4, <2>3 DEF PrepareMerge
    <3>2. merge' = [rows |-> <<>>, cursor |-> merge.cursor, prepared |-> merge.prepared,
                    turn |-> ~merge.turn]
      BY <1>3, <3>1
    <3>3. /\ merge'.rows = <<>> /\ merge'.cursor = merge.cursor
          /\ merge'.prepared = merge.prepared /\ merge'.turn = ~merge.turn
      BY <3>2
    <3>4. <<>> \in Seq(RowType) /\ Len(<<>>) = 0
      OBVIOUS
    <3>5. MergeInv'
      BY <1>3, <3>2, <3>3, <3>4 DEF MergeInv
    <3>6. HandedOut!Ordered(merge'.rows)
      <4>1. 1..(Len(merge'.rows) - 1) = {}
        BY <3>3, <3>4
      <4> QED
        BY <4>1 DEF HandedOut!Ordered
    <3>7. (IF merge'.rows = <<>> THEN 0 ELSE merge'.cursor) = 0
      BY <3>3
    <3>8. HandedOut!Open
      BY <3>3, <3>6, <3>7 DEF HandedOut!Open
    <3>9. HandedOut!Next
      BY <3>8 DEF HandedOut!Next
    <3> QED
      BY <1>2, <3>5, <3>9
  <2> QED
    BY <2>1, <2>2, <2>3
<1>5. ASSUME NEW steps, NextMerge(steps) PROVE MergeInv' /\ ListGoes
  <2>1. CASE status' # "ok"
    BY <1>1, <1>5, <2>1 DEF NextMerge
  <2>2. CASE status' = "ok"
    <3> DEFINE n == Len(merge.rows)
               c == merge.cursor
               S == {n, c + steps}
    <3>1. /\ steps \in 1..StepLimit /\ ~(c >= n)
          /\ merge' = [merge EXCEPT !.cursor = Min(S)]
      BY <1>5, <2>2 DEF NextMerge, NextCheck
    <3>2. n \in Nat /\ c \in Nat
      BY <1>3
    <3>3. merge' = [rows |-> merge.rows, cursor |-> Min(S), prepared |-> merge.prepared,
                    turn |-> merge.turn]
      BY <1>3, <3>1
    <3>4. /\ merge'.rows = merge.rows /\ merge'.cursor = Min(S)
          /\ merge'.prepared = merge.prepared /\ merge'.turn = merge.turn
      BY <3>3
    <3>5. n # 0 => merge.rows # <<>>
      OBVIOUS
    <3> HIDE DEF n, c
    <3>6. Min(S) \in (c + 1)..n
      <4>1. steps \in Nat /\ 1 <= steps
        BY <3>1, MergeConstants
      <4>2. S \in SUBSET Nat /\ S # {}
        BY <3>2, <4>1
      <4>3. Min(S) \in S /\ \A x \in S : Min(S) <= x
        <5> HIDE DEF S
        <5> QED
          BY <4>2, MinOfSome
      <4> QED
        BY <3>1, <3>2, <4>1, <4>3
    <3>7. merge.rows # <<>>
      BY <3>1, <3>2, <3>5
    <3> HIDE DEF S
    <3>8. MergeInv'
      <4>1. Min(S) \in Nat
        BY <3>2, <3>6
      <4> QED
        BY <1>3, <3>3, <3>4, <4>1 DEF MergeInv
    <3>9. /\ (IF merge.rows = <<>> THEN 0 ELSE merge.cursor) = c
          /\ (IF merge'.rows = <<>> THEN 0 ELSE merge'.cursor) = Min(S)
      BY <3>4, <3>7 DEF c
    <3>10. HandedOut!Take
      BY <3>4, <3>6, <3>9 DEF HandedOut!Take, n
    <3>11. HandedOut!Next
      BY <3>10 DEF HandedOut!Next
    <3> QED
      BY <1>2, <3>8, <3>11
  <2> QED
    BY <2>1, <2>2
<1> QED
  BY <1>4, <1>5 DEF MergeNext

(* Where the merge is left alone, so is the list.                           *)
LEMMA MergeStays ==
    MergeInv /\ merge' = merge => MergeInv' /\ ListGoes
<1> SUFFICES ASSUME MergeInv, merge' = merge PROVE MergeInv' /\ ListGoes
  OBVIOUS
<1>1. MergeInv'
  BY DEF MergeInv
<1>2. ListGoes
  BY DEF ListGoes
<1> QED
  BY <1>1, <1>2

-----------------------------------------------------------------------------
(* Shards.                                                                  *)

\* How WeightOf comes to the weight of a set: from that of the set without one.
SumOn(sum, placements, some) ==
    IF some = {} THEN 0
    ELSE LET next == CHOOSE object \in some : TRUE
         IN  placements[next].weight + sum[some \ {next}]

\* The sums are those of every set of the objects.
SumsUp(sum, placements, objects) ==
    \A some \in SUBSET objects : sum[some] = SumOn(sum, placements, some)

Weighs(sum, placements, objects) ==
    sum \in [SUBSET objects -> Nat] /\ SumsUp(sum, placements, objects)

Weighted(placements, objects) ==
    IsFiniteSet(objects) /\ \A object \in objects : placements[object].weight \in Nat

\* The sets of so many objects at most.
UpTo(objects, n) == {some \in SUBSET objects : Cardinality(some) <= n}

(* Of a finite set, the one that is chosen leaves a smaller one.            *)
LEMMA NextOne ==
    ASSUME NEW objects, IsFiniteSet(objects), NEW some \in SUBSET objects, some # {},
           NEW next \in some
    PROVE  /\ some \ {next} \in SUBSET objects
           /\ Cardinality(some) \in Nat
           /\ Cardinality(some \ {next}) = Cardinality(some) - 1
           /\ Cardinality(some) <= Cardinality(objects)
<1>1. IsFiniteSet(some) /\ Cardinality(some) <= Cardinality(objects)
  BY FS_Subset
<1>2. Cardinality(some) \in Nat
  BY <1>1, FS_CardinalityType
<1>3. Cardinality(some \ {next}) = Cardinality(some) - 1
  BY <1>1, FS_RemoveElement
<1> QED
  BY <1>1, <1>2, <1>3

(* The sums WeightOf goes through are there.                                *)
LEMMA SumsAreThere ==
    ASSUME NEW placements, NEW objects, Weighted(placements, objects)
    PROVE  \E sum : Weighs(sum, placements, objects)
<1> DEFINE N == Cardinality(objects)
           Fits(f, n) ==
               /\ f \in [UpTo(objects, n) -> Nat]
               /\ \A some \in UpTo(objects, n) : f[some] = SumOn(f, placements, some)
           T == {n \in 0..N : \E f : Fits(f, n)}
<1>1. N \in Nat /\ IsFiniteSet(objects)
  BY FS_CardinalityType DEF Weighted
<1>2. ASSUME NEW n \in Nat, NEW some \in UpTo(objects, n), some # {}
      PROVE  LET next == CHOOSE object \in some : TRUE
             IN  /\ next \in some
                 /\ placements[next].weight \in Nat
                 /\ n >= 1
                 /\ some \ {next} \in UpTo(objects, n - 1)
  <2> DEFINE next == CHOOSE object \in some : TRUE
  <2>1. next \in some
    BY <1>2
  <2> HIDE DEF next
  <2>2. some \in SUBSET objects /\ Cardinality(some) <= n
    BY DEF UpTo
  <2>3. /\ some \ {next} \in SUBSET objects
        /\ Cardinality(some) \in Nat
        /\ Cardinality(some \ {next}) = Cardinality(some) - 1
    BY <1>1, <1>2, <2>1, <2>2, NextOne
  <2>4. Cardinality(some \ {next}) \in Nat
    <3>1. IsFiniteSet(some \ {next})
      BY <1>1, <2>3, FS_Subset
    <3> QED
      BY <3>1, FS_CardinalityType
  <2>5. n >= 1 /\ Cardinality(some \ {next}) <= n - 1
    BY <2>2, <2>3, <2>4
  <2>6. placements[next].weight \in Nat
    BY <2>1, <2>2 DEF Weighted
  <2> QED
    BY <2>1, <2>3, <2>5, <2>6 DEF UpTo, next
<1>3. 0 \in T
  <2> DEFINE f == [some \in UpTo(objects, 0) |-> 0]
  <2>1. \A some \in UpTo(objects, 0) : some = {}
    <3>1. ~(0 >= 1)
      OBVIOUS
    <3> QED
      BY <1>2, <3>1
  <2>2. \A some \in UpTo(objects, 0) : f[some] = SumOn(f, placements, some)
    BY <2>1 DEF SumOn
  <2>3. f \in [UpTo(objects, 0) -> Nat]
    OBVIOUS
  <2> HIDE DEF f
  <2>4. Fits(f, 0)
    BY <2>2, <2>3
  <2> QED
    BY <1>1, <2>4
<1>4. ASSUME NEW n \in 1..N, n - 1 \in T PROVE n \in T
  <2>1. n \in Nat /\ n - 1 \in Nat
    OBVIOUS
  <2>2. PICK f : Fits(f, n - 1)
    BY <1>4
  <2> DEFINE g == [some \in UpTo(objects, n) |-> SumOn(f, placements, some)]
  <2>3. \A some \in UpTo(objects, n) : g[some] \in Nat
    <3>1. ASSUME NEW some \in UpTo(objects, n) PROVE g[some] \in Nat
      <4>1. CASE some = {}
        BY <4>1 DEF SumOn
      <4>2. CASE some # {}
        <5> DEFINE next == CHOOSE object \in some : TRUE
        <5>1. placements[next].weight \in Nat /\ some \ {next} \in UpTo(objects, n - 1)
          BY <1>2, <2>1, <4>2
        <5>2. f[some \ {next}] \in Nat
          BY <2>2, <5>1
        <5>3. g[some] = placements[next].weight + f[some \ {next}]
          BY <4>2 DEF SumOn
        <5> HIDE DEF next, g
        <5> QED
          BY <5>1, <5>2, <5>3
      <4> QED
        BY <4>1, <4>2
    <3> QED
      BY <3>1
  <2>4. \A some \in UpTo(objects, n - 1) :
           some \in UpTo(objects, n) /\ g[some] = f[some]
    <3>1. ASSUME NEW some \in UpTo(objects, n - 1)
          PROVE  some \in UpTo(objects, n) /\ g[some] = f[some]
      <4>1. some \in SUBSET objects /\ Cardinality(some) <= n - 1
        BY DEF UpTo
      <4>2. Cardinality(some) \in Nat
        BY <1>1, <4>1, FS_Subset, FS_CardinalityType
      <4>3. some \in UpTo(objects, n)
        BY <2>1, <4>1, <4>2 DEF UpTo
      <4>4. f[some] = SumOn(f, placements, some)
        BY <2>2
      <4> QED
        BY <4>3, <4>4
    <3> QED
      BY <3>1
  <2>5. \A some \in UpTo(objects, n) : g[some] = SumOn(g, placements, some)
    <3>1. ASSUME NEW some \in UpTo(objects, n)
          PROVE  g[some] = SumOn(g, placements, some)
      <4>1. CASE some = {}
        BY <4>1 DEF SumOn
      <4>2. CASE some # {}
        <5> DEFINE next == CHOOSE object \in some : TRUE
        <5>1. some \ {next} \in UpTo(objects, n - 1)
          BY <1>2, <2>1, <4>2
        <5>2. g[some \ {next}] = f[some \ {next}]
          BY <2>4, <5>1
        <5>3. g[some] = placements[next].weight + f[some \ {next}]
          BY <4>2 DEF SumOn
        <5>4. SumOn(g, placements, some) = placements[next].weight + g[some \ {next}]
          BY <4>2 DEF SumOn
        <5> HIDE DEF next, g
        <5> QED
          BY <5>2, <5>3, <5>4
      <4> QED
        BY <4>1, <4>2
    <3> QED
      BY <3>1
  <2>6. g \in [UpTo(objects, n) -> Nat]
    BY <2>3
  <2> HIDE DEF g
  <2>7. Fits(g, n)
    BY <2>5, <2>6
  <2>8. n \in 0..N
    OBVIOUS
  <2> QED
    BY <2>7, <2>8
<1>5. N \in T
  <2> HIDE DEF T
  <2>1. \A n \in 0..N : n \in T
    BY <1>1, <1>3, <1>4, Induct
  <2> QED
    BY <1>1, <2>1
<1>6. UpTo(objects, N) = SUBSET objects
  BY <1>1, FS_Subset DEF UpTo
<1>7. PICK f : Fits(f, N)
  BY <1>5
<1> QED
  BY <1>6, <1>7 DEF Weighs, SumsUp

(* SumsUp of the same weights are the same.                                   *)
LEMMA SumsAgree ==
    ASSUME NEW p, NEW q, NEW O, NEW Q, IsFiniteSet(O),
           NEW f, SumsUp(f, p, O), NEW g, SumsUp(g, q, Q), NEW set,
           set \subseteq O, set \subseteq Q,
           \A object \in set : p[object].weight = q[object].weight
    PROVE  f[set] = g[set]
<1> DEFINE N == Cardinality(set)
           T == {n \in 0..N : \A some \in SUBSET set :
                                 Cardinality(some) = n => f[some] = g[some]}
<1>1. IsFiniteSet(set) /\ N \in Nat
  BY FS_Subset, FS_CardinalityType
<1>2. \A some \in SUBSET set :
         f[some] = SumOn(f, p, some) /\ g[some] = SumOn(g, q, some)
  BY DEF SumsUp
<1>3. 0 \in T
  <2>1. ASSUME NEW some \in SUBSET set, Cardinality(some) = 0 PROVE f[some] = g[some]
    <3>1. some = {}
      BY <1>1, <2>1, FS_Subset, FS_EmptySet
    <3> QED
      BY <1>2, <3>1 DEF SumOn
  <2> QED
    BY <1>1, <2>1
<1>4. ASSUME NEW n \in 1..N, n - 1 \in T PROVE n \in T
  <2>1. ASSUME NEW some \in SUBSET set, Cardinality(some) = n PROVE f[some] = g[some]
    <3> DEFINE next == CHOOSE object \in some : TRUE
    <3>1. some # {}
      BY <2>1, FS_EmptySet
    <3>2. next \in some
      BY <3>1
    <3>3. /\ f[some] = p[next].weight + f[some \ {next}]
          /\ g[some] = q[next].weight + g[some \ {next}]
      BY <1>2, <3>1 DEF SumOn
    <3> HIDE DEF next
    <3>4. some \ {next} \in SUBSET set /\ Cardinality(some \ {next}) = n - 1
      BY <1>1, <2>1, <3>1, <3>2, NextOne
    <3>5. f[some \ {next}] = g[some \ {next}]
      BY <1>4, <3>4
    <3> QED
      BY <3>2, <3>3, <3>5
  <2>2. n \in 0..N
    OBVIOUS
  <2> QED
    BY <2>1, <2>2
<1>5. N \in T
  <2> HIDE DEF T
  <2>1. \A n \in 0..N : n \in T
    BY <1>1, <1>3, <1>4, Induct
  <2> QED
    BY <1>1, <2>1
<1>6. set \in SUBSET set
  OBVIOUS
<1> QED
  BY <1>5, <1>6

(* A set weighs what any one of it weighs, and the others.                  *)
LEMMA SumsTake ==
    ASSUME NEW placements, NEW objects, Weighted(placements, objects),
           NEW sum, Weighs(sum, placements, objects)
    PROVE  \A some \in SUBSET objects : \A one \in some :
              sum[some] = placements[one].weight + sum[some \ {one}]
<1> DEFINE N == Cardinality(objects)
           T == {n \in 0..N : \A some \in SUBSET objects :
                    Cardinality(some) = n => \A one \in some :
                        sum[some] = placements[one].weight + sum[some \ {one}]}
<1>1. N \in Nat /\ IsFiniteSet(objects)
  BY FS_CardinalityType DEF Weighted
<1>2. \A some \in SUBSET objects :
         sum[some] \in Nat /\ sum[some] = SumOn(sum, placements, some)
  BY DEF Weighs, SumsUp
<1>3. 0 \in T
  <2>1. ASSUME NEW some \in SUBSET objects, Cardinality(some) = 0 PROVE some = {}
    BY <1>1, <2>1, FS_Subset, FS_EmptySet
  <2> QED
    BY <1>1, <2>1
<1>4. ASSUME NEW n \in 1..N, n - 1 \in T PROVE n \in T
  <2>1. ASSUME NEW some \in SUBSET objects, Cardinality(some) = n, NEW one \in some
        PROVE  sum[some] = placements[one].weight + sum[some \ {one}]
    <3> DEFINE next == CHOOSE object \in some : TRUE
               less == some \ {next}
               without == some \ {one}
               rest == some \ {next, one}
    <3>1. next \in some
      BY <2>1
    <3>2. sum[some] = placements[next].weight + sum[less]
      BY <1>2, <2>1 DEF SumOn
    <3> HIDE DEF next
    <3>3. CASE next = one
      BY <3>2, <3>3
    <3>4. CASE next # one
      <4>1. /\ less \in SUBSET objects /\ Cardinality(less) = n - 1
            /\ without \in SUBSET objects /\ Cardinality(without) = n - 1
        BY <1>1, <2>1, <3>1, NextOne
      <4>2. one \in less /\ next \in without
        BY <2>1, <3>1, <3>4
      <4>3. less \ {one} = rest /\ without \ {next} = rest
        OBVIOUS
      <4>4. rest \in SUBSET objects
        OBVIOUS
      <4>5. /\ placements[one].weight \in Nat /\ placements[next].weight \in Nat
            /\ sum[rest] \in Nat
        BY <1>2, <2>1, <3>1, <4>4 DEF Weighted
      <4> HIDE DEF less, without, rest
      <4>6. sum[less] = placements[one].weight + sum[rest]
        BY <1>4, <4>1, <4>2, <4>3
      <4>7. sum[without] = placements[next].weight + sum[rest]
        BY <1>4, <4>1, <4>2, <4>3
      <4>8. sum[some] = placements[one].weight + sum[without]
        BY <3>2, <4>5, <4>6, <4>7
      <4> QED
        BY <4>8 DEF without
    <3> QED
      BY <3>3, <3>4
  <2>2. n \in 0..N
    OBVIOUS
  <2> QED
    BY <2>1, <2>2
<1>5. \A n \in 0..N : n \in T
  <2> HIDE DEF T
  <2> QED
    BY <1>1, <1>3, <1>4, Induct
<1>6. ASSUME NEW some \in SUBSET objects, NEW one \in some
      PROVE  sum[some] = placements[one].weight + sum[some \ {one}]
  <2>1. Cardinality(some) \in 0..N
    <3>1. Cardinality(some) \in Nat /\ Cardinality(some) <= N
      BY <1>1, <1>6, NextOne
    <3> QED
      BY <1>1, <3>1
  <2> QED
    BY <1>5, <2>1
<1> QED
  BY <1>6

(* WeightOf is such a sum.                                                  *)
LEMMA WeightIsSum ==
    ASSUME NEW placements, NEW objects, Weighted(placements, objects)
    PROVE  \E sum : /\ Weighs(sum, placements, objects)
                    /\ WeightOf(placements, objects) = sum[objects]
<1> DEFINE P(f) == f = [some \in SUBSET objects |-> SumOn(f, placements, some)]
           G == CHOOSE f : P(f)
<1>1. WeightOf(placements, objects) = G[objects]
  BY DEF WeightOf, SumOn
<1>2. PICK f : Weighs(f, placements, objects)
  BY SumsAreThere
<1>3. P(f)
  <2>1. \A some \in SUBSET objects : f[some] = SumOn(f, placements, some)
    BY <1>2 DEF Weighs, SumsUp
  <2>2. f = [some \in SUBSET objects |-> f[some]]
    BY <1>2 DEF Weighs
  <2> QED
    BY <2>1, <2>2
<1>4. P(G)
  <2> HIDE DEF P
  <2> QED
    BY <1>3
<1> HIDE DEF G
<1>5. SumsUp(G, placements, objects) /\ SumsUp(f, placements, objects)
  BY <1>2, <1>4 DEF SumsUp, Weighs
<1>6. G[objects] = f[objects]
  BY <1>5, SumsAgree DEF Weighted
<1> QED
  BY <1>1, <1>2, <1>6

(* What nothing weighs, what any objects weigh, and what one more adds.     *)
LEMMA WeightRules ==
    ASSUME NEW placements, NEW objects, Weighted(placements, objects)
    PROVE  /\ WeightOf(placements, {}) = 0
           /\ \A some \in SUBSET objects : WeightOf(placements, some) \in Nat
           /\ \A some \in SUBSET objects, one \in objects : one \notin some =>
                 WeightOf(placements, some \cup {one}) =
                     placements[one].weight + WeightOf(placements, some)
<1>1. PICK f : Weighs(f, placements, objects)
  BY SumsAreThere
<1>2. ASSUME NEW some \in SUBSET objects PROVE WeightOf(placements, some) = f[some]
  <2>1. Weighted(placements, some)
    BY FS_Subset DEF Weighted
  <2>2. PICK g : Weighs(g, placements, some) /\ WeightOf(placements, some) = g[some]
    BY <2>1, WeightIsSum
  <2>3. g[some] = f[some]
    BY <1>1, <2>1, <2>2, SumsAgree DEF Weighs, Weighted
  <2> QED
    BY <2>2, <2>3
<1>3. f[{}] = 0
  BY <1>1 DEF Weighs, SumsUp, SumOn
<1>4. \A some \in SUBSET objects : f[some] \in Nat
  BY <1>1 DEF Weighs
<1>5. ASSUME NEW some \in SUBSET objects, NEW one \in objects, one \notin some
      PROVE  WeightOf(placements, some \cup {one}) =
                 placements[one].weight + WeightOf(placements, some)
  <2>1. some \cup {one} \in SUBSET objects /\ (some \cup {one}) \ {one} = some
    BY <1>5
  <2>2. f[some \cup {one}] = placements[one].weight + f[some]
    BY <1>1, <2>1, SumsTake
  <2> QED
    BY <1>2, <2>1, <2>2
<1> QED
  BY <1>2, <1>3, <1>4, <1>5

(* Only the weights count, not where the objects are placed.                *)
LEMMA WeightsAgree ==
    ASSUME NEW p, NEW q, NEW objects, Weighted(p, objects),
           \A object \in objects : p[object].weight = q[object].weight
    PROVE  WeightOf(p, objects) = WeightOf(q, objects)
<1>1. Weighted(q, objects)
  BY DEF Weighted
<1>2. PICK f : Weighs(f, p, objects) /\ WeightOf(p, objects) = f[objects]
  BY WeightIsSum
<1>3. PICK g : Weighs(g, q, objects) /\ WeightOf(q, objects) = g[objects]
  BY <1>1, WeightIsSum
<1>4. f[objects] = g[objects]
  BY <1>2, <1>3, SumsAgree DEF Weighs, Weighted
<1> QED
  BY <1>2, <1>3, <1>4

-----------------------------------------------------------------------------
\* Placements on some shards, and the loads of these.
PlacementsOn(objects, on) == [objects -> [shard : on, weight : Nat]]
LoadsOn(on) == [on -> Nat]

(* The lightest of some shards is one of them, and none is lighter.         *)
LEMMA LightestIs ==
    ASSUME NEW on \in SUBSET Nat, on # {}, NEW load \in LoadsOn(on)
    PROVE  /\ Lightest(load) \in on
           /\ \A other \in on : load[Lightest(load)] <= load[other]
<1> DEFINE S == {load[shard] : shard \in on}
           L == {shard \in DOMAIN load : \A other \in DOMAIN load : load[shard] <= load[other]}
<1>1. DOMAIN load = on /\ \A shard \in on : load[shard] \in Nat
  BY DEF LoadsOn
<1>2. S \in SUBSET Nat /\ S # {}
  BY <1>1
<1>3. PICK shard \in on : \A x \in S : load[shard] <= x
  <2> HIDE DEF S
  <2>1. Min(S) \in S /\ \A x \in S : Min(S) <= x
    BY <1>2, MinOfSome
  <2> QED
    BY <2>1 DEF S
<1>4. shard \in L
  BY <1>1, <1>3
<1>5. L \in SUBSET Nat /\ L # {}
  BY <1>1, <1>4
<1>6. Min(L) \in L
  <2> HIDE DEF L
  <2> QED
    BY <1>5, MinOfSome
<1>7. Lightest(load) = Min(L)
  BY DEF Lightest
<1> HIDE DEF S
<1>8. Min(L) \in on /\ \A other \in on : load[Min(L)] <= load[other]
  BY <1>1, <1>6
<1> QED
  BY <1>7, <1>8

\* The shards while objects are placed.
Placing(objects, on, ready) ==
    [placements : PlacementsOn(objects, on), load : LoadsOn(on), ready : {ready}]

\* What placing an object changes, and by how much.
Puts(state, new, object, objects, on, relief) ==
    LET light == Lightest(state.load)
        weight == state.placements[object].weight
    IN  /\ light \in on
        /\ \A other \in on : state.load[light] <= state.load[other]
        /\ \A o \in objects :
              /\ new.placements[o].weight = state.placements[o].weight
              /\ new.placements[o].shard =
                    IF o = object THEN light ELSE state.placements[o].shard
        /\ \A s \in on : s # light => new.load[s] = state.load[s]
        /\ new.load[light] <= state.load[light] + weight
        /\ state.load[light] + weight <= new.load[light] + relief

(* What placing an object does to the shards.                               *)
LEMMA PlaceIs ==
    ASSUME NEW on \in SUBSET Nat, on # {}, NEW objects, NEW ready,
           NEW state \in Placing(objects, on, ready), NEW object \in objects,
           NEW target \in Nat
    PROVE  /\ Place(state, object, target) \in Placing(objects, on, ready)
           /\ Puts(state, Place(state, object, target), object, objects, on,
                   target \div Slack)
<1> DEFINE new == Place(state, object, target)
           light == Lightest(state.load)
           weight == state.placements[object].weight
           sum == state.load[light] + weight
           relief == target \div Slack
           place == state.placements[object]
<1>1. /\ state.placements \in PlacementsOn(objects, on)
      /\ state.load \in LoadsOn(on)
      /\ state.ready = ready
      /\ state = [placements |-> state.placements, load |-> state.load,
                  ready |-> state.ready]
  BY DEF Placing
<1>2. light \in on /\ \A other \in on : state.load[light] <= state.load[other]
  BY <1>1, LightestIs
<1>3. place \in [shard : on, weight : Nat] /\ weight \in Nat /\ state.load[light] \in Nat
  BY <1>1, <1>2 DEF PlacementsOn, LoadsOn
<1>4. relief \in Nat /\ relief <= target
  <2>1. Slack \in Nat \ {0}
    BY ShardConstants
  <2>2. relief \in Nat /\ relief * Slack <= target
    BY <2>1, DivIs
  <2>3. relief <= relief * Slack
    <3> HIDE DEF relief
    <3>1. \A a \in Nat, b \in Nat \ {0} : a <= a * b
      OBVIOUS
    <3> QED
      BY <2>1, <2>2, <3>1
  <2>4. relief * Slack \in Nat
    <3> HIDE DEF relief
    <3> QED
      BY <2>1, <2>2
  <2> HIDE DEF relief
  <2> QED
    BY <2>1, <2>2, <2>3, <2>4
<1>5. /\ new.placements = [state.placements EXCEPT ![object] = [@ EXCEPT !.shard = light]]
      /\ new.load = [state.load EXCEPT ![light] = Relieved(@ + weight, target)]
      /\ new.ready = state.ready
      /\ new = [placements |-> new.placements, load |-> new.load, ready |-> new.ready]
  <2>1. new = [state EXCEPT !.placements[object].shard = light,
                            !.load[light] = Relieved(@ + weight, target)]
    BY DEF Place
  <2> HIDE DEF new, light, weight
  <2> QED
    BY <1>1, <2>1
<1>6. Relieved(sum, target) = IF sum > target THEN sum - relief ELSE sum
  BY DEF Relieved
<1> HIDE DEF new, light, relief
<1>7. /\ Relieved(sum, target) \in Nat
      /\ Relieved(sum, target) <= sum
      /\ sum <= Relieved(sum, target) + relief
  <2>1. sum \in Nat
    BY <1>3
  <2> HIDE DEF sum
  <2> QED
    BY <1>4, <1>6, <2>1
<1>8. /\ new.load \in LoadsOn(on)
      /\ new.load[light] = Relieved(sum, target)
      /\ \A s \in on : s # light => new.load[s] = state.load[s]
  <2> HIDE DEF weight
  <2> QED
    BY <1>1, <1>2, <1>5, <1>7 DEF LoadsOn
<1>9. /\ new.placements \in PlacementsOn(objects, on)
      /\ \A o \in objects :
            /\ new.placements[o].weight = state.placements[o].weight
            /\ new.placements[o].shard =
                  IF o = object THEN light ELSE state.placements[o].shard
  <2>1. /\ DOMAIN state.placements = objects
        /\ \A o \in objects : state.placements[o] \in [shard : on, weight : Nat]
    BY <1>1 DEF PlacementsOn
  <2>2. new.placements = [o \in objects |->
              IF o = object THEN [state.placements[o] EXCEPT !.shard = light]
              ELSE state.placements[o]]
    BY <1>5, <2>1
  <2>3. ASSUME NEW o \in objects
        PROVE  /\ [state.placements[o] EXCEPT !.shard = light] \in [shard : on, weight : Nat]
               /\ [state.placements[o] EXCEPT !.shard = light].shard = light
               /\ [state.placements[o] EXCEPT !.shard = light].weight =
                      state.placements[o].weight
    BY <1>2, <2>1
  <2> QED
    BY <2>1, <2>2, <2>3 DEF PlacementsOn
<1>10. new \in Placing(objects, on, ready)
  BY <1>1, <1>5, <1>8, <1>9 DEF Placing
<1> QED
  BY <1>2, <1>7, <1>8, <1>9, <1>10 DEF Puts, new, light, relief

\* The shards REBALANCE goes through.
PlacedLists(start, order, target) ==
    CHOOSE after : after = [n \in 0..Len(order) |->
                               IF n = 0 THEN start
                               ELSE Place(after[n - 1], order[n], target)]

PlacesAll(after, start, order, n, target) ==
    /\ after[0] = start
    /\ after[n] = PlacedAnew(start, order, target)
    /\ \A k \in 1..n : after[k] = Place(after[k - 1], order[k], target)

(* They are there, and each comes from the one before.                      *)
LEMMA PlacedAnewIs ==
    ASSUME NEW on \in SUBSET Nat, on # {}, NEW objects, NEW ready,
           NEW start \in Placing(objects, on, ready), NEW target \in Nat,
           NEW n \in Nat, NEW order \in [1..n -> objects]
    PROVE  \E after \in [0..n -> Placing(objects, on, ready)] :
              PlacesAll(after, start, order, n, target)
<1> DEFINE V == Placing(objects, on, ready)
           G == PlacedLists(start, order, target)
           On(x, k) == Place(x, order[k], target)
           step == [k \in 1..n |-> [x \in V |-> On(x, k)]]
           P(f) == f = [k \in 0..n |-> IF k = 0 THEN start ELSE On(f[k - 1], k)]
<1>1. ASSUME NEW k \in 1..n, NEW x \in V PROVE On(x, k) \in V
  BY PlaceIs
<1>2. Len(order) = n
  OBVIOUS
<1>3. G = CHOOSE g : P(g)
  BY <1>2 DEF PlacedLists
<1>4. PlacedAnew(start, order, target) = G[n]
  BY <1>2 DEF PlacedAnew, PlacedLists
<1>5. start \in V
  OBVIOUS
<1> HIDE DEF V, On, G
<1>6. step \in [1..n -> [V -> V]]
  BY <1>1
<1>7. \A k \in 1..n : \A x \in V : step[k][x] = On(x, k)
  OBVIOUS
<1> HIDE DEF step
<1>8. PICK f : f \in RunsOf(n, V, start, step)
  BY <1>5, <1>6, Recursion
<1>9. P(f)
  <2>1. \A k \in 0..n : f[k] = IF k = 0 THEN start ELSE On(f[k - 1], k)
    <3>1. f[0] = start
      BY <1>8 DEF RunsOf
    <3>2. ASSUME NEW k \in 1..n PROVE f[k] = On(f[k - 1], k)
      <4>1. f[k - 1] \in V /\ f[k] = step[k][f[k - 1]]
        BY <1>8, RunSteps
      <4> QED
        BY <1>7, <4>1
    <3> QED
      BY <3>1, <3>2
  <2>2. f = [k \in 0..n |-> f[k]]
    BY <1>8 DEF RunsOf
  <2> QED
    BY <2>1, <2>2
<1>10. P(G)
  <2> HIDE DEF P
  <2> QED
    BY <1>3, <1>9
<1>11. G \in RunsOf(n, V, start, step)
  <2>1. \A k \in 1..n : G[k - 1] \in V => G[k] = step[k][G[k - 1]]
    BY <1>7, <1>10
  <2>2. DOMAIN G = 0..n /\ G = [k \in DOMAIN G |-> G[k]]
    BY <1>10
  <2>3. G[0] = start
    BY <1>10
  <2> QED
    BY <1>5, <1>6, <2>1, <2>2, <2>3, RunIs
<1>12. G \in [0..n -> V] /\ G[0] = start
  BY <1>11 DEF RunsOf
<1>13. \A k \in 1..n : G[k] = On(G[k - 1], k)
  <2> TAKE k \in 1..n
  <2>1. G[k - 1] \in V /\ G[k] = step[k][G[k - 1]]
    BY <1>5, <1>11, RunSteps
  <2> QED
    BY <1>7, <2>1
<1> QED
  BY <1>4, <1>12, <1>13 DEF PlacesAll, V, On

\* The objects of the first so many that were placed on a shard.
Gone(state, order, k, shard) ==
    {object \in {order[i] : i \in 1..k} : state.placements[object].shard = shard}

\* What LoadsAccount says of the loads of so many objects.
LoadTells(state, p, order, k, on, relief, shard) ==
    LET there == Gone(state, order, k, shard)
    IN  /\ state.load[shard] <= WeightOf(p, there)
        /\ WeightOf(p, there) <= state.load[shard] + relief * Cardinality(there)
        /\ relief = 0 /\ there # {} =>
              \A other \in on : \E object \in there :
                  WeightOf(p, there) <=
                      WeightOf(p, Gone(state, order, k, other)) + p[object].weight

LoadsTell(state, p, order, k, on, relief) ==
    \A shard \in on : LoadTells(state, p, order, k, on, relief, shard)

(* One more object, placed on the lightest shard, keeps the account.        *)
LEMMA LoadsTellOn ==
    ASSUME NEW on \in SUBSET Nat, on # {}, NEW objects, IsFiniteSet(objects),
           NEW p \in PlacementsOn(objects, on), NEW ready, NEW target \in Nat,
           NEW n \in Nat, NEW order \in [1..n -> objects],
           \A i, j \in 1..n : i # j => order[i] # order[j],
           NEW k \in 1..n,
           NEW state \in Placing(objects, on, ready), NEW new,
           new = Place(state, order[k], target),
           \A o \in objects : state.placements[o].weight = p[o].weight,
           LoadsTell(state, p, order, k - 1, on, target \div Slack)
    PROVE  LoadsTell(new, p, order, k, on, target \div Slack)
<1> DEFINE x == order[k]
           light == Lightest(state.load)
           weight == p[x].weight
           relief == target \div Slack
           Was(s) == Gone(state, order, k - 1, s)
           Is(s) == Gone(new, order, k, s)
           W(set) == WeightOf(p, set)
<1>1. x \in objects /\ k - 1 \in Nat
  OBVIOUS
<1>2. /\ new \in Placing(objects, on, ready)
      /\ light \in on
      /\ \A other \in on : state.load[light] <= state.load[other]
      /\ \A o \in objects :
            new.placements[o].shard =
                IF o = x THEN light ELSE state.placements[o].shard
      /\ \A s \in on : s # light => new.load[s] = state.load[s]
      /\ new.load[light] <= state.load[light] + weight
      /\ state.load[light] + weight <= new.load[light] + relief
  <2>1. state.placements[x].weight = weight
    BY <1>1
  <2>2. new \in Placing(objects, on, ready) /\ Puts(state, new, x, objects, on, relief)
    <3>1. new = Place(state, x, target)
      OBVIOUS
    <3> HIDE DEF x
    <3> QED
      BY <1>1, <3>1, PlaceIs
  <2> HIDE DEF weight, x, relief
  <2> QED
    BY <2>1, <2>2 DEF Puts, light
<1>3. relief \in Nat
  BY ShardConstants, DivIs
<1>4. Weighted(p, objects) /\ weight \in Nat
  BY <1>1 DEF Weighted, PlacementsOn
<1>5. \A s \in on : state.load[s] \in Nat /\ new.load[s] \in Nat
  BY <1>2 DEF Placing, LoadsOn
<1>6. \A s : Was(s) \in SUBSET objects /\ x \notin Was(s)
  <2>1. \A i \in 1..(k - 1) : i \in 1..n /\ order[i] \in objects /\ order[i] # x
    OBVIOUS
  <2> QED
    BY <2>1 DEF Gone
<1>7. \A s \in on : Is(s) = IF s = light THEN Was(s) \cup {x} ELSE Was(s)
  <2>1. {order[i] : i \in 1..k} = {order[i] : i \in 1..(k - 1)} \cup {x}
    <3>1. 1..k = (1..(k - 1)) \cup {k}
      OBVIOUS
    <3> QED
      BY <3>1
  <2>2. \A i \in 1..(k - 1) : order[i] \in objects /\ order[i] # x
    OBVIOUS
  <2>3. \A o \in {order[i] : i \in 1..(k - 1)} :
           o \in objects /\ o # x /\ new.placements[o].shard = state.placements[o].shard
    BY <1>2, <2>2
  <2>4. new.placements[x].shard = light
    BY <1>1, <1>2
  <2>5. ASSUME NEW s \in on, NEW o
        PROVE  o \in Is(s) <=> o \in Was(s) \/ (o = x /\ s = light)
    BY <2>1, <2>3, <2>4 DEF Gone
  <2> HIDE DEF Is, Was
  <2> QED
    BY <2>5
<1>8. \A s \in on : W(Was(s)) \in Nat /\ Cardinality(Was(s)) \in Nat
  <2>1. \A s : IsFiniteSet(Was(s))
    BY <1>6, FS_Subset
  <2> QED
    BY <1>4, <1>6, <2>1, WeightRules, FS_CardinalityType
<1>9. /\ W(Is(light)) = weight + W(Was(light))
      /\ Cardinality(Is(light)) = Cardinality(Was(light)) + 1
  <2>1. Is(light) = Was(light) \cup {x}
    BY <1>2, <1>7
  <2>2. IsFiniteSet(Was(light)) /\ x \notin Was(light) /\ Was(light) \in SUBSET objects
    BY <1>6, FS_Subset
  <2> HIDE DEF Is, Was, x
  <2>3. W(Was(light) \cup {x}) = p[x].weight + W(Was(light))
    BY <1>1, <1>4, <2>2, WeightRules
  <2>4. Cardinality(Was(light) \cup {x}) = Cardinality(Was(light)) + 1
    BY <2>2, FS_AddElement
  <2> QED
    BY <2>1, <2>3, <2>4
<1>10. \A s \in on :
          /\ state.load[s] <= W(Was(s))
          /\ W(Was(s)) <= state.load[s] + relief * Cardinality(Was(s))
          /\ relief = 0 /\ Was(s) # {} =>
                \A other \in on : \E o \in Was(s) :
                    W(Was(s)) <= W(Was(other)) + p[o].weight
  BY DEF LoadsTell, LoadTells
<1>11. \A s \in on : s # light => Is(s) = Was(s)
  BY <1>7
<1>12. x \in Is(light)
  BY <1>2, <1>7
<1>13. \A o \in objects : p[o].weight \in Nat
  BY <1>4 DEF Weighted
<1> HIDE DEF x, light, weight, relief, Was, Is, W
<1>14. relief = 0 => \A s \in on : W(Was(s)) = state.load[s]
  <2>1. \A c \in Nat : 0 * c = 0
    OBVIOUS
  <2> QED
    BY <1>5, <1>8, <1>10, <2>1
<1>15. ASSUME NEW s \in on PROVE LoadTells(new, p, order, k, on, relief, s)
  <2>1. /\ new.load[s] <= W(Is(s))
        /\ W(Is(s)) <= new.load[s] + relief * Cardinality(Is(s))
    <3>1. CASE s = light
      <4> DEFINE c == Cardinality(Was(light))
      <4>1. c \in Nat /\ W(Was(light)) \in Nat
        BY <1>2, <1>8
      <4>2. relief * (c + 1) = relief * c + relief /\ relief * c \in Nat
        BY <1>3, <4>1
      <4>3. /\ state.load[light] <= W(Was(light))
            /\ W(Was(light)) <= state.load[light] + relief * c
        BY <1>2, <1>10
      <4>4. Cardinality(Is(light)) = c + 1
        BY <1>9
      <4> HIDE DEF c
      <4> DEFINE m == relief * c
                 a == W(Was(light))
                 b == state.load[light]
                 d == new.load[light]
      <4>5. /\ a \in Nat /\ b \in Nat /\ d \in Nat /\ m \in Nat
            /\ b <= a /\ a <= b + m /\ d <= b + weight /\ b + weight <= d + relief
        BY <1>2, <1>5, <4>1, <4>2, <4>3
      <4>6. W(Is(light)) = weight + a /\ relief * Cardinality(Is(light)) = m + relief
        BY <1>9, <4>2, <4>4
      <4> HIDE DEF m, a, b
      <4>7. d <= weight + a /\ weight + a <= d + (m + relief)
        <5> HIDE DEF d
        <5> QED
          BY <1>3, <1>4, <4>5
      <4> QED
        BY <3>1, <4>6, <4>7
    <3>2. CASE s # light
      BY <1>2, <1>10, <1>11, <3>2
    <3> QED
      BY <3>1, <3>2
  <2>2. ASSUME relief = 0, Is(s) # {}, NEW other \in on
        PROVE  \E o \in Is(s) : W(Is(s)) <= W(Is(other)) + p[o].weight
    <3>1. W(Was(other)) \in Nat /\ W(Was(s)) \in Nat /\ W(Was(light)) \in Nat
      BY <1>2, <1>8
    <3>2. W(Was(other)) <= W(Is(other))
      <4>1. CASE other = light
        BY <1>4, <1>9, <3>1, <4>1
      <4>2. CASE other # light
        BY <1>11, <3>1, <4>2
      <4> QED
        BY <4>1, <4>2
    <3>3. W(Is(other)) \in Nat
      <4>1. CASE other = light
        BY <1>4, <1>9, <3>1, <4>1
      <4>2. CASE other # light
        BY <1>11, <3>1, <4>2
      <4> QED
        BY <4>1, <4>2
    <3>4. CASE s = light
      <4>1. W(Was(light)) <= W(Was(other))
        BY <1>2, <1>14, <2>2
      <4>2. W(Is(s)) = weight + W(Was(light)) /\ weight = p[x].weight /\ x \in Is(s)
        BY <1>9, <1>12, <3>4 DEF weight
      <4>3. weight + W(Was(light)) <= W(Is(other)) + weight
        BY <1>4, <3>1, <3>2, <3>3, <4>1
      <4> QED
        BY <4>2, <4>3
    <3>5. CASE s # light
      <4>1. Is(s) = Was(s)
        BY <1>11, <3>5
      <4>2. PICK o \in Was(s) : W(Was(s)) <= W(Was(other)) + p[o].weight
        BY <1>10, <2>2, <4>1
      <4>3. p[o].weight \in Nat
        BY <1>6, <1>13
      <4>4. W(Was(s)) <= W(Is(other)) + p[o].weight
        <5> DEFINE a == W(Was(s))
                   b == W(Was(other))
                   d == W(Is(other))
                   e == p[o].weight
        <5>1. a \in Nat /\ b \in Nat /\ d \in Nat /\ e \in Nat
          BY <3>1, <3>3, <4>3
        <5>2. b <= d /\ a <= b + e
          BY <3>2, <4>2
        <5> HIDE DEF a, b, d, e
        <5>3. a <= d + e
          BY <5>1, <5>2
        <5> QED
          BY <5>3 DEF a, d, e
      <4> QED
        BY <4>1, <4>4
    <3> QED
      BY <3>4, <3>5
  <2> QED
    BY <2>1, <2>2 DEF LoadTells, Is, W
<1> QED
  BY <1>15 DEF LoadsTell, relief

AllPlaced(new, p, order, n, objects, on, ready, relief) ==
    /\ new \in Placing(objects, on, ready)
    /\ \A o \in objects : new.placements[o].weight = p[o].weight
    /\ LoadsTell(new, p, order, n, on, relief)

(* REBALANCE keeps the account: every object is placed once, on the shard   *)
(* that was the lightest then.                                              *)
LEMMA PlacedAnewTells ==
    ASSUME NEW on \in SUBSET Nat, on # {}, NEW objects, IsFiniteSet(objects),
           NEW p \in PlacementsOn(objects, on), NEW ready, NEW target \in Nat,
           NEW n \in Nat, NEW order \in [1..n -> objects],
           \A i, j \in 1..n : i # j => order[i] # order[j],
           NEW start, start = [placements |-> p, load |-> [s \in on |-> 0], ready |-> ready]
    PROVE  AllPlaced(PlacedAnew(start, order, target), p, order, n, objects, on,
                     ready, target \div Slack)
<1> DEFINE relief == target \div Slack
<1>1. start \in Placing(objects, on, ready)
  <2>1. [s \in on |-> 0] \in LoadsOn(on)
    BY DEF LoadsOn
  <2> QED
    BY <2>1 DEF Placing
<1>2. PICK after \in [0..n -> Placing(objects, on, ready)] :
        /\ after[0] = start
        /\ after[n] = PlacedAnew(start, order, target)
        /\ \A k \in 1..n : after[k] = Place(after[k - 1], order[k], target)
  <2>1. \E after \in [0..n -> Placing(objects, on, ready)] :
          PlacesAll(after, start, order, n, target)
    BY <1>1, PlacedAnewIs
  <2> QED
    BY <2>1 DEF PlacesAll
<1> DEFINE T == {k \in 0..n :
                    /\ \A o \in objects : after[k].placements[o].weight = p[o].weight
                    /\ LoadsTell(after[k], p, order, k, on, relief)}
<1>3. 0 \in T
  <2>1. \A o \in objects : after[0].placements[o].weight = p[o].weight
    BY <1>2
  <2>2. ASSUME NEW s \in on PROVE LoadTells(after[0], p, order, 0, on, relief, s)
    <3>1. Gone(after[0], order, 0, s) = {}
      BY DEF Gone
    <3>2. WeightOf(p, {}) = 0 /\ Cardinality({}) = 0
      <4>1. Weighted(p, objects)
        BY DEF Weighted, PlacementsOn
      <4> QED
        BY <4>1, WeightRules, FS_EmptySet
    <3>3. after[0].load[s] = 0
      BY <1>2
    <3>4. relief \in Nat
      BY ShardConstants, DivIs
    <3> HIDE DEF relief
    <3>5. relief * 0 = 0
      BY <3>4
    <3> DEFINE there == Gone(after[0], order, 0, s)
    <3>6. /\ there = {}
          /\ after[0].load[s] <= WeightOf(p, there)
          /\ WeightOf(p, there) <= after[0].load[s] + relief * Cardinality(there)
      <4>1. there = {} /\ WeightOf(p, there) = 0 /\ Cardinality(there) = 0
        BY <3>1, <3>2
      <4> HIDE DEF there
      <4> QED
        BY <3>3, <3>5, <4>1
    <3> QED
      BY <3>6 DEF LoadTells
  <2> HIDE DEF relief
  <2> QED
    BY <2>1, <2>2 DEF LoadsTell
<1>4. ASSUME NEW k \in 1..n, k - 1 \in T PROVE k \in T
  <2>1. /\ \A o \in objects : after[k - 1].placements[o].weight = p[o].weight
        /\ LoadsTell(after[k - 1], p, order, k - 1, on, relief)
    BY <1>4
  <2>2. after[k - 1] \in Placing(objects, on, ready) /\ order[k] \in objects
    <3>1. k - 1 \in 0..n
      OBVIOUS
    <3> QED
      BY <1>2, <3>1
  <2>3. after[k] = Place(after[k - 1], order[k], target)
    BY <1>2
  <2>4. \A o \in objects :
           after[k].placements[o].weight = after[k - 1].placements[o].weight
    <3>1. Puts(after[k - 1], after[k], order[k], objects, on, relief)
      BY <2>2, <2>3, PlaceIs
    <3> HIDE DEF relief
    <3> QED
      BY <3>1 DEF Puts
  <2>5. LoadsTell(after[k], p, order, k, on, relief)
    BY <2>1, <2>2, <2>3, LoadsTellOn
  <2>6. k \in 0..n
    OBVIOUS
  <2> HIDE DEF relief
  <2> QED
    BY <2>1, <2>4, <2>5, <2>6
<1>5. n \in T
  <2> HIDE DEF T
  <2>1. \A k \in 0..n : k \in T
    BY <1>3, <1>4, Induct
  <2> QED
    BY <2>1
<1>6. after[n] \in Placing(objects, on, ready)
  BY <1>2
<1> QED
  BY <1>2, <1>5, <1>6 DEF AllPlaced

\* What LoadsAccount says, of any shards and target.
AccountOf(state, aim) ==
    LET relief == aim \div Slack
        Objects(shard) == Placed(state.placements, shard)
        Weight(shard)  == WeightOf(state.placements, Objects(shard))
    IN  \A shard \in DOMAIN state.load :
          /\ state.load[shard] <= Weight(shard)
          /\ Weight(shard) - state.load[shard] <= relief * Cardinality(Objects(shard))
          /\ aim # 0 /\ relief = 0 =>
                \A other \in DOMAIN state.load : Objects(shard) # {} =>
                    Weight(shard) <= Weight(other)
                        + Max({state.placements[o].weight : o \in Objects(shard)})

(* What the loads tell of the objects that were placed in an order, they    *)
(* tell of all objects there are.                                           *)
LEMMA AllTell ==
    ASSUME NEW state, NEW aim \in Nat, NEW on \in SUBSET Nat, NEW objects, IsFiniteSet(objects),
           NEW p \in PlacementsOn(objects, on), NEW n \in Nat,
           NEW order \in [1..n -> objects],
           \A o \in objects : \E i \in 1..n : order[i] = o,
           state.placements \in PlacementsOn(objects, on),
           state.load \in LoadsOn(on),
           \A o \in objects : state.placements[o].weight = p[o].weight,
           LoadsTell(state, p, order, n, on, aim \div Slack)
    PROVE  AccountOf(state, aim)
<1> DEFINE relief == aim \div Slack
           q == state.placements
           There(s) == Placed(q, s)
<1>1. DOMAIN q = objects /\ DOMAIN state.load = on
  BY DEF PlacementsOn, LoadsOn
<1>2. Weighted(p, objects) /\ Weighted(q, objects)
  BY DEF PlacementsOn, Weighted
<1>3. \A s : Gone(state, order, n, s) = There(s) /\ There(s) \in SUBSET objects
  <2>1. {order[i] : i \in 1..n} = objects
    OBVIOUS
  <2> QED
    BY <1>1, <2>1 DEF Gone, Placed
<1>4. \A s : WeightOf(q, There(s)) = WeightOf(p, There(s)) /\ WeightOf(q, There(s)) \in Nat
  <2>1. ASSUME NEW s
        PROVE  WeightOf(q, There(s)) = WeightOf(p, There(s)) /\ WeightOf(q, There(s)) \in Nat
    <3>1. There(s) \in SUBSET objects
      BY <1>3
    <3>2. Weighted(p, There(s))
      BY <1>2, <3>1, FS_Subset DEF Weighted
    <3>3. \A o \in There(s) : p[o].weight = q[o].weight
      BY <3>1
    <3> HIDE DEF There, q
    <3> QED
      BY <1>2, <3>1, <3>2, <3>3, WeightsAgree, WeightRules
  <2> QED
    BY <2>1
<1>5. ASSUME NEW s, NEW o \in There(s)
      PROVE  /\ Max({q[x].weight : x \in There(s)}) \in Nat
             /\ Max({q[x].weight : x \in There(s)}) >= q[o].weight
             /\ q[o].weight \in Nat
  <2> DEFINE set == {q[x].weight : x \in There(s)}
             total == WeightOf(q, There(s))
  <2>1. \A x \in There(s) : q[x].weight \in 0..total
    <3>1. ASSUME NEW x \in There(s) PROVE q[x].weight \in 0..total
      <4> DEFINE rest == There(s) \ {x}
      <4>1. /\ x \in objects /\ rest \in SUBSET objects
            /\ x \notin rest /\ rest \cup {x} = There(s)
        BY <1>3
      <4> HIDE DEF rest
      <4>2. /\ WeightOf(q, rest) \in Nat
            /\ WeightOf(q, rest \cup {x}) = q[x].weight + WeightOf(q, rest)
        <5>1. /\ \A some \in SUBSET objects : WeightOf(q, some) \in Nat
              /\ \A some \in SUBSET objects, one \in objects : one \notin some =>
                    WeightOf(q, some \cup {one}) = q[one].weight + WeightOf(q, some)
          <6> HIDE DEF q
          <6> QED
            BY <1>2, WeightRules
        <5> HIDE DEF q, There
        <5> QED
          BY <4>1, <5>1
      <4>3. q[x].weight \in Nat
        BY <1>2, <4>1 DEF Weighted
      <4>4. total = q[x].weight + WeightOf(q, rest)
        BY <4>1, <4>2
      <4> HIDE DEF total, q
      <4> QED
        BY <4>2, <4>3, <4>4
    <3> QED
      BY <3>1
  <2>2. total \in Nat
    BY <1>4
  <2> HIDE DEF total, There, q
  <2>3. set \in SUBSET (0..total) /\ q[o].weight \in set
    BY <1>5, <2>1
  <2>4. set # {}
    BY <2>3
  <2> HIDE DEF set
  <2>5. Max(set) \in set /\ Max(set) >= q[o].weight
    BY <2>2, <2>3, <2>4, MaxOfSome
  <2>6. \A x \in set : x \in Nat
    BY <2>2, <2>3
  <2>7. Max(set) \in Nat /\ q[o].weight \in Nat
    BY <2>3, <2>5, <2>6
  <2> QED
    BY <2>5, <2>7 DEF set
<1>6. \A s \in on : LoadTells(state, p, order, n, on, relief, s)
  BY DEF LoadsTell
<1>7. /\ \A s \in on : state.load[s] \in Nat
      /\ \A s : Cardinality(There(s)) \in Nat
      /\ relief \in Int
  <2>1. \A s : IsFiniteSet(There(s))
    BY <1>3, FS_Subset
  <2>2. relief \in Nat
    BY ShardConstants, DivIs
  <2>3. \A s \in on : state.load[s] \in Nat
    BY DEF LoadsOn
  <2> HIDE DEF relief, There
  <2>4. \A s : Cardinality(There(s)) \in Nat
    BY <2>1, FS_CardinalityType
  <2> QED
    BY <2>2, <2>3, <2>4
<1>8. ASSUME NEW s \in on
      PROVE  /\ state.load[s] <= WeightOf(q, There(s))
             /\ WeightOf(q, There(s)) - state.load[s] <= relief * Cardinality(There(s))
             /\ aim # 0 /\ relief = 0 =>
                   \A other \in on : There(s) # {} =>
                       WeightOf(q, There(s)) <= WeightOf(q, There(other))
                           + Max({q[x].weight : x \in There(s)})
  <2>1. /\ state.load[s] <= WeightOf(q, There(s))
        /\ WeightOf(q, There(s)) <= state.load[s] + relief * Cardinality(There(s))
        /\ relief = 0 /\ There(s) # {} =>
              \A other \in on : \E o \in There(s) :
                  WeightOf(q, There(s)) <= WeightOf(q, There(other)) + p[o].weight
    <3>1. \A t : /\ Gone(state, order, n, t) = There(t)
                 /\ WeightOf(p, Gone(state, order, n, t)) = WeightOf(q, There(t))
      <4> HIDE DEF There, q
      <4> QED
        BY <1>3, <1>4
    <3>2. LoadTells(state, p, order, n, on, relief, s)
      BY <1>6
    <3> HIDE DEF relief, There, q
    <3> QED
      BY <3>1, <3>2 DEF LoadTells
  <2>2. \A a, b \in Nat, m \in Int : a <= b + m => a - b <= m
    OBVIOUS
  <2>3. relief * Cardinality(There(s)) \in Int
    <3> HIDE DEF relief, There
    <3> QED
      BY <1>7
  <2>4. ASSUME relief = 0, There(s) # {}, NEW other \in on
        PROVE  WeightOf(q, There(s)) <= WeightOf(q, There(other))
                   + Max({q[x].weight : x \in There(s)})
    <3>1. PICK o \in There(s) :
             WeightOf(q, There(s)) <= WeightOf(q, There(other)) + p[o].weight
      BY <2>1, <2>4
    <3>2. q[o].weight = p[o].weight
      BY <1>3
    <3>3. \A a, b, c, d \in Nat : a <= b + c /\ d >= c => a <= b + d
      OBVIOUS
    <3> DEFINE m == Max({q[x].weight : x \in There(s)})
    <3>4. m \in Nat /\ m >= q[o].weight /\ q[o].weight \in Nat
      BY <1>5
    <3>5. WeightOf(q, There(s)) \in Nat /\ WeightOf(q, There(other)) \in Nat
      BY <1>4
    <3> HIDE DEF m, There, q
    <3>6. WeightOf(q, There(s)) <= WeightOf(q, There(other)) + m
      BY <3>1, <3>2, <3>3, <3>4, <3>5
    <3> QED
      BY <3>6 DEF m
  <2>5. state.load[s] \in Nat /\ WeightOf(q, There(s)) \in Nat
    BY <1>4, <1>7
  <2> HIDE DEF relief, There, q
  <2> QED
    BY <2>1, <2>2, <2>3, <2>4, <2>5
<1> QED
  BY <1>1, <1>8 DEF AccountOf

-----------------------------------------------------------------------------
ShardInv ==
    /\ shards = [placements |-> shards.placements, load |-> shards.load,
                 ready |-> shards.ready]
    /\ IsFiniteSet(DOMAIN shards.placements)
    /\ DOMAIN shards.load \in SUBSET Nat
    /\ shards.placements \in PlacementsOn(DOMAIN shards.placements, DOMAIN shards.load)
    /\ shards.load \in LoadsOn(DOMAIN shards.load)
    /\ shards.ready => DOMAIN shards.load # {}
    /\ LoadsAccount

(* At first there are no shards.                                            *)
LEMMA ShardStart ==
    ShardInit => ShardInv
<1> SUFFICES ASSUME ShardInit PROVE ShardInv
  OBVIOUS
<1>1. /\ shards.placements = Empty /\ shards.load = Empty /\ shards.ready = FALSE
      /\ shards = [placements |-> shards.placements, load |-> shards.load,
                   ready |-> shards.ready]
  BY DEF ShardInit
<1>2. DOMAIN Empty = {} /\ Empty = [x \in {} |-> Empty[x]]
  BY DEF Empty
<1>3. IsFiniteSet({})
  BY FS_EmptySet
<1>4. Empty \in PlacementsOn({}, {}) /\ Empty \in LoadsOn({})
  BY <1>2 DEF PlacementsOn, LoadsOn
<1>5. LoadsAccount
  BY <1>1, <1>2 DEF LoadsAccount
<1> QED
  BY <1>1, <1>2, <1>3, <1>4, <1>5 DEF ShardInv

(* SHARD weighs what is there.                                              *)
LEMMA WeightsAre ==
    ASSUME HoldInv
    PROVE  /\ IsFiniteSet(DOMAIN Weights)
           /\ \A object \in DOMAIN Weights : Weights[object] \in Nat /\ object[2] \in Nat
<1> DEFINE D == {"doc"} \X DOMAIN documents
           P == {"page"} \X DOMAIN pages
<1>1. DOMAIN Weights = D \cup P
  BY DEF Weights
<1>2. IsFiniteSet({"doc"}) /\ IsFiniteSet({"page"})
  BY FS_Singleton
<1>3. IsFiniteSet(D) /\ IsFiniteSet(P)
  BY <1>2, SizesAre, FS_Product
<1>4. IsFiniteSet(D \cup P)
  <2> HIDE DEF D, P
  <2> QED
    BY <1>3, FS_Union
<1>5. ASSUME NEW object \in D PROVE Weights[object] \in Nat /\ object[2] \in Nat
  <2>1. object[1] = "doc" /\ object[2] \in DOMAIN documents
    BY <1>5
  <2>2. Weights[object] =
           SizeOf(documents[object[2]].title) + SizeOf(documents[object[2]].body)
    BY <2>1 DEF Weights
  <2> DEFINE id == object[2]
  <2> HIDE DEF id
  <2>3. id \in Nat /\ SizeOf(documents[id].title) \in Nat /\ SizeOf(documents[id].body) \in Nat
    BY <2>1, SizesAre DEF id
  <2>4. Weights[object] = SizeOf(documents[id].title) + SizeOf(documents[id].body)
    BY <2>2 DEF id
  <2> QED
    BY <2>3, <2>4 DEF id
<1>6. ASSUME NEW object \in P PROVE Weights[object] \in Nat /\ object[2] \in Nat
  <2>1. object[1] = "page" /\ object[2] \in DOMAIN pages
    BY <1>6
  <2>2. Weights[object] = SizeOf(pages[object[2]].bytes)
    BY <2>1 DEF Weights
  <2> DEFINE id == object[2]
  <2> HIDE DEF id
  <2>3. id \in Nat /\ SizeOf(pages[id].bytes) \in Nat
    BY <2>1, SizesAre DEF id
  <2> QED
    BY <2>2, <2>3 DEF id
<1> HIDE DEF D, P
<1> QED
  BY <1>1, <1>4, <1>5, <1>6

(* What leaves the shards alone leaves their invariant true.                *)
LEMMA ShardsStay ==
    ShardInv /\ UNCHANGED shardVars => ShardInv'
<1> SUFFICES ASSUME ShardInv, UNCHANGED shardVars PROVE ShardInv'
  OBVIOUS
<1>1. shards' = shards /\ aimed' = aimed
  BY DEF shardVars
<1>2. LoadsAccount'
  BY <1>1 DEF ShardInv, LoadsAccount
<1> QED
  BY <1>1, <1>2 DEF ShardInv

(* Commands on the shards keep their invariant.                             *)
LEMMA ShardStep ==
    ShardInv /\ HoldInv /\ ShardNext => ShardInv'
<1> SUFFICES ASSUME ShardInv, HoldInv, ShardNext PROVE ShardInv'
  OBVIOUS
<1>1. ASSUME UNCHANGED shardVars PROVE ShardInv'
  BY <1>1, ShardsStay
<1>2. ASSUME NEW count \in ShardCounts, AssignShards(count), status' # "limit"
      PROVE  ShardInv'
  <2> DEFINE on == 0..(count - 1)
             objects == DOMAIN Weights
             p == [object \in objects |->
                      [shard |-> object[2] % count, weight |-> Weights[object]]]
             l == [shard \in on |-> WeightOf(p, Placed(p, shard))]
  <2>1. count \in 1..ShardLimit /\ count \in Nat \ {0}
    BY <1>2, ShardConstants DEF AssignShards, ShardCheck
  <2>2. /\ shards'.placements = p /\ shards'.load = l /\ aimed' = 0
        /\ shards' = [placements |-> shards'.placements, load |-> shards'.load,
                      ready |-> shards'.ready]
    BY <1>2 DEF AssignShards
  <2>3. /\ IsFiniteSet(objects)
        /\ \A object \in objects : Weights[object] \in Nat /\ object[2] \in Nat
    BY WeightsAre
  <2>4. on \in SUBSET Nat /\ on # {}
    BY <2>1
  <2>5. p \in PlacementsOn(objects, on)
    <3>1. ASSUME NEW object \in objects PROVE object[2] % count \in on
      <4> DEFINE id == object[2]
      <4>1. id \in Nat
        BY <2>3
      <4> HIDE DEF id
      <4>2. id % count \in 0..(count - 1)
        BY <2>1, <4>1
      <4> QED
        BY <4>2 DEF id
    <3> HIDE DEF on, objects
    <3> QED
      BY <2>3, <3>1 DEF PlacementsOn
  <2>6. Weighted(p, objects)
    <3> HIDE DEF objects
    <3> QED
      BY <2>3 DEF Weighted
  <2>7. \A s : Placed(p, s) \in SUBSET objects
    <3> HIDE DEF objects
    <3> QED
      BY DEF Placed
  <2>8. DOMAIN p = objects /\ DOMAIN l = on
    OBVIOUS
  <2> HIDE DEF on, objects, p
  <2>9. \A s \in on : l[s] = WeightOf(p, Placed(p, s)) /\ l[s] \in Nat
    BY <2>6, <2>7, WeightRules
  <2>10. l \in LoadsOn(on)
    BY <2>9 DEF LoadsOn
  <2> HIDE DEF l
  <2>11. LoadsAccount'
    <3>1. 0 \div Slack = 0
      BY ShardConstants
    <3>2. ASSUME NEW s \in on
          PROVE  /\ l[s] <= WeightOf(p, Placed(p, s))
                 /\ WeightOf(p, Placed(p, s)) - l[s] <= 0 * Cardinality(Placed(p, s))
      <4>1. IsFiniteSet(Placed(p, s))
        BY <2>3, <2>7, FS_Subset
      <4>2. Cardinality(Placed(p, s)) \in Nat
        BY <4>1, FS_CardinalityType
      <4>3. \A c \in Nat : 0 * c = 0
        OBVIOUS
      <4> QED
        BY <2>9, <4>2, <4>3
    <3> QED
      BY <2>2, <2>8, <3>1, <3>2 DEF LoadsAccount
  <2> QED
    BY <2>2, <2>3, <2>4, <2>5, <2>8, <2>10, <2>11 DEF ShardInv
<1>3. ASSUME NEW target \in ShardTargets, RebalanceShards(target), status' = "ok"
      PROVE  ShardInv'
  <2> DEFINE p == shards.placements
             on == DOMAIN shards.load
             objects == DOMAIN p
             n == Cardinality(objects)
             start == [placements |-> p, load |-> [s \in on |-> 0], ready |-> shards.ready]
             relief == target \div Slack
  <2>1. /\ shards = [placements |-> shards.placements, load |-> shards.load,
                     ready |-> shards.ready]
        /\ IsFiniteSet(objects) /\ on \in SUBSET Nat /\ p \in PlacementsOn(objects, on)
        /\ shards.ready => on # {}
    BY DEF ShardInv
  <2>2. on # {} /\ target \in Nat
    BY <1>3, <2>1, ShardConstants DEF RebalanceShards, RebalanceCheck
  <2>3. [shards EXCEPT !.load = [s \in DOMAIN @ |-> 0]] = start
    BY <2>1
  <2>4. PICK order \in ByWeight(p) : shards' = PlacedAnew(start, order, target) /\ aimed' = target
    <3> HIDE DEF start
    <3> QED
      BY <1>3, <2>3 DEF RebalanceShards
  <2>5. n \in Nat
    BY <2>1, FS_CardinalityType
  <2>6. /\ order \in [1..n -> objects]
        /\ \A i, j \in 1..n : i # j => order[i] # order[j]
        /\ \A o \in objects : \E i \in 1..n : order[i] = o
    <3>1. order \in Bijection(1..n, objects)
      BY <2>4 DEF ByWeight
    <3> HIDE DEF n, objects
    <3> QED
      BY <3>1 DEF Bijection, Injection, Surjection, IsInjective
  <2> DEFINE new == PlacedAnew(start, order, target)
  <2>7. /\ new \in Placing(objects, on, shards.ready)
        /\ \A o \in objects : new.placements[o].weight = p[o].weight
        /\ LoadsTell(new, p, order, n, on, relief)
    <3>1. start = [placements |-> p, load |-> [s \in on |-> 0], ready |-> shards.ready]
      OBVIOUS
    <3>2. AllPlaced(new, p, order, n, objects, on, shards.ready, relief)
      <4> HIDE DEF p, on, objects, n, start
      <4> QED
        BY <2>1, <2>2, <2>5, <2>6, <3>1, PlacedAnewTells
    <3> HIDE DEF p, on, objects, n, start, new, relief
    <3> QED
      BY <3>2 DEF AllPlaced
  <2> HIDE DEF new, start, n
  <2>8. /\ shards' = [placements |-> shards'.placements, load |-> shards'.load,
                      ready |-> shards'.ready]
        /\ shards'.placements \in PlacementsOn(objects, on)
        /\ shards'.load \in LoadsOn(on)
    BY <2>4, <2>7 DEF Placing, new
  <2>9. DOMAIN shards'.placements = objects /\ DOMAIN shards'.load = on
    <3> HIDE DEF objects, on
    <3> QED
      BY <2>8 DEF PlacementsOn, LoadsOn
  <2>10. LoadsAccount'
    <3>1. /\ \A o \in objects : shards'.placements[o].weight = p[o].weight
          /\ LoadsTell(shards', p, order, n, on, aimed' \div Slack)
      BY <2>4, <2>7 DEF new
    <3>2. AccountOf(shards', aimed')
      <4>0. aimed' \in Nat
        BY <2>2, <2>4
      <4> HIDE DEF p, on, objects
      <4> QED
        BY <2>1, <2>5, <2>6, <2>8, <3>1, <4>0, AllTell
    <3> QED
      BY <3>2 DEF AccountOf, LoadsAccount, Placed, WeightOf
  <2> HIDE DEF p, on, objects
  <2> QED
    BY <2>1, <2>2, <2>8, <2>9, <2>10 DEF ShardInv
<1>4. ASSUME NEW count \in ShardCounts, AssignShards(count) PROVE ShardInv'
  BY <1>1, <1>2, <1>4 DEF AssignShards, shardVars
<1>5. ASSUME NEW target \in ShardTargets, RebalanceShards(target) PROVE ShardInv'
  BY <1>1, <1>3, <1>5 DEF RebalanceShards
<1>6. CASE InspectShards
  BY <1>1, <1>6 DEF InspectShards
<1> QED
  BY <1>4, <1>5, <1>6 DEF ShardNext

-----------------------------------------------------------------------------
(* The reports.                                                             *)

ReportInv ==
    /\ events \in Nat
    /\ status # Crash
    /\ HoldInv
    /\ LinkInv
    /\ CodecInv
    /\ MergeInv
    /\ SampleInv
    /\ MetricsInv
    /\ LedgerInv
    /\ QuotaInv
    /\ RelationInv
    /\ ShardInv
    /\ DigestInv

(* No ledger, no quota and no digest are there at first.                    *)
LEMMA AccountsStart ==
    LedgerInit /\ QuotaInit /\ DigestInit => LedgerInv /\ QuotaInv /\ DigestInv
<1> SUFFICES ASSUME LedgerInit, QuotaInit, DigestInit
             PROVE  LedgerInv /\ QuotaInv /\ DigestInv
  OBVIOUS
<1>1. LedgerInv
  <2>1. ledger.entries = <<>> /\ ledger.folded = <<>> /\ known = TRUE
    BY DEF LedgerInit
  <2> QED
    BY <2>1 DEF LedgerInv
<1>2. QuotaInv
  <2>1. ~quota.prepared
    BY DEF QuotaInit
  <2> QED
    BY <2>1 DEF QuotaInv
<1>3. DigestInv
  <2>1. digests.entries = <<>> /\ digests.verified = <<>>
    BY DEF DigestInit
  <2>2. <<>> \in Seq({}) /\ Len(<<>>) = 0 /\ DOMAIN <<>> = {}
    OBVIOUS
  <2>3. FineEntries(<<>>, epoch)
    BY <2>2 DEF FineEntries, IsList
  <2>4. 0 <= DigestLimit
    BY DigestConstants
  <2> QED
    BY <2>1, <2>2, <2>3, <2>4 DEF DigestInv
<1> QED
  BY <1>1, <1>2, <1>3

(* A journal starts with nothing to report.                                 *)
LEMMA ReportStart ==
    Init => ReportInv /\ HandedOut!Init
<1> SUFFICES ASSUME Init PROVE ReportInv /\ HandedOut!Init
  OBVIOUS
<1>1. HoldInv
  BY HoldStart DEF Init
<1>2. LinkInv
  BY DEF Init, LinkInit, LinkInv
<1>3. CodecInv /\ RelationInv /\ ShardInv
  BY CodecStart, RelationStart, ShardStart DEF Init
<1>4. MergeInv /\ HandedOut!Init /\ SampleInv /\ MetricsInv
  BY MergeStart, SampleStart, MetricsStart DEF Init
<1>5. LedgerInv /\ QuotaInv /\ DigestInv
  BY AccountsStart DEF Init
<1>6. events \in Nat /\ status # Crash
  BY DEF Init, Crash
<1> QED
  BY <1>1, <1>2, <1>3, <1>4, <1>5, <1>6 DEF ReportInv

\* Nothing the quotas count changed, or the change is known.
Told == ~moved' => ~moved /\ UNCHANGED <<holdVars, linkVars>>

(* A command that leaves what an invariant is about leaves it true.         *)
LEMMA ReportsKept ==
    ASSUME ReportInv, Grows
    PROVE  /\ events' \in Nat
           /\ UNCHANGED <<holdVars, epoch>> => HoldInv'
           /\ UNCHANGED linkVars => LinkInv'
           /\ UNCHANGED codecVars => CodecInv'
           /\ UNCHANGED merge => MergeInv' /\ ListGoes
           /\ UNCHANGED sampleVars => SampleInv'
           /\ UNCHANGED metricsVars => MetricsInv'
           /\ UNCHANGED ledgerVars => LedgerInv'
           /\ quota' = quota /\ Told => QuotaInv'
           /\ UNCHANGED relationVars => RelationInv'
           /\ UNCHANGED shardVars => ShardInv'
           /\ UNCHANGED digests /\ epoch' \in Nat /\ epoch <= epoch' => DigestInv'
<1>1. events \in Nat /\ events' \in Nat /\ (events' = events \/ events' = events + 1)
  BY DEF ReportInv, Grows
<1>2. UNCHANGED <<holdVars, epoch>> => HoldInv'
  BY DEF ReportInv, HoldInv, Held, holdVars
<1>3. UNCHANGED linkVars => LinkInv'
  BY DEF ReportInv, LinkInv, linkVars
<1>4. UNCHANGED codecVars => CodecInv'
  BY DEF ReportInv, CodecInv, codecVars
<1>5. UNCHANGED merge => MergeInv' /\ ListGoes
  BY MergeStays DEF ReportInv
<1>6. UNCHANGED sampleVars => SampleInv'
  BY DEF ReportInv, SampleInv, sampleVars
<1>7. UNCHANGED metricsVars => MetricsInv'
  BY DEF ReportInv, MetricsInv, metricsVars
<1>8. UNCHANGED ledgerVars => LedgerInv'
  BY <1>1 DEF ReportInv, LedgerInv, ledgerVars
<1>9. quota' = quota /\ Told => QuotaInv'
  BY <1>1, QuotaKept DEF ReportInv, Told
<1>10. UNCHANGED relationVars => RelationInv'
  BY DEF ReportInv, RelationInv, WalkNeverStops, relationVars
<1>11. UNCHANGED digests /\ epoch' \in Nat /\ epoch <= epoch' => DigestInv'
  <2> SUFFICES ASSUME UNCHANGED digests, epoch' \in Nat, epoch <= epoch'
               PROVE  DigestInv'
    OBVIOUS
  <2>1. epoch \in Nat /\ DigestInv
    BY DEF ReportInv, HoldInv
  <2>2. FineEntries(digests.entries, epoch')
    BY <2>1, FineOn DEF DigestInv
  <2> QED
    BY <2>1, <2>2 DEF DigestInv
<1>12. UNCHANGED shardVars => ShardInv'
  BY ShardsStay DEF ReportInv
<1> QED
  BY <1>1, <1>2, <1>3, <1>4, <1>5, <1>6, <1>7, <1>8, <1>9, <1>10, <1>11, <1>12

(* No command on a report crashes.                                          *)
LEMMA NoReportCrashes ==
    ReportNext => status' # Crash
<1> SUFFICES ASSUME ReportNext PROVE status' # Crash
  OBVIOUS
<1>1. MergeNext => status' # Crash
  BY DEF MergeNext, PrepareMerge, MergeCheck, NextMerge, NextCheck, Crash
<1>2. SampleNext => status' # Crash
  BY DEF SampleNext, SampleScope, SampleCheck, FoldSample, Crash
<1>3. MetricsNext => status' # Crash
  BY DEF MetricsNext, CollectMetrics, MetricsCheck, ReduceMetrics, Crash
<1>4. LedgerNext => status' # Crash
  BY DEF LedgerNext, BuildLedger, LedgerCheck, FoldLedger, Crash
<1>5. QuotaNext => status' # Crash
  BY DEF QuotaNext, PrepareQuota, EnforceQuota, Crash
<1>6. RelationNext => status' # Crash
  BY DEF RelationNext, BuildRelations, RelateCheck, WalkRelations, WalkCheck, Crash
<1>7. ShardNext => status' # Crash
  BY DEF ShardNext, AssignShards, ShardCheck, RebalanceShards, RebalanceCheck,
         InspectShards, Crash
<1>8. DigestNext => status' # Crash
  BY DEF DigestNext, CaptureDigest, VerifyDigest, Crash
<1> QED
  BY <1>1, <1>2, <1>3, <1>4, <1>5, <1>6, <1>7, <1>8 DEF ReportNext

(* No command takes away what the reports rest on.                          *)
LEMMA ReportGoesOn ==
    ReportInv /\ [Next]_vars => ReportInv' /\ ListGoes
<1> SUFFICES ASSUME ReportInv, [Next]_vars PROVE ReportInv' /\ ListGoes
  OBVIOUS
<1> DEFINE StoreSame == UNCHANGED <<holdVars, epoch>>
           LinksSame == UNCHANGED linkVars
           CodecsSame == UNCHANGED codecVars
           MergeSame == UNCHANGED merge
           SampleSame == UNCHANGED sampleVars
           MetricsSame == UNCHANGED metricsVars
           LedgerSame == UNCHANGED ledgerVars
           QuotaSame == quota' = quota /\ Told
           RelationSame == UNCHANGED relationVars
           ShardSame == UNCHANGED shardVars
           Later == epoch' \in Nat /\ epoch <= epoch'
           DigestsSame == UNCHANGED digests
<1>1. Grows =>
        /\ events' \in Nat
        /\ StoreSame => HoldInv'
        /\ LinksSame => LinkInv'
        /\ CodecsSame => CodecInv'
        /\ MergeSame => MergeInv' /\ ListGoes
        /\ SampleSame => SampleInv'
        /\ MetricsSame => MetricsInv'
        /\ LedgerSame => LedgerInv'
        /\ QuotaSame => QuotaInv'
        /\ RelationSame => RelationInv'
        /\ ShardSame => ShardInv'
        /\ DigestsSame /\ Later => DigestInv'
  BY ReportsKept
<1>2. /\ events \in Nat /\ status # Crash
      /\ HoldInv /\ LinkInv /\ CodecInv /\ MergeInv /\ SampleInv /\ MetricsInv
      /\ LedgerInv /\ QuotaInv /\ RelationInv /\ ShardInv /\ DigestInv
  BY DEF ReportInv
<1>3. StoreSame => Later
  BY <1>2 DEF HoldInv
<1>4. ASSUME SourceNext, Grows PROVE ReportInv' /\ ListGoes
  <2>1. /\ MergeSame /\ SampleSame /\ MetricsSame /\ LedgerSame /\ RelationSame /\ DigestsSame
        /\ ShardSame /\ quota' = quota
    BY <1>4 DEF SourceNext
  <2>2. Told
    BY <1>4 DEF SourceNext, Told
  <2>3. HoldInv' /\ LinkInv' /\ CodecInv' /\ Later /\ status' # Crash
    <3>1. CASE HoldNext /\ status' = "ok" /\ UNCHANGED <<linkVars, codecVars>>
      <4>1. HoldInv' /\ epoch <= epoch'
        BY <1>2, <3>1, HoldStep
      <4>2. epoch' \in Nat
        BY <4>1 DEF HoldInv
      <4>3. LinksSame /\ CodecsSame /\ status' # Crash
        BY <3>1 DEF Crash
      <4> QED
        BY <1>1, <1>4, <4>1, <4>2, <4>3
    <3>2. CASE LinkNext /\ UNCHANGED <<holdVars, codecVars, epoch>>
      <4>1. LinkInv' /\ status' # Crash
        BY <1>2, <3>2, LinkStep
      <4>2. StoreSame /\ CodecsSame
        BY <3>2
      <4> QED
        BY <1>1, <1>3, <1>4, <4>1, <4>2
    <3>3. CASE CodecNext /\ UNCHANGED <<holdVars, linkVars, epoch>>
      <4>1. CodecInv' /\ status' # Crash
        BY <1>2, <3>3, CodecStep
      <4>2. StoreSame /\ LinksSame
        BY <3>3
      <4> QED
        BY <1>1, <1>3, <1>4, <4>1, <4>2
    <3> QED
      BY <1>4, <3>1, <3>2, <3>3 DEF SourceNext
  <2>4. QuotaSame
    BY <2>1, <2>2
  <2> HIDE DEF StoreSame, LinksSame, CodecsSame, MergeSame, SampleSame, MetricsSame, LedgerSame, QuotaSame,
               RelationSame, ShardSame, Later, DigestsSame
  <2> QED
    BY <1>1, <1>4, <2>1, <2>3, <2>4 DEF ReportInv
<1>5. ASSUME ReportNext, UNCHANGED sourceVars, Counts PROVE ReportInv' /\ ListGoes
  <2>1. LinksSame /\ CodecsSame /\ UNCHANGED holdVars /\ UNCHANGED linkVars
    BY <1>5 DEF sourceVars
  <2>2. Grows
    BY <1>5 DEF Counts, Grows
  <2>3. status' # Crash
    BY <1>5, NoReportCrashes
  <2>4. UNCHANGED quotaVars => QuotaSame
    BY <2>1 DEF quotaVars, Told
  <2>5. \/ MergeNext /\ SampleSame /\ MetricsSame /\ LedgerSame /\ QuotaSame
           /\ RelationSame /\ ShardSame /\ DigestsSame /\ StoreSame
        \/ SampleNext /\ MergeSame /\ MetricsSame /\ LedgerSame /\ QuotaSame
           /\ RelationSame /\ ShardSame /\ DigestsSame /\ StoreSame
        \/ MetricsNext /\ MergeSame /\ SampleSame /\ LedgerSame /\ QuotaSame
           /\ RelationSame /\ ShardSame /\ DigestsSame /\ StoreSame
        \/ LedgerNext /\ MergeSame /\ SampleSame /\ MetricsSame /\ QuotaSame
           /\ RelationSame /\ ShardSame /\ DigestsSame /\ StoreSame
        \/ QuotaNext /\ MergeSame /\ SampleSame /\ MetricsSame /\ LedgerSame
           /\ RelationSame /\ ShardSame /\ DigestsSame /\ StoreSame
        \/ RelationNext /\ MergeSame /\ SampleSame /\ MetricsSame /\ LedgerSame
           /\ QuotaSame /\ ShardSame /\ DigestsSame /\ StoreSame
        \/ ShardNext /\ MergeSame /\ SampleSame /\ MetricsSame /\ LedgerSame
           /\ QuotaSame /\ RelationSame /\ DigestsSame /\ StoreSame
        \/ DigestNext /\ MergeSame /\ SampleSame /\ MetricsSame /\ LedgerSame
           /\ QuotaSame /\ RelationSame /\ ShardSame
    <3> HIDE DEF QuotaSame
    <3> QED
      BY <1>5, <2>1, <2>4 DEF ReportNext
  <2>6. /\ MergeNext => MergeInv' /\ ListGoes
        /\ SampleNext => SampleInv'
        /\ MetricsNext => MetricsInv'
        /\ LedgerNext => LedgerInv'
        /\ QuotaNext => QuotaInv'
        /\ RelationNext => RelationInv'
        /\ ShardNext => ShardInv'
        /\ DigestNext => DigestInv' /\ Later
    <3>1. /\ MergeNext => MergeInv' /\ ListGoes
          /\ SampleNext => SampleInv'
          /\ MetricsNext => MetricsInv'
      BY <1>2, MergeStep, SampleStep, MetricsStep
    <3>2. LedgerNext => LedgerInv'
      BY <1>2, <1>5, LedgerStep
    <3>3. QuotaNext => QuotaInv'
      BY <1>2, <1>5, <2>1, QuotaStep
    <3>4. RelationNext => RelationInv'
      BY <1>2, RelationStep
    <3>5. DigestNext => DigestInv' /\ Later
      BY <1>2, DigestStep
    <3>6. ShardNext => ShardInv'
      BY <1>2, ShardStep
    <3> QED
      BY <3>1, <3>2, <3>3, <3>4, <3>5, <3>6
  <2>7. Later => HoldInv'
    <3> SUFFICES ASSUME Later PROVE HoldInv'
      OBVIOUS
    <3>1. epoch \in Nat /\ watches \in Nat /\ Held(documents, pages, nodes, epoch)
      BY <1>2 DEF HoldInv
    <3>2. UNCHANGED <<documents, pages, nodes, watches, snapshots>>
      BY <2>1 DEF holdVars
    <3>3. Held(documents, pages, nodes, epoch')
      BY <3>1, HeldOn
    <3>4. HeldThen
      BY <3>2, <3>3 DEF HeldThen, Held
    <3>5. snapshots' = snapshots /\ watches' \in Nat
      BY <3>1, <3>2
    <3> QED
      BY <1>2, <3>4, <3>5, HoldKept
  <2> HIDE DEF StoreSame, LinksSame, CodecsSame, MergeSame, SampleSame, MetricsSame, LedgerSame, QuotaSame,
               RelationSame, ShardSame, Later, DigestsSame
  <2>8. /\ LinkInv' /\ CodecInv' /\ HoldInv' /\ MergeInv' /\ ListGoes /\ SampleInv'
        /\ MetricsInv' /\ LedgerInv' /\ QuotaInv' /\ RelationInv' /\ ShardInv'
        /\ DigestInv'
    BY <1>1, <1>3, <2>1, <2>2, <2>5, <2>6, <2>7
  <2> QED
    BY <1>1, <2>2, <2>3, <2>8 DEF ReportInv
<1>6. CASE UNCHANGED vars
  <2>1. StoreSame /\ LinksSame /\ CodecsSame /\ MergeSame /\ SampleSame /\ MetricsSame
    BY <1>6 DEF vars, sourceVars
  <2>2. /\ LedgerSame /\ RelationSame /\ ShardSame /\ DigestsSame /\ status' = status /\ events' = events
        /\ UNCHANGED quotaVars
    BY <1>6 DEF vars
  <2>3. QuotaSame
    BY <2>1, <2>2 DEF quotaVars, Told
  <2>4. Grows /\ status' # Crash
    BY <1>2, <2>2 DEF Grows, Crash
  <2> HIDE DEF StoreSame, LinksSame, CodecsSame, MergeSame, SampleSame, MetricsSame, LedgerSame, QuotaSame,
               RelationSame, ShardSame, Later, DigestsSame
  <2> QED
    BY <1>1, <1>3, <2>1, <2>2, <2>3, <2>4 DEF ReportInv
<1>7. CASE Next
  <2>1. Counts /\ Grows
    BY <1>7 DEF Next, Counts, Grows
  <2> QED
    BY <1>4, <1>5, <1>7, <2>1 DEF Next
<1> QED
  BY <1>6, <1>7

(* Whatever commands come, in whatever order, the reports rest on what they *)
(* were made from.                                                          *)
THEOREM ReportSafety ==
    Spec => []ReportInv
<1>1. Init => ReportInv
  BY ReportStart
<1>2. ReportInv /\ [Next]_vars => ReportInv'
  BY ReportGoesOn
<1> QED
  BY <1>1, <1>2, PTL DEF Spec

(* What the reports say is true of what they were made from: a sample is    *)
(* the heaviest of its objects, metrics count every number once, a ledger   *)
(* and its fold belong together, a quota judges the store of now, and the   *)
(* stamps of the digests grow (build_sample, collect_metrics, build_ledger, *)
(* prepare_quota and capture_digest).                                       *)
THEOREM ReportsTellTheStore ==
    Spec => []ReportsAgree
<1>1. ReportInv => ReportsAgree
  <2> SUFFICES ASSUME ReportInv PROVE ReportsAgree
    OBVIOUS
  <2>1. events \in Nat /\ epoch \in Nat
    BY DEF ReportInv, HoldInv
  <2>2. SampleAgrees /\ MetricsAgree
    BY SampleTells, MetricsTells DEF ReportInv
  <2>3. LedgerAgrees /\ QuotaAgrees /\ DigestsAgree
    BY <2>1, LedgerTells, QuotaTells, DigestTells DEF ReportInv
  <2> QED
    BY <2>2, <2>3 DEF ReportsAgree
<1> QED
  BY <1>1, ReportSafety, PTL

(* The readings no limit is looked at in stay inside what they read: the    *)
(* output a vector is decoded to, the label and the room for it, the        *)
(* palette, and the table of links (decode_vector, render_label,            *)
(* emit_palette_color and export_selected_link).                            *)
THEOREM NothingReadOutside ==
    Spec => []NoReadOutside
<1>1. ReportInv => NoReadOutside
  BY DEF ReportInv, NoReadOutside
<1> QED
  BY <1>1, ReportSafety, PTL

(* A walk along the relations that takes a first step takes them all        *)
(* (walk_relations).                                                        *)
THEOREM WalksGoOn ==
    Spec => []WalkNeverStops
<1>1. ReportInv => WalkNeverStops
  BY DEF ReportInv, RelationInv
<1> QED
  BY <1>1, ReportSafety, PTL

(* The loads of the shards are those of the objects on them, short by no    *)
(* more than the relief of each, and no shard is heavier than another by    *)
(* more than its heaviest object where there is no relief, in whichever     *)
(* order std::sort leaves objects of one weight (assign_shards and          *)
(* rebalance_shards).                                                       *)
THEOREM LoadsAccountForAll ==
    Spec => []LoadsAccount
<1>1. ReportInv => LoadsAccount
  BY DEF ReportInv, ShardInv
<1> QED
  BY <1>1, ReportSafety, PTL

(* MERGE and NEXT are a list whose rows are handed out in order, each once, *)
(* until another takes its place, whatever comes in between                 *)
(* (prepare_merge and next_merge).                                          *)
THEOREM MergesHandOut ==
    Spec => MergeHandsOutOnce
<1>1. Init => HandedOut!Init
  BY ReportStart
<1>2. ReportInv /\ [Next]_vars => ListGoes
  BY ReportGoesOn
<1> QED
  BY <1>1, <1>2, ReportSafety, PTL
     DEF Spec, MergeHandsOutOnce, HandedOut!Spec, ListGoes
=============================================================================
