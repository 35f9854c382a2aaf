-------------------------- MODULE PageCacheProofs --------------------------
(* Proofs about PageCache, for any pages, budgets and numbers of windows.   *)
(* The loop of CACHE and EVICT is a recursive function: Recursion says that *)
(* such a function is there, Induct what holds of it, and Shrinks collects  *)
(* what the whole loop does.                                                *)
EXTENDS PageCache, FiniteSetTheorems, WellFoundedInduction, TLAPS

-----------------------------------------------------------------------------
(* Induction up to a number, over the set of the numbers that are right.    *)
LEMMA Induct ==
    ASSUME NEW N \in Nat, NEW T, 0 \in T,
           \A n \in 1..N : n - 1 \in T => n \in T
    PROVE  \A n \in 0..N : n \in T
<1> DEFINE Bad == {n \in 0..N : n \notin T}
<1>1. SUFFICES ASSUME Bad # {} PROVE FALSE
  OBVIOUS
<1>2. PICK x \in Bad : \A y \in Bad : <<y, x>> \notin OpToRel(<, Nat)
  <2>1. Bad \subseteq Nat
    OBVIOUS
  <2> QED
    BY <1>1, <2>1, NatLessThanWellFounded, WFMin
<1>3. x \in 1..N /\ x - 1 \in 0..N
  OBVIOUS
<1>4. x - 1 \notin Bad
  <2>1. x \in Nat /\ x - 1 \in Nat /\ x - 1 < x
    BY <1>3
  <2>2. <<x - 1, x>> \in OpToRel(<, Nat)
    BY <2>1 DEF OpToRel
  <2> HIDE DEF Bad
  <2> QED
    BY <1>2, <2>2
<1>5. x - 1 \in T
  BY <1>3, <1>4
<1>6. x \in T
  BY <1>3, <1>5
<1> QED
  BY <1>6

\* The runs of N steps from a, each of them a step of S.
Runs(N, S, a, step) ==
    {f \in [0..N -> S] : f[0] = a /\ \A n \in 1..N : f[n] = step[n][f[n - 1]]}

(* A step leads from any value to a run of as many steps as one likes.      *)
LEMMA Recursion ==
    ASSUME NEW N \in Nat, NEW S, NEW a \in S, NEW step \in [1..N -> [S -> S]]
    PROVE  Runs(N, S, a, step) # {}
<1> DEFINE T == {n \in 0..N : Runs(n, S, a, step) # {}}
<1>1. 0 \in T
  <2>1. [i \in 0..0 |-> a] \in Runs(0, S, a, step)
    BY DEF Runs
  <2> QED
    BY <2>1
<1>2. ASSUME NEW n \in 1..N, n - 1 \in T PROVE n \in T
  <2>1. PICK f \in [0..(n - 1) -> S] :
           f[0] = a /\ \A i \in 1..(n - 1) : f[i] = step[i][f[i - 1]]
    BY <1>2 DEF Runs
  <2> DEFINE g == [i \in 0..n |-> IF i = n THEN step[n][f[n - 1]] ELSE f[i]]
  <2>2. f[n - 1] \in S /\ step[n][f[n - 1]] \in S
    OBVIOUS
  <2>3. g \in [0..n -> S] /\ g[0] = a
    BY <2>1, <2>2
  <2>4. \A i \in 1..n : g[i] = step[i][g[i - 1]]
    <3>1. ASSUME NEW i \in 1..n PROVE g[i] = step[i][g[i - 1]]
      <4>1. CASE i = n
        BY <4>1
      <4>2. CASE i # n
        BY <4>2, <2>1
      <4> QED
        BY <4>1, <4>2
    <3> QED
      BY <3>1
  <2>5. g \in Runs(n, S, a, step)
    BY <2>3, <2>4 DEF Runs
  <2> QED
    BY <2>5
<1> HIDE DEF T
<1>3. N \in T
  <2>1. \A n \in 0..N : n \in T
    BY <1>1, <1>2, Induct
  <2> QED
    BY <2>1
<1> QED
  BY <1>3 DEF T

-----------------------------------------------------------------------------
Window == [page_id : Nat, size : Nat, stamp : Nat]

(* What a window is.                                                        *)
LEMMA WindowAt ==
    ASSUME NEW ws \in Seq(Window), NEW i \in 1..Len(ws)
    PROVE  /\ ws[i] \in Window
           /\ ws[i].page_id \in Nat /\ ws[i].size \in Nat /\ ws[i].stamp \in Nat
<1>1. ws[i] \in Window
  OBVIOUS
<1> QED
  BY <1>1 DEF Window

Sums(ws) ==
    CHOOSE sum : sum = [n \in 0..Len(ws) |->
                           IF n = 0 THEN 0 ELSE sum[n - 1] + ws[n].size]

(* The sums measure_cache goes through are there.                           *)
LEMMA SumsAre ==
    ASSUME NEW ws \in Seq(Window)
    PROVE  /\ Measure(ws) = Sums(ws)[Len(ws)]
           /\ Sums(ws) \in [0..Len(ws) -> Nat]
           /\ Sums(ws)[0] = 0
           /\ \A n \in 1..Len(ws) : Sums(ws)[n] = Sums(ws)[n - 1] + ws[n].size
<1> DEFINE P(f) == f = [n \in 0..Len(ws) |->
                           IF n = 0 THEN 0 ELSE f[n - 1] + ws[n].size]
           step == [n \in 1..Len(ws) |-> [x \in Nat |-> x + ws[n].size]]
<1>1. Len(ws) \in Nat /\ \A n \in 1..Len(ws) : ws[n].size \in Nat
  BY WindowAt
<1>2. step \in [1..Len(ws) -> [Nat -> Nat]]
  BY <1>1
<1>3. PICK f \in [0..Len(ws) -> Nat] :
         f[0] = 0 /\ \A n \in 1..Len(ws) : f[n] = step[n][f[n - 1]]
  <2> DEFINE N == Len(ws)
             S == Nat
             a == 0
  <2>1. N \in Nat /\ a \in S /\ step \in [1..N -> [S -> S]]
    BY <1>1, <1>2
  <2> HIDE DEF step, N, S, a
  <2>2. Runs(N, S, a, step) # {}
    BY <2>1, Recursion
  <2> QED
    BY <2>2 DEF N, S, a, Runs
<1>4. \A n \in 1..Len(ws) : f[n] = f[n - 1] + ws[n].size
  <2>1. ASSUME NEW n \in 1..Len(ws) PROVE f[n] = f[n - 1] + ws[n].size
    <3>1. f[n - 1] \in Nat
      BY <1>1
    <3> QED
      BY <1>3, <3>1
  <2> QED
    BY <2>1
<1>5. P(f)
  BY <1>1, <1>3, <1>4
<1>6. Sums(ws) = CHOOSE g : P(g)
  BY DEF Sums
<1> HIDE DEF P
<1>7. P(Sums(ws))
  BY <1>5, <1>6
<1>8. Sums(ws) = [n \in 0..Len(ws) |->
                     IF n = 0 THEN 0 ELSE Sums(ws)[n - 1] + ws[n].size]
  BY <1>7 DEF P
<1> HIDE DEF step
<1>9. Sums(ws)[0] = 0 /\ \A n \in 1..Len(ws) : Sums(ws)[n] = Sums(ws)[n - 1] + ws[n].size
  BY <1>1, <1>8
<1> DEFINE T == {n \in 0..Len(ws) : Sums(ws)[n] \in Nat}
<1>10. 0 \in T
  BY <1>1, <1>9
<1>11. ASSUME NEW n \in 1..Len(ws), n - 1 \in T PROVE n \in T
  <2>1. Sums(ws)[n - 1] \in Nat /\ ws[n].size \in Nat
    BY <1>1, <1>11
  <2>2. Sums(ws)[n] \in Nat
    BY <1>9, <2>1
  <2> QED
    BY <2>2
<1>12. \A n \in 0..Len(ws) : n \in T
  <2> HIDE DEF T
  <2> QED
    BY <1>1, <1>10, <1>11, Induct
<1>13. Sums(ws) \in [0..Len(ws) -> Nat]
  BY <1>8, <1>12
<1>14. Measure(ws) = Sums(ws)[Len(ws)]
  BY DEF Measure, Sums
<1> QED
  BY <1>9, <1>13, <1>14

(* Sizes that agree have the same sum.                                      *)
LEMMA SameSizes ==
    ASSUME NEW ws \in Seq(Window), NEW vs \in Seq(Window), Len(ws) = Len(vs),
           \A i \in 1..Len(ws) : ws[i].size = vs[i].size
    PROVE  Measure(ws) = Measure(vs)
<1> DEFINE T == {n \in 0..Len(ws) : Sums(ws)[n] = Sums(vs)[n]}
<1>1. 0 \in T
  BY SumsAre
<1>2. ASSUME NEW n \in 1..Len(ws), n - 1 \in T PROVE n \in T
  <2>1. Sums(ws)[n] = Sums(ws)[n - 1] + ws[n].size
    BY SumsAre
  <2>2. Sums(vs)[n] = Sums(vs)[n - 1] + vs[n].size
    BY SumsAre
  <2> QED
    BY <1>2, <2>1, <2>2
<1>3. Len(ws) \in 0..Len(ws) /\ Len(ws) \in Nat
  OBVIOUS
<1>4. \A n \in 0..Len(ws) : n \in T
  <2> HIDE DEF T
  <2> QED
    BY <1>1, <1>2, <1>3, Induct
<1> QED
  BY <1>3, <1>4, SumsAre

(* A window less, and the sum is less by its size.                          *)
LEMMA SizeGone ==
    ASSUME NEW ws \in Seq(Window), NEW slot \in 1..Len(ws)
    PROVE  /\ RemoveAt(ws, slot) \in Seq(Window)
           /\ Len(RemoveAt(ws, slot)) = Len(ws) - 1
           /\ \A i \in 1..(Len(ws) - 1) :
                 RemoveAt(ws, slot)[i] = ws[IF i < slot THEN i ELSE i + 1]
           /\ Measure(ws) = Measure(RemoveAt(ws, slot)) + ws[slot].size
<1> DEFINE left == RemoveAt(ws, slot)
<1>1. left \in Seq(Window) /\ Len(left) = Len(ws) - 1
      /\ \A i \in 1..(Len(ws) - 1) : left[i] = ws[IF i < slot THEN i ELSE i + 1]
  <2> DEFINE head == SubSeq(ws, 1, slot - 1)
             tail == SubSeq(ws, slot + 1, Len(ws))
  <2>1. /\ head \in Seq(Window) /\ Len(head) = slot - 1
        /\ \A i \in 1..(slot - 1) : head[i] = ws[i]
    OBVIOUS
  <2>2. /\ tail \in Seq(Window) /\ Len(tail) = Len(ws) - slot
        /\ \A i \in 1..(Len(ws) - slot) : tail[i] = ws[slot + i]
    OBVIOUS
  <2>3. left = head \o tail
    BY DEF RemoveAt
  <2> HIDE DEF head, tail, left
  <2>4. left \in Seq(Window) /\ Len(left) = Len(ws) - 1
    BY <2>1, <2>2, <2>3
  <2>5. ASSUME NEW i \in 1..(Len(ws) - 1)
        PROVE  left[i] = ws[IF i < slot THEN i ELSE i + 1]
    <3>1. CASE i < slot
      <4>1. left[i] = head[i]
        BY <2>1, <2>2, <2>3, <3>1
      <4> QED
        BY <2>1, <3>1, <4>1
    <3>2. CASE i >= slot
      <4>1. i - (slot - 1) \in 1..(Len(ws) - slot)
        BY <3>2
      <4>2. left[i] = tail[i - (slot - 1)]
        BY <2>1, <2>2, <2>3, <4>1
      <4>3. tail[i - (slot - 1)] = ws[slot + (i - (slot - 1))]
        BY <2>2, <4>1
      <4>4. slot + (i - (slot - 1)) = i + 1
        OBVIOUS
      <4> QED
        BY <3>2, <4>2, <4>3, <4>4
    <3> QED
      BY <3>1, <3>2
  <2> QED
    BY <2>4, <2>5
<1> HIDE DEF left
<1> DEFINE T == {n \in 0..Len(left) :
                    IF n < slot THEN Sums(left)[n] = Sums(ws)[n]
                    ELSE Sums(left)[n] + ws[slot].size = Sums(ws)[n + 1]}
<1>2. 0 \in T
  BY SumsAre, <1>1
<1>3. ASSUME NEW n \in 1..Len(left), n - 1 \in T PROVE n \in T
  <2>1. Sums(left)[n] = Sums(left)[n - 1] + left[n].size
    BY <1>1, SumsAre
  <2>2. Sums(left)[n - 1] \in Nat /\ ws[slot].size \in Nat /\ left[n].size \in Nat
    <3>1. left[n].size \in Nat /\ ws[slot].size \in Nat
      BY <1>1, WindowAt
    <3>2. Sums(left) \in [0..Len(left) -> Nat] /\ n - 1 \in 0..Len(left)
      BY <1>1, SumsAre
    <3> QED
      BY <3>1, <3>2
  <2>3. CASE n < slot
    <3>1. n \in 1..Len(ws)
      BY <1>1
    <3>2. Sums(ws)[n] = Sums(ws)[n - 1] + ws[n].size
      BY <3>1, SumsAre
    <3>3. left[n] = ws[n] /\ Sums(left)[n - 1] = Sums(ws)[n - 1]
      BY <1>1, <1>3, <2>3
    <3> QED
      BY <2>1, <2>3, <3>2, <3>3
  <2>4. CASE n >= slot
    <3>1. left[n] = ws[n + 1] /\ n + 1 \in 1..Len(ws)
      <4> HIDE DEF T
      <4>1. n \in 1..(Len(ws) - 1) /\ ~(n < slot)
        BY <1>1, <2>4
      <4>2. left[n] = ws[IF n < slot THEN n ELSE n + 1]
        BY <1>1, <4>1
      <4> QED
        BY <4>1, <4>2
    <3>2. Sums(ws)[n + 1] = Sums(ws)[n] + ws[n + 1].size
      BY <3>1, SumsAre
    <3>3. Sums(ws)[n] \in Nat /\ ws[n + 1].size \in Nat
      <4>1. n \in 0..Len(ws) /\ Sums(ws) \in [0..Len(ws) -> Nat]
        BY <3>1, SumsAre
      <4> QED
        BY <3>1, <4>1, WindowAt
    <3>4. Sums(left)[n - 1] + ws[slot].size = Sums(ws)[n]
      <4>1. CASE n = slot
        <5>1. Sums(left)[n - 1] = Sums(ws)[n - 1]
          BY <1>3, <4>1
        <5>2. Sums(ws)[n] = Sums(ws)[n - 1] + ws[n].size
          <6>1. n \in 1..Len(ws)
            BY <4>1
          <6> QED
            BY <6>1, SumsAre
        <5> QED
          BY <4>1, <5>1, <5>2
      <4>2. CASE n # slot
        BY <1>3, <2>4, <4>2
      <4> QED
        BY <4>1, <4>2
    <3>5. Sums(left)[n] + ws[slot].size = Sums(ws)[n + 1]
      <4> HIDE DEF T
      <4> DEFINE before == Sums(left)[n - 1]
                 gone == ws[slot].size
                 through == Sums(ws)[n]
                 last_size == ws[n + 1].size
      <4>1. Sums(left)[n] = before + last_size /\ Sums(ws)[n + 1] = through + last_size
        BY <2>1, <3>1, <3>2
      <4>2. before \in Nat /\ gone \in Nat /\ through \in Nat /\ last_size \in Nat
        BY <2>2, <3>3
      <4>3. before + gone = through
        BY <3>4
      <4> HIDE DEF before, gone, through, last_size
      <4>4. (before + last_size) + gone = through + last_size
        BY <4>2, <4>3
      <4> QED
        BY <4>1, <4>4 DEF gone
    <3> QED
      BY <2>4, <3>5
  <2> QED
    BY <1>1, <2>3, <2>4
<1>4. Len(left) \in 0..Len(left) /\ Len(left) \in Nat
  BY <1>1
<1>5. \A n \in 0..Len(left) : n \in T
  <2> HIDE DEF T
  <2> QED
    BY <1>2, <1>3, <1>4, Induct
<1>6. Len(left) \in T
  BY <1>4, <1>5
<1>7. Measure(ws) = Measure(left) + ws[slot].size
  <2>1. Measure(left) = Sums(left)[Len(left)] /\ Measure(ws) = Sums(ws)[Len(ws)]
    BY <1>1, SumsAre
  <2>2. CASE slot = Len(ws)
    <3>1. Sums(ws)[Len(ws)] = Sums(ws)[Len(ws) - 1] + ws[Len(ws)].size
      BY SumsAre
    <3> QED
      BY <1>1, <1>6, <2>1, <2>2, <3>1
  <2>3. CASE slot # Len(ws)
    BY <1>1, <1>6, <2>1, <2>3
  <2> QED
    BY <2>2, <2>3
<1> QED
  BY <1>1, <1>7 DEF left

-----------------------------------------------------------------------------
Kepts(list, slot) ==
    CHOOSE kept : kept = [n \in 0..Len(list) |->
        IF n = 0 THEN <<>>
        ELSE IF list[n] = slot THEN kept[n - 1] ELSE Append(kept[n - 1], list[n])]

(* The lists touch_slot goes through are there.                             *)
LEMMA KeptsAre ==
    ASSUME NEW list \in Seq(Nat), NEW slot
    PROVE  /\ Without(list, slot) = Kepts(list, slot)[Len(list)]
           /\ Kepts(list, slot)[0] = <<>>
           /\ \A n \in 1..Len(list) : Kepts(list, slot)[n] =
                 IF list[n] = slot THEN Kepts(list, slot)[n - 1]
                 ELSE Append(Kepts(list, slot)[n - 1], list[n])
<1> DEFINE N == Len(list)
           S == Seq(Nat)
           a == <<>>
           step == [n \in 1..N |-> [x \in S |->
                       IF list[n] = slot THEN x ELSE Append(x, list[n])]]
           P(f) == f = [n \in 0..N |->
               IF n = 0 THEN <<>>
               ELSE IF list[n] = slot THEN f[n - 1] ELSE Append(f[n - 1], list[n])]
<1>1. N \in Nat /\ a \in S /\ step \in [1..N -> [S -> S]]
  OBVIOUS
<1>2. \A n \in 1..N : \A x \in S :
         step[n][x] = IF list[n] = slot THEN x ELSE Append(x, list[n])
  OBVIOUS
<1> HIDE DEF step, N, S, a
<1>3. PICK f \in [0..N -> S] : f[0] = a /\ \A n \in 1..N : f[n] = step[n][f[n - 1]]
  <2>1. Runs(N, S, a, step) # {}
    BY <1>1, Recursion
  <2> QED
    BY <2>1 DEF Runs
<1>4. \A n \in 1..N :
         f[n] = IF list[n] = slot THEN f[n - 1] ELSE Append(f[n - 1], list[n])
  <2>1. ASSUME NEW n \in 1..N
        PROVE  f[n] = IF list[n] = slot THEN f[n - 1] ELSE Append(f[n - 1], list[n])
    <3>1. n - 1 \in 0..N
      BY <1>1
    <3>2. f[n - 1] \in S
      BY <3>1
    <3> QED
      BY <1>2, <1>3, <3>2
  <2> QED
    BY <2>1
<1>5. P(f)
  <2>1. f = [n \in 0..N |-> f[n]]
    OBVIOUS
  <2>2. ASSUME NEW n \in 0..N
        PROVE  f[n] = IF n = 0 THEN <<>>
                      ELSE IF list[n] = slot THEN f[n - 1] ELSE Append(f[n - 1], list[n])
    <3>1. CASE n = 0
      BY <1>3, <3>1 DEF a
    <3>2. CASE n # 0
      <4>1. n \in 1..N
        BY <1>1, <3>2
      <4> QED
        BY <1>4, <3>2, <4>1
    <3> QED
      BY <3>1, <3>2
  <2> QED
    BY <2>1, <2>2
<1>6. Kepts(list, slot) = CHOOSE g : P(g)
  BY DEF Kepts, N
<1>7. P(Kepts(list, slot))
  <2> HIDE DEF P
  <2> QED
    BY <1>5, <1>6
<1>8. Without(list, slot) = Kepts(list, slot)[Len(list)]
  BY DEF Without, Kepts
<1> HIDE DEF P
<1>9. Kepts(list, slot) = [n \in 0..N |->
         IF n = 0 THEN <<>>
         ELSE IF list[n] = slot THEN Kepts(list, slot)[n - 1]
         ELSE Append(Kepts(list, slot)[n - 1], list[n])]
  BY <1>7 DEF P
<1>10. Kepts(list, slot)[0] = <<>>
  BY <1>1, <1>9
<1>11. ASSUME NEW n \in 1..N
       PROVE  Kepts(list, slot)[n] =
                 IF list[n] = slot THEN Kepts(list, slot)[n - 1]
                 ELSE Append(Kepts(list, slot)[n - 1], list[n])
  <2>1. n \in 0..N /\ n # 0
    BY <1>1
  <2> QED
    BY <1>9, <2>1
<1> QED
  BY <1>8, <1>10, <1>11 DEF N

\* What is left of the first n of a list without a slot.
Sieved(list, slot, n, rest) ==
    /\ rest \in Seq(Nat)
    /\ \A k \in 1..n : list[k] # slot => \E i \in 1..Len(rest) : rest[i] = list[k]
    /\ \A i \in 1..Len(rest) :
          rest[i] # slot /\ \E k \in 1..n : list[k] = rest[i]
    /\ \A i, j \in 1..Len(rest) : i < j =>
          \E p, q \in 1..n : p < q /\ list[p] = rest[i] /\ list[q] = rest[j]

(* A list without a slot has all the others, in the order they were in.     *)
LEMMA WithoutSieves ==
    ASSUME NEW list \in Seq(Nat), NEW slot
    PROVE  Sieved(list, slot, Len(list), Without(list, slot))
<1> DEFINE kept == Kepts(list, slot)
           T == {n \in 0..Len(list) : Sieved(list, slot, n, kept[n])}
<1>1. 0 \in T
  <2>1. kept[0] = <<>>
    BY KeptsAre
  <2>2. Sieved(list, slot, 0, <<>>)
    BY DEF Sieved
  <2> QED
    BY <2>1, <2>2
<1>2. ASSUME NEW n \in 1..Len(list), n - 1 \in T PROVE n \in T
  <2> DEFINE old == kept[n - 1]
             new == kept[n]
  <2>1. Sieved(list, slot, n - 1, old)
    BY <1>2
  <2>2. new = IF list[n] = slot THEN old ELSE Append(old, list[n])
    BY KeptsAre
  <2> HIDE DEF kept, old, new
  <2>3. CASE list[n] = slot
    <3>1. new = old
      BY <2>2, <2>3
    <3>2. ASSUME NEW k \in 1..n, list[k] # slot
          PROVE  \E i \in 1..Len(old) : old[i] = list[k]
      <4>1. k \in 1..(n - 1)
        BY <2>3, <3>2
      <4> QED
        BY <2>1, <3>2, <4>1 DEF Sieved
    <3>3. old \in Seq(Nat)
      BY <2>1 DEF Sieved
    <3>4. ASSUME NEW i \in 1..Len(old)
          PROVE  old[i] # slot /\ \E k \in 1..n : list[k] = old[i]
      <4>1. old[i] # slot /\ \E k \in 1..(n - 1) : list[k] = old[i]
        BY <2>1 DEF Sieved
      <4> QED
        BY <4>1
    <3>5. ASSUME NEW i \in 1..Len(old), NEW j \in 1..Len(old), i < j
          PROVE  \E p, q \in 1..n : p < q /\ list[p] = old[i] /\ list[q] = old[j]
      <4>1. \E p, q \in 1..(n - 1) : p < q /\ list[p] = old[i] /\ list[q] = old[j]
        BY <2>1, <3>5 DEF Sieved
      <4> QED
        BY <4>1
    <3>6. Sieved(list, slot, n, old)
      BY <3>2, <3>3, <3>4, <3>5 DEF Sieved
    <3>7. Sieved(list, slot, n, new)
      BY <3>1, <3>6
    <3> QED
      BY <3>7 DEF new
  <2>4. CASE list[n] # slot
    <3> DEFINE size == Len(old)
    <3>0. old \in Seq(Nat) /\ list[n] \in Nat
      BY <2>1 DEF Sieved
    <3>1. /\ new \in Seq(Nat) /\ Len(new) = size + 1 /\ new[size + 1] = list[n]
          /\ \A i \in 1..size : new[i] = old[i]
      BY <3>0, <2>2, <2>4
    <3>2. size \in Nat
      BY <3>0
    <3> HIDE DEF size
    <3>3. ASSUME NEW k \in 1..n, list[k] # slot
          PROVE  \E i \in 1..Len(new) : new[i] = list[k]
      <4>1. CASE k = n
        <5>1. size + 1 \in 1..Len(new)
          BY <3>1, <3>2
        <5> QED
          BY <4>1, <5>1, <3>1
      <4>2. CASE k # n
        <5>1. PICK i \in 1..size : old[i] = list[k]
          BY <2>1, <3>3, <4>2 DEF Sieved, size
        <5> QED
          BY <5>1, <3>1, <3>2
      <4> QED
        BY <4>1, <4>2
    <3>4. ASSUME NEW i \in 1..Len(new)
          PROVE  new[i] # slot /\ \E k \in 1..n : list[k] = new[i]
      <4>1. CASE i = size + 1
        BY <4>1, <3>1, <2>4
      <4>2. CASE i # size + 1
        <5>1. i \in 1..size
          BY <4>2, <3>1, <3>2
        <5>2. old[i] # slot /\ \E k \in 1..(n - 1) : list[k] = old[i]
          BY <2>1, <5>1 DEF Sieved, size
        <5> QED
          BY <5>1, <5>2, <3>1
      <4> QED
        BY <4>1, <4>2
    <3>5. ASSUME NEW i \in 1..Len(new), NEW j \in 1..Len(new), i < j
          PROVE  \E p, q \in 1..n : p < q /\ list[p] = new[i] /\ list[q] = new[j]
      <4>1. i \in 1..size
        BY <3>1, <3>2, <3>5
      <4>2. CASE j = size + 1
        <5>1. PICK p \in 1..(n - 1) : list[p] = old[i]
          BY <2>1, <4>1 DEF Sieved, size
        <5> QED
          BY <5>1, <4>1, <4>2, <3>1
      <4>3. CASE j # size + 1
        <5>1. j \in 1..size
          BY <4>3, <3>1, <3>2
        <5>2. PICK p \in 1..(n - 1), q \in 1..(n - 1) :
                 p < q /\ list[p] = old[i] /\ list[q] = old[j]
          BY <2>1, <3>5, <4>1, <5>1 DEF Sieved, size
        <5>3. new[i] = old[i] /\ new[j] = old[j]
          BY <4>1, <5>1, <3>1
        <5>4. p \in 1..n /\ q \in 1..n
          OBVIOUS
        <5> QED
          BY <5>2, <5>3, <5>4
      <4> QED
        BY <4>2, <4>3
    <3>6. Sieved(list, slot, n, new)
      BY <3>1, <3>3, <3>4, <3>5 DEF Sieved
    <3> QED
      BY <3>6 DEF new
  <2> QED
    BY <2>3, <2>4
<1>3. Len(list) \in Nat /\ Len(list) \in 0..Len(list)
  OBVIOUS
<1>4. \A n \in 0..Len(list) : n \in T
  <2> HIDE DEF T
  <2> QED
    BY <1>1, <1>2, <1>3, Induct
<1> QED
  BY <1>3, <1>4, KeptsAre

-----------------------------------------------------------------------------
\* No two windows have one stamp.
Apart(ws) ==
    \A i, j \in 1..Len(ws) : ws[i].stamp = ws[j].stamp => i = j

\* The list names windows, and they come in the order of their stamps.
Ordered(ws, list) ==
    /\ \A k \in 1..Len(list) : list[k] \in 1..Len(ws)
    /\ \A j, k \in 1..Len(list) :
          j < k => ws[list[j]].stamp < ws[list[k]].stamp

\* The list names every window that may be evicted.
Covers(ws, list) ==
    \A i \in 1..Len(ws) : ~Pinned(ws[i]) => \E k \in 1..Len(list) : list[k] = i

\* All the list names but the slot is in order, and older than the slot.
Touchable(ws, list, slot) ==
    /\ \A k \in 1..Len(list) : list[k] # slot =>
          list[k] \in 1..Len(ws) /\ ws[list[k]].stamp < ws[slot].stamp
    /\ \A j, k \in 1..Len(list) :
          j < k /\ list[j] # slot /\ list[k] # slot =>
             ws[list[j]].stamp < ws[list[k]].stamp
    /\ \A i \in 1..Len(ws) : i # slot /\ ~Pinned(ws[i]) =>
          \E k \in 1..Len(list) : list[k] = i

(* touch_slot keeps the list in order, and adds the slot to it.             *)
LEMMA TouchKeeps ==
    ASSUME NEW ws \in Seq(Window), NEW list \in Seq(Nat), NEW slot \in 1..Len(ws),
           Touchable(ws, list, slot)
    PROVE  /\ TouchSlot(list, slot) \in Seq(Nat)
           /\ Ordered(ws, TouchSlot(list, slot))
           /\ Covers(ws, TouchSlot(list, slot))
<1> DEFINE rest == Without(list, slot)
           new == TouchSlot(list, slot)
           size == Len(rest)
<1>1. Sieved(list, slot, Len(list), rest)
  BY WithoutSieves
<1>2. rest \in Seq(Nat) /\ new = Append(rest, slot)
  BY <1>1 DEF Sieved, TouchSlot
<1> HIDE DEF rest, new
<1>3. /\ new \in Seq(Nat) /\ Len(new) = size + 1 /\ new[size + 1] = slot
      /\ \A i \in 1..size : new[i] = rest[i]
  BY <1>2
<1>4. size \in Nat
  BY <1>2
<1>5. \A i \in 1..size : rest[i] # slot /\ \E k \in 1..Len(list) : list[k] = rest[i]
  BY <1>1 DEF Sieved
<1>6. \A i, j \in 1..size : i < j =>
         \E p, q \in 1..Len(list) : p < q /\ list[p] = rest[i] /\ list[q] = rest[j]
  BY <1>1 DEF Sieved
<1>7. \A k \in 1..Len(list) : list[k] # slot => \E i \in 1..size : rest[i] = list[k]
  BY <1>1 DEF Sieved
<1> HIDE DEF size
<1>8. ASSUME NEW k \in 1..Len(new) PROVE new[k] \in 1..Len(ws)
  <2>1. CASE k = size + 1
    BY <2>1, <1>3
  <2>2. CASE k # size + 1
    <3>1. k \in 1..size
      BY <2>2, <1>3, <1>4
    <3>2. new[k] = rest[k] /\ rest[k] # slot
      BY <3>1, <1>3, <1>5
    <3>3. PICK p \in 1..Len(list) : list[p] = rest[k]
      BY <3>1, <1>5
    <3> QED
      BY <3>2, <3>3 DEF Touchable
  <2> QED
    BY <2>1, <2>2
<1>9. ASSUME NEW j \in 1..Len(new), NEW k \in 1..Len(new), j < k
      PROVE  ws[new[j]].stamp < ws[new[k]].stamp
  <2>1. j \in 1..size /\ new[j] = rest[j]
    BY <1>3, <1>4, <1>9
  <2>2. CASE k = size + 1
    <3>1. PICK p \in 1..Len(list) : list[p] = rest[j]
      BY <2>1, <1>5
    <3>2. rest[j] # slot /\ new[k] = slot
      BY <2>1, <2>2, <1>3, <1>5
    <3> QED
      BY <2>1, <3>1, <3>2 DEF Touchable
  <2>3. CASE k # size + 1
    <3>1. k \in 1..size /\ new[k] = rest[k]
      BY <2>3, <1>3, <1>4
    <3>2. PICK p \in 1..Len(list), q \in 1..Len(list) :
             p < q /\ list[p] = rest[j] /\ list[q] = rest[k]
      BY <2>1, <3>1, <1>6, <1>9
    <3>3. rest[j] # slot /\ rest[k] # slot
      BY <2>1, <3>1, <1>5
    <3>4. ws[list[p]].stamp < ws[list[q]].stamp
      BY <3>2, <3>3 DEF Touchable
    <3> QED
      BY <2>1, <3>1, <3>2, <3>4
  <2> QED
    BY <2>2, <2>3
<1>10. ASSUME NEW i \in 1..Len(ws), ~Pinned(ws[i])
       PROVE  \E k \in 1..Len(new) : new[k] = i
  <2>1. CASE i = slot
    <3>1. size + 1 \in 1..Len(new)
      BY <1>3, <1>4
    <3> QED
      BY <2>1, <3>1, <1>3
  <2>2. CASE i # slot
    <3>1. PICK k \in 1..Len(list) : list[k] = i
      BY <2>2, <1>10 DEF Touchable
    <3>2. PICK m \in 1..size : rest[m] = i
      BY <2>2, <3>1, <1>7
    <3>3. m \in 1..Len(new) /\ new[m] = i
      BY <3>2, <1>3, <1>4
    <3> QED
      BY <3>3
  <2> QED
    BY <2>1, <2>2
<1>11. Ordered(ws, new) /\ Covers(ws, new)
  BY <1>8, <1>9, <1>10 DEF Ordered, Covers
<1> QED
  BY <1>3, <1>11 DEF new

-----------------------------------------------------------------------------
Caches == [windows : Seq(Window), lru : Seq(Nat), total : Nat, evictions : Nat]

Sound(cache) ==
    /\ cache \in Caches
    /\ Apart(cache.windows)
    /\ Ordered(cache.windows, cache.lru)
    /\ Covers(cache.windows, cache.lru)
    /\ cache.total = Measure(cache.windows)

AllPinned(ws) == \A i \in 1..Len(ws) : Pinned(ws[i])

Victims(cache) ==
    {k \in DOMAIN cache.lru :
        /\ cache.lru[k] \in DOMAIN cache.windows
        /\ ~Pinned(cache.windows[cache.lru[k]])}

(* Of the places in the list that may be evicted there is an oldest.        *)
LEMMA OldestIs ==
    ASSUME NEW T, T \subseteq Nat, T # {}
    PROVE  Oldest(T) \in T /\ \A k \in T : Oldest(T) <= k
<1>1. PICK x \in T : \A y \in T : <<y, x>> \notin OpToRel(<, Nat)
  BY NatLessThanWellFounded, WFMin
<1>2. ASSUME NEW y \in T PROVE x <= y
  <2>1. x \in Nat /\ y \in Nat
    OBVIOUS
  <2>2. ~(y < x)
    BY <1>1, <2>1 DEF OpToRel
  <2> QED
    BY <2>1, <2>2
<1> QED
  BY <1>2 DEF Oldest, Min

(* What the fields of a sound cache are.                                    *)
LEMMA SoundFields ==
    ASSUME NEW c, Sound(c)
    PROVE  /\ c.windows \in Seq(Window) /\ c.lru \in Seq(Nat)
           /\ c.total \in Nat /\ c.evictions \in Nat
           /\ Apart(c.windows) /\ Ordered(c.windows, c.lru)
           /\ Covers(c.windows, c.lru) /\ c.total = Measure(c.windows)
           /\ c = [windows |-> c.windows, lru |-> c.lru, total |-> c.total,
                   evictions |-> c.evictions]
BY DEF Sound, Caches

(* evict_one without a window to evict: it empties the list, and every      *)
(* window is pinned.                                                        *)
LEMMA EvictsNone ==
    ASSUME NEW c, Sound(c), Victims(c) = {}
    PROVE  /\ AllPinned(c.windows)
           /\ Sound(EvictOne(c))
           /\ EvictOne(c).windows = c.windows
           /\ EvictOne(c).total = c.total
           /\ EvictOne(c).evictions = c.evictions
<1>1. EvictOne(c) = [c EXCEPT !.lru = <<>>]
  BY DEF EvictOne, Victims
<1>2. EvictOne(c) = [windows |-> c.windows, lru |-> <<>>, total |-> c.total,
                     evictions |-> c.evictions]
  BY <1>1, SoundFields
<1>3. ASSUME NEW i \in 1..Len(c.windows), ~Pinned(c.windows[i]) PROVE FALSE
  <2>1. PICK k \in 1..Len(c.lru) : c.lru[k] = i
    BY <1>3, SoundFields DEF Covers
  <2>2. k \in DOMAIN c.lru /\ i \in DOMAIN c.windows
    BY SoundFields
  <2>3. k \in Victims(c)
    BY <1>3, <2>1, <2>2 DEF Victims
  <2> QED
    BY <2>3
<1>4. AllPinned(c.windows)
  BY <1>3 DEF AllPinned
<1>5. <<>> \in Seq(Nat) /\ Ordered(c.windows, <<>>) /\ Covers(c.windows, <<>>)
  BY <1>3 DEF Ordered, Covers
<1>6. EvictOne(c) \in Caches
  BY <1>2, <1>5, SoundFields DEF Caches
<1> QED
  BY <1>2, <1>4, <1>5, <1>6, SoundFields DEF Sound

(* evict_one: the oldest window that may go is gone, the list names the     *)
(* others as before, at the positions they have now.                        *)
LEMMA EvictsOldest ==
    ASSUME NEW c, Sound(c), Victims(c) # {}
    PROVE  /\ Sound(EvictOne(c))
           /\ EvictOne(c).evictions = c.evictions + 1
           /\ \E slot \in 1..Len(c.windows) :
                 /\ EvictOne(c).windows = RemoveAt(c.windows, slot)
                 /\ c.total = EvictOne(c).total + c.windows[slot].size
                 /\ ~Pinned(c.windows[slot])
                 /\ \A i \in 1..Len(c.windows) : i # slot /\ ~Pinned(c.windows[i]) =>
                       c.windows[slot].stamp < c.windows[i].stamp
<1> DEFINE ws == c.windows
           list == c.lru
           v == Oldest(Victims(c))
           slot == list[v]
           left == RemoveAt(ws, slot)
           young == SubSeq(list, v + 1, Len(list))
           new == Renumbered(young, slot)
<1>1. /\ ws \in Seq(Window) /\ list \in Seq(Nat) /\ Apart(ws)
      /\ Ordered(ws, list) /\ Covers(ws, list) /\ c.total = Measure(ws)
      /\ c.evictions \in Nat
  BY SoundFields
<1>2. EvictOne(c) = [windows |-> left, lru |-> new, total |-> Measure(left),
                     evictions |-> c.evictions + 1]
  BY DEF EvictOne, Victims
<1>3. Victims(c) = {k \in 1..Len(list) : list[k] \in 1..Len(ws) /\ ~Pinned(ws[list[k]])}
  <2>1. DOMAIN list = 1..Len(list) /\ DOMAIN ws = 1..Len(ws)
    BY <1>1
  <2> QED
    BY <2>1 DEF Victims
<1>4. v \in Victims(c) /\ \A k \in Victims(c) : v <= k
  <2>1. Victims(c) \subseteq Nat
    BY <1>3
  <2>2. Oldest(Victims(c)) \in Victims(c) /\ \A k \in Victims(c) : Oldest(Victims(c)) <= k
    BY <2>1, OldestIs
  <2> QED
    BY <2>2
<1> HIDE DEF v, ws, list
<1>5. /\ v \in 1..Len(list) /\ slot \in 1..Len(ws) /\ ~Pinned(ws[slot])
      /\ Len(list) \in Nat /\ Len(ws) \in Nat
  BY <1>1, <1>3, <1>4
<1>6. /\ young \in Seq(Nat) /\ Len(young) = Len(list) - v
      /\ \A k \in 1..(Len(list) - v) : young[k] = list[v + k]
  BY <1>1, <1>5
<1> HIDE DEF young, slot
<1>7. /\ left \in Seq(Window) /\ Len(left) = Len(ws) - 1
      /\ \A i \in 1..(Len(ws) - 1) : left[i] = ws[IF i < slot THEN i ELSE i + 1]
      /\ Measure(ws) = Measure(left) + ws[slot].size
  BY <1>1, <1>5, SizeGone
<1>8. /\ DOMAIN new = 1..Len(young)
      /\ \A k \in 1..Len(young) : new[k] = IF young[k] > slot THEN young[k] - 1 ELSE young[k]
  BY <1>6 DEF Renumbered
<1> HIDE DEF left, new
\* Every window the list still names is another, older or younger.
<1>9. ASSUME NEW k \in 1..Len(young)
      PROVE  /\ young[k] \in 1..Len(ws) /\ young[k] # slot
             /\ new[k] \in 1..Len(left) /\ left[new[k]] = ws[young[k]]
  <2>1. v + k \in 1..Len(list) /\ v < v + k /\ young[k] = list[v + k]
    BY <1>5, <1>6
  <2>2. young[k] \in 1..Len(ws) /\ ws[slot].stamp < ws[young[k]].stamp
    BY <1>1, <1>5, <2>1 DEF Ordered, slot
  <2>3. young[k] # slot
    <3>1. ws[slot].stamp \in Nat
      BY <1>1, <1>5, WindowAt
    <3> QED
      BY <2>2, <3>1
  <2>4. CASE young[k] > slot
    <3>1. new[k] = young[k] - 1 /\ young[k] - 1 \in 1..(Len(ws) - 1)
      BY <2>2, <2>4, <1>5, <1>8
    <3>2. left[young[k] - 1] = ws[young[k]]
      <4>1. ~(young[k] - 1 < slot) /\ (young[k] - 1) + 1 = young[k]
        BY <2>2, <2>4, <1>5
      <4> QED
        BY <3>1, <4>1, <1>7
    <3> QED
      BY <2>2, <2>3, <3>1, <3>2, <1>7
  <2>5. CASE young[k] < slot
    <3>1. new[k] = young[k] /\ young[k] \in 1..(Len(ws) - 1)
      BY <2>2, <2>5, <1>5, <1>8
    <3>2. left[young[k]] = ws[young[k]]
      BY <3>1, <2>5, <1>7
    <3> QED
      BY <2>2, <2>3, <3>1, <3>2, <1>7
  <2> QED
    BY <2>2, <2>3, <2>4, <2>5, <1>5
<1>10. new \in Seq(Nat) /\ Len(new) = Len(young)
  <2>1. \A k \in 1..Len(young) : new[k] \in Nat
    BY <1>7, <1>9
  <2>2. Len(young) \in Nat
    BY <1>6
  <2>3. new = [k \in 1..Len(young) |-> new[k]]
    BY <1>8 DEF Renumbered, new
  <2> QED
    BY <2>1, <2>2, <2>3
<1>11. Ordered(left, new)
  <2>1. ASSUME NEW j \in 1..Len(new), NEW k \in 1..Len(new), j < k
        PROVE  left[new[j]].stamp < left[new[k]].stamp
    <3>1. j \in 1..Len(young) /\ k \in 1..Len(young)
      BY <1>10
    <3>2. v + j \in 1..Len(list) /\ v + k \in 1..Len(list) /\ v + j < v + k
      BY <3>1, <2>1, <1>5, <1>6
    <3>3. ws[young[j]].stamp < ws[young[k]].stamp
      BY <3>1, <3>2, <1>1, <1>6 DEF Ordered
    <3> QED
      BY <3>1, <3>3, <1>9
  <2> QED
    BY <2>1, <1>9, <1>10 DEF Ordered
<1>12. Covers(left, new)
  <2>1. ASSUME NEW i \in 1..Len(left), ~Pinned(left[i])
        PROVE  \E k \in 1..Len(new) : new[k] = i
    <3> DEFINE o == IF i < slot THEN i ELSE i + 1
    <3>1. o \in 1..Len(ws) /\ o # slot /\ left[i] = ws[o]
          /\ i = IF o > slot THEN o - 1 ELSE o
      BY <1>5, <1>7
    <3> HIDE DEF o
    <3>2. PICK p \in 1..Len(list) : list[p] = o
      BY <1>1, <2>1, <3>1 DEF Covers
    <3>3. p \in Victims(c)
      BY <1>3, <2>1, <3>1, <3>2
    <3>4. v <= p /\ v # p
      BY <1>4, <3>1, <3>2, <3>3 DEF slot
    <3>5. p - v \in 1..Len(young) /\ v + (p - v) = p
      BY <3>4, <1>5, <1>6
    <3>6. young[p - v] = o
      BY <3>2, <3>5, <1>6
    <3>7. new[p - v] = i
      BY <3>1, <3>5, <3>6, <1>8
    <3> QED
      BY <3>5, <3>7, <1>10
  <2> QED
    BY <2>1 DEF Covers
<1>13. Apart(left)
  <2>1. ASSUME NEW i \in 1..Len(left), NEW j \in 1..Len(left),
               left[i].stamp = left[j].stamp
        PROVE  i = j
    <3> DEFINE o == IF i < slot THEN i ELSE i + 1
               q == IF j < slot THEN j ELSE j + 1
    <3>1. o \in 1..Len(ws) /\ left[i] = ws[o] /\ q \in 1..Len(ws) /\ left[j] = ws[q]
      BY <1>5, <1>7
    <3>2. o = q
      <4> HIDE DEF o, q
      <4> QED
        BY <3>1, <2>1, <1>1 DEF Apart
    <3> QED
      BY <3>2, <1>5, <1>7
  <2> QED
    BY <2>1 DEF Apart
<1>14. Measure(left) \in Nat
  BY <1>7, SumsAre
<1>15. Sound(EvictOne(c))
  <2>1. EvictOne(c) \in Caches
    BY <1>1, <1>2, <1>7, <1>10, <1>14 DEF Caches
  <2> QED
    BY <1>2, <1>11, <1>12, <1>13, <2>1 DEF Sound
<1>16. ASSUME NEW i \in 1..Len(ws), i # slot, ~Pinned(ws[i])
       PROVE  ws[slot].stamp < ws[i].stamp
  <2>1. PICK p \in 1..Len(list) : list[p] = i
    BY <1>1, <1>16 DEF Covers
  <2>2. p \in Victims(c)
    BY <1>3, <1>16, <2>1
  <2>3. v <= p /\ v # p
    BY <1>4, <1>16, <2>1, <2>2 DEF slot
  <2>4. v < p
    BY <2>3, <1>5
  <2> QED
    BY <2>1, <2>4, <1>1, <1>5 DEF Ordered, slot
<1>17. /\ EvictOne(c).windows = RemoveAt(ws, slot)
       /\ c.total = EvictOne(c).total + ws[slot].size
       /\ EvictOne(c).evictions = c.evictions + 1
  BY <1>1, <1>2, <1>7 DEF left
<1> QED
  BY <1>5, <1>15, <1>16, <1>17 DEF ws

-----------------------------------------------------------------------------
\* The windows of a cache that another has no more.
Gone(ws, left) == {i \in 1..Len(ws) : \A j \in 1..Len(left) : left[j].stamp # ws[i].stamp}

\* What evictions make of a cache: they take windows that may go, the oldest
\* first, and the last they take would have been too much to keep.
Follows(c, d, budget) ==
    /\ \A j \in 1..Len(d.windows) : \E i \in 1..Len(c.windows) : d.windows[j] = c.windows[i]
    /\ \A i \in Gone(c.windows, d.windows) :
          /\ ~Pinned(c.windows[i])
          /\ \A j \in 1..Len(d.windows) : ~Pinned(d.windows[j]) =>
                c.windows[i].stamp < d.windows[j].stamp
    /\ \/ d.evictions = c.evictions
       \/ \E i \in Gone(c.windows, d.windows) : d.total + c.windows[i].size > budget

Done(d, budget) == d.total <= budget \/ AllPinned(d.windows)

(* A cache follows itself.                                                  *)
LEMMA FollowsItself ==
    ASSUME NEW c, Sound(c), NEW budget
    PROVE  Follows(c, c, budget)
BY DEF Follows, Gone

(* One eviction more follows, and leaves a window less, or pinned ones.     *)
LEMMA EvictFollows ==
    ASSUME NEW c, Sound(c), NEW d, Sound(d), NEW budget \in Nat,
           Follows(c, d, budget), d.total > budget
    PROVE  /\ Sound(EvictOne(d))
           /\ Follows(c, EvictOne(d), budget)
           /\ \/ AllPinned(EvictOne(d).windows)
              \/ Len(EvictOne(d).windows) = Len(d.windows) - 1
<1> DEFINE e == EvictOne(d)
           ws == c.windows
           vs == d.windows
           us == e.windows
<1>1. ws \in Seq(Window) /\ vs \in Seq(Window) /\ Apart(ws) /\ Apart(vs)
  BY SoundFields
<1>2. CASE Victims(d) = {}
  <2>1. Sound(e) /\ AllPinned(us) /\ us = vs /\ e.total = d.total /\ e.evictions = d.evictions
    BY <1>2, EvictsNone
  <2>2. Follows(c, e, budget)
    <3> HIDE DEF e
    <3> QED
      BY <2>1 DEF Follows
  <2> QED
    BY <2>1, <2>2
<1>3. CASE Victims(d) # {}
  <2>1. Sound(e) /\ us \in Seq(Window)
    BY <1>3, EvictsOldest, SoundFields
  <2>2. PICK slot \in 1..Len(vs) :
           /\ us = RemoveAt(vs, slot)
           /\ d.total = e.total + vs[slot].size
           /\ ~Pinned(vs[slot])
           /\ \A i \in 1..Len(vs) : i # slot /\ ~Pinned(vs[i]) =>
                 vs[slot].stamp < vs[i].stamp
    BY <1>3, EvictsOldest
  <2> HIDE DEF e
  <2> HIDE DEF ws, vs, us
  <2>3. Len(us) = Len(vs) - 1
        /\ \A i \in 1..(Len(vs) - 1) : us[i] = vs[IF i < slot THEN i ELSE i + 1]
    <3>1. vs \in Seq(Window)
      BY <1>1
    <3> QED
      BY <2>2, <3>1, SizeGone
  \* Each window left is another window than the one that went.
  <2>4. ASSUME NEW j \in 1..Len(us)
        PROVE  \E k \in 1..Len(vs) : us[j] = vs[k] /\ k # slot /\ vs[k].stamp # vs[slot].stamp
    <3> DEFINE k == IF j < slot THEN j ELSE j + 1
    <3>1. k \in 1..Len(vs) /\ us[j] = vs[k] /\ k # slot
      BY <1>1, <2>3
    <3> HIDE DEF k
    <3> QED
      BY <1>1, <3>1 DEF Apart
  <2>5. PICK o \in 1..Len(ws) : vs[slot] = ws[o]
    BY <2>2 DEF Follows, ws, vs
  <2>6. Gone(ws, us) = Gone(ws, vs) \cup {o}
    <3>1. ASSUME NEW i \in Gone(ws, vs) PROVE i \in Gone(ws, us)
      BY <2>4 DEF Gone
    <3>2. o \in Gone(ws, us)
      BY <2>4, <2>5 DEF Gone
    <3>3. ASSUME NEW i \in Gone(ws, us), i \notin Gone(ws, vs) PROVE i = o
      <4>1. i \in 1..Len(ws) /\ \A j \in 1..Len(us) : us[j].stamp # ws[i].stamp
        BY DEF Gone
      <4>2. PICK k \in 1..Len(vs) : vs[k].stamp = ws[i].stamp
        BY <3>3, <4>1 DEF Gone
      <4>3. k = slot
        <5>1. SUFFICES ASSUME k # slot PROVE FALSE
          OBVIOUS
        <5> DEFINE j == IF k < slot THEN k ELSE k - 1
        <5>2. Len(vs) \in Nat
          BY <1>1
        <5>3. j \in 1..(Len(vs) - 1) /\ k = IF j < slot THEN j ELSE j + 1
          BY <5>1, <5>2
        <5>4. j \in 1..Len(us) /\ us[j] = vs[k]
          <6> HIDE DEF j
          <6> QED
            BY <2>3, <5>3
        <5> QED
          BY <4>1, <4>2, <5>4
      <4>4. ws[o].stamp = ws[i].stamp
        BY <2>5, <4>2, <4>3
      <4> QED
        BY <1>1, <4>1, <4>4 DEF Apart
    <3> QED
      BY <3>1, <3>2, <3>3
  <2>7. ASSUME NEW j \in 1..Len(us) PROVE \E i \in 1..Len(ws) : us[j] = ws[i]
    BY <2>4 DEF Follows, ws, vs
  <2>8. ASSUME NEW i \in Gone(ws, us)
        PROVE  /\ ~Pinned(ws[i])
               /\ \A j \in 1..Len(us) : ~Pinned(us[j]) => ws[i].stamp < us[j].stamp
    <3>1. CASE i = o
      <4>1. ASSUME NEW j \in 1..Len(us), ~Pinned(us[j]) PROVE ws[i].stamp < us[j].stamp
        <5>1. PICK k \in 1..Len(vs) : us[j] = vs[k] /\ k # slot
          BY <2>4
        <5> QED
          BY <2>2, <2>5, <3>1, <4>1, <5>1
      <4> QED
        BY <2>2, <2>5, <3>1, <4>1
    <3>2. CASE i \in Gone(ws, vs)
      <4>1. /\ ~Pinned(ws[i])
            /\ \A k \in 1..Len(vs) : ~Pinned(vs[k]) => ws[i].stamp < vs[k].stamp
        BY <3>2 DEF Follows, ws, vs
      <4>2. ASSUME NEW j \in 1..Len(us), ~Pinned(us[j]) PROVE ws[i].stamp < us[j].stamp
        <5>1. PICK k \in 1..Len(vs) : us[j] = vs[k]
          BY <2>4
        <5> QED
          BY <4>1, <4>2, <5>1
      <4> QED
        BY <4>1, <4>2
    <3> QED
      BY <2>6, <3>1, <3>2
  <2>9. \E i \in Gone(ws, us) : e.total + ws[i].size > budget
    <3>1. o \in Gone(ws, us)
      BY <2>6
    <3>2. e.total + ws[o].size > budget
      BY <2>2, <2>5
    <3> QED
      BY <3>1, <3>2
  <2>10. Follows(c, e, budget)
    BY <2>7, <2>8, <2>9 DEF Follows, ws, us
  <2> QED
    BY <2>1, <2>3, <2>10 DEF e, vs, us
<1> QED
  BY <1>2, <1>3

-----------------------------------------------------------------------------
Rounds(c, budget) ==
    CHOOSE rounds : rounds = [n \in 0..(Len(c.windows) + 1) |->
        IF n = 0 THEN c
        ELSE IF rounds[n - 1].total > budget THEN EvictOne(rounds[n - 1])
        ELSE rounds[n - 1]]

(* The rounds of the loop of CACHE and EVICT are there: each starts from a  *)
(* sound cache, and all they take is rightly gone.                          *)
LEMMA RoundsAre ==
    ASSUME NEW c, Sound(c), NEW budget \in Nat
    PROVE  /\ Shrink(c, budget) = Rounds(c, budget)[Len(c.windows) + 1]
           /\ Rounds(c, budget)[0] = c
           /\ \A n \in 1..(Len(c.windows) + 1) : Rounds(c, budget)[n] =
                 IF Rounds(c, budget)[n - 1].total > budget
                 THEN EvictOne(Rounds(c, budget)[n - 1]) ELSE Rounds(c, budget)[n - 1]
           /\ \A n \in 0..(Len(c.windows) + 1) :
                 Sound(Rounds(c, budget)[n]) /\ Follows(c, Rounds(c, budget)[n], budget)
<1> DEFINE N == Len(c.windows) + 1
           S == {d \in Caches : Sound(d) /\ Follows(c, d, budget)}
           On(d) == IF d.total > budget THEN EvictOne(d) ELSE d
           step == [n \in 1..N |-> [d \in S |-> On(d)]]
           P(f) == f = [n \in 0..N |->
               IF n = 0 THEN c
               ELSE IF f[n - 1].total > budget THEN EvictOne(f[n - 1]) ELSE f[n - 1]]
<1>1. N \in Nat
  BY SoundFields
<1>2. c \in S
  BY FollowsItself DEF Sound
<1>3. ASSUME NEW d \in S PROVE On(d) \in S
  <2>1. CASE d.total > budget
    <3>1. Sound(EvictOne(d)) /\ Follows(c, EvictOne(d), budget)
      BY <2>1, EvictFollows
    <3> QED
      BY <2>1, <3>1 DEF Sound
  <2>2. CASE ~(d.total > budget)
    BY <2>2
  <2> QED
    BY <2>1, <2>2
<1>4. \A d \in S : Sound(d) /\ Follows(c, d, budget)
  OBVIOUS
<1> HIDE DEF N, S
<1>5. step \in [1..N -> [S -> S]] /\ \A n \in 1..N : \A d \in S : step[n][d] = On(d)
  <2> HIDE DEF On
  <2> QED
    BY <1>3
<1> HIDE DEF step
<1>6. PICK f \in [0..N -> S] : f[0] = c /\ \A n \in 1..N : f[n] = step[n][f[n - 1]]
  <2>1. Runs(N, S, c, step) # {}
    BY <1>1, <1>2, <1>5, Recursion
  <2> QED
    BY <2>1 DEF Runs
<1>7. ASSUME NEW n \in 1..N PROVE f[n] = On(f[n - 1])
  <2>1. n - 1 \in 0..N
    BY <1>1
  <2>2. f[n - 1] \in S
    BY <2>1
  <2> HIDE DEF On
  <2> QED
    BY <1>5, <1>6, <2>2
<1>8. P(f)
  <2>1. f = [n \in 0..N |-> f[n]]
    OBVIOUS
  <2>2. ASSUME NEW n \in 0..N
        PROVE  f[n] = IF n = 0 THEN c
                      ELSE IF f[n - 1].total > budget THEN EvictOne(f[n - 1]) ELSE f[n - 1]
    <3>1. CASE n = 0
      BY <1>6, <3>1
    <3>2. CASE n # 0
      <4>1. n \in 1..N
        BY <1>1, <3>2
      <4> QED
        BY <1>7, <3>2, <4>1
    <3> QED
      BY <3>1, <3>2
  <2> QED
    BY <2>1, <2>2
<1> DEFINE R == Rounds(c, budget)
<1>9. R = CHOOSE g : P(g)
  BY DEF Rounds, N
<1>10. P(R)
  <2> HIDE DEF P, R
  <2> QED
    BY <1>8, <1>9
<1> HIDE DEF R
<1>11. R[0] = c /\ \A n \in 1..N : R[n] = On(R[n - 1])
  <2>1. R = [n \in 0..N |->
               IF n = 0 THEN c
               ELSE IF R[n - 1].total > budget THEN EvictOne(R[n - 1]) ELSE R[n - 1]]
    BY <1>10
  <2>2. R[0] = c
    BY <1>1, <2>1
  <2>3. ASSUME NEW n \in 1..N PROVE R[n] = On(R[n - 1])
    <3>1. n \in 0..N /\ n # 0
      BY <1>1
    <3> QED
      BY <2>1, <3>1
  <2> QED
    BY <2>2, <2>3
<1> DEFINE T == {n \in 0..N : R[n] \in S}
<1>12. 0 \in T
  BY <1>1, <1>2, <1>11
<1>13. ASSUME NEW n \in 1..N, n - 1 \in T PROVE n \in T
  <2>1. R[n - 1] \in S
    BY <1>13
  <2>2. On(R[n - 1]) \in S
    BY <1>3, <2>1
  <2>3. R[n] \in S
    BY <1>11, <2>2
  <2> QED
    BY <2>3
<1>14. \A n \in 0..N : n \in T
  <2> HIDE DEF T
  <2> QED
    BY <1>1, <1>12, <1>13, Induct
<1>15. \A n \in 0..N : Sound(R[n]) /\ Follows(c, R[n], budget)
  BY <1>4, <1>14
<1>16. Shrink(c, budget) = R[N]
  BY DEF Shrink, Rounds, R, N
<1> QED
  BY <1>11, <1>15, <1>16 DEF R, N

(* The loop of CACHE and EVICT as a whole: it ends within the budget or     *)
(* with pinned windows only, and all it took is rightly gone.               *)
LEMMA Shrinks ==
    ASSUME NEW c, Sound(c), NEW budget \in Nat
    PROVE  /\ Sound(Shrink(c, budget))
           /\ Follows(c, Shrink(c, budget), budget)
           /\ Done(Shrink(c, budget), budget)
<1> DEFINE N == Len(c.windows) + 1
           R == Rounds(c, budget)
           T == {n \in 0..N : Done(R[n], budget) \/ Len(R[n].windows) + n <= Len(c.windows)}
<1>1. N \in Nat /\ Len(c.windows) \in Nat
  BY SoundFields
<1>2. \A n \in 0..N : Sound(R[n]) /\ Follows(c, R[n], budget)
  BY RoundsAre
<1>3. R[0] = c
  BY RoundsAre
<1>4. \A n \in 1..N : R[n] = IF R[n - 1].total > budget THEN EvictOne(R[n - 1]) ELSE R[n - 1]
  BY RoundsAre
<1>5. Shrink(c, budget) = R[N]
  BY RoundsAre
<1> HIDE DEF R
<1>6. 0 \in T
  BY <1>1, <1>3
<1>7. ASSUME NEW n \in 1..N, n - 1 \in T PROVE n \in T
  <2> DEFINE d == R[n - 1]
  <2>1. n - 1 \in 0..N
    BY <1>1
  <2>2. Sound(d) /\ Follows(c, d, budget)
    BY <1>2, <2>1
  <2>3. Done(d, budget) \/ Len(d.windows) + (n - 1) <= Len(c.windows)
    BY <1>7
  <2>4. R[n] = IF d.total > budget THEN EvictOne(d) ELSE d
    BY <1>4
  <2>5. d.total \in Nat /\ Len(d.windows) \in Nat
    BY <2>2, SoundFields
  <2> HIDE DEF d
  <2>6. CASE d.total > budget
    <3>1. AllPinned(EvictOne(d).windows) \/ Len(EvictOne(d).windows) = Len(d.windows) - 1
      BY <2>2, <2>6, EvictFollows
    <3>2. CASE AllPinned(d.windows)
      <4>1. Victims(d) = {}
        <5>1. DOMAIN d.windows = 1..Len(d.windows)
          BY <2>2, SoundFields
        <5> QED
          BY <3>2, <5>1 DEF Victims, AllPinned
      <4>2. AllPinned(EvictOne(d).windows)
        BY <4>1, <2>2, EvictsNone
      <4> QED
        BY <4>2, <2>4, <2>6 DEF Done
    <3>3. CASE ~AllPinned(d.windows)
      <4>1. Len(d.windows) + (n - 1) <= Len(c.windows)
        BY <2>3, <2>5, <2>6, <3>3 DEF Done
      <4>2. CASE AllPinned(EvictOne(d).windows)
        BY <4>2, <2>4, <2>6 DEF Done
      <4>3. CASE Len(EvictOne(d).windows) = Len(d.windows) - 1
        <5>1. Len(EvictOne(d).windows) + n <= Len(c.windows)
          BY <1>1, <2>5, <4>1, <4>3
        <5>2. Len(R[n].windows) + n <= Len(c.windows)
          BY <5>1, <2>4, <2>6
        <5> QED
          BY <5>2
      <4> QED
        BY <3>1, <4>2, <4>3
    <3> QED
      BY <3>2, <3>3
  <2>7. CASE ~(d.total > budget)
    <3>1. Done(R[n], budget)
      BY <2>4, <2>5, <2>7 DEF Done
    <3> QED
      BY <3>1
  <2> QED
    BY <2>6, <2>7
<1>8. \A n \in 0..N : n \in T
  <2> HIDE DEF T
  <2> QED
    BY <1>1, <1>6, <1>7, Induct
<1>9. N \in 0..N
  BY <1>1
<1> DEFINE size == Len(R[N].windows)
<1>10. Done(R[N], budget)
  <2>1. Done(R[N], budget) \/ size + N <= Len(c.windows)
    BY <1>8, <1>9
  <2>2. size \in Nat
    BY <1>2, <1>9, SoundFields
  <2> HIDE DEF size
  <2>3. ~(size + N <= Len(c.windows))
    BY <1>1, <2>2
  <2> QED
    BY <2>1, <2>3
<1> QED
  BY <1>2, <1>5, <1>9, <1>10

(* As many elements as places, when none is there twice.                    *)
LEMMA Distinct ==
    ASSUME NEW S, NEW s \in Seq(S), \A j, k \in 1..Len(s) : j < k => s[j] # s[k]
    PROVE  Cardinality({s[k] : k \in 1..Len(s)}) = Len(s)
<1> DEFINE n == Len(s)
           T == {s[k] : k \in 1..n}
           f == [k \in 1..n |-> s[k]]
<1>1. n \in Nat
  OBVIOUS
<1>2. ASSUME NEW j \in 1..n, NEW k \in 1..n, s[j] = s[k] PROVE j = k
  <2>1. ~(j < k) /\ ~(k < j)
    BY <1>2
  <2> QED
    BY <1>1, <2>1
<1>3. f \in [1..n -> T] /\ \A t \in T : \E k \in 1..n : f[k] = t
  OBVIOUS
<1>4. \A j, k \in 1..n : f[j] = f[k] => j = k
  BY <1>2
<1> HIDE DEF f, T, n
<1>5. f \in Bijection(1..n, T)
  BY <1>3, <1>4 DEF Bijection, Injection, Surjection, IsInjective
<1>6. ExistsBijection(1..n, T)
  BY <1>5 DEF ExistsBijection
<1> QED
  BY <1>1, <1>6, FS_CountingElements DEF n, T

-----------------------------------------------------------------------------
\* What the variables are.
Types ==
    /\ pages \in [DOMAIN pages -> Nat]
    /\ windows \in Seq(Window)
    /\ lru \in Seq(Nat)
    /\ {target, total, stamp, evictions} \subseteq Nat

Inv ==
    /\ Types
    /\ Apart(windows)
    /\ \A i \in 1..Len(windows) : windows[i].stamp <= stamp
    /\ Ordered(windows, lru)
    /\ Covers(windows, lru)
    /\ total = Measure(windows)
    /\ total > target => AllPinned(windows)

(* The cache of a state the invariant holds in is sound.                    *)
LEMMA NowSound ==
    ASSUME Inv
    PROVE  Sound([windows |-> windows, lru |-> lru, total |-> Measure(windows),
                  evictions |-> evictions])
BY SumsAre DEF Inv, Types, Sound, Caches

(* The window CACHE adds is sound where it comes, the youngest.             *)
LEMMA InsertedSound ==
    ASSUME Inv, NEW id \in Nat, NEW width \in Nat
    PROVE  /\ Sound(Inserted(id, width))
           /\ Inserted(id, width).windows =
                 Append(windows, [page_id |-> id, size |-> width, stamp |-> stamp + 1])
           /\ Inserted(id, width).evictions = evictions
<1> DEFINE new == [page_id |-> id, size |-> width, stamp |-> stamp + 1]
           grown == Append(windows, new)
           size == Len(windows)
           slot == Len(grown)
           list == TouchSlot(lru, slot)
<1>1. windows \in Seq(Window) /\ lru \in Seq(Nat) /\ stamp \in Nat /\ evictions \in Nat
  BY DEF Inv, Types
<1>2. new \in Window /\ new.stamp = stamp + 1
  BY <1>1 DEF Window
<1>3. Inserted(id, width) = [windows |-> grown, lru |-> list, total |-> Measure(grown),
                             evictions |-> evictions]
  BY DEF Inserted
<1> HIDE DEF new
<1>4. /\ grown \in Seq(Window) /\ slot = size + 1 /\ grown[slot] = new
      /\ \A i \in 1..size : grown[i] = windows[i]
  BY <1>1, <1>2
<1>5. size \in Nat
  BY <1>1
<1> HIDE DEF grown, size, slot
<1>6. slot \in 1..Len(grown) /\ Len(grown) = slot
  BY <1>4, <1>5 DEF slot
<1>7. /\ \A k \in 1..Len(lru) : lru[k] \in 1..size
      /\ \A i \in 1..size : windows[i].stamp \in Nat /\ windows[i].stamp <= stamp
  BY <1>1, WindowAt DEF Inv, Ordered, size
<1>8. Touchable(grown, lru, slot)
  <2>1. ASSUME NEW k \in 1..Len(lru), lru[k] # slot
        PROVE  lru[k] \in 1..Len(grown) /\ grown[lru[k]].stamp < grown[slot].stamp
    <3>1. lru[k] \in 1..size /\ grown[lru[k]] = windows[lru[k]]
      BY <1>4, <1>7
    <3>2. windows[lru[k]].stamp < stamp + 1
      BY <1>1, <1>7, <3>1
    <3> QED
      BY <1>2, <1>4, <1>5, <1>6, <3>1, <3>2
  <2>2. ASSUME NEW j \in 1..Len(lru), NEW k \in 1..Len(lru), j < k
        PROVE  grown[lru[j]].stamp < grown[lru[k]].stamp
    BY <2>2, <1>4, <1>7 DEF Inv, Ordered
  <2>3. ASSUME NEW i \in 1..Len(grown), i # slot, ~Pinned(grown[i])
        PROVE  \E k \in 1..Len(lru) : lru[k] = i
    <3>1. i \in 1..size
      BY <1>4, <1>5, <1>6, <2>3
    <3> QED
      BY <2>3, <3>1, <1>4 DEF Inv, Covers, size
  <2> QED
    BY <2>1, <2>2, <2>3 DEF Touchable
<1>9. list \in Seq(Nat) /\ Ordered(grown, list) /\ Covers(grown, list)
  BY <1>1, <1>4, <1>6, <1>8, TouchKeeps
<1>10. Apart(grown)
  <2>1. ASSUME NEW i \in 1..Len(grown), NEW j \in 1..Len(grown),
               grown[i].stamp = grown[j].stamp
        PROVE  i = j
    <3>1. CASE i \in 1..size /\ j \in 1..size
      <4>1. windows[i].stamp = windows[j].stamp
        BY <2>1, <3>1, <1>4
      <4> QED
        BY <3>1, <4>1 DEF Inv, Apart, size
    <3>2. CASE i \in 1..size /\ j = slot
      BY <2>1, <3>2, <1>1, <1>2, <1>4, <1>7
    <3>3. CASE j \in 1..size /\ i = slot
      BY <2>1, <3>3, <1>1, <1>2, <1>4, <1>7
    <3>4. CASE i = slot /\ j = slot
      BY <3>4
    <3> QED
      BY <3>1, <3>2, <3>3, <3>4, <1>4, <1>5, <1>6
  <2> QED
    BY <2>1 DEF Apart
<1>11. Measure(grown) \in Nat
  <2>1. Measure(grown) = Sums(grown)[Len(grown)] /\ Sums(grown) \in [0..Len(grown) -> Nat]
    BY <1>4, SumsAre
  <2> QED
    BY <2>1, <1>4, <1>5, <1>6
<1> QED
  BY <1>1, <1>3, <1>4, <1>9, <1>10, <1>11 DEF Sound, Caches, grown, new

(* What the loop leaves of a sound cache keeps the invariant.               *)
LEMMA ShrinkKeepsInv ==
    ASSUME NEW c, Sound(c), Keep(Shrink(c, target')), target' \in Nat, stamp' \in Nat,
           pages' \in [DOMAIN pages' -> Nat],
           \A i \in 1..Len(c.windows) : c.windows[i].stamp <= stamp'
    PROVE  Inv'
<1> DEFINE b == target'
           r == Shrink(c, b)
<1>1. Sound(r) /\ Follows(c, r, b) /\ Done(r, b)
  BY Shrinks
<1>2. windows' = r.windows /\ lru' = r.lru /\ total' = r.total /\ evictions' = r.evictions
  BY DEF Keep
<1> HIDE DEF r
<1>3. /\ windows' \in Seq(Window) /\ lru' \in Seq(Nat) /\ total' \in Nat
      /\ evictions' \in Nat /\ Apart(windows') /\ Ordered(windows', lru')
      /\ Covers(windows', lru') /\ total' = Measure(windows')
  BY <1>1, <1>2, SoundFields
<1>4. ASSUME NEW i \in 1..Len(windows') PROVE windows'[i].stamp <= stamp'
  BY <1>1, <1>2 DEF Follows
<1>5. total' > target' => AllPinned(windows')
  BY <1>1, <1>2, <1>3 DEF Done
<1> QED
  BY <1>3, <1>4, <1>5 DEF Inv, Types

(* TOUCH keeps the invariant.                                               *)
LEMMA TouchKeepsInv ==
    ASSUME Inv, NEW slot \in 1..(Len(windows) + 1), TouchCacheWindow(slot)
    PROVE  Inv'
<1>1. /\ windows \in Seq(Window) /\ lru \in Seq(Nat) /\ stamp \in Nat
      /\ Len(windows) \in Nat /\ DOMAIN windows = 1..Len(windows)
  BY DEF Inv, Types
<1>2. CASE slot \notin 1..Len(windows)
  <2>1. UNCHANGED <<pages, windows, lru, target, total, stamp, evictions>>
    BY <1>1, <1>2 DEF TouchCacheWindow
  <2> QED
    BY <2>1 DEF Inv, Types
<1>3. CASE slot \in 1..Len(windows)
  <2>1. /\ windows' = [windows EXCEPT ![slot].stamp = stamp + 1]
        /\ lru' = TouchSlot(lru, slot) /\ stamp' = stamp + 1
        /\ UNCHANGED <<pages, target, total, evictions>>
    BY <1>1, <1>3 DEF TouchCacheWindow
  <2>2. /\ windows' \in Seq(Window) /\ Len(windows') = Len(windows)
        /\ windows'[slot].stamp = stamp + 1
        /\ \A i \in 1..Len(windows) : i # slot => windows'[i] = windows[i]
        /\ \A i \in 1..Len(windows) : /\ windows'[i].size = windows[i].size
                                       /\ windows'[i].page_id = windows[i].page_id
    <3> DEFINE new == [windows[slot] EXCEPT !.stamp = stamp + 1]
    <3>1. windows[slot] \in Window
      BY <1>1, <1>3
    <3>2. /\ new \in Window /\ new.stamp = stamp + 1 /\ new.size = windows[slot].size
          /\ new.page_id = windows[slot].page_id
      <4>1. \A w \in Window, n \in Nat :
               LET v == [w EXCEPT !.stamp = n]
               IN  v \in Window /\ v.stamp = n /\ v.size = w.size /\ v.page_id = w.page_id
        BY DEF Window
      <4>2. stamp + 1 \in Nat
        BY <1>1
      <4> QED
        BY <3>1, <4>1, <4>2
    <3>3. windows' = [windows EXCEPT ![slot] = new]
      BY <2>1
    <3> HIDE DEF new
    <3> QED
      BY <1>1, <1>3, <3>2, <3>3
  <2>3. \A i \in 1..Len(windows) : windows[i].stamp \in Nat /\ windows[i].stamp <= stamp
    BY <1>1, WindowAt DEF Inv
  <2>4. Touchable(windows', lru, slot)
    <3>1. ASSUME NEW k \in 1..Len(lru), lru[k] # slot
          PROVE  lru[k] \in 1..Len(windows') /\ windows'[lru[k]].stamp < windows'[slot].stamp
      <4>1. lru[k] \in 1..Len(windows)
        BY DEF Inv, Ordered
      <4>2. windows[lru[k]].stamp < stamp + 1
        BY <1>1, <2>3, <4>1
      <4> QED
        BY <2>2, <3>1, <4>1, <4>2
    <3>2. ASSUME NEW j \in 1..Len(lru), NEW k \in 1..Len(lru), j < k,
                 lru[j] # slot, lru[k] # slot
          PROVE  windows'[lru[j]].stamp < windows'[lru[k]].stamp
      BY <3>2, <2>2 DEF Inv, Ordered
    <3>3. ASSUME NEW i \in 1..Len(windows'), i # slot, ~Pinned(windows'[i])
          PROVE  \E k \in 1..Len(lru) : lru[k] = i
      BY <3>3, <2>2 DEF Inv, Covers
    <3> QED
      BY <3>1, <3>2, <3>3 DEF Touchable
  <2>5. lru' \in Seq(Nat) /\ Ordered(windows', lru') /\ Covers(windows', lru')
    <3>1. \A ws \in Seq(Window) : slot \in 1..Len(ws) /\ Touchable(ws, lru, slot) =>
             /\ TouchSlot(lru, slot) \in Seq(Nat)
             /\ Ordered(ws, TouchSlot(lru, slot)) /\ Covers(ws, TouchSlot(lru, slot))
      BY <1>1, TouchKeeps
    <3> QED
      BY <1>3, <2>1, <2>2, <2>4, <3>1
  <2>6. Apart(windows')
    <3>1. ASSUME NEW i \in 1..Len(windows'), NEW j \in 1..Len(windows'),
                 windows'[i].stamp = windows'[j].stamp
          PROVE  i = j
      <4>1. CASE i # slot /\ j # slot
        BY <3>1, <4>1, <2>2 DEF Inv, Apart
      <4>2. CASE i = slot /\ j # slot
        <5>1. j \in 1..Len(windows) /\ windows'[j] = windows[j]
          BY <4>2, <2>2
        <5>2. windows[j].stamp = stamp + 1
          BY <3>1, <4>2, <2>2, <5>1
        <5> QED
          BY <1>1, <2>3, <5>1, <5>2
      <4>3. CASE i # slot /\ j = slot
        BY <3>1, <4>3, <1>1, <2>2, <2>3
      <4>4. CASE i = slot /\ j = slot
        BY <4>4
      <4> QED
        BY <4>1, <4>2, <4>3, <4>4
    <3> QED
      BY <3>1 DEF Apart
  <2>7. \A i \in 1..Len(windows') : windows'[i].stamp <= stamp'
    BY <1>1, <2>1, <2>2, <2>3
  <2>8. total' = Measure(windows')
    <3>1. \A ws \in Seq(Window) : Len(windows) = Len(ws)
             /\ (\A i \in 1..Len(windows) : windows[i].size = ws[i].size) =>
                Measure(windows) = Measure(ws)
      BY <1>1, SameSizes
    <3>2. Measure(windows) = Measure(windows')
      BY <2>2, <3>1
    <3> QED
      BY <2>1, <3>2 DEF Inv
  <2>9. total' > target' => AllPinned(windows')
    BY <2>1, <2>2 DEF Inv, AllPinned, Pinned
  <2> QED
    BY <1>1, <2>1, <2>2, <2>5, <2>6, <2>7, <2>8, <2>9 DEF Inv, Types
<1> QED
  BY <1>2, <1>3

(* CACHE, where it goes on: the new window, and what the budget leaves.     *)
LEMMA CacheKeepsInv ==
    ASSUME Inv, NEW id \in Nat, NEW width \in Nat, status' = "ok",
           CachePageWindow(id, width)
    PROVE  Inv'
<1> DEFINE c == Inserted(id, width)
<1>1. /\ Keep(Shrink(c, target)) /\ stamp' = stamp + 1 /\ UNCHANGED <<pages, target>>
  BY DEF CachePageWindow
<1>2. /\ windows \in Seq(Window) /\ stamp \in Nat /\ target \in Nat
      /\ pages \in [DOMAIN pages -> Nat]
  BY DEF Inv, Types
<1>3. Sound(c) /\ c.windows =
         Append(windows, [page_id |-> id, size |-> width, stamp |-> stamp + 1])
  BY InsertedSound
<1>4. \A i \in 1..Len(c.windows) : c.windows[i].stamp <= stamp'
  <2> DEFINE new == [page_id |-> id, size |-> width, stamp |-> stamp + 1]
  <2>1. new \in Window /\ new.stamp = stamp + 1
    BY <1>2 DEF Window
  <2> HIDE DEF new
  <2>2. \A i \in 1..Len(windows) : windows[i].stamp \in Nat /\ windows[i].stamp <= stamp
    BY <1>2, WindowAt DEF Inv
  <2>3. c.windows = Append(windows, new)
    BY <1>3 DEF new
  <2> HIDE DEF c
  <2>4. ASSUME NEW i \in 1..Len(c.windows) PROVE c.windows[i].stamp <= stamp + 1
    <3>1. CASE i = Len(windows) + 1
      BY <1>2, <2>1, <2>3, <3>1
    <3>2. CASE i # Len(windows) + 1
      <4>1. i \in 1..Len(windows) /\ c.windows[i] = windows[i]
        BY <1>2, <2>1, <2>3, <3>2
      <4> QED
        BY <1>2, <2>2, <4>1
    <3> QED
      BY <3>1, <3>2
  <2> QED
    BY <1>1, <2>4
<1> HIDE DEF c
<1>5. Keep(Shrink(c, target')) /\ target' \in Nat /\ stamp' \in Nat
      /\ pages' \in [DOMAIN pages' -> Nat]
  BY <1>1, <1>2
<1> QED
  BY <1>3, <1>4, <1>5, ShrinkKeepsInv

(* Every step keeps the invariant.                                          *)
LEMMA NextKeepsInv ==
    ASSUME Inv, [Next]_vars
    PROVE  Inv'
<1>1. CASE UNCHANGED vars
  BY <1>1 DEF vars, Inv, Types
<1>2. ASSUME NEW id \in PageIds, NEW size \in PageSizes, AddPage(id, size) PROVE Inv'
  <2>1. UNCHANGED <<windows, lru, target, total, stamp, evictions>>
    BY <1>2 DEF AddPage
  <2>2. pages' \in [DOMAIN pages' -> Nat]
    <3>1. size \in Nat /\ pages \in [DOMAIN pages -> Nat]
      BY PageCacheConstants DEF Inv, Types
    <3>2. CASE pages' = pages
      BY <3>1, <3>2
    <3>3. CASE pages' = [x \in DOMAIN pages \cup {id} |-> IF x = id THEN size ELSE pages[x]]
      <4>1. \A x \in DOMAIN pages \cup {id} : (IF x = id THEN size ELSE pages[x]) \in Nat
        BY <3>1
      <4>2. DOMAIN pages' = DOMAIN pages \cup {id}
        BY <3>3
      <4> QED
        BY <3>3, <4>1, <4>2
    <3> QED
      BY <1>2, <3>2, <3>3 DEF AddPage
  <2> QED
    BY <2>1, <2>2 DEF Inv, Types
<1>3. ASSUME NEW id \in PageIds,
             NEW width \in {0, 1} \cup {size + 1 : size \in PageSizes} \cup PageSizes,
             CachePageWindow(id, width)
      PROVE  Inv'
  <2>1. CASE status' = "ok"
    <3>1. id \in Nat /\ width \in Nat
      <4>1. PageIds \subseteq Nat /\ PageSizes \subseteq Nat
        BY PageCacheConstants
      <4>2. ASSUME width \in {size + 1 : size \in PageSizes} PROVE width \in Nat
        <5>1. PICK size \in PageSizes : width = size + 1
          BY <4>2
        <5>2. size \in Nat
          BY <4>1
        <5> QED
          BY <5>1, <5>2
      <4>3. width \in {0, 1} \/ width \in PageSizes
            \/ width \in {size + 1 : size \in PageSizes}
        OBVIOUS
      <4>4. width \in Nat
        BY <4>1, <4>2, <4>3
      <4> QED
        BY <4>1, <4>4
    <3> QED
      BY <1>3, <2>1, <3>1, CacheKeepsInv
  <2>2. CASE status' # "ok"
    <3>1. UNCHANGED <<pages, windows, lru, target, total, stamp, evictions>>
      BY <1>3, <2>2 DEF CachePageWindow
    <3> QED
      BY <3>1 DEF Inv, Types
  <2> QED
    BY <2>1, <2>2
<1>4. ASSUME NEW slot \in 1..(Len(windows) + 1), TouchCacheWindow(slot) PROVE Inv'
  BY <1>4, TouchKeepsInv
<1>5. ASSUME NEW budget \in Targets, EvictCacheWindows(budget) PROVE Inv'
  <2> DEFINE c == [windows |-> windows, lru |-> lru, total |-> Measure(windows),
                   evictions |-> evictions]
  <2>1. Sound(c) /\ c.windows = windows
    BY NowSound
  <2>2. /\ target' = budget /\ Keep(Shrink(c, target')) /\ UNCHANGED <<pages, stamp>>
    BY <1>5 DEF EvictCacheWindows
  <2>3. /\ target' \in Nat /\ stamp' \in Nat /\ pages' \in [DOMAIN pages' -> Nat]
        /\ \A i \in 1..Len(c.windows) : c.windows[i].stamp <= stamp'
    BY <2>1, <2>2, PageCacheConstants DEF Inv, Types
  <2> HIDE DEF c
  <2> QED
    BY <2>1, <2>2, <2>3, ShrinkKeepsInv
<1> QED
  BY <1>1, <1>2, <1>3, <1>4, <1>5 DEF Next

(* The variables stay what they are, and the parts of the cache belong      *)
(* together: the list names windows in the order of their stamps, and every *)
(* one that may go; the total is theirs.                                    *)
THEOREM Safety == Spec => []Inv
<1>1. Init => Inv
  <2> SUFFICES ASSUME Init PROVE Inv
    OBVIOUS
  <2>1. windows = <<>> /\ lru = <<>> /\ total = 0 /\ <<>> \in Seq(Window)
    BY DEF Init
  <2>2. total = Measure(windows)
    <3>1. Measure(<<>>) = Sums(<<>>)[Len(<<>>)] /\ Sums(<<>>)[0] = 0
      BY <2>1, SumsAre
    <3> QED
      BY <2>1, <3>1
  <2>3. Types
    BY <2>1, PageCacheConstants DEF Init, Types
  <2> QED
    BY <2>1, <2>2, <2>3 DEF Inv, Apart, Ordered, Covers, AllPinned
<1>2. Inv /\ [Next]_vars => Inv'
  BY NextKeepsInv
<1> QED
  BY <1>1, <1>2, PTL DEF Spec

-----------------------------------------------------------------------------
(* The positions in the recency list are those of the windows they were put *)
(* there for, in the order of last use: cache.cpp renumbers them rightly.   *)
THEOREM ListIsFaithful == Spec => []LruFaithful
<1>1. Inv => LruFaithful
  <2> SUFFICES ASSUME Inv PROVE LruFaithful
    OBVIOUS
  <2>1. /\ windows \in Seq(Window) /\ lru \in Seq(Nat) /\ Len(lru) \in Nat
        /\ DOMAIN windows = 1..Len(windows) /\ DOMAIN lru = 1..Len(lru)
    BY DEF Inv, Types
  <2>2. Slots = {lru[k] : k \in 1..Len(lru)}
    BY <2>1 DEF Slots
  <2>3. Slots \subseteq DOMAIN windows
    BY <2>1, <2>2 DEF Inv, Ordered
  <2>4. Cardinality(Slots) = Len(lru)
    <3>1. ASSUME NEW j \in 1..Len(lru), NEW k \in 1..Len(lru), j < k
          PROVE  lru[j] # lru[k]
      <4>1. windows[lru[j]].stamp < windows[lru[k]].stamp /\ lru[j] \in 1..Len(windows)
        BY <3>1 DEF Inv, Ordered
      <4>2. windows[lru[j]].stamp \in Nat
        BY <2>1, <4>1, WindowAt
      <4> QED
        BY <4>1, <4>2
    <3> QED
      BY <2>1, <2>2, <3>1, Distinct
  <2>5. Unpinned \subseteq Slots
    BY <2>1, <2>2 DEF Inv, Covers, Unpinned
  <2>6. \A k \in 1..(Len(lru) - 1) : windows[lru[k]].stamp < windows[lru[k + 1]].stamp
    BY <2>1 DEF Inv, Ordered
  <2> QED
    BY <2>3, <2>4, <2>5, <2>6 DEF LruFaithful
<1> QED
  BY <1>1, Safety, PTL

(* The cache is over its budget only when nothing in it may go, and knows   *)
(* its size.                                                                *)
THEOREM BudgetIsHeld == Spec => []BudgetHeld
<1>1. Inv => BudgetHeld
  <2> SUFFICES ASSUME Inv PROVE BudgetHeld
    OBVIOUS
  <2>1. DOMAIN windows = 1..Len(windows)
    BY DEF Inv, Types
  <2> QED
    BY <2>1 DEF Inv, BudgetHeld, AllPinned, Unpinned
<1> QED
  BY <1>1, Safety, PTL

-----------------------------------------------------------------------------
\* What EvictsAsNeeded says of a step that evicts.
AsNeeded ==
    /\ \A i \in Evicted :
          /\ ~Pinned(windows[i])
          /\ \A j \in Unpinned \ Evicted : windows[i].stamp < windows[j].stamp
    /\ stamp' \in {stamp} \cup Stamps' =>
          \E i \in Evicted : total' + windows[i].size > target'

\* The windows the loop starts from: those there are, and maybe a new one.
Starts(ws) ==
    /\ \A i \in 1..Len(windows) : i \in 1..Len(ws) /\ ws[i] = windows[i]
    /\ \A i \in 1..Len(ws) :
          i \in 1..Len(windows) \/ (ws[i].stamp = stamp' /\ stamp' # stamp)

(* What the loop evicts, it evicts as needed.                               *)
LEMMA LoopAsNeeded ==
    ASSUME Inv, NEW c, Sound(c), Starts(c.windows), c.evictions = evictions,
           Keep(Shrink(c, target')), target' \in Nat, evictions' # evictions
    PROVE  AsNeeded
<1> DEFINE b == target'
           r == Shrink(c, b)
           ws == c.windows
<1>1. Sound(r) /\ Follows(c, r, b)
  BY Shrinks
<1>2. windows' = r.windows /\ total' = r.total /\ evictions' = r.evictions
  BY DEF Keep
<1> HIDE DEF r
<1>3. ws \in Seq(Window) /\ Apart(ws)
  BY SoundFields
<1>4. /\ windows' \in Seq(Window) /\ DOMAIN windows' = 1..Len(windows')
      /\ DOMAIN windows = 1..Len(windows)
  BY <1>1, <1>2, SoundFields DEF Inv, Types
<1>5. /\ \A j \in 1..Len(windows') : \E i \in 1..Len(ws) : windows'[j] = ws[i]
      /\ \A i \in Gone(ws, windows') :
            /\ ~Pinned(ws[i])
            /\ \A j \in 1..Len(windows') : ~Pinned(windows'[j]) =>
                  ws[i].stamp < windows'[j].stamp
      /\ \E i \in Gone(ws, windows') : total' + ws[i].size > b
  BY <1>1, <1>2 DEF Follows
<1> HIDE DEF ws
<1>6. Stamps' = {windows'[j].stamp : j \in 1..Len(windows')}
  BY <1>4 DEF Stamps
<1>7. Evicted = {i \in 1..Len(windows) : windows[i].stamp \notin Stamps'}
  BY <1>4 DEF Evicted
<1>8. ASSUME NEW i \in 1..Len(windows)
      PROVE  i \in 1..Len(ws) /\ ws[i] = windows[i] /\ (i \in Evicted <=> i \in Gone(ws, windows'))
  <2>1. i \in 1..Len(ws) /\ ws[i] = windows[i]
    BY DEF Starts, ws
  <2> QED
    BY <2>1, <1>6, <1>7 DEF Gone
<1>9. ASSUME NEW i \in Evicted
      PROVE  /\ ~Pinned(windows[i])
             /\ \A j \in Unpinned \ Evicted : windows[i].stamp < windows[j].stamp
  <2>1. i \in 1..Len(windows) /\ ws[i] = windows[i] /\ i \in Gone(ws, windows')
    BY <1>7, <1>8
  <2>2. ASSUME NEW j \in Unpinned \ Evicted PROVE windows[i].stamp < windows[j].stamp
    <3>1. j \in 1..Len(windows) /\ ~Pinned(windows[j])
      BY <1>4 DEF Unpinned
    <3>2. PICK m \in 1..Len(windows') : windows'[m].stamp = windows[j].stamp
      BY <1>6, <1>7, <3>1
    <3>3. PICK n \in 1..Len(ws) : windows'[m] = ws[n]
      BY <1>5
    <3>4. j \in 1..Len(ws) /\ ws[j] = windows[j]
      BY <1>8, <3>1
    <3>5. n = j
      BY <1>3, <3>2, <3>3, <3>4 DEF Apart
    <3> QED
      BY <1>5, <2>1, <3>1, <3>2, <3>3, <3>4, <3>5
  <2> QED
    BY <1>5, <2>1, <2>2
<1>10. ASSUME stamp' \in {stamp} \cup Stamps'
       PROVE  \E i \in Evicted : total' + windows[i].size > target'
  <2>1. PICK o \in Gone(ws, windows') : total' + ws[o].size > b
    BY <1>5
  <2>2. o \in 1..Len(ws) /\ ws[o].stamp \notin Stamps'
    BY <1>6 DEF Gone
  <2>3. o \in 1..Len(windows)
    BY <1>10, <2>2 DEF Starts, ws
  <2> QED
    BY <1>8, <2>1, <2>3
<1> QED
  BY <1>9, <1>10 DEF AsNeeded

(* Eviction takes no pinned window, none younger than one it leaves, and    *)
(* none that the budget had room for: the loops of CACHE and EVICT stop     *)
(* where they must.                                                         *)
THEOREM EvictionIsAsNeeded == Spec => EvictsAsNeeded
<1>1. ASSUME Inv, [Next]_vars PROVE evictions' = evictions \/ AsNeeded
  <2>1. CASE UNCHANGED vars
    BY <2>1 DEF vars
  <2>2. ASSUME NEW id \in PageIds, NEW size \in PageSizes, AddPage(id, size)
        PROVE  evictions' = evictions
    BY <2>2 DEF AddPage
  <2>3. ASSUME NEW slot \in 1..(Len(windows) + 1), TouchCacheWindow(slot)
        PROVE  evictions' = evictions
    BY <2>3 DEF TouchCacheWindow
  <2>4. ASSUME NEW budget \in Targets, EvictCacheWindows(budget), evictions' # evictions
        PROVE  AsNeeded
    <3> DEFINE c == [windows |-> windows, lru |-> lru, total |-> Measure(windows),
                     evictions |-> evictions]
    <3>1. Sound(c) /\ c.windows = windows /\ c.evictions = evictions
      BY <1>1, NowSound
    <3>2. target' = budget /\ Keep(Shrink(c, target')) /\ target' \in Nat
      BY <2>4, PageCacheConstants DEF EvictCacheWindows
    <3>3. Starts(c.windows)
      BY <3>1 DEF Starts
    <3> HIDE DEF c
    <3> QED
      BY <1>1, <2>4, <3>1, <3>2, <3>3, LoopAsNeeded
  <2>5. ASSUME NEW id \in PageIds,
               NEW width \in {0, 1} \cup {size + 1 : size \in PageSizes} \cup PageSizes,
               CachePageWindow(id, width), evictions' # evictions
        PROVE  AsNeeded
    <3> DEFINE c == Inserted(id, width)
    <3>1. id \in Nat /\ width \in Nat
      <4>1. PageIds \subseteq Nat /\ PageSizes \subseteq Nat
        BY PageCacheConstants
      <4>2. ASSUME width \in {size + 1 : size \in PageSizes} PROVE width \in Nat
        <5>1. PICK size \in PageSizes : width = size + 1
          BY <4>2
        <5>2. size \in Nat
          BY <4>1
        <5> QED
          BY <5>1, <5>2
      <4> QED
        BY <4>1, <4>2
    <3>2. /\ Keep(Shrink(c, target')) /\ stamp' = stamp + 1 /\ target' = target
      BY <2>5 DEF CachePageWindow
    <3>3. /\ Sound(c) /\ c.evictions = evictions
          /\ c.windows = Append(windows, [page_id |-> id, size |-> width, stamp |-> stamp + 1])
      BY <1>1, <3>1, InsertedSound
    <3>4. target' \in Nat /\ stamp \in Nat /\ windows \in Seq(Window)
      BY <1>1, <3>2 DEF Inv, Types
    <3> HIDE DEF c
    <3>5. Starts(c.windows)
      <4> DEFINE new == [page_id |-> id, size |-> width, stamp |-> stamp + 1]
      <4>1. new \in Window /\ new.stamp = stamp + 1
        BY <3>1, <3>4 DEF Window
      <4>2. c.windows = Append(windows, new)
        BY <3>3
      <4> HIDE DEF new
      <4>3. /\ Len(c.windows) = Len(windows) + 1 /\ c.windows[Len(windows) + 1] = new
            /\ \A i \in 1..Len(windows) : c.windows[i] = windows[i]
        BY <3>4, <4>1, <4>2
      <4>4. Len(windows) \in Nat
        BY <3>4
      <4>5. stamp' # stamp
        BY <3>2, <3>4
      <4> QED
        BY <3>2, <4>1, <4>3, <4>4, <4>5 DEF Starts
    <3> QED
      BY <1>1, <2>5, <3>2, <3>3, <3>4, <3>5, LoopAsNeeded
  <2> QED
    BY <1>1, <2>1, <2>2, <2>3, <2>4, <2>5 DEF Next
<1>2. Inv /\ [Next]_vars => [evictions' # evictions => AsNeeded]_vars
  BY <1>1
<1>3. Inv /\ [Next]_vars =>
         [evictions' # evictions =>
             /\ \A i \in Evicted :
                   /\ ~Pinned(windows[i])
                   /\ \A j \in Unpinned \ Evicted : windows[i].stamp < windows[j].stamp
             /\ stamp' \in {stamp} \cup Stamps' =>
                   \E i \in Evicted : total' + windows[i].size > target']_vars
  BY <1>2 DEF AsNeeded
<1> QED
  BY <1>3, Safety, PTL DEF Spec, EvictsAsNeeded
=============================================================================
