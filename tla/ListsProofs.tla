----------------------------- MODULE ListsProofs -----------------------------
(***************************************************************************)
(* What Only and Total return, for lists of any length, and the least      *)
(* number of a set, which stands for induction in the proofs here and in   *)
(* the modules that use these facts: a claim about all numbers has no      *)
(* least counterexample.  From it follows that functions that are defined  *)
(* by recursion over the numbers exist.  At the end, what the last bytes   *)
(* of two numbers say about them.                                          *)
(***************************************************************************)
EXTENDS Lists, FiniteSetTheorems, SequenceTheorems, WellFoundedInduction, TLAPS

LEMMA LeastNumber ==
  ASSUME NEW S, S \subseteq Nat, S # {}
  PROVE  \E x \in S : \A y \in S : x <= y
<1> PICK m \in S : TRUE
  OBVIOUS
<1> DEFINE U == 0..m
           R == StrictSubsetOrdering(U)
           below(t) == 0..(t - 1)
           T == {below(t) : t \in {u \in S : u <= m}}
<1>1. IsFiniteSet(U)
  BY FS_Interval
<1>2. FiniteSubsetsOf(U) = SUBSET U
  BY <1>1, FS_FiniteSubsetsOfFinite
<1>3. IsWellFoundedOn(R, SUBSET U)
  BY <1>2, FS_StrictSubsetOrderingWellFounded
<1>4. T \subseteq SUBSET U /\ T # {}
  OBVIOUS
<1> HIDE DEF R, T
<1>5. PICK X \in T : \A Y \in T : ~(<<Y, X>> \in R)
  BY <1>3, <1>4, WFMin
<1>6. PICK x \in {u \in S : u <= m} : X = below(x)
  BY DEF T
<1>7. ASSUME NEW y \in S, y < x PROVE FALSE
  <2>1. below(y) \in T
    BY <1>7 DEF T
  <2>2. below(y) \subseteq below(x) /\ y \in below(x) /\ y \notin below(y)
    BY <1>7
  <2>3. <<below(y), below(x)>> \in R
    <3>1. below(y) \in SUBSET U /\ below(x) \in SUBSET U
      BY <2>1, <1>4, <1>6
    <3>2. below(y) # below(x)
      BY <2>2
    <3> QED BY <3>1, <3>2, <2>2 DEF R, StrictSubsetOrdering
  <2> QED BY <2>1, <2>3, <1>5, <1>6
<1> QED BY <1>6, <1>7

(* Induction over the prefixes of a list, for a set of good numbers.       *)
LEMMA UpTo ==
  ASSUME NEW n \in Nat, NEW Good, 0 \in Good,
         \A i \in 1..n : i - 1 \in Good => i \in Good
  PROVE  \A i \in 0..n : i \in Good
<1> DEFINE Bad == {i \in 0..n : i \notin Good}
<1> SUFFICES ASSUME Bad # {} PROVE FALSE
  OBVIOUS
<1>1. PICK x \in Bad : \A y \in Bad : x <= y
  <2>1. Bad \subseteq Nat
    OBVIOUS
  <2> HIDE DEF Bad
  <2> QED BY <2>1, LeastNumber
<1>2. x \in 1..n
  BY <1>1
<1>3. x - 1 \in Good
  BY <1>1, <1>2
<1> QED BY <1>1, <1>2, <1>3

(* A recursive function over 0..n whose value at i depends on one before   *)
(* it.  step[i] makes the value at i of that at pred[i].                   *)
IsRecursive(f, n, base, pred, step) ==
  /\ f[0] = base
  /\ \A i \in 1..n : f[i] = step[i][f[pred[i]]]

LEMMA Recursion ==
  ASSUME NEW n \in Nat, NEW V, NEW base \in V, NEW pred, NEW step,
         \A i \in 1..n : pred[i] \in 0..(i - 1) /\ \A v \in V : step[i][v] \in V
  PROVE  \E f \in [0..n -> V] : IsRecursive(f, n, base, pred, step)
<1> DEFINE Good == {m \in 0..n : \E f \in [0..m -> V] : IsRecursive(f, m, base, pred, step)}
<1>1. 0 \in Good
  <2> DEFINE f == [i \in 0..0 |-> base]
  <2>1. f \in [0..0 -> V] /\ IsRecursive(f, 0, base, pred, step)
    BY DEF IsRecursive
  <2> QED BY <2>1
<1>2. ASSUME NEW m \in 1..n, m - 1 \in Good PROVE m \in Good
  <2>1. PICK g \in [0..(m - 1) -> V] : IsRecursive(g, m - 1, base, pred, step)
    BY <1>2
  <2> DEFINE f == [i \in 0..m |-> IF i = m THEN step[m][g[pred[m]]] ELSE g[i]]
  <2>2. g[pred[m]] \in V
    BY <2>1
  <2>3. f \in [0..m -> V]
    BY <2>1, <2>2
  <2>4. ASSUME NEW i \in 1..m PROVE f[i] = step[i][f[pred[i]]]
    <3>1. pred[i] \in 0..(m - 1) /\ f[pred[i]] = g[pred[i]]
      OBVIOUS
    <3>2. f[i] = IF i = m THEN step[m][g[pred[m]]] ELSE g[i]
      OBVIOUS
    <3>3. i # m => g[i] = step[i][g[pred[i]]]
      BY <2>1 DEF IsRecursive
    <3> HIDE DEF f
    <3> QED BY <3>1, <3>2, <3>3
  <2>5. f[0] = base
    BY <2>1 DEF IsRecursive
  <2> HIDE DEF f
  <2>6. IsRecursive(f, m, base, pred, step)
    BY <2>4, <2>5 DEF IsRecursive
  <2> QED BY <2>3, <2>6
<1> HIDE DEF Good
<1>3. n \in Good
  BY <1>1, <1>2, UpTo
<1> QED BY <1>3 DEF Good

LEMMA CountUpTo == ASSUME NEW n \in Nat PROVE IsFiniteSet(1..n) /\ Cardinality(1..n) = n
BY FS_Interval

(* As many different things taken from as many: all of them are taken.     *)
LEMMA Moved ==
  ASSUME NEW n \in Nat, NEW S, IsFiniteSet(S), Cardinality(S) = n,
         NEW I, IsFiniteSet(I), Cardinality(I) = n,
         NEW from \in [I -> S], \A i, j \in I : from[i] = from[j] => i = j
  PROVE  \A s \in S : \E i \in I : from[i] = s
<1>1. from \in Injection(I, S)
  BY DEF Injection, IsInjective
<1>2. from \in Surjection(I, S)
  BY <1>1, FS_Injection
<1> QED BY <1>2 DEF Surjection
-----------------------------------------------------------------------------
(* The entries of a list as it grows and shrinks.                          *)
LEMMA AppendEntries ==
  ASSUME NEW T, NEW list \in Seq(T), NEW e \in T
  PROVE  /\ Append(list, e) \in Seq(T)
         /\ Entries(Append(list, e)) = Entries(list) \cup {e}
         /\ NoDuplicates(list) /\ e \notin Entries(list) => NoDuplicates(Append(list, e))
<1>1. PICK new \in Seq(T) : new = Append(list, e)
  BY AppendProperties
<1>2. /\ Len(new) = Len(list) + 1 /\ new[Len(list) + 1] = e
      /\ \A j \in 1..Len(list) : new[j] = list[j]
      /\ DOMAIN new = 1..Len(new) /\ DOMAIN list = 1..Len(list) /\ Len(list) \in Nat
  BY <1>1
<1>3. \A j \in DOMAIN new : j \in DOMAIN list \/ j = Len(list) + 1
  BY <1>2
<1>4. \A j \in DOMAIN list : j \in DOMAIN new
  BY <1>2
<1>5. Len(list) + 1 \in DOMAIN new
  BY <1>2
<1>6. Entries(new) = Entries(list) \cup {e}
  BY <1>2, <1>3, <1>4, <1>5 DEF Entries
<1>7. NoDuplicates(list) /\ e \notin Entries(list) => NoDuplicates(new)
  BY <1>2, <1>3 DEF NoDuplicates, Entries
<1> QED BY <1>1, <1>6, <1>7

LEMMA TailEntries ==
  ASSUME NEW T, NEW list \in Seq(T), list # <<>>
  PROVE  /\ Head(list) \in T /\ Tail(list) \in Seq(T)
         /\ Entries(list) = {Head(list)} \cup Entries(Tail(list))
<1>1. PICK rest \in Seq(T) : rest = Tail(list)
  BY HeadTailProperties
<1>2. /\ Head(list) = list[1] /\ Len(list) \in Nat \ {0}
      /\ DOMAIN list = 1..Len(list) /\ DOMAIN rest = 1..(Len(list) - 1)
      /\ \A j \in 1..(Len(list) - 1) : rest[j] = list[j + 1]
      /\ \A j \in 1..Len(list) : list[j] \in T
  BY <1>1
<1>3. \A j \in DOMAIN list : j = 1 \/ (j - 1 \in DOMAIN rest /\ list[j] = rest[j - 1])
  BY <1>2
<1>4. \A j \in DOMAIN rest : j + 1 \in DOMAIN list
  BY <1>2
<1>5. 1 \in DOMAIN list
  BY <1>2
<1>6. Entries(list) = {Head(list)} \cup Entries(rest)
  BY <1>2, <1>3, <1>4, <1>5 DEF Entries
<1> QED BY <1>1, <1>2, <1>5, <1>6
-----------------------------------------------------------------------------
(* The functions by which Only and Total are defined exist.                *)
IsKept(kept, list, S, n) ==
  kept = [i \in 0..n |-> IF i = 0 THEN <<>>
                         ELSE IF list[i] \in S THEN Append(kept[i - 1], list[i])
                         ELSE kept[i - 1]]

LEMMA KeptExists ==
  ASSUME NEW list, NEW S, NEW n \in Nat
  PROVE  \E kept : IsKept(kept, list, S, n)
<1> DEFINE Good == {m \in Nat : \E kept : IsKept(kept, list, S, m)}
<1>1. 0 \in Good
  <2> DEFINE k == [i \in 0..0 |-> <<>>]
  <2>1. IsKept(k, list, S, 0)
    BY DEF IsKept
  <2> QED BY <2>1
<1>2. ASSUME NEW m \in 1..n, m - 1 \in Good PROVE m \in Good
  <2>1. PICK old : IsKept(old, list, S, m - 1)
    BY <1>2
  <2> DEFINE k == [i \in 0..m |->
                     IF i < m THEN old[i]
                     ELSE IF list[m] \in S THEN Append(old[m - 1], list[m])
                     ELSE old[m - 1]]
  <2>2. \A i \in 0..(m - 1) : k[i] = old[i]
    OBVIOUS
  <2>3. \A i \in 0..m :
          k[i] = IF i = 0 THEN <<>>
                 ELSE IF list[i] \in S THEN Append(k[i - 1], list[i])
                 ELSE k[i - 1]
    <3> TAKE i \in 0..m
    <3>1. CASE i = m
      <4>1. k[m - 1] = old[m - 1]
        BY <2>2
      <4>2. m # 0 /\ ~(m < m)
        OBVIOUS
      <4> QED BY <3>1, <4>1, <4>2
    <3>2. CASE i < m
      <4>1. old[i] = IF i = 0 THEN <<>>
                     ELSE IF list[i] \in S THEN Append(old[i - 1], list[i])
                     ELSE old[i - 1]
        <5>1. i \in 0..(m - 1)
          BY <3>2
        <5> QED BY <2>1, <5>1 DEF IsKept
      <4>2. i # 0 => k[i - 1] = old[i - 1]
        BY <2>2, <3>2
      <4>3. k[i] = old[i]
        BY <3>2
      <4> HIDE DEF k
      <4> QED BY <4>1, <4>2, <4>3
    <3> QED BY <3>1, <3>2
  <2>4. IsKept(k, list, S, m)
    BY <2>3 DEF IsKept
  <2> QED BY <2>4
<1> HIDE DEF Good
<1>3. n \in Good
  BY <1>1, <1>2, UpTo
<1> QED BY <1>3 DEF Good

LEMMA OnlyIsKept ==
  ASSUME NEW T, NEW list \in Seq(T), NEW S
  PROVE  \E kept : IsKept(kept, list, S, Len(list)) /\ Only(list, S) = kept[Len(list)]
<1> DEFINE k == CHOOSE kept : IsKept(kept, list, S, Len(list))
<1>1. IsKept(k, list, S, Len(list))
  BY KeptExists
<1>2. Only(list, S) = k[Len(list)]
  BY DEF Only, IsKept
<1> QED BY <1>1, <1>2

(* What is left of a list: its entries that are in S, all of them, and no  *)
(* two of them alike if there were none in the list.                       *)
LEMMA OnlyFacts ==
  ASSUME NEW T, NEW list \in Seq(T), NEW S
  PROVE  /\ Only(list, S) \in Seq(T)
         /\ Entries(Only(list, S)) = Entries(list) \cap S
         /\ NoDuplicates(list) => NoDuplicates(Only(list, S))
<1> DEFINE some(i) == {list[j] : j \in 1..i} \cap S
<1>1. PICK n \in Nat : n = Len(list) /\ DOMAIN list = 1..n /\ \A i \in 1..n : list[i] \in T
  OBVIOUS
<1>2. PICK kept : IsKept(kept, list, S, n) /\ Only(list, S) = kept[n]
  BY <1>1, OnlyIsKept
<1>3. /\ kept[0] = <<>>
      /\ \A i \in 1..n :
           /\ list[i] \in S => kept[i] = Append(kept[i - 1], list[i])
           /\ list[i] \notin S => kept[i] = kept[i - 1]
  <2>1. IsKept(kept, list, S, n)
    BY <1>2
  <2>2. kept[0] = <<>>
    BY <2>1 DEF IsKept
  <2>3. ASSUME NEW i \in 1..n
        PROVE  /\ list[i] \in S => kept[i] = Append(kept[i - 1], list[i])
               /\ list[i] \notin S => kept[i] = kept[i - 1]
    <3>1. i \in 0..n /\ i # 0
      OBVIOUS
    <3>2. kept[i] = IF list[i] \in S THEN Append(kept[i-1], list[i]) ELSE kept[i-1]
      BY <3>1, <2>1 DEF IsKept
    <3> QED BY <3>2
  <2> QED BY <2>2, <2>3
<1> DEFINE Good == {i \in 0..n : /\ kept[i] \in Seq(T)
                                 /\ Entries(kept[i]) = some(i)
                                 /\ NoDuplicates(list) => NoDuplicates(kept[i])}
<1>4. 0 \in Good
  <2>1. /\ <<>> \in Seq(T) /\ DOMAIN <<>> = {}
        /\ some(0) = {}
    OBVIOUS
  <2>2. Entries(<<>>) = {} /\ NoDuplicates(<<>>)
    BY <2>1 DEF Entries, NoDuplicates
  <2>3. 0 \in 0..n
    OBVIOUS
  <2> QED BY <1>3, <2>1, <2>2, <2>3, Zenon
<1>5. ASSUME NEW i \in 1..n, i - 1 \in Good PROVE i \in Good
  <2>1. PICK k \in Seq(T) : k = kept[i - 1]
    BY <1>5
  <2>2. Entries(k) = some(i - 1) /\ (NoDuplicates(list) => NoDuplicates(k))
    BY <1>5, <2>1
  <2>3. list[i] \in T /\ i \in DOMAIN list /\ \A j \in 1..i : j = i \/ j \in 1..(i - 1)
    BY <1>1
  <2>4. CASE list[i] \in S
    <3>1. kept[i] = Append(k, list[i])
      BY <1>3, <2>1, <2>4
    <3>2. some(i) = some(i - 1) \cup {list[i]}
      BY <2>3, <2>4
    <3>3. PICK e \in T : e = list[i]
      BY <2>3
    <3>4. PICK new : /\ new = Append(k, e) /\ new \in Seq(T)
                     /\ Entries(new) = Entries(k) \cup {e}
                     /\ NoDuplicates(k) /\ e \notin Entries(k) => NoDuplicates(new)
      BY AppendEntries
    <3>5. Entries(new) = Entries(k) \cup {list[i]}
      BY <3>3, <3>4
    <3>6. ASSUME NoDuplicates(list) PROVE NoDuplicates(new)
      <4>1. \A j \in 1..(i - 1) : list[j] # list[i]
        BY <1>1, <2>3, <3>6 DEF NoDuplicates
      <4>2. list[i] \notin Entries(k)
        BY <4>1, <2>2
      <4> QED BY <4>2, <2>2, <3>3, <3>4, <3>6
    <3>7. kept[i] = new /\ Entries(new) = some(i) /\ i \in 0..n
      <4> HIDE DEF some
      <4> QED BY <1>1, <3>1, <3>2, <3>3, <3>4, <3>5, <2>2
    <3> HIDE DEF some
    <3> QED BY <3>4, <3>6, <3>7
  <2>5. CASE list[i] \notin S
    <3>1. some(i) = some(i - 1)
      BY <2>3, <2>5
    <3>2. kept[i] = k /\ i \in 0..n
      BY <1>3, <2>1, <2>5
    <3> HIDE DEF some
    <3> QED BY <2>2, <3>1, <3>2
  <2> QED BY <2>4, <2>5
<1>6. n \in Good
  <2> HIDE DEF Good
  <2>1. n \in 0..n
    OBVIOUS
  <2> QED BY <2>1, <1>4, <1>5, UpTo, Zenon
<1>7. some(n) = Entries(list) \cap S
  BY <1>1 DEF Entries
<1> QED BY <1>2, <1>6, <1>7
(* What is left of a list keeps its order.                                 *)
LEMMA OnlyOrder ==
  ASSUME NEW T, NEW list \in Seq(T), NEW S
  PROVE  \A i, j \in DOMAIN Only(list, S) : i < j =>
           \E p, q \in DOMAIN list :
             p < q /\ list[p] = Only(list, S)[i] /\ list[q] = Only(list, S)[j]
<1>1. PICK n \in Nat : n = Len(list) /\ DOMAIN list = 1..n /\ \A i \in 1..n : list[i] \in T
  OBVIOUS
<1>2. PICK kept : IsKept(kept, list, S, n) /\ Only(list, S) = kept[n]
  BY <1>1, OnlyIsKept
<1>3. /\ kept[0] = <<>>
      /\ \A i \in 1..n :
           /\ list[i] \in S => kept[i] = Append(kept[i - 1], list[i])
           /\ list[i] \notin S => kept[i] = kept[i - 1]
  <2>1. IsKept(kept, list, S, n)
    BY <1>2
  <2>2. kept[0] = <<>>
    BY <2>1 DEF IsKept
  <2>3. ASSUME NEW i \in 1..n
        PROVE  /\ list[i] \in S => kept[i] = Append(kept[i - 1], list[i])
               /\ list[i] \notin S => kept[i] = kept[i - 1]
    <3>1. i \in 0..n /\ i # 0
      OBVIOUS
    <3>2. kept[i] = IF list[i] \in S THEN Append(kept[i-1], list[i]) ELSE kept[i-1]
      BY <3>1, <2>1 DEF IsKept
    <3> QED BY <3>2
  <2> QED BY <2>2, <2>3
<1> DEFINE From(i, x) == \E p \in 1..i : list[p] = x
           Ordered(k, i) ==
             /\ \A x \in DOMAIN k : From(i, k[x])
             /\ \A x, y \in DOMAIN k : x < y =>
                  \E p, q \in 1..i : p < q /\ list[p] = k[x] /\ list[q] = k[y]
           Good == {i \in 0..n : kept[i] \in Seq(T) /\ Ordered(kept[i], i)}
<1>4. 0 \in Good
  <2>1. <<>> \in Seq(T) /\ DOMAIN <<>> = {} /\ 0 \in 0..n
    OBVIOUS
  <2> QED BY <1>3, <2>1
<1>5. ASSUME NEW i \in 1..n, i - 1 \in Good PROVE i \in Good
  <2>1. PICK k \in Seq(T) : k = kept[i - 1] /\ Ordered(k, i - 1)
    BY <1>5
  <2>2. 1..(i - 1) \subseteq 1..i /\ i \in 1..i /\ i \in 0..n /\ list[i] \in T
    BY <1>1
  <2>3. CASE list[i] \in S
    <3>1. PICK e \in T : e = list[i]
      BY <2>2
    <3>2. PICK new \in Seq(T) : new = Append(k, e)
      BY AppendProperties
    <3>3. /\ DOMAIN new = 1..(Len(k) + 1) /\ DOMAIN k = 1..Len(k) /\ Len(k) \in Nat
          /\ new[Len(k) + 1] = e
          /\ \A x \in 1..Len(k) : new[x] = k[x]
      BY <3>2
    <3>4. ASSUME NEW x \in DOMAIN new PROVE From(i, new[x])
      <4>1. CASE x \in DOMAIN k
        BY <4>1, <3>3, <2>1, <2>2
      <4>2. CASE x = Len(k) + 1
        BY <4>2, <3>1, <3>3, <2>2
      <4> QED BY <3>3, <4>1, <4>2
    <3>5. ASSUME NEW x \in DOMAIN new, NEW y \in DOMAIN new, x < y
          PROVE  \E p, q \in 1..i : p < q /\ list[p] = new[x] /\ list[q] = new[y]
      <4>1. x \in DOMAIN k
        BY <3>3, <3>5
      <4>2. CASE y \in DOMAIN k
        BY <4>1, <4>2, <3>3, <3>5, <2>1, <2>2
      <4>3. CASE y = Len(k) + 1
        <5>1. PICK p \in 1..(i - 1) : list[p] = new[x]
          BY <4>1, <3>3, <2>1
        <5>2. p < i /\ p \in 1..i /\ list[i] = new[y]
          BY <4>3, <3>1, <3>3, <5>1
        <5> QED BY <5>1, <5>2, <2>2
      <4> QED BY <3>3, <4>2, <4>3
    <3>6. Ordered(new, i)
      BY <3>4, <3>5
    <3>7. kept[i] = new
      BY <1>3, <2>1, <2>3, <3>1, <3>2
    <3> HIDE DEF Ordered
    <3> QED BY <2>2, <3>2, <3>6, <3>7
  <2>4. CASE list[i] \notin S
    <3>1. kept[i] = k
      BY <1>3, <2>1, <2>4
    <3>2. Ordered(k, i)
      BY <2>1, <2>2
    <3> HIDE DEF Ordered
    <3> QED BY <2>2, <3>1, <3>2
  <2> QED BY <2>3, <2>4
<1>6. n \in Good
  <2> HIDE DEF Good
  <2>1. n \in 0..n
    OBVIOUS
  <2> QED BY <2>1, <1>4, <1>5, UpTo, Zenon
<1>7. Ordered(kept[n], n)
  BY <1>6
<1> QED BY <1>1, <1>2, <1>7
-----------------------------------------------------------------------------
(* The same for Total.                                                     *)
IsSum(sum, list, weight, n) ==
  sum = [i \in 0..n |-> IF i = 0 THEN 0 ELSE sum[i - 1] + weight[list[i]]]

LEMMA SumExists ==
  ASSUME NEW list, NEW weight, NEW n \in Nat
  PROVE  \E sum : IsSum(sum, list, weight, n)
<1> DEFINE Good == {m \in Nat : \E sum : IsSum(sum, list, weight, m)}
<1>1. 0 \in Good
  <2> DEFINE k == [i \in 0..0 |-> 0]
  <2>1. IsSum(k, list, weight, 0)
    BY DEF IsSum
  <2> QED BY <2>1
<1>2. ASSUME NEW m \in 1..n, m - 1 \in Good PROVE m \in Good
  <2>1. PICK old : IsSum(old, list, weight, m - 1)
    BY <1>2
  <2> DEFINE k == [i \in 0..m |-> IF i < m THEN old[i] ELSE old[m - 1] + weight[list[m]]]
  <2>2. \A i \in 0..(m - 1) : k[i] = old[i]
    OBVIOUS
  <2>3. \A i \in 0..m : k[i] = IF i = 0 THEN 0 ELSE k[i - 1] + weight[list[i]]
    <3> TAKE i \in 0..m
    <3>1. CASE i = m
      <4>1. k[m - 1] = old[m - 1]
        BY <2>2
      <4>2. m # 0 /\ ~(m < m)
        OBVIOUS
      <4> QED BY <3>1, <4>1, <4>2
    <3>2. CASE i < m
      <4>1. old[i] = IF i = 0 THEN 0 ELSE old[i - 1] + weight[list[i]]
        <5>1. i \in 0..(m - 1)
          BY <3>2
        <5> QED BY <2>1, <5>1 DEF IsSum
      <4>2. i # 0 => k[i - 1] = old[i - 1]
        BY <2>2, <3>2
      <4>3. k[i] = old[i]
        BY <3>2
      <4> HIDE DEF k
      <4> QED BY <4>1, <4>2, <4>3
    <3> QED BY <3>1, <3>2
  <2>4. IsSum(k, list, weight, m)
    BY <2>3 DEF IsSum
  <2> QED BY <2>4
<1> HIDE DEF Good
<1>3. n \in Good
  BY <1>1, <1>2, UpTo
<1> QED BY <1>3 DEF Good

LEMMA SumStep ==
  ASSUME NEW list, NEW weight, NEW n \in Nat, NEW sum, IsSum(sum, list, weight, n)
  PROVE  /\ sum[0] = 0
         /\ \A i \in 1..n : sum[i] = sum[i - 1] + weight[list[i]]
<1>1. sum[0] = 0
  BY DEF IsSum
<1>2. ASSUME NEW i \in 1..n PROVE sum[i] = sum[i - 1] + weight[list[i]]
  <2>1. i \in 0..n /\ i # 0
    OBVIOUS
  <2> QED BY <2>1 DEF IsSum
<1> QED BY <1>1, <1>2

LEMMA TotalIsSum ==
  ASSUME NEW list, Len(list) \in Nat, NEW weight
  PROVE  \E sum : IsSum(sum, list, weight, Len(list)) /\ Total(list, weight) = sum[Len(list)]
<1> DEFINE k == CHOOSE sum : IsSum(sum, list, weight, Len(list))
<1>1. IsSum(k, list, weight, Len(list))
  BY SumExists
<1>2. Total(list, weight) = k[Len(list)]
  BY DEF Total, IsSum
<1> QED BY <1>1, <1>2

LEMMA TotalFacts ==
  ASSUME NEW T, NEW list \in Seq(T), NEW weight \in [T -> Nat]
  PROVE  /\ Total(list, weight) \in Nat
         /\ \A e \in T : Total(<<e>> \o list, weight) = weight[e] + Total(list, weight)
<1>1. PICK sum : IsSum(sum, list, weight, Len(list)) /\ Total(list, weight) = sum[Len(list)]
  BY TotalIsSum
<1> DEFINE Good == {i \in 0..Len(list) : sum[i] \in Nat}
<1>2. \A i \in 0..Len(list) : i \in Good
  <2>1. 0 \in Good
    BY <1>1, SumStep
  <2>2. ASSUME NEW i \in 1..Len(list), i - 1 \in Good PROVE i \in Good
    <3>1. sum[i] = sum[i - 1] + weight[list[i]]
      BY <1>1, SumStep
    <3>2. weight[list[i]] \in Nat
      OBVIOUS
    <3> QED BY <3>1, <3>2, <2>2
  <2>3. Len(list) \in Nat
    OBVIOUS
  <2> HIDE DEF Good
  <2> QED BY <2>1, <2>2, <2>3, UpTo
<1>3. ASSUME NEW e \in T
      PROVE  Total(<<e>> \o list, weight) = weight[e] + Total(list, weight)
  <2> DEFINE longer == <<e>> \o list
  <2>1. /\ longer \in Seq(T) /\ Len(longer) = Len(list) + 1 /\ longer[1] = e
        /\ \A i \in 1..Len(list) : longer[i + 1] = list[i]
    OBVIOUS
  <2> HIDE DEF longer
  <2>2. PICK all : IsSum(all, longer, weight, Len(longer)) /\ Total(longer, weight) = all[Len(longer)]
    BY <2>1, TotalIsSum
  <2> DEFINE Same == {i \in 0..Len(list) : all[i + 1] = weight[e] + sum[i]}
  <2>3. 0 \in Same
    <3>1. all[0] = 0 /\ all[1] = all[0] + weight[e] /\ sum[0] = 0
      BY <1>1, <2>1, <2>2, SumStep
    <3>2. weight[e] \in Nat
      OBVIOUS
    <3> QED BY <3>1, <3>2
  <2>4. ASSUME NEW i \in 1..Len(list), i - 1 \in Same PROVE i \in Same
    <3>1. sum[i] = sum[i - 1] + weight[list[i]]
      BY <1>1, SumStep
    <3>2. all[i + 1] = all[i] + weight[longer[i + 1]]
      <4>1. i + 1 \in 1..Len(longer) /\ (i + 1) - 1 = i
        BY <2>1
      <4>2. Len(longer) \in Nat
        BY <2>1
      <4> QED BY <4>1, <4>2, <2>2, SumStep
    <3>3. longer[i + 1] = list[i]
      BY <2>1
    <3>4. all[i] = weight[e] + sum[i - 1]
      BY <2>4
    <3>5. weight[e] \in Nat /\ weight[list[i]] \in Nat /\ sum[i - 1] \in Nat
      BY <1>2
    <3> QED BY <3>1, <3>2, <3>3, <3>4, <3>5
  <2>5. Len(list) \in Nat /\ Len(list) \in 0..Len(list)
    OBVIOUS
  <2> HIDE DEF Same
  <2>6. Len(list) \in Same
    BY <2>3, <2>4, <2>5, UpTo
  <2>7. all[Len(list) + 1] = weight[e] + sum[Len(list)]
    BY <2>6 DEF Same
  <2> QED BY <2>7, <2>1, <2>2, <1>1 DEF longer
<1>4. Total(list, weight) \in Nat
  BY <1>1, <1>2
<1> QED BY <1>3, <1>4

LEMMA TotalOfNone == ASSUME NEW weight PROVE Total(<<>>, weight) = 0
<1>1. Len(<<>>) = 0
  OBVIOUS
<1>2. PICK sum : IsSum(sum, <<>>, weight, Len(<<>>)) /\ Total(<<>>, weight) = sum[Len(<<>>)]
  BY <1>1, TotalIsSum
<1>3. sum[0] = 0
  BY <1>1, <1>2, SumStep
<1> QED BY <1>1, <1>2, <1>3

LEMMA TotalAppend ==
  ASSUME NEW T, NEW list \in Seq(T), NEW weight \in [T -> Nat], NEW e \in T
  PROVE  Total(Append(list, e), weight) = Total(list, weight) + weight[e]
<1>1. PICK longer \in Seq(T) : longer = Append(list, e)
  BY AppendProperties
<1>2. /\ Len(longer) = Len(list) + 1 /\ longer[Len(list) + 1] = e /\ Len(list) \in Nat
      /\ \A i \in 1..Len(list) : longer[i] = list[i]
  BY <1>1
<1>3. PICK sum : IsSum(sum, list, weight, Len(list)) /\ Total(list, weight) = sum[Len(list)]
  BY <1>2, TotalIsSum
<1>4. PICK all : IsSum(all, longer, weight, Len(longer)) /\ Total(longer, weight) = all[Len(longer)]
  BY <1>2, TotalIsSum
<1> DEFINE Same == {i \in 0..Len(list) : all[i] = sum[i]}
<1>5. 0 \in Same
  BY <1>2, <1>3, <1>4, SumStep
<1>6. ASSUME NEW i \in 1..Len(list), i - 1 \in Same PROVE i \in Same
  <2>1. sum[i] = sum[i - 1] + weight[list[i]]
    BY <1>2, <1>3, SumStep
  <2>2. i \in 1..Len(longer) /\ Len(longer) \in Nat
    BY <1>2
  <2>3. all[i] = all[i - 1] + weight[longer[i]]
    <3>1. PICK m \in Nat : m = Len(longer) /\ i \in 1..m
      BY <2>2
    <3>2. IsSum(all, longer, weight, m)
      BY <1>4, <3>1
    <3>3. \A j \in 1..m : all[j] = all[j - 1] + weight[longer[j]]
      <4> HIDE DEF Same
      <4> QED BY <3>2, SumStep
    <3> QED BY <3>1, <3>3
  <2>4. all[i - 1] = sum[i - 1] /\ longer[i] = list[i] /\ i \in 0..Len(list)
    BY <1>2, <1>6
  <2> QED BY <2>1, <2>3, <2>4
<1>7. Len(list) \in Same
  <2>1. Len(list) \in 0..Len(list) /\ Len(list) \in Nat
    BY <1>2
  <2> HIDE DEF Same
  <2> QED BY <2>1, <1>5, <1>6, UpTo
<1>8. all[Len(longer)] = all[Len(list)] + weight[e]
  <2>1. Len(longer) \in 1..Len(longer) /\ Len(longer) \in Nat /\ Len(longer) - 1 = Len(list)
    BY <1>2
  <2>2. all[Len(longer)] = all[Len(longer) - 1] + weight[longer[Len(longer)]]
    <3>1. PICK m \in Nat : m = Len(longer) /\ m \in 1..m
      BY <2>1
    <3>2. IsSum(all, longer, weight, m)
      BY <1>4, <3>1
    <3>3. \A j \in 1..m : all[j] = all[j - 1] + weight[longer[j]]
      BY <3>2, SumStep
    <3> QED BY <3>1, <3>3
  <2> QED BY <2>1, <2>2, <1>2
<1> QED BY <1>1, <1>3, <1>4, <1>7, <1>8

(* What is taken from a list and what is left weigh as much as the list.   *)
LEMMA TotalSplit ==
  ASSUME NEW T, NEW list \in Seq(T), NEW weight \in [T -> Nat], NEW S
  PROVE  Total(Only(list, S), weight) + Total(Only(list, T \ S), weight) = Total(list, weight)
<1>1. PICK n \in Nat : n = Len(list) /\ \A i \in 1..n : list[i] \in T
  OBVIOUS
<1>2. PICK in : IsKept(in, list, S, n) /\ Only(list, S) = in[n]
  BY <1>1, OnlyIsKept
<1>3. PICK out : IsKept(out, list, T \ S, n) /\ Only(list, T \ S) = out[n]
  BY <1>1, OnlyIsKept
<1>4. PICK sum : IsSum(sum, list, weight, n) /\ Total(list, weight) = sum[n]
  BY <1>1, TotalIsSum
<1> DEFINE Good == {i \in 0..n : /\ in[i] \in Seq(T) /\ out[i] \in Seq(T)
                                 /\ Total(in[i], weight) + Total(out[i], weight) = sum[i]}
<1>5. 0 \in Good
  <2>1. 0 \in 0..n /\ <<>> \in Seq(T)
    OBVIOUS
  <2>2. in[0] = <<>> /\ out[0] = <<>>
    BY <1>2, <1>3, <2>1 DEF IsKept
  <2>3. sum[0] = 0
    BY <1>4, SumStep
  <2>4. Total(in[0], weight) = 0 /\ Total(out[0], weight) = 0
    BY <2>2, TotalOfNone
  <2>5. Total(in[0], weight) + Total(out[0], weight) = sum[0]
    BY <2>3, <2>4
  <2> QED BY <2>1, <2>2, <2>5, Zenon
<1>6. ASSUME NEW i \in 1..n, i - 1 \in Good PROVE i \in Good
  <2>1. i \in 0..n /\ i # 0 /\ list[i] \in T
    BY <1>1
  <2>2. /\ in[i] = IF list[i] \in S THEN Append(in[i - 1], list[i]) ELSE in[i - 1]
        /\ out[i] = IF list[i] \in T \ S THEN Append(out[i - 1], list[i]) ELSE out[i - 1]
    <3>1. in[i] = IF list[i] \in S THEN Append(in[i - 1], list[i]) ELSE in[i - 1]
      BY <1>2, <2>1 DEF IsKept
    <3>2. out[i] = IF list[i] \in T \ S THEN Append(out[i - 1], list[i]) ELSE out[i - 1]
      BY <1>3, <2>1 DEF IsKept
    <3> QED BY <3>1, <3>2
  <2>3. sum[i] = sum[i - 1] + weight[list[i]]
    BY <1>4, SumStep
  <2>4. PICK a \in Seq(T), b \in Seq(T) :
          /\ a = in[i - 1] /\ b = out[i - 1]
          /\ Total(a, weight) + Total(b, weight) = sum[i - 1]
    BY <1>6
  <2>5. Total(a, weight) \in Nat /\ Total(b, weight) \in Nat /\ weight[list[i]] \in Nat
    BY <2>1, TotalFacts
  <2>6. PICK e \in T : e = list[i]
    BY <2>1
  <2>7. PICK aa \in Seq(T) : aa = Append(a, e) /\ Total(aa, weight) = Total(a, weight) + weight[e]
    <3>1. Append(a, e) \in Seq(T)
      BY AppendProperties
    <3>2. Total(Append(a, e), weight) = Total(a, weight) + weight[e]
      BY TotalAppend
    <3> QED BY <3>1, <3>2, Zenon
  <2>8. PICK bb \in Seq(T) : bb = Append(b, e) /\ Total(bb, weight) = Total(b, weight) + weight[e]
    <3>1. Append(b, e) \in Seq(T)
      BY AppendProperties
    <3>2. Total(Append(b, e), weight) = Total(b, weight) + weight[e]
      BY TotalAppend
    <3> QED BY <3>1, <3>2, Zenon
  <2>9. CASE list[i] \in S
    <3>1. in[i] = aa /\ out[i] = b
      BY <2>2, <2>4, <2>6, <2>7, <2>9
    <3>2. Total(aa, weight) + Total(b, weight) = sum[i]
      BY <2>3, <2>4, <2>5, <2>6, <2>7
    <3> QED BY <2>1, <3>1, <3>2
  <2>10. CASE list[i] \notin S
    <3>1. in[i] = a /\ out[i] = bb
      BY <2>1, <2>2, <2>4, <2>6, <2>8, <2>10
    <3>2. Total(a, weight) + Total(bb, weight) = sum[i]
      BY <2>3, <2>4, <2>5, <2>6, <2>8
    <3> QED BY <2>1, <3>1, <3>2
  <2> QED BY <2>9, <2>10
<1>7. n \in Good
  <2>1. n \in 0..n
    OBVIOUS
  <2> HIDE DEF Good
  <2> QED BY <2>1, <1>5, <1>6, UpTo
<1> QED BY <1>2, <1>3, <1>4, <1>7

(* An entry moved to the head, or lifted out, when it is there once.       *)
LEMMA TotalOfOne ==
  ASSUME NEW T, NEW list \in Seq(T), NEW weight \in [T -> Nat], NoDuplicates(list),
         NEW e \in Entries(list)
  PROVE  Total(<<e>> \o Only(list, T \ {e}), weight) = Total(list, weight)
<1>1. e \in T
  BY DEF Entries
<1>2. PICK one \in Seq(T) : one = Only(list, {e})
  BY OnlyFacts
<1>3. Entries(one) = {e} /\ NoDuplicates(one)
  BY <1>2, OnlyFacts
<1>4. one = <<e>> \o <<>>
  <2>0. Len(one) \in Nat /\ DOMAIN one = 1..Len(one)
    OBVIOUS
  <2>1. Len(one) \in Nat /\ DOMAIN one = 1..Len(one) /\ \A i \in DOMAIN one : one[i] = e
    BY <1>3, <2>0, Zenon DEF Entries
  <2>2. DOMAIN one # {}
    BY <1>3 DEF Entries
  <2>3. \A i, j \in DOMAIN one : i = j
    BY <1>3, <2>1 DEF NoDuplicates
  <2>4. Len(one) = 1
    <3>1. 1 \in DOMAIN one /\ Len(one) \in DOMAIN one
      BY <2>1, <2>2
    <3> QED BY <2>3, <3>1
  <2> QED BY <1>1, <2>1, <2>4
<1>5. Total(<<>>, weight) = 0
  BY TotalOfNone
<1>6. Total(one, weight) = weight[e]
  <2>1. <<>> \in Seq(T)
    OBVIOUS
  <2>2. Total(<<e>> \o <<>>, weight) = weight[e] + Total(<<>>, weight)
    BY <1>1, <2>1, TotalFacts
  <2>3. weight[e] \in Nat
    BY <1>1
  <2> QED BY <1>4, <1>5, <2>2, <2>3
<1>7. PICK rest \in Seq(T) : rest = Only(list, T \ {e})
  BY OnlyFacts
<1>8. Total(<<e>> \o rest, weight) = weight[e] + Total(rest, weight)
  BY <1>1, TotalFacts
<1> QED BY <1>2, <1>6, <1>7, <1>8, TotalSplit

LEMMA OntoHead ==
  ASSUME NEW T, NEW list \in Seq(T), NEW e \in T
  PROVE  /\ <<e>> \o list \in Seq(T)
         /\ Entries(<<e>> \o list) = {e} \cup Entries(list)
         /\ NoDuplicates(list) /\ e \notin Entries(list) => NoDuplicates(<<e>> \o list)
<1>1. <<e>> \in Seq(T) /\ <<e>> \o list \in Seq(T)
  OBVIOUS
<1>2. PICK new \in Seq(T) : new = <<e>> \o list
  BY <1>1, Zenon
<1>3. /\ Len(list) \in Nat /\ DOMAIN list = 1..Len(list) /\ DOMAIN new = 1..(Len(list) + 1)
      /\ new[1] = e /\ \A i \in 1..Len(list) : new[i + 1] = list[i]
  BY <1>2
<1>4. \A i \in DOMAIN new : i = 1 \/ (i - 1 \in DOMAIN list /\ new[i] = list[i - 1])
  BY <1>3
<1>5. \A i \in DOMAIN list : i + 1 \in DOMAIN new /\ new[i + 1] = list[i]
  BY <1>3
<1>6. 1 \in DOMAIN new
  BY <1>3
<1>7. Entries(new) = {e} \cup Entries(list)
  <2>1. \A i \in DOMAIN new : new[i] \in {e} \cup Entries(list)
    BY <1>3, <1>4 DEF Entries
  <2>2. \A i \in DOMAIN list : list[i] \in Entries(new)
    BY <1>5 DEF Entries
  <2>3. e \in Entries(new)
    BY <1>3, <1>6 DEF Entries
  <2>4. Entries(new) \subseteq {e} \cup Entries(list)
    BY <2>1 DEF Entries
  <2>5. Entries(list) \subseteq Entries(new)
    BY <2>2 DEF Entries
  <2> QED BY <2>3, <2>4, <2>5
<1>8. ASSUME NoDuplicates(list), e \notin Entries(list) PROVE NoDuplicates(new)
  <2>1. \A i \in DOMAIN list : list[i] # e
    BY <1>8 DEF Entries
  <2>2. \A i, j \in DOMAIN list : list[i] = list[j] => i = j
    BY <1>8 DEF NoDuplicates
  <2>3. ASSUME NEW i \in DOMAIN new, NEW j \in DOMAIN new, new[i] = new[j] PROVE i = j
    <3>1. CASE i = 1 \/ j = 1
      BY <3>1, <1>3, <1>4, <2>1, <2>3
    <3>2. CASE i # 1 /\ j # 1
      <4>1. i - 1 = j - 1
        BY <3>2, <1>4, <2>2, <2>3
      <4> QED BY <4>1, <1>2
    <3> QED BY <3>1, <3>2
  <2> QED BY <2>3 DEF NoDuplicates
<1> QED BY <1>2, <1>7, <1>8

LEMMA EntriesFinite ==
  ASSUME NEW T, NEW list \in Seq(T)
  PROVE  IsFiniteSet(Entries(list))
<1> DEFINE f == [i \in 1..Len(list) |-> list[i]]
<1>1. Len(list) \in Nat /\ DOMAIN list = 1..Len(list)
  OBVIOUS
<1>2. IsFiniteSet(1..Len(list))
  BY <1>1, FS_Interval
<1>3. \A i \in 1..Len(list) : f[i] = list[i] /\ list[i] \in Entries(list)
  BY <1>1 DEF Entries
<1>4. \A e \in Entries(list) : \E i \in 1..Len(list) : f[i] = e
  BY <1>1, <1>3 DEF Entries
<1>5. f \in [1..Len(list) -> Entries(list)]
  BY <1>3
<1>6. f \in Surjection(1..Len(list), Entries(list))
  <2> HIDE DEF f
  <2> QED BY <1>4, <1>5 DEF Surjection
<1> QED BY <1>2, <1>6, FS_Surjection
-----------------------------------------------------------------------------
(* Two numbers at most 64 apart are in the same block of 256, or in two    *)
(* blocks side by side; which, is seen from their last bytes l and b.      *)
LEMMA BlocksOf256 ==
  ASSUME NEW n \in Nat
  PROVE  \E q \in Nat : n = 256 * q + (n % 256) /\ n % 256 \in 0..255
<1>1. n = 256 * (n \div 256) + (n % 256) /\ n % 256 \in 0..255
  OBVIOUS
<1>2. n \div 256 \in Nat
  OBVIOUS
<1> QED BY <1>1, <1>2

LEMMA LastBytes ==
  ASSUME NEW x \in Nat, NEW t \in Nat, x - 64 <= t, t <= x + 64,
         NEW l, NEW b, l = x % 256, b = t % 256
  PROVE  \/ ~(l < 64 /\ b > 176) /\ ~(l > 176 /\ b < 64) /\ (x - l) + b = t
         \/ l < 64 /\ b > 176 /\ ((x - l) + b) - 256 = t
         \/ ~(l < 64 /\ b > 176) /\ l > 176 /\ b < 64 /\ ((x - l) + b) + 256 = t
<1>1. PICK q \in Nat : x = 256 * q + l /\ l \in 0..255
  BY BlocksOf256
<1>2. PICK r \in Nat : t = 256 * r + b /\ b \in 0..255
  BY BlocksOf256
<1>3. r = q \/ r = q + 1 \/ r = q - 1
  BY <1>1, <1>2
<1>4. CASE r = q
  BY <1>1, <1>2, <1>4
<1>5. CASE r = q - 1
  BY <1>1, <1>2, <1>5
<1>6. CASE r = q + 1
  BY <1>1, <1>2, <1>6
<1> QED BY <1>3, <1>4, <1>5, <1>6
=============================================================================
