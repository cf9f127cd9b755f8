--------------------------- MODULE OplMusicProofs ---------------------------
(***************************************************************************)
(* The heap of opl_queue.c and the callbacks of the songs, for any songs,  *)
(* any queue that has a place for every track, and buffers of any size.    *)
(*                                                                         *)
(* That OPL_Queue_Push and OPL_Queue_Pop keep the heap is a fact about one *)
(* path of the tree: Push moves the later ancestors of the new place down  *)
(* (Sifted), Pop moves the chosen children up (Lifted).  Both are proved   *)
(* of any function that solves the recursive equation of the path.         *)
(*                                                                         *)
(* FirstIsEarliest says only that the root is the earliest, and a pop can  *)
(* break that if entries further down are out of order; so OplInv has the  *)
(* order of every entry and the one above it.  EveryTrackOnce counts the   *)
(* callbacks of a track; OplInv says which callbacks there are, all in     *)
(* all: those in the heap and the one the audio thread holds are different *)
(* and are exactly those of the tracks that are started and have not ended *)
(* (or the restart, when there are none).  From that follows that no push  *)
(* is ever refused for want of a place.                                    *)
(***************************************************************************)
EXTENDS OplMusic, ListsProofs, TLAPS
-----------------------------------------------------------------------------
(***************************************************************************)
(* The heap.                                                               *)
(***************************************************************************)
Callbacks == [cb : Int, due : Int]

Cbs(q) == {q[i].cb : i \in DOMAIN q}

Heap(q) ==
  /\ q \in Seq(Callbacks) /\ Len(q) <= MAX_OPL_QUEUE
  /\ \A i \in 2..Len(q) : q[i \div 2].due <= q[i].due
  /\ \A i, j \in DOMAIN q : q[i].cb = q[j].cb => i = j

LEMMA HeapFacts ==
  ASSUME NEW q, Heap(q)
  PROVE  /\ Len(q) \in Nat /\ DOMAIN q = 1..Len(q)
         /\ q \in [1..Len(q) -> Callbacks]
         /\ \A i \in DOMAIN q : q[i] \in Callbacks /\ q[i].cb \in Int /\ q[i].due \in Int
<1>1. q \in Seq(Callbacks)
  BY DEF Heap
<1>2. /\ Len(q) \in Nat /\ DOMAIN q = 1..Len(q) /\ q \in [1..Len(q) -> Callbacks]
  BY <1>1
<1>3. \A e \in Callbacks : e.cb \in Int /\ e.due \in Int
  BY DEF Callbacks
<1> QED BY <1>2, <1>3

(* The first entry is the earliest.                                        *)
LEMMA RootIsEarliest ==
  ASSUME NEW q, Heap(q)
  PROVE  \A i \in DOMAIN q : q[1].due <= q[i].due
<1> DEFINE Bad == {i \in DOMAIN q : ~(q[1].due <= q[i].due)}
<1> SUFFICES ASSUME Bad # {} PROVE FALSE
  OBVIOUS
<1>1. Bad \subseteq Nat
  BY HeapFacts
<1>2. PICK i \in Bad : \A j \in Bad : i <= j
  <2> HIDE DEF Bad
  <2> QED BY <1>1, LeastNumber
<1>3. i \in 2..Len(q)
  BY HeapFacts
<1>4. i \div 2 \in DOMAIN q /\ i \div 2 < i
  BY <1>3, HeapFacts
<1>5. q[1].due <= q[i \div 2].due
  <2>1. i \in Nat /\ i \div 2 \in Nat /\ ~(i <= i \div 2)
    BY <1>3, <1>4
  <2> QED BY <1>2, <1>4, <2>1
<1>6. q[i \div 2].due <= q[i].due
  BY <1>3 DEF Heap
<1> QED BY <1>2, <1>4, <1>5, <1>6, HeapFacts

(* The definitions within OPL_Queue_Push.                                  *)
IsAbove(above, n) == above = [i \in 0..n |-> IF i = 0 THEN {} ELSE {i} \cup above[i \div 2]]

IsHole(hole, n, q, us) ==
  hole = [i \in 1..n |-> IF i = 1 \/ us >= q[i \div 2].due THEN i ELSE hole[i \div 2]]

LEMMA AboveExists ==
  ASSUME NEW n \in Nat
  PROVE  \E above : IsAbove(above, n)
<1> DEFINE pred == [i \in 1..n |-> i \div 2]
           step == [i \in 1..n |-> [v \in SUBSET (1..n) |-> {i} \cup v]]
<1>1. \A i \in 1..n : pred[i] \in 0..(i - 1) /\ \A v \in SUBSET (1..n) : step[i][v] \in SUBSET (1..n)
  OBVIOUS
<1>2. PICK f \in [0..n -> SUBSET (1..n)] : IsRecursive(f, n, {}, pred, step)
  <2> HIDE DEF pred, step
  <2> QED BY <1>1, Recursion
<1>3. ASSUME NEW i \in 1..n PROVE f[i] = {i} \cup f[i \div 2]
  <2>1. f[i] = step[i][f[pred[i]]]
    <3> HIDE DEF pred, step
    <3> QED BY <1>2 DEF IsRecursive
  <2>2. pred[i] = i \div 2 /\ f[i \div 2] \in SUBSET (1..n)
    BY <1>1
  <2> QED BY <2>1, <2>2
<1>4. f[0] = {}
  BY <1>2 DEF IsRecursive
<1>5. f = [i \in 0..n |-> IF i = 0 THEN {} ELSE {i} \cup f[i \div 2]]
  <2>1. \A i \in 0..n : f[i] = IF i = 0 THEN {} ELSE {i} \cup f[i \div 2]
    BY <1>3, <1>4
  <2> HIDE DEF pred, step
  <2> QED BY <2>1
<1> QED BY <1>5 DEF IsAbove

LEMMA HoleExists ==
  ASSUME NEW n \in Nat, NEW q, NEW us
  PROVE  \E hole : IsHole(hole, n, q, us)
<1> DEFINE pred == [i \in 1..n |-> i \div 2]
           step == [i \in 1..n |-> [v \in 0..n |-> IF i = 1 \/ us >= q[i \div 2].due THEN i ELSE v]]
<1>1. \A i \in 1..n : pred[i] \in 0..(i - 1) /\ \A v \in 0..n : step[i][v] \in 0..n
  OBVIOUS
<1>2. PICK f \in [0..n -> 0..n] : IsRecursive(f, n, 0, pred, step)
  <2>1. 0 \in 0..n
    OBVIOUS
  <2> HIDE DEF pred, step
  <2> QED BY <1>1, <2>1, Recursion
<1> DEFINE hole == [i \in 1..n |-> f[i]]
<1>3. ASSUME NEW i \in 1..n
      PROVE  hole[i] = IF i = 1 \/ us >= q[i \div 2].due THEN i ELSE hole[i \div 2]
  <2>1. f[i] = step[i][f[pred[i]]]
    <3> HIDE DEF pred, step
    <3> QED BY <1>2 DEF IsRecursive
  <2>2. step[i][f[pred[i]]] = IF i = 1 \/ us >= q[i \div 2].due THEN i ELSE f[i \div 2]
    <3>1. pred[i] = i \div 2 /\ f[i \div 2] \in 0..n
      BY <1>1
    <3> QED BY <3>1
  <2>3. i # 1 => i \div 2 \in 1..n
    OBVIOUS
  <2> QED BY <2>1, <2>2, <2>3
<1>4. hole = [i \in 1..n |-> hole[i]]
  OBVIOUS
<1> HIDE DEF hole
<1>5. IsHole(hole, n, q, us)
  BY <1>3, <1>4 DEF IsHole
<1> QED BY <1>5

(* The ancestors of n: each of them is above half of every later one.      *)
LEMMA AboveFacts ==
  ASSUME NEW n \in Nat, NEW above, IsAbove(above, n)
  PROVE  \A i \in 1..n :
           /\ above[i] \subseteq 1..i /\ i \in above[i]
           /\ above[i] = {i} \cup above[i \div 2]
           /\ \A k, l \in above[i] : k < l => k <= l \div 2
           /\ \A k \in above[i] : k > 1 => k \div 2 \in above[i]
<1> DEFINE Fine(i) == /\ above[i] \subseteq 1..i
                      /\ \A k, l \in above[i] : k < l => k <= l \div 2
                      /\ \A k \in above[i] : k > 1 => k \div 2 \in above[i]
           Good == {m \in 0..n : \A i \in 0..m : Fine(i)}
<1>1. /\ above[0] = {}
      /\ \A i \in 1..n : above[i] = {i} \cup above[i \div 2]
  BY DEF IsAbove
<1>2. 0 \in Good
  BY <1>1
<1>3. ASSUME NEW m \in 1..n, m - 1 \in Good PROVE m \in Good
  <2>1. Fine(m \div 2) /\ m \div 2 \in 0..(m - 1)
    BY <1>3
  <2>2. above[m] = {m} \cup above[m \div 2] /\ above[m \div 2] \subseteq 1..(m \div 2)
    BY <1>1, <2>1
  <2>3. above[m] \subseteq 1..m
    BY <2>1, <2>2
  <2>4. ASSUME NEW k \in above[m], NEW l \in above[m], k < l PROVE k <= l \div 2
    <3>1. k \in above[m \div 2]
      BY <2>2, <2>3, <2>4
    <3> QED BY <2>1, <2>2, <2>4, <3>1
  <2>5. ASSUME NEW k \in above[m], k > 1 PROVE k \div 2 \in above[m]
    <3>1. CASE k = m
      <4>1. m \div 2 \in 1..n /\ m \div 2 \in above[m \div 2]
        BY <1>1, <2>5, <3>1
      <4> QED BY <2>2, <3>1, <4>1
    <3>2. CASE k # m
      BY <2>1, <2>2, <2>5, <3>2
    <3> QED BY <3>1, <3>2
  <2>6. Fine(m)
    BY <2>3, <2>4, <2>5
  <2> HIDE DEF Fine
  <2>7. \A i \in 0..m : i = m \/ i \in 0..(m - 1)
    OBVIOUS
  <2> QED BY <1>3, <2>6, <2>7
<1> HIDE DEF Good
<1>4. \A m \in 0..n : m \in Good
  BY <1>2, <1>3, UpTo
<1>5. \A i \in 1..n : Fine(i)
  BY <1>4 DEF Good
<1> QED BY <1>1, <1>5

(* The hole is n or an ancestor of it; the entries of the ancestors from   *)
(* there down are later than us, the one above it is not.                  *)
LEMMA HoleFacts ==
  ASSUME NEW n \in Nat \ {0}, NEW q, NEW us, NEW above, IsAbove(above, n),
         NEW hole, IsHole(hole, n, q, us)
  PROVE  /\ hole[n] \in above[n] /\ hole[n] \in 1..n
         /\ hole[n] = n \/ ~(us >= q[hole[n]].due)
         /\ hole[n] = 1 \/ us >= q[hole[n] \div 2].due
         /\ \A k \in above[n] : k > hole[n] => ~(us >= q[k \div 2].due)
<1> DEFINE Fine(i) == /\ hole[i] \in above[i]
                      /\ hole[i] = i \/ ~(us >= q[hole[i]].due)
                      /\ hole[i] = 1 \/ us >= q[hole[i] \div 2].due
                      /\ \A k \in above[i] : k > hole[i] => ~(us >= q[k \div 2].due)
           Good == {m \in 0..n : \A i \in 1..m : Fine(i)}
<1>1. \A i \in 1..n :
        /\ above[i] \subseteq 1..i /\ i \in above[i]
        /\ above[i] = {i} \cup above[i \div 2]
  BY AboveFacts
<1>2. \A i \in 1..n :
        hole[i] = IF i = 1 \/ us >= q[i \div 2].due THEN i ELSE hole[i \div 2]
  BY DEF IsHole
<1>3. 0 \in Good
  OBVIOUS
<1>4. ASSUME NEW m \in 1..n, m - 1 \in Good PROVE m \in Good
  <2>1. CASE m = 1 \/ us >= q[m \div 2].due
    <3>1. hole[m] = m
      BY <1>2, <2>1
    <3>2. \A k \in above[m] : ~(k > m)
      BY <1>1
    <3>3. Fine(m)
      BY <1>1, <2>1, <3>1, <3>2
    <3> QED BY <1>4, <3>3
  <2>2. CASE ~(m = 1 \/ us >= q[m \div 2].due)
    <3>1. m \div 2 \in 1..(m - 1)
      BY <2>2
    <3>2. Fine(m \div 2)
      BY <1>4, <3>1
    <3>3. hole[m] = hole[m \div 2] /\ above[m] = {m} \cup above[m \div 2]
      BY <1>1, <1>2, <2>2
    <3>4. Fine(m)
      BY <2>2, <3>2, <3>3
    <3> HIDE DEF Fine
    <3> QED BY <1>4, <3>4
  <2> QED BY <2>1, <2>2
<1> HIDE DEF Good
<1>5. n \in Good
  BY <1>3, <1>4, UpTo
<1>6. Fine(n)
  BY <1>5 DEF Good
<1> QED BY <1>1, <1>6

(* A, the path from the root to n, and the hole h on it.                   *)
IsPath(A, h, n, q, us) ==
  /\ A \subseteq 1..n /\ n \in A
  /\ \A k, l \in A : k < l => k <= l \div 2
  /\ \A k \in A : k > 1 => k \div 2 \in A
  /\ h \in A
  /\ h = n \/ ~(us >= q[h].due)
  /\ h = 1 \/ us >= q[h \div 2].due
  /\ \A k \in A : k > h => ~(us >= q[k \div 2].due)

(* The entries of the path from the hole down to n move down, and the new  *)
(* one takes the hole.                                                     *)
IsSifted(new, q, n, A, h, e) ==
  new = [i \in 1..n |-> IF i = h THEN e ELSE IF i \in A /\ i > h THEN q[i \div 2] ELSE q[i]]

LEMMA Sifted ==
  ASSUME NEW q, Heap(q), NEW n \in Nat \ {0}, n = Len(q) + 1, n <= MAX_OPL_QUEUE,
         NEW cb \in Int, cb \notin Cbs(q), NEW us \in Int,
         NEW A, NEW h \in 1..n, IsPath(A, h, n, q, us),
         NEW new, IsSifted(new, q, n, A, h, [cb |-> cb, due |-> us])
  PROVE  Heap(new) /\ Cbs(new) = Cbs(q) \cup {cb}
<1> DEFINE e == [cb |-> cb, due |-> us]
           moves(i) == i \in A /\ i > h
<1>1. DOMAIN q = 1..(n - 1) /\ Len(q) = n - 1
  BY HeapFacts
<1>4. /\ new \in [1..n -> {new[i] : i \in 1..n}]
      /\ \A i \in 1..n : new[i] = IF i = h THEN e ELSE IF moves(i) THEN q[i \div 2] ELSE q[i]
  BY DEF IsSifted
<1>5. /\ A \subseteq 1..n /\ n \in A
      /\ \A k, l \in A : k < l => k <= l \div 2
      /\ \A k \in A : k > 1 => k \div 2 \in A
  BY DEF IsPath
<1>6. /\ h \in A /\ h \in 1..n
      /\ h = n \/ ~(us >= q[h].due)
      /\ h = 1 \/ us >= q[h \div 2].due
      /\ \A k \in A : k > h => ~(us >= q[k \div 2].due)
  BY DEF IsPath
<1>7. \A i \in 1..(n - 1) : q[i] \in Callbacks /\ q[i].due \in Int /\ q[i].cb \in Int
  BY <1>1, HeapFacts
<1> DEFINE I       == (1..n) \ {h}
           from(i) == IF moves(i) THEN i \div 2 ELSE i
<1>8. ASSUME NEW i \in I, moves(i)
      PROVE  /\ i \div 2 \in A /\ i \div 2 >= h /\ i \div 2 \in 1..(n - 1) /\ i > 1
             /\ new[i] = q[i \div 2]
  <2>1. i > 1 /\ i \div 2 \in A /\ h <= i \div 2
    BY <1>5, <1>6, <1>8
  <2> QED BY <1>4, <1>5, <1>8, <2>1
<1>9. ASSUME NEW i \in I, ~moves(i) PROVE new[i] = q[i] /\ i \in 1..(n - 1)
  <2>1. i # n
    BY <1>5, <1>6, <1>9
  <2>2. i \in 1..(n - 1)
    BY <2>1
  <2>3. new[i] = q[i]
    BY <1>4, <1>9
  <2> QED BY <2>2, <2>3
<1>10. new[h] = e
  BY <1>4
<1>11. ASSUME NEW i \in I PROVE from(i) \in 1..(n - 1) /\ new[i] = q[from(i)]
  BY <1>8, <1>9
<1>12. ASSUME NEW i \in I, NEW j \in I, i < j PROVE from(i) # from(j)
  <2> SUFFICES ASSUME from(i) = from(j) PROVE FALSE
    OBVIOUS
  <2>1. i \in Nat /\ j \in Nat /\ h \in Nat /\ i # h /\ j # h
    OBVIOUS
  <2>2. moves(j)
    <3>1. j <= i \/ moves(j)
      <4> SUFFICES ASSUME ~moves(j) PROVE j <= i
        OBVIOUS
      <4>1. from(j) = j /\ from(i) <= i
        BY <2>1
      <4> QED BY <4>1
    <3> QED BY <1>12, <2>1, <3>1
  <2>3. from(j) = j \div 2 /\ j \div 2 \in A /\ j \div 2 >= h
    BY <1>8, <2>2
  <2>4. CASE moves(i)
    <3>1. i <= j \div 2 /\ i > 1
      BY <1>5, <1>8, <1>12, <2>2, <2>4
    <3>2. from(i) = i \div 2
      BY <2>4
    <3> QED BY <2>1, <2>3, <3>1, <3>2
  <2>5. CASE ~moves(i)
    <3>1. from(i) = i
      BY <2>5
    <3> QED BY <2>1, <2>3, <2>5, <3>1
  <2> QED BY <2>4, <2>5
<1> HIDE DEF moves, from
<1>13. \A i, j \in I : from(i) = from(j) => i = j
  <2>1. \A i, j \in I : i < j \/ j < i \/ i = j
    OBVIOUS
  <2> QED BY <1>12, <2>1
<1>14. \A s \in 1..(n - 1) : \E i \in I : from(i) = s
  <2> DEFINE place == [i \in I |-> from(i)]
  <2>1. PICK less \in Nat : less = n - 1 /\ n \in Nat
    OBVIOUS
  <2>2. /\ IsFiniteSet(1..n) /\ Cardinality(1..n) = n
        /\ IsFiniteSet(1..(n - 1)) /\ Cardinality(1..(n - 1)) = n - 1
    <3>1. IsFiniteSet(1..n) /\ Cardinality(1..n) = n
      BY CountUpTo
    <3>2. IsFiniteSet(1..less) /\ Cardinality(1..less) = less
      BY CountUpTo
    <3> QED BY <2>1, <3>1, <3>2
  <2>3. IsFiniteSet(I) /\ Cardinality(I) = n - 1
    <3> DEFINE T == 1..n
    <3>1. IsFiniteSet(T) /\ Cardinality(T) = n /\ h \in T
      BY <1>6, <2>2
    <3> HIDE DEF T
    <3>2. IsFiniteSet(T \ {h}) /\ Cardinality(T \ {h}) = n - 1
      BY <3>1, FS_RemoveElement
    <3> QED BY <3>2 DEF T
  <2>4. place \in [I -> 1..(n - 1)] /\ \A i, j \in I : place[i] = place[j] => i = j
    BY <1>11, <1>13
  <2>5. \A i \in I : place[i] = from(i)
    OBVIOUS
  <2> HIDE DEF place, I
  <2>6. \A s \in 1..(n - 1) : \E i \in I : place[i] = s
    <3> DEFINE m == n - 1
               S == 1..m
    <3>1. /\ m \in Nat /\ IsFiniteSet(S) /\ Cardinality(S) = m
          /\ IsFiniteSet(I) /\ Cardinality(I) = m
          /\ place \in [I -> S] /\ \A i, j \in I : place[i] = place[j] => i = j
      BY <2>1, <2>2, <2>3, <2>4
    <3> HIDE DEF m, S
    <3>2. \A s \in S : \E i \in I : place[i] = s
      BY <3>1, Moved
    <3> QED BY <3>2 DEF S, m
  <2> QED BY <2>5, <2>6
<1>15. new \in Seq(Callbacks) /\ Len(new) = n /\ DOMAIN new = 1..n
  <2>1. \A i \in I : new[i] \in Callbacks
    BY <1>7, <1>11
  <2>2. new[h] \in Callbacks
    BY <1>10 DEF Callbacks
  <2>3. \A i \in 1..n : new[i] \in Callbacks
    BY <2>1, <2>2
  <2>4. new \in [1..n -> Callbacks] /\ n \in Nat
    BY <1>4, <2>3
  <2> QED BY <2>4, SeqDef
<1>16. Cbs(new) = Cbs(q) \cup {cb}
  <2>1. ASSUME NEW i \in 1..n PROVE new[i].cb = cb \/ new[i].cb \in Cbs(q)
    <3>1. CASE i = h
      BY <1>10, <3>1
    <3>2. CASE i # h
      BY <1>1, <1>11, <3>2 DEF Cbs
    <3> QED BY <3>1, <3>2
  <2>2. ASSUME NEW j \in 1..(n - 1) PROVE q[j].cb \in Cbs(new)
    <3>1. PICK i \in I : from(i) = j
      BY <1>14
    <3> QED BY <1>11, <1>15, <3>1 DEF Cbs
  <2>3. cb \in Cbs(new)
    BY <1>10, <1>15 DEF Cbs
  <2>4. \A x \in Cbs(new) : x = cb \/ x \in Cbs(q)
    BY <1>15, <2>1 DEF Cbs
  <2>5. \A x \in Cbs(q) : x \in Cbs(new)
    BY <1>1, <2>2 DEF Cbs
  <2> QED BY <2>3, <2>4, <2>5
<1>17. \A i, j \in 1..n : new[i].cb = new[j].cb => i = j
  <2>1. ASSUME NEW i \in I PROVE new[i].cb # cb
    BY <1>1, <1>11 DEF Cbs
  <2>2. ASSUME NEW i \in I, NEW j \in I, new[i].cb = new[j].cb PROVE i = j
    <3>1. \A k, l \in 1..(n - 1) : q[k].cb = q[l].cb => k = l
      BY <1>1 DEF Heap
    <3>2. from(i) = from(j)
      BY <1>11, <2>2, <3>1
    <3> QED BY <1>13, <3>2
  <2>3. new[h].cb = cb
    BY <1>10
  <2> QED BY <2>1, <2>2, <2>3
<1>18. ASSUME NEW i \in 2..n PROVE new[i \div 2].due <= new[i].due
  <2>1. PICK p \in 1..(n - 1) : p = i \div 2 /\ p < i
    OBVIOUS
  <2>2. \A j \in 2..(n - 1) : q[j \div 2].due <= q[j].due
    BY <1>1 DEF Heap
  <2>3. ASSUME p # h, moves(p)
        PROVE  new[p].due <= q[p].due /\ new[p].due \in Int
    <3>1. PICK g \in 1..(n - 1) : g = p \div 2 /\ new[p] = q[g] /\ p > 1
      BY <1>8, <2>3
    <3>2. p \in 2..(n - 1)
      BY <3>1
    <3>3. q[g].due <= q[p].due
      BY <2>2, <3>1, <3>2
    <3> QED BY <1>7, <3>1, <3>3
  <2>4. ASSUME p # h, ~moves(p) PROVE new[p] = q[p]
    BY <1>9, <2>4
  <2>5. CASE i = h
    <3>1. p # h /\ ~moves(p)
      BY <2>1, <2>5 DEF moves
    <3>2. us >= q[p].due
      BY <1>6, <2>1, <2>5
    <3> QED BY <1>7, <1>10, <2>1, <2>4, <2>5, <3>1, <3>2
  <2>6. CASE i # h /\ moves(i)
    <3>1. new[i] = q[p] /\ p \in A /\ p >= h
      BY <1>8, <2>1, <2>6
    <3>2. CASE p = h
      <4>1. ~(us >= q[p].due)
        BY <1>6, <2>1, <2>6 DEF moves
      <4> QED BY <1>7, <1>10, <2>1, <3>1, <3>2, <4>1
    <3>3. CASE p # h
      <4>1. moves(p)
        BY <3>1, <3>3 DEF moves
      <4> QED BY <2>1, <2>3, <3>1, <3>3, <4>1
    <3> QED BY <3>2, <3>3
  <2>7. CASE i # h /\ ~moves(i)
    <3>1. new[i] = q[i] /\ i \in 2..(n - 1)
      BY <1>9, <2>7
    <3>2. q[p].due <= q[i].due /\ q[p].due \in Int /\ q[i].due \in Int
      BY <1>7, <2>1, <2>2, <3>1
    <3>3. CASE p = h
      <4>1. ~(us >= q[p].due)
        BY <1>6, <2>1, <3>1, <3>3
      <4> QED BY <1>10, <2>1, <3>1, <3>2, <3>3, <4>1
    <3>4. CASE p # h /\ moves(p)
      BY <2>1, <2>3, <3>1, <3>2, <3>4
    <3>5. CASE p # h /\ ~moves(p)
      BY <2>1, <2>4, <3>1, <3>2, <3>5
    <3> QED BY <3>3, <3>4, <3>5
  <2> QED BY <2>5, <2>6, <2>7
<1>19. Heap(new)
  BY <1>15, <1>17, <1>18 DEF Heap
<1> QED BY <1>16, <1>19

LEMMA PushKeeps ==
  ASSUME NEW q, Heap(q), Len(q) < MAX_OPL_QUEUE, NEW cb \in Int, cb \notin Cbs(q), NEW us \in Int
  PROVE  Heap(Push(q, cb, us)) /\ Cbs(Push(q, cb, us)) = Cbs(q) \cup {cb}
<1> DEFINE n     == Len(q) + 1
           above == CHOOSE x : IsAbove(x, n)
           hole  == CHOOSE x : IsHole(x, n, q, us)
           A     == above[n]
           h     == hole[n]
           e     == [cb |-> cb, due |-> us]
           moves(i) == i \in A /\ i > h
           new == [i \in 1..n |-> IF i = h THEN e ELSE IF moves(i) THEN q[i \div 2] ELSE q[i]]
<1>1. n \in Nat \ {0} /\ n = Len(q) + 1 /\ DOMAIN q = 1..(n - 1)
  BY HeapFacts
<1>2. IsAbove(above, n)
  <2> HIDE DEF n
  <2> QED BY <1>1, AboveExists
<1>3. IsHole(hole, n, q, us)
  <2> HIDE DEF n
  <2> QED BY <1>1, HoleExists
<1>4. Push(q, cb, us) = new
  <2>1. ~(Len(q) >= MAX_OPL_QUEUE)
    BY HeapFacts, QueueAssumption
  <2> QED BY <2>1 DEF Push, IsAbove, IsHole
<1> HIDE DEF n, above, hole
<1>5. /\ A \subseteq 1..n /\ n \in A
      /\ \A k, l \in A : k < l => k <= l \div 2
      /\ \A k \in A : k > 1 => k \div 2 \in A
  <2>1. n \in Nat /\ n \in 1..n
    BY <1>1
  <2> QED BY <1>2, <2>1, AboveFacts
<1>6. /\ h \in A /\ h \in 1..n
      /\ h = n \/ ~(us >= q[h].due)
      /\ h = 1 \/ us >= q[h \div 2].due
      /\ \A k \in A : k > h => ~(us >= q[k \div 2].due)
  BY <1>1, <1>2, <1>3, HoleFacts
<1>7. cb \in Int /\ us \in Int /\ n <= MAX_OPL_QUEUE
  BY <1>1, QueueAssumption
<1> HIDE DEF A, h
<1>8. Heap(new) /\ Cbs(new) = Cbs(q) \cup {cb}
  <2>1. IsPath(A, h, n, q, us) /\ IsSifted(new, q, n, A, h, e)
    BY <1>5, <1>6 DEF IsPath, IsSifted
  <2> HIDE DEF new
  <2> QED BY <1>1, <1>6, <1>7, <2>1, Sifted
<1> QED BY <1>4, <1>8
-----------------------------------------------------------------------------
(* OPL_Queue_Pop.  Of two children the earlier one moves up, unless last   *)
(* is not later than either.                                               *)
LEMMA ChildFacts ==
  ASSUME NEW q, Heap(q), NEW n \in Nat, Len(q) = n + 1, NEW i \in 1..n
  PROVE  LET last == q[n + 1]
             c    == SmallerChild(q, n, last, i)
         IN /\ c # 0 => c \in 2..n /\ c \div 2 = i /\ q[c].due <= last.due
            /\ \A j \in 2..n : j \div 2 = i =>
                 /\ c = 0 => last.due <= q[j].due
                 /\ c # 0 => q[c].due <= q[j].due
<1> DEFINE last == q[n + 1]
           l == 2 * i
           r == 2 * i + 1
           c == SmallerChild(q, n, last, i)
<1>1. last.due \in Int /\ \A j \in 1..n : q[j].due \in Int
  BY HeapFacts
<1>2. l \in Nat /\ r \in Nat /\ l > 1 /\ r > 1 /\ l \div 2 = i /\ r \div 2 = i
  OBVIOUS
<1>3. \A j \in 2..n : j \div 2 = i => (j = l \/ j = r) /\ q[j].due \in Int
  BY <1>1
<1>4. /\ l <= n => l \in 2..n /\ q[l].due \in Int
      /\ r <= n => r \in 2..n /\ q[r].due \in Int
  BY <1>1, <1>2
<1>5. c = IF l <= n /\ q[l].due < last.due
          THEN IF r <= n /\ q[r].due < q[l].due THEN r ELSE l
          ELSE IF r <= n /\ q[r].due < last.due THEN r
          ELSE 0
  BY DEF SmallerChild
<1>6. c # 0 => c \in 2..n /\ c \div 2 = i /\ q[c].due <= last.due
  <2> HIDE DEF last, l, r, c
  <2> QED BY <1>1, <1>2, <1>4, <1>5
<1>7. ASSUME NEW j \in 2..n, j = l \/ j = r, q[j].due \in Int
      PROVE  /\ c = 0 => last.due <= q[j].due
             /\ c # 0 => q[c].due <= q[j].due
  <2> HIDE DEF last, l, r, c
  <2> QED BY <1>1, <1>2, <1>4, <1>5, <1>7
<1> HIDE DEF last, l, r, c
<1>8. \A j \in 2..n : j \div 2 = i =>
        /\ c = 0 => last.due <= q[j].due
        /\ c # 0 => q[c].due <= q[j].due
  BY <1>3, <1>7
<1> QED BY <1>6, <1>8 DEF c, last

(* The path down which last percolates: from each place but the root to    *)
(* the one it is the chosen child of.                                      *)
IsMarked(path, n, q, last) ==
  path = [i \in 1..n |-> i = 1 \/ (path[i \div 2] /\ SmallerChild(q, n, last, i \div 2) = i)]

LEMMA MarkedExists ==
  ASSUME NEW n \in Nat, NEW q, NEW last
  PROVE  \E path : IsMarked(path, n, q, last)
<1> DEFINE chosen(i) == SmallerChild(q, n, last, i \div 2) = i
           pred == [i \in 1..n |-> i \div 2]
           step == [i \in 1..n |-> [v \in {0, 1} |-> IF i = 1 \/ (v = 1 /\ chosen(i)) THEN 1 ELSE 0]]
<1> HIDE DEF chosen
<1>1. \A i \in 1..n : pred[i] \in 0..(i - 1) /\ \A v \in {0, 1} : step[i][v] \in {0, 1}
  OBVIOUS
<1>2. PICK f \in [0..n -> {0, 1}] : IsRecursive(f, n, 0, pred, step)
  <2> HIDE DEF pred, step
  <2> QED BY <1>1, Recursion
<1> DEFINE path == [i \in 1..n |-> f[i] = 1]
<1>3. ASSUME NEW i \in 1..n
      PROVE  f[i] = 1 <=> i = 1 \/ (f[i \div 2] = 1 /\ chosen(i))
  <2>1. f[i] = step[i][f[pred[i]]]
    <3> HIDE DEF pred, step
    <3> QED BY <1>2 DEF IsRecursive
  <2>2. pred[i] = i \div 2 /\ f[i \div 2] \in {0, 1}
    BY <1>1
  <2>3. step[i][f[i \div 2]] = IF i = 1 \/ (f[i \div 2] = 1 /\ chosen(i)) THEN 1 ELSE 0
    BY <2>2
  <2> HIDE DEF step, pred
  <2> QED BY <2>1, <2>2, <2>3
<1>4. ASSUME NEW i \in 1..n
      PROVE  (f[i] = 1) = (i = 1 \/ (path[i \div 2] /\ chosen(i)))
  <2>1. i # 1 => i \div 2 \in 1..n
    OBVIOUS
  <2>2. i # 1 => (path[i \div 2] <=> f[i \div 2] = 1)
    BY <2>1
  <2> HIDE DEF path
  <2> QED BY <1>3, <2>2
<1>5. path = [i \in 1..n |-> i = 1 \/ (path[i \div 2] /\ chosen(i))]
  BY <1>4, Zenon
<1> HIDE DEF path
<1>6. IsMarked(path, n, q, last)
  BY <1>5 DEF IsMarked, chosen
<1> QED BY <1>6

(* P, the places of the path: one is always the child of another, so there *)
(* is nothing beside them, and only the last of them has no child on it.   *)
LEMMA MarkedFacts ==
  ASSUME NEW q, Heap(q), NEW n \in Nat, Len(q) = n + 1, NEW path, IsMarked(path, n, q, q[n + 1])
  PROVE  LET P        == {i \in 1..n : path[i]}
             child(i) == SmallerChild(q, n, q[n + 1], i)
         IN /\ \A i \in P : i # 1 => i \div 2 \in P /\ child(i \div 2) = i
            /\ n # 0 => 1 \in P
            /\ \A i \in P : child(i) # 0 => child(i) \in P
            /\ \A i, j \in P : i < j => child(i) # 0
<1> DEFINE P        == {i \in 1..n : path[i]}
           child(i) == SmallerChild(q, n, q[n + 1], i)
<1>1. \A i \in 1..n : path[i] <=> i = 1 \/ (path[i \div 2] /\ child(i \div 2) = i)
  BY Zenon DEF IsMarked
<1>2. ASSUME NEW i \in 1..n
      PROVE  child(i) # 0 => child(i) \in 2..n /\ child(i) \div 2 = i
  BY ChildFacts
<1> HIDE DEF child
<1>3. \A i \in P : i # 1 => i \div 2 \in P /\ child(i \div 2) = i
  <2> TAKE i \in P
  <2> HAVE i # 1
  <2>1. i \div 2 \in 1..n
    OBVIOUS
  <2> QED BY <1>1, <2>1
<1>4. n # 0 => 1 \in P
  BY <1>1
<1>5. \A i \in P : child(i) # 0 => child(i) \in P
  <2> TAKE i \in P
  <2> HAVE child(i) # 0
  <2>1. PICK c \in 2..n : c = child(i) /\ c \div 2 = i
    BY <1>2
  <2> QED BY <1>1, <2>1
<1> HIDE DEF P
<1>6. P \subseteq 1..n
  BY DEF P
<1>7. \A i, j \in P : i < j => i <= j \div 2
  <2> DEFINE Bad == {j \in P : \E i \in P : i < j /\ ~(i <= j \div 2)}
  <2> SUFFICES ASSUME Bad # {} PROVE FALSE
    BY <1>6
  <2>1. Bad \subseteq Nat
    <3>1. Bad \subseteq P
      OBVIOUS
    <3> HIDE DEF Bad
    <3> QED BY <1>6, <3>1
  <2>2. PICK j \in Bad : \A k \in Bad : j <= k
    <3> HIDE DEF Bad
    <3> QED BY <2>1, LeastNumber
  <2>3. PICK i \in P : i < j /\ ~(i <= j \div 2)
    OBVIOUS
  <2>4. i \in 1..n /\ j \in 1..n /\ j # 1 /\ i # 1
    BY <1>6, <2>3
  <2>5. PICK p \in P : p = j \div 2 /\ child(p) = j
    BY <1>3, <2>4
  <2>6. PICK g \in P : g = i \div 2 /\ child(g) = i
    BY <1>3, <2>4
  <2>7. g # p
    BY <2>3, <2>4, <2>5, <2>6
  <2>8. p \in 1..n /\ g \in 1..n /\ p < i /\ ~(p <= g)
    BY <1>6, <2>3, <2>4, <2>5, <2>6, <2>7
  <2>9. i \in Bad
    BY <2>6, <2>8
  <2> QED BY <2>2, <2>3, <2>4, <2>9
<1>8. \A i, j \in P : i < j => child(i) # 0
  <2> DEFINE Bad == {j \in P : \E i \in P : i < j /\ child(i) = 0}
  <2> SUFFICES ASSUME Bad # {} PROVE FALSE
    BY <1>6
  <2>1. Bad \subseteq Nat
    <3>1. Bad \subseteq P
      OBVIOUS
    <3> HIDE DEF Bad
    <3> QED BY <1>6, <3>1
  <2>2. PICK j \in Bad : \A k \in Bad : j <= k
    <3> HIDE DEF Bad
    <3> QED BY <2>1, LeastNumber
  <2>3. PICK i \in P : i < j /\ child(i) = 0
    OBVIOUS
  <2>4. i \in 1..n /\ j \in 1..n /\ j # 1
    BY <1>6, <2>3
  <2>5. PICK p \in P : p = j \div 2 /\ child(p) = j
    BY <1>3, <2>4
  <2>6. i <= p /\ i # p /\ p \in 1..n /\ p < j
    BY <1>6, <1>7, <2>3, <2>4, <2>5
  <2>7. p \in Bad
    BY <2>3, <2>4, <2>5, <2>6
  <2> QED BY <2>2, <2>4, <2>6, <2>7
<1> QED BY <1>3, <1>4, <1>5, <1>8 DEF P, child

(* The entries of the path move up, and last takes the place of the last.  *)
IsLifted(new, q, n, path) ==
  new = [i \in 1..n |-> IF ~path[i] THEN q[i]
                        ELSE IF SmallerChild(q, n, q[n + 1], i) = 0 THEN q[n + 1]
                        ELSE q[SmallerChild(q, n, q[n + 1], i)]]

LEMMA Lifted ==
  ASSUME NEW q, Heap(q), NEW n \in Nat, Len(q) = n + 1,
         NEW path, IsMarked(path, n, q, q[n + 1]), NEW new, IsLifted(new, q, n, path)
  PROVE  Heap(new) /\ Cbs(q) = {q[1].cb} \cup Cbs(new) /\ q[1].cb \notin Cbs(new)
<1> DEFINE P        == {i \in 1..n : path[i]}
           last     == q[n + 1]
           child(i) == SmallerChild(q, n, q[n + 1], i)
           from(i)  == IF i \notin P THEN i ELSE IF child(i) = 0 THEN n + 1 ELSE child(i)
<1>1. /\ DOMAIN q = 1..(n + 1)
      /\ \A i \in 1..(n + 1) : q[i] \in Callbacks /\ q[i].due \in Int
  BY HeapFacts
<1>2. /\ new \in [1..n -> {new[i] : i \in 1..n}]
      /\ \A i \in 1..n : new[i] = IF i \notin P THEN q[i]
                                  ELSE IF child(i) = 0 THEN last ELSE q[child(i)]
  BY DEF IsLifted
<1>3. /\ \A i \in P : i # 1 => i \div 2 \in P /\ child(i \div 2) = i
      /\ n # 0 => 1 \in P
      /\ \A i \in P : child(i) # 0 => child(i) \in P
      /\ \A i, j \in P : i < j => child(i) # 0
  BY MarkedFacts
<1>4. ASSUME NEW i \in 1..n
      PROVE  /\ child(i) # 0 => child(i) \in 2..n /\ child(i) \div 2 = i /\ q[child(i)].due <= last.due
             /\ \A j \in 2..n : j \div 2 = i =>
                  /\ child(i) = 0 => last.due <= q[j].due
                  /\ child(i) # 0 => q[child(i)].due <= q[j].due
  BY ChildFacts
<1>5. P \subseteq 1..n /\ last = q[n + 1]
  OBVIOUS
<1> HIDE DEF P, last, child
<1>6. ASSUME NEW i \in 1..n PROVE from(i) \in 2..(n + 1) /\ new[i] = q[from(i)]
  <2>1. CASE i \notin P
    <3>1. i # 1
      BY <1>3, <2>1
    <3> QED BY <1>2, <2>1, <3>1
  <2>2. CASE i \in P /\ child(i) = 0
    BY <1>2, <1>5, <2>2
  <2>3. CASE i \in P /\ child(i) # 0
    <3>1. child(i) \in 2..n
      BY <1>4, <2>3
    <3>2. from(i) = child(i) /\ child(i) \in 2..(n + 1)
      BY <2>3, <3>1
    <3>3. new[i] = q[child(i)]
      BY <1>2, <2>3
    <3> HIDE DEF from
    <3> QED BY <3>2, <3>3
  <2> QED BY <2>1, <2>2, <2>3
<1>7. ASSUME NEW i \in 1..n, NEW j \in 1..n, i < j PROVE from(i) # from(j)
  <2>1. CASE i \notin P /\ j \notin P
    BY <1>7, <2>1
  <2>2. ASSUME NEW k \in 1..n, NEW l \in 1..n, k \notin P, l \in P PROVE from(k) # from(l)
    <3>1. from(k) = k /\ k # n + 1
      BY <2>2
    <3>2. child(l) # 0 => child(l) # k
      BY <1>3, <2>2
    <3> QED BY <2>2, <3>1, <3>2
  <2>3. CASE i \in P /\ j \in P
    <3>1. child(i) # 0 /\ child(i) \in 2..n /\ child(i) \div 2 = i
      BY <1>3, <1>4, <1>7, <2>3
    <3>2. CASE child(j) = 0
      BY <2>3, <3>1, <3>2
    <3>3. CASE child(j) # 0
      <4>1. child(j) \div 2 = j
        BY <1>4, <3>3
      <4> QED BY <1>7, <2>3, <3>1, <3>3, <4>1
    <3> QED BY <3>2, <3>3
  <2> QED BY <2>1, <2>2, <2>3
<1> HIDE DEF from
<1>8. \A i, j \in 1..n : from(i) = from(j) => i = j
  <2>1. \A i, j \in 1..n : i < j \/ j < i \/ i = j
    OBVIOUS
  <2> QED BY <1>7, <2>1
<1>9. \A s \in 2..(n + 1) : \E i \in 1..n : from(i) = s
  <2> DEFINE I == 1..n
             S == 2..(n + 1)
             place == [i \in I |-> from(i)]
  <2>1. IsFiniteSet(I) /\ Cardinality(I) = n
    BY CountUpTo
  <2>2. IsFiniteSet(S) /\ Cardinality(S) = n
    BY FS_Interval
  <2>3. place \in [I -> S] /\ \A i, j \in I : place[i] = place[j] => i = j
    BY <1>6, <1>8
  <2>4. \A i \in I : place[i] = from(i)
    OBVIOUS
  <2> HIDE DEF place, I, S
  <2>5. \A s \in S : \E i \in I : place[i] = s
    BY <2>1, <2>2, <2>3, Moved
  <2> QED BY <2>4, <2>5 DEF I, S
<1>10. new \in Seq(Callbacks) /\ Len(new) = n /\ DOMAIN new = 1..n
  <2>1. \A i \in 1..n : new[i] \in Callbacks
    BY <1>1, <1>6
  <2>2. new \in [1..n -> Callbacks]
    BY <1>2, <2>1
  <2> QED BY <2>2, SeqDef
<1>11. \A k, l \in 1..(n + 1) : q[k].cb = q[l].cb => k = l
  BY <1>1 DEF Heap
<1>12. Cbs(q) = {q[1].cb} \cup Cbs(new)
  <2>1. \A i \in 1..n : new[i].cb \in Cbs(q)
    BY <1>1, <1>6 DEF Cbs
  <2>2. ASSUME NEW j \in 1..(n + 1) PROVE q[j].cb = q[1].cb \/ q[j].cb \in Cbs(new)
    <3>1. j = 1 \/ j \in 2..(n + 1)
      OBVIOUS
    <3>2. ASSUME j \in 2..(n + 1) PROVE q[j].cb \in Cbs(new)
      <4>1. PICK i \in 1..n : from(i) = j
        BY <1>9, <3>2
      <4> QED BY <1>6, <1>10, <4>1 DEF Cbs
    <3> QED BY <3>1, <3>2
  <2>3. q[1].cb \in Cbs(q)
    BY <1>1 DEF Cbs
  <2>4. \A x \in Cbs(new) : x \in Cbs(q)
    BY <1>10, <2>1 DEF Cbs
  <2>5. \A x \in Cbs(q) : x = q[1].cb \/ x \in Cbs(new)
    BY <1>1, <2>2 DEF Cbs
  <2> QED BY <2>3, <2>4, <2>5
<1>13. q[1].cb \notin Cbs(new)
  <2> SUFFICES ASSUME NEW i \in 1..n, new[i].cb = q[1].cb PROVE FALSE
    BY <1>10 DEF Cbs
  <2>1. from(i) \in 2..(n + 1) /\ q[from(i)].cb = q[1].cb
    BY <1>6
  <2> QED BY <1>11, <2>1
<1>14. \A i, j \in 1..n : new[i].cb = new[j].cb => i = j
  <2> TAKE i, j \in 1..n
  <2> HAVE new[i].cb = new[j].cb
  <2>1. from(i) \in 1..(n + 1) /\ from(j) \in 1..(n + 1) /\ q[from(i)].cb = q[from(j)].cb
    BY <1>6
  <2> QED BY <1>8, <1>11, <2>1
<1>15. ASSUME NEW i \in 2..n PROVE new[i \div 2].due <= new[i].due
  <2>1. PICK p \in 1..n : p = i \div 2
    OBVIOUS
  <2>2. i \in 1..n /\ q[i].due \in Int /\ last.due \in Int
    BY <1>1, <1>5
  <2>3. q[p].due <= q[i].due
    BY <2>1 DEF Heap
  <2>4. CASE i \in P
    <3>1. p \in P /\ child(p) = i /\ new[p] = q[i]
      <4>1. i # 1 /\ i # 0
        OBVIOUS
      <4>2. p \in P /\ child(p) = i
        BY <1>3, <2>1, <2>4, <4>1
      <4> QED BY <1>2, <4>1, <4>2
    <3>2. CASE child(i) = 0
      <4>1. q[i].due <= last.due
        BY <1>4, <3>1
      <4> QED BY <1>2, <2>1, <2>2, <2>4, <3>1, <3>2, <4>1
    <3>3. CASE child(i) # 0
      <4>1. PICK c \in 2..n : c = child(i) /\ c \div 2 = i
        BY <1>4, <2>2, <3>3
      <4>2. q[i].due <= q[c].due
        BY <4>1 DEF Heap
      <4>3. new[i] = q[c]
        BY <1>2, <2>2, <2>4, <3>3, <4>1
      <4> QED BY <2>1, <3>1, <4>2, <4>3
    <3> QED BY <3>2, <3>3
  <2>5. CASE i \notin P
    <3>1. new[i] = q[i]
      BY <1>2, <2>2, <2>5
    <3>2. CASE p \notin P
      <4>1. new[p] = q[p]
        BY <1>2, <3>2
      <4> QED BY <2>1, <2>3, <3>1, <4>1
    <3>3. CASE p \in P /\ child(p) = 0
      <4>1. new[p] = last
        BY <1>2, <3>3
      <4>2. last.due <= q[i].due
        BY <1>4, <2>1, <3>3
      <4> QED BY <2>1, <3>1, <4>1, <4>2
    <3>4. CASE p \in P /\ child(p) # 0
      <4>1. new[p] = q[child(p)]
        BY <1>2, <3>4
      <4>2. q[child(p)].due <= q[i].due
        BY <1>4, <2>1, <3>4
      <4> QED BY <2>1, <3>1, <4>1, <4>2
    <3> QED BY <3>2, <3>3, <3>4
  <2> QED BY <2>4, <2>5
<1>16. Len(new) <= MAX_OPL_QUEUE
  BY <1>10, QueueAssumption DEF Heap
<1>17. Heap(new)
  BY <1>10, <1>14, <1>15, <1>16 DEF Heap
<1> QED BY <1>12, <1>13, <1>17

LEMMA PopKeeps ==
  ASSUME NEW q, Heap(q), q # <<>>
  PROVE  Heap(Pop(q)) /\ Cbs(q) = {q[1].cb} \cup Cbs(Pop(q)) /\ q[1].cb \notin Cbs(Pop(q))
<1> DEFINE n    == Len(q) - 1
           path == CHOOSE x : IsMarked(x, n, q, q[n + 1])
           new  == [i \in 1..n |-> IF ~path[i] THEN q[i]
                                   ELSE IF SmallerChild(q, n, q[n + 1], i) = 0 THEN q[n + 1]
                                   ELSE q[SmallerChild(q, n, q[n + 1], i)]]
<1>1. n \in Nat /\ Len(q) = n + 1
  BY HeapFacts
<1>2. Pop(q) = new
  BY DEF Pop, IsMarked
<1>3. IsLifted(new, q, n, path)
  BY DEF IsLifted
<1> HIDE DEF n, new
<1>4. IsMarked(path, n, q, q[n + 1])
  BY <1>1, MarkedExists
<1> HIDE DEF path
<1>5. Heap(new) /\ Cbs(q) = {q[1].cb} \cup Cbs(new) /\ q[1].cb \notin Cbs(new)
  BY <1>1, <1>3, <1>4, Lifted
<1> QED BY <1>2, <1>5

(* Changing the times keeps the heap, when what is due first stays first.  *)
LEMMA Retimed ==
  ASSUME NEW q, Heap(q), NEW new, new \in Seq(Callbacks), DOMAIN new = DOMAIN q,
         \A i \in DOMAIN q : new[i].cb = q[i].cb,
         \A i, j \in DOMAIN q : q[i].due <= q[j].due => new[i].due <= new[j].due
  PROVE  Heap(new) /\ Cbs(new) = Cbs(q)
<1>1. Len(q) \in Nat /\ DOMAIN q = 1..Len(q) /\ Len(new) \in Nat /\ DOMAIN new = 1..Len(new)
  BY HeapFacts
<1>2. Len(new) = Len(q)
  BY <1>1
<1>3. ASSUME NEW i \in 2..Len(new) PROVE new[i \div 2].due <= new[i].due
  <2>1. PICK p \in DOMAIN q : p = i \div 2
    BY <1>1, <1>2
  <2>2. i \in DOMAIN q /\ i \in 2..Len(q)
    BY <1>1, <1>2
  <2>3. q[p].due <= q[i].due
    BY <2>1, <2>2 DEF Heap
  <2> QED BY <2>1, <2>2, <2>3
<1>4. \A i, j \in DOMAIN new : new[i].cb = new[j].cb => i = j
  BY DEF Heap
<1>5. Len(new) <= MAX_OPL_QUEUE
  BY <1>2 DEF Heap
<1> QED BY <1>3, <1>4, <1>5 DEF Heap, Cbs

LEMMA ShiftKeeps ==
  ASSUME NEW q, Heap(q), NEW k \in Int
  PROVE  LET new == [i \in DOMAIN q |-> [q[i] EXCEPT !.due = @ - k]]
         IN Heap(new) /\ Cbs(new) = Cbs(q)
<1> DEFINE new == [i \in DOMAIN q |-> [q[i] EXCEPT !.due = @ - k]]
<1>1. Len(q) \in Nat /\ DOMAIN q = 1..Len(q) /\ DOMAIN new = DOMAIN q
  BY HeapFacts
<1>2. ASSUME NEW i \in DOMAIN q
      PROVE  new[i] \in Callbacks /\ new[i].cb = q[i].cb /\ new[i].due = q[i].due - k
                                  /\ q[i].due \in Int
  BY HeapFacts DEF Callbacks
<1>3. new \in Seq(Callbacks)
  <2>1. new \in [1..Len(q) -> Callbacks]
    BY <1>1, <1>2
  <2> QED BY <1>1, <2>1, SeqDef
<1> HIDE DEF new
<1>4. \A i, j \in DOMAIN q : q[i].due <= q[j].due => new[i].due <= new[j].due
  BY <1>2
<1> QED BY <1>1, <1>2, <1>3, <1>4, Retimed DEF new

(* The times keep their order when the tempo changes.                      *)
LEMMA Quotient ==
  ASSUME NEW a \in Nat, NEW k \in Nat \ {0}
  PROVE  a \div k \in Nat /\ k * (a \div k) <= a /\ a < k * (a \div k) + k
OBVIOUS

LEMMA TimesMonotone ==
  ASSUME NEW a \in Int, NEW b \in Int, NEW k \in Nat, a <= b
  PROVE  a * k <= b * k
OBVIOUS

LEMMA QuotientMonotone ==
  ASSUME NEW a \in Nat, NEW b \in Nat, NEW k \in Nat \ {0}, a <= b
  PROVE  a \div k <= b \div k
<1>1. PICK x \in Nat : x = a \div k
  BY Quotient
<1>2. PICK y \in Nat : y = b \div k
  BY Quotient
<1>3. k * x <= a /\ b < k * y + k
  BY <1>1, <1>2, Quotient
<1>4. k * x < k * (y + 1)
  BY <1>3
<1>5. x < y + 1
  BY <1>4
<1> QED BY <1>1, <1>2, <1>5

LEMMA ScaledMonotone ==
  ASSUME NEW old \in Nat \ {0}, NEW new \in Nat, NEW negative \in {"quotient", "zero"},
         NEW x \in Int, NEW y \in Int, x <= y
  PROVE  /\ Scaled(x, old, new, negative) \in Int
         /\ Scaled(y, old, new, negative) \in Int
         /\ Scaled(x, old, new, negative) <= Scaled(y, old, new, negative)
<1>1. ASSUME NEW z \in Nat PROVE (z * new) \div old \in Nat
  <2>1. z * new \in Nat
    OBVIOUS
  <2> QED BY <2>1, Quotient
<1>2. ASSUME NEW z \in Nat, NEW u \in Nat, z <= u PROVE (z * new) \div old <= (u * new) \div old
  <2>1. z * new \in Nat /\ u * new \in Nat /\ z * new <= u * new
    BY <1>2, TimesMonotone
  <2> QED BY <2>1, QuotientMonotone
<1>3. CASE x >= 0
  BY <1>1, <1>2, <1>3 DEF Scaled
<1>4. CASE ~(x >= 0) /\ y >= 0
  <2>1. (-x * new) \div old \in Nat
    BY <1>1, <1>4
  <2>2. (y * new) \div old \in Nat
    BY <1>1, <1>4
  <2> QED BY <1>4, <2>1, <2>2 DEF Scaled
<1>5. CASE ~(y >= 0)
  <2>1. (-x * new) \div old \in Nat /\ (-y * new) \div old \in Nat
    BY <1>1, <1>5
  <2>2. (-y * new) \div old <= (-x * new) \div old
    BY <1>2, <1>5
  <2>3. ~(x >= 0)
    BY <1>5
  <2> QED BY <1>5, <2>1, <2>2, <2>3 DEF Scaled
<1> QED BY <1>3, <1>4, <1>5

LEMMA AdjustKeeps ==
  ASSUME NEW q, Heap(q), NEW old \in Nat \ {0}, NEW new \in Nat,
         NEW negative \in {"quotient", "zero"}, pause_offset \in Nat
  PROVE  LET adjusted == AdjustCallbacks(q, old, new, negative)
         IN Heap(adjusted) /\ Cbs(adjusted) = Cbs(q)
<1> DEFINE adjusted == AdjustCallbacks(q, old, new, negative)
           at(i) == Scaled(q[i].due - pause_offset, old, new, negative)
<1>1. Len(q) \in Nat /\ DOMAIN q = 1..Len(q) /\ DOMAIN adjusted = DOMAIN q
  BY HeapFacts DEF AdjustCallbacks
<1>2. \A i, j \in DOMAIN q : q[i].due <= q[j].due => at(i) \in Int /\ at(j) \in Int /\ at(i) <= at(j)
  <2> TAKE i, j \in DOMAIN q
  <2> HAVE q[i].due <= q[j].due
  <2>1. q[i].due \in Int /\ q[j].due \in Int
    BY HeapFacts
  <2>2. /\ q[i].due - pause_offset \in Int /\ q[j].due - pause_offset \in Int
        /\ q[i].due - pause_offset <= q[j].due - pause_offset
    BY <2>1
  <2> QED BY <2>2, ScaledMonotone
<1>3. \A i \in DOMAIN q : at(i) \in Int
  BY <1>2, HeapFacts
<1> HIDE DEF at
<1>4. ASSUME NEW i \in DOMAIN q
      PROVE  /\ adjusted[i] \in Callbacks /\ adjusted[i].cb = q[i].cb
             /\ adjusted[i].due = pause_offset + at(i)
  <2>1. adjusted[i] = [q[i] EXCEPT !.due = pause_offset + at(i)]
    BY DEF AdjustCallbacks, at
  <2>2. q[i] \in Callbacks /\ at(i) \in Int
    BY <1>3, HeapFacts
  <2> HIDE DEF adjusted
  <2> QED BY <2>1, <2>2 DEF Callbacks
<1>5. adjusted \in Seq(Callbacks)
  <2>1. adjusted = [i \in DOMAIN q |-> adjusted[i]]
    BY DEF AdjustCallbacks
  <2> HIDE DEF adjusted
  <2>2. adjusted \in [1..Len(q) -> Callbacks]
    BY <1>1, <1>4, <2>1
  <2> QED BY <1>1, <2>2, SeqDef
<1> HIDE DEF adjusted
<1>6. \A i, j \in DOMAIN q : q[i].due <= q[j].due => adjusted[i].due <= adjusted[j].due
  BY <1>2, <1>3, <1>4
<1> QED BY <1>1, <1>4, <1>5, <1>6, Retimed DEF adjusted

-----------------------------------------------------------------------------
(***************************************************************************)
(* The songs and their callbacks.                                          *)
(***************************************************************************)

(* The callback that the audio thread is about to invoke.                  *)
Live == IF audio = "call" /\ ~popped.stale THEN {popped.cb} ELSE {}

(* The callbacks there are to be, in the heap or live.                     *)
Driving == IF song = <<>>
           THEN IF control.pc = "delay" THEN {DelayCallback} ELSE {}
           ELSE {t \in Tracks : Started(t) /\ ~Ended(t)}
                  \cup (IF song_looping /\ running_tracks = 0 THEN {RestartSong} ELSE {})

OplTypes ==
  /\ opl_sdl_paused \in BOOLEAN /\ pause_offset \in 0..MaxPause
  /\ audio \in {"mix", "advance", "call", "called", "late"}
  /\ filled \in 0..(Slice - 1) /\ nsamples \in 0..Slice
  /\ popped \in [cb : Int, stale : BOOLEAN]
  /\ control \in [pc : {"delay", "idle", "start", "schedule"}, track : Nat, us : Int]
  /\ song \in Songs \cup {<<>>} /\ song_looping \in BOOLEAN
  /\ running_tracks \in Nat /\ us_per_beat \in Nat

SongPlays ==
  /\ event \in [Tracks -> Nat]
  /\ \A t \in Tracks : event[t] \in 1..(Len(song[t]) + 1)
  /\ \A t \in Tracks : ~Started(t) => event[t] = 1
  /\ running_tracks = Cardinality({t \in Tracks : ~Ended(t)})
  /\ us_per_beat \in Nat \ {0}
  /\ control.pc # "delay"
  /\ control.pc \in {"start", "schedule"} => control.track \in Tracks

OplInv ==
  /\ OplTypes
  /\ Heap(callback_queue)
  /\ Cbs(callback_queue) \cup Live = Driving
  /\ Cbs(callback_queue) \cap Live = {}
  /\ song # <<>> => SongPlays
  /\ song = <<>> => control.pc \in {"delay", "idle"}

LEMMA SongFacts ==
  ASSUME NEW s \in Songs
  PROVE  /\ s # <<>> /\ Len(s) \in Nat \ {0} /\ DOMAIN s = 1..Len(s) /\ Len(s) <= MAX_OPL_QUEUE
         /\ IsFiniteSet(DOMAIN s) /\ Cardinality(DOMAIN s) = Len(s)
         /\ \A t \in DOMAIN s :
              /\ Len(s[t]) \in Nat \ {0}
              /\ \A i \in 1..Len(s[t]) : /\ s[t][i].delta \in Nat /\ s[t][i].tempo \in Nat
                                         /\ s[t][i].end <=> i = Len(s[t])
<1>1. s \in Seq(Seq(Events)) /\ Len(s) \in 1..MAX_OPL_QUEUE
  BY SongsAssumption
<1>2. s # <<>> /\ Len(s) \in Nat \ {0} /\ DOMAIN s = 1..Len(s) /\ Len(s) <= MAX_OPL_QUEUE
  BY <1>1, QueueAssumption
<1>3. IsFiniteSet(DOMAIN s) /\ Cardinality(DOMAIN s) = Len(s)
  BY <1>2, CountUpTo
<1>4. ASSUME NEW t \in DOMAIN s
      PROVE  /\ Len(s[t]) \in Nat \ {0}
             /\ \A i \in 1..Len(s[t]) : /\ s[t][i].delta \in Nat /\ s[t][i].tempo \in Nat
                                        /\ s[t][i].end <=> i = Len(s[t])
  <2>1. s[t] \in Seq(Events) /\ s[t] # <<>>
    BY <1>1, SongsAssumption
  <2>2. Len(s[t]) \in Nat \ {0} /\ DOMAIN s[t] = 1..Len(s[t])
    BY <2>1
  <2>3. \A i \in 1..Len(s[t]) : s[t][i] \in Events
    BY <2>1
  <2>4. \A i \in DOMAIN s[t] : s[t][i].end <=> i = Len(s[t])
    BY SongsAssumption
  <2> QED BY <2>2, <2>3, <2>4 DEF Events
<1> QED BY <1>2, <1>3, <1>4

(* A heap whose callbacks are among the tracks but one has a place left.   *)
LEMMA Room ==
  ASSUME NEW q, Heap(q), NEW s \in Songs, NEW t \in DOMAIN s, Cbs(q) \subseteq (DOMAIN s) \ {t}
  PROVE  Len(q) < MAX_OPL_QUEUE
<1> DEFINE S     == (DOMAIN s) \ {t}
           place == [i \in DOMAIN q |-> q[i].cb]
<1>1. Len(q) \in Nat /\ DOMAIN q = 1..Len(q) /\ Cardinality(DOMAIN q) = Len(q)
  BY HeapFacts, CountUpTo
<1>2. Len(s) \in Nat /\ Len(s) <= MAX_OPL_QUEUE /\ IsFiniteSet(S) /\ Cardinality(S) = Len(s) - 1
  BY SongFacts, FS_RemoveElement
<1>3. place \in Injection(DOMAIN q, S)
  BY DEF Cbs, Heap, Injection, IsInjective
<1> HIDE DEF place, S
<1>4. Cardinality(DOMAIN q) <= Cardinality(S)
  BY <1>2, <1>3, FS_Injection
<1> QED BY <1>1, <1>2, <1>4, QueueAssumption

(* How often a callback is in the heap.                                    *)
LEMMA Counted ==
  ASSUME NEW q, Heap(q), NEW cb
  PROVE  Cardinality({i \in DOMAIN q : q[i].cb = cb}) = IF cb \in Cbs(q) THEN 1 ELSE 0
<1> DEFINE S == {i \in DOMAIN q : q[i].cb = cb}
<1>1. CASE cb \in Cbs(q)
  <2>1. PICK i \in DOMAIN q : q[i].cb = cb
    BY <1>1 DEF Cbs
  <2>2. S = {i}
    BY <2>1 DEF Heap
  <2> QED BY <1>1, <2>2, FS_Singleton
<1>2. CASE cb \notin Cbs(q)
  <2>1. S = {}
    BY <1>2 DEF Cbs
  <2> QED BY <1>2, <2>1, FS_EmptySet
<1> QED BY <1>1, <1>2

(* The loop of RestartSong, from an empty heap.                            *)
IsRestarted(after, q) ==
  after = [t \in 0..Len(song) |->
             IF t = 0 THEN q ELSE Push(after[t - 1], t, song[t][1].delta * us_per_beat)]

LEMMA RestartedExists ==
  ASSUME song \in Songs, us_per_beat \in Nat, NEW q, Heap(q), Cbs(q) = {}
  PROVE  \E after : /\ IsRestarted(after, q)
                    /\ \A t \in 0..Len(song) : Heap(after[t]) /\ Cbs(after[t]) = 1..t
<1> DEFINE n       == Len(song)
           us(t)   == song[t][1].delta * us_per_beat
           Fine(v, t) == Heap(v) /\ Cbs(v) = 1..t
           pred    == [t \in 1..n |-> t - 1]
           step    == [t \in 1..n |->
                         [v \in Seq(Callbacks) |-> IF Fine(v, t - 1) THEN Push(v, t, us(t)) ELSE q]]
<1>1. n \in Nat \ {0} /\ DOMAIN song = 1..n /\ n <= MAX_OPL_QUEUE
      /\ \A t \in 1..n : us(t) \in Int
  <2>1. n \in Nat \ {0} /\ DOMAIN song = 1..n /\ n <= MAX_OPL_QUEUE
    BY SongFacts
  <2>2. ASSUME NEW t \in 1..n PROVE us(t) \in Int
    <3>1. song[t][1].delta \in Nat
      BY <2>1, SongFacts
    <3> QED BY <3>1
  <2> QED BY <2>1, <2>2
<1> HIDE DEF us
<1>2. ASSUME NEW t \in 1..n, NEW v, Fine(v, t - 1) PROVE Fine(Push(v, t, us(t)), t)
  <2>1. Cbs(v) \subseteq (DOMAIN song) \ {t} /\ t \in DOMAIN song /\ t \notin Cbs(v)
    BY <1>1, <1>2
  <2>2. Len(v) < MAX_OPL_QUEUE
    BY <1>2, <2>1, Room
  <2>3. Heap(Push(v, t, us(t))) /\ Cbs(Push(v, t, us(t))) = Cbs(v) \cup {t}
    BY <1>1, <1>2, <2>1, <2>2, PushKeeps
  <2> QED BY <1>2, <2>3
<1>3. q \in Seq(Callbacks)
  BY DEF Heap
<1>4. \A t \in 1..n : pred[t] \in 0..(t - 1) /\ \A v \in Seq(Callbacks) : step[t][v] \in Seq(Callbacks)
  <2> TAKE t \in 1..n
  <2>1. pred[t] \in 0..(t - 1)
    OBVIOUS
  <2>2. ASSUME NEW v \in Seq(Callbacks) PROVE step[t][v] \in Seq(Callbacks)
    <3>1. step[t][v] = IF Fine(v, t - 1) THEN Push(v, t, us(t)) ELSE q
      BY <2>2
    <3>2. Fine(v, t - 1) => Push(v, t, us(t)) \in Seq(Callbacks)
      BY <1>2 DEF Heap
    <3> HIDE DEF Fine, step
    <3> QED BY <1>3, <3>1, <3>2
  <2> QED BY <2>1, <2>2
<1>5. PICK f \in [0..n -> Seq(Callbacks)] : IsRecursive(f, n, q, pred, step)
  <2> HIDE DEF pred, step, n
  <2> QED BY <1>1, <1>3, <1>4, Recursion
<1>6. f[0] = q
  BY <1>5 DEF IsRecursive
<1>7. ASSUME NEW t \in 1..n
      PROVE  f[t] = IF Fine(f[t - 1], t - 1) THEN Push(f[t - 1], t, us(t)) ELSE q
  <2>1. f[t] = step[t][f[pred[t]]]
    <3> HIDE DEF pred, step
    <3> QED BY <1>5 DEF IsRecursive
  <2>2. pred[t] = t - 1 /\ t - 1 \in 0..n /\ f[t - 1] \in Seq(Callbacks)
    BY <1>1
  <2> HIDE DEF Fine
  <2> QED BY <2>1, <2>2
<1> DEFINE Good == {t \in 0..n : Fine(f[t], t)}
<1>8. 0 \in Good
  BY <1>6
<1>9. \A t \in 1..n : t - 1 \in Good => t \in Good
  <2> TAKE t \in 1..n
  <2> HAVE t - 1 \in Good
  <2>1. Fine(f[t], t)
    <3> HIDE DEF Fine
    <3> QED BY <1>2, <1>7
  <2> QED BY <2>1
<1>10. \A t \in 0..n : t \in Good
  <2> HIDE DEF Good, n
  <2> QED BY <1>1, <1>8, <1>9, UpTo
<1>11. \A t \in 0..n : Fine(f[t], t)
  BY <1>10
<1>12. \A t \in 0..n : f[t] = IF t = 0 THEN q ELSE Push(f[t - 1], t, us(t))
  <2> TAKE t \in 0..n
  <2>1. CASE t = 0
    BY <1>6, <2>1
  <2>2. CASE t # 0
    <3>1. t \in 1..n /\ Fine(f[t - 1], t - 1)
      BY <1>11, <2>2
    <3> HIDE DEF Fine
    <3> QED BY <1>7, <2>2, <3>1
  <2> QED BY <2>1, <2>2
<1>13. IsRestarted(f, q)
  <2>1. f = [t \in 0..n |-> f[t]]
    OBVIOUS
  <2>2. f = [t \in 0..n |-> IF t = 0 THEN q ELSE Push(f[t - 1], t, us(t))]
    <3> HIDE DEF pred, step
    <3> QED BY <1>12, <2>1
  <2> QED BY <2>2 DEF IsRestarted, us
<1> QED BY <1>11, <1>13

LEMMA RestartedKeeps ==
  ASSUME song \in Songs, us_per_beat \in Nat, NEW q, Heap(q), Cbs(q) = {}
  PROVE  Heap(Restarted(q)) /\ Cbs(Restarted(q)) = Tracks
<1> DEFINE after == CHOOSE x : IsRestarted(x, q)
<1>1. Restarted(q) = after[Len(song)]
  BY DEF Restarted, IsRestarted
<1>2. \E x : IsRestarted(x, q)
  BY RestartedExists
<1>3. IsRestarted(after, q)
  BY <1>2
<1> HIDE DEF after
<1> DEFINE Fine(t) == Heap(after[t]) /\ Cbs(after[t]) = 1..t
           Good    == {t \in 0..Len(song) : Fine(t)}
<1>4. Len(song) \in Nat /\ DOMAIN song = 1..Len(song)
  BY SongFacts
<1>5. Fine(Len(song))
  <2>1. PICK f : /\ IsRestarted(f, q)
                 /\ \A t \in 0..Len(song) : Heap(f[t]) /\ Cbs(f[t]) = 1..t
    BY RestartedExists
  <2>2. /\ \A t \in 0..Len(song) :
             f[t] = IF t = 0 THEN q ELSE Push(f[t - 1], t, song[t][1].delta * us_per_beat)
        /\ \A t \in 0..Len(song) :
             after[t] = IF t = 0 THEN q ELSE Push(after[t - 1], t, song[t][1].delta * us_per_beat)
    BY <1>3, <2>1 DEF IsRestarted
  <2> DEFINE Same == {t \in 0..Len(song) : after[t] = f[t]}
  <2>3. 0 \in Same
    BY <1>4, <2>2
  <2>4. \A t \in 1..Len(song) : t - 1 \in Same => t \in Same
    BY <1>4, <2>2
  <2>5. \A t \in 0..Len(song) : t \in Same
    <3> HIDE DEF Same
    <3> QED BY <1>4, <2>3, <2>4, UpTo
  <2> QED BY <1>4, <2>1, <2>5
<1> QED BY <1>1, <1>4, <1>5 DEF Tracks

(* AdvanceTime's loop takes the first callback, or leaves the heap.        *)
LEMMA NextKeeps ==
  ASSUME NEW q, Heap(q), NextCallback(q)
  PROVE  /\ Heap(callback_queue')
         /\ \/ /\ audio' = "call"
               /\ \E cb \in Int : /\ popped' = [cb |-> cb, stale |-> FALSE]
                                  /\ Cbs(q) = {cb} \cup Cbs(callback_queue')
                                  /\ cb \notin Cbs(callback_queue')
            \/ audio' = "mix" /\ popped' = popped /\ callback_queue' = q
<1>1. CASE q # <<>> /\ q[1].due <= 0
  <2>1. audio' = "call" /\ popped' = [cb |-> q[1].cb, stale |-> FALSE] /\ callback_queue' = Pop(q)
    BY <1>1 DEF NextCallback
  <2>2. q[1].cb \in Int
    BY <1>1, HeapFacts
  <2> QED BY <1>1, <2>1, <2>2, PopKeeps
<1>2. CASE ~(q # <<>> /\ q[1].due <= 0)
  <2>1. audio' = "mix" /\ popped' = popped /\ callback_queue' = q
    BY <1>2 DEF NextCallback
  <2> QED BY <2>1
<1> QED BY <1>1, <1>2

-----------------------------------------------------------------------------
(***************************************************************************)
(* The steps.                                                              *)
(***************************************************************************)
LEMMA OplStarts == OplInit => OplInv
<1> SUFFICES ASSUME OplInit PROVE OplInv
  OBVIOUS
<1> USE DEF OplInit
<1>1. OplTypes
  <2>1. filled \in 0..(Slice - 1) /\ nsamples \in 0..Slice /\ pause_offset \in 0..MaxPause
    BY QueueAssumption, SliceAssumption
  <2>2. popped \in [cb : Int, stale : BOOLEAN]
    BY DEF DelayCallback
  <2>3. control \in [pc : {"delay", "idle", "start", "schedule"}, track : Nat, us : Int]
    OBVIOUS
  <2> QED BY <2>1, <2>2, <2>3 DEF OplTypes
<1>2. /\ callback_queue \in Seq(Callbacks) /\ Len(callback_queue) = 1
      /\ DOMAIN callback_queue = {1} /\ callback_queue[1].cb = DelayCallback
  BY RestartAssumption DEF Callbacks, DelayCallback
<1>3. Heap(callback_queue)
  BY <1>2, QueueAssumption DEF Heap
<1>4. Cbs(callback_queue) = {DelayCallback}
  BY <1>2 DEF Cbs
<1>5. Live = {} /\ Driving = {DelayCallback}
  BY DEF Live, Driving
<1> QED BY <1>1, <1>3, <1>4, <1>5 DEF OplInv

(* What the song and the control thread decide stays as they stay.         *)
LEMMA SameSong ==
  ASSUME OplInv, UNCHANGED <<control, playing>>
  PROVE  /\ Driving' = Driving
         /\ (song # <<>> => SongPlays)'
         /\ (song = <<>> => control.pc \in {"delay", "idle"})'
         /\ (control \in [pc : {"delay", "idle", "start", "schedule"}, track : Nat, us : Int])'
         /\ (song \in Songs \cup {<<>>} /\ song_looping \in BOOLEAN)'
         /\ (running_tracks \in Nat /\ us_per_beat \in Nat)'
<1>1. /\ control' = control /\ song' = song /\ song_looping' = song_looping /\ event' = event
      /\ running_tracks' = running_tracks /\ us_per_beat' = us_per_beat
  BY DEF playing
<1>2. Driving' = Driving
  BY <1>1 DEF Driving, Tracks, Started, Ended
<1>3. SongPlays' <=> SongPlays
  BY <1>1 DEF SongPlays, Tracks, Started, Ended
<1> QED BY <1>1, <1>2, <1>3 DEF OplInv, OplTypes

LEMMA SameLive ==
  ASSUME UNCHANGED <<audio, popped>>
  PROVE  Live' = Live
BY DEF Live

(* The audio thread goes on with a heap of the same callbacks.             *)
LEMMA NextLives ==
  ASSUME OplInv, Live = {}, NEW q, Heap(q), Cbs(q) = Cbs(callback_queue), NextCallback(q),
         UNCHANGED <<control, playing>>
  PROVE  /\ Heap(callback_queue')
         /\ Cbs(callback_queue') \cup Live' = Driving'
         /\ Cbs(callback_queue') \cap Live' = {}
         /\ audio' \in {"mix", "call"} /\ popped' \in [cb : Int, stale : BOOLEAN]
<1>1. Driving' = Cbs(q)
  BY SameSong DEF OplInv
<1>2. CASE /\ audio' = "call"
           /\ \E cb \in Int : /\ popped' = [cb |-> cb, stale |-> FALSE]
                              /\ Cbs(q) = {cb} \cup Cbs(callback_queue')
                              /\ cb \notin Cbs(callback_queue')
  <2>1. PICK cb \in Int : /\ popped' = [cb |-> cb, stale |-> FALSE]
                          /\ Cbs(q) = {cb} \cup Cbs(callback_queue')
                          /\ cb \notin Cbs(callback_queue')
    BY <1>2
  <2>2. Live' = {cb}
    BY <1>2, <2>1 DEF Live
  <2> QED BY <1>1, <1>2, <2>1, <2>2, NextKeeps
<1>3. CASE audio' = "mix" /\ popped' = popped /\ callback_queue' = q
  <2>1. Live' = {}
    BY <1>3 DEF Live
  <2> QED BY <1>1, <1>3, <2>1 DEF OplInv, OplTypes
<1> QED BY <1>2, <1>3, NextKeeps

LEMMA MixKeeps == ASSUME OplInv, Mix PROVE OplInv'
<1>1. /\ audio = "mix" /\ audio' = "advance" /\ callback_queue' = callback_queue
      /\ UNCHANGED <<control, playing>> /\ UNCHANGED <<chip, filled, popped>>
  BY DEF Mix
<1>2. Live = {} /\ Live' = {}
  BY <1>1 DEF Live
<1>3. nsamples' \in 0..Slice
  <2>1. Slice \in Nat /\ filled \in 0..(Slice - 1) /\ Slice - filled \in 0..Slice
    BY SliceAssumption DEF OplInv, OplTypes
  <2>2. callback_queue # <<>> => callback_queue[1].due \in Int
    BY HeapFacts DEF OplInv
  <2> QED BY <2>1, <2>2 DEF Mix, Least
<1>4. OplTypes'
  BY <1>1, <1>3, SameSong DEF OplInv, OplTypes, chip
<1> QED BY <1>1, <1>2, <1>4, SameSong DEF OplInv

LEMMA AdvanceKeeps == ASSUME OplInv, AdvanceTime PROVE OplInv'
<1> DEFINE shifted == [i \in DOMAIN callback_queue |->
                         [callback_queue[i] EXCEPT !.due = @ - nsamples]]
           q       == IF opl_sdl_paused THEN callback_queue ELSE shifted
<1>1. /\ audio = "advance" /\ NextCallback(q) /\ filled' = (filled + nsamples) % Slice
      /\ UNCHANGED <<control, playing>> /\ UNCHANGED <<opl_sdl_paused, nsamples>>
  BY DEF AdvanceTime
<1>2. /\ nsamples \in 0..Slice /\ filled \in 0..(Slice - 1) /\ Slice \in Nat \ {0}
      /\ pause_offset \in 0..MaxPause /\ MaxPause \in Nat
  BY SliceAssumption, QueueAssumption DEF OplInv, OplTypes
<1>3. Heap(q) /\ Cbs(q) = Cbs(callback_queue)
  BY <1>2, ShiftKeeps DEF OplInv
<1>4. Live = {}
  BY <1>1 DEF Live
<1> HIDE DEF q
<1>5. /\ Heap(callback_queue')
      /\ Cbs(callback_queue') \cup Live' = Driving'
      /\ Cbs(callback_queue') \cap Live' = {}
      /\ audio' \in {"mix", "call"} /\ popped' \in [cb : Int, stale : BOOLEAN]
  BY <1>1, <1>3, <1>4, NextLives
<1>6. filled' \in 0..(Slice - 1)
  BY <1>1, <1>2
<1>7. pause_offset' \in 0..MaxPause
  <2>1. pause_offset' = pause_offset \/ pause_offset' = Least(pause_offset + nsamples, MaxPause)
    BY DEF AdvanceTime
  <2> QED BY <1>2, <2>1 DEF Least
<1>8. OplTypes'
  BY <1>1, <1>5, <1>6, <1>7, SameSong DEF OplInv, OplTypes
<1> QED BY <1>1, <1>5, <1>8, SameSong DEF OplInv

LEMMA CalledKeeps == ASSUME OplInv, Called PROVE OplInv'
<1>1. /\ audio = "called" /\ NextCallback(callback_queue)
      /\ UNCHANGED <<control, playing>> /\ UNCHANGED <<chip, filled, nsamples>>
  BY DEF Called
<1>2. Live = {} /\ Heap(callback_queue)
  BY <1>1 DEF Live, OplInv
<1>3. /\ Heap(callback_queue')
      /\ Cbs(callback_queue') \cup Live' = Driving'
      /\ Cbs(callback_queue') \cap Live' = {}
      /\ audio' \in {"mix", "call"} /\ popped' \in [cb : Int, stale : BOOLEAN]
  BY <1>1, <1>2, NextLives
<1>4. OplTypes'
  BY <1>1, <1>3, SameSong DEF OplInv, OplTypes, chip
<1> QED BY <1>1, <1>3, <1>4, SameSong DEF OplInv

(* I_OPL_PauseSong and I_OPL_ResumeSong.                                   *)
LEMMA PausesKeep == ASSUME OplInv, PauseSong \/ ResumeSong PROVE OplInv'
<1>1. /\ opl_sdl_paused' \in BOOLEAN /\ pause_offset' = pause_offset
      /\ callback_queue' = callback_queue
      /\ UNCHANGED <<control, playing>> /\ UNCHANGED mixer /\ UNCHANGED <<audio, popped>>
  BY DEF PauseSong, ResumeSong, mixer
<1>2. Live' = Live
  BY <1>1, SameLive
<1>3. OplTypes'
  BY <1>1, SameSong DEF OplInv, OplTypes, mixer
<1> QED BY <1>1, <1>2, <1>3, SameSong DEF OplInv

LEMMA StopKeeps == ASSUME OplInv, StopSong PROVE OplInv'
<1>1. /\ control = Idle /\ song' = <<>> /\ callback_queue' = <<>>
      /\ popped' = [popped EXCEPT !.stale = (audio = "call")]
      /\ UNCHANGED <<chip, audio, filled, nsamples, control,
                     song_looping, event, running_tracks, us_per_beat>>
  BY DEF StopSong, Cleared, Controls
<1>2. Driving' = {} /\ control.pc = "idle"
  BY <1>1 DEF Driving, Idle
<1>3. Live' = {}
  <2>1. popped \in [cb : Int, stale : BOOLEAN]
    BY DEF OplInv, OplTypes
  <2>2. popped'.stale = (audio = "call")
    BY <1>1, <2>1
  <2> QED BY <1>1, <2>2 DEF Live
<1>4. Heap(callback_queue') /\ Cbs(callback_queue') = {}
  BY <1>1, QueueAssumption DEF Heap, Cbs
<1>5. OplTypes'
  <2>1. popped' \in [cb : Int, stale : BOOLEAN]
    BY <1>1 DEF OplInv, OplTypes
  <2> QED BY <1>1, <2>1 DEF OplInv, OplTypes, chip
<1> QED BY <1>1, <1>2, <1>3, <1>4, <1>5 DEF OplInv

LEMMA PlayKeeps ==
  ASSUME OplInv, NEW s \in Songs, NEW looping \in BOOLEAN, PlaySong(s, looping)
  PROVE  OplInv'
<1>1. /\ control = Idle /\ song = <<>> /\ song' = s /\ song_looping' = looping
      /\ event' = [t \in DOMAIN s |-> 1] /\ running_tracks' = Len(s)
      /\ us_per_beat' = FirstTempo
      /\ control' = [pc |-> "start", track |-> 1, us |-> 0]
      /\ callback_queue' = callback_queue /\ UNCHANGED chip /\ UNCHANGED mixer
      /\ UNCHANGED <<audio, popped>>
  BY DEF PlaySong, Controls, mixer
<1>2. /\ s # <<>> /\ Len(s) \in Nat \ {0} /\ DOMAIN s = 1..Len(s)
      /\ Cardinality(DOMAIN s) = Len(s)
      /\ \A t \in DOMAIN s : Len(s[t]) \in Nat \ {0}
  BY SongFacts
<1>3. Driving = {}
  BY <1>1 DEF Driving, Idle
<1>4. Live' = Live
  BY <1>1, SameLive
<1>5. \A t \in DOMAIN s : ~Started(t)' /\ ~Ended(t)'
  <2>1. \A t \in DOMAIN s : Started(t)' => t < 1
    BY <1>1 DEF Started
  <2>2. \A t \in DOMAIN s : Ended(t)' => 1 > Len(s[t])
    BY <1>1 DEF Ended
  <2> QED BY <1>2, <2>1, <2>2
<1>6. Driving' = {}
  BY <1>1, <1>2, <1>5 DEF Driving, Tracks
<1>7. SongPlays'
  <2>1. {t \in DOMAIN s : ~Ended(t)'} = DOMAIN s
    BY <1>5
  <2>2. \A t \in DOMAIN s : 1 \in 1..(Len(s[t]) + 1)
    BY <1>2
  <2>3. Tracks' = DOMAIN s
    BY <1>1 DEF Tracks
  <2>4. (running_tracks = Cardinality({t \in Tracks : ~Ended(t)}))'
    BY <1>1, <1>2, <2>1, <2>3
  <2> QED BY <1>1, <1>2, <2>2, <2>3, <2>4, RestartAssumption DEF SongPlays
<1>8. OplTypes'
  BY <1>1, <1>2, RestartAssumption DEF OplInv, OplTypes, chip, mixer
<1> QED BY <1>1, <1>2, <1>3, <1>4, <1>6, <1>7, <1>8 DEF OplInv

LEMMA StartKeepsSong == ASSUME OplInv, StartTrack PROVE OplInv'
<1>1. /\ control.pc = "start"
      /\ control' = [pc |-> "schedule", track |-> control.track,
                     us |-> song[control.track][1].delta * us_per_beat]
      /\ callback_queue' = callback_queue /\ UNCHANGED chip /\ UNCHANGED mixer
      /\ UNCHANGED playing /\ UNCHANGED <<audio, popped>>
  BY DEF StartTrack, mixer
<1>2. song # <<>> /\ song \in Songs /\ SongPlays /\ control.track \in Tracks
  BY <1>1 DEF OplInv, OplTypes, SongPlays
<1>3. song' = song /\ event' = event /\ song_looping' = song_looping
      /\ running_tracks' = running_tracks /\ us_per_beat' = us_per_beat
  BY <1>1 DEF playing
<1>4. control.track \in Nat /\ us_per_beat \in Nat
  BY DEF OplInv, OplTypes
<1>5. song[control.track][1].delta * us_per_beat \in Int
  <2>1. song[control.track][1].delta \in Nat
    BY <1>2, SongFacts DEF Tracks
  <2> QED BY <1>4, <2>1
<1>6. Driving' = Driving /\ SongPlays'
  <2>1. \A t : Started(t)' <=> Started(t)
    BY <1>1 DEF Started
  <2>2. Tracks' = Tracks /\ \A t : Ended(t)' <=> Ended(t)
    BY <1>3 DEF Ended, Tracks
  <2>3. {t \in Tracks : ~Ended(t)}' = {t \in Tracks : ~Ended(t)}
    BY <2>2
  <2>4. {t \in Tracks : Started(t) /\ ~Ended(t)}' = {t \in Tracks : Started(t) /\ ~Ended(t)}
    BY <2>1, <2>2
  <2>5. SongPlays'
    BY <1>1, <1>2, <1>3, <2>1, <2>2, <2>3 DEF SongPlays
  <2> QED BY <1>2, <1>3, <2>4, <2>5 DEF Driving
<1>7. Live' = Live
  BY <1>1, SameLive
<1>8. OplTypes'
  BY <1>1, <1>3, <1>4, <1>5 DEF OplInv, OplTypes, chip, mixer
<1> QED BY <1>1, <1>2, <1>3, <1>6, <1>7, <1>8 DEF OplInv

(* Scheduling the next track, while callbacks already run.                 *)
LEMMA ScheduleKeeps == ASSUME OplInv, Schedule PROVE OplInv'
<1> DEFINE t == control.track
<1>1. /\ control.pc = "schedule"
      /\ callback_queue' = Push(callback_queue, t, control.us)
      /\ control' = IF t = Len(song) THEN Idle ELSE [pc |-> "start", track |-> t + 1, us |-> 0]
      /\ UNCHANGED chip /\ UNCHANGED mixer /\ UNCHANGED playing /\ UNCHANGED <<audio, popped>>
  BY DEF Schedule, mixer
<1>2. song # <<>> /\ song \in Songs /\ SongPlays /\ t \in Tracks
  BY <1>1 DEF OplInv, OplTypes, SongPlays
<1>3. song' = song /\ event' = event /\ song_looping' = song_looping
      /\ running_tracks' = running_tracks /\ us_per_beat' = us_per_beat
  BY <1>1 DEF playing
<1>4. /\ control.us \in Int /\ Tracks = 1..Len(song) /\ Len(song) \in Nat \ {0}
      /\ t \in 1..Len(song) /\ IsFiniteSet(Tracks)
  BY <1>2, SongFacts DEF OplInv, OplTypes, Tracks
<1>5. \A u \in Tracks : Started(u) <=> u < t
  BY <1>1 DEF Started
<1>6. event[t] = 1 /\ ~Ended(t)
  <2>1. event[t] = 1
    BY <1>2, <1>4, <1>5 DEF SongPlays
  <2>2. Len(song[t]) \in Nat \ {0}
    BY <1>2, SongFacts DEF Tracks
  <2> QED BY <2>1, <2>2 DEF Ended
<1>7. running_tracks # 0
  <2> DEFINE S == {u \in Tracks : ~Ended(u)}
  <2>1. IsFiniteSet(S) /\ S # {}
    BY <1>2, <1>4, <1>6, FS_Subset
  <2> QED BY <1>2, <2>1, FS_EmptySet DEF SongPlays
<1>8. Driving = {u \in Tracks : u < t /\ ~Ended(u)}
  BY <1>2, <1>5, <1>7 DEF Driving
<1>9. Cbs(callback_queue) \subseteq (DOMAIN song) \ {t} /\ t \notin Live
  BY <1>4, <1>8 DEF OplInv, Tracks
<1>10. Heap(callback_queue') /\ Cbs(callback_queue') = Cbs(callback_queue) \cup {t}
  <2>1. Len(callback_queue) < MAX_OPL_QUEUE
    BY <1>2, <1>9, Room DEF OplInv, Tracks
  <2>2. t \in Int /\ t \notin Cbs(callback_queue)
    BY <1>4, <1>9
  <2> HIDE DEF t
  <2> QED BY <1>1, <1>4, <2>1, <2>2, PushKeeps DEF OplInv
<1>11. \A u \in Tracks : Started(u)' <=> u <= t
  <2>1. CASE t = Len(song)
    BY <1>1, <1>4, <2>1 DEF Started, Idle
  <2>2. CASE t # Len(song)
    BY <1>1, <1>4, <2>2 DEF Started
  <2> QED BY <2>1, <2>2
<1>12. Tracks' = Tracks /\ \A u : Ended(u)' <=> Ended(u)
  BY <1>3 DEF Tracks, Ended
<1>13. Driving' = Driving \cup {t}
  <2>1. Driving' = {u \in Tracks : u <= t /\ ~Ended(u)}
    BY <1>2, <1>3, <1>7, <1>11, <1>12 DEF Driving
  <2>2. \A u \in Tracks : u <= t <=> u < t \/ u = t
    BY <1>4
  <2> HIDE DEF t
  <2> QED BY <1>2, <1>6, <1>8, <2>1, <2>2
<1>14. Live' = Live
  BY <1>1, SameLive
<1>15. /\ control' \in [pc : {"delay", "idle", "start", "schedule"}, track : Nat, us : Int]
       /\ (control.pc # "delay")'
       /\ (control.pc \in {"start", "schedule"} => control.track \in Tracks)'
  <2>1. CASE t = Len(song)
    BY <1>1, <2>1 DEF Idle
  <2>2. CASE t # Len(song)
    <3>1. t + 1 \in Nat /\ t + 1 \in Tracks
      BY <1>4, <2>2
    <3> HIDE DEF t
    <3> QED BY <1>1, <1>12, <2>2, <3>1
  <2> QED BY <2>1, <2>2
<1>16. SongPlays'
  <2>1. \A u \in Tracks : ~Started(u)' => ~Started(u)
    BY <1>4, <1>5, <1>11
  <2>2. {u \in Tracks : ~Ended(u)}' = {u \in Tracks : ~Ended(u)}
    BY <1>12
  <2> QED BY <1>2, <1>3, <1>12, <1>15, <2>1, <2>2 DEF SongPlays
<1>17. OplTypes'
  BY <1>1, <1>3, <1>15 DEF OplInv, OplTypes, chip, mixer
<1>18. (Cbs(callback_queue) \cup Live = Driving)' /\ (Cbs(callback_queue) \cap Live = {})'
  <2> HIDE DEF t
  <2> QED BY <1>9, <1>10, <1>13, <1>14 DEF OplInv
<1> QED BY <1>2, <1>3, <1>10, <1>16, <1>17, <1>18 DEF OplInv

-----------------------------------------------------------------------------
(* The callback that is invoked is one of those there are to be; the heap  *)
(* holds the others.                                                       *)
LEMMA InvokedFacts ==
  ASSUME OplInv, audio = "call", ~popped.stale
  PROVE  /\ popped.cb \in Driving /\ Cbs(callback_queue) = Driving \ {popped.cb}
         /\ song # <<>> => song \in Songs /\ SongPlays
         /\ song = <<>> => Driving = {DelayCallback} /\ popped.cb = DelayCallback
                                                     /\ control.pc = "delay"
         /\ song # <<>> => popped.cb # DelayCallback
<1>1. Live = {popped.cb}
  BY DEF Live
<1>2. popped.cb \in Driving /\ Cbs(callback_queue) = Driving \ {popped.cb}
  BY <1>1 DEF OplInv
<1>3. song # <<>> => song \in Songs /\ SongPlays
  BY DEF OplInv, OplTypes
<1>4. song = <<>> => Driving = {DelayCallback} /\ popped.cb = DelayCallback /\ control.pc = "delay"
  BY <1>2 DEF Driving
<1>5. ASSUME song # <<>> PROVE DelayCallback \notin Driving
  <2>1. Tracks \subseteq Nat
    BY <1>3, <1>5, SongFacts DEF Tracks
  <2>2. DelayCallback \notin Nat /\ DelayCallback # RestartSong
    BY DEF DelayCallback, RestartSong
  <2> QED BY <1>5, <2>1, <2>2 DEF Driving
<1> QED BY <1>2, <1>3, <1>4, <1>5

(* The invariant follows from what the callback leaves.                    *)
LEMMA CallLeaves ==
  ASSUME OplInv, Call, audio' = "called",
         Heap(callback_queue'), Cbs(callback_queue') = Driving',
         (control \in [pc : {"delay", "idle", "start", "schedule"}, track : Nat, us : Int])',
         (running_tracks \in Nat /\ us_per_beat \in Nat)',
         (song # <<>> => SongPlays)',
         (song = <<>> => control.pc \in {"delay", "idle"})'
  PROVE  OplInv'
<1>1. UNCHANGED <<chip, filled, nsamples, popped, song, song_looping>>
  BY DEF Call
<1>2. Live' = {}
  BY DEF Live
<1>3. OplTypes'
  BY <1>1 DEF OplInv, OplTypes, chip
<1> QED BY <1>2, <1>3 DEF OplInv

LEMMA DelayKeeps ==
  ASSUME OplInv, Call, audio = "call", ~popped.stale, popped.cb = DelayCallback
  PROVE  OplInv'
<1>1. audio' = "called" /\ DelayEnds /\ song' = song
  BY DEF Call, RestartSong, DelayCallback
<1>2. /\ control' = Idle /\ callback_queue' = callback_queue
      /\ running_tracks' = running_tracks /\ us_per_beat' = us_per_beat
  BY <1>1 DEF DelayEnds
<1>3. song = <<>> /\ Cbs(callback_queue) = {}
  BY InvokedFacts
<1>4. Driving' = {}
  BY <1>1, <1>2, <1>3 DEF Driving, Idle
<1>5. /\ control' \in [pc : {"delay", "idle", "start", "schedule"}, track : Nat, us : Int]
      /\ control'.pc = "idle"
  BY <1>2 DEF Idle
<1>6. Heap(callback_queue') /\ Cbs(callback_queue') = {} /\ running_tracks' \in Nat /\ us_per_beat' \in Nat
  BY <1>2, <1>3 DEF OplInv, OplTypes
<1> QED BY <1>1, <1>3, <1>4, <1>5, <1>6, CallLeaves

(* RestartSong, once every track has ended.                                *)
LEMMA RestartKeeps ==
  ASSUME OplInv, Call, audio = "call", ~popped.stale, popped.cb = RestartSong
  PROVE  OplInv'
<1>1. audio' = "called" /\ RestartCallback /\ song' = song
  BY DEF Call, RestartSong, DelayCallback
<1>2. /\ running_tracks' = Len(song) /\ event' = [t \in Tracks |-> 1]
      /\ callback_queue' = Restarted(callback_queue)
      /\ us_per_beat' = us_per_beat /\ control' = control
  BY <1>1 DEF RestartCallback
<1>3. song # <<>> /\ song \in Songs /\ SongPlays /\ RestartSong \in Driving
  BY InvokedFacts DEF RestartSong, DelayCallback
<1>4. /\ Tracks = 1..Len(song) /\ Len(song) \in Nat \ {0} /\ IsFiniteSet(Tracks)
      /\ Cardinality(Tracks) = Len(song)
      /\ \A t \in Tracks : Len(song[t]) \in Nat \ {0}
  BY <1>3, SongFacts DEF Tracks
<1>5. running_tracks = 0
  <2>1. RestartSong \notin Tracks
    BY <1>4 DEF RestartSong
  <2> QED BY <1>3, <2>1 DEF Driving
<1>6. \A t \in Tracks : Ended(t) /\ Started(t)
  <2> DEFINE S == {t \in Tracks : ~Ended(t)}
  <2>1. IsFiniteSet(S)
    BY <1>4, FS_Subset
  <2>2. S = {}
    BY <1>3, <1>5, <2>1, FS_EmptySet DEF SongPlays
  <2>3. \A t \in Tracks : Ended(t)
    BY <2>2
  <2>4. \A t \in Tracks : event[t] # 1
    BY <1>4, <2>3 DEF Ended
  <2> QED BY <1>3, <2>3, <2>4 DEF SongPlays
<1>7. Driving \subseteq {RestartSong}
  BY <1>3, <1>6 DEF Driving
<1>8. Heap(callback_queue') /\ Cbs(callback_queue') = Tracks
  <2>1. Heap(callback_queue) /\ Cbs(callback_queue) = {} /\ us_per_beat \in Nat
    BY <1>7, InvokedFacts DEF OplInv, OplTypes
  <2> QED BY <1>2, <1>3, <2>1, RestartedKeeps
<1>9. Tracks' = Tracks
  BY <1>1 DEF Tracks
<1>10. \A t \in Tracks : Started(t)' /\ ~Ended(t)'
  <2>1. \A t \in Tracks : Started(t)'
    BY <1>2, <1>6 DEF Started
  <2>2. \A t \in Tracks : Ended(t)' => 1 > Len(song[t])
    BY <1>1, <1>2 DEF Ended
  <2> QED BY <1>4, <2>1, <2>2
<1>11. Driving' = Tracks
  BY <1>1, <1>2, <1>3, <1>4, <1>9, <1>10 DEF Driving
<1>12. SongPlays'
  <2>1. {t \in Tracks : ~Ended(t)}' = Tracks
    BY <1>9, <1>10
  <2>2. (running_tracks = Cardinality({t \in Tracks : ~Ended(t)}))'
    BY <1>2, <1>4, <2>1
  <2>3. \A t \in Tracks : 1 \in 1..(Len(song[t]) + 1)
    BY <1>4
  <2>4. event' \in [Tracks -> Nat] /\ \A t \in Tracks : event'[t] = 1
    BY <1>2
  <2>5. control' = control /\ us_per_beat' = us_per_beat
    BY <1>2
  <2> QED BY <1>1, <1>3, <1>9, <2>2, <2>3, <2>4, <2>5 DEF SongPlays
<1>13. /\ (control \in [pc : {"delay", "idle", "start", "schedule"}, track : Nat, us : Int])'
       /\ (running_tracks \in Nat /\ us_per_beat \in Nat)'
  BY <1>2, <1>4 DEF OplInv, OplTypes
<1> QED BY <1>1, <1>3, <1>8, <1>11, <1>12, <1>13, CallLeaves

(* The time of a track: it plays an event, and schedules the next or ends. *)
LEMMA TimerKeeps ==
  ASSUME OplInv, Call, audio = "call", ~popped.stale, NEW t \in Int, t = popped.cb,
         t # DelayCallback, t # RestartSong
  PROVE  OplInv'
<1> DEFINE e == song[t][event[t]]
<1>1. audio' = "called" /\ TrackTimerCallback(t) /\ song' = song /\ song_looping' = song_looping
  BY DEF Call
<1>2. /\ event' = [event EXCEPT ![t] = @ + 1]
      /\ us_per_beat' = IF e.tempo > 0 THEN e.tempo ELSE us_per_beat
      /\ control' = control
  BY <1>1 DEF TrackTimerCallback
<1>3. /\ song # <<>> /\ song \in Songs /\ SongPlays
      /\ t \in Driving /\ Cbs(callback_queue) = Driving \ {t}
  BY InvokedFacts
<1>4. t \in Tracks /\ Started(t) /\ ~Ended(t)
  BY <1>3 DEF Driving
<1>5. /\ Tracks = 1..Len(song) /\ Tracks' = Tracks /\ IsFiniteSet(Tracks) /\ t \in Nat \ {0}
      /\ \A u \in Tracks : Len(song[u]) \in Nat \ {0}
  <2>1. Tracks = 1..Len(song) /\ IsFiniteSet(Tracks) /\ Len(song) \in Nat
        /\ \A u \in Tracks : Len(song[u]) \in Nat \ {0}
    BY <1>3, SongFacts DEF Tracks
  <2> QED BY <1>1, <1>4, <2>1 DEF Tracks
<1>6. /\ event \in [Tracks -> Nat] /\ event[t] \in 1..Len(song[t])
      /\ \A u \in Tracks : event[u] \in 1..(Len(song[u]) + 1)
  <2>1. event \in [Tracks -> Nat] /\ \A u \in Tracks : event[u] \in 1..(Len(song[u]) + 1)
    BY <1>3 DEF SongPlays
  <2>2. ~(event[t] > Len(song[t])) /\ Len(song[t]) \in Nat
    BY <1>4, <1>5 DEF Ended
  <2> QED BY <1>4, <2>1, <2>2
<1>7. e.tempo \in Nat /\ (e.end <=> event[t] = Len(song[t]))
  BY <1>3, <1>4, <1>6, SongFacts DEF Tracks
<1>8. us_per_beat \in Nat \ {0} /\ pause_offset \in Nat
  BY <1>3, QueueAssumption DEF SongPlays, OplInv, OplTypes
<1>9. us_per_beat' \in Nat \ {0}
  <2> HIDE DEF e
  <2> QED BY <1>2, <1>7, <1>8
<1>10. \A u \in Tracks : event'[u] = IF u = t THEN event[t] + 1 ELSE event[u]
  BY <1>2, <1>4, <1>6
<1>11. \A u \in Tracks : u # t => (Ended(u)' <=> Ended(u))
  BY <1>1, <1>10 DEF Ended
<1>12. Ended(t)' <=> e.end
  <2>1. Ended(t)' <=> event[t] + 1 > Len(song[t])
    BY <1>1, <1>4, <1>10 DEF Ended
  <2>2. event[t] \in Nat /\ Len(song[t]) \in Nat /\ event[t] <= Len(song[t])
    BY <1>4, <1>5, <1>6
  <2> HIDE DEF e
  <2> QED BY <1>7, <2>1, <2>2
<1>13. \A u : Started(u)' <=> Started(u)
  BY <1>2 DEF Started
<1> DEFINE Running == {u \in Tracks : ~Ended(u)}
<1>14. /\ IsFiniteSet(Running) /\ t \in Running
       /\ running_tracks = Cardinality(Running) /\ running_tracks \in Nat \ {0}
  <2>1. IsFiniteSet(Running) /\ t \in Running /\ running_tracks = Cardinality(Running)
    BY <1>3, <1>4, <1>5, FS_Subset DEF SongPlays
  <2>2. Cardinality(Running) # 0
    BY <2>1, FS_EmptySet
  <2>3. running_tracks \in Nat
    BY DEF OplInv, OplTypes
  <2> QED BY <2>1, <2>2, <2>3
<1>15. Driving = {u \in Tracks : Started(u) /\ ~Ended(u)}
  BY <1>3, <1>14 DEF Driving
<1>16. Cbs(callback_queue) \subseteq (DOMAIN song) \ {t}
  BY <1>3, <1>15 DEF Tracks
<1>17. Len(callback_queue) < MAX_OPL_QUEUE /\ Heap(callback_queue)
  <2>1. Heap(callback_queue) /\ t \in DOMAIN song
    BY <1>4 DEF OplInv, Tracks
  <2> QED BY <1>3, <1>16, <2>1, Room
<1>18. /\ event' \in [Tracks -> Nat]
       /\ \A u \in Tracks : event'[u] \in 1..(Len(song[u]) + 1)
       /\ \A u \in Tracks : ~Started(u) => event'[u] = 1
  <2>1. event'[t] \in 1..(Len(song[t]) + 1) /\ event'[t] \in Nat
    BY <1>4, <1>5, <1>6, <1>10
  <2>2. \A u \in Tracks : event'[u] \in Nat /\ event'[u] \in 1..(Len(song[u]) + 1)
    BY <1>6, <1>10, <2>1
  <2>3. event' \in [Tracks -> Nat]
    BY <1>2, <1>6, <2>2
  <2>4. \A u \in Tracks : ~Started(u) => event'[u] = 1
    BY <1>3, <1>4, <1>10 DEF SongPlays
  <2> QED BY <2>2, <2>3, <2>4
<1>19. ASSUME (running_tracks = Cardinality({u \in Tracks : ~Ended(u)}))'
       PROVE  SongPlays'
  BY <1>1, <1>2, <1>3, <1>5, <1>9, <1>13, <1>18, <1>19 DEF SongPlays
<1>20. CASE e.end
  <2>1. running_tracks' = running_tracks - 1
        /\ callback_queue' = IF Restarts THEN Push(callback_queue, RestartSong, FiveMillisLate)
                             ELSE callback_queue
    BY <1>1, <1>20 DEF TrackTimerCallback
  <2>2. {u \in Tracks : ~Ended(u)}' = Running \ {t}
    BY <1>5, <1>11, <1>12, <1>20
  <2>3. running_tracks' \in Nat /\ running_tracks' = Cardinality(Running \ {t})
    <3> HIDE DEF Running
    <3> QED BY <1>14, <2>1, FS_RemoveElement
  <2>4. SongPlays'
    BY <1>19, <2>2, <2>3
  <2>5. {u \in Tracks : Started(u) /\ ~Ended(u)}' = Driving \ {t}
    BY <1>5, <1>11, <1>12, <1>13, <1>15, <1>20
  <2>6. Restarts <=> song_looping /\ running_tracks' = 0
    BY <1>14, <2>1 DEF Restarts
  <2>7. Driving' = Cbs(callback_queue) \cup (IF Restarts THEN {RestartSong} ELSE {})
    BY <1>1, <1>3, <2>5, <2>6 DEF Driving
  <2>8. Heap(callback_queue') /\ Cbs(callback_queue') = Driving'
    <3>1. CASE Restarts
      <4>1. RestartSong \in Int /\ RestartSong \notin Cbs(callback_queue) /\ FiveMillisLate \in Int
        BY <1>5, <1>15, <1>16, RestartAssumption DEF RestartSong, FiveMillisLate, Tracks
      <4> QED BY <1>17, <2>1, <2>7, <3>1, <4>1, PushKeeps
    <3>2. CASE ~Restarts
      BY <1>17, <2>1, <2>7, <3>2
    <3> QED BY <3>1, <3>2
  <2> QED BY <1>1, <1>2, <1>3, <1>9, <2>3, <2>4, <2>8, CallLeaves DEF OplInv, OplTypes
<1>21. CASE ~e.end
  <2>1. running_tracks' = running_tracks
    BY <1>1, <1>21 DEF TrackTimerCallback
  <2>2. PICK negative \in {"quotient", "zero"} :
          callback_queue' =
            Push(IF e.tempo > 0
                 THEN AdjustCallbacks(callback_queue, us_per_beat, e.tempo, negative)
                 ELSE callback_queue,
                 t, Delta(t))
    BY <1>1, <1>21 DEF TrackTimerCallback
  <2> DEFINE q == IF e.tempo > 0
                  THEN AdjustCallbacks(callback_queue, us_per_beat, e.tempo, negative)
                  ELSE callback_queue
  <2>3. Heap(q) /\ Cbs(q) = Cbs(callback_queue)
    <3> HIDE DEF e
    <3> QED BY <1>7, <1>8, <1>17, AdjustKeeps
  <2> HIDE DEF q
  <2>4. Delta(t) \in Int
    <3>1. event'[t] \in 1..Len(song[t])
      BY <1>4, <1>5, <1>6, <1>7, <1>10, <1>21
    <3>2. song[t][event'[t]].delta \in Nat
      BY <1>3, <1>4, <3>1, SongFacts DEF Tracks
    <3> QED BY <1>9, <3>2 DEF Delta
  <2>5. Len(q) < MAX_OPL_QUEUE /\ t \notin Cbs(q)
    <3>1. t \in DOMAIN song /\ Cbs(q) \subseteq (DOMAIN song) \ {t}
      BY <1>4, <1>16, <2>3 DEF Tracks
    <3>2. Len(q) < MAX_OPL_QUEUE
      BY <1>3, <2>3, <3>1, Room
    <3> QED BY <3>1, <3>2
  <2>6. Heap(callback_queue') /\ Cbs(callback_queue') = Cbs(callback_queue) \cup {t}
    <3>1. callback_queue' = Push(q, t, Delta(t))
      BY <2>2 DEF q
    <3>2. Heap(Push(q, t, Delta(t))) /\ Cbs(Push(q, t, Delta(t))) = Cbs(q) \cup {t}
      BY <2>3, <2>4, <2>5, PushKeeps
    <3> QED BY <2>3, <3>1, <3>2
  <2>7. \A u \in Tracks : Ended(u)' <=> Ended(u)
    BY <1>4, <1>11, <1>12, <1>21
  <2>8. {u \in Tracks : ~Ended(u)}' = Running
    BY <1>5, <2>7
  <2>9. SongPlays'
    BY <1>14, <1>19, <2>1, <2>8
  <2>10. {u \in Tracks : Started(u) /\ ~Ended(u)}' = {u \in Tracks : Started(u) /\ ~Ended(u)}
    BY <1>5, <1>13, <2>7
  <2>11. Driving' = Driving
    BY <1>1, <1>3, <2>1, <2>10 DEF Driving
  <2>12. Cbs(callback_queue') = Driving'
    BY <1>3, <2>6, <2>11
  <2> QED BY <1>1, <1>2, <1>3, <1>9, <2>1, <2>6, <2>9, <2>12, CallLeaves DEF OplInv, OplTypes
<1> QED BY <1>20, <1>21

(* A callback that I_OPL_StopSong meant to clear: nothing moves any more.  *)
LEMMA LateKeeps == ASSUME OplInv, Call, audio = "call", popped.stale PROVE OplInv'
<1>1. /\ audio' = "late" /\ UNCHANGED <<callback_queue, control, event, running_tracks, us_per_beat>>
      /\ UNCHANGED <<chip, filled, nsamples, popped, song, song_looping>>
  BY DEF Call
<1>2. UNCHANGED <<control, playing>> /\ callback_queue' = callback_queue
  BY <1>1 DEF playing
<1>3. Live = {} /\ Live' = {}
  BY <1>1 DEF Live
<1>4. OplTypes'
  BY <1>1, <1>2, SameSong DEF OplInv, OplTypes, chip
<1> QED BY <1>2, <1>3, <1>4, SameSong DEF OplInv

LEMMA CallKeeps == ASSUME OplInv, Call PROVE OplInv'
<1>1. audio = "call" /\ popped.stale \in BOOLEAN /\ popped.cb \in Int
  BY DEF Call, OplInv, OplTypes
<1>2. PICK t \in Int : t = popped.cb
  BY <1>1
<1> QED BY <1>1, <1>2, LateKeeps, DelayKeeps, RestartKeeps, TimerKeeps

LEMMA OplStep == OplInv /\ [OplNext]_oplVars => OplInv'
<1> SUFFICES ASSUME OplInv, [OplNext]_oplVars PROVE OplInv'
  OBVIOUS
<1>1. CASE Audio
  BY <1>1, MixKeeps, AdvanceKeeps, CallKeeps, CalledKeeps DEF Audio
<1>2. CASE Control
  <2>1. CASE \E s \in Songs, looping \in BOOLEAN : PlaySong(s, looping)
    BY <2>1, PlayKeeps
  <2>2. CASE Starting
    BY <2>2, StartKeepsSong, ScheduleKeeps DEF Starting
  <2>3. CASE PauseSong \/ ResumeSong \/ StopSong
    BY <2>3, PausesKeep, StopKeeps
  <2> QED BY <1>2, <2>1, <2>2, <2>3 DEF Control
<1>3. CASE UNCHANGED oplVars
  <2>1. /\ callback_queue' = callback_queue /\ UNCHANGED <<audio, popped>> /\ UNCHANGED <<control, playing>>
        /\ UNCHANGED <<opl_sdl_paused, pause_offset, filled, nsamples>>
    BY <1>3 DEF oplVars, playing
  <2>2. Live' = Live
    BY <2>1, SameLive
  <2>3. OplTypes'
    BY <2>1, SameSong DEF OplInv, OplTypes
  <2> QED BY <2>1, <2>2, <2>3, SameSong DEF OplInv
<1> QED BY <1>1, <1>2, <1>3 DEF OplNext

LEMMA OplHolds == OplSpec => []OplInv
<1>1. OplInit => OplInv
  BY OplStarts
<1>2. OplInv /\ [OplNext]_oplVars => OplInv'
  BY OplStep
<1> QED BY <1>1, <1>2, PTL DEF OplSpec

-----------------------------------------------------------------------------
LEMMA OplTypesHold == OplInv => OplTypeOK
<1> SUFFICES ASSUME OplInv PROVE OplTypeOK
  OBVIOUS
<1>1. \A i \in DOMAIN callback_queue : callback_queue[i].cb \in Driving
  BY DEF OplInv, Cbs
<1>2. Driving \subseteq {DelayCallback, RestartSong} \cup Tracks
  BY DEF Driving
<1>3. \A r \in [pc : {"delay", "idle", "start", "schedule"}, track : Nat, us : Int] :
        r.pc \in {"delay", "idle", "start", "schedule"}
  OBVIOUS
<1> QED BY <1>1, <1>2, <1>3 DEF OplInv, OplTypes, OplTypeOK, Heap

(* The variables of the audio thread and of the song keep their ranges,    *)
(* and no entry of the heap is a callback of a track the song has not      *)
(* (opl_sdl.c, i_oplmusic.c).                                              *)
THEOREM MusicTypeCorrect == OplSpec => []OplTypeOK
BY OplTypesHold, OplHolds, PTL

(* OPL_Mix_Callback, which asks only the first entry of the heap, sees the *)
(* earliest callback at every moment, whatever the songs are, however many *)
(* callbacks wait, and whatever becomes of the negative times that         *)
(* OPL_Queue_AdjustCallbacks scales.                                       *)
THEOREM EarliestFirst == OplSpec => []FirstIsEarliest
<1>1. OplInv => FirstIsEarliest
  BY RootIsEarliest DEF OplInv, FirstIsEarliest
<1> QED BY <1>1, OplHolds, PTL

(* Every track of a playing song is driven by exactly one callback, in the *)
(* heap or in the hands of the audio thread, while I_OPL_PlaySong starts   *)
(* the tracks and callbacks already run, across restarts and pauses; a     *)
(* looping song that has come to its end has exactly one restart coming.   *)
THEOREM TracksDriven == OplSpec => []EveryTrackOnce
<1>1. ASSUME OplInv PROVE EveryTrackOnce
  <2>1. \A cb : Pending(cb) = IF cb \in Driving THEN 1 ELSE 0
    <3> TAKE cb
    <3> DEFINE live == IF audio = "call" /\ ~popped.stale /\ popped.cb = cb THEN 1 ELSE 0
    <3>1. Pending(cb) = (IF cb \in Cbs(callback_queue) THEN 1 ELSE 0) + live
      BY <1>1, Counted DEF Pending, OplInv
    <3>2. live = IF cb \in Live THEN 1 ELSE 0
      BY DEF Live
    <3> HIDE DEF live
    <3> QED BY <1>1, <3>1, <3>2 DEF OplInv
  <2>2. song # <<>> => Tracks \subseteq Nat \ {0}
    BY <1>1, SongFacts DEF Tracks, OplInv, OplTypes
  <2>3. \A t \in Tracks : t \in Driving <=> Started(t) /\ ~Ended(t)
    BY <2>2 DEF Driving, RestartSong, Tracks
  <2>4. RestartSong \in Driving <=> song # <<>> /\ song_looping /\ running_tracks = 0
    BY <2>2 DEF Driving, RestartSong, DelayCallback
  <2>5. song # <<>> => running_tracks = Cardinality({t \in Tracks : ~Ended(t)})
    BY <1>1 DEF OplInv, SongPlays
  <2>6. song = <<>> => \A i \in DOMAIN callback_queue : callback_queue[i].cb = DelayCallback
    BY <1>1 DEF OplInv, Driving, Cbs
  <2> QED BY <2>1, <2>3, <2>4, <2>5, <2>6 DEF EveryTrackOnce
<1> QED BY <1>1, OplHolds, PTL
=============================================================================
