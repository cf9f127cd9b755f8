---------------------------- MODULE ZoneHeapProofs ----------------------------
(***************************************************************************)
(* The zone heap stays a ring of blocks that touch, do not overlap and are *)
(* nowhere free twice in a row, whatever its size, and the cached lumps    *)
(* stay where their holders were told, whatever a scan throws out.         *)
(*                                                                         *)
(* The argument: a merge and a cut take a heap to a heap (MergedHeap,      *)
(* CutHeap); Z_Free leaves no two free blocks in a row and every other     *)
(* block in place (FreeIsFreed, FreedKeeps); so what a scan or Z_FreeTags  *)
(* stands on survives what it frees (ZoneInv, with ScanAt for the scan).   *)
(***************************************************************************)
EXTENDS ZoneHeap, TLAPS

(* A heap: a ring of headers in the zone, blocklist among them, which is   *)
(* never free; all blocks but that have a size.                            *)
Heap(bs) ==
  /\ DOMAIN bs \subseteq 0..ZoneSize /\ blocklist \in DOMAIN bs
  /\ \A b \in DOMAIN bs : bs[b] \in Block
  /\ bs[blocklist].tag = PU_STATIC
  /\ \A b \in DOMAIN bs \ {blocklist} : bs[b].size > 0
  /\ Linked(bs) /\ Touching(bs) /\ Apart(bs)
-----------------------------------------------------------------------------
(* One behind a block lies the next, or blocklist.                         *)
LEMMA NextIsBehind ==
  ASSUME NEW bs, Heap(bs), NEW b \in DOMAIN bs, b # blocklist
  PROVE  /\ bs[b].next \in DOMAIN bs /\ bs[b].prev \in DOMAIN bs
         /\ bs[b].next # b /\ bs[b].prev # b
         /\ b \in Nat /\ bs[b].size \in Nat /\ b + bs[b].size <= ZoneSize + 1
         /\ bs[b].next # blocklist => b < bs[b].next
         /\ bs[b].prev # blocklist => bs[b].prev < b
<1>1. b \in Nat /\ b # 0 /\ bs[b].size \in Nat /\ bs[b].size > 0
  BY DEF Heap, Block, blocklist
<1>2. /\ bs[b].next \in DOMAIN bs /\ bs[b].prev \in DOMAIN bs
      /\ bs[bs[b].next].prev = b /\ bs[bs[b].prev].next = b
  BY DEF Heap, Linked
<1>3. b + bs[b].size = IF bs[b].next = blocklist THEN ZoneSize + 1 ELSE bs[b].next
  BY DEF Heap, Touching
<1>4. bs[b].next \in 0..ZoneSize /\ bs[b].prev \in 0..ZoneSize
  BY <1>2 DEF Heap
<1>5. bs[b].next # blocklist => b < bs[b].next
  BY <1>1, <1>3, <1>4
<1>6. bs[b].next # b
  BY <1>1, <1>5 DEF blocklist
<1>7. bs[b].prev # b
  BY <1>2, <1>6
<1>8. ASSUME bs[b].prev # blocklist PROVE bs[b].prev < b
  <2> DEFINE p == bs[b].prev
  <2>1. p \in DOMAIN bs /\ p # blocklist /\ bs[p].next = b
    BY <1>2, <1>8
  <2>2. p + bs[p].size = b /\ bs[p].size > 0
    BY <2>1, <1>1 DEF Heap, Touching, blocklist
  <2>3. bs[p].size \in Nat /\ p \in Nat
    BY <2>1, <1>4 DEF Heap, Block
  <2> HIDE DEF p
  <2>4. p < b
    BY <2>2, <2>3, <1>1
  <2> QED BY <2>4 DEF p
<1>9. b + bs[b].size <= ZoneSize + 1
  BY <1>1, <1>3, <1>4, ZoneAssumption
<1> QED BY <1>1, <1>2, <1>5, <1>6, <1>7, <1>8, <1>9

(* The fields of the headers after a merge.                                *)
Merged(bs, b, g) ==
  LET o == bs[b].next
      n == bs[o].next
  IN /\ DOMAIN g = DOMAIN bs \ {o}
     /\ \A a \in DOMAIN g :
          /\ g[a] \in Block
          /\ g[a].size = IF a = b THEN bs[b].size + bs[o].size ELSE bs[a].size
          /\ g[a].tag = bs[a].tag /\ g[a].user = bs[a].user
          /\ g[a].next = IF a = b THEN n ELSE bs[a].next
          /\ g[a].prev = IF a = n THEN b ELSE bs[a].prev

LEMMA AbsorbFields ==
  ASSUME NEW z, Heap(z.blocks), NEW b \in DOMAIN z.blocks, b # blocklist,
         z.blocks[b].next # blocklist
  PROVE  Merged(z.blocks, b, AbsorbOnly(z, b).blocks)
<1> DEFINE bs == z.blocks
           o == bs[b].next
           n == bs[o].next
           m == [bs EXCEPT ![b].size = @ + bs[o].size, ![b].next = n, ![n].prev = b]
           g == [a \in DOMAIN m \ {o} |-> m[a]]
<1>1. o \in DOMAIN bs /\ o # b /\ n \in DOMAIN bs /\ n # o
  BY NextIsBehind
<1>2. n # b
  <2>1. b < o
    BY NextIsBehind
  <2>2. n # blocklist => o < n
    BY <1>1, NextIsBehind
  <2>3. b \in Nat /\ o \in Nat /\ n \in Nat
    BY <1>1 DEF Heap
  <2> QED BY <2>1, <2>2, <2>3
<1>3. AbsorbOnly(z, b).blocks = g
  BY DEF AbsorbOnly
<1>4. \A a \in DOMAIN bs : bs[a] \in Block
  BY DEF Heap
<1>5. b \in Nat /\ n \in Nat /\ bs[b].size + bs[o].size \in Nat
  BY <1>1, <1>4 DEF Heap, Block
<1> DEFINE first == [bs[b] EXCEPT !.size = @ + bs[o].size, !.next = n]
<1>6. DOMAIN m = DOMAIN bs /\ m[b] = first /\ m[n] = [bs[n] EXCEPT !.prev = b]
  BY <1>1, <1>2
<1>7. \A a \in DOMAIN bs : a # b /\ a # n => m[a] = bs[a]
  OBVIOUS
<1>8. /\ first \in Block
      /\ first.size = bs[b].size + bs[o].size /\ first.next = n
      /\ first.tag = bs[b].tag /\ first.user = bs[b].user /\ first.prev = bs[b].prev
  BY <1>4, <1>5 DEF Block
<1> DEFINE last == [bs[n] EXCEPT !.prev = b]
<1>9. /\ last \in Block /\ last.prev = b
      /\ last.size = bs[n].size /\ last.next = bs[n].next
      /\ last.tag = bs[n].tag /\ last.user = bs[n].user
  BY <1>1, <1>4, <1>5 DEF Block
<1> HIDE DEF m, first, last
<1>10. DOMAIN g = DOMAIN bs \ {o} /\ \A a \in DOMAIN g : g[a] = m[a]
  BY <1>6
<1> HIDE DEF g
<1>11. ASSUME NEW a \in DOMAIN bs
       PROVE  /\ m[a] \in Block
              /\ m[a].size = IF a = b THEN bs[b].size + bs[o].size ELSE bs[a].size
              /\ m[a].tag = bs[a].tag /\ m[a].user = bs[a].user
              /\ m[a].next = IF a = b THEN n ELSE bs[a].next
              /\ m[a].prev = IF a = n THEN b ELSE bs[a].prev
  <2>1. CASE a = b
    BY <2>1, <1>2, <1>6, <1>8
  <2>2. CASE a = n
    BY <2>2, <1>2, <1>6, <1>9 DEF last
  <2>3. CASE a # b /\ a # n
    BY <2>3, <1>4, <1>7
  <2> QED BY <2>1, <2>2, <2>3
<1>12. Merged(bs, b, g)
  <2> SUFFICES ASSUME NEW a \in DOMAIN g
      PROVE  /\ g[a] \in Block
             /\ g[a].size = IF a = b THEN bs[b].size + bs[o].size ELSE bs[a].size
             /\ g[a].tag = bs[a].tag /\ g[a].user = bs[a].user
             /\ g[a].next = IF a = b THEN n ELSE bs[a].next
             /\ g[a].prev = IF a = n THEN b ELSE bs[a].prev
    BY <1>10 DEF Merged
  <2>1. a \in DOMAIN bs /\ g[a] = m[a]
    BY <1>10
  <2> QED BY <2>1, <1>11
<1> QED BY <1>3, <1>12

LEMMA MergedHeap ==
  ASSUME NEW bs, Heap(bs), NEW b \in DOMAIN bs, b # blocklist, bs[b].next # blocklist,
         NEW g, Merged(bs, b, g)
  PROVE  Heap(g)
<1> DEFINE o == bs[b].next
           n == bs[o].next
<1>1. /\ o \in DOMAIN bs /\ o # b /\ n \in DOMAIN bs /\ n # o /\ o # blocklist
      /\ b \in Nat /\ bs[b].size \in Nat /\ b < o
      /\ o \in Nat /\ bs[o].size \in Nat /\ bs[b].size > 0 /\ bs[o].size > 0
      /\ n # blocklist => o < n
  BY NextIsBehind DEF Heap
<1>2. n # b /\ n \in Nat
  BY <1>1 DEF Heap
<1>3. /\ bs[n].prev = o /\ bs[o].prev = b
      /\ b + bs[b].size = o
      /\ o + bs[o].size = IF n = blocklist THEN ZoneSize + 1 ELSE n
  BY <1>1 DEF Heap, Linked, Touching
<1>4. /\ DOMAIN g = DOMAIN bs \ {o}
      /\ \A a \in DOMAIN g :
           /\ g[a] \in Block
           /\ g[a].size = IF a = b THEN bs[b].size + bs[o].size ELSE bs[a].size
           /\ g[a].tag = bs[a].tag
           /\ g[a].next = IF a = b THEN n ELSE bs[a].next
           /\ g[a].prev = IF a = n THEN b ELSE bs[a].prev
  BY DEF Merged
<1> HIDE DEF o, n
<1>5. /\ DOMAIN g \subseteq 0..ZoneSize /\ blocklist \in DOMAIN g
      /\ \A a \in DOMAIN g : g[a] \in Block
      /\ g[blocklist].tag = PU_STATIC
  BY <1>1, <1>4 DEF Heap
<1>6. ASSUME NEW a \in DOMAIN g, a # blocklist
      PROVE  g[a].size > 0
  BY <1>1, <1>4, <1>6 DEF Heap
<1>7. Linked(g)
  <2> SUFFICES ASSUME NEW a \in DOMAIN g
      PROVE  /\ g[a].next \in DOMAIN g /\ g[a].prev \in DOMAIN g
             /\ g[g[a].next].prev = a /\ g[g[a].prev].next = a
    BY DEF Linked
  <2>1. /\ a \in DOMAIN bs /\ a # o
        /\ bs[a].next \in DOMAIN bs /\ bs[a].prev \in DOMAIN bs
        /\ bs[bs[a].next].prev = a /\ bs[bs[a].prev].next = a
    BY <1>4 DEF Heap, Linked
  <2>2. a # b => bs[a].next # o /\ bs[a].next # n
    BY <2>1, <1>3
  <2>3. a # n => bs[a].prev # o /\ bs[a].prev # b
    BY <2>1 DEF o, n
  <2>4. g[a].next \in DOMAIN g /\ g[g[a].next].prev = a
    BY <2>1, <2>2, <1>1, <1>4
  <2>5. g[a].prev \in DOMAIN g /\ g[g[a].prev].next = a
    BY <2>1, <2>3, <1>1, <1>4
  <2> QED BY <2>4, <2>5
<1>8. Touching(g)
  <2> SUFFICES ASSUME NEW a \in DOMAIN g, a # blocklist
      PROVE  a + g[a].size = IF g[a].next = blocklist THEN ZoneSize + 1 ELSE g[a].next
    BY DEF Touching
  <2>1. CASE a = b
    BY <2>1, <1>1, <1>3, <1>4
  <2>2. CASE a # b
    BY <2>2, <1>4 DEF Heap, Touching
  <2> QED BY <2>1, <2>2
<1>9. Apart(g)
  <2> SUFFICES ASSUME NEW a \in DOMAIN g, a # blocklist, NEW c \in DOMAIN g, c # blocklist, a < c
      PROVE  a + g[a].size <= c
    BY DEF Apart
  <2>1. /\ a \in DOMAIN bs /\ c \in DOMAIN bs /\ c # o /\ c \in Nat
        /\ a + bs[a].size <= c
    BY <1>4 DEF Heap, Apart
  <2>2. CASE a = b
    <3>1. c > o
      BY <2>1, <2>2, <1>1, <1>3
    <3>2. o + bs[o].size <= c
      BY <3>1, <2>1, <1>1 DEF Heap, Apart
    <3> QED BY <3>2, <2>2, <1>1, <1>3, <1>4
  <2>3. CASE a # b
    BY <2>1, <2>3, <1>4
  <2> QED BY <2>2, <2>3
<1> QED BY <1>5, <1>6, <1>7, <1>8, <1>9 DEF Heap

(* Tags and users may change where blocklist's tag does not.               *)
SameRing(bs, g) ==
  /\ DOMAIN g = DOMAIN bs
  /\ \A a \in DOMAIN bs : /\ g[a] \in Block
                          /\ g[a].size = bs[a].size
                          /\ g[a].next = bs[a].next /\ g[a].prev = bs[a].prev
  /\ g[blocklist].tag = bs[blocklist].tag

LEMMA SameRingHeap ==
  ASSUME NEW bs, Heap(bs), NEW g, SameRing(bs, g)
  PROVE  Heap(g)
<1>1. /\ DOMAIN g \subseteq 0..ZoneSize /\ blocklist \in DOMAIN g
      /\ \A b \in DOMAIN g : g[b] \in Block
      /\ g[blocklist].tag = PU_STATIC
      /\ \A b \in DOMAIN g \ {blocklist} : g[b].size > 0
  BY DEF Heap, SameRing
<1>2. Linked(g)
  <2> SUFFICES ASSUME NEW a \in DOMAIN g
      PROVE  /\ g[a].next \in DOMAIN g /\ g[a].prev \in DOMAIN g
             /\ g[g[a].next].prev = a /\ g[g[a].prev].next = a
    BY DEF Linked
  <2>1. /\ a \in DOMAIN bs
        /\ bs[a].next \in DOMAIN bs /\ bs[a].prev \in DOMAIN bs
        /\ bs[bs[a].next].prev = a /\ bs[bs[a].prev].next = a
    BY DEF Heap, SameRing, Linked
  <2> QED BY <2>1 DEF SameRing
<1>3. Touching(g)
  BY DEF Heap, SameRing, Touching
<1>4. Apart(g)
  BY DEF Heap, SameRing, Apart
<1> QED BY <1>1, <1>2, <1>3, <1>4 DEF Heap

(* A block's tag and user are set.                                         *)
Set(bs, b, t, u) == [bs EXCEPT ![b].tag = t, ![b].user = u]

LEMMA SetHeap ==
  ASSUME NEW bs, Heap(bs), NEW b \in DOMAIN bs, b # blocklist,
         NEW t, t \in Tags, NEW u, u \in Lumps \cup {NULL},
         NEW g, g = Set(bs, b, t, u)
  PROVE  /\ Heap(g) /\ SameRing(bs, g)
         /\ g[b].tag = t /\ g[b].user = u
         /\ \A a \in DOMAIN bs : a # b => g[a] = bs[a]
<1>1. \A a \in DOMAIN bs : bs[a] \in Block
  BY DEF Heap
<1>2. DOMAIN g = DOMAIN bs /\ \A a \in DOMAIN bs : a # b => g[a] = bs[a]
  BY DEF Set
<1>3. g[b] = [bs[b] EXCEPT !.tag = t, !.user = u]
  BY DEF Set
<1>4. /\ g[b] \in Block /\ g[b].tag = t /\ g[b].user = u
      /\ g[b].size = bs[b].size /\ g[b].next = bs[b].next /\ g[b].prev = bs[b].prev
  BY <1>1, <1>3 DEF Block
<1>5. blocklist \in DOMAIN bs
  BY DEF Heap
<1>6. \A a \in DOMAIN bs : /\ g[a] \in Block
                           /\ g[a].size = bs[a].size
                           /\ g[a].next = bs[a].next /\ g[a].prev = bs[a].prev
  BY <1>1, <1>2, <1>4
<1>7. SameRing(bs, g)
  BY <1>2, <1>5, <1>6 DEF SameRing
<1> QED BY <1>2, <1>4, <1>7, SameRingHeap
-----------------------------------------------------------------------------
(* Z_Free.                                                                 *)
LEMMA AbsorbSound ==
  ASSUME NEW z, Heap(z.blocks), z.rover \in DOMAIN z.blocks,
         NEW b \in DOMAIN z.blocks, b # blocklist, z.blocks[b].next # blocklist,
         NEW y, y = Absorb(z, b)
  PROVE  Heap(y.blocks) /\ Merged(z.blocks, b, y.blocks) /\ y.rover \in DOMAIN y.blocks
<1>1. /\ y.blocks = AbsorbOnly(z, b).blocks
      /\ y.rover = IF z.rover = z.blocks[b].next THEN b ELSE z.rover
  BY DEF Absorb, AbsorbOnly
<1>2. Merged(z.blocks, b, y.blocks)
  BY <1>1, AbsorbFields
<1>3. Heap(y.blocks)
  BY <1>2, MergedHeap
<1>4. z.blocks[b].next # b
  BY NextIsBehind
<1>5. y.rover \in DOMAIN y.blocks
  BY <1>1, <1>2, <1>4 DEF Merged
<1> QED BY <1>2, <1>3, <1>5

(* The block that a freed one becomes a part of, what lies behind it then, *)
(* and the headers that are gone.                                          *)
Into(b)   == IF Free(blocks[b].prev) THEN blocks[b].prev ELSE b
Behind(b) == IF Free(blocks[b].next) THEN blocks[blocks[b].next].next ELSE blocks[b].next
Gone(b)   == (IF Free(blocks[b].prev) THEN {b} ELSE {})
               \cup (IF Free(blocks[b].next) THEN {blocks[b].next} ELSE {})

Freed(b, g) ==
  /\ Heap(g)
  /\ DOMAIN g = DOMAIN blocks \ Gone(b)
  /\ g[Into(b)].tag = PU_FREE /\ g[Into(b)].next = Behind(b)
  /\ g[Into(b)].prev = blocks[Into(b)].prev
  /\ g[Into(b)].user = IF Into(b) = b THEN NULL ELSE blocks[Into(b)].user
  /\ \A a \in DOMAIN g \ {Into(b)} :
       /\ g[a].tag = blocks[a].tag /\ g[a].user = blocks[a].user
       /\ g[a].next = blocks[a].next /\ g[a].size = blocks[a].size

LEMMA FreeIsFreed ==
  ASSUME Heap(blocks), rover \in DOMAIN blocks,
         NEW b \in DOMAIN blocks, b # blocklist, ~Free(b),
         NEW z, z = Z_Free(b)
  PROVE  Freed(b, z.blocks) /\ z.rover \in DOMAIN z.blocks
<1> DEFINE p == blocks[b].prev
           o == blocks[b].next
           m == [blocks EXCEPT ![b].tag = PU_FREE, ![b].user = NULL]
           marked == [blocks |-> m, rover |-> rover]
<1>1. /\ Heap(m) /\ SameRing(blocks, m) /\ m[b].tag = PU_FREE /\ m[b].user = NULL
      /\ \A a \in DOMAIN blocks : a # b => m[a] = blocks[a]
  <2>1. PU_FREE \in Tags
    BY DEF Tags
  <2> HIDE DEF m
  <2>2. m = Set(blocks, b, PU_FREE, NULL)
    BY DEF m, Set
  <2>3. NULL \in Lumps \cup {NULL}
    OBVIOUS
  <2> QED BY <2>1, <2>2, <2>3, SetHeap
<1>2. marked.blocks = m /\ marked.rover = rover
  OBVIOUS
<1>3. /\ o \in DOMAIN blocks /\ p \in DOMAIN blocks /\ o # b /\ p # b
      /\ blocks[p].next = b /\ blocks[o].prev = b
  BY NextIsBehind DEF Heap, Linked
<1>4. ~Free(blocklist)
  BY DEF Heap, Free, PU_STATIC, PU_FREE
<1>5. (Free(p) \/ Free(o)) => o # p
  <2>1. SUFFICES ASSUME o = p, o # blocklist PROVE FALSE
    BY <1>4
  <2>2. b < o /\ p < b /\ b \in Nat /\ o \in Nat
    BY <2>1, <1>3, NextIsBehind DEF Heap
  <2> QED BY <2>1, <2>2
<1>6. z = IF Free(p) THEN AbsorbNext(Absorb(marked, p), p) ELSE AbsorbNext(marked, b)
  BY DEF Z_Free
<1>7. /\ DOMAIN m = DOMAIN blocks
      /\ \A a \in DOMAIN blocks : /\ m[a].size = blocks[a].size
                                  /\ m[a].next = blocks[a].next
                                  /\ m[a].prev = blocks[a].prev
  BY <1>1 DEF SameRing
<1> HIDE DEF p, o, m, marked
<1>8. CASE Free(p)
  <2> DEFINE y == Absorb(marked, p)
  <2>1. p # blocklist /\ m[p].next = b /\ m[b].next = o
    BY <1>3, <1>4, <1>7, <1>8 DEF o
  <2>2. Heap(y.blocks) /\ Merged(m, p, y.blocks) /\ y.rover \in DOMAIN y.blocks
    <3> HIDE DEF y
    <3>1. y = Absorb(marked, p)
      BY DEF y
    <3> QED BY <3>1, <2>1, <1>1, <1>2, <1>3, <1>7, AbsorbSound
  <2> HIDE DEF y
  <2>3. /\ DOMAIN y.blocks = DOMAIN blocks \ {b}
        /\ y.blocks[p].tag = PU_FREE /\ y.blocks[p].next = o
        /\ y.blocks[p].prev = blocks[p].prev
        /\ y.blocks[p].user = blocks[p].user
        /\ \A a \in DOMAIN y.blocks \ {p} :
             /\ y.blocks[a].tag = blocks[a].tag /\ y.blocks[a].user = blocks[a].user
             /\ y.blocks[a].next = blocks[a].next /\ y.blocks[a].size = blocks[a].size
    <3>1. DOMAIN y.blocks = DOMAIN blocks \ {b}
      BY <2>1, <2>2, <1>7 DEF Merged
    <3>2. p \in DOMAIN y.blocks /\ p # o
      BY <3>1, <1>3, <1>5, <1>8
    <3>3. /\ y.blocks[p].tag = m[p].tag /\ y.blocks[p].next = o
          /\ y.blocks[p].prev = m[p].prev /\ y.blocks[p].user = m[p].user
      BY <3>2, <2>1, <2>2 DEF Merged
    <3>4. m[p] = blocks[p] /\ blocks[p].tag = PU_FREE
      BY <1>1, <1>3, <1>8 DEF Free
    <3>5. ASSUME NEW a \in DOMAIN y.blocks \ {p}
          PROVE  /\ y.blocks[a].tag = blocks[a].tag /\ y.blocks[a].user = blocks[a].user
                 /\ y.blocks[a].next = blocks[a].next /\ y.blocks[a].size = blocks[a].size
      <4>1. m[a] = blocks[a]
        BY <3>1, <1>1
      <4> QED BY <4>1, <2>2 DEF Merged
    <3> QED BY <3>1, <3>3, <3>4, <3>5
  <2>4. Into(b) = p
    BY <1>8 DEF Into, p
  <2>5. z = IF y.blocks[o].tag = PU_FREE THEN Absorb(y, p) ELSE y
    BY <2>3, <1>6, <1>8 DEF AbsorbNext, y
  <2>6. y.blocks[o].tag = blocks[o].tag
    BY <2>3, <1>3, <1>5, <1>8
  <2>7. CASE Free(o)
    <3>1. o # blocklist /\ z = Absorb(y, p) /\ o # p
      BY <2>5, <2>6, <2>7, <1>4, <1>5 DEF Free
    <3>2. p \in DOMAIN y.blocks /\ o \in DOMAIN y.blocks
      BY <2>3, <1>3
    <3>3. Heap(z.blocks) /\ Merged(y.blocks, p, z.blocks) /\ z.rover \in DOMAIN z.blocks
      BY <3>1, <3>2, <2>1, <2>2, <2>3, AbsorbSound
    <3>4. Gone(b) = {b, o} /\ Behind(b) = blocks[o].next
      BY <2>7, <1>3, <1>8 DEF Gone, Behind, p, o
    <3>5. DOMAIN z.blocks = DOMAIN blocks \ {b, o} /\ p \in DOMAIN z.blocks
      BY <3>1, <3>2, <3>3, <2>3 DEF Merged
    <3>6. y.blocks[o].next = blocks[o].next /\ y.blocks[o].next # p
      <4>1. y.blocks[o].next = blocks[o].next
        BY <3>1, <3>2, <2>3
      <4>2. p < o /\ o \in Nat /\ p \in Nat
        BY <3>1, <3>2, <2>1, <2>2, <2>3, NextIsBehind DEF Heap
      <4>3. y.blocks[o].next # blocklist => o < y.blocks[o].next
        BY <3>1, <3>2, <2>2, NextIsBehind
      <4> QED BY <4>1, <4>2, <4>3, <2>1
    <3>7. /\ z.blocks[p].tag = PU_FREE /\ z.blocks[p].next = blocks[o].next
          /\ z.blocks[p].prev = blocks[p].prev /\ z.blocks[p].user = blocks[p].user
      BY <3>3, <3>5, <3>6, <2>3 DEF Merged
    <3>8. \A a \in DOMAIN z.blocks \ {p} :
            /\ z.blocks[a].tag = blocks[a].tag /\ z.blocks[a].user = blocks[a].user
            /\ z.blocks[a].next = blocks[a].next /\ z.blocks[a].size = blocks[a].size
      BY <3>3, <3>5, <2>3 DEF Merged
    <3> QED BY <3>3, <3>4, <3>5, <3>7, <3>8, <2>1, <2>4, <1>3 DEF Freed
  <2>8. CASE ~Free(o)
    <3>1. z = y
      BY <2>5, <2>6, <2>8 DEF Free
    <3>2. Gone(b) = {b}
      BY <2>8, <1>3, <1>8 DEF Gone, p, o
    <3>3. Behind(b) = o
      BY <2>8 DEF Behind, o
    <3> QED BY <3>1, <3>2, <3>3, <2>2, <2>3, <2>4, <1>3 DEF Freed
  <2> QED BY <2>7, <2>8
<1>9. CASE ~Free(p)
  <2>1. Into(b) = b /\ m[b].next = o /\ m[b].prev = blocks[b].prev
    BY <1>9, <1>7 DEF Into, p, o
  <2>2. z = IF m[o].tag = PU_FREE THEN Absorb(marked, b) ELSE marked
    BY <2>1, <1>2, <1>6, <1>9 DEF AbsorbNext
  <2>3. m[o] = blocks[o]
    BY <1>1, <1>3
  <2>4. CASE Free(o)
    <3>1. o # blocklist /\ z = Absorb(marked, b)
      BY <2>2, <2>3, <2>4, <1>4 DEF Free
    <3>2. Heap(z.blocks) /\ Merged(m, b, z.blocks) /\ z.rover \in DOMAIN z.blocks
      BY <3>1, <2>1, <1>1, <1>2, <1>7, AbsorbSound
    <3>3. Gone(b) = {o} /\ Behind(b) = blocks[o].next
      BY <2>4, <1>3, <1>9 DEF Gone, Behind, p, o
    <3>4. DOMAIN z.blocks = DOMAIN blocks \ {o} /\ b \in DOMAIN z.blocks
      BY <3>2, <2>1, <1>3, <1>7 DEF Merged
    <3>5. blocks[o].next # b
      <4>1. b < o /\ o \in Nat /\ b \in Nat
        BY <3>1, <1>3, NextIsBehind DEF Heap, o
      <4>2. blocks[o].next # blocklist => o < blocks[o].next
        BY <3>1, <1>3, NextIsBehind
      <4> QED BY <4>1, <4>2
    <3>6. /\ z.blocks[b].tag = PU_FREE /\ z.blocks[b].next = blocks[o].next
          /\ z.blocks[b].prev = blocks[b].prev /\ z.blocks[b].user = NULL
      BY <3>2, <3>4, <3>5, <2>1, <2>3, <1>1 DEF Merged
    <3>7. \A a \in DOMAIN z.blocks \ {b} :
            /\ z.blocks[a].tag = blocks[a].tag /\ z.blocks[a].user = blocks[a].user
            /\ z.blocks[a].next = blocks[a].next /\ z.blocks[a].size = blocks[a].size
      BY <3>2, <3>4, <1>1 DEF Merged
    <3> QED BY <3>2, <3>3, <3>4, <3>6, <3>7, <2>1 DEF Freed
  <2>5. CASE ~Free(o)
    <3>1. z.blocks = m /\ z.rover = rover
      BY <2>2, <2>3, <2>5, <1>2 DEF Free
    <3>2. Gone(b) = {} /\ Behind(b) = o
      BY <2>5, <1>3, <1>9 DEF Gone, Behind, p, o
    <3> QED BY <3>1, <3>2, <2>1, <1>1, <1>7 DEF Freed
  <2> QED BY <2>4, <2>5
<1> QED BY <1>8, <1>9
(* What else is known of the heap after Z_Free.                            *)
LEMMA FreedKeeps ==
  ASSUME Heap(blocks), NoTwoFree(blocks),
         NEW b \in DOMAIN blocks, b # blocklist, ~Free(b), NEW g, Freed(b, g)
  PROVE  /\ NoTwoFree(g)
         /\ Into(b) \in DOMAIN g /\ Into(b) # blocklist
         /\ Behind(b) \in DOMAIN g /\ g[Behind(b)].tag # PU_FREE
         /\ \A a \in DOMAIN g : a \in DOMAIN blocks
         /\ \A a \in DOMAIN g : a # Into(b) => a # b
         /\ \A a \in DOMAIN blocks : ~Free(a) /\ a # b =>
              /\ a \in DOMAIN g /\ a # Into(b)
              /\ g[a].tag = blocks[a].tag /\ g[a].user = blocks[a].user
              /\ g[a].size = blocks[a].size /\ g[a].next = blocks[a].next
<1> DEFINE p == blocks[b].prev
           o == blocks[b].next
           i == Into(b)
           n == Behind(b)
<1>1. /\ o \in DOMAIN blocks /\ p \in DOMAIN blocks /\ o # b /\ p # b
      /\ blocks[p].next = b /\ blocks[o].prev = b
  BY NextIsBehind DEF Heap, Linked
<1>2. ~Free(blocklist)
  BY DEF Heap, Free, PU_STATIC, PU_FREE
<1>3. i \in {b, p} /\ i \in DOMAIN blocks /\ i # blocklist
      /\ (i = b => ~Free(p)) /\ (i = p => Free(p))
  BY <1>1, <1>2 DEF Into
<1>4. /\ Heap(g) /\ DOMAIN g = DOMAIN blocks \ Gone(b)
      /\ g[i].tag = PU_FREE /\ g[i].next = n /\ g[i].prev = blocks[i].prev
      /\ \A a \in DOMAIN g \ {i} :
           /\ g[a].tag = blocks[a].tag /\ g[a].user = blocks[a].user
           /\ g[a].next = blocks[a].next /\ g[a].size = blocks[a].size
  BY DEF Freed
<1>5. \A a \in Gone(b) : (a = b /\ i # b) \/ (a = o /\ Free(o))
  BY <1>1 DEF Gone, Into
<1>6. Free(o) => o # p
  <2>1. SUFFICES ASSUME o = p, o # blocklist PROVE FALSE
    BY <1>2
  <2>2. b < o /\ p < b /\ b \in Nat /\ o \in Nat
    BY <2>1, <1>1, NextIsBehind DEF Heap
  <2> QED BY <2>1, <2>2
<1>7. i \in DOMAIN g
  BY <1>1, <1>3, <1>4, <1>5, <1>6
<1>8. n \in DOMAIN g /\ n # i
  BY <1>3, <1>4, <1>7, NextIsBehind
<1>9. ~Free(n)
  <2>1. CASE Free(o)
    BY <2>1, <1>1 DEF NoTwoFree, Free, Behind
  <2>2. CASE ~Free(o)
    BY <2>2 DEF Behind
  <2> QED BY <2>1, <2>2
<1>10. g[n].tag # PU_FREE
  BY <1>4, <1>8, <1>9 DEF Free
<1>11. ASSUME NEW a \in DOMAIN blocks, ~Free(a), a # b
       PROVE  a \in DOMAIN g /\ a # i
  BY <1>3, <1>4, <1>5, <1>11
<1>12. ASSUME NEW a \in DOMAIN g, a # i
       PROVE  a # b
  <2>1. i # b => b \in Gone(b)
    BY <1>3 DEF Gone
  <2> QED BY <2>1, <1>4, <1>12
<1> HIDE DEF i, n, p, o
<1>13. ~Free(blocks[i].prev)
  <2>1. CASE i = b
    BY <2>1, <1>3 DEF p
  <2>2. CASE i = p
    <3>1. /\ blocks[i].prev \in DOMAIN blocks
          /\ blocks[blocks[i].prev].next = i
      BY <1>3, NextIsBehind DEF Heap, Linked
    <3> QED BY <3>1, <2>2, <1>3 DEF NoTwoFree, Free
  <2> QED BY <2>1, <2>2, <1>3
<1>14. NoTwoFree(g)
  <2> SUFFICES ASSUME NEW a \in DOMAIN g, g[a].tag = PU_FREE, g[g[a].next].tag = PU_FREE
      PROVE  FALSE
    BY DEF NoTwoFree
  <2>1. CASE a = i
    BY <2>1, <1>4, <1>10
  <2>2. CASE a # i
    <3>1. /\ a \in DOMAIN blocks /\ Free(a) /\ g[a].next = blocks[a].next
          /\ g[a].next \in DOMAIN g /\ g[g[a].next].prev = a
      BY <2>2, <1>4 DEF Heap, Linked, Free
    <3>2. ~Free(blocks[a].next)
      BY <3>1 DEF NoTwoFree, Free
    <3>3. g[a].next = i
      BY <3>1, <3>2, <1>4 DEF Free
    <3> QED BY <3>1, <3>3, <1>4, <1>13
  <2> QED BY <2>1, <2>2
<1> QED BY <1>3, <1>4, <1>7, <1>8, <1>10, <1>11, <1>12, <1>14 DEF i, n
-----------------------------------------------------------------------------
(* The cache and the heap: CacheCoherent, and that a lump is held at       *)
(* PU_STATIC and that no block of a level has a user.                      *)
Coherent(bs, ca, he) ==
  /\ ca \in [Lumps -> 1..ZoneSize \cup {NULL}]
  /\ he \in [Lumps -> 1..ZoneSize \cup {NULL}]
  /\ \A l \in Lumps :
       ca[l] # NULL => /\ ca[l] \in DOMAIN bs
                       /\ bs[ca[l]].user = l
                       /\ bs[ca[l]].size >= LumpSize[l]
  /\ \A b \in DOMAIN bs : /\ bs[b].user # NULL => ca[bs[b].user] = b
                          /\ bs[b].tag \in {PU_FREE, PU_LEVEL} => bs[b].user = NULL
                          /\ bs[b].tag = PU_CACHE => bs[b].user # NULL
  /\ \A l \in Lumps :
       he[l] # NULL => ca[l] = he[l] /\ bs[he[l]].tag = PU_STATIC

(* The heap between two steps of a scan.                                   *)
Sound == /\ Heap(blocks) /\ NoTwoFree(blocks) /\ rover \in DOMAIN blocks
         /\ Coherent(blocks, cache, held)

(* Z_Free of a block that nobody holds.                                    *)
LEMMA FreesKeeps ==
  ASSUME Sound, NEW b \in DOMAIN blocks, b # blocklist, ~Free(b),
         blocks[b].user # NULL => held[blocks[b].user] = NULL,
         Frees(b), UNCHANGED held
  PROVE  Sound' /\ Freed(b, blocks')
<1> DEFINE u == blocks[b].user
<1>1. Freed(b, blocks') /\ rover' \in DOMAIN blocks'
  BY FreeIsFreed DEF Sound, Frees
<1>2. /\ NoTwoFree(blocks')
      /\ \A a \in DOMAIN blocks' : a \in DOMAIN blocks
      /\ \A a \in DOMAIN blocks' : a # Into(b) => a # b
      /\ \A a \in DOMAIN blocks : ~Free(a) /\ a # b =>
           /\ a \in DOMAIN blocks' /\ a # Into(b)
           /\ blocks'[a].tag = blocks[a].tag /\ blocks'[a].user = blocks[a].user
           /\ blocks'[a].size = blocks[a].size
  BY <1>1, FreedKeeps DEF Sound
<1>3. cache' = IF u = NULL THEN cache ELSE [cache EXCEPT ![u] = NULL]
  BY DEF Frees, UserCleared
<1>4. u \in Lumps \cup {NULL}
  BY DEF Sound, Heap, Block
<1>5. Coherent(blocks, cache, held) /\ held' = held
  BY DEF Sound
<1>6. u # NULL => cache[u] = b
  BY <1>5 DEF Coherent
<1> HIDE DEF u
<1>7. cache' \in [Lumps -> 1..ZoneSize \cup {NULL}]
  BY <1>3, <1>5 DEF Coherent
<1>8. \A l \in Lumps : cache'[l] = IF l = u THEN NULL ELSE cache[l]
  BY <1>3, <1>4, <1>5, ZoneAssumption DEF Coherent
<1>9. ASSUME NEW l \in Lumps, cache'[l] # NULL
      PROVE  /\ cache'[l] = cache[l] /\ cache[l] \in DOMAIN blocks
             /\ ~Free(cache[l]) /\ cache[l] # b
  <2>1. /\ cache'[l] = cache[l] /\ l # u /\ cache[l] \in DOMAIN blocks
        /\ blocks[cache[l]].user = l
    BY <1>5, <1>8, <1>9 DEF Coherent
  <2>2. ~Free(cache[l])
    BY <2>1, <1>5, ZoneAssumption DEF Coherent, Free
  <2>3. cache[l] # b
    BY <2>1 DEF u
  <2> QED BY <2>1, <2>2, <2>3
<1>10. ASSUME NEW l \in Lumps, cache'[l] # NULL
       PROVE  /\ cache'[l] \in DOMAIN blocks'
              /\ blocks'[cache'[l]].user = l
              /\ blocks'[cache'[l]].size >= LumpSize[l]
  BY <1>2, <1>5, <1>9, <1>10 DEF Coherent
<1>11. ASSUME NEW a \in DOMAIN blocks'
       PROVE  /\ blocks'[a].user # NULL => cache'[blocks'[a].user] = a
              /\ blocks'[a].tag \in {PU_FREE, PU_LEVEL} => blocks'[a].user = NULL
              /\ blocks'[a].tag = PU_CACHE => blocks'[a].user # NULL
  <2>1. CASE a = Into(b)
    <3>1. blocks'[a].tag = PU_FREE
      BY <2>1, <1>1 DEF Freed
    <3>2. blocks'[a].user = NULL
      <4>1. CASE Into(b) = b
        BY <4>1, <2>1, <1>1 DEF Freed
      <4>2. CASE Into(b) # b
        <5>1. Free(Into(b)) /\ Into(b) \in DOMAIN blocks
          BY <4>2, <2>1, <1>2 DEF Into
        <5>2. blocks[Into(b)].user = NULL
          BY <5>1, <1>5 DEF Coherent, Free
        <5> QED BY <5>2, <4>2, <2>1, <1>1 DEF Freed
      <4> QED BY <4>1, <4>2
    <3> QED BY <3>1, <3>2 DEF PU_FREE, PU_CACHE
  <2>2. CASE a # Into(b)
    <3>1. /\ a # b /\ a \in DOMAIN blocks
          /\ blocks'[a].tag = blocks[a].tag /\ blocks'[a].user = blocks[a].user
      BY <2>2, <1>1, <1>2 DEF Freed
    <3>2. ASSUME blocks[a].user # NULL
          PROVE  cache'[blocks[a].user] = a
      <4>1. cache[blocks[a].user] = a
        BY <3>1, <3>2, <1>5 DEF Coherent
      <4>2. blocks[a].user \in Lumps /\ blocks[a].user # u
        <5>1. blocks[a].user \in Lumps
          BY <3>1, <3>2 DEF Sound, Heap, Block
        <5> QED BY <5>1, <4>1, <3>1, <1>6, <3>2
      <4> QED BY <4>1, <4>2, <1>8
    <3> QED BY <3>1, <3>2, <1>5 DEF Coherent
  <2> QED BY <2>1, <2>2
<1>12. ASSUME NEW l \in Lumps, held'[l] # NULL
       PROVE  cache'[l] = held'[l] /\ blocks'[held'[l]].tag = PU_STATIC
  <2>1. cache[l] = held[l] /\ blocks[held[l]].tag = PU_STATIC /\ held[l] # NULL
    BY <1>5, <1>12 DEF Coherent
  <2>2. l # u
    BY <2>1, ZoneAssumption DEF u
  <2>3. cache'[l] = held'[l]
    BY <2>1, <2>2, <1>5, <1>8
  <2> QED BY <2>1, <2>3, <1>2, <1>5, <1>9
<1>13. Coherent(blocks', cache', held')
  <2>1. held' \in [Lumps -> 1..ZoneSize \cup {NULL}]
    BY <1>5 DEF Coherent
  <2> QED BY <2>1, <1>7, <1>10, <1>11, <1>12 DEF Coherent
<1> QED BY <1>1, <1>2, <1>13 DEF Sound, Freed-----------------------------------------------------------------------------
(* The block found is cut to size, or not.                                 *)
CutIn(b, size, g) ==
  LET new == b + size
  IN /\ DOMAIN g = DOMAIN blocks \cup {new} /\ new \notin DOMAIN blocks
     /\ g[new].tag = PU_FREE /\ g[new].user = NULL
     /\ g[new].next = blocks[b].next /\ g[b].next = new
     /\ \A a \in DOMAIN blocks \ {b} : g[a].next = blocks[a].next

CutOr(b, size, g) ==
  /\ Heap(g)
  /\ \A a \in DOMAIN blocks : /\ a \in DOMAIN g
                              /\ g[a].tag = blocks[a].tag /\ g[a].user = blocks[a].user
                              /\ a # b => g[a].size = blocks[a].size
  /\ g[b].size >= size
  /\ g = blocks \/ CutIn(b, size, g)

LEMMA CutHeap ==
  ASSUME Heap(blocks), NEW b \in DOMAIN blocks, b # blocklist,
         NEW size \in Nat \ {0}, size <= blocks[b].size
  PROVE  CutOr(b, size, Cut(b, size))
<1> DEFINE extra == blocks[b].size - size
           new   == b + size
           next  == blocks[b].next
           g     == [a \in DOMAIN blocks \cup {new} |->
                       IF a = new THEN [size |-> extra, tag |-> PU_FREE, user |-> NULL,
                                        next |-> next, prev |-> b]
                       ELSE IF a = b THEN [blocks[b] EXCEPT !.size = size, !.next = new]
                       ELSE IF a = next THEN [blocks[a] EXCEPT !.prev = new]
                       ELSE blocks[a]]
<1>1. /\ \A a \in DOMAIN blocks : blocks[a] \in Block /\ a \in Nat
      /\ b \in Nat /\ blocks[b].size \in Nat /\ b + blocks[b].size <= ZoneSize + 1
      /\ next \in DOMAIN blocks /\ next # b /\ blocks[next].prev = b
      /\ b + blocks[b].size = IF next = blocklist THEN ZoneSize + 1 ELSE next
  <2>1. \A a \in DOMAIN blocks : blocks[a] \in Block /\ a \in Nat
    BY DEF Heap
  <2>2. /\ b \in Nat /\ blocks[b].size \in Nat /\ b + blocks[b].size <= ZoneSize + 1
        /\ next \in DOMAIN blocks /\ next # b
    BY NextIsBehind
  <2>3. blocks[next].prev = b
    BY DEF Heap, Linked
  <2>4. b + blocks[b].size = IF next = blocklist THEN ZoneSize + 1 ELSE next
    BY DEF Heap, Touching
  <2> QED BY <2>1, <2>2, <2>3, <2>4
<1>2. CASE extra <= MINFRAGMENT
  <2>1. Cut(b, size) = blocks
    BY <1>2 DEF Cut
  <2> QED BY <2>1, <1>1 DEF CutOr
<1>3. CASE ~(extra <= MINFRAGMENT)
  <2>1. Cut(b, size) = g
    BY <1>3 DEF Cut
  <2>2. /\ extra \in Nat \ {0} /\ new \in Nat /\ b < new /\ new < b + blocks[b].size
        /\ new + extra = b + blocks[b].size
    BY <1>1, <1>3, ZoneAssumption
  <2>3. new \notin DOMAIN blocks /\ new \in 1..ZoneSize
    <3>1. ASSUME new \in DOMAIN blocks PROVE FALSE
      <4>1. new # blocklist
        BY <2>2, <1>1 DEF blocklist
      <4>2. b + blocks[b].size <= new
        BY <4>1, <3>1, <2>2 DEF Heap, Apart
      <4> QED BY <4>2, <2>2, <1>1
    <3> QED BY <3>1, <2>2, <1>1, ZoneAssumption
  <2>4. /\ DOMAIN g = DOMAIN blocks \cup {new}
        /\ g[new] = [size |-> extra, tag |-> PU_FREE, user |-> NULL,
                     next |-> next, prev |-> b]
        /\ g[b] = [blocks[b] EXCEPT !.size = size, !.next = new]
        /\ g[next] = [blocks[next] EXCEPT !.prev = new]
        /\ \A a \in DOMAIN blocks : a # b /\ a # next => g[a] = blocks[a]
    BY <2>3, <1>1
  <2> HIDE DEF g
  <2>5. /\ g[new] \in Block /\ g[new].size = extra /\ g[new].tag = PU_FREE
        /\ g[new].user = NULL /\ g[new].next = next /\ g[new].prev = b
    BY <2>2, <2>4, <1>1 DEF Block, Tags
  <2>6. /\ g[b] \in Block /\ g[b].size = size /\ g[b].tag = blocks[b].tag
        /\ g[b].user = blocks[b].user /\ g[b].next = new /\ g[b].prev = blocks[b].prev
    BY <2>2, <2>4, <1>1 DEF Block
  <2>7. /\ g[next] \in Block /\ g[next].size = blocks[next].size
        /\ g[next].tag = blocks[next].tag /\ g[next].user = blocks[next].user
        /\ g[next].next = blocks[next].next /\ g[next].prev = new
    BY <2>2, <2>4, <1>1 DEF Block
  <2>8. \A a \in DOMAIN blocks :
          /\ g[a] \in Block
          /\ g[a].size = IF a = b THEN size ELSE blocks[a].size
          /\ g[a].tag = blocks[a].tag /\ g[a].user = blocks[a].user
          /\ g[a].next = IF a = b THEN new ELSE blocks[a].next
          /\ g[a].prev = IF a = next THEN new ELSE blocks[a].prev
    BY <2>4, <2>6, <2>7, <1>1
  <2> HIDE DEF extra, new, next
  <2>9. /\ DOMAIN g \subseteq 0..ZoneSize /\ blocklist \in DOMAIN g
        /\ \A a \in DOMAIN g : g[a] \in Block
        /\ g[blocklist].tag = PU_STATIC
    BY <2>3, <2>4, <2>5, <2>8 DEF Heap
  <2>10. \A a \in DOMAIN g \ {blocklist} : g[a].size > 0
    BY <2>2, <2>4, <2>5, <2>8 DEF Heap
  <2>11. Linked(g)
    <3> SUFFICES ASSUME NEW a \in DOMAIN g
        PROVE  /\ g[a].next \in DOMAIN g /\ g[a].prev \in DOMAIN g
               /\ g[g[a].next].prev = a /\ g[g[a].prev].next = a
      BY DEF Linked
    <3>1. CASE a = new
      BY <3>1, <2>4, <2>5, <2>6, <2>7, <1>1
    <3>2. CASE a # new
      <4>1. /\ a \in DOMAIN blocks
            /\ blocks[a].next \in DOMAIN blocks /\ blocks[a].prev \in DOMAIN blocks
            /\ blocks[blocks[a].next].prev = a /\ blocks[blocks[a].prev].next = a
        BY <3>2, <2>4 DEF Heap, Linked
      <4>2. g[a].next \in DOMAIN g /\ g[g[a].next].prev = a
        <5>1. CASE a = b
          BY <5>1, <2>4, <2>5, <2>6
        <5>2. CASE a # b
          <6>1. blocks[a].next # next
            BY <5>2, <4>1, <1>1
          <6> QED BY <6>1, <5>2, <4>1, <2>4, <2>8
        <5> QED BY <5>1, <5>2
      <4>3. g[a].prev \in DOMAIN g /\ g[g[a].prev].next = a
        <5>1. CASE a = next
          BY <5>1, <2>4, <2>5, <2>7
        <5>2. CASE a # next
          <6>1. blocks[a].prev # b
            BY <5>2, <4>1 DEF next
          <6> QED BY <6>1, <5>2, <4>1, <2>4, <2>8
        <5> QED BY <5>1, <5>2
      <4> QED BY <4>2, <4>3
    <3> QED BY <3>1, <3>2
  <2>12. Touching(g)
    <3> SUFFICES ASSUME NEW a \in DOMAIN g, a # blocklist
        PROVE  a + g[a].size = IF g[a].next = blocklist THEN ZoneSize + 1 ELSE g[a].next
      BY DEF Touching
    <3>1. CASE a = new
      BY <3>1, <2>2, <2>5, <1>1
    <3>2. CASE a = b
      <4>1. new # blocklist /\ g[b].next = new /\ g[b].size = size
        BY <2>3, <2>6 DEF blocklist
      <4> QED BY <4>1, <3>2 DEF new
    <3>3. CASE a # new /\ a # b
      BY <3>3, <2>4, <2>8 DEF Heap, Touching
    <3> QED BY <3>1, <3>2, <3>3
  <2>13. Apart(g)
    <3> SUFFICES ASSUME NEW a \in DOMAIN g, a # blocklist,
                        NEW c \in DOMAIN g, c # blocklist, a < c
        PROVE  a + g[a].size <= c
      BY DEF Apart
    <3>1. a \in Nat /\ c \in Nat
      BY <2>9
    <3>2. ASSUME a \in DOMAIN blocks, c \in DOMAIN blocks
          PROVE  a + blocks[a].size <= c /\ blocks[a].size \in Nat
      BY <3>2, <1>1 DEF Heap, Apart, Block
    <3>3. CASE a = new
      <4>1. c \in DOMAIN blocks /\ b < c
        BY <3>1, <3>3, <2>2, <2>4, <1>1
      <4>2. b + blocks[b].size <= c
        BY <4>1 DEF Heap, Apart
      <4> QED BY <4>2, <3>3, <2>2, <2>5
    <3>4. CASE c = new /\ a # new
      <4>2. a \in DOMAIN blocks
        BY <3>4, <2>4
      <4>3. CASE a = b
        <5>1. g[a].size = size /\ c = b + size
          BY <4>3, <3>4, <2>6 DEF new
        <5> QED BY <5>1, <4>3, <1>1
      <4>4. CASE a < b
        <5>1. a + blocks[a].size <= b /\ blocks[a].size \in Nat
          BY <4>2, <4>4, <1>1 DEF Heap, Apart, Block
        <5>2. g[a].size = blocks[a].size
          BY <4>2, <4>4, <3>1, <2>8, <1>1
        <5> QED BY <5>1, <5>2, <3>1, <3>4, <2>2, <1>1
      <4>5. CASE a > b
        <5>1. b + blocks[b].size <= a
          BY <4>2, <4>5, <1>1 DEF Heap, Apart
        <5> QED BY <5>1, <3>1, <3>4, <2>2, <1>1
      <4> QED BY <4>3, <4>4, <4>5, <3>1, <1>1
    <3>5. CASE c # new /\ a # new
      <4>1. a \in DOMAIN blocks /\ c \in DOMAIN blocks
        BY <3>5, <2>4
      <4>2. CASE a = b
        BY <4>1, <4>2, <3>1, <3>2, <2>6
      <4>3. CASE a # b
        BY <4>1, <4>3, <3>2, <2>8
      <4> QED BY <4>2, <4>3
    <3> QED BY <3>3, <3>4, <3>5
  <2>14. Heap(g)
    BY <2>9, <2>10, <2>11, <2>12, <2>13 DEF Heap
  <2>15. CutIn(b, size, g)
    BY <2>3, <2>4, <2>5, <2>6, <2>8 DEF CutIn, new, next
  <2> QED BY <2>1, <2>4, <2>6, <2>8, <2>14, <2>15 DEF CutOr
<1> QED BY <1>2, <1>3-----------------------------------------------------------------------------
(* The call that is under way.                                             *)
ScanCalls(bs) ==
  [op : {"malloc", "found"}, size : Nat \ {0}, tag : {PU_STATIC, PU_LEVEL, PU_CACHE},
   user : Lumps \cup {NULL}, base : DOMAIN bs, rover : DOMAIN bs, start : DOMAIN bs]

TagCalls(bs) ==
  [op : {"freetags"}, low : {PU_LEVEL}, high : {PU_PURGELEVEL - 1}, block : DOMAIN bs]

(* base lies behind a block that is not free; it is free itself, and then  *)
(* the scan looks at it or at the next, or it is what the scan looks at.   *)
ScanAt(bs, base, scan, start) ==
  /\ base \in DOMAIN bs /\ scan \in DOMAIN bs
  /\ start \in DOMAIN bs /\ bs[start].tag # PU_FREE
  /\ bs[bs[base].prev].tag # PU_FREE
  /\ IF bs[base].tag = PU_FREE THEN scan \in {base, bs[base].next} ELSE scan = base

(* Who wants the block has nothing cached yet.                             *)
Wants(c, ca, he) ==
  /\ c.user = NULL => c.tag # PU_CACHE
  /\ c.user # NULL => /\ c.size = LumpSize[c.user] /\ c.tag # PU_LEVEL
                      /\ ca[c.user] = NULL /\ he[c.user] = NULL

ScanCall(c, bs, ca, he) ==
  /\ c \in ScanCalls(bs)
  /\ ScanAt(bs, c.base, c.rover, c.start)
  /\ Wants(c, ca, he)
  /\ c.op = "found" => Fits(c.size, bs, c.base)

CallSound(c, bs, ca, he) ==
  \/ c = Returned
  \/ c = [op |-> "I_Error"]
  \/ c \in TagCalls(bs)
  \/ ScanCall(c, bs, ca, he)

ZoneInv == Sound /\ CallSound(call, blocks, cache, held)

(* The operation tells the call.                                           *)
LEMMA CallByOp ==
  ASSUME CallSound(call, blocks, cache, held)
  PROVE  /\ call.op \in {"malloc", "found"} => ScanCall(call, blocks, cache, held)
         /\ call.op = "freetags" => call \in TagCalls(blocks)
BY DEF CallSound, ScanCall, ScanCalls, TagCalls, Returned

(* A round of the scan ends where it may.                                  *)
LEMMA ContinueKeeps ==
  ASSUME ScanCall(call, blocks, cache, held),
         NEW base, NEW scan, ScanAt(blocks', base, scan, call.start),
         Continue(base, scan), UNCHANGED held,
         \A l \in Lumps : cache[l] = NULL => cache'[l] = NULL
  PROVE  ScanCall(call', blocks', cache', held')
<1>1. /\ base \in DOMAIN blocks' /\ scan \in DOMAIN blocks' /\ call.start \in DOMAIN blocks'
      /\ call \in ScanCalls(blocks)
  BY DEF ScanCall, ScanAt
<1> DEFINE op == IF Fits(call.size, blocks', base) THEN "found" ELSE "malloc"
<1>2. call' = [call EXCEPT !.base = base, !.rover = scan, !.op = op]
  BY DEF Continue
<1>3. op \in {"malloc", "found"} /\ (op = "found" => Fits(call.size, blocks', base))
  OBVIOUS
<1> HIDE DEF op
<1>4. /\ call' \in ScanCalls(blocks')
      /\ call'.base = base /\ call'.rover = scan /\ call'.op = op
      /\ call'.start = call.start /\ call'.size = call.size
      /\ call'.tag = call.tag /\ call'.user = call.user
  BY <1>1, <1>2, <1>3 DEF ScanCalls
<1>5. Wants(call', cache', held')
  BY <1>1, <1>4 DEF Wants, ScanCall, ScanCalls
<1> QED BY <1>3, <1>4, <1>5 DEF ScanCall

LEMMA ScanFailsKeeps ==
  ASSUME ZoneInv, ScanFails
  PROVE  ZoneInv'
BY DEF ZoneInv, Sound, ScanFails, CallSound

LEMMA ScanUnpurgableKeeps ==
  ASSUME ZoneInv, ScanUnpurgable
  PROVE  ZoneInv'
<1> DEFINE s == call.rover
           n == blocks[s].next
<1>1. ScanCall(call, blocks, cache, held) /\ Sound
  BY CallByOp DEF ZoneInv, ScanUnpurgable
<1>2. /\ s \in DOMAIN blocks /\ blocks[s].tag # PU_FREE
      /\ n \in DOMAIN blocks /\ blocks[n].prev = s
  BY <1>1 DEF ScanUnpurgable, Free, ScanCall, ScanAt, Sound, Heap, Linked
<1> HIDE DEF n, s
<1>3. Continue(n, n) /\ UNCHANGED <<blocks, rover, cache, held>>
  BY DEF ScanUnpurgable, n, s
<1>4. ScanAt(blocks', n, n, call.start)
  BY <1>1, <1>2, <1>3 DEF ScanCall, ScanAt
<1>5. ScanCall(call', blocks', cache', held')
  BY <1>1, <1>3, <1>4, ContinueKeeps
<1> QED BY <1>1, <1>3, <1>5 DEF ZoneInv, Sound, CallSound

LEMMA ScanFreeKeeps ==
  ASSUME ZoneInv, ScanFree
  PROVE  ZoneInv'
<1>1. ScanCall(call, blocks, cache, held) /\ Sound
  BY CallByOp DEF ZoneInv, ScanFree
<1>2. ScanAt(blocks, call.base, call.rover, call.start) /\ blocks[call.rover].tag = PU_FREE
  BY <1>1 DEF ScanCall, ScanFree, Free
<1>3. blocks[call.base].tag = PU_FREE /\ call.rover = call.base
  BY <1>1, <1>2 DEF ScanAt, Sound, NoTwoFree
<1>4. blocks[call.rover].next \in DOMAIN blocks
  BY <1>1, <1>2 DEF ScanAt, Sound, Heap, Linked
<1>5. Continue(call.base, blocks[call.rover].next) /\ UNCHANGED <<blocks, rover, cache, held>>
  BY DEF ScanFree
<1>6. ScanAt(blocks', call.base, blocks[call.rover].next, call.start)
  BY <1>2, <1>3, <1>4, <1>5 DEF ScanAt
<1>7. ScanCall(call', blocks', cache', held')
  BY <1>1, <1>5, <1>6, ContinueKeeps
<1> QED BY <1>1, <1>5, <1>7 DEF ZoneInv, Sound, CallSound

LEMMA ScanPurgableKeeps ==
  ASSUME ZoneInv, ScanPurgable
  PROVE  ZoneInv'
<1> DEFINE s == call.rover
           i == Into(s)
<1>1. ScanCall(call, blocks, cache, held) /\ Sound
  BY CallByOp DEF ZoneInv, ScanPurgable
<1>2. ScanAt(blocks, call.base, s, call.start)
  BY <1>1 DEF ScanCall
<1>3. /\ s \in DOMAIN blocks /\ s # blocklist /\ ~Free(s)
      /\ blocks[s].tag = PU_CACHE /\ call.start # s
  <2>1. s \in DOMAIN blocks /\ blocks[s].tag >= PU_PURGELEVEL /\ call.start # s
    BY <1>2 DEF ScanAt, ScanPurgable, Purgable, BackAtStart
  <2>2. blocks[s].tag \in Tags
    BY <1>1, <2>1 DEF Sound, Heap, Block
  <2> QED BY <1>1, <2>1, <2>2
      DEF Tags, PU_STATIC, PU_FREE, PU_LEVEL, PU_CACHE, PU_PURGELEVEL, Free, Sound, Heap
<1>4. blocks[s].user # NULL => held[blocks[s].user] = NULL
  <2>1. SUFFICES ASSUME blocks[s].user # NULL, held[blocks[s].user] # NULL
        PROVE  FALSE
    OBVIOUS
  <2>2. blocks[s].user \in Lumps
    BY <1>1, <1>3, <2>1 DEF Sound, Heap, Block
  <2>3. held[blocks[s].user] = s /\ blocks[s].tag = PU_STATIC
    BY <1>1, <1>3, <2>1, <2>2 DEF Sound, Coherent
  <2> QED BY <1>3, <2>3 DEF PU_STATIC, PU_CACHE
<1> DEFINE base == blocks'[blocks[call.base].prev].next
           scan == blocks'[base].next
<1>5. Frees(s) /\ UNCHANGED held /\ Continue(base, scan)
  BY DEF ScanPurgable
<1> HIDE DEF s, i, base, scan
<1>6. Sound' /\ Freed(s, blocks')
  BY <1>1, <1>3, <1>4, <1>5, FreesKeeps
<1>7. /\ i \in DOMAIN blocks' /\ Behind(s) \in DOMAIN blocks'
      /\ NoTwoFree(blocks') /\ Heap(blocks')
      /\ \A a \in DOMAIN blocks : ~Free(a) /\ a # s =>
           a \in DOMAIN blocks' /\ blocks'[a].tag = blocks[a].tag
  BY <1>1, <1>3, <1>6, FreedKeeps DEF Sound, i
<1>8. /\ blocks'[i].tag = PU_FREE /\ blocks'[i].next = Behind(s)
      /\ blocks'[i].prev = blocks[i].prev
  BY <1>6 DEF Freed, i
<1>9. blocks[call.base].prev = blocks[i].prev
  <2>1. CASE blocks[call.base].tag = PU_FREE
    <3>1. s = blocks[call.base].next /\ call.base \in DOMAIN blocks
      BY <1>2, <1>3, <2>1 DEF ScanAt, Free
    <3>2. blocks[s].prev = call.base
      BY <1>1, <3>1 DEF Sound, Heap, Linked
    <3> QED BY <3>2, <2>1 DEF i, Into, Free
  <2>2. CASE blocks[call.base].tag # PU_FREE
    <3>1. s = call.base /\ blocks[blocks[s].prev].tag # PU_FREE
      BY <1>2, <2>2 DEF ScanAt
    <3> QED BY <3>1 DEF i, Into, Free
  <2> QED BY <2>1, <2>2
<1>10. base = i /\ scan = Behind(s) /\ blocks'[blocks'[i].prev].tag # PU_FREE
  <2>1. blocks'[blocks'[i].prev].next = i /\ blocks'[i].prev \in DOMAIN blocks'
    BY <1>7 DEF Heap, Linked
  <2>2. base = i
    BY <2>1, <1>8, <1>9 DEF base
  <2> QED BY <2>1, <2>2, <1>7, <1>8 DEF scan, NoTwoFree
<1>11. call.start \in DOMAIN blocks' /\ blocks'[call.start].tag # PU_FREE
  BY <1>2, <1>3, <1>7 DEF ScanAt, Free
<1>12. ScanAt(blocks', base, scan, call.start)
  BY <1>7, <1>8, <1>10, <1>11 DEF ScanAt
<1>13. \A l \in Lumps : cache[l] = NULL => cache'[l] = NULL
  BY <1>1, <1>5 DEF Frees, UserCleared, Sound, Coherent
<1>14. ScanCall(call', blocks', cache', held')
  BY <1>1, <1>5, <1>12, <1>13, ContinueKeeps
<1> QED BY <1>6, <1>14 DEF ZoneInv, CallSound
LEMMA AllocateKeeps ==
  ASSUME ZoneInv, Allocate
  PROVE  ZoneInv'
<1> DEFINE b    == call.base
           u    == call.user
           size == call.size
           g    == Cut(b, size)
<1>1. ScanCall(call, blocks, cache, held) /\ Sound /\ call.op = "found"
  BY CallByOp DEF ZoneInv, Allocate
<1>2. /\ b \in DOMAIN blocks /\ blocks[b].tag = PU_FREE /\ blocks[b].size >= size
      /\ size \in Nat \ {0} /\ u \in Lumps \cup {NULL}
      /\ call.tag \in {PU_STATIC, PU_LEVEL, PU_CACHE}
  BY <1>1 DEF ScanCall, ScanCalls, ScanAt, Fits
<1>3. b # blocklist /\ blocks[b].user = NULL /\ b \in 1..ZoneSize
  BY <1>1, <1>2 DEF Sound, Heap, Coherent, PU_STATIC, PU_FREE, blocklist
<1>4. blocks[b].size \in Nat
  BY <1>1, <1>2 DEF Sound, Heap, Block
<1>5. CutOr(b, size, g)
  BY <1>1, <1>2, <1>3, <1>4, CutHeap DEF Sound
<1>6. /\ blocks' = Set(g, b, call.tag, u) /\ rover' = g[b].next
      /\ call' = Returned
      /\ IF u = NULL THEN UNCHANGED <<cache, held>>
         ELSE /\ cache' = [cache EXCEPT ![u] = b]
              /\ held' = IF call.tag = PU_STATIC THEN [held EXCEPT ![u] = b] ELSE held
  BY DEF Allocate, Set, Holds
<1> HIDE DEF g, b, u, size
<1>7. /\ Heap(g) /\ b \in DOMAIN g /\ g[b].size >= size
      /\ \A a \in DOMAIN blocks : /\ a \in DOMAIN g
                                  /\ g[a].tag = blocks[a].tag /\ g[a].user = blocks[a].user
                                  /\ a # b => g[a].size = blocks[a].size
  BY <1>2, <1>5 DEF CutOr
<1>8. call.tag \in Tags /\ call.tag # PU_FREE
  BY <1>2 DEF Tags, PU_STATIC, PU_FREE, PU_LEVEL, PU_CACHE
<1>9. /\ Heap(blocks') /\ SameRing(g, blocks') /\ blocks'[b].tag = call.tag
      /\ blocks'[b].user = u
      /\ \A a \in DOMAIN g : a # b => blocks'[a] = g[a]
  BY <1>2, <1>3, <1>6, <1>7, <1>8, SetHeap
<1>10. /\ DOMAIN blocks' = DOMAIN g /\ blocks'[b].size = g[b].size
       /\ \A a \in DOMAIN g : blocks'[a].next = g[a].next
  BY <1>7, <1>9 DEF SameRing
<1>11. \A a \in DOMAIN g : a \notin DOMAIN blocks =>
         CutIn(b, size, g) /\ a = b + size
  BY <1>5 DEF CutOr, CutIn
<1>12. NoTwoFree(blocks')
  <2> SUFFICES ASSUME NEW a \in DOMAIN blocks', blocks'[a].tag = PU_FREE,
                      blocks'[blocks'[a].next].tag = PU_FREE
      PROVE  FALSE
    BY DEF NoTwoFree
  <2> DEFINE n == blocks'[a].next
  <2>1. a # b /\ n # b /\ n = g[a].next /\ n \in DOMAIN g
    BY <1>8, <1>9, <1>10 DEF Heap, Linked
  <2>2. g[a].tag = PU_FREE /\ g[n].tag = PU_FREE
    BY <2>1, <1>9, <1>10
  <2>3. \A c \in DOMAIN blocks : blocks[c].next \in DOMAIN blocks
    BY <1>1 DEF Sound, Heap, Linked
  <2>4. CASE a \in DOMAIN blocks
    <3>1. n = blocks[a].next
      BY <2>1, <2>4, <1>5 DEF CutOr, CutIn
    <3> QED BY <3>1, <2>2, <2>3, <2>4, <1>1, <1>7 DEF Sound, NoTwoFree
  <2>5. CASE a \notin DOMAIN blocks
    <3>1. n = blocks[b].next
      BY <2>1, <2>5, <1>10, <1>11 DEF CutIn
    <3> QED BY <3>1, <2>2, <2>3, <1>1, <1>2, <1>7 DEF Sound, NoTwoFree
  <2> QED BY <2>4, <2>5
<1>13. rover' \in DOMAIN blocks'
  BY <1>6, <1>7, <1>10 DEF Heap, Linked
<1>14. Coherent(blocks, cache, held) /\ Wants(call, cache, held)
  BY <1>1 DEF Sound, ScanCall
<1>15. /\ u # NULL => size = LumpSize[u] /\ call.tag # PU_LEVEL
                      /\ cache[u] = NULL /\ held[u] = NULL
       /\ u = NULL => call.tag # PU_CACHE
  BY <1>14 DEF Wants, u, size
<1>16. /\ cache' \in [Lumps -> 1..ZoneSize \cup {NULL}]
       /\ held' \in [Lumps -> 1..ZoneSize \cup {NULL}]
       /\ \A l \in Lumps : cache'[l] = IF l = u THEN b ELSE cache[l]
       /\ \A l \in Lumps : held'[l] = IF l = u /\ call.tag = PU_STATIC THEN b ELSE held[l]
  <2>1. CASE u = NULL
    BY <2>1, <1>6, <1>14, ZoneAssumption DEF Coherent
  <2>2. CASE u # NULL
    <3>1. u \in Lumps
      BY <2>2, <1>2 DEF u
    <3> QED BY <2>2, <3>1, <1>3, <1>6, <1>14 DEF Coherent, b
  <2> QED BY <2>1, <2>2
<1>17. ASSUME NEW l \in Lumps, cache[l] # NULL
       PROVE  /\ l # u /\ cache[l] # b /\ cache[l] \in DOMAIN blocks'
              /\ blocks'[cache[l]].user = l /\ blocks'[cache[l]].size >= LumpSize[l]
              /\ blocks'[cache[l]].tag = blocks[cache[l]].tag
  <2>1. /\ cache[l] \in DOMAIN blocks /\ blocks[cache[l]].user = l
        /\ blocks[cache[l]].size >= LumpSize[l]
    BY <1>14, <1>17 DEF Coherent
  <2>2. l # u /\ cache[l] # b
    BY <2>1, <1>3, <1>15, <1>17, ZoneAssumption DEF b
  <2> QED BY <2>1, <2>2, <1>7, <1>9, <1>10
<1>18. ASSUME NEW l \in Lumps, cache'[l] # NULL
       PROVE  /\ cache'[l] \in DOMAIN blocks'
              /\ blocks'[cache'[l]].user = l
              /\ blocks'[cache'[l]].size >= LumpSize[l]
  <2>1. CASE l = u
    <3>1. cache'[l] = b /\ LumpSize[l] = size
      BY <2>1, <1>15, <1>16, ZoneAssumption
    <3> QED BY <3>1, <2>1, <1>7, <1>9, <1>10
  <2>2. CASE l # u
    BY <2>2, <1>16, <1>17, <1>18
  <2> QED BY <2>1, <2>2
<1>19. ASSUME NEW a \in DOMAIN blocks'
       PROVE  /\ blocks'[a].user # NULL => cache'[blocks'[a].user] = a
              /\ blocks'[a].tag \in {PU_FREE, PU_LEVEL} => blocks'[a].user = NULL
              /\ blocks'[a].tag = PU_CACHE => blocks'[a].user # NULL
  <2>1. CASE a = b
    <3>1. blocks'[a].user = u /\ blocks'[a].tag = call.tag
      BY <2>1, <1>9
    <3>2. u # NULL => cache'[u] = b
      BY <1>2, <1>16 DEF u
    <3> QED BY <3>1, <3>2, <2>1, <1>8, <1>15
  <2>2. CASE a # b /\ a \in DOMAIN blocks
    <3>1. blocks'[a].user = blocks[a].user /\ blocks'[a].tag = blocks[a].tag
      BY <2>2, <1>7, <1>9
    <3>2. ASSUME blocks[a].user # NULL PROVE cache'[blocks[a].user] = a
      <4>1. cache[blocks[a].user] = a /\ blocks[a].user \in Lumps /\ a # NULL
        BY <3>2, <2>2, <1>1, <1>14, ZoneAssumption DEF Coherent, Sound, Heap, Block
      <4>2. blocks[a].user # u
        BY <4>1, <3>2, <1>15
      <4> QED BY <4>1, <4>2, <1>16
    <3> QED BY <3>1, <3>2, <2>2, <1>14 DEF Coherent
  <2>3. CASE a \notin DOMAIN blocks
    <3>1. CutIn(b, size, g) /\ a = b + size /\ a \in DOMAIN g
      BY <2>3, <1>10, <1>11
    <3>2. blocks'[a].tag = PU_FREE /\ blocks'[a].user = NULL
      BY <3>1, <2>3, <1>2, <1>9 DEF CutIn, b
    <3> QED BY <3>2 DEF PU_FREE, PU_CACHE
  <2> QED BY <2>1, <2>2, <2>3
<1>20. ASSUME NEW l \in Lumps, held'[l] # NULL
       PROVE  cache'[l] = held'[l] /\ blocks'[held'[l]].tag = PU_STATIC
  <2>1. CASE l = u
    <3>1. u # NULL /\ held[u] = NULL
      BY <2>1, <1>15, ZoneAssumption
    <3> QED BY <3>1, <2>1, <1>9, <1>16, <1>20
  <2>2. CASE l # u
    <3>1. held'[l] = held[l] /\ cache'[l] = cache[l]
      BY <2>2, <1>16
    <3>2. cache[l] = held[l] /\ blocks[held[l]].tag = PU_STATIC
      BY <3>1, <1>14, <1>20 DEF Coherent
    <3> QED BY <3>1, <3>2, <1>17, <1>20
  <2> QED BY <2>1, <2>2
<1>21. Coherent(blocks', cache', held')
  BY <1>16, <1>18, <1>19, <1>20 DEF Coherent
<1> QED BY <1>6, <1>9, <1>12, <1>13, <1>21 DEF ZoneInv, Sound, CallSound

LEMMA FreeTagKeeps ==
  ASSUME ZoneInv, FreeTag
  PROVE  ZoneInv'
<1> DEFINE b == call.block
           o == blocks[b].next
<1>1. call \in TagCalls(blocks) /\ Sound
  BY CallByOp DEF ZoneInv, FreeTag
<1>2. b \in DOMAIN blocks /\ call.low = PU_LEVEL /\ call.high = PU_PURGELEVEL - 1
  BY <1>1 DEF TagCalls
<1>3. CASE b = blocklist
  BY <1>1, <1>3 DEF FreeTag, ZoneInv, Sound, CallSound
<1>4. CASE b # blocklist
  <2> DEFINE n == IF o \in DOMAIN blocks' THEN o ELSE blocks[o].next
  <2>1. /\ IF ~Free(b) /\ blocks[b].tag \in call.low..call.high
           THEN Frees(b) ELSE UNCHANGED <<blocks, rover, cache>>
        /\ call' = [call EXCEPT !.block = n] /\ UNCHANGED held
    BY <1>4 DEF FreeTag
  <2>2. o \in DOMAIN blocks /\ o # b
    BY <1>1, <1>2, <1>4, NextIsBehind DEF Sound
  <2> HIDE DEF n, b, o
  <2>3. Sound' /\ n \in DOMAIN blocks'
    <3>1. CASE ~Free(b) /\ blocks[b].tag \in call.low..call.high
      <4>1. Frees(b) /\ UNCHANGED held
        BY <3>1, <2>1
      <4>2. blocks[b].user = NULL
        <5>1. blocks[b].tag \in Tags
          BY <1>1, <1>2 DEF Sound, Heap, Block
        <5>2. blocks[b].tag = PU_LEVEL
          BY <5>1, <3>1, <1>2
             DEF Tags, PU_STATIC, PU_FREE, PU_LEVEL, PU_CACHE, PU_PURGELEVEL
        <5> QED BY <5>2, <1>1, <1>2 DEF Sound, Coherent
      <4>3. Sound' /\ Freed(b, blocks')
        BY <4>1, <4>2, <3>1, <1>1, <1>2, <1>4, FreesKeeps
      <4>4. /\ Behind(b) \in DOMAIN blocks'
            /\ \A a \in DOMAIN blocks : ~Free(a) /\ a # b => a \in DOMAIN blocks'
        BY <4>3, <3>1, <1>1, <1>2, <1>4, FreedKeeps DEF Sound
      <4>5. CASE o \in DOMAIN blocks'
        BY <4>3, <4>5 DEF n
      <4>6. CASE o \notin DOMAIN blocks'
        <5>1. Free(o)
          BY <4>4, <4>6, <2>2
        <5> QED BY <5>1, <4>3, <4>4, <4>6 DEF n, o, Behind
      <4> QED BY <4>5, <4>6
    <3>2. CASE ~(~Free(b) /\ blocks[b].tag \in call.low..call.high)
      BY <3>2, <2>1, <2>2, <1>1 DEF Sound, n
    <3> QED BY <3>1, <3>2
  <2>4. call' \in TagCalls(blocks')
    BY <2>1, <2>3, <1>1 DEF TagCalls
  <2> QED BY <2>3, <2>4 DEF ZoneInv, CallSound
<1> QED BY <1>3, <1>4-----------------------------------------------------------------------------
(* The program's calls.                                                    *)

(* Z_Malloc starts where nothing free lies before its base.                *)
LEMMA MallocKeeps ==
  ASSUME Sound, NEW size \in Nat \ {0}, NEW tag \in {PU_STATIC, PU_LEVEL, PU_CACHE},
         NEW user \in Lumps \cup {NULL}, Z_Malloc(size, tag, user),
         user = NULL => tag # PU_CACHE,
         user # NULL => /\ size = LumpSize[user] /\ tag # PU_LEVEL
                        /\ cache[user] = NULL /\ held[user] = NULL,
         UNCHANGED <<blocks, rover, cache, held>>
  PROVE  ZoneInv'
<1> DEFINE base  == IF Free(blocks[rover].prev) THEN blocks[rover].prev ELSE rover
           start == blocks[base].prev
<1>1. call' = [op |-> "malloc", size |-> size, tag |-> tag, user |-> user,
               base |-> base, rover |-> base, start |-> start]
  BY DEF Z_Malloc
<1>2. /\ rover \in DOMAIN blocks /\ blocks[rover].prev \in DOMAIN blocks
      /\ \A a \in DOMAIN blocks : blocks[a].prev \in DOMAIN blocks
                                /\ blocks[blocks[a].prev].next = a
  BY DEF Sound, Heap, Linked
<1>3. base \in DOMAIN blocks /\ start \in DOMAIN blocks
  BY <1>2
<1>4. blocks[start].tag # PU_FREE
  BY <1>2 DEF Sound, NoTwoFree, Free
<1> HIDE DEF base
<1>5. ScanAt(blocks, base, base, start)
  BY <1>3, <1>4 DEF ScanAt
<1> HIDE DEF start
<1>6. call' \in ScanCalls(blocks)
  BY <1>1, <1>3 DEF ScanCalls
<1>7. Wants(call', cache, held)
  BY <1>1 DEF Wants
<1>8. ScanCall(call', blocks, cache, held)
  BY <1>1, <1>5, <1>6, <1>7 DEF ScanCall
<1> QED BY <1>8 DEF ZoneInv, Sound, CallSound

(* A cached lump's tag becomes t, and it is held or not.                   *)
LEMMA RetagKeeps ==
  ASSUME Sound, NEW l \in Lumps, cache[l] # NULL, NEW t \in {PU_STATIC, PU_CACHE},
         blocks' = [blocks EXCEPT ![cache[l]].tag = t],
         held' = [held EXCEPT ![l] = IF t = PU_STATIC THEN cache[l] ELSE NULL],
         UNCHANGED <<rover, cache>>
  PROVE  Sound'
<1> DEFINE b == cache[l]
<1>1. /\ Heap(blocks) /\ NoTwoFree(blocks) /\ Coherent(blocks, cache, held)
      /\ b \in DOMAIN blocks /\ b \in 1..ZoneSize /\ b # blocklist /\ blocks[b].user = l
  BY DEF Sound, Coherent, blocklist
<1>2. \A a \in DOMAIN blocks : blocks[a] \in Block
  BY <1>1 DEF Heap
<1>3. t \in Tags /\ t # PU_FREE /\ t # PU_LEVEL
  BY DEF Tags, PU_STATIC, PU_CACHE, PU_FREE, PU_LEVEL
<1>4. blocks' = [blocks EXCEPT ![b].tag = t]
  OBVIOUS
<1> HIDE DEF b
<1>5. /\ DOMAIN blocks' = DOMAIN blocks
      /\ blocks'[b] = [blocks[b] EXCEPT !.tag = t]
      /\ \A a \in DOMAIN blocks : a # b => blocks'[a] = blocks[a]
  BY <1>1, <1>4
<1>6. /\ blocks'[b] \in Block /\ blocks'[b].tag = t /\ blocks'[b].user = l
      /\ blocks'[b].size = blocks[b].size /\ blocks'[b].next = blocks[b].next
      /\ blocks'[b].prev = blocks[b].prev
  BY <1>1, <1>2, <1>3, <1>5 DEF Block
<1>7. ASSUME NEW a \in DOMAIN blocks
      PROVE  /\ blocks'[a] \in Block /\ blocks'[a].size = blocks[a].size
             /\ blocks'[a].next = blocks[a].next /\ blocks'[a].prev = blocks[a].prev
             /\ blocks'[a].user = blocks[a].user
             /\ blocks'[a].tag = IF a = b THEN t ELSE blocks[a].tag
  <2>1. CASE a = b
    BY <2>1, <1>1, <1>6
  <2>2. CASE a # b
    <3>1. blocks'[a] = blocks[a]
      BY <2>2, <1>5, Zenon
    <3> QED BY <3>1, <2>2, <1>2
  <2> QED BY <2>1, <2>2
<1>8. SameRing(blocks, blocks')
  BY <1>1, <1>5, <1>7 DEF SameRing, Heap
<1>9. Heap(blocks')
  BY <1>1, <1>8, SameRingHeap
<1>10. NoTwoFree(blocks')
  <2> SUFFICES ASSUME NEW a \in DOMAIN blocks', blocks'[a].tag = PU_FREE,
                      blocks'[blocks'[a].next].tag = PU_FREE
      PROVE  FALSE
    BY DEF NoTwoFree
  <2>1. /\ a \in DOMAIN blocks /\ blocks[a].tag = PU_FREE
        /\ blocks'[a].next = blocks[a].next /\ blocks[a].next \in DOMAIN blocks
    BY <1>1, <1>3, <1>5, <1>7 DEF Heap, Linked
  <2>2. blocks[blocks[a].next].tag = PU_FREE
    BY <2>1, <1>3, <1>7
  <2> QED BY <2>1, <2>2, <1>1 DEF NoTwoFree
<1>11. held' = [held EXCEPT ![l] = IF t = PU_STATIC THEN b ELSE NULL] /\ cache[l] = b
  BY DEF b
<1>12. /\ held' \in [Lumps -> 1..ZoneSize \cup {NULL}]
       /\ \A k \in Lumps : held'[k] = IF k = l THEN IF t = PU_STATIC THEN b ELSE NULL
                                      ELSE held[k]
  BY <1>1, <1>11 DEF Coherent
<1>13. ASSUME NEW k \in Lumps, held'[k] # NULL
       PROVE  cache[k] = held'[k] /\ blocks'[held'[k]].tag = PU_STATIC
  <2>1. CASE k = l
    BY <2>1, <1>6, <1>11, <1>12, <1>13
  <2>2. CASE k # l
    <3>1. /\ held'[k] = held[k] /\ cache[k] = held[k] /\ blocks[held[k]].tag = PU_STATIC
          /\ held[k] \in DOMAIN blocks /\ blocks[held[k]].user = k
      BY <2>2, <1>1, <1>12, <1>13 DEF Coherent
    <3>2. held[k] # b
      BY <3>1, <2>2, <1>1
    <3> QED BY <3>1, <3>2, <1>7
  <2> QED BY <2>1, <2>2
<1>14. ASSUME NEW k \in Lumps, cache[k] # NULL
       PROVE  /\ cache[k] \in DOMAIN blocks' /\ blocks'[cache[k]].user = k
              /\ blocks'[cache[k]].size >= LumpSize[k]
  BY <1>1, <1>5, <1>7, <1>14 DEF Coherent
<1>15. ASSUME NEW a \in DOMAIN blocks'
       PROVE  /\ blocks'[a].user # NULL => cache[blocks'[a].user] = a
              /\ blocks'[a].tag \in {PU_FREE, PU_LEVEL} => blocks'[a].user = NULL
              /\ blocks'[a].tag = PU_CACHE => blocks'[a].user # NULL
  <2>1. CASE a = b
    <3>1. blocks'[a].user = l /\ l # NULL /\ cache[l] = a /\ blocks'[a].tag = t
      BY <2>1, <1>6, <1>11, ZoneAssumption
    <3> QED BY <3>1, <1>3
  <2>2. CASE a # b
    <3>1. blocks'[a] = blocks[a] /\ a \in DOMAIN blocks
      BY <2>2, <1>5, Zenon
    <3> QED BY <3>1, <1>1 DEF Coherent
  <2> QED BY <2>1, <2>2
<1>16. Coherent(blocks', cache', held')
  BY <1>1, <1>12, <1>13, <1>14, <1>15 DEF Coherent
<1> QED BY <1>5, <1>9, <1>10, <1>16 DEF Sound

LEMMA CacheKeeps ==
  ASSUME ZoneInv, NEW l \in Lumps, NEW tag \in {PU_STATIC, PU_CACHE}, W_CacheLumpNum(l, tag)
  PROVE  ZoneInv'
<1>1. Sound /\ held[l] = NULL /\ call = Returned
  BY DEF ZoneInv, W_CacheLumpNum, Calls
<1>2. CASE cache[l] # NULL
  <2>1. /\ blocks' = [blocks EXCEPT ![cache[l]].tag = tag]
        /\ held' = IF tag = PU_STATIC THEN [held EXCEPT ![l] = cache[l]] ELSE held
        /\ UNCHANGED <<rover, cache, call>>
    BY <1>2 DEF W_CacheLumpNum, Holds
  <2>2. held' = [held EXCEPT ![l] = IF tag = PU_STATIC THEN cache[l] ELSE NULL]
    BY <2>1, <1>1 DEF Sound, Coherent
  <2>3. Sound'
    BY <2>1, <2>2, <1>1, <1>2, RetagKeeps
  <2> QED BY <2>1, <2>3, <1>1 DEF ZoneInv, CallSound
<1>3. CASE cache[l] = NULL
  <2>1. LumpSize[l] \in Nat \ {0} /\ l # NULL
    BY ZoneAssumption
  <2>2. Z_Malloc(LumpSize[l], tag, l) /\ UNCHANGED <<blocks, rover, cache, held>>
    BY <1>3 DEF W_CacheLumpNum
  <2>3. tag # PU_LEVEL
    BY DEF PU_STATIC, PU_CACHE, PU_LEVEL
  <2> QED BY <2>1, <2>2, <2>3, <1>1, <1>3, MallocKeeps
<1> QED BY <1>2, <1>3

LEMMA ReleaseKeeps ==
  ASSUME ZoneInv, NEW l \in Lumps, W_ReleaseLumpNum(l)
  PROVE  ZoneInv'
<1>1. Sound /\ held[l] # NULL /\ call = Returned
  BY DEF ZoneInv, W_ReleaseLumpNum, Calls
<1>2. cache[l] # NULL
  BY <1>1 DEF Sound, Coherent
<1>3. PU_CACHE # PU_STATIC
  BY DEF PU_CACHE, PU_STATIC
<1>4. /\ blocks' = [blocks EXCEPT ![cache[l]].tag = PU_CACHE]
      /\ held' = [held EXCEPT ![l] = IF PU_CACHE = PU_STATIC THEN cache[l] ELSE NULL]
      /\ UNCHANGED <<rover, cache, call>>
  BY <1>3 DEF W_ReleaseLumpNum
<1>5. Sound'
  BY <1>1, <1>2, <1>4, RetagKeeps
<1> QED BY <1>1, <1>4, <1>5 DEF ZoneInv, CallSound

LEMMA PlainKeeps ==
  ASSUME ZoneInv, NEW size \in PlainSizes, NEW tag \in {PU_STATIC, PU_LEVEL},
         MallocPlain(size, tag)
  PROVE  ZoneInv'
<1>1. size \in Nat \ {0} /\ tag # PU_CACHE
  BY ZoneAssumption DEF PU_STATIC, PU_LEVEL, PU_CACHE
<1> QED BY <1>1, MallocKeeps DEF ZoneInv, MallocPlain

LEMMA FreePlainKeeps ==
  ASSUME ZoneInv, NEW b \in DOMAIN blocks, FreePlain(b)
  PROVE  ZoneInv'
<1>1. Sound /\ call = Returned /\ call' = call
  BY DEF ZoneInv, FreePlain, Calls
<1>2. b # blocklist /\ ~Free(b) /\ blocks[b].user = NULL /\ Frees(b) /\ UNCHANGED held
  BY DEF FreePlain
<1>3. Sound'
  BY <1>1, <1>2, FreesKeeps
<1> QED BY <1>1, <1>3 DEF ZoneInv, CallSound

LEMMA FreeLevelKeeps ==
  ASSUME ZoneInv, FreeLevel
  PROVE  ZoneInv'
<1>1. blocks[blocklist].next \in DOMAIN blocks
  BY DEF ZoneInv, Sound, Heap, Linked
<1>2. call' \in TagCalls(blocks) /\ UNCHANGED <<blocks, rover, cache, held>>
  BY <1>1 DEF FreeLevel, TagCalls
<1> QED BY <1>2 DEF ZoneInv, Sound, CallSound
-----------------------------------------------------------------------------
LEMMA ZoneInvInit ==
  ASSUME ZoneInit
  PROVE  ZoneInv
<1>1. /\ DOMAIN blocks = {0, 1}
      /\ blocks[0] = [size |-> 0, tag |-> PU_STATIC, user |-> NULL, next |-> 1, prev |-> 1]
      /\ blocks[1] = [size |-> ZoneSize, tag |-> PU_FREE, user |-> NULL, next |-> 0, prev |-> 0]
  BY DEF ZoneInit, blocklist
<1>2. ZoneSize \in Nat \ {0}
  BY ZoneAssumption
<1>3. \A a \in DOMAIN blocks : blocks[a] \in Block
  BY <1>1, <1>2 DEF Block, Tags
<1>4. Linked(blocks)
  BY <1>1 DEF Linked
<1>5. Touching(blocks) /\ Apart(blocks)
  BY <1>1, <1>2 DEF Touching, Apart, blocklist
<1>6. Heap(blocks)
  BY <1>1, <1>2, <1>3, <1>4, <1>5 DEF Heap, blocklist
<1>7. NoTwoFree(blocks)
  BY <1>1 DEF NoTwoFree, PU_STATIC, PU_FREE
<1>8. cache = [l \in Lumps |-> NULL] /\ held = [l \in Lumps |-> NULL] /\ rover = 1
      /\ call = Returned
  BY DEF ZoneInit
<1>9. \A a \in DOMAIN blocks : blocks[a].user = NULL /\ blocks[a].tag # PU_CACHE
  BY <1>1 DEF PU_STATIC, PU_FREE, PU_CACHE
<1>10. Coherent(blocks, cache, held)
  BY <1>8, <1>9 DEF Coherent
<1> QED BY <1>1, <1>6, <1>7, <1>8, <1>10 DEF ZoneInv, Sound, CallSound

LEMMA ZoneInvNext ==
  ASSUME ZoneInv, [ZoneNext]_zoneVars
  PROVE  ZoneInv'
<1>1. CASE Scan
  BY <1>1, ScanFailsKeeps, ScanUnpurgableKeeps, ScanPurgableKeeps, ScanFreeKeeps,
     AllocateKeeps DEF Scan
<1>2. CASE FreeTag
  BY <1>2, FreeTagKeeps
<1>3. ASSUME NEW l \in Lumps, NEW tag \in {PU_STATIC, PU_CACHE}, W_CacheLumpNum(l, tag)
      PROVE  ZoneInv'
  BY <1>3, CacheKeeps
<1>4. ASSUME NEW l \in Lumps, W_ReleaseLumpNum(l)
      PROVE  ZoneInv'
  BY <1>4, ReleaseKeeps
<1>5. ASSUME NEW size \in PlainSizes, NEW tag \in {PU_STATIC, PU_LEVEL},
             MallocPlain(size, tag)
      PROVE  ZoneInv'
  BY <1>5, PlainKeeps
<1>6. ASSUME NEW b \in DOMAIN blocks, FreePlain(b)
      PROVE  ZoneInv'
  BY <1>6, FreePlainKeeps
<1>7. CASE FreeLevel
  BY <1>7, FreeLevelKeeps
<1>8. CASE UNCHANGED zoneVars
  BY <1>8 DEF zoneVars, ZoneInv, Sound
<1> QED BY <1>1, <1>2, <1>3, <1>4, <1>5, <1>6, <1>7, <1>8 DEF ZoneNext

LEMMA ZoneInvAlways == ZoneSpec => []ZoneInv
<1>1. ZoneInit => ZoneInv
  BY ZoneInvInit
<1>2. ZoneInv /\ [ZoneNext]_zoneVars => ZoneInv'
  BY ZoneInvNext
<1> QED BY <1>1, <1>2, PTL DEF ZoneSpec
(* The types of the zone, of any size, with any lumps.                     *)
THEOREM ZoneTypeCorrect == ZoneSpec => []ZoneTypeOK
<1>1. ZoneInv => ZoneTypeOK
  <2> SUFFICES ASSUME ZoneInv PROVE ZoneTypeOK
    OBVIOUS
  <2>1. call.op \in {"none", "malloc", "found", "freetags", "I_Error"}
    BY DEF ZoneInv, CallSound, ScanCall, ScanCalls, TagCalls, Returned
  <2> QED BY <2>1 DEF ZoneInv, Sound, Heap, Coherent, ZoneTypeOK
<1> QED BY <1>1, ZoneInvAlways, PTL

(* The ring of Z_Malloc, Z_Free and Z_FreeTags is whole after every step   *)
(* of every call, and a scan stands on headers that are there.             *)
THEOREM HeapAlwaysSound == ZoneSpec => []HeapSound
<1>1. ZoneInv => HeapSound
  <2> SUFFICES ASSUME ZoneInv PROVE HeapSound
    OBVIOUS
  <2>1. /\ Linked(blocks) /\ Touching(blocks) /\ Apart(blocks) /\ NoTwoFree(blocks)
        /\ rover \in DOMAIN blocks
    BY DEF ZoneInv, Sound, Heap
  <2>2. call.op = "freetags" => call.block \in DOMAIN blocks
    BY CallByOp DEF ZoneInv, TagCalls
  <2>3. ASSUME call.op \in {"malloc", "found"}
        PROVE  /\ {call.base, call.rover, call.start} \subseteq DOMAIN blocks
               /\ ~Free(call.start)
               /\ Free(call.base) \/ call.base = call.rover
    <3>1. ScanAt(blocks, call.base, call.rover, call.start)
      BY <2>3, CallByOp DEF ZoneInv, ScanCall
    <3> QED BY <3>1 DEF ScanAt, Free
  <2> QED BY <2>1, <2>2, <2>3 DEF HeapSound, ScanSound
<1> QED BY <1>1, ZoneInvAlways, PTL

(* A cached lump's pointer and its block belong together, and no scan      *)
(* moves or frees a lump that is held (W_CacheLumpNum, Z_Malloc).          *)
THEOREM CacheAlwaysCoherent == ZoneSpec => []CacheCoherent
<1>1. ZoneInv => CacheCoherent
  <2> SUFFICES ASSUME ZoneInv PROVE CacheCoherent
    OBVIOUS
  <2>1. Coherent(blocks, cache, held)
    BY DEF ZoneInv, Sound
  <2>2. ASSUME NEW b \in DOMAIN blocks
        PROVE  /\ Free(b) => blocks[b].user = NULL
               /\ Purgable(b) => blocks[b].user # NULL
    <3>1. blocks[b].tag \in Tags
      BY DEF ZoneInv, Sound, Heap, Block
    <3>2. Purgable(b) => blocks[b].tag = PU_CACHE
      BY <3>1 DEF Purgable, Tags, PU_STATIC, PU_FREE, PU_LEVEL, PU_CACHE, PU_PURGELEVEL
    <3> QED BY <3>2, <2>1 DEF Coherent, Free
  <2> QED BY <2>1, <2>2 DEF Coherent, CacheCoherent
<1> QED BY <1>1, ZoneInvAlways, PTL
=============================================================================
