---------------------------- MODULE PartsProofs ----------------------------
(***************************************************************************)
(* Four parts that have nothing to do with one another: the tic numbers on *)
(* the wire, the sound cache, the search for servers, and the loop that    *)
(* runs a game.                                                            *)
(*                                                                         *)
(* The expansion of tic numbers is exact within 64 tics, whatever the      *)
(* width of an unsigned int, and it is not exact within 65.                *)
(*                                                                         *)
(* PlayingIsAllocated is about the sounds that channels play.  SoundInv    *)
(* asks of everything that is locked to be in the list, played or not: a   *)
(* sound is locked before it is played, one that LockSound leaves locked   *)
(* is never played, and within a call every cache that the steps of        *)
(* I_SDL_StartSound hand on must be one that nothing in use is freed from  *)
(* (Caches).                                                               *)
(*                                                                         *)
(* QueryInv says which servers have been reported: those whose target is   *)
(* RESPONDED, and no address has two targets.                              *)
(*                                                                         *)
(* A node that plays runs every tic with the commands made for it,         *)
(* whatever the length of the ring and the leads of BuildNewTic.  It is    *)
(* ahead of the game by its lead at most, and the server's tics ahead of   *)
(* it by ServerLead at most: together a turn of the ring or less.  So      *)
(* neither BuildNewTic nor D_ReceiveTic writes into the slot of a tic that *)
(* is still to be run (SlotOfOne), and what is made or received for a tic  *)
(* stays until it is run (RingInv).  TryRunTics runs no more than          *)
(* GetLowTic has counted, which only grows.                                *)
(***************************************************************************)
EXTENDS TicNum, SoundCache, NetQuery, DLoop, ListsProofs, TLAPS

-----------------------------------------------------------------------------
(* Tic numbers.                                                            *)

(* A number below a power of the word is left alone by the wrap-around.    *)
LEMMA NoWrap ==
  ASSUME NEW x \in UInt
  PROVE  x % Word = x
BY WordAssumption DEF UInt

(* Within 64 tics of the window, the byte determines the tic.              *)
THEOREM ExpandExact ==
  ASSUME NEW relative \in UInt, NEW t \in UInt,
         relative - 64 <= t, t <= relative + 64
  PROVE  Expanded(relative, t) = t
<1> DEFINE l == relative % 256
           b == t % 256
<1>1. relative \in Nat /\ t \in Nat
  BY WordAssumption DEF UInt
<1>2. \/ ~(l < 64 /\ b > 176) /\ ~(l > 176 /\ b < 64) /\ (relative - l) + b = t
      \/ l < 64 /\ b > 176 /\ ((relative - l) + b) - 256 = t
      \/ ~(l < 64 /\ b > 176) /\ l > 176 /\ b < 64 /\ ((relative - l) + b) + 256 = t
  BY <1>1, LastBytes
<1> QED BY <1>2, NoWrap DEF Expanded, NET_ExpandTicNum

(* One tic further and it does not: tic 320 is taken for tic 64.           *)
THEOREM ExpandTight == Word > 320 => Expanded(255, 320) # 320
BY DEF Expanded, NET_ExpandTicNum

(* Every byte the receiver expands is completed to the tic it came from.   *)
THEOREM AlwaysExact == TicSpec => []ExpandedExactly
<1> DEFINE Inv == recvwindow_start \in UInt /\ seq = tic
<1>1. TicInit => Inv
  BY WordAssumption DEF TicInit, UInt
<1>2. Inv /\ [TicNext]_ticVars => Inv'
  <2> SUFFICES ASSUME Inv, [TicNext]_ticVars PROVE Inv'
    OBVIOUS
  <2>1. CASE AdvanceWindow
    BY <2>1, WordAssumption, MaxTicAssumption DEF AdvanceWindow, UInt
  <2>2. ASSUME NEW t \in 0..(MaxTic + Spread), Receive(t) PROVE Inv'
    <3>1. t \in UInt /\ recvwindow_start - 64 <= t /\ t <= recvwindow_start + 64
      BY <2>2, SpreadAssumption, WordAssumption DEF Receive, UInt
    <3>2. seq' = t
      BY <2>2, <3>1, ExpandExact DEF Receive
    <3> QED BY <2>2, <3>2 DEF Receive
  <2>3. CASE UNCHANGED ticVars
    BY <2>3 DEF ticVars
  <2>4. CASE Handled
    BY <2>4 DEF Handled
  <2> QED BY <2>1, <2>2, <2>3, <2>4 DEF TicNext
<1>3. Inv => ExpandedExactly
  BY DEF ExpandedExactly
<1> QED BY <1>1, <1>2, <1>3, PTL DEF TicSpec

-----------------------------------------------------------------------------
(***************************************************************************)
(* The sound cache.  A state of it within a call, as long as nothing is    *)
(* unlocked that is not locked: no sound twice, and none in use that is    *)
(* not in the list.                                                        *)
(***************************************************************************)
Caches ==
  {c \in [list : Seq(Sounds), uses : [Sounds -> Nat]] :
     /\ NoDuplicates(c.list)
     /\ \A s \in Sounds : c.uses[s] > 0 => s \in Entries(c.list)}

(* What freeing unused sounds makes of a cache.                            *)
Thinned(c, d) ==
  /\ d.uses = c.uses
  /\ Entries(d.list) \subseteq Entries(c.list)
  /\ AllocatedSize(d.list) <= AllocatedSize(c.list)

LEMMA CacheFacts ==
  ASSUME NEW c \in Caches
  PROVE  /\ c = [list |-> c.list, uses |-> c.uses]
         /\ c.list \in Seq(Sounds) /\ NoDuplicates(c.list)
         /\ c.uses \in [Sounds -> Nat]
         /\ Entries(c.list) \subseteq Sounds
         /\ \A x \in Sounds : c.uses[x] \in Nat /\ (c.uses[x] > 0 => x \in Entries(c.list))
<1>1. c \in [list : Seq(Sounds), uses : [Sounds -> Nat]]
  BY DEF Caches
<1>2. \A i \in DOMAIN c.list : c.list[i] \in Sounds
  BY <1>1
<1>3. \A x \in Sounds : c.uses[x] \in Nat
  BY <1>1
<1> QED BY <1>1, <1>2, <1>3 DEF Caches, Entries

LEMMA WithoutFacts ==
  ASSUME NEW list \in Seq(Sounds), NEW S
  PROVE  /\ Without(list, S) \in Seq(Sounds)
         /\ Entries(Without(list, S)) = Entries(list) \ S
         /\ NoDuplicates(list) => NoDuplicates(Without(list, S))
         /\ AllocatedSize(list) \in Nat /\ AllocatedSize(Without(list, S)) \in Nat
         /\ AllocatedSize(Without(list, S)) <= AllocatedSize(list)
<1>1. SoundSize \in [Sounds -> Nat]
  BY SoundAssumption DEF Sounds
<1>2. /\ Without(list, S) \in Seq(Sounds)
      /\ Entries(Without(list, S)) = Entries(list) \cap (Sounds \ S)
      /\ NoDuplicates(list) => NoDuplicates(Without(list, S))
  BY OnlyFacts DEF Without
<1>3. Entries(list) \subseteq Sounds
  <2> SUFFICES ASSUME NEW i \in DOMAIN list PROVE list[i] \in Sounds
    BY DEF Entries
  <2> QED OBVIOUS
<1>4. PICK out \in Seq(Sounds) : out = Only(list, Sounds \ (Sounds \ S))
  BY OnlyFacts
<1>5. Total(Without(list, S), SoundSize) + Total(out, SoundSize) = Total(list, SoundSize)
  BY <1>1, <1>4, TotalSplit DEF Without
<1>6. /\ Total(Without(list, S), SoundSize) \in Nat /\ Total(out, SoundSize) \in Nat
      /\ Total(list, SoundSize) \in Nat
  BY <1>1, <1>2, TotalFacts
<1> QED BY <1>2, <1>3, <1>5, <1>6 DEF AllocatedSize

LEMMA FreeLastThins ==
  ASSUME NEW c \in Caches, NEW n
  PROVE  FreeLast(c, n) \in Caches /\ Thinned(c, FreeLast(c, n))
<1>1. /\ c \in [list : Seq(Sounds), uses : [Sounds -> Nat]] /\ NoDuplicates(c.list)
      /\ \A s \in Sounds : c.uses[s] > 0 => s \in Entries(c.list)
  BY DEF Caches
<1>2. PICK list : list = Without(c.list, LastUnused(c, n))
  OBVIOUS
<1>3. /\ list \in Seq(Sounds) /\ NoDuplicates(list)
      /\ Entries(list) = Entries(c.list) \ LastUnused(c, n)
      /\ AllocatedSize(list) <= AllocatedSize(c.list)
  BY <1>1, <1>2, WithoutFacts
<1>4. FreeLast(c, n) = [list |-> list, uses |-> c.uses]
  BY <1>1, <1>2 DEF FreeLast
<1>5. \A s \in LastUnused(c, n) : c.uses[s] = 0
  BY DEF LastUnused, Unused
<1>6. \A s \in Sounds : c.uses[s] > 0 => s \in Entries(list)
  BY <1>1, <1>3, <1>5
<1>7. FreeLast(c, n) \in Caches
  BY <1>1, <1>3, <1>4, <1>6 DEF Caches
<1> QED BY <1>3, <1>4, <1>7 DEF Thinned

(* As many as there are: all that nobody uses.                             *)
LEMMA UnusedFinite ==
  ASSUME NEW c \in Caches
  PROVE  IsFiniteSet(Unused(c)) /\ Cardinality(Unused(c)) \in Nat
<1>1. c.list \in Seq(Sounds)
  BY DEF Caches
<1>3. IsFiniteSet(Entries(c.list))
  BY <1>1, EntriesFinite
<1>4. Unused(c) \subseteq Entries(c.list)
  BY DEF Unused
<1> QED BY <1>3, <1>4, FS_Subset, FS_CardinalityType

LEMMA AllFreed ==
  ASSUME NEW c \in Caches
  PROVE  Unused(FreeLast(c, Cardinality(Unused(c)))) = {}
<1> DEFINE all == Cardinality(Unused(c))
           f   == FreeLast(c, all)
<1>1. LastUnused(c, all) = Unused(c)
  <2>1. ASSUME NEW s \in Unused(c) PROVE Cardinality(Unused(c) \cap After(c.list, s)) < all
    <3>1. s \notin After(c.list, s)
      <4> SUFFICES ASSUME NEW j \in DOMAIN c.list, NEW k \in 1..(j - 1), c.list[k] = s, c.list[j] = s
                   PROVE  FALSE
        BY DEF After
      <4>1. c.list \in Seq(Sounds) /\ NoDuplicates(c.list)
        BY DEF Caches
      <4>2. k \in DOMAIN c.list /\ k # j
        BY <4>1
      <4> QED BY <4>1, <4>2 DEF NoDuplicates
    <3>2. Unused(c) \cap After(c.list, s) \subseteq Unused(c) \ {s}
      BY <3>1
    <3>3. /\ IsFiniteSet(Unused(c) \ {s}) /\ Cardinality(Unused(c) \ {s}) = all - 1
          /\ all \in Nat
      BY UnusedFinite, FS_RemoveElement
    <3>4. /\ Cardinality(Unused(c) \cap After(c.list, s)) <= all - 1
          /\ Cardinality(Unused(c) \cap After(c.list, s)) \in Nat
      BY <3>2, <3>3, FS_Subset, FS_CardinalityType
    <3> QED BY <3>3, <3>4
  <2> QED BY <2>1 DEF LastUnused
<1>2. c \in [list : Seq(Sounds), uses : [Sounds -> Nat]]
  BY DEF Caches
<1>3. f.uses = c.uses /\ f.list = Without(c.list, Unused(c))
  BY <1>1, <1>2 DEF FreeLast
<1>4. Entries(f.list) = Entries(c.list) \ Unused(c)
  BY <1>2, <1>3, WithoutFacts
<1> QED BY <1>3, <1>4 DEF Unused

LEMMA Reserved ==
  ASSUME NEW c \in Caches, NEW len \in Nat
  PROVE  LET r == ReserveCacheSpace(c, len)
         IN /\ r \in Caches /\ Thinned(c, r)
            /\ \/ snd_cachesize = 0
               \/ AllocatedSize(r.list) + len <= snd_cachesize
               \/ Unused(r) = {}
<1> DEFINE all    == Cardinality(Unused(c))
           enough == {n \in 0..all : Fitting(FreeLast(c, n), len)}
<1>1. c.list \in Seq(Sounds)
  BY DEF Caches
<1>2. CASE snd_cachesize = 0
  <2>1. AllocatedSize(c.list) <= AllocatedSize(c.list)
    BY <1>1, WithoutFacts
  <2> QED BY <1>2, <2>1 DEF ReserveCacheSpace, Thinned
<1>3. CASE snd_cachesize # 0 /\ enough = {}
  <2>1. ReserveCacheSpace(c, len) = FreeLast(c, all)
    BY <1>3 DEF ReserveCacheSpace
  <2> QED BY <2>1, AllFreed, FreeLastThins
<1>4. CASE snd_cachesize # 0 /\ enough # {}
  <2>1. ReserveCacheSpace(c, len) = FreeLast(c, Min(enough))
    BY <1>4 DEF ReserveCacheSpace
  <2>2. enough \subseteq Nat
    BY UnusedFinite
  <2> HIDE DEF enough
  <2>3. Min(enough) \in enough
    BY <1>4, <2>2, LeastNumber DEF Min
  <2>4. Fitting(FreeLast(c, Min(enough)), len)
    BY <2>3 DEF enough
  <2> QED BY <2>1, <2>4, FreeLastThins DEF Fitting
<1> QED BY <1>2, <1>3, <1>4

(* Allocating s, which is not there.                                       *)
BoundedBut(c, uses, S) ==
  \/ snd_cachesize = 0
  \/ AllocatedSize(c.list) <= snd_cachesize
  \/ \A x \in Entries(c.list) : x \in S \/ uses[x] > 0

LEMMA Allocated ==
  ASSUME NEW c \in Caches, NEW s \in Sounds, s \notin Entries(c.list)
  PROVE  /\ \A d \in AllocateSound(c, s).made :
              /\ d \in Caches /\ d.uses = c.uses
              /\ s \in Entries(d.list)
              /\ Entries(d.list) \subseteq Entries(c.list) \cup {s}
              /\ BoundedBut(d, c.uses, {s})
         /\ \A d \in AllocateSound(c, s).failed : d \in Caches /\ Thinned(c, d)
<1>1. SoundSize \in [Sounds -> Nat] /\ SoundSize[s] \in Nat
  BY SoundAssumption DEF Sounds
<1>2. PICK r \in Caches : r = ReserveCacheSpace(c, SoundSize[s])
  BY <1>1, Reserved
<1>3. /\ Thinned(c, r)
      /\ \/ snd_cachesize = 0
         \/ AllocatedSize(r.list) + SoundSize[s] <= snd_cachesize
         \/ Unused(r) = {}
  BY <1>1, <1>2, Reserved
<1> DEFINE left     == Cardinality(Unused(r))
           fresh(n) == [list |-> <<s>> \o FreeLast(r, n).list,
                        uses |-> [FreeLast(r, n).uses EXCEPT ![s] = 0]]
<1>4. AllocateSound(c, s) = [made |-> {fresh(n) : n \in 0..left}, failed |-> {FreeLast(r, left)}]
  BY <1>2, Zenon DEF AllocateSound
<1>5. ASSUME NEW n
      PROVE  FreeLast(r, n) \in Caches /\ Thinned(r, FreeLast(r, n)) /\ Thinned(c, FreeLast(r, n))
  <2>1. FreeLast(r, n) \in Caches /\ Thinned(r, FreeLast(r, n))
    BY FreeLastThins
  <2>2. /\ AllocatedSize(FreeLast(r, n).list) \in Nat /\ AllocatedSize(r.list) \in Nat
        /\ AllocatedSize(c.list) \in Nat
    BY <2>1, WithoutFacts DEF Caches
  <2>3. Thinned(c, FreeLast(r, n))
    BY <1>3, <2>1, <2>2 DEF Thinned
  <2> QED BY <2>1, <2>3
<1>6. ASSUME NEW n \in 0..left, NEW d, d = fresh(n)
      PROVE  /\ d \in Caches /\ d.uses = c.uses
             /\ s \in Entries(d.list)
             /\ Entries(d.list) \subseteq Entries(c.list) \cup {s}
             /\ BoundedBut(d, c.uses, {s})
  <2>1. PICK f \in Caches : f = FreeLast(r, n)
    BY <1>5
  <2>2. Thinned(r, f) /\ Thinned(c, f)
    BY <1>5, <2>1
  <2>3. /\ f.list \in Seq(Sounds) /\ f.uses \in [Sounds -> Nat] /\ NoDuplicates(f.list)
        /\ \A x \in Sounds : f.uses[x] > 0 => x \in Entries(f.list)
        /\ c.uses \in [Sounds -> Nat]
    BY DEF Caches
  <2>4. s \notin Entries(f.list)
    BY <2>2 DEF Thinned
  <2>5. f.uses[s] = 0
    BY <2>3, <2>4
  <2>6. PICK list : list = <<s>> \o f.list
    OBVIOUS
  <2>7. list \in Seq(Sounds) /\ Entries(list) = {s} \cup Entries(f.list) /\ NoDuplicates(list)
    BY <2>3, <2>4, <2>6, OntoHead
  <2>8. d = [list |-> list, uses |-> f.uses]
    BY <1>6, <2>1, <2>3, <2>5, <2>6
  <2>9. d \in Caches
    BY <2>3, <2>7, <2>8 DEF Caches
  <2>10. BoundedBut(d, c.uses, {s})
    <3>1. AllocatedSize(list) = SoundSize[s] + AllocatedSize(f.list)
      <4>1. PICK l \in Seq(Sounds) : l = f.list
        BY <2>3
      <4>2. Total(<<s>> \o l, SoundSize) = SoundSize[s] + Total(l, SoundSize)
        BY <1>1, TotalFacts
      <4> QED BY <2>6, <4>1, <4>2, Zenon DEF AllocatedSize
    <3>2. AllocatedSize(f.list) \in Nat /\ AllocatedSize(r.list) \in Nat /\ snd_cachesize \in Nat
      BY <2>3, WithoutFacts, SoundAssumption DEF Caches
    <3>3. CASE snd_cachesize = 0
      BY <3>3 DEF BoundedBut
    <3>4. CASE AllocatedSize(r.list) + SoundSize[s] <= snd_cachesize
      <4>1. AllocatedSize(list) <= snd_cachesize
        BY <1>1, <2>2, <3>1, <3>2, <3>4 DEF Thinned
      <4> QED BY <4>1, <2>8 DEF BoundedBut
    <3>5. CASE Unused(r) = {}
      <4>1. \A x \in Entries(r.list) : r.uses[x] # 0
        BY <3>5 DEF Unused
      <4>2. \A x \in Entries(f.list) : x \in Sounds
        <5> SUFFICES ASSUME NEW i \in DOMAIN f.list PROVE f.list[i] \in Sounds
          BY DEF Entries
        <5> QED BY <2>3
      <4>3. \A x \in Entries(f.list) : c.uses[x] > 0
        BY <1>3, <2>2, <2>3, <4>1, <4>2 DEF Thinned
      <4> QED BY <4>3, <2>7, <2>8 DEF BoundedBut
    <3> QED BY <1>3, <3>3, <3>4, <3>5
  <2> QED BY <2>2, <2>7, <2>8, <2>9, <2>10 DEF Thinned
<1>7. \A d \in AllocateSound(c, s).made : \E n \in 0..left : d = fresh(n)
  BY <1>4
<1>8. \A d \in AllocateSound(c, s).failed : d = FreeLast(r, left)
  BY <1>4
<1> HIDE DEF left, fresh
<1> QED BY <1>5, <1>6, <1>7, <1>8, Zenon

LEMMA MovedSize ==
  ASSUME NEW list \in Seq(Sounds), NoDuplicates(list), NEW s \in Entries(list)
  PROVE  AllocatedSize(<<s>> \o Without(list, {s})) = AllocatedSize(list)
<1>1. SoundSize \in [Sounds -> Nat]
  BY SoundAssumption DEF Sounds
<1>2. Total(<<s>> \o Only(list, Sounds \ {s}), SoundSize) = Total(list, SoundSize)
  BY <1>1, TotalOfOne
<1> QED BY <1>2 DEF AllocatedSize, Without

LEMMA LockedFacts ==
  ASSUME NEW c \in Caches, NEW s \in Entries(c.list)
  PROVE  /\ Locked(c, s) \in Caches /\ s \in Sounds
         /\ Locked(c, s).uses = [c.uses EXCEPT ![s] = @ + 1]
         /\ Entries(Locked(c, s).list) = Entries(c.list)
         /\ AllocatedSize(Locked(c, s).list) = AllocatedSize(c.list)
<1>1. /\ c.list \in Seq(Sounds) /\ c.uses \in [Sounds -> Nat] /\ NoDuplicates(c.list)
      /\ \A x \in Sounds : c.uses[x] > 0 => x \in Entries(c.list)
      /\ SoundSize \in [Sounds -> Nat]
  BY SoundAssumption DEF Caches, Sounds
<1>2. s \in Sounds
  <2>1. PICK i \in DOMAIN c.list : c.list[i] = s
    BY DEF Entries
  <2> QED BY <1>1, <2>1
<1>3. PICK rest : rest = Without(c.list, {s})
  OBVIOUS
<1>4. rest \in Seq(Sounds) /\ NoDuplicates(rest) /\ Entries(rest) = Entries(c.list) \ {s}
  BY <1>1, <1>3, WithoutFacts
<1>5. PICK list : list = <<s>> \o rest
  OBVIOUS
<1>6. list \in Seq(Sounds) /\ NoDuplicates(list) /\ Entries(list) = {s} \cup Entries(rest)
  BY <1>2, <1>4, <1>5, OntoHead
<1>7. Locked(c, s) = [list |-> list, uses |-> [c.uses EXCEPT ![s] = @ + 1]]
  BY <1>3, <1>5 DEF Locked
<1>8. AllocatedSize(list) = AllocatedSize(c.list)
  BY <1>1, <1>3, <1>5, MovedSize
<1>9. Entries(list) = Entries(c.list)
  BY <1>4, <1>6
<1>10. Locked(c, s) \in Caches
  BY <1>1, <1>2, <1>6, <1>7, <1>9 DEF Caches
<1> QED BY <1>2, <1>7, <1>8, <1>9, <1>10

(***************************************************************************)
(* How a sound starts.  c is the cache after the release of the channel;   *)
(* f the one it ends with, s the sound that is played, if any.             *)
(***************************************************************************)
Outcome(f, c, sfx, s) ==
  /\ f \in Caches
  /\ \A x \in Sounds : f.uses[x] >= c.uses[x] + (IF x = s THEN 1 ELSE 0)
  /\ \A x \in Entries(f.list) \ Entries(c.list) : x[1] = sfx
  /\ Entries(f.list) \subseteq Entries(c.list)
       \/ BoundedBut(f, f.uses, {x \in Sounds : x[1] = sfx})

LEMMA Loaded ==
  ASSUME NEW c \in Caches, NEW sfx \in Sfx
  PROVE  /\ \A d \in LoadSound(c, sfx).made :
              /\ d \in Caches /\ d.uses = c.uses
              /\ NormalPitch(sfx) \in Entries(d.list)
              /\ Entries(d.list) \subseteq Entries(c.list) \cup {NormalPitch(sfx)}
              /\ Entries(d.list) \subseteq Entries(c.list) \/ BoundedBut(d, d.uses, {NormalPitch(sfx)})
         /\ \A d \in LoadSound(c, sfx).failed : d \in Caches /\ Thinned(c, d)
<1> DEFINE normal == NormalPitch(sfx)
<1>1. normal \in Sounds
  BY SoundAssumption DEF NormalPitch, Sounds
<1>2. AllocatedSize(c.list) <= AllocatedSize(c.list)
  BY WithoutFacts DEF Caches
<1>3. CASE normal \in Entries(c.list)
  <2>1. LoadSound(c, sfx) = [made |-> {c}, failed |-> {}]
    BY <1>3 DEF LoadSound
  <2> QED BY <1>3, <2>1
<1>4. CASE normal \notin Entries(c.list) /\ sfx \in InvalidSfx
  <2>1. LoadSound(c, sfx) = [made |-> {}, failed |-> {c}]
    BY <1>4 DEF LoadSound
  <2> QED BY <1>2, <2>1 DEF Thinned
<1>5. CASE normal \notin Entries(c.list) /\ sfx \notin InvalidSfx
  <2>1. LoadSound(c, sfx) = AllocateSound(c, normal)
    BY <1>5 DEF LoadSound
  <2> HIDE DEF normal
  <2>2. /\ \A d \in AllocateSound(c, normal).made :
             /\ d \in Caches /\ d.uses = c.uses
             /\ normal \in Entries(d.list)
             /\ Entries(d.list) \subseteq Entries(c.list) \cup {normal}
             /\ BoundedBut(d, c.uses, {normal})
        /\ \A d \in AllocateSound(c, normal).failed : d \in Caches /\ Thinned(c, d)
    BY <1>1, <1>5, Allocated
  <2> QED BY <2>1, <2>2 DEF normal
<1> QED BY <1>3, <1>4, <1>5

(* A load that failed, or nothing at all.                                  *)
LEMMA ThinnedOutcome ==
  ASSUME NEW c \in Caches, NEW d \in Caches, Thinned(c, d), NEW sfx
  PROVE  Outcome(d, c, sfx, NoSound)
<1>1. NoSound \notin Sounds
  BY SoundAssumption DEF Sounds
<1> QED BY <1>1 DEF Outcome, Thinned, Caches

(* The rest, once the normal pitch is loaded and locked: c is the cache    *)
(* before, d loaded, l locked.                                             *)
LEMMA NormalOutcome ==
  ASSUME NEW c \in Caches, NEW sfx \in Sfx, NEW d \in LoadSound(c, sfx).made
  PROVE  LET n == NormalPitch(sfx)
             l == Locked(d, n)
         IN /\ n \in Sounds /\ l \in Caches /\ n \in Entries(l.list)
            /\ l.uses = [c.uses EXCEPT ![n] = @ + 1]
            /\ Entries(l.list) \subseteq Entries(c.list) \cup {n}
            /\ Entries(l.list) \subseteq Entries(c.list) \/ BoundedBut(l, c.uses, {n})
            /\ Outcome(l, c, sfx, n)
<1> DEFINE n == NormalPitch(sfx)
           l == Locked(d, n)
<1>1. /\ d \in Caches /\ d.uses = c.uses /\ n \in Entries(d.list)
      /\ Entries(d.list) \subseteq Entries(c.list) \cup {n}
      /\ Entries(d.list) \subseteq Entries(c.list) \/ BoundedBut(d, d.uses, {n})
  BY Loaded
<1>2. /\ l \in Caches /\ n \in Sounds /\ l.uses = [d.uses EXCEPT ![n] = @ + 1]
      /\ Entries(l.list) = Entries(d.list) /\ AllocatedSize(l.list) = AllocatedSize(d.list)
  <2> HIDE DEF n
  <2> QED BY <1>1, LockedFacts
<1>3. n[1] = sfx
  BY DEF NormalPitch
<1> HIDE DEF n, l
<1>4. Entries(l.list) \subseteq Entries(c.list) \/ BoundedBut(l, c.uses, {n})
  BY <1>1, <1>2 DEF BoundedBut
<1>5. \A x \in Sounds : c.uses[x] \in Nat /\ l.uses[x] = c.uses[x] + (IF x = n THEN 1 ELSE 0)
  BY <1>1, <1>2 DEF Caches
<1>6. \A x \in Entries(l.list) : x \in Sounds
  <2> SUFFICES ASSUME NEW i \in DOMAIN l.list PROVE l.list[i] \in Sounds
    BY DEF Entries
  <2>1. l.list \in Seq(Sounds)
    BY <1>2 DEF Caches
  <2> QED BY <2>1
<1>7. BoundedBut(l, c.uses, {n}) => BoundedBut(l, l.uses, {x \in Sounds : x[1] = sfx})
  BY <1>2, <1>3, <1>5, <1>6 DEF BoundedBut
<1>8. Outcome(l, c, sfx, n)
  BY <1>1, <1>2, <1>3, <1>4, <1>5, <1>7 DEF Outcome
<1> QED BY <1>1, <1>2, <1>4, <1>8 DEF l, n

(* It is there at the pitch asked for and locked a second time.            *)
LEMMA ThereOutcome ==
  ASSUME NEW c \in Caches, NEW sfx \in Sfx, NEW l \in Caches, NEW n \in Sounds, n[1] = sfx,
         l.uses = [c.uses EXCEPT ![n] = @ + 1],
         Entries(l.list) \subseteq Entries(c.list) \cup {n},
         Entries(l.list) \subseteq Entries(c.list) \/ BoundedBut(l, c.uses, {n}),
         NEW a \in Entries(l.list)
  PROVE  a \in Sounds /\ Outcome(Locked(l, a), c, sfx, a)
<1>1. PICK f \in Caches :
        /\ f = Locked(l, a) /\ a \in Sounds /\ f.uses = [l.uses EXCEPT ![a] = @ + 1]
        /\ Entries(f.list) = Entries(l.list) /\ AllocatedSize(f.list) = AllocatedSize(l.list)
  BY LockedFacts
<1>2. \A x \in Sounds : f.uses[x] >= c.uses[x] + (IF x = a THEN 1 ELSE 0)
  <2> TAKE x \in Sounds
  <2>1. c.uses[x] \in Nat /\ c.uses \in [Sounds -> Nat] /\ l.uses \in [Sounds -> Nat]
    BY CacheFacts
  <2> QED BY <1>1, <2>1
<1>3. Entries(l.list) \subseteq Sounds
  BY CacheFacts
<1>4. \A x \in Sounds : c.uses[x] > 0 => f.uses[x] > 0
  <2> TAKE x \in Sounds
  <2>1. c.uses[x] \in Nat /\ f.uses[x] \in Nat
    BY CacheFacts
  <2> QED BY <1>2, <2>1
<1>5. BoundedBut(l, c.uses, {n}) => BoundedBut(f, f.uses, {x \in Sounds : x[1] = sfx})
  BY <1>1, <1>3, <1>4 DEF BoundedBut
<1> QED BY <1>1, <1>2, <1>5 DEF Outcome

(* There is no memory for it; what is there is played.                     *)
LEMMA ShiftFails ==
  ASSUME NEW c \in Caches, NEW sfx \in Sfx, NEW l \in Caches, NEW n \in Sounds, n[1] = sfx,
         l.uses = [c.uses EXCEPT ![n] = @ + 1],
         Entries(l.list) \subseteq Entries(c.list) \cup {n},
         Entries(l.list) \subseteq Entries(c.list) \/ BoundedBut(l, c.uses, {n}),
         NEW f \in Caches, Thinned(l, f)
  PROVE  Outcome(f, c, sfx, n)
<1>1. /\ f.uses = l.uses /\ Entries(f.list) \subseteq Entries(l.list)
      /\ AllocatedSize(f.list) <= AllocatedSize(l.list)
  BY DEF Thinned
<1>2. \A x \in Sounds : c.uses[x] \in Nat /\ f.uses[x] = c.uses[x] + (IF x = n THEN 1 ELSE 0)
  <2> TAKE x \in Sounds
  <2>1. c.uses[x] \in Nat /\ c.uses \in [Sounds -> Nat]
    BY CacheFacts
  <2> QED BY <1>1, <2>1
<1>3. Entries(l.list) \subseteq Sounds
  BY CacheFacts
<1>4. \A x \in Sounds : c.uses[x] > 0 => f.uses[x] > 0
  BY <1>2
<1>5. /\ AllocatedSize(f.list) \in Nat /\ AllocatedSize(l.list) \in Nat
      /\ snd_cachesize \in Nat
  BY WithoutFacts, SoundAssumption DEF Caches
<1>6. BoundedBut(l, c.uses, {n}) => BoundedBut(f, f.uses, {x \in Sounds : x[1] = sfx})
  <2>1. AllocatedSize(l.list) <= snd_cachesize => AllocatedSize(f.list) <= snd_cachesize
    BY <1>1, <1>5
  <2>2. \A x \in Entries(f.list) : x \in Entries(l.list) /\ x \in Sounds
    BY <1>1, <1>3
  <2> QED BY <2>1, <2>2, <1>4 DEF BoundedBut
<1> QED BY <1>1, <1>2, <1>6 DEF Outcome

(* A new one is made, locked, and the one it is made from unlocked.        *)
LEMMA ShiftOutcome ==
  ASSUME NEW c \in Caches, NEW sfx \in Sfx, NEW l \in Caches, NEW n \in Sounds, n[1] = sfx,
         l.uses = [c.uses EXCEPT ![n] = @ + 1], n \in Entries(l.list),
         Entries(l.list) \subseteq Entries(c.list) \cup {n},
         NEW a \in Sounds, a[1] = sfx, a \notin Entries(l.list),
         NEW m \in AllocateSound(l, a).made
  PROVE  Outcome(Unlocked(Locked(m, a), n), c, sfx, a)
<1>1. /\ m \in Caches /\ m.uses = l.uses /\ a \in Entries(m.list)
      /\ Entries(m.list) \subseteq Entries(l.list) \cup {a}
      /\ BoundedBut(m, l.uses, {a})
  BY Allocated
<1>2. PICK k \in Caches :
        /\ k = Locked(m, a) /\ k.uses = [m.uses EXCEPT ![a] = @ + 1]
        /\ Entries(k.list) = Entries(m.list) /\ AllocatedSize(k.list) = AllocatedSize(m.list)
  <2>1. PICK mm \in Caches : mm = m /\ a \in Entries(mm.list)
    BY <1>1
  <2> QED BY <2>1, LockedFacts
<1>3. PICK f : f = Unlocked(k, n)
  OBVIOUS
<1>4. k \in [list : Seq(Sounds), uses : [Sounds -> Nat]]
  BY DEF Caches
<1>5. f = [list |-> k.list, uses |-> [k.uses EXCEPT ![n] = @ - 1]]
  BY <1>3, <1>4 DEF Unlocked
<1>6. a # n /\ \A x \in Sounds : c.uses[x] \in Nat
  BY CacheFacts
<1>7. \A x \in Sounds : f.uses[x] = c.uses[x] + (IF x = a THEN 1 ELSE 0)
  <2>1. \A x \in Sounds : l.uses[x] = c.uses[x] + (IF x = n THEN 1 ELSE 0)
    <3> TAKE x \in Sounds
    <3>1. c.uses[x] \in Nat /\ c.uses \in [Sounds -> Nat]
      BY CacheFacts
    <3> QED BY <3>1
  <2>2. \A x \in Sounds : k.uses[x] = c.uses[x] + (IF x \in {a, n} THEN 1 ELSE 0)
    <3> TAKE x \in Sounds
    <3>1. m.uses \in [Sounds -> Nat]
      BY <1>1, CacheFacts
    <3> QED BY <1>1, <1>2, <1>6, <2>1, <3>1
  <2> QED BY <1>4, <1>5, <1>6, <2>2
<1>8. f \in Caches
  <2>1. f.uses \in [Sounds -> Nat]
    BY <1>4, <1>5, <1>6, <1>7
  <2>2. \A x \in Sounds : f.uses[x] > 0 => x \in Entries(k.list)
    <3> TAKE x \in Sounds
    <3>1. CASE x = a
      BY <3>1, <1>1, <1>2
    <3>2. CASE x # a
      <4>1. k.uses[x] >= f.uses[x]
        BY <1>4, <1>5
      <4>2. k.uses[x] \in Nat /\ (k.uses[x] > 0 => x \in Entries(k.list))
        BY <1>4, CacheFacts
      <4>3. f.uses[x] \in Nat
        BY <2>1
      <4> QED BY <4>1, <4>2, <4>3
    <3> QED BY <3>1, <3>2
  <2> QED BY <1>4, <1>5, <2>1, <2>2 DEF Caches
<1>9. Entries(m.list) \subseteq Sounds
  BY <1>1, CacheFacts
<1>10. BoundedBut(f, f.uses, {x \in Sounds : x[1] = sfx})
  <2>1. CASE snd_cachesize = 0 \/ AllocatedSize(m.list) <= snd_cachesize
    BY <2>1, <1>2, <1>5 DEF BoundedBut
  <2>2. CASE \A x \in Entries(m.list) : x \in {a} \/ l.uses[x] > 0
    <3>1. \A x \in Sounds : l.uses[x] > 0 => x = n \/ f.uses[x] > 0
      <4> TAKE x \in Sounds
      <4>1. c.uses[x] \in Nat /\ c.uses \in [Sounds -> Nat]
        BY CacheFacts
      <4> QED BY <1>7, <4>1
    <3>2. \A x \in Entries(f.list) : x \in Sounds /\ (x[1] = sfx \/ f.uses[x] > 0)
      BY <1>2, <1>5, <1>9, <2>2, <3>1
    <3> QED BY <3>2 DEF BoundedBut
  <2> QED BY <1>1, <2>1, <2>2 DEF BoundedBut
<1>11. \A x \in Entries(f.list) \ Entries(c.list) : x[1] = sfx
  BY <1>1, <1>2, <1>5
<1>12. \A x \in Sounds : f.uses[x] >= c.uses[x] + (IF x = a THEN 1 ELSE 0)
  BY <1>6, <1>7
<1>13. Outcome(f, c, sfx, a)
  BY <1>8, <1>10, <1>11, <1>12 DEF Outcome
<1> QED BY <1>2, <1>3, <1>13

(***************************************************************************)
(* The invariant.  Others(s, channel): the channels that play s, the one   *)
(* that is being released left out.                                        *)
(***************************************************************************)
Others(s, channel) == {c \in Channels \ {channel} : channels_playing[c] = s}

SoundInv ==
  /\ Cache \in Caches
  /\ use_count \in [Sounds -> 0..MaxUses]
  /\ channels_playing \in [Channels -> Sounds \cup {NoSound}]
  /\ sounding \subseteq Channels
  /\ \A s \in Sounds : use_count[s] >= Cardinality(Playing(s))
  /\ \A c \in sounding : channels_playing[c] # NoSound

LEMMA ChannelsFinite ==
  ASSUME NEW S, S \subseteq Channels
  PROVE  IsFiniteSet(S) /\ Cardinality(S) \in Nat
BY SoundAssumption, FS_Subset, FS_CardinalityType

LEMMA ReleasedFacts ==
  ASSUME SoundInv, NEW channel \in Channels
  PROVE  LET c == Released(Cache, channel)
         IN /\ c \in Caches
            /\ \A x \in Sounds : c.uses[x] >= Cardinality(Others(x, channel))
            /\ Entries(c.list) \subseteq Entries(allocated_sounds)
<1> DEFINE c == Released(Cache, channel)
           s == channels_playing[channel]
<1>1. /\ Cache \in Caches /\ Cache.list = allocated_sounds /\ Cache.uses = use_count
      /\ channels_playing \in [Channels -> Sounds \cup {NoSound}]
      /\ \A x \in Sounds : use_count[x] >= Cardinality(Playing(x))
      /\ NoSound \notin Sounds
  BY SoundAssumption DEF SoundInv, Cache, Sounds
<1>2. /\ allocated_sounds \in Seq(Sounds) /\ NoDuplicates(allocated_sounds)
      /\ use_count \in [Sounds -> Nat]
      /\ \A x \in Sounds : use_count[x] > 0 => x \in Entries(allocated_sounds)
  BY <1>1, CacheFacts
<1>3. CASE s = NoSound
  <2>1. c = Cache
    BY <1>3 DEF Released
  <2>2. \A x \in Sounds : Others(x, channel) = Playing(x)
    BY <1>1, <1>3 DEF Others, Playing
  <2> QED BY <1>1, <2>1, <2>2
<1>4. CASE s # NoSound
  <2> DEFINE uses == [use_count EXCEPT ![s] = @ - 1]
  <2>1. s \in Sounds
    BY <1>1, <1>4
  <2>2. Unlocked(Cache, s) = [list |-> allocated_sounds, uses |-> uses]
    BY <1>1 DEF Unlocked, Cache
  <2>3. ASSUME NEW x \in Sounds
        PROVE  uses[x] \in Nat /\ uses[x] <= use_count[x] /\ uses[x] >= Cardinality(Others(x, channel))
    <3>1. IsFiniteSet(Playing(x)) /\ Cardinality(Playing(x)) \in Nat /\ use_count[x] \in Nat
      BY <1>2, ChannelsFinite DEF Playing
    <3>2. CASE x = s
      <4>1. Others(s, channel) = Playing(s) \ {channel} /\ channel \in Playing(s)
        BY DEF Others, Playing
      <4>2. Cardinality(Others(s, channel)) = Cardinality(Playing(s)) - 1
        <5>1. IsFiniteSet(Playing(s))
          BY <3>1, <3>2
        <5> QED BY <4>1, <5>1, FS_RemoveElement
      <4>3. Cardinality(Others(s, channel)) \in Nat
        BY ChannelsFinite DEF Others
      <4>4. uses[s] = use_count[s] - 1
        BY <1>2, <2>1
      <4> QED BY <1>1, <2>1, <3>1, <3>2, <4>2, <4>3, <4>4
    <3>3. CASE x # s
      <4>1. Others(x, channel) = Playing(x)
        BY <3>3 DEF Others, Playing
      <4> QED BY <1>1, <1>2, <3>1, <3>3, <4>1
    <3> QED BY <3>2, <3>3
  <2>4. uses \in [Sounds -> Nat]
    <3>1. uses = [x \in Sounds |-> uses[x]]
      BY <1>2
    <3> HIDE DEF uses
    <3> QED BY <3>1, <2>3
  <2> HIDE DEF uses
  <2>5. \A x \in Sounds : uses[x] > 0 => x \in Entries(allocated_sounds)
    <3> TAKE x \in Sounds
    <3>1. use_count[x] \in Nat
      BY <1>2
    <3> QED BY <1>2, <2>3, <3>1
  <2>6. CASE s[2] # NORM_PITCH /\ uses[s] <= 0
    <3>1. PICK list : list = Without(allocated_sounds, {s})
      OBVIOUS
    <3>2. c = [list |-> list, uses |-> uses]
      BY <1>4, <2>2, <2>6, <3>1 DEF Released
    <3>3. /\ list \in Seq(Sounds) /\ NoDuplicates(list)
          /\ Entries(list) = Entries(allocated_sounds) \ {s}
      BY <1>2, <3>1, WithoutFacts
    <3>4. \A x \in Sounds : uses[x] > 0 => x \in Entries(list)
      BY <2>3, <2>5, <2>6, <3>3
    <3>5. c \in Caches
      BY <2>4, <3>2, <3>3, <3>4 DEF Caches
    <3> QED BY <2>3, <3>2, <3>3, <3>5
  <2>7. CASE ~(s[2] # NORM_PITCH /\ uses[s] <= 0)
    <3>1. c = [list |-> allocated_sounds, uses |-> uses]
      BY <1>4, <2>2, <2>7 DEF Released
    <3>2. c \in Caches
      BY <1>2, <2>4, <2>5, <3>1 DEF Caches
    <3> QED BY <2>3, <3>1, <3>2
  <2> QED BY <2>6, <2>7
<1> QED BY <1>3, <1>4

(* The channel gets a sound, or none.                                      *)
LEMMA ChannelSet ==
  ASSUME SoundInv, NEW channel \in Channels, NEW f \in Caches, NEW s \in Sounds \cup {NoSound},
         \A x \in Sounds :
           f.uses[x] >= Cardinality(Others(x, channel)) + (IF x = s THEN 1 ELSE 0),
         Becomes(f),
         channels_playing' = [channels_playing EXCEPT ![channel] = s],
         sounding' \subseteq sounding \cup {channel},
         channel \in sounding' => s # NoSound
  PROVE  SoundInv'
<1>1. f = [list |-> f.list, uses |-> f.uses] /\ f.uses \in [Sounds -> Nat]
  BY CacheFacts
<1>2. /\ allocated_sounds' = f.list /\ use_count' = f.uses
      /\ \A x \in Sounds : f.uses[x] <= MaxUses
  BY DEF Becomes
<1>3. Cache' \in Caches
  <2>1. Cache' = f
    BY <1>1, <1>2 DEF Cache
  <2> QED BY <2>1
<1>4. use_count' \in [Sounds -> 0..MaxUses]
  <2>1. \A x \in Sounds : f.uses[x] \in 0..MaxUses
    BY <1>1, <1>2, SoundAssumption
  <2> QED BY <1>1, <1>2, <2>1
<1>5. /\ channels_playing \in [Channels -> Sounds \cup {NoSound}]
      /\ channels_playing' \in [Channels -> Sounds \cup {NoSound}]
      /\ sounding' \subseteq Channels
      /\ \A c \in sounding' : channels_playing'[c] # NoSound
  BY DEF SoundInv
<1>6. ASSUME NEW x \in Sounds PROVE use_count'[x] >= Cardinality(Playing(x)')
  <2>1. IsFiniteSet(Others(x, channel)) /\ Cardinality(Others(x, channel)) \in Nat
    BY ChannelsFinite DEF Others
  <2>2. CASE x = s
    <3>1. Playing(x)' = Others(x, channel) \cup {channel} /\ channel \notin Others(x, channel)
      BY <1>5, <2>2 DEF Playing, Others
    <3>2. Cardinality(Playing(x)') = Cardinality(Others(x, channel)) + 1
      BY <2>1, <3>1, FS_AddElement
    <3> QED BY <1>2, <2>2, <3>2
  <2>3. CASE x # s
    <3>1. Playing(x)' = Others(x, channel)
      BY <1>5, <2>3 DEF Playing, Others
    <3> QED BY <1>1, <1>2, <2>1, <2>3, <3>1
  <2> QED BY <2>2, <2>3
<1> QED BY <1>3, <1>4, <1>5, <1>6 DEF SoundInv

LEMMA StopSoundKeeps ==
  ASSUME SoundInv, NEW channel \in Channels, Stop(channel)
  PROVE  SoundInv' /\ Entries(allocated_sounds') \subseteq Entries(allocated_sounds)
<1>1. PICK c \in Caches :
        /\ c = Released(Cache, channel)
        /\ \A x \in Sounds : c.uses[x] >= Cardinality(Others(x, channel))
        /\ Entries(c.list) \subseteq Entries(allocated_sounds)
  BY ReleasedFacts
<1>2. /\ Becomes(c)
      /\ channels_playing' = [channels_playing EXCEPT ![channel] = NoSound]
      /\ sounding' = sounding \ {channel}
  BY <1>1 DEF Stop
<1>3. \A x \in Sounds :
        c.uses[x] >= Cardinality(Others(x, channel)) + (IF x = NoSound THEN 1 ELSE 0)
  <2> TAKE x \in Sounds
  <2>1. x # NoSound /\ Cardinality(Others(x, channel)) \in Nat
    BY ChannelsFinite, SoundAssumption DEF Others, Sounds
  <2> QED BY <1>1, <2>1
<1>4. SoundInv'
  BY <1>2, <1>3, ChannelSet
<1> QED BY <1>1, <1>2, <1>4 DEF Becomes

LEMMA StartOutcome ==
  ASSUME SoundInv, NEW channel \in Channels, NEW sfx \in Sfx, NEW pitch \in Pitches,
         I_SDL_StartSound(sfx, channel, pitch)
  PROVE  \E f \in Caches, s \in Sounds \cup {NoSound} :
           /\ Outcome(f, Released(Cache, channel), sfx, s)
           /\ Becomes(f)
           /\ channels_playing' = [channels_playing EXCEPT ![channel] = s]
           /\ sounding' \subseteq sounding \cup {channel}
           /\ channel \in sounding' => s # NoSound
<1> DEFINE n == NormalPitch(sfx)
           a == <<sfx, pitch>>
<1>1. PICK c \in Caches : c = Released(Cache, channel)
  BY ReleasedFacts
<1>2. n \in Sounds /\ a \in Sounds /\ n[1] = sfx /\ a[1] = sfx
  BY SoundAssumption DEF NormalPitch, Sounds
<1>3. ASSUME NEW f \in LoadSound(c, sfx).failed,
             Becomes(f),
             channels_playing' = [channels_playing EXCEPT ![channel] = NoSound],
             sounding' = sounding \ {channel}
      PROVE  /\ f \in Caches /\ Outcome(f, c, sfx, NoSound)
             /\ sounding' \subseteq sounding \cup {channel} /\ channel \notin sounding'
  <2>1. f \in Caches /\ Thinned(c, f)
    BY Loaded
  <2> QED BY <1>3, <2>1, ThinnedOutcome
<1>4. ASSUME NEW d \in LoadSound(c, sfx).made, NEW f, NEW s \in Sounds, Plays(channel, s, f),
             f \in Caches, Outcome(f, c, sfx, s)
      PROVE  \E ff \in Caches, ss \in Sounds \cup {NoSound} :
               /\ Outcome(ff, c, sfx, ss)
               /\ Becomes(ff)
               /\ channels_playing' = [channels_playing EXCEPT ![channel] = ss]
               /\ sounding' \subseteq sounding \cup {channel}
               /\ channel \in sounding' => ss # NoSound
  <2>1. s # NoSound
    BY SoundAssumption DEF Sounds
  <2>2. /\ Becomes(f) /\ channels_playing' = [channels_playing EXCEPT ![channel] = s]
        /\ sounding' = sounding \cup {channel}
    BY <1>4, <2>1 DEF Plays
  <2>3. sounding' \subseteq sounding \cup {channel}
    BY <2>2
  <2> WITNESS f \in Caches, s \in Sounds \cup {NoSound}
  <2> QED BY <1>4, <2>1, <2>2, <2>3
<1>5. ASSUME NEW d \in LoadSound(c, sfx).made
      PROVE  LET l == Locked(d, n)
             IN /\ Outcome(l, c, sfx, n) /\ l \in Caches
                /\ a \in Entries(l.list) => Locked(l, a) \in Caches /\ Outcome(Locked(l, a), c, sfx, a)
                /\ a \notin Entries(l.list) =>
                     /\ \A m \in AllocateSound(l, a).made :
                          LET f == Unlocked(Locked(m, a), n)
                          IN f \in Caches /\ Outcome(f, c, sfx, a)
                     /\ \A f \in AllocateSound(l, a).failed : f \in Caches /\ Outcome(f, c, sfx, n)
  <2>1. PICK l \in Caches :
          /\ l = Locked(d, n) /\ n \in Entries(l.list)
          /\ l.uses = [c.uses EXCEPT ![n] = @ + 1]
          /\ Entries(l.list) \subseteq Entries(c.list) \cup {n}
          /\ Entries(l.list) \subseteq Entries(c.list) \/ BoundedBut(l, c.uses, {n})
          /\ Outcome(l, c, sfx, n)
    BY NormalOutcome
  <2> HIDE DEF n, a
  <2>2. a \in Entries(l.list) => Outcome(Locked(l, a), c, sfx, a)
    BY <1>2, <2>1, ThereOutcome
  <2>3. ASSUME a \notin Entries(l.list), NEW m \in AllocateSound(l, a).made
        PROVE  Outcome(Unlocked(Locked(m, a), n), c, sfx, a)
    BY <1>2, <2>1, <2>3, ShiftOutcome
  <2>4. ASSUME a \notin Entries(l.list), NEW f \in AllocateSound(l, a).failed
        PROVE  Outcome(f, c, sfx, n)
    <3>1. f \in Caches /\ Thinned(l, f)
      BY <1>2, <2>4, Allocated
    <3> QED BY <1>2, <2>1, <3>1, ShiftFails
  <2>5. \A f, s : Outcome(f, c, sfx, s) => f \in Caches
    BY DEF Outcome
  <2> QED BY <2>1, <2>2, <2>3, <2>4, <2>5
<1> HIDE DEF n, a
<1>6. \/ \E f \in LoadSound(c, sfx).failed :
           /\ Becomes(f)
           /\ channels_playing' = [channels_playing EXCEPT ![channel] = NoSound]
           /\ sounding' = sounding \ {channel}
      \/ \E d \in LoadSound(c, sfx).made :
           LET l == Locked(d, n)
           IN \/ a \in Entries(l.list) /\ Plays(channel, a, Locked(l, a))
              \/ a \notin Entries(l.list) /\ Plays(channel, n, l)
              \/ /\ a \notin Entries(l.list)
                 /\ \/ \E m \in AllocateSound(l, a).made :
                         Plays(channel, a, Unlocked(Locked(m, a), n))
                    \/ \E f \in AllocateSound(l, a).failed : Plays(channel, n, f)
  BY <1>1, Zenon DEF I_SDL_StartSound, n, a
<1>7. CASE \E f \in LoadSound(c, sfx).failed :
             /\ Becomes(f)
             /\ channels_playing' = [channels_playing EXCEPT ![channel] = NoSound]
             /\ sounding' = sounding \ {channel}
  BY <1>1, <1>3, <1>7
<1>8. CASE \E d \in LoadSound(c, sfx).made :
             LET l == Locked(d, n)
             IN \/ a \in Entries(l.list) /\ Plays(channel, a, Locked(l, a))
                \/ a \notin Entries(l.list) /\ Plays(channel, n, l)
                \/ /\ a \notin Entries(l.list)
                   /\ \/ \E m \in AllocateSound(l, a).made :
                           Plays(channel, a, Unlocked(Locked(m, a), n))
                      \/ \E f \in AllocateSound(l, a).failed : Plays(channel, n, f)
  <2>1. \E d \in LoadSound(c, sfx).made, s \in Sounds : \E f :
           Plays(channel, s, f) /\ f \in Caches /\ Outcome(f, c, sfx, s)
    BY <1>2, <1>5, <1>8, Zenon
  <2> QED BY <1>1, <1>4, <2>1
<1> QED BY <1>6, <1>7, <1>8

(* The channel's own count, and what the outcome adds to it.               *)
LEMMA StartSoundKeeps ==
  ASSUME SoundInv, NEW channel \in Channels, NEW sfx \in Sfx, NEW pitch \in Pitches,
         I_SDL_StartSound(sfx, channel, pitch)
  PROVE  SoundInv'
<1>1. PICK c \in Caches :
        /\ c = Released(Cache, channel)
        /\ \A x \in Sounds : c.uses[x] >= Cardinality(Others(x, channel))
  BY ReleasedFacts
<1>2. PICK f \in Caches, s \in Sounds \cup {NoSound} :
        /\ Outcome(f, c, sfx, s)
        /\ Becomes(f)
        /\ channels_playing' = [channels_playing EXCEPT ![channel] = s]
        /\ sounding' \subseteq sounding \cup {channel}
        /\ channel \in sounding' => s # NoSound
  BY <1>1, StartOutcome
<1>3. \A x \in Sounds :
        f.uses[x] >= Cardinality(Others(x, channel)) + (IF x = s THEN 1 ELSE 0)
  <2> TAKE x \in Sounds
  <2>1. /\ c.uses[x] \in Nat /\ f.uses[x] \in Nat
        /\ Cardinality(Others(x, channel)) \in Nat
    BY CacheFacts, ChannelsFinite DEF Others
  <2>2. f.uses[x] >= c.uses[x] + (IF x = s THEN 1 ELSE 0)
    BY <1>2 DEF Outcome
  <2>3. c.uses[x] >= Cardinality(Others(x, channel))
    BY <1>1
  <2> QED BY <2>1, <2>2, <2>3
<1> QED BY <1>2, <1>3, ChannelSet

LEMMA SoundStarts == SoundInit => SoundInv
<1> SUFFICES ASSUME SoundInit PROVE SoundInv
  OBVIOUS
<1>1. /\ Cache = [list |-> <<>>, uses |-> [s \in Sounds |-> 0]]
      /\ use_count = [s \in Sounds |-> 0] /\ MaxUses \in Nat
  BY SoundAssumption DEF SoundInit, Cache
<1>2. Cache \in Caches
  <2>1. <<>> \in Seq(Sounds) /\ NoDuplicates(<<>>)
    BY DEF NoDuplicates
  <2> QED BY <1>1, <2>1 DEF Caches
<1>3. ASSUME NEW s \in Sounds PROVE use_count[s] >= Cardinality(Playing(s))
  <2>1. Playing(s) = {}
    BY SoundAssumption DEF SoundInit, Playing, Sounds
  <2> QED BY <1>1, <2>1, FS_EmptySet
<1> QED BY <1>1, <1>2, <1>3 DEF SoundInit, SoundInv

LEMMA SoundStep == SoundInv /\ [SoundNext]_soundVars => SoundInv'
<1> SUFFICES ASSUME SoundInv, [SoundNext]_soundVars PROVE SoundInv'
  OBVIOUS
<1>1. ASSUME NEW channel \in Channels, NEW sfx \in Sfx, NEW pitch \in Pitches,
             I_SDL_StartSound(sfx, channel, pitch)
      PROVE  SoundInv'
  BY <1>1, StartSoundKeeps
<1>2. ASSUME NEW channel \in Channels, I_SDL_StopSound(channel) PROVE SoundInv'
  BY <1>2, StopSoundKeeps DEF I_SDL_StopSound
<1>3. ASSUME NEW channel \in Channels, SoundEnds(channel) PROVE SoundInv'
  BY <1>3 DEF SoundEnds, SoundInv, Cache, Playing
<1>4. ASSUME NEW channel \in Channels, I_SDL_UpdateSound(channel) PROVE SoundInv'
  BY <1>4, StopSoundKeeps DEF I_SDL_UpdateSound
<1>5. CASE UNCHANGED soundVars
  BY <1>5 DEF soundVars, SoundInv, Cache, Playing
<1> QED BY <1>1, <1>2, <1>3, <1>4, <1>5 DEF SoundNext

LEMMA SoundHolds == SoundSpec => []SoundInv
BY SoundStarts, SoundStep, PTL DEF SoundSpec

LEMMA SoundTypes == SoundInv => SoundTypeOK
<1> SUFFICES ASSUME SoundInv PROVE SoundTypeOK
  OBVIOUS
<1>1. Cache \in Caches /\ Cache.list = allocated_sounds
  BY DEF SoundInv, Cache
<1>2. allocated_sounds \in Seq(Sounds)
  BY <1>1, CacheFacts
<1> QED BY <1>2 DEF SoundInv, SoundTypeOK

(* The cache, the channels and the locks keep their types (i_sdlsound.c):  *)
(* no lock is taken back that was not given.                               *)
THEOREM SoundTypeCorrect == SoundSpec => []SoundTypeOK
BY SoundTypes, SoundHolds, PTL

(* Nothing that a channel plays, and the mixer's thread reads, leaves the  *)
(* list (FindAndFreeSound, ReleaseSoundOnChannel): it is there once, and   *)
(* locked for each of its channels.                                        *)
THEOREM SoundsStay == SoundSpec => []PlayingIsAllocated
<1>1. SoundInv => PlayingIsAllocated
  <2> SUFFICES ASSUME SoundInv PROVE PlayingIsAllocated
    OBVIOUS
  <2>1. Cache \in Caches /\ Cache.list = allocated_sounds /\ Cache.uses = use_count
    BY DEF SoundInv, Cache
  <2>2. /\ NoDuplicates(allocated_sounds)
        /\ \A x \in Sounds : use_count[x] \in Nat /\ (use_count[x] > 0 => x \in Entries(allocated_sounds))
    BY <2>1, CacheFacts
  <2>3. ASSUME NEW s \in Sounds, Playing(s) # {} PROVE s \in Entries(allocated_sounds)
    <3>1. IsFiniteSet(Playing(s)) /\ Cardinality(Playing(s)) \in Nat
      BY ChannelsFinite DEF Playing
    <3>2. Cardinality(Playing(s)) # 0
      BY <2>3, <3>1, FS_EmptySet
    <3>3. use_count[s] >= Cardinality(Playing(s))
      BY DEF SoundInv
    <3> QED BY <2>2, <3>1, <3>2, <3>3
  <2> QED BY <2>2, <2>3 DEF SoundInv, PlayingIsAllocated
<1> QED BY <1>1, SoundHolds, PTL

(* A sound that is allocated fits into snd_cachesize, or all that has no   *)
(* lock has been freed for it (AllocateSound, ReserveCacheSpace).          *)
THEOREM CacheKept == SoundSpec => OnlyLockedLeft
<1>1. SoundInv /\ [SoundNext]_soundVars
        => [snd_cachesize # 0 /\ New # {} =>
              \/ AllocatedSize(allocated_sounds') <= snd_cachesize
              \/ \A s \in OtherSounds : use_count'[s] > 0]_soundVars
  <2> SUFFICES ASSUME SoundInv, [SoundNext]_soundVars, snd_cachesize # 0, New # {}
               PROVE  \/ AllocatedSize(allocated_sounds') <= snd_cachesize
                      \/ \A s \in OtherSounds : use_count'[s] > 0
    OBVIOUS
  <2>1. ASSUME NEW channel \in Channels, Stop(channel) PROVE FALSE
    <3>1. Entries(allocated_sounds') \subseteq Entries(allocated_sounds)
      BY <2>1, StopSoundKeeps
    <3> QED BY <3>1 DEF New
  <2>2. PICK channel \in Channels, sfx \in Sfx, pitch \in Pitches :
          I_SDL_StartSound(sfx, channel, pitch)
    <3>1. CASE UNCHANGED soundVars
      BY <3>1 DEF soundVars, New
    <3>2. CASE \E channel \in Channels : SoundEnds(channel)
      BY <3>2 DEF SoundEnds, New
    <3>3. CASE \E channel \in Channels :
                 I_SDL_StopSound(channel) \/ I_SDL_UpdateSound(channel)
      BY <3>3, <2>1 DEF I_SDL_StopSound, I_SDL_UpdateSound
    <3> QED BY <3>1, <3>2, <3>3 DEF SoundNext
  <2>3. PICK c \in Caches :
          c = Released(Cache, channel) /\ Entries(c.list) \subseteq Entries(allocated_sounds)
    BY ReleasedFacts
  <2>4. PICK f \in Caches, s \in Sounds \cup {NoSound} : Outcome(f, c, sfx, s) /\ Becomes(f)
    BY <2>2, <2>3, StartOutcome
  <2>5. allocated_sounds' = f.list /\ use_count' = f.uses
    BY <2>4 DEF Becomes
  <2>6. ~(Entries(f.list) \subseteq Entries(c.list))
    BY <2>3, <2>5 DEF New
  <2>7. BoundedBut(f, f.uses, {x \in Sounds : x[1] = sfx})
    BY <2>4, <2>6 DEF Outcome
  <2>8. sfx \in {n[1] : n \in New}
    <3>1. PICK n \in New : TRUE
      OBVIOUS
    <3>2. n[1] = sfx
      BY <2>3, <2>4, <2>5 DEF New, Outcome
    <3> QED BY <3>2
  <2>9. CASE AllocatedSize(f.list) <= snd_cachesize
    BY <2>5, <2>9
  <2>10. CASE \A x \in Entries(f.list) : x \in {y \in Sounds : y[1] = sfx} \/ f.uses[x] > 0
    <3>1. \A x \in Entries(f.list) : x[1] = sfx \/ f.uses[x] > 0
      BY <2>10
    <3>2. \A x \in OtherSounds : x \in Entries(f.list) /\ x[1] # sfx
      BY <2>5, <2>8 DEF OtherSounds
    <3> QED BY <2>5, <3>1, <3>2
  <2> QED BY <2>7, <2>9, <2>10 DEF BoundedBut
<1> QED BY <1>1, SoundHolds, PTL DEF SoundSpec, OnlyLockedLeft

-----------------------------------------------------------------------------
(***************************************************************************)
(* The search for servers.  A list of targets, no two for one address, and *)
(* the servers that are found in it.                                       *)
(***************************************************************************)
Targets == [addr : Servers \cup {Master, Broadcast}, state : TargetStates,
            attempts : 0..(QUERY_MAX_ATTEMPTS + 1), age : 0..(QUERY_TIMEOUT + 1)]

TargetLists ==
  {ts \in Seq(Targets) : \A i, j \in DOMAIN ts : ts[i].addr = ts[j].addr => i = j}

Found(ts) == {s \in Servers : \E i \in DOMAIN ts : ts[i].addr = s /\ ts[i].state = "RESPONDED"}

QueryInv ==
  /\ search \in Searches
  /\ targets \in TargetLists
  /\ since \in 0..1 /\ poll \in {"check", "send", "receive", "done"}
  /\ running \in BOOLEAN /\ answers \subseteq Servers \cup {Master}
  /\ late \in 0..MaxLate
  /\ called = [s \in Servers |-> IF s \in Found(targets) THEN 1 ELSE 0]

LEMMA TargetListFacts ==
  ASSUME NEW ts \in TargetLists
  PROVE  /\ ts \in Seq(Targets) /\ Len(ts) \in Nat /\ DOMAIN ts = 1..Len(ts)
         /\ \A i \in DOMAIN ts : ts[i] \in Targets
         /\ \A i, j \in DOMAIN ts : ts[i].addr = ts[j].addr => i = j
BY DEF TargetLists

(* The targets get other states and times, not other addresses.            *)
LEMMA Remade ==
  ASSUME NEW ts \in TargetLists, NEW us, us = [i \in DOMAIN ts |-> us[i]],
         \A i \in DOMAIN ts : us[i] \in Targets /\ us[i].addr = ts[i].addr
  PROVE  /\ us \in TargetLists /\ DOMAIN us = DOMAIN ts
         /\ (\A i \in DOMAIN ts : us[i].state = "RESPONDED" <=> ts[i].state = "RESPONDED")
              => Found(us) = Found(ts)
<1>1. /\ Len(ts) \in Nat /\ DOMAIN ts = 1..Len(ts)
      /\ \A i, j \in DOMAIN ts : ts[i].addr = ts[j].addr => i = j
  BY TargetListFacts
<1>2. us \in [1..Len(ts) -> Targets] /\ DOMAIN us = DOMAIN ts
  BY <1>1
<1>3. us \in Seq(Targets)
  BY <1>1, <1>2, SeqDef
<1> QED BY <1>1, <1>2, <1>3 DEF TargetLists, Found

(* A target that is queried again, given up, or waits.                     *)
QueriedOf(t) == [addr |-> t.addr, state |-> "QUERIED", attempts |-> More(t.attempts), age |-> 0]

LEMMA TargetChanges ==
  ASSUME NEW t \in Targets
  PROVE  /\ \A new \in TargetStates : [t EXCEPT !.state = new] \in Targets
         /\ GivenUp(t) \in Targets /\ GivenUp(t).addr = t.addr
         /\ GivenUp(t).state = "RESPONDED" <=> t.state = "RESPONDED"
         /\ Older(t) \in Targets /\ Older(t).addr = t.addr /\ Older(t).state = t.state
         /\ QueriedOf(t) \in Targets
<1>1. /\ QUERY_MAX_ATTEMPTS \in Nat /\ QUERY_TIMEOUT \in Nat
      /\ {"QUERIED", "NO_RESPONSE", "RESPONDED", "QUEUED"} = TargetStates
  BY QueryAssumption DEF TargetStates
<1>2. More(t.attempts) \in 0..(QUERY_MAX_ATTEMPTS + 1)
  BY <1>1 DEF More, Targets
<1>3. \A new \in TargetStates : [t EXCEPT !.state = new] \in Targets
  BY DEF Targets
<1>4. /\ GivenUp(t) \in Targets /\ GivenUp(t).addr = t.addr
      /\ GivenUp(t).state = "RESPONDED" <=> t.state = "RESPONDED"
  BY <1>1, <1>3 DEF GivenUp, Expired, Waiting, Targets
<1>5. Older(t) \in Targets /\ Older(t).addr = t.addr /\ Older(t).state = t.state
  BY <1>1 DEF Older, Targets
<1>6. QueriedOf(t) \in Targets
  <2>1. t.addr \in Servers \cup {Master, Broadcast} /\ "QUERIED" \in TargetStates
        /\ 0 \in 0..(QUERY_TIMEOUT + 1)
    BY <1>1 DEF Targets
  <2> QED BY <1>2, <2>1, Zenon DEF Targets, QueriedOf
<1> QED BY <1>3, <1>4, <1>5, <1>6

NewOf(a) == [addr |-> a, state |-> "QUEUED", attempts |-> 0, age |-> 0]

LEMMA NewOfFacts ==
  ASSUME NEW a \in Servers \cup {Master, Broadcast}
  PROVE  NewOf(a) \in Targets /\ NewOf(a).addr = a /\ NewOf(a).state # "RESPONDED"
BY QueryAssumption DEF NewOf, Targets, TargetStates

LEMMA NewTargetFacts ==
  ASSUME NEW ts \in TargetLists, NEW a \in Servers \cup {Master, Broadcast}
  PROVE  /\ NewTarget(ts, a) \in TargetLists
         /\ Found(NewTarget(ts, a)) = Found(ts)
<1>1. CASE HasTarget(ts, a)
  BY <1>1 DEF NewTarget
<1>2. CASE ~HasTarget(ts, a)
  <2>1. PICK t \in Targets : t = NewOf(a) /\ t.addr = a /\ t.state # "RESPONDED"
    BY NewOfFacts
  <2>2. /\ ts \in Seq(Targets) /\ Len(ts) \in Nat /\ DOMAIN ts = 1..Len(ts)
        /\ \A i, j \in DOMAIN ts : ts[i].addr = ts[j].addr => i = j
    BY TargetListFacts
  <2>3. PICK us \in Seq(Targets) : us = Append(ts, t)
    BY <2>2, AppendProperties
  <2>4. /\ DOMAIN us = 1..(Len(ts) + 1) /\ us[Len(ts) + 1] = t
        /\ \A i \in 1..Len(ts) : us[i] = ts[i]
    BY <2>2, <2>3
  <2>5. \A i \in DOMAIN us : i \in DOMAIN ts \/ i = Len(ts) + 1
    BY <2>2, <2>4
  <2>6. us \in TargetLists
    BY <1>2, <2>1, <2>2, <2>4, <2>5 DEF HasTarget, TargetLists
  <2>7. Found(us) = Found(ts)
    BY <2>1, <2>2, <2>4, <2>5 DEF Found
  <2>8. NewTarget(ts, a) = us
    BY <1>2, <2>1, <2>3 DEF NewTarget, NewOf
  <2> QED BY <2>6, <2>7, <2>8
<1> QED BY <1>1, <1>2

(* Only the target of the address answers.                                 *)
LEMMA AnswerFacts ==
  ASSUME NEW ts \in TargetLists, NEW a
  PROVE  LET us == SetState(ts, a, "RESPONDED")
         IN /\ us \in TargetLists
            /\ Found(us) = Found(ts) \cup {s \in Servers : s = a /\ HasTarget(ts, s)}
<1> DEFINE us == SetState(ts, a, "RESPONDED")
<1>1. /\ DOMAIN us = DOMAIN ts
      /\ us = [i \in DOMAIN ts |-> us[i]]
      /\ \A i \in DOMAIN ts :
           us[i] = IF ts[i].addr = a THEN [ts[i] EXCEPT !.state = "RESPONDED"] ELSE ts[i]
  BY DEF SetState
<1>2. "RESPONDED" \in TargetStates
  BY DEF TargetStates
<1> HIDE DEF us
<1>3. ASSUME NEW i \in DOMAIN ts
      PROVE  /\ us[i] \in Targets /\ us[i].addr = ts[i].addr
             /\ ts[i].addr = a => us[i].state = "RESPONDED"
             /\ ts[i].addr # a => us[i].state = ts[i].state
  <2>1. ts[i] \in Targets
    BY TargetListFacts
  <2>2. [ts[i] EXCEPT !.state = "RESPONDED"] \in Targets
    BY <1>2, <2>1, TargetChanges
  <2>3. ts[i].addr = [ts[i] EXCEPT !.state = "RESPONDED"].addr
    BY <2>1 DEF Targets
  <2>4. [ts[i] EXCEPT !.state = "RESPONDED"].state = "RESPONDED"
    BY <2>1 DEF Targets
  <2> QED BY <1>1, <2>1, <2>2, <2>3, <2>4
<1>4. us \in TargetLists
  BY <1>1, <1>3, Remade
<1>5. Found(us) = Found(ts) \cup {s \in Servers : s = a /\ HasTarget(ts, s)}
  BY <1>1, <1>3 DEF Found, HasTarget
<1> QED BY <1>4, <1>5 DEF us

(* The servers of the master's list are taken once each.                   *)
LEMMA ListedFacts ==
  ASSUME NEW ts \in TargetLists, NEW us \in WithListed(ts)
  PROVE  us \in TargetLists /\ Found(us) = Found(ts)
<1> DEFINE new == {s \in Listed : ~HasTarget(ts, s)}
           n   == Cardinality(new)
<1>1. IsFiniteSet(new) /\ n \in Nat /\ new \subseteq Servers
  BY QueryAssumption, FS_Subset, FS_CardinalityType
<1>2. PICK order \in [1..n -> new] :
        /\ \A s \in new : \E i \in DOMAIN order : order[i] = s
        /\ us = ts \o [i \in DOMAIN order |-> NewOf(order[i])]
  BY Zenon DEF WithListed, NewOf
<1>3. \A i, j \in 1..n : order[i] = order[j] => i = j
  <2>1. IsFiniteSet(1..n) /\ Cardinality(1..n) = n
    BY <1>1, FS_Interval
  <2>2. order \in Surjection(1..n, new)
    BY <1>2 DEF Surjection
  <2>3. order \in Injection(1..n, new)
    BY <2>1, <2>2, FS_Surjection
  <2> QED BY <2>3 DEF Injection, IsInjective
<1> HIDE DEF n
<1>4. PICK more : more = [i \in 1..n |-> NewOf(order[i])] /\ us = ts \o more
  BY <1>2
<1>5. ASSUME NEW i \in 1..n
      PROVE  /\ order[i] \in new /\ more[i] \in Targets
             /\ more[i].addr = order[i] /\ more[i].state # "RESPONDED"
  <2>1. order[i] \in Servers
    BY <1>1, <1>2
  <2> QED BY <1>2, <1>4, <2>1, NewOfFacts
<1>6. /\ more \in Seq(Targets) /\ Len(more) = n
  <2>1. more \in [1..n -> Targets]
    BY <1>4, <1>5
  <2> QED BY <1>1, <2>1, SeqDef
<1>7. /\ ts \in Seq(Targets) /\ Len(ts) \in Nat /\ DOMAIN ts = 1..Len(ts)
      /\ \A i, j \in DOMAIN ts : ts[i].addr = ts[j].addr => i = j
  BY TargetListFacts
<1>8. /\ us \in Seq(Targets) /\ DOMAIN us = 1..(Len(ts) + n)
      /\ \A i \in 1..Len(ts) : us[i] = ts[i]
      /\ \A i \in 1..n : us[Len(ts) + i] = more[i]
  BY <1>1, <1>4, <1>6, <1>7
<1>9. \A i \in DOMAIN us : \/ i \in DOMAIN ts /\ us[i] = ts[i]
                           \/ i - Len(ts) \in 1..n /\ us[i] = more[i - Len(ts)]
  <2> TAKE i \in DOMAIN us
  <2>1. CASE i <= Len(ts)
    BY <1>7, <1>8, <2>1
  <2>2. CASE i > Len(ts)
    <3>1. PICK j \in 1..n : j = i - Len(ts)
      BY <1>1, <1>7, <1>8, <2>2
    <3>2. i = Len(ts) + j
      BY <1>7, <1>8, <3>1
    <3> QED BY <1>8, <3>1, <3>2
  <2> QED BY <1>7, <1>8, <2>1, <2>2
<1>10. \A i \in DOMAIN ts, j \in 1..n : ts[i].addr # more[j].addr
  BY <1>5 DEF HasTarget
<1>11. ASSUME NEW i \in DOMAIN us, NEW j \in DOMAIN us, us[i].addr = us[j].addr PROVE i = j
  <2>1. CASE i \in DOMAIN ts /\ us[i] = ts[i] /\ j \in DOMAIN ts /\ us[j] = ts[j]
    BY <1>7, <1>11, <2>1
  <2>2. CASE /\ i - Len(ts) \in 1..n /\ us[i] = more[i - Len(ts)]
             /\ j - Len(ts) \in 1..n /\ us[j] = more[j - Len(ts)]
    <3>1. i - Len(ts) = j - Len(ts)
      BY <1>3, <1>5, <1>11, <2>2
    <3> QED BY <1>7, <1>8, <3>1
  <2> QED BY <1>9, <1>10, <1>11, <2>1, <2>2
<1>12. us \in TargetLists
  BY <1>8, <1>11 DEF TargetLists
<1>13. Found(us) = Found(ts)
  <2>1. Found(us) \subseteq Found(ts)
    BY <1>5, <1>9 DEF Found
  <2>2. Found(ts) \subseteq Found(us)
    BY <1>1, <1>7, <1>8 DEF Found
  <2> QED BY <2>1, <2>2
<1> QED BY <1>12, <1>13

LEMMA QueryStarts == QueryInit => QueryInv
<1> SUFFICES ASSUME QueryInit PROVE QueryInv
  OBVIOUS
<1>1. PICK a \in Sought : targets = NewTarget(<<>>, a)
  BY DEF QueryInit
<1>2. a \in Servers \cup {Master, Broadcast}
  BY DEF Sought
<1>3. <<>> \in TargetLists /\ Found(<<>>) = {}
  BY DEF TargetLists, Found
<1>4. targets \in TargetLists /\ Found(targets) = {}
  BY <1>1, <1>2, <1>3, NewTargetFacts
<1>5. 0 \in 0..MaxLate
  BY QueryAssumption
<1> QED BY <1>4, <1>5 DEF QueryInit, QueryInv

(* A server that answers and was not found before is counted.              *)
LEMMA ParseKeeps ==
  ASSUME QueryInv, NEW a \in Servers, ParseResponse(a)
  PROVE  /\ targets' \in TargetLists
         /\ called' = [s \in Servers |-> IF s \in Found(targets') THEN 1 ELSE 0]
         /\ running' \in BOOLEAN
<1>1. PICK known \in TargetLists :
        /\ Found(known) = Found(targets)
        /\ known = IF \E i \in DOMAIN targets : targets[i].addr = Broadcast /\ Waiting(targets[i])
                   THEN NewTarget(targets, a) ELSE targets
  BY NewTargetFacts DEF QueryInv
<1>2. CASE FirstAnswer(known, a)
  <2>1. /\ targets' = SetState(known, a, "RESPONDED")
        /\ called' = [called EXCEPT ![a] = IF @ < 2 THEN @ + 1 ELSE @]
        /\ running' = ~StopsAtFirst
    BY <1>1, <1>2, Zenon DEF ParseResponse
  <2>2. targets' \in TargetLists /\ Found(targets') = Found(known) \cup {a}
    <3>1. HasTarget(known, a)
      BY <1>2 DEF FirstAnswer, HasTarget
    <3>2. {s \in Servers : s = a /\ HasTarget(known, s)} = {a}
      BY <3>1
    <3> QED BY <2>1, <3>2, AnswerFacts
  <2>3. a \notin Found(known)
    BY <1>2, TargetListFacts DEF FirstAnswer, Found
  <2>4. called[a] = 0 /\ called = [s \in Servers |-> IF s \in Found(targets) THEN 1 ELSE 0]
    BY <1>1, <2>3 DEF QueryInv
  <2>5. called' = [s \in Servers |-> IF s \in Found(targets') THEN 1 ELSE 0]
    BY <1>1, <2>1, <2>2, <2>4
  <2>6. running' \in BOOLEAN
    BY <2>1 DEF StopsAtFirst
  <2> QED BY <2>2, <2>5, <2>6
<1>3. CASE ~FirstAnswer(known, a)
  <2>1. UNCHANGED <<targets, called, running>>
    BY <1>1, <1>3, Zenon DEF ParseResponse
  <2> QED BY <2>1 DEF QueryInv
<1> QED BY <1>2, <1>3

LEMMA QueryStep == QueryInv /\ [QueryNext]_queryVars => QueryInv'
<1> SUFFICES ASSUME QueryInv, [QueryNext]_queryVars PROVE QueryInv'
  OBVIOUS
<1>1. targets \in TargetLists
  BY DEF QueryInv
<1>2. CASE CheckTargetTimeouts
  <2>1. /\ targets' = [i \in DOMAIN targets |-> GivenUp(targets[i])]
        /\ poll' = "send"
        /\ UNCHANGED <<search, since, running, answers, called, late>>
    BY <1>2 DEF CheckTargetTimeouts
  <2>2. /\ targets' = [i \in DOMAIN targets |-> targets'[i]]
        /\ \A i \in DOMAIN targets :
             /\ targets'[i] \in Targets /\ targets'[i].addr = targets[i].addr
             /\ targets'[i].state = "RESPONDED" <=> targets[i].state = "RESPONDED"
    BY <1>1, <2>1, TargetListFacts, TargetChanges
  <2>3. targets' \in TargetLists /\ Found(targets') = Found(targets)
    BY <1>1, <2>2, Remade
  <2> QED BY <2>1, <2>3 DEF QueryInv
<1>3. CASE SendOneQuery
  <2>1. poll' = "receive" /\ UNCHANGED <<search, running, called, late>>
    BY <1>3 DEF SendOneQuery
  <2>2. CASE since < 1 \/ Eligible = {}
    <3>1. UNCHANGED <<targets, since, answers>>
      BY <1>3, <2>2 DEF SendOneQuery
    <3> QED BY <2>1, <3>1 DEF QueryInv
  <2>3. CASE ~(since < 1 \/ Eligible = {})
    <3>1. PICK i : /\ i = CHOOSE j \in Eligible : \A k \in Eligible : j <= k
                   /\ targets' = [targets EXCEPT ![i] = QueriedOf(@)]
                   /\ since' = 0
                   /\ \E A \in SUBSET Answering(targets[i].addr) : answers' = answers \cup A
      BY <1>3, <2>3 DEF SendOneQuery, QueriedOf
    <3>2. i \in Eligible
      <4>1. Eligible \subseteq Nat /\ Eligible # {}
        BY <1>1, <2>3, TargetListFacts DEF Eligible
      <4> HIDE DEF Eligible
      <4> QED BY <3>1, <4>1, LeastNumber
    <3>3. i \in DOMAIN targets /\ targets[i] \in Targets /\ targets[i].state # "RESPONDED"
      BY <1>1, <3>2, TargetListFacts DEF Eligible, Expired, Waiting
    <3>4. /\ targets' = [j \in DOMAIN targets |-> targets'[j]]
          /\ targets'[i] = QueriedOf(targets[i])
          /\ \A j \in DOMAIN targets : j # i => targets'[j] = targets[j]
      <4>1. targets \in [1..Len(targets) -> Targets] /\ DOMAIN targets = 1..Len(targets)
        BY <1>1, TargetListFacts
      <4>2. targets' = [j \in 1..Len(targets) |->
                          IF j = i THEN QueriedOf(targets[i]) ELSE targets[j]]
        <5>1. targets' = [targets EXCEPT ![i] = QueriedOf(targets[i])]
          BY <3>1
        <5> QED BY <4>1, <5>1
      <4>3. DOMAIN targets' = DOMAIN targets
        BY <4>1, <4>2
      <4>4. /\ targets'[i] = QueriedOf(targets[i])
            /\ \A j \in DOMAIN targets : j # i => targets'[j] = targets[j]
        BY <3>3, <4>1, <4>2
      <4> QED BY <4>1, <4>2, <4>3, <4>4
    <3>5. /\ targets'[i] \in Targets /\ targets'[i].addr = targets[i].addr
          /\ targets'[i].state # "RESPONDED"
      BY <3>3, <3>4, TargetChanges DEF QueriedOf
    <3>6. targets' \in TargetLists /\ Found(targets') = Found(targets)
      BY <1>1, <3>3, <3>4, <3>5, Remade, TargetListFacts
    <3>7. answers' \subseteq Servers \cup {Master}
      BY <3>1, <3>3 DEF QueryInv, Answering, Targets
    <3>8. since' \in 0..1
      BY <3>1
    <3> QED BY <2>1, <3>6, <3>7, <3>8 DEF QueryInv
  <2> QED BY <2>2, <2>3
<1>4. CASE GetResponse
  <2>1. /\ poll' \in {"check", "done"}
        /\ UNCHANGED <<search, since, late>>
    BY <1>4 DEF GetResponse
  <2>2. answers' \subseteq Servers \cup {Master}
    BY <1>4 DEF GetResponse, QueryInv
  <2>3. /\ targets' \in TargetLists
        /\ called' = [s \in Servers |-> IF s \in Found(targets') THEN 1 ELSE 0]
        /\ running' \in BOOLEAN
    <3>1. CASE UNCHANGED <<targets, called, running>>
      BY <3>1 DEF QueryInv
    <3>2. CASE ParseMasterResponse
      <4>1. UNCHANGED <<running, called>>
        BY <3>2 DEF ParseMasterResponse
      <4>2. PICK ts \in WithListed(targets) : targets' = SetState(ts, Master, "RESPONDED")
        BY <3>2 DEF ParseMasterResponse
      <4>3. ts \in TargetLists /\ Found(ts) = Found(targets)
        BY <1>1, ListedFacts
      <4>4. {s \in Servers : s = Master /\ HasTarget(ts, s)} = {}
        BY QueryAssumption
      <4>5. targets' \in TargetLists /\ Found(targets') = Found(targets)
        BY <4>2, <4>3, <4>4, AnswerFacts
      <4> QED BY <4>1, <4>5 DEF QueryInv
    <3>3. ASSUME NEW a \in Servers, ParseResponse(a)
          PROVE  /\ targets' \in TargetLists
                 /\ called' = [s \in Servers |-> IF s \in Found(targets') THEN 1 ELSE 0]
                 /\ running' \in BOOLEAN
      BY <3>3, ParseKeeps
    <3> QED BY <1>4, <3>1, <3>2, <3>3 DEF GetResponse
  <2> QED BY <2>1, <2>2, <2>3 DEF QueryInv
<1>5. CASE Tick
  <2>1. /\ targets' = [i \in DOMAIN targets |->
                         IF Waiting(targets[i]) THEN Older(targets[i]) ELSE targets[i]]
        /\ since' = 1
        /\ UNCHANGED <<search, poll, running, answers, called>>
    BY <1>5 DEF Tick
  <2>2. late' \in 0..MaxLate
    BY <1>5, QueryAssumption DEF Tick, QueryInv
  <2>3. /\ targets' = [i \in DOMAIN targets |-> targets'[i]]
        /\ \A i \in DOMAIN targets :
             /\ targets'[i] \in Targets /\ targets'[i].addr = targets[i].addr
             /\ targets'[i].state = targets[i].state
    BY <1>1, <2>1, TargetListFacts, TargetChanges
  <2>4. targets' \in TargetLists /\ Found(targets') = Found(targets)
    BY <1>1, <2>3, Remade
  <2> QED BY <2>1, <2>2, <2>4 DEF QueryInv
<1>6. CASE UNCHANGED queryVars
  BY <1>6 DEF queryVars, QueryInv
<1> QED BY <1>2, <1>3, <1>4, <1>5, <1>6 DEF QueryNext, Poll

LEMMA QueryHolds == QuerySpec => []QueryInv
BY QueryStarts, QueryStep, PTL DEF QuerySpec

LEMMA QueryTypes == QueryInv => QueryTypeOK
<1> SUFFICES ASSUME QueryInv PROVE QueryTypeOK
  OBVIOUS
<1>1. \A i \in DOMAIN targets : targets[i] \in Targets
  BY TargetListFacts DEF QueryInv
<1> QED BY <1>1 DEF QueryInv, QueryTypeOK, Targets

(* The targets keep their states and the bounds of their attempts          *)
(* (net_query.c).                                                          *)
THEOREM QueryTypeCorrect == QuerySpec => []QueryTypeOK
BY QueryTypes, QueryHolds, PTL

(* A server is one target and is reported once (NET_Query_ParseResponse,   *)
(* GetTargetForAddr), whoever named it and however often it answers.       *)
THEOREM AnsweredOnce == QuerySpec => []OneAnswerEach
<1>1. QueryInv => OneAnswerEach
  <2> SUFFICES ASSUME QueryInv PROVE OneAnswerEach
    OBVIOUS
  <2>1. \A i, j \in DOMAIN targets : targets[i].addr = targets[j].addr => i = j
    BY TargetListFacts DEF QueryInv
  <2>2. ASSUME NEW s \in Servers
        PROVE  called[s] = IF \E i \in DOMAIN targets :
                                targets[i].addr = s /\ targets[i].state = "RESPONDED"
                           THEN 1 ELSE 0
    <3>1. called[s] = IF s \in Found(targets) THEN 1 ELSE 0
      BY DEF QueryInv
    <3> QED BY <3>1 DEF Found
  <2> QED BY <2>1, <2>2 DEF OneAnswerEach
<1> QED BY <1>1, QueryHolds, PTL
-----------------------------------------------------------------------------
(* The loop of a game.                                                     *)
LEMMA RingPositive == RingSize \in Nat /\ RingSize > 0
BY LoopAssumption

LEMMA LoopNats ==
  /\ RingSize \in Nat /\ ServerLead \in Nat /\ LastTic \in Nat /\ MaxDue \in Nat
  /\ StallTics \in Nat /\ ServerLead <= RingSize
<1>1. OldLead \in Nat /\ ServerLead \in Nat /\ RingSize \in Nat
  BY LoopAssumption
<1> QED BY <1>1, LoopAssumption

(* Division by the length of the ring.                                     *)
LEMMA Turns ==
  ASSUME NEW a \in Int
  PROVE  /\ a = RingSize * (a \div RingSize) + (a % RingSize)
         /\ a % RingSize \in 0..(RingSize - 1) /\ a \div RingSize \in Int
BY RingPositive

LEMMA SlotInRing == ASSUME NEW t \in Nat PROVE Slot(t) \in 0..(RingSize - 1)
BY Turns DEF Slot

(* Numbers that agree in their slot and are less than a turn apart agree.  *)
LEMMA SlotOfOne ==
  ASSUME NEW t \in Int, NEW u \in Int, t % RingSize = u % RingSize,
         t - u < RingSize, u - t < RingSize
  PROVE  t = u
<1> DEFINE p == t \div RingSize
           q == u \div RingSize
<1>1. u - t = RingSize * q - RingSize * p
  BY Turns, RingPositive
<1>2. p \in Int /\ q \in Int
  BY Turns
<1> HIDE DEF p, q
<1>3. u - t = RingSize * (q - p)
  BY <1>1, <1>2, RingPositive
<1>4. CASE q - p <= -1
  BY <1>2, <1>3, <1>4, RingPositive
<1>5. CASE q - p >= 1
  BY <1>2, <1>3, <1>5, RingPositive
<1>6. CASE q - p = 0
  BY <1>3, <1>6, RingPositive
<1> QED BY <1>2, <1>4, <1>5, <1>6

(* LastIn is what its comment says: of the last turn, and in its slot.     *)
LEMMA LastInSlot ==
  ASSUME NEW i \in 0..(RingSize - 1), NEW to \in Nat
  PROVE  /\ LastIn(i, to) \in Int /\ LastIn(i, to) < to /\ LastIn(i, to) >= to - RingSize
         /\ LastIn(i, to) % RingSize = i
<1> DEFINE a == to - 1 - i
           q == a \div RingSize
           l == LastIn(i, to)
<1>1. a \in Int /\ i \in Int
  BY RingPositive
<1>2. a = RingSize * q + (a % RingSize) /\ a % RingSize \in 0..(RingSize - 1) /\ q \in Int
  BY <1>1, Turns
<1>3. l = to - 1 - (a % RingSize)
  BY DEF LastIn
<1>4. l \in Int /\ l < to /\ l >= to - RingSize
  BY <1>2, <1>3, RingPositive
<1>5. l = i + RingSize * q
  BY <1>1, <1>2, <1>3, RingPositive
<1>6. l % RingSize = i
  <2> DEFINE r == l % RingSize
             p == l \div RingSize
  <2>1. l = RingSize * p + r /\ r \in 0..(RingSize - 1) /\ p \in Int
    BY <1>4, Turns
  <2> HIDE DEF l, r, p, q
  <2>2. i - r = RingSize * (p - q)
    BY <2>1, <1>1, <1>2, <1>5, RingPositive
  <2>3. p \in Int /\ q \in Int /\ r \in 0..(RingSize - 1)
    BY <2>1, <1>2 DEF q
  <2>4. ASSUME p - q <= -1 PROVE FALSE
    BY <2>2, <2>3, <2>4, <1>1, RingPositive
  <2>5. ASSUME p - q >= 1 PROVE FALSE
    BY <2>2, <2>3, <2>5, <1>1, RingPositive
  <2>6. r = i
    BY <2>2, <2>3, <2>4, <2>5, <1>1, RingPositive
  <2> QED BY <2>6 DEF r, l
<1> QED BY <1>4, <1>6

(* What a tic less than a turn before to finds in its slot is itself.      *)
LEMMA LastInOwnSlot ==
  ASSUME NEW t \in Nat, NEW to \in Nat, t < to, to <= t + RingSize
  PROVE  LastIn(Slot(t), to) = t
<1> DEFINE l == LastIn(Slot(t), to)
<1>1. Slot(t) \in 0..(RingSize - 1)
  BY SlotInRing
<1>2. l \in Int /\ l < to /\ l >= to - RingSize /\ l % RingSize = t % RingSize
  BY <1>1, LastInSlot DEF Slot
<1> HIDE DEF l
<1>3. l - t < RingSize /\ t - l < RingSize
  BY <1>2, RingPositive
<1>4. l = t
  BY <1>2, <1>3, SlotOfOne
<1> QED BY <1>4 DEF l
-----------------------------------------------------------------------------
TicSets == [cmds : [LoopPlayers -> {None} \cup 0..LastTic], ingame : SUBSET LoopPlayers]

LoopTypes ==
  /\ DLoopTypeOK
  /\ net_client_connected \in BOOLEAN
  /\ ticdata \in [0..(RingSize - 1) -> TicSets]
  /\ incoming \in Seq(SUBSET LoopPlayers)

(* The numbers: this node is ahead of the game and the server's tics may   *)
(* be ahead of this node, both within one turn of the ring; the game       *)
(* follows what GetLowTic has counted.                                     *)
Counted ==
  /\ recvtic + Len(incoming) <= LastTic
  /\ ~drone => recvtic + Len(incoming) <= maketic + ServerLead
  /\ ~drone => lowtic <= maketic /\ gametic <= maketic
  /\ drone => maketic = 0
  /\ maketic + ServerLead <= gametic + RingSize
  /\ drone \/ net_client_connected => lowtic <= recvtic /\ gametic <= recvtic
  /\ pc \in {"loop", "run"} => counts > 0
  /\ pc = "run" => gametic + counts <= lowtic
  /\ drone /\ pc # "quit" => net_client_connected

(* The ring holds what was made and received for the tics still to be run. *)
OwnTic(set, t) == localplayer \in set.ingame /\ set.cmds[localplayer] = t

OthersTic(set, t) == \A p \in set.ingame \ {localplayer} : set.cmds[p] = t

RingInv ==
  ~drone => /\ \A t \in gametic..(maketic - 1) : OwnTic(ticdata[Slot(t)], t)
            /\ \A t \in gametic..(recvtic - 1) : OthersTic(ticdata[Slot(t)], t)

LoopInv == LoopTypes /\ Counted /\ RingInv
-----------------------------------------------------------------------------
(* One set of commands.                                                    *)
LEMMA ReceiveOne ==
  ASSUME NEW set \in TicSets, NEW t \in 0..LastTic, NEW mask \in SUBSET LoopPlayers,
         config \in Configs
  PROVE  /\ ReceiveTic(set, t, mask) \in TicSets
         /\ ~drone => /\ OthersTic(ReceiveTic(set, t, mask), t)
                      /\ \A u : OwnTic(set, u) => OwnTic(ReceiveTic(set, t, mask), u)
<1>1. localplayer \in LoopPlayers
  BY DEF Configs, localplayer
<1>2. ReceiveTic(set, t, mask) \in TicSets
  BY <1>1 DEF ReceiveTic, TicSets, Myself
<1>3. ASSUME ~drone
      PROVE  /\ OthersTic(ReceiveTic(set, t, mask), t)
             /\ \A u : OwnTic(set, u) => OwnTic(ReceiveTic(set, t, mask), u)
  BY <1>1, <1>3 DEF ReceiveTic, TicSets, Myself, OthersTic, OwnTic
<1> QED BY <1>2, <1>3

LEMMA MakeOne ==
  ASSUME NEW set \in TicSets, NEW t \in 0..LastTic, config \in Configs
  PROVE  /\ MakeTic(set, t) \in TicSets /\ OwnTic(MakeTic(set, t), t)
         /\ \A u : OthersTic(set, u) => OthersTic(MakeTic(set, t), u)
<1>1. localplayer \in LoopPlayers
  BY DEF Configs, localplayer
<1> QED BY <1>1 DEF MakeTic, TicSets, OwnTic, OthersTic

(* The ring after the server's tics: they are in their slots, and what was *)
(* there for other tics and what this node made stays.                     *)
LEMMA RingReceived ==
  ASSUME LoopInv, NEW in \in Seq(SUBSET LoopPlayers), Len(in) <= Len(incoming)
  PROVE  /\ Received(in) \in [0..(RingSize - 1) -> TicSets]
         /\ ~drone => /\ \A t \in gametic..(maketic - 1) : OwnTic(Received(in)[Slot(t)], t)
                      /\ \A t \in gametic..(recvtic + Len(in) - 1) :
                           OthersTic(Received(in)[Slot(t)], t)
<1> DEFINE to   == recvtic + Len(in)
           l(i) == LastIn(i, to)
           new(i) == ReceiveTic(ticdata[i], l(i), in[l(i) - recvtic + 1])
<1>1. /\ recvtic \in Nat /\ gametic \in Nat /\ maketic \in Nat /\ to \in Nat
      /\ to <= LastTic /\ Len(in) \in Nat /\ Len(incoming) \in Nat
      /\ config \in Configs /\ LastTic \in Nat
      /\ ~drone => to <= gametic + RingSize
  BY LoopNats DEF LoopInv, LoopTypes, DLoopTypeOK, Counted
<1>2. ticdata \in [0..(RingSize - 1) -> TicSets]
  BY DEF LoopInv, LoopTypes
<1>3. Received(in) = [i \in 0..(RingSize - 1) |-> IF l(i) >= recvtic THEN new(i) ELSE ticdata[i]]
  BY <1>2 DEF Received
<1>4. ASSUME NEW i \in 0..(RingSize - 1), l(i) >= recvtic
      PROVE  /\ new(i) \in TicSets
             /\ ~drone => /\ OthersTic(new(i), l(i))
                          /\ \A u : OwnTic(ticdata[i], u) => OwnTic(new(i), u)
  <2>0. LastIn(i, to) \in Int /\ LastIn(i, to) < to
    <3> HIDE DEF to
    <3> QED BY <1>1, LastInSlot
  <2>1. l(i) \in 0..LastTic /\ l(i) < to
    BY <2>0, <1>1, <1>4
  <2>2. l(i) - recvtic + 1 \in 1..Len(in)
    BY <2>1, <1>1, <1>4
  <2>3. in[l(i) - recvtic + 1] \in SUBSET LoopPlayers
    BY <2>2
  <2>4. ticdata[i] \in TicSets
    BY <1>2
  <2> HIDE DEF l
  <2> QED BY <2>1, <2>3, <2>4, <1>1, ReceiveOne
<1>5. ticdata \in [0..(RingSize - 1) -> TicSets] /\ \A i \in 0..(RingSize - 1) : ticdata[i] \in TicSets
  BY <1>2
<1> HIDE DEF l, new
<1>6. Received(in) \in [0..(RingSize - 1) -> TicSets]
  BY <1>3, <1>4, <1>5
<1>7. ASSUME ~drone, NEW t \in gametic..(maketic - 1) PROVE OwnTic(Received(in)[Slot(t)], t)
  <2>1. OwnTic(ticdata[Slot(t)], t)
    BY <1>7 DEF LoopInv, RingInv
  <2>2. t \in Nat
    BY <1>1
  <2>3. Slot(t) \in 0..(RingSize - 1)
    BY <2>2, SlotInRing
  <2> QED BY <2>1, <2>3, <1>3, <1>4, <1>7
<1>8. ASSUME ~drone, NEW t \in gametic..(recvtic + Len(in) - 1)
      PROVE  OthersTic(Received(in)[Slot(t)], t)
  <2>1. t \in Nat /\ t < to /\ to <= t + RingSize
    BY <1>1, <1>8, RingPositive
  <2>2. l(Slot(t)) = t
    BY <2>1, <1>1, LastInOwnSlot DEF l
  <2>3. Slot(t) \in 0..(RingSize - 1)
    BY <2>1, SlotInRing
  <2>4. CASE t >= recvtic
    BY <2>2, <2>3, <2>4, <1>3, <1>4, <1>8
  <2>5. CASE t < recvtic
    <3>1. OthersTic(ticdata[Slot(t)], t)
      BY <2>1, <2>5, <1>1, <1>8 DEF LoopInv, RingInv
    <3>2. ~(l(Slot(t)) >= recvtic)
      BY <2>1, <2>2, <2>5, <1>1
    <3> QED BY <3>1, <3>2, <2>3, <1>3
  <2> QED BY <2>1, <2>4, <2>5, <1>1
<1>9. ~drone => \A t \in gametic..(recvtic + Len(in) - 1) : OthersTic(Received(in)[Slot(t)], t)
  BY <1>8
<1>10. ~drone => \A t \in gametic..(maketic - 1) : OwnTic(Received(in)[Slot(t)], t)
  BY <1>7
<1> QED BY <1>6, <1>9, <1>10

(* The ring after n more commands, which fit into it.                      *)
LEMMA RingMade ==
  ASSUME NEW ring \in [0..(RingSize - 1) -> TicSets], config \in Configs, NEW n \in Nat,
         maketic \in Nat, NEW g \in Nat, NEW r \in Nat,
         maketic + n <= LastTic, maketic + n <= g + RingSize,
         \A t \in g..(maketic - 1) : OwnTic(ring[Slot(t)], t),
         \A t \in g..(r - 1) : OthersTic(ring[Slot(t)], t)
  PROVE  /\ Made(ring, n) \in [0..(RingSize - 1) -> TicSets]
         /\ \A t \in g..(maketic + n - 1) : OwnTic(Made(ring, n)[Slot(t)], t)
         /\ \A t \in g..(r - 1) : OthersTic(Made(ring, n)[Slot(t)], t)
<1> DEFINE to   == maketic + n
           l(i) == LastIn(i, to)
           new(i) == MakeTic(ring[i], l(i))
<1>1. to \in Nat /\ LastTic \in Nat
  BY LoopAssumption
<1>2. Made(ring, n) = [i \in 0..(RingSize - 1) |-> IF l(i) >= maketic THEN new(i) ELSE ring[i]]
  BY DEF Made
<1>3. ASSUME NEW i \in 0..(RingSize - 1), l(i) >= maketic
      PROVE  /\ new(i) \in TicSets /\ OwnTic(new(i), l(i))
             /\ \A u : OthersTic(ring[i], u) => OthersTic(new(i), u)
  <2>1. l(i) \in 0..LastTic
    BY <1>1, <1>3, LastInSlot
  <2>2. ring[i] \in TicSets
    OBVIOUS
  <2> HIDE DEF l
  <2> QED BY <2>1, <2>2, MakeOne
<1>4. \A i \in 0..(RingSize - 1) : ring[i] \in TicSets
  OBVIOUS
<1>5. ASSUME NEW t \in g..(to - 1)
      PROVE  l(Slot(t)) = t /\ Slot(t) \in 0..(RingSize - 1) /\ t \in Nat
  <2>1. t \in Nat /\ t < to /\ to <= t + RingSize
    BY <1>1, RingPositive
  <2> QED BY <2>1, <1>1, LastInOwnSlot, SlotInRing
<1> HIDE DEF l, new
<1>6. Made(ring, n) \in [0..(RingSize - 1) -> TicSets]
  BY <1>2, <1>3, <1>4
<1>7. ASSUME NEW t \in g..(to - 1) PROVE OwnTic(Made(ring, n)[Slot(t)], t)
  <2>1. CASE t >= maketic
    BY <2>1, <1>2, <1>3, <1>5
  <2>2. CASE t < maketic
    <3>1. OwnTic(ring[Slot(t)], t)
      BY <2>2
    <3>2. ~(l(Slot(t)) >= maketic)
      BY <2>2, <1>5
    <3> QED BY <3>1, <3>2, <1>2, <1>5
  <2> QED BY <2>1, <2>2, <1>5
<1>8. ASSUME NEW t \in g..(r - 1) PROVE OthersTic(Made(ring, n)[Slot(t)], t)
  <2>1. Slot(t) \in 0..(RingSize - 1)
    BY SlotInRing
  <2>2. OthersTic(ring[Slot(t)], t)
    OBVIOUS
  <2> QED BY <2>1, <2>2, <1>2, <1>3
<1> QED BY <1>6, <1>7, <1>8
-----------------------------------------------------------------------------
(* What NetUpdate may do, whatever it finds; the game may run a tic along  *)
(* with it.                                                                *)
Updated ==
  \/ UNCHANGED <<net_client_connected, maketic, recvtic, ticdata, incoming>>
  \/ \E k \in 0..Len(incoming), lost \in BOOLEAN, newtics \in Nat :
       Update(SubSeq(incoming, 1, k), lost, newtics)

LEMMA NetUpdateUpdates ==
  ASSUME LoopInv, NetUpdate \/ Update(<<>>, FALSE, 1)
  PROVE  Updated
<1>1. NewTics \in Nat
  BY LoopAssumption DEF LoopInv, LoopTypes, DLoopTypeOK, NewTics
<1>2. incoming \in Seq(SUBSET LoopPlayers) /\ Len(incoming) \in Nat
  BY DEF LoopInv, LoopTypes
<1>3. SubSeq(incoming, 1, Len(incoming)) = incoming /\ SubSeq(incoming, 1, 0) = <<>>
  BY <1>2
<1>4. CASE Update(<<>>, FALSE, 1)
  <2>1. Update(SubSeq(incoming, 1, 0), FALSE, 1)
    BY <1>3, <1>4
  <2>2. 0 \in 0..Len(incoming) /\ 1 \in Nat
    BY <1>2
  <2> QED BY <2>1, <2>2, Zenon DEF Updated
<1>5. CASE Update(incoming, FALSE, NewTics)
  <2>1. Update(SubSeq(incoming, 1, Len(incoming)), FALSE, NewTics)
    BY <1>3, <1>5
  <2>2. Len(incoming) \in 0..Len(incoming)
    BY <1>2
  <2> QED BY <2>1, <2>2, <1>1, Zenon DEF Updated
<1>6. CASE \E k \in 0..Len(incoming) : Update(SubSeq(incoming, 1, k), TRUE, NewTics)
  BY <1>1, <1>6 DEF Updated
<1>7. CASE UNCHANGED <<net_client_connected, maketic, recvtic, ticdata, incoming>>
  BY <1>7 DEF Updated
<1> QED BY <1>4, <1>5, <1>6, <1>7 DEF NetUpdate

(* BuildNewTic stops before the ring is full.                              *)
LEMMA RoomInRing ==
  ASSUME LoopInv, config' = config, NEW g \in 0..LastTic, gametic' = g, NEW c
  PROVE  /\ RoomFor(c) \in Nat /\ maketic + RoomFor(c) <= LastTic
         /\ gametic <= g => maketic + RoomFor(c) + ServerLead <= g + RingSize
         /\ drone => RoomFor(c) = 0
<1>1. /\ maketic \in 0..LastTic /\ gametic \in Nat /\ ServerLead \in Nat
      /\ maketic + ServerLead <= gametic + RingSize
  BY LoopNats DEF LoopInv, LoopTypes, DLoopTypeOK, Counted
<1> DEFINE lead == IF ~config.new_sync THEN OldLead
                   ELSE IF c THEN NetLead + 1 ELSE Smaller(NetLead, SoloAhead) + 1
           highest == Smaller(g + lead, LastTic)
<1>2. lead \in Nat /\ lead + ServerLead <= RingSize
  BY LoopAssumption DEF Smaller
<1>3. RoomFor(c) = IF drone \/ highest < maketic THEN 0 ELSE highest - maketic
  BY DEF RoomFor
<1> HIDE DEF lead
<1>4. g \in Nat /\ LastTic \in Nat /\ RingSize \in Nat
  BY LoopAssumption
<1>5. g + lead \in Nat /\ g + lead + ServerLead <= g + RingSize
  BY <1>1, <1>2, <1>4
<1>6. highest \in Nat /\ highest <= LastTic /\ highest + ServerLead <= g + RingSize
  BY <1>1, <1>4, <1>5 DEF Smaller
<1> HIDE DEF highest
<1>7. CASE drone \/ highest < maketic
  <2>1. RoomFor(c) = 0
    BY <1>3, <1>7
  <2> QED BY <2>1, <1>1, <1>4
<1>8. CASE ~(drone \/ highest < maketic)
  <2>1. RoomFor(c) = highest - maketic
    BY <1>3, <1>8
  <2>2. maketic <= highest /\ ~drone
    BY <1>1, <1>6, <1>8
  <2> QED BY <2>1, <2>2, <1>1, <1>4, <1>6
<1> QED BY <1>7, <1>8

(* A NetUpdate keeps the ring and its numbers.                             *)
UpdatedInv ==
  /\ net_client_connected' \in BOOLEAN /\ (net_client_connected' => net_client_connected)
  /\ maketic' \in 0..LastTic /\ maketic <= maketic'
  /\ maketic' + ServerLead <= gametic' + RingSize
  /\ recvtic' \in 0..LastTic /\ recvtic <= recvtic'
  /\ incoming' \in Seq(SUBSET LoopPlayers) /\ recvtic' + Len(incoming') <= LastTic
  /\ ~drone => recvtic' + Len(incoming') <= maketic' + ServerLead
  /\ drone => maketic' = 0
  /\ ticdata' \in [0..(RingSize - 1) -> TicSets]
  /\ RingInv'

LEMMA UpdateKeeps ==
  ASSUME LoopInv, config' = config, NEW g \in 0..LastTic, gametic' = g, gametic <= g,
         ~drone => g <= maketic, Updated
  PROVE  UpdatedInv
<1>1. /\ maketic \in 0..LastTic /\ recvtic \in 0..LastTic /\ gametic \in 0..LastTic
      /\ incoming \in Seq(SUBSET LoopPlayers) /\ Len(incoming) \in Nat
      /\ LastTic \in Nat /\ config \in Configs /\ net_client_connected \in BOOLEAN
      /\ ticdata \in [0..(RingSize - 1) -> TicSets]
      /\ recvtic + Len(incoming) <= LastTic /\ ServerLead \in Nat
      /\ maketic + ServerLead <= gametic + RingSize
      /\ ~drone => recvtic + Len(incoming) <= maketic + ServerLead
      /\ drone => maketic = 0
  BY LoopNats DEF LoopInv, LoopTypes, DLoopTypeOK, Counted
<1>2. (drone' <=> drone) /\ localplayer' = localplayer
  BY DEF drone, localplayer
<1>3. CASE UNCHANGED <<net_client_connected, maketic, recvtic, ticdata, incoming>>
  <2>1. RingInv'
    <3>1. ASSUME ~drone, NEW t \in g..(maketic - 1) PROVE OwnTic(ticdata[Slot(t)], t)
      BY <3>1, <1>1 DEF LoopInv, RingInv
    <3>2. ASSUME ~drone, NEW t \in g..(recvtic - 1) PROVE OthersTic(ticdata[Slot(t)], t)
      BY <3>2, <1>1 DEF LoopInv, RingInv
    <3> QED BY <3>1, <3>2, <1>2, <1>3 DEF RingInv, OwnTic, OthersTic
  <2>2. maketic + ServerLead <= g + RingSize
    BY <1>1, RingPositive
  <2> QED BY <2>1, <2>2, <1>1, <1>3 DEF UpdatedInv
<1>4. ASSUME NEW k \in 0..Len(incoming), NEW lost \in BOOLEAN, NEW newtics \in Nat,
             Update(SubSeq(incoming, 1, k), lost, newtics)
      PROVE  UpdatedInv
  <2> DEFINE in == SubSeq(incoming, 1, k)
             n  == Smaller(newtics, RoomFor(net_client_connected'))
  <2>1. in \in Seq(SUBSET LoopPlayers) /\ Len(in) = k /\ k <= Len(incoming) /\ k \in Nat
    BY <1>1
  <2>2. /\ net_client_connected' = (net_client_connected /\ ~lost)
        /\ recvtic' = recvtic + k /\ maketic' = maketic + n
        /\ ticdata' = Made(Received(in), n) /\ incoming' = <<>>
    BY <1>4, <2>1 DEF Update
  <2>3. /\ RoomFor(net_client_connected') \in Nat
        /\ maketic + RoomFor(net_client_connected') <= LastTic
        /\ maketic + RoomFor(net_client_connected') + ServerLead <= g + RingSize
        /\ drone => RoomFor(net_client_connected') = 0
    BY RoomInRing
  <2>4. /\ n \in Nat /\ maketic + n <= LastTic
        /\ maketic + n + ServerLead <= g + RingSize /\ maketic + n <= g + RingSize
        /\ drone => n = 0
    BY <2>3, <1>1, RingPositive DEF Smaller
  <2>5. /\ Received(in) \in [0..(RingSize - 1) -> TicSets]
        /\ ~drone => /\ \A t \in gametic..(maketic - 1) : OwnTic(Received(in)[Slot(t)], t)
                     /\ \A t \in gametic..(recvtic + Len(in) - 1) :
                          OthersTic(Received(in)[Slot(t)], t)
    BY <2>1, RingReceived
  <2> HIDE DEF in, n
  <2>6. ticdata' \in [0..(RingSize - 1) -> TicSets] /\ RingInv'
    <3>1. CASE drone
      <4>1. \A i \in 0..(RingSize - 1) : ~(LastIn(i, maketic + n) >= maketic)
        BY <3>1, <2>4, <1>1, LastInSlot
      <4>2. Made(Received(in), n) = Received(in)
        BY <4>1, <2>5 DEF Made
      <4> QED BY <3>1, <4>2, <2>2, <2>5, <1>2 DEF RingInv
    <3>2. CASE ~drone
      <4> DEFINE ring == Received(in)
                 r    == recvtic + k
      <4>1. ring \in [0..(RingSize - 1) -> TicSets]
        BY <2>5
      <4>2. \A t \in g..(maketic - 1) : OwnTic(ring[Slot(t)], t)
        BY <3>2, <2>5, <1>1
      <4>3. \A t \in g..(r - 1) : OthersTic(ring[Slot(t)], t)
        BY <3>2, <2>1, <2>5, <1>1 DEF in
      <4>4. r \in Nat /\ maketic \in Nat /\ g \in Nat
        BY <3>2, <2>1, <1>1
      <4> HIDE DEF ring, r
      <4>5. /\ Made(ring, n) \in [0..(RingSize - 1) -> TicSets]
            /\ \A t \in g..(maketic + n - 1) : OwnTic(Made(ring, n)[Slot(t)], t)
            /\ \A t \in g..(r - 1) : OthersTic(Made(ring, n)[Slot(t)], t)
        BY <4>1, <4>2, <4>3, <4>4, <2>4, <1>1, RingMade
      <4>6. ticdata' = Made(ring, n) /\ recvtic' = r
        BY <2>2 DEF ring, r
      <4>7. ASSUME NEW t \in g..(maketic + n - 1) PROVE OwnTic(ticdata[Slot(t)], t)'
        <5>1. maketic' = maketic + n
          BY <2>2
        <5>2. OwnTic(Made(ring, n)[Slot(t)], t)
          BY <4>5, <4>7, <5>1
        <5> QED BY <5>2, <4>6, <1>2 DEF OwnTic
      <4>8. ASSUME NEW t \in g..(r - 1) PROVE OthersTic(ticdata[Slot(t)], t)'
        BY <4>5, <4>6, <4>8, <2>2, <1>2 DEF OthersTic
      <4>9. \A t \in gametic'..(maketic' - 1) : OwnTic(ticdata[Slot(t)], t)'
        <5>1. maketic' = maketic + n
          BY <2>2
        <5>2. gametic'..(maketic' - 1) = g..(maketic + n - 1)
          BY <5>1, <2>4, <1>1
        <5> QED BY <5>2, <4>7
      <4>10. \A t \in gametic'..(recvtic' - 1) : OthersTic(ticdata[Slot(t)], t)'
        BY <4>6, <4>8
      <4> QED BY <4>5, <4>6, <4>9, <4>10 DEF RingInv
    <3> QED BY <3>1, <3>2
  <2>7. /\ incoming' \in Seq(SUBSET LoopPlayers) /\ Len(incoming') = 0
    BY <2>2
  <2> QED BY <2>1, <2>2, <2>4, <2>6, <2>7, <1>1 DEF UpdatedInv
<1> QED BY <1>3, <1>4 DEF Updated
-----------------------------------------------------------------------------
(* What a step with a NetUpdate has to show beside the NetUpdate itself.   *)
LEMMA StepKeeps ==
  ASSUME LoopInv, UpdatedInv, config' = config, others' = others,
         NEW g \in 0..LastTic, gametic' = g, NEW l \in 0..LastTic, lowtic' = l,
         NEW c \in Nat, counts' = c,
         due' \in 0..MaxDue, skiptics' \in 0..1, stall' \in 0..StallTics,
         NEW m, maketic' = m, NEW r, recvtic' = r,
         ~drone => l <= m /\ g <= m,
         drone \/ net_client_connected' => l <= r /\ g <= r,
         pc' \in {"outside", "loop", "run", "quit"},
         pc' \in {"loop", "run"} => c > 0,
         pc' = "run" => g + c <= l,
         drone /\ pc' # "quit" => net_client_connected',
         pc' = "quit" => drone /\ ~net_client_connected'
  PROVE  LoopInv'
<1>1. (drone' <=> drone) /\ localplayer' = localplayer
  BY DEF drone, localplayer
<1>2. LoopTypes'
  <2>1. /\ config' \in Configs /\ gametic' \in 0..LastTic /\ lowtic' \in 0..LastTic
        /\ counts' \in Nat /\ others' \subseteq LoopPlayers
    BY DEF LoopInv, LoopTypes, DLoopTypeOK
  <2>2. /\ maketic' \in 0..LastTic /\ recvtic' \in 0..LastTic
        /\ ticdata' \in [0..(RingSize - 1) -> TicSets]
        /\ incoming' \in Seq(SUBSET LoopPlayers) /\ net_client_connected' \in BOOLEAN
    BY DEF UpdatedInv
  <2>3. \A i \in DOMAIN ticdata' : ticdata'[i] \in TicSets
    BY <2>2
  <2> QED BY <2>1, <2>2, <2>3, <1>1 DEF LoopTypes, DLoopTypeOK, TicSets
<1>3. Counted'
  <2>1. /\ recvtic' + Len(incoming') <= LastTic
        /\ ~drone => recvtic' + Len(incoming') <= maketic' + ServerLead
        /\ drone => maketic' = 0
        /\ maketic' + ServerLead <= gametic' + RingSize
    BY DEF UpdatedInv
  <2> QED BY <2>1, <1>1 DEF Counted
<1>4. RingInv'
  BY DEF UpdatedInv
<1> QED BY <1>2, <1>3, <1>4 DEF LoopInv

(* GetLowTic counts the tics that can be run: received, while there is a   *)
(* server, and made; and never fewer than have been.                       *)
LEMMA LowTicCounts ==
  ASSUME LoopInv, UpdatedInv, gametic' = gametic, NEW l, l = GetLowTic,
         NEW m, maketic' = m, NEW r, recvtic' = r
  PROVE  /\ l \in 0..LastTic
         /\ ~drone => l <= m /\ gametic <= m
         /\ drone \/ net_client_connected' => l <= r /\ gametic <= r
         /\ l < gametic => drone /\ ~net_client_connected'
<1>1. /\ m \in 0..LastTic /\ r \in 0..LastTic /\ LastTic \in Nat
      /\ gametic \in 0..LastTic /\ maketic \in 0..LastTic /\ recvtic \in 0..LastTic
      /\ maketic <= m /\ recvtic <= r
      /\ net_client_connected' \in BOOLEAN
      /\ net_client_connected' => net_client_connected
      /\ drone => m = 0
      /\ ~drone => gametic <= maketic
      /\ drone \/ net_client_connected => gametic <= recvtic
  BY LoopNats DEF UpdatedInv, LoopInv, LoopTypes, DLoopTypeOK, Counted
<1>2. l = IF net_client_connected' /\ (drone \/ r < m) THEN r ELSE m
  BY DEF GetLowTic
<1> QED BY <1>1, <1>2

LEMMA TimeKept ==
  ASSUME LoopInv, Elapsed
  PROVE  due' \in 0..MaxDue /\ skiptics' \in 0..1
<1>1. due \in 0..MaxDue /\ skiptics \in 0..1 /\ MaxDue \in Nat
  BY LoopNats DEF LoopInv, LoopTypes, DLoopTypeOK
<1> QED BY <1>1 DEF Elapsed, SkipLeft

LEMMA InitInv == DLoopInit => LoopInv
<1> SUFFICES ASSUME DLoopInit PROVE LoopInv
  OBVIOUS
<1>1. /\ LastTic \in Nat /\ MaxDue \in Nat /\ StallTics \in Nat /\ RingSize \in Nat
      /\ ServerLead \in Nat /\ ServerLead <= RingSize
  BY LoopAssumption
<1>2. /\ config \in Configs /\ net_client_connected \in BOOLEAN
      /\ drone => net_client_connected
      /\ maketic = 0 /\ recvtic = 0 /\ gametic = 0
      /\ skiptics = 0 /\ pc = "outside" /\ lowtic = 0 /\ counts = 0
      /\ due = 0 /\ stall = 0 /\ incoming = <<>> /\ others \subseteq LoopPlayers
  BY DEF DLoopInit
<1>3. ticdata \in [0..(RingSize - 1) -> TicSets]
  BY DEF DLoopInit, TicSets
<1>4. LoopTypes
  <2>1. \A i \in DOMAIN ticdata : ticdata[i] \in TicSets
    BY <1>3
  <2> QED BY <1>1, <1>2, <1>3, <2>1 DEF LoopTypes, DLoopTypeOK, TicSets
<1>5. Counted
  BY <1>1, <1>2 DEF Counted
<1>6. RingInv
  BY <1>2 DEF RingInv
<1> QED BY <1>4, <1>5, <1>6 DEF LoopInv
-----------------------------------------------------------------------------
(* The actions.                                                            *)
LEMMA StepUpdates ==
  ASSUME LoopInv, config' = config, gametic' = gametic, NetUpdate \/ Update(<<>>, FALSE, 1)
  PROVE  UpdatedInv
<1>0. gametic \in 0..LastTic /\ LastTic \in Nat
  BY LoopNats DEF LoopInv, LoopTypes, DLoopTypeOK
<1>1. gametic \in 0..LastTic /\ gametic <= gametic /\ (~drone => gametic <= maketic)
  BY <1>0 DEF LoopInv, Counted
<1>2. Updated
  BY NetUpdateUpdates
<1> QED BY <1>1, <1>2, UpdateKeeps

LEMMA TryRunTicsInv == ASSUME LoopInv, TryRunTics PROVE LoopInv'
<1> DEFINE g == gametic
           l == GetLowTic
           m == maketic'
           r == recvtic'
           c == counts'
<1>1. /\ pc = "outside" /\ config' = config /\ others' = others /\ gametic' = g
      /\ NetUpdate \/ Update(<<>>, FALSE, 1)
      /\ OldNetSync /\ lowtic' = l /\ stall' = 0
      /\ pc' = IF Fatal THEN "quit" ELSE "loop"
  BY DEF TryRunTics
<1>2. UpdatedInv
  BY <1>1, StepUpdates
<1>3. /\ l \in 0..LastTic
      /\ ~drone => l <= m /\ g <= m
      /\ drone \/ net_client_connected' => l <= r /\ g <= r
  BY <1>1, <1>2, LowTicCounts
<1>4. g \in 0..LastTic /\ 0 \in 0..StallTics
  BY LoopNats DEF LoopInv, LoopTypes, DLoopTypeOK
<1>5. c \in Nat /\ c > 0
  <2>1. PICK realtics \in 0..MaxDue : c = CountsFor(realtics, l - g)
    BY <1>1 DEF TryRunTics
  <2> HIDE DEF l, g, c
  <2>2. l - g \in Int /\ realtics \in Nat
    BY <1>3, <1>4, LoopAssumption
  <2> DEFINE a == l - g
  <2>3. a \in Int
    BY <2>2
  <2> HIDE DEF a
  <2>4. CountsFor(realtics, a) \in Nat /\ CountsFor(realtics, a) > 0
    BY <2>2, <2>3 DEF CountsFor
  <2> QED BY <2>1, <2>4 DEF a
<1>6. due' \in 0..MaxDue /\ skiptics' \in 0..1
  <2>1. CASE Adapts
    <3>1. 0 \in 0..MaxDue /\ 1 \in 0..MaxDue
      BY LoopAssumption
    <3>2. SkipLeft \in 0..1
      BY LoopAssumption DEF LoopInv, LoopTypes, DLoopTypeOK, SkipLeft
    <3> QED BY <1>1, <2>1, <3>1, <3>2 DEF OldNetSync
  <2>2. CASE ~Adapts
    BY <1>1, <2>2, TimeKept DEF OldNetSync
  <2> QED BY <2>1, <2>2
<1>7. /\ pc' \in {"outside", "loop", "run", "quit"} /\ pc' # "run"
      /\ pc' = "quit" <=> drone /\ ~net_client_connected'
  <2>1. drone => net_client_connected
    BY <1>1 DEF LoopInv, Counted
  <2> QED BY <1>1, <2>1 DEF Fatal
<1> HIDE DEF g, l, m, r, c
<1>8. lowtic' = l /\ counts' = c /\ maketic' = m /\ recvtic' = r /\ stall' \in 0..StallTics
  BY <1>1, <1>4 DEF c, m, r
<1> QED BY <1>1, <1>2, <1>3, <1>4, <1>5, <1>6, <1>7, <1>8, StepKeeps

LEMMA WaitForTicsInv == ASSUME LoopInv, WaitForTics PROVE LoopInv'
<1> DEFINE g == gametic
           l == GetLowTic
           m == maketic'
           r == recvtic'
           c == counts
<1>1. /\ pc = "loop" /\ config' = config /\ others' = others /\ gametic' = g
      /\ NetUpdate /\ Elapsed /\ lowtic' = l /\ stall' = stall /\ counts' = c
      /\ pc' = IF Fatal \/ lowtic' < gametic THEN "quit"
               ELSE IF GivesUp THEN "outside" ELSE "loop"
  BY DEF WaitForTics
<1>2. UpdatedInv
  BY <1>1, StepUpdates
<1>3. /\ l \in 0..LastTic
      /\ ~drone => l <= m /\ g <= m
      /\ drone \/ net_client_connected' => l <= r /\ g <= r
      /\ l < g => drone /\ ~net_client_connected'
  BY <1>1, <1>2, LowTicCounts
<1>4. /\ g \in 0..LastTic /\ stall \in 0..StallTics /\ c \in Nat /\ c > 0
      /\ drone => net_client_connected
  BY <1>1 DEF LoopInv, LoopTypes, DLoopTypeOK, Counted
<1>5. due' \in 0..MaxDue /\ skiptics' \in 0..1
  BY <1>1, TimeKept
<1>6. /\ pc' \in {"outside", "loop", "run", "quit"} /\ pc' # "run"
      /\ pc' = "quit" <=> drone /\ ~net_client_connected'
  <2>1. lowtic' < gametic => drone /\ ~net_client_connected'
    BY <1>1, <1>3
  <2> QED BY <1>1, <1>4, <2>1 DEF Fatal
<1> HIDE DEF g, l, m, r, c
<1>7. lowtic' = l /\ counts' = c /\ maketic' = m /\ recvtic' = r /\ stall' \in 0..StallTics
  BY <1>1, <1>4 DEF m, r
<1> QED BY <1>1, <1>2, <1>3, <1>4, <1>5, <1>6, <1>7, StepKeeps

LEMMA RenderInv == ASSUME LoopInv, Render PROVE LoopInv'
<1> DEFINE m == maketic'
           r == recvtic'
<1>1. /\ pc = "outside" /\ config' = config /\ others' = others /\ gametic' = gametic
      /\ NetUpdate /\ Elapsed /\ lowtic' = lowtic /\ stall' = stall /\ counts' = counts
      /\ pc' = IF Fatal THEN "quit" ELSE "outside"
  BY DEF Render
<1>2. UpdatedInv
  BY <1>1, StepUpdates
<1>3. /\ gametic \in 0..LastTic /\ lowtic \in 0..LastTic /\ counts \in Nat
      /\ stall \in 0..StallTics
      /\ maketic \in 0..LastTic /\ recvtic \in 0..LastTic /\ LastTic \in Nat
      /\ drone => net_client_connected
      /\ ~drone => lowtic <= maketic /\ gametic <= maketic
      /\ drone \/ net_client_connected => lowtic <= recvtic /\ gametic <= recvtic
  BY <1>1, LoopAssumption DEF LoopInv, LoopTypes, DLoopTypeOK, Counted
<1>4. /\ m \in 0..LastTic /\ r \in 0..LastTic /\ maketic <= m /\ recvtic <= r
      /\ net_client_connected' => net_client_connected
  BY <1>2 DEF UpdatedInv
<1>5. due' \in 0..MaxDue /\ skiptics' \in 0..1
  BY <1>1, TimeKept
<1>6. /\ pc' \in {"outside", "loop", "run", "quit"} /\ pc' \notin {"loop", "run"}
      /\ pc' = "quit" <=> drone /\ ~net_client_connected'
  BY <1>1, <1>3 DEF Fatal
<1> HIDE DEF m, r
<1>7. /\ ~drone => lowtic <= m /\ gametic <= m
      /\ drone \/ net_client_connected' => lowtic <= r /\ gametic <= r
  BY <1>3, <1>4
<1>8. maketic' = m /\ recvtic' = r /\ stall' \in 0..StallTics
  BY <1>1, <1>3 DEF m, r
<1> QED BY <1>1, <1>2, <1>3, <1>5, <1>6, <1>7, <1>8, StepKeeps

(* A tic is run only if GetLowTic has counted it: it has been made, and    *)
(* received if there is a server.                                          *)
LEMMA TicToRun ==
  ASSUME LoopInv, RunTic
  PROVE  /\ counts > 0 /\ gametic + counts <= lowtic
         /\ ~drone => gametic < maketic
         /\ drone \/ net_client_connected => gametic < recvtic
<1>1. /\ gametic \in 0..LastTic /\ counts \in Nat /\ lowtic \in 0..LastTic
      /\ maketic \in 0..LastTic /\ recvtic \in 0..LastTic /\ LastTic \in Nat
      /\ ~drone => lowtic <= maketic
      /\ drone \/ net_client_connected => lowtic <= recvtic
  BY LoopNats DEF LoopInv, LoopTypes, DLoopTypeOK, Counted
<1>2. counts > 0 /\ gametic + counts <= lowtic
  <2>1. CASE pc = "loop"
    <3>1. ~(lowtic < gametic + counts)
      BY <2>1 DEF RunTic, Runs, Waits
    <3>2. counts > 0
      BY <2>1 DEF LoopInv, Counted
    <3> QED BY <3>1, <3>2, <1>1
  <2>2. CASE pc # "loop"
    BY <2>2 DEF RunTic, Runs, LoopInv, Counted
  <2> QED BY <2>1, <2>2
<1> QED BY <1>1, <1>2

LEMMA RunTicInv == ASSUME LoopInv, RunTic PROVE LoopInv'
<1> DEFINE g == gametic + 1
           m == maketic'
           r == recvtic'
           c == counts - 1
<1>1. /\ config' = config /\ others' = others /\ gametic' = g
      /\ NetUpdate /\ Elapsed /\ lowtic' = lowtic /\ stall' = stall /\ counts' = c
      /\ pc' = IF Fatal THEN "quit" ELSE IF c = 0 THEN "outside" ELSE "run"
  BY DEF RunTic
<1>2. /\ gametic \in 0..LastTic /\ lowtic \in 0..LastTic /\ counts \in Nat
      /\ stall \in 0..StallTics /\ LastTic \in Nat
      /\ maketic \in 0..LastTic /\ recvtic \in 0..LastTic
      /\ ~drone => lowtic <= maketic
      /\ drone \/ net_client_connected => lowtic <= recvtic
  BY LoopNats DEF LoopInv, LoopTypes, DLoopTypeOK, Counted
<1>3. counts > 0 /\ gametic + counts <= lowtic
  BY TicToRun
<1>4. /\ g \in 0..LastTic /\ gametic <= g /\ g <= lowtic
      /\ c \in Nat /\ g + c <= lowtic
  BY <1>2, <1>3
<1>5. UpdatedInv
  <2>1. Updated
    BY <1>1, NetUpdateUpdates
  <2>2. ~drone => g <= maketic
    BY <1>2, <1>4
  <2> HIDE DEF g
  <2> QED BY <1>1, <1>4, <2>1, <2>2, UpdateKeeps
<1>6. /\ m \in 0..LastTic /\ r \in 0..LastTic /\ maketic <= m /\ recvtic <= r
      /\ net_client_connected' => net_client_connected
  BY <1>5 DEF UpdatedInv
<1>7. due' \in 0..MaxDue /\ skiptics' \in 0..1
  BY <1>1, TimeKept
<1>8. /\ pc' \in {"outside", "loop", "run", "quit"}
      /\ pc' \in {"loop", "run"} => c > 0
      /\ pc' = "quit" <=> drone /\ ~net_client_connected'
  <2>1. drone => net_client_connected
    <3>1. pc # "quit"
      BY DEF RunTic, Runs
    <3> QED BY <3>1 DEF LoopInv, Counted
  <2>2. c # 0 => c > 0
    BY <1>2, <1>3, <1>4
  <2> HIDE DEF c
  <2> QED BY <1>1, <2>1, <2>2 DEF Fatal
<1> HIDE DEF g, m, r, c
<1>9. /\ ~drone => lowtic <= m /\ g <= m
      /\ drone \/ net_client_connected' => lowtic <= r /\ g <= r
  BY <1>2, <1>4, <1>6
<1>10. maketic' = m /\ recvtic' = r /\ stall' \in 0..StallTics
  BY <1>1, <1>2 DEF m, r
<1> QED BY <1>1, <1>2, <1>4, <1>5, <1>7, <1>8, <1>9, <1>10, StepKeeps

(* What leaves the ring alone.                                             *)
LEMMA RestInv ==
  ASSUME LoopInv, NobodyLeft \/ Clock \/ Leave \/ UNCHANGED dloopVars
  PROVE  LoopInv'
<1>1. /\ UNCHANGED <<config, net_client_connected, maketic, recvtic, gametic, ticdata,
                     skiptics, lowtic, counts, incoming>>
      /\ pc' = pc \/ (pc' = "outside" /\ pc # "quit")
  BY DEF NobodyLeft, Runs, Clock, Leave, inside, dloopVars
<1>2. due' \in 0..MaxDue /\ stall' \in 0..StallTics /\ others' \subseteq LoopPlayers
  <2>1. due \in 0..MaxDue /\ stall \in 0..StallTics /\ others \subseteq LoopPlayers
    BY DEF LoopInv, LoopTypes, DLoopTypeOK
  <2>2. CASE Clock
    BY <2>1, <2>2, LoopAssumption DEF Clock, Smaller
  <2>3. CASE NobodyLeft \/ Leave \/ UNCHANGED dloopVars
    BY <2>1, <2>3 DEF NobodyLeft, Leave, inside, dloopVars
  <2> QED BY <2>2, <2>3
<1>3. LoopTypes'
  BY <1>1, <1>2 DEF LoopInv, LoopTypes, DLoopTypeOK, drone
<1>4. Counted'
  BY <1>1 DEF LoopInv, LoopTypes, DLoopTypeOK, Counted, drone
<1>5. RingInv'
  BY <1>1 DEF LoopInv, RingInv, OwnTic, OthersTic, drone, localplayer
<1> QED BY <1>3, <1>4, <1>5 DEF LoopInv

LEMMA ArriveInv == ASSUME LoopInv, Arrive PROVE LoopInv'
<1> DEFINE set == others \cup Myself
<1>1. /\ UNCHANGED <<config, net_client_connected, maketic, recvtic, gametic, ticdata,
                     skiptics, pc, lowtic, counts, due, stall, others>>
      /\ incoming' = Append(incoming, set)
      /\ recvtic + Len(incoming) < LastTic
      /\ ~drone => recvtic + Len(incoming) < maketic + ServerLead
  BY DEF Arrive, inside, NextTic
<1>2. set \in SUBSET LoopPlayers
  BY DEF LoopInv, LoopTypes, DLoopTypeOK, Myself, Configs, localplayer
<1> HIDE DEF set
<1>3. /\ incoming \in Seq(SUBSET LoopPlayers) /\ Len(incoming) \in Nat
      /\ recvtic \in Nat /\ maketic \in Nat /\ LastTic \in Nat /\ ServerLead \in Nat
  BY LoopNats DEF LoopInv, LoopTypes, DLoopTypeOK
<1>4. incoming' \in Seq(SUBSET LoopPlayers) /\ Len(incoming') = Len(incoming) + 1
  BY <1>1, <1>2, <1>3
<1>5. LoopTypes'
  BY <1>1, <1>4 DEF LoopInv, LoopTypes, DLoopTypeOK, drone
<1>6. /\ recvtic + Len(incoming') <= LastTic
      /\ ~drone => recvtic + Len(incoming') <= maketic + ServerLead
  BY <1>1, <1>3, <1>4
<1>7. Counted'
  BY <1>1, <1>6 DEF LoopInv, Counted, drone
<1>8. RingInv'
  BY <1>1 DEF LoopInv, RingInv, OwnTic, OthersTic, drone, localplayer
<1> QED BY <1>5, <1>7, <1>8 DEF LoopInv
-----------------------------------------------------------------------------
LEMMA NextInv == LoopInv /\ [DLoopNext]_dloopVars => LoopInv'
<1> SUFFICES ASSUME LoopInv, [DLoopNext]_dloopVars PROVE LoopInv'
  OBVIOUS
<1>1. CASE TryRunTics
  BY <1>1, TryRunTicsInv
<1>2. CASE WaitForTics
  BY <1>2, WaitForTicsInv
<1>3. CASE RunTic
  BY <1>3, RunTicInv
<1>4. CASE Render
  BY <1>4, RenderInv
<1>5. CASE NobodyLeft \/ Clock \/ Leave \/ UNCHANGED dloopVars
  BY <1>5, RestInv
<1>6. CASE Arrive
  BY <1>6, ArriveInv
<1> QED BY <1>1, <1>2, <1>3, <1>4, <1>5, <1>6 DEF DLoopNext, Loop

(* The variables of the loop keep their ranges (d_loop.c); and only a      *)
(* drone that has lost its server ends the program: "lowtic < gametic"     *)
(* (TryRunTics) is never true for a node that plays.                       *)
THEOREM LoopTypeCorrect == DLoopSpec => []DLoopTypeOK
<1>1. LoopInv => DLoopTypeOK
  BY DEF LoopInv, LoopTypes
<1> QED BY InitInv, NextInv, <1>1, PTL DEF DLoopSpec

(* Every tic a player's node runs has the commands made for it, for every  *)
(* length of the ring that the leads of BuildNewTic leave room in.         *)
THEOREM AlwaysRightTics == DLoopSpec => RightTics
<1> DEFINE Right == gametic' # gametic /\ ~drone =>
                      /\ localplayer \in local_playeringame'
                      /\ \A p \in local_playeringame' : ticdata[Slot(gametic)].cmds[p] = gametic
<1>1. LoopInv /\ [DLoopNext]_dloopVars => [Right]_dloopVars
  <2> SUFFICES ASSUME LoopInv, DLoopNext, gametic' # gametic, ~drone
               PROVE  /\ localplayer \in local_playeringame'
                      /\ \A p \in local_playeringame' :
                           ticdata[Slot(gametic)].cmds[p] = gametic
    OBVIOUS
  <2> DEFINE set == ticdata[Slot(gametic)]
  <2>1. RunTic
    BY DEF DLoopNext, Loop, TryRunTics, WaitForTics, NobodyLeft, Render, Clock, Leave,
           Arrive, inside
  <2>2. /\ gametic \in Nat /\ maketic \in Nat /\ recvtic \in Nat
        /\ gametic < maketic /\ (net_client_connected => gametic < recvtic)
    BY <2>1, TicToRun DEF LoopInv, LoopTypes, DLoopTypeOK
  <2>3. OwnTic(set, gametic)
    BY <2>2 DEF LoopInv, RingInv
  <2>4. net_client_connected => OthersTic(set, gametic)
    BY <2>2 DEF LoopInv, RingInv
  <2>5. local_playeringame' = IF net_client_connected THEN set.ingame
                              ELSE set.ingame \cap {localplayer}
    <3>1. local_playeringame' = SetToRun.ingame
      BY <2>1 DEF RunTic
    <3> QED BY <3>1 DEF SetToRun
  <2> HIDE DEF set
  <2>6. /\ localplayer \in local_playeringame'
        /\ \A p \in local_playeringame' : set.cmds[p] = gametic
    BY <2>3, <2>4, <2>5 DEF OwnTic, OthersTic
  <2> QED BY <2>6 DEF set
<1> QED BY InitInv, NextInv, <1>1, PTL DEF DLoopSpec, RightTics
=============================================================================
