---------------------------- MODULE MoversProofs ----------------------------
(***************************************************************************)
(* The moving sectors.  Sound is what holds of the data whatever call is   *)
(* under way: nothing dangles, a table lists a mover once, only plats and  *)
(* ceilings are ever stopped, a sector has one mover, and the one that     *)
(* specialdata points to is the last of the sector's in the list.  A step  *)
(* does one of four things to the data (a mover changes, ends, is freed or *)
(* starts), and there is a lemma for each.                                 *)
(*                                                                         *)
(* A donut starts two movers in two steps, between which its pillar must   *)
(* still be free (PillarFree); when a level starts, the sectors still to   *)
(* come have no mover (SpawningInv).                                       *)
(*                                                                         *)
(* SavedInv and LoadingInv say of the saved game and of a load under way   *)
(* what LoadRestores needs at its end.                                     *)
(***************************************************************************)
EXTENDS SectorMovers, ListsProofs, TLAPS

TableOnce(list) ==
  \A i, j \in DOMAIN list : list[i] # NULL /\ list[i] = list[j] => i = j

(* specialdata is the sector's last mover in the list.                     *)
Newest(list, content, special) ==
  \A s \in Sectors : \A i, j \in DOMAIN list :
    i < j /\ special[s] = list[i] => content[list[j]].sector # s

DataOK ==
  /\ thinkers \in Seq(Blocks)
  /\ mover \in [Blocks -> Movers \cup {NULL}]
  /\ specialdata \in [Sectors -> Blocks \cup {NULL}]
  /\ activeplats \in [1..MAXPLATS -> Blocks \cup {NULL}]
  /\ activeceilings \in [1..MAXCEILINGS -> Blocks \cup {NULL}]
  /\ leftout \subseteq Blocks

Stoppable == \A b \in Blocks : mover[b] # NULL =>
  /\ mover[b].fn = "null" => mover[b].kind \in {"plat", "ceiling"}

Sound ==
  /\ DataOK /\ NothingDangles
  /\ TableOnce(activeplats) /\ TableOnce(activeceilings)
  /\ Stoppable /\ OneMoverEach
  /\ Newest(thinkers, mover, specialdata)

AllFound ==
  \A b \in Blocks : Live(b) =>
    /\ mover[b].kind = "plat" => Listed(activeplats, b)
    /\ mover[b].kind = "ceiling" => Listed(activeceilings, b) \/ b \in leftout
-----------------------------------------------------------------------------
(* The tables.                                                             *)
LEMMA AddedFacts ==
  ASSUME NEW n \in Nat, NEW list \in [1..n -> Blocks \cup {NULL}], NEW b \in Blocks
  PROVE  /\ Added(list, b) \in [1..n -> Blocks \cup {NULL}]
         /\ \A i \in 1..n : \/ Added(list, b)[i] = list[i]
                            \/ list[i] = NULL /\ Added(list, b)[i] = b
         /\ ~Full(list) => Listed(Added(list, b), b)
         /\ TableOnce(list) /\ ~Listed(list, b) => TableOnce(Added(list, b))
<1> DEFINE new == Added(list, b)
<1>1. /\ new \in [1..n -> Blocks \cup {NULL}] /\ DOMAIN new = 1..n /\ DOMAIN list = 1..n
      /\ \A i \in 1..n :
           new[i] = IF list[i] = NULL /\ \A j \in 1..(i - 1) : list[j] # NULL THEN b ELSE list[i]
  BY DEF Added
<1> HIDE DEF new
<1>2. ASSUME ~Full(list) PROVE Listed(new, b)
  <2> DEFINE E == {i \in 1..n : list[i] = NULL}
  <2>1. E \subseteq Nat /\ E # {}
    BY <1>1, <1>2 DEF Full
  <2>2. PICK i \in E : \A j \in E : i <= j
    BY <2>1, LeastNumber
  <2>3. \A j \in 1..(i - 1) : list[j] # NULL
    BY <2>2
  <2>4. new[i] = b
    BY <1>1, <2>2, <2>3
  <2> QED BY <1>1, <2>2, <2>4 DEF Listed
<1>3. ASSUME TableOnce(list), ~Listed(list, b) PROVE TableOnce(new)
  <2> SUFFICES ASSUME NEW i \in 1..n, NEW j \in 1..n, new[i] # NULL, new[i] = new[j], i < j
               PROVE  FALSE
    BY <1>1 DEF TableOnce
  <2>1. list[i] # b /\ list[j] # b
    BY <1>1, <1>3 DEF Listed
  <2>2. CASE new[i] = b
    <3>1. list[i] = NULL /\ list[j] = NULL /\ \A k \in 1..(j - 1) : list[k] # NULL
      BY <1>1, <2>1, <2>2
    <3>2. i \in 1..(j - 1)
      OBVIOUS
    <3> QED BY <3>1, <3>2
  <2>3. CASE new[i] # b
    BY <1>1, <1>3, <2>1, <2>3 DEF TableOnce
  <2> QED BY <2>2, <2>3
<1> QED BY <1>1, <1>2, <1>3 DEF new

LEMMA UnlistedFacts ==
  ASSUME NEW n \in Nat, NEW list \in [1..n -> Blocks \cup {NULL}], NEW b \in Blocks,
         TableOnce(list)
  PROVE  /\ Unlisted(list, b) \in [1..n -> Blocks \cup {NULL}]
         /\ \A i \in 1..n : Unlisted(list, b)[i] = IF list[i] = b THEN NULL ELSE list[i]
         /\ TableOnce(Unlisted(list, b))
<1> DEFINE new == Unlisted(list, b)
<1>0. b # NULL
  BY MoversAssumption
<1>1. /\ new \in [1..n -> Blocks \cup {NULL}] /\ DOMAIN new = 1..n /\ DOMAIN list = 1..n
      /\ \A i \in 1..n :
           new[i] = IF list[i] = b /\ \A j \in 1..(i - 1) : list[j] # b THEN NULL ELSE list[i]
  BY DEF Unlisted
<1> HIDE DEF new
<1>2. ASSUME NEW i \in 1..n PROVE new[i] = IF list[i] = b THEN NULL ELSE list[i]
  <2>1. ASSUME list[i] = b, NEW j \in 1..(i - 1) PROVE list[j] # b
    BY <2>1, <1>0, <1>1 DEF TableOnce
  <2> QED BY <1>1, <2>1
<1>3. TableOnce(new)
  BY <1>1, <1>2 DEF TableOnce
<1> QED BY <1>1, <1>2, <1>3 DEF new
-----------------------------------------------------------------------------
(* Movers change: direction and function, but neither kind nor sector.     *)
LEMMA Changed ==
  ASSUME Sound,
         mover' \in [Blocks -> Movers \cup {NULL}],
         \A b \in Blocks : mover[b] = NULL <=> mover'[b] = NULL,
         \A b \in Blocks : mover[b] # NULL =>
           /\ mover'[b].kind = mover[b].kind /\ mover'[b].sector = mover[b].sector
           /\ mover'[b].fn = "removed" <=> mover[b].fn = "removed"
           /\ mover'[b].fn = "null" => mover[b].kind \in {"plat", "ceiling"},
         UNCHANGED <<thinkers, specialdata, lists, leftout>>
  PROVE  Sound' /\ (AllFound => AllFound')
<1>0. /\ thinkers' = thinkers /\ specialdata' = specialdata /\ leftout' = leftout
      /\ activeplats' = activeplats /\ activeceilings' = activeceilings
  BY DEF lists
<1>1. DataOK'
  BY <1>0 DEF Sound, DataOK
<1>2. \A b \in Blocks : (Free(b) <=> Free(b)') /\ (Live(b) <=> Live(b)')
  BY DEF Free, Live
<1>3. \A i \in DOMAIN thinkers : thinkers[i] \in Blocks /\ mover[thinkers[i]] # NULL
  BY DEF Sound, DataOK, NothingDangles, Entries, Free
<1>4. NothingDangles'
  <2>1. NoDuplicates(thinkers)' /\ (Entries(thinkers) = {b \in Blocks : ~Free(b)})'
    BY <1>0 DEF Sound, NothingDangles, Free
  <2>2. ASSUME NEW s \in Sectors, specialdata[s] # NULL
        PROVE  (Live(specialdata[s]) /\ mover[specialdata[s]].sector = s)'
    <3>1. specialdata[s] \in Blocks /\ Live(specialdata[s]) /\ mover[specialdata[s]].sector = s
      BY <2>2 DEF Sound, NothingDangles, DataOK
    <3> QED BY <1>0, <3>1 DEF Live
  <2>3. ASSUME NEW i \in DOMAIN activeplats, activeplats[i] # NULL
        PROVE  (Live(activeplats[i]) /\ mover[activeplats[i]].kind = "plat")'
    <3>1. activeplats[i] \in Blocks /\ Live(activeplats[i]) /\ mover[activeplats[i]].kind = "plat"
      BY <2>3 DEF Sound, NothingDangles, DataOK
    <3> QED BY <1>0, <3>1 DEF Live
  <2>4. ASSUME NEW i \in DOMAIN activeceilings, activeceilings[i] # NULL
        PROVE  (Live(activeceilings[i]) /\ mover[activeceilings[i]].kind = "ceiling")'
    <3>1. activeceilings[i] \in Blocks /\ Live(activeceilings[i])
          /\ mover[activeceilings[i]].kind = "ceiling"
      BY <2>4 DEF Sound, NothingDangles, DataOK
    <3> QED BY <1>0, <3>1 DEF Live
  <2> QED BY <1>0, <2>1, <2>2, <2>3, <2>4 DEF NothingDangles
<1>5. TableOnce(activeplats)' /\ TableOnce(activeceilings)'
  BY <1>0 DEF Sound, TableOnce
<1>6. Stoppable'
  BY DEF Sound, Stoppable
<1>7. OneMoverEach'
  BY <1>0, <1>2 DEF Sound, OneMoverEach, Live, Doubled
<1>8. Newest(thinkers, mover, specialdata)'
  BY <1>0, <1>3 DEF Sound, Newest
<1>9. ASSUME AllFound PROVE AllFound'
  BY <1>0, <1>2, <1>9 DEF AllFound, Live, Listed
<1> QED BY <1>1, <1>4, <1>5, <1>6, <1>7, <1>8, <1>9 DEF Sound

(* A mover ends: it is marked, and what points to it is cleared.           *)
LEMMA Ended ==
  ASSUME Sound, NEW b \in Blocks, Live(b),
         NEW m \in Movers, m.fn = "removed", m.kind = mover[b].kind,
         m.sector = mover[b].sector,
         mover' = [mover EXCEPT ![b] = m],
         specialdata' = [specialdata EXCEPT ![mover[b].sector] = NULL],
         activeplats' \in [1..MAXPLATS -> Blocks \cup {NULL}],
         \A i \in 1..MAXPLATS :
           activeplats'[i] = IF activeplats[i] = b THEN NULL ELSE activeplats[i],
         activeceilings' \in [1..MAXCEILINGS -> Blocks \cup {NULL}],
         \A i \in 1..MAXCEILINGS :
           activeceilings'[i] = IF activeceilings[i] = b THEN NULL ELSE activeceilings[i],
         UNCHANGED <<thinkers, leftout>>
  PROVE  Sound' /\ (AllFound => AllFound')
<1>0. /\ thinkers' = thinkers /\ leftout' = leftout
      /\ mover \in [Blocks -> Movers \cup {NULL}]
      /\ specialdata \in [Sectors -> Blocks \cup {NULL}]
      /\ DOMAIN activeplats = 1..MAXPLATS /\ DOMAIN activeplats' = 1..MAXPLATS
      /\ DOMAIN activeceilings = 1..MAXCEILINGS /\ DOMAIN activeceilings' = 1..MAXCEILINGS
      /\ NULL \notin Movers /\ NULL \notin Blocks
  BY MoversAssumption DEF Sound, DataOK
<1>1. mover'[b] = m /\ m # NULL /\ \A c \in Blocks : c # b => mover'[c] = mover[c]
  BY <1>0
<1>2. \A c \in Blocks : /\ Free(c)' <=> Free(c)
                        /\ Live(c)' <=> Live(c) /\ c # b
                        /\ mover[c] # NULL => mover'[c].sector = mover[c].sector
                                              /\ mover'[c].kind = mover[c].kind
  BY <1>1 DEF Free, Live
<1>3. mover[b].sector \in Sectors
  BY <1>0 DEF Live, Movers
<1>4. \A s \in Sectors :
        specialdata'[s] = IF s = mover[b].sector THEN NULL ELSE specialdata[s]
  BY <1>0
<1>5. DataOK'
  BY <1>0, <1>1, <1>3 DEF Sound, DataOK
<1>6. NothingDangles'
  <2>1. NoDuplicates(thinkers)' /\ (Entries(thinkers) = {c \in Blocks : ~Free(c)})'
    BY <1>0, <1>2 DEF Sound, NothingDangles
  <2>2. ASSUME NEW s \in Sectors, specialdata'[s] # NULL
        PROVE  (Live(specialdata[s]) /\ mover[specialdata[s]].sector = s)'
    <3>1. specialdata'[s] = specialdata[s] /\ s # mover[b].sector
      BY <1>4, <2>2
    <3>2. specialdata[s] \in Blocks /\ Live(specialdata[s]) /\ mover[specialdata[s]].sector = s
      BY <1>0, <2>2, <3>1 DEF Sound, NothingDangles
    <3>3. specialdata[s] # b
      BY <3>1, <3>2
    <3> QED BY <1>1, <3>1, <3>2, <3>3 DEF Live
  <2>3. ASSUME NEW i \in DOMAIN activeplats, activeplats'[i] # NULL
        PROVE  (Live(activeplats[i]) /\ mover[activeplats[i]].kind = "plat")'
    <3>1. activeplats'[i] = activeplats[i] /\ activeplats[i] # b
      BY <1>0, <2>3
    <3>2. /\ activeplats[i] \in Blocks /\ Live(activeplats[i])
          /\ mover[activeplats[i]].kind = "plat"
      BY <2>3, <3>1 DEF Sound, NothingDangles, DataOK
    <3> QED BY <1>1, <3>1, <3>2 DEF Live
  <2>4. ASSUME NEW i \in DOMAIN activeceilings, activeceilings'[i] # NULL
        PROVE  (Live(activeceilings[i]) /\ mover[activeceilings[i]].kind = "ceiling")'
    <3>1. activeceilings'[i] = activeceilings[i] /\ activeceilings[i] # b
      BY <1>0, <2>4
    <3>2. /\ activeceilings[i] \in Blocks /\ Live(activeceilings[i])
          /\ mover[activeceilings[i]].kind = "ceiling"
      BY <2>4, <3>1 DEF Sound, NothingDangles, DataOK
    <3> QED BY <1>1, <3>1, <3>2 DEF Live
  <2> QED BY <1>0, <2>1, <2>2, <2>3, <2>4 DEF NothingDangles
<1>7. TableOnce(activeplats)' /\ TableOnce(activeceilings)'
  BY <1>0 DEF Sound, TableOnce
<1>8. Stoppable'
  BY <1>1 DEF Sound, Stoppable
<1>9. OneMoverEach'
  <2> SUFFICES ASSUME NEW c \in Blocks, Live(c), c # b, mover[c].sector \notin Doubled
               PROVE  specialdata'[mover[c].sector] = c
    BY <1>1, <1>2 DEF OneMoverEach, Doubled, Live
  <2>1. specialdata[mover[c].sector] = c
    BY DEF Sound, OneMoverEach
  <2>2. mover[c].sector # mover[b].sector
    BY <2>1 DEF Sound, OneMoverEach
  <2>3. mover[c].sector \in Sectors
    BY <1>0 DEF Live, Movers
  <2> QED BY <1>4, <2>1, <2>2, <2>3
<1>10. Newest(thinkers, mover, specialdata)'
  <2> SUFFICES ASSUME NEW s \in Sectors, NEW i \in DOMAIN thinkers, NEW j \in DOMAIN thinkers,
                      i < j, specialdata'[s] = thinkers[i]
               PROVE  mover'[thinkers[j]].sector # s
    BY <1>0 DEF Newest
  <2>1. \A k \in DOMAIN thinkers : thinkers[k] \in Blocks /\ mover[thinkers[k]] # NULL
    BY DEF Sound, DataOK, NothingDangles, Entries, Free
  <2>2. specialdata[s] = thinkers[i]
    BY <1>0, <1>4, <2>1
  <2>3. mover[thinkers[j]].sector # s
    BY <2>2 DEF Sound, Newest
  <2> QED BY <1>2, <2>1, <2>3
<1>11. ASSUME AllFound PROVE AllFound'
  <2> SUFFICES ASSUME NEW c \in Blocks, Live(c), c # b
               PROVE  /\ mover[c].kind = "plat" => Listed(activeplats, c)'
                      /\ mover[c].kind = "ceiling" => Listed(activeceilings, c)' \/ c \in leftout
    BY <1>0, <1>1, <1>2 DEF AllFound, Live
  <2>1. Listed(activeplats, c) => Listed(activeplats, c)'
    BY <1>0 DEF Listed
  <2>2. Listed(activeceilings, c) => Listed(activeceilings, c)'
    BY <1>0 DEF Listed
  <2> QED BY <1>11, <2>1, <2>2 DEF AllFound
<1> QED BY <1>5, <1>6, <1>7, <1>8, <1>9, <1>10, <1>11 DEF Sound

LEMMA UnlinkedFacts ==
  ASSUME NEW T, NEW list \in Seq(T), NEW n \in DOMAIN list
  PROVE  /\ Unlinked(list, n) \in Seq(T) /\ Len(Unlinked(list, n)) = Len(list) - 1
         /\ \A i \in DOMAIN Unlinked(list, n) :
              /\ i < n => i \in DOMAIN list /\ Unlinked(list, n)[i] = list[i]
              /\ i >= n => i + 1 \in DOMAIN list /\ Unlinked(list, n)[i] = list[i + 1]
         /\ NoDuplicates(list) => /\ NoDuplicates(Unlinked(list, n))
                                  /\ Entries(Unlinked(list, n)) = Entries(list) \ {list[n]}
<1>1. PICK l \in Nat : l = Len(list) /\ DOMAIN list = 1..l /\ l >= 1 /\ n \in 1..l
                       /\ \A i \in 1..l : list[i] \in T
  OBVIOUS
<1> DEFINE new == Unlinked(list, n)
<1>2. /\ new = [i \in 1..(l - 1) |-> IF i < n THEN list[i] ELSE list[i + 1]]
      /\ l - 1 \in Nat
  BY <1>1 DEF Unlinked
<1>3. \A i \in 1..(l - 1) : i \in 1..l /\ i + 1 \in 1..l
  BY <1>1
<1>4. \A i \in 1..(l - 1) : new[i] \in T
  BY <1>1, <1>2, <1>3
<1>5. new \in [1..(l - 1) -> T]
  BY <1>2, <1>4
<1>6. new \in Seq(T) /\ Len(new) = l - 1 /\ DOMAIN new = 1..(l - 1)
  BY <1>2, <1>5, SeqDef, LenProperties
<1>7. \A i \in 1..(l - 1) : new[i] = IF i < n THEN list[i] ELSE list[i + 1]
  BY <1>2
<1> HIDE DEF new
<1>8. ASSUME NoDuplicates(list) PROVE NoDuplicates(new) /\ Entries(new) = Entries(list) \ {list[n]}
  <2>1. NoDuplicates(new)
    <3> SUFFICES ASSUME NEW i \in 1..(l - 1), NEW j \in 1..(l - 1), new[i] = new[j], i < j
                 PROVE  FALSE
      BY <1>6 DEF NoDuplicates
    <3>1. PICK p \in 1..l : p = (IF i < n THEN i ELSE i + 1) /\ new[i] = list[p]
      BY <1>3, <1>7
    <3>2. PICK q \in 1..l : q = (IF j < n THEN j ELSE j + 1) /\ new[j] = list[q]
      BY <1>3, <1>7
    <3>3. p # q
      BY <3>1, <3>2, <1>1
    <3> QED BY <1>1, <1>8, <3>1, <3>2, <3>3 DEF NoDuplicates
  <2>2. ASSUME NEW x \in Entries(new) PROVE x \in Entries(list) /\ x # list[n]
    <3>1. PICK i \in 1..(l - 1) : x = new[i]
      BY <1>6 DEF Entries
    <3>2. PICK p \in 1..l : p = (IF i < n THEN i ELSE i + 1) /\ x = list[p]
      BY <1>3, <1>7, <3>1
    <3>3. p # n
      BY <3>2, <1>1
    <3> QED BY <1>1, <1>8, <3>2, <3>3 DEF NoDuplicates, Entries
  <2>3. ASSUME NEW x \in Entries(list), x # list[n] PROVE x \in Entries(new)
    <3>1. PICK p \in 1..l : x = list[p]
      BY <1>1 DEF Entries
    <3>2. p # n
      BY <2>3, <3>1
    <3>3. CASE p < n
      <4>1. p \in 1..(l - 1) /\ new[p] = x
        BY <1>1, <1>7, <3>1, <3>3
      <4> QED BY <1>6, <4>1 DEF Entries
    <3>4. CASE p > n
      <4>1. p - 1 \in 1..(l - 1) /\ ~(p - 1 < n) /\ (p - 1) + 1 = p
        BY <1>1, <3>4
      <4>2. new[p - 1] = x
        BY <1>7, <3>1, <4>1
      <4> QED BY <1>6, <4>1, <4>2 DEF Entries
    <3> QED BY <1>1, <3>2, <3>3, <3>4
  <2> QED BY <2>1, <2>2, <2>3
<1> QED BY <1>1, <1>3, <1>6, <1>7, <1>8 DEF new

(* The memory of a mover that has ended is freed.                          *)
LEMMA Freed ==
  ASSUME Sound, NEW n \in DOMAIN thinkers, mover[thinkers[n]].fn = "removed",
         mover' = [mover EXCEPT ![thinkers[n]] = NULL],
         thinkers' = Unlinked(thinkers, n),
         UNCHANGED <<specialdata, lists, leftout>>
  PROVE  Sound' /\ (AllFound => AllFound')
<1> DEFINE b == thinkers[n]
<1>0. /\ b \in Blocks /\ ~Live(b)
      /\ specialdata' = specialdata /\ leftout' = leftout
      /\ activeplats' = activeplats /\ activeceilings' = activeceilings
      /\ mover \in [Blocks -> Movers \cup {NULL}]
      /\ NULL \notin Movers /\ NULL \notin Blocks
  BY MoversAssumption DEF Sound, DataOK, Live, lists
<1>1. mover'[b] = NULL /\ \A c \in Blocks : c # b => mover'[c] = mover[c]
  BY <1>0
<1>2. \A c \in Blocks : Live(c)' <=> Live(c)
  BY <1>0, <1>1 DEF Live
<1>3. NoDuplicates(thinkers) /\ Entries(thinkers) = {c \in Blocks : ~Free(c)}
  BY DEF Sound, NothingDangles
<1>4. /\ thinkers' \in Seq(Blocks) /\ NoDuplicates(thinkers')
      /\ Entries(thinkers') = Entries(thinkers) \ {b}
      /\ \A i \in DOMAIN thinkers' :
           /\ i < n => i \in DOMAIN thinkers /\ thinkers'[i] = thinkers[i]
           /\ i >= n => i + 1 \in DOMAIN thinkers /\ thinkers'[i] = thinkers[i + 1]
  BY <1>3, UnlinkedFacts DEF Sound, DataOK
<1>5. DataOK'
  BY <1>0, <1>4 DEF Sound, DataOK
<1> HIDE DEF b
<1>6. NothingDangles'
  <2>1. NoDuplicates(thinkers)' /\ (Entries(thinkers) = {c \in Blocks : ~Free(c)})'
    <3>1. NoDuplicates(thinkers)'
      BY <1>4 DEF NoDuplicates
    <3>2. Entries(thinkers)' = Entries(thinkers) \ {b}
      BY <1>4 DEF Entries
    <3>3. {c \in Blocks : ~Free(c)}' = {c \in Blocks : ~Free(c)} \ {b}
      BY <1>0, <1>1 DEF Free
    <3> QED BY <1>3, <3>1, <3>2, <3>3
  <2>2. ASSUME NEW s \in Sectors, specialdata[s] # NULL
        PROVE  (Live(specialdata[s]) /\ mover[specialdata[s]].sector = s)'
    <3>1. specialdata[s] \in Blocks /\ Live(specialdata[s]) /\ mover[specialdata[s]].sector = s
      BY <2>2 DEF Sound, NothingDangles, DataOK
    <3> QED BY <1>0, <1>1, <3>1 DEF Live
  <2>3. ASSUME NEW i \in DOMAIN activeplats, activeplats[i] # NULL
        PROVE  (Live(activeplats[i]) /\ mover[activeplats[i]].kind = "plat")'
    <3>1. activeplats[i] \in Blocks /\ Live(activeplats[i]) /\ mover[activeplats[i]].kind = "plat"
      BY <2>3 DEF Sound, NothingDangles, DataOK
    <3> QED BY <1>0, <1>1, <3>1 DEF Live
  <2>4. ASSUME NEW i \in DOMAIN activeceilings, activeceilings[i] # NULL
        PROVE  (Live(activeceilings[i]) /\ mover[activeceilings[i]].kind = "ceiling")'
    <3>1. activeceilings[i] \in Blocks /\ Live(activeceilings[i])
          /\ mover[activeceilings[i]].kind = "ceiling"
      BY <2>4 DEF Sound, NothingDangles, DataOK
    <3> QED BY <1>0, <1>1, <3>1 DEF Live
  <2> QED BY <1>0, <2>1, <2>2, <2>3, <2>4 DEF NothingDangles
<1>7. TableOnce(activeplats)' /\ TableOnce(activeceilings)'
  BY <1>0 DEF Sound, TableOnce
<1>8. Stoppable'
  BY <1>1 DEF Sound, Stoppable
<1>9. OneMoverEach'
  BY <1>0, <1>1, <1>2 DEF Sound, OneMoverEach, Live, Doubled
<1>10. Newest(thinkers, mover, specialdata)'
  <2> SUFFICES ASSUME NEW s \in Sectors, NEW i \in DOMAIN thinkers', NEW j \in DOMAIN thinkers',
                      i < j, specialdata[s] = thinkers'[i]
               PROVE  mover'[thinkers'[j]].sector # s
    BY <1>0 DEF Newest
  <2>0. i \in Int /\ j \in Int /\ n \in Int
    BY <1>4 DEF Sound, DataOK
  <2>1. PICK p \in DOMAIN thinkers : p = (IF i < n THEN i ELSE i + 1) /\ thinkers'[i] = thinkers[p]
    BY <1>4, <2>0
  <2>2. PICK q \in DOMAIN thinkers : q = (IF j < n THEN j ELSE j + 1) /\ thinkers'[j] = thinkers[q]
    BY <1>4, <2>0
  <2>3. p < q
    BY <2>0, <2>1, <2>2
  <2>4. mover[thinkers[q]].sector # s
    BY <2>1, <2>3 DEF Sound, Newest
  <2>5. thinkers'[j] \in Entries(thinkers) \ {b}
    BY <1>4 DEF Entries
  <2>6. thinkers'[j] # b /\ thinkers'[j] \in Blocks
    BY <2>5, <1>3
  <2> QED BY <1>1, <2>2, <2>4, <2>6
<1>11. ASSUME AllFound PROVE AllFound'
  BY <1>0, <1>1, <1>2, <1>11 DEF AllFound, Live, Listed
<1> QED BY <1>5, <1>6, <1>7, <1>8, <1>9, <1>10, <1>11 DEF Sound

(* A mover starts in a block that is free and in a sector that has none.   *)
LEMMA Started ==
  ASSUME Sound, NEW b \in Blocks, Free(b),
         NEW m \in Movers, m.fn # "removed", m.fn = "null" => m.kind \in {"plat", "ceiling"},
         specialdata[m.sector] = NULL \/ m.sector \in Doubled,
         mover' = [mover EXCEPT ![b] = m],
         thinkers' = Append(thinkers, b),
         specialdata' = [specialdata EXCEPT ![m.sector] = b],
         NEW next, Register(b, m, next)
  PROVE  Sound' /\ (AllFound /\ call'.op # "I_Error" => AllFound')
<1>0. /\ mover \in [Blocks -> Movers \cup {NULL}] /\ thinkers \in Seq(Blocks)
      /\ specialdata \in [Sectors -> Blocks \cup {NULL}]
      /\ activeplats \in [1..MAXPLATS -> Blocks \cup {NULL}] /\ MAXPLATS \in Nat
      /\ activeceilings \in [1..MAXCEILINGS -> Blocks \cup {NULL}] /\ MAXCEILINGS \in Nat
      /\ NULL \notin Movers /\ NULL \notin Blocks /\ m # NULL /\ m.sector \in Sectors
  BY MoversAssumption DEF Sound, DataOK, Movers
<1>1. mover'[b] = m /\ \A c \in Blocks : c # b => mover'[c] = mover[c]
  BY <1>0
<1>2. /\ \A c \in Blocks : Free(c)' <=> Free(c) /\ c # b
      /\ \A c \in Blocks : Live(c)' <=> Live(c) \/ c = b
      /\ ~Live(b)
  BY <1>0, <1>1 DEF Free, Live
<1>3. \A s \in Sectors : specialdata'[s] = IF s = m.sector THEN b ELSE specialdata[s]
  BY <1>0
<1>4. ~Listed(activeplats, b) /\ ~Listed(activeceilings, b)
  BY <1>0, <1>2 DEF Sound, NothingDangles, Listed
<1>5. /\ activeplats' \in [1..MAXPLATS -> Blocks \cup {NULL}]
      /\ \A i \in 1..MAXPLATS : \/ activeplats'[i] = activeplats[i]
                                \/ /\ activeplats[i] = NULL /\ activeplats'[i] = b
                                   /\ m.kind = "plat"
      /\ TableOnce(activeplats')
      /\ m.kind = "plat" /\ call'.op # "I_Error" => Listed(activeplats', b)
  <2>1. CASE m.kind = "plat"
    <3>1. activeplats' = Added(activeplats, b)
      BY <2>1 DEF Register
    <3>2. ASSUME Full(activeplats) PROVE call'.op = "I_Error"
      <4>1. call' = [op |-> "I_Error", why |-> "no more plats"]
        BY <2>1, <3>2 DEF Register, I_Error
      <4>2. [op |-> "I_Error", why |-> "no more plats"].op = "I_Error"
        OBVIOUS
      <4> QED BY <4>1, <4>2
    <3>3. TableOnce(activeplats)
      BY DEF Sound
    <3>4. /\ Added(activeplats, b) \in [1..MAXPLATS -> Blocks \cup {NULL}]
          /\ \A i \in 1..MAXPLATS :
               \/ Added(activeplats, b)[i] = activeplats[i]
               \/ activeplats[i] = NULL /\ Added(activeplats, b)[i] = b
          /\ ~Full(activeplats) => Listed(Added(activeplats, b), b)
          /\ TableOnce(Added(activeplats, b))
      BY <3>3, <1>0, <1>4, AddedFacts
    <3> QED BY <2>1, <3>1, <3>2, <3>4
  <2>2. CASE m.kind # "plat"
    <3>1. activeplats' = activeplats
      BY <2>2 DEF Register, lists
    <3>2. TableOnce(activeplats)
      BY DEF Sound
    <3> QED BY <1>0, <2>2, <3>1, <3>2
  <2> QED BY <2>1, <2>2
<1>6. /\ activeceilings' \in [1..MAXCEILINGS -> Blocks \cup {NULL}]
      /\ \A i \in 1..MAXCEILINGS : \/ activeceilings'[i] = activeceilings[i]
                                   \/ /\ activeceilings[i] = NULL /\ activeceilings'[i] = b
                                      /\ m.kind = "ceiling"
      /\ TableOnce(activeceilings')
      /\ leftout \subseteq leftout' /\ leftout' \subseteq Blocks
      /\ m.kind = "ceiling" => Listed(activeceilings', b) \/ b \in leftout'
  <2>1. CASE m.kind = "ceiling"
    <3>1. /\ activeceilings' = Added(activeceilings, b)
          /\ leftout' = IF Full(activeceilings) THEN leftout \cup {b} ELSE leftout
      BY <2>1 DEF Register
    <3>2. TableOnce(activeceilings) /\ leftout \subseteq Blocks
      BY DEF Sound, DataOK
    <3>3. /\ Added(activeceilings, b) \in [1..MAXCEILINGS -> Blocks \cup {NULL}]
          /\ \A i \in 1..MAXCEILINGS :
               \/ Added(activeceilings, b)[i] = activeceilings[i]
               \/ activeceilings[i] = NULL /\ Added(activeceilings, b)[i] = b
          /\ ~Full(activeceilings) => Listed(Added(activeceilings, b), b)
          /\ TableOnce(Added(activeceilings, b))
      BY <3>2, <1>0, <1>4, AddedFacts
    <3> QED BY <2>1, <3>1, <3>2, <3>3
  <2>2. CASE m.kind # "ceiling"
    <3>1. activeceilings' = activeceilings /\ leftout' = leftout
      BY <2>2 DEF Register, lists
    <3>2. TableOnce(activeceilings) /\ leftout \subseteq Blocks
      BY DEF Sound, DataOK
    <3> QED BY <1>0, <2>2, <3>1, <3>2
  <2> QED BY <2>1, <2>2
<1>7. NoDuplicates(thinkers) /\ Entries(thinkers) = {c \in Blocks : ~Free(c)}
  BY DEF Sound, NothingDangles
<1>8. /\ thinkers' \in Seq(Blocks) /\ Entries(thinkers') = Entries(thinkers) \cup {b}
      /\ NoDuplicates(thinkers')
  BY <1>0, <1>7, AppendEntries
<1>9. /\ Len(thinkers) \in Nat /\ DOMAIN thinkers = 1..Len(thinkers)
      /\ DOMAIN thinkers' = 1..(Len(thinkers) + 1)
      /\ thinkers'[Len(thinkers) + 1] = b
      /\ \A i \in 1..Len(thinkers) : thinkers'[i] = thinkers[i]
  BY <1>0
<1>10. DataOK'
  BY <1>0, <1>5, <1>6, <1>8 DEF Sound, DataOK
<1>11. NothingDangles'
  <2>1. NoDuplicates(thinkers)' /\ (Entries(thinkers) = {c \in Blocks : ~Free(c)})'
    <3>1. NoDuplicates(thinkers)'
      BY <1>8 DEF NoDuplicates
    <3>2. Entries(thinkers)' = Entries(thinkers) \cup {b}
      BY <1>8 DEF Entries
    <3>3. {c \in Blocks : ~Free(c)}' = {c \in Blocks : ~Free(c)} \cup {b}
      BY <1>0, <1>1 DEF Free
    <3> QED BY <1>7, <3>1, <3>2, <3>3
  <2>2. ASSUME NEW s \in Sectors, specialdata'[s] # NULL
        PROVE  (Live(specialdata[s]) /\ mover[specialdata[s]].sector = s)'
    <3>1. CASE s = m.sector
      BY <1>0, <1>1, <1>2, <1>3, <3>1 DEF Live
    <3>2. CASE s # m.sector
      <4>1. /\ specialdata'[s] = specialdata[s] /\ specialdata[s] \in Blocks
            /\ Live(specialdata[s]) /\ mover[specialdata[s]].sector = s
        BY <1>0, <1>3, <2>2, <3>2 DEF Sound, NothingDangles
      <4>2. specialdata[s] # b
        BY <1>2, <4>1
      <4> QED BY <1>1, <4>1, <4>2 DEF Live
    <3> QED BY <3>1, <3>2
  <2>3. ASSUME NEW i \in 1..MAXPLATS, activeplats'[i] # NULL
        PROVE  (Live(activeplats[i]) /\ mover[activeplats[i]].kind = "plat")'
    <3>1. CASE activeplats'[i] = b /\ m.kind = "plat"
      BY <1>0, <1>1, <3>1 DEF Live
    <3>2. CASE activeplats'[i] = activeplats[i]
      <4>1. /\ activeplats[i] \in Blocks /\ Live(activeplats[i])
            /\ mover[activeplats[i]].kind = "plat"
        BY <1>0, <2>3, <3>2 DEF Sound, NothingDangles
      <4>2. activeplats[i] # b
        BY <1>2, <4>1
      <4> QED BY <1>1, <3>2, <4>1, <4>2 DEF Live
    <3> QED BY <1>5, <3>1, <3>2
  <2>4. ASSUME NEW i \in 1..MAXCEILINGS, activeceilings'[i] # NULL
        PROVE  (Live(activeceilings[i]) /\ mover[activeceilings[i]].kind = "ceiling")'
    <3>1. CASE activeceilings'[i] = b /\ m.kind = "ceiling"
      BY <1>0, <1>1, <3>1 DEF Live
    <3>2. CASE activeceilings'[i] = activeceilings[i]
      <4>1. /\ activeceilings[i] \in Blocks /\ Live(activeceilings[i])
            /\ mover[activeceilings[i]].kind = "ceiling"
        BY <1>0, <2>4, <3>2 DEF Sound, NothingDangles
      <4>2. activeceilings[i] # b
        BY <1>2, <4>1
      <4> QED BY <1>1, <3>2, <4>1, <4>2 DEF Live
    <3> QED BY <1>6, <3>1, <3>2
  <2>5. DOMAIN activeplats' = 1..MAXPLATS /\ DOMAIN activeceilings' = 1..MAXCEILINGS
    BY <1>5, <1>6
  <2> QED BY <2>1, <2>2, <2>3, <2>4, <2>5 DEF NothingDangles
<1>12. TableOnce(activeplats)' /\ TableOnce(activeceilings)'
  BY <1>5, <1>6 DEF TableOnce
<1>13. Stoppable'
  BY <1>1 DEF Sound, Stoppable
<1>14. OneMoverEach'
  <2> SUFFICES ASSUME NEW c \in Blocks, Live(c)', mover'[c].sector \notin Doubled
               PROVE  specialdata'[mover'[c].sector] = c
    BY DEF OneMoverEach, Doubled
  <2>1. CASE c = b
    BY <1>0, <1>1, <1>3, <2>1
  <2>2. CASE c # b
    <3>1. Live(c) /\ mover'[c] = mover[c]
      BY <1>1, <1>2, <2>2
    <3>2. mover[c].sector \in Sectors
      BY <1>0, <3>1 DEF Live, Movers
    <3>3. specialdata[mover[c].sector] = c
      BY <3>1 DEF Sound, OneMoverEach
    <3>4. mover[c].sector # m.sector
      BY <1>0, <3>1, <3>3
    <3> QED BY <1>3, <3>1, <3>2, <3>3, <3>4
  <2> QED BY <2>1, <2>2
<1>15. Newest(thinkers, mover, specialdata)'
  <2> SUFFICES ASSUME NEW s \in Sectors, NEW i \in DOMAIN thinkers', NEW j \in DOMAIN thinkers',
                      i < j, specialdata'[s] = thinkers'[i]
               PROVE  mover'[thinkers'[j]].sector # s
    BY DEF Newest
  <2>1. i \in 1..Len(thinkers) /\ thinkers'[i] = thinkers[i]
    BY <1>9
  <2>2. thinkers[i] \in Blocks /\ mover[thinkers[i]] # NULL
    BY <1>7, <1>9, <2>1 DEF Entries, Free
  <2>3. thinkers[i] # b
    BY <2>2 DEF Free
  <2>4. s # m.sector /\ specialdata[s] = thinkers[i]
    BY <1>3, <2>1, <2>3
  <2>5. CASE j = Len(thinkers) + 1
    BY <1>1, <1>9, <2>4, <2>5
  <2>6. CASE j \in 1..Len(thinkers)
    <3>1. mover[thinkers[j]].sector # s
      BY <1>9, <2>1, <2>4, <2>6 DEF Sound, Newest
    <3>2. thinkers[j] \in Blocks /\ thinkers[j] # b
      BY <1>7, <1>9, <2>6 DEF Entries, Free
    <3> QED BY <1>1, <1>9, <2>6, <3>1, <3>2
  <2> QED BY <1>9, <2>5, <2>6
<1>16. ASSUME AllFound, call'.op # "I_Error" PROVE AllFound'
  <2> SUFFICES ASSUME NEW c \in Blocks, Live(c)'
               PROVE  /\ mover'[c].kind = "plat" => Listed(activeplats', c)
                      /\ mover'[c].kind = "ceiling" => Listed(activeceilings', c) \/ c \in leftout'
    BY DEF AllFound, Listed
  <2>1. CASE c = b
    BY <1>1, <1>5, <1>6, <1>16, <2>1
  <2>2. CASE c # b
    <3>1. Live(c) /\ mover'[c] = mover[c]
      BY <1>1, <1>2, <2>2
    <3>2. Listed(activeplats, c) => Listed(activeplats', c)
      BY <1>0, <1>5 DEF Listed
    <3>3. Listed(activeceilings, c) => Listed(activeceilings', c)
      BY <1>0, <1>6 DEF Listed
    <3> QED BY <1>6, <1>16, <3>1, <3>2, <3>3 DEF AllFound
  <2> QED BY <2>1, <2>2
<1> QED BY <1>10, <1>11, <1>12, <1>13, <1>14, <1>15, <1>16 DEF Sound
-----------------------------------------------------------------------------
(* The turn of a mover.                                                    *)
LEMMA GoesKeeps ==
  ASSUME Sound, NEW b \in Blocks, Live(b),
         NEW dir \in {"up", "down", "waiting", "initial", "moving", "stasis"},
         Goes(b, dir), UNCHANGED <<thinkers, leftout>>
  PROVE  Sound' /\ (AllFound => AllFound') /\ UNCHANGED call
<1>1. mover \in [Blocks -> Movers \cup {NULL}] /\ mover[b] \in Movers /\ NULL \notin Movers
  BY MoversAssumption DEF Sound, DataOK, Live
<1> DEFINE new == [mover[b] EXCEPT !.dir = dir]
<1>2. PICK m \in Movers : /\ m = new
                          /\ m.kind = mover[b].kind /\ m.sector = mover[b].sector
                          /\ m.fn = mover[b].fn
  <2>1. new \in Movers /\ new.kind = mover[b].kind
        /\ new.sector = mover[b].sector /\ new.fn = mover[b].fn
    BY <1>1 DEF Movers
  <2> QED BY <2>1
<1>3. mover' = [mover EXCEPT ![b] = m] /\ UNCHANGED <<specialdata, lists, call>>
  BY <1>1, <1>2 DEF Goes
<1>4. mover'[b] = m /\ m # NULL /\ \A c \in Blocks : c # b => mover'[c] = mover[c]
  BY <1>1, <1>3
<1>5. mover' \in [Blocks -> Movers \cup {NULL}]
  BY <1>1, <1>3
<1>6. \A c \in Blocks : mover[c] = NULL <=> mover'[c] = NULL
  BY <1>1, <1>4
<1>7. \A c \in Blocks : mover[c] # NULL =>
        /\ mover'[c].kind = mover[c].kind /\ mover'[c].sector = mover[c].sector
        /\ mover'[c].fn = "removed" <=> mover[c].fn = "removed"
        /\ mover'[c].fn = "null" => mover[c].kind \in {"plat", "ceiling"}
  <2>1. mover[b] # NULL /\ \A c \in Blocks : mover[c] # NULL =>
          (mover[c].fn = "null" => mover[c].kind \in {"plat", "ceiling"})
    BY DEF Sound, Stoppable, Live
  <2> TAKE c \in Blocks
  <2>2. CASE c = b
    <3>1. mover'[c] = m
      BY <1>4, <2>2
    <3> QED BY <1>2, <2>1, <2>2, <3>1
  <2>3. CASE c # b
    BY <1>4, <2>1, <2>3
  <2> QED BY <2>2, <2>3
<1>8. UNCHANGED <<thinkers, specialdata, lists, leftout>>
  BY <1>3
<1>9. Sound' /\ (AllFound => AllFound')
  BY <1>5, <1>6, <1>7, <1>8, Changed
<1> QED BY <1>3, <1>9

(* It ends: its tables are those from which it has been taken.             *)
LEMMA RemovedKeeps ==
  ASSUME Sound, NEW b \in Blocks, Live(b),
         NEW m \in Movers, m.kind = mover[b].kind, m.sector = mover[b].sector,
         Removed(b, m), Cleared(m.sector),
         activeplats' = Unlisted(activeplats, b) \/
           (activeplats' = activeplats /\ m.kind # "plat"),
         activeceilings' = Unlisted(activeceilings, b) \/
           (activeceilings' = activeceilings /\ m.kind # "ceiling"),
         UNCHANGED <<thinkers, leftout>>
  PROVE  Sound' /\ (AllFound => AllFound')
<1> DEFINE new == [m EXCEPT !.fn = "removed"]
<1>1. PICK e \in Movers : /\ e = new /\ e.fn = "removed"
                          /\ e.kind = mover[b].kind /\ e.sector = mover[b].sector
  <2>1. new \in Movers /\ new.kind = m.kind /\ new.sector = m.sector /\ new.fn = "removed"
    BY DEF Movers
  <2> QED BY <2>1
<1>2. /\ mover' = [mover EXCEPT ![b] = e]
      /\ specialdata' = [specialdata EXCEPT ![mover[b].sector] = NULL]
  BY <1>1 DEF Removed, Cleared
<1>3. /\ activeplats \in [1..MAXPLATS -> Blocks \cup {NULL}] /\ MAXPLATS \in Nat
      /\ activeceilings \in [1..MAXCEILINGS -> Blocks \cup {NULL}] /\ MAXCEILINGS \in Nat
      /\ TableOnce(activeplats) /\ TableOnce(activeceilings) /\ b # NULL
  BY MoversAssumption DEF Sound, DataOK
<1>4. /\ activeplats' \in [1..MAXPLATS -> Blocks \cup {NULL}]
      /\ \A i \in 1..MAXPLATS :
           activeplats'[i] = IF activeplats[i] = b THEN NULL ELSE activeplats[i]
  <2>1. CASE activeplats' = Unlisted(activeplats, b)
    BY <1>3, <2>1, UnlistedFacts
  <2>2. CASE activeplats' = activeplats /\ m.kind # "plat"
    <3>1. \A i \in 1..MAXPLATS : activeplats[i] # b
      BY <1>3, <2>2 DEF Sound, NothingDangles
    <3> QED BY <1>3, <2>2, <3>1
  <2> QED BY <2>1, <2>2
<1>5. /\ activeceilings' \in [1..MAXCEILINGS -> Blocks \cup {NULL}]
      /\ \A i \in 1..MAXCEILINGS :
           activeceilings'[i] = IF activeceilings[i] = b THEN NULL ELSE activeceilings[i]
  <2>1. CASE activeceilings' = Unlisted(activeceilings, b)
    BY <1>3, <2>1, UnlistedFacts
  <2>2. CASE activeceilings' = activeceilings /\ m.kind # "ceiling"
    <3>1. \A i \in 1..MAXCEILINGS : activeceilings[i] # b
      BY <1>3, <2>2 DEF Sound, NothingDangles
    <3> QED BY <1>3, <2>2, <3>1
  <2> QED BY <2>1, <2>2
<1> QED BY <1>1, <1>2, <1>4, <1>5, Ended

LEMMA ThinkKeeps ==
  ASSUME Sound, AllFound, NEW b \in Blocks, Live(b), Think(b),
         UNCHANGED <<thinkers, leftout>>
  PROVE  Sound' /\ AllFound' /\ UNCHANGED call
<1>1. mover[b] \in Movers
  BY DEF Sound, DataOK, Live
<1>2. /\ mover[b].dir \in {"up", "down", "waiting", "initial", "moving", "stasis"}
      /\ mover[b].kind \in {"plat", "ceiling", "door", "floor"}
  BY <1>1 DEF Movers
<1>3. ASSUME NEW dir \in {"up", "down", "waiting", "initial", "moving", "stasis"}, Goes(b, dir)
      PROVE  Sound' /\ AllFound' /\ UNCHANGED call
  BY <1>3, GoesKeeps
<1>4. CASE mover[b].kind = "plat"
  <2>1. T_PlatRaise(b)
    BY <1>4 DEF Think
  <2>2. CASE mover[b].type # "perpetualRaise" /\ P_RemoveActivePlat(b, [mover[b] EXCEPT !.dir = "waiting"])
    <3> DEFINE new == [mover[b] EXCEPT !.dir = "waiting"]
    <3>1. PICK m \in Movers : /\ m = new
                              /\ m.kind = mover[b].kind /\ m.sector = mover[b].sector
      <4>1. new \in Movers /\ new.kind = mover[b].kind /\ new.sector = mover[b].sector
        BY <1>1 DEF Movers
      <4> QED BY <4>1
    <3>2. Listed(activeplats, b)
      BY <1>4 DEF AllFound
    <3>3. /\ Cleared(m.sector) /\ Removed(b, m) /\ UNCHANGED call
          /\ activeplats' = Unlisted(activeplats, b) /\ activeceilings' = activeceilings
      BY <2>2, <3>1, <3>2 DEF P_RemoveActivePlat
    <3> QED BY <1>4, <3>1, <3>3, RemovedKeeps
  <2>3. CASE \E dir \in {"up", "down", "waiting"} : Goes(b, dir)
    BY <1>3, <2>3
  <2> QED BY <2>1, <2>2, <2>3 DEF T_PlatRaise, Results
<1>5. CASE mover[b].kind = "ceiling"
  <2>1. T_MoveCeiling(b)
    BY <1>5 DEF Think
  <2>2. CASE P_RemoveActiveCeiling(b, mover[b])
    <3>1. CASE Listed(activeceilings, b)
      <4>1. /\ Cleared(mover[b].sector) /\ Removed(b, mover[b]) /\ UNCHANGED call
            /\ activeceilings' = Unlisted(activeceilings, b) /\ activeplats' = activeplats
        BY <2>2, <3>1 DEF P_RemoveActiveCeiling
      <4> QED BY <1>1, <1>5, <4>1, RemovedKeeps
    <3>2. CASE ~Listed(activeceilings, b)
      <4>1. UNCHANGED <<mover, specialdata, activeplats, activeceilings, call>>
        BY <2>2, <3>2 DEF P_RemoveActiveCeiling
      <4>2. Sound' /\ AllFound'
        <5>1. mover' = mover /\ UNCHANGED <<thinkers, specialdata, lists, leftout>>
          BY <4>1 DEF lists
        <5> QED BY <5>1, Changed DEF Sound, DataOK, Stoppable
      <4> QED BY <4>1, <4>2
    <3> QED BY <3>1, <3>2
  <2>3. CASE Goes(b, mover[b].dir) \/ Goes(b, IF mover[b].dir = "up" THEN "down" ELSE "up")
    BY <1>2, <1>3, <2>3
  <2> QED BY <2>1, <2>2, <2>3 DEF T_MoveCeiling
<1>6. ASSUME mover[b].kind \notin {"plat", "ceiling"}, RemoveOther(b, mover[b])
      PROVE  Sound' /\ AllFound' /\ UNCHANGED call
  <2>1. /\ Cleared(mover[b].sector) /\ Removed(b, mover[b]) /\ UNCHANGED call
        /\ activeplats' = activeplats /\ activeceilings' = activeceilings
    BY <1>6 DEF RemoveOther, lists
  <2> QED BY <1>1, <1>6, <2>1, RemovedKeeps
<1>7. CASE mover[b].kind = "door"
  <2>1. T_VerticalDoor(b)
    BY <1>7 DEF Think
  <2>2. CASE /\ mover' = [mover EXCEPT ![b].dir = "up", ![b].type = "normal"]
             /\ UNCHANGED <<specialdata, lists, call>>
    <3> DEFINE new == [mover[b] EXCEPT !.dir = "up", !.type = "normal"]
    <3>1. PICK m \in Movers : /\ m = new
                              /\ m.kind = mover[b].kind /\ m.sector = mover[b].sector
                              /\ m.fn = mover[b].fn
      <4>1. new \in Movers /\ new.kind = mover[b].kind
            /\ new.sector = mover[b].sector /\ new.fn = mover[b].fn
        BY <1>1 DEF Movers, AllDoors
      <4> QED BY <4>1
    <3>2. mover \in [Blocks -> Movers \cup {NULL}] /\ NULL \notin Movers
      BY MoversAssumption DEF Sound, DataOK
    <3>3. mover' = [mover EXCEPT ![b] = m]
      BY <2>2, <3>1, <3>2
    <3>4. mover'[b] = m /\ m # NULL /\ \A c \in Blocks : c # b => mover'[c] = mover[c]
      BY <3>2, <3>3
    <3>5. mover' \in [Blocks -> Movers \cup {NULL}]
      BY <3>2, <3>3
    <3>6. \A c \in Blocks : mover[c] = NULL <=> mover'[c] = NULL
      BY <1>1, <3>2, <3>4
    <3>7. \A c \in Blocks : mover[c] # NULL =>
            /\ mover'[c].kind = mover[c].kind /\ mover'[c].sector = mover[c].sector
            /\ mover'[c].fn = "removed" <=> mover[c].fn = "removed"
            /\ mover'[c].fn = "null" => mover[c].kind \in {"plat", "ceiling"}
      <4>1. mover[b] # NULL /\ \A c \in Blocks : mover[c] # NULL =>
              (mover[c].fn = "null" => mover[c].kind \in {"plat", "ceiling"})
        BY DEF Sound, Stoppable, Live
      <4> TAKE c \in Blocks
      <4>2. CASE c = b
        <5>1. mover'[c] = m
          BY <3>4, <4>2
        <5> QED BY <3>1, <4>1, <4>2, <5>1
      <4>3. CASE c # b
        BY <3>4, <4>1, <4>3
      <4> QED BY <4>2, <4>3
    <3>8. UNCHANGED <<thinkers, specialdata, lists, leftout>>
      BY <2>2
    <3>9. Sound' /\ AllFound'
      BY <3>5, <3>6, <3>7, <3>8, Changed
    <3> QED BY <2>2, <3>9
  <2>3. CASE \/ Goes(b, mover[b].dir) \/ Goes(b, "waiting") \/ Goes(b, "up")
             \/ Goes(b, IF mover[b].type = "normal" THEN "down" ELSE "up")
    BY <1>2, <1>3, <2>3
  <2>4. CASE RemoveOther(b, mover[b])
    BY <1>6, <1>7, <2>4
  <2> QED BY <2>1, <2>2, <2>3, <2>4 DEF T_VerticalDoor
<1>8. CASE mover[b].kind = "floor"
  <2>1. Goes(b, mover[b].dir) \/ RemoveOther(b, mover[b])
    BY <1>8 DEF Think, T_MoveFloor
  <2> QED BY <1>2, <1>3, <1>6, <1>8, <2>1
<1> QED BY <1>2, <1>4, <1>5, <1>7, <1>8
-----------------------------------------------------------------------------
(* Those before the turn in the list have run, and nobody else.            *)
RanOK ==
  /\ ran \subseteq Entries(thinkers)
  /\ \A i \in DOMAIN thinkers : thinkers[i] \in ran <=> i < current

Sane(level) ==
  /\ NoDuplicates(level.thinkers)
  /\ Entries(level.thinkers) = {b \in Blocks : level.mover[b] # NULL}
  /\ \A s \in Sectors : level.specialdata[s] # NULL =>
       /\ level.specialdata[s] \in Lasting(level)
       /\ level.mover[level.specialdata[s]].sector = s
  /\ Newest(level.thinkers, level.mover, level.specialdata)

MoversOnce(movers) ==
  /\ \A i \in DOMAIN movers : /\ movers[i].fn # "removed"
                              /\ movers[i].fn = "null" => movers[i].kind = "ceiling"
  /\ \A i, j \in DOMAIN movers :
       i # j /\ movers[i].sector = movers[j].sector => movers[i].sector \in Doubled

Kept(level) == Only(level.thinkers, Lasting(level) \ StoppedPlats(level))

SavedInv ==
  saved # NULL =>
    /\ saved \in SavedGames /\ Sane(saved.level) /\ MoversOnce(saved.movers)
    /\ saved.level.leftout = {} =>
         saved.movers = Contents(Kept(saved.level), saved.level.mover)

LoadingInv ==
  call.op = "load" =>
    /\ saved # NULL /\ call.next = Len(thinkers) + 1 /\ Len(thinkers) <= Len(saved.movers)
    /\ \A i \in DOMAIN thinkers : /\ mover[thinkers[i]] = saved.movers[i]
                                  /\ specialdata[saved.movers[i].sector] # NULL

(* Between the two movers of a donut its pillar stands still, unless it    *)
(* belongs to a ring itself.                                               *)
PillarFree ==
  call.op = "start" /\ call.type = "donut" /\ call.stair # 0 =>
    specialdata[call.stair] = NULL \/ call.stair \in Doubled

(* P_SpawnSpecials meets no mover in the sectors that it has yet to see.   *)
SpawningInv ==
  call.op = "spawn" => \A s \in Sectors : s >= call.sec => specialdata[s] = NULL

MoversInv ==
  /\ Sound /\ AllListed /\ PlatsFound /\ PillarFree /\ SpawningInv
  /\ spent \subseteq Lines /\ current \in 0..(Len(thinkers) + 1) /\ call \in Calls
  /\ RanOK /\ SavedInv /\ LoadingInv

LEMMA TypeFollows == ASSUME MoversInv PROVE MoversTypeOK
<1>1. ran \subseteq Blocks
  BY DEF MoversInv, RanOK, Sound, NothingDangles
<1> QED BY <1>1 DEF MoversInv, Sound, DataOK, MoversTypeOK, SavedInv

(* Calls, by what is under way.                                            *)
LEMMA CallTypes ==
  ASSUME call \in Calls
  PROVE  /\ call.op = "start" => call \in SearchCalls
         /\ call.op = "spawn" => call \in [op : {"spawn"}, sec : Nat \ {0}]
         /\ call.op = "load" => call \in [op : {"load"}, next : Nat \ {0}]
<1>1. CASE call = NoCall
  <2>1. NoCall.op = "none"
    BY DEF NoCall
  <2> QED BY <1>1, <2>1
<1>2. CASE call \in [op : {"spawn"}, sec : Nat \ {0}]
  <2>1. call.op = "spawn"
    BY <1>2
  <2> QED BY <1>2, <2>1
<1>3. CASE call \in [op : {"load"}, next : Nat \ {0}]
  <2>1. call.op = "load"
    BY <1>3
  <2> QED BY <1>3, <2>1
<1>4. CASE call \in SearchCalls
  <2>1. call.op = "start"
    BY <1>4 DEF SearchCalls
  <2> QED BY <1>4, <2>1
<1>5. CASE call \in [op : {"I_Error"}, why : {"Z_Malloc", "no more plats", "can't find plat"}]
  <2>1. call.op = "I_Error"
    BY <1>5
  <2> QED BY <2>1
<1> QED BY <1>1, <1>2, <1>3, <1>4, <1>5 DEF Calls

LEMMA ErrorCall ==
  ASSUME NEW why \in {"Z_Malloc", "no more plats"}, I_Error(why)
  PROVE  call' \in Calls /\ call'.op = "I_Error" /\ call'.why # "can't find plat"
<1>1. call' = [op |-> "I_Error", why |-> why]
  BY DEF I_Error
<1>2. /\ [op |-> "I_Error", why |-> why].op = "I_Error"
      /\ [op |-> "I_Error", why |-> why].why = why
  OBVIOUS
<1>3. [op |-> "I_Error", why |-> why] \in
        [op : {"I_Error"}, why : {"Z_Malloc", "no more plats", "can't find plat"}]
  OBVIOUS
<1> QED BY <1>1, <1>2, <1>3 DEF Calls

LEMMA NewMoversOK ==
  ASSUME NEW kind \in {"plat", "ceiling", "door", "floor"},
         NEW type \in AllPlats \cup AllCeilings \cup AllDoors \cup AllOthers \cup {"raiseIn5Mins"},
         NEW dirs \in SUBSET {"up", "down", "waiting", "initial", "moving"},
         NEW s \in Sectors
  PROVE  /\ NewMovers(kind, type, dirs, s) \subseteq Movers
         /\ \A m \in NewMovers(kind, type, dirs, s) : m.fn = "think" /\ m.sector = s
<1>1. SectorTag[s] \in Nat
  BY MoversAssumption
<1> QED BY <1>1 DEF NewMovers, Movers

LEMMA FirstDirsOK ==
  ASSUME NEW kind, NEW type
  PROVE  FirstDirs(kind, type) \in SUBSET {"up", "down", "waiting", "initial", "moving"}
BY DEF FirstDirs

(* What StartOne does, when its movers may start.                          *)
LEMMA StartKeeps ==
  ASSUME Sound, AllFound, RanOK, current \in 0..(Len(thinkers) + 1), UNCHANGED <<current, ran>>,
         NEW M, M \subseteq Movers,
         \A m \in M : /\ m.fn # "removed" /\ (m.fn = "null" => m.kind \in {"plat", "ceiling"})
                      /\ specialdata[m.sector] = NULL \/ m.sector \in Doubled,
         NEW next \in Calls, next.op # "I_Error", StartOne(M, next)
  PROVE  /\ Sound' /\ (call'.op # "I_Error" => AllFound') /\ RanOK'
         /\ current' \in 0..(Len(thinkers') + 1)
         /\ call' \in Calls /\ (call'.op # "I_Error" => call' = next) /\ PlatsFound'
         /\ call'.op # "I_Error" =>
              \E b \in Blocks, m \in M : /\ thinkers' = Append(thinkers, b) /\ Free(b)
                                         /\ mover' = [mover EXCEPT ![b] = m]
                                         /\ specialdata' = [specialdata EXCEPT ![m.sector] = b]
<1>1. CASE \E b \in Blocks, m \in M :
             /\ Free(b)
             /\ mover'       = [mover EXCEPT ![b] = m]
             /\ thinkers'    = Append(thinkers, b)
             /\ specialdata' = [specialdata EXCEPT ![m.sector] = b]
             /\ Register(b, m, next)
  <2>1. PICK b \in Blocks, m \in M :
             /\ Free(b)
             /\ mover'       = [mover EXCEPT ![b] = m]
             /\ thinkers'    = Append(thinkers, b)
             /\ specialdata' = [specialdata EXCEPT ![m.sector] = b]
             /\ Register(b, m, next)
    BY <1>1
  <2>2. Sound' /\ (AllFound /\ call'.op # "I_Error" => AllFound')
    <3>1. m \in Movers /\ m.fn # "removed" /\ (m.fn = "null" => m.kind \in {"plat", "ceiling"})
          /\ (specialdata[m.sector] = NULL \/ m.sector \in Doubled)
      OBVIOUS
    <3> QED BY <2>1, <3>1, Started
  <2>3. call' = next \/ I_Error("no more plats")
    BY <2>1 DEF Register, Full
  <2>4. call' \in Calls /\ (call'.op # "I_Error" => call' = next) /\ PlatsFound'
    BY <2>3, ErrorCall DEF PlatsFound
  <2>5. /\ Len(thinkers) \in Nat /\ DOMAIN thinkers = 1..Len(thinkers)
        /\ DOMAIN thinkers' = 1..(Len(thinkers) + 1) /\ Len(thinkers') = Len(thinkers) + 1
        /\ thinkers'[Len(thinkers) + 1] = b
        /\ \A i \in 1..Len(thinkers) : thinkers'[i] = thinkers[i]
        /\ Entries(thinkers') = Entries(thinkers) \cup {b} /\ b \notin Entries(thinkers)
    BY <2>1, AppendEntries DEF Sound, DataOK, NothingDangles
  <2>6. RanOK'
    BY <2>5 DEF RanOK, Entries
  <2>7. current' \in 0..(Len(thinkers') + 1)
    BY <2>5
  <2> QED BY <2>1, <2>2, <2>4, <2>6, <2>7
<1>2. CASE /\ I_Error("Z_Malloc")
           /\ UNCHANGED <<mover, thinkers, specialdata, lists, leftout>>
  <2>1. Sound'
    BY <1>2, Changed DEF Sound, DataOK, Stoppable
  <2>2. RanOK' /\ current' \in 0..(Len(thinkers') + 1)
    BY <1>2 DEF RanOK, Entries
  <2>3. call' \in Calls /\ call'.op = "I_Error" /\ PlatsFound'
    BY <1>2, ErrorCall DEF PlatsFound
  <2> QED BY <2>1, <2>2, <2>3
<1> QED BY <1>1, <1>2 DEF StartOne

(* What remains to be shown of a step that is not part of a load.          *)
LEMMA Rest ==
  ASSUME MoversInv, Sound', call'.op # "I_Error" => AllFound', RanOK',
         current' \in 0..(Len(thinkers') + 1), spent' \subseteq Lines, call' \in Calls,
         PlatsFound', PillarFree', SpawningInv', call'.op # "load", saved' = saved
  PROVE  MoversInv'
<1>1. SavedInv'
  BY DEF MoversInv, SavedInv
<1>2. LoadingInv' /\ AllListed'
  BY DEF LoadingInv, AllListed, AllFound
<1> QED BY <1>1, <1>2 DEF MoversInv

(* What can be used of the invariant when a call is under way or none is.  *)
LEMMA NoError ==
  ASSUME MoversInv, call.op # "I_Error"
  PROVE  Sound /\ AllFound /\ RanOK /\ current \in 0..(Len(thinkers) + 1) /\ call \in Calls
BY DEF MoversInv, AllListed, AllFound

(* Steps that start a mover or leave the data alone.                       *)
LEMMA Starting ==
  ASSUME MoversInv, call.op # "I_Error", UNCHANGED <<current, saved, ran>>, spent' \subseteq Lines,
         NEW next \in Calls, next.op \notin {"I_Error", "load"},
         NEW s \in Sectors, specialdata[s] = NULL \/ s \in Doubled,
         NEW kind \in {"plat", "ceiling", "door", "floor"},
         NEW type \in AllPlats \cup AllCeilings \cup AllDoors \cup AllOthers \cup {"raiseIn5Mins"},
         NEW dirs \in SUBSET {"up", "down", "waiting", "initial", "moving"},
         next.op = "start" /\ next.type = "donut" /\ next.stair # 0 =>
           next.stair \in Doubled \/ (specialdata[next.stair] = NULL /\ next.stair # s),
         next.op = "spawn" =>
           next.sec \in Nat /\ s < next.sec /\ \A r \in Sectors : r >= next.sec => specialdata[r] = NULL,
         StartOne(NewMovers(kind, type, dirs, s), next)
  PROVE  MoversInv'
<1> DEFINE M == NewMovers(kind, type, dirs, s)
<1>1. M \subseteq Movers /\ \A m \in M : m.fn = "think" /\ m.sector = s
  BY NewMoversOK
<1> HIDE DEF M
<1>2. /\ Sound' /\ (call'.op # "I_Error" => AllFound') /\ RanOK'
      /\ current' \in 0..(Len(thinkers') + 1)
      /\ call' \in Calls /\ (call'.op # "I_Error" => call' = next) /\ PlatsFound'
      /\ call'.op # "I_Error" =>
           \E b \in Blocks, m \in M : specialdata' = [specialdata EXCEPT ![m.sector] = b]
  <2>1. StartOne(M, next)
    BY DEF M
  <2>2. \A m \in M : /\ m.fn # "removed" /\ (m.fn = "null" => m.kind \in {"plat", "ceiling"})
                     /\ specialdata[m.sector] = NULL \/ m.sector \in Doubled
    BY <1>1
  <2>3. Sound /\ AllFound /\ RanOK /\ current \in 0..(Len(thinkers) + 1) /\ UNCHANGED <<current, ran>>
    BY NoError
  <2>4. call'.op # "I_Error" =>
          \E b \in Blocks, m \in M : /\ thinkers' = Append(thinkers, b) /\ Free(b)
                                     /\ mover' = [mover EXCEPT ![b] = m]
                                     /\ specialdata' = [specialdata EXCEPT ![m.sector] = b]
    BY <1>1, <2>1, <2>2, <2>3, StartKeeps
  <2>5. /\ Sound' /\ (call'.op # "I_Error" => AllFound') /\ RanOK'
        /\ current' \in 0..(Len(thinkers') + 1)
        /\ call' \in Calls /\ (call'.op # "I_Error" => call' = next) /\ PlatsFound'
    BY <1>1, <2>1, <2>2, <2>3, StartKeeps
  <2> QED BY <2>4, <2>5
<1>3. call'.op # "load"
  BY <1>2
<1>4. PillarFree'
  <2> SUFFICES ASSUME call'.op = "start", call'.type = "donut", call'.stair # 0
               PROVE  specialdata'[call'.stair] = NULL \/ call'.stair \in Doubled
    BY DEF PillarFree, Doubled
  <2>1. call' = next
    BY <1>2
  <2>2. PICK b \in Blocks : specialdata' = [specialdata EXCEPT ![s] = b]
    BY <1>1, <1>2
  <2> QED BY <2>1, <2>2
<1>5. SpawningInv'
  <2> SUFFICES ASSUME call'.op = "spawn", NEW r \in Sectors, r >= call'.sec
               PROVE  specialdata'[r] = NULL
    BY DEF SpawningInv
  <2>1. call' = next
    BY <1>2
  <2>2. PICK b \in Blocks : specialdata' = [specialdata EXCEPT ![s] = b]
    BY <1>1, <1>2
  <2>3. r # s
    BY <2>1 DEF Sectors
  <2> QED BY <2>1, <2>2, <2>3
<1> QED BY <1>2, <1>3, <1>4, <1>5, Rest

LEMMA DataSame ==
  ASSUME MoversInv, call.op # "I_Error", UNCHANGED <<thinkers, mover, specialdata, lists, leftout>>
  PROVE  Sound' /\ AllFound' /\ Entries(thinkers)' = Entries(thinkers)
<1>1. Sound /\ AllFound
  BY NoError
<1>2. Sound' /\ AllFound'
  BY <1>1, Changed DEF Sound, DataOK, Stoppable
<1> QED BY <1>2 DEF Entries

LEMMA Quiet ==
  ASSUME MoversInv, call.op # "I_Error", UNCHANGED <<thinkers, mover, specialdata, lists, leftout>>,
         UNCHANGED <<spent, current, saved, ran>>,
         call' \in Calls, call'.op \notin {"I_Error", "load"},
         call'.op = "start" => call'.stair = 0,
         call'.op = "spawn" => \A s \in Sectors : s >= call'.sec => specialdata[s] = NULL
  PROVE  MoversInv'
<1>1. Sound' /\ AllFound'
  BY DataSame
<1>2. RanOK' /\ current' \in 0..(Len(thinkers') + 1) /\ spent' \subseteq Lines
  BY DEF MoversInv, RanOK, Entries
<1>3. PlatsFound' /\ PillarFree' /\ SpawningInv'
  BY DEF PlatsFound, PillarFree, SpawningInv
<1> QED BY <1>1, <1>2, <1>3, Rest
-----------------------------------------------------------------------------
(* The steps of a tic.                                                     *)
LEMMA StartTicKeeps == ASSUME MoversInv, StartTic PROVE MoversInv'
<1>1. call.op = "none" /\ UNCHANGED call /\ UNCHANGED <<thinkers, mover, specialdata, lists, leftout>>
  BY DEF StartTic, Idle
<1>2. Sound' /\ AllFound'
  BY <1>1, DataSame
<1>3. Len(thinkers) \in Nat /\ DOMAIN thinkers = 1..Len(thinkers)
  BY DEF MoversInv, Sound, DataOK
<1>4. RanOK' /\ current' \in 0..(Len(thinkers') + 1)
  BY <1>3 DEF MoversInv, RanOK, StartTic, Entries
<1> QED BY <1>1, <1>2, <1>4, Rest DEF StartTic, MoversInv, PlatsFound, PillarFree, SpawningInv

LEMMA FreeThinkerKeeps == ASSUME MoversInv, FreeThinker PROVE MoversInv'
<1>1. /\ call.op = "none" /\ UNCHANGED <<call, spent, current, saved, ran>>
      /\ current \in DOMAIN thinkers /\ thinkers' = Unlinked(thinkers, current)
      /\ UNCHANGED <<specialdata, lists, leftout>>
  BY DEF FreeThinker, Idle
<1>2. Sound /\ AllFound /\ RanOK /\ thinkers \in Seq(Blocks) /\ NoDuplicates(thinkers)
  BY <1>1, NoError DEF Sound, DataOK, NothingDangles
<1>3. Sound' /\ AllFound'
  BY <1>1, <1>2, Freed DEF FreeThinker
<1>4. /\ thinkers' \in Seq(Blocks) /\ Len(thinkers') = Len(thinkers) - 1
      /\ Entries(thinkers') = Entries(thinkers) \ {thinkers[current]}
      /\ \A i \in DOMAIN thinkers' :
           /\ i < current => i \in DOMAIN thinkers /\ thinkers'[i] = thinkers[i]
           /\ i >= current => i + 1 \in DOMAIN thinkers /\ thinkers'[i] = thinkers[i + 1]
  BY <1>1, <1>2, UnlinkedFacts
<1>5. thinkers[current] \notin ran /\ current \in 1..Len(thinkers) /\ Len(thinkers) \in Nat
  BY <1>1, <1>2 DEF RanOK
<1>6. ran' \subseteq Entries(thinkers')
  BY <1>1, <1>2, <1>4, <1>5 DEF RanOK
<1>7. ASSUME NEW i \in DOMAIN thinkers' PROVE thinkers'[i] \in ran <=> i < current
  <2>1. i \in Nat
    BY <1>4
  <2>2. CASE i < current
    BY <1>2, <1>4, <2>1, <2>2 DEF RanOK
  <2>3. CASE i >= current
    BY <1>2, <1>4, <1>5, <2>1, <2>3 DEF RanOK
  <2> QED BY <1>5, <2>1, <2>2, <2>3
<1>8. RanOK' /\ current' \in 0..(Len(thinkers') + 1)
  BY <1>1, <1>4, <1>5, <1>6, <1>7 DEF RanOK, Entries
<1> QED BY <1>1, <1>3, <1>8, Rest DEF MoversInv, PlatsFound, PillarFree, SpawningInv

LEMMA RunThinkerKeeps == ASSUME MoversInv, RunThinker PROVE MoversInv'
<1>1. /\ call.op = "none" /\ current \in DOMAIN thinkers /\ current' = current + 1
      /\ ran' = ran \cup {thinkers[current]}
      /\ UNCHANGED <<thinkers, spent, saved, leftout>>
  BY DEF RunThinker, Idle
<1>2. Sound /\ AllFound /\ RanOK /\ thinkers \in Seq(Blocks) /\ NoDuplicates(thinkers)
  BY <1>1, NoError DEF Sound, DataOK, NothingDangles
<1> DEFINE b == thinkers[current]
<1>3. b \in Blocks /\ mover[b] # NULL
  BY <1>1, <1>2 DEF Sound, NothingDangles, Entries, Free
<1>4. Sound' /\ AllFound' /\ UNCHANGED call
  <2>1. CASE mover[b].fn = "think" /\ Think(b)
    <3>1. Live(b)
      BY <1>3, <2>1 DEF Live
    <3> HIDE DEF b
    <3> QED BY <1>1, <1>2, <1>3, <2>1, <3>1, ThinkKeeps
  <2>2. CASE UNCHANGED <<mover, specialdata, lists, call>>
    <3>1. Sound' /\ AllFound'
      BY <1>1, <2>2, DataSame
    <3> QED BY <2>2, <3>1
  <2> QED BY <2>1, <2>2 DEF RunThinker
<1>5. DOMAIN thinkers = 1..Len(thinkers) /\ Len(thinkers) \in Nat
  BY <1>2
<1>6. ran' \subseteq Entries(thinkers)
  BY <1>1, <1>2 DEF RanOK, Entries
<1>7. ASSUME NEW i \in DOMAIN thinkers PROVE thinkers[i] \in ran' <=> i < current + 1
  <2>1. thinkers[i] = thinkers[current] <=> i = current
    BY <1>1, <1>2 DEF NoDuplicates
  <2> QED BY <1>1, <1>2, <1>5, <2>1 DEF RanOK
<1>8. RanOK' /\ current' \in 0..(Len(thinkers') + 1)
  BY <1>1, <1>5, <1>6, <1>7 DEF RanOK, Entries
<1> QED BY <1>1, <1>4, <1>8, Rest DEF MoversInv, PlatsFound, PillarFree, SpawningInv

LEMMA EndTicKeeps == ASSUME MoversInv, EndTic PROVE MoversInv'
<1>1. call.op = "none" /\ UNCHANGED call /\ UNCHANGED <<thinkers, mover, specialdata, lists, leftout>>
  BY DEF EndTic, Idle
<1>2. Sound' /\ AllFound'
  BY <1>1, DataSame
<1>3. Len(thinkers) \in Nat /\ DOMAIN thinkers = 1..Len(thinkers)
  BY DEF MoversInv, Sound, DataOK
<1>4. RanOK' /\ current' \in 0..(Len(thinkers') + 1)
  BY <1>3 DEF MoversInv, RanOK, EndTic, Entries
<1> QED BY <1>1, <1>2, <1>4, Rest DEF EndTic, MoversInv, PlatsFound, PillarFree, SpawningInv
-----------------------------------------------------------------------------
(* Lines that set in motion and stop what there is.                        *)
LEMMA ActivatedKeeps ==
  ASSUME Sound, NEW S \in SUBSET Blocks, \A b \in S : Live(b), Activated(S),
         UNCHANGED <<thinkers, specialdata, lists, leftout>>
  PROVE  Sound' /\ (AllFound => AllFound')
<1>1. mover \in [Blocks -> Movers \cup {NULL}] /\ NULL \notin Movers
  BY MoversAssumption DEF Sound, DataOK
<1> DEFINE New(b) == [mover[b] EXCEPT !.dir = mover[b].old, !.fn = "think"]
<1>2. \A b \in Blocks : mover'[b] = IF b \in S THEN New(b) ELSE mover[b]
  BY DEF Activated
<1>3. ASSUME NEW b \in S
      PROVE  /\ mover[b] \in Movers /\ New(b) \in Movers /\ mover[b].fn # "removed"
             /\ New(b).kind = mover[b].kind /\ New(b).sector = mover[b].sector
             /\ New(b).fn = "think"
  <2>1. mover[b] \in Movers /\ mover[b].fn # "removed"
    BY <1>1 DEF Live
  <2> QED BY <2>1 DEF Movers
<1> HIDE DEF New
<1>4. mover' \in [Blocks -> Movers \cup {NULL}]
  <2>1. mover' = [b \in Blocks |-> mover'[b]]
    BY DEF Activated
  <2> QED BY <1>1, <1>2, <1>3, <2>1
<1>5. \A b \in Blocks : mover[b] = NULL <=> mover'[b] = NULL
  BY <1>1, <1>2, <1>3
<1>6. \A b \in Blocks : mover[b] # NULL =>
        /\ mover'[b].kind = mover[b].kind /\ mover'[b].sector = mover[b].sector
        /\ mover'[b].fn = "removed" <=> mover[b].fn = "removed"
        /\ mover'[b].fn = "null" => mover[b].kind \in {"plat", "ceiling"}
  <2> TAKE b \in Blocks
  <2>1. CASE b \in S
    BY <1>2, <1>3, <2>1
  <2>2. CASE b \notin S
    BY <1>2, <2>2 DEF Sound, Stoppable
  <2> QED BY <2>1, <2>2
<1> QED BY <1>4, <1>5, <1>6, Changed

LEMMA StoppedKeeps ==
  ASSUME Sound, NEW S \in SUBSET Blocks, Stopped(S),
         \A b \in S : /\ Live(b) /\ mover[b].dir # "stasis"
                      /\ mover[b].kind \in {"plat", "ceiling"},
         UNCHANGED <<thinkers, specialdata, lists, leftout>>
  PROVE  Sound' /\ (AllFound => AllFound')
<1>1. mover \in [Blocks -> Movers \cup {NULL}] /\ NULL \notin Movers
  BY MoversAssumption DEF Sound, DataOK
<1> DEFINE New(b) == [mover[b] EXCEPT !.old = mover[b].dir, !.dir = "stasis", !.fn = "null"]
<1>2. \A b \in Blocks : mover'[b] = IF b \in S THEN New(b) ELSE mover[b]
  BY DEF Stopped
<1>3. ASSUME NEW b \in S
      PROVE  /\ mover[b] \in Movers /\ New(b) \in Movers /\ mover[b].fn # "removed"
             /\ New(b).kind = mover[b].kind /\ New(b).sector = mover[b].sector
             /\ New(b).fn = "null" /\ mover[b].kind \in {"plat", "ceiling"}
  <2>1. /\ mover[b] \in Movers /\ mover[b].fn # "removed" /\ mover[b].dir # "stasis"
        /\ mover[b].kind \in {"plat", "ceiling"}
    BY <1>1 DEF Live
  <2> QED BY <2>1 DEF Movers
<1> HIDE DEF New
<1>4. mover' \in [Blocks -> Movers \cup {NULL}]
  <2>1. mover' = [b \in Blocks |-> mover'[b]]
    BY DEF Stopped
  <2> QED BY <1>1, <1>2, <1>3, <2>1
<1>5. \A b \in Blocks : mover[b] = NULL <=> mover'[b] = NULL
  BY <1>1, <1>2, <1>3
<1>6. \A b \in Blocks : mover[b] # NULL =>
        /\ mover'[b].kind = mover[b].kind /\ mover'[b].sector = mover[b].sector
        /\ mover'[b].fn = "removed" <=> mover[b].fn = "removed"
        /\ mover'[b].fn = "null" => mover[b].kind \in {"plat", "ceiling"}
  <2> TAKE b \in Blocks
  <2>1. CASE b \in S
    BY <1>2, <1>3, <2>1
  <2>2. CASE b \notin S
    BY <1>2, <2>2 DEF Sound, Stoppable
  <2> QED BY <2>1, <2>2
<1> QED BY <1>4, <1>5, <1>6, Changed

(* What a table lists is alive and of its kind.                            *)
LEMMA ListedLive ==
  ASSUME Sound, NEW b \in Blocks
  PROVE  /\ Listed(activeplats, b) => Live(b) /\ mover[b].kind = "plat"
         /\ Listed(activeceilings, b) => Live(b) /\ mover[b].kind = "ceiling"
BY MoversAssumption DEF Sound, NothingDangles, Listed

LEMMA UseTaggedKeeps ==
  ASSUME MoversInv, NEW kind \in {"plat", "ceiling", "door", "floor"},
         NEW type \in AllPlats \cup AllCeilings \cup AllDoors \cup AllOthers, NEW tag \in Nat,
         UseTagged(kind, type, tag)
  PROVE  MoversInv'
<1>1. /\ call.op = "none" /\ UNCHANGED <<thinkers, specialdata, lists, leftout>>
      /\ UNCHANGED <<spent, current, saved, ran>>
      /\ call' = [op |-> "start", kind |-> kind, type |-> type, tag |-> tag, sec |-> 0, stair |-> 0]
  BY DEF UseTagged, LinesMove, Idle
<1>2. NumSectors \in Nat
  BY MoversAssumption
<1> DEFINE c == [op |-> "start", kind |-> kind, type |-> type, tag |-> tag, sec |-> 0, stair |-> 0]
<1>3. call' \in Calls /\ call'.op = "start" /\ call'.stair = 0
  <2>1. c \in SearchCalls
    BY <1>2 DEF SearchCalls
  <2>2. c.op = "start" /\ c.stair = 0
    OBVIOUS
  <2>3. call' = c
    BY <1>1
  <2> HIDE DEF c
  <2> QED BY <2>1, <2>2, <2>3 DEF Calls
<1>4. Sound /\ AllFound
  BY <1>1, NoError
<1>5. Sound' /\ AllFound'
  <2>1. CASE Activated(InStasis(activeplats, tag))
    <3>1. /\ InStasis(activeplats, tag) \in SUBSET Blocks
          /\ \A b \in InStasis(activeplats, tag) : Live(b)
      BY <1>4, ListedLive DEF InStasis
    <3> QED BY <1>1, <1>4, <2>1, <3>1, ActivatedKeeps
  <2>2. CASE Activated(InStasis(activeceilings, tag))
    <3>1. /\ InStasis(activeceilings, tag) \in SUBSET Blocks
          /\ \A b \in InStasis(activeceilings, tag) : Live(b)
      BY <1>4, ListedLive DEF InStasis
    <3> QED BY <1>1, <1>4, <2>2, <3>1, ActivatedKeeps
  <2>3. CASE UNCHANGED mover
    BY <1>1, <2>3, DataSame
  <2> QED BY <2>1, <2>2, <2>3 DEF UseTagged
<1>6. RanOK' /\ current' \in 0..(Len(thinkers') + 1) /\ spent' \subseteq Lines
  BY <1>1 DEF MoversInv, RanOK, Entries
<1>7. PlatsFound' /\ PillarFree' /\ SpawningInv'
  BY <1>3 DEF PlatsFound, PillarFree, SpawningInv
<1> QED BY <1>1, <1>3, <1>5, <1>6, <1>7, Rest

LEMMA StopKeeps ==
  ASSUME MoversInv, NEW tag, Stop(activeplats, tag) \/ Stop(activeceilings, tag)
  PROVE  MoversInv'
<1>1. /\ call.op = "none" /\ UNCHANGED <<thinkers, specialdata, lists, leftout>>
      /\ UNCHANGED <<spent, current, saved, ran, call>>
  BY DEF Stop, LinesMove, Idle
<1>2. Sound /\ AllFound
  BY <1>1, NoError
<1>3. Sound' /\ AllFound'
  <2>1. CASE Stopped(Moving(activeplats, tag))
    <3>1. /\ Moving(activeplats, tag) \in SUBSET Blocks
          /\ \A b \in Moving(activeplats, tag) : /\ Live(b) /\ mover[b].dir # "stasis"
                                                 /\ mover[b].kind \in {"plat", "ceiling"}
      BY <1>2, ListedLive DEF Moving
    <3> QED BY <1>1, <1>2, <2>1, <3>1, StoppedKeeps
  <2>2. CASE Stopped(Moving(activeceilings, tag))
    <3>1. /\ Moving(activeceilings, tag) \in SUBSET Blocks
          /\ \A b \in Moving(activeceilings, tag) : /\ Live(b) /\ mover[b].dir # "stasis"
                                                    /\ mover[b].kind \in {"plat", "ceiling"}
      BY <1>2, ListedLive DEF Moving
    <3> QED BY <1>1, <1>2, <2>2, <3>1, StoppedKeeps
  <2> QED BY <2>1, <2>2 DEF Stop
<1>4. RanOK' /\ current' \in 0..(Len(thinkers') + 1) /\ spent' \subseteq Lines
  BY <1>1 DEF MoversInv, RanOK, Entries
<1> QED BY <1>1, <1>3, <1>4, Rest DEF MoversInv, PlatsFound, PillarFree, SpawningInv
-----------------------------------------------------------------------------
(* The calls that start movers.                                            *)
LEMMA NoMoreSectorsKeeps == ASSUME MoversInv, NoMoreSectors PROVE MoversInv'
<1>1. NoCall.op = "none" /\ NoCall \in Calls
  BY DEF NoCall, Calls
<1>2. call.op # "I_Error" /\ call' = NoCall
  BY DEF NoMoreSectors, Searching
<1> QED BY <1>1, <1>2, Quiet DEF NoMoreSectors

(* The call with other places in it.                                       *)
LEMMA SearchGoesOn ==
  ASSUME call \in SearchCalls, NEW s \in Sectors, NEW r \in 0..NumSectors
  PROVE  /\ [call EXCEPT !.sec = s] \in SearchCalls
         /\ [call EXCEPT !.sec = s].stair = call.stair
         /\ [call EXCEPT !.stair = r] \in SearchCalls
         /\ [call EXCEPT !.stair = r].stair = r
         /\ [call EXCEPT !.sec = s, !.stair = r] \in SearchCalls
         /\ [call EXCEPT !.sec = s, !.stair = r].stair = r
         /\ [call EXCEPT !.sec = s, !.stair = r].type = call.type
<1>1. s \in 0..NumSectors
  BY MoversAssumption DEF Sectors
<1> QED BY <1>1 DEF SearchCalls

LEMMA SearchIsCall ==
  ASSUME NEW c \in SearchCalls
  PROVE  c \in Calls /\ c.op = "start"
BY DEF SearchCalls, Calls

LEMMA AlreadyMovingKeeps == ASSUME MoversInv, AlreadyMoving PROVE MoversInv'
<1>1. call.op = "start" /\ call.stair = 0
  BY DEF AlreadyMoving, Searching
<1>2. call \in SearchCalls
  BY <1>1, CallTypes DEF MoversInv
<1>3. PICK s \in Sectors : call' = [call EXCEPT !.sec = s]
  BY DEF AlreadyMoving
<1>4. 0 \in 0..NumSectors
  BY MoversAssumption
<1>5. call' \in SearchCalls /\ call'.stair = 0
  BY <1>1, <1>2, <1>3, <1>4, SearchGoesOn
<1>6. call' \in Calls /\ call'.op = "start"
  BY <1>5, SearchIsCall
<1> QED BY <1>1, <1>5, <1>6, Quiet DEF AlreadyMoving

LEMMA StartMoverKeeps == ASSUME MoversInv, StartMover PROVE MoversInv'
<1>1. call.op = "start" /\ call.stair = 0 /\ call.type # "donut"
  BY DEF StartMover, Searching
<1>2. call \in SearchCalls
  BY <1>1, CallTypes DEF MoversInv
<1>3. PICK s \in Sectors :
        /\ specialdata[s] = NULL
        /\ StartIn(s, [call EXCEPT !.sec = s, !.stair = IF call.type = "stairs" THEN s ELSE 0])
  BY DEF StartMover
<1> DEFINE r == IF call.type = "stairs" THEN s ELSE 0
           next == [call EXCEPT !.sec = s, !.stair = r]
<1>4. r \in 0..NumSectors
  BY MoversAssumption DEF Sectors
<1> HIDE DEF r
<1>5. next \in SearchCalls /\ next.type = call.type
  BY <1>2, <1>4, SearchGoesOn
<1>6. StartOne(NewMovers(call.kind, call.type, FirstDirs(call.kind, call.type), s), next)
  BY <1>3 DEF StartIn, r
<1> HIDE DEF next
<1>7. /\ call.kind \in {"plat", "ceiling", "door", "floor"}
      /\ call.type \in AllPlats \cup AllCeilings \cup AllDoors \cup AllOthers \cup {"raiseIn5Mins"}
  BY <1>2 DEF SearchCalls
<1>8. next \in Calls /\ next.op = "start"
  BY <1>5, SearchIsCall
<1>9. UNCHANGED <<current, saved, ran>> /\ spent' \subseteq Lines
  BY DEF StartMover, MoversInv
<1> QED BY <1>1, <1>3, <1>5, <1>6, <1>7, <1>8, <1>9, FirstDirsOK, Starting

LEMMA BuildStepKeeps == ASSUME MoversInv, BuildStep PROVE MoversInv'
<1>1. call.op = "start" /\ call.type = "stairs" /\ call.stair # 0
  BY DEF BuildStep
<1>2. call \in SearchCalls
  BY <1>1, CallTypes DEF MoversInv
<1>3. call.stair \in Sectors
  BY <1>1, <1>2, MoversAssumption DEF SearchCalls, Sectors
<1> DEFINE steps == NextStairs[call.stair]
<1>4. steps \in Seq(Sectors)
  BY <1>3, MoversAssumption
<1>5. UNCHANGED <<spent, current, saved, ran>>
  BY DEF BuildStep
<1>6. CASE /\ call' = [call EXCEPT !.stair = 0]
           /\ UNCHANGED <<thinkers, mover, specialdata, lists, leftout>>
  <2>1. 0 \in 0..NumSectors
    BY MoversAssumption
  <2>2. call' \in SearchCalls /\ call'.stair = 0
    BY <1>2, <1>3, <1>6, <2>1, SearchGoesOn
  <2>3. call' \in Calls /\ call'.op = "start"
    BY <2>2, SearchIsCall
  <2> QED BY <1>1, <1>5, <1>6, <2>2, <2>3, Quiet
<1>7. ASSUME NEW i \in DOMAIN steps, specialdata[steps[i]] = NULL,
             StartIn(steps[i], [call EXCEPT !.sec = steps[i], !.stair = steps[i]])
      PROVE  MoversInv'
  <2> DEFINE next == [call EXCEPT !.sec = steps[i], !.stair = steps[i]]
  <2>1. steps[i] \in Sectors /\ steps[i] \in 0..NumSectors
    BY <1>4, MoversAssumption DEF Sectors
  <2>2. next \in SearchCalls /\ next.type = call.type
    BY <1>2, <2>1, SearchGoesOn
  <2>3. StartOne(NewMovers(call.kind, call.type, FirstDirs(call.kind, call.type), steps[i]), next)
    BY <1>7 DEF StartIn
  <2> HIDE DEF next, steps
  <2>4. /\ call.kind \in {"plat", "ceiling", "door", "floor"}
        /\ call.type \in AllPlats \cup AllCeilings \cup AllDoors \cup AllOthers \cup {"raiseIn5Mins"}
    BY <1>2 DEF SearchCalls
  <2>5. next \in Calls /\ next.op = "start" /\ next.type # "donut"
    BY <1>1, <2>2, SearchIsCall
  <2>6. UNCHANGED <<current, saved, ran>> /\ spent' \subseteq Lines
    BY <1>5 DEF MoversInv
  <2> QED BY <1>1, <1>7, <2>1, <2>3, <2>4, <2>5, <2>6, FirstDirsOK, Starting
<1> QED BY <1>6, <1>7 DEF BuildStep

LEMMA DonutSlimeKeeps == ASSUME MoversInv, DonutSlime PROVE MoversInv'
<1>1. call.op = "start" /\ call.stair = 0 /\ call.type = "donut"
  BY DEF DonutSlime, Searching
<1>2. call \in SearchCalls
  BY <1>1, CallTypes DEF MoversInv
<1>3. UNCHANGED <<spent, current, saved, ran>>
  BY DEF DonutSlime
<1>4. PICK s \in Sectors :
        /\ specialdata[s] = NULL
        /\ IF DonutRing[s] # NULL /\ s \notin OnlyAround
           THEN StartIn(DonutRing[s], [call EXCEPT !.sec = s, !.stair = s])
           ELSE /\ call' = IF DonutRing[s] = NULL THEN NoCall ELSE [call EXCEPT !.sec = s]
                /\ UNCHANGED <<thinkers, mover, specialdata, lists, leftout>>
  BY DEF DonutSlime
<1>5. CASE /\ call' \in {NoCall, [call EXCEPT !.sec = s]}
           /\ UNCHANGED <<thinkers, mover, specialdata, lists, leftout>>
  <2>1. NoCall.op = "none" /\ NoCall \in Calls
    BY DEF NoCall, Calls
  <2>2. s \in 0..NumSectors
    BY MoversAssumption DEF Sectors
  <2> DEFINE next == [call EXCEPT !.sec = s]
  <2>3. next \in SearchCalls /\ next.stair = 0
    BY <1>1, <1>2, <2>2, SearchGoesOn
  <2> HIDE DEF next
  <2>4. next \in Calls /\ next.op = "start"
    BY <2>3, SearchIsCall
  <2>5. CASE call' = NoCall
    BY <1>1, <1>3, <1>5, <2>1, <2>5, Quiet
  <2>6. CASE call' = next
    BY <1>1, <1>3, <1>5, <2>3, <2>4, <2>6, Quiet
  <2> QED BY <1>5, <2>5, <2>6 DEF next
<1>6. CASE /\ DonutRing[s] # NULL /\ s \notin OnlyAround
           /\ StartIn(DonutRing[s], [call EXCEPT !.sec = s, !.stair = s])
  <2> DEFINE next == [call EXCEPT !.sec = s, !.stair = s]
             ring == DonutRing[s]
  <2>1. ring \in Sectors /\ ring \in Doubled
    BY <1>6, MoversAssumption DEF Doubled
  <2>2. s \in 0..NumSectors
    BY MoversAssumption DEF Sectors
  <2>3. next \in SearchCalls /\ next.stair = s
    BY <1>2, <2>2, SearchGoesOn
  <2>4. StartOne(NewMovers(call.kind, call.type, FirstDirs(call.kind, call.type), ring), next)
    BY <1>6 DEF StartIn
  <2> HIDE DEF next, ring
  <2>5. /\ call.kind \in {"plat", "ceiling", "door", "floor"}
        /\ call.type \in AllPlats \cup AllCeilings \cup AllDoors \cup AllOthers \cup {"raiseIn5Mins"}
    BY <1>2 DEF SearchCalls
  <2>6. next \in Calls /\ next.op = "start"
    BY <2>3, SearchIsCall
  <2>7. next.stair \in Doubled \/ (specialdata[next.stair] = NULL /\ next.stair # ring)
    BY <1>4, <2>1, <2>3
  <2>8. UNCHANGED <<current, saved, ran>> /\ spent' \subseteq Lines
    BY <1>3 DEF MoversInv
  <2> QED BY <1>1, <2>1, <2>4, <2>5, <2>6, <2>7, <2>8, FirstDirsOK, Starting
<1> QED BY <1>4, <1>5, <1>6

LEMMA DonutHoleKeeps == ASSUME MoversInv, DonutHole PROVE MoversInv'
<1>1. call.op = "start" /\ call.stair # 0 /\ call.type = "donut"
  BY DEF DonutHole
<1>2. call \in SearchCalls
  BY <1>1, CallTypes DEF MoversInv
<1>3. call.stair \in Sectors
  BY <1>1, <1>2, MoversAssumption DEF SearchCalls, Sectors
<1>4. specialdata[call.stair] = NULL \/ call.stair \in Doubled
  BY <1>1 DEF MoversInv, PillarFree
<1> DEFINE next == [call EXCEPT !.stair = 0]
<1>5. 0 \in 0..NumSectors
  BY MoversAssumption
<1>6. next \in SearchCalls /\ next.stair = 0
  BY <1>2, <1>3, <1>5, SearchGoesOn
<1>7. StartOne(NewMovers(call.kind, call.type, FirstDirs(call.kind, call.type), call.stair), next)
  BY DEF DonutHole, StartIn
<1> HIDE DEF next
<1>8. /\ call.kind \in {"plat", "ceiling", "door", "floor"}
      /\ call.type \in AllPlats \cup AllCeilings \cup AllDoors \cup AllOthers \cup {"raiseIn5Mins"}
  BY <1>2 DEF SearchCalls
<1>9. next \in Calls /\ next.op = "start"
  BY <1>6, SearchIsCall
<1>10. UNCHANGED <<current, saved, ran>> /\ spent' \subseteq Lines
  BY DEF DonutHole, MoversInv
<1> QED BY <1>1, <1>3, <1>4, <1>6, <1>7, <1>8, <1>9, <1>10, FirstDirsOK, Starting
-----------------------------------------------------------------------------
(* Doors behind a line, and those of the level.                            *)
LEMMA UseRaiseDoorKeeps ==
  ASSUME MoversInv, NEW s \in RaiseDoors, NEW isplayer, UseRaiseDoor(s, isplayer)
  PROVE  MoversInv'
<1>1. call.op = "none" /\ UNCHANGED <<spent, current, saved, ran>>
  BY DEF UseRaiseDoor, LinesMove, Idle
<1>2. s \in Sectors /\ call \in Calls /\ spent' \subseteq Lines
  BY <1>1, MoversAssumption DEF MoversInv
<1>3. CASE specialdata[s] = NULL
  <2>1. StartOne(NewMovers("door", "normal", {"up"}, s), call)
    BY <1>3 DEF UseRaiseDoor
  <2>2. "normal" \in AllDoors
    BY DEF AllDoors
  <2> QED BY <1>1, <1>2, <1>3, <2>1, <2>2, Starting
<1>4. CASE specialdata[s] # NULL
  <2> DEFINE b == specialdata[s]
  <2>1. Sound /\ AllFound
    BY <1>1, NoError
  <2>2. b \in Blocks /\ Live(b)
    BY <1>2, <1>4, <2>1 DEF Sound, DataOK, NothingDangles
  <2>3. /\ \/ mover' = [mover EXCEPT ![b].dir = "up"]
           \/ mover' = [mover EXCEPT ![b].dir = "down"]
           \/ mover' = mover
        /\ UNCHANGED <<thinkers, specialdata, lists, call, leftout>>
    BY <1>4 DEF UseRaiseDoor
  <2> HIDE DEF b
  <2>4. Sound' /\ AllFound'
    <3>1. ASSUME NEW dir \in {"up", "down"}, mover' = [mover EXCEPT ![b].dir = dir]
          PROVE  Sound' /\ AllFound'
      <4>1. Goes(b, dir)
        BY <2>3, <3>1 DEF Goes
      <4> QED BY <2>1, <2>2, <2>3, <4>1, GoesKeeps
    <3>2. CASE mover' = mover
      BY <1>1, <2>3, <3>2, DataSame
    <3> QED BY <2>3, <3>1, <3>2
  <2>5. RanOK' /\ current' \in 0..(Len(thinkers') + 1)
    BY <1>1, <2>3 DEF MoversInv, RanOK, Entries
  <2>6. PlatsFound' /\ PillarFree' /\ SpawningInv'
    BY <1>1, <2>3 DEF PlatsFound, PillarFree, SpawningInv
  <2> QED BY <1>1, <1>2, <2>3, <2>4, <2>5, <2>6, Rest
<1> QED BY <1>3, <1>4

LEMMA UseOpenDoorKeeps ==
  ASSUME MoversInv, NEW line \in Lines, UseOpenDoor(line)
  PROVE  MoversInv'
<1>1. /\ call.op = "none" /\ UNCHANGED <<current, saved, ran>> /\ spent' = spent \cup {line}
      /\ StartOne(NewMovers("door", "open", {"up"}, OpenLines[line]), call)
  BY DEF UseOpenDoor, LinesMove, Idle
<1>2. OpenLines[line] \in Sectors /\ OpenLines[line] \in Doubled
  BY MoversAssumption DEF Doubled
<1>3. call \in Calls /\ spent' \subseteq Lines /\ "open" \in AllDoors
  BY <1>1 DEF MoversInv, AllDoors
<1> QED BY <1>1, <1>2, <1>3, Starting

LEMMA SpawnKeeps == ASSUME MoversInv, P_SpawnSpecials PROVE MoversInv'
<1>1. call.op = "spawn" /\ UNCHANGED <<spent, current, saved, ran>>
  BY DEF P_SpawnSpecials
<1>2. call \in [op : {"spawn"}, sec : Nat \ {0}]
  BY <1>1, CallTypes DEF MoversInv
<1> DEFINE next == [call EXCEPT !.sec = call.sec + 1]
<1>3. next \in Calls /\ next.op = "spawn" /\ next.sec = call.sec + 1 /\ call.sec \in Nat
  <2>1. next \in [op : {"spawn"}, sec : Nat \ {0}] /\ next.op = "spawn"
    BY <1>2
  <2>2. next.sec = call.sec + 1 /\ call.sec \in Nat
    BY <1>2
  <2> QED BY <2>1, <2>2 DEF Calls
<1> HIDE DEF next
<1>3a. \A r \in Sectors : r >= next.sec => specialdata[r] = NULL
  BY <1>1, <1>3 DEF MoversInv, SpawningInv, Sectors
<1>4. CASE call' = NoCall /\ UNCHANGED <<thinkers, mover, specialdata, lists, leftout>>
  <2>1. NoCall.op = "none" /\ NoCall \in Calls
    BY DEF NoCall, Calls
  <2> QED BY <1>1, <1>4, <2>1, Quiet
<1>5. CASE call' = next /\ UNCHANGED <<thinkers, mover, specialdata, lists, leftout>>
  BY <1>1, <1>3, <1>3a, <1>5, Quiet
<1> DEFINE s == call.sec
           type == Timed[s]
<1>6. CASE /\ s <= NumSectors /\ type # NULL
           /\ StartOne(NewMovers("door", type, {IF type = "normal" THEN "waiting"
                                                ELSE "initial"}, s), next)
  <2>1. s \in Sectors
    BY <1>2, <1>6, MoversAssumption DEF Sectors
  <2>2. type \in AllDoors \cup {"raiseIn5Mins"}
    BY <1>6, <2>1, MoversAssumption DEF AllDoors
  <2>3. specialdata[s] = NULL
    BY <1>1, <1>3, <2>1 DEF MoversInv, SpawningInv
  <2> DEFINE dirs == {IF type = "normal" THEN "waiting" ELSE "initial"}
  <2>4. dirs \in SUBSET {"up", "down", "waiting", "initial", "moving"}
    OBVIOUS
  <2>5. StartOne(NewMovers("door", type, dirs, s), next)
    BY <1>6
  <2>6. spent' \subseteq Lines /\ UNCHANGED <<current, saved, ran>> /\ s < next.sec
        /\ next.sec \in Nat
    BY <1>1, <1>3 DEF MoversInv
  <2>7. type \in AllPlats \cup AllCeilings \cup AllDoors \cup AllOthers \cup {"raiseIn5Mins"}
    BY <2>2
  <2> HIDE DEF dirs, type, s
  <2> QED BY <1>1, <1>3, <1>3a, <2>1, <2>3, <2>4, <2>5, <2>6, <2>7, Starting
<1>7. s \in Nat /\ NumSectors \in Nat
  BY <1>3, MoversAssumption
<1>8. CASE s > NumSectors
  BY <1>4, <1>8 DEF P_SpawnSpecials
<1>9. CASE s <= NumSectors
  BY <1>5, <1>6, <1>7, <1>9 DEF P_SpawnSpecials, next
<1> QED BY <1>7, <1>8, <1>9
-----------------------------------------------------------------------------
(* Saving.  What is archived is what lasts, but for plats that stand.      *)
LEMMA ArchivedFacts ==
  ASSUME Sound, AllFound
  PROVE  /\ \A b \in Archived : /\ b \in Blocks /\ Live(b)
                                /\ mover[b].fn = "null" => mover[b].kind = "ceiling"
         /\ leftout = {} =>
              \A b \in Blocks : b \in Archived <=>
                Live(b) /\ ~(mover[b].kind = "plat" /\ mover[b].fn = "null")
<1>1. \A b \in Archived : /\ b \in Blocks /\ Live(b)
                          /\ mover[b].fn = "null" => mover[b].kind = "ceiling"
  BY ListedLive DEF Archived, Live
<1>2. ASSUME leftout = {}, NEW b \in Blocks, Live(b),
             ~(mover[b].kind = "plat" /\ mover[b].fn = "null")
      PROVE  b \in Archived
  <2>1. mover[b] \in Movers /\ mover[b] # NULL /\ mover[b].fn # "removed"
    BY <1>2 DEF Live, Sound, DataOK
  <2>2. mover[b].fn \in {"think", "null"}
    BY <2>1 DEF Movers
  <2>3. ASSUME mover[b].fn = "null" PROVE Listed(activeceilings, b)
    BY <1>2, <2>1, <2>3 DEF Sound, Stoppable, AllFound
  <2> QED BY <2>1, <2>2, <2>3 DEF Archived
<1>3. ASSUME NEW b \in Archived, mover[b].kind = "plat", mover[b].fn = "null" PROVE FALSE
  BY <1>1, <1>3
<1> QED BY <1>1, <1>2, <1>3

LEMMA ContentsSeq ==
  ASSUME NEW list \in Seq(Blocks), NEW content, \A i \in DOMAIN list : content[list[i]] \in Movers
  PROVE  /\ Contents(list, content) \in Seq(Movers)
         /\ Len(Contents(list, content)) = Len(list)
         /\ DOMAIN Contents(list, content) = DOMAIN list
         /\ \A i \in DOMAIN list : Contents(list, content)[i] = content[list[i]]
<1>1. PICK n \in Nat : n = Len(list) /\ DOMAIN list = 1..n
  OBVIOUS
<1> DEFINE new == [i \in 1..n |-> content[list[i]]]
<1>2. Contents(list, content) = new
  BY <1>1 DEF Contents
<1>3. new \in [1..n -> Movers] /\ DOMAIN new = 1..n
  BY <1>1
<1>4. new \in Seq(Movers) /\ Len(new) = n
  BY <1>3, SeqDef, LenProperties
<1> QED BY <1>1, <1>2, <1>3, <1>4

LEMMA SaveKeeps == ASSUME MoversInv, G_DoSaveGame PROVE MoversInv'
<1> DEFINE level == [thinkers |-> thinkers, mover |-> mover,
                     specialdata |-> specialdata, leftout |-> leftout]
           kept == Only(thinkers, Archived)
           game == [movers |-> Contents(kept, mover), spent |-> spent, level |-> level]
<1>1. /\ call.op = "none" /\ saved' = game
      /\ UNCHANGED <<thinkers, mover, specialdata, lists, leftout>>
      /\ UNCHANGED <<spent, current, call, ran>>
  BY DEF G_DoSaveGame, Idle
<1>2. Sound /\ AllFound /\ thinkers \in Seq(Blocks) /\ NoDuplicates(thinkers)
  BY <1>1, NoError DEF Sound, DataOK, NothingDangles
<1>3. Sound' /\ AllFound'
  BY <1>1, DataSame
<1>4. /\ level.thinkers = thinkers /\ level.mover = mover
      /\ level.specialdata = specialdata /\ level.leftout = leftout
      /\ level \in [thinkers : Seq(Blocks), mover : [Blocks -> Movers \cup {NULL}],
                    specialdata : [Sectors -> Blocks \cup {NULL}], leftout : SUBSET Blocks]
  BY <1>2 DEF Sound, DataOK
<1> HIDE DEF level
<1>5. kept \in Seq(Blocks) /\ NoDuplicates(kept) /\ Entries(kept) = Entries(thinkers) \cap Archived
  BY <1>2, OnlyFacts
<1> HIDE DEF kept
<1>6. \A i \in DOMAIN kept : kept[i] \in Archived /\ mover[kept[i]] \in Movers
  BY <1>2, <1>5, ArchivedFacts DEF Entries, Live, Sound, DataOK
<1>7. /\ Contents(kept, mover) \in Seq(Movers)
      /\ DOMAIN Contents(kept, mover) = DOMAIN kept
      /\ \A i \in DOMAIN kept : Contents(kept, mover)[i] = mover[kept[i]]
  BY <1>5, <1>6, ContentsSeq
<1>8. /\ game.movers = Contents(kept, mover) /\ game.spent = spent /\ game.level = level
      /\ game \in SavedGames
  BY <1>4, <1>7 DEF SavedGames, MoversInv
<1> HIDE DEF game
<1>9. Sane(level)
  <2>1. /\ NoDuplicates(level.thinkers)
        /\ Entries(level.thinkers) = {b \in Blocks : level.mover[b] # NULL}
        /\ Newest(level.thinkers, level.mover, level.specialdata)
    BY <1>2, <1>4 DEF Sound, NothingDangles, Free
  <2>2. ASSUME NEW s \in Sectors, specialdata[s] # NULL
        PROVE  specialdata[s] \in Lasting(level) /\ mover[specialdata[s]].sector = s
    BY <1>2, <1>4, <2>2 DEF Sound, DataOK, NothingDangles, Live, Lasting
  <2> QED BY <1>4, <2>1, <2>2 DEF Sane
<1>10. MoversOnce(game.movers)
  <2>1. ASSUME NEW i \in DOMAIN kept
        PROVE  /\ kept[i] \in Blocks /\ Live(kept[i])
               /\ mover[kept[i]].fn = "null" => mover[kept[i]].kind = "ceiling"
    BY <1>2, <1>6, ArchivedFacts
  <2>2. ASSUME NEW i \in DOMAIN kept, NEW j \in DOMAIN kept, i # j,
               mover[kept[i]].sector = mover[kept[j]].sector
        PROVE  mover[kept[i]].sector \in Doubled
    <3>1. kept[i] # kept[j]
      BY <1>5, <2>2 DEF NoDuplicates
    <3> QED BY <1>2, <2>1, <2>2, <3>1 DEF Sound, OneMoverEach
  <2> QED BY <1>7, <1>8, <2>1, <2>2 DEF MoversOnce, Live
<1>11. ASSUME leftout = {} PROVE game.movers = Contents(Kept(level), level.mover)
  <2>1. Archived = Lasting(level) \ StoppedPlats(level)
    <3>1. \A b \in Blocks : b \in Archived <=> b \in Lasting(level) \ StoppedPlats(level)
      BY <1>2, <1>4, <1>11, ArchivedFacts DEF Lasting, StoppedPlats, Live
    <3>2. Archived \subseteq Blocks /\ Lasting(level) \subseteq Blocks
      BY DEF Archived, Lasting
    <3> QED BY <3>1, <3>2
  <2> QED BY <1>4, <1>8, <2>1 DEF Kept, kept
<1>12. SavedInv'
  <2>1. SavedInv' <=> (saved' # NULL =>
          /\ saved' \in SavedGames /\ Sane(saved'.level) /\ MoversOnce(saved'.movers)
          /\ saved'.level.leftout = {} =>
               saved'.movers = Contents(Kept(saved'.level), saved'.level.mover))
    BY DEF SavedInv, Sane, MoversOnce, Kept, SavedGames, Contents, Newest, Lasting, StoppedPlats,
           Doubled
  <2> QED BY <1>1, <1>4, <1>8, <1>9, <1>10, <1>11, <2>1
<1>13. RanOK' /\ current' \in 0..(Len(thinkers') + 1) /\ spent' \subseteq Lines /\ call' \in Calls
  BY <1>1 DEF MoversInv, RanOK, Entries
<1>14. PlatsFound' /\ PillarFree' /\ SpawningInv' /\ LoadingInv' /\ AllListed'
  BY <1>1, <1>3 DEF PlatsFound, PillarFree, SpawningInv, LoadingInv, AllListed, AllFound
<1> QED BY <1>3, <1>12, <1>13, <1>14 DEF MoversInv
-----------------------------------------------------------------------------
(* Loading.                                                                *)
LEMMA EmptyLevel ==
  ASSUME thinkers' = <<>>, mover' = [b \in Blocks |-> NULL],
         specialdata' = [s \in Sectors |-> NULL],
         activeplats' = EmptyPlats, activeceilings' = EmptyCeilings, leftout' = {}
  PROVE  Sound' /\ AllFound' /\ Entries(thinkers)' = {}
<1>1. thinkers' \in Seq(Blocks) /\ DOMAIN thinkers' = {} /\ Entries(thinkers)' = {}
  BY DEF Entries
<1>2. \A b \in Blocks : Free(b)' /\ ~Live(b)'
  BY DEF Free, Live
<1>3. DataOK'
  BY <1>1 DEF DataOK, EmptyPlats, EmptyCeilings
<1>4. /\ \A s \in Sectors : specialdata'[s] = NULL
      /\ \A i \in DOMAIN activeplats' : activeplats'[i] = NULL
      /\ \A i \in DOMAIN activeceilings' : activeceilings'[i] = NULL
  BY DEF EmptyPlats, EmptyCeilings
<1>5. NothingDangles'
  BY <1>1, <1>2, <1>4 DEF NothingDangles, NoDuplicates
<1>6. TableOnce(activeplats)' /\ TableOnce(activeceilings)'
  BY <1>4 DEF TableOnce
<1>7. Stoppable' /\ OneMoverEach' /\ AllFound'
  BY <1>2 DEF Stoppable, OneMoverEach, AllFound, Free
<1>8. Newest(thinkers, mover, specialdata)'
  BY <1>1 DEF Newest
<1> QED BY <1>1, <1>3, <1>5, <1>6, <1>7, <1>8 DEF Sound

LEMMA LoadKeeps == ASSUME MoversInv, G_DoLoadGame PROVE MoversInv'
<1>1. /\ current = 0 /\ saved # NULL /\ spent' = saved.spent
      /\ UNCHANGED <<current, saved, ran>>
      /\ call' = [op |-> "load", next |-> 1]
  BY DEF G_DoLoadGame
<1>2. Sound' /\ AllFound' /\ Entries(thinkers)' = {} /\ thinkers' = <<>>
  BY EmptyLevel DEF G_DoLoadGame
<1>3. [op |-> "load", next |-> 1] \in Calls /\ [op |-> "load", next |-> 1].op = "load"
      /\ [op |-> "load", next |-> 1].next = 1
  BY DEF Calls
<1>4. call' \in Calls /\ call'.op = "load" /\ call'.next = 1
  BY <1>1, <1>3
<1>5. saved \in SavedGames
  BY <1>1 DEF MoversInv, SavedInv
<1>6. spent' \subseteq Lines /\ Len(saved.movers) \in Nat
  BY <1>1, <1>5 DEF SavedGames
<1>7. ran = {}
  BY <1>1 DEF MoversInv, RanOK, Sound, DataOK, Entries
<1>8. Len(thinkers') = 0 /\ DOMAIN thinkers' = {}
  BY <1>2
<1>9. RanOK' /\ current' \in 0..(Len(thinkers') + 1)
  BY <1>1, <1>7, <1>8 DEF RanOK
<1>10. SavedInv'
  BY <1>1 DEF MoversInv, SavedInv
<1>11. LoadingInv'
  BY <1>1, <1>4, <1>6, <1>8 DEF LoadingInv
<1>12. PlatsFound' /\ PillarFree' /\ SpawningInv' /\ AllListed'
  BY <1>2, <1>4 DEF PlatsFound, PillarFree, SpawningInv, AllListed, AllFound
<1> QED BY <1>2, <1>4, <1>6, <1>9, <1>10, <1>11, <1>12 DEF MoversInv

(* The sector of the next mover is free, unless it may hold two.           *)
LEMMA NextMoverFits ==
  ASSUME MoversInv, call.op = "load", call.next <= Len(saved.movers)
  PROVE  LET m == saved.movers[call.next]
         IN /\ m \in Movers /\ m.fn # "removed" /\ (m.fn = "null" => m.kind \in {"plat", "ceiling"})
            /\ specialdata[m.sector] = NULL \/ m.sector \in Doubled
<1> DEFINE m == saved.movers[call.next]
<1>1. /\ saved \in SavedGames /\ MoversOnce(saved.movers)
      /\ call.next = Len(thinkers) + 1 /\ Len(thinkers) <= Len(saved.movers)
      /\ \A i \in DOMAIN thinkers : mover[thinkers[i]] = saved.movers[i]
  BY DEF MoversInv, SavedInv, LoadingInv
<1>2. Sound /\ thinkers \in Seq(Blocks)
  BY DEF MoversInv, Sound, DataOK
<1>3. saved.movers \in Seq(Movers)
  BY <1>1 DEF SavedGames
<1>4. call.next \in DOMAIN saved.movers /\ m \in Movers
  BY <1>1, <1>2, <1>3
<1>5. m.fn # "removed" /\ (m.fn = "null" => m.kind = "ceiling")
  BY <1>1, <1>4 DEF MoversOnce
<1>6. ASSUME specialdata[m.sector] # NULL PROVE m.sector \in Doubled
  <2>1. m.sector \in Sectors
    BY <1>4 DEF Movers
  <2>2. PICK b \in Blocks : b = specialdata[m.sector]
    BY <1>2, <1>6, <2>1 DEF Sound, DataOK
  <2>3. b \in Entries(thinkers) /\ mover[b].sector = m.sector
    BY <1>2, <1>6, <2>1, <2>2 DEF Sound, NothingDangles, Live, Free
  <2>4. PICK i \in DOMAIN thinkers : b = thinkers[i]
    BY <2>3 DEF Entries
  <2>5. i \in DOMAIN saved.movers /\ i # call.next
    BY <1>1, <1>2, <1>3
  <2>6. saved.movers[i].sector = m.sector
    BY <1>1, <2>3, <2>4
  <2> QED BY <1>1, <1>4, <2>5, <2>6 DEF MoversOnce
<1> QED BY <1>4, <1>5, <1>6

LEMMA UnArchiveKeeps == ASSUME MoversInv, P_UnArchiveSpecials PROVE MoversInv'
<1>1. call.op = "load" /\ UNCHANGED <<spent, current, saved, ran>>
  BY DEF P_UnArchiveSpecials
<1>2. call \in [op : {"load"}, next : Nat \ {0}]
  BY <1>1, CallTypes DEF MoversInv
<1>3. /\ saved \in SavedGames /\ call.next = Len(thinkers) + 1
      /\ Len(thinkers) <= Len(saved.movers)
      /\ \A i \in DOMAIN thinkers : /\ mover[thinkers[i]] = saved.movers[i]
                                    /\ specialdata[saved.movers[i].sector] # NULL
  BY <1>1 DEF MoversInv, SavedInv, LoadingInv
<1>4. CASE call' = NoCall /\ UNCHANGED <<thinkers, mover, specialdata, lists, leftout>>
  <2>1. NoCall.op = "none" /\ NoCall \in Calls
    BY DEF NoCall, Calls
  <2> QED BY <1>1, <1>4, <2>1, Quiet
<1> DEFINE m == saved.movers[call.next]
           next == [call EXCEPT !.next = call.next + 1]
<1>5. CASE call.next <= Len(saved.movers) /\ StartOne({m}, next)
  <2>1. /\ m \in Movers /\ m.fn # "removed" /\ (m.fn = "null" => m.kind \in {"plat", "ceiling"})
        /\ specialdata[m.sector] = NULL \/ m.sector \in Doubled
    BY <1>1, <1>5, NextMoverFits
  <2>2. /\ next \in [op : {"load"}, next : Nat \ {0}] /\ next.op = "load"
        /\ next.next = call.next + 1
    BY <1>2
  <2>3. next \in Calls
    BY <2>2 DEF Calls
  <2>4. m = saved.movers[call.next]
    OBVIOUS
  <2> HIDE DEF next, m
  <2>5. /\ Sound /\ AllFound /\ RanOK /\ current \in 0..(Len(thinkers) + 1)
        /\ UNCHANGED <<current, ran>>
    BY <1>1, NoError
  <2> DEFINE M == {m}
  <2>6. \A x \in M : x = m
    OBVIOUS
  <2>6a. \A x \in M : /\ x.fn # "removed" /\ (x.fn = "null" => x.kind \in {"plat", "ceiling"})
                      /\ specialdata[x.sector] = NULL \/ x.sector \in Doubled
    BY <2>1
  <2>6b. M \subseteq Movers /\ next.op # "I_Error"
    BY <2>1, <2>2
  <2>7. StartOne(M, next)
    BY <1>5
  <2> HIDE DEF M
  <2>8. /\ Sound' /\ (call'.op # "I_Error" => AllFound') /\ RanOK'
        /\ current' \in 0..(Len(thinkers') + 1)
        /\ call' \in Calls /\ (call'.op # "I_Error" => call' = next) /\ PlatsFound'
    BY <2>3, <2>5, <2>6a, <2>6b, <2>7, StartKeeps
  <2>9. call'.op # "I_Error" =>
          \E b \in Blocks, x \in M : /\ thinkers' = Append(thinkers, b) /\ Free(b)
                                     /\ mover' = [mover EXCEPT ![b] = x]
                                     /\ specialdata' = [specialdata EXCEPT ![x.sector] = b]
    BY <2>3, <2>5, <2>6a, <2>6b, <2>7, StartKeeps
  <2>10. LoadingInv'
    <3> SUFFICES ASSUME call'.op = "load" PROVE LoadingInv'
      BY DEF LoadingInv
    <3>1. PICK b \in Blocks : /\ thinkers' = Append(thinkers, b) /\ Free(b)
                              /\ mover' = [mover EXCEPT ![b] = m]
                              /\ specialdata' = [specialdata EXCEPT ![m.sector] = b]
      BY <2>6, <2>9
    <3>2. call' = next /\ call'.next = call.next + 1
      BY <2>2, <2>8
    <3>3. /\ thinkers \in Seq(Blocks) /\ mover \in [Blocks -> Movers \cup {NULL}]
          /\ specialdata \in [Sectors -> Blocks \cup {NULL}] /\ m.sector \in Sectors
          /\ \A i \in DOMAIN thinkers : thinkers[i] # b
      BY <2>1, <2>5, <3>1 DEF Sound, DataOK, Movers, NothingDangles, Entries
    <3>4. PICK l \in Nat : l = Len(thinkers) /\ DOMAIN thinkers = 1..l
      BY <3>3
    <3>5. /\ DOMAIN thinkers' = 1..(l + 1) /\ Len(thinkers') = l + 1
          /\ thinkers'[l + 1] = b /\ \A i \in 1..l : thinkers'[i] = thinkers[i]
      BY <3>1, <3>3, <3>4
    <3>6. saved' = saved /\ saved # NULL /\ b # NULL
      BY <1>1, MoversAssumption DEF MoversInv, LoadingInv
    <3>7. Len(thinkers') <= Len(saved.movers) /\ call'.next = Len(thinkers') + 1
      BY <1>3, <1>5, <3>2, <3>4, <3>5
    <3>8. ASSUME NEW i \in 1..(l + 1)
          PROVE  /\ mover'[thinkers'[i]] = saved.movers[i]
                 /\ specialdata'[saved.movers[i].sector] # NULL
      <4>1. CASE i = l + 1
        BY <1>3, <2>4, <3>1, <3>3, <3>4, <3>5, <3>6, <4>1
      <4>2. CASE i \in 1..l
        <5>1. thinkers'[i] = thinkers[i] /\ thinkers[i] \in Blocks /\ thinkers[i] # b
          BY <3>3, <3>4, <3>5, <4>2
        <5>2. mover'[thinkers'[i]] = saved.movers[i]
          BY <1>3, <3>1, <3>4, <4>2, <5>1
        <5>3. specialdata[saved.movers[i].sector] # NULL
          BY <1>3, <3>4, <4>2
        <5>4. saved.movers[i] \in Movers \cup {NULL} /\ saved.movers[i] = mover[thinkers[i]]
          BY <1>3, <3>3, <3>4, <4>2, <5>1
        <5>5. mover[thinkers[i]] # NULL
          BY <2>5, <3>4, <4>2, <5>1 DEF Sound, NothingDangles, Entries, Free
        <5>6. saved.movers[i].sector \in Sectors
          BY <5>4, <5>5 DEF Movers
        <5> QED BY <3>1, <3>3, <3>6, <5>2, <5>3, <5>6
      <4> QED BY <3>4, <4>1, <4>2
    <3> QED BY <3>5, <3>6, <3>7, <3>8 DEF LoadingInv
  <2>11. SavedInv'
    BY <1>1 DEF MoversInv, SavedInv
  <2>12. spent' \subseteq Lines
    BY <1>1 DEF MoversInv
  <2>13. PillarFree' /\ SpawningInv' /\ AllListed'
    BY <2>2, <2>8 DEF PillarFree, SpawningInv, AllListed, AllFound
  <2> QED BY <2>8, <2>10, <2>11, <2>12, <2>13 DEF MoversInv
<1>6. call.next \in Int /\ Len(saved.movers) \in Int
  BY <1>2, <1>3 DEF SavedGames
<1> QED BY <1>4, <1>5, <1>6 DEF P_UnArchiveSpecials
-----------------------------------------------------------------------------
LEMMA MoversInitOK == ASSUME MoversInit PROVE MoversInv
<1>1. Sound /\ AllFound /\ Entries(thinkers) = {} /\ Len(thinkers) = 0 /\ DOMAIN thinkers = {}
  <2>1. thinkers \in Seq(Blocks) /\ DOMAIN thinkers = {} /\ Len(thinkers) = 0
    BY DEF MoversInit
  <2>2. Entries(thinkers) = {}
    BY <2>1 DEF Entries
  <2>3. \A b \in Blocks : Free(b) /\ ~Live(b)
    BY DEF MoversInit, Free, Live
  <2>4. DataOK
    BY <2>1 DEF MoversInit, DataOK, EmptyPlats, EmptyCeilings
  <2>5. /\ \A s \in Sectors : specialdata[s] = NULL
        /\ \A i \in DOMAIN activeplats : activeplats[i] = NULL
        /\ \A i \in DOMAIN activeceilings : activeceilings[i] = NULL
    BY DEF MoversInit, EmptyPlats, EmptyCeilings
  <2>6. NothingDangles
    BY <2>1, <2>2, <2>3, <2>5 DEF NothingDangles, NoDuplicates
  <2>7. TableOnce(activeplats) /\ TableOnce(activeceilings)
    BY <2>5 DEF TableOnce
  <2>8. Stoppable /\ OneMoverEach /\ AllFound
    BY <2>3 DEF Stoppable, OneMoverEach, AllFound, Free
  <2>9. Newest(thinkers, mover, specialdata)
    BY <2>1 DEF Newest
  <2> QED BY <2>1, <2>2, <2>4, <2>6, <2>7, <2>8, <2>9 DEF Sound
<1>2. call = [op |-> "spawn", sec |-> 1]
  BY DEF MoversInit
<1>3. /\ [op |-> "spawn", sec |-> 1].op = "spawn"
      /\ [op |-> "spawn", sec |-> 1] \in [op : {"spawn"}, sec : Nat \ {0}]
  OBVIOUS
<1>4. call \in Calls /\ call.op = "spawn"
  BY <1>2, <1>3 DEF Calls
<1>5. AllListed
  BY <1>1 DEF AllListed, AllFound
<1>6. PlatsFound /\ PillarFree /\ LoadingInv
  BY <1>4 DEF PlatsFound, PillarFree, LoadingInv
<1>7. SpawningInv /\ SavedInv /\ spent \subseteq Lines
  BY DEF MoversInit, SpawningInv, SavedInv
<1>8. RanOK /\ current \in 0..(Len(thinkers) + 1)
  BY <1>1 DEF MoversInit, RanOK
<1> QED BY <1>1, <1>4, <1>5, <1>6, <1>7, <1>8 DEF MoversInv

LEMMA UseLineKeeps == ASSUME MoversInv, UseLine PROVE MoversInv'
<1>1. ASSUME NEW tag \in MTags, NEW type \in PlatTypes, UseTagged("plat", type, tag)
      PROVE  MoversInv'
  BY <1>1, UseTaggedKeeps, MoversAssumption DEF MTags
<1>2. ASSUME NEW tag \in MTags, NEW type \in CeilingTypes, UseTagged("ceiling", type, tag)
      PROVE  MoversInv'
  BY <1>2, UseTaggedKeeps, MoversAssumption DEF MTags
<1>3. ASSUME NEW tag \in MTags, NEW type \in DoorTypes, UseTagged("door", type, tag)
      PROVE  MoversInv'
  BY <1>3, UseTaggedKeeps, MoversAssumption DEF MTags
<1>4. ASSUME NEW tag \in MTags, NEW type \in Others, UseTagged("floor", type, tag)
      PROVE  MoversInv'
  BY <1>4, UseTaggedKeeps, MoversAssumption DEF MTags
<1>5. ASSUME NEW tag, Stop(activeplats, tag) \/ Stop(activeceilings, tag) PROVE MoversInv'
  BY <1>5, StopKeeps
<1>6. ASSUME NEW s \in RaiseDoors, NEW isplayer \in BOOLEAN, UseRaiseDoor(s, isplayer)
      PROVE  MoversInv'
  BY <1>6, UseRaiseDoorKeeps
<1>7. ASSUME NEW line \in Lines, UseOpenDoor(line) PROVE MoversInv'
  BY <1>7, UseOpenDoorKeeps
<1> QED BY <1>1, <1>2, <1>3, <1>4, <1>5, <1>6, <1>7 DEF UseLine

LEMMA MoversStutter == ASSUME MoversInv, UNCHANGED moverVars PROVE MoversInv'
<1>1. /\ UNCHANGED <<thinkers, mover, specialdata, lists, leftout>>
      /\ UNCHANGED <<spent, current, call, saved, ran>>
  BY DEF moverVars
<1>2. Sound'
  BY <1>1, Changed DEF MoversInv, Sound, DataOK, Stoppable
<1>3. AllListed'
  BY <1>1 DEF MoversInv, AllListed, Live, Listed, lists
<1>4. RanOK' /\ current' \in 0..(Len(thinkers') + 1) /\ spent' \subseteq Lines /\ call' \in Calls
  BY <1>1 DEF MoversInv, RanOK, Entries
<1>5. PlatsFound' /\ PillarFree' /\ SpawningInv' /\ SavedInv' /\ LoadingInv'
  BY <1>1 DEF MoversInv, PlatsFound, PillarFree, SpawningInv, SavedInv, LoadingInv
<1> QED BY <1>2, <1>3, <1>4, <1>5 DEF MoversInv

LEMMA MoversStep == ASSUME MoversInv, [MoversNext]_moverVars PROVE MoversInv'
BY StartTicKeeps, FreeThinkerKeeps, RunThinkerKeeps, EndTicKeeps, UseLineKeeps,
   NoMoreSectorsKeeps, AlreadyMovingKeeps, StartMoverKeeps, BuildStepKeeps, DonutSlimeKeeps,
   DonutHoleKeeps, SpawnKeeps, SaveKeeps, LoadKeeps, UnArchiveKeeps, MoversStutter
   DEF MoversNext

LEMMA MoversInvariant == MoversSpec => []MoversInv
<1>1. MoversInit => MoversInv
  BY MoversInitOK
<1>2. MoversInv /\ [MoversNext]_moverVars => MoversInv'
  BY MoversStep
<1> QED BY <1>1, <1>2, PTL DEF MoversSpec

(* Every variable keeps its type: what a block holds is a mover or         *)
(* nothing, and a call is one of those of the modelled functions.          *)
THEOREM MoversTypeCorrect == MoversSpec => []MoversTypeOK
<1>1. MoversInv => MoversTypeOK
  BY TypeFollows
<1> QED BY <1>1, MoversInvariant, PTL

(* P_RemoveThinker only marks: until P_RunThinkers frees the block, and    *)
(* after, neither specialdata nor a table points to a mover that has ended.*)
THEOREM NeverDangles == MoversSpec => []NothingDangles
<1>1. MoversInv => NothingDangles
  BY DEF MoversInv, Sound
<1> QED BY <1>1, MoversInvariant, PTL

(* Plats and ceilings can be found in their tables as long as they live,   *)
(* but for the ceilings for which P_AddActiveCeiling had no place.         *)
THEOREM AlwaysListed == MoversSpec => []AllListed
<1>1. MoversInv => AllListed
  BY DEF MoversInv
<1> QED BY <1>1, MoversInvariant, PTL

(* P_RemoveActivePlat finds the plat that T_PlatRaise ends.                *)
THEOREM PlatsAlwaysFound == MoversSpec => []PlatsFound
<1>1. MoversInv => PlatsFound
  BY DEF MoversInv
<1> QED BY <1>1, MoversInvariant, PTL

(* No line starts a second mover in a sector, whatever the order in which  *)
(* lines are used, but for the doors and donuts that do not look.          *)
THEOREM OneMoverPerSector == MoversSpec => []OneMoverEach
<1>1. MoversInv => OneMoverEach
  BY DEF MoversInv, Sound
<1> QED BY <1>1, MoversInvariant, PTL

(* P_RunThinkers neither skips a mover nor runs one twice in a tic.        *)
THEOREM OneTurnPerTic == MoversSpec => []EachOncePerTic
<1>1. MoversInv => EachOncePerTic
  BY DEF MoversInv, RanOK, EachOncePerTic
<1> QED BY <1>1, MoversInvariant, PTL

(* P_UnArchiveSpecials ends with what P_ArchiveSpecials saw: the k-th      *)
(* mover of the list is the k-th that was kept, and the one specialdata    *)
(* points to is in both levels the last of its sector.                     *)
LEMMA LoadedAsSaved == ASSUME MoversInv PROVE LoadRestores
<1> SUFFICES ASSUME AllLoaded, saved.level.leftout = {}
             PROVE  Restored(saved.level, Lasting(saved.level) \ StoppedPlats(saved.level))
  BY DEF LoadRestores
<1> DEFINE level == saved.level
           S == Lasting(level) \ StoppedPlats(level)
           kept == Only(level.thinkers, S)
<1>1. /\ saved \in SavedGames /\ Sane(level) /\ saved.movers = Contents(kept, level.mover)
      /\ call.next = Len(thinkers) + 1 /\ Len(thinkers) <= Len(saved.movers)
      /\ call.next > Len(saved.movers)
      /\ \A i \in DOMAIN thinkers : /\ mover[thinkers[i]] = saved.movers[i]
                                    /\ specialdata[saved.movers[i].sector] # NULL
  BY DEF AllLoaded, MoversInv, SavedInv, LoadingInv, Kept
<1>2. Sound /\ thinkers \in Seq(Blocks)
  BY DEF MoversInv, Sound, DataOK
<1>3. level.thinkers \in Seq(Blocks) /\ saved.movers \in Seq(Movers)
  BY <1>1 DEF SavedGames
<1> HIDE DEF level
<1>4. kept \in Seq(Blocks) /\ Entries(kept) = Entries(level.thinkers) \cap S
  BY <1>3, OnlyFacts
<1>5. \A i, j \in DOMAIN kept : i < j =>
        \E p, q \in DOMAIN level.thinkers :
          p < q /\ level.thinkers[p] = kept[i] /\ level.thinkers[q] = kept[j]
  BY <1>3, OnlyOrder
<1> HIDE DEF kept
<1>6. /\ DOMAIN saved.movers = DOMAIN kept
      /\ \A i \in DOMAIN kept : saved.movers[i] = level.mover[kept[i]]
  BY <1>1 DEF Contents
<1>7. DOMAIN thinkers = DOMAIN kept
  BY <1>1, <1>2, <1>3, <1>6
<1>8. \A i \in DOMAIN kept : mover[thinkers[i]] = level.mover[kept[i]]
  BY <1>1, <1>6, <1>7
<1>9. Contents(thinkers, mover) = Contents(kept, level.mover)
  BY <1>7, <1>8 DEF Contents
<1>10. ASSUME NEW s \in Sectors, level.specialdata[s] \in S
       PROVE  specialdata[s] # NULL
              /\ mover[specialdata[s]] = level.mover[level.specialdata[s]]
  <2> DEFINE d == level.specialdata[s]
  <2>1. d \in Blocks /\ d # NULL
    BY <1>10, MoversAssumption DEF Lasting
  <2>2. level.mover[d].sector = s /\ d \in Lasting(level)
    BY <1>1, <2>1 DEF Sane
  <2>3. d \in Entries(kept)
    BY <1>1, <1>4, <1>10, <2>2 DEF Sane, Lasting
  <2>4. PICK k \in DOMAIN kept : kept[k] = d
    BY <2>3 DEF Entries
  <2> HIDE DEF d
  <2>5. specialdata[s] # NULL
    BY <1>1, <1>6, <1>7, <2>2, <2>4
  <2>6. PICK c \in Blocks : c = specialdata[s]
    BY <1>2, <2>5 DEF Sound, DataOK
  <2>7. c \in Entries(thinkers) /\ mover[c].sector = s
    BY <1>2, <2>5, <2>6 DEF Sound, NothingDangles, Live, Free
  <2>8. PICK i \in DOMAIN thinkers : c = thinkers[i]
    BY <2>7 DEF Entries
  <2>9. i \in DOMAIN kept /\ i \in Int /\ k \in Int
    BY <1>4, <1>7, <2>8
  <2>10. ~(i < k)
    <3>1. mover[thinkers[k]].sector = s
      BY <1>8, <2>2, <2>4
    <3> QED BY <1>2, <1>7, <2>6, <2>8, <3>1 DEF Sound, Newest
  <2>11. ~(k < i)
    <3> SUFFICES ASSUME k < i PROVE FALSE
      OBVIOUS
    <3>1. PICK p \in DOMAIN level.thinkers, q \in DOMAIN level.thinkers :
            p < q /\ level.thinkers[p] = d /\ level.thinkers[q] = kept[i]
      BY <1>5, <2>4, <2>9
    <3>2. level.mover[level.thinkers[q]].sector = s
      BY <1>8, <2>7, <2>8, <2>9, <3>1
    <3>3. level.specialdata[s] = level.thinkers[p]
      BY <3>1 DEF d
    <3> QED BY <1>1, <3>1, <3>2, <3>3 DEF Sane, Newest
  <2>12. i = k
    BY <2>9, <2>10, <2>11
  <2>13. mover[c] = level.mover[d]
    BY <1>8, <2>4, <2>8, <2>12
  <2> QED BY <2>5, <2>6, <2>13 DEF d
<1> QED BY <1>9, <1>10 DEF Restored, kept, level

(* A game that is loaded goes on with the movers that there were when it   *)
(* was saved, but for plats that were stopped.                             *)
THEOREM LoadingRestores == MoversSpec => []LoadRestores
<1>1. MoversInv => LoadRestores
  BY LoadedAsSaved
<1> QED BY <1>1, MoversInvariant, PTL
=============================================================================
