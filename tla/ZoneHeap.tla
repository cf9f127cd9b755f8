------------------------------ MODULE ZoneHeap ------------------------------
(***************************************************************************)
(* The memory of the games: the zone heap (z_zone.c) and the lumps of the  *)
(* WAD files cached in it (w_wad.c).  The heap is a ring of headers, one   *)
(* for each block, that lies in the memory it manages; a purgable block    *)
(* has a user, the pointer to it, which is cleared when an allocation      *)
(* throws the block out.                                                   *)
(*                                                                         *)
(* Addresses are 1..ZoneSize and 0, the header in mainzone (blocklist).    *)
(* Z_Malloc and Z_FreeTags walk along the ring, one step of the model for  *)
(* each block they look at; the program does nothing else meanwhile.       *)
(***************************************************************************)
EXTENDS Integers

CONSTANTS ZoneSize,
          MINFRAGMENT,
          Lumps, LumpSize,  \* the lumps, and the size of each with its header
          PlainSizes,       \* sizes of blocks without a user, with the header
          NULL

ASSUME ZoneAssumption ==
  /\ ZoneSize \in Nat \ {0} /\ MINFRAGMENT \in Nat
  /\ LumpSize \in [Lumps -> Nat \ {0}] /\ PlainSizes \subseteq Nat \ {0}
  /\ NULL \notin Lumps \cup 0..ZoneSize

VARIABLES blocks,   \* the headers: address -> [size, tag, user, next, prev]
          rover,
          cache,    \* lump->cache
          held,     \* the address that the holder of a lump was given
          call      \* the call of Z_Malloc or Z_FreeTags that is under way

zoneVars == <<blocks, rover, cache, held, call>>

(* z_zone.h.                                                               *)
PU_STATIC     == 1
PU_FREE       == 4
PU_LEVEL      == 5
PU_PURGELEVEL == 7
PU_CACHE      == 8
Tags == {PU_STATIC, PU_FREE, PU_LEVEL, PU_CACHE}

blocklist == 0
Returned == [op |-> "none"]

Free(b)     == blocks[b].tag = PU_FREE
Purgable(b) == blocks[b].tag >= PU_PURGELEVEL
-----------------------------------------------------------------------------
(* Z_Free, in three parts: the header is marked, and the two merges, each  *)
(* of which makes a free block absorb the next one.  z is [blocks, rover]. *)
(* The first definition of a merge forgets mainzone->rover.                *)
AbsorbOnly(z, b) ==
  LET o == z.blocks[b].next
      n == z.blocks[o].next
      merged == [z.blocks EXCEPT ![b].size = @ + z.blocks[o].size,
                                 ![b].next = n,
                                 ![n].prev = b]
  IN [blocks |-> [a \in DOMAIN merged \ {o} |-> merged[a]], rover |-> z.rover]

Absorb(z, b) ==
  [AbsorbOnly(z, b) EXCEPT !.rover = IF z.rover = z.blocks[b].next THEN b ELSE @]

AbsorbNext(z, b) ==
  IF z.blocks[z.blocks[b].next].tag = PU_FREE THEN Absorb(z, b) ELSE z

Z_Free(b) ==
  LET marked == [blocks |-> [blocks EXCEPT ![b].tag = PU_FREE, ![b].user = NULL],
                 rover  |-> rover]
      before == blocks[b].prev
  IN IF Free(before) THEN AbsorbNext(Absorb(marked, before), before)
     ELSE AbsorbNext(marked, b)

(* "clear the user's mark".  The first definition forgets to.              *)
MarkKept(b) == cache

UserCleared(b) ==
  IF blocks[b].user = NULL THEN cache ELSE [cache EXCEPT ![blocks[b].user] = NULL]

Frees(b) ==
  /\ blocks' = Z_Free(b).blocks
  /\ rover' = Z_Free(b).rover
  /\ cache' = UserCleared(b)
-----------------------------------------------------------------------------
(* Z_Malloc: "if there is a free block behind the rover, back up".         *)
Z_Malloc(size, tag, user) ==
  LET base == IF Free(blocks[rover].prev) THEN blocks[rover].prev ELSE rover
  IN call' = [op |-> "malloc", size |-> size, tag |-> tag, user |-> user,
              base |-> base, rover |-> base, start |-> blocks[base].prev]

(* The loop ends when base is free and large enough ...                    *)
Fits(size, bs, b) == bs[b].tag = PU_FREE /\ bs[b].size >= size

(* ... and with I_Error when the scan is back at its start.  The first     *)
(* definition does not look for that.                                      *)
EndlessScan == FALSE

BackAtStart == call.rover = call.start

(* One round of the loop; base and scan are where it leaves them.          *)
Continue(base, scan) ==
  call' = [call EXCEPT !.base = base, !.rover = scan,
                       !.op = IF Fits(call.size, blocks', base) THEN "found" ELSE "malloc"]

ScanFails ==
  /\ call.op = "malloc" /\ BackAtStart
  /\ call' = [op |-> "I_Error"]
  /\ UNCHANGED <<blocks, rover, cache, held>>

ScanUnpurgable ==
  /\ call.op = "malloc" /\ ~BackAtStart
  /\ blocks[call.rover].tag < PU_PURGELEVEL /\ ~Free(call.rover)
  /\ UNCHANGED <<blocks, rover, cache, held>>
  /\ Continue(blocks[call.rover].next, blocks[call.rover].next)

ScanPurgable ==
  /\ call.op = "malloc" /\ ~BackAtStart
  /\ Purgable(call.rover)
  /\ Frees(call.rover) /\ UNCHANGED held
  /\ LET base == blocks'[blocks[call.base].prev].next
     IN Continue(base, blocks'[base].next)

ScanFree ==
  /\ call.op = "malloc" /\ ~BackAtStart
  /\ Free(call.rover)
  /\ UNCHANGED <<blocks, rover, cache, held>>
  /\ Continue(call.base, blocks[call.rover].next)

(* After the loop: the block is cut to size when enough is left over, and  *)
(* given to its user; W_CacheLumpNum returns it.                           *)
Cut(b, size) ==
  LET extra == blocks[b].size - size
      new   == b + size
      next  == blocks[b].next
  IN IF extra <= MINFRAGMENT THEN blocks
     ELSE [a \in DOMAIN blocks \cup {new} |->
             IF a = new THEN [size |-> extra, tag |-> PU_FREE, user |-> NULL,
                              next |-> next, prev |-> b]
             ELSE IF a = b THEN [blocks[b] EXCEPT !.size = size, !.next = new]
             ELSE IF a = next THEN [blocks[a] EXCEPT !.prev = new]
             ELSE blocks[a]]

Holds(l, address, tag) ==
  held' = IF tag = PU_STATIC THEN [held EXCEPT ![l] = address] ELSE held

Allocate ==
  /\ call.op = "found"
  /\ LET cut == Cut(call.base, call.size)
     IN /\ blocks' = [cut EXCEPT ![call.base].tag = call.tag, ![call.base].user = call.user]
        /\ rover' = cut[call.base].next
  /\ IF call.user = NULL THEN UNCHANGED <<cache, held>>
     ELSE /\ cache' = [cache EXCEPT ![call.user] = call.base]
          /\ Holds(call.user, call.base, call.tag)
  /\ call' = Returned

Scan == ScanFails \/ ScanUnpurgable \/ ScanPurgable \/ ScanFree \/ Allocate

(* Z_FreeTags, at the block it looks at.  Its next header may be merged    *)
(* away while the block is freed: the code then reads the dead header,     *)
(* which is free and still has its link.                                   *)
FreeTag ==
  /\ call.op = "freetags"
  /\ LET next == blocks[call.block].next
     IN IF call.block = blocklist
        THEN /\ call' = Returned
             /\ UNCHANGED <<blocks, rover, cache>>
        ELSE /\ IF ~Free(call.block) /\ blocks[call.block].tag \in call.low..call.high
                THEN Frees(call.block) ELSE UNCHANGED <<blocks, rover, cache>>
             /\ call' = [call EXCEPT !.block =
                           IF next \in DOMAIN blocks' THEN next ELSE blocks[next].next]
  /\ UNCHANGED held
-----------------------------------------------------------------------------
(* The program.  A lump has one holder at a time: W_CacheLumpNum counts    *)
(* nobody, so a second one that releases it takes it from the first.       *)
Calls == call = Returned

(* W_CacheLumpNum.                                                         *)
W_CacheLumpNum(l, tag) ==
  /\ Calls /\ held[l] = NULL
  /\ IF cache[l] # NULL
     THEN /\ blocks' = [blocks EXCEPT ![cache[l]].tag = tag]
          /\ Holds(l, cache[l], tag)
          /\ UNCHANGED <<rover, cache, call>>
     ELSE /\ Z_Malloc(LumpSize[l], tag, l)
          /\ UNCHANGED <<blocks, rover, cache, held>>

W_ReleaseLumpNum(l) ==
  /\ Calls /\ held[l] # NULL
  /\ blocks' = [blocks EXCEPT ![cache[l]].tag = PU_CACHE]
  /\ held' = [held EXCEPT ![l] = NULL]
  /\ UNCHANGED <<rover, cache, call>>

(* Blocks of a level or of the program itself, without a user.             *)
MallocPlain(size, tag) ==
  /\ Calls
  /\ Z_Malloc(size, tag, NULL)
  /\ UNCHANGED <<blocks, rover, cache, held>>

FreePlain(b) ==
  /\ Calls /\ b # blocklist /\ ~Free(b) /\ blocks[b].user = NULL
  /\ Frees(b)
  /\ UNCHANGED <<held, call>>

(* P_SetupLevel.                                                           *)
FreeLevel ==
  /\ Calls
  /\ call' = [op |-> "freetags", low |-> PU_LEVEL, high |-> PU_PURGELEVEL - 1,
              block |-> blocks[blocklist].next]
  /\ UNCHANGED <<blocks, rover, cache, held>>
-----------------------------------------------------------------------------
(* Z_Init.                                                                 *)
ZoneInit ==
  /\ blocks = [a \in {blocklist, 1} |->
                 [size |-> IF a = blocklist THEN 0 ELSE ZoneSize,
                  tag  |-> IF a = blocklist THEN PU_STATIC ELSE PU_FREE,
                  user |-> NULL, next |-> 1 - a, prev |-> 1 - a]]
  /\ rover = 1
  /\ cache = [l \in Lumps |-> NULL] /\ held = [l \in Lumps |-> NULL]
  /\ call = Returned

ZoneNext ==
  \/ Scan \/ FreeTag
  \/ \E l \in Lumps : \/ \E tag \in {PU_STATIC, PU_CACHE} : W_CacheLumpNum(l, tag)
                      \/ W_ReleaseLumpNum(l)
  \/ \E size \in PlainSizes, tag \in {PU_STATIC, PU_LEVEL} : MallocPlain(size, tag)
  \/ \E b \in DOMAIN blocks : FreePlain(b)
  \/ FreeLevel

ZoneSpec == ZoneInit /\ [][ZoneNext]_zoneVars
-----------------------------------------------------------------------------
Block == [size : Nat, tag : Tags, user : Lumps \cup {NULL}, next : Nat, prev : Nat]

ZoneTypeOK ==
  /\ DOMAIN blocks \subseteq 0..ZoneSize
  /\ \A b \in DOMAIN blocks : blocks[b] \in Block
  /\ rover \in DOMAIN blocks
  /\ cache \in [Lumps -> 1..ZoneSize \cup {NULL}]
  /\ held \in [Lumps -> 1..ZoneSize \cup {NULL}]
  /\ call.op \in {"none", "malloc", "found", "freetags", "I_Error"}

(* The ring of headers.  "There is never any space between memblocks, and  *)
(* there will never be two contiguous free memblocks" (z_zone.c), nor do   *)
(* they overlap, and the links back are those forward: what Z_CheckHeap    *)
(* tests, but after every step of every call.                              *)
Linked(bs) ==
  \A b \in DOMAIN bs :
    /\ {bs[b].next, bs[b].prev} \subseteq DOMAIN bs
    /\ bs[bs[b].next].prev = b
    /\ bs[bs[b].prev].next = b

Touching(bs) ==
  \A b \in DOMAIN bs \ {blocklist} :
    b + bs[b].size = IF bs[b].next = blocklist THEN ZoneSize + 1 ELSE bs[b].next

Apart(bs) ==
  \A a, b \in DOMAIN bs \ {blocklist} : a < b => a + bs[a].size <= b

NoTwoFree(bs) ==
  \A b \in DOMAIN bs : ~(bs[b].tag = PU_FREE /\ bs[bs[b].next].tag = PU_FREE)

(* The headers that a scan keeps are there whatever it frees: its start is *)
(* never merged away, and all it has freed is in base.                     *)
ScanSound ==
  /\ rover \in DOMAIN blocks
  /\ call.op = "freetags" => call.block \in DOMAIN blocks
  /\ call.op \in {"malloc", "found"} =>
       /\ {call.base, call.rover, call.start} \subseteq DOMAIN blocks
       /\ ~Free(call.start)
       /\ Free(call.base) \/ call.base = call.rover

HeapSound ==
  Linked(blocks) /\ Touching(blocks) /\ Apart(blocks) /\ NoTwoFree(blocks) /\ ScanSound

(* A cached pointer and a block of the heap belong together, and a lump    *)
(* stays where its holder was told it is until it is released, whatever is *)
(* allocated meanwhile (PU_STATIC against the purging of Z_Malloc).        *)
CacheCoherent ==
  /\ \A l \in Lumps :
       cache[l] # NULL => /\ cache[l] \in DOMAIN blocks
                          /\ blocks[cache[l]].user = l
                          /\ blocks[cache[l]].size >= LumpSize[l]
  /\ \A b \in DOMAIN blocks : /\ blocks[b].user # NULL => cache[blocks[b].user] = b
                              /\ Free(b) => blocks[b].user = NULL
                              /\ Purgable(b) => blocks[b].user # NULL
  /\ \A l \in Lumps : held[l] # NULL => cache[l] = held[l]

(* A call comes to an end: the scan of Z_Malloc finds a block or is back   *)
(* at its start, which no step of it has moved (the program just runs).    *)
ZoneFairness == WF_zoneVars(Scan \/ FreeTag)

ZoneCallsEnd == call.op # "none" ~> call.op \in {"none", "I_Error"}
=============================================================================
