---------------------------- MODULE SectorMovers ----------------------------
(***************************************************************************)
(* What moves in a level of Doom: the plats, ceilings, doors and floors of *)
(* src/doom (p_plats.c, p_ceilng.c, p_doors.c, p_floor.c), the list of     *)
(* thinkers that runs them once a tic (p_tick.c), and how they are saved   *)
(* and loaded (p_saveg.c).                                                 *)
(*                                                                         *)
(* A mover is a block of memory that up to three places point to: the list *)
(* of thinkers, specialdata of its sector, and for plats and ceilings an   *)
(* entry of a table of fixed size.  It is removed lazily: marked when it   *)
(* ends, unlinked and freed when its turn in P_RunThinkers comes.          *)
(*                                                                         *)
(* A line that is used or crossed starts movers in every sector with its   *)
(* tag, one sector a step here.  Players and monsters do so at any point   *)
(* of a tic, between two thinkers.  Heights are not followed: what         *)
(* T_MovePlane returns and when a countdown ends is a choice.              *)
(***************************************************************************)
EXTENDS Lists

CONSTANTS NumSectors,
          SectorTag,      \* sector->tag
          Timed,          \* doors of P_SpawnSpecials: sector -> type or NULL
          RaiseDoors,     \* sectors behind a line that opens and closes a door
          OpenLines,      \* lines that open a door once: line -> sector behind it
          NextStairs,     \* sectors a stair goes on to, in the order of the lines
          DonutRing,      \* the sector around one, or NULL
          OnlyAround,     \* sectors whose ring's lines all have them behind
          PlatTypes, CeilingTypes, DoorTypes, Others,   \* what lines of the level do
          Blocks,         \* the memory for movers
          MAXPLATS, MAXCEILINGS,
          usergame,       \* false in a demo, which cannot be saved
          NULL

Sectors == 1..NumSectors
Lines   == DOMAIN OpenLines
MTags   == {SectorTag[s] : s \in Sectors}

AllPlats    == {"raiseAndChange", "downWaitUpStay", "perpetualRaise"}
AllCeilings == {"raiseToHighest", "crushAndRaise", "lowerToFloor"}
AllDoors    == {"normal", "open", "close", "close30ThenOpen"}
AllOthers   == {"floor", "stairs", "donut", "stopPlat", "crushStop"}

Movers == [kind : {"plat", "ceiling", "door", "floor"},
           type : AllPlats \cup AllCeilings \cup AllDoors \cup AllOthers \cup {"raiseIn5Mins"},
           dir  : {"up", "down", "waiting", "initial", "moving", "stasis"},
           old  : {"up", "down", "waiting", "initial", "moving"},
           fn   : {"think", "null", "removed"},     \* thinker.function
           sector : Sectors, tag : Nat]

ASSUME MoversAssumption ==
  /\ NumSectors \in Nat /\ MAXPLATS \in Nat /\ MAXCEILINGS \in Nat
  /\ NULL \notin Blocks /\ NULL \notin Sectors /\ NULL \notin Movers
  /\ SectorTag \in [Sectors -> Nat]
  /\ Timed \in [Sectors -> {"normal", "raiseIn5Mins", NULL}]
  /\ RaiseDoors \subseteq Sectors
  /\ OpenLines \in [Lines -> Sectors]
  /\ NextStairs \in [Sectors -> Seq(Sectors)]
  /\ DonutRing \in [Sectors -> Sectors \cup {NULL}] /\ OnlyAround \subseteq Sectors
  /\ usergame \in BOOLEAN
  /\ PlatTypes \subseteq AllPlats /\ CeilingTypes \subseteq AllCeilings
  /\ DoorTypes \subseteq AllDoors /\ Others \subseteq AllOthers

VARIABLES thinkers,        \* the movers of the list of thinkers, in its order
          mover,           \* what is in a block
          specialdata,     \* sector->specialdata
          activeplats, activeceilings,
          spent,           \* the lines of OpenLines that have been used
          current,         \* place of currentthinker in the list; 0 between tics
          call,            \* the call of a function below that is under way
          saved,           \* the saved game
          ran,             \* history: the movers whose turn in this tic is over
          leftout          \* history: the ceilings that found activeceilings full

lists     == <<activeplats, activeceilings>>
moverVars == <<thinkers, mover, specialdata, lists, spent, current, call, saved, ran, leftout>>

NoCall == [op |-> "none"]
Idle   == call.op = "none"
Listed(list, b) == \E i \in DOMAIN list : list[i] = b
Free(b) == mover[b] = NULL
Live(b) == mover[b] # NULL /\ mover[b].fn # "removed"

I_Error(why) == call' = [op |-> "I_Error", why |-> why]
-----------------------------------------------------------------------------
(* P_AddActivePlat and P_AddActiveCeiling take the first empty entry.      *)
(* AddedFromSecond, and below ArchivedMoving, FreeAndSkip, RemovedOnly and *)
(* StartAnyway, are mistakes that the specification does not use.          *)
Full(list) == \A i \in DOMAIN list : list[i] # NULL

AddedFromSecond(list, b) ==
  [i \in DOMAIN list |->
     IF i > 1 /\ list[i] = NULL /\ \A j \in 2..(i - 1) : list[j] # NULL THEN b ELSE list[i]]

Added(list, b) ==
  [i \in DOMAIN list |->
     IF list[i] = NULL /\ \A j \in 1..(i - 1) : list[j] # NULL THEN b ELSE list[i]]

Unlisted(list, b) ==
  [i \in DOMAIN list |->
     IF list[i] = b /\ \A j \in 1..(i - 1) : list[j] # b THEN NULL ELSE list[i]]

(* Puts a new mover into its table, if it has one; next is the call after. *)
Register(b, m, next) ==
  CASE m.kind = "plat" ->
         /\ activeplats' = Added(activeplats, b)
         /\ IF Full(activeplats) THEN I_Error("no more plats") ELSE call' = next
         /\ UNCHANGED <<activeceilings, leftout>>
    [] m.kind = "ceiling" ->
         /\ activeceilings' = Added(activeceilings, b)
         /\ leftout' = IF Full(activeceilings) THEN leftout \cup {b} ELSE leftout
         /\ call' = next /\ UNCHANGED activeplats
    [] OTHER -> call' = next /\ UNCHANGED <<lists, leftout>>

(* Z_Malloc, P_AddThinker, sector->specialdata and the table.  A block is  *)
(* given to one mover at a time; without memory Z_Malloc ends the program. *)
StartOne(M, next) ==
  \/ \E b \in Blocks, m \in M :
       /\ Free(b)
       /\ mover'       = [mover EXCEPT ![b] = m]
       /\ thinkers'    = Append(thinkers, b)
       /\ specialdata' = [specialdata EXCEPT ![m.sector] = b]
       /\ Register(b, m, next)
  \/ /\ \A b \in Blocks : ~Free(b)
     /\ I_Error("Z_Malloc")
     /\ UNCHANGED <<mover, thinkers, specialdata, lists, leftout>>

NewMovers(kind, type, dirs, s) ==
  {[kind |-> kind, type |-> type, dir |-> dir, old |-> dir, fn |-> "think",
    sector |-> s, tag |-> SectorTag[s]] : dir \in dirs}

(* The directions in which movers start; a perpetual plat's is random.     *)
FirstDirs(kind, type) ==
  CASE kind = "plat"    -> CASE type = "raiseAndChange" -> {"up"}
                             [] type = "downWaitUpStay" -> {"down"}
                             [] OTHER                   -> {"up", "down"}
    [] kind = "ceiling" -> IF type = "raiseToHighest" THEN {"up"} ELSE {"down"}
    [] kind = "door"    -> IF type \in {"normal", "open"} THEN {"up"} ELSE {"down"}
    [] OTHER            -> {"moving"}
-----------------------------------------------------------------------------
(* The end of a mover.  P_RemoveThinker only marks it.                     *)
Removed(b, m) == mover' = [mover EXCEPT ![b] = [m EXCEPT !.fn = "removed"]]

Cleared(s) == specialdata' = [specialdata EXCEPT ![s] = NULL]

P_RemoveActivePlat(b, m) ==
  /\ IF Listed(activeplats, b)
     THEN /\ Cleared(m.sector) /\ Removed(b, m)
          /\ activeplats' = Unlisted(activeplats, b) /\ UNCHANGED call
     ELSE /\ I_Error("can't find plat")
          /\ UNCHANGED <<specialdata, mover, activeplats>>
  /\ UNCHANGED activeceilings

P_RemoveActiveCeiling(b, m) ==
  /\ IF Listed(activeceilings, b)
     THEN /\ Cleared(m.sector) /\ Removed(b, m)
          /\ activeceilings' = Unlisted(activeceilings, b)
     ELSE UNCHANGED <<specialdata, mover, activeceilings>>
  /\ UNCHANGED <<activeplats, call>>

(* Doors and floors, which no table lists.  The first definition leaves    *)
(* specialdata as it was.                                                  *)
RemovedOnly(b, m) == Removed(b, m) /\ UNCHANGED <<specialdata, lists, call>>

RemoveOther(b, m) == Cleared(m.sector) /\ Removed(b, m) /\ UNCHANGED <<lists, call>>

(* A mover goes on, in direction dir.                                      *)
Goes(b, dir) ==
  mover' = [mover EXCEPT ![b].dir = dir] /\ UNCHANGED <<specialdata, lists, call>>

Results == {"ok", "crushed", "pastdest"}   \* of T_MovePlane

T_PlatRaise(b) ==
  LET m == mover[b]
  IN \/ /\ m.dir = "up"
        /\ \E res \in Results :
             IF res = "crushed" THEN Goes(b, "down")
             ELSE IF res = "ok" THEN Goes(b, "up")
             ELSE IF m.type = "perpetualRaise" THEN Goes(b, "waiting")
             ELSE P_RemoveActivePlat(b, [m EXCEPT !.dir = "waiting"])
     \/ m.dir = "down" /\ \E dir \in {"down", "waiting"} : Goes(b, dir)
     \/ m.dir = "waiting" /\ \E dir \in {"waiting", "up", "down"} : Goes(b, dir)

T_MoveCeiling(b) ==
  LET m == mover[b]
  IN \/ Goes(b, m.dir)
     \/ /\ m.type = "crushAndRaise"
        /\ Goes(b, IF m.dir = "up" THEN "down" ELSE "up")
     \/ /\ <<m.type, m.dir>> \in {<<"raiseToHighest", "up">>, <<"lowerToFloor", "down">>}
        /\ P_RemoveActiveCeiling(b, m)

(* Directions 1, -1, 0 and 2 are up, down, waiting and initial.            *)
T_VerticalDoor(b) ==
  LET m == mover[b]
  IN \/ Goes(b, m.dir)
     \/ /\ m.dir = "waiting" /\ m.type \in {"normal", "close30ThenOpen"}
        /\ Goes(b, IF m.type = "normal" THEN "down" ELSE "up")
     \/ /\ m.dir = "initial"
        /\ mover' = [mover EXCEPT ![b].dir = "up", ![b].type = "normal"]
        /\ UNCHANGED <<specialdata, lists, call>>
     \/ /\ m.dir = "down"
        /\ \/ m.type \in {"normal", "close"} /\ RemoveOther(b, m)
           \/ m.type = "close30ThenOpen" /\ Goes(b, "waiting")
           \/ m.type # "close" /\ Goes(b, "up")
     \/ /\ m.dir = "up"
        /\ \/ m.type = "normal" /\ Goes(b, "waiting")
           \/ m.type \in {"close30ThenOpen", "open"} /\ RemoveOther(b, m)

T_MoveFloor(b) == Goes(b, mover[b].dir) \/ RemoveOther(b, mover[b])

Think(b) ==
  CASE mover[b].kind = "plat"    -> T_PlatRaise(b)
    [] mover[b].kind = "ceiling" -> T_MoveCeiling(b)
    [] mover[b].kind = "door"    -> T_VerticalDoor(b)
    [] OTHER                     -> T_MoveFloor(b)
-----------------------------------------------------------------------------
(* P_RunThinkers, one thinker a step.                                      *)
StartTic ==
  /\ Idle /\ current = 0
  /\ current' = 1
  /\ UNCHANGED <<thinkers, mover, specialdata, lists, spent, call, saved, ran, leftout>>

Unlinked(list, n) ==
  [i \in 1..(Len(list) - 1) |-> IF i < n THEN list[i] ELSE list[i + 1]]

(* The thinker is read from the unlinked one's successor, which is skipped. *)
FreeAndSkip ==
  /\ Idle /\ current \in DOMAIN thinkers
  /\ mover[thinkers[current]].fn = "removed"
  /\ mover' = [mover EXCEPT ![thinkers[current]] = NULL]
  /\ thinkers' = Unlinked(thinkers, current)
  /\ current' = IF current < Len(thinkers) THEN current + 1 ELSE current
  /\ UNCHANGED <<specialdata, lists, spent, call, saved, ran, leftout>>

FreeThinker ==
  /\ Idle /\ current \in DOMAIN thinkers
  /\ mover[thinkers[current]].fn = "removed"
  /\ mover' = [mover EXCEPT ![thinkers[current]] = NULL]
  /\ thinkers' = Unlinked(thinkers, current)
  /\ UNCHANGED <<specialdata, lists, spent, current, call, saved, ran, leftout>>

RunThinker ==
  /\ Idle /\ current \in DOMAIN thinkers
  /\ LET currentthinker == thinkers[current]
     IN /\ \/ mover[currentthinker].fn = "think" /\ Think(currentthinker)
           \/ /\ mover[currentthinker].fn = "null"
              /\ UNCHANGED <<mover, specialdata, lists, call>>
        /\ ran' = ran \cup {currentthinker}
  /\ current' = current + 1
  /\ UNCHANGED <<thinkers, spent, saved, leftout>>

EndTic ==
  /\ Idle /\ current > Len(thinkers)
  /\ current' = 0 /\ ran' = {}
  /\ UNCHANGED <<thinkers, mover, specialdata, lists, spent, call, saved, leftout>>
-----------------------------------------------------------------------------
(* Players (P_PlayerThink) and monsters act within a tic.                  *)
LinesMove == Idle /\ current # 0

(* Lines with a tag.  Those for perpetual plats and for crushers first set *)
(* what was stopped in motion again (P_ActivateInStasis and                *)
(* P_ActivateInStasisCeiling).                                             *)
InStasis(list, tag) ==
  {b \in Blocks : Listed(list, b) /\ mover[b].tag = tag /\ mover[b].dir = "stasis"}

Moving(list, tag) ==
  {b \in Blocks : Listed(list, b) /\ mover[b].tag = tag /\ mover[b].dir # "stasis"}

Activated(S) ==
  mover' = [b \in Blocks |-> IF b \in S THEN [mover[b] EXCEPT !.dir = mover[b].old, !.fn = "think"]
                             ELSE mover[b]]

Stopped(S) ==
  mover' = [b \in Blocks |->
              IF b \in S THEN [mover[b] EXCEPT !.old = mover[b].dir, !.dir = "stasis",
                                               !.fn = "null"]
              ELSE mover[b]]

UseTagged(kind, type, tag) ==
  /\ LinesMove
  /\ call' = [op |-> "start", kind |-> kind, type |-> type, tag |-> tag, sec |-> 0, stair |-> 0]
  /\ IF type = "perpetualRaise" THEN Activated(InStasis(activeplats, tag))
     ELSE IF type = "crushAndRaise" THEN Activated(InStasis(activeceilings, tag))
     ELSE UNCHANGED mover
  /\ UNCHANGED <<thinkers, specialdata, lists, spent, current, saved, ran, leftout>>

(* EV_StopPlat and EV_CeilingCrushStop.                                    *)
Stop(list, tag) ==
  /\ LinesMove
  /\ Stopped(Moving(list, tag))
  /\ UNCHANGED <<thinkers, specialdata, lists, spent, current, call, saved, ran, leftout>>

(* The loops over P_FindSectorFromLineTag of EV_DoPlat, EV_DoCeiling,      *)
(* EV_DoDoor, EV_DoFloor, EV_BuildStairs and EV_DoDonut.                   *)
Searching == call.op = "start" /\ call.stair = 0

NextTagged(s) ==
  /\ s > call.sec /\ SectorTag[s] = call.tag
  /\ \A r \in Sectors : r > call.sec /\ SectorTag[r] = call.tag => s <= r

NoMoreSectors ==
  /\ Searching /\ \A s \in Sectors : ~NextTagged(s)
  /\ call' = NoCall
  /\ UNCHANGED <<thinkers, mover, specialdata, lists, spent, current, saved, ran, leftout>>

(* "ALREADY MOVING?  IF SO, KEEP GOING..."                                 *)
AlreadyMoving ==
  /\ Searching
  /\ \E s \in Sectors :
       /\ NextTagged(s) /\ specialdata[s] # NULL
       /\ call' = [call EXCEPT !.sec = s]
  /\ UNCHANGED <<thinkers, mover, specialdata, lists, spent, current, saved, ran, leftout>>

StartIn(s, next) == StartOne(NewMovers(call.kind, call.type, FirstDirs(call.kind, call.type), s), next)

StartAnyway ==
  /\ Searching /\ call.type # "donut"
  /\ \E s \in Sectors :
       /\ NextTagged(s)
       /\ StartIn(s, [call EXCEPT !.sec = s, !.stair = IF call.type = "stairs" THEN s ELSE 0])
  /\ UNCHANGED <<spent, current, saved, ran>>

StartMover ==
  /\ Searching /\ call.type # "donut"
  /\ \E s \in Sectors :
       /\ NextTagged(s) /\ specialdata[s] = NULL
       /\ StartIn(s, [call EXCEPT !.sec = s, !.stair = IF call.type = "stairs" THEN s ELSE 0])
  /\ UNCHANGED <<spent, current, saved, ran>>

(* A stair goes on with the first neighbour that stands still; the search  *)
(* by tag goes on behind its last sector (secnum is used for both).        *)
BuildStep ==
  /\ call.op = "start" /\ call.type = "stairs" /\ call.stair # 0
  /\ LET steps == NextStairs[call.stair]
         Still(i) == specialdata[steps[i]] = NULL
     IN \/ /\ \A i \in DOMAIN steps : ~Still(i)
           /\ call' = [call EXCEPT !.stair = 0]
           /\ UNCHANGED <<thinkers, mover, specialdata, lists, leftout>>
        \/ \E i \in DOMAIN steps :
             /\ Still(i) /\ \A j \in 1..(i - 1) : ~Still(j)
             /\ StartIn(steps[i], [call EXCEPT !.sec = steps[i], !.stair = steps[i]])
  /\ UNCHANGED <<spent, current, saved, ran>>

(* EV_DoDonut looks at the pillar only; the ring around it gets a mover    *)
(* whether it has one or not, with the height of the first sector that a   *)
(* line of the ring leads to.  If all lead back to the pillar, the search  *)
(* goes on; without a ring it ends.                                        *)
DonutSlime ==
  /\ Searching /\ call.type = "donut"
  /\ \E s \in Sectors :
       /\ NextTagged(s) /\ specialdata[s] = NULL
       /\ IF DonutRing[s] # NULL /\ s \notin OnlyAround
          THEN StartIn(DonutRing[s], [call EXCEPT !.sec = s, !.stair = s])
          ELSE /\ call' = IF DonutRing[s] = NULL THEN NoCall ELSE [call EXCEPT !.sec = s]
               /\ UNCHANGED <<thinkers, mover, specialdata, lists, leftout>>
  /\ UNCHANGED <<spent, current, saved, ran>>

DonutHole ==
  /\ call.op = "start" /\ call.type = "donut" /\ call.stair # 0
  /\ StartIn(call.stair, [call EXCEPT !.stair = 0])
  /\ UNCHANGED <<spent, current, saved, ran>>
-----------------------------------------------------------------------------
(* EV_VerticalDoor, by the kind of line.  A mover that is no door keeps    *)
(* its state: what is written is a field that is not modelled.             *)
UseRaiseDoor(s, isplayer) ==
  /\ LinesMove
  /\ IF specialdata[s] = NULL THEN StartOne(NewMovers("door", "normal", {"up"}, s), call)
     ELSE LET door == specialdata[s]
          IN /\ mover' = IF mover[door].kind # "door" THEN mover
                         ELSE IF mover[door].dir = "down" THEN [mover EXCEPT ![door].dir = "up"]
                         ELSE IF isplayer THEN [mover EXCEPT ![door].dir = "down"]
                         ELSE mover
             /\ UNCHANGED <<thinkers, specialdata, lists, call, leftout>>
  /\ UNCHANGED <<spent, current, saved, ran>>

(* A line that opens a door once does not look whether the sector moves.   *)
UseOpenDoor(line) ==
  /\ LinesMove /\ line \notin spent
  /\ StartOne(NewMovers("door", "open", {"up"}, OpenLines[line]), call)
  /\ spent' = spent \cup {line}
  /\ UNCHANGED <<current, saved, ran>>
-----------------------------------------------------------------------------
(* P_SpawnSpecials, when the level starts.                                 *)
P_SpawnSpecials ==
  /\ call.op = "spawn"
  /\ IF call.sec > NumSectors
     THEN call' = NoCall /\ UNCHANGED <<thinkers, mover, specialdata, lists, leftout>>
     ELSE LET type == Timed[call.sec]
              next == [call EXCEPT !.sec = call.sec + 1]
          IN IF type = NULL
             THEN call' = next /\ UNCHANGED <<thinkers, mover, specialdata, lists, leftout>>
             ELSE StartOne(NewMovers("door", type, {IF type = "normal" THEN "waiting"
                                                    ELSE "initial"}, call.sec), next)
  /\ UNCHANGED <<spent, current, saved, ran>>

(* P_ArchiveSpecials.  Of the thinkers without a function only the         *)
(* ceilings are looked for; the first definition saves none of them.       *)
ArchivedMoving == {b \in Blocks : mover[b] # NULL /\ mover[b].fn = "think"}

Archived ==
  {b \in Blocks : mover[b] # NULL /\ \/ mover[b].fn = "think"
                                     \/ mover[b].fn = "null" /\ Listed(activeceilings, b)}

Contents(list, content) == [i \in DOMAIN list |-> content[list[i]]]

(* level is a history: what there was when the game was saved.             *)
G_DoSaveGame ==
  /\ Idle /\ current = 0 /\ usergame
  /\ saved' = [movers |-> Contents(Only(thinkers, Archived), mover), spent |-> spent,
               level  |-> [thinkers |-> thinkers, mover |-> mover,
                           specialdata |-> specialdata, leftout |-> leftout]]
  /\ UNCHANGED <<thinkers, mover, specialdata, lists, spent, current, call, ran, leftout>>

(* G_DoLoadGame: the level starts anew, and nothing moves ...              *)
EmptyPlats    == [i \in 1..MAXPLATS |-> NULL]
EmptyCeilings == [i \in 1..MAXCEILINGS |-> NULL]

G_DoLoadGame ==
  /\ Idle /\ current = 0 /\ saved # NULL
  /\ thinkers' = <<>> /\ mover' = [b \in Blocks |-> NULL]
  /\ specialdata' = [s \in Sectors |-> NULL]
  /\ activeplats' = EmptyPlats /\ activeceilings' = EmptyCeilings
  /\ spent' = saved.spent
  /\ call' = [op |-> "load", next |-> 1]
  /\ leftout' = {}
  /\ UNCHANGED <<current, saved, ran>>

(* ... and P_UnArchiveSpecials brings the movers back one by one.          *)
P_UnArchiveSpecials ==
  /\ call.op = "load"
  /\ IF call.next > Len(saved.movers)
     THEN call' = NoCall /\ UNCHANGED <<thinkers, mover, specialdata, lists, leftout>>
     ELSE StartOne({saved.movers[call.next]}, [call EXCEPT !.next = call.next + 1])
  /\ UNCHANGED <<spent, current, saved, ran>>
-----------------------------------------------------------------------------
MoversInit ==
  /\ thinkers = <<>> /\ mover = [b \in Blocks |-> NULL]
  /\ specialdata = [s \in Sectors |-> NULL]
  /\ activeplats = EmptyPlats /\ activeceilings = EmptyCeilings
  /\ spent = {} /\ current = 0 /\ saved = NULL
  /\ call = [op |-> "spawn", sec |-> 1]
  /\ ran = {} /\ leftout = {}

UseLine ==
  \/ \E tag \in MTags :
       \/ \E type \in PlatTypes    : UseTagged("plat", type, tag)
       \/ \E type \in CeilingTypes : UseTagged("ceiling", type, tag)
       \/ \E type \in DoorTypes    : UseTagged("door", type, tag)
       \/ \E type \in Others \cap {"floor", "stairs", "donut"} : UseTagged("floor", type, tag)
       \/ "stopPlat" \in Others /\ Stop(activeplats, tag)
       \/ "crushStop" \in Others /\ Stop(activeceilings, tag)
  \/ \E s \in RaiseDoors, isplayer \in BOOLEAN : UseRaiseDoor(s, isplayer)
  \/ \E line \in Lines : UseOpenDoor(line)

MoversNext ==
  \/ StartTic \/ FreeThinker \/ RunThinker \/ EndTic
  \/ UseLine
  \/ NoMoreSectors \/ AlreadyMoving \/ StartMover \/ BuildStep \/ DonutSlime \/ DonutHole
  \/ P_SpawnSpecials \/ G_DoSaveGame \/ G_DoLoadGame \/ P_UnArchiveSpecials

MoversSpec == MoversInit /\ [][MoversNext]_moverVars
-----------------------------------------------------------------------------
SearchCalls == [op : {"start"}, kind : {"plat", "ceiling", "door", "floor"},
                type : AllPlats \cup AllCeilings \cup AllDoors \cup AllOthers,
                tag : Nat, sec : 0..NumSectors, stair : 0..NumSectors]

Calls == {NoCall} \cup [op : {"spawn"}, sec : Nat \ {0}] \cup [op : {"load"}, next : Nat \ {0}]
         \cup SearchCalls
         \cup [op : {"I_Error"}, why : {"Z_Malloc", "no more plats", "can't find plat"}]

SavedGames == [movers : Seq(Movers), spent : SUBSET Lines,
               level  : [thinkers : Seq(Blocks), mover : [Blocks -> Movers \cup {NULL}],
                         specialdata : [Sectors -> Blocks \cup {NULL}],
                         leftout : SUBSET Blocks]]

MoversTypeOK ==
  /\ thinkers \in Seq(Blocks)
  /\ mover \in [Blocks -> Movers \cup {NULL}]
  /\ specialdata \in [Sectors -> Blocks \cup {NULL}]
  /\ activeplats \in [1..MAXPLATS -> Blocks \cup {NULL}]
  /\ activeceilings \in [1..MAXCEILINGS -> Blocks \cup {NULL}]
  /\ spent \subseteq Lines
  /\ current \in 0..(Len(thinkers) + 1)
  /\ call \in Calls
  /\ saved # NULL => saved \in SavedGames
  /\ ran \subseteq Blocks /\ leftout \subseteq Blocks

(* The list of thinkers holds each block in use once, and no sector and no *)
(* table points to a mover that has been removed (its memory is freed when *)
(* its turn comes) or to one of another sector or kind: P_RemoveThinker    *)
(* tells nobody, every T_ function clears the pointers itself.             *)
NothingDangles ==
  /\ NoDuplicates(thinkers)
  /\ Entries(thinkers) = {b \in Blocks : ~Free(b)}
  /\ \A s \in Sectors : specialdata[s] # NULL =>
       Live(specialdata[s]) /\ mover[specialdata[s]].sector = s
  /\ \A i \in DOMAIN activeplats : activeplats[i] # NULL =>
       Live(activeplats[i]) /\ mover[activeplats[i]].kind = "plat"
  /\ \A i \in DOMAIN activeceilings : activeceilings[i] # NULL =>
       Live(activeceilings[i]) /\ mover[activeceilings[i]].kind = "ceiling"

(* Every plat is in activeplats, every ceiling in activeceilings unless    *)
(* that was full when it started, also after a game has been loaded: only  *)
(* what is listed can be stopped and set in motion again.                  *)
AllListed ==
  call.op # "I_Error" =>
    \A b \in Blocks : Live(b) =>
      /\ mover[b].kind = "plat" => Listed(activeplats, b)
      /\ mover[b].kind = "ceiling" => Listed(activeceilings, b) \/ b \in leftout

(* The I_Error of P_RemoveActivePlat, "can't find plat!", is never met.    *)
PlatsFound == call.op = "I_Error" => call.why # "can't find plat"

(* A sector has one mover, the one specialdata points to ("if the sector   *)
(* has an active thinker, use it"), unless a line opens its door once or   *)
(* it is the ring of a donut (EV_VerticalDoor and EV_DoDonut do not look   *)
(* at specialdata there): these may get a second one, and the first end of *)
(* the two clears specialdata.                                             *)
Doubled == {OpenLines[line] : line \in Lines} \cup {DonutRing[s] : s \in Sectors \ OnlyAround}

OneMoverEach ==
  \A b \in Blocks : Live(b) =>
    specialdata[mover[b].sector] = b \/ mover[b].sector \in Doubled

(* P_RunThinkers gives every mover one turn a tic: the ones before its     *)
(* place in the list have had theirs, the ones from it on have not,        *)
(* whatever is removed, freed or started meanwhile.                        *)
EachOncePerTic ==
  current # 0 => \A i \in DOMAIN thinkers : thinkers[i] \in ran <=> i < current

(* What is worth saving, of all that moved when the game was saved.        *)
Lasting(level)  == {b \in Blocks : level.mover[b] # NULL /\ level.mover[b].fn # "removed"}

StoppedPlats(level) ==
  {b \in Lasting(level) : level.mover[b].kind = "plat" /\ level.mover[b].fn = "null"}

Restored(level, S) ==
  /\ Contents(thinkers, mover) = Contents(Only(level.thinkers, S), level.mover)
  /\ \A s \in Sectors : level.specialdata[s] \in S =>
       specialdata[s] # NULL /\ mover[specialdata[s]] = level.mover[level.specialdata[s]]

AllLoaded == call.op = "load" /\ call.next > Len(saved.movers)

(* When a game has been loaded, the same movers are in the list in the     *)
(* same order and state as when it was saved, and each sector belongs to   *)
(* the same one, with the exception of plats that were stopped             *)
(* (P_ArchiveSpecials looks for what has no function among the ceilings    *)
(* only), if every ceiling had found a place in activeceilings.            *)
LoadRestores ==
  AllLoaded /\ saved.level.leftout = {}
    => Restored(saved.level, Lasting(saved.level) \ StoppedPlats(saved.level))
=============================================================================
