-------------------------------- MODULE DLoop --------------------------------
(***************************************************************************)
(* The main loop of a node that plays (d_loop.c): it makes commands for    *)
(* tics to come (BuildNewTic), receives the complete tics of the server    *)
(* (D_ReceiveTic), and runs those it has (TryRunTics), all of them in one  *)
(* ring of BACKUPTICS sets of commands.  It waits for tics, but not        *)
(* forever, and goes on alone when the server is lost.                     *)
(*                                                                         *)
(* gametic counts sets of commands: each is run ticdup times in one go.    *)
(* The contents of a command are abstracted to the tic it was made for, so *)
(* TicdupSquash, which edits a command between its runs, leaves no trace.  *)
(***************************************************************************)
EXTENDS Integers, Sequences, FiniteSetsExt

CONSTANTS
  LoopPlayers,  \* the numbers of the players of the game
  RingSize,     \* BACKUPTICS
  NetLead,      \* tics made ahead with new_sync (8) ...
  SoloAhead,    \* ... when not connected (2) ...
  OldLead,      \* ... and without new_sync (5)
  ServerLead,   \* tics the server gets ahead of the node's own (11)
  StallTics,    \* MAX_NETGAME_STALL_TICS
  LastTic,      \* bound: tics of a run
  MaxDue        \* bound: clock ticks and tics that may be waiting for NetUpdate

ASSUME LoopAssumption ==
  /\ {RingSize, NetLead, SoloAhead, OldLead, ServerLead, StallTics, LastTic} \subseteq Nat
  /\ MaxDue \in Nat \ {0}
  /\ NetLead + 1 + ServerLead <= RingSize /\ OldLead + ServerLead <= RingSize

VARIABLES
  config,       \* [localplayer, drone, new_sync, singletics], constant in a run
  net_client_connected,
  maketic, recvtic, gametic,
  ticdata,      \* the ring: sets of commands [cmds, ingame]
  local_playeringame,
  skiptics,
  pc,           \* TryRunTics: outside, wait loop, run loop; quit is I_Error
  lowtic, counts,
  due,          \* clock ticks since lasttime
  stall,        \* clock ticks since entertic
  others,       \* players the server still has, without this node
  incoming      \* complete tics that have reached this node's socket

dloopVars == <<config, net_client_connected, maketic, recvtic, gametic, ticdata,
               local_playeringame, skiptics, pc, lowtic, counts, due, stall,
               others, incoming>>

None == -1   \* a command never made
localplayer == config.localplayer
drone       == config.drone

Smaller(x, y) == IF x < y THEN x ELSE y
-----------------------------------------------------------------------------
(* BuildNewTic, called once for each due tic: how many it makes.           *)
RoomFor(connected) ==
  LET lead    == IF ~config.new_sync THEN OldLead
                 ELSE IF connected THEN NetLead + 1 ELSE Smaller(NetLead, SoloAhead) + 1
      highest == Smaller(gametic' + lead, LastTic)
  IN IF drone \/ highest < maketic THEN 0 ELSE highest - maketic

(* The ring.  D_ReceiveTic leaves the part of the local player alone.      *)
Slot(t) == t % RingSize
Myself  == IF drone THEN {} ELSE {localplayer}

ReceiveTic(set, t, mask) ==
  [cmds   |-> [p \in LoopPlayers |-> IF p \in Myself THEN set.cmds[p]
                                     ELSE IF p \in mask THEN t ELSE None],
   ingame |-> (mask \ Myself) \cup (set.ingame \cap Myself)]

MakeTic(set, t) == [cmds   |-> [set.cmds EXCEPT ![localplayer] = t],
                    ingame |-> set.ingame \cup {localplayer}]

(* Of the tics before to, the last that goes into slot i.                  *)
LastIn(i, to) == to - 1 - ((to - 1 - i) % RingSize)

(* The ring after the tics of in, and after n commands made.  Of the tics  *)
(* that go into one slot the last is what stays.                           *)
Received(in) ==
  [i \in DOMAIN ticdata |->
     LET t == LastIn(i, recvtic + Len(in))
     IN IF t >= recvtic THEN ReceiveTic(ticdata[i], t, in[t - recvtic + 1]) ELSE ticdata[i]]

Made(ring, n) ==
  [i \in DOMAIN ring |->
     LET t == LastIn(i, maketic + n)
     IN IF t >= maketic THEN MakeTic(ring[i], t) ELSE ring[i]]

(* NET_CL_Run, which finds the connection lost or takes what has come, and *)
(* the tics that are due.  With singletics there is neither; TryRunTics    *)
(* calls BuildNewTic itself.                                               *)
NewTics  == IF skiptics <= due THEN due - skiptics ELSE 0
SkipLeft == IF skiptics <= due THEN 0 ELSE skiptics - due

Update(in, lost, newtics) ==
  /\ net_client_connected' = (net_client_connected /\ ~lost)
  /\ recvtic' = recvtic + Len(in)
  /\ LET n == Smaller(newtics, RoomFor(net_client_connected'))
     IN /\ maketic' = maketic + n
        /\ ticdata' = Made(Received(in), n)
  /\ incoming' = <<>>

NetUpdate ==
  IF config.singletics
  THEN UNCHANGED <<net_client_connected, maketic, recvtic, ticdata, incoming>>
  ELSE \/ Update(incoming, FALSE, NewTics)
       \/ /\ net_client_connected
          /\ \E k \in 0..Len(incoming) : Update(SubSeq(incoming, 1, k), TRUE, NewTics)

Elapsed ==
  IF config.singletics THEN UNCHANGED <<due, skiptics>>
  ELSE due' = 0 /\ skiptics' = SkipLeft

(* D_Disconnected is fatal for a drone.                                    *)
Fatal == drone /\ net_client_connected /\ ~net_client_connected'

(* After NetUpdate.  The first definition does not notice that the server  *)
(* is lost.                                                                *)
GetRecvTic == IF drone \/ recvtic' < maketic' THEN recvtic' ELSE maketic'

GetLowTic ==
  IF net_client_connected' /\ (drone \/ recvtic' < maketic') THEN recvtic' ELSE maketic'

PlayersInGame(connected) == ~drone \/ (connected /\ local_playeringame # {})
-----------------------------------------------------------------------------
(* TryRunTics up to its wait loop.  realtics is the time since the last    *)
(* call.                                                                   *)
CountsFor(realtics, available) ==
  LET n == IF config.new_sync \/ realtics >= available THEN available
           ELSE IF realtics < available - 1 THEN realtics + 1
           ELSE realtics
  IN IF n < 1 THEN 1 ELSE n

(* OldNetSync of a node that is not the first player: behind the server,   *)
(* it makes a tic more; ahead of it in four frames (how many is not        *)
(* followed), a tic less.                                                  *)
Adapts == ~config.new_sync /\ net_client_connected' /\ local_playeringame # {}
            /\ localplayer # Min(local_playeringame)

OldNetSync ==
  IF Adapts
  THEN /\ due' = IF maketic' <= recvtic' THEN 1 ELSE 0
       /\ skiptics' \in {SkipLeft} \cup (IF maketic' > recvtic' THEN {1} ELSE {})
  ELSE Elapsed

TryRunTics ==
  /\ pc = "outside"
  /\ UNCHANGED <<config, local_playeringame, gametic, others>>
  /\ IF config.singletics THEN Update(<<>>, FALSE, 1) ELSE NetUpdate
  /\ OldNetSync
  /\ lowtic' = GetLowTic
  /\ \E realtics \in 0..MaxDue : counts' = CountsFor(realtics, lowtic' - gametic)
  /\ stall' = 0
  /\ pc' = IF Fatal THEN "quit" ELSE "loop"

(* A round of the wait loop.  MAX_NETGAME_STALL_TICS after the call of     *)
(* TryRunTics it gives up, but only when tics are missing.  (NeverGivesUp  *)
(* waits as long as it takes.)                                             *)
Waits   == ~PlayersInGame(net_client_connected) \/ lowtic < gametic + counts
Missing == lowtic' < gametic + counts

NeverGivesUp == FALSE

GivesUp == Missing /\ stall >= StallTics

WaitForTics ==
  /\ pc = "loop" /\ Waits
  /\ UNCHANGED <<config, local_playeringame, gametic, counts, stall, others>>
  /\ NetUpdate /\ Elapsed
  /\ lowtic' = GetLowTic
  /\ pc' = IF Fatal \/ lowtic' < gametic THEN "quit"
           ELSE IF GivesUp THEN "outside" ELSE "loop"

(* A tic of the run loop, and the NetUpdate after it.  Without a server    *)
(* the other players are out (SinglePlayerClear; not so in the first       *)
(* definition of the set).                                                 *)
Runs == IF pc = "loop" THEN ~Waits ELSE pc = "run"

SetAsReceived == ticdata[Slot(gametic)]

SetToRun ==
  LET set == ticdata[Slot(gametic)]
  IN IF net_client_connected THEN set
     ELSE [set EXCEPT !.ingame = @ \cap {localplayer}]

RunTic ==
  /\ Runs /\ PlayersInGame(net_client_connected)
  /\ UNCHANGED <<config, lowtic, stall, others>>
  /\ gametic' = gametic + 1
  /\ local_playeringame' = SetToRun.ingame
  /\ NetUpdate /\ Elapsed
  /\ counts' = counts - 1
  /\ pc' = IF Fatal THEN "quit" ELSE IF counts' = 0 THEN "outside" ELSE "run"

NobodyLeft ==
  /\ Runs /\ ~PlayersInGame(net_client_connected)
  /\ pc' = "outside"
  /\ UNCHANGED <<config, net_client_connected, maketic, recvtic, gametic, ticdata,
                 local_playeringame, skiptics, lowtic, counts, due, stall, others, incoming>>

(* NetUpdate is called while a frame is drawn (R_RenderPlayerView).        *)
Render ==
  /\ pc = "outside"
  /\ UNCHANGED <<config, local_playeringame, gametic, lowtic, counts, stall, others>>
  /\ NetUpdate /\ Elapsed
  /\ pc' = IF Fatal THEN "quit" ELSE pc
-----------------------------------------------------------------------------
(* The world: time passes; a player leaves the game; a complete tic comes  *)
(* from the server.  It waits for the commands of the others, but not for  *)
(* those of the node it sends to (PumpSendQueue), and so gets ahead of     *)
(* them: how far, its limits and BuildNewTic's decide (HeldTogether in     *)
(* NetGameData).                                                           *)
inside == <<config, net_client_connected, maketic, recvtic, gametic, ticdata,
            local_playeringame, skiptics, pc, lowtic, counts>>

Clock ==
  /\ due < MaxDue \/ stall < StallTics
  /\ due' = Smaller(due + 1, MaxDue)
  /\ stall' = Smaller(stall + 1, StallTics)
  /\ UNCHANGED <<inside, others, incoming>>

Leave ==
  /\ \E p \in others : others' = others \ {p}
  /\ UNCHANGED <<inside, due, stall, incoming>>

NextTic == recvtic + Len(incoming)

Arrive ==
  /\ net_client_connected /\ NextTic < LastTic /\ Len(incoming) < MaxDue
  /\ ~drone => NextTic < maketic + ServerLead
  /\ incoming' = Append(incoming, others \cup Myself)
  /\ UNCHANGED <<inside, due, stall, others>>
-----------------------------------------------------------------------------
(* D_StartNetGame has set the game up.                                     *)
Configs ==
  [localplayer : LoopPlayers, drone : BOOLEAN, new_sync : BOOLEAN, singletics : BOOLEAN]

DLoopInit ==
  /\ config \in {c \in Configs : c.drone => c.localplayer = Min(LoopPlayers) /\ ~c.singletics}
  /\ net_client_connected \in BOOLEAN
  /\ drone => net_client_connected
  /\ config.singletics => ~net_client_connected
  /\ maketic = 0 /\ recvtic = 0 /\ gametic = 0
  /\ ticdata = [i \in 0..(RingSize - 1) |->
                  [cmds |-> [p \in LoopPlayers |-> None], ingame |-> {}]]
  /\ local_playeringame = IF net_client_connected THEN LoopPlayers ELSE {localplayer}
  /\ ~net_client_connected => localplayer = Min(LoopPlayers)
  /\ others = IF net_client_connected THEN LoopPlayers \ Myself ELSE {}
  /\ skiptics = 0 /\ pc = "outside" /\ lowtic = 0 /\ counts = 0
  /\ due = 0 /\ stall = 0 /\ incoming = <<>>

Loop == TryRunTics \/ WaitForTics \/ RunTic \/ NobodyLeft

DLoopNext == Loop \/ Render \/ Clock \/ Leave \/ Arrive

DLoopSpec == DLoopInit /\ [][DLoopNext]_dloopVars
-----------------------------------------------------------------------------
DLoopTypeOK ==
  /\ config \in Configs
  /\ maketic \in 0..LastTic /\ recvtic \in 0..LastTic /\ gametic \in 0..LastTic
  /\ \A i \in DOMAIN ticdata :
       ticdata[i] \in [cmds : [LoopPlayers -> {None} \cup 0..LastTic], ingame : SUBSET LoopPlayers]
  /\ pc \in {"outside", "loop", "run", "quit"}
  /\ lowtic \in 0..LastTic /\ counts \in Nat
  /\ due \in 0..MaxDue /\ skiptics \in 0..1 /\ stall \in 0..StallTics
  /\ others \subseteq LoopPlayers
  /\ pc = "quit" => drone /\ ~net_client_connected

(* A tic is run with the commands made for it, its own player's among      *)
(* them: none that the ring still holds from a tic before, and none of a   *)
(* tic to come over it, made by BuildNewTic or received by D_ReceiveTic,   *)
(* the two of which run ahead of gametic and of each other (a connection   *)
(* lost in between changes nothing of it).                                 *)
(* A drone makes no commands, and nothing stops the server's from          *)
(* overrunning the ring of one that is slow.                               *)
RightTics ==
  [][gametic' # gametic /\ ~drone =>
       /\ localplayer \in local_playeringame'
       /\ \A p \in local_playeringame' : ticdata[Slot(gametic)].cmds[p] = gametic
    ]_dloopVars

(* The program runs and time passes.  Nothing is assumed of the server.    *)
DLoopFairness == WF_dloopVars(Loop) /\ WF_dloopVars(Clock)

(* The game never stops for good at a tic that has come from the server,   *)
(* whether its own command was there first or not, nor when there is no    *)
(* server any more: it goes on alone.  Only a drone ends with the server,  *)
(* or has nobody left to watch.                                            *)
GameGoesOn ==
  []<>(\/ gametic = LastTic
       \/ net_client_connected /\ NextTic <= gametic
       \/ drone /\ (pc = "quit" \/ local_playeringame = {}))

(* TryRunTics returns to the main loop, which shows the menu, even when no *)
(* tic comes (MAX_NETGAME_STALL_TICS).  Not so for a drone that has tics   *)
(* but no players.                                                         *)
TryRunTicsReturns == pc = "loop" ~> (pc # "loop" \/ (drone /\ local_playeringame = {}))
=============================================================================
