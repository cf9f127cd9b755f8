---------------------------- MODULE NetLobbyProofs ----------------------------
(***************************************************************************)
(* The lobby of the server, for any number of clients and slots.           *)
(*                                                                         *)
(* That no client has two slots, nobody is ready for a game that is not    *)
(* being started and nobody is renumbered while one runs depends on the    *)
(* slots alone (SlotInv).  That the clients in a game agree with the       *)
(* server about it depends on what they know and on what is in flight, the *)
(* connections' doing included: LobbyInv says, client by client and slot   *)
(* by slot, how the two ends of a connection can differ.                   *)
(***************************************************************************)
EXTENDS NetLobby, ListsProofs, TLAPS

SlotTypes ==
  /\ server_state \in {"WAITING_LAUNCH", "WAITING_START", "IN_GAME"}
  /\ cstate \in [Slots -> CStates]
  /\ addr \in [Slots -> Addrs \cup {Nobody}]
  /\ \A s \in Slots : cstate[s] = "FREE" <=> addr[s] = Nobody
  /\ ready \in [Slots -> BOOLEAN]

(* A client has one slot at most.                                          *)
OneSlot == \A s, t \in Slots : addr[s] # Nobody /\ addr[s] = addr[t] => s = t

(* NoStaleReady, with those that only have to acknowledge: a GAMESTART may *)
(* come before the ACK of its sender, and make a slot ready that is not    *)
(* connected yet.                                                          *)
NobodyReady ==
  server_state = "WAITING_LAUNCH" =>
    \A s \in Slots : cstate[s] \in {"WAITING_ACK", "CONNECTED"} => ~ready[s]

SlotInv == SlotTypes /\ OneSlot /\ NobodyReady
-----------------------------------------------------------------------------
LEMMA InitSlots == Init => SlotInv
BY LobbyAssumption DEF Init, SlotInv, SlotTypes, OneSlot, NobodyReady, CStates

(* NET_SV_ParseSYN: s is a slot of c already, or c has none.               *)
LEMMA NewClientSlots ==
  ASSUME SlotInv, NEW c \in Addrs, NEW s \in Slots,
         \/ FindClient(c) = {} /\ cstate[s] = "FREE"
         \/ s \in FindClient(c),
         NewClient(c, s), server_state' = server_state
  PROVE  SlotInv'
<1>1. /\ cstate \in [Slots -> CStates] /\ addr \in [Slots -> Addrs \cup {Nobody}]
      /\ \A t \in Slots : cstate[t] = "FREE" <=> addr[t] = Nobody
      /\ ready \in [Slots -> BOOLEAN]
      /\ c # Nobody
  BY LobbyAssumption DEF SlotInv, SlotTypes
<1>2. \A t \in Slots : addr[t] = c => t = s
  BY <1>1 DEF SlotInv, OneSlot, FindClient
<1> DEFINE cs == [cstate EXCEPT ![s] = "FREE"]
<1>3. CASE AcceptSYN(c, s, cs)
  <2>1. /\ cstate' = [cstate EXCEPT ![s] = "WAITING_ACK"]
        /\ addr' = [addr EXCEPT ![s] = c]
        /\ ready' = [ready EXCEPT ![s] = FALSE]
    BY <1>1, <1>3 DEF AcceptSYN
  <2>2. SlotTypes'
    BY <1>1, <2>1 DEF SlotInv, SlotTypes, CStates
  <2>3. OneSlot'
    BY <1>1, <1>2, <2>1 DEF SlotInv, OneSlot
  <2>4. NobodyReady'
    BY <1>1, <2>1 DEF SlotInv, NobodyReady
  <2> QED BY <2>2, <2>3, <2>4 DEF SlotInv
<1>4. CASE RejectSYN(c, s, cs)
  <2>1. /\ cstate' = cs /\ addr' = [addr EXCEPT ![s] = Nobody] /\ ready' = ready
    BY <1>4 DEF RejectSYN
  <2>2. SlotTypes'
    BY <1>1, <2>1 DEF SlotInv, SlotTypes, CStates
  <2>3. OneSlot'
    BY <1>1, <2>1 DEF SlotInv, OneSlot
  <2>4. NobodyReady'
    BY <1>1, <2>1 DEF SlotInv, NobodyReady
  <2> QED BY <2>2, <2>3, <2>4 DEF SlotInv
<1> QED BY <1>3, <1>4 DEF NewClient

LEMMA ParseSYNSlots ==
  ASSUME SlotInv, NEW c \in Addrs, ParseSYN(c)
  PROVE  SlotInv'
<1>1. CASE UNCHANGED <<slots, sv_players, sv_gamemode, ready, down>>
  <2>1. UNCHANGED <<server_state, cstate, addr, ready>>
    BY <1>1 DEF ParseSYN, slots
  <2> QED BY <2>1 DEF SlotInv, SlotTypes, OneSlot, NobodyReady
<1>2. CASE Accepts(server_state)
  <2> DEFINE known == FindClient(c)
             pool  == IF known = {} THEN FreeSlots(cstate)
                      ELSE {s \in known : cstate[s] = "DISCONNECTED"}
  <2>1. PICK s \in pool : NewClient(c, s)
    BY <1>2 DEF ParseSYN
  <2>2. /\ s \in Slots
        /\ (FindClient(c) = {} /\ cstate[s] = "FREE") \/ s \in FindClient(c)
    BY DEF FreeSlots, FindClient
  <2>3. server_state' = server_state
    BY DEF ParseSYN
  <2> QED BY <2>1, <2>2, <2>3, NewClientSlots
<1> QED BY <1>1, <1>2 DEF ParseSYN

LEMMA ServerHearsSlots ==
  ASSUME SlotInv, NEW c \in Addrs,
         ReceiveACK(c) \/ ReceiveDisconnect(c) \/ ReceiveDisconnectACK(c)
  PROVE  SlotInv'
<1>1. UNCHANGED <<server_state, addr, ready>>
  BY DEF ReceiveACK, ReceiveDisconnect, ReceiveDisconnectACK, ServerHears, lobby
<1>2. \E s \in Slots :
        \/ cstate[s] = "WAITING_ACK" /\ cstate' = [cstate EXCEPT ![s] = "CONNECTED"]
        \/ /\ cstate[s] # "FREE"
           /\ \E to \in {"DISCONNECTED", "DISCONNECTED_SLEEP"} :
                cstate' = [cstate EXCEPT ![s] = to]
  BY DEF ReceiveACK, ReceiveDisconnect, ReceiveDisconnectACK, ServerHears, FindClient
<1>3. SlotTypes'
  BY <1>1, <1>2 DEF SlotInv, SlotTypes, CStates
<1>4. OneSlot'
  BY <1>1 DEF SlotInv, OneSlot
<1>5. NobodyReady'
  BY <1>1, <1>2 DEF SlotInv, SlotTypes, NobodyReady
<1> QED BY <1>3, <1>4, <1>5 DEF SlotInv

(* The startup: a launch ends WAITING_LAUNCH, and nobody is made ready     *)
(* before it.                                                              *)
LEMMA StartupSlots ==
  ASSUME SlotInv, NEW c \in Addrs, NEW s \in Slots,
         ParseLaunch(c, s) \/ ParseGameStart(c, s)
  PROVE  SlotInv'
<1>1. UNCHANGED <<cstate, addr>>
  BY DEF ParseLaunch, ParseGameStart, slots
<1>2. \/ /\ ready' = ready
         /\ server_state' = server_state \/ server_state' = "WAITING_START"
      \/ /\ ready' = [ready EXCEPT ![s] = TRUE]
         /\ server_state = "WAITING_START"
         /\ server_state' = server_state \/ server_state' = "IN_GAME"
  BY DEF ParseLaunch, ParseGameStart, StartGame
<1>3. SlotTypes'
  BY <1>1, <1>2 DEF SlotInv, SlotTypes
<1>4. OneSlot'
  BY <1>1 DEF SlotInv, OneSlot
<1>5. NobodyReady'
  BY <1>1, <1>2 DEF SlotInv, NobodyReady
<1> QED BY <1>3, <1>4, <1>5 DEF SlotInv

(* The end of a game or of a startup leaves no slot that was ready.        *)
LEMMA DropClientSlots ==
  ASSUME SlotInv, NEW s \in Slots, DropClient(s)
  PROVE  SlotInv'
<1> DEFINE cs == [cstate EXCEPT ![s] = "FREE"]
<1>1. /\ addr' = [addr EXCEPT ![s] = Nobody]
      /\ ready' = [ready EXCEPT ![s] = FALSE]
      /\ \/ cstate' = Dropped(cs) /\ server_state' = "WAITING_LAUNCH"
         \/ cstate' = cs /\ server_state' = server_state
  BY DEF DropClient
<1>2. cs \in [Slots -> CStates]
  BY DEF SlotInv, SlotTypes, CStates
<1>3. /\ Dropped(cs) \in [Slots -> CStates]
      /\ \A t \in Slots : /\ Dropped(cs)[t] \notin {"WAITING_ACK", "CONNECTED"}
                          /\ Dropped(cs)[t] = "FREE" <=> cs[t] = "FREE"
  <2> HIDE DEF cs
  <2> QED BY <1>2 DEF Dropped, CStates
<1>4. SlotTypes'
  <2>1. server_state' \in {"WAITING_LAUNCH", "WAITING_START", "IN_GAME"}
    BY <1>1 DEF SlotInv, SlotTypes
  <2>2. addr' \in [Slots -> Addrs \cup {Nobody}] /\ ready' \in [Slots -> BOOLEAN]
    BY <1>1 DEF SlotInv, SlotTypes
  <2>3. cstate' \in [Slots -> CStates]
    BY <1>1, <1>2, <1>3
  <2>4. \A t \in Slots : cstate'[t] = "FREE" <=> cs[t] = "FREE"
    BY <1>1, <1>3
  <2>5. \A t \in Slots : cs[t] = "FREE" <=> addr'[t] = Nobody
    BY <1>1 DEF SlotInv, SlotTypes
  <2> QED BY <2>1, <2>2, <2>3, <2>4, <2>5 DEF SlotTypes
<1>5. OneSlot'
  BY <1>1 DEF SlotInv, SlotTypes, OneSlot
<1>6. NobodyReady'
  <2>1. CASE cstate' = Dropped(cs)
    BY <2>1, <1>3 DEF NobodyReady
  <2>2. CASE cstate' = cs /\ server_state' = server_state
    BY <2>2, <1>1 DEF SlotInv, SlotTypes, NobodyReady
  <2> QED BY <2>1, <2>2, <1>1
<1> QED BY <1>4, <1>5, <1>6 DEF SlotInv

(* The rest touches no slot; a game starts, but none ends.                 *)
LEMMA RestSlots ==
  ASSUME SlotInv, UNCHANGED <<cstate, addr, ready>>,
         server_state' = server_state \/ server_state' = "IN_GAME"
  PROVE  SlotInv'
BY DEF SlotInv, SlotTypes, OneSlot, NobodyReady

LEMMA NextSlots == SlotInv /\ [Next]_vars => SlotInv'
<1> SUFFICES ASSUME SlotInv, [Next]_vars PROVE SlotInv'
  OBVIOUS
<1>1. CASE ServerRun
  <2>1. CASE FinishRun
    BY <2>1, RestSlots DEF FinishRun, StartGame, slots
  <2>2. ASSUME NEW s \in Slots, NEW over \in BOOLEAN, NEW due \in BOOLEAN,
               RunClient(s, over, due)
        PROVE  SlotInv'
    <3>1. CASE DropClient(s)
      BY <3>1, DropClientSlots
    <3>2. CASE KeepClient(s, due)
      BY <3>2, RestSlots DEF KeepClient, slots
    <3> QED BY <2>2, <3>1, <3>2 DEF RunClient
  <2> QED BY <1>1, <2>1, <2>2 DEF ServerRun
<1>2. ASSUME NEW c \in Addrs, Packet(c) PROVE SlotInv'
  BY <1>2, ParseSYNSlots, ServerHearsSlots, StartupSlots DEF Packet
<1>3. ASSUME NEW c \in Addrs, Client(c) PROVE SlotInv'
  <2>1. UNCHANGED <<server_state, cstate, addr, ready>>
    BY <1>3 DEF Client, NET_CL_Connect, Connected, Connecting, Hangup, NET_CL_Disconnect,
         Vanishes, ParseWaitingData, NET_CL_LaunchGame, NET_CL_StartGame,
         NET_CL_ParseLaunch, NET_CL_ParseGameStart, Takes, ClientTurn, server, lobby, slots
  <2> QED BY <2>1, RestSlots
<1>4. CASE UNCHANGED vars
  BY <1>4, RestSlots DEF vars, server, lobby, slots
<1> QED BY <1>1, <1>2, <1>3, <1>4 DEF Next
-----------------------------------------------------------------------------
(* However often a SYN is repeated, and whatever is lost in between, no    *)
(* client has two slots (NET_SV_ParseSYN).                                 *)
THEOREM NoSecondSlot == Spec => []OneSlot
<1>1. SlotInv => OneSlot
  BY DEF SlotInv
<1> QED BY InitSlots, NextSlots, <1>1, PTL DEF Spec

(* A game or startup that ends takes every readiness with it.              *)
THEOREM ReadinessEnds == Spec => []NoStaleReady
<1>1. SlotInv => NoStaleReady
  BY DEF SlotInv, NobodyReady, NoStaleReady, ClientConnected
<1> QED BY InitSlots, NextSlots, <1>1, PTL DEF Spec

(* AssignPlayers runs only before a game and at its start, on every path   *)
(* that calls it.                                                          *)
THEOREM NobodyRenumbered == Spec => NumbersStable
<1>1. [Next]_vars => [server_state = "IN_GAME" /\ server_state' = "IN_GAME"
                        => UNCHANGED sv_players]_vars
  <2> SUFFICES ASSUME Next, server_state = "IN_GAME"
               PROVE  UNCHANGED sv_players
    OBVIOUS
  <2>1. CASE FinishRun
    BY <2>1 DEF FinishRun
  <2>2. ASSUME NEW s \in Slots, NEW over \in BOOLEAN, NEW due \in BOOLEAN,
               RunClient(s, over, due)
        PROVE  UNCHANGED sv_players
    BY <2>2 DEF RunClient, DropClient, KeepClient, Informs
  <2>3. ASSUME NEW c \in Addrs, Packet(c) PROVE UNCHANGED sv_players
    <3>1. CASE ParseSYN(c)
      BY <3>1 DEF ParseSYN, Accepts
    <3>2. CASE ReceiveACK(c) \/ ReceiveDisconnect(c) \/ ReceiveDisconnectACK(c)
      BY <3>2 DEF ReceiveACK, ReceiveDisconnect, ReceiveDisconnectACK, ServerHears
    <3>3. ASSUME NEW s \in Slots, ParseLaunch(c, s) \/ ParseGameStart(c, s)
          PROVE  UNCHANGED sv_players
      BY <3>3 DEF ParseLaunch, ParseGameStart
    <3> QED BY <2>3, <3>1, <3>2, <3>3 DEF Packet
  <2>4. ASSUME NEW c \in Addrs, Client(c) PROVE UNCHANGED sv_players
    BY <2>4 DEF Client, NET_CL_Connect, Connected, Connecting, Hangup, NET_CL_Disconnect,
         Vanishes, ParseWaitingData, NET_CL_LaunchGame, NET_CL_StartGame,
         NET_CL_ParseLaunch, NET_CL_ParseGameStart, Takes, ClientTurn, server
  <2> QED BY <2>1, <2>2, <2>3, <2>4 DEF Next, ServerRun
<1> QED BY <1>1, PTL DEF Spec, NumbersStable
-----------------------------------------------------------------------------
(* The state that the lobby is built from, and what is in flight.          *)
LobbyTypes ==
  /\ sv_players \in Seq(Slots) /\ NoDuplicates(sv_players)
  /\ sv_gamemode \in {ModeOf[c] : c \in Addrs} \cup {indetermined}
  /\ turn \in Slots \cup {0}
  /\ link \in [Addrs -> {"IDLE", "CONNECTING", "CONNECTED", "DISCONNECTING",
                         "HUNGUP", "LOST"}]
  /\ client_state \in [Addrs -> {"WAITING_LAUNCH", "WAITING_START", "IN_GAME"}]
  /\ is_controller \in [Addrs -> BOOLEAN] /\ started \in [Addrs -> BOOLEAN]
  /\ game \in [Addrs -> Settings \cup {NoGame}]
  /\ mail \in [Addrs -> SUBSET {"ACK", "DISCONNECT"}]
  /\ offer \in [Addrs -> SUBSET BOOLEAN]
  /\ up \in [Addrs -> Seq({"LAUNCH", "GAMESTART"})]
  /\ down \in [Addrs -> Seq(Settings \cup {LAUNCH})]

(* The players by age: by_age holds the slots of players, each once.       *)
Seniority ==
  /\ by_age \in Seq(Slots) /\ NoDuplicates(by_age)
  /\ Entries(by_age) = {s \in Slots : addr[s] \in Addrs \ Drones}

(* The settings a client has or has coming.                                *)
Starts(c) == {p \in Entries(down[c]) \cup {game[c]} : p.type = "GAMESTART"}

(* A client that is not connected knows nothing of a game, and one that    *)
(* was never or is no longer heard of has sent nothing that is delivered.  *)
Outsider(c) ==
  /\ link[c] # "CONNECTED" =>
       client_state[c] = "WAITING_LAUNCH" /\ game[c] = NoGame /\ down[c] = <<>>
  /\ link[c] \notin {"CONNECTED", "DISCONNECTING"} => up[c] = <<>>

(* What it is told is sane but for the number itself, which the client may *)
(* find too high.                                                          *)
Fitting(c, p) == /\ p.num_players <= NET_MAXPLAYERS
                 /\ (c \in Drones) = (p.consoleplayer < 0)

(* One that has been told, and one that has said, that it starts, has left *)
(* NET_WaitForLaunch; what it was told fits, what it plays by is sane.     *)
Startup(c) ==
  /\ link[c] = "CONNECTED" /\ "GAMESTART" \in Entries(up[c]) =>
       client_state[c] # "WAITING_LAUNCH"
  /\ \A p \in Entries(down[c]) : p.type = "GAMESTART" => client_state[c] # "WAITING_LAUNCH"
  /\ \A p \in Starts(c) : Fitting(c, p)
  /\ client_state[c] = "IN_GAME" => game[c].type = "GAMESTART" /\ SaneStart(c, game[c])

ClientOK(c) == Outsider(c) /\ Startup(c)

(* The slot of a client that has not acknowledged yet stands for one that  *)
(* was never told of a launch and is not ready.                            *)
Unheard(s) ==
  cstate[s] = "WAITING_ACK" =>
    /\ ~ready[s]
    /\ client_state[addr[s]] = "WAITING_LAUNCH"
    /\ down[addr[s]] = <<>>
    /\ "GAMESTART" \notin Entries(up[addr[s]])

(* A slot is ready for a client that came and, if still there, waits for   *)
(* the start; only one that hung up answers a hang-up.                     *)
Behind(s) ==
  /\ ready[s] /\ addr[s] # Nobody =>
       /\ link[addr[s]] \notin {"IDLE", "CONNECTING"}
       /\ link[addr[s]] = "CONNECTED" => client_state[addr[s]] # "WAITING_LAUNCH"
  /\ cstate[s] = "DISCONNECTED" => link[addr[s]] \in {"HUNGUP", "LOST"}

(* What NumPlayers makes of the assigned: the array has no more places.    *)
Places(svp) == IF Len(svp) <= NET_MAXPLAYERS THEN Len(svp) ELSE NET_MAXPLAYERS

(* A game start that a client of the server holds, or has coming, is that  *)
(* of the game the server plays, with the number the server uses for it.   *)
Current(s) ==
  cstate[s] \in {"WAITING_ACK", "CONNECTED"} =>
    \A p \in Starts(addr[s]) :
      /\ server_state = "IN_GAME"
      /\ p = GameStart(Places(sv_players), PlayerNumber(sv_players, s))

(* StartReachesPlaced, of one slot.                                        *)
Reached(s) ==
  /\ server_state = "IN_GAME" /\ PlayerNumber(sv_players, s) < NET_MAXPLAYERS
  /\ cstate[s] = "CONNECTED" /\ ready[s] /\ link[addr[s]] = "CONNECTED"
  => \/ client_state[addr[s]] = "IN_GAME"
     \/ \E p \in Entries(down[addr[s]]) : p.type = "GAMESTART"

SlotOK(s) == Unheard(s) /\ Behind(s) /\ Current(s) /\ Reached(s)

LobbyInv ==
  /\ SlotInv /\ LobbyTypes /\ Seniority
  /\ \A c \in Addrs : ClientOK(c)
  /\ \A s \in Slots : SlotOK(s)
-----------------------------------------------------------------------------
(* NET_SV_AssignPlayers: the connected players, each once; as many as the  *)
(* clients get numbers below the number of them.                           *)
LEMMA AssignedFacts ==
  ASSUME NEW cs, NEW a
  PROVE  /\ Assigned(cs, a) \in Seq(Slots)
         /\ Entries(Assigned(cs, a)) = {s \in Slots : IsPlayer(cs, a, s)}
         /\ NoDuplicates(Assigned(cs, a))
<1> DEFINE all == [s \in Slots |-> s]
<1>1. all \in Seq(Slots) /\ Entries(all) = Slots /\ NoDuplicates(all)
  <2>1. NumSlots \in Nat
    BY LobbyAssumption
  <2> QED BY <2>1, IsASeq DEF Slots, Entries, NoDuplicates
<1> HIDE DEF all
<1>2. /\ Only(all, {s \in Slots : IsPlayer(cs, a, s)}) \in Seq(Slots)
      /\ Entries(Only(all, {s \in Slots : IsPlayer(cs, a, s)}))
           = Entries(all) \cap {s \in Slots : IsPlayer(cs, a, s)}
      /\ NoDuplicates(Only(all, {s \in Slots : IsPlayer(cs, a, s)}))
  BY <1>1, OnlyFacts
<1> QED BY <1>1, <1>2 DEF Assigned, all

LEMMA PlayerNumberFacts ==
  ASSUME NEW svp \in Seq(Slots), NoDuplicates(svp), NEW s \in Slots
  PROVE  /\ PlayerNumber(svp, s) \in -1..(Len(svp) - 1)
         /\ PlayerNumber(svp, s) >= 0 <=> s \in Entries(svp)
         /\ PlayerNumber(svp, s) >= 0 => svp[PlayerNumber(svp, s) + 1] = s
<1>1. Len(svp) \in Nat /\ DOMAIN svp = 1..Len(svp)
  OBVIOUS
<1>2. CASE s \in Entries(svp)
  <2> DEFINE k == CHOOSE i \in DOMAIN svp : svp[i] = s
  <2>1. \E i \in DOMAIN svp : svp[i] = s
    BY <1>2 DEF Entries
  <2>2. k \in DOMAIN svp /\ svp[k] = s
    BY <2>1
  <2>3. PlayerNumber(svp, s) = k - 1
    BY <2>1 DEF PlayerNumber
  <2> HIDE DEF k
  <2>4. k \in 1..Len(svp)
    BY <1>1, <2>2
  <2>5. PlayerNumber(svp, s) + 1 = k /\ PlayerNumber(svp, s) >= 0
    BY <2>3, <2>4
  <2> QED BY <1>1, <1>2, <2>2, <2>3, <2>4, <2>5
<1>3. CASE s \notin Entries(svp)
  <2>1. PlayerNumber(svp, s) = -1
    BY <1>3 DEF Entries, PlayerNumber
  <2> QED BY <1>1, <1>3, <2>1
<1> QED BY <1>2, <1>3

LEMMA Interval ==
  ASSUME NEW n \in Nat
  PROVE  IsFiniteSet(1..n) /\ Cardinality(1..n) = n
<1>1. Cardinality(1..n) = IF 1 > n THEN 0 ELSE n - 1 + 1
  BY FS_Interval
<1> QED BY <1>1, FS_Interval

(* A list of slots is no longer than there are slots.                      *)
LEMMA AtMost ==
  ASSUME NEW svp \in Seq(Slots), NoDuplicates(svp)
  PROVE  Len(svp) <= NumSlots
<1>1. /\ Len(svp) \in Nat /\ DOMAIN svp = 1..Len(svp)
      /\ \A i \in 1..Len(svp) : svp[i] \in Slots
  OBVIOUS
<1>2. NumSlots \in Nat
  BY LobbyAssumption
<1>3. Cardinality(1..Len(svp)) = Len(svp) /\ Cardinality(Slots) = NumSlots /\ IsFiniteSet(Slots)
  BY <1>1, <1>2, Interval DEF Slots
<1>4. svp \in Injection(1..Len(svp), Slots)
  BY <1>1 DEF NoDuplicates, Injection, IsInjective
<1>5. Cardinality(1..Len(svp)) <= Cardinality(Slots)
  BY <1>3, <1>4, FS_Injection
<1> QED BY <1>3, <1>5

LEMMA PlacesType ==
  ASSUME NEW svp \in Seq(Slots)
  PROVE  Places(svp) \in 0..NET_MAXPLAYERS /\ Places(svp) <= Len(svp)
BY LobbyAssumption DEF Places

(* NET_SV_NumPlayers right after NET_SV_AssignPlayers.                     *)
LEMMA AllCounted ==
  ASSUME NEW cs, NEW a
  PROVE  NumPlayers(Assigned(cs, a), cs) = Places(Assigned(cs, a))
<1>1. PICK svp \in Seq(Slots) : svp = Assigned(cs, a)
  BY AssignedFacts
<1>2. \A i \in DOMAIN svp : ClientConnected(cs, svp[i])
  BY <1>1, AssignedFacts DEF Entries, IsPlayer
<1>3. Len(svp) \in Nat /\ DOMAIN svp = 1..Len(svp) /\ NET_MAXPLAYERS \in Nat
  BY LobbyAssumption
<1>4. {i \in DOMAIN svp : i <= NET_MAXPLAYERS /\ ClientConnected(cs, svp[i])}
        = 1..Places(svp)
  BY <1>2, <1>3 DEF Places
<1>5. Cardinality(1..Places(svp)) = Places(svp)
  <2>1. Places(svp) \in Nat
    BY <1>3 DEF Places
  <2> QED BY <2>1, Interval
<1> QED BY <1>1, <1>4, <1>5 DEF NumPlayers

(* NET_SV_Run runs slots that are active.                                  *)
LEMMA TurnIsActive ==
  ASSUME SlotTypes, turn \in Slots \cup {0}, NextTurn \in Slots
  PROVE  cstate[NextTurn] # "FREE"
<1> DEFINE rest == {s \in Slots : s > turn /\ cstate[s] # "FREE"}
<1>1. rest # {}
  BY DEF NextTurn, Slots
<1>2. rest \subseteq Nat
  BY DEF Slots
<1> HIDE DEF rest
<1>3. \E s \in rest : \A t \in rest : s <= t
  BY <1>1, <1>2, LeastNumber
<1>4. First(rest) \in rest
  BY <1>3 DEF First
<1>5. NextTurn = First(rest)
  BY <1>1 DEF NextTurn, rest
<1> QED BY <1>4, <1>5 DEF rest
-----------------------------------------------------------------------------
(* What a step leaves alone stays in order.                                *)
SameClient(c) ==
  /\ link'[c] = link[c] /\ client_state'[c] = client_state[c] /\ game'[c] = game[c]
  /\ down'[c] = down[c] /\ up'[c] = up[c]

(* The numbers matter while a game runs.                                   *)
SameNumbers ==
  /\ server_state = "IN_GAME" <=> server_state' = "IN_GAME"
  /\ server_state = "IN_GAME" => sv_players' = sv_players

SameSlot(s) == cstate'[s] = cstate[s] /\ addr'[s] = addr[s] /\ ready'[s] = ready[s]

LEMMA ClientFrame ==
  ASSUME NEW c \in Addrs, ClientOK(c), SameClient(c)
  PROVE  ClientOK(c)'
BY DEF ClientOK, SameClient, Outsider, Startup, Starts, Fitting, SaneStart

LEMMA FreeSlot ==
  ASSUME NEW s \in Slots, cstate'[s] = "FREE", addr'[s] = Nobody
  PROVE  SlotOK(s)'
BY DEF SlotOK, Unheard, Behind, Current, Reached

LEMMA SlotFrame ==
  ASSUME SlotTypes, NEW s \in Slots, SlotOK(s), SameSlot(s), SameNumbers,
         addr[s] \in Addrs => SameClient(addr[s])
  PROVE  SlotOK(s)'
<1>1. CASE addr[s] = Nobody
  <2>1. cstate'[s] = "FREE" /\ addr'[s] = Nobody
    BY <1>1 DEF SlotTypes, SameSlot
  <2> QED BY <2>1, FreeSlot
<1>2. CASE addr[s] \in Addrs
  <2>1. PICK c \in Addrs : c = addr[s]
    BY <1>2
  <2>2. /\ addr'[s] = c /\ cstate'[s] = cstate[s] /\ ready'[s] = ready[s]
        /\ link'[c] = link[c] /\ client_state'[c] = client_state[c] /\ game'[c] = game[c]
        /\ down'[c] = down[c] /\ up'[c] = up[c]
    BY <2>1 DEF SameSlot, SameClient
  <2>3. Starts(c)' = Starts(c)
    BY <2>2 DEF Starts
  <2>4. Unheard(s)' /\ Behind(s)'
    BY <2>1, <2>2 DEF SlotOK, Unheard, Behind
  <2>5. Current(s)'
    BY <2>1, <2>2, <2>3 DEF SlotOK, Current, SameNumbers
  <2>6. Reached(s)'
    BY <2>1, <2>2 DEF SlotOK, Reached, SameNumbers
  <2> QED BY <2>4, <2>5, <2>6 DEF SlotOK
<1> QED BY <1>1, <1>2 DEF SlotTypes

(* A step of client c alone.                                               *)
LEMMA OneClient ==
  ASSUME LobbyInv, NEW c \in Addrs, UNCHANGED <<cstate, addr, ready, server_state, sv_players>>,
         \A x \in Addrs \ {c} : SameClient(x),
         ClientOK(c)', \A s \in Slots : addr[s] = c => SlotOK(s)'
  PROVE  (\A x \in Addrs : ClientOK(x)') /\ (\A s \in Slots : SlotOK(s)')
<1>1. \A x \in Addrs : ClientOK(x)'
  BY ClientFrame DEF LobbyInv
<1>2. ASSUME NEW s \in Slots, addr[s] # c PROVE SlotOK(s)'
  <2>1. SameSlot(s) /\ SameNumbers
    BY DEF SameSlot, SameNumbers
  <2>2. addr[s] \in Addrs => SameClient(addr[s])
    BY <1>2
  <2> QED BY <2>1, <2>2, SlotFrame DEF LobbyInv, SlotInv
<1> QED BY <1>1, <1>2

(* A client that leaves, or is dropped.                                    *)
LEMMA GoneClient ==
  ASSUME LobbyTypes, NEW c \in Addrs, NEW end \in {"HUNGUP", "LOST"}, Gone(c, end)
  PROVE  /\ \A x \in Addrs \ {c} : SameClient(x)
         /\ link'[c] = end /\ client_state'[c] = "WAITING_LAUNCH" /\ game'[c] = NoGame
         /\ down'[c] = <<>> /\ up'[c] = <<>>
         /\ ClientOK(c)'
<1>1. /\ link' = [link EXCEPT ![c] = end]
      /\ client_state' = [client_state EXCEPT ![c] = "WAITING_LAUNCH"]
      /\ game' = [game EXCEPT ![c] = NoGame]
      /\ down' = [down EXCEPT ![c] = <<>>]
      /\ up' = [up EXCEPT ![c] = <<>>]
  BY DEF Gone, Forget
<1>2. \A x \in Addrs \ {c} : SameClient(x)
  BY <1>1 DEF SameClient, LobbyTypes
<1>3. /\ link'[c] = end /\ client_state'[c] = "WAITING_LAUNCH" /\ game'[c] = NoGame
      /\ down'[c] = <<>> /\ up'[c] = <<>>
  BY <1>1 DEF LobbyTypes
<1>4. Entries(<<>>) = {}
  BY DEF Entries
<1>5. ClientOK(c)'
  BY <1>3, <1>4 DEF ClientOK, Outsider, Startup, Starts, NoGame
<1> QED BY <1>2, <1>3, <1>5
(* What a client does, on its own and with what the server sends.          *)
StateOK ==
  (\A x \in Addrs : ClientOK(x)) /\ (\A s \in Slots : SlotOK(s))

ServerSame == UNCHANGED <<cstate, addr, ready, server_state, sv_players>>

LEMMA ConnectingState ==
  ASSUME LobbyInv, NEW c \in Addrs, NET_CL_Connect(c) \/ Connected(c)
  PROVE  StateOK'
<1>1. ServerSame
  BY DEF NET_CL_Connect, Connected, Connecting, ClientTurn, server, slots, lobby, ServerSame
<1>2. /\ link[c] \in {"IDLE", "CONNECTING"} /\ \E to : link' = [link EXCEPT ![c] = to]
      /\ UNCHANGED <<client_state, game, down, up>>
  BY DEF NET_CL_Connect, Connected, Connecting
<1>3. \A x \in Addrs \ {c} : SameClient(x)
  BY <1>2 DEF SameClient, LobbyInv, LobbyTypes
<1>4. /\ client_state[c] = "WAITING_LAUNCH" /\ game[c] = NoGame /\ down[c] = <<>>
      /\ up[c] = <<>>
  BY <1>2 DEF LobbyInv, ClientOK, Outsider
<1>5. Entries(<<>>) = {}
  BY DEF Entries
<1>6. ClientOK(c)'
  BY <1>2, <1>4, <1>5 DEF ClientOK, Outsider, Startup, Starts, NoGame
<1>7. ASSUME NEW s \in Slots, addr[s] = c PROVE SlotOK(s)'
  <2>1. SlotOK(s) /\ c # Nobody
    BY LobbyAssumption DEF LobbyInv
  <2>2. ~ready[s] /\ cstate[s] # "DISCONNECTED"
    BY <1>2, <1>7, <2>1 DEF SlotOK, Behind
  <2> QED BY <1>1, <1>2, <1>4, <1>5, <1>7, <2>2
          DEF ServerSame, SlotOK, Unheard, Behind, Current, Reached, Starts, NoGame
<1> QED BY <1>1, <1>3, <1>6, <1>7, OneClient DEF ServerSame, StateOK

LEMMA GoneState ==
  ASSUME LobbyInv, NEW c \in Addrs, Hangup(c) \/ Vanishes(c)
  PROVE  StateOK'
<1>1. ServerSame
  BY DEF Hangup, Vanishes, ClientTurn, server, slots, lobby, ServerSame
<1>2. PICK end \in {"HUNGUP", "LOST"} : Gone(c, end)
  BY DEF Hangup, Vanishes
<1>3. /\ \A x \in Addrs \ {c} : SameClient(x)
      /\ link'[c] = end /\ client_state'[c] = "WAITING_LAUNCH" /\ game'[c] = NoGame
      /\ down'[c] = <<>> /\ up'[c] = <<>>
      /\ ClientOK(c)'
  BY <1>2, GoneClient DEF LobbyInv
<1>4. Entries(<<>>) = {}
  BY DEF Entries
<1>5. ASSUME NEW s \in Slots, addr[s] = c PROVE SlotOK(s)'
  <2>1. SlotOK(s)
    BY DEF LobbyInv
  <2> QED BY <1>1, <1>3, <1>4, <1>5, <2>1
          DEF ServerSame, SlotOK, Unheard, Behind, Current, Reached, Starts, NoGame
<1> QED BY <1>1, <1>3, <1>5, OneClient DEF ServerSame, StateOK

LEMMA QuitState ==
  ASSUME LobbyInv, NEW c \in Addrs, NET_CL_Disconnect(c)
  PROVE  StateOK'
<1>1. ServerSame
  BY DEF NET_CL_Disconnect, ClientTurn, server, slots, lobby, ServerSame
<1>2. /\ link[c] = "CONNECTED" /\ link' = [link EXCEPT ![c] = "DISCONNECTING"]
      /\ client_state' = [client_state EXCEPT ![c] = "WAITING_LAUNCH"]
      /\ game' = [game EXCEPT ![c] = NoGame]
      /\ down' = [down EXCEPT ![c] = <<>>]
      /\ up' = up
  BY DEF NET_CL_Disconnect, Forget
<1>3. /\ \A x \in Addrs \ {c} : SameClient(x)
      /\ link'[c] = "DISCONNECTING" /\ client_state'[c] = "WAITING_LAUNCH"
      /\ game'[c] = NoGame /\ down'[c] = <<>> /\ up'[c] = up[c]
  BY <1>2 DEF SameClient, LobbyInv, LobbyTypes
<1>4. Entries(<<>>) = {}
  BY DEF Entries
<1>5. ClientOK(c)'
  BY <1>3, <1>4 DEF ClientOK, Outsider, Startup, Starts, NoGame
<1>6. ASSUME NEW s \in Slots, addr[s] = c PROVE SlotOK(s)'
  <2>1. SlotOK(s)
    BY DEF LobbyInv
  <2> QED BY <1>1, <1>2, <1>3, <1>4, <1>6, <2>1
          DEF ServerSame, SlotOK, Unheard, Behind, Current, Reached, Starts, NoGame
<1> QED BY <1>1, <1>3, <1>5, <1>6, OneClient DEF ServerSame, StateOK

(* Settings are sent by one that waits for the start.                      *)
LEMMA SubmitState ==
  ASSUME LobbyInv, NEW c \in Addrs, NET_CL_LaunchGame(c) \/ NET_CL_StartGame(c)
  PROVE  StateOK'
<1>1. ServerSame
  BY DEF NET_CL_LaunchGame, NET_CL_StartGame, ClientTurn, server, slots, lobby, ServerSame
<1>2. PICK p \in {"LAUNCH", "GAMESTART"} :
        /\ link[c] = "CONNECTED" /\ up' = [up EXCEPT ![c] = Append(up[c], p)]
        /\ p = "GAMESTART" => client_state[c] = "WAITING_START"
        /\ UNCHANGED <<link, client_state, game, down>>
  BY DEF NET_CL_LaunchGame, NET_CL_StartGame, Submit, client, toClient
<1>3. /\ \A x \in Addrs \ {c} : SameClient(x)
      /\ up'[c] = Append(up[c], p) /\ up[c] \in Seq({"LAUNCH", "GAMESTART"})
  BY <1>2 DEF SameClient, LobbyInv, LobbyTypes
<1>4. Entries(up'[c]) = Entries(up[c]) \cup {p}
  BY <1>3, AppendEntries
<1>5. ClientOK(c)
  BY DEF LobbyInv
<1>6. ClientOK(c)'
  BY <1>2, <1>4, <1>5 DEF ClientOK, Outsider, Startup, Starts, Fitting, SaneStart
<1>7. ASSUME NEW s \in Slots, addr[s] = c PROVE SlotOK(s)'
  <2>1. SlotOK(s)
    BY DEF LobbyInv
  <2>2. Starts(c)' = Starts(c)
    BY <1>2 DEF Starts
  <2> QED BY <1>1, <1>2, <1>4, <1>7, <2>1, <2>2
          DEF ServerSame, SlotOK, Unheard, Behind, Current, Reached
<1> QED BY <1>1, <1>3, <1>6, <1>7, OneClient DEF ServerSame, StateOK

LEMMA TakeLaunchState ==
  ASSUME LobbyInv, NEW c \in Addrs, NET_CL_ParseLaunch(c)
  PROVE  StateOK'
<1>1. ServerSame
  BY DEF NET_CL_ParseLaunch, Takes, server, slots, lobby, ServerSame
<1>2. /\ link[c] = "CONNECTED" /\ down[c] # <<>> /\ Head(down[c]).type = "LAUNCH"
      /\ down' = [down EXCEPT ![c] = Tail(down[c])]
      /\ client_state' = [client_state EXCEPT ![c] =
                            IF @ = "WAITING_LAUNCH" THEN "WAITING_START" ELSE @]
      /\ UNCHANGED <<link, game, up>>
  BY DEF NET_CL_ParseLaunch, Takes
<1>3. /\ \A x \in Addrs \ {c} : SameClient(x)
      /\ down'[c] = Tail(down[c]) /\ down[c] \in Seq(Settings \cup {LAUNCH})
      /\ client_state'[c] # "WAITING_LAUNCH"
      /\ client_state'[c] = "IN_GAME" <=> client_state[c] = "IN_GAME"
  BY <1>2 DEF SameClient, LobbyInv, LobbyTypes
<1>4. Entries(down[c]) = {Head(down[c])} \cup Entries(down'[c])
  BY <1>2, <1>3, TailEntries
<1>5. Starts(c)' = Starts(c)
  BY <1>2, <1>4 DEF Starts
<1>6. ClientOK(c)
  BY DEF LobbyInv
<1>7. ClientOK(c)'
  BY <1>2, <1>3, <1>5, <1>6 DEF ClientOK, Outsider, Startup, Fitting, SaneStart
<1>8. ASSUME NEW s \in Slots, addr[s] = c PROVE SlotOK(s)'
  <2>1. SlotOK(s)
    BY DEF LobbyInv
  <2> QED BY <1>1, <1>2, <1>3, <1>4, <1>5, <1>8, <2>1
          DEF ServerSame, SlotOK, Unheard, Behind, Current, Reached
<1> QED BY <1>1, <1>3, <1>7, <1>8, OneClient DEF ServerSame, StateOK

(* The client waits for the settings, and starts unless its number is too  *)
(* high for them.                                                          *)
LEMMA TakeStartState ==
  ASSUME LobbyInv, NEW c \in Addrs, NET_CL_ParseGameStart(c)
  PROVE  StateOK' /\ game' \in [Addrs -> Settings \cup {NoGame}]
<1> DEFINE p == Head(down[c])
<1>1. ServerSame
  BY DEF NET_CL_ParseGameStart, Takes, server, slots, lobby, ServerSame
<1>2. /\ link[c] = "CONNECTED" /\ down[c] # <<>> /\ p.type = "GAMESTART"
      /\ down' = [down EXCEPT ![c] = Tail(down[c])]
      /\ UNCHANGED <<link, up>>
      /\ IF client_state[c] = "WAITING_START" /\ SaneStart(c, p)
           THEN /\ client_state' = [client_state EXCEPT ![c] = "IN_GAME"]
                /\ game' = [game EXCEPT ![c] = p]
           ELSE UNCHANGED <<client_state, game>>
  BY DEF NET_CL_ParseGameStart, Takes
<1>3. /\ down[c] \in Seq(Settings \cup {LAUNCH})
      /\ client_state[c] \in {"WAITING_LAUNCH", "WAITING_START", "IN_GAME"}
      /\ game \in [Addrs -> Settings \cup {NoGame}]
  BY DEF LobbyInv, LobbyTypes
<1>4. /\ p \in Settings \cup {LAUNCH}
      /\ Entries(down[c]) = {p} \cup Entries(Tail(down[c]))
  BY <1>2, <1>3, TailEntries
<1>5. ClientOK(c)
  BY DEF LobbyInv
<1>6. client_state[c] # "WAITING_LAUNCH" /\ Fitting(c, p) /\ p \in Starts(c)
  BY <1>2, <1>4, <1>5 DEF ClientOK, Startup, Starts
<1> HIDE DEF p
<1>7. /\ \A x \in Addrs \ {c} : SameClient(x)
      /\ down'[c] = Tail(down[c]) /\ client_state'[c] \in {client_state[c], "IN_GAME"}
      /\ game'[c] \in {p, game[c]}
      /\ client_state'[c] = "IN_GAME" =>
           game'[c].type = "GAMESTART" /\ SaneStart(c, game'[c])
      /\ client_state[c] = "IN_GAME" \/ SaneStart(c, p) => client_state'[c] = "IN_GAME"
  BY <1>2, <1>3, <1>5, <1>6 DEF SameClient, LobbyInv, LobbyTypes, ClientOK, Startup
<1>8. game' \in [Addrs -> Settings \cup {NoGame}]
  BY <1>2, <1>3, <1>4 DEF LAUNCH
<1>9. Starts(c)' \subseteq Starts(c)
  BY <1>4, <1>6, <1>7 DEF Starts
<1>10. ClientOK(c)'
  <2>1. Outsider(c)'
    BY <1>2, <1>5, <1>7 DEF ClientOK, Outsider
  <2>2. Startup(c)'
    <3>1. client_state'[c] # "WAITING_LAUNCH"
      BY <1>6, <1>7
    <3>2. \A q \in Starts(c)' : Fitting(c, q)
      BY <1>5, <1>9 DEF ClientOK, Startup
    <3> QED BY <1>7, <3>1, <3>2 DEF Startup, Fitting, SaneStart
  <2> QED BY <2>1, <2>2 DEF ClientOK
<1>11. ASSUME NEW s \in Slots, addr[s] = c PROVE SlotOK(s)'
  <2>1. SlotOK(s)
    BY DEF LobbyInv
  <2>2. Unheard(s)' /\ Behind(s)' /\ Current(s)'
    BY <1>1, <1>2, <1>6, <1>7, <1>9, <1>11, <2>1
       DEF ServerSame, SlotOK, Unheard, Behind, Current
  <2>3. Reached(s)'
    <3> SUFFICES ASSUME cstate[s] = "CONNECTED", PlayerNumber(sv_players, s) < NET_MAXPLAYERS
                 PROVE  client_state'[c] = "IN_GAME"
      BY <1>1, <1>11 DEF ServerSame, Reached
    <3>1. p = GameStart(Places(sv_players), PlayerNumber(sv_players, s))
      BY <1>6, <1>11, <2>1 DEF SlotOK, Current
    <3>2. sv_players \in Seq(Slots) /\ NoDuplicates(sv_players)
      BY DEF LobbyInv, LobbyTypes
    <3>3. PlayerNumber(sv_players, s) \in -1..(Len(sv_players) - 1)
      BY <3>2, PlayerNumberFacts
    <3>4. PlayerNumber(sv_players, s) < Places(sv_players)
      BY <3>2, <3>3 DEF Places
    <3>5. SaneStart(c, p)
      BY <1>6, <3>1, <3>4 DEF SaneStart, Fitting, GameStart
    <3> QED BY <1>7, <3>5
  <2> QED BY <2>2, <2>3 DEF SlotOK
<1> QED BY <1>1, <1>7, <1>8, <1>10, <1>11, OneClient DEF ServerSame, StateOK

LEMMA WaitingDataState ==
  ASSUME LobbyInv, NEW c \in Addrs, ParseWaitingData(c)
  PROVE  StateOK'
<1>1. /\ ServerSame
      /\ UNCHANGED <<link, client_state, game, down, up>>
  BY DEF ParseWaitingData, server, slots, lobby, ServerSame
<1>2. \A x \in Addrs : SameClient(x)
  BY <1>1 DEF SameClient
<1>3. \A s \in Slots : SameSlot(s) /\ SameNumbers
  BY <1>1 DEF ServerSame, SameSlot, SameNumbers
<1>4. \A x \in Addrs : ClientOK(x)'
  BY <1>2, ClientFrame DEF LobbyInv
<1>5. \A s \in Slots : SlotOK(s)'
  BY <1>2, <1>3, SlotFrame DEF LobbyInv, SlotInv
<1> QED BY <1>4, <1>5 DEF StateOK
-----------------------------------------------------------------------------
(* The packets that end in the connection.                                 *)
LEMMA ServerHearsState ==
  ASSUME LobbyInv, NEW c \in Addrs,
         ReceiveACK(c) \/ ReceiveDisconnect(c) \/ ReceiveDisconnectACK(c)
  PROVE  StateOK'
<1>1. /\ UNCHANGED <<addr, ready, server_state, sv_players, link, client_state, game, down, up>>
      /\ SameNumbers
  BY DEF ReceiveACK, ReceiveDisconnect, ReceiveDisconnectACK, ServerHears, lobby, client,
         toClient, SameNumbers
<1>2. PICK s \in Slots :
        /\ addr[s] = c
        /\ \/ cstate[s] = "WAITING_ACK" /\ cstate' = [cstate EXCEPT ![s] = "CONNECTED"]
           \/ cstate' = [cstate EXCEPT ![s] = "DISCONNECTED_SLEEP"]
           \/ /\ link[c] = "HUNGUP"
              /\ cstate' = [cstate EXCEPT ![s] = "DISCONNECTED"]
  BY DEF ReceiveACK, ReceiveDisconnect, ReceiveDisconnectACK, ServerHears, FindClient
<1>3. \A x \in Addrs : SameClient(x)
  BY <1>1 DEF SameClient
<1>4. \A x \in Addrs : ClientOK(x)'
  BY <1>3, ClientFrame DEF LobbyInv
<1>5. cstate \in [Slots -> CStates] /\ SlotTypes
  BY DEF LobbyInv, SlotInv, SlotTypes
<1>6. ASSUME NEW t \in Slots, t # s PROVE SlotOK(t)'
  <2>1. SameSlot(t)
    BY <1>1, <1>2, <1>5, <1>6 DEF SameSlot
  <2> QED BY <1>1, <1>3, <1>5, <2>1, SlotFrame DEF LobbyInv
<1>7. SlotOK(s)'
  <2>1. SlotOK(s) /\ c # Nobody
    BY LobbyAssumption DEF LobbyInv
  <2>2. Starts(c)' = Starts(c)
    BY <1>1 DEF Starts
  <2>3. CASE cstate[s] = "WAITING_ACK" /\ cstate' = [cstate EXCEPT ![s] = "CONNECTED"]
    BY <1>1, <1>2, <1>5, <2>1, <2>2, <2>3 DEF SlotOK, Unheard, Behind, Current, Reached
  <2>4. CASE cstate' = [cstate EXCEPT ![s] = "DISCONNECTED_SLEEP"]
    BY <1>1, <1>2, <1>5, <2>1, <2>2, <2>4 DEF SlotOK, Unheard, Behind, Current, Reached
  <2>5. CASE link[c] = "HUNGUP" /\ cstate' = [cstate EXCEPT ![s] = "DISCONNECTED"]
    BY <1>1, <1>2, <1>5, <2>1, <2>2, <2>5 DEF SlotOK, Unheard, Behind, Current, Reached
  <2> QED BY <1>2, <2>3, <2>4, <2>5
<1> QED BY <1>4, <1>6, <1>7 DEF StateOK

(* A new slot, or none, for a client that is not connected.                *)
LEMMA ParseSYNState ==
  ASSUME LobbyInv, NEW c \in Addrs, ParseSYN(c)
  PROVE  StateOK'
<1>1. UNCHANGED <<server_state, link, client_state, game, up>>
  BY DEF ParseSYN, client
<1>2. CASE UNCHANGED <<slots, sv_players, sv_gamemode, ready, down>>
  <2>1. /\ \A x \in Addrs : SameClient(x)
        /\ \A s \in Slots : SameSlot(s) /\ SameNumbers
    BY <1>1, <1>2 DEF slots, SameClient, SameSlot, SameNumbers
  <2>2. \A x \in Addrs : ClientOK(x)'
    BY <2>1, ClientFrame DEF LobbyInv
  <2>3. \A s \in Slots : SlotOK(s)'
    BY <2>1, SlotFrame DEF LobbyInv, SlotInv
  <2> QED BY <2>2, <2>3 DEF StateOK
<1>3. CASE Accepts(server_state)
  <2> DEFINE known == FindClient(c)
             pool  == IF known = {} THEN FreeSlots(cstate)
                      ELSE {s \in known : cstate[s] = "DISCONNECTED"}
  <2>1. PICK s \in pool : NewClient(c, s)
    BY <1>3 DEF ParseSYN
  <2>2. /\ s \in Slots
        /\ \/ FindClient(c) = {} /\ cstate[s] = "FREE" /\ link[c] = "CONNECTING"
           \/ s \in FindClient(c) /\ cstate[s] = "DISCONNECTED"
    BY DEF FreeSlots, FindClient, ParseSYN
  <2> HIDE DEF known, pool
  <2>3. \A t \in Slots : SlotOK(t)
    BY DEF LobbyInv
  <2>4. link[c] \in {"CONNECTING", "HUNGUP", "LOST"}
    BY <2>2, <2>3 DEF FindClient, SlotOK, Behind
  <2>5. /\ client_state[c] = "WAITING_LAUNCH" /\ game[c] = NoGame /\ down[c] = <<>>
        /\ up[c] = <<>>
    BY <2>4 DEF LobbyInv, ClientOK, Outsider
  <2>6. /\ cstate \in [Slots -> CStates] /\ addr \in [Slots -> Addrs \cup {Nobody}]
        /\ ready \in [Slots -> BOOLEAN] /\ SlotTypes
        /\ down \in [Addrs -> Seq(Settings \cup {LAUNCH})]
    BY DEF LobbyInv, SlotInv, SlotTypes, LobbyTypes
  <2>7. \A t \in Slots \ {s} : addr[t] # c
    <3>1. c # Nobody
      BY LobbyAssumption
    <3> QED BY <2>2, <2>6, <3>1 DEF FindClient, LobbyInv, SlotInv, OneSlot, SlotTypes
  <2>8. /\ \A t \in Slots \ {s} : SameSlot(t)
        /\ \A x \in Addrs : down'[x] = down[x]
        /\ \/ /\ cstate'[s] = "WAITING_ACK" /\ addr'[s] = c /\ ready'[s] = FALSE
           \/ /\ cstate'[s] = "FREE" /\ addr'[s] = Nobody
    <3> DEFINE cs == [cstate EXCEPT ![s] = "FREE"]
    <3>1. CASE AcceptSYN(c, s, cs)
      BY <2>2, <2>5, <2>6, <3>1 DEF AcceptSYN, SameSlot
    <3>2. CASE RejectSYN(c, s, cs)
      BY <2>2, <2>6, <3>2 DEF RejectSYN, SameSlot
    <3> QED BY <2>1, <3>1, <3>2 DEF NewClient
  <2>9. /\ \A x \in Addrs : SameClient(x)
        /\ SameNumbers
    BY <1>1, <1>3, <2>8 DEF SameClient, SameNumbers, Accepts
  <2>10. \A x \in Addrs : ClientOK(x)'
    BY <2>9, ClientFrame DEF LobbyInv
  <2>11. \A t \in Slots \ {s} : SlotOK(t)'
    BY <2>3, <2>6, <2>8, <2>9, SlotFrame
  <2>12. SlotOK(s)'
    <3>1. CASE cstate'[s] = "FREE" /\ addr'[s] = Nobody
      BY <2>2, <3>1, FreeSlot
    <3>2. CASE cstate'[s] = "WAITING_ACK" /\ addr'[s] = c /\ ready'[s] = FALSE
      <4>1. Entries(<<>>) = {}
        BY DEF Entries
      <4>2. /\ client_state'[c] = "WAITING_LAUNCH" /\ game'[c] = NoGame /\ down'[c] = <<>>
            /\ up'[c] = <<>>
        BY <1>1, <2>5, <2>8
      <4> QED BY <3>2, <4>1, <4>2
              DEF SlotOK, Unheard, Behind, Current, Reached, Starts, NoGame
    <3> QED BY <2>8, <3>1, <3>2
  <2> QED BY <2>10, <2>11, <2>12 DEF StateOK
<1> QED BY <1>2, <1>3 DEF ParseSYN

(* The end of a slot, and perhaps of everything.                           *)
LEMMA DropClientState ==
  ASSUME LobbyInv, NEW s \in Slots, cstate[s] # "FREE", DropClient(s)
  PROVE  StateOK'
<1> DEFINE cs == [cstate EXCEPT ![s] = "FREE"]
<1>1. PICK c \in Addrs : c = addr[s]
  BY DEF LobbyInv, SlotInv, SlotTypes
<1>2. /\ cstate \in [Slots -> CStates] /\ addr \in [Slots -> Addrs \cup {Nobody}]
      /\ ready \in [Slots -> BOOLEAN] /\ SlotTypes
  BY DEF LobbyInv, SlotInv, SlotTypes
<1>3. /\ addr' = [addr EXCEPT ![s] = Nobody]
      /\ ready' = [ready EXCEPT ![s] = FALSE]
      /\ \/ cstate' = Dropped(cs) /\ server_state' = "WAITING_LAUNCH"
         \/ cstate' = cs /\ server_state' = server_state
      /\ \/ UNCHANGED <<link, client_state, game, down, up>>
         \/ Gone(c, "LOST")
      /\ sv_players' = sv_players
  BY <1>1 DEF DropClient, client, toClient
<1>4. /\ \A x \in Addrs : ClientOK(x)'
      /\ \A x \in Addrs \ {c} : SameClient(x)
  <2>1. CASE UNCHANGED <<link, client_state, game, down, up>>
    <3>1. \A x \in Addrs : SameClient(x)
      BY <2>1 DEF SameClient
    <3> QED BY <3>1, ClientFrame DEF LobbyInv
  <2>2. CASE Gone(c, "LOST")
    BY <2>2, GoneClient, ClientFrame DEF LobbyInv
  <2> QED BY <1>3, <2>1, <2>2
<1>5. \A t \in Slots \ {s} : addr[t] # c
  BY <1>1, <1>2 DEF LobbyInv, SlotInv, OneSlot, SlotTypes
<1>6. SlotOK(s)'
  <2>1. cstate'[s] = "FREE" /\ addr'[s] = Nobody
    BY <1>2, <1>3 DEF Dropped
  <2> QED BY <2>1, FreeSlot
<1>7. ASSUME NEW t \in Slots, t # s PROVE SlotOK(t)'
  <2>1. SlotOK(t) /\ (addr[t] \in Addrs => SameClient(addr[t]))
    BY <1>4, <1>5, <1>7 DEF LobbyInv
  <2>2. CASE cstate' = cs /\ server_state' = server_state
    <3>1. SameSlot(t) /\ SameNumbers
      BY <1>2, <1>3, <1>7, <2>2 DEF SameSlot, SameNumbers
    <3> QED BY <1>2, <2>1, <3>1, SlotFrame
  <2>3. CASE cstate' = Dropped(cs) /\ server_state' = "WAITING_LAUNCH"
    <3>1. /\ addr'[t] = addr[t] /\ ready'[t] = ready[t]
          /\ cstate'[t] \notin {"WAITING_ACK", "CONNECTED"}
          /\ cstate'[t] = "DISCONNECTED" => cstate[t] = "DISCONNECTED"
      BY <1>2, <1>3, <1>7, <2>3 DEF Dropped
    <3>2. Behind(t)'
      <4>1. CASE addr[t] \in Addrs
        BY <2>1, <3>1, <4>1 DEF SlotOK, Behind, SameClient
      <4>2. CASE addr[t] = Nobody
        <5>1. cstate[t] = "FREE"
          BY <1>2, <4>2 DEF SlotTypes
        <5> QED BY <3>1, <4>2, <5>1 DEF Behind
      <4> QED BY <1>2, <4>1, <4>2
    <3> QED BY <2>3, <3>1, <3>2 DEF SlotOK, Unheard, Current, Reached
  <2> QED BY <1>3, <2>2, <2>3
<1> QED BY <1>4, <1>6, <1>7 DEF StateOK
-----------------------------------------------------------------------------
(* The reliable packets of the server.                                     *)

(* up may have become shorter.                                             *)
Shrinks ==
  \A x \in Addrs : /\ Entries(up'[x]) \subseteq Entries(up[x])
                   /\ up[x] = <<>> => up'[x] = <<>>

LEMMA DeliveredFacts ==
  ASSUME LobbyTypes, NEW c \in Addrs, NEW s \in Slots, NEW type, Delivers(c, s, type)
  PROVE  /\ Shrinks /\ type \in Entries(up[c])
         /\ link[c] \in {"CONNECTED", "DISCONNECTING"}
         /\ addr[s] = c /\ cstate[s] # "FREE"
         /\ up' \in [Addrs -> Seq({"LAUNCH", "GAMESTART"})]
<1>1. /\ link[c] \in {"CONNECTED", "DISCONNECTING"}
      /\ addr[s] = c /\ cstate[s] # "FREE"
      /\ up[c] # <<>> /\ Head(up[c]) = type
      /\ up' = [up EXCEPT ![c] = Tail(up[c])]
  BY DEF Delivers, FindClient
<1>2. up \in [Addrs -> Seq({"LAUNCH", "GAMESTART"})]
  BY DEF LobbyTypes
<1>3. up[c] \in Seq({"LAUNCH", "GAMESTART"})
  BY <1>2
<1>4. /\ Tail(up[c]) \in Seq({"LAUNCH", "GAMESTART"})
      /\ Entries(up[c]) = {type} \cup Entries(Tail(up[c]))
  BY <1>1, <1>3, TailEntries
<1>5. up'[c] = Tail(up[c]) /\ \A x \in Addrs \ {c} : up'[x] = up[x]
  BY <1>1, <1>2
<1>6. Shrinks
  BY <1>1, <1>4, <1>5 DEF Shrinks
<1>7. up' \in [Addrs -> Seq({"LAUNCH", "GAMESTART"})]
  BY <1>1, <1>2, <1>4
<1> QED BY <1>1, <1>4, <1>6, <1>7

(* Nothing is sent to the clients; slots may become ready for the start.   *)
LEMMA QuietState ==
  ASSUME LobbyInv, Shrinks, SameNumbers,
         UNCHANGED <<cstate, addr, link, client_state, game, down>>,
         server_state' = "IN_GAME" => ready' = ready,
         \A s \in Slots : ready'[s] /\ ~ready[s] =>
           /\ addr[s] \in Addrs /\ cstate[s] # "WAITING_ACK"
           /\ link[addr[s]] \notin {"IDLE", "CONNECTING"}
           /\ link[addr[s]] = "CONNECTED" => client_state[addr[s]] # "WAITING_LAUNCH"
  PROVE  StateOK'
<1>1. ASSUME NEW x \in Addrs PROVE ClientOK(x)'
  <2>1. ClientOK(x) /\ Starts(x)' = Starts(x)
    BY DEF LobbyInv, Starts
  <2> QED BY <2>1 DEF ClientOK, Outsider, Startup, Fitting, SaneStart, Shrinks
<1>2. ASSUME NEW s \in Slots PROVE SlotOK(s)'
  <2>1. SlotOK(s) /\ (addr[s] = Nobody <=> cstate[s] = "FREE")
    BY DEF LobbyInv, SlotInv, SlotTypes
  <2>2. CASE addr[s] = Nobody
    BY <2>1, <2>2, FreeSlot
  <2>3. CASE addr[s] # Nobody
    <3>1. PICK c \in Addrs : c = addr[s]
      BY <2>3 DEF LobbyInv, SlotInv, SlotTypes
    <3>2. Starts(c)' = Starts(c)
      BY DEF Starts
    <3>3. Unheard(s)'
      BY <2>1, <3>1 DEF SlotOK, Unheard, Shrinks
    <3>4. Behind(s)'
      BY <2>1, <3>1 DEF SlotOK, Behind
    <3>5. Current(s)'
      BY <2>1, <3>1, <3>2 DEF SlotOK, Current, SameNumbers
    <3>6. Reached(s)'
      BY <2>1, <3>1 DEF SlotOK, Reached, SameNumbers
    <3> QED BY <3>3, <3>4, <3>5, <3>6 DEF SlotOK
  <2> QED BY <2>2, <2>3
<1> QED BY <1>1, <1>2 DEF StateOK

Told(c) == link[c] = "CONNECTED" /\ \E s \in Slots : cstate[s] = "CONNECTED" /\ addr[s] = c

LEMMA ForwardFacts ==
  ASSUME LobbyTypes, NEW p, Forward(p)
  PROVE  \A c \in Addrs : /\ Told(c) => down'[c] = Append(down[c], p[c])
                          /\ ~Told(c) => down'[c] = down[c]
<1>1. \A c \in Addrs : Told(c) <=> /\ link[c] = "CONNECTED"
                                   /\ \E s \in FindClient(c) : ClientConnected(cstate, s)
  BY DEF Told, FindClient, ClientConnected
<1>2. down' = [c \in Addrs |-> IF Told(c) THEN Append(down[c], p[c]) ELSE down[c]]
  BY <1>1 DEF Forward
<1> QED BY <1>2

(* Before a game nobody that counts has settings.                          *)
LEMMA NoStarts ==
  ASSUME LobbyInv, server_state # "IN_GAME", NEW s \in Slots,
         cstate[s] \in {"WAITING_ACK", "CONNECTED"}
  PROVE  Starts(addr[s]) = {}
BY DEF LobbyInv, SlotOK, Current

LEMMA LaunchState ==
  ASSUME LobbyInv, NEW c \in Addrs, NEW s \in Slots, ParseLaunch(c, s)
  PROVE  /\ StateOK'
         /\ down' \in [Addrs -> Seq(Settings \cup {LAUNCH})]
<1>1. /\ UNCHANGED <<cstate, addr, ready, link, client_state, game>>
      /\ Shrinks
  BY DeliveredFacts DEF LobbyInv, ParseLaunch, slots, client
<1>2. down \in [Addrs -> Seq(Settings \cup {LAUNCH})]
  BY DEF LobbyInv, LobbyTypes
<1>3. CASE UNCHANGED <<sv_players, down, server_state>>
  <2>1. SameNumbers
    BY <1>3 DEF SameNumbers
  <2> QED BY <1>1, <1>2, <1>3, <2>1, QuietState
<1>4. CASE /\ server_state = "WAITING_LAUNCH" /\ server_state' = "WAITING_START"
           /\ Forward([x \in Addrs |-> LAUNCH])
  <2>1. \A x \in Addrs : /\ Told(x) => down'[x] = Append(down[x], LAUNCH)
                         /\ ~Told(x) => down'[x] = down[x]
    BY <1>4, ForwardFacts DEF LobbyInv
  <2>2. \A x \in Addrs : Told(x) => /\ down'[x] \in Seq(Settings \cup {LAUNCH})
                                    /\ Entries(down'[x]) = Entries(down[x]) \cup {LAUNCH}
    <3> SUFFICES ASSUME NEW x \in Addrs, Told(x)
                 PROVE  /\ down'[x] \in Seq(Settings \cup {LAUNCH})
                        /\ Entries(down'[x]) = Entries(down[x]) \cup {LAUNCH}
      OBVIOUS
    <3>1. down[x] \in Seq(Settings \cup {LAUNCH}) /\ LAUNCH \in Settings \cup {LAUNCH}
      BY <1>2
    <3>2. down'[x] = Append(down[x], LAUNCH)
      BY <2>1
    <3> HIDE DEF LAUNCH, Settings
    <3> QED BY <3>1, <3>2, AppendEntries
  <2>3. down' \in [Addrs -> Seq(Settings \cup {LAUNCH})]
    <3>1. down' = [x \in Addrs |-> down'[x]]
      BY <1>4 DEF Forward
    <3> QED BY <1>2, <2>1, <2>2, <3>1
  <2>4. \A x \in Addrs : Starts(x)' = Starts(x)
    BY <1>1, <2>1, <2>2 DEF Starts, LAUNCH
  <2>5. ASSUME NEW x \in Addrs PROVE ClientOK(x)'
    <3>1. ClientOK(x)
      BY DEF LobbyInv
    <3>2. Outsider(x)'
      BY <1>1, <2>1, <3>1 DEF ClientOK, Outsider, Shrinks, Told
    <3>3. Startup(x)'
      <4>1. \A p \in Entries(down'[x]) : p \in Entries(down[x]) \/ p = LAUNCH
        BY <2>1, <2>2
      <4> QED BY <1>1, <2>4, <3>1, <4>1 DEF ClientOK, Startup, Fitting, SaneStart, Shrinks, LAUNCH
    <3> QED BY <3>2, <3>3 DEF ClientOK
  <2>6. ASSUME NEW t \in Slots PROVE SlotOK(t)'
    <3>1. SlotOK(t) /\ (addr[t] = Nobody <=> cstate[t] = "FREE")
      BY DEF LobbyInv, SlotInv, SlotTypes
    <3>2. CASE addr[t] = Nobody
      BY <1>1, <3>1, <3>2, FreeSlot
    <3>3. CASE addr[t] # Nobody
      <4>1. PICK x \in Addrs : x = addr[t]
        BY <3>3 DEF LobbyInv, SlotInv, SlotTypes
      <4>2. cstate[t] = "WAITING_ACK" => ~Told(x)
        BY <3>3, <4>1 DEF LobbyInv, SlotInv, OneSlot, Told
      <4>3. Unheard(t)'
        BY <1>1, <2>1, <3>1, <4>1, <4>2 DEF SlotOK, Unheard, Shrinks
      <4>4. Behind(t)'
        BY <1>1, <3>1, <4>1 DEF SlotOK, Behind
      <4>5. Current(t)'
        BY <1>1, <1>4, <2>4, <3>1, <4>1 DEF SlotOK, Current
      <4>6. Reached(t)'
        BY <1>4 DEF Reached
      <4> QED BY <4>3, <4>4, <4>5, <4>6 DEF SlotOK
    <3> QED BY <3>2, <3>3
  <2> QED BY <2>3, <2>5, <2>6 DEF StateOK
<1> QED BY <1>3, <1>4 DEF ParseLaunch
-----------------------------------------------------------------------------
(* The start of the game.                                                  *)

(* What StartGame tells the client of a connected slot fits it.            *)
LEMMA MessageFacts ==
  ASSUME SlotInv, NEW s \in Slots, cstate[s] = "CONNECTED", NEW m,
         m = GameStart(NumPlayers(Assigned(cstate, addr), cstate),
                       PlayerNumber(Assigned(cstate, addr), s))
  PROVE  /\ m \in Settings /\ m.type = "GAMESTART" /\ Fitting(addr[s], m)
         /\ m = GameStart(Places(Assigned(cstate, addr)),
                          PlayerNumber(Assigned(cstate, addr), s))
<1>1. PICK svp \in Seq(Slots) :
        /\ svp = Assigned(cstate, addr) /\ NoDuplicates(svp)
        /\ Entries(svp) = {t \in Slots : IsPlayer(cstate, addr, t)}
  BY AssignedFacts
<1>2. /\ addr \in [Slots -> Addrs \cup {Nobody}]
      /\ \A t \in Slots : cstate[t] = "FREE" <=> addr[t] = Nobody
  BY DEF SlotInv, SlotTypes
<1>3. Len(svp) <= NumSlots
  BY <1>1, AtMost
<1>4. PICK n \in 0..NET_MAXPLAYERS : n = Places(svp)
  BY <1>1, PlacesType
<1>5. m = GameStart(n, PlayerNumber(svp, s))
  BY <1>1, <1>4, AllCounted
<1>6. PICK k \in Int : k = PlayerNumber(svp, s)
  BY <1>1, PlayerNumberFacts
<1>7. /\ k \in -1..(Len(svp) - 1)
      /\ k >= 0 <=> s \in Entries(svp)
  BY <1>1, <1>6, PlayerNumberFacts
<1>8. m = [type |-> "GAMESTART", num_players |-> n, consoleplayer |-> k]
  BY <1>5, <1>6 DEF GameStart
<1>9. Len(svp) \in Nat /\ NumSlots \in Nat /\ NET_MAXPLAYERS \in Nat
  BY LobbyAssumption
<1>10. m \in Settings
  <2>1. k \in -1..(NumSlots - 1)
    BY <1>3, <1>7, <1>9
  <2> QED BY <1>8, <2>1 DEF Settings
<1>11. s \in Entries(svp) <=> addr[s] \notin Drones
  BY <1>1 DEF IsPlayer, ClientConnected
<1>12. k < 0 <=> addr[s] \in Drones
  BY <1>7, <1>9, <1>11
<1>13. Fitting(addr[s], m)
  <2>1. m.num_players = n /\ m.consoleplayer = k
    BY <1>8
  <2>2. m.num_players <= NET_MAXPLAYERS
    BY <1>9, <2>1
  <2> QED BY <1>12, <2>1, <2>2 DEF Fitting
<1> QED BY <1>1, <1>4, <1>5, <1>8, <1>10, <1>13

(* Everybody who is connected is ready, and is told.                       *)
LEMMA StartGameState ==
  ASSUME LobbyInv, server_state = "WAITING_START", StartGame, Shrinks,
         UNCHANGED <<cstate, addr, link, client_state, game>>,
         \A s \in Slots : ClientConnected(cstate, s) => ready'[s],
         \A s \in Slots : ready'[s] /\ ~ready[s] =>
           /\ addr[s] \in Addrs /\ cstate[s] # "WAITING_ACK"
           /\ link[addr[s]] \notin {"IDLE", "CONNECTING"}
           /\ link[addr[s]] = "CONNECTED" => client_state[addr[s]] # "WAITING_LAUNCH"
  PROVE  /\ StateOK'
         /\ down' \in [Addrs -> Seq(Settings \cup {LAUNCH})]
<1> DEFINE message(s) == GameStart(NumPlayers(sv_players', cstate),
                                   PlayerNumber(sv_players', s))
           p == [c \in Addrs |-> LET s == CHOOSE t \in FindClient(c) : TRUE IN message(s)]
<1>1. /\ sv_players' = Assigned(cstate, addr) /\ server_state' = "IN_GAME"
      /\ Forward(p)
  BY DEF StartGame, AssignPlayers
<1>2. /\ addr \in [Slots -> Addrs \cup {Nobody}]
      /\ \A t \in Slots : cstate[t] = "FREE" <=> addr[t] = Nobody
      /\ down \in [Addrs -> Seq(Settings \cup {LAUNCH})]
  BY DEF LobbyInv, SlotInv, SlotTypes, LobbyTypes
<1>3. ASSUME NEW s \in Slots, cstate[s] = "CONNECTED"
      PROVE  /\ addr[s] \in Addrs /\ p[addr[s]] = message(s)
             /\ message(s) \in Settings /\ message(s).type = "GAMESTART"
             /\ Fitting(addr[s], message(s))
             /\ message(s) = GameStart(Places(sv_players'), PlayerNumber(sv_players', s))
  <2>1. addr[s] \in Addrs
    BY <1>2, <1>3
  <2>2. FindClient(addr[s]) = {s}
    BY <1>2, <1>3 DEF FindClient, LobbyInv, SlotInv, OneSlot
  <2>3. p[addr[s]] = message(s)
    BY <2>1, <2>2
  <2>4. SlotInv
    BY DEF LobbyInv
  <2> QED BY <1>1, <1>3, <2>1, <2>3, <2>4, MessageFacts
<1> HIDE DEF message, p
<1>4. ASSUME NEW c \in Addrs PROVE ~Told(c) => down'[c] = down[c]
  BY <1>1, ForwardFacts DEF LobbyInv
<1>5. ASSUME NEW s \in Slots, cstate[s] = "CONNECTED", link[addr[s]] = "CONNECTED"
      PROVE  /\ down'[addr[s]] \in Seq(Settings \cup {LAUNCH})
             /\ Entries(down'[addr[s]]) = Entries(down[addr[s]]) \cup {message(s)}
  <2>1. addr[s] \in Addrs /\ Told(addr[s])
    BY <1>3, <1>5 DEF Told
  <2>2. down'[addr[s]] = Append(down[addr[s]], message(s))
    <3>1. PICK c \in Addrs : c = addr[s] /\ Told(c)
      BY <2>1
    <3>2. LobbyTypes
      BY DEF LobbyInv
    <3>3. down'[c] = Append(down[c], p[c])
      BY <1>1, <3>1, <3>2, ForwardFacts
    <3>4. p[c] = message(s)
      BY <1>3, <1>5, <3>1
    <3> QED BY <3>1, <3>3, <3>4
  <2>3. message(s) \in Settings \cup {LAUNCH} /\ down[addr[s]] \in Seq(Settings \cup {LAUNCH})
    BY <1>2, <1>3, <1>5, <2>1
  <2> QED BY <2>2, <2>3, AppendEntries
<1>6. down' \in [Addrs -> Seq(Settings \cup {LAUNCH})]
  <2>1. down' = [x \in Addrs |-> down'[x]]
    BY <1>1 DEF Forward
  <2>2. ASSUME NEW x \in Addrs PROVE down'[x] \in Seq(Settings \cup {LAUNCH})
    BY <1>2, <1>4, <1>5 DEF Told
  <2> QED BY <2>1, <2>2
<1>7. ASSUME NEW c \in Addrs PROVE ClientOK(c)'
  <2>1. ClientOK(c)
    BY DEF LobbyInv
  <2>2. CASE ~Told(c)
    <3>1. down'[c] = down[c] /\ Starts(c)' = Starts(c)
      BY <1>4, <2>2 DEF Starts
    <3> QED BY <2>1, <3>1 DEF ClientOK, Outsider, Startup, Fitting, SaneStart, Shrinks
  <2>3. CASE Told(c)
    <3>1. PICK s \in Slots : cstate[s] = "CONNECTED" /\ addr[s] = c /\ link[c] = "CONNECTED"
      BY <2>3 DEF Told
    <3>2. /\ Entries(down'[c]) = Entries(down[c]) \cup {message(s)}
          /\ message(s).type = "GAMESTART" /\ Fitting(c, message(s))
      BY <1>3, <1>5, <3>1
    <3>3. Starts(c)' = Starts(c) \cup {message(s)}
      BY <3>2 DEF Starts
    <3>4. client_state[c] # "WAITING_LAUNCH"
      <4>1. ready'[s] /\ c # Nobody
        BY <3>1, LobbyAssumption DEF ClientConnected
      <4> QED BY <3>1, <4>1 DEF LobbyInv, SlotOK, Behind
    <3>5. Outsider(c)'
      BY <2>1, <3>1 DEF ClientOK, Outsider
    <3>6. Startup(c)'
      BY <2>1, <3>2, <3>3, <3>4 DEF ClientOK, Startup, Fitting, SaneStart, Shrinks
    <3> QED BY <3>5, <3>6 DEF ClientOK
  <2> QED BY <2>2, <2>3
<1>8. ASSUME NEW s \in Slots PROVE SlotOK(s)'
  <2>1. SlotOK(s)
    BY DEF LobbyInv
  <2>2. CASE addr[s] = Nobody
    BY <1>2, <2>2, FreeSlot
  <2>3. CASE addr[s] # Nobody
    <3>1. PICK c \in Addrs : c = addr[s]
      BY <1>2, <2>3
    <3>2. Unheard(s)'
      <4>1. cstate[s] = "WAITING_ACK" => down'[c] = down[c]
        BY <1>4, <2>3, <3>1 DEF Told, LobbyInv, SlotInv, OneSlot
      <4> QED BY <2>1, <3>1, <4>1 DEF SlotOK, Unheard, Shrinks
    <3>3. Behind(s)'
      BY <2>1, <3>1 DEF SlotOK, Behind
    <3>4. Current(s)'
      <4> SUFFICES ASSUME cstate[s] \in {"WAITING_ACK", "CONNECTED"}
                   PROVE  \A q \in Starts(c)' :
                            q = GameStart(Places(sv_players'), PlayerNumber(sv_players', s))
        BY <1>1, <3>1 DEF Current
      <4>1. Starts(c) = {}
        BY <3>1, NoStarts
      <4>2. CASE cstate[s] = "CONNECTED" /\ link[c] = "CONNECTED"
        <5>1. Starts(c)' \subseteq Starts(c) \cup {message(s)}
          BY <1>5, <3>1, <4>2 DEF Starts
        <5> QED BY <1>3, <4>1, <4>2, <5>1
      <4>3. CASE ~(cstate[s] = "CONNECTED" /\ link[c] = "CONNECTED")
        <5>1. ~Told(c)
          BY <2>3, <3>1, <4>3 DEF Told, LobbyInv, SlotInv, OneSlot
        <5>2. Starts(c)' = Starts(c)
          BY <1>4, <5>1 DEF Starts
        <5> QED BY <4>1, <5>2
      <4> QED BY <4>2, <4>3
    <3>5. Reached(s)'
      BY <1>3, <1>5, <3>1 DEF Reached
    <3> QED BY <3>2, <3>3, <3>4, <3>5 DEF SlotOK
  <2> QED BY <2>2, <2>3
<1> QED BY <1>6, <1>7, <1>8 DEF StateOK
LEMMA StartupState ==
  ASSUME LobbyInv, NEW c \in Addrs, NEW s \in Slots, ParseGameStart(c, s)
  PROVE  /\ StateOK'
         /\ down' \in [Addrs -> Seq(Settings \cup {LAUNCH})]
<1>1. /\ UNCHANGED <<cstate, addr, link, client_state, game>>
      /\ Delivers(c, s, "GAMESTART")
  BY DEF ParseGameStart, slots, client
<1>2. /\ Shrinks /\ "GAMESTART" \in Entries(up[c])
      /\ link[c] \in {"CONNECTED", "DISCONNECTING"}
      /\ addr[s] = c /\ cstate[s] # "FREE"
  BY <1>1, DeliveredFacts DEF LobbyInv
<1>3. down \in [Addrs -> Seq(Settings \cup {LAUNCH})] /\ ready \in [Slots -> BOOLEAN]
  BY DEF LobbyInv, LobbyTypes, SlotInv, SlotTypes
<1>4. \A t \in Slots : ready'[t] /\ ~ready[t] =>
        /\ t = s /\ addr[t] \in Addrs /\ cstate[t] # "WAITING_ACK"
        /\ link[addr[t]] \notin {"IDLE", "CONNECTING"}
        /\ link[addr[t]] = "CONNECTED" => client_state[addr[t]] # "WAITING_LAUNCH"
  <2>1. ready' = ready \/ ready' = [ready EXCEPT ![s] = TRUE]
    BY DEF ParseGameStart
  <2>2. /\ cstate[s] # "WAITING_ACK"
        /\ link[c] = "CONNECTED" => client_state[c] # "WAITING_LAUNCH"
    BY <1>2 DEF LobbyInv, SlotOK, Unheard, ClientOK, Startup
  <2> QED BY <1>2, <1>3, <2>1, <2>2
<1>5. CASE UNCHANGED <<sv_players, ready, server_state, down>>
  <2>1. SameNumbers
    BY <1>5 DEF SameNumbers
  <2> QED BY <1>1, <1>2, <1>3, <1>5, <2>1, QuietState
<1>6. CASE server_state = "WAITING_START" /\ UNCHANGED <<server_state, down>>
  <2>1. SameNumbers /\ server_state' # "IN_GAME"
    BY <1>6 DEF SameNumbers
  <2> QED BY <1>1, <1>2, <1>3, <1>4, <1>6, <2>1, QuietState
<1>7. CASE server_state = "WAITING_START" /\ AllNodesReady(ready') /\ StartGame
  <2>1. \A t \in Slots : ClientConnected(cstate, t) => ready'[t]
    BY <1>7 DEF AllNodesReady
  <2> QED BY <1>1, <1>2, <1>4, <1>7, <2>1, StartGameState
<1> QED BY <1>5, <1>6, <1>7 DEF ParseGameStart

LEMMA FinishRunState ==
  ASSUME LobbyInv, FinishRun
  PROVE  /\ StateOK'
         /\ down' \in [Addrs -> Seq(Settings \cup {LAUNCH})]
<1>1. UNCHANGED <<cstate, addr, ready, link, client_state, game, up>>
  BY DEF FinishRun, slots, client
<1>2. Shrinks
  BY <1>1 DEF Shrinks
<1>3. down \in [Addrs -> Seq(Settings \cup {LAUNCH})]
  BY DEF LobbyInv, LobbyTypes
<1>4. CASE UNCHANGED <<sv_players, server_state, down>>
  <2>1. SameNumbers
    BY <1>4 DEF SameNumbers
  <2> QED BY <1>1, <1>2, <1>3, <1>4, <2>1, QuietState
<1>5. CASE server_state = "WAITING_START" /\ AllNodesReady(ready) /\ StartGame
  <2>1. \A t \in Slots : ClientConnected(cstate, t) => ready'[t]
    BY <1>1, <1>5 DEF AllNodesReady
  <2> QED BY <1>1, <1>2, <1>5, <2>1, StartGameState
<1> QED BY <1>4, <1>5 DEF FinishRun

LEMMA KeepClientState ==
  ASSUME LobbyInv, NEW s \in Slots, NEW due \in BOOLEAN, KeepClient(s, due)
  PROVE  StateOK'
<1>1. UNCHANGED <<cstate, addr, ready, link, client_state, game, up, down, server_state>>
  BY DEF KeepClient, slots, client
<1>2. Shrinks
  BY <1>1 DEF Shrinks
<1>3. SameNumbers
  <2>1. sv_players' = sv_players \/ Informs(server_state)
    BY DEF KeepClient
  <2> QED BY <1>1, <2>1 DEF SameNumbers, Informs
<1> QED BY <1>1, <1>2, <1>3, QuietState
-----------------------------------------------------------------------------
(* The list of the players by age.                                         *)
LEMMA WithoutSlot ==
  ASSUME NEW list \in Seq(Slots), NoDuplicates(list), NEW s
  PROVE  /\ Only(list, Slots \ {s}) \in Seq(Slots)
         /\ NoDuplicates(Only(list, Slots \ {s}))
         /\ Entries(Only(list, Slots \ {s})) = Entries(list) \ {s}
<1>1. Entries(list) \subseteq Slots
  BY DEF Entries
<1> QED BY <1>1, OnlyFacts

LEMMA SeniorityFrame ==
  ASSUME Seniority, UNCHANGED <<addr, by_age>>
  PROVE  Seniority'
BY DEF Seniority

LEMMA SeniorityWithout ==
  ASSUME SlotTypes, Seniority, NEW s \in Slots, addr' = [addr EXCEPT ![s] = Nobody],
         by_age' = Only(by_age, Slots \ {s})
  PROVE  Seniority'
<1>1. /\ by_age' \in Seq(Slots) /\ NoDuplicates(by_age')
      /\ Entries(by_age') = Entries(by_age) \ {s}
  BY WithoutSlot DEF Seniority
<1>2. {t \in Slots : addr'[t] \in Addrs \ Drones} = {t \in Slots : addr[t] \in Addrs \ Drones} \ {s}
  BY LobbyAssumption DEF SlotTypes
<1> QED BY <1>1, <1>2 DEF Seniority

LEMMA SeniorityAccepted ==
  ASSUME SlotTypes, Seniority, NEW c \in Addrs, NEW s \in Slots, NEW cs, AcceptSYN(c, s, cs)
  PROVE  Seniority'
<1> DEFINE old == Only(by_age, Slots \ {s})
<1>1. /\ old \in Seq(Slots) /\ NoDuplicates(old)
      /\ Entries(old) = Entries(by_age) \ {s}
  BY WithoutSlot DEF Seniority
<1>2. /\ addr' = [addr EXCEPT ![s] = c]
      /\ by_age' = IF c \in Drones THEN old ELSE Append(old, s)
  BY DEF AcceptSYN
<1> HIDE DEF old
<1>3. {t \in Slots : addr'[t] \in Addrs \ Drones}
        = ({t \in Slots : addr[t] \in Addrs \ Drones} \ {s}) \cup (IF c \in Drones THEN {} ELSE {s})
  BY <1>2, LobbyAssumption DEF SlotTypes
<1>4. CASE c \in Drones
  BY <1>1, <1>2, <1>3, <1>4 DEF Seniority
<1>5. CASE c \notin Drones
  <2>1. /\ Append(old, s) \in Seq(Slots) /\ NoDuplicates(Append(old, s))
        /\ Entries(Append(old, s)) = Entries(old) \cup {s}
    BY <1>1, AppendEntries
  <2> QED BY <1>1, <1>2, <1>3, <1>5, <2>1 DEF Seniority
<1> QED BY <1>4, <1>5
-----------------------------------------------------------------------------
(* The types, action by action.                                            *)
LEMMA AssignType ==
  ASSUME LobbyTypes,
         sv_players' = sv_players \/ \E cs, a : sv_players' = Assigned(cs, a)
  PROVE  sv_players' \in Seq(Slots) /\ NoDuplicates(sv_players')
BY AssignedFacts DEF LobbyTypes

ClientTypes ==
  /\ link \in [Addrs -> {"IDLE", "CONNECTING", "CONNECTED", "DISCONNECTING",
                         "HUNGUP", "LOST"}]
  /\ client_state \in [Addrs -> {"WAITING_LAUNCH", "WAITING_START", "IN_GAME"}]
  /\ is_controller \in [Addrs -> BOOLEAN] /\ started \in [Addrs -> BOOLEAN]
  /\ game \in [Addrs -> Settings \cup {NoGame}]

FlightTypes ==
  /\ mail \in [Addrs -> SUBSET {"ACK", "DISCONNECT"}]
  /\ offer \in [Addrs -> SUBSET BOOLEAN]
  /\ up \in [Addrs -> Seq({"LAUNCH", "GAMESTART"})]
  /\ down \in [Addrs -> Seq(Settings \cup {LAUNCH})]

ServerTypes ==
  /\ sv_players \in Seq(Slots) /\ NoDuplicates(sv_players)
  /\ sv_gamemode \in {ModeOf[c] : c \in Addrs} \cup {indetermined}
  /\ turn \in Slots \cup {0}

LEMMA TypeParts ==
  ASSUME ServerTypes', ClientTypes', FlightTypes'
  PROVE  LobbyTypes'
BY DEF LobbyTypes, ServerTypes, ClientTypes, FlightTypes

LEMMA ClientTypesFrame ==
  ASSUME LobbyTypes, UNCHANGED client
  PROVE  ClientTypes'
BY DEF LobbyTypes, ClientTypes, client

LEMMA ServerTypesFrame ==
  ASSUME LobbyTypes, UNCHANGED <<sv_players, sv_gamemode, turn>>
  PROVE  ServerTypes'
BY DEF LobbyTypes, ServerTypes

LEMMA GoneTypes ==
  ASSUME LobbyTypes, NEW c \in Addrs, NEW end \in {"HUNGUP", "LOST"}, Gone(c, end)
  PROVE  ClientTypes' /\ FlightTypes'
<1>1. <<>> \in Seq({"LAUNCH", "GAMESTART"}) /\ <<>> \in Seq(Settings \cup {LAUNCH})
  OBVIOUS
<1> QED BY <1>1 DEF Gone, Forget, LobbyTypes, ClientTypes, FlightTypes

LEMMA ParseSYNTypes ==
  ASSUME LobbyInv, NEW c \in Addrs, ParseSYN(c)
  PROVE  LobbyTypes' /\ Seniority'
<1>1. LobbyTypes /\ Seniority /\ SlotTypes
  BY DEF LobbyInv, SlotInv
<1>2. UNCHANGED <<turn, client, mail, offer, up>>
  BY DEF ParseSYN
<1>3. ClientTypes'
  BY <1>1, <1>2, ClientTypesFrame
<1>4. CASE UNCHANGED <<slots, sv_players, sv_gamemode, ready, down>>
  <2>1. ServerTypes'
    BY <1>1, <1>2, <1>4, ServerTypesFrame
  <2>2. FlightTypes'
    BY <1>1, <1>2, <1>4 DEF LobbyTypes, FlightTypes
  <2>3. Seniority'
    BY <1>1, <1>4, SeniorityFrame DEF slots
  <2> QED BY <1>3, <2>1, <2>2, <2>3, TypeParts
<1>5. CASE Accepts(server_state)
  <2> DEFINE known == FindClient(c)
             pool  == IF known = {} THEN FreeSlots(cstate)
                      ELSE {s \in known : cstate[s] = "DISCONNECTED"}
  <2>1. PICK s \in pool : NewClient(c, s)
    BY <1>5 DEF ParseSYN
  <2>2. s \in Slots
    BY DEF FreeSlots, FindClient
  <2> HIDE DEF known, pool
  <2> DEFINE cs == [cstate EXCEPT ![s] = "FREE"]
  <2>3. /\ sv_players' = Assigned(cs, addr)
        /\ sv_gamemode' = sv_gamemode \/ sv_gamemode' = ModeOf[c]
        /\ AcceptSYN(c, s, cs) \/ RejectSYN(c, s, cs)
    BY <2>1 DEF NewClient, AssignPlayers
  <2> HIDE DEF cs
  <2>4. ServerTypes'
    BY <1>1, <1>2, <2>3, AssignedFacts DEF LobbyTypes, ServerTypes
  <2>5. down' \in [Addrs -> Seq(Settings \cup {LAUNCH})]
    <3>1. <<>> \in Seq(Settings \cup {LAUNCH})
      OBVIOUS
    <3> QED BY <1>1, <2>3, <3>1 DEF LobbyTypes, AcceptSYN, RejectSYN
  <2>6. FlightTypes'
    BY <1>1, <1>2, <2>5 DEF LobbyTypes, FlightTypes
  <2>7. Seniority'
    <3>1. CASE AcceptSYN(c, s, cs)
      BY <1>1, <2>2, <3>1, SeniorityAccepted
    <3>2. CASE RejectSYN(c, s, cs)
      <4>1. addr' = [addr EXCEPT ![s] = Nobody] /\ by_age' = Only(by_age, Slots \ {s})
        BY <3>2 DEF RejectSYN
      <4> QED BY <1>1, <2>2, <4>1, SeniorityWithout
    <3> QED BY <2>3, <3>1, <3>2
  <2> QED BY <1>3, <2>4, <2>6, <2>7, TypeParts
<1> QED BY <1>4, <1>5 DEF ParseSYN

LEMMA PacketTypes ==
  ASSUME LobbyInv, NEW c \in Addrs, Packet(c)
  PROVE  LobbyTypes' /\ Seniority'
<1>1. LobbyTypes /\ Seniority
  BY DEF LobbyInv
<1>2. CASE ParseSYN(c)
  BY <1>2, ParseSYNTypes
<1>3. CASE ReceiveACK(c) \/ ReceiveDisconnect(c) \/ ReceiveDisconnectACK(c)
  <2>1. UNCHANGED <<addr, by_age, lobby, sv_players, turn, client, toClient, up>>
    BY <1>3 DEF ReceiveACK, ReceiveDisconnect, ReceiveDisconnectACK, ServerHears
  <2>2. LobbyTypes'
    BY <1>1, <2>1 DEF LobbyTypes, lobby, client, toClient
  <2> QED BY <1>1, <2>1, <2>2, SeniorityFrame
<1>4. ASSUME NEW s \in Slots, ParseLaunch(c, s) \/ ParseGameStart(c, s)
      PROVE  LobbyTypes' /\ Seniority'
  <2>1. UNCHANGED <<slots, sv_gamemode, turn, client, mail, offer>>
    BY <1>4 DEF ParseLaunch, ParseGameStart
  <2>2. up' \in [Addrs -> Seq({"LAUNCH", "GAMESTART"})]
    BY <1>1, <1>4, DeliveredFacts DEF ParseLaunch, ParseGameStart
  <2>3. down' \in [Addrs -> Seq(Settings \cup {LAUNCH})]
    BY <1>4, LaunchState, StartupState
  <2>4. sv_players' = sv_players \/ sv_players' = Assigned(cstate, addr)
    BY <1>4 DEF ParseLaunch, ParseGameStart, StartGame, AssignPlayers
  <2>5. ServerTypes'
    BY <1>1, <2>1, <2>4, AssignType DEF LobbyTypes, ServerTypes
  <2>6. FlightTypes'
    BY <1>1, <2>1, <2>2, <2>3 DEF LobbyTypes, FlightTypes
  <2>7. ClientTypes'
    BY <1>1, <2>1, ClientTypesFrame
  <2>8. Seniority'
    BY <1>1, <2>1, SeniorityFrame DEF slots
  <2> QED BY <2>5, <2>6, <2>7, <2>8, TypeParts
<1> QED BY <1>2, <1>3, <1>4 DEF Packet

LEMMA ServerRunTypes ==
  ASSUME LobbyInv, ServerRun
  PROVE  LobbyTypes' /\ Seniority'
<1>1. LobbyTypes /\ Seniority /\ SlotTypes
  BY DEF LobbyInv, SlotInv
<1>2. CASE FinishRun
  <2>1. UNCHANGED <<slots, sv_gamemode, client, mail, offer, up>> /\ turn' = 0
    BY <1>2 DEF FinishRun
  <2>2. down' \in [Addrs -> Seq(Settings \cup {LAUNCH})]
    BY <1>2, FinishRunState
  <2>3. sv_players' = sv_players \/ sv_players' = Assigned(cstate, addr)
    BY <1>2 DEF FinishRun, StartGame, AssignPlayers
  <2>4. ServerTypes'
    BY <1>1, <2>1, <2>3, AssignType DEF LobbyTypes, ServerTypes
  <2>5. FlightTypes'
    BY <1>1, <2>1, <2>2 DEF LobbyTypes, FlightTypes
  <2>6. ClientTypes'
    BY <1>1, <2>1, ClientTypesFrame
  <2>7. Seniority'
    BY <1>1, <2>1, SeniorityFrame DEF slots
  <2> QED BY <2>4, <2>5, <2>6, <2>7, TypeParts
<1>3. ASSUME NEW s \in Slots, NEW over \in BOOLEAN, NEW due \in BOOLEAN,
             RunClient(s, over, due)
      PROVE  LobbyTypes' /\ Seniority'
  <2>1. turn' = s /\ s = NextTurn
    BY <1>3 DEF RunClient
  <2>2. cstate[s] # "FREE"
    BY <1>1, <2>1, TurnIsActive DEF LobbyTypes
  <2>3. PICK c \in Addrs : c = addr[s]
    BY <1>1, <2>2 DEF SlotTypes
  <2>4. CASE DropClient(s)
    <3>1. /\ sv_players' = sv_players
          /\ sv_gamemode' \in {sv_gamemode, indetermined}
          /\ UNCHANGED <<client, toClient, up>> \/ Gone(c, "LOST")
          /\ addr' = [addr EXCEPT ![s] = Nobody]
          /\ by_age' = Only(by_age, Slots \ {s})
      BY <2>3, <2>4 DEF DropClient
    <3>2. ServerTypes'
      BY <1>1, <2>1, <3>1 DEF LobbyTypes, ServerTypes
    <3>3. ClientTypes' /\ FlightTypes'
      <4>1. CASE UNCHANGED <<client, toClient, up>>
        BY <1>1, <4>1, ClientTypesFrame DEF LobbyTypes, FlightTypes, toClient
      <4>2. CASE Gone(c, "LOST")
        BY <1>1, <4>2, GoneTypes
      <4> QED BY <3>1, <4>1, <4>2
    <3>4. Seniority'
      BY <1>1, <3>1, SeniorityWithout
    <3> QED BY <3>2, <3>3, <3>4, TypeParts
  <2>5. CASE KeepClient(s, due)
    <3>1. /\ sv_players' = sv_players \/ sv_players' = Assigned(cstate, addr)
          /\ UNCHANGED <<slots, sv_gamemode, client, down, up>>
          /\ \E out : Mail(c, out)
          /\ \E o \in SUBSET BOOLEAN : offer' = [offer EXCEPT ![c] = o]
      <4>1. sv_players' = sv_players \/ sv_players' = Assigned(cstate, addr)
        BY <2>5 DEF KeepClient, AssignPlayers
      <4>2. UNCHANGED <<slots, sv_gamemode, client, down, up>>
        BY <2>5 DEF KeepClient
      <4>3. \E out : Mail(c, out)
        BY <2>3, <2>5, Zenon DEF KeepClient
      <4>4. \E o \in SUBSET BOOLEAN : offer' = [offer EXCEPT ![c] = o]
        <5>1. PICK b : offer' = [offer EXCEPT ![c] =
                IF b THEN {s = Controller(cstate, addr)} \ {is_controller[c]} ELSE @]
          BY <2>3, <2>5, Zenon DEF KeepClient
        <5>2. /\ {s = Controller(cstate, addr)} \ {is_controller[c]} \in SUBSET BOOLEAN
              /\ offer[c] \in SUBSET BOOLEAN
          BY <1>1 DEF LobbyTypes
        <5> QED BY <5>1, <5>2
      <4> QED BY <4>1, <4>2, <4>3, <4>4
    <3>2. ServerTypes'
      BY <1>1, <2>1, <3>1, AssignType DEF LobbyTypes, ServerTypes
    <3>3. mail' \in [Addrs -> SUBSET {"ACK", "DISCONNECT"}]
      <4>1. PICK out : mail' = [mail EXCEPT ![c] = @ \cup (out \cap Heeds(c))]
        BY <3>1 DEF Mail
      <4>2. Heeds(c) \subseteq {"ACK", "DISCONNECT"}
        BY DEF Heeds
      <4> QED BY <1>1, <4>1, <4>2 DEF LobbyTypes
    <3>4. FlightTypes'
      <4>1. PICK o \in SUBSET BOOLEAN : offer' = [offer EXCEPT ![c] = o]
        BY <3>1
      <4>2. offer' \in [Addrs -> SUBSET BOOLEAN]
        BY <1>1, <4>1 DEF LobbyTypes
      <4> QED BY <1>1, <3>1, <3>3, <4>2 DEF LobbyTypes, FlightTypes
    <3>5. ClientTypes'
      BY <1>1, <3>1, ClientTypesFrame
    <3>6. Seniority'
      BY <1>1, <3>1, SeniorityFrame DEF slots
    <3> QED BY <3>2, <3>4, <3>5, <3>6, TypeParts
  <2> QED BY <1>3, <2>4, <2>5 DEF RunClient
<1> QED BY <1>2, <1>3 DEF ServerRun

LEMMA ClientActionTypes ==
  ASSUME LobbyInv, NEW c \in Addrs, Client(c)
  PROVE  LobbyTypes' /\ Seniority'
<1>1. LobbyTypes /\ Seniority
  BY DEF LobbyInv
<1>2. UNCHANGED server
  BY DEF Client, NET_CL_Connect, Connected, Connecting, Hangup, NET_CL_Disconnect, Vanishes,
       ParseWaitingData, NET_CL_LaunchGame, NET_CL_StartGame, NET_CL_ParseLaunch,
       NET_CL_ParseGameStart, Takes, ClientTurn
<1>3. ServerTypes' /\ Seniority'
  BY <1>1, <1>2, ServerTypesFrame, SeniorityFrame DEF server, slots, lobby
<1> SUFFICES ClientTypes' /\ FlightTypes'
  BY <1>3, TypeParts
<1>4. CASE NET_CL_Connect(c) \/ Connected(c)
  <2>1. /\ link' = [link EXCEPT ![c] = "CONNECTING"] \/ link' = [link EXCEPT ![c] = "CONNECTED"]
        /\ mail' = [mail EXCEPT ![c] = @ \cap {"DISCONNECT"}]
        /\ UNCHANGED <<client_state, is_controller, started, game, offer, down, up>>
    BY <1>4, Zenon DEF NET_CL_Connect, Connected, Connecting
  <2>2. mail' \in [Addrs -> SUBSET {"ACK", "DISCONNECT"}]
    BY <1>1, <2>1 DEF LobbyTypes
  <2>3. ClientTypes'
    BY <1>1, <2>1 DEF LobbyTypes, ClientTypes
  <2> QED BY <1>1, <2>1, <2>2, <2>3 DEF LobbyTypes, FlightTypes
<1>5. CASE Hangup(c) \/ Vanishes(c)
  BY <1>1, <1>5, GoneTypes DEF Hangup, Vanishes
<1>6. CASE NET_CL_Disconnect(c)
  <2>1. <<>> \in Seq(Settings \cup {LAUNCH})
    OBVIOUS
  <2> QED BY <1>1, <1>6, <2>1 DEF NET_CL_Disconnect, Forget, LobbyTypes, ClientTypes, FlightTypes
<1>7. CASE ParseWaitingData(c)
  <2>1. \E b \in BOOLEAN : is_controller' = [is_controller EXCEPT ![c] = b]
    BY <1>1, <1>7 DEF ParseWaitingData, LobbyTypes
  <2>2. /\ offer' = [offer EXCEPT ![c] = {}]
        /\ UNCHANGED <<link, client_state, started, game, mail, down, up>>
    BY <1>7 DEF ParseWaitingData
  <2>3. ClientTypes'
    BY <1>1, <2>1, <2>2 DEF LobbyTypes, ClientTypes
  <2>4. FlightTypes'
    BY <1>1, <2>2 DEF LobbyTypes, FlightTypes
  <2> QED BY <2>3, <2>4
<1>8. CASE NET_CL_LaunchGame(c) \/ NET_CL_StartGame(c)
  <2>1. PICK p \in {"LAUNCH", "GAMESTART"} : up' = [up EXCEPT ![c] = Append(@, p)]
    BY <1>8 DEF NET_CL_LaunchGame, NET_CL_StartGame, Submit
  <2>2. Append(up[c], p) \in Seq({"LAUNCH", "GAMESTART"})
    BY <1>1, AppendEntries DEF LobbyTypes
  <2>3. /\ UNCHANGED <<link, client_state, is_controller, game, toClient>>
        /\ started' = started \/ started' = [started EXCEPT ![c] = TRUE]
    BY <1>8 DEF NET_CL_LaunchGame, NET_CL_StartGame, client
  <2>4. ClientTypes'
    BY <1>1, <2>3 DEF LobbyTypes, ClientTypes
  <2>5. FlightTypes'
    BY <1>1, <2>1, <2>2, <2>3 DEF LobbyTypes, FlightTypes, toClient
  <2> QED BY <2>4, <2>5
<1>9. CASE NET_CL_ParseLaunch(c) \/ NET_CL_ParseGameStart(c)
  <2>1. down[c] # <<>> /\ down' = [down EXCEPT ![c] = Tail(@)]
    BY <1>9 DEF NET_CL_ParseLaunch, NET_CL_ParseGameStart, Takes
  <2>2. Tail(down[c]) \in Seq(Settings \cup {LAUNCH})
    BY <1>1, <2>1, TailEntries DEF LobbyTypes
  <2>3. /\ UNCHANGED <<link, is_controller, started, mail, up>>
        /\ offer' = offer \/ offer' = [offer EXCEPT ![c] = {}]
    BY <1>9 DEF NET_CL_ParseLaunch, NET_CL_ParseGameStart, Takes
  <2>4. game' \in [Addrs -> Settings \cup {NoGame}]
    BY <1>1, <1>9, TakeStartState DEF NET_CL_ParseLaunch, LobbyTypes
  <2>5. client_state' \in [Addrs -> {"WAITING_LAUNCH", "WAITING_START", "IN_GAME"}]
    <3>1. client_state \in [Addrs -> {"WAITING_LAUNCH", "WAITING_START", "IN_GAME"}]
      BY <1>1 DEF LobbyTypes
    <3>2. CASE NET_CL_ParseLaunch(c)
      BY <3>1, <3>2 DEF NET_CL_ParseLaunch
    <3>3. CASE NET_CL_ParseGameStart(c)
      BY <3>1, <3>3 DEF NET_CL_ParseGameStart
    <3> QED BY <1>9, <3>2, <3>3
  <2>6. ClientTypes'
    BY <1>1, <2>3, <2>4, <2>5 DEF LobbyTypes, ClientTypes
  <2>7. FlightTypes'
    BY <1>1, <2>1, <2>2, <2>3 DEF LobbyTypes, FlightTypes
  <2> QED BY <2>6, <2>7
<1> QED BY <1>4, <1>5, <1>6, <1>7, <1>8, <1>9 DEF Client
-----------------------------------------------------------------------------
LEMMA InitLobby == Init => LobbyInv
<1> SUFFICES ASSUME Init PROVE LobbyInv
  OBVIOUS
<1>1. SlotInv
  BY InitSlots
<1>2. /\ <<>> \in Seq(Slots) /\ NoDuplicates(<<>>) /\ Entries(<<>>) = {}
      /\ <<>> \in Seq({"LAUNCH", "GAMESTART"}) /\ <<>> \in Seq(Settings \cup {LAUNCH})
  BY DEF NoDuplicates, Entries
<1>3. LobbyTypes
  BY <1>2 DEF Init, LobbyTypes
<1>4. Seniority
  BY <1>2, LobbyAssumption DEF Init, Seniority
<1>5. ASSUME NEW c \in Addrs PROVE ClientOK(c)
  BY <1>2 DEF Init, ClientOK, Outsider, Startup, Starts, NoGame
<1>6. ASSUME NEW s \in Slots PROVE SlotOK(s)
  BY LobbyAssumption DEF Init, SlotOK, Unheard, Behind, Current, Reached
<1> QED BY <1>1, <1>3, <1>4, <1>5, <1>6 DEF LobbyInv

LEMMA ClientState ==
  ASSUME LobbyInv, NEW c \in Addrs, Client(c)
  PROVE  StateOK'
BY ConnectingState, GoneState, QuitState, WaitingDataState, SubmitState, TakeLaunchState,
   TakeStartState DEF Client

LEMMA PacketState ==
  ASSUME LobbyInv, NEW c \in Addrs, Packet(c)
  PROVE  StateOK'
BY ParseSYNState, ServerHearsState, LaunchState, StartupState DEF Packet

LEMMA ServerRunState ==
  ASSUME LobbyInv, ServerRun
  PROVE  StateOK'
<1>1. CASE FinishRun
  BY <1>1, FinishRunState
<1>2. ASSUME NEW s \in Slots, NEW over \in BOOLEAN, NEW due \in BOOLEAN,
             RunClient(s, over, due)
      PROVE  StateOK'
  <2>1. SlotTypes /\ turn \in Slots \cup {0} /\ s = NextTurn
    BY <1>2 DEF RunClient, LobbyInv, LobbyTypes, SlotInv
  <2>2. cstate[s] # "FREE"
    BY <2>1, TurnIsActive
  <2> QED BY <1>2, <2>2, DropClientState, KeepClientState DEF RunClient
<1> QED BY <1>1, <1>2 DEF ServerRun

LEMMA NextLobby == LobbyInv /\ [Next]_vars => LobbyInv'
<1> SUFFICES ASSUME LobbyInv, [Next]_vars PROVE LobbyInv'
  OBVIOUS
<1>1. SlotInv'
  BY NextSlots DEF LobbyInv
<1>2. LobbyTypes' /\ Seniority' /\ StateOK'
  <2>1. CASE ServerRun
    BY <2>1, ServerRunTypes, ServerRunState
  <2>2. ASSUME NEW c \in Addrs, Packet(c) PROVE LobbyTypes' /\ Seniority' /\ StateOK'
    BY <2>2, PacketTypes, PacketState
  <2>3. ASSUME NEW c \in Addrs, Client(c) PROVE LobbyTypes' /\ Seniority' /\ StateOK'
    BY <2>3, ClientActionTypes, ClientState
  <2>4. CASE UNCHANGED vars
    <3>1. LobbyTypes' /\ Seniority'
      <4>1. UNCHANGED <<sv_players, sv_gamemode, turn, client, toClient, up, addr, by_age>>
        BY <2>4 DEF vars, server, lobby, slots
      <4> QED BY <4>1, SeniorityFrame DEF LobbyInv, LobbyTypes, client, toClient
    <3>2. StateOK'
      <4>1. UNCHANGED <<cstate, addr, ready, server_state, sv_players, link, client_state,
                        game, down, up>>
        BY <2>4 DEF vars, server, lobby, slots, client, toClient
      <4>2. /\ \A x \in Addrs : SameClient(x)
            /\ SameNumbers /\ \A s \in Slots : SameSlot(s)
        BY <4>1 DEF SameClient, SameNumbers, SameSlot
      <4>3. \A x \in Addrs : ClientOK(x)'
        BY <4>2, ClientFrame DEF LobbyInv
      <4>4. \A s \in Slots : SlotOK(s)'
        BY <4>2, SlotFrame DEF LobbyInv, SlotInv
      <4> QED BY <4>3, <4>4 DEF StateOK
    <3> QED BY <3>1, <3>2
  <2> QED BY <2>1, <2>2, <2>3, <2>4 DEF Next
<1> QED BY <1>1, <1>2 DEF LobbyInv, StateOK
-----------------------------------------------------------------------------
(* What the server, the clients and the packets between them hold.         *)
LEMMA LobbyHolds == Spec => []LobbyInv
BY InitLobby, NextLobby, PTL DEF Spec

(* Slots, settings, numbers and packets are what they should be: the game  *)
(* start that a client accepts has a number that the server gives, between *)
(* that of an onlooker and that of the last slot.                          *)
THEOREM LobbyTypeCorrect == Spec => []TypeOK
<1>1. LobbyInv => TypeOK
  BY DEF LobbyInv, SlotInv, SlotTypes, LobbyTypes, Seniority, TypeOK
<1> QED BY LobbyHolds, <1>1, PTL

(* However often a SYN is repeated, and whatever is lost in between, a     *)
(* client has one slot, and each active slot of a player one age           *)
(* (NET_SV_ParseSYN).                                                      *)
THEOREM OneSlotEach == Spec => []OneSlotPerClient
<1>1. LobbyInv => OneSlotPerClient
  <2> SUFFICES ASSUME LobbyInv PROVE OneSlotPerClient
    OBVIOUS
  <2>1. OneSlot /\ SlotTypes /\ Seniority
    BY DEF LobbyInv, SlotInv
  <2>2. Cardinality({}) = 0 /\ \A x : Cardinality({x}) = 1
    BY FS_EmptySet, FS_Singleton
  <2>3. ASSUME NEW c \in Addrs PROVE Cardinality({s \in Slots : addr[s] = c}) <= 1
    <3> DEFINE mine == {s \in Slots : addr[s] = c}
    <3>1. mine = {} \/ \E s : mine = {s}
      BY <2>1, LobbyAssumption DEF OneSlot
    <3>2. Cardinality(mine) \in {0, 1}
      BY <2>2, <3>1
    <3> QED BY <3>2
  <2>4. ASSUME NEW s \in Slots
        PROVE  Cardinality({i \in DOMAIN by_age : by_age[i] = s})
                 = IF addr[s] \in Addrs \ Drones THEN 1 ELSE 0
    <3> DEFINE places == {i \in DOMAIN by_age : by_age[i] = s}
    <3>1. CASE addr[s] \in Addrs \ Drones
      <4>1. s \in Entries(by_age)
        BY <2>1, <3>1 DEF Seniority
      <4>2. PICK i \in DOMAIN by_age : by_age[i] = s
        BY <4>1 DEF Entries
      <4>3. places = {i}
        BY <2>1, <4>2 DEF Seniority, NoDuplicates
      <4> QED BY <2>2, <3>1, <4>3
    <3>2. CASE addr[s] \notin Addrs \ Drones
      <4>1. s \notin Entries(by_age)
        BY <2>1, <3>2 DEF Seniority
      <4>2. places = {}
        BY <4>1 DEF Entries
      <4> QED BY <2>2, <3>2, <4>2
    <3> QED BY <3>1, <3>2
  <2> QED BY <2>3, <2>4 DEF OneSlotPerClient
<1> QED BY LobbyHolds, <1>1, PTL

(* Clients in a game with the server hold the numbers the server uses for  *)
(* their tics, each player its own, below the number of players that all   *)
(* of them were told: not one of them can hold a start that is not of this *)
(* game (NET_SV_AssignPlayers, NET_SV_StartGame, NET_CL_ParseGameStart).   *)
THEOREM NumbersAgreed == Spec => []NumbersAgree
<1>1. LobbyInv => NumbersAgree
  <2> SUFFICES ASSUME LobbyInv PROVE NumbersAgree
    OBVIOUS
  <2>1. sv_players \in Seq(Slots) /\ NoDuplicates(sv_players)
    BY DEF LobbyInv, LobbyTypes
  <2>2. ASSUME NEW s \in Slots, InGame(s)
        PROVE  /\ server_state = "IN_GAME"
               /\ game[addr[s]] = GameStart(Places(sv_players), PlayerNumber(sv_players, s))
               /\ addr[s] \notin Drones => PlayerNumber(sv_players, s) >= 0
               /\ game[addr[s]].consoleplayer < game[addr[s]].num_players
    <3>1. cstate[s] = "CONNECTED" /\ addr[s] \in Addrs /\ client_state[addr[s]] = "IN_GAME"
      BY <2>2, LobbyAssumption DEF InGame, ClientConnected, LobbyInv, SlotInv, SlotTypes
    <3>2. PICK c \in Addrs : c = addr[s]
      BY <3>1
    <3>3. ClientOK(c) /\ SlotOK(s)
      BY DEF LobbyInv
    <3>4. game[c] \in Starts(c)
      BY <3>1, <3>2, <3>3 DEF ClientOK, Startup, Starts
    <3>5. /\ server_state = "IN_GAME"
          /\ game[c] = GameStart(Places(sv_players), PlayerNumber(sv_players, s))
      BY <3>1, <3>2, <3>3, <3>4 DEF SlotOK, Current
    <3>6. SaneStart(c, game[c])
      BY <3>1, <3>2, <3>3 DEF ClientOK, Startup
    <3>7. c \notin Drones => ~(PlayerNumber(sv_players, s) < 0)
      BY <3>5, <3>6 DEF SaneStart, GameStart
    <3>8. PlayerNumber(sv_players, s) \in Int
      BY <2>1, PlayerNumberFacts
    <3> QED BY <3>2, <3>5, <3>6, <3>7, <3>8 DEF SaneStart
  <2>3. ASSUME NEW s \in Slots, NEW t \in Slots \ {s}, PlayerNumber(sv_players, s) >= 0
        PROVE  PlayerNumber(sv_players, s) # PlayerNumber(sv_players, t)
    BY <2>1, <2>3, PlayerNumberFacts
  <2>4. ASSUME NEW s \in Slots, InGame(s), NEW t \in Slots \ {s}, InGame(t)
        PROVE  /\ game[addr[s]].num_players = game[addr[t]].num_players
               /\ IsPlayer(cstate, addr, s) =>
                    game[addr[s]].consoleplayer # game[addr[t]].consoleplayer
    <3>1. /\ game[addr[s]] = GameStart(Places(sv_players), PlayerNumber(sv_players, s))
          /\ game[addr[t]] = GameStart(Places(sv_players), PlayerNumber(sv_players, t))
      BY <2>2, <2>4
    <3>2. IsPlayer(cstate, addr, s) => PlayerNumber(sv_players, s) # PlayerNumber(sv_players, t)
      BY <2>2, <2>3, <2>4 DEF IsPlayer
    <3> QED BY <3>1, <3>2 DEF GameStart
  <2>5. ASSUME NEW s \in Slots, InGame(s)
        PROVE  /\ server_state = "IN_GAME"
               /\ game[addr[s]].consoleplayer = PlayerNumber(sv_players, s)
               /\ game[addr[s]].consoleplayer < game[addr[s]].num_players
    <3>1. /\ server_state = "IN_GAME"
          /\ game[addr[s]] = GameStart(Places(sv_players), PlayerNumber(sv_players, s))
          /\ game[addr[s]].consoleplayer < game[addr[s]].num_players
      BY <2>2, <2>5
    <3> QED BY <3>1 DEF GameStart
  <2> QED BY <2>4, <2>5 DEF NumbersAgree
<1> QED BY LobbyHolds, <1>1, PTL

(* A game that starts takes along every client that was ready, as far as   *)
(* the array of players has places (NET_SV_StartGame,                      *)
(* NET_CL_ParseGameStart).                                                 *)
THEOREM StartReached == Spec => []StartReachesPlaced
<1>1. LobbyInv => StartReachesPlaced
  <2> SUFFICES ASSUME LobbyInv PROVE StartReachesPlaced
    OBVIOUS
  <2>1. ASSUME NEW s \in Slots, InStart(s), PlayerNumber(sv_players, s) < NET_MAXPLAYERS
        PROVE  StartComing(s)
    <3>1. Reached(s)
      BY DEF LobbyInv, SlotOK
    <3> QED BY <2>1, <3>1 DEF Reached, InStart, StartComing, InGame, ClientConnected, Entries
  <2> QED BY <2>1 DEF StartReachesPlaced
<1> QED BY LobbyHolds, <1>1, PTL

(* When there are no more players about than the array has places, that is *)
(* everybody: the server's count is wrong only by those it has let in and  *)
(* not heard from yet (NET_SV_ParseSYN).                                   *)
THEOREM AllReachedIfPlaced ==
  Spec => [](Len(sv_players) <= NET_MAXPLAYERS => StartReachesAll)
<1>1. LobbyInv => (Len(sv_players) <= NET_MAXPLAYERS => StartReachesAll)
  <2> SUFFICES ASSUME LobbyInv, Len(sv_players) <= NET_MAXPLAYERS,
                      NEW s \in Slots, InStart(s)
               PROVE  StartComing(s)
    BY DEF StartReachesAll
  <2>1. sv_players \in Seq(Slots) /\ NoDuplicates(sv_players)
    BY DEF LobbyInv, LobbyTypes
  <2>2. PlayerNumber(sv_players, s) \in -1..(Len(sv_players) - 1)
    BY <2>1, PlayerNumberFacts
  <2>3. PlayerNumber(sv_players, s) < NET_MAXPLAYERS
    BY <2>1, <2>2, LobbyAssumption
  <2>4. Reached(s)
    BY DEF LobbyInv, SlotOK
  <2> QED BY <2>3, <2>4 DEF Reached, InStart, StartComing, InGame, ClientConnected, Entries
<1> QED BY LobbyHolds, <1>1, PTL
=============================================================================
