------------------------------ MODULE NetLobby ------------------------------
(***************************************************************************)
(* How a network game comes about and ends: the client slots and the       *)
(* three states of the server (net_server.c) and, for each client, the     *)
(* way from NET_CL_Connect to the game (net_client.c).                     *)
(*                                                                         *)
(* The connections underneath are those of NetConn, seen through what is   *)
(* shown there: an acknowledgement, a hang-up or the answer to a hang-up   *)
(* reaches an end only if the other end sent it, any of them may be lost,  *)
(* an end that hears nothing drops the connection at a time of its own,    *)
(* and reliable packets arrive in order, each once.  A client process      *)
(* connects once, from a UDP port of its own.                              *)
(*                                                                         *)
(* NET_SV_Run handles the packets that are there, then runs every client   *)
(* in turn, then checks whether the game can start; turn says how far it   *)
(* is.  Clients act only between two runs of the server: what they do      *)
(* during one touches nothing that the rest of the run reads.              *)
(***************************************************************************)
EXTENDS Integers, Sequences, FiniteSets, Lists

CONSTANTS
  Addrs,         \* client processes, by address
  Drones,        \* those that only watch (-drone)
  NumSlots,      \* MAXNETNODES
  NET_MAXPLAYERS,
  MaxPlayersOf,  \* max_players that a client asks for
  ModeOf,        \* game mode and mission of a client
  ValidSettings, \* clients whose settings pass NET_ValidGameSettings
  Nobody, indetermined

ASSUME LobbyAssumption ==
  /\ Drones \subseteq Addrs /\ ValidSettings \subseteq Addrs
  /\ NumSlots \in Nat \ {0}
  /\ NET_MAXPLAYERS \in Nat
  /\ IsFiniteSet(Addrs)
  /\ MaxPlayersOf \in [Addrs -> 0..NET_MAXPLAYERS]
  /\ Nobody \notin Addrs /\ indetermined \notin {ModeOf[c] : c \in Addrs}

VARIABLES
  \* the server
  server_state,
  cstate,         \* connection.state of each slot; "FREE" when not active
  addr,           \* client of the slot; Nobody when not active
  ready,
  by_age,         \* active slots of players, oldest connect_time first
  sv_players,     \* the slots AssignPlayers numbered last, in order
  sv_gamemode,
  turn,           \* 0: handling packets; s: slot s was run last
  \* a client
  link,           \* its connection, and how it ended
  client_state,
  is_controller,  \* of net_client_wait_data
  started,        \* it has sent its settings (NET_CL_StartGame)
  game,           \* settings received with the game start, or NoGame
  \* in flight
  mail,           \* connection packets to a client that matter to it still
  offer,          \* is_controller of the waiting data sent last, if any
  up, down        \* reliable packets to and from the server

slots == <<cstate, addr, by_age>>
lobby == <<server_state, sv_gamemode>>
server == <<slots, lobby, sv_players, ready, turn>>
client == <<link, client_state, is_controller, started, game>>
toClient == <<mail, offer, down>>
vars == <<server, client, toClient, up>>

Slots == 1..NumSlots
NoGame == [type |-> "NONE"]
LAUNCH == [type |-> "LAUNCH"]
GameStart(num, console) ==
  [type |-> "GAMESTART", num_players |-> num, consoleplayer |-> console]

-----------------------------------------------------------------------------
(* Questions about the slots.  cs and a are values of cstate and addr in   *)
(* the middle of a step.  Here and below, an operator defined beside the   *)
(* one the model uses is that operator with a mistake in it, to see that   *)
(* the properties notice.                                                  *)

ClientConnected(cs, s) == cs[s] = "CONNECTED"
IsPlayer(cs, a, s) == ClientConnected(cs, s) /\ a[s] \notin Drones

FindConnected(c) == {s \in Slots : cstate[s] = "CONNECTED" /\ addr[s] = c}
FindClient(c) == {s \in Slots : cstate[s] # "FREE" /\ addr[s] = c}
FreeSlots(cs) == {s \in Slots : cs[s] = "FREE"}
First(S) == CHOOSE s \in S : \A t \in S : s <= t

Assigned(cs, a) ==
  Only([s \in Slots |-> s], {s \in Slots : IsPlayer(cs, a, s)})
AssignPlayers(cs, a) == sv_players' = Assigned(cs, a)

(* AssignPlayers also writes player_number: the place in sv_players, or -1 *)
PlayerNumber(svp, s) ==
  IF \E i \in DOMAIN svp : svp[i] = s
    THEN (CHOOSE i \in DOMAIN svp : svp[i] = s) - 1 ELSE -1

(* NumPlayers counts in the first NET_MAXPLAYERS places of sv_players,     *)
(* which may be older than cs.  The array has no more of them, while all   *)
(* slots may be those of connected players: NewClient counts who has       *)
(* acknowledged and lets the others in meanwhile.  AssignPlayers then      *)
(* writes past the end, where nobody reads.  A program which that write    *)
(* ends takes no further step here; other damage by it is not followed.    *)
NumAssigned(svp, cs) == Len(svp)
NumPlayers(svp, cs) ==
  Cardinality({i \in DOMAIN svp :
                 i <= NET_MAXPLAYERS /\ ClientConnected(cs, svp[i])})

MaxPlayers(cs, a) ==
  LET conn == {s \in Slots : ClientConnected(cs, s)}
  IN IF conn = {} THEN NET_MAXPLAYERS ELSE MaxPlayersOf[a[First(conn)]]

(* The oldest connected player, 0 for NULL.                                *)
Controller(cs, a) ==
  LET old == Only(by_age, {s \in Slots : IsPlayer(cs, a, s)})
  IN IF old = <<>> THEN 0 ELSE Head(old)

AllNodesReady(r) == \A s \in Slots : ClientConnected(cstate, s) => r[s]

-----------------------------------------------------------------------------
Init ==
  /\ server_state = "WAITING_LAUNCH"
  /\ cstate = [s \in Slots |-> "FREE"]
  /\ addr = [s \in Slots |-> Nobody]
  /\ ready = [s \in Slots |-> FALSE]
  /\ by_age = <<>>
  /\ sv_players = <<>>
  /\ sv_gamemode = indetermined
  /\ turn = 0
  /\ link = [c \in Addrs |-> "IDLE"]
  /\ client_state = [c \in Addrs |-> "WAITING_LAUNCH"]
  /\ is_controller = [c \in Addrs |-> FALSE]
  /\ started = [c \in Addrs |-> FALSE]
  /\ game = [c \in Addrs |-> NoGame]
  /\ mail = [c \in Addrs |-> {}]
  /\ offer = [c \in Addrs |-> {}]
  /\ up = [c \in Addrs |-> <<>>]
  /\ down = [c \in Addrs |-> <<>>]

-----------------------------------------------------------------------------
(* A packet to a client that will ignore it is not kept.                   *)
Heeds(c) == CASE link[c] = "CONNECTING" -> {"ACK", "DISCONNECT"}
              [] link[c] \in {"CONNECTED", "DISCONNECTING"} -> {"DISCONNECT"}
              [] OTHER -> {}
Mail(c, out) == mail' = [mail EXCEPT ![c] = @ \cup (out \cap Heeds(c))]

(* A client on its way out: what it knew and what the server tells it are  *)
(* of no account any more.                                                 *)
Forget(c) ==
  /\ client_state' = [client_state EXCEPT ![c] = "WAITING_LAUNCH"]
  /\ is_controller' = [is_controller EXCEPT ![c] = FALSE]
  /\ started' = [started EXCEPT ![c] = FALSE]
  /\ game' = [game EXCEPT ![c] = NoGame]
  /\ offer' = [offer EXCEPT ![c] = {}]
  /\ down' = [down EXCEPT ![c] = <<>>]

Gone(c, end) ==
  /\ link' = [link EXCEPT ![c] = end]
  /\ Forget(c)
  /\ mail' = [mail EXCEPT ![c] = {}]
  /\ up' = [up EXCEPT ![c] = <<>>]

-----------------------------------------------------------------------------
(* The server's packets: NET_SV_Packet.                                    *)

Admits(st) == st # "WAITING_START"
Accepts(st) == st = "WAITING_LAUNCH"

(* NET_SV_ParseSYN.  s is the slot of the client or, for a new one, the    *)
(* first that is free.  A client that hears of a rejection gives up, as it *)
(* does when it hears nothing (Vanishes).                                  *)
AcceptSYN(c, s, cs) ==
  /\ cstate' = [cs EXCEPT ![s] = "WAITING_ACK"]
  /\ addr' = [addr EXCEPT ![s] = c]
  /\ by_age' = LET old == Only(by_age, Slots \ {s})
               IN IF c \in Drones THEN old ELSE Append(old, s)
  /\ ready' = [ready EXCEPT ![s] = FALSE]
  /\ down' = [down EXCEPT ![c] = <<>>]

RejectSYN(c, s, cs) ==
  /\ cstate' = cs
  /\ addr' = [addr EXCEPT ![s] = Nobody]
  /\ by_age' = Only(by_age, Slots \ {s})
  /\ UNCHANGED <<ready, down>>

NewClient(c, s) ==
  LET cs    == [cstate EXCEPT ![s] = "FREE"]
      num   == NumPlayers(Assigned(cs, addr), cs)
      full  == \/ (c \notin Drones /\ num >= MaxPlayers(cs, addr))
               \/ \A t \in Slots : ClientConnected(cs, t)
      adopt == ~full /\ num = 0 /\ c \notin Drones
  IN /\ AssignPlayers(cs, addr)
     /\ sv_gamemode' = IF adopt THEN ModeOf[c] ELSE sv_gamemode
     /\ IF full \/ ModeOf[c] # sv_gamemode'
          THEN RejectSYN(c, s, cs)
          ELSE AcceptSYN(c, s, cs)

(* A SYN of a client that has a slot already changes nothing, unless the   *)
(* slot is disconnected and about to be freed.                             *)
ParseSYN(c) ==
  /\ turn = 0
  /\ link[c] # "IDLE"
  /\ link[c] = "CONNECTING" \/ FindClient(c) # {}
  /\ IF ~Accepts(server_state)
       THEN UNCHANGED <<slots, sv_players, sv_gamemode, ready, down>>
       ELSE LET known == FindClient(c)
                pool  == IF known = {} THEN FreeSlots(cstate)
                         ELSE {s \in known : cstate[s] = "DISCONNECTED"}
            IN \E s \in pool : (\A t \in pool : s <= t) /\ NewClient(c, s)
  /\ UNCHANGED <<server_state, turn, client, mail, offer, up>>

(* The connection packets, eaten by NET_Conn_Packet.                       *)
ServerHears(c, from, cond, to) ==
  /\ turn = 0
  /\ link[c] \in from
  /\ \E s \in FindClient(c) : /\ cstate[s] \in cond
                              /\ cstate' = [cstate EXCEPT ![s] = to]
  /\ UNCHANGED <<addr, by_age, lobby, sv_players, ready, turn,
                 client, toClient, up>>

ReceiveACK(c) ==
  ServerHears(c, {"CONNECTED", "DISCONNECTING"}, {"WAITING_ACK"}, "CONNECTED")
ReceiveDisconnect(c) ==
  ServerHears(c, {"DISCONNECTING"},
              {"WAITING_ACK", "CONNECTED", "DISCONNECTING", "DISCONNECTED"},
              "DISCONNECTED_SLEEP")
ReceiveDisconnectACK(c) ==
  ServerHears(c, {"HUNGUP"}, {"DISCONNECTING"}, "DISCONNECTED")

(* A reliable packet of c reaches its slot s, in whatever state.           *)
Delivers(c, s, type) ==
  /\ turn = 0
  /\ link[c] \in {"CONNECTED", "DISCONNECTING"}
  /\ s \in FindClient(c)
  /\ up[c] # <<>> /\ Head(up[c]) = type
  /\ up' = [up EXCEPT ![c] = Tail(@)]

Forward(p) ==
  down' = [c \in Addrs |->
             IF /\ link[c] = "CONNECTED"
                /\ \E s \in FindClient(c) : ClientConnected(cstate, s)
               THEN Append(down[c], p[c]) ELSE down[c]]

ParseLaunch(c, s) ==
  /\ Delivers(c, s, "LAUNCH")
  /\ IF s = Controller(cstate, addr) /\ server_state = "WAITING_LAUNCH"
       THEN /\ AssignPlayers(cstate, addr)
            /\ Forward([x \in Addrs |-> LAUNCH])
            /\ server_state' = "WAITING_START"
       ELSE UNCHANGED <<sv_players, down, server_state>>
  /\ UNCHANGED <<slots, sv_gamemode, ready, turn, client, mail, offer>>

(* StartGame tells every connected client its number, and the number of    *)
(* players.                                                                *)
StartGame ==
  /\ AssignPlayers(cstate, addr)
  /\ Forward([c \in Addrs |->
       LET s == CHOOSE t \in FindClient(c) : TRUE
       IN GameStart(NumPlayers(sv_players', cstate), PlayerNumber(sv_players', s))])
  /\ server_state' = "IN_GAME"

(* After the check the waiting data goes to all clients that are ready,    *)
(* which assigns the players again; the clients just display it.           *)
ParseGameStart(c, s) ==
  LET controls == s = Controller(cstate, addr)
      refused  == \/ server_state # "WAITING_START"
                  \/ (controls /\ c \notin ValidSettings)
  IN /\ Delivers(c, s, "GAMESTART")
     /\ IF refused
          THEN UNCHANGED <<sv_players, ready, server_state, down>>
          ELSE /\ ready' = [ready EXCEPT ![s] = TRUE]
               /\ IF AllNodesReady(ready')
                    THEN StartGame
                    ELSE /\ IF \E t \in Slots : /\ ClientConnected(cstate, t)
                                                /\ ready'[t]
                              THEN AssignPlayers(cstate, addr)
                              ELSE UNCHANGED sv_players
                         /\ UNCHANGED <<server_state, down>>
     /\ UNCHANGED <<slots, sv_gamemode, turn, client, mail, offer>>

-----------------------------------------------------------------------------
(* The second half of NET_SV_Run.                                          *)

(* The slots are run in order, those that are not active skipped.          *)
NextTurn ==
  LET rest == {s \in Slots : s > turn /\ cstate[s] # "FREE"}
  IN IF rest = {} THEN 0 ELSE First(rest)

(* NET_SV_GameEnded drops whatever is not on its way out already.          *)
DroppedEverywhere(cs) == [s \in Slots |-> "DISCONNECTING"]
DroppedPlayers(cs) ==
  [s \in Slots |-> IF IsPlayer(cs, addr, s) THEN "DISCONNECTING" ELSE cs[s]]
Dropped(cs) ==
  [s \in Slots |-> IF cs[s] \in {"WAITING_ACK", "CONNECTED"}
                     THEN "DISCONNECTING" ELSE cs[s]]

(* The connection has run out of time or of retries, or a packet ended it: *)
(* the slot is freed, and the game or its startup may be over with it.     *)
(* Only a client still sending SYNs can be seen again.                     *)
DropClient(s) ==
  LET c == addr[s]
      cs == [cstate EXCEPT ![s] = "FREE"]
      abort == server_state = "WAITING_START" /\ addr[s] \notin Drones
      ended == abort \/ NumPlayers(sv_players, cs) = 0
  IN /\ addr' = [addr EXCEPT ![s] = Nobody]
     /\ by_age' = Only(by_age, Slots \ {s})
     /\ ready' = [ready EXCEPT ![s] = FALSE]
     /\ IF ended
          THEN /\ cstate' = Dropped(cs)
               /\ server_state' = "WAITING_LAUNCH"
               /\ sv_gamemode' = indetermined
          ELSE cstate' = cs /\ UNCHANGED <<server_state, sv_gamemode>>
     /\ IF link[c] = "CONNECTING"
          THEN UNCHANGED <<client, toClient, up>> ELSE Gone(c, "LOST")
     /\ UNCHANGED sv_players

StillInforms(st) == st # "WAITING_START"
Informs(st) == st = "WAITING_LAUNCH"

(* The client stays.  due: the second between two waiting data is over.    *)
(* A client discards waiting data with more players than the maximum, or   *)
(* with a number of its own that is not below that of the players.         *)
KeepClient(s, due) ==
  LET c == addr[s]
      out == CASE cstate[s] = "WAITING_ACK"   -> {"ACK"}
               [] cstate[s] = "DISCONNECTING" -> {"DISCONNECT"}
               [] OTHER                       -> {}
      informs == due /\ ClientConnected(cstate, s) /\ Informs(server_state)
      svp == Assigned(cstate, addr)
      num == NumPlayers(svp, cstate)
      sane == num <= MaxPlayers(cstate, addr) /\ PlayerNumber(svp, s) < num
      shown == /\ informs /\ sane
               /\ link[c] = "CONNECTED" /\ client_state[c] = "WAITING_LAUNCH"
  IN /\ Mail(c, out)
     /\ IF informs THEN AssignPlayers(cstate, addr) ELSE UNCHANGED sv_players
     /\ offer' = [offer EXCEPT ![c] =
          IF shown THEN {s = Controller(cstate, addr)} \ {is_controller[c]}
                   ELSE @]
     /\ UNCHANGED <<slots, server_state, sv_gamemode, ready, client, down, up>>

RunClient(s, over, due) ==
  /\ s = NextTurn /\ turn' = s
  /\ cstate[s] = "DISCONNECTED" => over
  /\ IF over THEN DropClient(s) ELSE KeepClient(s, due)

FinishRun ==
  /\ NextTurn = 0 /\ turn' = 0
  /\ IF server_state = "WAITING_START" /\ AllNodesReady(ready)
       THEN StartGame
       ELSE UNCHANGED <<sv_players, server_state, down>>
  /\ UNCHANGED <<slots, sv_gamemode, ready, client, mail, offer, up>>

-----------------------------------------------------------------------------
(* A client.                                                               *)

ClientTurn == turn = 0 /\ UNCHANGED server

Connecting(c, from, to, heard) ==
  /\ ClientTurn
  /\ link[c] = from
  /\ link' = [link EXCEPT ![c] = to]
  /\ heard \subseteq mail[c]
  /\ mail' = [mail EXCEPT ![c] = @ \cap {"DISCONNECT"}]
  /\ UNCHANGED <<client_state, is_controller, started, game, offer, down, up>>

NET_CL_Connect(c) == Connecting(c, "IDLE", "CONNECTING", {})
Connected(c)      == Connecting(c, "CONNECTING", "CONNECTED", {"ACK"})

(* The player quits: D_QuitNetGame.  How NET_CL_Disconnect ends makes no   *)
(* difference to the server, to which its packets may be late or lost.     *)
NET_CL_Disconnect(c) ==
  /\ ClientTurn
  /\ link[c] = "CONNECTED"
  /\ link' = [link EXCEPT ![c] = "DISCONNECTING"]
  /\ Forget(c)
  /\ UNCHANGED <<mail, up>>

(* The server hangs up, and the client shuts down at once.                 *)
Hangup(c) == ClientTurn /\ "DISCONNECT" \in mail[c] /\ Gone(c, "HUNGUP")

(* It was rejected, gave up on the server, or died.                        *)
Vanishes(c) ==
  /\ ClientTurn
  /\ link[c] \in {"CONNECTING", "CONNECTED"}
  /\ Gone(c, "LOST")

ParseWaitingData(c) ==
  /\ turn = 0
  /\ link[c] = "CONNECTED"
  /\ \E controls \in offer[c] :
       is_controller' = [is_controller EXCEPT ![c] = controls]
  /\ offer' = [offer EXCEPT ![c] = {}]
  /\ UNCHANGED <<server, link, client_state, started, game, mail, down, up>>

Submit(c, p) == up' = [up EXCEPT ![c] = Append(@, p)]

(* The start button, or -nodes; it may be pressed again while the launch   *)
(* is being processed.                                                     *)
NET_CL_LaunchGame(c) ==
  /\ ClientTurn
  /\ link[c] = "CONNECTED" /\ client_state[c] = "WAITING_LAUNCH"
  /\ is_controller[c] /\ up[c] = <<>>
  /\ Submit(c, "LAUNCH")
  /\ UNCHANGED <<client, toClient>>

(* D_StartNetGame, once the launch has ended NET_WaitForLaunch.            *)
NET_CL_StartGame(c) ==
  /\ ClientTurn
  /\ link[c] = "CONNECTED" /\ client_state[c] = "WAITING_START"
  /\ ~started[c]
  /\ started' = [started EXCEPT ![c] = TRUE]
  /\ Submit(c, "GAMESTART")
  /\ UNCHANGED <<link, client_state, is_controller, game, toClient>>

Takes(c, type) ==
  /\ turn = 0
  /\ link[c] = "CONNECTED"
  /\ down[c] # <<>> /\ Head(down[c]).type = type
  /\ down' = [down EXCEPT ![c] = Tail(@)]
  /\ UNCHANGED <<server, link, is_controller, started, mail, up>>

NET_CL_ParseLaunch(c) ==
  /\ Takes(c, "LAUNCH")
  /\ client_state' = [client_state EXCEPT ![c] =
                        IF @ = "WAITING_LAUNCH" THEN "WAITING_START" ELSE @]
  /\ offer' = [offer EXCEPT ![c] = {}]
  /\ UNCHANGED game

SaneForAllButLast(c, p) == p.consoleplayer < p.num_players - 1
SaneStart(c, p) ==
  /\ p.num_players <= NET_MAXPLAYERS
  /\ p.consoleplayer < p.num_players
  /\ (c \in Drones) = (p.consoleplayer < 0)

NET_CL_ParseGameStart(c) ==
  /\ Takes(c, "GAMESTART")
  /\ IF client_state[c] = "WAITING_START" /\ SaneStart(c, Head(down[c]))
       THEN /\ client_state' = [client_state EXCEPT ![c] = "IN_GAME"]
            /\ game' = [game EXCEPT ![c] = Head(down[c])]
       ELSE UNCHANGED <<client_state, game>>
  /\ UNCHANGED offer

-----------------------------------------------------------------------------
Packet(c) ==
  \/ ParseSYN(c)
  \/ ReceiveACK(c)
  \/ ReceiveDisconnect(c)
  \/ ReceiveDisconnectACK(c)
  \/ \E s \in Slots : ParseLaunch(c, s) \/ ParseGameStart(c, s)

Client(c) ==
  \/ NET_CL_Connect(c)
  \/ Connected(c)
  \/ Hangup(c)
  \/ NET_CL_Disconnect(c)
  \/ Vanishes(c)
  \/ ParseWaitingData(c)
  \/ NET_CL_LaunchGame(c)
  \/ NET_CL_StartGame(c)
  \/ NET_CL_ParseLaunch(c)
  \/ NET_CL_ParseGameStart(c)

ServerRun ==
  \/ \E s \in Slots, over, due \in BOOLEAN : RunClient(s, over, due)
  \/ FinishRun

Next == ServerRun \/ \E c \in Addrs : Packet(c) \/ Client(c)

Spec == Init /\ [][Next]_vars

(* The main loop of the server keeps running, so a connection that its     *)
(* client no longer keeps up runs out of time or of retries.               *)
Ending(s) ==
  \/ cstate[s] \in {"DISCONNECTING", "DISCONNECTED_SLEEP"}
  \/ cstate[s] # "FREE" /\ link[addr[s]] \in {"DISCONNECTING", "HUNGUP", "LOST"}

FairSpec ==
  /\ Spec
  /\ WF_vars(ServerRun)
  /\ \A s \in Slots : SF_vars(Ending(s) /\ RunClient(s, TRUE, FALSE))

-----------------------------------------------------------------------------
(* Properties.                                                             *)

CStates == {"FREE", "WAITING_ACK", "CONNECTED", "DISCONNECTING",
            "DISCONNECTED", "DISCONNECTED_SLEEP"}
Settings == [type : {"GAMESTART"}, num_players : 0..NET_MAXPLAYERS,
             consoleplayer : -1..(NumSlots - 1)]

TypeOK ==
  /\ server_state \in {"WAITING_LAUNCH", "WAITING_START", "IN_GAME"}
  /\ cstate \in [Slots -> CStates]
  /\ addr \in [Slots -> Addrs \cup {Nobody}]
  /\ \A s \in Slots : cstate[s] = "FREE" <=> addr[s] = Nobody
  /\ ready \in [Slots -> BOOLEAN]
  /\ by_age \in Seq(Slots) /\ sv_players \in Seq(Slots)
  /\ sv_gamemode \in {ModeOf[c] : c \in Addrs} \cup {indetermined}
  /\ turn \in Slots \cup {0}
  /\ link \in [Addrs -> {"IDLE", "CONNECTING", "CONNECTED", "DISCONNECTING",
                         "HUNGUP", "LOST"}]
  /\ client_state \in [Addrs -> {"WAITING_LAUNCH", "WAITING_START", "IN_GAME"}]
  /\ is_controller \in [Addrs -> BOOLEAN] /\ started \in [Addrs -> BOOLEAN]
  /\ game \in [Addrs -> Settings \cup {NoGame}]
  /\ mail \in [Addrs -> SUBSET {"ACK", "DISCONNECT"}]
  /\ offer \in [Addrs -> SUBSET BOOLEAN]
  /\ up \in [Addrs -> Seq({"LAUNCH", "GAMESTART"})]
  /\ down \in [Addrs -> Seq(Settings \cup {LAUNCH})]

(* However often a SYN is repeated, a client has one slot, and each active *)
(* slot of a player one age (NET_SV_ParseSYN).                             *)
OneSlotPerClient ==
  /\ \A c \in Addrs : Cardinality({s \in Slots : addr[s] = c}) <= 1
  /\ \A s \in Slots :
       Cardinality({i \in DOMAIN by_age : by_age[i] = s})
         = IF addr[s] \in Addrs \ Drones THEN 1 ELSE 0

(* Nobody carries a readiness over from a game or a startup that ended:    *)
(* the next launch waits for everybody.                                    *)
NoStaleReady ==
  server_state = "WAITING_LAUNCH" =>
    \A s \in Slots : ClientConnected(cstate, s) => ~ready[s]

(* Clients in a game with the server hold the numbers the server uses for  *)
(* their tics: each player its own, below the number of players that all   *)
(* of them were told.                                                      *)
InGame(s) == /\ ClientConnected(cstate, s)
             /\ link[addr[s]] = "CONNECTED"
             /\ client_state[addr[s]] = "IN_GAME"

NumbersAgree ==
  \A s \in Slots : InGame(s) =>
    /\ server_state = "IN_GAME"
    /\ game[addr[s]].consoleplayer = PlayerNumber(sv_players, s)
    /\ game[addr[s]].consoleplayer < game[addr[s]].num_players
    /\ \A t \in Slots \ {s} : InGame(t) =>
         /\ game[addr[s]].num_players = game[addr[t]].num_players
         /\ IsPlayer(cstate, addr, s) =>
              game[addr[s]].consoleplayer # game[addr[t]].consoleplayer

(* A game that starts takes along every client that was ready: it is in    *)
(* the game or has the game start still coming.  That all of them have a   *)
(* place is what "check that there is a slot free" is for in               *)
(* NET_SV_ParseSYN; it can fail, and then those with a number that the     *)
(* array of players has no place for discard the game start.               *)
InStart(s) == /\ server_state = "IN_GAME"
              /\ ClientConnected(cstate, s) /\ ready[s]
              /\ link[addr[s]] = "CONNECTED"
StartComing(s) == \/ InGame(s)
                  \/ \E i \in DOMAIN down[addr[s]] :
                       down[addr[s]][i].type = "GAMESTART"

StartReachesAll == \A s \in Slots : InStart(s) => StartComing(s)

(* The same of the clients whose number is below NET_MAXPLAYERS, and of    *)
(* the drones: no loss, abort or late joiner makes them miss the start.    *)
StartReachesPlaced ==
  \A s \in Slots :
    InStart(s) /\ PlayerNumber(sv_players, s) < NET_MAXPLAYERS => StartComing(s)

(* While a game runs nobody is renumbered, whatever connects, leaves or    *)
(* asks to be let in.                                                      *)
NumbersStable ==
  [][server_state = "IN_GAME" /\ server_state' = "IN_GAME"
       => UNCHANGED sv_players]_vars

(* When all clients are gone, the server returns to waiting, with all its  *)
(* slots free: no drone and no half-open slot keeps the old game alive.    *)
AllGone == \A c \in Addrs : link[c] \in {"DISCONNECTING", "HUNGUP", "LOST"}
ServerRecovers ==
  AllGone ~> /\ server_state = "WAITING_LAUNCH"
             /\ \A s \in Slots : cstate[s] = "FREE"

(* "If we were about to start a game, any player disconnecting should      *)
(* cause an abort": no game starts while the server has a player's         *)
(* disconnect in hand.                                                     *)
AbortOnDisconnect ==
  [][server_state = "WAITING_START" /\ server_state' = "IN_GAME" =>
       \A s \in Slots : cstate[s] = "DISCONNECTED_SLEEP" => addr[s] \in Drones]_vars
=============================================================================
