---------------------------- MODULE NetGameData -----------------------------
(***************************************************************************)
(* The game data: how the commands of every player for every tic reach     *)
(* all the others.  The server (net_server.c) collects the commands in a   *)
(* receive window, makes complete tics of them and keeps these in a queue  *)
(* for each node; a client (net_client.c) sends its own commands and has   *)
(* a receive window of complete tics.  Both ask for what they miss, and a  *)
(* client acknowledges how far its window has come.                        *)
(*                                                                         *)
(* The game has started: NetLobby.  Nodes below NumPlayers are players, by *)
(* their number, the others are drones.  Packets are written with whole    *)
(* tic numbers; of those of GAMEDATA and GAMEDATA_ACK only the last byte   *)
(* is sent, and it is completed where the packet arrives (Expanded).  A    *)
(* network that delivers a packet when its numbers are more than MaxLate   *)
(* tics behind the window it comes to is not followed (InTime).            *)
(*                                                                         *)
(* NET_SV_Run handles the packets that are there, each an action here,     *)
(* then runs every client in turn and advances its window, all in one:     *)
(* clients read nothing of the server's, and find its packets afterwards.  *)
(* Its slots are taken to be in the order of the nodes.                    *)
(***************************************************************************)
EXTENDS Sequences, FiniteSetsExt, TicBytes

CONSTANTS
  NumPlayers, NumNodes,
  NET_MAXPLAYERS,
  BACKUPTICS,   \* length of the windows and of the queues (128)
  MaxLag,       \* tics the server sends ahead of the slowest node (40)
  SoloLead,     \* the same for a tic that needs no commands (10)
  MaxAhead,     \* tics a client makes ahead of the server's (8)
  ResendSpan,   \* tics after the first that a deadlock check asks for (5)
  extratics,    \* tics repeated in each packet
  MaxLate,      \* tics that a packet is late at most
  Watched,      \* the node of FairSpec
  Leavers,      \* bound: nodes that hang up or are timed out
  MaxTic,       \* bound: commands that a player makes
  MaxInFlight   \* bound: packets in flight

ASSUME GameDataAssumption ==
  /\ NumPlayers \in 1..NET_MAXPLAYERS /\ NumNodes \in Nat
  /\ NumPlayers <= NumNodes
  /\ {BACKUPTICS, MaxLag, SoloLead, MaxAhead, ResendSpan, extratics,
      MaxTic, MaxInFlight, NET_MAXPLAYERS} \subseteq Nat
  /\ extratics < BACKUPTICS /\ SoloLead <= MaxLag
  /\ MaxLag + MaxAhead < 64 /\ MaxLate \in 0..64
  /\ MaxTic + MaxLag + SoloLead + ResendSpan + BACKUPTICS < Word

VARIABLES
  \* the server
  slot,         \* PLAYING, CLOSING when the player hung up, OUT when freed
  start,        \* recvwindow_start
  recv,         \* tics of its window that are active, for each player
  asked,        \* those that are not and have a resend_time
  log,          \* every tic queued for a node: the players it has commands of
  acked,        \* acknowledged
  \* a client
  begun,        \* the game start has arrived
  maketic,
  cl_start,     \* its recvwindow_start
  cl_recv, cl_asked,
  need_ack,     \* need_to_acknowledge
  \* in flight
  net

window == <<start, recv, asked>>
server == <<slot, window, log, acked>>
client == <<begun, maketic, cl_start, cl_recv, cl_asked, need_ack>>
vars == <<server, client, net>>

Nodes == 0..(NumNodes - 1)
Players == 0..(NumPlayers - 1)
Window(first) == first..(first + BACKUPTICS - 1)
From(first, S) == {t \in S : t >= first}

(* sl is the value of slot at some point of a step.                        *)
ClientConnected(sl, n) == sl[n] = "PLAYING"
Connected(sl) == {n \in Nodes : ClientConnected(sl, n)}
ConnectedPlayers(sl) == Connected(sl) \cap Players

-----------------------------------------------------------------------------
(* Packets: GAMEDATA from client n and from the server to it, and the      *)
(* GAMEDATA_ACK and GAMEDATA_RESEND between them.                          *)
Commands(n, ack, first, last) == [type |-> "DATA", to |-> "server", node |-> n,
                                  ack |-> ack, first |-> first, last |-> last]
GameDataACK(n, ack) ==
  [type |-> "ACK", to |-> "server", node |-> n, ack |-> ack]
Tics(n, first, last) ==
  [type |-> "DATA", to |-> "client", node |-> n, first |-> first, last |-> last]
ResendRequest(to, n, first, last) ==
  [type |-> "RESEND", to |-> to, node |-> n, first |-> first, last |-> last]

(* What is left of packets ps: a network that is full loses some.          *)
Kept(ps) == IF Cardinality(ps) <= MaxInFlight THEN {ps}
            ELSE {s \in SUBSET ps : Cardinality(s) = MaxInFlight}
Carry(old, new) == net' \in Kept(old \cup new)
Send(new) == Carry(net, new)

(* A packet comes, maybe not for the last time, and is answered.           *)
Reply(k, new) == \E left \in {net, net \ {k}} : Carry(left, new)
Mail(to, n, type) == {k \in net : k.to = to /\ k.node = n /\ k.type = type}

(* The receiver completes the bytes from the start of its window; the      *)
(* number of tics follows the first of them.                               *)
ReadAck(k, wstart) == [k EXCEPT !.ack = Expanded(wstart, @)]
ReadTics(k, wstart) ==
  LET first == Expanded(wstart, k.first)
  IN [k EXCEPT !.first = first, !.last = first + (k.last - k.first)]

(* The network's packet lifetime, in tics of the window.  A packet that    *)
(* answers a request is as old as the request.                             *)
InTime(wstart, S) == \A t \in S : wstart <= t + MaxLate

(* The tics right before first that are neither there nor asked for:       *)
(* both ends ask for them when a packet that begins with first arrives.    *)
MissedButLast(wstart, here, wanted, first) ==
  LET end == Min({first, wstart + BACKUPTICS - 1})
  IN {t \in wstart..(end - 2) : (t..(end - 1)) \cap (here \cup wanted) = {}}
MissedBefore(wstart, here, wanted, first) ==
  LET end == Min({first, wstart + BACKUPTICS - 1})
  IN {t \in wstart..(end - 1) : (t..(end - 1)) \cap (here \cup wanted) = {}}

RequestFor(to, n, S) ==
  IF S = {} THEN {} ELSE {ResendRequest(to, n, Min(S), Max(S))}

(* One request for each run of tics whose requests have expired.           *)
RequestsFor(to, n, S) ==
  {ResendRequest(to, n, t, Min({u \in S : u >= t /\ u + 1 \notin S})) :
     t \in {u \in S : u - 1 \notin S}}

-----------------------------------------------------------------------------
Init ==
  /\ slot = [n \in Nodes |-> "PLAYING"]
  /\ start = 0
  /\ recv = [p \in Players |-> {}] /\ asked = [p \in Players |-> {}]
  /\ log = [n \in Nodes |-> <<>>]
  /\ acked = [n \in Nodes |-> 0]
  /\ begun = [n \in Nodes |-> FALSE]
  /\ maketic = [n \in Nodes |-> 0]
  /\ cl_start = [n \in Nodes |-> 0]
  /\ cl_recv = [n \in Nodes |-> {}] /\ cl_asked = [n \in Nodes |-> {}]
  /\ need_ack = [n \in Nodes |-> FALSE]
  /\ net = {}

-----------------------------------------------------------------------------
(* A client.  One that the server has dropped is not followed any more.    *)

ClientActs(n) == ClientConnected(slot, n) /\ UNCHANGED server

(* The game start comes reliably, but maybe after the first tics.          *)
NET_CL_ParseGameStart(n) ==
  /\ ClientActs(n) /\ ~begun[n]
  /\ begun' = [begun EXCEPT ![n] = TRUE]
  /\ cl_recv' = [cl_recv EXCEPT ![n] = {}]
  /\ cl_asked' = [cl_asked EXCEPT ![n] = {}]
  /\ UNCHANGED <<maketic, cl_start, need_ack, net>>

(* BuildNewTic: "never go more than ~200ms ahead" of gametic, which is at  *)
(* most cl_start, so this is the guard of the fastest game.                *)
TwoAhead(n) == maketic[n] - cl_start[n] <= MaxAhead + 1
MayMake(n) == maketic[n] - cl_start[n] <= MaxAhead

(* It follows NET_CL_Run: the window has been advanced.                    *)
NET_CL_SendTiccmd(n) ==
  /\ ClientActs(n) /\ begun[n] /\ n \in Players
  /\ cl_start[n] \notin cl_recv[n]
  /\ maketic[n] < MaxTic /\ MayMake(n)
  /\ maketic' = [maketic EXCEPT ![n] = @ + 1]
  /\ Send({Commands(n, cl_start[n], Max({0, maketic[n] - extratics}), maketic[n])})
  /\ need_ack' = [need_ack EXCEPT ![n] = FALSE]
  /\ UNCHANGED <<begun, cl_start, cl_recv, cl_asked>>

(* Packet k of n is read as d.                                             *)
Learn(n, k, d) ==
  LET here   == cl_recv[n] \cup ((d.first..d.last) \cap Window(cl_start[n]))
      missed == MissedBefore(cl_start[n], here, cl_asked[n], d.first)
  IN /\ need_ack' = [need_ack EXCEPT ![n] = TRUE]
     /\ cl_recv' = [cl_recv EXCEPT ![n] = here]
     /\ cl_asked' = [cl_asked EXCEPT ![n] = (@ \cup missed) \ here]
     /\ Reply(k, RequestFor("server", n, missed))
     /\ UNCHANGED <<begun, maketic, cl_start>>

NET_CL_ParseGameData(n, k) ==
  /\ ClientActs(n) /\ k \in Mail("client", n, "DATA")
  /\ InTime(cl_start[n], {k.first})
  /\ Learn(n, k, ReadTics(k, cl_start[n]))

(* A client sends what it has of the tics asked for.                       *)
Queued(n) == IF begun[n] THEN {t \in 0..(maketic[n] - 1) :
                                t >= maketic[n] - BACKUPTICS} ELSE {}
NET_CL_ParseResendRequest(n, k) ==
  LET have == (k.first..k.last) \cap Queued(n)
  IN /\ ClientActs(n) /\ k \in Mail("client", n, "RESEND")
     /\ IF have = {}
          THEN Reply(k, {}) /\ UNCHANGED need_ack
          ELSE /\ Reply(k, {Commands(n, cl_start[n], Min(have), Max(have))})
               /\ need_ack' = [need_ack EXCEPT ![n] = FALSE]
     /\ UNCHANGED <<begun, maketic, cl_start, cl_recv, cl_asked>>

(* NET_CL_AdvanceWindow and NET_CL_CheckResends.  expired: the tics whose  *)
(* request is 300 ms old; due: data has been unacknowledged for 200 ms.    *)
NextGap(first, S) == Min((first..(first + BACKUPTICS)) \ S)
NET_CL_Run(n, expired, due) ==
  LET next == NextGap(cl_start[n], cl_recv[n])
  IN /\ ClientActs(n) /\ begun[n]
     /\ due => need_ack[n]
     /\ expired \subseteq From(next, cl_asked[n])
     /\ cl_start' = [cl_start EXCEPT ![n] = next]
     /\ cl_recv' = [cl_recv EXCEPT ![n] = From(next, @)]
     /\ cl_asked' = [cl_asked EXCEPT ![n] = From(next, @)]
     /\ Send(RequestsFor("server", n, expired)
               \cup IF due THEN {GameDataACK(n, next)} ELSE {})
     /\ need_ack' = [need_ack EXCEPT ![n] = @ /\ ~due]
     /\ UNCHANGED <<begun, maketic>>

-----------------------------------------------------------------------------
(* The server's packets.                                                   *)

ServerActs(n) == slot[n] # "OUT" /\ UNCHANGED client
Acknowledge(n, ack) == acked' = [acked EXCEPT ![n] = Max({@, ack})]

(* Nobody is there to receive what is sent to a player that has hung up.   *)
ToClient(n, new) == IF ClientConnected(slot, n) THEN new ELSE {}

(* What a packet has for the window of the server.                         *)
Unchecked(d) == d.first..d.last
InWindow(d) == (d.first..d.last) \cap Window(start)

Collect(n, k, d) ==
  LET here   == recv[n] \cup InWindow(d)
      missed == MissedBefore(start, here, asked[n], d.first)
  IN /\ recv' = [recv EXCEPT ![n] = here]
     /\ asked' = [asked EXCEPT ![n] = (@ \cup missed) \ here]
     /\ Acknowledge(n, d.ack)
     /\ Reply(k, ToClient(n, RequestFor("client", n, missed)))
     /\ UNCHANGED <<slot, start, log>>

(* A slot whose player has hung up takes its late packets as well.         *)
NET_SV_ParseGameData(n, k) ==
  /\ ServerActs(n) /\ k \in Mail("server", n, "DATA")
  /\ InTime(start, {k.ack, k.first})
  /\ Collect(n, k, ReadTics(ReadAck(k, start), start))

NET_SV_ParseGameDataACK(n, k) ==
  /\ ServerActs(n) /\ k \in Mail("server", n, "ACK")
  /\ InTime(start, {k.ack})
  /\ Acknowledge(n, ReadAck(k, start).ack) /\ Reply(k, {})
  /\ UNCHANGED <<slot, window, log>>

(* The server sends all the tics asked for, or none.                       *)
SendQueue(n) == {t \in 0..(Len(log[n]) - 1) : t >= Len(log[n]) - BACKUPTICS}
NET_SV_ParseResendRequest(n, k) ==
  /\ ServerActs(n) /\ k \in Mail("server", n, "RESEND")
  /\ Reply(k, IF k.first..k.last \subseteq SendQueue(n)
                THEN ToClient(n, {Tics(n, k.first, k.last)}) ELSE {})
  /\ UNCHANGED <<slot, window, log, acked>>

(* The player hangs up (NET_Conn_ParseDisconnect).                         *)
ReceiveDisconnect(n) ==
  /\ ClientConnected(slot, n) /\ n \in Leavers
  /\ slot' = [slot EXCEPT ![n] = "CLOSING"]
  /\ net' = {k \in net : k.node = n => k.to = "server"}
  /\ UNCHANGED <<window, log, acked, client>>

-----------------------------------------------------------------------------
(* The second half of NET_SV_Run.                                          *)

LatestAcknowledged(sl) == Min({acked[n] : n \in {m \in Nodes : sl[m] = "PLAYING"}})

(* The slots when those of gone are freed; NET_SV_GameEnded when no player *)
(* is left.                                                                *)
Freed(gone) ==
  IF gone = {} THEN slot
  ELSE IF ConnectedPlayers(slot) \subseteq gone THEN [n \in Nodes |-> "OUT"]
  ELSE [n \in Nodes |-> IF n \in gone THEN "OUT" ELSE slot[n]]

(* NET_SV_PumpSendQueue: the next tic for node n is complete, and the      *)
(* server not too far ahead.                                               *)
InReach(sl, n) == Len(log[n]) >= start /\ Len(log[n]) < start + BACKUPTICS
NotFarAhead(sl, n) ==
  /\ Len(log[n]) >= start /\ Len(log[n]) < start + BACKUPTICS
  /\ Len(log[n]) - LatestAcknowledged(sl) <= MaxLag
SomeComplete(sl, n) == \E p \in Players : Len(log[n]) \in recv[p]
NoLeadAlone(sl, n) ==
  \A p \in ConnectedPlayers(sl) \ {n} : Len(log[n]) \in recv[p]
IsComplete(sl, n) ==
  LET others == ConnectedPlayers(sl) \ {n}
  IN IF others = {} THEN Len(log[n]) <= start + SoloLead
     ELSE \A p \in others : Len(log[n]) \in recv[p]
MayPump(sl, n) ==
  ClientConnected(sl, n) /\ IsComplete(sl, n) /\ NotFarAhead(sl, n)
NextTic(n) == {p \in Players \ {n} : Len(log[n]) \in recv[p]}

(* NET_SV_CheckDeadlock looks for the tic with the two indices of          *)
(* recvwindow exchanged, and so beyond a row.                              *)
Active(cell) ==
  LET p == cell % NET_MAXPLAYERS
  IN p \in Players /\ start + (cell \div NET_MAXPLAYERS) \in recv[p]
AsksNothing(p) == {}
DeadlockTics(p) ==
  LET free == {i \in 0..(BACKUPTICS - 1) : ~Active(p * NET_MAXPLAYERS + i)}
  IN IF free = {} THEN {}
     ELSE (start + Min(free))..(start + Min(free) + ResendSpan)

(* NET_SV_AdvanceWindow: up to the first tic that is not acknowledged by   *)
(* every node, or not there from every player.                             *)
AdvancedByData(sl) ==
  Min({start + BACKUPTICS} \cup {t \in Window(start) :
                         \E p \in ConnectedPlayers(sl) : t \notin recv[p]})
Advanced(sl) ==
  LET players == ConnectedPlayers(sl)
      lowtic  == LatestAcknowledged(sl)
  IN IF players = {} \/ lowtic <= start THEN start
     ELSE Min({lowtic} \cup {t \in start..lowtic :
                               \E p \in players : t \notin recv[p]})

(* gone: the client, if any, whose connection is found to be over; late:   *)
(* players that have sent no data for a second; expired: <<player, tic>>   *)
(* whose resend request is 300 ms old.                                     *)
NET_SV_Run(gone, late, expired) ==
  LET at(n)   == IF \E g \in gone : g <= n THEN slot' ELSE slot
      pumped  == {n \in Nodes : Len(log'[n]) > Len(log[n])}
      checked == {p \in late : ClientConnected(at(p), p)}
      renewed(p) == {t \in From(start', asked[p]) : <<p, t>> \in expired}
  IN /\ slot' = Freed(gone)
     /\ log' = [n \in Nodes |-> IF MayPump(at(n), n)
                                  THEN Append(log[n], NextTic(n)) ELSE log[n]]
     /\ start' = Advanced(slot')
     /\ recv' = [p \in Players |-> From(start', recv[p])]
     /\ asked' = [p \in Players |-> From(start', asked[p] \cup
          IF p \in checked THEN (DeadlockTics(p) \cap Window(start)) \ recv[p]
          ELSE {})]
     /\ Carry({k \in net : slot'[k.node] # "OUT"},
          {Tics(n, Max({0, Len(log[n]) - extratics}), Len(log[n])) : n \in pumped}
          \cup (UNION {RequestFor("client", p, DeadlockTics(p)) : p \in checked})
          \cup (UNION {RequestsFor("client", p, renewed(p)) :
                         p \in ConnectedPlayers(slot')}))
     /\ UNCHANGED <<acked, client>>

-----------------------------------------------------------------------------
Lose == /\ \E k \in net : net' = net \ {k}
        /\ UNCHANGED <<server, client>>

(* The tics whose requests expire together are taken to be a range: those  *)
(* of several ranges are several requests in the code, and several runs    *)
(* here.                                                                   *)
Ranges(S) == {r \in {a..b : a \in S, b \in S} : r # {} /\ r \subseteq S}

Client(n) ==
  \/ NET_CL_ParseGameStart(n)
  \/ NET_CL_SendTiccmd(n)
  \/ \E k \in net : \/ NET_CL_ParseGameData(n, k)
                    \/ NET_CL_ParseResendRequest(n, k)
  \/ \E due \in BOOLEAN : NET_CL_Run(n, {}, due)
  \/ \E expired \in Ranges(cl_asked[n]) : NET_CL_Run(n, expired, FALSE)

Packet(n) ==
  \/ \E k \in net : \/ NET_SV_ParseGameData(n, k)
                    \/ NET_SV_ParseGameDataACK(n, k)
                    \/ NET_SV_ParseResendRequest(n, k)
  \/ ReceiveDisconnect(n)

(* One timer at a time is noticed: another one that has run out as well    *)
(* is noticed by the next run.                                             *)
ServerRun ==
  \/ NET_SV_Run({}, {}, {})
  \/ \E n \in Leavers : slot[n] # "OUT" /\ NET_SV_Run({n}, {}, {})
  \/ \E p \in ConnectedPlayers(slot) :
       \/ NET_SV_Run({}, {p}, {})
       \/ \E tics \in Ranges(asked[p]) : NET_SV_Run({}, {}, {p} \X tics)

Next == ServerRun \/ Lose \/ \E n \in Nodes : Client(n) \/ Packet(n)

Spec == Init /\ [][Next]_vars

(* What is fair between the server and one client: the loops of both keep  *)
(* running and notice their timers, and of the packets that are sent again *)
(* and again one comes through now and then.  Of these only the ones that  *)
(* matter are counted: those with, or for, tics that one end lacks.        *)
(* Nothing is assumed of the other clients.                                *)
Lacking(k) ==
  (k.first..k.last) \cap
    IF (k.type = "DATA") = (k.to = "server")
      THEN Window(start) \ recv[k.node]
      ELSE Window(cl_start[k.node]) \ cl_recv[k.node]
Useful(k) ==
  \/ k.type = "DATA" /\ Lacking(k) # {}
  \/ /\ k.type = "RESEND" /\ k.to = "client"
     /\ Lacking(k) \cap Queued(k.node) # {}
  \/ /\ k.type = "RESEND" /\ k.to = "server"
     /\ Lacking(k) # {} /\ k.first..k.last \subseteq SendQueue(k.node)
Sends(n, type, to) ==
  \E k \in net' \ net : k.node = n /\ k.type = type /\ k.to = to /\ Useful(k)

ServerAsks(n) ==
  /\ ~(Queued(n) \cap Window(start) \subseteq recv[n])
  /\ \/ NET_SV_Run({}, {n}, {})
     \/ \E tics \in Ranges(asked[n]) : NET_SV_Run({}, {}, {n} \X tics)
  /\ Sends(n, "RESEND", "client")
ClientAnswers(n) == \E k \in net : /\ NET_CL_ParseResendRequest(n, k)
                                   /\ Sends(n, "DATA", "server")
ServerLearns(n) == \E k \in net : Useful(k) /\ NET_SV_ParseGameData(n, k)

ClientAsks(n) ==
  /\ \E tics \in Ranges(cl_asked[n]) : NET_CL_Run(n, tics, FALSE)
  /\ Sends(n, "RESEND", "server")
ServerAnswers(n) == \E k \in net : /\ NET_SV_ParseResendRequest(n, k)
                                   /\ Sends(n, "DATA", "client")
ClientLearns(n) == \E k \in net : Useful(k) /\ NET_CL_ParseGameData(n, k)
ClientAdvances(n) == cl_start[n] \in cl_recv[n] /\ NET_CL_Run(n, {}, FALSE)

FairSpec ==
  /\ Spec
  /\ SF_vars(ServerAsks(Watched))
  /\ SF_vars(ClientAnswers(Watched))
  /\ SF_vars(ServerLearns(Watched))
  /\ SF_vars(ClientAsks(Watched))
  /\ SF_vars(ServerAnswers(Watched))
  /\ SF_vars(ClientLearns(Watched))
  /\ WF_vars(ClientAdvances(Watched))

-----------------------------------------------------------------------------
(* Properties.                                                             *)

AllTics == 0..(MaxTic + MaxLag + SoloLead + ResendSpan + BACKUPTICS)
Packets(type, to) ==
  [type : {type}, to : {to}, node : Nodes, first : AllTics, last : AllTics]

(* The type invariant: windows hold tics of their own range, and a tic     *)
(* that has arrived is not asked for any more.                             *)
TypeOK ==
  /\ slot \in [Nodes -> {"PLAYING", "CLOSING", "OUT"}]
  /\ start \in AllTics
  /\ \A p \in Players : /\ recv[p] \subseteq Window(start)
                        /\ asked[p] \subseteq Window(start) \ recv[p]
  /\ log \in [Nodes -> Seq(SUBSET Players)]
  /\ acked \in [Nodes -> AllTics]
  /\ begun \in [Nodes -> BOOLEAN] /\ need_ack \in [Nodes -> BOOLEAN]
  /\ maketic \in [Nodes -> 0..MaxTic]
  /\ cl_start \in [Nodes -> AllTics]
  /\ \A n \in Nodes : /\ cl_recv[n] \subseteq Window(cl_start[n])
                      /\ cl_asked[n] \subseteq Window(cl_start[n]) \ cl_recv[n]
  /\ net \subseteq
       [type : {"DATA"}, to : {"server"}, node : Players, ack : AllTics,
        first : AllTics, last : AllTics]
       \cup [type : {"ACK"}, to : {"server"}, node : Nodes, ack : AllTics]
       \cup Packets("RESEND", "server") \cup Packets("RESEND", "client")
       \cup Packets("DATA", "client")

(* Whatever is lost, repeated or late, every node runs a sequence of tics  *)
(* that are complete: NET_SV_PumpSendQueue makes a tic only when all other *)
(* players' commands are there, and the windows keep the order.            *)
LS == INSTANCE Lockstep WITH
        made <- maketic, playing <- Connected(slot),
        tics <- [n \in Nodes |-> SubSeq(log[n], 1, cl_start[n])]
Implements == LS!Spec

(* NET_SV_AdvanceWindow throws away commands: only those of tics that      *)
(* every node has.  An acknowledgement is never ahead of the window of the *)
(* client that sent it, nor that of what was sent to the client.           *)
NothingDiscardedEarly ==
  \A n \in Connected(slot) : /\ start <= acked[n]
                             /\ acked[n] <= cl_start[n]
                             /\ cl_start[n] <= Len(log[n])

(* What the limits of PumpSendQueue and BuildNewTic bound between them:    *)
(* how far from the server's window the two kinds of tic numbers get.      *)
(* With the code's constants that is 41 and 50 tics: far less than         *)
(* BACKUPTICS, so no slot of a queue is overwritten while it is needed,    *)
(* and within the 64 by which a byte may be ahead of the window.           *)
WithinReach ==
  \A n \in Connected(slot) : /\ Len(log[n]) <= start + MaxLag + 1
                             /\ maketic[n] <= start + MaxLag + MaxAhead + 2

(* The server does not wait for the commands of the client it sends to.    *)
(* All the same a player's game never gets far ahead of its own commands,  *)
(* alone ("nothing to stop the game running on ahead") or not.             *)
HeldTogether ==
  \A n \in ConnectedPlayers(slot) :
    cl_start[n] <= maketic[n] + Max({MaxAhead, SoloLead}) + 1

(* Everybody waits: the players for tics, as they are as far ahead as      *)
(* BuildNewTic lets them; the server for acknowledgements; and nobody      *)
(* misses anything, as far as it knows.                                    *)
AllWait ==
  /\ \A p \in Players : /\ maketic[p] - cl_start[p] > MaxAhead
                        /\ \A t \in 0..(maketic[p] - 1) : t < start \/ t \in recv[p]
  /\ \A n \in Nodes : /\ ClientConnected(slot, n) /\ begun[n]
                      /\ cl_recv[n] = {} /\ cl_asked[n] = {}
                      /\ acked[n] = cl_start[n]
  /\ \A n \in Nodes : ~MayPump(slot, n)
  /\ Advanced(slot) = start
  /\ \A k \in net : ~Useful(k)

(* Timers, retries and CheckDeadlock included, nothing ends such a wait    *)
(* but somebody leaving.                                                   *)
WaitForever == [][AllWait /\ slot' = slot => AllWait']_vars

(* "Prevent against deadlock" (net_server.c:1579): it never comes to that. *)
NeverAllWait == ~AllWait

(* Two nodes run a tic with the same commands, their own aside, which they *)
(* have anyway: else the "consistency failure" of g_game.c:951 is due.     *)
SameTics ==
  \A n, m \in Connected(slot) : \A t \in 1..Min({cl_start[n], cl_start[m]}) :
    log[n][t] \ {m} = log[m][t] \ {n}

(* A client's gaps close: a tic that has come before the ones that precede *)
(* it is run, by the requests of ParseGameData and CheckResends.           *)
GapsFilled ==
  \A t \in 0..(MaxTic - 1) :
    (begun[Watched] /\ t \in cl_recv[Watched])
      ~> (cl_start[Watched] > t \/ ~ClientConnected(slot, Watched))

(* The first tic of the server's window arrives, even if every packet of a *)
(* client was lost, once the client has made the next one.  With the code's *)
(* constants it has made eight more when it waits, so that a request which *)
(* begins up to seven tics late, by the exchanged indices, finds something. *)
FirstTicArrives ==
  \A t \in 0..(MaxTic - 2) :
    (maketic[Watched] > t + 1 /\ start = t)
      ~> (start > t \/ t \in recv[Watched] \/ ~ClientConnected(slot, Watched))
=============================================================================
