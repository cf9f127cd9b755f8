-------------------------- MODULE NetGameDataProofs --------------------------
(***************************************************************************)
(* The exchange of game data, for any number of players and drones and any *)
(* limits whose sum a byte can tell apart: the server never discards what  *)
(* a node may still need, what the nodes run is in lockstep, and the       *)
(* numbers stay close to each other.                                       *)
(*                                                                         *)
(* The argument follows the tics once around: what is in flight has been   *)
(* made, or queued for the node it goes to (Fits); so is what the windows  *)
(* hold (Held); a client's window is advanced only over what it holds, its *)
(* acknowledgements are of what it was advanced over, and the server's is  *)
(* advanced over what all acknowledged (Acknowledged); and a tic is queued *)
(* with the commands that the server's window holds (Whole).               *)
(*                                                                         *)
(* The limits (ReachInv) need one thing more: what all nodes acknowledged  *)
(* is still in the window (InStock), so that the window is advanced to it. *)
(* By the limits the numbers in a packet are never far ahead of the window *)
(* of its receiver; with MaxLate, what comes of their last bytes is what   *)
(* they were (ReadsWhole).  That in turn keeps the limits, so the three    *)
(* invariants are proved together (InvHolds).                              *)
(*                                                                         *)
(* The numbers end with the commands (Ending) and requests are for tics of *)
(* the windows (Wanted), which bounds all that is in flight (Known); and   *)
(* that is enough to see that a wait of everybody is for good.             *)
(***************************************************************************)
EXTENDS NetGameData, ListsProofs, TLAPS

LEMMA MinNat ==
  ASSUME NEW S, S \subseteq Nat, S # {}
  PROVE  Min(S) \in S /\ \A y \in S : Min(S) <= y
BY LeastNumber DEF Min

LEMMA MaxNat ==
  ASSUME NEW S, S \subseteq Nat, S # {}, NEW b \in Nat, \A y \in S : y <= b
  PROVE  Max(S) \in S /\ \A y \in S : y <= Max(S)
<1> DEFINE T == {b - y : y \in S}
<1>1. T \subseteq Nat /\ T # {}
  <2>1. ASSUME NEW y \in S PROVE b - y \in Nat
    <3>1. y \in Nat /\ y <= b
      OBVIOUS
    <3> QED BY <3>1
  <2>2. T # {}
    OBVIOUS
  <2> QED BY <2>1, <2>2
<1>2. PICK x \in T : \A y \in T : x <= y
  BY <1>1, LeastNumber
<1>3. PICK z \in S : x = b - z
  OBVIOUS
<1>4. \A y \in S : b - z <= b - y
  BY <1>2, <1>3
<1>5. \A y \in S : z >= y
  BY <1>4
<1>6. \E w \in S : \A y \in S : w >= y
  BY <1>5
<1>7. Max(S) \in S /\ \A y \in S : Max(S) >= y
  BY <1>6 DEF Max
<1> QED BY <1>7

LEMMA MaxOfTwo ==
  ASSUME NEW a \in Int, NEW b \in Int
  PROVE  /\ Max({a, b}) \in {a, b} /\ a <= Max({a, b}) /\ b <= Max({a, b})
<1>1. \E x \in {a, b} : \A y \in {a, b} : x >= y
  <2>1. CASE a >= b
    BY <2>1
  <2>2. CASE b >= a
    BY <2>2
  <2> QED BY <2>1, <2>2
<1>2. Max({a, b}) \in {a, b} /\ \A y \in {a, b} : Max({a, b}) >= y
  BY <1>1 DEF Max
<1> QED BY <1>2

LEMMA MaxOfZero == ASSUME NEW a \in Int PROVE Max({0, a}) \in Int
<1>1. Max({0, a}) \in {0, a}
  BY MaxOfTwo
<1> QED BY <1>1
-----------------------------------------------------------------------------
GameTypes ==
  /\ slot \in [Nodes -> {"PLAYING", "CLOSING", "OUT"}]
  /\ start \in Nat
  /\ recv \in [Players -> SUBSET Nat]
  /\ log \in [Nodes -> Seq(SUBSET Players)]
  /\ acked \in [Nodes -> Nat]
  /\ maketic \in [Nodes -> Nat]
  /\ cl_start \in [Nodes -> Nat]
  /\ cl_recv \in [Nodes -> SUBSET Nat]
  /\ \A n \in Nodes : cl_recv[n] \subseteq Window(cl_start[n])

Acknowledged ==
  \A n \in Nodes : /\ slot[n] = "PLAYING" => start <= acked[n]
                   /\ acked[n] <= cl_start[n]
                   /\ cl_start[n] <= Len(log[n])

Held == /\ \A n \in Nodes : \A t \in cl_recv[n] : t < Len(log[n])
        /\ \A p \in Players : \A t \in recv[p] : t < maketic[p]

(* A packet k, when m commands have been made, the windows begin at c and  *)
(* the tics l are queued.                                                  *)
Fits(k, m, c, l) ==
  /\ k.node \in Nodes
  /\ k.to = "server" /\ k.type \in {"DATA", "ACK"} =>
       k.ack \in Nat /\ k.ack <= c[k.node]
  /\ k.to = "server" /\ k.type = "DATA" =>
       \A t \in (k.first..k.last) \cap Nat : t < m[k.node]
  /\ k.to = "client" /\ k.type = "DATA" =>
       \A t \in (k.first..k.last) \cap Nat : t < Len(l[k.node])

InFlight == \A k \in net : Fits(k, maketic, cl_start, log)

(* A queued tic has the commands of every player there is, its receiver    *)
(* aside, and none that was not made.                                      *)
Whole ==
  \A n \in Nodes : \A t \in 1..Len(log[n]) :
    /\ ConnectedPlayers(slot) \ {n} \subseteq log[n][t]
    /\ log[n][t] \subseteq Players \ {n}
    /\ \A p \in log[n][t] : t <= maketic[p]

GameInv == GameTypes /\ Acknowledged /\ Held /\ InFlight /\ Whole

(* How far from each other the numbers get.  Lead: how far a player's game *)
(* may be ahead of its commands.                                           *)
Lead == Max({MaxAhead, SoloLead})

(* A command that is in a queue and could still be in the window is there. *)
InStock == \A n \in Nodes : \A t \in 1..Len(log[n]) : \A p \in log[n][t] :
          t - 1 >= start => t - 1 \in recv[p]

(* BuildNewTic's limit.                                                    *)
Ahead == \A n \in Nodes : maketic[n] <= cl_start[n] + MaxAhead + 1

(* PumpSendQueue's limit, when the window has been advanced.               *)
Reach == \A n \in Nodes : slot[n] # "OUT" => Len(log[n]) <= start + MaxLag + 1

Behind == \A p \in ConnectedPlayers(slot) : /\ start <= maketic[p]
                                            /\ Len(log[p]) <= maketic[p] + Lead + 1

ReachInv == InStock /\ Ahead /\ Reach /\ Behind

(* The packets there can be, as TypeOK has them.                           *)
Shaped ==
  [type : {"DATA"}, to : {"server"}, node : Players, ack : AllTics,
   first : AllTics, last : AllTics]
  \cup [type : {"ACK"}, to : {"server"}, node : Nodes, ack : AllTics]
  \cup Packets("RESEND", "server") \cup Packets("RESEND", "client")
  \cup Packets("DATA", "client")

(* None is about no tic at all.                                            *)
Known == {k \in Shaped : k.type \in {"DATA", "RESEND"} => k.first <= k.last}

(* The numbers end where the commands do: the window of the server is not  *)
(* advanced beyond them, and a lone player gets SoloLead tics more.  No    *)
(* queue is ahead of the window by more than its length.                   *)
Ending ==
  /\ maketic \in [Nodes -> 0..MaxTic]
  /\ \A n \in Nodes \ Players : maketic[n] = 0
  /\ start <= MaxTic
  /\ \A n \in Nodes : /\ Len(log[n]) <= MaxTic + SoloLead + 1
                      /\ Len(log[n]) <= start + BACKUPTICS

(* A tic that is asked for is in the window and not there.                 *)
Wanted ==
  /\ asked \in [Players -> SUBSET Nat]
  /\ cl_asked \in [Nodes -> SUBSET Nat]
  /\ \A p \in Players : /\ recv[p] \subseteq Window(start)
                        /\ asked[p] \subseteq Window(start) \ recv[p]
  /\ \A n \in Nodes : cl_asked[n] \subseteq Window(cl_start[n]) \ cl_recv[n]

TypeInv ==
  /\ Ending /\ Wanted
  /\ begun \in [Nodes -> BOOLEAN] /\ need_ack \in [Nodes -> BOOLEAN]
  /\ net \subseteq Known
-----------------------------------------------------------------------------
(* The steps that take a packet as it was written.  Those of the model are *)
(* steps of this kind, as long as the invariants hold (ReadsWhole).        *)
Learns(n, k) == ClientActs(n) /\ k \in Mail("client", n, "DATA") /\ Learn(n, k, k)
Collects(n, k) == ServerActs(n) /\ k \in Mail("server", n, "DATA") /\ Collect(n, k, k)
Acks(n, k) == /\ ServerActs(n) /\ k \in Mail("server", n, "ACK")
              /\ Acknowledge(n, k.ack) /\ Reply(k, {})
              /\ UNCHANGED <<slot, window, log>>
-----------------------------------------------------------------------------
LEMMA NodesAreNat == Nodes \subseteq Nat /\ Players \subseteq Nodes
BY GameDataAssumption DEF Nodes, Players

LEMMA CarryKeeps ==
  ASSUME NEW old, NEW new, Carry(old, new)
  PROVE  net' \subseteq old \cup new
BY DEF Carry, Kept

LEMMA TicBounds ==
  /\ MaxTic \in Nat /\ MaxLag \in Nat /\ SoloLead \in Nat /\ ResendSpan \in Nat
  /\ BACKUPTICS \in Nat /\ BACKUPTICS >= 1 /\ extratics \in Nat
  /\ AllTics = 0..(MaxTic + MaxLag + SoloLead + ResendSpan + BACKUPTICS)
  /\ AllTics \subseteq Nat
<1>1. /\ MaxTic \in Nat /\ MaxLag \in Nat /\ SoloLead \in Nat /\ ResendSpan \in Nat
      /\ BACKUPTICS \in Nat /\ extratics \in Nat /\ extratics < BACKUPTICS
  BY GameDataAssumption
<1> QED BY <1>1 DEF AllTics

(* The tics of packets.                                                    *)
LEMMA KnownTics ==
  ASSUME NEW k \in Known
  PROVE  /\ k.type \in {"DATA", "RESEND"} => k.first \in AllTics /\ k.last \in AllTics
         /\ k.type \in {"DATA", "RESEND"} => k.first <= k.last
         /\ k.type = "DATA" /\ k.to = "server" => k.node \in Players
         /\ k.node \in Nodes
BY NodesAreNat DEF Known, Shaped, Packets

(* A number from within reach is completed to itself.                      *)
LEMMA ExpandsTo ==
  ASSUME NEW w \in Nat, NEW t \in AllTics, w <= t + MaxLate, t <= w + 64
  PROVE  Expanded(w, t) = t
<1> DEFINE l == w % 256
           b == t % 256
<1>1. t \in Nat /\ t < Word /\ Word \in Nat /\ w - 64 <= t /\ t <= w + 64
  BY GameDataAssumption, WordAssumption DEF AllTics
<1>2. t % Word = t
  BY <1>1
<1>3. \/ ~(l < 64 /\ b > 176) /\ ~(l > 176 /\ b < 64) /\ (w - l) + b = t
      \/ l < 64 /\ b > 176 /\ ((w - l) + b) - 256 = t
      \/ ~(l < 64 /\ b > 176) /\ l > 176 /\ b < 64 /\ ((w - l) + b) + 256 = t
  BY <1>1, LastBytes
<1> QED BY <1>2, <1>3 DEF Expanded, NET_ExpandTicNum

LEMMA ReadAgain ==
  ASSUME NEW k \in Known, k.type = "DATA", NEW w, Expanded(w, k.first) = k.first
  PROVE  ReadTics(k, w) = k
<1>1. k.first \in Nat /\ k.last \in Nat
  BY KnownTics, TicBounds
<1>2. k.first + (k.last - k.first) = k.last
  BY <1>1
<1>3. ReadTics(k, w) = [k EXCEPT !.first = k.first, !.last = k.last]
  BY <1>2 DEF ReadTics
<1>4. [k EXCEPT !.first = k.first, !.last = k.last] = k
  BY DEF Known, Shaped, Packets
<1> QED BY <1>3, <1>4

(* The server's window is never more than 64 tics behind what is sent to   *)
(* it, a client's not behind what is sent to it by more than MaxLag.       *)
LEMMA ReadByServer ==
  ASSUME GameInv, ReachInv, TypeInv, NEW k \in net,
         k.to = "server", slot[k.node] # "OUT"
  PROVE  /\ k.type = "DATA" /\ InTime(start, {k.ack, k.first}) =>
              ReadTics(ReadAck(k, start), start) = k
         /\ k.type = "ACK" /\ InTime(start, {k.ack}) => ReadAck(k, start) = k
<1> DEFINE n == k.node
<1>1. k \in Known /\ n \in Nodes /\ Fits(k, maketic, cl_start, log)
  BY KnownTics DEF TypeInv, GameInv, InFlight
<1>2. PICK c \in Nat, l \in Nat, m \in Nat, s \in Nat :
        /\ c = cl_start[n] /\ l = Len(log[n]) /\ m = maketic[n] /\ s = start
        /\ c <= l /\ l <= s + MaxLag + 1 /\ m <= c + MaxAhead + 1
  BY <1>1 DEF GameInv, GameTypes, Acknowledged, ReachInv, Reach, Ahead
<1>3. MaxLag \in Nat /\ MaxAhead \in Nat /\ MaxLag + MaxAhead < 64
  BY GameDataAssumption
<1>4. ASSUME k.type \in {"DATA", "ACK"}, InTime(start, {k.ack})
      PROVE  Expanded(start, k.ack) = k.ack
  <2>1. k.ack \in AllTics
    BY <1>1, <1>4 DEF Known, Shaped, Packets
  <2>2. k.ack \in Nat /\ k.ack <= c
    BY <1>1, <1>2, <1>4 DEF Fits
  <2>3. start <= k.ack + MaxLate
    BY <1>4 DEF InTime
  <2>4. k.ack <= s + 64
    BY <2>2, <1>2, <1>3
  <2> QED BY <2>1, <2>3, <2>4, <1>2, ExpandsTo
<1>5. ASSUME k.type = "DATA", InTime(start, {k.first})
      PROVE  Expanded(start, k.first) = k.first
  <2>1. k.first \in AllTics /\ k.first \in Nat /\ k.first <= k.last /\ k.last \in Nat
    BY <1>1, <1>5, KnownTics, TicBounds
  <2>2. k.first < m
    <3>1. k.first \in (k.first..k.last) \cap Nat
      BY <2>1
    <3> QED BY <3>1, <1>1, <1>2, <1>5 DEF Fits
  <2>3. start <= k.first + MaxLate
    BY <1>5 DEF InTime
  <2>4. PICK f \in Nat : f = k.first /\ f < m
    BY <2>1, <2>2
  <2>5. f <= c + MaxAhead
    BY <2>4, <1>2, <1>3
  <2>6. c + MaxAhead <= s + 64
    BY <1>2, <1>3
  <2>7. f <= s + 64
    BY <2>5, <2>6, <1>3
  <2> QED BY <2>1, <2>3, <2>4, <2>7, <1>2, ExpandsTo
<1>6. ASSUME k.type \in {"DATA", "ACK"}, InTime(start, {k.ack})
      PROVE  ReadAck(k, start) = k
  <2>1. ReadAck(k, start) = [k EXCEPT !.ack = k.ack]
    BY <1>4, <1>6 DEF ReadAck
  <2>2. [k EXCEPT !.ack = k.ack] = k
    BY <1>1, <1>6 DEF Known, Shaped, Packets
  <2> QED BY <2>1, <2>2
<1>7. ASSUME k.type = "DATA", InTime(start, {k.first})
      PROVE  ReadTics(k, start) = k
  BY <1>1, <1>5, <1>7, ReadAgain
<1>8. ASSUME k.type = "DATA", InTime(start, {k.ack, k.first})
      PROVE  InTime(start, {k.ack}) /\ InTime(start, {k.first})
  BY <1>8 DEF InTime
<1> QED BY <1>6, <1>7, <1>8

LEMMA ReadByClient ==
  ASSUME GameInv, ReachInv, TypeInv, NEW k \in net,
         k.to = "client", k.type = "DATA", ClientConnected(slot, k.node),
         InTime(cl_start[k.node], {k.first})
  PROVE  ReadTics(k, cl_start[k.node]) = k
<1> DEFINE n == k.node
<1>1. k \in Known /\ n \in Nodes /\ Fits(k, maketic, cl_start, log)
  BY KnownTics DEF TypeInv, GameInv, InFlight
<1>2. PICK c \in Nat, l \in Nat, s \in Nat :
        c = cl_start[n] /\ l = Len(log[n]) /\ l <= s + MaxLag + 1 /\ s <= c
  <2>1. /\ start \in Nat /\ acked[n] \in Nat /\ cl_start[n] \in Nat /\ Len(log[n]) \in Nat
        /\ start <= acked[n] /\ acked[n] <= cl_start[n] /\ Len(log[n]) <= start + MaxLag + 1
    BY <1>1 DEF GameInv, GameTypes, Acknowledged, ReachInv, Reach, ClientConnected
  <2>2. start <= cl_start[n]
    BY <2>1
  <2> QED BY <2>1, <2>2
<1>3. MaxLag \in Nat /\ MaxAhead \in Nat /\ MaxLag + MaxAhead < 64
  BY GameDataAssumption
<1>4. k.first \in AllTics /\ k.first \in Nat /\ k.first <= k.last /\ k.last \in Nat
  BY <1>1, KnownTics, TicBounds
<1>5. k.first < l
  <2>1. k.first \in (k.first..k.last) \cap Nat
    BY <1>4
  <2> QED BY <2>1, <1>1, <1>2 DEF Fits
<1>6. c <= k.first + MaxLate
  BY <1>2 DEF InTime
<1>7. k.first <= c + 64
  BY <1>2, <1>3, <1>4, <1>5
<1>8. Expanded(c, k.first) = k.first
  BY <1>4, <1>6, <1>7, ExpandsTo
<1> QED BY <1>1, <1>2, <1>8, ReadAgain

LEMMA ReadsWhole ==
  ASSUME GameInv, ReachInv, TypeInv, NEW n \in Nodes, NEW k \in net
  PROVE  /\ NET_CL_ParseGameData(n, k) => Learns(n, k)
         /\ NET_SV_ParseGameData(n, k) => Collects(n, k)
         /\ NET_SV_ParseGameDataACK(n, k) => Acks(n, k)
<1>1. ASSUME NET_CL_ParseGameData(n, k) PROVE Learns(n, k)
  <2>1. /\ ClientActs(n) /\ k \in Mail("client", n, "DATA") /\ k.node = n
        /\ ReadTics(k, cl_start[n]) = k
    BY <1>1, ReadByClient DEF NET_CL_ParseGameData, Mail, ClientActs
  <2> QED BY <1>1, <2>1 DEF NET_CL_ParseGameData, Learns
<1>2. ASSUME NET_SV_ParseGameData(n, k) PROVE Collects(n, k)
  <2>1. /\ ServerActs(n) /\ k \in Mail("server", n, "DATA") /\ k.node = n
        /\ ReadTics(ReadAck(k, start), start) = k
    BY <1>2, ReadByServer DEF NET_SV_ParseGameData, Mail, ServerActs
  <2> QED BY <1>2, <2>1 DEF NET_SV_ParseGameData, Collects
<1>3. ASSUME NET_SV_ParseGameDataACK(n, k) PROVE Acks(n, k)
  <2>1. /\ ServerActs(n) /\ k \in Mail("server", n, "ACK") /\ k.node = n
        /\ ReadAck(k, start) = k
    BY <1>3, ReadByServer DEF NET_SV_ParseGameDataACK, Mail, ServerActs
  <2> QED BY <1>3, <2>1 DEF NET_SV_ParseGameDataACK, Acks
<1> QED BY <1>1, <1>2, <1>3

(* What fits goes on fitting, since nothing is ever taken back.            *)
LEMMA FitsLater ==
  ASSUME NEW k,
         NEW m \in [Nodes -> Nat], NEW c \in [Nodes -> Nat], NEW l \in [Nodes -> Seq(SUBSET Players)],
         NEW m2 \in [Nodes -> Nat], NEW c2 \in [Nodes -> Nat], NEW l2 \in [Nodes -> Seq(SUBSET Players)],
         \A n \in Nodes : m[n] <= m2[n] /\ c[n] <= c2[n] /\ Len(l[n]) <= Len(l2[n]),
         Fits(k, m, c, l)
  PROVE  Fits(k, m2, c2, l2)
<1>1. k.node \in Nodes
  BY DEF Fits
<1> DEFINE n == k.node
<1>2. /\ m[n] \in Nat /\ c[n] \in Nat /\ Len(l[n]) \in Nat
      /\ m2[n] \in Nat /\ c2[n] \in Nat /\ Len(l2[n]) \in Nat
      /\ m[n] <= m2[n] /\ c[n] <= c2[n] /\ Len(l[n]) <= Len(l2[n])
  BY <1>1
<1>3. ASSUME k.to = "server" /\ k.type \in {"DATA", "ACK"}
      PROVE  k.ack \in Nat /\ k.ack <= c2[n]
  BY <1>2, <1>3 DEF Fits
<1>4. ASSUME k.to = "server" /\ k.type = "DATA"
      PROVE  \A t \in (k.first..k.last) \cap Nat : t < m2[n]
  <2>1. \A t \in (k.first..k.last) \cap Nat : t < m[n]
    BY <1>4 DEF Fits
  <2> HIDE DEF n
  <2> QED BY <2>1, <1>2
<1>5. ASSUME k.to = "client" /\ k.type = "DATA"
      PROVE  \A t \in (k.first..k.last) \cap Nat : t < Len(l2[n])
  <2>1. \A t \in (k.first..k.last) \cap Nat : t < Len(l[n])
    BY <1>5 DEF Fits
  <2> HIDE DEF n
  <2> QED BY <2>1, <1>2
<1> QED BY <1>1, <1>3, <1>4, <1>5 DEF Fits

(* What is in flight after a step that sends new: nothing is taken back.   *)
LEMMA InFlightLater ==
  ASSUME GameInv, GameTypes', NEW new, net' \subseteq net \cup new,
         \A n \in Nodes : /\ maketic[n] <= maketic'[n]
                          /\ cl_start[n] <= cl_start'[n]
                          /\ Len(log[n]) <= Len(log'[n]),
         \A k \in new : Fits(k, maketic', cl_start', log')
  PROVE  InFlight'
<1>1. PICK m2 \in [Nodes -> Nat], c2 \in [Nodes -> Nat], l2 \in [Nodes -> Seq(SUBSET Players)] :
         m2 = maketic' /\ c2 = cl_start' /\ l2 = log'
  BY DEF GameTypes, Nodes, Players
<1>2. \A k \in net : Fits(k, m2, c2, l2)
  <2>1. \A k \in net : Fits(k, maketic, cl_start, log)
    BY DEF GameInv, InFlight
  <2>2. /\ maketic \in [Nodes -> Nat] /\ cl_start \in [Nodes -> Nat]
        /\ log \in [Nodes -> Seq(SUBSET Players)]
    BY DEF GameInv, GameTypes
  <2> QED BY <2>1, <2>2, <1>1, FitsLater
<1>3. \A k \in net' : Fits(k, maketic', cl_start', log')
  BY <1>1, <1>2
<1> QED BY <1>3 DEF InFlight, Fits, Nodes

(* The same when the step makes, queues and advances nothing.              *)
LEMMA InFlightStill ==
  ASSUME GameInv, NEW new, net' \subseteq net \cup new,
         \A k \in new : Fits(k, maketic, cl_start, log),
         maketic' = maketic, cl_start' = cl_start, log' = log
  PROVE  InFlight'
<1>1. \A k \in net : Fits(k, maketic, cl_start, log)
  BY DEF GameInv, InFlight
<1>2. \A k \in net' : Fits(k, maketic', cl_start', log')
  BY <1>1
<1> QED BY <1>2 DEF InFlight, Fits, Nodes

(* The same when the step sends nothing either.                            *)
LEMMA InFlightLess ==
  ASSUME GameInv, net' \subseteq net, maketic' = maketic, cl_start' = cl_start, log' = log
  PROVE  InFlight'
<1>1. \A k \in net : Fits(k, maketic, cl_start, log)
  BY DEF GameInv, InFlight
<1>2. \A k \in net' : Fits(k, maketic', cl_start', log')
  BY <1>1
<1> QED BY <1>2 DEF InFlight, Fits, Nodes

LEMMA ReplyKeeps ==
  ASSUME NEW k, NEW new, Reply(k, new)
  PROVE  net' \subseteq net \cup new
<1>1. PICK left \in {net, net \ {k}} : Carry(left, new)
  BY DEF Reply
<1>2. net' \subseteq left \cup new
  BY <1>1, CarryKeeps
<1> QED BY <1>2

(* A request claims nothing.                                               *)
LEMMA RequestsFit ==
  ASSUME NEW to, NEW n \in Nodes, NEW S, NEW m, NEW c, NEW l
  PROVE  /\ \A k \in RequestFor(to, n, S) : Fits(k, m, c, l)
         /\ \A k \in RequestsFor(to, n, S) : Fits(k, m, c, l)
<1>1. ASSUME NEW first, NEW last PROVE Fits(ResendRequest(to, n, first, last), m, c, l)
  BY DEF Fits, ResendRequest
<1>2. \A k \in RequestFor(to, n, S) : Fits(k, m, c, l)
  BY <1>1 DEF RequestFor
<1>3. \A k \in RequestsFor(to, n, S) : Fits(k, m, c, l)
  BY <1>1 DEF RequestsFor
<1> QED BY <1>2, <1>3

(* What a window can hold of a packet.                                     *)
LEMMA WindowIsNat == ASSUME NEW f \in Nat PROVE Window(f) \subseteq Nat
BY GameDataAssumption DEF Window

(* What is left of a window when it is advanced.                           *)
LEMMA WindowLater ==
  ASSUME NEW w \in Nat, NEW v \in Nat, w <= v
  PROVE  \A t \in Window(w) : t \in Nat /\ (t >= v => t \in Window(v))
BY TicBounds DEF Window

LEMMA InitGameInv == Init => GameInv
<1> SUFFICES ASSUME Init PROVE GameInv
  OBVIOUS
<1>1. GameTypes
  BY NodesAreNat DEF Init, GameTypes
<1>2. Acknowledged
  BY DEF Init, Acknowledged
<1>3. Held
  BY NodesAreNat DEF Init, Held
<1>4. InFlight
  BY DEF Init, InFlight
<1>5. Whole
  BY DEF Init, Whole
<1> QED BY <1>1, <1>2, <1>3, <1>4, <1>5 DEF GameInv
-----------------------------------------------------------------------------
LEMMA StartInv ==
  ASSUME GameInv, NEW n \in Nodes, NET_CL_ParseGameStart(n)
  PROVE  GameInv'
<1> USE DEF GameInv
<1>0. UNCHANGED <<slot, start, recv, log, acked, maketic, cl_start, net>>
  BY DEF NET_CL_ParseGameStart, ClientActs, server, window
<1>1. \A m \in Nodes : cl_recv'[m] \subseteq cl_recv[m]
  BY DEF NET_CL_ParseGameStart, GameTypes
<1>2. GameTypes'
  BY <1>0, <1>1 DEF NET_CL_ParseGameStart, GameTypes, Window
<1>3. Acknowledged'
  BY <1>0 DEF Acknowledged
<1>4. Held'
  BY <1>0, <1>1 DEF Held
<1>5. InFlight'
  BY <1>0, InFlightLess
<1>6. Whole'
  BY <1>0 DEF Whole, ConnectedPlayers, Connected, ClientConnected
<1> QED BY <1>2, <1>3, <1>4, <1>5, <1>6

LEMMA SendInv ==
  ASSUME GameInv, NEW n \in Nodes, NET_CL_SendTiccmd(n)
  PROVE  GameInv'
<1> DEFINE k == Commands(n, cl_start[n], Max({0, maketic[n] - extratics}), maketic[n])
<1>0. UNCHANGED <<slot, start, recv, log, acked, cl_start, cl_recv>>
  BY DEF NET_CL_SendTiccmd, ClientActs, server, window
<1>1. maketic' \in [Nodes -> Nat] /\ \A m \in Nodes : maketic[m] <= maketic'[m] /\ maketic'[n] = maketic[n] + 1
  <2>1. maketic \in [Nodes -> Nat] /\ maketic' = [maketic EXCEPT ![n] = @ + 1]
    BY DEF NET_CL_SendTiccmd, GameInv, GameTypes
  <2> QED BY <2>1
<1>2. GameTypes'
  BY <1>0, <1>1 DEF GameInv, GameTypes, Window
<1>3. Acknowledged'
  BY <1>0 DEF Acknowledged, GameInv
<1>4. Held'
  <2>1. \A m \in Nodes : \A t \in cl_recv'[m] : t < Len(log'[m])
    BY <1>0 DEF Held, GameInv
  <2>2. ASSUME NEW p \in Players, NEW t \in recv[p] PROVE t < maketic'[p]
    <3>1. t < maketic[p] /\ t \in Nat /\ p \in Nodes
      BY NodesAreNat DEF Held, GameInv, GameTypes
    <3>2. maketic[p] \in Nat /\ maketic'[p] \in Nat /\ maketic[p] <= maketic'[p]
      BY <1>1, <3>1 DEF GameInv, GameTypes
    <3> QED BY <3>1, <3>2
  <2> QED BY <2>1, <2>2, <1>0 DEF Held
<1>5. InFlight'
  <2>1. net' \subseteq net \cup {k}
    BY CarryKeeps DEF NET_CL_SendTiccmd, Send
  <2>3. Fits(k, maketic', cl_start', log')
    <3>1. maketic[n] \in Nat /\ extratics \in Int /\ cl_start[n] \in Nat
      BY GameDataAssumption DEF GameInv, GameTypes
    <3>2. Max({0, maketic[n] - extratics}) \in Int
      <4>1. PICK a \in Int : a = maketic[n] - extratics
        BY <3>1
      <4>2. Max({0, a}) \in Int
        BY MaxOfZero
      <4> QED BY <4>1, <4>2
    <3>3. PICK m2 : m2 = maketic' /\ m2[n] = maketic[n] + 1
      BY <1>1
    <3>4. Fits(k, m2, cl_start, log)
      BY <3>1, <3>2, <3>3 DEF Fits, Commands
    <3> QED BY <3>3, <3>4, <1>0
  <2>4. cl_start \in [Nodes -> Nat] /\ log \in [Nodes -> Seq(SUBSET Players)]
    BY DEF GameInv, GameTypes
  <2>5. \A m \in Nodes : /\ maketic[m] <= maketic'[m]
                         /\ cl_start[m] <= cl_start'[m]
                         /\ Len(log[m]) <= Len(log'[m])
    <3> TAKE m \in Nodes
    <3>1. cl_start[m] \in Nat /\ Len(log[m]) \in Nat
      BY <2>4
    <3> QED BY <3>1, <1>1, <1>0
  <2> HIDE DEF k
  <2> DEFINE new == {k}
  <2>6. net' \subseteq net \cup new /\ \A j \in new : Fits(j, maketic', cl_start', log')
    BY <2>1, <2>3
  <2> HIDE DEF new
  <2> QED BY <2>5, <2>6, <1>2, InFlightLater
<1>6. Whole'
  <2>1. ASSUME NEW m \in Nodes, NEW t \in 1..Len(log[m]), NEW p \in log[m][t]
        PROVE  t <= maketic'[p]
    <3>1. t <= maketic[p] /\ p \in Nodes
      BY NodesAreNat DEF GameInv, Whole
    <3>2. maketic[p] \in Nat /\ maketic'[p] \in Nat /\ maketic[p] <= maketic'[p]
      BY <3>1, <1>1 DEF GameInv, GameTypes
    <3> QED BY <3>1, <3>2
  <2> QED BY <2>1, <1>0 DEF GameInv, Whole, ConnectedPlayers, Connected, ClientConnected
<1> QED BY <1>2, <1>3, <1>4, <1>5, <1>6 DEF GameInv

(* What a window takes of a packet that fits.                              *)
LEMMA TakenFits ==
  ASSUME GameInv, NEW k \in net, k.type = "DATA", NEW f \in Nat,
         NEW t \in (k.first..k.last) \cap Window(f)
  PROVE  /\ t \in Nat
         /\ k.to = "client" => t < Len(log[k.node])
         /\ k.to = "server" => t < maketic[k.node]
<1>1. t \in Nat
  BY WindowIsNat
<1>2. Fits(k, maketic, cl_start, log)
  BY DEF GameInv, InFlight
<1> QED BY <1>1, <1>2 DEF Fits

LEMMA LearnInv ==
  ASSUME GameInv, NEW n \in Nodes, NEW k \in net, Learns(n, k)
  PROVE  GameInv'
<1> DEFINE taken == (k.first..k.last) \cap Window(cl_start[n])
           here == cl_recv[n] \cup taken
           new == RequestFor("server", n, MissedBefore(cl_start[n], here, cl_asked[n], k.first))
<1>0. UNCHANGED <<slot, start, recv, log, acked, maketic, cl_start>>
  BY DEF Learns, Learn, ClientActs, server, window
<1>1. /\ k.type = "DATA" /\ k.to = "client" /\ k.node = n
      /\ cl_recv' = [cl_recv EXCEPT ![n] = here]
      /\ Reply(k, new)
  BY DEF Learns, Learn, Mail
<1>2. cl_start[n] \in Nat /\ cl_recv \in [Nodes -> SUBSET Nat]
  BY DEF GameInv, GameTypes
<1>3. \A t \in taken : t \in Nat /\ t < Len(log[n])
  BY <1>1, <1>2, TakenFits
<1> HIDE DEF new
<1>4. GameTypes'
  <2>1. here \in SUBSET Nat /\ here \subseteq Window(cl_start[n])
    BY <1>2, <1>3 DEF GameInv, GameTypes
  <2> HIDE DEF here
  <2>2. cl_recv' \in [Nodes -> SUBSET Nat]
    BY <2>1, <1>1, <1>2
  <2>3. \A m \in Nodes : cl_recv'[m] \subseteq Window(cl_start[m])
    BY <2>1, <1>1, <1>2 DEF GameInv, GameTypes
  <2> QED BY <2>2, <2>3, <1>0 DEF GameInv, GameTypes, Window
<1>5. Acknowledged'
  BY <1>0 DEF Acknowledged, GameInv
<1>6. Held'
  <2>1. \A t \in here : t < Len(log[n])
    BY <1>3 DEF GameInv, Held
  <2> HIDE DEF here
  <2>2. \A m \in Nodes : \A t \in cl_recv'[m] : t < Len(log[m])
    BY <2>1, <1>1, <1>2 DEF GameInv, Held
  <2> QED BY <2>2, <1>0 DEF GameInv, Held
<1>7. InFlight'
  <2>1. net' \subseteq net \cup new
    BY <1>1, ReplyKeeps
  <2>2. \A j \in new : Fits(j, maketic, cl_start, log)
    BY RequestsFit DEF new
  <2> QED BY <2>1, <2>2, <1>0, InFlightStill
<1>8. Whole'
  BY <1>0 DEF GameInv, Whole, ConnectedPlayers, Connected, ClientConnected
<1> QED BY <1>4, <1>5, <1>6, <1>7, <1>8 DEF GameInv

LEMMA AnswerInv ==
  ASSUME GameInv, NEW n \in Nodes, NEW k \in net, NET_CL_ParseResendRequest(n, k)
  PROVE  GameInv'
<1> DEFINE have == (k.first..k.last) \cap Queued(n)
           data == Commands(n, cl_start[n], Min(have), Max(have))
<1>0. UNCHANGED <<slot, start, recv, log, acked, maketic, cl_start, cl_recv>>
  BY DEF NET_CL_ParseResendRequest, ClientActs, server, window
<1>1. GameTypes' /\ Acknowledged' /\ Held' /\ Whole'
  BY <1>0 DEF GameInv, GameTypes, Acknowledged, Held, Whole, Window,
              ConnectedPlayers, Connected, ClientConnected
<1>2. InFlight'
  <2>1. CASE have = {}
    <3>1. Reply(k, {})
      BY <2>1 DEF NET_CL_ParseResendRequest
    <3>2. net' \subseteq net
      BY <3>1, ReplyKeeps
    <3> QED BY <3>2, <1>0, InFlightLess
  <2>2. CASE have # {}
    <3> DEFINE new == {data}
    <3>1. Reply(k, new)
      BY <2>2 DEF NET_CL_ParseResendRequest
    <3>2. maketic[n] \in Nat /\ cl_start[n] \in Nat
      BY DEF GameInv, GameTypes
    <3>3. \A t \in have : t \in Nat /\ t < maketic[n] /\ t <= maketic[n]
      BY <3>2 DEF Queued
    <3>4. Min(have) \in have /\ Max(have) \in have
      <4> HIDE DEF have
      <4>1. have \subseteq Nat
        BY <3>3
      <4> QED BY <4>1, <3>2, <3>3, <2>2, MinNat, MaxNat
    <3>5. Min(have) \in Nat /\ Max(have) \in Nat /\ Max(have) < maketic[n]
      BY <3>3, <3>4
    <3>6. Fits(data, maketic, cl_start, log)
      <4> HIDE DEF have
      <4> QED BY <3>2, <3>5 DEF Fits, Commands
    <3>7. \A j \in new : Fits(j, maketic, cl_start, log)
      BY <3>6
    <3> HIDE DEF new
    <3>8. net' \subseteq net \cup new
      BY <3>1, ReplyKeeps
    <3> QED BY <3>7, <3>8, <1>0, InFlightStill
  <2> QED BY <2>1, <2>2
<1> QED BY <1>1, <1>2 DEF GameInv

(* A client's window is advanced over what it holds, and so not beyond     *)
(* what has been queued for it.                                            *)
LEMMA NextGapBounds ==
  ASSUME NEW c \in Nat, NEW S, S \subseteq Window(c), NEW len \in Nat,
         c <= len, \A t \in S : t < len
  PROVE  NextGap(c, S) \in Nat /\ c <= NextGap(c, S) /\ NextGap(c, S) <= len
<1> DEFINE G == (c..(c + BACKUPTICS)) \ S
           next == NextGap(c, S)
<1>0. BACKUPTICS \in Nat
  BY GameDataAssumption
<1>1. G \subseteq Nat
  BY <1>0
<1>2. c + BACKUPTICS \in G
  BY <1>0 DEF Window
<1>3. next \in G /\ \A t \in G : next <= t
  <2> HIDE DEF G
  <2>1. Min(G) \in G /\ \A t \in G : Min(G) <= t
    BY <1>1, <1>2, MinNat
  <2> QED BY <2>1 DEF NextGap, G
<1>4. next \in Nat /\ c <= next /\ next <= c + BACKUPTICS
  BY <1>0, <1>3
<1> HIDE DEF next
<1>5. next <= len
  <2> SUFFICES ASSUME len < next PROVE FALSE
    BY <1>4
  <2>1. len \in c..(c + BACKUPTICS)
    BY <1>0, <1>4
  <2>2. len \notin S
    OBVIOUS
  <2>3. len \in G
    BY <2>1, <2>2
  <2> QED BY <2>3, <1>3, <1>4
<1> QED BY <1>4, <1>5 DEF next

LEMMA ClientRunInv ==
  ASSUME GameInv, NEW n \in Nodes, NEW expired, NEW due, NET_CL_Run(n, expired, due)
  PROVE  GameInv'
<1> DEFINE next == NextGap(cl_start[n], cl_recv[n])
           new == RequestsFor("server", n, expired)
                    \cup IF due THEN {GameDataACK(n, next)} ELSE {}
<1>0. UNCHANGED <<slot, start, recv, log, acked, maketic>>
  BY DEF NET_CL_Run, ClientActs, server, window
<1>1. /\ cl_start' = [cl_start EXCEPT ![n] = next]
      /\ cl_recv' = [cl_recv EXCEPT ![n] = From(next, @)]
      /\ Carry(net, new)
  BY DEF NET_CL_Run, Send
<1>2. /\ cl_start[n] \in Nat /\ cl_recv[n] \subseteq Window(cl_start[n])
      /\ Len(log[n]) \in Nat /\ cl_start[n] <= Len(log[n])
      /\ \A t \in cl_recv[n] : t < Len(log[n])
      /\ cl_start \in [Nodes -> Nat] /\ cl_recv \in [Nodes -> SUBSET Nat]
  BY DEF GameInv, GameTypes, Acknowledged, Held
<1>3. next \in Nat /\ cl_start[n] <= next /\ next <= Len(log[n])
  BY <1>2, NextGapBounds
<1> HIDE DEF next
<1>4. /\ cl_start' \in [Nodes -> Nat]
      /\ \A m \in Nodes : cl_start[m] <= cl_start'[m] /\ cl_start'[m] <= Len(log[m])
  <2>1. cl_start' \in [Nodes -> Nat]
    BY <1>1, <1>2, <1>3
  <2>2. ASSUME NEW m \in Nodes
        PROVE  cl_start[m] <= cl_start'[m] /\ cl_start'[m] <= Len(log[m])
    <3>1. CASE m = n
      BY <3>1, <1>1, <1>2, <1>3
    <3>2. CASE m # n
      <4>1. cl_start'[m] = cl_start[m] /\ cl_start[m] \in Nat /\ cl_start[m] <= Len(log[m])
        BY <3>2, <1>1, <1>2 DEF GameInv, Acknowledged
      <4> QED BY <4>1
    <3> QED BY <3>1, <3>2
  <2> QED BY <2>1, <2>2
<1>5. GameTypes'
  <2>1. From(next, cl_recv[n]) \subseteq cl_recv[n]
    BY DEF From
  <2>2. From(next, cl_recv[n]) \subseteq Window(next)
    BY <1>2, <1>3, WindowLater DEF From
  <2>3. cl_recv' \in [Nodes -> SUBSET Nat]
    BY <2>1, <1>1, <1>2
  <2>4. \A m \in Nodes : cl_recv'[m] \subseteq Window(cl_start'[m])
    BY <2>2, <1>1, <1>2 DEF GameInv, GameTypes
  <2> QED BY <2>3, <2>4, <1>0, <1>4 DEF GameInv, GameTypes, Window
<1>6. Acknowledged'
  <2>1. ASSUME NEW m \in Nodes PROVE acked[m] <= cl_start'[m]
    <3>1. acked[m] \in Nat /\ cl_start[m] \in Nat /\ acked[m] <= cl_start[m]
      BY DEF GameInv, GameTypes, Acknowledged
    <3>2. PICK c \in Nat : c = cl_start'[m] /\ cl_start[m] <= c
      BY <1>4
    <3> QED BY <3>1, <3>2
  <2> QED BY <2>1, <1>0, <1>4 DEF GameInv, Acknowledged
<1>7. Held'
  <2>1. \A m \in Nodes : cl_recv'[m] \subseteq cl_recv[m]
    BY <1>1, <1>2 DEF From
  <2> QED BY <2>1, <1>0 DEF GameInv, Held
<1>8. InFlight'
  <2>1. net' \subseteq net \cup new
    BY <1>1, CarryKeeps
  <2>2. ASSUME NEW j \in new PROVE Fits(j, maketic', cl_start', log')
    <3>1. CASE j \in RequestsFor("server", n, expired)
      BY <3>1, RequestsFit
    <3>2. CASE j = GameDataACK(n, next)
      <4>0. cl_start'[n] = next
        BY <1>1, <1>2
      <4>1. PICK c2 : c2 = cl_start' /\ c2[n] = next
        BY <4>0
      <4>2. Fits(j, maketic, c2, log)
        BY <4>1, <3>2, <1>3 DEF Fits, GameDataACK
      <4> QED BY <4>1, <4>2, <1>0
    <3> QED BY <3>1, <3>2
  <2>3. \A m \in Nodes : /\ maketic[m] <= maketic'[m]
                         /\ cl_start[m] <= cl_start'[m]
                         /\ Len(log[m]) <= Len(log'[m])
    <3> TAKE m \in Nodes
    <3>1. maketic[m] \in Nat /\ Len(log[m]) \in Nat
      BY DEF GameInv, GameTypes
    <3> QED BY <3>1, <1>4, <1>0
  <2> HIDE DEF new
  <2>4. \A j \in new : Fits(j, maketic', cl_start', log')
    BY <2>2
  <2> QED BY <2>1, <2>3, <2>4, <1>5, InFlightLater
<1>9. Whole'
  BY <1>0 DEF GameInv, Whole, ConnectedPlayers, Connected, ClientConnected
<1> QED BY <1>5, <1>6, <1>7, <1>8, <1>9 DEF GameInv
-----------------------------------------------------------------------------
(* An acknowledgement never goes beyond the window that sent it.           *)
LEMMA AcknowledgeInv ==
  ASSUME GameInv, NEW n \in Nodes, NEW k \in net,
         k.to = "server", k.type \in {"DATA", "ACK"}, k.node = n,
         Acknowledge(n, k.ack), UNCHANGED <<slot, start, log, cl_start>>
  PROVE  acked' \in [Nodes -> Nat] /\ Acknowledged'
<1> DEFINE a == Max({acked[n], k.ack})
<1>1. Fits(k, maketic, cl_start, log)
  BY DEF GameInv, InFlight
<1>2. k.ack \in Nat /\ k.ack <= cl_start[n]
  BY <1>1 DEF Fits
<1>3. acked[n] \in Nat /\ acked \in [Nodes -> Nat] /\ acked[n] <= cl_start[n]
  BY DEF GameInv, GameTypes, Acknowledged
<1>4. a \in Nat /\ acked[n] <= a /\ a <= cl_start[n]
  <2>1. PICK x \in Int, y \in Int : x = acked[n] /\ y = k.ack
    BY <1>2, <1>3
  <2>2. Max({x, y}) \in {x, y} /\ x <= Max({x, y})
    BY MaxOfTwo
  <2> QED BY <2>1, <2>2, <1>2, <1>3
<1>5. acked' = [acked EXCEPT ![n] = a]
  BY DEF Acknowledge
<1> HIDE DEF a
<1>6. acked' \in [Nodes -> Nat]
  BY <1>3, <1>4, <1>5
<1>7. ASSUME NEW m \in Nodes
      PROVE  /\ slot[m] = "PLAYING" => start <= acked'[m]
             /\ acked'[m] <= cl_start[m] /\ cl_start[m] <= Len(log[m])
  <2>1. /\ slot[m] = "PLAYING" => start <= acked[m]
        /\ acked[m] <= cl_start[m] /\ cl_start[m] <= Len(log[m])
        /\ start \in Nat /\ acked[m] \in Nat
    BY DEF GameInv, GameTypes, Acknowledged
  <2>2. CASE m = n
    <3>1. acked'[m] = a
      BY <2>2, <1>3, <1>5
    <3> QED BY <3>1, <2>1, <2>2, <1>4
  <2>3. CASE m # n
    <3>1. acked'[m] = acked[m]
      BY <2>3, <1>3, <1>5
    <3> QED BY <3>1, <2>1
  <2> QED BY <2>2, <2>3
<1> QED BY <1>6, <1>7 DEF Acknowledged

LEMMA CollectInv ==
  ASSUME GameInv, NEW n \in Nodes, NEW k \in net, Collects(n, k)
  PROVE  GameInv'
<1> DEFINE here == recv[n] \cup InWindow(k)
           asks == RequestFor("client", n, MissedBefore(start, here, asked[n], k.first))
           new == ToClient(n, asks)
<1>0. UNCHANGED <<slot, start, log, maketic, cl_start, cl_recv>>
  BY DEF Collects, Collect, ServerActs, client
<1>1. /\ k.type = "DATA" /\ k.to = "server" /\ k.node = n
      /\ recv' = [recv EXCEPT ![n] = here]
      /\ Acknowledge(n, k.ack)
      /\ Reply(k, new)
  BY DEF Collects, Collect, Mail
<1>2. acked' \in [Nodes -> Nat] /\ Acknowledged'
  BY <1>0, <1>1, AcknowledgeInv
<1>3. \A t \in InWindow(k) : t \in Nat /\ t < maketic[n]
  <2>1. start \in Nat
    BY DEF GameInv, GameTypes
  <2> QED BY <2>1, <1>1, TakenFits DEF InWindow
<1>4. /\ recv \in [Players -> SUBSET Nat]
      /\ \A p \in Players : \A t \in recv[p] : t < maketic[p]
  BY DEF GameInv, GameTypes, Held
<1>5. /\ recv' \in [Players -> SUBSET Nat]
      /\ \A p \in Players : \A t \in recv'[p] : t < maketic[p]
  <2>1. CASE n \in Players
    <3>1. here \in SUBSET Nat /\ \A t \in here : t < maketic[n]
      BY <2>1, <1>3, <1>4
    <3> HIDE DEF here
    <3> QED BY <3>1, <2>1, <1>1, <1>4
  <2>2. CASE n \notin Players
    <3>1. recv' = recv
      BY <2>2, <1>1, <1>4
    <3> QED BY <3>1, <1>4
  <2> QED BY <2>1, <2>2
<1>6. GameTypes'
  BY <1>0, <1>2, <1>5 DEF GameInv, GameTypes, Window
<1>7. Held'
  BY <1>0, <1>5 DEF GameInv, Held
<1>8. InFlight'
  <2>1. \A j \in new : Fits(j, maketic, cl_start, log)
    BY RequestsFit DEF ToClient
  <2> HIDE DEF new
  <2>2. net' \subseteq net \cup new
    BY <1>1, ReplyKeeps
  <2> QED BY <2>1, <2>2, <1>0, InFlightStill
<1>9. Whole'
  BY <1>0 DEF GameInv, Whole, ConnectedPlayers, Connected, ClientConnected
<1> QED BY <1>2, <1>6, <1>7, <1>8, <1>9 DEF GameInv

LEMMA AckedInv ==
  ASSUME GameInv, NEW n \in Nodes, NEW k \in net, Acks(n, k)
  PROVE  GameInv'
<1>0. UNCHANGED <<slot, start, recv, log, maketic, cl_start, cl_recv>>
  BY DEF Acks, ServerActs, client, window
<1>1. /\ k.type = "ACK" /\ k.to = "server" /\ k.node = n
      /\ Acknowledge(n, k.ack) /\ Reply(k, {})
  BY DEF Acks, Mail
<1>2. acked' \in [Nodes -> Nat] /\ Acknowledged'
  BY <1>0, <1>1, AcknowledgeInv
<1>3. GameTypes' /\ Held' /\ Whole'
  BY <1>0, <1>2 DEF GameInv, GameTypes, Held, Whole, Window,
                   ConnectedPlayers, Connected, ClientConnected
<1>4. net' \subseteq net
  BY <1>1, ReplyKeeps
<1>5. InFlight'
  BY <1>0, <1>4, InFlightLess
<1> QED BY <1>2, <1>3, <1>5 DEF GameInv

LEMMA ResendInv ==
  ASSUME GameInv, NEW n \in Nodes, NEW k \in net, NET_SV_ParseResendRequest(n, k)
  PROVE  GameInv'
<1> DEFINE new == IF k.first..k.last \subseteq SendQueue(n)
                    THEN ToClient(n, {Tics(n, k.first, k.last)}) ELSE {}
<1>0. UNCHANGED <<slot, start, recv, log, acked, maketic, cl_start, cl_recv>>
  BY DEF NET_SV_ParseResendRequest, ServerActs, client, window
<1>1. GameTypes' /\ Acknowledged' /\ Held' /\ Whole'
  BY <1>0 DEF GameInv, GameTypes, Acknowledged, Held, Whole, Window,
              ConnectedPlayers, Connected, ClientConnected
<1>2. Reply(k, new)
  BY DEF NET_SV_ParseResendRequest
<1>3. ASSUME NEW j \in new PROVE Fits(j, maketic, cl_start, log)
  <2>1. j = Tics(n, k.first, k.last) /\ k.first..k.last \subseteq SendQueue(n)
    BY DEF ToClient
  <2>2. Len(log[n]) \in Nat
    BY DEF GameInv, GameTypes
  <2>3. \A t \in SendQueue(n) : t < Len(log[n])
    BY <2>2 DEF SendQueue
  <2>4. \A t \in k.first..k.last : t < Len(log[n])
    BY <2>1, <2>3
  <2> QED BY <2>1, <2>4 DEF Fits, Tics
<1>4. \A j \in new : Fits(j, maketic, cl_start, log)
  BY <1>3
<1> HIDE DEF new
<1>5. net' \subseteq net \cup new
  BY <1>2, ReplyKeeps
<1>6. InFlight'
  BY <1>0, <1>4, <1>5, InFlightStill
<1> QED BY <1>1, <1>6 DEF GameInv

LEMMA DisconnectInv ==
  ASSUME GameInv, NEW n \in Nodes, ReceiveDisconnect(n)
  PROVE  GameInv'
<1>0. UNCHANGED <<start, recv, log, acked, maketic, cl_start, cl_recv>>
  BY DEF ReceiveDisconnect, client, window
<1>1. /\ slot' \in [Nodes -> {"PLAYING", "CLOSING", "OUT"}]
      /\ \A m \in Nodes : slot'[m] = "PLAYING" => slot[m] = "PLAYING"
  BY DEF ReceiveDisconnect, GameInv, GameTypes
<1>2. GameTypes' /\ Acknowledged' /\ Held'
  BY <1>0, <1>1 DEF GameInv, GameTypes, Acknowledged, Held, Window
<1>3. InFlight'
  <2>1. net' \subseteq net
    BY DEF ReceiveDisconnect
  <2> QED BY <2>1, <1>0, InFlightLess
<1>4. Whole'
  <2>1. ConnectedPlayers(slot') \subseteq ConnectedPlayers(slot)
    BY <1>1 DEF ConnectedPlayers, Connected, ClientConnected
  <2> QED BY <2>1, <1>0 DEF GameInv, Whole
<1> QED BY <1>2, <1>3, <1>4 DEF GameInv

LEMMA LoseInv ==
  ASSUME GameInv, Lose
  PROVE  GameInv'
<1>0. UNCHANGED <<slot, start, recv, log, acked, maketic, cl_start, cl_recv>>
  BY DEF Lose, server, client, window
<1>1. GameTypes' /\ Acknowledged' /\ Held' /\ Whole'
  BY <1>0 DEF GameInv, GameTypes, Acknowledged, Held, Whole, Window,
              ConnectedPlayers, Connected, ClientConnected
<1>2. net' \subseteq net
  BY DEF Lose
<1>3. InFlight'
  BY <1>0, <1>2, InFlightLess
<1> QED BY <1>1, <1>3 DEF GameInv
-----------------------------------------------------------------------------
(* NET_SV_Run.  Slots are only ever freed.                                 *)
SlotsLeft(sl) == /\ sl \in [Nodes -> {"PLAYING", "CLOSING", "OUT"}]
                 /\ \A n \in Nodes : sl[n] = "PLAYING" => slot[n] = "PLAYING"
                 /\ \A n \in Nodes : sl[n] # "OUT" => slot[n] # "OUT"

LEMMA FreedLeft == ASSUME GameInv, NEW gone PROVE SlotsLeft(Freed(gone))
BY DEF GameInv, GameTypes, SlotsLeft, Freed

LEMMA LatestBounds ==
  ASSUME GameInv, NEW sl, NEW n \in Nodes, sl[n] = "PLAYING"
  PROVE  /\ LatestAcknowledged(sl) \in Nat
         /\ \A m \in Nodes : sl[m] = "PLAYING" => LatestAcknowledged(sl) <= acked[m]
         /\ \E m \in Nodes : sl[m] = "PLAYING" /\ LatestAcknowledged(sl) = acked[m]
<1> DEFINE A == {acked[m] : m \in {k \in Nodes : sl[k] = "PLAYING"}}
<1>1. A \subseteq Nat /\ A # {}
  BY DEF GameInv, GameTypes
<1>2. \A m \in Nodes : sl[m] = "PLAYING" => acked[m] \in A
  OBVIOUS
<1>3. \A a \in A : \E m \in Nodes : sl[m] = "PLAYING" /\ a = acked[m]
  OBVIOUS
<1>4. LatestAcknowledged(sl) = Min(A)
  BY DEF LatestAcknowledged
<1> HIDE DEF A
<1>5. Min(A) \in A /\ \A a \in A : Min(A) <= a
  BY <1>1, MinNat
<1> QED BY <1>1, <1>2, <1>3, <1>4, <1>5

(* The window stops at the first tic that a player misses, or else at the  *)
(* slowest acknowledgement.                                                *)
LEMMA AdvancedStops ==
  ASSUME GameInv, NEW sl
  PROVE  \/ Advanced(sl) = start /\ (ConnectedPlayers(sl) = {} \/ LatestAcknowledged(sl) <= start)
         \/ /\ ConnectedPlayers(sl) # {}
            /\ LatestAcknowledged(sl) \in Nat /\ Advanced(sl) \in Nat
            /\ start <= Advanced(sl) /\ Advanced(sl) <= LatestAcknowledged(sl)
            /\ \A t \in start..(Advanced(sl) - 1) : \A p \in ConnectedPlayers(sl) : t \in recv[p]
            /\ \/ Advanced(sl) = LatestAcknowledged(sl)
               \/ \E p \in ConnectedPlayers(sl) : Advanced(sl) \notin recv[p]
<1> DEFINE low == LatestAcknowledged(sl)
           players == ConnectedPlayers(sl)
           gaps == {t \in start..low : \E p \in players : t \notin recv[p]}
           M == {low} \cup gaps
           x == Advanced(sl)
<1>1. CASE players = {} \/ low <= start
  BY <1>1 DEF Advanced
<1>2. CASE ~(players = {} \/ low <= start)
  <2>1. PICK n \in Nodes : n \in players /\ sl[n] = "PLAYING"
    BY <1>2 DEF ConnectedPlayers, Connected, ClientConnected
  <2>2. low \in Nat /\ start \in Nat
    BY <2>1, LatestBounds DEF GameInv, GameTypes
  <2>3. x = Min(M)
    BY <1>2 DEF Advanced
  <2> HIDE DEF low, x
  <2>4. M \subseteq Nat /\ \A t \in M : start <= t
    BY <2>2, <1>2
  <2>5. Min(M) \in M /\ \A t \in M : Min(M) <= t
    <3>1. low \in M
      OBVIOUS
    <3> HIDE DEF M
    <3> QED BY <2>4, <3>1, MinNat
  <2>6. x \in Nat /\ start <= x /\ x <= low
    BY <2>2, <2>3, <2>4, <2>5
  <2>7. ASSUME NEW t \in start..(x - 1), NEW p \in players PROVE t \in recv[p]
    <3> SUFFICES ASSUME t \notin recv[p] PROVE FALSE
      OBVIOUS
    <3>1. t \in M /\ t < x
      BY <2>2, <2>6
    <3>2. x <= t
      BY <3>1, <2>3, <2>5
    <3> QED BY <3>1, <3>2, <2>2, <2>6
  <2>8. x = low \/ \E p \in players : x \notin recv[p]
    BY <2>3, <2>5
  <2> QED BY <1>2, <2>2, <2>6, <2>7, <2>8 DEF low, x
<1> QED BY <1>1, <1>2

LEMMA AdvancedBounds ==
  ASSUME GameInv, NEW sl, SlotsLeft(sl)
  PROVE  /\ Advanced(sl) \in Nat /\ start <= Advanced(sl)
         /\ \A n \in Nodes : sl[n] = "PLAYING" => Advanced(sl) <= acked[n]
<1>1. start \in Nat /\ \A n \in Nodes : acked[n] \in Nat
  BY DEF GameInv, GameTypes
<1>2. CASE Advanced(sl) = start
  BY <1>1, <1>2 DEF GameInv, Acknowledged, SlotsLeft
<1>3. CASE Advanced(sl) # start
  <2>1. /\ LatestAcknowledged(sl) \in Nat /\ Advanced(sl) \in Nat
        /\ start <= Advanced(sl) /\ Advanced(sl) <= LatestAcknowledged(sl)
    BY <1>3, AdvancedStops
  <2>2. ASSUME NEW n \in Nodes, sl[n] = "PLAYING" PROVE Advanced(sl) <= acked[n]
    <3>1. LatestAcknowledged(sl) <= acked[n]
      BY <2>2, LatestBounds
    <3> QED BY <2>1, <3>1, <1>1
  <2> QED BY <2>1, <2>2
<1> QED BY <1>2, <1>3

(* What the step does to the server.                                       *)
LEMMA ServerRunStep ==
  ASSUME GameInv, NEW gone, NEW late, NEW expired, NET_SV_Run(gone, late, expired)
  PROVE  /\ SlotsLeft(slot')
         /\ start' = Advanced(slot')
         /\ recv' = [p \in Players |-> From(start', recv[p])]
         /\ UNCHANGED <<acked, maketic, cl_start, cl_recv>>
         /\ DOMAIN log' = Nodes
         /\ \A n \in Nodes :
              \/ log'[n] = log[n]
              \/ /\ log'[n] = Append(log[n], NextTic(n))
                 /\ ConnectedPlayers(slot') \ {n} \subseteq NextTic(n)
                 /\ \E sl : /\ SlotsLeft(sl) /\ MayPump(sl, n)
                            /\ \A m \in Nodes : slot'[m] = "PLAYING" => sl[m] = "PLAYING"
<1> DEFINE at(n) == IF \E g \in gone : g <= n THEN slot' ELSE slot
<1>1. slot' = Freed(gone) /\ start' = Advanced(slot')
      /\ recv' = [p \in Players |-> From(start', recv[p])]
      /\ UNCHANGED <<acked, maketic, cl_start, cl_recv>>
  BY DEF NET_SV_Run, client
<1>2. log' = [n \in Nodes |-> IF MayPump(at(n), n)
                               THEN Append(log[n], NextTic(n)) ELSE log[n]]
  BY DEF NET_SV_Run
<1>3. SlotsLeft(slot')
  <2>1. PICK sl : sl = slot'
    OBVIOUS
  <2>2. SlotsLeft(sl)
    BY <2>1, <1>1, FreedLeft
  <2> QED BY <2>1, <2>2
<1>4. ASSUME NEW n \in Nodes, MayPump(at(n), n)
      PROVE  ConnectedPlayers(slot') \ {n} \subseteq NextTic(n)
  <2>1. ConnectedPlayers(slot') \subseteq ConnectedPlayers(at(n))
    BY <1>3 DEF SlotsLeft, ConnectedPlayers, Connected, ClientConnected
  <2> HIDE DEF at
  <2>2. IsComplete(at(n), n)
    BY <1>4 DEF MayPump
  <2>3. ASSUME NEW p \in ConnectedPlayers(at(n)) \ {n} PROVE p \in NextTic(n)
    <3>1. Len(log[n]) \in recv[p]
      BY <2>2, <2>3 DEF IsComplete
    <3> QED BY <3>1, <2>3 DEF NextTic, ConnectedPlayers
  <2> QED BY <2>1, <2>3
<1>5. ASSUME NEW n \in Nodes
      PROVE  \/ log'[n] = log[n]
             \/ /\ log'[n] = Append(log[n], NextTic(n))
                /\ ConnectedPlayers(slot') \ {n} \subseteq NextTic(n)
                /\ \E sl : /\ SlotsLeft(sl) /\ MayPump(sl, n)
                           /\ \A m \in Nodes : slot'[m] = "PLAYING" => sl[m] = "PLAYING"
  <2>1. /\ SlotsLeft(at(n))
        /\ \A m \in Nodes : slot'[m] = "PLAYING" => at(n)[m] = "PLAYING"
    BY <1>3 DEF SlotsLeft, GameInv, GameTypes
  <2> HIDE DEF at
  <2> QED BY <2>1, <1>2, <1>4
<1>6. DOMAIN log' = Nodes
  BY <1>2
<1> QED BY <1>1, <1>3, <1>5, <1>6

LEMMA QueueGrows ==
  ASSUME GameInv, NEW n \in Nodes, NEW l,
         l = log[n] \/ l = Append(log[n], NextTic(n))
  PROVE  /\ l \in Seq(SUBSET Players) /\ Len(log[n]) <= Len(l)
         /\ \A t \in 1..Len(log[n]) : l[t] = log[n][t]
<1>1. log[n] \in Seq(SUBSET Players) /\ NextTic(n) \in SUBSET Players
  BY DEF GameInv, GameTypes, NextTic
<1>2. CASE l = log[n]
  BY <1>1, <1>2
<1>3. CASE l = Append(log[n], NextTic(n))
  BY <1>1, <1>3
<1> QED BY <1>2, <1>3

LEMMA ServerRunInv ==
  ASSUME GameInv, NEW gone, NEW late, NEW expired,
         late \subseteq Nodes, NET_SV_Run(gone, late, expired)
  PROVE  GameInv'
<1>0. /\ SlotsLeft(slot')
      /\ start' = Advanced(slot')
      /\ recv' = [p \in Players |-> From(start', recv[p])]
      /\ UNCHANGED <<acked, maketic, cl_start, cl_recv>>
      /\ DOMAIN log' = Nodes
      /\ \A n \in Nodes :
           \/ log'[n] = log[n]
           \/ /\ log'[n] = Append(log[n], NextTic(n))
              /\ ConnectedPlayers(slot') \ {n} \subseteq NextTic(n)
  BY ServerRunStep
<1>1. start' \in Nat /\ \A n \in Nodes : slot'[n] = "PLAYING" => start' <= acked[n]
  <2>1. PICK sl : sl = slot'
    OBVIOUS
  <2>2. SlotsLeft(sl)
    BY <2>1, <1>0
  <2>3. Advanced(sl) \in Nat /\ \A n \in Nodes : sl[n] = "PLAYING" => Advanced(sl) <= acked[n]
    BY <2>2, AdvancedBounds
  <2> QED BY <2>1, <2>3, <1>0
<1>2. \A p \in Players : recv'[p] \subseteq recv[p]
  BY <1>0 DEF From
<1>3. ASSUME NEW n \in Nodes
      PROVE  /\ log'[n] \in Seq(SUBSET Players) /\ Len(log[n]) <= Len(log'[n])
             /\ \A t \in 1..Len(log[n]) : log'[n][t] = log[n][t]
  <2>1. PICK l : l = log'[n]
    OBVIOUS
  <2>2. /\ l \in Seq(SUBSET Players) /\ Len(log[n]) <= Len(l)
        /\ \A t \in 1..Len(log[n]) : l[t] = log[n][t]
    BY <2>1, <1>0, QueueGrows
  <2> QED BY <2>1, <2>2
<1>4. GameTypes'
  <2>1. slot' \in [Nodes -> {"PLAYING", "CLOSING", "OUT"}]
    BY <1>0 DEF SlotsLeft
  <2>2. recv' \in [Players -> SUBSET Nat]
    BY <1>0, <1>2 DEF GameInv, GameTypes
  <2>3. log' \in [Nodes -> Seq(SUBSET Players)]
    <3>1. log' = [n \in Nodes |-> log'[n]]
      BY <1>0 DEF NET_SV_Run, SlotsLeft
    <3> QED BY <3>1, <1>3
  <2> QED BY <2>1, <2>2, <2>3, <1>0, <1>1 DEF GameInv, GameTypes, Window, Nodes, Players
<1>5. Acknowledged'
  <2>1. ASSUME NEW n \in Nodes
        PROVE  acked[n] <= cl_start[n] /\ cl_start[n] <= Len(log'[n])
    <3>1. PICK l \in Seq(SUBSET Players) : l = log'[n]
      BY <1>3
    <3>2. /\ acked[n] <= cl_start[n] /\ cl_start[n] <= Len(log[n])
          /\ cl_start[n] \in Nat /\ Len(log[n]) \in Nat /\ Len(l) \in Nat
      BY <3>1 DEF GameInv, GameTypes, Acknowledged
    <3>3. Len(log[n]) <= Len(l)
      BY <3>1, <1>3
    <3>4. cl_start[n] <= Len(l)
      BY <3>2, <3>3
    <3> QED BY <3>1, <3>2, <3>4
  <2> QED BY <2>1, <1>0, <1>1 DEF Acknowledged, Nodes
<1>6. Held'
  <2>1. ASSUME NEW n \in Nodes, NEW t \in cl_recv[n]
        PROVE  t < Len(log'[n])
    <3>1. PICK l \in Seq(SUBSET Players) : l = log'[n]
      BY <1>3
    <3>2. t \in Nat /\ t < Len(log[n]) /\ Len(log[n]) \in Nat /\ Len(l) \in Nat
      BY <3>1 DEF GameInv, GameTypes, Held
    <3>3. Len(log[n]) <= Len(l)
      BY <3>1, <1>3
    <3>4. t < Len(l)
      BY <3>2, <3>3
    <3> QED BY <3>1, <3>4
  <2>2. \A p \in Players : \A t \in recv'[p] : t < maketic'[p]
    BY <1>0, <1>2 DEF GameInv, Held
  <2> QED BY <2>1, <2>2, <1>0 DEF Held, Nodes, Players
<1>7. Whole'
  <2>1. ASSUME NEW n \in Nodes, NEW t \in 1..Len(log'[n])
        PROVE  /\ ConnectedPlayers(slot') \ {n} \subseteq log'[n][t]
               /\ log'[n][t] \subseteq Players \ {n}
               /\ \A p \in log'[n][t] : t <= maketic[p]
    <3>1. Len(log[n]) \in Nat /\ log[n] \in Seq(SUBSET Players)
      BY DEF GameInv, GameTypes
    <3>2. CASE t \in 1..Len(log[n])
      <4>1. /\ ConnectedPlayers(slot) \ {n} \subseteq log[n][t]
            /\ log[n][t] \subseteq Players \ {n}
            /\ \A p \in log[n][t] : t <= maketic[p]
        BY <3>2 DEF GameInv, Whole
      <4>2. log'[n][t] = log[n][t]
        BY <3>2, <1>3
      <4>3. ConnectedPlayers(slot') \subseteq ConnectedPlayers(slot)
        BY <1>0 DEF SlotsLeft, ConnectedPlayers, Connected, ClientConnected
      <4> QED BY <4>1, <4>2, <4>3
    <3>3. CASE t \notin 1..Len(log[n])
      <4>1. log'[n] # log[n]
        BY <3>3
      <4>2. /\ log'[n] = Append(log[n], NextTic(n))
            /\ ConnectedPlayers(slot') \ {n} \subseteq NextTic(n)
        BY <4>1, <1>0
      <4>3. PICK l : l = log'[n] /\ l = Append(log[n], NextTic(n)) /\ t \in 1..Len(l)
        BY <4>2
      <4>4. t = Len(log[n]) + 1 /\ l[t] = NextTic(n)
        BY <4>3, <3>1, <3>3
      <4>5. \A p \in NextTic(n) : t <= maketic[p]
        <5> TAKE p \in NextTic(n)
        <5>1. p \in Players /\ p \in Nodes /\ Len(log[n]) \in recv[p]
          BY NodesAreNat DEF NextTic
        <5>2. Len(log[n]) < maketic[p] /\ maketic[p] \in Nat
          BY <5>1 DEF GameInv, GameTypes, Held
        <5> QED BY <5>2, <4>4, <3>1
      <4>6. NextTic(n) \subseteq Players \ {n}
        BY DEF NextTic
      <4> QED BY <4>2, <4>3, <4>4, <4>5, <4>6
    <3> QED BY <3>2, <3>3
  <2> QED BY <2>1, <1>0 DEF Whole, ConnectedPlayers, Connected, ClientConnected, Nodes, Players
<1>8. InFlight'
  <2> DEFINE pumped == {n \in Nodes : Len(log'[n]) > Len(log[n])}
             tics == {Tics(n, Max({0, Len(log[n]) - extratics}), Len(log[n])) : n \in pumped}
             renewed(p) == {t \in From(start', asked[p]) : <<p, t>> \in expired}
             old == {k \in net : slot'[k.node] # "OUT"}
             at(p) == IF \E g \in gone : g <= p THEN slot' ELSE slot
             checked == {p \in late : ClientConnected(at(p), p)}
             asks == UNION {RequestFor("client", p, DeadlockTics(p)) : p \in checked}
             again == UNION {RequestsFor("client", p, renewed(p)) : p \in ConnectedPlayers(slot')}
  <2>1. Carry(old, tics \cup asks \cup again)
    BY DEF NET_SV_Run
  <2> DEFINE new == tics \cup asks \cup again
  <2> HIDE DEF tics, asks, again, old, checked
  <2>2. net' \subseteq net \cup new
    <3>1. net' \subseteq old \cup new
      BY <2>1, CarryKeeps
    <3> QED BY <3>1 DEF old
  <2> USE DEF tics, asks, again
  <2>3. ASSUME NEW j \in tics PROVE Fits(j, maketic', cl_start', log')
    <3>1. PICK n \in pumped : j = Tics(n, Max({0, Len(log[n]) - extratics}), Len(log[n]))
      OBVIOUS
    <3>2. PICK a \in Int : a = Len(log[n]) - extratics
      BY GameDataAssumption DEF GameInv, GameTypes
    <3>3. Max({0, a}) \in Int
      BY MaxOfZero
    <3>4. PICK first \in Int : j = Tics(n, first, Len(log[n]))
      BY <3>1, <3>2, <3>3
    <3>5. PICK l2 : l2 = log' /\ l2[n] \in Seq(SUBSET Players) /\ Len(log[n]) < Len(l2[n])
      BY <1>3
    <3>6. Len(log[n]) \in Nat /\ Len(l2[n]) \in Nat
      BY <3>5 DEF GameInv, GameTypes
    <3>7. Fits(j, maketic, cl_start, l2)
      BY <3>4, <3>5, <3>6 DEF Fits, Tics
    <3> QED BY <3>5, <3>7, <1>0
  <2>4. ASSUME NEW j \in asks PROVE Fits(j, maketic', cl_start', log')
    <3>1. PICK p \in checked : j \in RequestFor("client", p, DeadlockTics(p))
      OBVIOUS
    <3>2. p \in Nodes
      BY DEF checked
    <3> QED BY <3>1, <3>2, RequestsFit
  <2>5. ASSUME NEW j \in again PROVE Fits(j, maketic', cl_start', log')
    <3>1. PICK p \in ConnectedPlayers(slot') : j \in RequestsFor("client", p, renewed(p))
      OBVIOUS
    <3>2. p \in Nodes
      BY DEF ConnectedPlayers, Connected
    <3> QED BY <3>1, <3>2, RequestsFit
  <2> HIDE DEF tics, asks, again
  <2>6. \A j \in new : Fits(j, maketic', cl_start', log')
    BY <2>3, <2>4, <2>5
  <2> HIDE DEF new
  <2>7. \A n \in Nodes : /\ maketic[n] <= maketic'[n]
                         /\ cl_start[n] <= cl_start'[n]
                         /\ Len(log[n]) <= Len(log'[n])
    <3> TAKE n \in Nodes
    <3>1. maketic[n] \in Nat /\ cl_start[n] \in Nat
      BY DEF GameInv, GameTypes
    <3> QED BY <3>1, <1>0, <1>3
  <2> QED BY <2>2, <2>6, <2>7, <1>4, InFlightLater
<1> QED BY <1>4, <1>5, <1>6, <1>7, <1>8 DEF GameInv
-----------------------------------------------------------------------------
LEMMA StutterInv == ASSUME GameInv, UNCHANGED vars PROVE GameInv'
BY DEF GameInv, GameTypes, Acknowledged, Held, InFlight, Whole, Fits, Window,
       ConnectedPlayers, Connected, ClientConnected, Nodes, Players,
       vars, server, window, client

(* The runs of the server are for connected players.                       *)
LEMMA ServerRunCases ==
  ASSUME ServerRun
  PROVE  \E gone, late, expired : late \subseteq Nodes /\ NET_SV_Run(gone, late, expired)
<1>1. ConnectedPlayers(slot) \subseteq Nodes
  BY DEF ConnectedPlayers, Connected
<1>2. CASE NET_SV_Run({}, {}, {})
  BY <1>2
<1>3. CASE \E n \in Leavers : slot[n] # "OUT" /\ NET_SV_Run({n}, {}, {})
  BY <1>3
<1>4. CASE \E p \in ConnectedPlayers(slot) : NET_SV_Run({}, {p}, {})
  BY <1>1, <1>4
<1>5. CASE \E p \in ConnectedPlayers(slot) : \E tics \in Ranges(asked[p]) :
             NET_SV_Run({}, {}, {p} \X tics)
  BY <1>5
<1> QED BY <1>2, <1>3, <1>4, <1>5 DEF ServerRun

LEMMA NextGameInv == ASSUME GameInv, ReachInv, TypeInv, [Next]_vars PROVE GameInv'
<1>1. CASE ServerRun
  BY <1>1, ServerRunCases, ServerRunInv
<1>2. CASE Lose
  BY <1>2, LoseInv
<1>3. ASSUME NEW n \in Nodes, Client(n) PROVE GameInv'
  <2>1. CASE NET_CL_ParseGameStart(n)
    BY <2>1, StartInv
  <2>2. CASE NET_CL_SendTiccmd(n)
    BY <2>2, SendInv
  <2>3. CASE \E k \in net : NET_CL_ParseGameData(n, k)
    BY <2>3, LearnInv, ReadsWhole
  <2>4. CASE \E k \in net : NET_CL_ParseResendRequest(n, k)
    BY <2>4, AnswerInv
  <2>5. CASE \E expired, due : NET_CL_Run(n, expired, due)
    BY <2>5, ClientRunInv
  <2> QED BY <1>3, <2>1, <2>2, <2>3, <2>4, <2>5 DEF Client
<1>4. ASSUME NEW n \in Nodes, Packet(n) PROVE GameInv'
  <2>1. CASE \E k \in net : NET_SV_ParseGameData(n, k)
    BY <2>1, CollectInv, ReadsWhole
  <2>2. CASE \E k \in net : NET_SV_ParseGameDataACK(n, k)
    BY <2>2, AckedInv, ReadsWhole
  <2>3. CASE \E k \in net : NET_SV_ParseResendRequest(n, k)
    BY <2>3, ResendInv
  <2>4. CASE ReceiveDisconnect(n)
    BY <2>4, DisconnectInv
  <2> QED BY <1>4, <2>1, <2>2, <2>3, <2>4 DEF Packet
<1>5. CASE UNCHANGED vars
  BY <1>5, StutterInv
<1> QED BY <1>1, <1>2, <1>3, <1>4, <1>5 DEF Next

-----------------------------------------------------------------------------
(* How far from each other the numbers get.                                *)
LEMMA Limits ==
  /\ MaxLag \in Nat /\ SoloLead \in Nat /\ MaxAhead \in Nat /\ Lead \in Nat
  /\ SoloLead <= MaxLag /\ MaxAhead <= Lead /\ SoloLead <= Lead
<1>1. MaxLag \in Nat /\ SoloLead \in Nat /\ MaxAhead \in Nat /\ SoloLead <= MaxLag
  BY GameDataAssumption
<1>2. Lead \in {MaxAhead, SoloLead} /\ MaxAhead <= Lead /\ SoloLead <= Lead
  BY <1>1, MaxOfTwo DEF Lead
<1> QED BY <1>1, <1>2

LEMMA InitReach == Init => ReachInv
<1> SUFFICES ASSUME Init PROVE ReachInv
  OBVIOUS
<1>1. \A n \in Nodes : log[n] = <<>> /\ maketic[n] = 0 /\ cl_start[n] = 0
  BY DEF Init
<1>2. InStock
  BY <1>1 DEF InStock
<1>3. Ahead
  BY <1>1, Limits DEF Ahead
<1>4. Reach
  BY <1>1, Limits DEF Init, Reach, Connected
<1>5. Behind
  BY <1>1, Limits DEF Init, Behind, ConnectedPlayers, Connected
<1> QED BY <1>2, <1>3, <1>4, <1>5 DEF ReachInv

(* A step that leaves the server's queues and the start of its window.     *)
LEMMA ReachStill ==
  ASSUME GameInv, GameInv', ReachInv, SlotsLeft(slot'), start' = start, log' = log,
         \A p \in Players : recv[p] \subseteq recv'[p],
         \A n \in Nodes : maketic[n] <= maketic'[n],
         Ahead'
  PROVE  ReachInv'
<1>1. Connected(slot') \subseteq Connected(slot)
  BY DEF SlotsLeft, Connected, ClientConnected
<1>2. InStock'
  <2>1. \A n \in Nodes : \A t \in 1..Len(log[n]) : log[n][t] \subseteq Players
    BY DEF GameInv, Whole
  <2> QED BY <2>1 DEF ReachInv, InStock, Nodes
<1>3. Reach'
  BY DEF ReachInv, Reach, SlotsLeft, Nodes
<1>4. Behind'
  <2>1. ASSUME NEW p \in ConnectedPlayers(slot')
        PROVE  start <= maketic'[p] /\ Len(log[p]) <= maketic'[p] + Lead + 1
    <3>1. p \in Nodes /\ start <= maketic[p] /\ Len(log[p]) <= maketic[p] + Lead + 1
      BY <1>1 DEF ReachInv, Behind, ConnectedPlayers, Connected
    <3>2. maketic' \in [Nodes -> Nat]
      BY DEF GameInv, GameTypes, Nodes
    <3>3. PICK new \in Nat : new = maketic'[p] /\ maketic[p] <= new
      BY <3>1, <3>2
    <3>4. PICK old \in Nat, len \in Nat : old = maketic[p] /\ len = Len(log[p])
      BY <3>1 DEF GameInv, GameTypes
    <3>5. start \in Nat
      BY DEF GameInv, GameTypes
    <3>6. PICK lead \in Nat : lead = Lead
      BY Limits
    <3>7. start <= old /\ len <= old + lead + 1 /\ old <= new
      BY <3>1, <3>3, <3>4, <3>6
    <3>8. start <= new /\ len <= new + lead + 1
      BY <3>5, <3>7
    <3> QED BY <3>3, <3>4, <3>6, <3>8
  <2> QED BY <2>1 DEF Behind, ConnectedPlayers, Connected, ClientConnected, Nodes, Players
<1> QED BY <1>2, <1>3, <1>4 DEF ReachInv

LEMMA SlotsSame == ASSUME GameInv, slot' = slot PROVE SlotsLeft(slot')
BY DEF GameInv, GameTypes, SlotsLeft

LEMMA ReachSameClients ==
  ASSUME GameInv, GameInv', ReachInv, SlotsLeft(slot'), start' = start, log' = log,
         \A p \in Players : recv[p] \subseteq recv'[p],
         maketic' = maketic, cl_start' = cl_start
  PROVE  ReachInv'
<1>1. \A n \in Nodes : maketic[n] <= maketic'[n]
  BY DEF GameInv, GameTypes
<1>2. Ahead'
  BY DEF ReachInv, Ahead, Nodes
<1> QED BY <1>1, <1>2, ReachStill

LEMMA SendReach ==
  ASSUME GameInv, GameInv', ReachInv, NEW n \in Nodes, NET_CL_SendTiccmd(n)
  PROVE  ReachInv'
<1>1. /\ UNCHANGED <<slot, start, log, recv, cl_start>>
      /\ maketic' = [maketic EXCEPT ![n] = @ + 1] /\ MayMake(n)
      /\ maketic \in [Nodes -> Nat] /\ cl_start \in [Nodes -> Nat]
  BY DEF NET_CL_SendTiccmd, ClientActs, server, window, GameInv, GameTypes
<1>2. \A m \in Nodes : maketic[m] <= maketic'[m]
  BY <1>1
<1>3. Ahead'
  <2>1. ASSUME NEW m \in Nodes PROVE maketic'[m] <= cl_start[m] + MaxAhead + 1
    <3>1. CASE m = n
      BY <3>1, <1>1, Limits DEF MayMake
    <3>2. CASE m # n
      BY <3>2, <1>1 DEF ReachInv, Ahead
    <3> QED BY <3>1, <3>2
  <2> QED BY <2>1, <1>1 DEF Ahead, Nodes
<1>4. SlotsLeft(slot')
  BY <1>1, SlotsSame
<1> QED BY <1>1, <1>2, <1>3, <1>4, ReachStill

LEMMA ClientRunReach ==
  ASSUME GameInv, GameInv', ReachInv, NEW n \in Nodes, NEW expired, NEW due,
         NET_CL_Run(n, expired, due)
  PROVE  ReachInv'
<1> DEFINE next == NextGap(cl_start[n], cl_recv[n])
<1>1. /\ UNCHANGED <<slot, start, log, recv, maketic>>
      /\ cl_start' = [cl_start EXCEPT ![n] = next]
      /\ maketic \in [Nodes -> Nat] /\ cl_start \in [Nodes -> Nat]
  BY DEF NET_CL_Run, ClientActs, server, window, GameInv, GameTypes
<1>2. next \in Nat /\ cl_start[n] <= next
  <2>1. /\ cl_start[n] \in Nat /\ cl_recv[n] \subseteq Window(cl_start[n])
        /\ Len(log[n]) \in Nat /\ cl_start[n] <= Len(log[n])
        /\ \A t \in cl_recv[n] : t < Len(log[n])
    BY DEF GameInv, GameTypes, Acknowledged, Held
  <2> QED BY <2>1, NextGapBounds
<1> HIDE DEF next
<1>3. Ahead'
  <2>1. ASSUME NEW m \in Nodes PROVE maketic[m] <= cl_start'[m] + MaxAhead + 1
    <3>1. maketic[m] <= cl_start[m] + MaxAhead + 1 /\ maketic[m] \in Nat /\ cl_start[m] \in Nat
      BY <1>1 DEF ReachInv, Ahead
    <3>2. PICK c \in Nat : c = cl_start'[m] /\ cl_start[m] <= c
      BY <3>1, <1>1, <1>2
    <3> QED BY <3>1, <3>2, Limits
  <2> QED BY <2>1, <1>1 DEF Ahead, Nodes
<1>4. \A m \in Nodes : maketic[m] <= maketic'[m]
  BY <1>1
<1>5. SlotsLeft(slot')
  BY <1>1, SlotsSame
<1> QED BY <1>1, <1>3, <1>4, <1>5, ReachStill

(* When a game goes on without players, it did so before the step.         *)
LEMMA FreedPlayers ==
  ASSUME NEW gone, NEW n \in Connected(Freed(gone)), ConnectedPlayers(Freed(gone)) = {}
  PROVE  ConnectedPlayers(slot) = {}
<1>1. CASE gone = {}
  BY <1>1 DEF Freed
<1>2. CASE gone # {}
  <2> DEFINE f == [m \in Nodes |-> IF m \in gone THEN "OUT" ELSE slot[m]]
  <2>1. ~(ConnectedPlayers(slot) \subseteq gone)
    BY <1>2 DEF Freed, Connected, ClientConnected
  <2>2. Freed(gone) = f
    BY <1>2, <2>1 DEF Freed
  <2>3. PICK p \in ConnectedPlayers(slot) : p \notin gone
    BY <2>1
  <2>4. p \in Nodes /\ p \in Players /\ slot[p] = "PLAYING"
    BY DEF ConnectedPlayers, Connected, ClientConnected
  <2>5. f[p] = "PLAYING"
    BY <2>3, <2>4
  <2>6. p \in ConnectedPlayers(f)
    BY <2>4, <2>5 DEF ConnectedPlayers, Connected, ClientConnected
  <2> QED BY <2>2, <2>6
<1> QED BY <1>1, <1>2

(* The tics that all have acknowledged are there, since they were queued   *)
(* for somebody with the commands of each player: the window is advanced   *)
(* to where the acknowledgements were when a tic was queued.               *)
LEMMA AdvancedFar ==
  ASSUME GameInv, InStock, NEW sl, NEW sl2, SlotsLeft(sl), SlotsLeft(sl2),
         \A m \in Nodes : sl2[m] = "PLAYING" => sl[m] = "PLAYING",
         NEW n \in Nodes, sl[n] = "PLAYING",
         ConnectedPlayers(sl) \ {n} # {}, ConnectedPlayers(sl2) # {}
  PROVE  LatestAcknowledged(sl) \in Nat /\ LatestAcknowledged(sl) <= Advanced(sl2)
<1> DEFINE low == LatestAcknowledged(sl)
           low2 == LatestAcknowledged(sl2)
           x == Advanced(sl2)
<1>1. low \in Nat /\ start \in Nat /\ \A m \in Nodes : sl[m] = "PLAYING" => low <= acked[m]
  BY LatestBounds DEF GameInv, GameTypes
<1>2. low2 \in Nat /\ low <= low2
  <2>1. PICK p \in Nodes : sl2[p] = "PLAYING"
    BY DEF ConnectedPlayers, Connected, ClientConnected
  <2>2. low2 \in Nat /\ \E m \in Nodes : sl2[m] = "PLAYING" /\ low2 = acked[m]
    BY <2>1, LatestBounds
  <2> QED BY <2>2, <1>1
<1>3. x \in Nat
  BY AdvancedBounds
<1>4. CASE x = start /\ low2 <= start
  BY <1>1, <1>2, <1>4
<1>5. CASE x = low2
  BY <1>1, <1>2, <1>5
<1>6. ASSUME start <= x, NEW p \in ConnectedPlayers(sl2), x \notin recv[p]
      PROVE  low <= x
  <2> SUFFICES ASSUME x < low PROVE FALSE
    BY <1>1, <1>3
  <2>1. PICK m \in Nodes : m # p /\ sl[m] = "PLAYING"
    BY DEF ConnectedPlayers, Connected, ClientConnected
  <2>2. /\ acked[m] \in Nat /\ cl_start[m] \in Nat /\ Len(log[m]) \in Nat
        /\ low <= acked[m] /\ acked[m] <= cl_start[m] /\ cl_start[m] <= Len(log[m])
    BY <2>1, <1>1 DEF GameInv, GameTypes, Acknowledged
  <2> HIDE DEF x, low
  <2>3. x + 1 \in 1..Len(log[m]) /\ (x + 1) - 1 = x
    BY <2>2, <1>1, <1>3
  <2>4. p \in ConnectedPlayers(slot) \ {m}
    BY <2>1 DEF SlotsLeft, ConnectedPlayers, Connected, ClientConnected
  <2>5. p \in log[m][x + 1]
    BY <2>3, <2>4 DEF GameInv, Whole
  <2>6. x \in recv[p]
    BY <2>3, <2>5, <1>1, <1>3, <1>6 DEF InStock
  <2> QED BY <2>6, <1>6
<1>7. \/ x = start /\ low2 <= start
      \/ start <= x /\ (x = low2 \/ \E p \in ConnectedPlayers(sl2) : x \notin recv[p])
  BY AdvancedStops
<1> HIDE DEF x, low, low2
<1>8. low <= x
  BY <1>1, <1>2, <1>3, <1>4, <1>5, <1>6, <1>7
<1> QED BY <1>1, <1>3, <1>8 DEF x, low

LEMMA AdvancedHeld ==
  ASSUME GameInv, NEW sl, SlotsLeft(sl), NEW p \in ConnectedPlayers(sl),
         start <= maketic[p]
  PROVE  Advanced(sl) <= maketic[p]
<1> DEFINE x == Advanced(sl)
<1>1. p \in Players /\ p \in Nodes /\ maketic[p] \in Nat /\ start \in Nat /\ x \in Nat
  BY AdvancedBounds DEF ConnectedPlayers, Connected, GameInv, GameTypes
<1>2. CASE x = start
  BY <1>2
<1>3. CASE x # start
  <2>1. start <= x /\ \A t \in start..(x - 1) : \A q \in ConnectedPlayers(sl) : t \in recv[q]
    BY <1>3, AdvancedStops
  <2> HIDE DEF x
  <2>2. x - 1 \in start..(x - 1)
    BY <2>1, <1>1, <1>3
  <2>3. x - 1 \in recv[p]
    BY <2>1, <2>2
  <2>4. x - 1 < maketic[p]
    BY <2>3, <1>1 DEF GameInv, Held
  <2>5. x <= maketic[p]
    BY <2>4, <1>1
  <2> QED BY <2>5 DEF x
<1> QED BY <1>2, <1>3

LEMMA ServerRunReach ==
  ASSUME GameInv, GameInv', ReachInv, NEW gone, NEW late, NEW expired,
         NET_SV_Run(gone, late, expired)
  PROVE  ReachInv'
<1>0. /\ SlotsLeft(slot') /\ start' = Advanced(slot') /\ slot' = Freed(gone)
      /\ recv' = [p \in Players |-> From(start', recv[p])]
      /\ UNCHANGED <<maketic, cl_start>>
      /\ \A n \in Nodes :
           \/ log'[n] = log[n]
           \/ /\ log'[n] = Append(log[n], NextTic(n))
              /\ \E sl : /\ SlotsLeft(sl) /\ MayPump(sl, n)
                         /\ \A m \in Nodes : slot'[m] = "PLAYING" => sl[m] = "PLAYING"
  <2>1. slot' = Freed(gone)
    BY DEF NET_SV_Run
  <2> QED BY <2>1, ServerRunStep
<1>1. PICK s2 : s2 = slot'
  OBVIOUS
<1>2. PICK x \in Nat : x = start' /\ x = Advanced(s2) /\ start <= x
  BY <1>0, <1>1, AdvancedBounds
<1>3. start \in Nat /\ \A n \in Nodes : Len(log[n]) \in Nat /\ maketic[n] \in Nat
  BY DEF GameInv, GameTypes
<1>4. InStock'
  <2>1. ASSUME NEW n \in Nodes, NEW t \in 1..Len(log'[n]), NEW p \in log'[n][t], t - 1 >= x
        PROVE  t - 1 \in recv'[p]
    <3>1. p \in Players
      BY DEF GameInv, Whole, Nodes, Players
    <3>2. PICK l : l = log'[n] /\ (l = log[n] \/ l = Append(log[n], NextTic(n)))
      BY <1>0
    <3>3. /\ Len(log[n]) <= Len(l) /\ \A u \in 1..Len(log[n]) : l[u] = log[n][u]
      BY <3>2, QueueGrows
    <3>4. log[n] \in Seq(SUBSET Players) /\ NextTic(n) \in SUBSET Players
      BY DEF GameInv, GameTypes, NextTic
    <3>5. t - 1 \in recv[p]
      <4>1. CASE t \in 1..Len(log[n])
        <5>1. p \in log[n][t]
          BY <4>1, <3>2, <3>3
        <5>2. t - 1 >= start
          BY <1>2, <1>3, <2>1, <4>1
        <5> QED BY <4>1, <5>1, <5>2 DEF ReachInv, InStock
      <4>2. CASE t \notin 1..Len(log[n])
        <5>1. l = Append(log[n], NextTic(n)) /\ t \in 1..Len(l)
          BY <4>2, <3>2
        <5>2. t = Len(log[n]) + 1 /\ l[t] = NextTic(n)
          BY <5>1, <4>2, <3>4
        <5>3. p \in NextTic(n) /\ t - 1 = Len(log[n])
          BY <5>2, <3>2, <1>3
        <5> QED BY <5>3 DEF NextTic
      <4> QED BY <4>1, <4>2
    <3> QED BY <3>1, <3>5, <2>1, <1>0, <1>2 DEF From
  <2> QED BY <2>1, <1>2 DEF InStock, Nodes
<1>5. Ahead'
  BY <1>0 DEF ReachInv, Ahead, Nodes
<1>6. ASSUME NEW n \in Connected(s2)
      PROVE  /\ Len(log'[n]) <= x + MaxLag + 1
             /\ n \in Players => x <= maketic[n] /\ Len(log'[n]) <= maketic[n] + Lead + 1
  <2>0. n \in Nodes /\ s2[n] = "PLAYING" /\ slot[n] = "PLAYING" /\ SlotsLeft(s2)
    BY <1>0, <1>1 DEF SlotsLeft, Connected, ClientConnected
  <2>1. /\ Len(log[n]) <= start + MaxLag + 1
        /\ n \in Players => start <= maketic[n] /\ Len(log[n]) <= maketic[n] + Lead + 1
    BY <2>0 DEF ReachInv, Reach, Behind, ConnectedPlayers, Connected, ClientConnected
  <2>2. n \in Players => x <= maketic[n]
    <3>1. n \in Players => n \in ConnectedPlayers(s2)
      BY DEF ConnectedPlayers
    <3> QED BY <3>1, <2>0, <2>1, <1>2, AdvancedHeld
  <2>3. CASE log'[n] = log[n]
    <3>1. Len(log[n]) <= x + MaxLag + 1
      BY <2>0, <2>1, <1>2, <1>3, Limits
    <3> QED BY <3>1, <2>1, <2>2, <2>3
  <2>4. CASE log'[n] # log[n]
    <3>1. PICK sl : /\ SlotsLeft(sl) /\ MayPump(sl, n)
                    /\ \A m \in Nodes : s2[m] = "PLAYING" => sl[m] = "PLAYING"
      BY <2>0, <2>4, <1>0, <1>1
    <3> DEFINE others == ConnectedPlayers(sl) \ {n}
               len == Len(log[n])
    <3>2. Len(log'[n]) = len + 1
      <4>1. log'[n] = Append(log[n], NextTic(n))
        BY <2>0, <2>4, <1>0
      <4>2. log[n] \in Seq(SUBSET Players) /\ NextTic(n) \in SUBSET Players
        BY <2>0 DEF GameInv, GameTypes, NextTic
      <4> QED BY <4>1, <4>2
    <3>3. CASE others = {}
      <4>1. len <= start + SoloLead
        BY <3>1, <3>3 DEF MayPump, IsComplete
      <4>2. len + 1 <= x + MaxLag + 1
        BY <4>1, <2>0, <1>2, <1>3, Limits
      <4>3. n \in Players => len + 1 <= maketic[n] + Lead + 1
        BY <4>1, <2>0, <2>1, <1>3, Limits
      <4> QED BY <2>2, <3>2, <4>2, <4>3
    <3>4. CASE others # {}
      <4>1. ConnectedPlayers(s2) # {}
        <5>1. ConnectedPlayers(slot) # {}
          BY <3>1, <3>4 DEF SlotsLeft, ConnectedPlayers, Connected, ClientConnected
        <5> QED BY <5>1, <1>0, <1>1, FreedPlayers
      <4>2. LatestAcknowledged(sl) \in Nat /\ LatestAcknowledged(sl) <= x
        <5>1. InStock /\ sl[n] = "PLAYING"
          BY <3>1, <2>0 DEF ReachInv
        <5> QED BY <5>1, <4>1, <3>1, <3>4, <2>0, <1>2, AdvancedFar
      <4>3. len - LatestAcknowledged(sl) <= MaxLag /\ \A q \in others : len \in recv[q]
        BY <3>1, <3>4 DEF MayPump, IsComplete, NotFarAhead
      <4>4. len + 1 <= x + MaxLag + 1
        BY <4>2, <4>3, <2>0, <1>3, Limits
      <4>5. ASSUME n \in Players PROVE len + 1 <= maketic[n] + Lead + 1
        <5>1. PICK q \in others : len \in recv[q]
          BY <3>4, <4>3
        <5>2. q \in Players /\ q \in Nodes
          BY DEF ConnectedPlayers, Connected
        <5>3. len < maketic[q] /\ maketic[q] <= cl_start[q] + MaxAhead + 1
              /\ cl_start[q] <= Len(log[q]) /\ cl_start[q] \in Nat
          BY <5>1, <5>2 DEF GameInv, GameTypes, Held, Acknowledged, ReachInv, Ahead
        <5>4. Len(log[q]) <= maketic[n]
          <6>1. CASE Len(log[q]) = 0
            BY <6>1, <2>0, <1>3
          <6>2. CASE Len(log[q]) # 0
            <7>1. Len(log[q]) \in 1..Len(log[q])
              BY <6>2, <5>2, <1>3
            <7>2. n \in ConnectedPlayers(slot) \ {q}
              BY <2>0, <4>5, <5>1 DEF ConnectedPlayers, Connected, ClientConnected
            <7> QED BY <7>1, <7>2, <5>2 DEF GameInv, Whole
          <6> QED BY <6>1, <6>2
        <5>5. /\ len \in Nat /\ maketic[q] \in Nat /\ Len(log[q]) \in Nat
              /\ maketic[n] \in Nat
          BY <5>2, <2>0, <1>3
        <5> HIDE DEF len
        <5>6. len + 1 <= Len(log[q]) + MaxAhead + 1
          BY <5>3, <5>5, Limits
        <5> QED BY <5>4, <5>5, <5>6, Limits
      <4> QED BY <2>2, <3>2, <4>4, <4>5
    <3> QED BY <3>3, <3>4
  <2> QED BY <2>3, <2>4
<1>7. Reach'
  <2>1. ASSUME NEW n \in Nodes, s2[n] # "OUT" PROVE Len(log'[n]) <= x + MaxLag + 1
    <3>1. CASE s2[n] = "PLAYING"
      BY <3>1, <1>6 DEF Connected, ClientConnected
    <3>2. CASE s2[n] # "PLAYING"
      <4>1. slot[n] # "OUT" /\ slot[n] # "PLAYING"
        BY <3>2, <2>1, <1>0, <1>1 DEF Freed
      <4>2. log'[n] = log[n]
        BY <4>1, <1>0 DEF SlotsLeft, MayPump, ClientConnected
      <4>3. Len(log[n]) <= start + MaxLag + 1
        BY <4>1 DEF ReachInv, Reach
      <4> QED BY <4>2, <4>3, <1>2, <1>3, Limits
    <3> QED BY <3>1, <3>2
  <2> QED BY <2>1, <1>1, <1>2 DEF Reach, Nodes
<1>8. Behind'
  BY <1>0, <1>1, <1>2, <1>6 DEF Behind, ConnectedPlayers, Connected, ClientConnected, Nodes, Players
<1> QED BY <1>4, <1>5, <1>7, <1>8 DEF ReachInv

LEMMA NextReach == ASSUME GameInv, GameInv', ReachInv, [Next]_vars PROVE ReachInv'
<1>1. CASE ServerRun
  BY <1>1, ServerRunCases, ServerRunReach
<1>2. CASE Lose \/ UNCHANGED vars
  <2>1. UNCHANGED <<slot, start, recv, log, maketic, cl_start>>
    BY <1>2 DEF Lose, vars, server, window, client
  <2>2. SlotsLeft(slot')
    BY <2>1, SlotsSame
  <2> QED BY <2>1, <2>2, ReachSameClients
<1>3. ASSUME NEW n \in Nodes, Client(n) PROVE ReachInv'
  <2>1. CASE \/ NET_CL_ParseGameStart(n)
             \/ \E k \in net : NET_CL_ParseGameData(n, k) \/ NET_CL_ParseResendRequest(n, k)
    <3>1. UNCHANGED <<slot, start, recv, log, maketic, cl_start>>
      BY <2>1 DEF NET_CL_ParseGameStart, NET_CL_ParseGameData,
                  NET_CL_ParseResendRequest, Learn, ClientActs, server, window
    <3>2. SlotsLeft(slot')
      BY <3>1, SlotsSame
    <3> QED BY <3>1, <3>2, ReachSameClients
  <2>2. CASE NET_CL_SendTiccmd(n)
    BY <2>2, SendReach
  <2>3. CASE \E expired, due : NET_CL_Run(n, expired, due)
    BY <2>3, ClientRunReach
  <2> QED BY <1>3, <2>1, <2>2, <2>3 DEF Client
<1>4. ASSUME NEW n \in Nodes, Packet(n) PROVE ReachInv'
  <2>1. CASE \E k \in net : NET_SV_ParseGameDataACK(n, k) \/ NET_SV_ParseResendRequest(n, k)
    <3>1. UNCHANGED <<slot, start, recv, log, maketic, cl_start>>
      BY <2>1 DEF NET_SV_ParseGameDataACK, NET_SV_ParseResendRequest,
                  ServerActs, window, client
    <3>2. SlotsLeft(slot')
      BY <3>1, SlotsSame
    <3> QED BY <3>1, <3>2, ReachSameClients
  <2>2. CASE \E k \in net : NET_SV_ParseGameData(n, k)
    <3>1. PICK k \in net : NET_SV_ParseGameData(n, k)
      BY <2>2
    <3>2. /\ UNCHANGED <<slot, start, log, maketic, cl_start>>
          /\ \E new : recv' = [recv EXCEPT ![n] = @ \cup new]
      BY <3>1 DEF NET_SV_ParseGameData, Collect, ServerActs, client
    <3>3. \A p \in Players : recv[p] \subseteq recv'[p]
      BY <3>2 DEF GameInv, GameTypes
    <3>4. SlotsLeft(slot')
      BY <3>2, SlotsSame
    <3> QED BY <3>2, <3>3, <3>4, ReachSameClients
  <2>3. CASE ReceiveDisconnect(n)
    <3>1. UNCHANGED <<start, recv, log, maketic, cl_start>> /\ SlotsLeft(slot')
      BY <2>3 DEF ReceiveDisconnect, ClientConnected, SlotsLeft, GameInv, GameTypes, window, client
    <3> QED BY <3>1, ReachSameClients
  <2> QED BY <1>4, <2>1, <2>2, <2>3 DEF Packet
<1> QED BY <1>1, <1>2, <1>3, <1>4 DEF Next

-----------------------------------------------------------------------------
(* The tics of a window that begins where one of the ends can be.          *)
LEMMA WindowKnown ==
  ASSUME NEW w \in Nat, w <= MaxTic + SoloLead + 1, NEW t \in Window(w)
  PROVE  t \in AllTics
BY TicBounds DEF Window

(* Each packet repeats the last tics, from the first one on at most.       *)
LEMMA RepeatedFrom ==
  ASSUME NEW l \in Nat
  PROVE  Max({0, l - extratics}) \in Nat /\ Max({0, l - extratics}) <= l
<1>1. PICK a \in Int : a = l - extratics /\ a <= l
  BY TicBounds
<1>2. Max({0, a}) \in {0, a} /\ 0 <= Max({0, a})
  BY MaxOfTwo
<1> QED BY <1>1, <1>2

LEMMA InvTypes == ASSUME GameInv, TypeInv PROVE TypeOK
<1>1. \A n \in Nodes : /\ acked[n] \in Nat /\ acked[n] <= cl_start[n] /\ cl_start[n] \in Nat
                       /\ cl_start[n] <= Len(log[n]) /\ Len(log[n]) \in Nat
                       /\ Len(log[n]) <= MaxTic + SoloLead + 1
  BY DEF GameInv, GameTypes, Acknowledged, TypeInv, Ending
<1>2. \A n \in Nodes : acked[n] \in AllTics /\ cl_start[n] \in AllTics
  BY <1>1, TicBounds
<1>3. start \in AllTics
  BY TicBounds DEF GameInv, GameTypes, TypeInv, Ending
<1>4. acked \in [Nodes -> AllTics] /\ cl_start \in [Nodes -> AllTics]
  BY <1>2 DEF GameInv, GameTypes
<1>5. /\ slot \in [Nodes -> {"PLAYING", "CLOSING", "OUT"}]
      /\ log \in [Nodes -> Seq(SUBSET Players)]
      /\ \A n \in Nodes : cl_recv[n] \subseteq Window(cl_start[n])
  BY DEF GameInv, GameTypes
<1> QED BY <1>3, <1>4, <1>5 DEF TypeOK, TypeInv, Ending, Wanted, Known, Shaped

LEMMA InitTypes == Init => TypeInv
<1> SUFFICES ASSUME Init PROVE TypeInv
  OBVIOUS
<1>1. Ending
  BY TicBounds, NodesAreNat DEF Init, Ending
<1>2. Wanted
  BY NodesAreNat DEF Init, Wanted
<1> QED BY <1>1, <1>2 DEF Init, TypeInv
-----------------------------------------------------------------------------
(* What is asked for when a packet arrives is before it, in the window,    *)
(* and not there.                                                          *)
LEMMA MissedFacts ==
  ASSUME NEW w \in Nat, NEW first \in Nat, NEW here, NEW wanted
  PROVE  MissedBefore(w, here, wanted, first) \subseteq Window(w) \ here
<1> DEFINE b == w + BACKUPTICS - 1
           end == Min({first, b})
<1>1. b \in Nat
  BY TicBounds
<1>2. end \in Nat /\ end <= b
  <2> HIDE DEF b
  <2> DEFINE S == {first, b}
  <2>1. S \subseteq Nat /\ S # {} /\ b \in S
    BY <1>1
  <2> HIDE DEF S
  <2>2. Min(S) \in S /\ \A y \in S : Min(S) <= y
    BY <2>1, MinNat
  <2> QED BY <2>1, <2>2 DEF S
<1>3. ASSUME NEW t \in MissedBefore(w, here, wanted, first)
      PROVE  t \in Window(w) \ here
  <2>1. t \in w..(end - 1) /\ (t..(end - 1)) \cap (here \cup wanted) = {}
    BY <1>3 DEF MissedBefore
  <2> HIDE DEF end
  <2>2. t \in t..(end - 1)
    BY <2>1, <1>2
  <2>3. t \in Window(w)
    BY <2>1, <1>2, TicBounds DEF Window
  <2> QED BY <2>1, <2>2, <2>3
<1> QED BY <1>3

LEMMA RequestsKnown ==
  ASSUME NEW to \in {"server", "client"}, NEW n \in Nodes, NEW S, S \subseteq AllTics
  PROVE  RequestFor(to, n, S) \subseteq Known /\ RequestsFor(to, n, S) \subseteq Known
<1>1. \A a \in AllTics, b \in AllTics : a <= b => ResendRequest(to, n, a, b) \in Known
  BY DEF ResendRequest, Known, Shaped, Packets
<1>2. S \subseteq Nat
  BY TicBounds
<1>3. PICK top \in Nat : \A t \in S : t <= top
  BY TicBounds
<1>4. ASSUME S # {}
      PROVE  /\ Min(S) \in S /\ Max(S) \in S /\ Min(S) <= Max(S)
             /\ \A y \in S : y <= Max(S)
  BY <1>2, <1>3, <1>4, MinNat, MaxNat
<1>5. RequestFor(to, n, S) \subseteq Known
  BY <1>1, <1>4 DEF RequestFor
<1>6. ASSUME NEW t \in S
      PROVE  /\ Min({u \in S : u >= t /\ u + 1 \notin S}) \in S
             /\ t <= Min({u \in S : u >= t /\ u + 1 \notin S})
  <2> DEFINE R == {u \in S : u >= t /\ u + 1 \notin S}
  <2>1. PICK m \in S : \A y \in S : y <= m
    BY <1>4
  <2>2. m \in R
    BY <2>1, <1>2
  <2>3. R \subseteq Nat
    BY <1>2
  <2>4. Min(R) \in R
    <3> HIDE DEF R
    <3> QED BY <2>2, <2>3, MinNat
  <2> QED BY <2>4
<1>7. RequestsFor(to, n, S) \subseteq Known
  BY <1>1, <1>6 DEF RequestsFor
<1> QED BY <1>5, <1>7

-----------------------------------------------------------------------------
(* The steps of a client.                                                  *)

LEMMA EndingStill ==
  ASSUME Ending, UNCHANGED <<maketic, start, log>>
  PROVE  Ending'
BY DEF Ending, Nodes, Players

LEMMA WantedStill ==
  ASSUME Wanted, UNCHANGED <<start, recv, asked, cl_start, cl_recv, cl_asked>>
  PROVE  Wanted'
BY DEF Wanted, Window

LEMMA KnownLater ==
  ASSUME net \subseteq Known, NEW new, new \subseteq Known, net' \subseteq net \cup new
  PROVE  net' \subseteq Known
OBVIOUS

LEMMA StartTypes ==
  ASSUME GameInv, TypeInv, NEW n \in Nodes, NET_CL_ParseGameStart(n)
  PROVE  TypeInv'
<1>1. UNCHANGED <<slot, start, recv, asked, log, maketic, cl_start, need_ack, net>>
  BY DEF NET_CL_ParseGameStart, ClientActs, server, window
<1>2. Ending'
  BY <1>1, EndingStill DEF TypeInv
<1>3. begun' \in [Nodes -> BOOLEAN]
  BY DEF NET_CL_ParseGameStart, TypeInv
<1>4. /\ cl_asked' = [cl_asked EXCEPT ![n] = {}] /\ cl_recv' = [cl_recv EXCEPT ![n] = {}]
      /\ cl_recv \in [Nodes -> SUBSET Nat] /\ cl_asked \in [Nodes -> SUBSET Nat]
  BY DEF NET_CL_ParseGameStart, TypeInv, Wanted, GameInv, GameTypes
<1>5. /\ cl_asked' \in [Nodes -> SUBSET Nat]
      /\ \A m \in Nodes : cl_asked'[m] \subseteq Window(cl_start[m]) \ cl_recv'[m]
  BY <1>4 DEF TypeInv, Wanted
<1>6. Wanted'
  BY <1>1, <1>5 DEF TypeInv, Wanted, Window
<1> QED BY <1>1, <1>2, <1>3, <1>6 DEF TypeInv, Known, Shaped, Packets

LEMMA SendTypes ==
  ASSUME GameInv, TypeInv, NEW n \in Nodes, NET_CL_SendTiccmd(n)
  PROVE  TypeInv'
<1> DEFINE first == Max({0, maketic[n] - extratics})
           k == Commands(n, cl_start[n], first, maketic[n])
           new == {k}
<1>1. /\ UNCHANGED <<slot, start, recv, asked, log, begun, cl_start, cl_recv, cl_asked>>
      /\ n \in Players /\ maketic[n] < MaxTic
      /\ maketic' = [maketic EXCEPT ![n] = @ + 1]
      /\ need_ack' = [need_ack EXCEPT ![n] = FALSE]
      /\ Carry(net, new)
  BY DEF NET_CL_SendTiccmd, ClientActs, server, window, Send
<1>2. maketic \in [Nodes -> 0..MaxTic] /\ maketic[n] \in Nat /\ maketic[n] + 1 \in 0..MaxTic
  BY <1>1, TicBounds DEF TypeInv, Ending
<1>3. Ending'
  <2>1. maketic' \in [Nodes -> 0..MaxTic] /\ \A m \in Nodes \ Players : maketic'[m] = maketic[m]
    BY <1>1, <1>2
  <2> QED BY <2>1, <1>1 DEF TypeInv, Ending, Nodes, Players
<1>4. Wanted'
  BY <1>1, WantedStill DEF TypeInv
<1>5. first \in AllTics /\ maketic[n] \in AllTics /\ first <= maketic[n]
  <2>1. first \in Nat /\ first <= maketic[n]
    BY <1>2, RepeatedFrom
  <2> HIDE DEF first
  <2> QED BY <1>2, <2>1, TicBounds
<1>6. cl_start[n] \in AllTics
  BY InvTypes DEF TypeOK
<1> HIDE DEF first
<1>7. k \in Known
  BY <1>1, <1>5, <1>6 DEF Commands, Known, Shaped
<1>8. net' \subseteq Known
  <2>1. new \subseteq Known
    BY <1>7
  <2> HIDE DEF new
  <2>2. net' \subseteq net \cup new
    BY <1>1, CarryKeeps
  <2> QED BY <2>1, <2>2, KnownLater DEF TypeInv
<1>9. need_ack' \in [Nodes -> BOOLEAN] /\ begun' \in [Nodes -> BOOLEAN]
  BY <1>1 DEF TypeInv
<1> QED BY <1>3, <1>4, <1>8, <1>9 DEF TypeInv, Known, Shaped, Packets

LEMMA LearnTypes ==
  ASSUME GameInv, TypeInv, NEW n \in Nodes, NEW k \in net, Learns(n, k)
  PROVE  TypeInv'
<1> DEFINE taken == (k.first..k.last) \cap Window(cl_start[n])
           here == cl_recv[n] \cup taken
           missed == MissedBefore(cl_start[n], here, cl_asked[n], k.first)
           new == RequestFor("server", n, missed)
<1>1. /\ UNCHANGED <<slot, start, recv, asked, log, maketic, begun, cl_start>>
      /\ k.type = "DATA"
      /\ cl_recv' = [cl_recv EXCEPT ![n] = here]
      /\ cl_asked' = [cl_asked EXCEPT ![n] = (@ \cup missed) \ here]
      /\ need_ack' = [need_ack EXCEPT ![n] = TRUE]
      /\ Reply(k, new)
  BY DEF Learns, Learn, ClientActs, server, window, Mail
<1>2. /\ cl_start[n] \in Nat
      /\ cl_start[n] <= Len(log[n]) /\ Len(log[n]) \in Nat /\ Len(log[n]) <= MaxTic + SoloLead + 1
      /\ cl_recv \in [Nodes -> SUBSET Nat] /\ cl_asked \in [Nodes -> SUBSET Nat]
  BY DEF GameInv, GameTypes, Acknowledged, TypeInv, Ending, Wanted
<1>3. cl_start[n] <= MaxTic + SoloLead + 1
  BY <1>2, TicBounds
<1>4. missed \subseteq Window(cl_start[n]) \ here
  <2>1. k.first \in Nat
    BY <1>1, KnownTics, TicBounds DEF TypeInv
  <2> HIDE DEF here
  <2> QED BY <2>1, <1>2, MissedFacts
<1>5. new \subseteq Known
  <2>1. missed \subseteq AllTics
    BY <1>2, <1>3, <1>4, WindowKnown
  <2> HIDE DEF missed
  <2> QED BY <2>1, RequestsKnown
<1> HIDE DEF missed, new
<1>6. Ending'
  BY <1>1, EndingStill DEF TypeInv
<1>7. Wanted'
  <2>1. (cl_asked[n] \cup missed) \ here \subseteq Window(cl_start[n]) \ here
    BY <1>4 DEF TypeInv, Wanted
  <2>2. Window(cl_start[n]) \subseteq Nat
    BY <1>2, WindowIsNat
  <2> HIDE DEF here
  <2>3. cl_asked' \in [Nodes -> SUBSET Nat]
    BY <1>1, <1>2, <2>1, <2>2
  <2>4. \A m \in Nodes : cl_asked'[m] \subseteq Window(cl_start[m]) \ cl_recv'[m]
    BY <1>1, <1>2, <2>1 DEF TypeInv, Wanted
  <2> QED BY <1>1, <2>3, <2>4 DEF TypeInv, Wanted, Window
<1>8. net' \subseteq Known
  <2>1. net' \subseteq net \cup new
    BY <1>1, ReplyKeeps
  <2> QED BY <2>1, <1>5, KnownLater DEF TypeInv
<1>9. need_ack' \in [Nodes -> BOOLEAN] /\ begun' \in [Nodes -> BOOLEAN]
  BY <1>1 DEF TypeInv
<1> QED BY <1>6, <1>7, <1>8, <1>9 DEF TypeInv, Known, Shaped, Packets

(* Only players have commands to send again.                               *)
LEMMA AnswerTypes ==
  ASSUME GameInv, TypeInv, NEW n \in Nodes, NEW k \in net, NET_CL_ParseResendRequest(n, k)
  PROVE  TypeInv'
<1> DEFINE have == (k.first..k.last) \cap Queued(n)
           data == Commands(n, cl_start[n], Min(have), Max(have))
<1>1. UNCHANGED <<slot, start, recv, asked, log, begun, maketic, cl_start, cl_recv, cl_asked>>
  BY DEF NET_CL_ParseResendRequest, ClientActs, server, window
<1>2. Ending' /\ Wanted'
  BY <1>1, EndingStill, WantedStill DEF TypeInv
<1>3. maketic[n] \in Nat /\ maketic[n] <= MaxTic /\ cl_start[n] \in AllTics
  BY TicBounds, InvTypes DEF TypeOK, TypeInv, Ending
<1>4. net' \subseteq Known
  <2>1. CASE have = {}
    <3>1. Reply(k, {})
      BY <2>1 DEF NET_CL_ParseResendRequest
    <3>2. net' \subseteq net
      BY <3>1, ReplyKeeps
    <3> QED BY <3>2 DEF TypeInv
  <2>2. CASE have # {}
    <3> DEFINE new == {data}
    <3>1. Reply(k, new)
      BY <2>2 DEF NET_CL_ParseResendRequest
    <3>2. \A t \in have : t \in Nat /\ t < maketic[n] /\ t <= maketic[n]
      BY <1>3 DEF Queued
    <3>3. n \in Players
      BY <2>2, <1>3, <3>2 DEF TypeInv, Ending
    <3>4. Min(have) \in have /\ Max(have) \in have /\ Min(have) <= Max(have)
      <4> HIDE DEF have
      <4>1. have \subseteq Nat
        BY <3>2
      <4> QED BY <4>1, <1>3, <3>2, <2>2, MinNat, MaxNat
    <3>5. Min(have) \in AllTics /\ Max(have) \in AllTics /\ Min(have) <= Max(have)
      <4>1. \A t \in have : t \in AllTics
        BY <3>2, <1>3, TicBounds
      <4> QED BY <4>1, <3>4
    <3>6. new \subseteq Known
      <4> HIDE DEF have
      <4> QED BY <1>3, <3>3, <3>5 DEF Commands, Known, Shaped
    <3> HIDE DEF new
    <3>7. net' \subseteq net \cup new
      BY <3>1, ReplyKeeps
    <3> QED BY <3>6, <3>7, KnownLater DEF TypeInv
  <2> QED BY <2>1, <2>2
<1>5. need_ack' \in [Nodes -> BOOLEAN] /\ begun' \in [Nodes -> BOOLEAN]
  <2>1. need_ack' = need_ack \/ need_ack' = [need_ack EXCEPT ![n] = FALSE]
    BY DEF NET_CL_ParseResendRequest
  <2> QED BY <1>1, <2>1 DEF TypeInv
<1> QED BY <1>2, <1>4, <1>5 DEF TypeInv, Known, Shaped, Packets

LEMMA ClientRunTypes ==
  ASSUME GameInv, TypeInv, NEW n \in Nodes, NEW expired, NEW due \in BOOLEAN,
         NET_CL_Run(n, expired, due)
  PROVE  TypeInv'
<1> DEFINE next == NextGap(cl_start[n], cl_recv[n])
           acks == IF due THEN {GameDataACK(n, next)} ELSE {}
           asks == RequestsFor("server", n, expired)
           new == asks \cup acks
<1>1. /\ UNCHANGED <<slot, start, recv, asked, log, maketic, begun>>
      /\ expired \subseteq From(next, cl_asked[n])
      /\ cl_start' = [cl_start EXCEPT ![n] = next]
      /\ cl_recv' = [cl_recv EXCEPT ![n] = From(next, @)]
      /\ cl_asked' = [cl_asked EXCEPT ![n] = From(next, @)]
      /\ need_ack' = [need_ack EXCEPT ![n] = @ /\ ~due]
      /\ Carry(net, new)
  BY DEF NET_CL_Run, ClientActs, server, window, Send
<1>2. /\ cl_start[n] \in Nat /\ cl_recv[n] \subseteq Window(cl_start[n])
      /\ cl_start[n] <= Len(log[n]) /\ Len(log[n]) \in Nat /\ Len(log[n]) <= MaxTic + SoloLead + 1
      /\ \A t \in cl_recv[n] : t < Len(log[n])
      /\ cl_start \in [Nodes -> Nat]
      /\ cl_recv \in [Nodes -> SUBSET Nat] /\ cl_asked \in [Nodes -> SUBSET Nat]
      /\ cl_asked[n] \subseteq Window(cl_start[n]) \ cl_recv[n]
  BY DEF GameInv, GameTypes, Acknowledged, Held, TypeInv, Ending, Wanted
<1>3. next \in Nat /\ cl_start[n] <= next /\ next <= Len(log[n])
  BY <1>2, NextGapBounds
<1>4. next \in AllTics /\ cl_start[n] <= MaxTic + SoloLead + 1
  BY <1>2, <1>3, TicBounds
<1> HIDE DEF next
<1>5. From(next, cl_asked[n]) \subseteq Window(next) \ From(next, cl_recv[n])
  BY <1>2, <1>3, TicBounds DEF From, Window
<1>6. asks \subseteq Known
  <2>1. expired \subseteq AllTics
    BY <1>1, <1>2, <1>4, WindowKnown DEF From
  <2> QED BY <2>1, RequestsKnown
<1>7. acks \subseteq Known
  BY <1>4 DEF GameDataACK, Known, Shaped
<1>8. net' \subseteq Known
  <2> HIDE DEF asks, acks
  <2>1. new \subseteq Known
    BY <1>6, <1>7
  <2> HIDE DEF new
  <2>2. net' \subseteq net \cup new
    BY <1>1, CarryKeeps
  <2> QED BY <2>1, <2>2, KnownLater DEF TypeInv
<1>9. Ending'
  BY <1>1, EndingStill DEF TypeInv
<1>10. Wanted'
  <2>1. From(next, cl_asked[n]) \subseteq cl_asked[n]
    BY DEF From
  <2>2. cl_asked' \in [Nodes -> SUBSET Nat]
    BY <2>1, <1>1, <1>2
  <2>3. \A m \in Nodes : cl_asked'[m] \subseteq Window(cl_start'[m]) \ cl_recv'[m]
    BY <1>1, <1>2, <1>5 DEF TypeInv, Wanted
  <2> QED BY <1>1, <2>2, <2>3 DEF TypeInv, Wanted, Window
<1>11. need_ack' \in [Nodes -> BOOLEAN] /\ begun' \in [Nodes -> BOOLEAN]
  BY <1>1 DEF TypeInv
<1> QED BY <1>8, <1>9, <1>10, <1>11 DEF TypeInv, Known, Shaped, Packets

-----------------------------------------------------------------------------
(* The steps of the server.                                                *)

LEMMA CollectTypes ==
  ASSUME GameInv, TypeInv, NEW n \in Nodes, NEW k \in net, Collects(n, k)
  PROVE  TypeInv'
<1> DEFINE here == recv[n] \cup InWindow(k)
           missed == MissedBefore(start, here, asked[n], k.first)
           asks == RequestFor("client", n, missed)
           new == ToClient(n, asks)
<1>1. /\ UNCHANGED <<slot, start, log, maketic, begun, need_ack, cl_start, cl_recv, cl_asked>>
      /\ k.type = "DATA" /\ k.to = "server" /\ k.node = n
      /\ recv' = [recv EXCEPT ![n] = here]
      /\ asked' = [asked EXCEPT ![n] = (@ \cup missed) \ here]
      /\ Reply(k, new)
  BY DEF Collects, Collect, ServerActs, client, Mail
<1>2. n \in Players /\ k.first \in Nat
  BY <1>1, KnownTics, TicBounds DEF TypeInv
<1>3. /\ start \in Nat /\ start <= MaxTic
      /\ recv \in [Players -> SUBSET Nat] /\ asked \in [Players -> SUBSET Nat]
  BY DEF GameInv, GameTypes, TypeInv, Ending, Wanted
<1>4. missed \subseteq Window(start) \ here
  <2> HIDE DEF here
  <2> QED BY <1>2, <1>3, MissedFacts
<1>5. start <= MaxTic + SoloLead + 1
  BY <1>3, TicBounds
<1>6. asks \subseteq Known
  <2>1. missed \subseteq AllTics
    BY <1>3, <1>4, <1>5, WindowKnown
  <2> HIDE DEF missed
  <2> QED BY <2>1, RequestsKnown
<1> HIDE DEF missed
<1>7. new \subseteq Known
  BY <1>6 DEF ToClient
<1>8. net' \subseteq Known
  <2> HIDE DEF new
  <2>1. net' \subseteq net \cup new
    BY <1>1, ReplyKeeps
  <2> QED BY <2>1, <1>7, KnownLater DEF TypeInv
<1>9. Ending'
  BY <1>1, EndingStill DEF TypeInv
<1>10. Wanted'
  <2>1. here \subseteq Window(start)
    BY <1>2 DEF InWindow, TypeInv, Wanted
  <2>2. (asked[n] \cup missed) \ here \subseteq Window(start) \ here
    BY <1>2, <1>4 DEF TypeInv, Wanted
  <2>3. Window(start) \subseteq Nat
    BY <1>3, WindowIsNat
  <2> HIDE DEF here
  <2>4. asked' \in [Players -> SUBSET Nat]
    BY <1>1, <1>2, <1>3, <2>2, <2>3
  <2>5. \A p \in Players : /\ recv'[p] \subseteq Window(start)
                           /\ asked'[p] \subseteq Window(start) \ recv'[p]
    BY <1>1, <1>2, <1>3, <2>1, <2>2 DEF TypeInv, Wanted
  <2> QED BY <1>1, <2>4, <2>5 DEF TypeInv, Wanted, Window
<1> QED BY <1>1, <1>8, <1>9, <1>10 DEF TypeInv, Known, Shaped, Packets

LEMMA AckedTypes ==
  ASSUME GameInv, TypeInv, NEW n \in Nodes, NEW k \in net, Acks(n, k)
  PROVE  TypeInv'
<1>1. /\ UNCHANGED <<slot, start, recv, asked, log>>
      /\ UNCHANGED <<maketic, begun, need_ack, cl_start, cl_recv, cl_asked>>
      /\ Reply(k, {})
  BY DEF Acks, ServerActs, client, window
<1>2. net' \subseteq net
  BY <1>1, ReplyKeeps
<1>3. Ending' /\ Wanted'
  BY <1>1, EndingStill, WantedStill DEF TypeInv
<1> QED BY <1>1, <1>2, <1>3 DEF TypeInv, Known, Shaped, Packets

LEMMA ResendTypes ==
  ASSUME GameInv, TypeInv, NEW n \in Nodes, NEW k \in net, NET_SV_ParseResendRequest(n, k)
  PROVE  TypeInv'
<1> DEFINE new == IF k.first..k.last \subseteq SendQueue(n)
                    THEN ToClient(n, {Tics(n, k.first, k.last)}) ELSE {}
<1>1. /\ UNCHANGED <<slot, start, recv, asked, log>>
      /\ UNCHANGED <<maketic, begun, need_ack, cl_start, cl_recv, cl_asked>>
      /\ Reply(k, new) /\ k.type = "RESEND"
  BY DEF NET_SV_ParseResendRequest, ServerActs, client, window, Mail
<1>2. k.first \in AllTics /\ k.last \in AllTics /\ k.first <= k.last
  BY <1>1, KnownTics DEF TypeInv
<1>3. new \subseteq Known
  BY <1>2 DEF ToClient, Tics, Known, Shaped, Packets
<1> HIDE DEF new
<1>4. net' \subseteq net \cup new
  BY <1>1, ReplyKeeps
<1>5. net' \subseteq Known
  BY <1>3, <1>4, KnownLater DEF TypeInv
<1>6. Ending' /\ Wanted'
  BY <1>1, EndingStill, WantedStill DEF TypeInv
<1> QED BY <1>1, <1>5, <1>6 DEF TypeInv, Known, Shaped, Packets

LEMMA RestTypes ==
  ASSUME TypeInv, Lose \/ UNCHANGED vars \/ \E n \in Nodes : ReceiveDisconnect(n)
  PROVE  TypeInv'
<1>1. /\ UNCHANGED <<start, recv, asked, log>>
      /\ UNCHANGED <<maketic, begun, need_ack, cl_start, cl_recv, cl_asked>>
      /\ net' \subseteq net
  BY DEF Lose, ReceiveDisconnect, vars, server, client, window
<1>2. Ending' /\ Wanted'
  BY <1>1, EndingStill, WantedStill DEF TypeInv
<1> QED BY <1>1, <1>2 DEF TypeInv, Known, Shaped, Packets

(* NET_SV_AdvanceWindow: over commands that a player has made.             *)
LEMMA AdvancedEnds ==
  ASSUME GameInv, TypeInv, NEW sl
  PROVE  Advanced(sl) <= MaxTic
<1> DEFINE x == Advanced(sl)
<1>1. start \in Nat /\ start <= MaxTic
  BY DEF GameInv, GameTypes, TypeInv, Ending
<1>2. CASE x = start
  BY <1>1, <1>2
<1>3. CASE x # start
  <2>1. /\ ConnectedPlayers(sl) # {} /\ x \in Nat /\ start <= x
        /\ \A t \in start..(x - 1) : \A p \in ConnectedPlayers(sl) : t \in recv[p]
    BY <1>3, AdvancedStops
  <2>2. PICK p \in ConnectedPlayers(sl) : p \in Players
    BY <2>1 DEF ConnectedPlayers
  <2> HIDE DEF x
  <2>3. x - 1 \in recv[p]
    BY <1>1, <1>3, <2>1, <2>2
  <2>4. x - 1 < maketic[p] /\ maketic[p] \in 0..MaxTic
    BY <2>2, <2>3, NodesAreNat DEF GameInv, Held, TypeInv, Ending
  <2> QED BY <2>1, <2>4, TicBounds DEF x
<1> QED BY <1>2, <1>3

(* NET_SV_PumpSendQueue: with commands of the others, or few without.      *)
LEMMA PumpedEnds ==
  ASSUME GameInv, TypeInv, NEW n \in Nodes, NEW sl, MayPump(sl, n)
  PROVE  Len(log[n]) <= MaxTic + SoloLead /\ Len(log[n]) < start + BACKUPTICS
<1> DEFINE others == ConnectedPlayers(sl) \ {n}
<1>1. start \in Nat /\ start <= MaxTic /\ Len(log[n]) \in Nat
  BY DEF GameInv, GameTypes, TypeInv, Ending
<1>2. ASSUME others = {} PROVE Len(log[n]) <= MaxTic + SoloLead
  <2>1. Len(log[n]) <= start + SoloLead
    BY <1>2 DEF MayPump, IsComplete
  <2> QED BY <2>1, <1>1, TicBounds
<1>3. ASSUME others # {} PROVE Len(log[n]) <= MaxTic + SoloLead
  <2>1. PICK p \in others : p \in Players
    BY <1>3 DEF ConnectedPlayers
  <2>2. Len(log[n]) \in recv[p]
    BY <1>3, <2>1 DEF MayPump, IsComplete
  <2>3. Len(log[n]) < maketic[p] /\ maketic[p] \in 0..MaxTic
    BY <2>1, <2>2, NodesAreNat DEF GameInv, Held, TypeInv, Ending
  <2> QED BY <2>3, <1>1, TicBounds
<1>4. Len(log[n]) < start + BACKUPTICS
  BY DEF MayPump, NotFarAhead
<1> QED BY <1>2, <1>3, <1>4

LEMMA DeadlockKnown ==
  ASSUME GameInv, TypeInv, NEW p
  PROVE  DeadlockTics(p) \subseteq AllTics
<1> DEFINE free == {i \in 0..(BACKUPTICS - 1) : ~Active(p * NET_MAXPLAYERS + i)}
<1>1. start \in Nat /\ start <= MaxTic
  BY DEF GameInv, GameTypes, TypeInv, Ending
<1>2. CASE free = {}
  BY <1>2 DEF DeadlockTics
<1>3. CASE free # {}
  <2>1. free \subseteq Nat /\ \A i \in free : i <= BACKUPTICS - 1
    BY TicBounds
  <2>2. DeadlockTics(p) = (start + Min(free))..(start + Min(free) + ResendSpan)
    BY <1>3 DEF DeadlockTics
  <2> HIDE DEF free
  <2>3. Min(free) \in free
    BY <2>1, <1>3, MinNat
  <2>4. PICK i \in Nat : i = Min(free) /\ i <= BACKUPTICS - 1
    BY <2>1, <2>3
  <2>5. ASSUME NEW t \in DeadlockTics(p) PROVE t \in AllTics
    <3>1. t \in (start + i)..(start + i + ResendSpan)
      BY <2>2, <2>4
    <3> QED BY <3>1, <2>4, <1>1, TicBounds
  <2> QED BY <2>5
<1> QED BY <1>2, <1>3

LEMMA ServerRunTypes ==
  ASSUME GameInv, TypeInv, NEW gone, NEW late, late \subseteq Nodes,
         NEW expired, NET_SV_Run(gone, late, expired)
  PROVE  TypeInv'
<1> DEFINE at(n) == IF \E g \in gone : g <= n THEN slot' ELSE slot
           pumped == {n \in Nodes : Len(log'[n]) > Len(log[n])}
           checked == {p \in late : ClientConnected(at(p), p)}
           renewed(p) == {t \in From(start', asked[p]) : <<p, t>> \in expired}
           sent == {Tics(n, Max({0, Len(log[n]) - extratics}), Len(log[n])) : n \in pumped}
           checks == UNION {RequestFor("client", p, DeadlockTics(p)) : p \in checked}
           repeats == UNION {RequestsFor("client", p, renewed(p)) :
                               p \in ConnectedPlayers(slot')}
           new == sent \cup checks \cup repeats
           kept == {k \in net : slot'[k.node] # "OUT"}
<1>1. /\ start' = Advanced(slot') /\ SlotsLeft(slot')
      /\ recv' = [p \in Players |-> From(start', recv[p])]
      /\ \A n \in Nodes :
           \/ log'[n] = log[n]
           \/ /\ log'[n] = Append(log[n], NextTic(n))
              /\ \E sl : MayPump(sl, n)
  BY ServerRunStep
<1>2. /\ asked' = [p \in Players |-> From(start', asked[p] \cup
            IF p \in checked THEN (DeadlockTics(p) \cap Window(start)) \ recv[p] ELSE {})]
      /\ UNCHANGED <<maketic, begun, need_ack, cl_start, cl_recv, cl_asked>>
  BY DEF NET_SV_Run, client
<1>3. Carry(kept, new)
  BY DEF NET_SV_Run
<1>4. /\ start \in Nat /\ start <= MaxTic
      /\ recv \in [Players -> SUBSET Nat] /\ asked \in [Players -> SUBSET Nat]
      /\ \A n \in Nodes : /\ log[n] \in Seq(SUBSET Players) /\ Len(log[n]) \in Nat
                          /\ Len(log[n]) <= MaxTic + SoloLead + 1
                          /\ Len(log[n]) <= start + BACKUPTICS
  BY DEF GameInv, GameTypes, TypeInv, Ending, Wanted
<1>5. start' \in Nat /\ start <= start' /\ start' <= MaxTic
  <2>1. PICK sl : sl = slot'
    OBVIOUS
  <2>2. Advanced(sl) \in Nat /\ start <= Advanced(sl) /\ Advanced(sl) <= MaxTic
    BY <2>1, <1>1, AdvancedBounds, AdvancedEnds
  <2> QED BY <2>1, <2>2, <1>1
<1>6. ASSUME NEW n \in Nodes
      PROVE  Len(log'[n]) <= MaxTic + SoloLead + 1 /\ Len(log'[n]) <= start' + BACKUPTICS
  <2>1. CASE log'[n] = log[n]
    BY <2>1, <1>4, <1>5, TicBounds
  <2>2. CASE log'[n] # log[n]
    <3>1. /\ log'[n] = Append(log[n], NextTic(n)) /\ Len(log[n]) <= MaxTic + SoloLead
          /\ Len(log[n]) < start + BACKUPTICS
      BY <2>2, <1>1, PumpedEnds
    <3>2. log[n] \in Seq(SUBSET Players) /\ NextTic(n) \in SUBSET Players
      BY <1>4 DEF NextTic
    <3>3. Len(log'[n]) = Len(log[n]) + 1
      BY <3>1, <3>2
    <3> QED BY <3>1, <3>3, <1>4, <1>5, TicBounds
  <2> QED BY <2>1, <2>2
<1>7. Ending'
  BY <1>2, <1>5, <1>6 DEF TypeInv, Ending, Nodes, Players
<1>8. Wanted'
  <2> HIDE DEF checked
  <2>1. ASSUME NEW p \in Players
        PROVE  /\ recv'[p] \subseteq Window(start')
               /\ asked'[p] \subseteq Window(start') \ recv'[p]
               /\ asked'[p] \subseteq Nat
    <3> DEFINE add == IF p \in checked THEN (DeadlockTics(p) \cap Window(start)) \ recv[p] ELSE {}
    <3>1. recv'[p] = From(start', recv[p]) /\ asked'[p] = From(start', asked[p] \cup add)
      BY <1>1, <1>2
    <3>2. add \subseteq Window(start) \ recv[p]
      OBVIOUS
    <3> HIDE DEF add
    <3>3. recv[p] \subseteq Window(start) /\ asked[p] \cup add \subseteq Window(start) \ recv[p]
      BY <3>2 DEF TypeInv, Wanted
    <3>4. \A t \in Window(start) : t \in Nat /\ (t >= start' => t \in Window(start'))
      BY <1>4, <1>5, WindowLater
    <3> QED BY <3>1, <3>3, <3>4 DEF From
  <2>2. asked' \in [Players -> SUBSET Nat]
    BY <2>1, <1>2
  <2> QED BY <2>1, <2>2, <1>2 DEF TypeInv, Wanted, Window, Players, Nodes
<1>9. sent \subseteq Known
  <2>1. ASSUME NEW n \in Nodes
        PROVE  Tics(n, Max({0, Len(log[n]) - extratics}), Len(log[n])) \in Known
    <3>1. PICK l \in Nat : l = Len(log[n]) /\ l <= MaxTic + SoloLead + 1
      BY <1>4
    <3>2. Max({0, l - extratics}) \in Nat /\ Max({0, l - extratics}) <= l
      BY RepeatedFrom
    <3>3. PICK f \in Nat : f = Max({0, l - extratics}) /\ f <= l
      BY <3>2
    <3>4. f \in AllTics /\ l \in AllTics
      BY <3>1, <3>3, TicBounds
    <3> QED BY <3>1, <3>3, <3>4 DEF Tics, Known, Shaped, Packets
  <2> QED BY <2>1
<1>10. checks \subseteq Known
  <2>1. checked \subseteq Nodes
    OBVIOUS
  <2> HIDE DEF checked
  <2>2. \A p \in Nodes : RequestFor("client", p, DeadlockTics(p)) \subseteq Known
    BY DeadlockKnown, RequestsKnown
  <2> QED BY <2>1, <2>2
<1>11. repeats \subseteq Known
  <2>1. ASSUME NEW p \in Players PROVE renewed(p) \subseteq AllTics
    <3>1. start <= MaxTic + SoloLead + 1
      BY <1>4, TicBounds
    <3>2. \A t \in Window(start) : t \in AllTics
      BY <3>1, <1>4, WindowKnown
    <3>3. renewed(p) \subseteq asked[p] /\ asked[p] \subseteq Window(start)
      BY DEF From, TypeInv, Wanted
    <3> QED BY <3>2, <3>3
  <2>2. ASSUME NEW p \in ConnectedPlayers(slot')
        PROVE  RequestsFor("client", p, renewed(p)) \subseteq Known
    <3>1. p \in Players /\ p \in Nodes
      BY <2>2 DEF ConnectedPlayers, Connected
    <3>2. renewed(p) \subseteq AllTics
      BY <2>1, <3>1
    <3> HIDE DEF renewed
    <3> QED BY <3>1, <3>2, RequestsKnown
  <2> HIDE DEF renewed
  <2> QED BY <2>2
<1>12. net' \subseteq Known
  <2> HIDE DEF sent, checks, repeats
  <2>1. new \subseteq Known
    BY <1>9, <1>10, <1>11
  <2>2. kept \subseteq net
    OBVIOUS
  <2> HIDE DEF new, kept
  <2>3. net' \subseteq kept \cup new
    BY <1>3, CarryKeeps
  <2> QED BY <2>1, <2>2, <2>3 DEF TypeInv
<1> QED BY <1>2, <1>7, <1>8, <1>12 DEF TypeInv, Known, Shaped, Packets

LEMMA NextTypes == ASSUME GameInv, ReachInv, TypeInv, [Next]_vars PROVE TypeInv'
<1>1. CASE ServerRun
  BY <1>1, ServerRunCases, ServerRunTypes
<1>2. CASE Lose \/ UNCHANGED vars
  BY <1>2, RestTypes
<1>3. ASSUME NEW n \in Nodes, Client(n) PROVE TypeInv'
  <2>1. CASE NET_CL_ParseGameStart(n)
    BY <2>1, StartTypes
  <2>2. CASE NET_CL_SendTiccmd(n)
    BY <2>2, SendTypes
  <2>3. ASSUME NEW k \in net, NET_CL_ParseGameData(n, k) PROVE TypeInv'
    BY <2>3, LearnTypes, ReadsWhole
  <2>4. ASSUME NEW k \in net, NET_CL_ParseResendRequest(n, k) PROVE TypeInv'
    BY <2>4, AnswerTypes
  <2>5. ASSUME NEW expired, NEW due \in BOOLEAN, NET_CL_Run(n, expired, due) PROVE TypeInv'
    BY <2>5, ClientRunTypes
  <2> QED BY <1>3, <2>1, <2>2, <2>3, <2>4, <2>5 DEF Client
<1>4. ASSUME NEW n \in Nodes, Packet(n) PROVE TypeInv'
  <2>1. ASSUME NEW k \in net, NET_SV_ParseGameData(n, k) PROVE TypeInv'
    BY <2>1, CollectTypes, ReadsWhole
  <2>2. ASSUME NEW k \in net, NET_SV_ParseGameDataACK(n, k) PROVE TypeInv'
    BY <2>2, AckedTypes, ReadsWhole
  <2>3. ASSUME NEW k \in net, NET_SV_ParseResendRequest(n, k) PROVE TypeInv'
    BY <2>3, ResendTypes
  <2>4. CASE ReceiveDisconnect(n)
    BY <2>4, RestTypes
  <2> QED BY <1>4, <2>1, <2>2, <2>3, <2>4 DEF Packet
<1> QED BY <1>1, <1>2, <1>3, <1>4 DEF Next

(* The three invariants hold together: none of them does without the       *)
(* others, since the bytes of a packet are completed to what they stand    *)
(* for only within reach.                                                  *)
LEMMA InvHolds == Spec => [](GameInv /\ ReachInv /\ TypeInv)
<1>1. Init => GameInv /\ ReachInv /\ TypeInv
  BY InitGameInv, InitReach, InitTypes
<1>2. GameInv /\ ReachInv /\ TypeInv /\ [Next]_vars => (GameInv /\ ReachInv /\ TypeInv)'
  <2> SUFFICES ASSUME GameInv, ReachInv, TypeInv, [Next]_vars
               PROVE  (GameInv /\ ReachInv /\ TypeInv)'
    OBVIOUS
  <2>1. GameInv'
    BY NextGameInv
  <2>2. ReachInv'
    BY <2>1, NextReach
  <2>3. TypeInv'
    BY NextTypes
  <2> QED BY <2>1, <2>2, <2>3
<1> QED BY <1>1, <1>2, PTL DEF Spec

(* What comes of a packet's bytes within the network's packet lifetime is  *)
(* what its sender meant, whoever sent it, whatever was lost or repeated,  *)
(* and also if the sender has hung up since.                               *)
ReadAsMeant ==
  \A k \in net :
    /\ /\ k.to = "server" /\ k.type = "DATA"
       /\ slot[k.node] # "OUT" /\ InTime(start, {k.ack, k.first})
       => ReadTics(ReadAck(k, start), start) = k
    /\ /\ k.to = "server" /\ k.type = "ACK"
       /\ slot[k.node] # "OUT" /\ InTime(start, {k.ack})
       => ReadAck(k, start) = k
    /\ /\ k.to = "client" /\ k.type = "DATA"
       /\ ClientConnected(slot, k.node) /\ InTime(cl_start[k.node], {k.first})
       => ReadTics(k, cl_start[k.node]) = k

THEOREM NumbersExpand == Spec => []ReadAsMeant
<1>1. GameInv /\ ReachInv /\ TypeInv => ReadAsMeant
  BY ReadByServer, ReadByClient DEF ReadAsMeant
<1> QED BY <1>1, InvHolds, PTL

(* The windows hold tics of their own range, a tic that has arrived is not *)
(* asked for, and all tic numbers, those in flight included, end where the *)
(* commands do: what players make, the tics a lone one is allowed, and     *)
(* what the two ends ask for beyond.                                       *)
THEOREM GameTypeCorrect == Spec => []TypeOK
<1>1. GameInv /\ TypeInv => TypeOK
  BY InvTypes
<1> QED BY <1>1, InvHolds, PTL
(* NET_SV_AdvanceWindow throws away commands only of tics that every node  *)
(* there is has run, and no acknowledgement is ahead of what was sent.     *)
THEOREM DiscardsInTime == Spec => []NothingDiscardedEarly
<1>1. GameInv => NothingDiscardedEarly
  BY DEF GameInv, Acknowledged, NothingDiscardedEarly, Connected, ClientConnected
<1> QED BY <1>1, InvHolds, PTL

(* The tic numbers that are in use at a time are this close together, for  *)
(* any limits, as long as a lone player is allowed less than the others.   *)
THEOREM AlwaysWithinReach == Spec => []WithinReach
<1>1. ASSUME GameInv, ReachInv, NEW n \in Connected(slot)
      PROVE  /\ Len(log[n]) <= start + MaxLag + 1
             /\ maketic[n] <= start + MaxLag + MaxAhead + 2
  <2>1. n \in Nodes /\ Len(log[n]) <= start + MaxLag + 1
    BY <1>1 DEF ReachInv, Reach, Connected, ClientConnected
  <2>2. /\ maketic[n] <= cl_start[n] + MaxAhead + 1 /\ cl_start[n] <= Len(log[n])
        /\ maketic[n] \in Nat /\ cl_start[n] \in Nat /\ Len(log[n]) \in Nat /\ start \in Nat
    BY <1>1, <2>1 DEF ReachInv, Ahead, GameInv, GameTypes, Acknowledged
  <2> QED BY <2>1, <2>2, Limits
<1>2. GameInv /\ ReachInv => WithinReach
  BY <1>1 DEF WithinReach
<1> QED BY <1>2, InvHolds, PTL

(* No player's game runs further ahead of its own commands than this.      *)
THEOREM AlwaysHeldTogether == Spec => []HeldTogether
<1>1. ASSUME GameInv, ReachInv, NEW n \in ConnectedPlayers(slot)
      PROVE  cl_start[n] <= maketic[n] + Max({MaxAhead, SoloLead}) + 1
  <2>1. n \in Nodes /\ Len(log[n]) <= maketic[n] + Lead + 1
    BY <1>1 DEF ReachInv, Behind, ConnectedPlayers, Connected
  <2>2. /\ cl_start[n] <= Len(log[n])
        /\ maketic[n] \in Nat /\ cl_start[n] \in Nat /\ Len(log[n]) \in Nat
    BY <1>1, <2>1 DEF GameInv, GameTypes, Acknowledged
  <2>3. cl_start[n] <= maketic[n] + Lead + 1
    BY <2>1, <2>2, Limits
  <2> QED BY <2>3 DEF Lead
<1>2. GameInv /\ ReachInv => HeldTogether
  BY <1>1 DEF HeldTogether
<1> QED BY <1>2, InvHolds, PTL
-----------------------------------------------------------------------------
(* The refinement.                                                         *)
LEMMA RefinesInit == Init => LS!Init
<1> SUFFICES ASSUME Init PROVE LS!Init
  OBVIOUS
<1>1. Connected(slot) = Nodes
  BY DEF Init, Connected, ClientConnected
<1>2. \A n \in Nodes : SubSeq(log[n], 1, cl_start[n]) = <<>>
  <2> TAKE n \in Nodes
  <2>1. log[n] = <<>> /\ cl_start[n] = 0
    BY DEF Init
  <2> QED BY <2>1
<1>3. maketic = [n \in Nodes |-> 0]
  BY DEF Init
<1> QED BY <1>1, <1>2, <1>3 DEF LS!Init

(* Most steps are none for the games.                                      *)
LEMMA RefinesStutter ==
  ASSUME UNCHANGED <<slot, log, maketic, cl_start>>
  PROVE  UNCHANGED LS!vars
BY DEF LS!vars, Connected, ClientConnected, Nodes

LEMMA RefinesMake ==
  ASSUME NEW n \in Nodes, NET_CL_SendTiccmd(n)
  PROVE  \E p \in Players : LS!Make(p)
<1>1. UNCHANGED <<slot, log, cl_start>> /\ n \in Players
      /\ maketic' = [maketic EXCEPT ![n] = @ + 1]
  BY DEF NET_CL_SendTiccmd, ClientActs, server
<1> QED BY <1>1 DEF LS!Make, Connected, ClientConnected, Nodes

(* What a node has run is not changed by what is queued after it.          *)
LEMMA RanStays ==
  ASSUME NEW l \in Seq(SUBSET Players), NEW l2 \in Seq(SUBSET Players), NEW c \in Nat,
         c <= Len(l), Len(l) <= Len(l2), \A t \in 1..Len(l) : l2[t] = l[t]
  PROVE  SubSeq(l2, 1, c) = SubSeq(l, 1, c)
OBVIOUS

LEMMA RefinesLeave ==
  ASSUME GameInv, \/ \E n \in Nodes : ReceiveDisconnect(n)
                  \/ \E gone, late, expired : NET_SV_Run(gone, late, expired)
  PROVE  LS!Leave
<1>1. /\ SlotsLeft(slot')
      /\ UNCHANGED <<maketic, cl_start>>
      /\ \A n \in Nodes : log'[n] = log[n] \/ log'[n] = Append(log[n], NextTic(n))
  <2>1. CASE \E n \in Nodes : ReceiveDisconnect(n)
    BY <2>1 DEF ReceiveDisconnect, ClientConnected, SlotsLeft, GameInv, GameTypes, client
  <2>2. CASE \E gone, late, expired : NET_SV_Run(gone, late, expired)
    BY <2>2, ServerRunStep
  <2> QED BY <2>1, <2>2
<1>2. Connected(slot') \subseteq Connected(slot)
  BY <1>1 DEF SlotsLeft, Connected, ClientConnected
<1>3. ASSUME NEW n \in Nodes
      PROVE  SubSeq(log'[n], 1, cl_start[n]) = SubSeq(log[n], 1, cl_start[n])
  <2>1. PICK l : l = log'[n] /\ (l = log[n] \/ l = Append(log[n], NextTic(n)))
    BY <1>1
  <2>2. /\ l \in Seq(SUBSET Players) /\ Len(log[n]) <= Len(l)
        /\ \A t \in 1..Len(log[n]) : l[t] = log[n][t]
    BY <2>1, QueueGrows
  <2>3. log[n] \in Seq(SUBSET Players) /\ cl_start[n] \in Nat /\ cl_start[n] <= Len(log[n])
    BY DEF GameInv, GameTypes, Acknowledged
  <2> QED BY <2>1, <2>2, <2>3, RanStays
<1> QED BY <1>1, <1>2, <1>3 DEF LS!Leave, Connected, ClientConnected, Nodes

LEMMA RanOn ==
  ASSUME NEW l \in Seq(SUBSET Players), NEW c \in Nat, NEW d \in Nat,
         c <= d, d <= Len(l)
  PROVE  /\ Len(SubSeq(l, 1, d)) = d
         /\ \A t \in 1..d : SubSeq(l, 1, d)[t] = l[t]
         /\ SubSeq(l, 1, d) = SubSeq(l, 1, c) \o SubSeq(SubSeq(l, 1, d), c + 1, d)
OBVIOUS

(* The window of a client is advanced: it runs the tics in between.        *)
LEMMA RefinesRun ==
  ASSUME GameInv, NEW n \in Nodes, NEW expired, NEW due, NET_CL_Run(n, expired, due)
  PROVE  LS!Run(n) \/ UNCHANGED LS!vars
<1> DEFINE c == cl_start[n]
           d == NextGap(c, cl_recv[n])
           l == log[n]
<1>1. UNCHANGED <<slot, log, maketic>> /\ cl_start' = [cl_start EXCEPT ![n] = d]
  BY DEF NET_CL_Run, ClientActs, server
<1>2. /\ c \in Nat /\ l \in Seq(SUBSET Players) /\ cl_start \in [Nodes -> Nat]
      /\ cl_recv[n] \subseteq Window(c) /\ Len(l) \in Nat /\ c <= Len(l)
      /\ \A t \in cl_recv[n] : t < Len(l)
  BY DEF GameInv, GameTypes, Acknowledged, Held
<1>3. d \in Nat /\ c <= d /\ d <= Len(l)
  BY <1>2, NextGapBounds
<1> HIDE DEF d
<1>4. CASE d = c
  <2>1. cl_start' = cl_start
    BY <1>1, <1>2, <1>4
  <2> QED BY <2>1, <1>1, RefinesStutter
<1>5. CASE d # c
  <2>1. /\ Len(SubSeq(l, 1, d)) = d
        /\ Len(SubSeq(l, 1, c)) = c
        /\ \A t \in 1..d : SubSeq(l, 1, d)[t] = l[t]
        /\ SubSeq(l, 1, d) = SubSeq(l, 1, c) \o SubSeq(SubSeq(l, 1, d), c + 1, d)
    <3>1. c <= Len(l)
      BY <1>2
    <3> HIDE DEF l, c
    <3> QED BY <1>2, <1>3, <3>1, RanOn
  <2> DEFINE T  == [m \in Nodes |-> SubSeq(log[m], 1, cl_start[m])]
             T2 == [m \in Nodes |-> SubSeq(log'[m], 1, cl_start'[m])]
  <2>2. T[n] = SubSeq(l, 1, c) /\ T2[n] = SubSeq(l, 1, d)
    <3>1. cl_start'[n] = d /\ log' = log
      BY <1>1, <1>2
    <3> QED BY <3>1
  <2>3. \A m \in Nodes : m # n => T2[m] = T[m]
    <3> SUFFICES ASSUME NEW m \in Nodes, m # n PROVE T2[m] = T[m]
      OBVIOUS
    <3>1. cl_start'[m] = cl_start[m] /\ log' = log
      BY <1>1, <1>2
    <3> QED BY <3>1
  <2>4. T2 = [T EXCEPT ![n] = SubSeq(l, 1, d)]
    <3>1. T2 = [m \in Nodes |-> T2[m]] /\ T = [m \in Nodes |-> T[m]]
      OBVIOUS
    <3> HIDE DEF T, T2, l
    <3> QED BY <3>1, <2>2, <2>3
  <2>5. Len(T2[n]) > Len(T[n])
    <3> HIDE DEF T, T2, l, c
    <3> QED BY <2>1, <2>2, <1>2, <1>3, <1>5
  <2>6. T2 = [T EXCEPT ![n] = @ \o SubSeq(T2[n], Len(@) + 1, Len(T2[n]))]
    <3>1. SubSeq(l, 1, d) = T[n] \o SubSeq(T2[n], Len(T[n]) + 1, Len(T2[n]))
      <4> HIDE DEF T, T2, l, c
      <4> QED BY <2>1, <2>2
    <3> HIDE DEF T, T2, l
    <3> QED BY <3>1, <2>4
  <2>7. \A t \in (Len(T[n]) + 1)..Len(T2[n]) : LS!Complete(n, t, T2[n][t])
    <3>1. ASSUME NEW t \in (c + 1)..d PROVE LS!Complete(n, t, l[t])
      <4>1. t \in 1..Len(log[n])
        BY <1>2, <1>3
      <4>2. /\ ConnectedPlayers(slot) \ {n} \subseteq log[n][t]
            /\ log[n][t] \subseteq Players \ {n}
            /\ \A p \in log[n][t] : t <= maketic[p]
        BY <4>1 DEF GameInv, Whole
      <4>3. \A p \in log[n][t] : maketic[p] >= t
        <5> TAKE p \in log[n][t]
        <5>1. t <= maketic[p] /\ p \in Nodes
          BY <4>2, NodesAreNat
        <5>2. maketic[p] \in Nat /\ t \in Nat
          BY <5>1, <4>1 DEF GameInv, GameTypes
        <5> QED BY <5>1, <5>2
      <4> QED BY <4>2, <4>3 DEF LS!Complete, ConnectedPlayers
    <3>2. \A t \in (c + 1)..d : t \in 1..d
      BY <1>2, <1>3
    <3>3. ASSUME NEW t \in (Len(T[n]) + 1)..Len(T2[n])
          PROVE  t \in (c + 1)..d /\ T2[n][t] = l[t]
      <4> HIDE DEF T, T2, l, c
      <4> QED BY <3>2, <2>1, <2>2
    <3> HIDE DEF T, T2, l, c
    <3> QED BY <3>1, <3>3
  <2>8. LS!Run(n)
    <3>1. UNCHANGED <<maketic, Connected(slot)>>
      BY <1>1 DEF Connected, ClientConnected, Nodes
    <3> QED BY <2>5, <2>6, <2>7, <3>1 DEF LS!Run, Nodes
  <2> QED BY <2>8
<1> QED BY <1>4, <1>5

LEMMA RefinesStep ==
  ASSUME GameInv, [Next]_vars
  PROVE  [LS!Next]_LS!vars
<1>1. CASE ServerRun
  <2>1. LS!Leave
    BY <1>1, ServerRunCases, RefinesLeave
  <2> QED BY <2>1 DEF LS!Next
<1>2. CASE Lose \/ UNCHANGED vars
  <2>1. UNCHANGED <<slot, log, maketic, cl_start>>
    BY <1>2 DEF Lose, vars, server, client
  <2> QED BY <2>1, RefinesStutter
<1>3. ASSUME NEW n \in Nodes, Client(n) PROVE [LS!Next]_LS!vars
  <2>1. CASE \/ NET_CL_ParseGameStart(n)
             \/ \E k \in net : NET_CL_ParseGameData(n, k) \/ NET_CL_ParseResendRequest(n, k)
    <3>1. UNCHANGED <<slot, log, maketic, cl_start>>
      BY <2>1 DEF NET_CL_ParseGameStart, NET_CL_ParseGameData,
                  NET_CL_ParseResendRequest, Learn, ClientActs, server
    <3> QED BY <3>1, RefinesStutter
  <2>2. CASE NET_CL_SendTiccmd(n)
    <3>1. \E p \in Players : LS!Make(p)
      BY <2>2, RefinesMake
    <3> QED BY <3>1 DEF LS!Next
  <2>3. CASE \E expired, due : NET_CL_Run(n, expired, due)
    <3>1. LS!Run(n) \/ UNCHANGED LS!vars
      BY <2>3, RefinesRun
    <3> QED BY <3>1 DEF LS!Next
  <2> QED BY <1>3, <2>1, <2>2, <2>3 DEF Client
<1>4. ASSUME NEW n \in Nodes, Packet(n) PROVE [LS!Next]_LS!vars
  <2>1. CASE \E k \in net : \/ NET_SV_ParseGameData(n, k)
                            \/ NET_SV_ParseGameDataACK(n, k)
                            \/ NET_SV_ParseResendRequest(n, k)
    <3>1. UNCHANGED <<slot, log, maketic, cl_start>>
      BY <2>1 DEF NET_SV_ParseGameData, NET_SV_ParseGameDataACK,
                  NET_SV_ParseResendRequest, Collect, ServerActs, client
    <3> QED BY <3>1, RefinesStutter
  <2>2. CASE ReceiveDisconnect(n)
    <3>1. LS!Leave
      BY <2>2, RefinesLeave
    <3> QED BY <3>1 DEF LS!Next
  <2> QED BY <1>4, <2>1, <2>2 DEF Packet
<1> QED BY <1>1, <1>2, <1>3, <1>4 DEF Next

(* Whatever is lost, repeated or late, whoever leaves: each node runs the  *)
(* tics in order, each complete and none before its commands are made.     *)
THEOREM InLockstep == Spec => Implements
<1>1. Init => LS!Init
  BY RefinesInit
<1>2. GameInv /\ [Next]_vars => [LS!Next]_LS!vars
  BY RefinesStep
<1> QED BY <1>1, <1>2, InvHolds, PTL DEF Spec, Implements, LS!Spec
-----------------------------------------------------------------------------
(* When everybody waits: all that players made is known to the server, and *)
(* so no request to a client finds anything that the server lacks.         *)
LEMMA NothingLacks ==
  ASSUME AllWait, GameInv, TypeInv, NEW n \in Nodes
  PROVE  Queued(n) \cap (Window(start) \ recv[n]) = {}
<1>1. CASE n \in Players
  <2>1. \A t \in Queued(n) : t < start \/ t \in recv[n]
    BY <1>1 DEF AllWait, Queued
  <2> QED BY <2>1, WindowIsNat DEF GameInv, GameTypes, Window
<1>2. CASE n \notin Players
  <2>1. maketic[n] = 0
    BY <1>2 DEF TypeInv, Ending
  <2> QED BY <2>1 DEF Queued
<1> QED BY <1>1, <1>2

LEMMA RequestsUseless ==
  ASSUME AllWait, GameInv, TypeInv, NEW n \in Nodes, NEW S
  PROVE  /\ \A k \in RequestFor("client", n, S) : ~Useful(k)
         /\ \A k \in RequestsFor("client", n, S) : ~Useful(k)
<1>1. ASSUME NEW a, NEW b PROVE ~Useful(ResendRequest("client", n, a, b))
  BY NothingLacks DEF Useful, Lacking, ResendRequest
<1> QED BY <1>1 DEF RequestFor, RequestsFor

(* A step that leaves alone what AllWait and Useful are about, and sends   *)
(* nothing that is of use.                                                 *)
LEMMA WaitsOn ==
  ASSUME AllWait, NEW new, net' \subseteq net \cup new, \A k \in new : ~Useful(k),
         UNCHANGED <<slot, start, recv, log, acked>>,
         UNCHANGED <<maketic, begun, cl_start, cl_recv, cl_asked>>
  PROVE  AllWait'
<1>1. ASSUME NEW k \in net' PROVE ~Useful(k)'
  <2>1. ~Useful(k)
    BY DEF AllWait
  <2> QED BY <2>1 DEF Useful, Lacking, Queued, SendQueue, Window
<1>2. \A n \in Nodes : MayPump(slot, n)' <=> MayPump(slot, n)
  BY DEF MayPump, IsComplete, NotFarAhead, LatestAcknowledged,
         ConnectedPlayers, Connected, ClientConnected
<1>3. Advanced(slot)' = Advanced(slot)
  BY DEF Advanced, LatestAcknowledged, ConnectedPlayers, Connected, ClientConnected
<1> QED BY <1>1, <1>2, <1>3 DEF AllWait, ClientConnected, Nodes, Players

LEMMA WaitsOnLess ==
  ASSUME AllWait, net' \subseteq net,
         UNCHANGED <<slot, start, recv, log, acked>>,
         UNCHANGED <<maketic, begun, cl_start, cl_recv, cl_asked>>
  PROVE  AllWait'
<1> DEFINE new == {}
<1>1. net' \subseteq net \cup new /\ \A k \in new : ~Useful(k)
  OBVIOUS
<1> HIDE DEF new
<1> QED BY <1>1, WaitsOn

(* A packet whose tics are there already is before the window of a client  *)
(* that misses nothing: no queue reaches beyond the window.                *)
LEMMA BeforeWindow ==
  ASSUME AllWait, GameInv, TypeInv, NEW n \in Nodes, NEW k \in Mail("client", n, "DATA")
  PROVE  /\ (k.first..k.last) \cap Window(cl_start[n]) = {}
         /\ k.first \in Nat /\ k.first <= cl_start[n]
<1>1. k \in net /\ k.type = "DATA" /\ k.to = "client" /\ k.node = n
  BY DEF Mail
<1>2. (k.first..k.last) \cap Window(cl_start[n]) = {}
  BY <1>1 DEF AllWait, Useful, Lacking
<1>3. k.first \in Nat /\ k.last \in Nat /\ k.first <= k.last
  BY <1>1, KnownTics, TicBounds DEF TypeInv
<1>4. k.first < Len(log[n])
  <2>1. Fits(k, maketic, cl_start, log)
    BY <1>1 DEF GameInv, InFlight
  <2> QED BY <2>1, <1>1, <1>3 DEF Fits
<1>5. /\ Len(log[n]) \in Nat /\ Len(log[n]) <= start + BACKUPTICS
      /\ start \in Nat /\ cl_start[n] \in Nat
      /\ start <= cl_start[n]
  BY DEF GameInv, GameTypes, Acknowledged, TypeInv, Ending, AllWait, ClientConnected
<1>6. k.first \notin Window(cl_start[n])
  BY <1>2, <1>3
<1>7. k.first <= cl_start[n]
  BY <1>3, <1>4, <1>5, <1>6, TicBounds DEF Window
<1> QED BY <1>2, <1>3, <1>7

LEMMA NothingMissed ==
  ASSUME NEW w \in Nat, NEW first \in Nat, first <= w, NEW here, NEW wanted
  PROVE  MissedBefore(w, here, wanted, first) = {}
<1> DEFINE b == w + BACKUPTICS - 1
           S == {first, b}
<1>1. b \in Nat
  BY TicBounds
<1> HIDE DEF b
<1>2. S \subseteq Nat /\ first \in S
  BY <1>1
<1>3. Min(S) \in S /\ \A y \in S : Min(S) <= y
  <2> HIDE DEF S
  <2> QED BY <1>2, MinNat
<1>4. PICK end \in Nat : end = Min(S) /\ end <= w
  BY <1>2, <1>3
<1>5. w..(end - 1) = {}
  BY <1>4
<1> QED BY <1>4, <1>5 DEF MissedBefore, b

LEMMA LearnWaits ==
  ASSUME AllWait, GameInv, TypeInv, NEW n \in Nodes, NEW k \in net, Learns(n, k)
  PROVE  AllWait'
<1> DEFINE here == cl_recv[n] \cup ((k.first..k.last) \cap Window(cl_start[n]))
           missed == MissedBefore(cl_start[n], here, cl_asked[n], k.first)
<1>1. /\ UNCHANGED <<slot, start, recv, log, acked, maketic, begun, cl_start>>
      /\ k \in Mail("client", n, "DATA")
      /\ cl_recv' = [cl_recv EXCEPT ![n] = here]
      /\ cl_asked' = [cl_asked EXCEPT ![n] = (@ \cup missed) \ here]
      /\ Reply(k, RequestFor("server", n, missed))
  BY DEF Learns, Learn, ClientActs, server, window
<1>2. cl_recv[n] = {} /\ cl_asked[n] = {}
  BY DEF AllWait
<1>3. here = {}
  BY <1>1, <1>2, BeforeWindow
<1>4. missed = {}
  <2>1. cl_start[n] \in Nat
    BY DEF GameInv, GameTypes
  <2> HIDE DEF here
  <2> QED BY <2>1, <1>1, BeforeWindow, NothingMissed
<1> HIDE DEF here, missed
<1>5. UNCHANGED <<cl_recv, cl_asked>>
  BY <1>1, <1>2, <1>3, <1>4 DEF GameInv, GameTypes, TypeInv, Wanted
<1>6. net' \subseteq net
  <2>1. Reply(k, {})
    BY <1>1, <1>4 DEF RequestFor
  <2> QED BY <2>1, ReplyKeeps
<1> QED BY <1>1, <1>5, <1>6, WaitsOnLess

LEMMA AnswerWaits ==
  ASSUME AllWait, GameInv, TypeInv, NEW n \in Nodes, NEW k \in net,
         NET_CL_ParseResendRequest(n, k)
  PROVE  AllWait'
<1> DEFINE have == (k.first..k.last) \cap Queued(n)
           data == Commands(n, cl_start[n], Min(have), Max(have))
           new == {data}
<1>1. /\ UNCHANGED <<slot, start, recv, log, acked>>
      /\ UNCHANGED <<maketic, begun, cl_start, cl_recv, cl_asked>>
  BY DEF NET_CL_ParseResendRequest, ClientActs, server, window
<1>2. CASE have = {}
  <2>1. Reply(k, {})
    BY <1>2 DEF NET_CL_ParseResendRequest
  <2>2. net' \subseteq net
    BY <2>1, ReplyKeeps
  <2> QED BY <2>2, <1>1, WaitsOnLess
<1>3. CASE have # {}
  <2>1. Reply(k, new)
    BY <1>3 DEF NET_CL_ParseResendRequest
  <2>2. maketic[n] \in Nat /\ start \in Nat
    BY DEF GameInv, GameTypes
  <2>3. \A t \in have : t \in Nat /\ t < maketic[n] /\ t <= maketic[n]
    BY <2>2 DEF Queued
  <2>4. n \in Players
    BY <1>3, <2>3 DEF TypeInv, Ending
  <2>5. Min(have) \in Nat /\ Max(have) \in Nat /\ Max(have) < maketic[n]
    <3> HIDE DEF have
    <3>1. have \subseteq Nat
      BY <2>3
    <3>2. Min(have) \in have /\ Max(have) \in have
      BY <3>1, <1>3, <2>2, <2>3, MinNat, MaxNat
    <3> QED BY <3>2, <2>3
  <2>6. ~Useful(data)
    <3>1. PICK a \in Nat, b \in Nat : a = Min(have) /\ b = Max(have) /\ b < maketic[n]
      BY <2>5
    <3>2. \A t \in a..b : t < start \/ t \in recv[n]
      BY <2>2, <2>4, <3>1 DEF AllWait
    <3>3. (a..b) \cap (Window(start) \ recv[n]) = {}
      BY <3>2, <2>2 DEF Window
    <3> HIDE DEF have
    <3> QED BY <3>1, <3>3 DEF Useful, Lacking, Commands
  <2> HIDE DEF data
  <2>7. \A j \in new : ~Useful(j)
    BY <2>6
  <2> HIDE DEF new
  <2>8. net' \subseteq net \cup new
    BY <2>1, ReplyKeeps
  <2> QED BY <2>7, <2>8, <1>1, WaitsOn
<1> QED BY <1>2, <1>3

LEMMA ClientRunWaits ==
  ASSUME AllWait, GameInv, TypeInv, NEW n \in Nodes, NEW due,
         NEW expired, expired = {} \/ expired \in Ranges(cl_asked[n]),
         NET_CL_Run(n, expired, due)
  PROVE  AllWait'
<1> DEFINE next == NextGap(cl_start[n], cl_recv[n])
           new == RequestsFor("server", n, expired)
                    \cup IF due THEN {GameDataACK(n, next)} ELSE {}
<1>1. /\ UNCHANGED <<slot, start, recv, log, acked, maketic, begun>>
      /\ cl_start' = [cl_start EXCEPT ![n] = next]
      /\ cl_recv' = [cl_recv EXCEPT ![n] = From(next, @)]
      /\ cl_asked' = [cl_asked EXCEPT ![n] = From(next, @)]
      /\ Carry(net, new)
  BY DEF NET_CL_Run, ClientActs, server, window, Send
<1>2. cl_recv[n] = {} /\ cl_asked[n] = {} /\ cl_start[n] \in Nat
  BY DEF AllWait, GameInv, GameTypes
<1>3. next = cl_start[n]
  <2> DEFINE G == (cl_start[n]..(cl_start[n] + BACKUPTICS)) \ cl_recv[n]
  <2>1. PICK c \in Nat : c = cl_start[n] /\ G = c..(c + BACKUPTICS)
    BY <1>2
  <2>2. next = Min(G)
    BY DEF NextGap
  <2> HIDE DEF G, next
  <2>3. G \subseteq Nat /\ c \in G /\ \A t \in G : c <= t
    BY <2>1, TicBounds
  <2>4. Min(G) \in G /\ Min(G) <= c
    BY <2>3, MinNat
  <2>5. Min(G) = c
    <3>1. PICK m \in Nat : m = Min(G) /\ c <= m /\ m <= c
      BY <2>3, <2>4
    <3> QED BY <3>1
  <2> QED BY <2>1, <2>2, <2>5
<1>4. expired = {}
  BY <1>2 DEF Ranges
<1>5. \A k \in new : ~Useful(k)
  BY <1>4 DEF RequestsFor, Useful, GameDataACK
<1> HIDE DEF next, new
<1>6. UNCHANGED <<cl_start, cl_recv, cl_asked>>
  BY <1>1, <1>2, <1>3 DEF From, GameInv, GameTypes, TypeInv, Wanted
<1>7. net' \subseteq net \cup new
  BY <1>1, CarryKeeps
<1> QED BY <1>1, <1>5, <1>6, <1>7, WaitsOn

(* The server has acknowledged all that there is to be acknowledged.       *)
LEMMA AcknowledgeWaits ==
  ASSUME AllWait, GameInv, NEW n \in Nodes, NEW k \in net,
         k.to = "server", k.type \in {"DATA", "ACK"}, k.node = n, Acknowledge(n, k.ack)
  PROVE  acked' = acked
<1>1. Fits(k, maketic, cl_start, log)
  BY DEF GameInv, InFlight
<1>2. k.ack \in Nat /\ k.ack <= acked[n] /\ acked[n] \in Nat /\ acked \in [Nodes -> Nat]
  BY <1>1 DEF Fits, AllWait, GameInv, GameTypes
<1>3. Max({acked[n], k.ack}) = acked[n]
  <2>1. PICK x \in Int, y \in Int : x = acked[n] /\ y = k.ack /\ y <= x
    BY <1>2
  <2>2. Max({x, y}) \in {x, y} /\ x <= Max({x, y})
    BY MaxOfTwo
  <2> QED BY <2>1, <2>2
<1> QED BY <1>2, <1>3 DEF Acknowledge

LEMMA CollectWaits ==
  ASSUME AllWait, GameInv, TypeInv, NEW n \in Nodes, NEW k \in net, Collects(n, k)
  PROVE  AllWait'
<1> DEFINE here == recv[n] \cup InWindow(k)
           asks == RequestFor("client", n, MissedBefore(start, here, asked[n], k.first))
           new == ToClient(n, asks)
<1>1. /\ UNCHANGED <<slot, start, log, maketic, begun, cl_start, cl_recv, cl_asked>>
      /\ k.type = "DATA" /\ k.to = "server" /\ k.node = n
      /\ recv' = [recv EXCEPT ![n] = here]
      /\ Acknowledge(n, k.ack)
      /\ Reply(k, new)
  BY DEF Collects, Collect, ServerActs, client, Mail
<1>2. here = recv[n]
  BY <1>1 DEF AllWait, Useful, Lacking, InWindow
<1>3. UNCHANGED <<recv, acked>>
  BY <1>1, <1>2, AcknowledgeWaits DEF GameInv, GameTypes
<1>4. \A j \in new : ~Useful(j)
  <2>1. \A j \in asks : ~Useful(j)
    BY RequestsUseless
  <2> QED BY <2>1 DEF ToClient
<1> HIDE DEF new
<1>5. net' \subseteq net \cup new
  BY <1>1, ReplyKeeps
<1> QED BY <1>1, <1>3, <1>4, <1>5, WaitsOn

LEMMA AckedWaits ==
  ASSUME AllWait, GameInv, NEW n \in Nodes, NEW k \in net, Acks(n, k)
  PROVE  AllWait'
<1>1. /\ UNCHANGED <<slot, start, recv, log, maketic, begun, cl_start, cl_recv, cl_asked>>
      /\ k.type = "ACK" /\ k.to = "server" /\ k.node = n
      /\ Acknowledge(n, k.ack) /\ Reply(k, {})
  BY DEF Acks, ServerActs, client, window, Mail
<1>2. acked' = acked
  BY <1>1, AcknowledgeWaits
<1>3. net' \subseteq net
  BY <1>1, ReplyKeeps
<1> QED BY <1>1, <1>2, <1>3, WaitsOnLess

LEMMA ResendWaits ==
  ASSUME AllWait, NEW n \in Nodes, NEW k \in net, NET_SV_ParseResendRequest(n, k)
  PROVE  AllWait'
<1> DEFINE new == IF k.first..k.last \subseteq SendQueue(n)
                    THEN ToClient(n, {Tics(n, k.first, k.last)}) ELSE {}
<1>1. /\ UNCHANGED <<slot, start, recv, log, acked>>
      /\ UNCHANGED <<maketic, begun, cl_start, cl_recv, cl_asked>>
      /\ k.type = "RESEND" /\ k.to = "server" /\ k.node = n
      /\ Reply(k, new)
  BY DEF NET_SV_ParseResendRequest, ServerActs, client, window, Mail
<1>2. ASSUME k.first..k.last \subseteq SendQueue(n)
      PROVE  ~Useful(Tics(n, k.first, k.last))
  <2>1. Lacking(k) = {}
    BY <1>1, <1>2 DEF AllWait, Useful
  <2>2. Lacking(Tics(n, k.first, k.last)) = Lacking(k)
    BY <1>1 DEF Lacking, Tics
  <2> QED BY <2>1, <2>2 DEF Useful, Tics
<1>3. \A j \in new : ~Useful(j)
  BY <1>2 DEF ToClient
<1> HIDE DEF new
<1>4. net' \subseteq net \cup new
  BY <1>1, ReplyKeeps
<1> QED BY <1>1, <1>3, <1>4, WaitsOn

LEMMA ServerRunWaits ==
  ASSUME AllWait, GameInv, TypeInv, slot' = slot,
         NEW gone, NEW late, late \subseteq Nodes, NEW expired, NET_SV_Run(gone, late, expired)
  PROVE  AllWait'
<1> DEFINE at(n) == IF \E g \in gone : g <= n THEN slot' ELSE slot
           pumped == {n \in Nodes : Len(log'[n]) > Len(log[n])}
           checked == {p \in late : ClientConnected(at(p), p)}
           renewed(p) == {t \in From(start', asked[p]) : <<p, t>> \in expired}
           sent == {Tics(n, Max({0, Len(log[n]) - extratics}), Len(log[n])) : n \in pumped}
           checks == UNION {RequestFor("client", p, DeadlockTics(p)) : p \in checked}
           repeats == UNION {RequestsFor("client", p, renewed(p)) :
                               p \in ConnectedPlayers(slot')}
           new == sent \cup checks \cup repeats
           kept == {k \in net : slot'[k.node] # "OUT"}
<1>1. /\ start' = Advanced(slot')
      /\ recv' = [p \in Players |-> From(start', recv[p])]
      /\ UNCHANGED <<acked, maketic, begun, cl_start, cl_recv, cl_asked>>
  BY DEF NET_SV_Run, client
<1>2. log' = [n \in Nodes |-> IF MayPump(at(n), n)
                               THEN Append(log[n], NextTic(n)) ELSE log[n]]
  BY DEF NET_SV_Run
<1>3. Carry(kept, new)
  BY DEF NET_SV_Run
<1>4. log' = log
  <2>1. ASSUME NEW n \in Nodes PROVE log'[n] = log[n]
    <3>1. at(n) = slot
      OBVIOUS
    <3> HIDE DEF at
    <3> QED BY <3>1, <1>2 DEF AllWait
  <2> QED BY <2>1, <1>2 DEF GameInv, GameTypes
<1>5. start' = start
  <2>1. PICK sl : sl = slot' /\ sl = slot
    OBVIOUS
  <2> QED BY <2>1, <1>1 DEF AllWait
<1>6. recv' = recv
  <2>1. \A p \in Players : From(start, recv[p]) = recv[p]
    BY DEF GameInv, GameTypes, TypeInv, Wanted, From, Window
  <2> QED BY <2>1, <1>1, <1>5 DEF GameInv, GameTypes
<1>7. sent = {}
  <2>1. \A n \in Nodes : Len(log[n]) \in Nat
    BY DEF GameInv, GameTypes
  <2>2. pumped = {}
    BY <1>4, <2>1
  <2> HIDE DEF pumped
  <2> QED BY <2>2
<1>8. \A k \in checks : ~Useful(k)
  <2>1. checked \subseteq Nodes
    OBVIOUS
  <2> HIDE DEF checked
  <2> QED BY <2>1, RequestsUseless
<1>9. \A k \in repeats : ~Useful(k)
  <2>1. ConnectedPlayers(slot') \subseteq Nodes
    BY DEF ConnectedPlayers, Connected
  <2> HIDE DEF renewed
  <2> QED BY <2>1, RequestsUseless
<1>10. net' \subseteq net \cup new /\ \A k \in new : ~Useful(k)
  <2> HIDE DEF sent, checks, repeats
  <2>1. \A k \in new : ~Useful(k)
    BY <1>7, <1>8, <1>9
  <2> HIDE DEF new
  <2>2. kept \subseteq net
    OBVIOUS
  <2> HIDE DEF kept
  <2>3. net' \subseteq kept \cup new
    BY <1>3, CarryKeeps
  <2> QED BY <2>1, <2>2, <2>3
<1> HIDE DEF new
<1> QED BY <1>1, <1>4, <1>5, <1>6, <1>10, WaitsOn

LEMMA NextWaits ==
  ASSUME AllWait, GameInv, ReachInv, TypeInv, slot' = slot, Next
  PROVE  AllWait'
<1>1. CASE ServerRun
  BY <1>1, ServerRunCases, ServerRunWaits
<1>2. CASE Lose
  <2>1. net' \subseteq net /\ UNCHANGED <<server, client>>
    BY <1>2 DEF Lose
  <2> QED BY <2>1, WaitsOnLess DEF server, client, window
<1>3. ASSUME NEW n \in Nodes, Client(n) PROVE AllWait'
  <2>1. ~NET_CL_ParseGameStart(n)
    BY DEF NET_CL_ParseGameStart, AllWait
  <2>2. ~NET_CL_SendTiccmd(n)
    <3>1. n \in Players => ~MayMake(n)
      <4> SUFFICES ASSUME n \in Players, MayMake(n) PROVE FALSE
        OBVIOUS
      <4>1. maketic[n] \in Nat /\ cl_start[n] \in Nat /\ MaxAhead \in Nat
        BY GameDataAssumption DEF GameInv, GameTypes
      <4>2. maketic[n] - cl_start[n] > MaxAhead /\ maketic[n] - cl_start[n] <= MaxAhead
        BY DEF AllWait, MayMake
      <4> QED BY <4>1, <4>2
    <3> QED BY <3>1 DEF NET_CL_SendTiccmd
  <2>3. ASSUME NEW k \in net, NET_CL_ParseGameData(n, k) PROVE AllWait'
    BY <2>3, LearnWaits, ReadsWhole
  <2>4. ASSUME NEW k \in net, NET_CL_ParseResendRequest(n, k) PROVE AllWait'
    BY <2>4, AnswerWaits
  <2>5. ASSUME NEW due \in BOOLEAN, NET_CL_Run(n, {}, due) PROVE AllWait'
    BY <2>5, ClientRunWaits
  <2>6. ASSUME NEW expired \in Ranges(cl_asked[n]), NET_CL_Run(n, expired, FALSE) PROVE AllWait'
    BY <2>6, ClientRunWaits
  <2> QED BY <1>3, <2>1, <2>2, <2>3, <2>4, <2>5, <2>6 DEF Client
<1>4. ASSUME NEW n \in Nodes, Packet(n) PROVE AllWait'
  <2>1. ASSUME NEW k \in net, NET_SV_ParseGameData(n, k) PROVE AllWait'
    BY <2>1, CollectWaits, ReadsWhole
  <2>2. ASSUME NEW k \in net, NET_SV_ParseGameDataACK(n, k) PROVE AllWait'
    BY <2>2, AckedWaits, ReadsWhole
  <2>3. ASSUME NEW k \in net, NET_SV_ParseResendRequest(n, k) PROVE AllWait'
    BY <2>3, ResendWaits
  <2>4. ~ReceiveDisconnect(n)
    BY DEF ReceiveDisconnect, ClientConnected, GameInv, GameTypes
  <2> QED BY <1>4, <2>1, <2>2, <2>3, <2>4 DEF Packet
<1> QED BY <1>1, <1>2, <1>3, <1>4 DEF Next

(* When every player is as far ahead as BuildNewTic lets it get, and       *)
(* nothing is missed, the game stands still for good: no timer, resend or  *)
(* deadlock check of either end moves it, only that somebody leaves.       *)
THEOREM WaitsForGood == Spec => WaitForever
<1>1. GameInv /\ ReachInv /\ TypeInv /\ [Next]_vars => [AllWait /\ slot' = slot => AllWait']_vars
  BY NextWaits
<1> QED BY <1>1, InvHolds, PTL DEF Spec, WaitForever
=============================================================================
