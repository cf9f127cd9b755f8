------------------------------ MODULE NetConn -------------------------------
(***************************************************************************)
(* The connection layer of net_common.c: one net_connection_t at the       *)
(* client (NET_Conn_InitClient) and its counterpart in a slot of the       *)
(* server (NET_Conn_InitServer), joined by UDP.  The same functions run at *)
(* both ends; what differs is the initial state and how the owner of the   *)
(* connection (net_client.c, net_server.c) drops it.                       *)
(*                                                                         *)
(* Clocks are abstracted: a timer of one or five seconds may be found      *)
(* expired at any run of the connection, and the thirty seconds of silence *)
(* are the flag silent, set when they have passed and cleared by every     *)
(* packet.  The network keeps the packets in flight in a set: it reorders  *)
(* them, duplicates them (a receive may leave its packet there) and loses  *)
(* them.  It does not keep a packet of the reliable stream for longer than *)
(* Modulus newer ones (Fresh).                                             *)
(***************************************************************************)
EXTENDS Integers, Sequences, FiniteSets

CONSTANTS
  Modulus,      \* sequence numbers are taken modulo this (& 0xff: 256)
  MaxRetries,   \* MAX_RETRIES of net_common.h
  MaxSent,      \* bound: reliable packets endpoint e generates
  MaxLosses,    \* bound: the counter of losses saturates above it
  MaxInFlight,  \* bound: packets in flight to one end; more are dropped
  Prompt        \* TRUE: a packet is delivered or lost within a second, so a
                \* timer is found expired only when nothing is in flight

Endpoints == {"client", "server"}
Peer == [e \in Endpoints |-> IF e = "client" THEN "server" ELSE "client"]

ASSUME ModulusAssumption == Modulus \in Nat /\ Modulus > 1
ASSUME BoundsAssumption ==
  /\ MaxRetries \in Nat
  /\ MaxSent \in [Endpoints -> Nat]
  /\ MaxLosses \in Nat
  /\ MaxInFlight \in Nat
  /\ Prompt \in BOOLEAN

VARIABLES
  state,              \* net_connstate_t of each end
  reason,             \* disconnect_reason; "NONE" before one is assigned
  num_retries,
  reliable_packets,   \* packets generated and not yet acknowledged, in order
  reliable_send_seq,
  reliable_recv_seq,
  open,               \* net_client_connected / client->active
  silent,             \* nothing received for CONNECTION_TIMEOUT_LEN seconds
  net,                \* net[e]: packets in flight to e
  sent,               \* reliable packets generated so far (history)
  delivered,          \* payloads handed to the owner of e (history)
  losses              \* packets lost so far, saturating (history)

conn == <<state, reason, num_retries>>
stream == <<reliable_packets, reliable_send_seq, reliable_recv_seq,
            sent, delivered>>
vars == <<conn, stream, open, silent, net, losses>>

-----------------------------------------------------------------------------
(* States and packets.                                                     *)

States == {"CONNECTING", "WAITING_ACK", "CONNECTED",
           "DISCONNECTING", "DISCONNECTED", "DISCONNECTED_SLEEP"}
Closing == {"DISCONNECTING", "DISCONNECTED", "DISCONNECTED_SLEEP"}
Reasons == {"NONE", "LOCAL", "REMOTE", "TIMEOUT"}

ACK            == [type |-> "ACK"]
DISCONNECT     == [type |-> "DISCONNECT"]
DISCONNECT_ACK == [type |-> "DISCONNECT_ACK"]
KEEPALIVE      == [type |-> "KEEPALIVE"]
REJECTED       == [type |-> "REJECTED"]

Plain == {ACK, DISCONNECT, DISCONNECT_ACK, KEEPALIVE, REJECTED}

(* body is not on the wire: it is the position of the payload in the       *)
(* stream, or for an acknowledgement how many payloads had been accepted.  *)
Sequenced == [type : {"RELIABLE", "RELIABLE_ACK"},
              seq : 0..(Modulus - 1), body : Nat]
Packets == Plain \cup Sequenced

SeqUnwrapped(s) == s + 1
SeqAfter(s) == (s + 1) % Modulus

(* Payloads of e that the other end has acknowledged.                      *)
Acked(e) == sent[e] - Len(reliable_packets[e])

(* The network's packet lifetime: what reaches e is not older than         *)
(* Modulus payloads of the stream it belongs to.                           *)
Fresh(e, p) ==
  CASE p.type = "RELIABLE"     -> p.body + Modulus > Len(delivered[e]) + 1
    [] p.type = "RELIABLE_ACK" -> p.body + Modulus > Acked(e) + 1
    [] OTHER                   -> TRUE

(* The network takes the packets out, unless it is full: then they are lost *)
Carry(inflight, out) ==
  IF Cardinality(inflight \cup out) <= MaxInFlight
    THEN inflight \cup out ELSE inflight

-----------------------------------------------------------------------------
(* NET_Conn_Init, and the first state of either end.                       *)
Init ==
  /\ state = [e \in Endpoints |->
                IF e = "client" THEN "CONNECTING" ELSE "WAITING_ACK"]
  /\ reason = [e \in Endpoints |-> "NONE"]
  /\ num_retries = [e \in Endpoints |-> 0]
  /\ reliable_packets = [e \in Endpoints |-> <<>>]
  /\ reliable_send_seq = [e \in Endpoints |-> 0]
  /\ reliable_recv_seq = [e \in Endpoints |-> 0]
  /\ open = [e \in Endpoints |-> TRUE]
  /\ silent = [e \in Endpoints |-> FALSE]
  /\ net = [e \in Endpoints |-> {}]
  /\ sent = [e \in Endpoints |-> 0]
  /\ delivered = [e \in Endpoints |-> <<>>]
  /\ losses = 0

-----------------------------------------------------------------------------
(* Receiving: NET_Conn_Packet and the parser it dispatches to.  Here and   *)
(* below, an operator defined beside the one the model uses is that        *)
(* operator with a mistake in it, to see that the properties notice.       *)

(* p reaches e, which posts the packets out; keep: the network still holds *)
(* a duplicate of p.                                                       *)
Exchange(e, p, keep, out) ==
  net' = [net EXCEPT ![e] = IF keep THEN @ ELSE @ \ {p},
                     ![Peer[e]] = Carry(@, out)]

Arrives(e, p) ==
  /\ open[e]
  /\ p \in net[e]
  /\ silent' = [silent EXCEPT ![e] = FALSE]
  /\ UNCHANGED <<open, losses>>

(* Both ends become connected; any other state ignores an ACK.             *)
ACKRevives(st) == "CONNECTED"
AfterACK(st) == IF st \in {"CONNECTING", "WAITING_ACK"} THEN "CONNECTED" ELSE st

ParseACK(e, keep) ==
  /\ Arrives(e, ACK)
  /\ Exchange(e, ACK, keep, IF state[e] = "CONNECTING" THEN {ACK} ELSE {})
  /\ state' = [state EXCEPT ![e] = AfterACK(@)]
  /\ UNCHANGED <<reason, num_retries, stream>>

(* Accepted in every state; last_send_time is set to now.                  *)
ParseDisconnect(e, keep) ==
  /\ Arrives(e, DISCONNECT)
  /\ Exchange(e, DISCONNECT, keep, {DISCONNECT_ACK})
  /\ state' = [state EXCEPT ![e] = "DISCONNECTED_SLEEP"]
  /\ reason' = [reason EXCEPT ![e] = "REMOTE"]
  /\ UNCHANGED <<num_retries, stream>>

ParseDisconnectACK(e, keep) ==
  /\ Arrives(e, DISCONNECT_ACK)
  /\ Exchange(e, DISCONNECT_ACK, keep, {})
  /\ IF state[e] = "DISCONNECTING"
       THEN /\ state' = [state EXCEPT ![e] = "DISCONNECTED"]
            /\ reason' = [reason EXCEPT ![e] = "LOCAL"]
       ELSE UNCHANGED <<state, reason>>
  /\ UNCHANGED <<num_retries, stream>>

ParseReject(e, keep) ==
  /\ Arrives(e, REJECTED)
  /\ Exchange(e, REJECTED, keep, {})
  /\ IF state[e] = "CONNECTING"
       THEN /\ state' = [state EXCEPT ![e] = "DISCONNECTED"]
            /\ reason' = [reason EXCEPT ![e] = "REMOTE"]
       ELSE UNCHANGED <<state, reason>>
  /\ UNCHANGED <<num_retries, stream>>

ReceiveKeepalive(e, keep) ==
  /\ Arrives(e, KEEPALIVE)
  /\ Exchange(e, KEEPALIVE, keep, {})
  /\ UNCHANGED <<conn, stream>>

(* NET_Conn_ReliablePacket: the packet is discarded unless it carries the  *)
(* expected number; either way the number now expected is acknowledged.    *)
AnyNumber(e, p) == TRUE
Expected(e, p) == p.seq = reliable_recv_seq[e]

ReliablePacket(e, p, keep) ==
  LET seq   == IF Expected(e, p) THEN SeqAfter(reliable_recv_seq[e])
                                 ELSE reliable_recv_seq[e]
      taken == IF Expected(e, p) THEN Append(delivered[e], p.body)
                                 ELSE delivered[e]
  IN /\ p.type = "RELIABLE" /\ Fresh(e, p)
     /\ Arrives(e, p)
     /\ reliable_recv_seq' = [reliable_recv_seq EXCEPT ![e] = seq]
     /\ delivered' = [delivered EXCEPT ![e] = taken]
     /\ Exchange(e, p, keep,
                 {[type |-> "RELIABLE_ACK", seq |-> seq, body |-> Len(taken)]})
     /\ UNCHANGED <<conn, reliable_packets, reliable_send_seq, sent>>

(* An acknowledgement of the first packet of the list removes it.          *)
AcksAnything(e, p) == reliable_packets[e] # <<>>
AcksHead(e, p) == /\ reliable_packets[e] # <<>>
                  /\ p.seq = SeqAfter(Head(reliable_packets[e]).seq)

ParseReliableACK(e, p, keep) ==
  /\ p.type = "RELIABLE_ACK" /\ Fresh(e, p)
  /\ Arrives(e, p)
  /\ Exchange(e, p, keep, {})
  /\ reliable_packets' = [reliable_packets EXCEPT ![e] =
                            IF AcksHead(e, p) THEN Tail(@) ELSE @]
  /\ UNCHANGED <<conn, reliable_send_seq, reliable_recv_seq, sent, delivered>>

-----------------------------------------------------------------------------
(* Running: NET_Conn_Run, with what the owner does with its outcome.       *)

Post(e, out) == net' = [net EXCEPT ![Peer[e]] = Carry(@, out)]

TimerExpired == Prompt => \A e \in Endpoints : net[e] = {}

(* Thirty seconds pass without a packet for e.  On a prompt network that   *)
(* does not happen while the other end is up and sends its keepalives.     *)
Elapse(e) ==
  /\ open[e] /\ state[e] = "CONNECTED" /\ ~silent[e]
  /\ Prompt => ~open[Peer[e]] /\ net[e] = {}
  /\ silent' = [silent EXCEPT ![e] = TRUE]
  /\ UNCHANGED <<conn, stream, open, net, losses>>

(* What a connection resends, when it finds that it timed out, and how it  *)
(* counts its retries.                                                     *)
ResendsNothing(e) == {}
Resent(e) == {Head(reliable_packets[e])}
NeverTimesOut(e) == FALSE
TimedOut(e) == silent[e]
Uncounted(n) == n
OneMoreRetry(n) == n + 1

(* The connected branch: the receive timeout, the keepalive and the resend *)
(* of the first unacknowledged packet are three tests in a row.  A client  *)
(* that timed out shuts down, a server clears the slot.                    *)
RunConnected(e, keepalive, resend) ==
  /\ open[e] /\ state[e] = "CONNECTED"
  /\ resend => reliable_packets[e] # <<>>
  /\ Post(e, (IF keepalive THEN {KEEPALIVE} ELSE {})
             \cup (IF resend THEN Resent(e) ELSE {}))
  /\ IF TimedOut(e)
       THEN /\ state' = [state EXCEPT ![e] = "DISCONNECTED"]
            /\ reason' = [reason EXCEPT ![e] = "TIMEOUT"]
            /\ open' = [open EXCEPT ![e] = FALSE]
       ELSE UNCHANGED <<state, reason, open>>
  /\ UNCHANGED <<num_retries, stream, silent, losses>>

(* The two branches that resend a packet MaxRetries times and then give up *)
(* with the given reason.                                                  *)
Retry(e, st, p, why) ==
  /\ open[e] /\ state[e] = st
  /\ TimerExpired
  /\ IF num_retries[e] < MaxRetries
       THEN /\ Post(e, {p})
            /\ num_retries' = [num_retries EXCEPT ![e] = OneMoreRetry(@)]
            /\ UNCHANGED <<state, reason, open>>
       ELSE /\ state' = [state EXCEPT ![e] = "DISCONNECTED"]
            /\ reason' = [reason EXCEPT ![e] = why]
            /\ open' = [open EXCEPT ![e] = FALSE]
            /\ UNCHANGED <<num_retries, net>>
  /\ UNCHANGED <<stream, silent, losses>>

RunWaitingACK(e)    == Retry(e, "WAITING_ACK", ACK, "TIMEOUT")
RunDisconnecting(e) == Retry(e, "DISCONNECTING", DISCONNECT, "LOCAL")

(* NET_CL_Run shuts the client down as soon as it finds it asleep; the     *)
(* server keeps the slot for five more seconds.                            *)
RunSleep(e) ==
  /\ open[e] /\ state[e] = "DISCONNECTED_SLEEP"
  /\ e = "server" => TimerExpired
  /\ open' = [open EXCEPT ![e] = FALSE]
  /\ IF e = "server"
       THEN /\ state' = [state EXCEPT ![e] = "DISCONNECTED"]
            /\ reason' = [reason EXCEPT ![e] = "REMOTE"]
       ELSE UNCHANGED <<state, reason>>
  /\ UNCHANGED <<num_retries, stream, silent, net, losses>>

(* A packet made the connection DISCONNECTED and the owner notices.        *)
RunDisconnected(e) ==
  /\ open[e] /\ state[e] = "DISCONNECTED"
  /\ open' = [open EXCEPT ![e] = FALSE]
  /\ UNCHANGED <<conn, stream, silent, net, losses>>

-----------------------------------------------------------------------------
(* Calls of the owner.                                                     *)

(* NET_Conn_Disconnect: the server may drop a slot in any state, the       *)
(* client calls it once NET_CL_Connect has returned.                       *)
Disconnect(e) ==
  /\ open[e]
  /\ state[e] \in {"WAITING_ACK", "CONNECTED"}
  /\ state' = [state EXCEPT ![e] = "DISCONNECTING"]
  /\ reason' = [reason EXCEPT ![e] = "LOCAL"]
  /\ num_retries' = [num_retries EXCEPT ![e] = 0]
  /\ UNCHANGED <<stream, open, silent, net, losses>>

(* NET_Conn_NewReliable, called on connected connections.                  *)
NewReliable(e) ==
  /\ open[e] /\ state[e] = "CONNECTED"
  /\ sent[e] < MaxSent[e]
  /\ reliable_packets' = [reliable_packets EXCEPT ![e] =
       Append(@, [type |-> "RELIABLE", seq |-> reliable_send_seq[e],
                  body |-> sent[e] + 1])]
  /\ reliable_send_seq' = [reliable_send_seq EXCEPT ![e] = SeqAfter(@)]
  /\ sent' = [sent EXCEPT ![e] = @ + 1]
  /\ UNCHANGED <<conn, reliable_recv_seq, delivered, open, silent, net, losses>>

(* The five seconds of NET_CL_Connect or of NET_CL_Disconnect are over.    *)
ClientGivesUp ==
  /\ open["client"] /\ state["client"] \in {"CONNECTING", "DISCONNECTING"}
  /\ TimerExpired
  /\ open' = [open EXCEPT !["client"] = FALSE]
  /\ UNCHANGED <<conn, stream, silent, net, losses>>

(* The server answers a repeated SYN of a client that is still connecting  *)
(* with a rejection: it stopped accepting connections meanwhile.           *)
ServerRejects ==
  /\ open["client"] /\ state["client"] = "CONNECTING"
  /\ Post("server", {REJECTED})
  /\ UNCHANGED <<conn, stream, open, silent, losses>>

Lose(e) ==
  \E p \in net[e] :
    /\ net' = [net EXCEPT ![e] = @ \ {p}]
    /\ losses' = IF losses > MaxLosses THEN losses ELSE losses + 1
    /\ UNCHANGED <<conn, stream, open, silent>>

-----------------------------------------------------------------------------
Receive(e) ==
  \E keep \in BOOLEAN :
    \/ ParseACK(e, keep)
    \/ ParseDisconnect(e, keep)
    \/ ParseDisconnectACK(e, keep)
    \/ ParseReject(e, keep)
    \/ ReceiveKeepalive(e, keep)
    \/ \E p \in net[e] : \/ ReliablePacket(e, p, keep)
                         \/ ParseReliableACK(e, p, keep)

Run(e) ==
  \/ \E keepalive, resend \in BOOLEAN : RunConnected(e, keepalive, resend)
  \/ RunWaitingACK(e)
  \/ RunDisconnecting(e)
  \/ RunSleep(e)
  \/ RunDisconnected(e)

Next ==
  \/ \E e \in Endpoints : \/ Receive(e)
                          \/ Run(e)
                          \/ Elapse(e)
                          \/ Disconnect(e)
                          \/ NewReliable(e)
                          \/ Lose(e)
  \/ ClientGivesUp
  \/ ServerRejects

Spec == Init /\ [][Next]_vars

(* The main loop of either side keeps running its connection, so an        *)
(* expired timer is noticed; the network may lose a packet any number of   *)
(* times, but not for ever if it is sent again and again; and once the     *)
(* other end is gone and nothing is left in flight, thirty seconds of      *)
(* silence do pass.                                                        *)
Drain(e) ==
  \/ ParseACK(e, FALSE)
  \/ ParseDisconnect(e, FALSE)
  \/ ParseDisconnectACK(e, FALSE)
  \/ ParseReject(e, FALSE)
  \/ ReceiveKeepalive(e, FALSE)
  \/ \E p \in net[e] : \/ ReliablePacket(e, p, FALSE)
                       \/ ParseReliableACK(e, p, FALSE)

Quiet(e) == ~open[Peer[e]] /\ \A p \in net[e] : ~Fresh(e, p)

RunFairness(e) ==
  /\ WF_vars(RunWaitingACK(e))
  /\ WF_vars(RunDisconnecting(e))
  /\ WF_vars(RunSleep(e))
  /\ WF_vars(RunDisconnected(e))
  /\ SF_vars(RunConnected(e, FALSE, TRUE))
  /\ WF_vars(silent[e] /\ RunConnected(e, FALSE, FALSE))

NetworkFairness(e) ==
  /\ WF_vars(Drain(e))
  /\ SF_vars(\E p \in net[e] : ReliablePacket(e, p, FALSE) /\ Expected(e, p))
  /\ SF_vars(\E p \in net[e] : ParseReliableACK(e, p, FALSE) /\ AcksHead(e, p))
  /\ WF_vars(Quiet(e) /\ Elapse(e))

FairSpec == /\ Spec
            /\ \A e \in Endpoints : RunFairness(e) /\ NetworkFairness(e)
            /\ WF_vars(ClientGivesUp)

-----------------------------------------------------------------------------
(* Properties.                                                             *)

TypeOK ==
  /\ state \in [Endpoints -> States]
  /\ reason \in [Endpoints -> Reasons]
  /\ num_retries \in [Endpoints -> 0..MaxRetries]
  /\ reliable_packets \in [Endpoints -> Seq(Sequenced)]
  /\ reliable_send_seq \in [Endpoints -> 0..(Modulus - 1)]
  /\ reliable_recv_seq \in [Endpoints -> 0..(Modulus - 1)]
  /\ open \in [Endpoints -> BOOLEAN]
  /\ silent \in [Endpoints -> BOOLEAN]
  /\ net \in [Endpoints -> SUBSET Packets]
  /\ sent \in [Endpoints -> Nat]
  /\ delivered \in [Endpoints -> Seq(Nat)]
  /\ losses \in 0..(MaxLosses + 1)

(* A payload leaves the sender's list only once the owner of the other end *)
(* has it (NET_Conn_ParseReliableACK must not take a late or duplicated    *)
(* acknowledgement for one of a newer packet with the same number).        *)
NothingAckedUnseen ==
  \A e \in Endpoints : Acked(e) <= Len(delivered[Peer[e]])

(* The payloads handed over are the first ones submitted, in order and     *)
(* each once, whatever the network duplicates or reorders                  *)
(* (NET_Conn_ReliablePacket).                                              *)
InOrder ==
  \A e \in Endpoints : /\ delivered[e] = [i \in 1..Len(delivered[e]) |-> i]
                       /\ Len(delivered[e]) <= sent[Peer[e]]

(* The server believes in the connection only if the client came to        *)
(* believe in it first: a handshake is not completed by other packets.     *)
ServerConnectsSecond ==
  state["server"] = "CONNECTED" => state["client"] # "CONNECTING"

(* An end concludes that its peer hung up only if the peer really began to *)
(* disconnect or is already gone.                                          *)
NoSpuriousHangup ==
  \A e \in Endpoints :
     state[e] = "DISCONNECTED_SLEEP" => state[Peer[e]] \in Closing

(* No packet, however late, brings a connection back to life.              *)
NoRevival ==
  [][\A e \in Endpoints : state[e] \in Closing => state'[e] \in Closing]_vars

(* The reliable packets implement the abstract stream.                     *)
Stream == INSTANCE ReliableStream
Implements == Stream!Spec

(* NET_Conn_Disconnect ends: however many packets are lost, the end that   *)
(* disconnects drops the connection.                                       *)
DisconnectEnds ==
  \A e \in Endpoints : state[e] = "DISCONNECTING" ~> ~open[e]

(* No half-open connection stays: when one end has dropped it, the other   *)
(* one drops it too (the keepalive timeout and the retry limits).          *)
NoHalfOpen ==
  \A e \in Endpoints : ~open[e] ~> ~open[Peer[e]]

(* A reliable packet arrives, however often the network loses it, unless   *)
(* one of the ends leaves the connected state.                             *)
ReliableArrives ==
  \A e \in Endpoints : \A n \in 1..MaxSent[e] :
     (sent[e] >= n /\ state[e] = "CONNECTED")
        ~> \/ Len(delivered[Peer[e]]) >= n
           \/ state[e] # "CONNECTED"
           \/ ~open[Peer[e]]

(* A single lost packet does not defeat the handshake: the server sends    *)
(* its ACK again when the client's answer is missing, so on a prompt       *)
(* network it does not time out a client that is connected and present.    *)
HandshakeSurvivesLoss ==
  losses <= 1 /\ open["client"] /\ state["client"] = "CONNECTED"
     => ~(state["server"] = "DISCONNECTED" /\ reason["server"] = "TIMEOUT")
=============================================================================
