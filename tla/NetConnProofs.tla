--------------------------- MODULE NetConnProofs ----------------------------
(***************************************************************************)
(* Proofs about NetConn, for every modulus above one and every bound.      *)
(***************************************************************************)
EXTENDS NetConn, TLAPS

USE DEF Endpoints, AfterACK, Resent, TimedOut, OneMoreRetry

LEMMA PeerFacts ==
  ASSUME NEW e \in Endpoints
  PROVE  Peer[e] \in Endpoints /\ Peer[Peer[e]] = e /\ Peer[e] # e
BY DEF Peer

-----------------------------------------------------------------------------
(* Type correctness.                                                       *)

LEMMA PlainPackets ==
  /\ ACK \in Packets /\ DISCONNECT \in Packets /\ DISCONNECT_ACK \in Packets
  /\ KEEPALIVE \in Packets /\ REJECTED \in Packets
BY DEF Packets, Plain

(* The network never holds a packet nobody sent.                           *)
LEMMA CarrySubset ==
  ASSUME NEW inflight, NEW out
  PROVE  Carry(inflight, out) \subseteq inflight \cup out
BY DEF Carry

LEMMA ExchangeType ==
  ASSUME TypeOK, NEW e \in Endpoints, NEW p, NEW keep \in BOOLEAN,
         NEW out \in SUBSET Packets, Exchange(e, p, keep, out)
  PROVE  net' \in [Endpoints -> SUBSET Packets]
<1>1. net[e] \in SUBSET Packets /\ net[Peer[e]] \in SUBSET Packets
  BY PeerFacts DEF TypeOK
<1>2. Carry(net[Peer[e]], out) \in SUBSET Packets
  BY <1>1, CarrySubset
<1>3. (IF keep THEN net[e] ELSE net[e] \ {p}) \in SUBSET Packets
  BY <1>1
<1> QED
  BY <1>2, <1>3, PeerFacts DEF TypeOK, Exchange

LEMMA PostType ==
  ASSUME TypeOK, NEW e \in Endpoints, NEW out \in SUBSET Packets, Post(e, out)
  PROVE  net' \in [Endpoints -> SUBSET Packets]
<1>1. net[Peer[e]] \in SUBSET Packets
  BY PeerFacts DEF TypeOK
<1>2. Carry(net[Peer[e]], out) \in SUBSET Packets
  BY <1>1, CarrySubset
<1> QED
  BY <1>2, PeerFacts DEF TypeOK, Post

LEMMA SeqAfterType ==
  ASSUME NEW s \in Nat
  PROVE  SeqAfter(s) \in 0..(Modulus - 1)
BY ModulusAssumption DEF SeqAfter

LEMMA TypeInit == Init => TypeOK
BY ModulusAssumption, BoundsAssumption
   DEF Init, TypeOK, States, Reasons

LEMMA TypeReceive ==
  ASSUME TypeOK, NEW e \in Endpoints, Receive(e)
  PROVE  TypeOK'
<1>0. PICK keep \in BOOLEAN :
        \/ ParseACK(e, keep)
        \/ ParseDisconnect(e, keep)
        \/ ParseDisconnectACK(e, keep)
        \/ ParseReject(e, keep)
        \/ ReceiveKeepalive(e, keep)
        \/ \E p \in net[e] : \/ ReliablePacket(e, p, keep)
                             \/ ParseReliableACK(e, p, keep)
  BY DEF Receive
<1>1. CASE ParseACK(e, keep)
  <2>1. net' \in [Endpoints -> SUBSET Packets]
    BY <1>1, ExchangeType, PlainPackets DEF ParseACK
  <2> QED BY <1>1, <2>1 DEF ParseACK, Arrives, TypeOK, States, stream
<1>2. CASE ParseDisconnect(e, keep)
  <2>1. net' \in [Endpoints -> SUBSET Packets]
    BY <1>2, ExchangeType, PlainPackets DEF ParseDisconnect
  <2> QED
    BY <1>2, <2>1 DEF ParseDisconnect, Arrives, TypeOK, States, Reasons, stream
<1>3. CASE ParseDisconnectACK(e, keep)
  <2>1. net' \in [Endpoints -> SUBSET Packets]
    BY <1>3, ExchangeType DEF ParseDisconnectACK
  <2> QED
    BY <1>3, <2>1
       DEF ParseDisconnectACK, Arrives, TypeOK, States, Reasons, stream
<1>4. CASE ParseReject(e, keep)
  <2>1. net' \in [Endpoints -> SUBSET Packets]
    BY <1>4, ExchangeType DEF ParseReject
  <2> QED
    BY <1>4, <2>1 DEF ParseReject, Arrives, TypeOK, States, Reasons, stream
<1>5. CASE ReceiveKeepalive(e, keep)
  <2>1. net' \in [Endpoints -> SUBSET Packets]
    BY <1>5, ExchangeType DEF ReceiveKeepalive
  <2> QED BY <1>5, <2>1 DEF ReceiveKeepalive, Arrives, TypeOK, stream, conn
<1>6. ASSUME NEW p \in net[e], ReliablePacket(e, p, keep)
      PROVE  TypeOK'
  <2> DEFINE seq   == IF Expected(e, p) THEN SeqAfter(reliable_recv_seq[e])
                                        ELSE reliable_recv_seq[e]
             taken == IF Expected(e, p) THEN Append(delivered[e], p.body)
                                        ELSE delivered[e]
             ack   == [type |-> "RELIABLE_ACK", seq |-> seq,
                       body |-> Len(taken)]
  <2>1. p \in Sequenced
    <3>1. p \in Packets BY DEF TypeOK
    <3>2. p.type = "RELIABLE" BY <1>6 DEF ReliablePacket
    <3> QED BY <3>1, <3>2 DEF Packets, Plain, ACK, DISCONNECT,
                              DISCONNECT_ACK, KEEPALIVE, REJECTED
  <2>2. seq \in 0..(Modulus - 1)
    <3>1. reliable_recv_seq[e] \in 0..(Modulus - 1) BY DEF TypeOK
    <3> QED BY <3>1, SeqAfterType
  <2>3. taken \in Seq(Nat)
    <3>1. delivered[e] \in Seq(Nat) BY DEF TypeOK
    <3>2. p.body \in Nat BY <2>1 DEF Sequenced
    <3> QED BY <3>1, <3>2
  <2>4. ack \in Packets
    <3>1. Len(taken) \in Nat BY <2>3
    <3> QED BY <2>2, <3>1 DEF Packets, Sequenced
  <2>5. Exchange(e, p, keep, {ack})
    BY <1>6 DEF ReliablePacket
  <2>6. net' \in [Endpoints -> SUBSET Packets]
    BY <2>4, <2>5, ExchangeType
  <2>7. /\ reliable_recv_seq' = [reliable_recv_seq EXCEPT ![e] = seq]
        /\ delivered' = [delivered EXCEPT ![e] = taken]
        /\ Arrives(e, p)
        /\ UNCHANGED <<conn, reliable_packets, reliable_send_seq, sent>>
    BY <1>6 DEF ReliablePacket
  <2> HIDE DEF seq, taken
  <2> QED BY <2>2, <2>3, <2>6, <2>7 DEF Arrives, TypeOK, conn
<1>7. ASSUME NEW p \in net[e], ParseReliableACK(e, p, keep)
      PROVE  TypeOK'
  <2>1. net' \in [Endpoints -> SUBSET Packets]
    BY <1>7, ExchangeType DEF ParseReliableACK
  <2>2. reliable_packets' \in [Endpoints -> Seq(Sequenced)]
    <3>1. reliable_packets[e] \in Seq(Sequenced) BY DEF TypeOK
    <3>2. (IF AcksHead(e, p) THEN Tail(reliable_packets[e])
                             ELSE reliable_packets[e]) \in Seq(Sequenced)
      BY <3>1 DEF AcksHead
    <3> QED BY <1>7, <3>2 DEF ParseReliableACK, TypeOK
  <2> QED BY <1>7, <2>1, <2>2 DEF ParseReliableACK, Arrives, TypeOK, conn
<1> QED BY <1>0, <1>1, <1>2, <1>3, <1>4, <1>5, <1>6, <1>7

LEMMA TypeRun ==
  ASSUME TypeOK, NEW e \in Endpoints, Run(e)
  PROVE  TypeOK'
<1>1. ASSUME NEW keepalive \in BOOLEAN, NEW resend \in BOOLEAN,
             RunConnected(e, keepalive, resend)
      PROVE  TypeOK'
  <2> DEFINE out == (IF keepalive THEN {KEEPALIVE} ELSE {})
                    \cup (IF resend THEN {Head(reliable_packets[e])} ELSE {})
  <2>1. out \in SUBSET Packets
    <3>1. reliable_packets[e] \in Seq(Sequenced) BY DEF TypeOK
    <3>2. resend => Head(reliable_packets[e]) \in Packets
      BY <1>1, <3>1 DEF RunConnected, Packets
    <3> QED BY <3>2, PlainPackets
  <2>2. net' \in [Endpoints -> SUBSET Packets]
    BY <1>1, <2>1, PostType DEF RunConnected
  <2>3. /\ state' \in [Endpoints -> States]
        /\ reason' \in [Endpoints -> Reasons]
        /\ open' \in [Endpoints -> BOOLEAN]
    <3>1. \/ /\ state' = [state EXCEPT ![e] = "DISCONNECTED"]
             /\ reason' = [reason EXCEPT ![e] = "TIMEOUT"]
             /\ open' = [open EXCEPT ![e] = FALSE]
          \/ UNCHANGED <<state, reason, open>>
      BY <1>1 DEF RunConnected
    <3>2. CASE UNCHANGED <<state, reason, open>>
      BY <3>2 DEF TypeOK
    <3>3. CASE /\ state' = [state EXCEPT ![e] = "DISCONNECTED"]
               /\ reason' = [reason EXCEPT ![e] = "TIMEOUT"]
               /\ open' = [open EXCEPT ![e] = FALSE]
      BY <3>3 DEF TypeOK, States, Reasons
    <3> QED BY <3>1, <3>2, <3>3
  <2>4. UNCHANGED <<num_retries, stream, silent, losses>>
    BY <1>1 DEF RunConnected
  <2> QED BY <2>2, <2>3, <2>4 DEF TypeOK, stream
<1>2. ASSUME NEW st, NEW p \in Packets, NEW why \in Reasons,
             Retry(e, st, p, why)
      PROVE  TypeOK'
  <2>1. CASE num_retries[e] < MaxRetries
    <3>1. net' \in [Endpoints -> SUBSET Packets]
      BY <1>2, <2>1, PostType DEF Retry
    <3>2. num_retries' \in [Endpoints -> 0..MaxRetries]
      BY <1>2, <2>1, BoundsAssumption DEF Retry, TypeOK
    <3> QED BY <1>2, <2>1, <3>1, <3>2 DEF Retry, TypeOK, stream
  <2>2. CASE ~(num_retries[e] < MaxRetries)
    <3>1. /\ state' = [state EXCEPT ![e] = "DISCONNECTED"]
          /\ reason' = [reason EXCEPT ![e] = why]
          /\ open' = [open EXCEPT ![e] = FALSE]
          /\ UNCHANGED <<num_retries, net, stream, silent, losses>>
      BY <1>2, <2>2 DEF Retry
    <3>2. /\ state' \in [Endpoints -> States]
          /\ reason' \in [Endpoints -> Reasons]
          /\ open' \in [Endpoints -> BOOLEAN]
      BY <3>1 DEF TypeOK, States
    <3> QED BY <3>1, <3>2 DEF TypeOK, stream
  <2> QED BY <2>1, <2>2
<1>3. CASE RunWaitingACK(e)
  BY <1>2, <1>3, PlainPackets DEF RunWaitingACK, Reasons
<1>4. CASE RunDisconnecting(e)
  BY <1>2, <1>4, PlainPackets DEF RunDisconnecting, Reasons
<1>5. CASE RunSleep(e)
  BY <1>5 DEF RunSleep, TypeOK, States, Reasons, stream
<1>6. CASE RunDisconnected(e)
  BY <1>6 DEF RunDisconnected, TypeOK, conn, stream
<1> QED BY <1>1, <1>3, <1>4, <1>5, <1>6 DEF Run

LEMMA TypeNext == TypeOK /\ [Next]_vars => TypeOK'
<1> SUFFICES ASSUME TypeOK, [Next]_vars PROVE TypeOK'
  OBVIOUS
<1>1. ASSUME NEW e \in Endpoints, Receive(e) PROVE TypeOK'
  BY <1>1, TypeReceive
<1>2. ASSUME NEW e \in Endpoints, Run(e) PROVE TypeOK'
  BY <1>2, TypeRun
<1>3. ASSUME NEW e \in Endpoints, Elapse(e) PROVE TypeOK'
  BY <1>3 DEF Elapse, TypeOK, conn, stream
<1>4. ASSUME NEW e \in Endpoints, Disconnect(e) PROVE TypeOK'
  BY <1>4, BoundsAssumption DEF Disconnect, TypeOK, States, Reasons, stream
<1>5. ASSUME NEW e \in Endpoints, NewReliable(e) PROVE TypeOK'
  <2> DEFINE rp == [type |-> "RELIABLE", seq |-> reliable_send_seq[e],
                    body |-> sent[e] + 1]
  <2>1. rp \in Sequenced
    BY DEF TypeOK, Sequenced
  <2>2. reliable_packets' \in [Endpoints -> Seq(Sequenced)]
    <3>1. reliable_packets[e] \in Seq(Sequenced) BY DEF TypeOK
    <3>2. Append(reliable_packets[e], rp) \in Seq(Sequenced) BY <2>1, <3>1
    <3> QED BY <1>5, <3>2 DEF NewReliable, TypeOK
  <2>3. reliable_send_seq' \in [Endpoints -> 0..(Modulus - 1)]
    <3>1. reliable_send_seq[e] \in Nat
      BY ModulusAssumption DEF TypeOK
    <3>2. SeqAfter(reliable_send_seq[e]) \in 0..(Modulus - 1)
      BY <3>1, SeqAfterType
    <3> QED BY <1>5, <3>2 DEF NewReliable, TypeOK
  <2>4. sent' \in [Endpoints -> Nat]
    BY <1>5 DEF NewReliable, TypeOK
  <2>5. UNCHANGED <<conn, reliable_recv_seq, delivered, open, silent, net,
                    losses>>
    BY <1>5 DEF NewReliable
  <2> QED BY <2>2, <2>3, <2>4, <2>5 DEF TypeOK, conn
<1>6. ASSUME NEW e \in Endpoints, Lose(e) PROVE TypeOK'
  BY <1>6, BoundsAssumption DEF Lose, TypeOK, conn, stream
<1>7. CASE ClientGivesUp
  BY <1>7 DEF ClientGivesUp, TypeOK, conn, stream
<1>8. CASE ServerRejects
  <2>1. net' \in [Endpoints -> SUBSET Packets]
    BY <1>8, PostType, PlainPackets DEF ServerRejects
  <2> QED BY <1>8, <2>1 DEF ServerRejects, TypeOK, conn, stream
<1>9. CASE UNCHANGED vars
  BY <1>9 DEF vars, conn, stream, TypeOK
<1> QED
  BY <1>1, <1>2, <1>3, <1>4, <1>5, <1>6, <1>7, <1>8, <1>9 DEF Next

(* Every variable of the connection layer stays within its type, in        *)
(* particular the sequence numbers within a byte and the retries within    *)
(* MAX_RETRIES.                                                            *)
THEOREM TypeCorrect == Spec => []TypeOK
BY TypeInit, TypeNext, PTL DEF Spec
-----------------------------------------------------------------------------
(* Arithmetic of the sequence numbers.                                     *)

LEMMA DivMod ==
  ASSUME NEW a \in Nat
  PROVE  /\ a = Modulus * (a \div Modulus) + (a % Modulus)
         /\ a % Modulus \in 0..(Modulus - 1)
         /\ a \div Modulus \in Nat
BY ModulusAssumption

LEMMA DivModUnique ==
  ASSUME NEW q1 \in Nat, NEW q2 \in Nat,
         NEW r1 \in 0..(Modulus - 1), NEW r2 \in 0..(Modulus - 1),
         Modulus * q1 + r1 = Modulus * q2 + r2
  PROVE  q1 = q2 /\ r1 = r2
<1> USE ModulusAssumption
<1>1. ASSUME NEW a \in Nat, NEW b \in Nat, a < b
      PROVE  Modulus * a + Modulus <= Modulus * b
  <2>1. a + 1 <= b BY <1>1
  <2>2. Modulus * (a + 1) <= Modulus * b BY <2>1
  <2> QED BY <2>2
<1>2. CASE q1 < q2
  <2>1. Modulus * q1 + Modulus <= Modulus * q2 BY <1>1, <1>2
  <2> QED BY <2>1
<1>3. CASE q2 < q1
  <2>1. Modulus * q2 + Modulus <= Modulus * q1 BY <1>1, <1>3
  <2> QED BY <2>1
<1>4. CASE q1 = q2
  BY <1>4
<1> QED BY <1>2, <1>3, <1>4

(* Counting modulo Modulus is the code's increment of the low byte.        *)
LEMMA SeqAfterMod ==
  ASSUME NEW n \in Nat
  PROVE  SeqAfter(n % Modulus) = (n + 1) % Modulus
<1> DEFINE q == n \div Modulus          r == n % Modulus
           q1 == (n + 1) \div Modulus   r1 == (n + 1) % Modulus
           q2 == (r + 1) \div Modulus   r2 == (r + 1) % Modulus
<1>1. n = Modulus * q + r /\ r \in 0..(Modulus - 1) /\ q \in Nat
  BY DivMod
<1>2. n + 1 = Modulus * q1 + r1 /\ r1 \in 0..(Modulus - 1) /\ q1 \in Nat
  <2>1. n + 1 \in Nat OBVIOUS
  <2> QED BY <2>1, DivMod
<1>3. r + 1 = Modulus * q2 + r2 /\ r2 \in 0..(Modulus - 1) /\ q2 \in Nat
  <2>1. r + 1 \in Nat BY <1>1
  <2> QED BY <2>1, DivMod
<1> HIDE DEF q, r, q1, r1, q2, r2
<1>4. Modulus * q1 + r1 = Modulus * (q + q2) + r2
  BY <1>1, <1>2, <1>3, ModulusAssumption
<1>5. r1 = r2
  <2>1. q + q2 \in Nat BY <1>1, <1>3
  <2> QED BY <1>2, <1>3, <1>4, <2>1, DivModUnique
<1> QED BY <1>5 DEF r1, r2, r, SeqAfter

(* Two positions closer than Modulus with the same number are the same.    *)
LEMMA SameSeq ==
  ASSUME NEW a \in Nat, NEW b \in Nat,
         a <= b, b - a < Modulus, a % Modulus = b % Modulus
  PROVE  a = b
<1> DEFINE p == a \div Modulus  q == b \div Modulus
<1>1. a = Modulus * p + (a % Modulus) /\ p \in Nat /\ a % Modulus \in Nat
  BY DivMod
<1>2. b = Modulus * q + (a % Modulus) /\ q \in Nat
  BY DivMod
<1> HIDE DEF p, q
<1>3. ASSUME NEW x \in Nat, NEW y \in Nat, x < y
      PROVE  Modulus * x + Modulus <= Modulus * y
  <2>1. x + 1 <= y BY <1>3
  <2>2. Modulus * (x + 1) <= Modulus * y BY <2>1, ModulusAssumption
  <2> QED BY <2>2, ModulusAssumption
<1>4. CASE p = q
  BY <1>1, <1>2, <1>4
<1>5. CASE p < q
  BY <1>1, <1>2, <1>3, <1>5, ModulusAssumption
<1>6. CASE q < p
  BY <1>1, <1>2, <1>3, <1>6, ModulusAssumption
<1> QED BY <1>1, <1>2, <1>4, <1>5, <1>6

-----------------------------------------------------------------------------
(* The inductive invariant of the stream from e to its peer: the wire      *)
(* numbers count the history variables, the sender's list holds exactly    *)
(* the payloads not yet acknowledged, at most the first of which has been  *)
(* delivered, and the network holds only packets of that past.             *)

Payload(n) == [type |-> "RELIABLE", seq |-> (n - 1) % Modulus, body |-> n]

Count(e) == Len(delivered[Peer[e]])

SeqInv(e) == /\ reliable_send_seq[e] = sent[e] % Modulus
             /\ reliable_recv_seq[Peer[e]] = Count(e) % Modulus

ListInv(e) == /\ Len(reliable_packets[e]) <= sent[e]
              /\ \A i \in 1..Len(reliable_packets[e]) :
                    reliable_packets[e][i] = Payload(Acked(e) + i)

WindowInv(e) == /\ Acked(e) <= Count(e)
                /\ Count(e) <= Acked(e) + 1
                /\ Count(e) <= sent[e]

DataInv(e) == \A p \in net[Peer[e]] : p.type = "RELIABLE" =>
                 /\ p.body >= 1 /\ p.body <= Acked(e) + 1 /\ p.body <= sent[e]
                 /\ p.seq = (p.body - 1) % Modulus

AckInv(e) == \A p \in net[e] : p.type = "RELIABLE_ACK" =>
                /\ p.body <= Count(e)
                /\ p.seq = p.body % Modulus

OrderInv(e) == delivered[Peer[e]] = [i \in 1..Count(e) |-> i]

StreamInv(e) == /\ SeqInv(e) /\ ListInv(e) /\ WindowInv(e)
                /\ DataInv(e) /\ AckInv(e) /\ OrderInv(e)

IInv == TypeOK /\ \A e \in Endpoints : StreamInv(e)

LEMMA StreamTypes ==
  ASSUME TypeOK, NEW e \in Endpoints
  PROVE  /\ delivered[Peer[e]] \in Seq(Nat)
         /\ Count(e) \in Nat
         /\ reliable_packets[e] \in Seq(Sequenced)
         /\ Len(reliable_packets[e]) \in Nat
         /\ sent[e] \in Nat
         /\ Acked(e) \in Int
         /\ Acked(e) = sent[e] - Len(reliable_packets[e])
BY PeerFacts DEF TypeOK, Count, Acked

LEMMA SequencedPacket ==
  ASSUME TypeOK, NEW e \in Endpoints, NEW p \in net[e],
         p.type \in {"RELIABLE", "RELIABLE_ACK"}
  PROVE  p \in Sequenced /\ p.body \in Nat
<1>1. p \in Packets BY DEF TypeOK
<1>2. p \in Sequenced
  BY <1>1 DEF Packets, Plain, ACK, DISCONNECT, DISCONNECT_ACK, KEEPALIVE,
              REJECTED
<1> QED BY <1>2 DEF Sequenced

LEMMA HeadPayload ==
  ASSUME IInv, NEW e \in Endpoints, reliable_packets[e] # <<>>
  PROVE  /\ Head(reliable_packets[e]) = Payload(Acked(e) + 1)
         /\ Acked(e) + 1 <= sent[e]
         /\ Acked(e) \in Nat
<1>1. reliable_packets[e] \in Seq(Sequenced) /\ Len(reliable_packets[e]) >= 1
  BY StreamTypes DEF IInv
<1>2. Head(reliable_packets[e]) = reliable_packets[e][1]
  BY <1>1
<1>3. ListInv(e) BY DEF IInv, StreamInv
<1>4. reliable_packets[e][1] = Payload(Acked(e) + 1)
  BY <1>1, <1>3 DEF ListInv
<1>5. Len(reliable_packets[e]) <= sent[e]
  BY <1>3 DEF ListInv
<1>6. Acked(e) + 1 <= sent[e] /\ Acked(e) \in Nat
  <2>1. /\ Len(reliable_packets[e]) \in Nat /\ sent[e] \in Nat
        /\ Acked(e) = sent[e] - Len(reliable_packets[e])
    BY StreamTypes DEF IInv
  <2> QED BY <1>1, <1>5, <2>1
<1> QED BY <1>2, <1>4, <1>6

(* A step that leaves the stream of e alone and only takes packets of it   *)
(* out of the network, or resends the first of its list.                   *)
LEMMA StreamFrame ==
  ASSUME IInv, NEW e \in Endpoints,
         reliable_packets'[e] = reliable_packets[e],
         reliable_send_seq'[e] = reliable_send_seq[e],
         reliable_recv_seq'[Peer[e]] = reliable_recv_seq[Peer[e]],
         sent'[e] = sent[e],
         delivered'[Peer[e]] = delivered[Peer[e]],
         \A p \in net'[Peer[e]] : p.type = "RELIABLE" =>
            \/ p \in net[Peer[e]]
            \/ reliable_packets[e] # <<>> /\ p = Head(reliable_packets[e]),
         \A p \in net'[e] : p.type = "RELIABLE_ACK" => p \in net[e]
  PROVE  StreamInv(e)'
<1>1. Acked(e)' = Acked(e) /\ Count(e)' = Count(e)
  BY DEF Acked, Count
<1>2. StreamInv(e) BY DEF IInv
<1>3. SeqInv(e)' BY <1>1, <1>2 DEF StreamInv, SeqInv
<1>4. ListInv(e)' BY <1>1, <1>2 DEF StreamInv, ListInv
<1>5. WindowInv(e)' BY <1>1, <1>2 DEF StreamInv, WindowInv
<1>6. DataInv(e)'
  <2> SUFFICES ASSUME NEW p \in net'[Peer[e]], p.type = "RELIABLE"
               PROVE  /\ p.body >= 1 /\ p.body <= Acked(e) + 1
                      /\ p.body <= sent[e]
                      /\ p.seq = (p.body - 1) % Modulus
    BY <1>1 DEF DataInv
  <2>1. CASE p \in net[Peer[e]]
    BY <1>2, <2>1 DEF StreamInv, DataInv
  <2>2. CASE reliable_packets[e] # <<>> /\ p = Head(reliable_packets[e])
    BY <2>2, HeadPayload DEF Payload
  <2> QED BY <2>1, <2>2
<1>7. AckInv(e)' BY <1>1, <1>2 DEF StreamInv, AckInv
<1>8. OrderInv(e)' BY <1>1, <1>2 DEF StreamInv, OrderInv
<1> QED BY <1>3, <1>4, <1>5, <1>6, <1>7, <1>8 DEF StreamInv

LEMMA ExchangeMembers ==
  ASSUME TypeOK, NEW e \in Endpoints, NEW p, NEW keep \in BOOLEAN, NEW out,
         Exchange(e, p, keep, out)
  PROVE  /\ \A q \in net'[e] : q \in net[e]
         /\ \A q \in net'[Peer[e]] : q \in net[Peer[e]] \/ q \in out
<1>1. net'[Peer[e]] = Carry(net[Peer[e]], out)
  BY PeerFacts DEF Exchange, TypeOK
<1>2. net'[e] = IF keep THEN net[e] ELSE net[e] \ {p}
  BY PeerFacts DEF Exchange, TypeOK
<1> QED BY <1>1, <1>2, CarrySubset

LEMMA PostMembers ==
  ASSUME TypeOK, NEW e \in Endpoints, NEW out, Post(e, out)
  PROVE  /\ net'[e] = net[e]
         /\ \A q \in net'[Peer[e]] : q \in net[Peer[e]] \/ q \in out
<1>1. net'[Peer[e]] = Carry(net[Peer[e]], out)
  BY PeerFacts DEF Post, TypeOK
<1> QED BY <1>1, CarrySubset, PeerFacts DEF Post, TypeOK

LEMMA NextPayload ==
  ASSUME NEW n \in Nat
  PROVE  Payload(n + 1) = [type |-> "RELIABLE", seq |-> n % Modulus,
                           body |-> n + 1]
<1>1. (n + 1) - 1 = n
  OBVIOUS
<1> QED BY <1>1 DEF Payload

LEMMA TwoEnds ==
  ASSUME NEW e \in Endpoints, NEW f \in Endpoints
  PROVE  f = e \/ f = Peer[e]
BY DEF Peer

-----------------------------------------------------------------------------
(* One step of the stream at a time.                                       *)

(* A step that changes neither list, number nor history, and posts only    *)
(* control packets or the first packet of a list.                          *)
LEMMA QuietStep ==
  ASSUME IInv, UNCHANGED stream,
         \A e \in Endpoints : \A p \in net'[e] :
            \/ p \in net[e]
            \/ p \in Plain
            \/ /\ reliable_packets[Peer[e]] # <<>>
               /\ p = Head(reliable_packets[Peer[e]])
  PROVE  \A e \in Endpoints : StreamInv(e)'
<1> SUFFICES ASSUME NEW e \in Endpoints PROVE StreamInv(e)'
  OBVIOUS
<1>1. ASSUME NEW p \in Plain
      PROVE  p.type # "RELIABLE" /\ p.type # "RELIABLE_ACK"
  BY DEF Plain, ACK, DISCONNECT, DISCONNECT_ACK, KEEPALIVE, REJECTED
<1>2. \A p \in net'[Peer[e]] : p.type = "RELIABLE" =>
         \/ p \in net[Peer[e]]
         \/ reliable_packets[e] # <<>> /\ p = Head(reliable_packets[e])
  BY <1>1, PeerFacts
<1>3. \A p \in net'[e] : p.type = "RELIABLE_ACK" => p \in net[e]
  <2> SUFFICES ASSUME NEW p \in net'[e], p.type = "RELIABLE_ACK"
               PROVE  p \in net[e]
    OBVIOUS
  <2>1. CASE p \in Plain
    BY <1>1, <2>1
  <2>2. CASE /\ reliable_packets[Peer[e]] # <<>>
             /\ p = Head(reliable_packets[Peer[e]])
    BY <2>2, HeadPayload, PeerFacts DEF Payload
  <2> QED BY <2>1, <2>2
<1> QED BY <1>2, <1>3, StreamFrame DEF stream

LEMMA StreamReliablePacket ==
  ASSUME IInv, TypeOK', NEW f \in Endpoints, NEW p \in net[f],
         NEW keep \in BOOLEAN, ReliablePacket(f, p, keep)
  PROVE  \A e \in Endpoints : StreamInv(e)'
<1> DEFINE e     == Peer[f]
           d     == Count(e)
           h     == Acked(e)
           seq   == IF Expected(f, p) THEN SeqAfter(reliable_recv_seq[f])
                                      ELSE reliable_recv_seq[f]
           taken == IF Expected(f, p) THEN Append(delivered[f], p.body)
                                      ELSE delivered[f]
           ack   == [type |-> "RELIABLE_ACK", seq |-> seq,
                     body |-> Len(taken)]
<1>1. e \in Endpoints /\ Peer[e] = f /\ e # f
  BY PeerFacts
<1>2. /\ p.type = "RELIABLE" /\ p.body + Modulus > Len(delivered[f]) + 1
      /\ reliable_recv_seq' = [reliable_recv_seq EXCEPT ![f] = seq]
      /\ delivered' = [delivered EXCEPT ![f] = taken]
      /\ Exchange(f, p, keep, {ack})
      /\ UNCHANGED <<reliable_packets, reliable_send_seq, sent>>
  BY DEF ReliablePacket, Fresh
<1>3. /\ reliable_recv_seq'[f] = seq /\ delivered'[f] = taken
      /\ reliable_recv_seq'[e] = reliable_recv_seq[e]
      /\ delivered'[e] = delivered[e]
  BY <1>1, <1>2 DEF IInv, TypeOK
<1>4. /\ \A q \in net'[f] : q \in net[f]
      /\ \A q \in net'[e] : q \in net[e] \/ q = ack
  <2>1. TypeOK BY DEF IInv
  <2>2. Exchange(f, p, keep, {ack}) BY <1>2
  <2>3. /\ \A q \in net'[f] : q \in net[f]
        /\ \A q \in net'[Peer[f]] : q \in net[Peer[f]] \/ q \in {ack}
    <3> HIDE DEF ack, seq, taken, d, h, e
    <3> QED BY <2>1, <2>2, ExchangeMembers, Zenon
  <2> HIDE DEF ack
  <2> QED BY <2>3
<1>5. StreamInv(f)'
  BY <1>1, <1>2, <1>3, <1>4, StreamFrame
<1>6. /\ StreamInv(e) /\ TypeOK
      /\ d = Len(delivered[f]) /\ d \in Nat /\ h \in Int
      /\ delivered[f] \in Seq(Nat) /\ sent[e] \in Nat
  BY <1>1, StreamTypes DEF IInv, Count
<1>7. /\ p.body \in Nat /\ p.body >= 1 /\ p.body <= h + 1
      /\ p.body <= sent[e] /\ p.seq = (p.body - 1) % Modulus
  BY <1>1, <1>2, <1>6, SequencedPacket DEF StreamInv, DataInv
<1>8. /\ reliable_recv_seq[f] = d % Modulus
      /\ reliable_send_seq[e] = sent[e] % Modulus
      /\ h <= d /\ d <= h + 1 /\ d <= sent[e]
      /\ delivered[f] = [i \in 1..d |-> i]
  BY <1>1, <1>6 DEF StreamInv, SeqInv, WindowInv, OrderInv
<1>9. Acked(e)' = h
  BY <1>2 DEF Acked
<1>10. Count(e)' = Len(taken)
  BY <1>1, <1>3 DEF Count
<1>11. Expected(f, p) => p.body = d + 1
  <2> SUFFICES ASSUME Expected(f, p) PROVE p.body = d + 1
    OBVIOUS
  <2>1. (p.body - 1) % Modulus = d % Modulus
    BY <1>7, <1>8 DEF Expected
  <2>2. p.body - 1 \in Nat /\ p.body - 1 <= d /\ d - (p.body - 1) < Modulus
    <3>1. p.body + Modulus > d + 1 /\ p.body <= h + 1 /\ h <= d
      BY <1>2, <1>6, <1>7, <1>8
    <3>2. p.body \in Nat /\ p.body >= 1 /\ d \in Nat /\ h \in Int
      BY <1>6, <1>7
    <3> HIDE DEF d, h
    <3> QED BY <3>1, <3>2, ModulusAssumption
  <2>3. p.body - 1 = d
    BY <1>6, <2>1, <2>2, SameSeq
  <2> QED BY <1>7, <2>3
<1>12. \/ Len(taken) = d /\ taken = delivered[f] /\ seq = d % Modulus
       \/ /\ Len(taken) = d + 1 /\ seq = (d + 1) % Modulus
          /\ taken = Append(delivered[f], d + 1)
          /\ d + 1 <= sent[e] /\ d = h
  <2>1. CASE Expected(f, p)
    <3>1. taken = Append(delivered[f], d + 1)
      BY <1>11, <2>1
    <3>2. Len(taken) = d + 1
      BY <1>6, <3>1
    <3>3. seq = (d + 1) % Modulus
      BY <1>6, <1>8, <2>1, SeqAfterMod
    <3>4. d + 1 <= sent[e] /\ d = h
      BY <1>6, <1>7, <1>8, <1>11, <2>1
    <3> QED BY <3>1, <3>2, <3>3, <3>4
  <2>2. CASE ~Expected(f, p)
    BY <1>6, <1>8, <2>2
  <2> QED BY <2>1, <2>2
<1> HIDE DEF d, h, seq, taken
<1>13. Len(taken) \in Nat /\ Len(taken) >= d /\ seq = Len(taken) % Modulus
  BY <1>6, <1>12
<1>14. SeqInv(e)'
  BY <1>1, <1>2, <1>3, <1>8, <1>10, <1>13 DEF SeqInv
<1>15. ListInv(e)'
  BY <1>2, <1>6, <1>9 DEF StreamInv, ListInv, h
<1>16. WindowInv(e)'
  BY <1>2, <1>6, <1>8, <1>9, <1>10, <1>12 DEF WindowInv
<1>17. DataInv(e)'
  <2> SUFFICES ASSUME NEW q \in net'[f], q.type = "RELIABLE"
               PROVE  /\ q.body >= 1 /\ q.body <= h + 1
                      /\ q.body <= sent[e]
                      /\ q.seq = (q.body - 1) % Modulus
    BY <1>1, <1>2, <1>9 DEF DataInv
  <2>1. q \in net[f] BY <1>4
  <2> QED BY <1>1, <1>6, <2>1 DEF StreamInv, DataInv, h
<1>18. AckInv(e)'
  <2> SUFFICES ASSUME NEW q \in net'[e], q.type = "RELIABLE_ACK"
               PROVE  q.body <= Len(taken) /\ q.seq = q.body % Modulus
    BY <1>10 DEF AckInv
  <2>1. CASE q \in net[e]
    <3>1. q.body <= d /\ q.seq = q.body % Modulus
      BY <1>6, <2>1 DEF StreamInv, AckInv, d
    <3>2. q.body \in Nat
      BY <1>1, <1>6, <2>1, SequencedPacket
    <3> QED BY <1>6, <1>13, <3>1, <3>2
  <2>2. CASE q = ack
    BY <1>13, <2>2
  <2> QED BY <1>4, <2>1, <2>2
<1>19. OrderInv(e)'
  <2>1. taken = [i \in 1..Len(taken) |-> i]
    <3>1. CASE taken = delivered[f] /\ Len(taken) = d
      BY <1>8, <3>1
    <3>2. CASE taken = Append(delivered[f], d + 1) /\ Len(taken) = d + 1
      <4>1. Append(delivered[f], d + 1) = [i \in 1..(d + 1) |->
                 IF i = d + 1 THEN d + 1 ELSE delivered[f][i]]
        BY <1>6 DEF d
      <4>2. \A i \in 1..(d + 1) : i # d + 1 => delivered[f][i] = i
        BY <1>6, <1>8
      <4> QED BY <3>2, <4>1, <4>2
    <3> QED BY <1>12, <3>1, <3>2
  <2> QED BY <1>1, <1>3, <1>10, <2>1 DEF OrderInv
<1>20. StreamInv(e)'
  BY <1>14, <1>15, <1>16, <1>17, <1>18, <1>19 DEF StreamInv
<1> QED BY <1>5, <1>20, TwoEnds

LEMMA StreamReliableACK ==
  ASSUME IInv, TypeOK', NEW e \in Endpoints, NEW p \in net[e],
         NEW keep \in BOOLEAN, ParseReliableACK(e, p, keep)
  PROVE  \A f \in Endpoints : StreamInv(f)'
<1> DEFINE f == Peer[e]
           d == Count(e)
           h == Acked(e)
           L == reliable_packets[e]
<1>1. f \in Endpoints /\ Peer[f] = e /\ e # f
  BY PeerFacts
<1>2. /\ p.type = "RELIABLE_ACK" /\ p.body + Modulus > h + 1
      /\ Exchange(e, p, keep, {})
      /\ reliable_packets' = [reliable_packets EXCEPT ![e] =
                                IF AcksHead(e, p) THEN Tail(@) ELSE @]
      /\ UNCHANGED <<reliable_send_seq, reliable_recv_seq, sent, delivered>>
  BY DEF ParseReliableACK, Fresh
<1>3. /\ reliable_packets'[e] = IF AcksHead(e, p) THEN Tail(L) ELSE L
      /\ reliable_packets'[f] = reliable_packets[f]
  BY <1>1, <1>2 DEF IInv, TypeOK
<1>4. /\ \A q \in net'[e] : q \in net[e]
      /\ \A q \in net'[f] : q \in net[f]
  <2> DEFINE none == {}
  <2>1. Exchange(e, p, keep, none) BY <1>2
  <2>2. TypeOK BY DEF IInv
  <2>3. \A q : q \notin none OBVIOUS
  <2> HIDE DEF none
  <2> QED BY <2>1, <2>2, <2>3, ExchangeMembers
<1>5. StreamInv(f)'
  BY <1>1, <1>2, <1>3, <1>4, StreamFrame
<1>6. CASE ~AcksHead(e, p)
  <2>1. StreamInv(e)'
    BY <1>1, <1>2, <1>3, <1>4, <1>6, StreamFrame
  <2> QED BY <1>5, <2>1, TwoEnds
<1>7. CASE AcksHead(e, p)
  <2>1. /\ L # <<>> /\ p.seq = SeqAfter(Head(L).seq)
        /\ reliable_packets'[e] = Tail(L)
    BY <1>3, <1>7 DEF AcksHead
  <2>2. Head(L) = Payload(h + 1) /\ h + 1 <= sent[e] /\ h \in Nat
    BY <2>1, HeadPayload
  <2>3. /\ L \in Seq(Sequenced) /\ Len(L) \in Nat /\ sent[e] \in Nat
        /\ h = sent[e] - Len(L) /\ d \in Nat
    BY StreamTypes DEF IInv
  <2>4. p.body \in Nat /\ p.body <= d /\ p.seq = p.body % Modulus
    BY <1>2, SequencedPacket DEF IInv, StreamInv, AckInv
  <2>5. h <= d /\ d <= h + 1 /\ d <= sent[e]
    BY DEF IInv, StreamInv, WindowInv
  <2>6. p.body = h + 1
    <3>1. p.seq = (h + 1) % Modulus
      <4>1. Head(L).seq = h % Modulus
        BY <2>2 DEF Payload
      <4> QED BY <2>1, <2>2, <4>1, SeqAfterMod
    <3>3. p.body + Modulus > h + 1 BY <1>2
    <3> HIDE DEF d, h
    <3>2. h + 1 \in Nat /\ p.body <= h + 1 /\ h + 1 - p.body < Modulus
      <4>1. h \in Nat /\ d \in Nat /\ p.body \in Nat
        BY <2>2, <2>3, <2>4
      <4>2. p.body <= d /\ d <= h + 1
        BY <2>4, <2>5
      <4> HIDE DEF L
      <4> QED BY <3>3, <4>1, <4>2, ModulusAssumption
    <3>4. p.body % Modulus = (h + 1) % Modulus
      BY <2>4, <3>1
    <3>5. p.body \in Nat BY <2>4
    <3> DEFINE a == p.body  b == h + 1
    <3>6. /\ a \in Nat /\ b \in Nat /\ a <= b /\ b - a < Modulus
          /\ a % Modulus = b % Modulus
      <4>1. h \in Int
        BY <2>3
      <4> HIDE DEF L, f
      <4> QED BY <4>1, <3>2, <3>4, <3>5, ModulusAssumption
    <3>7. a = b
      <4> HIDE DEF a, b
      <4> QED BY <3>6, SameSeq
    <3> QED BY <3>7
  <2>7. d = h + 1
    <3> HIDE DEF d, h
    <3> QED BY <2>2, <2>3, <2>4, <2>5, <2>6
  <2>8. Len(Tail(L)) = Len(L) - 1 /\ Len(L) >= 1
    BY <2>1, <2>3
  <2>9. Acked(e)' = h + 1 /\ Count(e)' = d
    <3>1. Acked(e)' = sent[e] - Len(Tail(L))
      BY <1>2, <2>1 DEF Acked
    <3> HIDE DEF h
    <3> QED BY <1>2, <2>3, <2>8, <3>1 DEF Count
  <2>10. SeqInv(e)'
    BY <1>2, <2>9 DEF IInv, StreamInv, SeqInv
  <2>11. ListInv(e)'
    <3>1. Len(reliable_packets[e])' <= sent[e]'
      BY <1>2, <2>1, <2>2, <2>3, <2>8
    <3>2. ASSUME NEW i \in 1..Len(Tail(L))
          PROVE  Tail(L)[i] = Payload(h + 1 + i)
      <4>1. i + 1 \in 1..Len(L) /\ Tail(L)[i] = L[i + 1]
        BY <2>1, <2>3, <2>8
      <4>2. L[i + 1] = Payload(h + (i + 1))
        BY <4>1 DEF IInv, StreamInv, ListInv
      <4>3. h + (i + 1) = h + 1 + i
        BY <2>2
      <4> QED BY <4>1, <4>2, <4>3
    <3> QED BY <2>1, <2>9, <3>1, <3>2 DEF ListInv
  <2>12. WindowInv(e)'
    <3> HIDE DEF d, h
    <3> QED BY <1>2, <2>2, <2>3, <2>5, <2>7, <2>9 DEF WindowInv
  <2>13. DataInv(e)'
    <3> SUFFICES ASSUME NEW q \in net'[f], q.type = "RELIABLE"
                 PROVE  /\ q.body >= 1 /\ q.body <= h + 1 + 1
                        /\ q.body <= sent[e]
                        /\ q.seq = (q.body - 1) % Modulus
      BY <1>2, <2>9 DEF DataInv
    <3>1. q \in net[f] BY <1>4
    <3>2. /\ q.body >= 1 /\ q.body <= h + 1 /\ q.body <= sent[e]
          /\ q.seq = (q.body - 1) % Modulus
      BY <3>1 DEF IInv, StreamInv, DataInv
    <3>3. q.body \in Nat
      BY <1>1, <3>1, SequencedPacket DEF IInv
    <3> HIDE DEF h
    <3> QED BY <2>2, <3>2, <3>3
  <2>14. AckInv(e)'
    BY <1>4, <2>9 DEF IInv, StreamInv, AckInv
  <2>15. OrderInv(e)'
    BY <1>2, <2>9 DEF IInv, StreamInv, OrderInv
  <2>16. StreamInv(e)'
    BY <2>10, <2>11, <2>12, <2>13, <2>14, <2>15 DEF StreamInv
  <2> QED BY <1>5, <2>16, TwoEnds
<1> QED BY <1>6, <1>7

LEMMA StreamNewReliable ==
  ASSUME IInv, TypeOK', NEW e \in Endpoints, NewReliable(e)
  PROVE  \A f \in Endpoints : StreamInv(f)'
<1> DEFINE f  == Peer[e]
           h  == Acked(e)
           L  == reliable_packets[e]
           rp == [type |-> "RELIABLE", seq |-> reliable_send_seq[e],
                  body |-> sent[e] + 1]
<1>1. f \in Endpoints /\ Peer[f] = e /\ e # f
  BY PeerFacts
<1>2. /\ reliable_packets' = [reliable_packets EXCEPT ![e] = Append(@, rp)]
      /\ reliable_send_seq' = [reliable_send_seq EXCEPT ![e] = SeqAfter(@)]
      /\ sent' = [sent EXCEPT ![e] = @ + 1]
      /\ UNCHANGED <<reliable_recv_seq, delivered, net>>
  BY DEF NewReliable
<1>3. /\ reliable_packets'[e] = Append(L, rp)
      /\ reliable_send_seq'[e] = SeqAfter(reliable_send_seq[e])
      /\ sent'[e] = sent[e] + 1
      /\ reliable_packets'[f] = reliable_packets[f]
      /\ reliable_send_seq'[f] = reliable_send_seq[f]
      /\ sent'[f] = sent[f]
  BY <1>1, <1>2 DEF IInv, TypeOK
<1>4. StreamInv(f)'
  BY <1>1, <1>2, <1>3, StreamFrame
<1>5. /\ L \in Seq(Sequenced) /\ Len(L) \in Nat /\ sent[e] \in Nat
      /\ h = sent[e] - Len(L) /\ h \in Int /\ Count(e) \in Nat
  BY StreamTypes DEF IInv
<1>6. Len(Append(L, rp)) = Len(L) + 1
  BY <1>5
<1>7. Acked(e)' = h /\ Count(e)' = Count(e)
  <2>1. Acked(e)' = sent[e] + 1 - Len(Append(L, rp))
    <3>1. Acked(e)' = sent'[e] - Len(reliable_packets'[e])
      BY DEF Acked
    <3>2. sent[e] \in Nat /\ Len(Append(L, rp)) \in Nat
      BY <1>5, <1>6
    <3>3. sent'[e] = sent[e] + 1 /\ reliable_packets'[e] = Append(L, rp)
      BY <1>3
    <3> HIDE DEF L, rp, h
    <3> QED BY <3>1, <3>2, <3>3
  <2> HIDE DEF h
  <2> QED BY <1>2, <1>5, <1>6, <2>1 DEF Count
<1>8. StreamInv(e) BY DEF IInv
<1>9. SeqInv(e)'
  <2>1. reliable_send_seq[e] = sent[e] % Modulus
    BY <1>8 DEF StreamInv, SeqInv
  <2>2. SeqAfter(reliable_send_seq[e]) = (sent[e] + 1) % Modulus
    BY <1>5, <2>1, SeqAfterMod
  <2> QED BY <1>2, <1>3, <1>7, <1>8, <2>2 DEF StreamInv, SeqInv
<1>10. ListInv(e)'
  <2>1. Len(L) <= sent[e]
    BY <1>8 DEF StreamInv, ListInv
  <2>2. Len(reliable_packets[e])' <= sent[e]'
    BY <1>3, <1>5, <1>6, <2>1
  <2>3. ASSUME NEW i \in 1..(Len(L) + 1)
        PROVE  Append(L, rp)[i] = Payload(h + i)
    <3>1. CASE i = Len(L) + 1
      <4>1. Append(L, rp)[i] = rp
        BY <1>5, <3>1
      <4>2. h + i = sent[e] + 1 /\ sent[e] + 1 - 1 = sent[e]
        BY <1>5, <3>1
      <4>3. reliable_send_seq[e] = sent[e] % Modulus
        BY <1>8 DEF StreamInv, SeqInv
      <4>4. rp = Payload(sent[e] + 1)
        BY <1>5, <4>3, NextPayload
      <4> HIDE DEF h, rp
      <4> QED BY <4>1, <4>2, <4>4
    <3>2. CASE i # Len(L) + 1
      <4>1. i \in 1..Len(L)
        BY <1>5, <3>2
      <4>2. Append(L, rp)[i] = L[i]
        BY <1>5, <4>1
      <4> QED BY <1>8, <4>1, <4>2 DEF StreamInv, ListInv
    <3> QED BY <3>1, <3>2
  <2> QED BY <1>3, <1>6, <1>7, <2>2, <2>3 DEF ListInv
<1>11. WindowInv(e)'
  <2>1. Count(e) <= sent[e] + 1
    BY <1>5, <1>8 DEF StreamInv, WindowInv
  <2> QED BY <1>3, <1>7, <1>8, <2>1 DEF StreamInv, WindowInv
<1>12. DataInv(e)'
  <2> SUFFICES ASSUME NEW q \in net[f], q.type = "RELIABLE"
               PROVE  /\ q.body >= 1 /\ q.body <= h + 1
                      /\ q.body <= sent[e] + 1
                      /\ q.seq = (q.body - 1) % Modulus
    BY <1>2, <1>3, <1>7 DEF DataInv
  <2>1. /\ q.body >= 1 /\ q.body <= h + 1 /\ q.body <= sent[e]
        /\ q.seq = (q.body - 1) % Modulus
    BY <1>8 DEF StreamInv, DataInv
  <2>2. q.body \in Nat
    BY <1>1, SequencedPacket DEF IInv
  <2> HIDE DEF h
  <2> QED BY <1>5, <2>1, <2>2
<1>13. AckInv(e)'
  BY <1>2, <1>7, <1>8 DEF StreamInv, AckInv
<1>14. OrderInv(e)'
  BY <1>2, <1>7, <1>8 DEF StreamInv, OrderInv
<1>15. StreamInv(e)'
  BY <1>9, <1>10, <1>11, <1>12, <1>13, <1>14 DEF StreamInv
<1> QED BY <1>4, <1>15, TwoEnds

LEMMA StreamReceive ==
  ASSUME IInv, TypeOK', NEW e \in Endpoints, Receive(e)
  PROVE  \A f \in Endpoints : StreamInv(f)'
<1>0. PICK keep \in BOOLEAN :
        \/ ParseACK(e, keep)
        \/ ParseDisconnect(e, keep)
        \/ ParseDisconnectACK(e, keep)
        \/ ParseReject(e, keep)
        \/ ReceiveKeepalive(e, keep)
        \/ \E p \in net[e] : \/ ReliablePacket(e, p, keep)
                             \/ ParseReliableACK(e, p, keep)
  BY DEF Receive
<1>1. ASSUME NEW p, NEW out \in SUBSET Plain, Exchange(e, p, keep, out),
             UNCHANGED stream
      PROVE  \A f \in Endpoints : StreamInv(f)'
  <2>1. /\ \A q \in net'[e] : q \in net[e]
        /\ \A q \in net'[Peer[e]] : q \in net[Peer[e]] \/ q \in out
    BY <1>1, ExchangeMembers DEF IInv
  <2>2. \A f \in Endpoints : \A q \in net'[f] : q \in net[f] \/ q \in Plain
    BY <1>1, <2>1, TwoEnds
  <2> QED BY <1>1, <2>2, QuietStep
<1>2. CASE ParseACK(e, keep)
  BY <1>1, <1>2 DEF ParseACK, Plain
<1>3. CASE ParseDisconnect(e, keep)
  BY <1>1, <1>3 DEF ParseDisconnect, Plain
<1>4. CASE ParseDisconnectACK(e, keep)
  BY <1>1, <1>4 DEF ParseDisconnectACK
<1>5. CASE ParseReject(e, keep)
  BY <1>1, <1>5 DEF ParseReject
<1>6. CASE ReceiveKeepalive(e, keep)
  BY <1>1, <1>6 DEF ReceiveKeepalive
<1> QED
  BY <1>0, <1>2, <1>3, <1>4, <1>5, <1>6,
     StreamReliablePacket, StreamReliableACK

LEMMA StreamRun ==
  ASSUME IInv, NEW e \in Endpoints, Run(e)
  PROVE  \A f \in Endpoints : StreamInv(f)'
<1>1. ASSUME NEW out, Post(e, out), UNCHANGED stream,
             \A q \in out :
                \/ q \in Plain
                \/ reliable_packets[e] # <<>> /\ q = Head(reliable_packets[e])
      PROVE  \A f \in Endpoints : StreamInv(f)'
  <2>1. /\ net'[e] = net[e]
        /\ \A q \in net'[Peer[e]] : q \in net[Peer[e]] \/ q \in out
    BY <1>1, PostMembers DEF IInv
  <2>2. \A f \in Endpoints : \A q \in net'[f] :
           \/ q \in net[f]
           \/ q \in Plain
           \/ /\ reliable_packets[Peer[f]] # <<>>
              /\ q = Head(reliable_packets[Peer[f]])
    BY <1>1, <2>1, TwoEnds, PeerFacts
  <2> QED BY <1>1, <2>2, QuietStep
<1>2. ASSUME UNCHANGED <<stream, net>>
      PROVE  \A f \in Endpoints : StreamInv(f)'
  BY <1>2, QuietStep
<1>3. ASSUME NEW keepalive \in BOOLEAN, NEW resend \in BOOLEAN,
             RunConnected(e, keepalive, resend)
      PROVE  \A f \in Endpoints : StreamInv(f)'
  <2> DEFINE out == (IF keepalive THEN {KEEPALIVE} ELSE {})
                    \cup (IF resend THEN {Head(reliable_packets[e])} ELSE {})
  <2>1. Post(e, out) /\ UNCHANGED stream
    BY <1>3 DEF RunConnected
  <2>2. \A q \in out :
           \/ q \in Plain
           \/ reliable_packets[e] # <<>> /\ q = Head(reliable_packets[e])
    BY <1>3 DEF RunConnected, Plain
  <2> HIDE DEF out
  <2> QED BY <1>1, <2>1, <2>2
<1>4. ASSUME NEW st, NEW p \in Plain, NEW why, Retry(e, st, p, why)
      PROVE  \A f \in Endpoints : StreamInv(f)'
  <2>1. CASE num_retries[e] < MaxRetries
    <3>1. Post(e, {p}) /\ UNCHANGED stream
      BY <1>4, <2>1 DEF Retry
    <3> QED BY <1>1, <3>1
  <2>2. CASE ~(num_retries[e] < MaxRetries)
    BY <1>2, <1>4, <2>2 DEF Retry
  <2> QED BY <2>1, <2>2
<1>5. CASE RunWaitingACK(e)
  BY <1>4, <1>5 DEF RunWaitingACK, Plain
<1>6. CASE RunDisconnecting(e)
  BY <1>4, <1>6 DEF RunDisconnecting, Plain
<1>7. CASE RunSleep(e)
  BY <1>2, <1>7 DEF RunSleep
<1>8. CASE RunDisconnected(e)
  BY <1>2, <1>8 DEF RunDisconnected
<1> QED BY <1>3, <1>5, <1>6, <1>7, <1>8 DEF Run

LEMMA StreamNext == IInv /\ [Next]_vars => IInv'
<1> SUFFICES ASSUME IInv, [Next]_vars PROVE IInv'
  OBVIOUS
<1>0. TypeOK'
  BY TypeNext DEF IInv
<1>1. \A f \in Endpoints : StreamInv(f)'
  <2>1. ASSUME UNCHANGED <<stream, net>>
        PROVE  \A f \in Endpoints : StreamInv(f)'
    BY <2>1, QuietStep
  <2>2. ASSUME NEW e \in Endpoints, Receive(e)
        PROVE  \A f \in Endpoints : StreamInv(f)'
    BY <1>0, <2>2, StreamReceive
  <2>3. ASSUME NEW e \in Endpoints, Run(e)
        PROVE  \A f \in Endpoints : StreamInv(f)'
    BY <2>3, StreamRun
  <2>4. ASSUME NEW e \in Endpoints, Elapse(e)
        PROVE  \A f \in Endpoints : StreamInv(f)'
    BY <2>1, <2>4 DEF Elapse
  <2>5. ASSUME NEW e \in Endpoints, Disconnect(e)
        PROVE  \A f \in Endpoints : StreamInv(f)'
    BY <2>1, <2>5 DEF Disconnect
  <2>6. ASSUME NEW e \in Endpoints, NewReliable(e)
        PROVE  \A f \in Endpoints : StreamInv(f)'
    BY <1>0, <2>6, StreamNewReliable
  <2>7. ASSUME NEW e \in Endpoints, Lose(e)
        PROVE  \A f \in Endpoints : StreamInv(f)'
    <3>1. UNCHANGED stream /\ \A f \in Endpoints : net'[f] \subseteq net[f]
      BY <2>7 DEF Lose, IInv, TypeOK
    <3> QED BY <3>1, QuietStep
  <2>8. CASE ClientGivesUp
    BY <2>1, <2>8 DEF ClientGivesUp
  <2>9. CASE ServerRejects
    <3> DEFINE out == {REJECTED}
    <3>1. Post("server", out) /\ UNCHANGED stream /\ TypeOK
      BY <2>9 DEF ServerRejects, IInv
    <3>2. \A q \in out : q \in Plain
      BY DEF Plain
    <3> HIDE DEF out
    <3>3. /\ net'["server"] = net["server"]
          /\ \A q \in net'[Peer["server"]] :
                q \in net[Peer["server"]] \/ q \in out
      BY <3>1, PostMembers
    <3>4. \A f \in Endpoints : \A q \in net'[f] : q \in net[f] \/ q \in Plain
      BY <3>2, <3>3, TwoEnds
    <3> QED BY <3>1, <3>4, QuietStep
  <2>10. CASE UNCHANGED vars
    BY <2>1, <2>10 DEF vars
  <2> QED
    BY <2>2, <2>3, <2>4, <2>5, <2>6, <2>7, <2>8, <2>9, <2>10 DEF Next
<1> QED BY <1>0, <1>1 DEF IInv

LEMMA StreamInit == Init => IInv
<1> SUFFICES ASSUME Init PROVE IInv
  OBVIOUS
<1>1. TypeOK BY TypeInit
<1>2. ASSUME NEW e \in Endpoints PROVE StreamInv(e)
  <2>1. /\ sent[e] = 0 /\ reliable_packets[e] = <<>> /\ Len(<<>>) = 0
        /\ delivered[Peer[e]] = <<>> /\ reliable_send_seq[e] = 0
        /\ reliable_recv_seq[Peer[e]] = 0
        /\ net[e] = {} /\ net[Peer[e]] = {}
    BY PeerFacts DEF Init
  <2>2. Acked(e) = 0 /\ Count(e) = 0
    <3>1. sent[e] - Len(reliable_packets[e]) = 0
      <4>1. sent[e] = 0 /\ Len(reliable_packets[e]) = 0
        BY <2>1
      <4> QED BY <4>1
    <3>2. Len(delivered[Peer[e]]) = 0
      BY <2>1
    <3> QED BY <3>1, <3>2 DEF Acked, Count
  <2>3. 0 % Modulus = 0
    BY ModulusAssumption
  <2>4. <<>> = [i \in 1..0 |-> i]
    OBVIOUS
  <2> QED
    BY <2>1, <2>2, <2>3, <2>4
       DEF StreamInv, SeqInv, ListInv, WindowInv, DataInv, AckInv, OrderInv
<1> QED BY <1>1, <1>2 DEF IInv

LEMMA StreamInvariant == Spec => []IInv
BY StreamInit, StreamNext, PTL DEF Spec

-----------------------------------------------------------------------------
(* The results about the stream.                                           *)

(* No payload is dropped from the sender's list before the receiver has    *)
(* it, whatever the network does with packets and acknowledgements.        *)
THEOREM AckedWasDelivered == Spec => []NothingAckedUnseen
<1>1. IInv => NothingAckedUnseen
  BY DEF IInv, StreamInv, WindowInv, NothingAckedUnseen, Count
<1> QED BY <1>1, StreamInvariant, PTL

(* Payloads are handed over in the order of submission, each exactly once. *)
THEOREM DeliveredInOrder == Spec => []InOrder
<1>1. IInv => InOrder
  <2> SUFFICES ASSUME IInv, NEW e \in Endpoints
               PROVE  /\ delivered[e] = [i \in 1..Len(delivered[e]) |-> i]
                      /\ Len(delivered[e]) <= sent[Peer[e]]
    BY DEF InOrder
  <2>1. Peer[e] \in Endpoints /\ Peer[Peer[e]] = e
    BY PeerFacts
  <2>2. StreamInv(Peer[e])
    BY <2>1 DEF IInv
  <2> QED BY <2>1, <2>2 DEF StreamInv, OrderInv, WindowInv, Count
<1> QED BY <1>1, StreamInvariant, PTL

-----------------------------------------------------------------------------
(* NetConn implements ReliableStream.                                      *)

(* What a step does to the history: one payload more at one end, or the    *)
(* next payload of the peer at one end, or nothing.                        *)
LEMMA HistoryStep ==
  ASSUME IInv, IInv', Next
  PROVE  Stream!Next \/ UNCHANGED <<sent, delivered>>
<1>1. ASSUME UNCHANGED stream
      PROVE  UNCHANGED <<sent, delivered>>
  BY <1>1 DEF stream
<1>2. ASSUME NEW e \in Endpoints, NEW keep \in BOOLEAN, NEW p \in net[e],
             ReliablePacket(e, p, keep)
      PROVE  Stream!Next \/ UNCHANGED <<sent, delivered>>
  <2>1. UNCHANGED sent
    BY <1>2 DEF ReliablePacket
  <2>2. CASE ~Expected(e, p)
    <3>1. delivered' = [delivered EXCEPT ![e] = delivered[e]]
      BY <1>2, <2>2 DEF ReliablePacket
    <3> QED BY <2>1, <3>1 DEF IInv, TypeOK
  <2>3. CASE Expected(e, p)
    <3> DEFINE f == Peer[e]
    <3>1. delivered' = [delivered EXCEPT ![e] = Append(@, p.body)]
      BY <1>2, <2>3 DEF ReliablePacket
    <3>2. f \in Endpoints /\ Peer[f] = e
      BY PeerFacts
    <3>3. /\ delivered[e] \in Seq(Nat) /\ Len(delivered[e]) \in Nat
          /\ delivered'[e] = Append(delivered[e], p.body)
          /\ Len(delivered'[e]) = Len(delivered[e]) + 1
      <4>1. p.body \in Nat
        BY <1>2, SequencedPacket DEF ReliablePacket, IInv
      <4>2. delivered[e] \in Seq(Nat)
        BY DEF IInv, TypeOK
      <4>3. delivered'[e] = Append(delivered[e], p.body)
        BY <3>1 DEF IInv, TypeOK
      <4> QED BY <4>1, <4>2, <4>3
    <3>4. delivered'[e] = [i \in 1..Len(delivered'[e]) |-> i]
      BY <3>2 DEF IInv, StreamInv, OrderInv, Count
    <3>5. p.body = Len(delivered[e]) + 1
      <4>1. delivered'[e][Len(delivered[e]) + 1] = p.body
        BY <3>3
      <4>2. Len(delivered[e]) + 1 \in 1..Len(delivered'[e])
        BY <3>3
      <4>3. delivered'[e][Len(delivered[e]) + 1] = Len(delivered[e]) + 1
        BY <3>4, <4>2
      <4> QED BY <4>1, <4>3
    <3>6. Len(delivered[e]) < sent[f]
      <4>1. Len(delivered'[e]) <= sent'[f]
        BY <3>2 DEF IInv, StreamInv, WindowInv, Count
      <4>2. sent[f] \in Nat
        BY <3>2 DEF IInv, TypeOK
      <4> QED BY <2>1, <3>3, <4>1, <4>2
    <3>7. Stream!Deliver(e)
      BY <2>1, <3>1, <3>5, <3>6 DEF Stream!Deliver
    <3> QED BY <3>7 DEF Stream!Next
  <2> QED BY <2>2, <2>3
<1>3. ASSUME NEW e \in Endpoints, Receive(e)
      PROVE  Stream!Next \/ UNCHANGED <<sent, delivered>>
  BY <1>1, <1>2, <1>3
     DEF Receive, ParseACK, ParseDisconnect, ParseDisconnectACK, ParseReject,
         ReceiveKeepalive, ParseReliableACK
<1>4. ASSUME NEW e \in Endpoints, Run(e)
      PROVE  UNCHANGED <<sent, delivered>>
  BY <1>1, <1>4
     DEF Run, RunConnected, RunWaitingACK, RunDisconnecting, Retry, RunSleep,
         RunDisconnected
<1>5. ASSUME NEW e \in Endpoints, NewReliable(e)
      PROVE  Stream!Next
  <2>1. Stream!Submit(e)
    BY <1>5 DEF NewReliable, Stream!Submit
  <2> QED BY <2>1 DEF Stream!Next
<1>6. ASSUME NEW e \in Endpoints, Elapse(e) \/ Disconnect(e) \/ Lose(e)
      PROVE  UNCHANGED <<sent, delivered>>
  BY <1>1, <1>6 DEF Elapse, Disconnect, Lose
<1>7. CASE ClientGivesUp \/ ServerRejects
  BY <1>1, <1>7 DEF ClientGivesUp, ServerRejects
<1> QED BY <1>3, <1>4, <1>5, <1>6, <1>7 DEF Next

(* The reliable packets of net_common.c, over a network that loses,        *)
(* duplicates and reorders, implement the abstract stream: exactly once,   *)
(* in order.                                                               *)
THEOREM Refinement == Spec => Implements
<1>1. Init => Stream!Init
  BY DEF Init, Stream!Init
<1>2. IInv /\ IInv' /\ [Next]_vars => [Stream!Next]_(Stream!vars)
  <2> SUFFICES ASSUME IInv, IInv', [Next]_vars
               PROVE  [Stream!Next]_(Stream!vars)
    OBVIOUS
  <2>1. CASE Next
    BY <2>1, HistoryStep DEF Stream!vars
  <2>2. CASE UNCHANGED vars
    BY <2>2 DEF vars, stream, Stream!vars
  <2> QED BY <2>1, <2>2
<1> QED
  BY <1>1, <1>2, StreamInvariant, PTL DEF Spec, Implements, Stream!Spec

-----------------------------------------------------------------------------
(* Handshake and hang-up.                                                  *)

ConnInv == /\ state["client"] # "WAITING_ACK"
           /\ state["server"] # "CONNECTING"
           /\ (ACK \in net["server"] \/ state["server"] = "CONNECTED")
                 => state["client"] # "CONNECTING"
           /\ \A e \in Endpoints :
                 (DISCONNECT \in net[e] \/ state[e] = "DISCONNECTED_SLEEP")
                   => state[Peer[e]] \in Closing

CInv == TypeOK /\ ConnInv

(* How the state of an end changes: closing is for good, a hang-up takes a *)
(* DISCONNECT, being connected takes an ACK.                               *)
LEMMA StateStep ==
  ASSUME TypeOK, Next, NEW e \in Endpoints
  PROVE  /\ state[e] \in Closing => state'[e] \in Closing
         /\ state'[e] = "DISCONNECTED_SLEEP" =>
               state[e] = "DISCONNECTED_SLEEP" \/ DISCONNECT \in net[e]
         /\ state'[e] = "CONNECTED" =>
               state[e] = "CONNECTED" \/ ACK \in net[e]
         /\ state'[e] \in {"CONNECTING", "WAITING_ACK"} =>
               state'[e] = state[e]
<1> DEFINE Goal ==
       /\ state[e] \in Closing => state'[e] \in Closing
       /\ state'[e] = "DISCONNECTED_SLEEP" =>
             state[e] = "DISCONNECTED_SLEEP" \/ DISCONNECT \in net[e]
       /\ state'[e] = "CONNECTED" =>
             state[e] = "CONNECTED" \/ ACK \in net[e]
       /\ state'[e] \in {"CONNECTING", "WAITING_ACK"} =>
             state'[e] = state[e]
<1>0. state \in [Endpoints -> States]
  BY DEF TypeOK
<1>1. ASSUME UNCHANGED state PROVE Goal
  BY <1>1
<1>2. ASSUME NEW f \in Endpoints, NEW keep \in BOOLEAN, ParseACK(f, keep)
      PROVE  Goal
  BY <1>0, <1>2 DEF ParseACK, Arrives, Closing
<1>3. ASSUME NEW f \in Endpoints, NEW keep \in BOOLEAN,
             ParseDisconnect(f, keep)
      PROVE  Goal
  BY <1>0, <1>3 DEF ParseDisconnect, Arrives, Closing
<1>4. ASSUME NEW f \in Endpoints,
             state' = [state EXCEPT ![f] = "DISCONNECTED"]
      PROVE  Goal
  BY <1>0, <1>4 DEF Closing
<1>5. ASSUME NEW f \in Endpoints, Receive(f) PROVE Goal
  <2>1. ASSUME NEW keep \in BOOLEAN,
               ParseDisconnectACK(f, keep) \/ ParseReject(f, keep)
        PROVE  Goal
    <3>1. UNCHANGED state \/ state' = [state EXCEPT ![f] = "DISCONNECTED"]
      BY <2>1 DEF ParseDisconnectACK, ParseReject
    <3> QED BY <1>1, <1>4, <3>1
  <2>2. ASSUME NEW keep \in BOOLEAN, NEW p,
               \/ ReceiveKeepalive(f, keep)
               \/ ReliablePacket(f, p, keep)
               \/ ParseReliableACK(f, p, keep)
        PROVE  Goal
    <3>1. UNCHANGED state
      BY <2>2 DEF ReceiveKeepalive, ReliablePacket, ParseReliableACK, conn
    <3> QED BY <1>1, <3>1
  <2> HIDE DEF Goal
  <2> QED BY <1>2, <1>3, <1>5, <2>1, <2>2 DEF Receive
<1>6. ASSUME NEW f \in Endpoints, Run(f) PROVE Goal
  <2>1. UNCHANGED state \/ state' = [state EXCEPT ![f] = "DISCONNECTED"]
    BY <1>6 DEF Run, RunConnected, RunWaitingACK, RunDisconnecting, Retry,
                RunSleep, RunDisconnected, conn
  <2> QED BY <1>1, <1>4, <2>1
<1>7. ASSUME NEW f \in Endpoints, Disconnect(f) PROVE Goal
  BY <1>0, <1>7 DEF Disconnect, Closing
<1>8. ASSUME NEW f \in Endpoints, Elapse(f) \/ NewReliable(f) \/ Lose(f)
      PROVE  Goal
  <2>1. UNCHANGED state
    BY <1>8 DEF Elapse, NewReliable, Lose, conn
  <2> QED BY <1>1, <2>1
<1>9. ASSUME ClientGivesUp \/ ServerRejects PROVE Goal
  <2>1. UNCHANGED state
    BY <1>9 DEF ClientGivesUp, ServerRejects, conn
  <2> QED BY <1>1, <2>1
<1> HIDE DEF Goal
<1>10. Goal
  BY <1>5, <1>6, <1>7, <1>8, <1>9 DEF Next
<1> QED BY <1>10 DEF Goal

(* Where a DISCONNECT or an ACK in the network comes from.                 *)
LEMMA NetStep ==
  ASSUME TypeOK, Next, NEW e \in Endpoints
  PROVE  /\ DISCONNECT \in net'[e] =>
               DISCONNECT \in net[e] \/ state[Peer[e]] \in Closing
         /\ ACK \in net'[e] =>
               \/ ACK \in net[e]
               \/ state[Peer[e]] = "WAITING_ACK"
               \/ state'[Peer[e]] = "CONNECTED"
<1> DEFINE Goal ==
       /\ DISCONNECT \in net'[e] =>
             DISCONNECT \in net[e] \/ state[Peer[e]] \in Closing
       /\ ACK \in net'[e] =>
             \/ ACK \in net[e]
             \/ state[Peer[e]] = "WAITING_ACK"
             \/ state'[Peer[e]] = "CONNECTED"
<1>1. ASSUME NEW f \in Endpoints, NEW p, NEW keep \in BOOLEAN, NEW out,
             Exchange(f, p, keep, out),
             DISCONNECT \notin out,
             ACK \in out => state'[f] = "CONNECTED"
      PROVE  Goal
  <2>1. ASSUME NEW q
        PROVE  /\ q \in net'[f] => q \in net[f]
               /\ q \in net'[Peer[f]] => q \in net[Peer[f]] \/ q \in out
    <3>1. Exchange(f, p, keep, out)
      BY <1>1
    <3> HIDE DEF Goal
    <3> QED BY <3>1, ExchangeMembers
  <2> QED BY <1>1, <2>1, TwoEnds, PeerFacts
<1>2. ASSUME NEW f \in Endpoints, NEW out, Post(f, out),
             DISCONNECT \in out => state[f] \in Closing,
             ACK \in out => state[f] = "WAITING_ACK"
      PROVE  Goal
  <2>1. /\ net'[f] = net[f]
        /\ \A q \in net'[Peer[f]] : q \in net[Peer[f]] \/ q \in out
    BY <1>2, PostMembers
  <2> QED BY <1>2, <2>1, TwoEnds, PeerFacts
<1>3. ASSUME UNCHANGED net PROVE Goal
  BY <1>3
<1>4. /\ ACK # DISCONNECT /\ ACK # DISCONNECT_ACK /\ ACK # KEEPALIVE
      /\ ACK # REJECTED /\ DISCONNECT # DISCONNECT_ACK
      /\ DISCONNECT # KEEPALIVE /\ DISCONNECT # REJECTED
  <2>1. /\ ACK.type = "ACK" /\ DISCONNECT.type = "DISCONNECT"
        /\ DISCONNECT_ACK.type = "DISCONNECT_ACK"
        /\ KEEPALIVE.type = "KEEPALIVE" /\ REJECTED.type = "REJECTED"
    BY DEF ACK, DISCONNECT, DISCONNECT_ACK, KEEPALIVE, REJECTED
  <2> QED BY <2>1
<1>5. \A p : p.type \in {"RELIABLE", "RELIABLE_ACK"} =>
             p # ACK /\ p # DISCONNECT
  BY DEF ACK, DISCONNECT
<1>6. ASSUME NEW f \in Endpoints, Receive(f) PROVE Goal
  <2>1. ASSUME NEW keep \in BOOLEAN, ParseACK(f, keep) PROVE Goal
    <3> DEFINE out == IF state[f] = "CONNECTING" THEN {ACK} ELSE {}
    <3>1. Exchange(f, ACK, keep, out)
      BY <2>1 DEF ParseACK
    <3>2. ACK \in out => state'[f] = "CONNECTED"
      BY <2>1 DEF ParseACK, TypeOK
    <3>3. DISCONNECT \notin out
      BY <1>4
    <3> HIDE DEF out, Goal
    <3> QED BY <1>1, <3>1, <3>2, <3>3
  <2>2. ASSUME NEW keep \in BOOLEAN, ParseDisconnect(f, keep) PROVE Goal
    <3> DEFINE out == {DISCONNECT_ACK}
    <3>1. Exchange(f, DISCONNECT, keep, out)
      BY <2>2 DEF ParseDisconnect
    <3>2. ACK \notin out /\ DISCONNECT \notin out
      BY <1>4
    <3> HIDE DEF out, Goal
    <3> QED BY <1>1, <3>1, <3>2
  <2>3. ASSUME NEW keep \in BOOLEAN, NEW p,
               \/ ParseDisconnectACK(f, keep)
               \/ ParseReject(f, keep)
               \/ ReceiveKeepalive(f, keep)
               \/ ParseReliableACK(f, p, keep)
        PROVE  Goal
    <3> DEFINE out == {}
    <3>1. \E q : Exchange(f, q, keep, out)
      BY <2>3 DEF ParseDisconnectACK, ParseReject, ReceiveKeepalive,
                  ParseReliableACK
    <3>2. ACK \notin out /\ DISCONNECT \notin out
      OBVIOUS
    <3> HIDE DEF out, Goal
    <3> QED BY <1>1, <3>1, <3>2
  <2>4. ASSUME NEW keep \in BOOLEAN, NEW p, ReliablePacket(f, p, keep)
        PROVE  Goal
    <3>1. PICK ack : /\ ack.type = "RELIABLE_ACK"
                     /\ Exchange(f, p, keep, {ack})
      BY <2>4 DEF ReliablePacket
    <3> DEFINE out == {ack}
    <3>2. ACK \notin out /\ DISCONNECT \notin out
      BY <1>5, <3>1
    <3>3. Exchange(f, p, keep, out)
      BY <3>1
    <3> HIDE DEF out, Goal
    <3> QED BY <1>1, <3>2, <3>3
  <2> HIDE DEF Goal
  <2> QED BY <1>6, <2>1, <2>2, <2>3, <2>4 DEF Receive
<1>7. ASSUME NEW f \in Endpoints, Run(f) PROVE Goal
  <2>1. ASSUME NEW keepalive \in BOOLEAN, NEW resend \in BOOLEAN,
               RunConnected(f, keepalive, resend)
        PROVE  Goal
    <3> DEFINE out == (IF keepalive THEN {KEEPALIVE} ELSE {})
                      \cup (IF resend THEN {Head(reliable_packets[f])} ELSE {})
    <3>1. Post(f, out)
      BY <2>1 DEF RunConnected
    <3>2. resend => Head(reliable_packets[f]) \in Sequenced
      <4>1. reliable_packets[f] \in Seq(Sequenced)
        BY DEF TypeOK
      <4> QED BY <2>1, <4>1 DEF RunConnected
    <3>3. ACK \notin out /\ DISCONNECT \notin out
      BY <1>4, <1>5, <3>2 DEF Sequenced
    <3> HIDE DEF out, Goal
    <3> QED BY <1>2, <3>1, <3>3
  <2>2. ASSUME RunWaitingACK(f) PROVE Goal
    <3>1. UNCHANGED net \/ Post(f, {ACK})
      BY <2>2 DEF RunWaitingACK, Retry
    <3>2. state[f] = "WAITING_ACK"
      BY <2>2 DEF RunWaitingACK, Retry
    <3> HIDE DEF Goal
    <3> QED BY <1>2, <1>3, <1>4, <3>1, <3>2
  <2>3. ASSUME RunDisconnecting(f) PROVE Goal
    <3>1. UNCHANGED net \/ Post(f, {DISCONNECT})
      BY <2>3 DEF RunDisconnecting, Retry
    <3>2. state[f] \in Closing
      BY <2>3 DEF RunDisconnecting, Retry, Closing
    <3> HIDE DEF Goal
    <3> QED BY <1>2, <1>3, <1>4, <3>1, <3>2
  <2>4. ASSUME RunSleep(f) \/ RunDisconnected(f) PROVE Goal
    <3>1. UNCHANGED net
      BY <2>4 DEF RunSleep, RunDisconnected
    <3> QED BY <1>3, <3>1
  <2> HIDE DEF Goal
  <2> QED BY <1>7, <2>1, <2>2, <2>3, <2>4 DEF Run
<1>8. ASSUME NEW f \in Endpoints, Elapse(f) \/ Disconnect(f) \/ NewReliable(f)
      PROVE  Goal
  <2>1. UNCHANGED net
    BY <1>8 DEF Elapse, Disconnect, NewReliable
  <2> QED BY <1>3, <2>1
<1>9. ASSUME NEW f \in Endpoints, Lose(f) PROVE Goal
  <2>1. net'[e] \subseteq net[e]
    BY <1>9 DEF Lose, TypeOK
  <2> QED BY <2>1
<1>10. ASSUME ClientGivesUp PROVE Goal
  BY <1>3, <1>10 DEF ClientGivesUp
<1>11. ASSUME ServerRejects PROVE Goal
  <2> DEFINE out == {REJECTED}
  <2>1. Post("server", out)
    BY <1>11 DEF ServerRejects
  <2>2. ACK \notin out /\ DISCONNECT \notin out
    BY <1>4
  <2> HIDE DEF out, Goal
  <2> QED BY <1>2, <2>1, <2>2
<1> HIDE DEF Goal
<1>12. Goal
  BY <1>6, <1>7, <1>8, <1>9, <1>10, <1>11 DEF Next
<1> QED BY <1>12 DEF Goal

LEMMA ConnInit == Init => ConnInv
<1> SUFFICES ASSUME Init PROVE ConnInv
  OBVIOUS
<1>1. state["client"] = "CONNECTING" /\ state["server"] = "WAITING_ACK"
  BY DEF Init
<1>2. \A e \in Endpoints : net[e] = {} /\ state[e] # "DISCONNECTED_SLEEP"
  BY DEF Init
<1> QED BY <1>1, <1>2 DEF ConnInv

LEMMA ConnStep ==
  ASSUME TypeOK, TypeOK', ConnInv, Next
  PROVE  ConnInv'
<1>1. Peer["client"] = "server" /\ Peer["server"] = "client"
  BY DEF Peer
<1>2. state["client"] # "WAITING_ACK" /\ state["server"] # "CONNECTING"
  BY DEF ConnInv
<1>3. state'["client"] # "WAITING_ACK" /\ state'["server"] # "CONNECTING"
  BY <1>2, StateStep
<1>4. ASSUME ACK \in net'["server"] \/ state'["server"] = "CONNECTED"
      PROVE  state'["client"] # "CONNECTING"
  <2>1. state'["client"] = "CONNECTING" => state["client"] = "CONNECTING"
    BY StateStep
  <2>2. CASE ACK \in net'["server"]
    <3>1. \/ ACK \in net["server"]
          \/ state["client"] = "WAITING_ACK"
          \/ state'["client"] = "CONNECTED"
      BY <1>1, <2>2, NetStep
    <3> QED BY <1>2, <2>1, <3>1 DEF ConnInv
  <2>3. CASE state'["server"] = "CONNECTED"
    <3>1. state["server"] = "CONNECTED" \/ ACK \in net["server"]
      BY <2>3, StateStep
    <3> QED BY <2>1, <3>1 DEF ConnInv
  <2> QED BY <1>4, <2>2, <2>3
<1>5. ASSUME NEW e \in Endpoints,
             DISCONNECT \in net'[e] \/ state'[e] = "DISCONNECTED_SLEEP"
      PROVE  state'[Peer[e]] \in Closing
  <2>1. Peer[e] \in Endpoints
    BY PeerFacts
  <2>2. state[Peer[e]] \in Closing => state'[Peer[e]] \in Closing
    BY <2>1, StateStep
  <2>3. DISCONNECT \in net[e] => state[Peer[e]] \in Closing
    BY DEF ConnInv
  <2>4. state[e] = "DISCONNECTED_SLEEP" => state[Peer[e]] \in Closing
    BY DEF ConnInv
  <2>5. CASE DISCONNECT \in net'[e]
    <3>1. DISCONNECT \in net[e] \/ state[Peer[e]] \in Closing
      BY <2>5, NetStep
    <3> QED BY <2>2, <2>3, <3>1
  <2>6. CASE state'[e] = "DISCONNECTED_SLEEP"
    <3>1. state[e] = "DISCONNECTED_SLEEP" \/ DISCONNECT \in net[e]
      BY <2>6, StateStep
    <3> QED BY <2>2, <2>3, <2>4, <3>1
  <2> QED BY <1>5, <2>5, <2>6
<1> QED BY <1>3, <1>4, <1>5 DEF ConnInv

LEMMA ConnInvariant == Spec => []CInv
<1>1. Init => CInv
  BY TypeInit, ConnInit DEF CInv
<1>2. CInv /\ [Next]_vars => CInv'
  <2> SUFFICES ASSUME CInv, [Next]_vars PROVE CInv'
    OBVIOUS
  <2>1. TypeOK'
    BY TypeNext DEF CInv
  <2>2. CASE Next
    BY <2>1, <2>2, ConnStep DEF CInv
  <2>3. CASE UNCHANGED vars
    <3>1. UNCHANGED <<state, net>>
      BY <2>3 DEF vars, conn
    <3>2. ConnInv'
      BY <3>1 DEF CInv, ConnInv
    <3> QED BY <2>1, <3>2 DEF CInv
  <2> QED BY <2>2, <2>3
<1> QED BY <1>1, <1>2, PTL DEF Spec

(* The server is connected only to a client that has had its answer.       *)
THEOREM ServerSecond == Spec => []ServerConnectsSecond
<1>1. CInv => ServerConnectsSecond
  BY DEF CInv, ConnInv, ServerConnectsSecond
<1> QED BY <1>1, ConnInvariant, PTL

(* A hang-up is never imagined: no packet but a DISCONNECT puts an end to  *)
(* sleep, and no end sends one before it began to disconnect.              *)
THEOREM HangupIsReal == Spec => []NoSpuriousHangup
<1>1. CInv => NoSpuriousHangup
  BY DEF CInv, ConnInv, NoSpuriousHangup
<1> QED BY <1>1, ConnInvariant, PTL

(* Closing is for good.                                                    *)
THEOREM ClosedForGood == Spec => NoRevival
<1>1. TypeOK /\ [Next]_vars =>
        [\A e \in Endpoints : state[e] \in Closing => state'[e] \in Closing]_vars
  <2> SUFFICES ASSUME TypeOK, Next, NEW e \in Endpoints, state[e] \in Closing
               PROVE  state'[e] \in Closing
    OBVIOUS
  <2> QED BY StateStep
<1> QED BY <1>1, TypeCorrect, PTL DEF Spec, NoRevival
=============================================================================
