--------------------------- MODULE ReliableStream ---------------------------
(***************************************************************************)
(* What the reliable packets of net_common.c promise to the code above     *)
(* them ("reliable packet that is guaranteed to reach its destination"):   *)
(* each endpoint submits payloads, and the other endpoint is handed the    *)
(* same payloads, each once and in the order of submission.  A payload is  *)
(* identified by its position in the stream.                               *)
(***************************************************************************)
EXTENDS Naturals, Sequences

CONSTANT Endpoints,   \* the two ends of the connection
         Peer         \* Peer[e]: the other end, and Peer[Peer[e]] = e

VARIABLES sent,       \* sent[e]: payloads e has submitted
          delivered   \* delivered[e]: payloads handed to the owner of e

vars == <<sent, delivered>>

Init == /\ sent = [e \in Endpoints |-> 0]
        /\ delivered = [e \in Endpoints |-> <<>>]

Submit(e) == /\ sent' = [sent EXCEPT ![e] = @ + 1]
             /\ UNCHANGED delivered

(* The next payload, and no other, reaches the receiver.                   *)
Deliver(e) == /\ Len(delivered[e]) < sent[Peer[e]]
              /\ delivered' = [delivered EXCEPT ![e] = Append(@, Len(@) + 1)]
              /\ UNCHANGED sent

Next == \E e \in Endpoints : Submit(e) \/ Deliver(e)

Spec == Init /\ [][Next]_vars
=============================================================================
