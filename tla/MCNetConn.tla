----------------------------- MODULE MCNetConn ------------------------------
(* Instances of NetConn for TLC. *)
EXTENDS NetConn

(* How many reliable packets the client and the server generate. *)
Sent00 == [e \in Endpoints |-> 0]
Sent01 == [e \in Endpoints |-> IF e = "client" THEN 0 ELSE 1]
Sent03 == [e \in Endpoints |-> IF e = "client" THEN 0 ELSE 3]
=============================================================================
