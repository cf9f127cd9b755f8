----------------------------- MODULE MCNetLobby -----------------------------
(* Instances of NetLobby for TLC. *)
EXTENDS NetLobby, TLC

CONSTANTS a, b, d

Swap == Permutations({a, b})

OneMode  == [c \in Addrs |-> "doom"]
MaxTwo   == [c \in Addrs |-> 2]
=============================================================================
