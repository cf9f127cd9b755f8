------------------------------ MODULE Lockstep ------------------------------
(***************************************************************************)
(* What the exchange of game data promises to the games: every node runs   *)
(* the tics one after the other, each with the commands of all the other   *)
(* players, and never before they have made them.  A player that has left  *)
(* may be missing from a tic; one that is playing never is.                *)
(***************************************************************************)
EXTENDS Integers, Sequences

CONSTANTS Players, Nodes    \* Players: the nodes that make commands

VARIABLES made,      \* made[p]: the number of commands p has made
          playing,   \* the nodes that take part in the game
          tics       \* tics[n]: for each tic n has run, whose commands it had

vars == <<made, playing, tics>>

Init == /\ made = [n \in Nodes |-> 0]
        /\ playing = Nodes
        /\ tics = [n \in Nodes |-> <<>>]

Make(p) == /\ made' = [made EXCEPT ![p] = @ + 1]
           /\ UNCHANGED <<playing, tics>>

Leave == /\ playing' \subseteq playing
         /\ UNCHANGED <<made, tics>>

Complete(n, t, S) == /\ (playing \cap Players) \ {n} \subseteq S
                     /\ S \subseteq {p \in Players \ {n} : made[p] >= t}

(* One tic or several that have become complete.                           *)
Run(n) ==
  /\ Len(tics'[n]) > Len(tics[n])
  /\ tics' = [tics EXCEPT ![n] = @ \o SubSeq(tics'[n], Len(@) + 1, Len(tics'[n]))]
  /\ \A t \in (Len(tics[n]) + 1)..Len(tics'[n]) : Complete(n, t, tics'[n][t])
  /\ UNCHANGED <<made, playing>>

Next == \/ Leave
        \/ \E p \in Players : Make(p)
        \/ \E n \in Nodes : Run(n)

Spec == Init /\ [][Next]_vars
=============================================================================
