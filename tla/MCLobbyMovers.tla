--------------------------- MODULE MCLobbyMovers ---------------------------
(***************************************************************************)
(* The clients that wait for a game and the movers of a level, each        *)
(* checked on an instance of its own in one run.  As in MCParts a          *)
(* behaviour is one of one part, and the other stands still.               *)
(***************************************************************************)
EXTENDS MCNetLobby, MCMovers

VARIABLE part

lobbyMoversVars == <<part, vars, moverVars>>

LobbyMoversInit == part \in {"lobby", "movers"} /\ Init /\ MoversInit

LobbyMoversNext ==
  \/ part = "lobby" /\ Next /\ UNCHANGED <<part, moverVars>>
  \/ part = "movers" /\ MoversNext /\ UNCHANGED <<part, vars>>

LobbyMoversSpec == LobbyMoversInit /\ [][LobbyMoversNext]_lobbyMoversVars

(* In one part only clients are exchanged, in the other only blocks.       *)
Same == Swap \cup SameBlocks
=============================================================================
