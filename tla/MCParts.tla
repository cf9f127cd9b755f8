------------------------------ MODULE MCParts ------------------------------
(***************************************************************************)
(* The parts of a program that have nothing to do with one another, each   *)
(* checked on an instance of its own in one run.  A behaviour is one of    *)
(* one part, the others standing still in one of their initial states:     *)
(* this is no composition, only one state graph beside the other.          *)
(***************************************************************************)
EXTENDS MCNetLobby, MCOplMusic, TicNum, DLoop, ZoneHeap, MCSound, NetQuery

VARIABLE part

Parts == {"tic", "lobby", "opl", "dloop", "zone", "sound", "query"}

(* A lump of n units.                                                      *)
Sizes == [l \in Lumps |-> l]

partsVars == <<part, ticVars, vars, oplVars, dloopVars, zoneVars, soundVars, queryVars>>

(* Where several initial states are possible, a part that stands still is  *)
(* in one of them.                                                         *)
OneConfig == [localplayer |-> 0, drone |-> FALSE, new_sync |-> TRUE, singletics |-> FALSE]

PartsInit ==
  /\ part \in Parts
  /\ TicInit /\ Init /\ OplInit /\ DLoopInit /\ ZoneInit /\ SoundInit /\ QueryInit
  /\ part # "dloop" => config = OneConfig /\ net_client_connected
  /\ part # "query" => search = "LAN" /\ answers = {}

PartsNext ==
  \/ /\ part = "tic" /\ TicNext
     /\ UNCHANGED <<part, vars, oplVars, dloopVars, zoneVars, soundVars, queryVars>>
  \/ /\ part = "lobby" /\ Next
     /\ UNCHANGED <<part, ticVars, oplVars, dloopVars, zoneVars, soundVars, queryVars>>
  \/ /\ part = "opl" /\ OplNext
     /\ UNCHANGED <<part, ticVars, vars, dloopVars, zoneVars, soundVars, queryVars>>
  \/ /\ part = "dloop" /\ DLoopNext
     /\ UNCHANGED <<part, ticVars, vars, oplVars, zoneVars, soundVars, queryVars>>
  \/ /\ part = "zone" /\ ZoneNext
     /\ UNCHANGED <<part, ticVars, vars, oplVars, dloopVars, soundVars, queryVars>>
  \/ /\ part = "sound" /\ SoundNext
     /\ UNCHANGED <<part, ticVars, vars, oplVars, dloopVars, zoneVars, queryVars>>
  \/ /\ part = "query" /\ QueryNext
     /\ UNCHANGED <<part, ticVars, vars, oplVars, dloopVars, zoneVars, soundVars>>

(* The fairness of each part (FairSpec, OplFairness and so on), which only *)
(* binds the part that moves.                                              *)
PartsFairness ==
  /\ WF_vars(part = "lobby" /\ ServerRun)
  /\ \A s \in Slots : SF_vars(part = "lobby" /\ Ending(s) /\ RunClient(s, TRUE, FALSE))
  /\ WF_oplVars(part = "opl" /\ Audio) /\ WF_oplVars(part = "opl" /\ Starting)
  /\ WF_dloopVars(part = "dloop" /\ Loop)
  /\ WF_dloopVars(part = "dloop" /\ Clock)
  /\ WF_zoneVars(part = "zone" /\ (Scan \/ FreeTag))
  /\ WF_queryVars(part = "query" /\ Poll)
  /\ SF_queryVars(part = "query" /\ Tick /\ poll = "check")

PartsSpec == PartsInit /\ [][PartsNext]_partsVars /\ PartsFairness
=============================================================================
