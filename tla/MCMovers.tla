------------------------------ MODULE MCMovers ------------------------------
(***************************************************************************)
(* An instance of SectorMovers for TLC: two sectors with one tag, behind   *)
(* one of which is a door, with lines of many types; they are a stair, and *)
(* each is the ring around the other, one of them with no way out.         *)
(***************************************************************************)
EXTENDS SectorMovers, TLC

CONSTANTS b1, b2

OneTag        == <<1, 1>>
BothTimed     == <<"raiseIn5Mins", "normal">>
ToSecond      == <<2>>
SecondIsStep  == <<<<2>>, <<>>>>
RingsOfEach   == <<2, 1>>

SameBlocks == Permutations(Blocks)

(* A game that has been saved is loaded before anything else moves: of     *)
(* what loading finds nothing is left.  How the game goes on when it has   *)
(* been loaded is left to the proofs.                                      *)
LoadedAtOnce == saved # NULL => current = 0
=============================================================================
