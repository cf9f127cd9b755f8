------------------------------ MODULE TicBytes ------------------------------
(***************************************************************************)
(* Tic numbers on the wire.  A packet of game data carries the last byte   *)
(* of a tic number; the receiver completes it from the start of its        *)
(* receive window: NET_ExpandTicNum in net_common.c, called through        *)
(* NET_CL_ExpandTicNum and NET_SV_ExpandTicNum.                            *)
(***************************************************************************)
EXTENDS Integers

CONSTANT Word     \* values of an unsigned int (2^32)

ASSUME WordAssumption == Word \in Nat /\ Word > 0 /\ Word % 256 = 0

UInt == 0..(Word - 1)

(* h | b is h + b: the last byte of h is zero.  The first definition is    *)
(* the second with a mistake in it, to see that the property notices.      *)
ExpandForward(relative, b) ==
  LET l == relative % 256
  IN IF l > 176 /\ b < 64 THEN relative - l + b + 256 ELSE relative - l + b

NET_ExpandTicNum(relative, b) ==
  LET l      == relative % 256
      result == (relative - l) + b
  IN IF l < 64 /\ b > 176 THEN (result - 256) % Word
     ELSE IF l > 176 /\ b < 64 THEN (result + 256) % Word
     ELSE result

(* What comes of tic number t at a receiver whose window begins there.     *)
Expanded(relative, t) == NET_ExpandTicNum(relative, t % 256)
=============================================================================
