------------------------------ MODULE MCSound -------------------------------
(* An instance of SoundCache for TLC: a sound has as many bytes as its     *)
(* pitch.                                                                  *)
EXTENDS SoundCache

PitchBytes == [s \in Sounds |-> s[2]]
=============================================================================
