------------------------------- MODULE TicNum -------------------------------
(***************************************************************************)
(* The bytes of TicBytes at work: a receiver whose window advances while   *)
(* bytes arrive from a sender that runs ahead of it or lags behind it by   *)
(* at most Spread tics.                                                    *)
(***************************************************************************)
EXTENDS TicBytes

CONSTANTS Spread,   \* distance of a tic from the start of the window
          MaxTic    \* bound: the highest tic of a run

ASSUME SpreadAssumption == Spread \in 0..64
ASSUME MaxTicAssumption == MaxTic \in 0..(Word - 1)

VARIABLES recvwindow_start,
          tic,     \* the tic the byte being handled stands for
          seq      \* what the receiver made of that byte

ticVars == <<recvwindow_start, tic, seq>>

Nothing == -1   \* no byte is being handled

TicInit == recvwindow_start = 0 /\ tic = Nothing /\ seq = Nothing

(* NET_CL_ParseGameData, NET_SV_ParseGameData, NET_SV_ParseGameDataACK:    *)
(* the byte is expanded, and the tic then put in its place.                *)
Receive(t) ==
  /\ tic = Nothing /\ t \in UInt
  /\ recvwindow_start - Spread <= t /\ t <= recvwindow_start + Spread
  /\ tic' = t
  /\ seq' = Expanded(recvwindow_start, t)
  /\ UNCHANGED recvwindow_start

Handled ==
  /\ tic # Nothing
  /\ tic' = Nothing /\ seq' = Nothing
  /\ UNCHANGED recvwindow_start

(* NET_CL_AdvanceWindow, NET_SV_AdvanceWindow.                             *)
AdvanceWindow ==
  /\ tic = Nothing /\ recvwindow_start < MaxTic
  /\ recvwindow_start' = recvwindow_start + 1
  /\ UNCHANGED <<tic, seq>>

TicNext == AdvanceWindow \/ Handled \/ \E t \in 0..(MaxTic + Spread) : Receive(t)

TicSpec == TicInit /\ [][TicNext]_ticVars

-----------------------------------------------------------------------------
(* The byte is completed to the tic it came from, for every position of    *)
(* the window against the blocks of 256 (NET_ExpandTicNum's two            *)
(* corrections), as long as sender and receiver are within 64 tics.        *)
ExpandedExactly == seq = tic
=============================================================================
