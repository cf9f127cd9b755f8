----------------------------- MODULE MCOplMusic -----------------------------
(* An instance of OplMusic for TLC: a song of four tracks that sets its   *)
(* tempo, and one that is empty.                                           *)
EXTENDS OplMusic

Note(delta)     == [delta |-> delta, tempo |-> 0, end |-> FALSE]
Tempo(delta, t) == [delta |-> delta, tempo |-> t, end |-> FALSE]
End(delta)      == [delta |-> delta, tempo |-> 0, end |-> TRUE]

Tune == << <<Tempo(0, 2), End(1)>>,
           <<End(2)>>,
           <<Note(1), End(1)>>,
           <<End(3)>> >>

Silence == << <<End(0)>> >>

SongsSmall == {Tune, Silence}

OplFair == OplSpec /\ OplFairness
=============================================================================
