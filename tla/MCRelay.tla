------------------------------- MODULE MCRelay --------------------------------
(* Small instances of Relay. *)
EXTENDS Relay, TLC

CONSTANTS d1, d2, c1, c2, none

Event(id, time, through) == [id |-> id, time |-> time, through |-> through]
e1 == Event("e1", 1, 0)
e2 == Event("e2", 1, 0)
e3 == Event("e3", 2, 1)
TwoEvents == {e1, e3}
e4 == Event("e4", 2, 1)
ThreeEvents == {e1, e2, e3}
FourEvents == {e1, e2, e3, e4}
OneDir == {d1}
TwoDirs == {d1, d2}
OneConn == {c1}
TwoConns == {c1, c2}
AnyConn == Permutations(TwoConns)
===============================================================================
