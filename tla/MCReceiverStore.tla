--------------------------- MODULE MCReceiverStore ---------------------------
(* Small instances of ReceiverStore. *)
EXTENDS ReceiverStore

CONSTANTS s1, s2, s3, none

Event(id, time, through) == [id |-> id, time |-> time, through |-> through]
e1 == Event("e1", 1, 0)
e2 == Event("e2", 1, 1)
e3 == Event("e3", 2, 1)
e4 == Event("e4", 2, 0)
MCEvents == {e1, e2, e3, e4}

\* A history, a copy of it that went its own way after one event, one whose
\* second event is backdated, one that repeats an event.
MCLogs == {<<e1, e2, e3>>, <<e1, e3>>, <<e2, e4>>, <<e4, e4>>}
MCSessions == {s1, s2, s3}
TwoSessions == {s1, s2}
===============================================================================
