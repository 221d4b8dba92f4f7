----------------------------- MODULE MCSenderWal -----------------------------
(* Small instances of SenderWal. *)
EXTENDS SenderWal

CONSTANTS k1, k2, r1, r2, i1, i2, none

Admit(key, time, through) == [key |-> key, time |-> time, through |-> through]

\* Two keys at one time, in an order the boundaries allow and in one they do
\* not, and one of them asked for again with another boundary.
SomeRequests == {Admit(k1, 1, 0), Admit(k2, 1, 1), Admit(k1, 1, 1)}

BothReceivers == {r1, r2}
BothIncarnations == {i1, i2}
SomeContracts == {"ok", "CONTRACT_BINDING_CHANGED"}
SomeCaps == {1, 2}
===============================================================================
