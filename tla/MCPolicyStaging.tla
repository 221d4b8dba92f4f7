--------------------------- MODULE MCPolicyStaging ----------------------------
(* Small instances of PolicyStaging. *)
EXTENDS PolicyStaging, TLC

CONSTANTS s1, s2, none

Request(id, scopes, time) == [id |-> id, scopes |-> scopes, time |-> time]
MCRequests == {Request("r1", {"aux"}, 1), Request("r1", {"parent", "aux"}, 2),
               Request("r2", {"parent", "aux"}, 2)}
MCSenders == {s1, s2}
AnySender == Permutations(MCSenders)
===============================================================================
