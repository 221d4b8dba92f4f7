------------------------------ MODULE MCCandidate ------------------------------
(* Small instances of Candidate. *)
EXTENDS Candidate, TLC

CONSTANTS b, c, w, r1, r2, alice, bob, none

\* Coinbases without a witness, with a reserved value, and with more than that.
SmallStacks == {none, <<r1>>, <<r2>>, <<r1, r2>>}
===============================================================================
