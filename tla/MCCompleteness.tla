---------------------------- MODULE MCCompleteness ----------------------------
(* Small instances of Completeness. *)
EXTENDS Completeness, TLC

CONSTANTS s1, s2, none

TwoSenders == {s1, s2}
OneEach == [s \in TwoSenders |-> 1]
===============================================================================
