----------------------------- MODULE MCShadowAudit -----------------------------
(* Small instances of ShadowAudit. *)
EXTENDS ShadowAudit, TLC

CONSTANTS alice, bob, none

ThreeIds == 1..3
Both == {alice, bob}
SomeWorths == {1, 3}
===============================================================================
