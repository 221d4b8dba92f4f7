------------------------------ MODULE Delivery --------------------------------
(***************************************************************************)
(* What the relay promises one sender directory: the receiver stores its   *)
(* events once each, in the order they were admitted, and the directory    *)
(* counts as acknowledged no more than what is stored.                     *)
(***************************************************************************)
EXTENDS Naturals, Sequences

CONSTANT Events

VARIABLES log, stored, acked
vars == <<log, stored, acked>>

Init == log = <<>> /\ stored = <<>> /\ acked = 0

Admit ==
  /\ \E e \in Events : log' = Append(log, e)
  /\ UNCHANGED <<stored, acked>>

Store ==
  /\ \E n \in (Len(stored) + 1)..Len(log) : stored' = SubSeq(log, 1, n)
  /\ UNCHANGED <<log, acked>>

Acknowledge ==
  /\ acked' \in (acked + 1)..Len(stored)
  /\ UNCHANGED <<log, stored>>

Next == Admit \/ Store \/ Acknowledge

Spec == Init /\ [][Next]_vars
===============================================================================
