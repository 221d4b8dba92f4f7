------------------------------- MODULE MCClock --------------------------------
(* Small instances of Clock. *)
EXTENDS Clock, TLC

CONSTANT none

\* Two scopes, neither of which is the strictest in everything.  Three probes may
\* be closer together than the interval of either.
Contract(skew, probe, expiry, grace) ==
  [skew |-> skew, probe |-> probe, expiry |-> expiry, grace |-> grace]
TwoScopes == {Contract(1, 4, 3, 3), Contract(2, 3, 4, 2)}

Interval(l, u) == [lower |-> l, upper |-> u]
SomeBounds == {Interval(-1, 1), Interval(0, 2), Interval(2, 2), Interval(1, 0), none}
Update(g, valid, skew, b, state, reason, probe) ==
  [generation |-> g, valid |-> valid, skew |-> skew, bounds |-> b, state |-> state,
   reason |-> reason, probe |-> probe]

\* Every combination of classification, bounds, reason and presence of a probe;
\* probe evidence of every probe, early and late; and a loosened contract.
SomeUpdates ==
  {Update(2, 3, 1, b, state, reason, probe) :
     b \in SomeBounds, state \in Classes, reason \in Reasons, probe \in {1, none}}
  \cup {Update(g, valid, 1, b, state, "PROBE_EVIDENCE", probe) :
          g \in 1..2, valid \in {1, 3}, b \in {Interval(-1, 1), Interval(0, 2), Interval(2, 2)},
          state \in Classes, probe \in 0..MaxTime}
  \cup {Update(g, valid, skew, Interval(-1, 1), "GOOD", "PROBE_EVIDENCE", 1) :
          g \in {0, 2}, valid \in {0, 3, 4}, skew \in {1, 2}}
===============================================================================
