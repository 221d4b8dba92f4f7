-------------------------------- MODULE Clock ---------------------------------
(***************************************************************************)
(* The clock classification of a sender's lane, as                         *)
(* tools/verify_policy_clock_vectors.py decides it: a receiver classifies  *)
(* the offset it measured at one of the sender's probes and says so in a   *)
(* ClockStateUpdate; the sender verifies the update, keeps its lifetime,   *)
(* the grace of an UNKNOWN episode and the latch that BAD sets.            *)
(*                                                                         *)
(* The functions of the code take the state they need as fields of their   *)
(* input.  Here those fields are variables: what one decision returns is   *)
(* what the next one is given.  Updates come in any order, any number of   *)
(* times and arbitrarily late; a refused one changes nothing.              *)
(***************************************************************************)
EXTENDS Integers, FiniteSets, FiniteSetsExt

CONSTANTS
  Scopes,          \* clock contracts of the active scopes
  Updates,         \* the updates there may be
  None,
  MaxTime          \* bound: time

Classes == {"GOOD", "BAD", "UNKNOWN"}
Reasons == {"PROBE_EVIDENCE", "SENDER_PROCESSING_LIMIT", "RECEIVER_WALL_STEP",
            "EVIDENCE_EXPIRED"}
Intervals == [lower : Int, upper : Int]

ASSUME ClockAssumption ==
  /\ IsFiniteSet(Scopes) /\ Scopes # {} /\ None \notin Int
  /\ \A s \in Scopes : s \in [skew : Nat, probe : Nat, expiry : Nat, grace : Nat]
  /\ \A u \in Updates : u \in [generation : Nat, valid : Int, skew : Int,
                             bounds : Intervals \cup {None}, state : Classes,
                             reason : Reasons, probe : Int \cup {None}]
  /\ MaxTime \in Nat

VARIABLES
  now,
  opened,          \* when the current stream began: it has a probe a tick since
  last,            \* last_generation of the stream
  clock,           \* previous_state
  since,           \* previous_unknown_since_mono
  until,           \* when the accepted evidence expires
  goods,           \* probes accepted as GOOD since the latch
  proof,           \* history: the last accepted update's probe and bounds, and
                   \* whether trusted UTC was then behind the durable event time
  sinceBad,        \* history: probes accepted as GOOD since BAD was last accepted
  granted          \* history: ticks of grace in this episode of UNKNOWN

vars == <<now, opened, last, clock, since, until, goods, proof, sinceBad, granted>>

\* The strictest of the active scopes, each parameter on its own.
Effective == [skew |-> Min({s.skew : s \in Scopes}), probe |-> Min({s.probe : s \in Scopes}),
              expiry |-> Min({s.expiry : s \in Scopes}), grace |-> Min({s.grace : s \in Scopes})]

\* mutant: a bound at the permitted skew is not GOOD.
StrictClass(b, skew) ==
  IF -skew < b.lower /\ b.lower <= b.upper /\ b.upper < skew THEN "GOOD"
  ELSE IF b.upper < -skew \/ b.lower > skew THEN "BAD" ELSE "UNKNOWN"
IntervalClass(b, skew) ==
  IF -skew <= b.lower /\ b.lower <= b.upper /\ b.upper <= skew THEN "GOOD"
  ELSE IF b.upper < -skew \/ b.lower > skew THEN "BAD" ELSE "UNKNOWN"

Answer(result, remaining) == [result |-> result, remaining |-> remaining]
Refuse(code) == Answer(code, 0)
Malformed == Refuse("MALFORMED_FRAME")
Violation == Refuse("CLOCK_CONTRACT_VIOLATION")

Age(u) == now - u.probe
\* mutant: the advertised lifetime counts from the arrival.
LifetimeOnArrival(u) == u.valid
\* What is left of the evidence: never more than the probe's own lifetime.
Lifetime(u) == Min({u.valid, Effective.expiry - Age(u)})

Future(u) == Age(u) < 0
Fresh(u, result) ==
  IF Future(u) THEN Malformed
  ELSE IF Age(u) >= Effective.expiry THEN Refuse("STALE_EVIDENCE")
  ELSE Answer(result, Lifetime(u))

Paired(u) == u.bounds # None => u.bounds.lower <= u.bounds.upper
WhollyGood(u) == u.bounds # None /\ IntervalClass(u.bounds, Effective.skew) = "GOOD"

ProcessingLimit(u, exceeded) ==
  IF u.probe = None THEN Malformed
  ELSE IF ~exceeded \/ u.state # "BAD" \/ WhollyGood(u) THEN Violation
  ELSE Fresh(u, "BAD")
WallStep(u) ==
  IF u.probe # None THEN Malformed
  ELSE IF u.state # "BAD" \/ WhollyGood(u) THEN Violation
  ELSE Answer("BAD", u.valid)
EvidenceExpired(u) ==
  IF u.state # "UNKNOWN" THEN Violation
  ELSE IF u.probe # None \/ u.bounds # None THEN Malformed
  ELSE Answer("UNKNOWN", u.valid)
ProbeEvidence(u) ==
  IF u.probe = None \/ u.bounds = None THEN Malformed
  ELSE IF u.state # IntervalClass(u.bounds, Effective.skew) THEN Violation
  ELSE Fresh(u, u.state)

\* exceeded: the sender measured that it took too long over this probe.
VerifyClockUpdate(u, exceeded) ==
  CASE u.generation = 0 -> Malformed
    [] u.generation # 0 /\ u.generation <= last -> Refuse("IGNORE")
    [] u.generation > last ->
         IF u.valid \notin 1..Effective.expiry THEN Malformed
         ELSE IF u.skew # Effective.skew THEN Violation
         ELSE IF ~Paired(u) \/ (u.probe # None /\ u.probe < opened) THEN Malformed
         ELSE CASE u.reason = "SENDER_PROCESSING_LIMIT" -> ProcessingLimit(u, exceeded)
                [] u.reason = "RECEIVER_WALL_STEP" -> WallStep(u)
                [] u.reason = "EVIDENCE_EXPIRED" -> EvidenceExpired(u)
                [] u.reason = "PROBE_EVIDENCE" -> ProbeEvidence(u)

SinceUpdate == now   \* mutant: each update begins a new grace
\* The episode of UNKNOWN keeps its beginning.
UnknownSince == IF clock # "UNKNOWN" THEN now ELSE since
Remaining == Max({0, Effective.grace - (now - since)})

SpansProbeInterval(g) == \E p, q \in g : q - p >= Effective.probe
\* mutants: three probes in a burst recover; UTC may lag behind what was recorded.
BurstRecovers(g, behind) == Cardinality(g) >= 3 /\ ~behind
LagRecovers(g, behind) == Cardinality(g) >= 3 /\ SpansProbeInterval(g)
\* Behind: trusted UTC is behind the durable event time.
Recovered(g, behind) == Cardinality(g) >= 3 /\ SpansProbeInterval(g) /\ ~behind
BadRecovery(g, expired, behind) ==
  IF clock = "BAD" /\ expired THEN "RECOVERING"
  ELSE IF Recovered(g, behind) THEN "GOOD" ELSE "RECOVERING"

Latched == clock \in {"BAD", "RECOVERING"}
-------------------------------------------------------------------------------
Init ==
  /\ now = 0 /\ opened = 0 /\ last = 0 /\ clock = "UNKNOWN" /\ since = 0
  /\ until = 0 /\ goods = {} /\ granted = 0
  /\ proof = [probe |-> None, bounds |-> None, behind |-> FALSE] /\ sinceBad = {}

\* mutant: BAD does not discard the probes that counted before it.
KeptOverBad(u, v) == IF v.result = "GOOD" THEN goods \cup {u.probe} ELSE goods
\* The probes that count towards recovery: those since BAD, with u's.
Counted(u, v) ==
  IF ~Latched \/ v.result = "BAD" THEN {}
  ELSE IF v.result = "GOOD" THEN goods \cup {u.probe} ELSE goods

Accepted(u, v, behind) ==
  /\ v.result \in Classes
  /\ last' = u.generation /\ until' = now + v.remaining
  /\ proof' = [probe |-> u.probe, bounds |-> u.bounds, behind |-> behind]
  /\ sinceBad' = CASE v.result = "BAD" -> {}
                   [] v.result = "GOOD" -> sinceBad \cup {u.probe}
                   [] v.result = "UNKNOWN" -> sinceBad
  /\ UNCHANGED <<now, opened>>

\* An update while nothing is latched, or one that says BAD.
Classify(u, exceeded) ==
  LET v == VerifyClockUpdate(u, exceeded) IN
    /\ Accepted(u, v, FALSE)
    /\ ~Latched \/ v.result = "BAD"
    /\ clock' = v.result /\ goods' = Counted(u, v)
    /\ since' = IF v.result = "UNKNOWN" THEN UnknownSince ELSE since
    /\ granted' = IF v.result = "UNKNOWN" THEN granted ELSE 0

\* Any other update while BAD is latched.
Recover(u, exceeded, behind) ==
  LET v == VerifyClockUpdate(u, exceeded) IN
    /\ Accepted(u, v, behind)
    /\ Latched /\ v.result # "BAD"
    /\ clock' = IF v.result = "GOOD" THEN BadRecovery(Counted(u, v), FALSE, behind)
                ELSE "RECOVERING"
    /\ goods' = IF clock' = "GOOD" THEN {} ELSE Counted(u, v)
    /\ UNCHANGED <<since, granted>>

\* mutant: an expired BAD is an ordinary UNKNOWN, with its grace.
ExpiryForgets == IF clock \in {"BAD", "GOOD"} THEN "UNKNOWN" ELSE clock
\* The accepted evidence expires: what BAD leaves is latched.
AfterExpiry ==
  IF clock = "BAD" THEN BadRecovery(goods, TRUE, FALSE)
  ELSE IF clock = "GOOD" THEN "UNKNOWN" ELSE clock

Tick ==
  /\ now < MaxTime
  /\ now' = now + 1
  /\ IF now + 1 >= until
     THEN /\ clock' = AfterExpiry
          /\ since' = IF clock' = "UNKNOWN" /\ clock # "UNKNOWN" THEN now + 1 ELSE since
     ELSE UNCHANGED <<clock, since>>
  /\ granted' = IF clock = "UNKNOWN" /\ Remaining > 0 THEN granted + 1 ELSE granted
  /\ UNCHANGED <<opened, last, until, goods, proof, sinceBad>>

\* A new stream counts its generations from the start and knows no older probe.
NewStream ==
  /\ opened' = now /\ last' = 0
  /\ UNCHANGED <<now, clock, since, until, goods, proof, sinceBad, granted>>

Next ==
  \/ \E u \in Updates, exceeded \in BOOLEAN : Classify(u, exceeded)
  \/ \E u \in Updates, exceeded, behind \in BOOLEAN : Recover(u, exceeded, behind)
  \/ Tick \/ NewStream

Spec == Init /\ [][Next]_vars
-------------------------------------------------------------------------------

\* tools/verify_state_vectors.py decides with the age of the evidence it is given.
StateVectorUpdate(u) ==
  IF u.generation <= last THEN "IGNORE"
  ELSE IF Age(u) > u.valid THEN "UNKNOWN"
  ELSE IF u.valid \notin 1..Effective.expiry \/ u.skew # Effective.skew
    THEN "CLOCK_CONTRACT_VIOLATION"
  ELSE IF ~Paired(u) THEN "MALFORMED_FRAME"
  ELSE IF u.bounds = None
    THEN IF u.state = "GOOD" THEN "raises" ELSE u.state   \* it compares None
  ELSE IF CASE u.state = "GOOD" -> /\ -Effective.skew <= u.bounds.lower
                                   /\ u.bounds.upper <= Effective.skew
            [] u.state # "GOOD" -> IntervalClass(u.bounds, Effective.skew) = u.state
    THEN u.state ELSE "CLOCK_CONTRACT_VIOLATION"

\* tools/verify_draft06_vectors.py classifies by state, reason, probe and interval.
ClockStateCase(u, exceeded) ==
  IF \/ u.reason = "SENDER_PROCESSING_LIMIT" /\ exceeded
         /\ u.state = "BAD" /\ u.probe # None
     \/ u.reason = "PROBE_EVIDENCE" /\ u.probe # None /\ u.bounds # None
         /\ IntervalClass(u.bounds, Effective.skew) = u.state
     \/ u.reason = "RECEIVER_WALL_STEP" /\ u.state = "BAD" /\ u.probe = None
  THEN u.state ELSE "CLOCK_CONTRACT_VIOLATION"

\* tools/verify_freeze_completion_vectors.py: the lifetime of a delayed update.
DelayedLifetime(u) ==
  LET left == Max({0, Effective.expiry - Age(u)})
  IN IF left > 0 THEN Min({u.valid, left}) ELSE 0
-------------------------------------------------------------------------------
TypeOK ==
  /\ now \in 0..MaxTime /\ opened \in 0..now /\ last \in Nat
  /\ clock \in Classes \cup {"RECOVERING"} /\ since \in 0..now /\ until \in Nat
  /\ goods \subseteq 0..now /\ sinceBad \subseteq 0..now /\ granted \in Nat
  /\ proof \in [probe : Int \cup {None}, bounds : Intervals \cup {None},
               behind : BOOLEAN]

(* However late an update arrives, a lane is GOOD only while the probe it rests  *)
(* on is younger than every scope's expiry, and only if every offset that the    *)
(* measurement leaves possible is one that every scope permits.                  *)
GoodIsProven == clock = "GOOD" =>
  \A s \in Scopes :
    /\ proof.probe <= now /\ now < proof.probe + s.expiry
    /\ \A o \in proof.bounds.lower..proof.bounds.upper : -s.skew <= o /\ o <= s.skew

(* Without certainty a lane admits for no longer than every scope's grace, in   *)
(* one episode: neither more updates nor new streams begin another one.         *)
GraceIsOneEpisode == \A s \in Scopes : granted <= s.grace

(* Neither time nor a new stream nor UNKNOWN releases a lane that was BAD.  What  *)
(* releases it makes it GOOD, on three probes accepted as GOOD since the last BAD *)
(* of any stream, two of which are an effective interval of some scope apart, and *)
(* while trusted UTC is not behind the durable event time.                       *)
LatchHolds ==
  [][Latched /\ clock' \notin {"BAD", "RECOVERING"} =>
       /\ clock' = "GOOD" /\ Cardinality(sinceBad') >= 3
       /\ \E s \in Scopes, p, q \in sinceBad' : q - p >= s.probe
       /\ ~proof'.behind]_vars

(* The verifiers of the repository that classify fresh probe evidence decide    *)
(* alike, and give a delayed update the same lifetime.                           *)
VerifiersAgree ==
  \A u \in Updates, exceeded \in BOOLEAN :
    LET v == VerifyClockUpdate(u, exceeded) IN
      /\ ( /\ u.reason = "PROBE_EVIDENCE" /\ u.generation > last
           /\ u.valid \in 1..Effective.expiry /\ u.skew = Effective.skew
           /\ u.probe # None /\ u.bounds # None /\ Paired(u)
           /\ opened <= u.probe /\ u.probe <= now /\ Age(u) <= u.valid
           /\ Age(u) < Effective.expiry )
         => v.result = StateVectorUpdate(u) /\ v.result = ClockStateCase(u, exceeded)
      /\ v.result \in Classes /\ u.probe # None => v.remaining = DelayedLifetime(u)
      /\ v.result = "STALE_EVIDENCE" => DelayedLifetime(u) = 0
===============================================================================
