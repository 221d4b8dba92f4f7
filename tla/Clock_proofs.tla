----------------------------- MODULE Clock_proofs -----------------------------
(***************************************************************************)
(* A lane is GOOD only on evidence that every scope accepts, its grace is  *)
(* given once, BAD is released by three spaced probes, the verifiers agree: *)
(* for every set of scopes and every set of updates.                       *)
(***************************************************************************)
EXTENDS Clock, WellFoundedInduction, FiniteSetTheorems, TLAPS

\* What makes a lane GOOD holds for as long as its evidence lives.
GoodInv ==
  clock = "GOOD" =>
    /\ proof.probe \in Int /\ proof.bounds \in Intervals
    /\ proof.probe <= now /\ now < until /\ until <= proof.probe + Effective.expiry
    /\ IntervalClass(proof.bounds, Effective.skew) = "GOOD"

\* The ticks of grace fit the time since the episode began.
GraceInv ==
  /\ granted <= Effective.grace
  /\ IF clock = "UNKNOWN" THEN granted <= now - since ELSE granted = 0

\* What counts towards recovery was accepted as GOOD since the last BAD.
LatchInv == goods \subseteq sinceBad

ClockInv == GoodInv /\ GraceInv /\ LatchInv
Inv == TypeOK /\ ClockInv
-------------------------------------------------------------------------------
LEMMA LeastOf ==
  ASSUME NEW T \in SUBSET Nat, T # {}
  PROVE  Min(T) \in T /\ \A y \in T : Min(T) <= y
<1> DEFINE R == OpToRel(<, Nat)
<1>1. \A x, y \in Nat : <<y, x>> \in R <=> y < x
  BY DEF OpToRel
<1>2. IsWellFoundedOn(R, Nat)
  BY NatLessThanWellFounded
<1> HIDE DEF R
<1>3. PICK x \in T : \A y \in T : ~ (<<y, x>> \in R)
  BY <1>2, WFMin
<1>4. \A y \in T : y \in Nat /\ x \in Nat /\ ~(y < x)
  BY <1>1, <1>3
<1>5. \A y \in T : x <= y
  BY <1>4
<1> QED BY <1>5 DEF Min

LEMMA OfTwo ==
  ASSUME NEW a \in Int, NEW b \in Int
  PROVE  /\ Min({a, b}) \in {a, b} /\ Min({a, b}) <= a /\ Min({a, b}) <= b
         /\ Max({a, b}) \in {a, b} /\ a <= Max({a, b}) /\ b <= Max({a, b})
<1>1. \E x \in {a, b} : \A y \in {a, b} : x <= y
  <2>1. CASE a <= b BY <2>1
  <2>2. CASE b <= a BY <2>2
  <2> QED BY <2>1, <2>2
<1>2. \E x \in {a, b} : \A y \in {a, b} : x >= y
  <2>1. CASE a <= b BY <2>1
  <2>2. CASE b <= a BY <2>2
  <2> QED BY <2>1, <2>2
<1>3. Min({a, b}) \in {a, b} /\ \A y \in {a, b} : Min({a, b}) <= y
  BY <1>1 DEF Min
<1>4. Max({a, b}) \in {a, b} /\ \A y \in {a, b} : Max({a, b}) >= y
  BY <1>2 DEF Max
<1> QED BY <1>3, <1>4

\* The effective contract is at least as strict as that of each scope.
LEMMA EffectiveFacts ==
  /\ Effective.skew \in Nat /\ Effective.probe \in Nat
  /\ Effective.expiry \in Nat /\ Effective.grace \in Nat
  /\ \E s \in Scopes : Effective.probe = s.probe
  /\ \A s \in Scopes : /\ s.skew \in Nat /\ s.expiry \in Nat /\ s.grace \in Nat
                       /\ Effective.skew <= s.skew /\ Effective.expiry <= s.expiry
                       /\ Effective.grace <= s.grace
<1> DEFINE A == {s.skew : s \in Scopes}
           B == {s.probe : s \in Scopes}
           C == {s.expiry : s \in Scopes}
           D == {s.grace : s \in Scopes}
<1>1. \A s \in Scopes : s.skew \in Nat /\ s.probe \in Nat /\ s.expiry \in Nat /\ s.grace \in Nat
  BY ClockAssumption
<1>2. \A s \in Scopes : s.skew \in A /\ s.probe \in B /\ s.expiry \in C /\ s.grace \in D
  OBVIOUS
<1>3. A \in SUBSET Nat /\ B \in SUBSET Nat /\ C \in SUBSET Nat /\ D \in SUBSET Nat
  BY <1>1
<1>4. A # {} /\ B # {} /\ C # {} /\ D # {}
  BY ClockAssumption
<1>5. Effective = [skew |-> Min(A), probe |-> Min(B), expiry |-> Min(C), grace |-> Min(D)]
  BY DEF Effective
<1> HIDE DEF A, B, C, D
<1>6. /\ Min(A) \in A /\ Min(B) \in B /\ Min(C) \in C /\ Min(D) \in D
      /\ \A y \in A : Min(A) <= y
      /\ \A y \in C : Min(C) <= y
      /\ \A y \in D : Min(D) <= y
  BY <1>3, <1>4, LeastOf
<1>7. \A s \in Scopes : Min(A) <= s.skew /\ Min(C) <= s.expiry /\ Min(D) <= s.grace
  BY <1>2, <1>6
<1>8. \E s \in Scopes : Min(B) = s.probe
  BY <1>6 DEF B
<1> QED
  BY <1>1, <1>3, <1>5, <1>6, <1>7, <1>8

LEMMA UpdateFacts ==
  ASSUME NEW u \in Updates
  PROVE  /\ u.generation \in Nat /\ u.valid \in Int /\ u.skew \in Int
         /\ u.bounds \in Intervals \cup {None} /\ u.state \in Classes
         /\ u.reason \in Reasons /\ u.probe \in Int \cup {None}
BY ClockAssumption

\* Evidence that is taken is not from the future nor stale.
LEMMA FreshFacts ==
  ASSUME now \in Int, NEW u \in Updates, u.probe # None, NEW r,
         Fresh(u, r).result \in Classes, u.valid \in 1..Effective.expiry
  PROVE  /\ Fresh(u, r) = Answer(r, Lifetime(u)) /\ Fresh(u, r).result = r
         /\ Fresh(u, r).remaining = Lifetime(u)
         /\ u.probe \in Int /\ u.probe <= now /\ Age(u) \in Int /\ 0 <= Age(u)
         /\ Age(u) < Effective.expiry
         /\ Lifetime(u) \in Nat /\ 1 <= Lifetime(u) /\ Lifetime(u) <= u.valid
         /\ Lifetime(u) <= Effective.expiry - Age(u)
<1>1. u.probe \in Int /\ u.valid \in Int /\ Effective.expiry \in Int
  BY UpdateFacts, EffectiveFacts
<1>2. Age(u) \in Int /\ Age(u) = now - u.probe
  BY <1>1 DEF Age
<1>3. ~Future(u) /\ ~(Age(u) >= Effective.expiry)
  BY DEF Fresh, Malformed, Refuse, Answer, Classes
<1>4. Fresh(u, r) = Answer(r, Lifetime(u))
  BY <1>3 DEF Fresh
<1>5. 0 <= Age(u) /\ Age(u) < Effective.expiry /\ u.probe <= now
  BY <1>1, <1>2, <1>3 DEF Future
<1> DEFINE e == Effective.expiry - Age(u)
<1>6. e \in Int /\ 1 <= e /\ 1 <= u.valid
  BY <1>1, <1>2, <1>5
<1>7. Lifetime(u) = Min({u.valid, e})
  BY DEF Lifetime
<1> HIDE DEF e
<1>8. Lifetime(u) \in {u.valid, e} /\ Lifetime(u) <= u.valid /\ Lifetime(u) <= e
  BY <1>1, <1>6, <1>7, OfTwo
<1>9. Lifetime(u) \in Nat /\ 1 <= Lifetime(u)
  BY <1>1, <1>6, <1>8
<1> QED
  BY <1>1, <1>2, <1>4, <1>5, <1>8, <1>9 DEF Answer, e

\* What an accepted update shows.
LEMMA VerifyFacts ==
  ASSUME TypeOK, NEW u \in Updates, NEW exceeded \in BOOLEAN,
         VerifyClockUpdate(u, exceeded).result \in Classes
  PROVE  LET v == VerifyClockUpdate(u, exceeded) IN
         /\ u.generation > last /\ v.remaining \in Nat /\ 1 <= v.remaining
         /\ u.probe # None => /\ u.probe \in Int /\ opened <= u.probe /\ u.probe <= now
                              /\ Age(u) < Effective.expiry /\ u.valid \in 1..Effective.expiry
                              /\ v.remaining = Lifetime(u)
         /\ v.result = "GOOD" =>
              /\ u.probe # None /\ u.bounds \in Intervals
              /\ v.remaining <= Effective.expiry - Age(u)
              /\ IntervalClass(u.bounds, Effective.skew) = "GOOD"
<1> DEFINE v == VerifyClockUpdate(u, exceeded)
           P == ProcessingLimit(u, exceeded)
           W == WallStep(u)
           X == EvidenceExpired(u)
           E == ProbeEvidence(u)
           ByReason == CASE u.reason = "SENDER_PROCESSING_LIMIT" -> P
                         [] u.reason = "RECEIVER_WALL_STEP" -> W
                         [] u.reason = "EVIDENCE_EXPIRED" -> X
                         [] u.reason = "PROBE_EVIDENCE" -> E
<1>0. /\ u.generation \in Nat /\ last \in Nat /\ u.valid \in Int /\ u.reason \in Reasons
      /\ u.bounds \in Intervals \cup {None} /\ u.state \in Classes
      /\ u.probe \in Int \cup {None} /\ now \in Int /\ opened \in Int
  BY UpdateFacts DEF TypeOK
<1>1. u.generation > last
  BY <1>0 DEF VerifyClockUpdate, Malformed, Refuse, Answer, Classes
<1> HIDE DEF P, W, X, E
<1>2. /\ v = IF u.valid \notin 1..Effective.expiry THEN Malformed
            ELSE IF u.skew # Effective.skew THEN Violation
            ELSE IF ~Paired(u) \/ (u.probe # None /\ u.probe < opened) THEN Malformed
            ELSE ByReason
  <2>1. ~(u.generation = 0) /\ ~(u.generation # 0 /\ u.generation <= last)
    BY <1>0, <1>1
  <2> QED BY <1>1, <2>1 DEF VerifyClockUpdate, P, W, X, E
<1>a. v.result \in Classes
  OBVIOUS
<1>b. Malformed.result \notin Classes /\ Violation.result \notin Classes
  BY DEF Malformed, Violation, Refuse, Answer, Classes
<1> HIDE DEF v, ByReason
<1>3. /\ u.valid \in 1..Effective.expiry /\ (u.probe # None => opened <= u.probe)
      /\ v = ByReason
  BY <1>0, <1>2, <1>a, <1>b
<1>4. u.valid \in Nat /\ 1 <= u.valid
  BY <1>0, <1>3, EffectiveFacts
<1>5. CASE u.reason = "SENDER_PROCESSING_LIMIT"
  <2>1. v = P
    BY <1>3, <1>5 DEF ByReason
  <2>2. P = Fresh(u, "BAD") /\ u.probe # None
    BY <1>a, <2>1 DEF P, ProcessingLimit, Malformed, Violation, Refuse, Answer, Classes
  <2>3. Fresh(u, "BAD").result \in Classes
    BY <1>a, <2>1, <2>2
  <2>4. /\ v.result = "BAD" /\ v.remaining = Lifetime(u)
        /\ u.probe \in Int /\ u.probe <= now /\ Age(u) < Effective.expiry
        /\ Lifetime(u) \in Nat /\ 1 <= Lifetime(u)
        /\ Lifetime(u) <= Effective.expiry - Age(u)
    BY <1>0, <1>3, <2>1, <2>2, <2>3, FreshFacts
  <2> QED
    BY <1>0, <1>1, <1>3, <2>2, <2>4 DEF v
<1>6. CASE u.reason = "RECEIVER_WALL_STEP"
  <2>1. v = W
    BY <1>3, <1>6 DEF ByReason
  <2>2. W = Answer("BAD", u.valid) /\ u.probe = None
    BY <1>a, <2>1 DEF W, WallStep, Malformed, Violation, Refuse, Answer, Classes
  <2> QED
    BY <1>1, <1>4, <2>1, <2>2 DEF Answer, v
<1>7. CASE u.reason = "EVIDENCE_EXPIRED"
  <2>1. v = X
    BY <1>3, <1>7 DEF ByReason
  <2>2. X = Answer("UNKNOWN", u.valid) /\ u.probe = None
    BY <1>a, <2>1 DEF X, EvidenceExpired, Malformed, Violation, Refuse, Answer, Classes
  <2> QED
    BY <1>1, <1>4, <2>1, <2>2 DEF Answer, v
<1>8. CASE u.reason = "PROBE_EVIDENCE"
  <2>1. v = E
    BY <1>3, <1>8 DEF ByReason
  <2>2. /\ E = Fresh(u, u.state) /\ u.probe # None /\ u.bounds \in Intervals
        /\ u.state = IntervalClass(u.bounds, Effective.skew)
    BY <1>0, <1>a, <2>1 DEF E, ProbeEvidence, Malformed, Violation, Refuse, Answer, Classes
  <2>3. Fresh(u, u.state).result \in Classes
    BY <1>a, <2>1, <2>2
  <2>4. /\ v.result = u.state /\ v.remaining = Lifetime(u)
        /\ u.probe \in Int /\ u.probe <= now /\ Age(u) < Effective.expiry
        /\ Lifetime(u) \in Nat /\ 1 <= Lifetime(u)
        /\ Lifetime(u) <= Effective.expiry - Age(u)
    BY <1>0, <1>3, <2>1, <2>2, <2>3, FreshFacts
  <2> QED
    BY <1>0, <1>1, <1>3, <2>2, <2>4 DEF v
<1> QED
  BY <1>0, <1>5, <1>6, <1>7, <1>8 DEF Reasons
-------------------------------------------------------------------------------
LEMMA InitInv == Init => Inv
<1> SUFFICES ASSUME Init PROVE Inv
  OBVIOUS
<1>1. MaxTime \in Nat /\ Effective.grace \in Nat
  BY ClockAssumption, EffectiveFacts
<1>2. TypeOK
  BY <1>1 DEF Init, TypeOK, Classes
<1> QED
  BY <1>1, <1>2 DEF Init, Inv, ClockInv, GoodInv, GraceInv, LatchInv

LEMMA ClassifyStep ==
  ASSUME Inv, NEW u \in Updates, NEW exceeded \in BOOLEAN, Classify(u, exceeded)
  PROVE  Inv'
<1> DEFINE v == VerifyClockUpdate(u, exceeded)
<1>1. /\ v.result \in Classes /\ last' = u.generation /\ until' = now + v.remaining
      /\ proof' = [probe |-> u.probe, bounds |-> u.bounds, behind |-> FALSE]
      /\ now' = now /\ opened' = opened /\ clock' = v.result /\ goods' = {}
      /\ sinceBad' \subseteq sinceBad \cup {u.probe}
      /\ v.result # "GOOD" => sinceBad' \subseteq sinceBad
      /\ since' = IF v.result = "UNKNOWN" THEN UnknownSince ELSE since
      /\ granted' = IF v.result = "UNKNOWN" THEN granted ELSE 0
  <2>1. Counted(u, v) = {}
    BY DEF Classify, Counted
  <2>2. sinceBad' = CASE v.result = "BAD" -> {}
                      [] v.result = "GOOD" -> sinceBad \cup {u.probe}
                      [] v.result = "UNKNOWN" -> sinceBad
    BY DEF Classify, Accepted
  <2>3. v.result \in {"GOOD", "BAD", "UNKNOWN"}
    BY DEF Classify, Accepted, Classes
  <2> QED BY <2>1, <2>2, <2>3 DEF Classify, Accepted
<1> HIDE DEF v
<1>2. /\ TypeOK /\ now \in Nat /\ since \in 0..now /\ granted \in Nat /\ now \in 0..MaxTime
      /\ u.generation \in Nat /\ u.bounds \in Intervals \cup {None}
      /\ u.probe \in Int \cup {None} /\ Effective.grace \in Nat /\ Effective.expiry \in Nat
      /\ sinceBad \subseteq 0..now /\ opened \in 0..now
  BY UpdateFacts, EffectiveFacts, ClockAssumption DEF Inv, TypeOK
<1>3. /\ v.remaining \in Nat /\ 1 <= v.remaining
      /\ v.result = "GOOD" =>
              /\ u.probe \in Int /\ opened <= u.probe /\ u.probe <= now
              /\ u.bounds \in Intervals /\ v.remaining <= Effective.expiry - Age(u)
              /\ IntervalClass(u.bounds, Effective.skew) = "GOOD"
  BY <1>1, <1>2, VerifyFacts DEF v
<1>4. since' \in 0..now
  BY <1>1, <1>2 DEF UnknownSince
<1>4a. sinceBad' \subseteq 0..now
  <2>1. v.result = "GOOD" => u.probe \in 0..now
    BY <1>2, <1>3
  <2> QED BY <1>1, <1>2, <2>1
<1>5. TypeOK'
  BY <1>1, <1>2, <1>3, <1>4, <1>4a DEF TypeOK, Classes
<1>6. GoodInv'
  <2> SUFFICES ASSUME v.result = "GOOD" PROVE GoodInv'
    BY <1>1 DEF GoodInv
  <2>1. /\ u.probe \in Int /\ u.probe <= now /\ u.bounds \in Intervals
        /\ v.remaining <= Effective.expiry - (now - u.probe)
        /\ IntervalClass(u.bounds, Effective.skew) = "GOOD"
    BY <1>3 DEF Age
  <2>2. now < now + v.remaining /\ now + v.remaining <= u.probe + Effective.expiry
    BY <1>2, <1>3, <2>1
  <2> QED BY <1>1, <2>1, <2>2 DEF GoodInv, IntervalClass, Effective
<1>7. GraceInv'
  <2>1. granted' <= Effective.grace
    BY <1>1, <1>2 DEF Inv, ClockInv, GraceInv
  <2>2. CASE v.result = "UNKNOWN"
    <3>1. clock = "UNKNOWN" => granted <= now - since
      BY DEF Inv, ClockInv, GraceInv
    <3>2. clock # "UNKNOWN" => granted = 0
      BY DEF Inv, ClockInv, GraceInv
    <3> QED BY <1>1, <1>2, <2>1, <2>2, <3>1, <3>2 DEF GraceInv, UnknownSince, Effective
  <2>3. CASE v.result # "UNKNOWN"
    BY <1>1, <2>1, <2>3 DEF GraceInv, Effective
  <2> QED BY <2>2, <2>3
<1> QED
  BY <1>1, <1>5, <1>6, <1>7 DEF Inv, ClockInv, LatchInv

LEMMA RecoverStep ==
  ASSUME Inv, NEW u \in Updates, NEW exceeded \in BOOLEAN, NEW behind \in BOOLEAN,
         Recover(u, exceeded, behind)
  PROVE  Inv'
<1> DEFINE v == VerifyClockUpdate(u, exceeded)
<1>1. /\ v.result \in Classes /\ last' = u.generation /\ until' = now + v.remaining
      /\ proof' = [probe |-> u.probe, bounds |-> u.bounds, behind |-> behind]
      /\ now' = now /\ opened' = opened /\ clock \in {"BAD", "RECOVERING"}
      /\ clock' \in {"GOOD", "RECOVERING"} /\ (clock' = "GOOD" => v.result = "GOOD")
      /\ goods' \subseteq IF v.result = "GOOD" THEN goods \cup {u.probe} ELSE goods
      /\ sinceBad' = IF v.result = "GOOD" THEN sinceBad \cup {u.probe} ELSE sinceBad
      /\ since' = since /\ granted' = granted
  <2>1. Counted(u, v) = IF v.result = "GOOD" THEN goods \cup {u.probe} ELSE goods
    BY DEF Recover, Counted
  <2>2. v.result \in {"GOOD", "UNKNOWN"}
    BY DEF Recover, Accepted, Classes
  <2>3. sinceBad' = IF v.result = "GOOD" THEN sinceBad \cup {u.probe} ELSE sinceBad
    BY <2>2 DEF Recover, Accepted
  <2> QED BY <2>1, <2>2, <2>3 DEF Recover, Accepted, Latched, BadRecovery
<1> HIDE DEF v
<1>2. /\ TypeOK /\ now \in Nat /\ since \in 0..now /\ granted \in Nat /\ now \in 0..MaxTime
      /\ u.generation \in Nat /\ u.bounds \in Intervals \cup {None} /\ opened \in 0..now
      /\ u.probe \in Int \cup {None} /\ Effective.grace \in Nat /\ Effective.expiry \in Nat
      /\ goods \subseteq 0..now /\ sinceBad \subseteq 0..now
  BY UpdateFacts, EffectiveFacts, ClockAssumption DEF Inv, TypeOK
<1>3. /\ v.remaining \in Nat /\ 1 <= v.remaining
      /\ v.result = "GOOD" =>
              /\ u.probe \in Int /\ opened <= u.probe /\ u.probe <= now
              /\ u.bounds \in Intervals
              /\ v.remaining <= Effective.expiry - Age(u)
              /\ IntervalClass(u.bounds, Effective.skew) = "GOOD"
  BY <1>1, <1>2, VerifyFacts DEF v
<1>4. goods' \subseteq 0..now /\ sinceBad' \subseteq 0..now
  <2>1. v.result = "GOOD" => u.probe \in 0..now
    BY <1>2, <1>3
  <2> QED BY <1>1, <1>2, <2>1
<1>5. TypeOK'
  BY <1>1, <1>2, <1>3, <1>4 DEF TypeOK, Classes
<1>6. GoodInv'
  <2> SUFFICES ASSUME v.result = "GOOD" PROVE GoodInv'
    BY <1>1 DEF GoodInv
  <2>1. /\ u.probe \in Int /\ u.probe <= now /\ u.bounds \in Intervals
        /\ v.remaining <= Effective.expiry - (now - u.probe)
        /\ IntervalClass(u.bounds, Effective.skew) = "GOOD"
    BY <1>3 DEF Age
  <2>2. now < now + v.remaining /\ now + v.remaining <= u.probe + Effective.expiry
    BY <1>2, <1>3, <2>1
  <2> QED BY <1>1, <2>1, <2>2 DEF GoodInv, IntervalClass, Effective
<1>7. GraceInv'
  <2>1. granted = 0
    BY <1>1 DEF Inv, ClockInv, GraceInv
  <2>2. granted' <= Effective.grace
    BY <1>1, <1>2, <2>1
  <2> QED BY <1>1, <2>1, <2>2 DEF GraceInv, Effective
<1>8. LatchInv'
  <2>1. goods \subseteq sinceBad
    BY DEF Inv, ClockInv, LatchInv
  <2> QED BY <1>1, <2>1 DEF LatchInv
<1> QED
  BY <1>5, <1>6, <1>7, <1>8 DEF Inv, ClockInv

LEMMA TickStep == ASSUME Inv, Tick PROVE Inv'
<1>1. /\ now' = now + 1 /\ now < MaxTime
      /\ UNCHANGED <<opened, last, until, goods, proof, sinceBad>>
      /\ granted' = IF clock = "UNKNOWN" /\ Remaining > 0 THEN granted + 1 ELSE granted
      /\ now + 1 >= until =>
           /\ clock' = AfterExpiry
           /\ since' = IF clock' = "UNKNOWN" /\ clock # "UNKNOWN" THEN now + 1 ELSE since
      /\ ~(now + 1 >= until) => UNCHANGED <<clock, since>>
  BY DEF Tick
<1>2. /\ now \in Nat /\ MaxTime \in Nat /\ opened \in 0..now /\ last \in Nat
      /\ clock \in Classes \cup {"RECOVERING"} /\ since \in 0..now /\ until \in Nat
      /\ goods \subseteq 0..now /\ sinceBad \subseteq 0..now /\ granted \in Nat
      /\ proof \in [probe : Int \cup {None}, bounds : Intervals \cup {None},
                   behind : BOOLEAN]
      /\ Effective.grace \in Nat /\ Effective.expiry \in Nat
  BY EffectiveFacts, ClockAssumption DEF Inv, TypeOK
<1>3. AfterExpiry = IF clock = "BAD" THEN "RECOVERING"
                    ELSE IF clock = "GOOD" THEN "UNKNOWN" ELSE clock
  BY DEF AfterExpiry, BadRecovery
<1>4. since' \in 0..(now + 1) /\ clock' \in Classes \cup {"RECOVERING"} /\ granted' \in Nat
  BY <1>1, <1>2, <1>3 DEF Classes
<1>5. TypeOK'
  BY <1>1, <1>2, <1>4 DEF TypeOK
<1>6. GoodInv'
  <2> SUFFICES ASSUME clock' = "GOOD" PROVE GoodInv'
    BY DEF GoodInv
  <2>1. clock = "GOOD" /\ now + 1 < until
    BY <1>1, <1>2, <1>3
  <2>2. /\ proof.probe \in Int /\ proof.bounds \in Intervals /\ proof.probe <= now
        /\ until <= proof.probe + Effective.expiry
        /\ IntervalClass(proof.bounds, Effective.skew) = "GOOD"
    BY <2>1 DEF Inv, ClockInv, GoodInv
  <2>3. proof.probe <= now + 1
    BY <1>2, <2>2
  <2> QED BY <1>1, <2>1, <2>2, <2>3 DEF GoodInv, IntervalClass, Effective
<1>7. GraceInv'
  <2>1. CASE clock = "UNKNOWN"
    <3>1. clock' = "UNKNOWN" /\ since' = since
      BY <1>1, <1>3, <2>1
    <3>2. granted <= now - since /\ granted <= Effective.grace
      BY <2>1 DEF Inv, ClockInv, GraceInv
    <3>3. Remaining > 0 => Effective.grace - (now - since) > 0
      <4> DEFINE rest == Effective.grace - (now - since)
      <4>1. rest \in Int /\ Remaining = Max({0, rest})
        BY <1>2 DEF Remaining
      <4> HIDE DEF rest
      <4>2. Remaining \in {0, rest}
        BY <4>1, OfTwo
      <4> QED BY <4>1, <4>2 DEF rest
    <3>4. granted' <= now + 1 - since /\ granted' <= Effective.grace
      BY <1>1, <1>2, <3>2, <3>3
    <3>5. clock' = "UNKNOWN" /\ granted' <= now' - since'
      <4>1. now' = now + 1 /\ since' = since /\ granted' <= now + 1 - since
        BY <1>1, <3>1, <3>4
      <4>2. now' - since' = now + 1 - since
        BY <1>2, <4>1
      <4> QED BY <3>1, <4>1, <4>2
    <3>6. Effective' = Effective
      BY DEF Effective
    <3> QED BY <3>4, <3>5, <3>6 DEF GraceInv
  <2>2. CASE clock # "UNKNOWN"
    <3>1. granted = 0 /\ granted' = 0
      BY <1>1, <2>2 DEF Inv, ClockInv, GraceInv
    <3>2. clock' = "UNKNOWN" => since' = now + 1
      BY <1>1, <2>2
    <3>3. clock' = "UNKNOWN" => granted' <= now' - since'
      BY <1>1, <1>2, <3>1, <3>2
    <3> QED BY <1>2, <3>1, <3>3 DEF GraceInv, Effective
  <2> QED BY <2>1, <2>2
<1> QED
  BY <1>1, <1>5, <1>6, <1>7 DEF Inv, ClockInv, LatchInv

LEMMA NewStreamStep == ASSUME Inv, NewStream PROVE Inv'
BY DEF NewStream, Inv, TypeOK, ClockInv, GoodInv, GraceInv, LatchInv, IntervalClass, Effective

LEMMA Step == ASSUME Inv, [Next]_vars PROVE Inv'
<1>1. CASE \E u \in Updates, exceeded \in BOOLEAN : Classify(u, exceeded)
  BY <1>1, ClassifyStep
<1>2. CASE \E u \in Updates, exceeded, behind \in BOOLEAN : Recover(u, exceeded, behind)
  BY <1>2, RecoverStep
<1>3. CASE Tick
  BY <1>3, TickStep
<1>4. CASE NewStream
  BY <1>4, NewStreamStep
<1>5. CASE UNCHANGED vars
  BY <1>5 DEF vars, Inv, TypeOK, ClockInv, GoodInv, GraceInv, LatchInv, IntervalClass,
               Effective
<1> QED
  BY <1>1, <1>2, <1>3, <1>4, <1>5 DEF Next
-------------------------------------------------------------------------------
\* The invariant holds whatever updates come, in whatever order and however late.
THEOREM Invariance == Spec => []Inv
BY InitInv, Step, PTL DEF Spec

\* The variables keep their types.
THEOREM TypeCorrect == Spec => []TypeOK
<1>1. Inv => TypeOK
  BY DEF Inv
<1> QED BY <1>1, Invariance, PTL

\* A lane is GOOD only on a young probe whose every possible offset is permitted by
\* every scope.
THEOREM GoodSafety == Spec => []GoodIsProven
<1>1. Inv => GoodIsProven
  <2> SUFFICES ASSUME Inv, clock = "GOOD", NEW s \in Scopes
               PROVE  /\ proof.probe <= now /\ now < proof.probe + s.expiry
                      /\ \A o \in proof.bounds.lower..proof.bounds.upper :
                           -s.skew <= o /\ o <= s.skew
    BY DEF GoodIsProven
  <2>1. /\ proof.probe \in Int /\ proof.bounds \in Intervals /\ proof.probe <= now
        /\ now < until /\ until <= proof.probe + Effective.expiry
        /\ IntervalClass(proof.bounds, Effective.skew) = "GOOD"
        /\ now \in Int /\ until \in Int
    BY DEF Inv, ClockInv, GoodInv, TypeOK
  <2>2. /\ Effective.skew \in Int /\ Effective.expiry \in Int
        /\ s.skew \in Int /\ s.expiry \in Int
        /\ Effective.skew <= s.skew /\ Effective.expiry <= s.expiry
    BY EffectiveFacts
  <2>3. now < proof.probe + s.expiry
    BY <2>1, <2>2
  <2>4. /\ proof.bounds.lower \in Int /\ proof.bounds.upper \in Int
        /\ -Effective.skew <= proof.bounds.lower /\ proof.bounds.upper <= Effective.skew
    BY <2>1 DEF IntervalClass, Intervals
  <2> QED BY <2>1, <2>2, <2>3, <2>4
<1> QED BY <1>1, Invariance, PTL

\* One episode of UNKNOWN is granted no more than every scope's grace.
THEOREM GraceSafety == Spec => []GraceIsOneEpisode
<1>1. Inv => GraceIsOneEpisode
  <2> SUFFICES ASSUME Inv, NEW s \in Scopes PROVE granted <= s.grace
    BY DEF GraceIsOneEpisode
  <2>1. granted \in Nat /\ granted <= Effective.grace
    BY DEF Inv, ClockInv, GraceInv, TypeOK
  <2> QED BY <2>1, EffectiveFacts
<1> QED BY <1>1, Invariance, PTL

\* A lane that was BAD becomes GOOD, and only on three probes since the last BAD, two of
\* them an interval apart, while UTC is not behind.
THEOREM LatchSafety == Spec => LatchHolds
<1> DEFINE Released == /\ clock' = "GOOD" /\ Cardinality(sinceBad') >= 3
                       /\ \E s \in Scopes, p, q \in sinceBad' : q - p >= s.probe
                       /\ ~proof'.behind
<1>1. ASSUME Inv, Latched, [Next]_vars, clock' \notin {"BAD", "RECOVERING"}
      PROVE  Released
  <2>1. CASE \E u \in Updates, exceeded \in BOOLEAN : Classify(u, exceeded)
    BY <1>1, <2>1 DEF Classify
  <2>2. CASE \E u \in Updates, exceeded, behind \in BOOLEAN : Recover(u, exceeded, behind)
    <3>1. PICK u \in Updates, exceeded, behind \in BOOLEAN : Recover(u, exceeded, behind)
      BY <2>2
    <3> DEFINE v == VerifyClockUpdate(u, exceeded)
               G == goods \cup {u.probe}
    <3>2. /\ clock' = IF v.result = "GOOD"
                      THEN BadRecovery(Counted(u, v), FALSE, behind) ELSE "RECOVERING"
          /\ proof' = [probe |-> u.probe, bounds |-> u.bounds, behind |-> behind]
          /\ v.result = "GOOD" => sinceBad' = sinceBad \cup {u.probe}
      BY <3>1 DEF Recover, Accepted
    <3> HIDE DEF v
    <3>3. v.result = "GOOD" /\ Counted(u, v) = G
      BY <1>1, <3>2 DEF Counted
    <3>4. clock' = "GOOD" /\ Recovered(G, behind)
      BY <1>1, <3>2, <3>3 DEF BadRecovery
    <3>5. G \subseteq sinceBad'
      BY <1>1, <3>2, <3>3 DEF Inv, ClockInv, LatchInv
    <3> HIDE DEF G
    <3>6. Cardinality(sinceBad') >= 3
      <4>1. sinceBad' \subseteq 0..now'
        BY <1>1, Step DEF Inv, TypeOK
      <4>2. now' \in Int
        BY <1>1, Step DEF Inv, TypeOK
      <4>3. IsFiniteSet(0..now')
        BY <4>2, FS_Interval
      <4>3a. IsFiniteSet(sinceBad')
        BY <4>1, <4>3, FS_Subset
      <4>4. /\ Cardinality(G) <= Cardinality(sinceBad')
            /\ Cardinality(G) \in Nat /\ Cardinality(sinceBad') \in Nat
        BY <3>5, <4>3a, FS_Subset, FS_CardinalityType
      <4>5. Cardinality(G) >= 3
        BY <3>4 DEF Recovered
      <4> QED BY <4>4, <4>5
    <3>7. \E s \in Scopes, p, q \in sinceBad' : q - p >= s.probe
      <4>1. \E p, q \in G : q - p >= Effective.probe
        BY <3>4 DEF Recovered, SpansProbeInterval
      <4>2. \E s \in Scopes : Effective.probe = s.probe
        BY EffectiveFacts
      <4> QED BY <3>5, <4>1, <4>2
    <3>8. ~proof'.behind
      BY <3>2, <3>4 DEF Recovered
    <3> QED BY <3>4, <3>6, <3>7, <3>8
  <2>3. CASE Tick
    BY <1>1, <2>3 DEF Tick, AfterExpiry, BadRecovery, Latched
  <2>4. CASE NewStream
    BY <1>1, <2>4 DEF NewStream, Latched
  <2>5. CASE UNCHANGED vars
    BY <1>1, <2>5 DEF vars, Latched
  <2> QED BY <1>1, <2>1, <2>2, <2>3, <2>4, <2>5 DEF Next
<1>2. Inv /\ [Next]_vars => [Latched /\ clock' \notin {"BAD", "RECOVERING"} => Released]_vars
  BY <1>1
<1> QED BY <1>2, Invariance, PTL DEF Spec, LatchHolds
-------------------------------------------------------------------------------
(* The verifiers                                                           *)

\* What is left of evidence, as two of the tools write it.
LEMMA LifetimesAgree ==
  ASSUME now \in Int, NEW u \in Updates, u.probe \in Int
  PROVE  /\ Age(u) < Effective.expiry => Lifetime(u) = DelayedLifetime(u)
         /\ Age(u) >= Effective.expiry => DelayedLifetime(u) = 0
<1> DEFINE e == Effective.expiry - Age(u)
           left == Max({0, e})
<1>1. Age(u) \in Int /\ Effective.expiry \in Int /\ u.valid \in Int
  BY UpdateFacts, EffectiveFacts DEF Age
<1>2. e \in Int /\ (Age(u) < Effective.expiry <=> e > 0)
  BY <1>1
<1>3. Lifetime(u) = Min({u.valid, e})
  BY DEF Lifetime
<1>4. DelayedLifetime(u) = IF left > 0 THEN Min({u.valid, left}) ELSE 0
  BY DEF DelayedLifetime
<1>5. left \in {0, e} /\ 0 <= left /\ e <= left
  <2>1. left = Max({0, e})
    OBVIOUS
  <2> HIDE DEF e, left
  <2>2. 0 \in Int /\ e \in Int
    BY <1>2
  <2>3. Max({0, e}) \in {0, e} /\ 0 <= Max({0, e}) /\ e <= Max({0, e})
    BY <2>2, OfTwo, Zenon
  <2> QED BY <2>1, <2>3
<1> HIDE DEF e, left
<1>6. e > 0 => left = e
  BY <1>2, <1>5
<1>7. ~(e > 0) => left = 0
  BY <1>2, <1>5
<1>8. ~(Age(u) < Effective.expiry) <=> Age(u) >= Effective.expiry
  BY <1>1
<1> QED
  BY <1>2, <1>3, <1>4, <1>6, <1>7, <1>8

\* Evidence is stale only when nothing of it is left.
LEMMA StaleFacts ==
  ASSUME TypeOK, NEW u \in Updates, NEW exceeded \in BOOLEAN,
         VerifyClockUpdate(u, exceeded).result = "STALE_EVIDENCE"
  PROVE  u.probe \in Int /\ Age(u) >= Effective.expiry
<1> DEFINE P == ProcessingLimit(u, exceeded)
           W == WallStep(u)
           X == EvidenceExpired(u)
           E == ProbeEvidence(u)
           v == VerifyClockUpdate(u, exceeded)
           ByReason == CASE u.reason = "SENDER_PROCESSING_LIMIT" -> P
                         [] u.reason = "RECEIVER_WALL_STEP" -> W
                         [] u.reason = "EVIDENCE_EXPIRED" -> X
                         [] u.reason = "PROBE_EVIDENCE" -> E
<1>0. /\ u.generation \in Nat /\ last \in Nat /\ u.reason \in Reasons
      /\ u.probe \in Int \cup {None} /\ u.state \in Classes
  BY UpdateFacts DEF TypeOK
<1>1. ASSUME NEW r \in Classes, Fresh(u, r).result = "STALE_EVIDENCE"
      PROVE  Age(u) >= Effective.expiry
  BY <1>1 DEF Fresh, Malformed, Refuse, Answer, Classes
<1>2. u.generation > last
  BY <1>0 DEF VerifyClockUpdate, Malformed, Refuse, Answer
<1> HIDE DEF P, W, X, E
<1>3. v = IF u.valid \notin 1..Effective.expiry THEN Malformed
          ELSE IF u.skew # Effective.skew THEN Violation
          ELSE IF ~Paired(u) \/ (u.probe # None /\ u.probe < opened) THEN Malformed
          ELSE ByReason
  <2>1. ~(u.generation = 0) /\ ~(u.generation # 0 /\ u.generation <= last)
    BY <1>0, <1>2
  <2> QED BY <1>2, <2>1 DEF VerifyClockUpdate, P, W, X, E
<1>4. v.result = "STALE_EVIDENCE"
  OBVIOUS
<1>5. Malformed.result # "STALE_EVIDENCE" /\ Violation.result # "STALE_EVIDENCE"
  BY DEF Malformed, Violation, Refuse, Answer
<1> HIDE DEF v, ByReason
<1>6. v = ByReason
  BY <1>3, <1>4, <1>5
<1>7. CASE u.reason = "SENDER_PROCESSING_LIMIT"
  <2>1. P.result = "STALE_EVIDENCE"
    BY <1>4, <1>6, <1>7 DEF ByReason
  <2>2. u.probe # None /\ Fresh(u, "BAD").result = "STALE_EVIDENCE"
    BY <1>5, <2>1 DEF P, ProcessingLimit
  <2> QED BY <1>0, <1>1, <2>2 DEF Classes
<1>8. CASE u.reason = "RECEIVER_WALL_STEP"
  <2>1. W.result = "STALE_EVIDENCE"
    BY <1>4, <1>6, <1>8 DEF ByReason
  <2> QED BY <2>1 DEF W, WallStep, Malformed, Violation, Refuse, Answer
<1>9. CASE u.reason = "EVIDENCE_EXPIRED"
  <2>1. X.result = "STALE_EVIDENCE"
    BY <1>4, <1>6, <1>9 DEF ByReason
  <2> QED BY <2>1 DEF X, EvidenceExpired, Malformed, Violation, Refuse, Answer
<1>10. CASE u.reason = "PROBE_EVIDENCE"
  <2>1. E.result = "STALE_EVIDENCE"
    BY <1>4, <1>6, <1>10 DEF ByReason
  <2>2. u.probe # None /\ Fresh(u, u.state).result = "STALE_EVIDENCE"
    BY <1>5, <2>1 DEF E, ProbeEvidence
  <2> QED BY <1>0, <1>1, <2>2
<1> QED
  BY <1>0, <1>7, <1>8, <1>9, <1>10 DEF Reasons

\* Fresh probe evidence is classified alike by all.
LEMMA ClassesAgree ==
  ASSUME TypeOK, NEW u \in Updates, NEW exceeded \in BOOLEAN,
         u.reason = "PROBE_EVIDENCE", u.generation > last,
         u.valid \in 1..Effective.expiry, u.skew = Effective.skew,
         u.probe # None, u.bounds # None, Paired(u),
         opened <= u.probe, u.probe <= now, Age(u) <= u.valid, Age(u) < Effective.expiry
  PROVE  /\ VerifyClockUpdate(u, exceeded).result = StateVectorUpdate(u)
         /\ VerifyClockUpdate(u, exceeded).result = ClockStateCase(u, exceeded)
<1> DEFINE v == VerifyClockUpdate(u, exceeded)
           c == IntervalClass(u.bounds, Effective.skew)
           E == ProbeEvidence(u)
<1>0. /\ u.generation \in Nat /\ last \in Nat /\ now \in Int /\ opened \in Int
      /\ u.valid \in Int /\ u.probe \in Int /\ u.bounds \in Intervals
      /\ u.state \in Classes /\ Effective.skew \in Int /\ Effective.expiry \in Int
  BY UpdateFacts, EffectiveFacts DEF TypeOK
<1>1. /\ u.bounds.lower \in Int /\ u.bounds.upper \in Int
      /\ u.bounds.lower <= u.bounds.upper
  BY <1>0 DEF Intervals, Paired
<1>2. v = E
  <2> HIDE DEF E
  <2>1. /\ ~(u.generation = 0) /\ ~(u.generation # 0 /\ u.generation <= last)
        /\ ~(u.probe < opened)
    BY <1>0
  <2> QED BY <2>1 DEF VerifyClockUpdate, E
<1>3. Fresh(u, u.state) = Answer(u.state, Lifetime(u))
  <2>1. ~(Age(u) < 0) /\ ~(Age(u) >= Effective.expiry)
    BY <1>0 DEF Age
  <2> QED BY <2>1 DEF Fresh, Future
<1>4. v.result = IF u.state = c THEN u.state ELSE "CLOCK_CONTRACT_VIOLATION"
  BY <1>0, <1>2, <1>3 DEF ProbeEvidence, Violation, Refuse, Answer
<1>5. c = "GOOD" <=> -Effective.skew <= u.bounds.lower /\ u.bounds.upper <= Effective.skew
  BY <1>0, <1>1 DEF IntervalClass
<1> DEFINE agrees == CASE u.state = "GOOD" -> /\ -Effective.skew <= u.bounds.lower
                                              /\ u.bounds.upper <= Effective.skew
                       [] u.state # "GOOD" -> c = u.state
<1>6. agrees <=> u.state = c
  <2> HIDE DEF c
  <2>1. CASE u.state = "GOOD" BY <1>5, <2>1
  <2>2. CASE u.state # "GOOD" BY <2>2
  <2> QED BY <2>1, <2>2
<1>7. StateVectorUpdate(u) = IF agrees THEN u.state ELSE "CLOCK_CONTRACT_VIOLATION"
  <2> HIDE DEF agrees
  <2>1. ~(u.generation <= last) /\ ~(Age(u) > u.valid)
    BY <1>0 DEF Age
  <2> QED BY <2>1 DEF StateVectorUpdate, agrees
<1> HIDE DEF agrees, v, c
<1>8. ClockStateCase(u, exceeded) = IF u.state = c THEN u.state ELSE "CLOCK_CONTRACT_VIOLATION"
  BY DEF ClockStateCase, c
<1>9. v.result = StateVectorUpdate(u) /\ v.result = ClockStateCase(u, exceeded)
  BY <1>4, <1>6, <1>7, <1>8
<1> QED
  BY <1>9 DEF v

\* The verifiers that classify fresh probe evidence decide alike, and give a delayed
\* update the same lifetime.
THEOREM VerifiersSafety == Spec => []VerifiersAgree
<1>1. Inv => VerifiersAgree
  <2> SUFFICES ASSUME TypeOK, NEW u \in Updates, NEW exceeded \in BOOLEAN
               PROVE  LET v == VerifyClockUpdate(u, exceeded) IN
      /\ ( /\ u.reason = "PROBE_EVIDENCE" /\ u.generation > last
           /\ u.valid \in 1..Effective.expiry /\ u.skew = Effective.skew
           /\ u.probe # None /\ u.bounds # None /\ Paired(u)
           /\ opened <= u.probe /\ u.probe <= now /\ Age(u) <= u.valid
           /\ Age(u) < Effective.expiry )
         => v.result = StateVectorUpdate(u) /\ v.result = ClockStateCase(u, exceeded)
      /\ v.result \in Classes /\ u.probe # None => v.remaining = DelayedLifetime(u)
      /\ v.result = "STALE_EVIDENCE" => DelayedLifetime(u) = 0
    BY DEF VerifiersAgree, Inv
  <2> DEFINE v == VerifyClockUpdate(u, exceeded)
  <2>1. now \in Int
    BY DEF TypeOK
  <2>2. v.result \in Classes /\ u.probe # None => v.remaining = DelayedLifetime(u)
    BY <2>1, VerifyFacts, LifetimesAgree
  <2>3. v.result = "STALE_EVIDENCE" => DelayedLifetime(u) = 0
    BY <2>1, StaleFacts, LifetimesAgree
  <2> QED BY <2>2, <2>3, ClassesAgree
<1> QED BY <1>1, Invariance, PTL
===============================================================================
