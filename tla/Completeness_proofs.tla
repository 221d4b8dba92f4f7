-------------------------- MODULE Completeness_proofs --------------------------
(***************************************************************************)
(* A settlement that was judged safe is complete, and the frontier is      *)
(* proven, for every number of senders, skew, time and sequence of records, *)
(* failures and memberships.                                               *)
(***************************************************************************)
EXTENDS Completeness, SequenceTheorems, TLAPS

\* The record was admitted by a clock that is off by at most Skew.
Near(r) == r.time <= r.at + Skew /\ r.at <= r.time + Skew

\* The outages there have been of a sender's clock.
Outages(s) == IF clock[s] THEN recovered[s] ELSE recovered[s] + 1

\* Records that are not committed are beyond what their predecessors promise.
LogInv ==
  \A s \in Senders :
    /\ promised[s] <= floor[s] /\ floor[s] <= last[s]
    /\ clock[s] => last[s] <= now + Skew
    /\ log[s] # <<>> => member[s] # None
    /\ \A r \in Range(log[s]) :
         /\ promised[s] < r.time /\ r.through <= floor[s] /\ r.time <= ProductionMax
         /\ r.outage = 0 => Near(r)
         /\ r.outage <= Outages(s)
    /\ \A i, j \in 1..Len(log[s]) : i < j => log[s][i].through < log[s][j].time

\* An uncertainty covers the records it stands for, and every dropped record has one.
HoleInv ==
  /\ \A h \in holes : \A r \in h.records :
       /\ h.from <= r.time /\ r.time <= h.until
       /\ r.outage = 0 => Near(r)
       /\ r.outage <= Outages(h.sender)
  /\ \A s \in Senders : \A r \in dropped[s] : HolesOf(s, r) # {}

BlockInv ==
  \A b \in blocks :
    /\ member[b.sender] # None /\ b.found <= now
    /\ b.outage = 0 => b.found <= b.boundary + Skew
    /\ b.outage <= Outages(b.sender)

\* What is still to come is later than the block: time has passed, or the promises stand.
LaterThan(b, s) ==
  \/ b.found < now
  \/ clock[s] /\ Required(b.boundary) <= floor[s] /\ b.found <= b.boundary + Skew

Dated(e) == ~Misdated(e.block, e.block.sender, e)
Missed(e, s, r) == e.block.from <= r.time /\ ~Misdated(r, s, e) => e.block.found < r.at

SettledInv ==
  \A e \in settled : Dated(e) => \A s \in e.members :
    /\ LaterThan(e.block, s)
    /\ \A r \in Range(log[s]) : Missed(e, s, r)
    /\ \A h \in holes : h.sender = s /\ h.status # "RESOLVED_RECONCILED" =>
         \A r \in h.records : Missed(e, s, r)

\* What is still to come is later than the frontier, and what is outstanding is too.
FrontierInv ==
  /\ generation = 0 => \A s \in Senders : member[s] = None
  /\ generation # 0 => frontier \in Int
  /\ \A s \in Senders : member[s] # None =>
       /\ \/ frontier + Skew < now
          \/ frontier + 2 * Skew <= floor[s] /\ frontier + Skew <= now
          \/ frontier + 2 * Skew < member[s]
       /\ \A r \in Range(log[s]) : r.outage = 0 => frontier + Skew < r.at
  /\ \A h \in holes : member[h.sender] # None
  /\ \A h \in holes : h.status # "RESOLVED_RECONCILED" =>
       \A r \in h.records : r.outage = 0 => frontier < r.time

CompletenessInv == LogInv /\ HoleInv /\ BlockInv /\ SettledInv /\ FrontierInv
Inv == TypeOK /\ CompletenessInv
-------------------------------------------------------------------------------
LEMMA Arithmetic == Skew \in Nat /\ ProductionMax \in Nat /\ None \notin Int
BY CompletenessAssumption

(* The records of a sequence, when it is empty, grows or loses its head. *)
LEMMA RangeFacts ==
  ASSUME NEW q \in Seq(Records)
  PROVE  /\ Range(q) \subseteq Records /\ (q = <<>> <=> Range(q) = {})
         /\ \A i \in 1..Len(q) : q[i] \in Range(q)
         /\ \A r \in Records : Range(Append(q, r)) = Range(q) \cup {r}
         /\ q # <<>> => Head(q) \in Range(q) /\ Range(Tail(q)) \subseteq Range(q)
<1>1. Range(q) = {q[i] : i \in 1..Len(q)} /\ \A i \in 1..Len(q) : q[i] \in Records
  BY RangeEquality
<1>2. Range(q) \subseteq Records /\ (q = <<>> <=> Range(q) = {})
  BY <1>1, EmptySeq
<1>3. ASSUME NEW r \in Records PROVE Range(Append(q, r)) = Range(q) \cup {r}
  <2>1. Append(q, r) \in Seq(Records) /\ Len(Append(q, r)) = Len(q) + 1
    BY AppendProperties
  <2>2. Range(Append(q, r)) = {Append(q, r)[i] : i \in 1..Len(Append(q, r))}
    BY <2>1, RangeEquality
  <2>3. /\ \A i \in 1..Len(q) : Append(q, r)[i] = q[i]
        /\ Append(q, r)[Len(q) + 1] = r
    BY AppendProperties
  <2> QED BY <1>1, <2>1, <2>2, <2>3
<1>4. ASSUME q # <<>> PROVE Head(q) \in Range(q) /\ Range(Tail(q)) \subseteq Range(q)
  <2>1. Len(q) \in Nat \ {0} /\ Head(q) = q[1]
    BY <1>4, EmptySeq
  <2>2. /\ Tail(q) \in Seq(Records) /\ Len(Tail(q)) = Len(q) - 1
        /\ \A i \in 1..Len(Tail(q)) : Tail(q)[i] = q[i + 1]
    BY <1>4, HeadTailProperties
  <2>3. Range(Tail(q)) = {Tail(q)[i] : i \in 1..Len(Tail(q))}
    BY <2>2, RangeEquality
  <2> QED BY <1>1, <2>1, <2>2, <2>3
<1> QED BY <1>1, <1>2, <1>3, <1>4

(* The initial state satisfies the invariant. *)
LEMMA InitInv == Init => Inv
<1> SUFFICES ASSUME Init PROVE Inv
  OBVIOUS
<1> USE Arithmetic DEF Init
<1>1. TypeOK
  BY DEF TypeOK, Records
<1>2. LogInv
  <2>1. <<>> \in Seq(Records)
    OBVIOUS
  <2>2. Range(<<>>) = {}
    BY <2>1, RangeFacts
  <2> QED BY <2>2 DEF LogInv
<1>3. HoleInv /\ BlockInv /\ SettledInv
  BY DEF HoleInv, BlockInv, SettledInv
<1>4. FrontierInv
  BY DEF FrontierInv
<1> QED BY <1>1, <1>2, <1>3, <1>4 DEF Inv, CompletenessInv

(* Every step keeps the types. *)
LEMMA TypeStep == ASSUME TypeOK, [Next]_vars PROVE TypeOK'
<1> USE Arithmetic DEF TypeOK, clockVars, senderVars, gapVars, policyVars
<1>0. \A s \in Senders : Outage(s) \in Nat
  BY DEF Outage
<1>1. ASSUME NEW off \in SUBSET Unreliable, Tick(off) PROVE TypeOK'
  <2>1. clock' \in [Senders -> BOOLEAN] /\ recovered' \in [Senders -> Nat]
    BY <1>1 DEF Tick
  <2> QED BY <1>1, <2>1 DEF Tick
<1>2. ASSUME Bootstrap PROVE TypeOK'
  BY <1>2, CompletenessAssumption DEF Bootstrap
<1>3. ASSUME NEW s \in Senders, NEW t \in Effectives, AddMember(s, t) PROVE TypeOK'
  BY <1>3, CompletenessAssumption DEF AddMember
<1>4. ASSUME NEW s \in Senders, NEW t \in Times, NEW lag \in Lags, Admit(s, t, t - lag)
      PROVE TypeOK'
  <2> DEFINE r == [at |-> now, time |-> t, through |-> t - lag, outage |-> Outage(s)]
  <2>0. t \in Nat /\ t - lag \in Nat
    BY <1>4, CompletenessAssumption DEF Admit, Times
  <2>1. r \in Records
    BY <1>0, <2>0 DEF Records
  <2>2. Append(log[s], r) \in Seq(Records)
    BY <2>1
  <2> QED BY <1>4, <2>0, <2>2 DEF Admit
<1>5. ASSUME NEW s \in Senders, CommitNext(s) PROVE
        /\ log' \in [Senders -> Seq(Records)] /\ promised' \in [Senders -> Nat \cup {-1}]
        /\ Head(log[s]) \in Records
  <2>1. log[s] \in Seq(Records) /\ log[s] # <<>>
    BY <1>5 DEF CommitNext
  <2>2. Tail(log[s]) \in Seq(Records) /\ Head(log[s]) \in Records
    BY <2>1, HeadTailProperties
  <2>3. Head(log[s]).through \in Nat
    BY <2>2 DEF Records
  <2> QED BY <1>5, <2>2, <2>3 DEF CommitNext
<1>6. ASSUME NEW s \in Senders, Commit(s) PROVE TypeOK'
  <2>1. CommitNext(s)
    BY <1>6 DEF Commit
  <2> QED BY <1>5, <1>6, <2>1 DEF Commit, CommitNext
<1>7. ASSUME NEW s \in Senders, Quarantine(s) PROVE TypeOK'
  <2> DEFINE r == Head(log[s])
  <2>1. CommitNext(s) /\ r \in Records
    BY <1>5, <1>7 DEF Quarantine
  <2>2. Hole(s, {r}, r.time, r.time) \in Uncertainties
    BY <2>1 DEF Hole, Uncertainties, Records, Statuses
  <2>3. holes' \subseteq Uncertainties /\ dropped' \in [Senders -> SUBSET Records]
    BY <1>7, <2>1, <2>2 DEF Quarantine
  <2> QED BY <1>5, <2>1, <2>3 DEF CommitNext
<1>8. ASSUME NEW s \in Senders, NewEpoch(s) PROVE
        /\ now' \in Nat /\ last' \in [Senders -> Nat] /\ floor' \in [Senders -> Nat \cup {-1}]
        /\ log' \in [Senders -> Seq(Records)] /\ promised' \in [Senders -> Nat \cup {-1}]
  BY <1>8 DEF NewEpoch, RoundTrip
<1>9. ASSUME NEW s \in Senders, NormalTransition(s) PROVE TypeOK'
  BY <1>8, <1>9 DEF NormalTransition, NewEpoch
<1>10. ASSUME NEW s \in Senders, NEW first, NEW end, ExceptionalTransition(s, first, end)
       PROVE  TypeOK'
  <2> DEFINE R == {log[s][i] : i \in (first..end) \cap DOMAIN log[s]}
  <2>1. Range(log[s]) \subseteq Records /\ R \subseteq Range(log[s])
    BY RangeFacts DEF Range
  <2>2. promised[s] \in Nat \cup {-1}
    OBVIOUS
  <2>3. promised[s] + 1 \in Nat
    BY <2>2
  <2>4. GapHole(s, first, end) \in Uncertainties
    BY <2>1, <2>3 DEF GapHole, GapFrom, Hole, Uncertainties, Statuses
  <2>5. holes' \subseteq Uncertainties /\ dropped' \in [Senders -> SUBSET Records]
    BY <1>10, <2>1, <2>4 DEF ExceptionalTransition
  <2> QED BY <1>8, <1>10, <2>5 DEF ExceptionalTransition, NewEpoch
<1>11. ASSUME NEW h \in holes, NEW status \in Statuses, Resolve(h, status) PROVE TypeOK'
  <2>1. [h EXCEPT !.status = status] \in Uncertainties
    BY DEF Uncertainties
  <2> QED BY <1>11, <2>1 DEF Resolve
<1>12. ASSUME NEW c \in Times, AdvanceFrontier(c) PROVE TypeOK'
  BY <1>12 DEF AdvanceFrontier, Times
<1>13. ASSUME NEW s \in Senders, NEW b \in Times, NEW from \in Rounds, FindBlock(s, b, from)
       PROVE TypeOK'
  <2>1. [sender |-> s, found |-> now, boundary |-> b, from |-> from, outage |-> Outage(s)]
          \in FoundBlocks
    BY <1>0, CompletenessAssumption DEF FoundBlocks, Times
  <2> QED BY <1>13, <2>1 DEF FindBlock
<1>14. ASSUME NEW b \in blocks, Settle(b) PROVE TypeOK'
  <2> DEFINE e == [block |-> b, members |-> Members, recovered |-> recovered]
  <2>1. e \in Settlements /\ e.block = b
    BY DEF Settlements, Members
  <2>2. settled' = settled \cup {e}
    BY <1>14 DEF Settle
  <2> HIDE DEF e
  <2> QED BY <1>14, <2>1, <2>2 DEF Settle
<1>15. ASSUME UNCHANGED vars PROVE TypeOK'
  BY <1>15 DEF vars
<1> QED BY <1>1, <1>2, <1>3, <1>4, <1>6, <1>7, <1>9, <1>10, <1>11, <1>12, <1>13, <1>14, <1>15
        DEF Next, SenderStep, Reconcile, Waive, Statuses
-------------------------------------------------------------------------------
(* What the invariant says of one sender's records and of a hole. *)
LEMMA Typed ==
  ASSUME TypeOK
  PROVE  /\ now \in Nat /\ clock \in [Senders -> BOOLEAN]
         /\ \A s \in Senders :
              /\ floor[s] \in Int /\ promised[s] \in Int /\ log[s] \in Seq(Records)
              /\ last[s] \in Nat /\ recovered[s] \in Nat /\ Outages(s) \in Nat
              /\ Range(log[s]) \subseteq Records /\ dropped[s] \subseteq Records
              /\ member[s] \in Nat \cup {None}
         /\ \A h \in holes : /\ h.sender \in Senders /\ h.records \subseteq Records
                            /\ h.from \in Nat /\ h.until \in Nat /\ h.status \in Statuses
         /\ \A b \in blocks : /\ b.sender \in Senders /\ b.found \in Nat
                             /\ b.boundary \in Nat /\ b.from \in Nat /\ b.outage \in Nat
         /\ \A e \in settled : /\ e.block \in blocks /\ e.members \subseteq Senders
                              /\ e.recovered \in [Senders -> Nat]
         /\ \A r \in Records : /\ r.at \in Nat /\ r.time \in Nat /\ r.through \in Nat
                             /\ r.outage \in Nat
         /\ frontier \in Int \cup {None}
<1>1. \A s \in Senders : log[s] \in Seq(Records)
  BY DEF TypeOK
<1>2. \A s \in Senders : Range(log[s]) \subseteq Records
  BY <1>1, RangeFacts
<1>3. \A s \in Senders : floor[s] \in Int /\ promised[s] \in Int /\ member[s] \in Nat \cup {None}
  BY DEF TypeOK
<1>4. \A r \in Records : r.at \in Nat /\ r.time \in Nat /\ r.through \in Nat /\ r.outage \in Nat
  BY DEF Records
<1>5. \A s \in Senders : last[s] \in Nat /\ recovered[s] \in Nat /\ Outages(s) \in Nat
                        /\ dropped[s] \subseteq Records
  BY DEF TypeOK, Outages
<1>6. \A h \in holes : /\ h.sender \in Senders /\ h.records \subseteq Records
                     /\ h.from \in Nat /\ h.until \in Nat /\ h.status \in Statuses
  BY DEF TypeOK, Uncertainties
<1>7. \A b \in blocks : /\ b.sender \in Senders /\ b.found \in Nat
                      /\ b.boundary \in Nat /\ b.from \in Nat /\ b.outage \in Nat
  BY DEF TypeOK, FoundBlocks
<1>8. \A e \in settled : /\ e.block \in blocks /\ e.members \subseteq Senders
                       /\ e.recovered \in [Senders -> Nat]
  BY DEF TypeOK, Settlements
<1> QED BY <1>1, <1>2, <1>3, <1>4, <1>5, <1>6, <1>7, <1>8 DEF TypeOK

(* Time passes: what was found before now is past, and a clock that is GOOD again is not *)
(* behind what its sender admitted.                                                      *)
LEMMA TickStep ==
  ASSUME Inv, NEW off \in SUBSET Unreliable, Tick(off) PROVE CompletenessInv'
<1> USE Arithmetic, Typed DEF Inv, CompletenessInv, senderVars, gapVars, policyVars
<1>0. /\ now' = now + 1
      /\ UNCHANGED <<senderVars, gapVars, policyVars, frontier, blocks, settled>>
      /\ \A s \in Senders : clock'[s] /\ ~clock[s] => last[s] <= now + 1 + Skew
  BY DEF Tick, NotBehind
<1>1. \A s \in Senders : (Outages(s))' \in Int /\ Outages(s) <= (Outages(s))'
  <2>1. recovered \in [Senders -> Nat]
    BY DEF TypeOK
  <2>2. \A s \in Senders :
          /\ clock'[s] <=> s \notin off
          /\ recovered'[s] = IF ~clock[s] /\ s \notin off THEN recovered[s] + 1 ELSE recovered[s]
    BY DEF Tick
  <2> QED BY <2>1, <2>2 DEF Outages
<1>2. LogInv'
  <2>1. ASSUME NEW s \in Senders PROVE clock'[s] => last[s] <= now' + Skew
    BY <1>0 DEF LogInv
  <2>2. ASSUME NEW s \in Senders, NEW r \in Range(log[s]) PROVE r.outage <= (Outages(s))'
    BY <1>1 DEF LogInv
  <2> QED BY <1>0, <2>1, <2>2 DEF LogInv, Near
<1>3. HoleInv'
  <2>1. ASSUME NEW h \in holes, NEW r \in h.records PROVE r.outage <= (Outages(h.sender))'
    <3>1. r.outage <= Outages(h.sender) /\ r.outage \in Int /\ h.sender \in Senders
      BY DEF HoleInv
    <3> QED BY <1>1, <3>1
  <2> QED BY <1>0, <2>1 DEF HoleInv, Near, HolesOf
<1>4. BlockInv'
  <2>1. ASSUME NEW b \in blocks PROVE b.outage <= (Outages(b.sender))' /\ b.found <= now'
    BY <1>0, <1>1 DEF BlockInv
  <2> QED BY <1>0, <2>1 DEF BlockInv
<1>5. SettledInv'
  <2>1. ASSUME NEW e \in settled PROVE e.block.found < now'
    BY <1>0 DEF BlockInv
  <2> QED BY <1>0, <2>1 DEF SettledInv, LaterThan, Missed, Dated, Misdated
<1>6. FrontierInv'
  BY <1>0 DEF FrontierInv
<1> QED BY <1>2, <1>3, <1>4, <1>5, <1>6

(* The first generation: there are no members yet. *)
LEMMA BootstrapStep == ASSUME Inv, Bootstrap PROVE CompletenessInv'
<1> USE Arithmetic, Typed DEF Inv, CompletenessInv, Bootstrap, clockVars, senderVars, gapVars
<1>1. LogInv' /\ HoleInv'
  BY DEF LogInv, HoleInv, Near, Outages, HolesOf
<1>2. BlockInv' /\ SettledInv'
  BY DEF BlockInv, SettledInv, LaterThan, Missed, Dated, Misdated, Outages
<1>3. FrontierInv'
  <2>1. frontier' \in Int
    BY CompletenessAssumption
  <2>2. (\A s \in Senders : member[s] = None) /\ holes = {}
    BY DEF FrontierInv
  <2> QED BY <2>1, <2>2 DEF FrontierInv
<1> QED BY <1>1, <1>2, <1>3

(* A new member has no records, and its effective time is beyond the frontier. *)
LEMMA AddMemberStep ==
  ASSUME Inv, NEW s \in Senders, NEW t \in Effectives, AddMember(s, t) PROVE CompletenessInv'
<1> USE Arithmetic, Typed, CompletenessAssumption DEF Inv, CompletenessInv, AddMember,
    clockVars, senderVars, gapVars
<1>0. /\ t \in Int /\ t # None /\ member'[s] = t /\ generation' # 0 /\ generation # 0
      /\ \A q \in Senders \ {s} : member'[q] = member[q]
  <2>1. generation \in Nat /\ member \in [Senders -> Nat \cup {None}]
    BY DEF TypeOK
  <2>2. t \in Int /\ t # None
    OBVIOUS
  <2> QED BY <2>1, <2>2
<1>1. LogInv'
  BY <1>0 DEF LogInv, Near, Outages
<1>2. HoleInv'
  BY DEF HoleInv, Near, Outages, HolesOf
<1>3. BlockInv' /\ SettledInv'
  BY <1>0 DEF BlockInv, SettledInv, LaterThan, Missed, Dated, Misdated, Outages
<1>4. FrontierInv'
  <2>1. log[s] = <<>> /\ Range(log[s]) = {}
    BY RangeFacts DEF LogInv
  <2>2. frontier \in Int /\ frontier + 2 * Skew < t
    BY <1>0 DEF FrontierInv, ClearOfProven, Uncertainty
  <2> QED BY <1>0, <2>1, <2>2 DEF FrontierInv
<1> QED BY <1>1, <1>2, <1>3, <1>4

(* A record that is admitted is later than all that was promised before it. *)
LEMMA AdmitStep ==
  ASSUME Inv, NEW s \in Senders, NEW t \in Times, NEW lag \in Lags, Admit(s, t, t - lag)
  PROVE  CompletenessInv'
<1> DEFINE r == [at |-> now, time |-> t, through |-> t - lag, outage |-> Outage(s)]
<1> USE Arithmetic, Typed DEF Inv, CompletenessInv, clockVars, gapVars, policyVars
<1>o. Outage(s) \in Nat /\ Outage(s) <= Outages(s) /\ (Outage(s) = 0 <=> clock[s])
  BY DEF Outage, Outages
<1>0. /\ t \in Nat /\ t <= ProductionMax /\ t - lag \in Int /\ lag \in Nat
      /\ t - lag <= t /\ r \in Records
      /\ member[s] # None /\ member[s] <= t /\ floor[s] < t /\ floor[s] <= t - lag
  BY <1>o, CompletenessAssumption DEF Admit, Backdated, Members, Times, Records
<1>b. floor[s] \in Int /\ promised[s] \in Int /\ member[s] \in Int /\ now \in Int /\ t \in Int
  BY <1>0
<1>r. r.at = now /\ r.time = t /\ r.through = t - lag /\ r.outage = Outage(s)
  OBVIOUS
<1>a. log'[s] = Append(log[s], r)
  BY DEF Admit, TypeOK
<1> HIDE DEF r
<1>1. clock[s] => Near(r) /\ t <= now + Skew
  BY <1>0, <1>b, <1>r DEF Admit, Reading, Near, Times
<1>2. /\ log'[s] = Append(log[s], r) /\ Range(log'[s]) = Range(log[s]) \cup {r}
      /\ floor'[s] = t - lag /\ last'[s] = t
      /\ \A q \in Senders \ {s} :
           log'[q] = log[q] /\ floor'[q] = floor[q] /\ last'[q] = last[q]
      /\ UNCHANGED <<now, clock, recovered, promised, holes, dropped, generation, member,
                     frontier, blocks, settled>>
  <2>1. Range(log'[s]) = Range(log[s]) \cup {r}
    BY <1>0, <1>a, RangeFacts
  <2> QED BY <1>0, <1>a, <2>1 DEF Admit, TypeOK
<1>3. LogInv'
  <2>1. ASSUME NEW i \in 1..Len(log'[s]), NEW j \in 1..Len(log'[s]), i < j
        PROVE  log'[s][i].through < log'[s][j].time
    <3>1. /\ Len(log[s]) \in Nat /\ Len(log'[s]) = Len(log[s]) + 1
          /\ log'[s][Len(log[s]) + 1] = r
          /\ \A k \in 1..Len(log[s]) : log'[s][k] = log[s][k]
      BY <1>0, <1>b, <1>2, AppendProperties, LenProperties
    <3>2. i \in 1..Len(log[s])
      BY <2>1, <3>1
    <3>3. CASE j \in 1..Len(log[s])
      BY <2>1, <3>1, <3>2, <3>3 DEF LogInv
    <3>4. CASE j = Len(log[s]) + 1
      <4>1. log[s][i] \in Range(log[s])
        BY <3>2, RangeFacts
      <4>2. log[s][i].through <= floor[s] /\ log[s][i].through \in Int
        BY <4>1 DEF LogInv
      <4>3. log'[s][i] = log[s][i] /\ log'[s][j] = r
        BY <3>1, <3>2, <3>4
      <4>4. log[s][i].through < t
        BY SMTT(30), <1>0, <1>b, <4>2
      <4> QED BY <1>r, <4>3, <4>4
    <3> QED BY <2>1, <3>1, <3>3, <3>4
  <2>2. ASSUME NEW x \in Range(log'[s])
        PROVE  /\ promised[s] < x.time /\ x.through <= floor'[s] /\ x.time <= ProductionMax
               /\ (x.outage = 0 => Near(x)) /\ x.outage <= Outages(s)
    <3>1. CASE x = r
      BY SMTT(30), <1>0, <1>b, <1>o, <1>r, <1>1, <1>2, <3>1 DEF LogInv
    <3>2. CASE x \in Range(log[s])
      <4>1. /\ promised[s] < x.time /\ x.through <= floor[s] /\ x.time <= ProductionMax
            /\ (x.outage = 0 => Near(x)) /\ x.outage <= Outages(s)
        BY <3>2 DEF LogInv
      <4>2. x.through \in Int
        BY <3>2 DEF LogInv
      <4> QED BY SMTT(30), <1>0, <1>b, <1>2, <4>1, <4>2
    <3> QED BY <1>2, <3>1, <3>2
  <2>3. /\ promised[s] <= floor'[s] /\ floor'[s] <= last'[s]
        /\ clock[s] => last'[s] <= now + Skew
    BY <1>0, <1>b, <1>1, <1>2 DEF LogInv
  <2> QED BY ZenonT(60), <1>0, <1>b, <1>2, <2>1, <2>2, <2>3 DEF LogInv, Near, Outages
<1>4. HoleInv' /\ BlockInv'
  BY <1>2 DEF HoleInv, BlockInv, Near, Outages, HolesOf
<1>5. SettledInv'
  <2>1. ASSUME NEW e \in settled, Dated(e), s \in e.members PROVE
          /\ (LaterThan(e.block, s))'
          /\ Missed(e, s, r)
    <3>1. LaterThan(e.block, s)
      BY <2>1 DEF SettledInv
    <3>2. /\ e.block.found \in Int /\ e.block.boundary \in Int /\ Required(e.block.boundary) \in Int
          /\ Required(e.block.boundary) = e.block.boundary + 2 * Skew
      BY <2>1 DEF Required
    <3>3. CASE e.block.found < now
      BY <1>r, <1>2, <3>3 DEF LaterThan, Missed
    <3>4. CASE /\ clock[s] /\ Required(e.block.boundary) <= floor[s]
               /\ e.block.found <= e.block.boundary + Skew
      <4>1. Required(e.block.boundary) <= floor'[s]
        BY SMTT(30), <1>0, <1>b, <1>2, <3>2, <3>4
      <4>2. e.block.found < now
        <5>1. t <= now + Skew /\ floor[s] < t
          BY <1>0, <1>1, <3>4
        <5>2. e.block.boundary + 2 * Skew < now + Skew
          BY <1>b, <3>2, <3>4, <5>1
        <5> QED BY SMTT(30), <1>b, <3>2, <3>4, <5>2
      <4> QED BY <1>r, <1>2, <3>4, <4>1, <4>2 DEF LaterThan, Missed
    <3> QED BY <3>1, <3>3, <3>4 DEF LaterThan
  <2>2. ASSUME NEW e \in settled, Dated(e), NEW q \in Senders \ {s}, q \in e.members
        PROVE  (LaterThan(e.block, q))'
    BY <1>2, <2>2 DEF SettledInv, LaterThan, Required
  <2>3. ASSUME NEW e \in settled, Dated(e), NEW q \in e.members PROVE
          /\ \A x \in Range(log'[q]) : Missed(e, q, x)
          /\ \A h \in holes : h.sender = q /\ h.status # "RESOLVED_RECONCILED" =>
               \A x \in h.records : Missed(e, q, x)
    BY <1>2, <2>1, <2>3 DEF SettledInv
  <2>4. \A e \in settled : Dated(e) => \A q \in e.members : (LaterThan(e.block, q))'
    BY <2>1, <2>2
  <2> QED BY <1>2, <2>3, <2>4 DEF SettledInv, Missed, Dated, Misdated
<1>6. FrontierInv'
  <2>1. frontier \in Int
    BY <1>0 DEF FrontierInv
  <2>2. /\ \/ frontier + Skew < now
           \/ frontier + 2 * Skew <= floor'[s] /\ frontier + Skew <= now
           \/ frontier + 2 * Skew < member[s]
        /\ clock[s] => frontier + Skew < r.at
    <3>1. \/ frontier + Skew < now
          \/ frontier + 2 * Skew <= floor[s] /\ frontier + Skew <= now
          \/ frontier + 2 * Skew < member[s]
      BY <1>0 DEF FrontierInv
    <3>2. frontier + 2 * Skew <= floor[s] => frontier + 2 * Skew <= floor'[s]
      BY <1>0, <1>b, <1>2, <2>1
    <3>3. clock[s] => t <= now + Skew
      BY <1>1
    <3>4. clock[s] => frontier + Skew < now
      BY <1>0, <1>b, <2>1, <3>1, <3>3
    <3> QED BY <1>r, <3>1, <3>2, <3>4
  <2> QED BY <1>0, <1>b, <1>o, <1>r, <1>2, <2>1, <2>2 DEF FrontierInv
<1> QED BY <1>3, <1>4, <1>5, <1>6

\* The uncertainties that a step adds stand for records that s had outstanding, and for
\* all of those that it drops.
HolesFrom(s) ==
  /\ \A h \in holes' : h \in holes \/
       /\ h.sender = s /\ h.records \subseteq Range(log[s])
       /\ \A r \in h.records : h.from <= r.time /\ r.time <= h.until
  /\ holes \subseteq holes'
  /\ \A q \in Senders : \A r \in dropped'[q] :
       r \in dropped[q] \/ \E h \in holes' : h.sender = q /\ r \in h.records

(* A quarantined record is the uncertainty that takes its place. *)
LEMMA QuarantineHoles ==
  ASSUME Inv, NEW s \in Senders, Quarantine(s) PROVE HolesFrom(s)
<1> DEFINE r == Head(log[s])
           g == Hole(s, {r}, r.time, r.time)
<1>1. r \in Range(log[s]) /\ r.time \in Int
  BY Typed, RangeFacts DEF Inv, Quarantine, CommitNext
<1>2. /\ g.sender = s /\ g.records = {r} /\ g.from = r.time /\ g.until = r.time
  BY DEF Hole
<1>3. /\ holes' = holes \cup {g}
      /\ dropped' = [dropped EXCEPT ![s] = @ \cup {r}]
  BY DEF Quarantine
<1> HIDE DEF r, g
<1>4. \A q \in Senders : \A x \in dropped'[q] : x \in dropped[q] \/ (q = s /\ x = r)
  BY <1>3 DEF Inv, TypeOK
<1> QED BY <1>1, <1>2, <1>3, <1>4 DEF HolesFrom

(* A gap covers all that an abandoned epoch had outstanding. *)
LEMMA GapHoles ==
  ASSUME Inv, NEW s \in Senders, NEW first, NEW end, ExceptionalTransition(s, first, end)
  PROVE  HolesFrom(s)
<1> DEFINE R == {log[s][i] : i \in (first..end) \cap DOMAIN log[s]}
           g == Hole(s, R, promised[s] + 1, ProductionMax)
<1>1. \A r \in Range(log[s]) : promised[s] + 1 <= r.time /\ r.time <= ProductionMax
  <2> SUFFICES ASSUME NEW r \in Range(log[s])
               PROVE  promised[s] + 1 <= r.time /\ r.time <= ProductionMax
    OBVIOUS
  <2>1. r.time \in Int /\ promised[s] \in Int
    BY Typed DEF Inv
  <2>2. promised[s] < r.time /\ r.time <= ProductionMax
    BY DEF Inv, CompletenessInv, LogInv
  <2> QED BY <2>1, <2>2
<1>2. R = Range(log[s])
  <2>1. log[s] \in Seq(Records) /\ first = 1 /\ end = Len(log[s])
    BY Typed DEF Inv, ExceptionalTransition, GapIsExact
  <2>2. DOMAIN log[s] = 1..Len(log[s])
    BY <2>1, LenProperties
  <2> QED BY <2>1, <2>2 DEF Range
<1>3. /\ g.sender = s /\ g.records = R /\ g.from = promised[s] + 1 /\ g.until = ProductionMax
  BY DEF Hole
<1>4. /\ holes' = holes \cup {g}
      /\ dropped' = [dropped EXCEPT ![s] = @ \cup Range(log[s])]
  BY DEF ExceptionalTransition, GapHole, GapFrom
<1> HIDE DEF R, g
<1>5. \A q \in Senders : \A x \in dropped'[q] :
        x \in dropped[q] \/ (q = s /\ x \in Range(log[s]))
  BY <1>4 DEF Inv, TypeOK
<1> QED BY <1>1, <1>2, <1>3, <1>4, <1>5 DEF HolesFrom

(* New uncertainties inherit what the invariant says of outstanding records. *)
LEMMA HolesFromStep ==
  ASSUME Inv, NEW s \in Senders, log[s] # <<>> \/ UNCHANGED gapVars, HolesFrom(s),
         UNCHANGED <<clock, recovered, member, frontier, settled>>
  PROVE  /\ HoleInv'
         /\ \A h \in holes' : member[h.sender] # None
         /\ \A h \in holes' : h.status # "RESOLVED_RECONCILED" =>
              \A r \in h.records : r.outage = 0 => frontier < r.time
         /\ \A e \in settled : Dated(e) => \A q \in e.members : \A h \in holes' :
              h.sender = q /\ h.status # "RESOLVED_RECONCILED" =>
                \A r \in h.records : Missed(e, q, r)
<1> USE DEF Inv, CompletenessInv
<1>1. CASE UNCHANGED gapVars
  BY <1>1 DEF gapVars, HoleInv, FrontierInv, SettledInv, Near, Outages, HolesOf
<1>2. CASE log[s] # <<>>
  <2>1. member[s] # None
    BY <1>2 DEF LogInv
  <2>2. ASSUME NEW r \in Range(log[s]) PROVE
          /\ r.outage = 0 => Near(r) /\ frontier < r.time
          /\ r.outage <= Outages(s)
          /\ \A e \in settled : Dated(e) /\ s \in e.members => Missed(e, s, r)
    <3>1. (r.outage = 0 => Near(r)) /\ r.outage <= Outages(s)
      BY DEF LogInv
    <3>2. \A e \in settled : Dated(e) /\ s \in e.members => Missed(e, s, r)
      BY DEF SettledInv
    <3>3. ASSUME r.outage = 0 PROVE frontier < r.time
      <4>1. frontier + Skew < r.at /\ frontier \in Int
        BY <2>1, <3>3 DEF FrontierInv
      <4>2. r.at \in Int /\ r.time \in Int /\ Skew \in Int
        BY Typed, Arithmetic
      <4> QED BY <3>1, <3>3, <4>1, <4>2 DEF Near
    <3> QED BY <3>1, <3>2, <3>3
  <2>3. HoleInv'
    <3>1. ASSUME NEW h \in holes', NEW r \in h.records PROVE
            /\ h.from <= r.time /\ r.time <= h.until
            /\ r.outage = 0 => Near(r)
            /\ r.outage <= Outages(h.sender)
      BY <2>2 DEF HolesFrom, HoleInv
    <3>2. ASSUME NEW q \in Senders, NEW r \in dropped'[q] PROVE (HolesOf(q, r))' # {}
      BY DEF HolesFrom, HoleInv, HolesOf
    <3> QED BY <3>1, <3>2 DEF HoleInv, Near, Outages
  <2>4. \A h \in holes' : member[h.sender] # None
    BY <2>1 DEF HolesFrom, FrontierInv
  <2>5. \A h \in holes' : h.status # "RESOLVED_RECONCILED" =>
          \A r \in h.records : r.outage = 0 => frontier < r.time
    BY <2>2 DEF HolesFrom, FrontierInv
  <2>6. \A e \in settled : Dated(e) => \A q \in e.members : \A h \in holes' :
          h.sender = q /\ h.status # "RESOLVED_RECONCILED" =>
            \A r \in h.records : Missed(e, q, r)
    BY <2>2 DEF HolesFrom, SettledInv
  <2> QED BY <2>3, <2>4, <2>5, <2>6
<1> QED BY <1>1, <1>2

(* The record that is committed leaves behind only later ones than it promises. *)
LEMMA CommitStep ==
  ASSUME Inv, NEW s \in Senders, CommitNext(s), HolesFrom(s) PROVE CompletenessInv'
<1> USE Arithmetic, Typed DEF Inv, CompletenessInv, clockVars, policyVars
<1>0. /\ log[s] \in Seq(Records) /\ log[s] # <<>> /\ Len(log[s]) \in Nat \ {0}
      /\ log'[s] = Tail(log[s]) /\ promised'[s] = Head(log[s]).through
      /\ \A q \in Senders \ {s} : log'[q] = log[q] /\ promised'[q] = promised[q]
      /\ UNCHANGED <<now, clock, recovered, last, floor, generation, member, frontier, blocks,
                     settled>>
  BY EmptySeq DEF CommitNext, TypeOK
<1>1. \A q \in Senders : Range(log'[q]) \subseteq Range(log[q])
  BY <1>0, RangeFacts
<1>2. /\ Len(log'[s]) = Len(log[s]) - 1 /\ log'[s] \in Seq(Records)
      /\ \A i \in 1..Len(log'[s]) : log'[s][i] = log[s][i + 1]
  BY <1>0, HeadTailProperties
<1>3. LogInv'
  <2>1. Head(log[s]) = log[s][1] /\ Head(log[s]) \in Range(log[s])
    BY <1>0, RangeFacts
  <2>2. promised'[s] <= floor[s]
    BY <1>0, <2>1 DEF LogInv
  <2>3. \A r \in Range(log'[s]) : promised'[s] < r.time
    <3>1. ASSUME NEW i \in 1..Len(log'[s]) PROVE promised'[s] < log'[s][i].time
      <4>1. 1 \in 1..Len(log[s]) /\ i + 1 \in 1..Len(log[s]) /\ 1 < i + 1
        BY <1>0, <1>2
      <4>2. log[s][1].through < log[s][i + 1].time
        BY <4>1 DEF LogInv
      <4> QED BY <1>0, <1>2, <2>1, <4>2
    <3>2. Range(log'[s]) = {log'[s][i] : i \in 1..Len(log'[s])}
      BY ONLY <1>2, RangeEquality
    <3> QED BY <3>1, <3>2
  <2>4. \A i, j \in 1..Len(log'[s]) : i < j => log'[s][i].through < log'[s][j].time
    <3> SUFFICES ASSUME NEW i \in 1..Len(log'[s]), NEW j \in 1..Len(log'[s]), i < j
                 PROVE  log'[s][i].through < log'[s][j].time
      OBVIOUS
    <3>1. i + 1 \in 1..Len(log[s]) /\ j + 1 \in 1..Len(log[s]) /\ i + 1 < j + 1
      BY SMTT(30), <1>0, <1>2
    <3>2. log'[s][i] = log[s][i + 1] /\ log'[s][j] = log[s][j + 1]
      BY <1>2
    <3> QED BY <3>1, <3>2 DEF LogInv
  <2>5. member[s] # None
    BY <1>0 DEF LogInv
  <2> QED BY <1>0, <1>1, <2>2, <2>3, <2>4, <2>5 DEF LogInv, Near, Outages
<1>4. BlockInv'
  BY <1>0 DEF BlockInv, Outages
<1>5. /\ HoleInv'
      /\ \A h \in holes' : member[h.sender] # None
      /\ \A h \in holes' : h.status # "RESOLVED_RECONCILED" =>
           \A r \in h.records : r.outage = 0 => frontier < r.time
      /\ \A e \in settled : Dated(e) => \A q \in e.members : \A h \in holes' :
           h.sender = q /\ h.status # "RESOLVED_RECONCILED" =>
             \A r \in h.records : Missed(e, q, r)
  BY <1>0, HolesFromStep
<1>6. SettledInv'
  BY <1>0, <1>1, <1>5 DEF SettledInv, LaterThan, Missed, Required, Dated, Misdated
<1>7. FrontierInv'
  BY <1>0, <1>1, <1>5 DEF FrontierInv
<1> QED BY <1>3, <1>4, <1>5, <1>6, <1>7

(* A new epoch promises nothing, but it is later than all that was promised. *)
LEMMA EpochStep ==
  ASSUME Inv, NEW s \in Senders, NewEpoch(s), log[s] # <<>> \/ UNCHANGED gapVars, HolesFrom(s)
  PROVE  CompletenessInv'
<1> USE Arithmetic, Typed DEF Inv, CompletenessInv, clockVars, policyVars
<1>0. /\ now' = now + 1 /\ log'[s] = <<>> /\ promised'[s] = -1 /\ floor'[s] = -1
      /\ last'[s] = 0
      /\ \A q \in Senders \ {s} :
           /\ log'[q] = log[q] /\ promised'[q] = promised[q]
           /\ floor'[q] = floor[q] /\ last'[q] = last[q]
      /\ UNCHANGED <<clock, recovered, generation, member, frontier, blocks, settled>>
  BY DEF NewEpoch, RoundTrip, TypeOK
<1>1. Range(log'[s]) = {} /\ Len(log'[s]) = 0
  <2>1. <<>> \in Seq(Records)
    OBVIOUS
  <2> QED BY <1>0, <2>1, RangeFacts, EmptySeq
<1>2. LogInv'
  <2>1. /\ now' \in Nat /\ promised'[s] <= floor'[s] /\ floor'[s] <= last'[s]
        /\ last'[s] <= now' + Skew
    BY <1>0
  <2>2. ASSUME NEW q \in Senders \ {s}, clock[q] PROVE last'[q] <= now' + Skew
    <3>1. last[q] \in Int /\ last[q] <= now + Skew
      BY <2>2 DEF LogInv
    <3> QED BY <1>0, <3>1
  <2>3. \A i, j \in 1..Len(log'[s]) : i < j => log'[s][i].through < log'[s][j].time
    BY <1>1
  <2>4. ASSUME NEW q \in Senders \ {s} PROVE
          /\ promised'[q] <= floor'[q] /\ floor'[q] <= last'[q]
          /\ log'[q] # <<>> => member[q] # None
          /\ \A r \in Range(log'[q]) :
               /\ promised'[q] < r.time /\ r.through <= floor'[q] /\ r.time <= ProductionMax
               /\ r.outage = 0 => Near(r)
               /\ r.outage <= Outages(q)
          /\ \A i, j \in 1..Len(log'[q]) : i < j => log'[q][i].through < log'[q][j].time
    BY <1>0 DEF LogInv
  <2> QED BY <1>0, <1>1, <2>1, <2>2, <2>3, <2>4 DEF LogInv, Near, Outages
<1>3. BlockInv'
  BY <1>0 DEF BlockInv, Outages
<1>4. /\ HoleInv'
      /\ \A h \in holes' : member[h.sender] # None
      /\ \A h \in holes' : h.status # "RESOLVED_RECONCILED" =>
           \A r \in h.records : r.outage = 0 => frontier < r.time
      /\ \A e \in settled : Dated(e) => \A q \in e.members : \A h \in holes' :
           h.sender = q /\ h.status # "RESOLVED_RECONCILED" =>
             \A r \in h.records : Missed(e, q, r)
  BY <1>0, HolesFromStep
<1>5. SettledInv'
  <2>1. \A e \in settled : e.block.found < now'
    BY <1>0 DEF BlockInv, Outages
  <2> QED BY <1>0, <1>1, <1>4, <2>1 DEF SettledInv, LaterThan, Missed, Dated, Misdated
<1>6. FrontierInv'
  <2>1. ASSUME member[s] # None
        PROVE  frontier + Skew < now' \/ frontier + 2 * Skew < member[s]
    <3>1. /\ frontier \in Int
          /\ \/ frontier + Skew < now
             \/ frontier + Skew <= now
             \/ frontier + 2 * Skew < member[s]
      BY <2>1 DEF FrontierInv
    <3> QED BY <1>0, <3>1
  <2>2. ASSUME NEW q \in Senders \ {s}, member[q] # None PROVE
          \/ frontier + Skew < now'
          \/ frontier + 2 * Skew <= floor'[q] /\ frontier + Skew <= now'
          \/ frontier + 2 * Skew < member[q]
    <3>1. /\ frontier \in Int
          /\ \/ frontier + Skew < now
             \/ frontier + 2 * Skew <= floor[q] /\ frontier + Skew <= now
             \/ frontier + 2 * Skew < member[q]
      BY <2>2 DEF FrontierInv
    <3> QED BY <1>0, <3>1
  <2> QED BY <1>0, <1>1, <1>4, <2>1, <2>2 DEF FrontierInv
<1> QED BY <1>2, <1>3, <1>4, <1>5, <1>6

(* An uncertainty that is resolved stands for the same records. *)
LEMMA ResolveStep ==
  ASSUME Inv, NEW h \in holes, NEW status \in Statuses, Resolve(h, status) PROVE CompletenessInv'
<1> USE Arithmetic, Typed DEF Inv, CompletenessInv, clockVars, senderVars, policyVars
<1> DEFINE Same(x, y) == /\ x.sender = y.sender /\ x.records = y.records
                         /\ x.from = y.from /\ x.until = y.until
<1>0. /\ \A x \in holes' : \E y \in holes :
           Same(x, y) /\ (y.status = "RESOLVED_RECONCILED" => x.status = "RESOLVED_RECONCILED")
      /\ \A y \in holes : \E x \in holes' : Same(x, y)
      /\ UNCHANGED <<clockVars, senderVars, dropped, policyVars, frontier, blocks, settled>>
  <2> DEFINE g == [h EXCEPT !.status = status]
  <2>1. h \in Uncertainties
    BY DEF TypeOK
  <2>2. Same(g, h)
    BY <2>1 DEF Uncertainties
  <2>3. h.status = "UNRESOLVED" /\ holes' = (holes \ {h}) \cup {g}
    BY DEF Resolve
  <2> HIDE DEF g
  <2>4. ASSUME NEW x \in holes' PROVE
          \E y \in holes :
            Same(x, y) /\ (y.status = "RESOLVED_RECONCILED" => x.status = "RESOLVED_RECONCILED")
    <3>1. CASE x = g
      BY <2>2, <2>3, <3>1
    <3>2. CASE x \in holes
      BY <3>2
    <3> QED BY <2>3, <3>1, <3>2
  <2>5. ASSUME NEW y \in holes PROVE \E x \in holes' : Same(x, y)
    <3>1. CASE y = h
      BY <2>2, <2>3, <3>1
    <3>2. CASE y # h
      BY <2>3, <3>2
    <3> QED BY <3>1, <3>2
  <2> QED BY <2>4, <2>5 DEF Resolve
<1>1. LogInv' /\ BlockInv'
  BY <1>0 DEF LogInv, BlockInv, Near, Outages
<1>2. HoleInv'
  <2>1. ASSUME NEW x \in holes', NEW r \in x.records PROVE
          /\ x.from <= r.time /\ r.time <= x.until
          /\ r.outage = 0 => Near(r)
          /\ r.outage <= Outages(x.sender)
    BY <1>0 DEF HoleInv
  <2>2. ASSUME NEW s \in Senders, NEW r \in dropped[s]
        PROVE  \E x \in holes' : x.sender = s /\ r \in x.records
    <3>1. PICK y \in holes : y.sender = s /\ r \in y.records
      BY DEF HoleInv, HolesOf
    <3> QED BY <1>0, <3>1
  <2>3. \A s \in Senders : \A r \in dropped[s] : (HolesOf(s, r))' # {}
    BY <2>2 DEF HolesOf
  <2> QED BY <1>0, <2>1, <2>3 DEF HoleInv, Near, Outages
<1>3. SettledInv'
  <2>1. ASSUME NEW e \in settled, Dated(e), NEW q \in e.members, NEW x \in holes', x.sender = q,
               x.status # "RESOLVED_RECONCILED", NEW r \in x.records
        PROVE  Missed(e, q, r)
    BY <1>0, <2>1 DEF SettledInv
  <2>2. ASSUME NEW e \in settled, Dated(e), NEW q \in e.members
        PROVE  LaterThan(e.block, q) /\ \A r \in Range(log[q]) : Missed(e, q, r)
    BY <2>2 DEF SettledInv
  <2> QED BY <1>0, <2>1, <2>2 DEF SettledInv, LaterThan, Missed, Required, Dated, Misdated
<1>4. FrontierInv'
  <2>1. ASSUME NEW x \in holes' PROVE
          /\ member[x.sender] # None
          /\ x.status # "RESOLVED_RECONCILED" =>
               \A r \in x.records : r.outage = 0 => frontier < r.time
    <3>1. PICK y \in holes :
            /\ x.sender = y.sender /\ x.records = y.records
            /\ y.status = "RESOLVED_RECONCILED" => x.status = "RESOLVED_RECONCILED"
      BY <1>0
    <3>2. /\ member[y.sender] # None
          /\ y.status # "RESOLVED_RECONCILED" =>
               \A r \in y.records : r.outage = 0 => frontier < r.time
      BY DEF FrontierInv
    <3> QED BY <3>1, <3>2
  <2> QED BY <1>0, <2>1 DEF FrontierInv
<1> QED BY <1>1, <1>2, <1>3, <1>4

(* What the members promised is beyond the new frontier by two clocks. *)
LEMMA AdvanceStep ==
  ASSUME Inv, NEW c \in Times, AdvanceFrontier(c) PROVE CompletenessInv'
<1> USE Arithmetic, Typed DEF Inv, CompletenessInv, AdvanceFrontier, clockVars, senderVars,
    gapVars, policyVars
<1>0. c \in Int /\ frontier' = c
  BY DEF Times
<1>1. LogInv' /\ HoleInv'
  BY DEF LogInv, HoleInv, Near, Outages, HolesOf
<1>2. BlockInv' /\ SettledInv'
  BY DEF BlockInv, SettledInv, LaterThan, Missed, Required, Dated, Misdated, Outages
<1>3. FrontierInv'
  <2>1. ASSUME NEW s \in Senders, member[s] # None PROVE
          /\ c + 2 * Skew <= floor[s] /\ c + Skew <= now
          /\ \A r \in Range(log[s]) : r.outage = 0 => c + Skew < r.at
    <3>1. /\ clock[s] /\ c + 2 * Skew <= promised[s] /\ promised[s] <= floor[s]
          /\ floor[s] <= last[s] /\ last[s] <= now + Skew
      BY <1>0, <2>1 DEF Members, Evidence, CheckpointCovers, Required, LogInv
    <3>2. promised[s] \in Int /\ floor[s] \in Int /\ last[s] \in Int /\ now \in Int
      OBVIOUS
    <3>3. ASSUME NEW r \in Range(log[s]), r.outage = 0 PROVE c + Skew < r.at
      <4>1. promised[s] < r.time /\ Near(r)
        BY <3>3 DEF LogInv
      <4>2. r.time \in Int /\ r.at \in Int
        OBVIOUS
      <4>3. r.time <= r.at + Skew /\ Skew \in Int
        BY <4>1 DEF Near
      <4> HIDE Typed DEF Inv, CompletenessInv, AdvanceFrontier
      <4> QED BY <1>0, <3>1, <3>2, <4>1, <4>2, <4>3
    <3>4. c + 2 * Skew <= floor[s] /\ c + Skew <= now
      BY <1>0, <3>1, <3>2
    <3> QED BY <3>3, <3>4
  <2>2. ASSUME NEW h \in holes, h.status # "RESOLVED_RECONCILED", NEW r \in h.records
        PROVE  c < r.time
    <3>1. c < h.from
      BY <1>0, <2>2 DEF CapsScalar, Blocking, Statuses
    <3>2. h.from <= r.time /\ h.from \in Int /\ r.time \in Int
      BY DEF HoleInv
    <3> QED BY <1>0, <3>1, <3>2
  <2> QED BY <1>0, <2>1, <2>2 DEF FrontierInv
<1> QED BY <1>1, <1>2, <1>3

(* A block is found now, and dated by a clock that is off by Skew at most or in an outage. *)
LEMMA FindStep ==
  ASSUME Inv, NEW s \in Senders, NEW b \in Times, NEW from \in Rounds, FindBlock(s, b, from)
  PROVE  CompletenessInv'
<1> USE Arithmetic, Typed DEF Inv, CompletenessInv, FindBlock, clockVars, senderVars, gapVars,
    policyVars
<1>1. LogInv' /\ HoleInv' /\ FrontierInv'
  BY DEF LogInv, HoleInv, FrontierInv, Near, Outages, HolesOf
<1>2. BlockInv'
  <2> DEFINE f == [sender |-> s, found |-> now, boundary |-> b, from |-> from,
                   outage |-> Outage(s)]
  <2>1. member[s] # None /\ (clock[s] => now <= b + Skew)
    BY DEF Members, Reading, Times
  <2>2. Outage(s) <= Outages(s) /\ (Outage(s) = 0 => clock[s])
    BY DEF Outage, Outages
  <2>3. /\ member[f.sender] # None /\ f.found <= now
        /\ f.outage = 0 => f.found <= f.boundary + Skew
        /\ f.outage <= Outages(f.sender)
    BY <2>1, <2>2
  <2>4. blocks' = blocks \cup {f}
    OBVIOUS
  <2> HIDE DEF f
  <2> QED BY <2>3, <2>4 DEF BlockInv, Outages
<1>3. SettledInv'
  BY DEF SettledInv, LaterThan, Missed, Required, Dated, Misdated
<1> QED BY <1>1, <1>2, <1>3

(* A settlement judged safe has everything, and the promises stand beyond it. *)
LEMMA SettleStep ==
  ASSUME Inv, NEW b \in blocks, Settle(b) PROVE CompletenessInv'
<1> DEFINE e == [block |-> b, members |-> Members, recovered |-> recovered]
<1> USE Arithmetic, Typed DEF Inv, CompletenessInv, clockVars, senderVars, gapVars, policyVars
<1>0. /\ settled' = settled \cup {e}
      /\ UNCHANGED <<clockVars, senderVars, gapVars, policyVars, frontier, blocks>>
      /\ SettlementSafe(b)
  BY DEF Settle
<1>e. e.block = b /\ e.members = Members /\ e.recovered = recovered
  OBVIOUS
<1> HIDE DEF e
<1>1. LogInv' /\ HoleInv' /\ FrontierInv' /\ BlockInv'
  BY <1>0 DEF LogInv, HoleInv, FrontierInv, BlockInv, Near, Outages, HolesOf
<1>2. /\ b.found \in Int /\ b.boundary \in Int /\ b.from \in Int
      /\ Required(b.boundary) = b.boundary + 2 * Skew
  BY DEF Required
\* What a member dated is not misdated only if its clock was GOOD: it is GOOD now.
<1>m. ASSUME NEW s \in Members, NEW x, x.outage \in Nat, x.outage <= Outages(s),
             ~Misdated(x, s, e)
      PROVE  x.outage = 0
  <2>1. s \in Senders /\ clock[s] /\ Outages(s) = recovered[s] /\ recovered[s] \in Nat
    BY <1>0 DEF SettlementSafe, Evidence, Members, Outages
  <2> QED BY <1>e, <1>m, <2>1 DEF Misdated
<1>3. ASSUME Dated(e) PROVE b.found <= b.boundary + Skew
  <2>1. /\ b.sender \in Members /\ b.outage \in Nat /\ b.outage <= Outages(b.sender)
        /\ ~Misdated(b, b.sender, e)
    BY <1>3, <1>e DEF BlockInv, Members, Dated
  <2>2. b.outage = 0
    BY <1>m, <2>1
  <2> QED BY <2>2 DEF BlockInv
<1>4. ASSUME Dated(e), NEW s \in Members PROVE
        /\ LaterThan(b, s)
        /\ \A r \in Range(log[s]) : Missed(e, s, r)
        /\ \A h \in holes : h.sender = s /\ h.status # "RESOLVED_RECONCILED" =>
             \A r \in h.records : Missed(e, s, r)
  <2>0. b.found <= b.boundary + Skew
    BY <1>3, <1>4
  <2>1. /\ s \in Senders /\ clock[s] /\ Required(b.boundary) <= promised[s]
        /\ promised[s] <= floor[s] /\ promised[s] \in Int /\ floor[s] \in Int
    BY <1>0 DEF SettlementSafe, Evidence, CheckpointCovers, Members, LogInv
  <2>2. LaterThan(b, s)
    BY <1>2, <2>0, <2>1 DEF LaterThan
  <2>3. ASSUME NEW r, r.time \in Int, r.at \in Int, Near(r), b.boundary + 2 * Skew < r.time
        PROVE  b.found < r.at
    BY SMTT(30), <1>2, <2>0, <2>3 DEF Near
  <2>4. ASSUME NEW r \in Range(log[s]), ~Misdated(r, s, e) PROVE b.found < r.at
    <3>1. /\ r.time \in Int /\ r.at \in Int /\ r.outage \in Nat /\ promised[s] < r.time
          /\ (r.outage = 0 => Near(r)) /\ r.outage <= Outages(s)
      BY <2>1 DEF LogInv
    <3>2. Near(r)
      BY <1>m, <2>4, <3>1
    <3> QED BY <1>2, <2>1, <2>3, <3>1, <3>2
  <2>5. ASSUME NEW h \in holes, h.sender = s, h.status # "RESOLVED_RECONCILED",
               NEW r \in h.records, b.from <= r.time, ~Misdated(r, s, e)
        PROVE  b.found < r.at
    <3>1. ~Relevant(b, h)
      BY <1>0, <2>5 DEF SettlementSafe, Blocking, Statuses
    <3>2. b.boundary + 2 * Skew < h.from \/ h.until < b.from
      BY <1>2, <3>1 DEF Relevant, Intersects, EvidenceThrough
    <3>3. /\ h.from <= r.time /\ r.time <= h.until
          /\ (r.outage = 0 => Near(r)) /\ r.outage <= Outages(s)
      BY <2>1, <2>5 DEF HoleInv
    <3>4. /\ r.time \in Int /\ r.at \in Int /\ h.from \in Int /\ h.until \in Int
          /\ r.outage \in Nat
      OBVIOUS
    <3>5. b.boundary + 2 * Skew < r.time
      BY <1>2, <2>5, <3>2, <3>3, <3>4
    <3>6. Near(r)
      BY <1>m, <2>5, <3>3, <3>4
    <3> QED BY <2>3, <3>4, <3>5, <3>6
  <2>6. \A r \in Range(log[s]) : Missed(e, s, r)
    BY <1>e, <2>4 DEF Missed
  <2>7. \A h \in holes : h.sender = s /\ h.status # "RESOLVED_RECONCILED" =>
          \A r \in h.records : Missed(e, s, r)
    BY <1>e, <2>5 DEF Missed
  <2> QED BY <2>2, <2>6, <2>7
<1>5. SettledInv'
  <2>1. ASSUME NEW x \in settled', Dated(x), NEW s \in x.members PROVE
          /\ LaterThan(x.block, s)
          /\ \A r \in Range(log[s]) : Missed(x, s, r)
          /\ \A h \in holes : h.sender = s /\ h.status # "RESOLVED_RECONCILED" =>
               \A r \in h.records : Missed(x, s, r)
    <3>1. CASE x \in settled
      BY <2>1, <3>1 DEF SettledInv
    <3>2. CASE x = e
      BY <1>4, <1>e, <2>1, <3>2
    <3> QED BY <1>0, <3>1, <3>2
  <2> QED BY <1>0, <2>1 DEF SettledInv, LaterThan, Missed, Required, Dated, Misdated
<1> QED BY <1>1, <1>5

(* The invariant is inductive. *)
LEMMA Step == ASSUME Inv, [Next]_vars PROVE Inv'
<1>1. TypeOK'
  BY TypeStep DEF Inv
<1>2. CompletenessInv'
  <2>1. ASSUME NEW s \in Senders, SenderStep(s) PROVE CompletenessInv'
    <3>1. ASSUME NEW t \in Effectives, AddMember(s, t) PROVE CompletenessInv'
      BY <3>1, AddMemberStep
    <3>2. ASSUME NEW t \in Times, NEW lag \in Lags, Admit(s, t, t - lag) PROVE CompletenessInv'
      BY <3>2, AdmitStep
    <3>3. ASSUME NEW b \in Times, NEW from \in Rounds, FindBlock(s, b, from)
          PROVE  CompletenessInv'
      BY <3>3, FindStep
    <3>4. CASE Commit(s)
      <4>1. HolesFrom(s)
        BY <3>4 DEF Commit, HolesFrom, gapVars
      <4> QED BY <3>4, <4>1, CommitStep DEF Commit
    <3>5. CASE Quarantine(s)
      <4>1. CommitNext(s)
        BY <3>5 DEF Quarantine
      <4> QED BY <3>5, <4>1, QuarantineHoles, CommitStep
    <3>6. CASE NormalTransition(s)
      <4>1. HolesFrom(s) /\ NewEpoch(s) /\ UNCHANGED gapVars
        BY <3>6 DEF NormalTransition, HolesFrom, gapVars
      <4> QED BY <4>1, EpochStep
    <3>7. ASSUME NEW first \in 0..(Len(log[s]) + 1), NEW end \in 0..(Len(log[s]) + 1),
                 ExceptionalTransition(s, first, end)
          PROVE  CompletenessInv'
      <4>1. NewEpoch(s) /\ log[s] # <<>>
        BY <3>7 DEF ExceptionalTransition
      <4>2. HolesFrom(s)
        BY <3>7, GapHoles
      <4> QED BY <4>1, <4>2, EpochStep
    <3> QED BY <2>1, <3>1, <3>2, <3>3, <3>4, <3>5, <3>6, <3>7 DEF SenderStep
  <2>2. ASSUME NEW h \in holes, Reconcile(h) \/ Waive(h) PROVE CompletenessInv'
    BY <2>2, ResolveStep DEF Reconcile, Waive, Statuses
  <2>3. ASSUME UNCHANGED vars PROVE CompletenessInv'
    BY <2>3 DEF Inv, CompletenessInv, LogInv, HoleInv, BlockInv, SettledInv, FrontierInv,
                LaterThan, Missed, Dated, Misdated, Near, Required, Outages, HolesOf,
                vars, clockVars, senderVars, gapVars, policyVars
  <2> QED BY <2>1, <2>2, <2>3, TickStep, BootstrapStep, AdvanceStep, SettleStep DEF Next
<1> QED BY <1>1, <1>2 DEF Inv

(* In every reachable state the records that are not committed are later than what *)
(* is proven and than what was settled.                                             *)
THEOREM Invariance == Spec => []Inv
<1> QED BY InitInv, Step, PTL DEF Spec

(* The variables keep their types. *)
THEOREM TypeCorrect == Spec => []TypeOK
<1>1. Inv => TypeOK
  BY DEF Inv
<1> QED BY <1>1, Invariance, PTL

(* What was dropped and is not restored is in an uncertainty that is not reconciled. *)
LEMMA LostInHole ==
  ASSUME HoleInv, NEW s \in Senders, NEW r \in Lost(s)
  PROVE  \E h \in holes : h.sender = s /\ r \in h.records /\ h.status # "RESOLVED_RECONCILED"
<1>1. r \in dropped[s] /\ ~Restored(s, r)
  BY DEF Lost
<1>2. HolesOf(s, r) # {}
  BY <1>1 DEF HoleInv
<1> QED BY <1>1, <1>2 DEF Restored, HolesOf

(* A settlement judged safe on the members' checkpoints through B + 2S never misses a *)
(* record that was admitted in its round before the block was found, on whatever       *)
(* clocks: only what was dated in an outage that is over is beyond its knowledge.      *)
THEOREM SettlementSafety == Spec => []SettledIsComplete
<1>1. Inv => SettledIsComplete
  <2> SUFFICES ASSUME Inv, NEW e \in settled, Dated(e), NEW s \in e.members,
                      NEW r \in Outstanding(s) \cup Lost(s), e.block.from <= r.time,
                      ~Misdated(r, s, e)
               PROVE  r.at > e.block.found
    BY DEF SettledIsComplete, Dated
  <2> USE Typed DEF Inv, CompletenessInv
  <2>1. s \in Senders /\ r \in Records /\ e.block.found \in Nat /\ r.at \in Nat
    BY DEF Outstanding, Lost
  <2>2. CASE r \in Outstanding(s)
    <3>1. Missed(e, s, r)
      BY <2>2 DEF SettledInv, Outstanding
    <3> QED BY <2>1, <3>1 DEF Missed
  <2>3. CASE r \in Lost(s)
    <3>1. Missed(e, s, r)
      BY <2>1, <2>3, LostInHole DEF SettledInv
    <3> QED BY <2>1, <3>1 DEF Missed
  <2> QED BY <2>2, <2>3
<1> QED BY <1>1, Invariance, PTL

(* Nothing that a sender with a good clock admitted at or below the frontier is missing. *)
THEOREM FrontierSafety == Spec => []FrontierProven
<1>1. Inv => FrontierProven
  <2> SUFFICES ASSUME Inv, NEW s \in Senders, NEW r \in Outstanding(s) \cup Lost(s),
                      r.outage = 0
               PROVE  r.time > frontier
    BY DEF FrontierProven
  <2> USE Typed, Arithmetic DEF Inv, CompletenessInv
  <2>1. r \in Records /\ r.time \in Int /\ r.at \in Int /\ Skew \in Int
    BY DEF Outstanding, Lost
  <2>2. CASE r \in Outstanding(s)
    <3>1. log[s] # <<>>
      BY <2>2, RangeFacts DEF Outstanding
    <3>2. frontier \in Int /\ frontier + Skew < r.at /\ Near(r)
      BY <2>2, <3>1 DEF LogInv, FrontierInv, Outstanding
    <3> QED BY <2>1, <3>2 DEF Near
  <2>3. CASE r \in Lost(s)
    <3>1. PICK h \in holes : h.sender = s /\ r \in h.records /\ h.status # "RESOLVED_RECONCILED"
      BY <2>3, LostInHole
    <3>2. frontier < r.time /\ frontier \in Int
      BY <3>1 DEF FrontierInv
    <3> QED BY <2>1, <3>2
  <2> QED BY <2>2, <2>3
<1> QED BY <1>1, Invariance, PTL

(* A block at or below the frontier has all that was admitted before it was found. *)
THEOREM FrontierBlocks == Spec => []FrontierCoversBlocks
<1>1. Inv => FrontierCoversBlocks
  <2> SUFFICES ASSUME Inv, NEW b \in blocks, frontier # None, b.boundary <= frontier,
                      b.outage = 0, NEW s \in Senders, NEW r \in Outstanding(s), r.outage = 0
               PROVE  r.at > b.found
    BY DEF FrontierCoversBlocks
  <2> USE Typed, Arithmetic DEF Inv, CompletenessInv
  <2>1. log[s] # <<>> /\ r.at \in Int
    BY RangeFacts DEF Outstanding
  <2>2. frontier \in Int /\ frontier + Skew < r.at
    BY <2>1 DEF LogInv, FrontierInv, Outstanding
  <2>3. b.found \in Int /\ b.boundary \in Int /\ b.found <= b.boundary + Skew
    BY DEF BlockInv
  <2> QED BY <2>1, <2>2, <2>3
<1> QED BY <1>1, Invariance, PTL
===============================================================================
