----------------------------- MODULE Completeness -----------------------------
(***************************************************************************)
(* When a settlement may count on having everything: the decisions of the  *)
(* conformance tools (bootstrap and membership, epoch transitions, holes,  *)
(* B + 2S, the scalar frontier) and the gate of shadow.py, over senders    *)
(* and a receiver that follow wal.py and storage.py: a record is later     *)
(* than the boundary promised before it and records are committed in       *)
(* order.                                                                  *)
(*                                                                         *)
(* The tools decide on evidence they are given.  Here the evidence is what *)
(* the senders and the receiver really did, and time is real: each sender  *)
(* reads a clock that is off by at most Skew for as long as it is GOOD,    *)
(* and any time at all in an outage.  Clocks recover.                      *)
(* One scope, in RELAY_REQUIRED mode and with its policy staged; a sender  *)
(* is in it once it is a member.                                           *)
(***************************************************************************)
EXTENDS Integers, FiniteSets, Sequences, Functions

CONSTANTS
  Senders,
  Skew,            \* S, the permitted skew
  ProductionMax,   \* the greatest time of an event
  Origin,          \* the safety origin of the scope
  Effectives,      \* effective times of memberships
  Rounds,          \* when rounds begin
  Unreliable,      \* senders whose clocks may turn out to be off
  Finders,         \* senders that find blocks
  Lags,            \* how far a promise stays behind its record
  None,
  MaxTime,         \* bound: real time
  MaxRecords,      \* bound: records of a sender that are not committed
  MaxHoles,        \* bound: uncertainties
  MaxBlocks        \* bound: blocks found

ASSUME CompletenessAssumption ==
  /\ Skew \in Nat /\ ProductionMax \in Nat /\ Origin \in Nat
  /\ Effectives \subseteq Nat /\ Rounds \subseteq Nat /\ Lags \subseteq Nat
  /\ Unreliable \subseteq Senders /\ Finders \subseteq Senders
  /\ None \notin Int /\ MaxTime \in Nat /\ MaxRecords \in [Senders -> Nat]
  /\ MaxHoles \in Nat /\ MaxBlocks \in Nat

VARIABLES
  now,             \* real time
  clock,           \* is a sender's clock GOOD?
  recovered,       \* history: outages of a sender's clock that are over
  last,            \* the time of the last record admitted in a sender's epoch
  floor,           \* the boundary that record promises
  log,             \* the epoch's records that are not committed:
                   \* [at, time, through, outage]
  promised,        \* the boundary of the last record committed
  holes,           \* uncertainties: [sender, records, from, until, status]
  dropped,         \* history: records that left the log without their effects
  generation,      \* policy generations of the scope
  member,          \* since when a sender is a member
  frontier,        \* PayoutSafeThrough
  blocks,          \* blocks found: [sender, found, boundary, from, outage]
  settled          \* settlements made: [block, members, recovered]

senderVars == <<last, floor, log, promised>>
policyVars == <<generation, member>>
clockVars == <<now, clock, recovered>>
gapVars == <<holes, dropped>>
vars == <<clockVars, senderVars, gapVars, policyVars, frontier, blocks, settled>>

Times == 0..ProductionMax
Members == {s \in Senders : member[s] # None}
\* The times that a sender's clock may show now.
Reading(s) == IF clock[s] THEN {t \in Times : now - Skew <= t /\ t <= now + Skew} ELSE Times
\* The outage in which a sender dates something now; 0 if its clock is GOOD.
Outage(s) == IF clock[s] THEN 0 ELSE recovered[s] + 1

Init ==
  /\ now = 0 /\ clock = [s \in Senders |-> TRUE] /\ recovered = [s \in Senders |-> 0]
  /\ last = [s \in Senders |-> 0] /\ floor = [s \in Senders |-> -1]
  /\ log = [s \in Senders |-> <<>>] /\ promised = [s \in Senders |-> -1]
  /\ holes = {} /\ dropped = [s \in Senders |-> {}] /\ generation = 0 /\ member = [s \in Senders |-> None]
  /\ frontier = None /\ blocks = {} /\ settled = {}
-------------------------------------------------------------------------------
\* Trusted UTC, within Skew of t, is not behind the last durable event.
NotBehind(s, t) == last[s] <= t + Skew

\* Time passes; the clocks of some senders are off from now on, others are GOOD again.
Tick(off) ==
  LET back == {s \in Senders : ~clock[s] /\ s \notin off} IN
    /\ now < MaxTime /\ now' = now + 1
    /\ \A s \in back : NotBehind(s, now + 1)
    /\ clock' = [s \in Senders |-> s \notin off]
    /\ recovered' = [s \in Senders |-> IF s \in back THEN recovered[s] + 1 ELSE recovered[s]]
    /\ UNCHANGED <<senderVars, gapVars, policyVars, frontier, blocks, settled>>

\* The first generation: an empty interval is proven.
Bootstrap ==
  /\ generation = 0
  /\ generation' = 1 /\ frontier' = Origin - 1
  /\ UNCHANGED <<clockVars, senderVars, gapVars, member, blocks, settled>>

UncertaintyOnce == Skew            \* mutant: of one clock only
Uncertainty == 2 * Skew
\* An effective time must be beyond all that is proven, whatever the clocks.
ClearOfProven(t) == t > frontier + Uncertainty

AddMember(s, t) ==
  /\ generation >= 1 /\ member[s] = None
  /\ ClearOfProven(t)
  /\ generation' = generation + 1 /\ member' = [member EXCEPT ![s] = t]
  /\ UNCHANGED <<clockVars, senderVars, gapVars, frontier, blocks, settled>>

Backdated(s, t, through) == t < last[s] \/ t <= floor[s] \/ through < floor[s]

\* A sender admits a record and promises that all later ones are beyond through.
Admit(s, t, through) ==
  /\ s \in Members /\ member[s] <= t
  /\ t \in Reading(s) /\ 0 <= through /\ through <= t
  /\ ~Backdated(s, t, through)
  /\ Len(log[s]) < MaxRecords[s]
  /\ last' = [last EXCEPT ![s] = t] /\ floor' = [floor EXCEPT ![s] = through]
  /\ log' = [log EXCEPT ![s] = Append(@, [at |-> now, time |-> t, through |-> through,
                                             outage |-> Outage(s)])]
  /\ UNCHANGED <<clockVars, promised, gapVars, policyVars, frontier, blocks, settled>>

\* The receiver commits the next record.
CommitNext(s) ==
  /\ log[s] # <<>>
  /\ log' = [log EXCEPT ![s] = Tail(@)]
  /\ promised' = [promised EXCEPT ![s] = Head(log[s]).through]
  /\ UNCHANGED <<clockVars, last, floor, policyVars, frontier, blocks, settled>>

Commit(s) == CommitNext(s) /\ UNCHANGED gapVars

Hole(s, rs, from, until) ==
  [sender |-> s, records |-> rs, from |-> from, until |-> until, status |-> "UNRESOLVED"]

\* It commits the next record without its effect.
Quarantine(s) ==
  /\ CommitNext(s)
  /\ Cardinality(holes) < MaxHoles
  /\ LET r == Head(log[s])
     IN /\ holes' = holes \cup {Hole(s, {r}, r.time, r.time)}
        /\ dropped' = [dropped EXCEPT ![s] = @ \cup {r}]

\* A change of epochs is a round trip: it takes longer than a clock's resolution.
RoundTrip == now < MaxTime /\ now' = now + 1

\* A new epoch begins with an empty log.
NewEpoch(s) ==
  /\ RoundTrip
  /\ last' = [last EXCEPT ![s] = 0] /\ floor' = [floor EXCEPT ![s] = -1]
  /\ log' = [log EXCEPT ![s] = <<>>] /\ promised' = [promised EXCEPT ![s] = -1]
  /\ UNCHANGED <<clock, recovered, policyVars, frontier, blocks, settled>>

\* Both sides have the whole log.
NormalTransition(s) ==
  /\ log[s] = <<>> /\ floor[s] # -1
  /\ NewEpoch(s) /\ UNCHANGED gapVars

\* mutant: a gap that ends early.
GapBegins(s, first, end) == first = 1 /\ end <= Len(log[s])
\* Sequences from the first that is not committed (C + 1) to the last one (T).
GapIsExact(s, first, end) == first = 1 /\ end = Len(log[s])
\* Where in time the records of an abandoned epoch may lie.
GapFrom(s) == promised[s] + 1
GapHole(s, first, end) ==
  Hole(s, {log[s][i] : i \in (first..end) \cap DOMAIN log[s]}, GapFrom(s), ProductionMax)

\* The sender has lost its log: the gap is recorded in the same transaction.
ExceptionalTransition(s, first, end) ==
  /\ log[s] # <<>>
  /\ GapIsExact(s, first, end)
  /\ Cardinality(holes) < MaxHoles
  /\ holes' = holes \cup {GapHole(s, first, end)}
  /\ dropped' = [dropped EXCEPT ![s] = @ \cup Range(log[s])]
  /\ NewEpoch(s)

Resolve(h, status) ==
  /\ h.status = "UNRESOLVED"
  /\ holes' = (holes \ {h}) \cup {[h EXCEPT !.status = status]}
  /\ UNCHANGED <<clockVars, senderVars, dropped, policyVars, frontier, blocks, settled>>

\* Verified evidence restores the effects, or an operator gives them up.
Reconcile(h) == Resolve(h, "RESOLVED_RECONCILED")
Waive(h) == Resolve(h, "RESOLVED_WAIVED")
-------------------------------------------------------------------------------
BlockingOpen(h) == h.status = "UNRESOLVED"   \* mutant: a waiver counts as evidence
Blocking(h) == h.status \in {"UNRESOLVED", "RESOLVED_WAIVED"}

\* What must be promised to know everything up to b, whatever the clocks.
RequiredLess(b) == b + 2 * Skew - 1          \* mutant
Required(b) == b + 2 * Skew
CheckpointCovers(s, b) ==
  Required(b) \in Times /\ promised[s] >= Required(b)

\* A member's part of the evidence: its clock and its committed checkpoint.
Evidence(s, c) == clock[s] /\ CheckpointCovers(s, c)

CapsAfter(h, c) == Blocking(h) /\ c > h.from \* mutant
CapsScalar(h, c) == Blocking(h) /\ c >= h.from
\* The scalar moves up to c: all members' evidence covers it, and no hole caps it.
AdvanceFrontier(c) ==
  /\ Members # {} /\ frontier < c
  /\ \A s \in Members : Evidence(s, c)
  /\ \A h \in holes : ~CapsScalar(h, c)
  /\ frontier' = c
  /\ UNCHANGED <<clockVars, senderVars, gapVars, policyVars, blocks, settled>>

\* A member finds a block and says when; its round began at from.
FindBlock(s, b, from) ==
  /\ s \in Members \cap Finders /\ b \in Reading(s) /\ from <= b
  /\ now < MaxTime /\ Cardinality(blocks) < MaxBlocks
  /\ blocks' = blocks \cup {[sender |-> s, found |-> now, boundary |-> b, from |-> from,
                          outage |-> Outage(s)]}
  /\ UNCHANGED <<clockVars, senderVars, gapVars, policyVars, frontier, settled>>

Intersects(a, b, c, d) == ~(b < c \/ d < a)
\* The evidence of a settlement ends where its checkpoints do.
EvidenceAtBoundary(b) == b.boundary          \* mutant
EvidenceThrough(b) == Required(b.boundary)
Relevant(b, h) == Intersects(b.from, EvidenceThrough(b), h.from, h.until)

\* mutant: the clocks are not asked.
SafeOnAnyClock(b) ==
  /\ \A s \in Members : member[s] <= b.from /\ CheckpointCovers(s, b.boundary)
  /\ \A h \in holes : ~(Relevant(b, h) /\ Blocking(h))
SettlementSafe(b) ==
  /\ \A s \in Members : member[s] <= b.from /\ Evidence(s, b.boundary)
  /\ \A h \in holes : ~(Relevant(b, h) /\ Blocking(h))

Settle(b) ==
  /\ SettlementSafe(b)
  /\ settled' = settled \cup {[block |-> b, members |-> Members, recovered |-> recovered]}
  /\ UNCHANGED <<clockVars, senderVars, gapVars, policyVars, frontier, blocks>>

SenderStep(s) ==
  \/ \E t \in Effectives : AddMember(s, t)
  \/ \E t \in Times, lag \in Lags : Admit(s, t, t - lag)
  \/ \E b \in Times, from \in Rounds : FindBlock(s, b, from)
  \/ Commit(s) \/ Quarantine(s)
  \/ NormalTransition(s)
  \/ \E first, end \in 0..(Len(log[s]) + 1) : ExceptionalTransition(s, first, end)

Next ==
  \/ \E off \in SUBSET Unreliable : Tick(off)
  \/ Bootstrap
  \/ \E s \in Senders : SenderStep(s)
  \/ \E h \in holes : Reconcile(h) \/ Waive(h)
  \/ \E c \in Times : AdvanceFrontier(c)
  \/ \E b \in blocks : Settle(b)

Spec == Init /\ [][Next]_vars
-------------------------------------------------------------------------------
Statuses == {"UNRESOLVED", "RESOLVED_RECONCILED", "RESOLVED_WAIVED"}
Records == [at : Nat, time : Nat, through : Nat, outage : Nat]
Uncertainties ==
  [sender : Senders, records : SUBSET Records, from : Nat, until : Nat, status : Statuses]
FoundBlocks == [sender : Senders, found : Nat, boundary : Nat, from : Nat, outage : Nat]
Settlements == [block : FoundBlocks, members : SUBSET Senders, recovered : [Senders -> Nat]]

TypeOK ==
  /\ now \in Nat /\ clock \in [Senders -> BOOLEAN] /\ recovered \in [Senders -> Nat]
  /\ last \in [Senders -> Nat] /\ floor \in [Senders -> Nat \cup {-1}]
  /\ log \in [Senders -> Seq(Records)] /\ promised \in [Senders -> Nat \cup {-1}]
  /\ holes \subseteq Uncertainties
  /\ dropped \in [Senders -> SUBSET Records]
  /\ generation \in Nat /\ member \in [Senders -> Nat \cup {None}]
  /\ frontier \in Int \cup {None}
  /\ blocks \subseteq FoundBlocks
  /\ settled \subseteq Settlements /\ \A e \in settled : e.block \in blocks

\* What a sender admitted and the receiver does not have, or has without its effects.
Outstanding(s) == Range(log[s])
HolesOf(s, r) == {h \in holes : h.sender = s /\ r \in h.records}
Restored(s, r) ==
  HolesOf(s, r) # {} /\ \A h \in HolesOf(s, r) : h.status = "RESOLVED_RECONCILED"
Lost(s) == {r \in dropped[s] : ~Restored(s, r)}

\* Sender s dated x in an outage that was over when e was settled.
Misdated(x, s, e) == x.outage \in 1..e.recovered[s]

(* A settlement judged safe is complete, then and for ever: whatever was admitted *)
(* in its round by the time the block was really found, by any sender that was a  *)
(* member, has been committed with its effects.  No record in flight, in a gap or  *)
(* in quarantine turns up after the money has gone.  (Nothing can be said of what  *)
(* was dated in an outage that was over by then: no decision sees it any more.)    *)
SettledIsComplete ==
  \A e \in settled : ~Misdated(e.block, e.block.sender, e) =>
    \A s \in e.members : \A r \in Outstanding(s) \cup Lost(s) :
      e.block.from <= r.time /\ ~Misdated(r, s, e) => r.at > e.block.found

(* Everything at or below the frontier is there: no record that was dated by a good *)
(* clock is missing, nor one of a sender that becomes a member later, begins a new  *)
(* epoch or loses its log.                                                         *)
FrontierProven ==
  \A s \in Senders : \A r \in Outstanding(s) \cup Lost(s) :
    r.outage = 0 => r.time > frontier

(* A block whose boundary the frontier has passed has all its records committed,    *)
(* also those of senders that became members afterwards.                            *)
FrontierCoversBlocks ==
  \A b \in blocks : frontier # None /\ b.boundary <= frontier /\ b.outage = 0 =>
    \A s \in Senders : \A r \in Outstanding(s) : r.outage = 0 => r.at > b.found
===============================================================================
