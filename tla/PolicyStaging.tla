---------------------------- MODULE PolicyStaging -----------------------------
(***************************************************************************)
(* Withdrawing the permission to admit events without a relay: the policy  *)
(* distribution model at the end of tools/financial_semantics.py and the   *)
(* sender's admit().  Each sender and the receiver serialize their own     *)
(* calls; between them evidence, proposals and acknowledgements are        *)
(* delayed, repeated or lost, so each set of messages only grows and a     *)
(* message may be taken any number of times, or never.                     *)
(*                                                                         *)
(* One scope, Aux, changes its mode.  A staging digest stands for the      *)
(* proposal it was computed from; skews and pure checks are left out.      *)
(***************************************************************************)
EXTENDS Integers, FiniteSets, Sequences

CONSTANTS
  Senders, Scopes,
  Aux,             \* the scope whose mode changes
  None,
  Requests,        \* admissions asked for: [id, scopes, time]
  Effectives,      \* effective times that may be proposed
  Horizon,         \* policies cover the times before it
  MaxGeneration    \* bound: transitions prepared

ASSUME PolicyStagingAssumption ==
  /\ Aux \in Scopes /\ None \notin Senders
  /\ \A r \in Requests : r.scopes \subseteq Scopes /\ r.time \in Nat
  /\ Effectives \subseteq Nat /\ Horizon \in Nat /\ MaxGeneration \in Nat

VARIABLES
  mode, holders, pending, committed, committedKnown,     \* the receiver
  generation,      \* generations proposed so far
  policies, caps, through, known, wal, outcomes, last,   \* per sender
  issued,          \* senders to which evidence without a relay has been sent
  proposals,       \* proposals sent to senders
  answers,         \* staging acknowledgements sent: <<sender, ack>>
  activations,     \* committed proposals, as senders learn of them
  admissions,      \* history: every admission there has ever been
  answered         \* history: the last answer of a sender to a caller of admit()

receiverVars == <<mode, holders, pending, committed, committedKnown, generation>>
senderVars == <<policies, caps, through, known, wal, outcomes, last>>
messageVars == <<issued, proposals, answers, activations>>
callVars == <<admissions, answered>>
vars == <<receiverVars, senderVars, messageVars, callVars>>

\* Evidence of the initial generation; Required is what replaces it.
NoRelay == [generation |-> 0, mode |-> "NO_RELAY_REQUIRED", member |-> FALSE]
Required(g) == [generation |-> g, mode |-> "RELAY_REQUIRED", member |-> TRUE]
NoPolicy == [generation |-> 0, mode |-> "NO_POLICY", member |-> FALSE]

Higher(m, n) == IF m < n THEN n ELSE m

Init ==
  /\ mode = "NO_RELAY_REQUIRED" /\ holders = {} /\ pending = None
  /\ committed = [s \in Senders |-> -1] /\ committedKnown \in BOOLEAN
  /\ generation = 0
  /\ policies = [s \in Senders |-> [q \in Scopes |->
                   IF q = Aux THEN NoPolicy ELSE Required(0)]]
  /\ caps = [s \in Senders |-> {}] /\ through = [s \in Senders |-> [q \in Scopes |-> -1]]
  /\ known \in [Senders -> BOOLEAN]
  /\ wal = [s \in Senders |-> <<>>] /\ outcomes = [s \in Senders |-> {}]
  /\ last = [s \in Senders |-> 0]
  /\ issued = {} /\ proposals = {} /\ answers = {} /\ activations = {}
  /\ admissions = {} /\ answered = None

-------------------------------------------------------------------------------
(* The receiver. *)

\* the holder is recorded before the evidence is sent
RecordedLate(s) == holders                       \* mutant
Recorded(s) == holders \union {s}

IssueNoRelay(s) ==
  /\ pending = None /\ mode = "NO_RELAY_REQUIRED"
  /\ holders' = Recorded(s)
  /\ issued' = issued \union {s}
  /\ UNCHANGED <<mode, pending, committed, committedKnown, generation, senderVars,
                 proposals, answers, activations, callVars>>

PrepareRequired(members, effective) ==
  /\ pending = None /\ members # {} /\ generation < MaxGeneration
  /\ generation' = generation + 1
  /\ LET p == [members |-> members, effective |-> effective, generation |-> generation + 1]
     IN  /\ pending' = [proposal |-> p, required |-> members \union holders, acks |-> {}]
         /\ proposals' = proposals \union {p}
  /\ UNCHANGED <<mode, holders, committed, committedKnown, senderVars,
                 issued, answers, activations, callVars>>

AcknowledgeRequired(s, ack) ==
  /\ <<s, ack>> \in answers
  /\ pending # None /\ s \in pending.required /\ ack = pending.proposal
  /\ pending' = [pending EXCEPT !.acks = @ \union {s}]
  /\ UNCHANGED <<mode, holders, committed, committedKnown, generation,
                 senderVars, messageVars, callVars>>

AnyMember(p) == p.acks \intersect p.required # {}   \* mutant
AllStaged(p) == p.required = p.proposal.members \union holders /\ p.acks = p.required

CommitRequired ==
  /\ pending # None /\ AllStaged(pending) /\ committedKnown
  /\ \A s \in Senders : committed[s] < pending.proposal.effective
  /\ mode' = "RELAY_REQUIRED" /\ pending' = None
  /\ activations' = activations \union {pending.proposal}
  /\ UNCHANGED <<holders, committed, committedKnown, generation, senderVars,
                 issued, proposals, answers, callVars>>

-------------------------------------------------------------------------------
(* A sender. *)

\* Issued evidence arrives; it never replaces evidence of a later generation.
InstallNoRelay(s) ==
  /\ s \in issued /\ policies[s][Aux] = NoPolicy
  /\ policies' = [policies EXCEPT ![s][Aux] = NoRelay]
  /\ UNCHANGED <<receiverVars, caps, through, known, wal, outcomes, last,
                 messageVars, callVars>>

\* a member learns that its membership is active
InstallRequired(s, p) ==
  /\ p \in activations /\ s \in p.members
  /\ policies[s][Aux] = NoPolicy \/ policies[s][Aux].generation < p.generation
  /\ policies' = [policies EXCEPT ![s][Aux] = Required(p.generation)]
  /\ UNCHANGED <<receiverVars, caps, through, known, wal, outcomes, last,
                 messageVars, callVars>>

InScope(r) == Aux \in r.scopes

\* no admission for the scope, retained or pruned, is at or after t
HistoryBefore(s, t) ==
  /\ through[s][Aux] < t
  /\ \A i \in 1..Len(wal[s]) : InScope(wal[s][i]) => wal[s][i].time < t

Cap(s, p) == {[generation |-> p.generation, effective |-> p.effective]}

\* The cap is durable before the history is looked at, and stays if it rejects.
StageWithdrawal(s, p) ==
  /\ p \in proposals
  /\ caps' = [caps EXCEPT ![s] = @ \union Cap(s, p)]
  /\ answers' = IF known[s] /\ HistoryBefore(s, p.effective)
                  THEN answers \union {<<s, p>>} ELSE answers
  /\ UNCHANGED <<receiverVars, policies, through, known, wal, outcomes, last,
                 issued, proposals, activations, callVars>>

Withdrawn(s, q, time) ==
  q = Aux /\ \E c \in caps[s] : policies[s][q].generation < c.generation
                                /\ time >= c.effective

Permitted(s, q, time) ==
  LET p == policies[s][q] IN
  /\ p.mode # "NO_POLICY" /\ time < Horizon
  /\ ~Withdrawn(s, q, time)
  /\ p.mode = "RELAY_REQUIRED" => p.member

MayAdmit(s, r) == known[s] /\ \A q \in r.scopes : Permitted(s, q, r.time)

\* mutant: the policies are asked before the outcomes
NotAdmittedLate(s, r) == ~MayAdmit(s, r) \/ \A o \in outcomes[s] : o.id # r.id
NotAdmitted(s, r) == \A o \in outcomes[s] : o.id # r.id

NextSequence(s) == last[s] + 1
Outcome(r, n) == [id |-> r.id, sequence |-> n]

\* What the caller is told; 0 is a refusal.
Tell(s, r, n) == answered' = [sender |-> s, id |-> r.id, sequence |-> n]

\* A request that has an outcome is answered with it, whatever it asks for now and
\* whatever the policies have become.
AnswerRetry(s, r) ==
  /\ ~NotAdmitted(s, r)
  /\ \E o \in outcomes[s] : o.id = r.id /\ Tell(s, r, o.sequence)
  /\ UNCHANGED <<receiverVars, senderVars, messageVars, admissions>>

\* Nothing changes until every scope has passed.
Admit(s, r) ==
  /\ NotAdmitted(s, r) /\ MayAdmit(s, r)
  /\ wal' = [wal EXCEPT ![s] = Append(@, r)]
  /\ last' = [last EXCEPT ![s] = NextSequence(s)]
  /\ through' = [through EXCEPT ![s] = [q \in Scopes |->
       IF q \in r.scopes THEN Higher(r.time, through[s][q]) ELSE through[s][q]]]
  /\ outcomes' = [outcomes EXCEPT ![s] = @ \union {Outcome(r, NextSequence(s))}]
  /\ admissions' = admissions \union
       {[sender |-> s, request |-> r, sequence |-> NextSequence(s), policy |-> policies[s][Aux]]}
  /\ Tell(s, r, NextSequence(s))
  /\ UNCHANGED <<receiverVars, policies, caps, known, messageVars>>

Refuse(s, r) ==
  /\ NotAdmitted(s, r) /\ ~MayAdmit(s, r)
  /\ Tell(s, r, 0)
  /\ UNCHANGED <<receiverVars, senderVars, messageVars, admissions>>

\* the oldest event is relayed, committed by the receiver and pruned
Relay(s) ==
  /\ wal[s] # <<>>
  /\ wal' = [wal EXCEPT ![s] = SubSeq(@, 2, Len(@))]
  /\ committed' = IF InScope(wal[s][1])
       THEN [committed EXCEPT ![s] = Higher(@, wal[s][1].time)] ELSE committed
  /\ UNCHANGED <<mode, holders, pending, committedKnown, generation, policies, caps,
                 through, known, outcomes, last, messageVars, callVars>>

-------------------------------------------------------------------------------
Next ==
  \/ \E s \in Senders : IssueNoRelay(s) \/ InstallNoRelay(s) \/ Relay(s)
  \/ \E members \in SUBSET Senders, t \in Effectives : PrepareRequired(members, t)
  \/ \E s \in Senders, p \in proposals : AcknowledgeRequired(s, p) \/ StageWithdrawal(s, p)
  \/ CommitRequired
  \/ \E s \in Senders, p \in activations : InstallRequired(s, p)
  \/ \E s \in Senders, r \in Requests : AnswerRetry(s, r) \/ Admit(s, r) \/ Refuse(s, r)

Spec == Init /\ [][Next]_vars

-------------------------------------------------------------------------------
(* Properties. *)

Proposals == [members : SUBSET Senders, effective : Effectives, generation : 1..MaxGeneration]
Outcomes == [id : {r.id : r \in Requests}, sequence : Nat \ {0}]
Policies == [generation : 0..MaxGeneration, member : BOOLEAN,
             mode : {"NO_POLICY", "NO_RELAY_REQUIRED", "RELAY_REQUIRED"}]

\* The variables have the types the module gives them.
TypeOK ==
  /\ mode \in {"NO_RELAY_REQUIRED", "RELAY_REQUIRED"} /\ holders \subseteq Senders
  /\ pending = None \/ pending \in
       [proposal : Proposals, required : SUBSET Senders, acks : SUBSET Senders]
  /\ committed \in [Senders -> Int] /\ committedKnown \in BOOLEAN
  /\ generation \in 0..MaxGeneration
  /\ policies \in [Senders -> [Scopes -> Policies]]
  /\ caps \in [Senders -> SUBSET [generation : 1..MaxGeneration, effective : Effectives]]
  /\ through \in [Senders -> [Scopes -> Int]] /\ known \in [Senders -> BOOLEAN]
  /\ wal \in [Senders -> Seq(Requests)] /\ last \in [Senders -> Nat]
  /\ outcomes \in [Senders -> SUBSET Outcomes]
  /\ \A a \in admissions : /\ a.sender \in Senders /\ a.request \in Requests
                           /\ a.policy \in Policies
  /\ answered \in [sender : Senders, id : {r.id : r \in Requests}, sequence : Nat] \union {None}
  /\ issued \subseteq Senders /\ proposals \subseteq Proposals
  /\ answers \subseteq Senders \X Proposals /\ activations \subseteq Proposals

\* Once a transition is active no event of the scope at or after its effective
\* time has been, or will be, admitted on evidence it withdraws: not by a holder
\* that was offline, nor on evidence or proposals that were late.
WithdrawalHolds ==
  \A p \in activations : \A a \in admissions :
    Aux \in a.request.scopes /\ a.request.time >= p.effective
      => a.policy.mode = "RELAY_REQUIRED"

\* Once a request has been admitted, every answer to its identifier is the sequence of
\* that admission: it is not admitted again, nor refused because its permission has been
\* withdrawn since, nor answered for another request.
OneAnswer ==
  [][answered' # answered => \A a \in admissions :
       a.sender = answered'.sender /\ a.request.id = answered'.id
         => a.sequence = answered'.sequence]_vars

\* The inductive invariant behind both: evidence is held by recorded holders
\* only, an answer stands for a cap and a clean history, and an active
\* transition has the answer of every holder there will ever be.
HoldersRecorded ==
  /\ issued \subseteq holders
  /\ \A s \in Senders : policies[s][Aux].mode = "NO_RELAY_REQUIRED" =>
       s \in issued /\ policies[s][Aux].generation = 0
  /\ \A a \in admissions : InScope(a.request) =>
       /\ a.policy.mode # "NO_POLICY"
       /\ a.policy.mode = "NO_RELAY_REQUIRED" => a.sender \in holders
AnswersBind ==
  /\ \A s \in Senders, p \in Proposals : <<s, p>> \in answers =>
       /\ Cap(s, p) \subseteq caps[s]
       /\ \A a \in admissions :
            a.sender = s /\ InScope(a.request) /\ a.policy.mode = "NO_RELAY_REQUIRED"
              => a.request.time < p.effective
  /\ \A a \in admissions : InScope(a.request) => a.request.time <= through[a.sender][Aux]
AllHoldersAnswered ==
  /\ pending # None => \A s \in pending.acks : <<s, pending.proposal>> \in answers
  /\ activations # {} => mode = "RELAY_REQUIRED"
  /\ \A p \in activations : \A s \in holders : <<s, p>> \in answers
OutcomesKept ==
  /\ \A s \in Senders : \A a \in admissions :
       a.sender = s => Outcome(a.request, a.sequence) \in outcomes[s]
  /\ \A s \in Senders : \A o, p \in outcomes[s] : o.id = p.id => o = p
WithdrawalInv == HoldersRecorded /\ AnswersBind /\ AllHoldersAnswered /\ OutcomesKept
===============================================================================
