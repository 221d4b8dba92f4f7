------------------------- MODULE PolicyStaging_proofs -------------------------
(***************************************************************************)
(* Proofs about PolicyStaging for any senders, requests and proposals:     *)
(* WithdrawalInv is inductive together with TypeOK.                        *)
(***************************************************************************)
EXTENDS PolicyStaging, TLAPS

Inv == TypeOK /\ WithdrawalInv

USE DEF callVars

LEMMA InitInv == Init => Inv
<1> SUFFICES ASSUME Init PROVE Inv
  OBVIOUS
<1>1. \A q \in Scopes : (IF q = Aux THEN NoPolicy ELSE Required(0)) \in Policies
  BY PolicyStagingAssumption DEF NoPolicy, Required, Policies
<1>2. \A s \in Senders : policies[s][Aux] = NoPolicy
  BY PolicyStagingAssumption DEF Init
<1>3. TypeOK
  BY <1>1, PolicyStagingAssumption DEF Init, TypeOK
<1>4. NoPolicy.mode # "NO_RELAY_REQUIRED"
  BY DEF NoPolicy
<1>5. HoldersRecorded
  BY <1>2, <1>4 DEF Init, HoldersRecorded
<1>6. AnswersBind /\ AllHoldersAnswered /\ OutcomesKept
  BY DEF Init, AnswersBind, AllHoldersAnswered, OutcomesKept
<1> QED
  BY <1>3, <1>5, <1>6 DEF Inv, WithdrawalInv

LEMMA IssueInv == \A s \in Senders : Inv /\ IssueNoRelay(s) => Inv'
<1> SUFFICES ASSUME NEW s \in Senders, Inv, IssueNoRelay(s) PROVE Inv'
  OBVIOUS
<1>1. TypeOK'
  BY DEF Inv, TypeOK, IssueNoRelay, Recorded, senderVars
<1>2. HoldersRecorded'
  BY DEF Inv, WithdrawalInv, HoldersRecorded, IssueNoRelay, Recorded, senderVars, InScope
<1>3. AllHoldersAnswered'
  BY DEF Inv, WithdrawalInv, AllHoldersAnswered, IssueNoRelay
<1>4. AnswersBind' /\ OutcomesKept'
  BY DEF Inv, WithdrawalInv, AnswersBind, OutcomesKept, IssueNoRelay,
     senderVars, Cap, InScope
<1> QED
  BY <1>1, <1>2, <1>3, <1>4 DEF Inv, WithdrawalInv

LEMMA PrepareInv ==
  \A members \in SUBSET Senders, t \in Effectives :
    Inv /\ PrepareRequired(members, t) => Inv'
<1> SUFFICES ASSUME NEW members \in SUBSET Senders, NEW t \in Effectives,
                    Inv, PrepareRequired(members, t)
             PROVE  Inv'
  OBVIOUS
<1> DEFINE p == [members |-> members, effective |-> t, generation |-> generation + 1]
<1>1. generation + 1 \in 1..MaxGeneration /\ generation' = generation + 1
  BY PolicyStagingAssumption DEF Inv, TypeOK, PrepareRequired
<1>2. p \in Proposals
  BY <1>1 DEF Proposals
<1>3. pending' = [proposal |-> p, required |-> members \union holders, acks |-> {}]
      /\ proposals' = proposals \union {p}
  BY DEF PrepareRequired
<1> HIDE DEF p
<1>4. TypeOK'
  BY <1>1, <1>2, <1>3, PolicyStagingAssumption
  DEF Inv, TypeOK, PrepareRequired, senderVars
<1>5. AllHoldersAnswered'
  BY <1>3 DEF Inv, WithdrawalInv, AllHoldersAnswered, PrepareRequired
<1>6. HoldersRecorded' /\ AnswersBind' /\ OutcomesKept'
  BY DEF Inv, WithdrawalInv, HoldersRecorded, AnswersBind, OutcomesKept,
     PrepareRequired, senderVars, Cap, InScope
<1> QED
  BY <1>4, <1>5, <1>6 DEF Inv, WithdrawalInv

LEMMA AcknowledgeInv ==
  \A s \in Senders, p \in proposals : Inv /\ AcknowledgeRequired(s, p) => Inv'
<1> SUFFICES ASSUME NEW s \in Senders, NEW p \in proposals, Inv, AcknowledgeRequired(s, p)
             PROVE  Inv'
  OBVIOUS
<1>1. pending' = [pending EXCEPT !.acks = pending.acks \union {s}]
      /\ pending \in [proposal : Proposals, required : SUBSET Senders, acks : SUBSET Senders]
      /\ <<s, pending.proposal>> \in answers
  BY DEF AcknowledgeRequired, Inv, TypeOK
<1>2. TypeOK'
  <2>1. pending' \in [proposal : Proposals, required : SUBSET Senders, acks : SUBSET Senders]
    BY <1>1
  <2> QED
    BY <2>1 DEF Inv, TypeOK, AcknowledgeRequired, senderVars, messageVars
<1>3. AllHoldersAnswered'
  BY <1>1 DEF Inv, WithdrawalInv, AllHoldersAnswered, AcknowledgeRequired, messageVars
<1>4. HoldersRecorded' /\ AnswersBind' /\ OutcomesKept'
  BY DEF Inv, WithdrawalInv, HoldersRecorded, AnswersBind, OutcomesKept,
     AcknowledgeRequired, senderVars, messageVars, Cap, InScope
<1> QED
  BY <1>2, <1>3, <1>4 DEF Inv, WithdrawalInv

\* The step that matters at the receiver: every holder has answered.
LEMMA CommitInv == Inv /\ CommitRequired => Inv'
<1> SUFFICES ASSUME Inv, CommitRequired PROVE Inv'
  OBVIOUS
<1>1. pending \in [proposal : Proposals, required : SUBSET Senders, acks : SUBSET Senders]
  BY DEF CommitRequired, Inv, TypeOK
<1>2. \A s \in holders : <<s, pending.proposal>> \in answers
  BY DEF CommitRequired, AllStaged, Inv, WithdrawalInv, AllHoldersAnswered
<1>3. TypeOK'
  BY <1>1 DEF Inv, TypeOK, CommitRequired, senderVars
<1>4. AllHoldersAnswered'
  BY <1>2 DEF Inv, WithdrawalInv, AllHoldersAnswered, CommitRequired
<1>5. HoldersRecorded' /\ AnswersBind' /\ OutcomesKept'
  BY DEF Inv, WithdrawalInv, HoldersRecorded, AnswersBind, OutcomesKept,
     CommitRequired, senderVars, Cap, InScope
<1> QED
  BY <1>3, <1>4, <1>5 DEF Inv, WithdrawalInv

\* Evidence that arrives changes one sender's policy for the scope.
LEMMA InstallInv ==
  ASSUME Inv, NEW s \in Senders, NEW policy \in Policies,
         policies' = [policies EXCEPT ![s][Aux] = policy],
         policy.mode = "NO_RELAY_REQUIRED" => s \in issued /\ policy.generation = 0,
         UNCHANGED <<receiverVars, caps, through, known, wal, outcomes, last,
                     messageVars, callVars>>
  PROVE  Inv'
<1>1. policies \in [Senders -> [Scopes -> Policies]] /\ Aux \in Scopes
  BY PolicyStagingAssumption DEF Inv, TypeOK
<1>2. policies' \in [Senders -> [Scopes -> Policies]]
  BY <1>1
<1>3. TypeOK'
  BY <1>2 DEF Inv, TypeOK, receiverVars, messageVars
<1>4. \A r \in Senders : policies'[r][Aux] = IF r = s THEN policy ELSE policies[r][Aux]
  BY <1>1
<1>5. HoldersRecorded'
  BY <1>4 DEF Inv, WithdrawalInv, HoldersRecorded, receiverVars, messageVars, InScope
<1>6. AnswersBind' /\ AllHoldersAnswered' /\ OutcomesKept'
  BY DEF Inv, WithdrawalInv, AnswersBind, AllHoldersAnswered, OutcomesKept,
     receiverVars, messageVars, Cap, InScope
<1> QED
  BY <1>3, <1>5, <1>6 DEF Inv, WithdrawalInv

LEMMA InstallNoRelayInv == \A s \in Senders : Inv /\ InstallNoRelay(s) => Inv'
<1> SUFFICES ASSUME NEW s \in Senders, Inv, InstallNoRelay(s) PROVE Inv'
  OBVIOUS
<1>1. NoRelay \in Policies /\ NoRelay.mode = "NO_RELAY_REQUIRED" /\ NoRelay.generation = 0
  BY PolicyStagingAssumption DEF NoRelay, Policies
<1> QED
  BY <1>1, InstallInv DEF InstallNoRelay

LEMMA InstallRequiredInv ==
  \A s \in Senders, p \in activations : Inv /\ InstallRequired(s, p) => Inv'
<1> SUFFICES ASSUME NEW s \in Senders, NEW p \in activations, Inv, InstallRequired(s, p)
             PROVE  Inv'
  OBVIOUS
<1>1. p.generation \in 0..MaxGeneration
  BY DEF Inv, TypeOK, Proposals
<1>2. Required(p.generation) \in Policies
      /\ Required(p.generation).mode = "RELAY_REQUIRED"
  BY <1>1 DEF Required, Policies
<1> QED
  BY <1>2, InstallInv DEF InstallRequired

\* The step that matters at a sender: the cap is there before the answer, and
\* with the history it leaves nothing at or after the effective time.
LEMMA StageInv ==
  \A s \in Senders, p \in proposals : Inv /\ StageWithdrawal(s, p) => Inv'
<1> SUFFICES ASSUME NEW s \in Senders, NEW p \in proposals, Inv, StageWithdrawal(s, p)
             PROVE  Inv'
  OBVIOUS
<1>1. p \in Proposals /\ p.effective \in Nat
  BY PolicyStagingAssumption DEF Inv, TypeOK, Proposals
<1>2. Cap(s, p) \subseteq [generation : 1..MaxGeneration, effective : Effectives]
  BY <1>1 DEF Cap, Proposals
<1>3. caps' \in [Senders -> SUBSET [generation : 1..MaxGeneration, effective : Effectives]]
      /\ \A r \in Senders : caps'[r] = IF r = s THEN caps[r] \union Cap(s, p) ELSE caps[r]
  BY <1>2 DEF Inv, TypeOK, StageWithdrawal
<1>4. answers \subseteq answers' /\ answers' \subseteq answers \union {<<s, p>>}
  BY DEF StageWithdrawal
<1>5. ASSUME <<s, p>> \in answers', <<s, p>> \notin answers, NEW a \in admissions,
             a.sender = s, InScope(a.request)
      PROVE  a.request.time < p.effective
  <2>1. through[s][Aux] < p.effective /\ through[s][Aux] \in Int
    BY <1>5, PolicyStagingAssumption DEF StageWithdrawal, HistoryBefore, Inv, TypeOK
  <2>2. a.request.time <= through[s][Aux] /\ a.request.time \in Nat
    BY <1>5, PolicyStagingAssumption DEF Inv, TypeOK, WithdrawalInv, AnswersBind
  <2> QED
    BY <2>1, <2>2, <1>1
<1>6. TypeOK'
  BY <1>1, <1>3, <1>4 DEF Inv, TypeOK, StageWithdrawal, receiverVars
<1>7. AnswersBind'
  <2>1. ASSUME NEW r \in Senders, NEW o \in Proposals, <<r, o>> \in answers'
        PROVE  /\ Cap(r, o) \subseteq caps'[r]
               /\ \A a \in admissions :
                    a.sender = r /\ InScope(a.request)
                    /\ a.policy.mode = "NO_RELAY_REQUIRED" => a.request.time < o.effective
    <3>1. CASE <<r, o>> \in answers
      BY <3>1, <1>3 DEF Inv, WithdrawalInv, AnswersBind
    <3>2. CASE <<r, o>> \notin answers
      <4>1. r = s /\ o = p
        BY <3>2, <2>1, <1>4
      <4> QED
        BY <4>1, <3>2, <2>1, <1>3, <1>5
    <3> QED
      BY <3>1, <3>2
  <2>2. admissions' = admissions /\ through' = through
    BY DEF StageWithdrawal
  <2> QED
    BY <2>1, <2>2 DEF Inv, WithdrawalInv, AnswersBind, Cap, InScope
<1>8. AllHoldersAnswered'
  BY <1>4 DEF Inv, WithdrawalInv, AllHoldersAnswered, StageWithdrawal, receiverVars
<1>9. HoldersRecorded' /\ OutcomesKept'
  BY DEF Inv, WithdrawalInv, HoldersRecorded, OutcomesKept,
     StageWithdrawal, receiverVars, InScope
<1> QED
  BY <1>6, <1>7, <1>8, <1>9 DEF Inv, WithdrawalInv

\* An admission obeys every cap its sender has answered for.
LEMMA AdmitInv ==
  \A s \in Senders, r \in Requests : Inv /\ Admit(s, r) => Inv'
<1> SUFFICES ASSUME NEW s \in Senders, NEW r \in Requests, Inv, Admit(s, r) PROVE Inv'
  OBVIOUS
<1> DEFINE policy == policies[s][Aux]
           n == NextSequence(s)
           a == [sender |-> s, request |-> r, sequence |-> n, policy |-> policy]
<1>1. /\ r.time \in Nat /\ Aux \in Scopes /\ policy \in Policies
      /\ last[s] \in Nat /\ n = last[s] + 1
  BY PolicyStagingAssumption DEF Inv, TypeOK, NextSequence
<1>2. admissions' = admissions \union {a}
  BY DEF Admit
<1>3. /\ a.sender = s /\ a.request = r /\ a.sequence = n /\ a.policy = policy
  OBVIOUS
<1>4. Outcome(r, n) \in Outcomes
  BY <1>1 DEF Outcomes, Outcome
<1>5. outcomes' \in [Senders -> SUBSET Outcomes]
      /\ \A t \in Senders : outcomes'[t] = IF t = s
           THEN outcomes[t] \union {Outcome(r, n)} ELSE outcomes[t]
  BY <1>4 DEF Admit, Inv, TypeOK
<1>6. through' \in [Senders -> [Scopes -> Int]]
      /\ \A t \in Senders : through[t][Aux] <= through'[t][Aux]
      /\ (InScope(r) => r.time <= through'[s][Aux])
  BY <1>1 DEF Admit, Inv, TypeOK, Higher, InScope
<1>7. InScope(r) => Permitted(s, Aux, r.time)
  BY DEF Admit, MayAdmit, InScope
<1> HIDE DEF policy, n, a
<1>8. TypeOK'
  <2>1. wal' \in [Senders -> Seq(Requests)]
    BY DEF Admit, Inv, TypeOK
  <2>2. last' \in [Senders -> Nat]
    BY <1>1 DEF Admit, Inv, TypeOK, n
  <2>3. \A b \in admissions' : b.sender \in Senders /\ b.request \in Requests
                               /\ b.policy \in Policies
    BY <1>1, <1>2, <1>3 DEF Inv, TypeOK
  <2>4. answered' \in [sender : Senders, id : {q.id : q \in Requests}, sequence : Nat]
    BY <1>1 DEF Admit, Tell, n
  <2> QED
    BY <2>1, <2>2, <2>3, <2>4, <1>5, <1>6 DEF Admit, Inv, TypeOK, receiverVars, messageVars
<1>9. HoldersRecorded'
  <2>1. InScope(r) => policy.mode # "NO_POLICY"
    BY <1>7 DEF Permitted, policy
  <2>2. policy.mode = "NO_RELAY_REQUIRED" => s \in holders
    BY DEF policy, Inv, WithdrawalInv, HoldersRecorded
  <2> QED
    BY <2>1, <2>2, <1>2, <1>3
    DEF Admit, Inv, WithdrawalInv, HoldersRecorded, receiverVars, messageVars, InScope
<1>10. AnswersBind'
  <2>1. ASSUME NEW p \in Proposals, <<s, p>> \in answers, InScope(r),
               policy.mode = "NO_RELAY_REQUIRED"
        PROVE  r.time < p.effective
    <3>1. policy.generation = 0 /\ p.generation \in 1..MaxGeneration
          /\ p.effective \in Nat
      BY <2>1, PolicyStagingAssumption
      DEF policy, Inv, WithdrawalInv, HoldersRecorded, Proposals
    <3>2. [generation |-> p.generation, effective |-> p.effective] \in caps[s]
      BY <2>1 DEF Inv, WithdrawalInv, AnswersBind, Cap
    <3>3. ~Withdrawn(s, Aux, r.time)
      BY <2>1, <1>7 DEF Permitted
    <3> QED
      BY <3>1, <3>2, <3>3, <1>1 DEF Withdrawn, policy
  <2>2. \A b \in admissions' : InScope(b.request) =>
          b.request.time <= through'[b.sender][Aux]
    <3>1. ASSUME NEW b \in admissions, InScope(b.request)
          PROVE  b.request.time <= through'[b.sender][Aux]
      <4>1. b.sender \in Senders /\ b.request \in Requests
            /\ b.request.time <= through[b.sender][Aux]
        BY <3>1 DEF Inv, TypeOK, WithdrawalInv, AnswersBind
      <4>2. through[b.sender][Aux] \in Int /\ through'[b.sender][Aux] \in Int
            /\ b.request.time \in Int
        BY <4>1, <1>1, <1>6, PolicyStagingAssumption DEF Inv, TypeOK
      <4> QED
        BY <4>1, <4>2, <1>6
    <3> QED
      BY <3>1, <1>2, <1>3, <1>6
  <2>3. answers' = answers /\ caps' = caps
    BY DEF Admit, messageVars
  <2> QED
    BY <2>1, <2>2, <2>3, <1>2, <1>3 DEF Inv, WithdrawalInv, AnswersBind, Cap, InScope
<1>11. AllHoldersAnswered'
  BY DEF Admit, Inv, WithdrawalInv, AllHoldersAnswered, receiverVars, messageVars
<1>12. OutcomesKept'
  <2>1. \A t \in Senders : \A b \in admissions' :
          b.sender = t => Outcome(b.request, b.sequence) \in outcomes'[t]
    BY <1>2, <1>3, <1>5 DEF Inv, WithdrawalInv, OutcomesKept
  <2>2. \A t \in Senders : \A o, p \in outcomes'[t] : o.id = p.id => o = p
    BY <1>5 DEF Inv, WithdrawalInv, OutcomesKept, Admit, NotAdmitted, Outcome
  <2> QED
    BY <2>1, <2>2 DEF OutcomesKept, Outcome
<1> QED
  BY <1>8, <1>9, <1>10, <1>11, <1>12 DEF Inv, WithdrawalInv

\* A retry and a refusal change nothing but the answer.
LEMMA TellInv ==
  ASSUME Inv, NEW s \in Senders, NEW r \in Requests, NEW n \in Nat, Tell(s, r, n),
         UNCHANGED <<receiverVars, senderVars, messageVars, admissions>>
  PROVE  Inv'
<1>1. answered' \in [sender : Senders, id : {q.id : q \in Requests}, sequence : Nat]
  BY DEF Tell
<1>2. TypeOK'
  BY <1>1 DEF Inv, TypeOK, receiverVars, senderVars, messageVars
<1>3. HoldersRecorded' /\ AllHoldersAnswered' /\ AnswersBind' /\ OutcomesKept'
  BY DEF Inv, WithdrawalInv, HoldersRecorded, AllHoldersAnswered, AnswersBind,
     OutcomesKept, receiverVars, senderVars, messageVars, Cap, InScope, Outcome
<1> QED
  BY <1>2, <1>3 DEF Inv, WithdrawalInv

LEMMA AnswerInv ==
  \A s \in Senders, r \in Requests : Inv /\ (AnswerRetry(s, r) \/ Refuse(s, r)) => Inv'
<1> SUFFICES ASSUME NEW s \in Senders, NEW r \in Requests, Inv,
                    AnswerRetry(s, r) \/ Refuse(s, r)
             PROVE  Inv'
  OBVIOUS
<1>1. \A o \in outcomes[s] : o.sequence \in Nat
  BY DEF Inv, TypeOK, Outcomes
<1>2. PICK n \in Nat : Tell(s, r, n)
  BY <1>1 DEF AnswerRetry, Refuse
<1> QED
  BY <1>2, TellInv DEF AnswerRetry, Refuse

LEMMA RelayInv == \A s \in Senders : Inv /\ Relay(s) => Inv'
<1> SUFFICES ASSUME NEW s \in Senders, Inv, Relay(s) PROVE Inv'
  OBVIOUS
<1>1. wal[s] \in Seq(Requests) /\ wal[s] # <<>>
  BY DEF Inv, TypeOK, Relay
<1>2. Len(wal[s]) \in Nat /\ Len(wal[s]) >= 1 /\ wal[s][1] \in Requests
  BY <1>1
<1>3. SubSeq(wal[s], 2, Len(wal[s])) \in Seq(Requests)
  BY <1>1, <1>2
<1>4. wal' \in [Senders -> Seq(Requests)]
  BY <1>3 DEF Relay, Inv, TypeOK
<1>5. committed' \in [Senders -> Int]
  BY <1>2, PolicyStagingAssumption DEF Relay, Inv, TypeOK, Higher
<1>6. TypeOK'
  BY <1>4, <1>5 DEF Relay, Inv, TypeOK, messageVars
<1>7. HoldersRecorded' /\ AllHoldersAnswered' /\ AnswersBind' /\ OutcomesKept'
  BY DEF Relay, Inv, WithdrawalInv, HoldersRecorded, AllHoldersAnswered, AnswersBind,
     OutcomesKept, messageVars, Cap, InScope
<1> QED
  BY <1>6, <1>7 DEF Inv, WithdrawalInv

LEMMA StepInv == Inv /\ [Next]_vars => Inv'
<1> SUFFICES ASSUME Inv, [Next]_vars PROVE Inv'
  OBVIOUS
<1>1. CASE Next
  BY <1>1, IssueInv, InstallNoRelayInv, RelayInv, PrepareInv, AcknowledgeInv, StageInv,
     CommitInv, InstallRequiredInv, AdmitInv, AnswerInv DEF Next
<1>2. CASE UNCHANGED vars
  BY <1>2 DEF vars, receiverVars, senderVars, messageVars, Inv, TypeOK, WithdrawalInv,
     HoldersRecorded, AnswersBind, AllHoldersAnswered, OutcomesKept,
     Cap, InScope
<1> QED
  BY <1>1, <1>2

\* The invariant holds whatever is delayed, repeated or lost.
THEOREM Invariance == Spec => []Inv
BY InitInv, StepInv, PTL DEF Spec

\* The variables keep their types.
THEOREM TypeCorrect == Spec => []TypeOK
<1>1. Inv => TypeOK
  BY DEF Inv
<1> QED
  BY <1>1, Invariance, PTL

\* Whoever has no-relay evidence is a recorded holder, an answer binds its sender,
\* and an active transition has the answer of every holder.
THEOREM HoldersBound == Spec => []WithdrawalInv
<1>1. Inv => WithdrawalInv
  BY DEF Inv
<1> QED
  BY <1>1, Invariance, PTL

\* No admission at or after an active transition's effective time rests on the
\* evidence it withdraws.
THEOREM WithdrawalSafety == Spec => []WithdrawalHolds
<1>1. Inv => WithdrawalHolds
  <2> SUFFICES ASSUME Inv, NEW p \in activations, NEW a \in admissions,
                      InScope(a.request), a.request.time >= p.effective
               PROVE  a.policy.mode = "RELAY_REQUIRED"
    BY DEF WithdrawalHolds, InScope
  <2>1. /\ a.sender \in Senders /\ a.policy.mode \in {"NO_POLICY", "NO_RELAY_REQUIRED",
                                                      "RELAY_REQUIRED"}
        /\ p \in Proposals
        /\ a.request.time \in Nat /\ p.effective \in Nat
    BY PolicyStagingAssumption DEF Inv, TypeOK, Policies, Proposals
  <2>2. SUFFICES ASSUME a.policy.mode = "NO_RELAY_REQUIRED" PROVE FALSE
    BY <2>1 DEF Inv, WithdrawalInv, HoldersRecorded
  <2>3. <<a.sender, p>> \in answers
    BY <2>2 DEF Inv, WithdrawalInv, HoldersRecorded, AllHoldersAnswered
  <2>4. a.request.time < p.effective
    BY <2>1, <2>2, <2>3 DEF Inv, WithdrawalInv, AnswersBind
  <2> QED
    BY <2>1, <2>4
<1> QED
  BY <1>1, Invariance, PTL

\* Whoever asks for a request that was admitted is told the sequence of that admission.
THEOREM AdmissionSafety == Spec => OneAnswer
<1>1. ASSUME Inv, Next, answered' # answered, NEW a \in admissions,
             a.sender = answered'.sender, a.request.id = answered'.id
      PROVE  a.sequence = answered'.sequence
  <2>1. PICK s \in Senders, r \in Requests : AnswerRetry(s, r) \/ Admit(s, r) \/ Refuse(s, r)
    BY <1>1 DEF Next, IssueNoRelay, InstallNoRelay, Relay, PrepareRequired,
       AcknowledgeRequired, StageWithdrawal, CommitRequired, InstallRequired
  <2>2. PICK n : Tell(s, r, n)
    BY <2>1 DEF AnswerRetry, Admit, Refuse
  <2>3. answered'.sender = s /\ answered'.id = r.id /\ answered'.sequence = n
    BY <2>2 DEF Tell
  <2>4. Outcome(a.request, a.sequence) \in outcomes[s]
    BY <1>1, <2>3 DEF Inv, WithdrawalInv, OutcomesKept
  <2>5. ~NotAdmitted(s, r)
    BY <1>1, <2>3, <2>4 DEF NotAdmitted, Outcome
  <2>6. PICK o \in outcomes[s] : o.id = r.id /\ Tell(s, r, o.sequence)
    BY <2>1, <2>5 DEF AnswerRetry, Admit, Refuse
  <2>7. o = Outcome(a.request, a.sequence)
    BY <1>1, <2>3, <2>4, <2>6 DEF Inv, WithdrawalInv, OutcomesKept, Outcome
  <2> QED
    BY <2>6, <2>7 DEF Tell, Outcome
<1>2. ASSUME Inv, [Next]_vars
      PROVE  [answered' # answered => \A a \in admissions :
                a.sender = answered'.sender /\ a.request.id = answered'.id
                  => a.sequence = answered'.sequence]_vars
  BY <1>1, <1>2 DEF vars
<1> QED
  BY <1>2, Invariance, PTL DEF Spec, OneAnswer
===============================================================================
