------------------------------- MODULE Candidate -------------------------------
(***************************************************************************)
(* validate_candidate of tools/verify_profile_vectors.py: whether a found  *)
(* block, offered as evidence of what its coinbase pays, is taken.         *)
(*                                                                         *)
(* A pool mines a block; senders then offer candidates under its header:   *)
(* some list of transactions and some statement of the payments.  Parsing  *)
(* is abstracted to its result, hashes to terms: a leaf is <<x>>, what     *)
(* hashes the pair l, r is <<l, r>>, and terms are equal only if what they *)
(* hash is.  A transaction is its non-witness part (base) and its witness. *)
(***************************************************************************)
EXTENDS Integers, FiniteSets, SequencesExt

CONSTANTS
  Bases,           \* non-witness parts of transactions other than the coinbase
  Witnesses,       \* their witnesses, Nil without
  Stacks,          \* witness stacks of coinbases, Nil without
  Payees,          \* scripts that are paid
  Heights,
  Activation,      \* BIP34's activation height of the network
  Allowed,         \* the network's allowed classes of commitments
  Nil,
  MaxTxs,          \* bound: transactions beside the coinbase
  MaxOutputs,      \* bound: outputs of a coinbase
  MaxClaims        \* bound: accepted candidates of a header

ASSUME CandidateAssumption ==
  /\ Heights \subseteq Nat /\ Activation \in Nat /\ Allowed \subseteq {"BIP141"}
  /\ {MaxTxs, MaxOutputs, MaxClaims} \subseteq Nat
  /\ Nil # "BIP141" /\ Nil # <<>>

VARIABLES
  mined,           \* the transactions of the mined block, of the header's root
  accepted         \* candidates accepted under its header:
                   \*   [txs, height, gross, direct, declared]

candidateVars == <<mined, accepted>>
-------------------------------------------------------------------------------
\* One round of hashing; an odd level pairs its last node with itself.
Parents(level) ==
  [i \in 1..((Len(level) + 1) \div 2) |->
     <<level[2 * i - 1], IF 2 * i <= Len(level) THEN level[2 * i] ELSE level[2 * i - 1]>>]

\* The levels above the leaves, until one is the root.
Above(level) == IF Len(level) <= 1 THEN level ELSE Parents(level)
Levels(leaves) ==
  LET level[k \in Nat] == IF k = 0 THEN leaves ELSE Above(level[k - 1]) IN level
Merkle(leaves) == IF leaves = <<>> THEN Nil ELSE Levels(leaves)[Len(leaves)][1]

Txid(tx) == <<tx.base>>
Full(tx) == <<<<tx.base, tx.wit>>>>
Txids(txs) == [i \in DOMAIN txs |-> Txid(txs[i])]

Distinct(s) == IsInjective(s)

\* An output is <<value, script>>; a payment's script is <<payee>>, that of a BIP141
\* commitment <<witness root, reserved value>>.
CommitmentClass(script) == IF Len(script) = 2 THEN "BIP141" ELSE Nil
Commitments(outs) == {i \in DOMAIN outs : CommitmentClass(outs[i][2]) = "BIP141"}

WitnessRoot(txs) == Merkle(<<<<Nil>>>> \o [i \in 1..(Len(txs) - 1) |-> Full(txs[i + 1])])
Expected(txs) == <<WitnessRoot(txs), txs[1].wit[1]>>

\* With a commitment the last one binds every witness; without one there are none.
WitnessOk(txs) ==
  LET coin == txs[1]
      found == Commitments(coin.base.outs)
  IN /\ (\E i \in DOMAIN txs : txs[i].wit # Nil) => found # {}
     /\ found # {} =>
          /\ coin.wit # Nil /\ coin.wit # <<>>
          /\ coin.base.outs[Max(found)][2] = Expected(txs)

HeightOk(coin, height) == height >= Activation => coin.base.height = height

\* The transactions have distinct ids and the header's root.
RepeatsOk(root, txids) == Merkle(txids) = root     \* mutant: CVE-2012-2459
TreeOk(root, txids) == Distinct(txids) /\ Merkle(txids) = root
-------------------------------------------------------------------------------
Sum(outs) == SumFunction([i \in DOMAIN outs |-> outs[i][1]])

\* An index may be declared once.
DeclaredAgain(ds) == TRUE              \* mutant
DeclaredOnce(ds) == \A i, j \in DOMAIN ds : ds[i].index = ds[j].index => i = j

\* Commitments that are declared are there, pay nothing and are of an allowed class;
\* all that are there are declared.
DeclaredOk(outs, ds) ==
  /\ DeclaredOnce(ds)
  /\ \A i \in DOMAIN ds :
       /\ ds[i].index \in DOMAIN outs
       /\ outs[ds[i].index] = <<0, ds[i].script>>
       /\ CommitmentClass(ds[i].script) \in Allowed
  /\ \A i \in Commitments(outs) : \E k \in DOMAIN ds : ds[k].index = i

\* Every claimed output takes one of those that remain, Nil when there is none.
TakeOne(remaining, o) ==
  IF remaining = Nil \/ o \notin ToSet(remaining) THEN Nil
  ELSE RemoveFirst(remaining, o)
Consume(outs, claimed) ==
  LET left[k \in 0..Len(claimed)] ==
        IF k = 0 THEN outs ELSE TakeOne(left[k - 1], claimed[k])
  IN left[Len(claimed)]

\* Every output is taken by one of what is paid, the miner first, and what is declared.
ConsumedAsSets(outs, direct, ds) ==    \* mutant: one may stand for several
  ToSet(direct) \cup {outs[d.index] : d \in ToSet(ds)} = ToSet(outs)
Consumed(outs, direct, ds) ==
  LET declared == SetToSeq({d.index : d \in ToSet(ds)})
  IN Consume(outs, direct \o [i \in DOMAIN declared |-> outs[declared[i]]]) = <<>>
-------------------------------------------------------------------------------
Txs == [base : Bases, wit : Witnesses]
\* What outputs of a coinbase may be: payments of one, commitments with any root.
Roots(rest) == {WitnessRoot(<<Nil>> \o r) : r \in {rest, <<>>}}
Outputs(rest, stack) ==
  LET reserved == IF stack \in {Nil, <<>>} THEN Nil ELSE stack[1]
  IN {<<1, <<p>>>> : p \in Payees}
     \cup {<<v, <<root, reserved>>>> : v \in {0, 1}, root \in Roots(rest)}

CandidateInit == mined = <<>> /\ accepted = {}

\* A block is found that the network takes; its coinbase pays in any way.
Mine ==
  /\ mined = <<>>
  /\ \E rest \in {r \in SeqOf(Txs, MaxTxs) : Distinct(Txids(r))}, stack \in Stacks :
       \E outs \in SeqOf(Outputs(rest, stack), MaxOutputs), height \in Heights :
         LET txs == <<[base |-> [outs |-> outs, height |-> height], wit |-> stack]>> \o rest
         IN WitnessOk(txs) /\ mined' = txs
  /\ UNCHANGED accepted

Declarations ==
  [index : 1..MaxOutputs, script : {o[2] : o \in ToSet(mined[1].base.outs)}]

\* A candidate under the header is validated.  Only the mined coinbase has the
\* header's first leaf; fields that repeat hashes and identities are right.
ValidateCandidate(rest) ==
  /\ mined # <<>> /\ Cardinality(accepted) < MaxClaims
  /\ TreeOk(Merkle(Txids(mined)), Txids(<<mined[1]>> \o rest))
  /\ \E stack \in Stacks :
       LET txs == <<[mined[1] EXCEPT !.wit = stack]>> \o rest
           outs == mined[1].base.outs
       IN /\ WitnessOk(txs)
          /\ \E ds \in {d \in SeqOf(Declarations, MaxOutputs - 1) : DeclaredOk(outs, d)},
               direct \in SeqOf(ToSet(outs), MaxOutputs) :
               /\ Consumed(outs, direct, ds)
               /\ \E height \in Heights, gross \in 1..MaxOutputs :
                    /\ HeightOk(txs[1], height) /\ Sum(outs) = gross
                    /\ accepted' = accepted \cup
                         {[txs |-> txs, height |-> height, gross |-> gross,
                           direct |-> direct, declared |-> ds]}
  /\ UNCHANGED mined

CandidateNext ==
  \/ Mine
  \/ \E rest \in SeqOf(Txs, MaxTxs) : ValidateCandidate(rest)

CandidateSpec == CandidateInit /\ [][CandidateNext]_candidateVars
-------------------------------------------------------------------------------
Copies(o, s) == Cardinality({i \in DOMAIN s : s[i] = o})
SameBag(s, t) == \A o \in ToSet(s) \cup ToSet(t) : Copies(o, s) = Copies(o, t)

\* A candidate names a commitment once.
CandidateTypeOK ==
  /\ \A c \in accepted :
       /\ \A i \in DOMAIN c.txs : i > 1 => c.txs[i] \in Txs
       /\ c.txs[1].wit \in Stacks /\ c.height \in Heights /\ c.gross \in Nat
       /\ Cardinality({d.index : d \in ToSet(c.declared)}) = Len(c.declared)
  /\ accepted # {} => mined # <<>>

(* Everything a candidate is accepted for follows from its header: two candidates   *)
(* that the validator takes under one header have the same transactions, witnesses,  *)
(* reserved value, gross reward, payments and, once BIP34 is active, height.  Only    *)
(* what follows the reserved value on the coinbase's stack is free.                   *)
HeaderDeterminesCandidate ==
  \A c, d \in accepted :
    /\ Len(c.txs) = Len(d.txs)
    /\ \A i \in DOMAIN c.txs : i > 1 => c.txs[i] = d.txs[i]
    /\ c.txs[1].wit = d.txs[1].wit \/ c.txs[1].wit[1] = d.txs[1].wit[1]
    /\ c.gross = d.gross /\ SameBag(c.direct, d.direct)
    /\ c.height >= Activation /\ d.height >= Activation
         => c.height = d.height

(* The miner and the recipients are paid the whole gross reward, each output stands   *)
(* for one of them, and none of them is a commitment.                                 *)
PaymentsAreTheReward ==
  \A c \in accepted :
    LET outs == mined[1].base.outs
    IN /\ Sum(c.direct) = c.gross
       /\ \A o \in ToSet(c.direct) \cup ToSet(outs) :
            Copies(o, c.direct) = IF CommitmentClass(o[2]) = Nil THEN Copies(o, outs) ELSE 0
===============================================================================
