------------------------------ MODULE Settlement ------------------------------
(***************************************************************************)
(* The arithmetic of a settlement (tools/financial_semantics.py) as the    *)
(* audit of a retained bundle runs it (tools/audit_evidence.py): the       *)
(* window of shares a block pays, read in pages from the newest share to   *)
(* the older, then the allocation of the reward over the window.           *)
(*                                                                         *)
(* Scores, targets and amounts are finitely many rationals, so a bundle's  *)
(* are modelled as integers: scores in a common unit, amounts in steps of  *)
(* the 24th decimal, where amount() truncates.  A tuple key is its rank.   *)
(***************************************************************************)
EXTENDS Integers, FiniteSets, FiniteSetsExt, Functions

CONSTANTS
  Bundles,        \* the bundles that may be audited
  None

Schemes == {"PPLNS", "PPLNSBF", "PROP"}
Row == [id : Nat, tuple : Nat, score : Nat \ {0}, candidate : BOOLEAN]
Bundle == [rows : SUBSET Row, scheme : Schemes, factor : Nat \ {0},
           page : Nat \ {0}, percent : Nat, policyPercent : 0..99,
           gross : Nat, reward : Nat, deductions : SUBSET [to : Nat, amount : Nat],
           finder : Nat \union {None}]

ASSUME SettlementAssumption ==
  /\ Bundles \subseteq Bundle
  /\ None \notin Nat
  /\ \A b \in Bundles : IsFiniteSet(b.rows) /\ IsFiniteSet(b.deductions)

VARIABLES
  bundle,         \* the bundle under audit
  phase,          \* "start", "page", "row", "allocate", "done" or "refused"
  cursor,         \* the key of the last row of the last page, or None
  page,           \* rows of the page not taken yet
  selected,       \* rows taken, each with its contribution in field share
  total,          \* the sum of the contributions
  amounts, dust   \* the result of allocate

vars == <<bundle, phase, cursor, page, selected, total, amounts, dust>>

Init ==
  /\ bundle \in Bundles /\ phase = "start" /\ cursor = None /\ page = {}
  /\ selected = {} /\ total = 0 /\ amounts = <<>> /\ dust = 0

-------------------------------------------------------------------------------
(* The checks audit and select_window make before any row is taken.        *)

Deducted == SumFunction([d \in bundle.deductions |-> d.amount])
IdRepeated == \E r, s \in bundle.rows : r # s /\ r.id = s.id
TupleRepeated == \E r, s \in bundle.rows : r # s /\ r.tuple = s.tuple
Windowed == bundle.scheme # "PROP"
Percent == IF bundle.scheme = "PPLNSBF" THEN bundle.policyPercent ELSE 0

Sound ==
  /\ \A d, e \in bundle.deductions : d.to = e.to => d = e
  /\ bundle.gross = bundle.reward + Deducted
  /\ bundle.percent = Percent
  /\ ~IdRepeated
  /\ Windowed => ~TupleRepeated

Refuse ==
  /\ phase = "start" /\ ~Sound
  /\ phase' = "refused"
  /\ UNCHANGED <<bundle, cursor, page, selected, total, amounts, dust>>

BeginWindow ==
  /\ phase = "start" /\ Sound /\ Windowed
  /\ phase' = "page"
  /\ UNCHANGED <<bundle, cursor, page, selected, total, amounts, dust>>

Contributions(rows) == SumFunction([s \in rows |-> s.share])

\* A PROP settlement pays every row in full.
Whole(r) == [id |-> r.id, tuple |-> r.tuple, score |-> r.score, share |-> r.score]

BeginProp ==
  /\ phase = "start" /\ Sound /\ ~Windowed
  /\ selected' = {Whole(r) : r \in bundle.rows}
  /\ total' = Contributions(selected')
  /\ phase' = "allocate"
  /\ UNCHANGED <<bundle, cursor, page, amounts, dust>>

-------------------------------------------------------------------------------
(* select_window                                                           *)

\* Mutant: the cursor is inclusive.
FromCursor == {r \in bundle.rows : cursor # None => r.tuple <= cursor}

Older == {r \in bundle.rows : cursor # None => r.tuple < cursor}

\* Mutant: the rows of a page are taken in ascending order.
Oldest(rows) == {r \in rows : \A s \in rows : r.tuple <= s.tuple}

Newest(rows) == {r \in rows : \A s \in rows : s.tuple <= r.tuple}

IsPage(rows) ==
  /\ rows \subseteq Older
  /\ rows = Older \/ Cardinality(rows) = bundle.page
  /\ Cardinality(rows) <= bundle.page
  /\ \A r \in rows, s \in Older \ rows : s.tuple < r.tuple

ReadPage ==
  /\ phase = "page"
  /\ \E rows \in SUBSET Older :
       /\ IsPage(rows)
       /\ page' = rows
       /\ phase' = IF rows = {} THEN "allocate" ELSE "row"
  /\ UNCHANGED <<bundle, cursor, selected, total, amounts, dust>>

\* Mutant: a met target does not end the page.
Exceeded(sum) == sum > bundle.factor

Met(sum) == sum = bundle.factor
Left == bundle.factor - total
Contribution(r) == IF r.score < Left THEN r.score ELSE Left
Taken(r) == [id |-> r.id, tuple |-> r.tuple, score |-> r.score,
             share |-> Contribution(r)]

TakeRow ==
  /\ phase = "row"
  /\ \E r \in Newest(page) :
       /\ selected' = selected \union {Taken(r)}
       /\ total' = total + Contribution(r)
       /\ page' = page \ {r}
       /\ cursor' = IF page' = {} THEN r.tuple ELSE cursor
  /\ phase' = IF Met(total') THEN "allocate"
              ELSE IF page' = {} THEN "page" ELSE "row"
  /\ UNCHANGED <<bundle, amounts, dust>>

-------------------------------------------------------------------------------
(* allocate, with audit's check of the finder before it                    *)

Candidates == {r.id : r \in {s \in bundle.rows : s.candidate}}

FinderLinked ==
  IF bundle.scheme = "PPLNSBF"
  THEN bundle.finder # None /\ Candidates = {bundle.finder}
  ELSE bundle.finder = None

Paid == {s.id : s \in selected} \union ({bundle.finder} \ {None})
ShareOf(id) == Contributions({s \in selected : s.id = id})
FinderPart(id) == IF id = bundle.finder THEN Percent * total ELSE 0

\* Mutant: the two parts of the finder's amount are truncated apart.
TruncatedTwice(id) ==
  ((bundle.reward * (100 - Percent) * ShareOf(id)) \div (100 * total))
    + ((bundle.reward * FinderPart(id)) \div (100 * total))

\* The exact amount is a fraction over 100 * total; it is truncated once.
AmountOf(id) ==
  (bundle.reward * ((100 - Percent) * ShareOf(id) + FinderPart(id)))
    \div (100 * total)

AllocateRefused ==
  /\ phase = "allocate" /\ (total = 0 \/ ~FinderLinked)
  /\ phase' = "refused"
  /\ UNCHANGED <<bundle, cursor, page, selected, total, amounts, dust>>

Allocate ==
  /\ phase = "allocate" /\ total > 0 /\ FinderLinked
  /\ amounts' = [id \in Paid |-> AmountOf(id)]
  /\ dust' = bundle.reward - SumFunction(amounts')
  /\ phase' = "done"
  /\ UNCHANGED <<bundle, cursor, page, selected, total>>

Next == Refuse \/ BeginWindow \/ BeginProp \/ ReadPage \/ TakeRow
          \/ AllocateRefused \/ Allocate

Spec == Init /\ [][Next]_vars

-------------------------------------------------------------------------------
(* Properties                                                              *)

Rows == bundle.rows
Ids == {s.id : s \in selected}
Unselected == {r \in Rows : r.id \notin Ids}
Selected == [id : Nat, tuple : Nat, score : Nat \ {0}, share : Nat]

\* Types, and where the loops of select_window are.
TypeOK ==
  /\ bundle \in Bundle
  /\ phase \in {"start", "page", "row", "allocate", "done", "refused"}
  /\ cursor \in Nat \union {None}
  /\ page \in SUBSET Unselected
  /\ selected \in SUBSET Selected
  /\ total \in Nat
  /\ phase \in {"page", "row"} => Windowed /\ total < bundle.factor
  /\ phase = "row" <=> page # {} /\ phase # "allocate" /\ phase # "done"
                        /\ phase # "refused"

\* The window is a set of newest shares, whatever the size of the pages
\* select_window reads: no share outside it is newer than one inside.  It stops
\* short of the target only when there are no more shares, and at most its
\* oldest share is paid in part, when the target is met exactly.
WindowIsNewest ==
  Windowed =>
    /\ \A s \in selected, r \in Unselected : r.tuple < s.tuple
    /\ phase \in {"allocate", "done"} =>
         total = bundle.factor \/ Unselected = {}
    /\ \A s \in selected : s.share # s.score =>
         /\ total = bundle.factor
         /\ \A t \in selected : s.tuple <= t.tuple
    /\ total <= bundle.factor

\* What "the newest shares up to the target" means, without pages: a share
\* contributes what the newer ones leave of the target, up to its score.
Score == [r \in Rows |-> r.score]
NewerScore(r) == SumFunctionOnSet(Score, {s \in Rows : s.tuple > r.tuple})
Reference ==
  {[id |-> r.id, tuple |-> r.tuple, score |-> r.score,
    share |-> Min({r.score, bundle.factor - NewerScore(r)})] :
      r \in {q \in Rows : NewerScore(q) < bundle.factor}}

\* The pages and the running total of select_window give the reference window.
WindowExact ==
  Windowed /\ phase \in {"allocate", "done"} =>
    /\ selected = Reference
    /\ total = Contributions(Reference)

\* audit and allocate together account for the whole gross reward: deductions,
\* amounts and dust sum to it, no amount is negative, and truncation leaves less
\* than one step of the 24th decimal per recipient, also when the finder's part
\* is added to a share of its own.
Conserved ==
  phase = "done" =>
    /\ bundle.gross = Deducted + dust + SumFunction(amounts)
    /\ \A id \in DOMAIN amounts : amounts[id] >= 0
    /\ dust >= 0 /\ dust < Cardinality(DOMAIN amounts)

\* The inductive form of WindowIsNewest: between two pages the cursor separates
\* what is taken from what is not, and inside a page the rows left in it are
\* newer than all others left; selected rows are rows of the bundle, each once.
KeysDistinct == \A r, s \in Rows : r = s \/ (r.id # s.id /\ r.tuple # s.tuple)
TakenFromRows == \A s \in selected : \E r \in Rows : r.id = s.id /\ r.tuple = s.tuple

WindowInv ==
  /\ bundle \in Bundle
  /\ phase = "start" => selected = {} /\ total = 0 /\ page = {} /\ cursor = None
  /\ Windowed =>
       /\ total \in Nat /\ selected \in SUBSET Selected /\ page \subseteq Unselected
       /\ cursor \in Nat \union {None}
       /\ TakenFromRows
       /\ phase \in {"page", "row", "allocate", "done"} => KeysDistinct
       /\ phase \in {"page", "row"} => total < bundle.factor
       /\ phase = "page" => page = {} /\ Older = Unselected
       /\ phase = "row" =>
            /\ page # {}
            /\ \A r \in page, s \in Unselected \ page : s.tuple < r.tuple
  /\ WindowIsNewest
===============================================================================
