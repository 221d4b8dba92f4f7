----------------------------- MODULE ShadowAudit ------------------------------
(***************************************************************************)
(* The read-only comparison of Miningcore's PPS tables with what the       *)
(* shares are worth (coredrp_ref/miningcore_shadow.py): an export of three *)
(* tables in one REPEATABLE READ transaction, and the report compare draws *)
(* from it.  Miningcore itself, which goes on crediting shares while the   *)
(* export reads, is external, and so is whatever has damaged its rows.     *)
(*                                                                         *)
(* Amounts are integers, in steps of the 24th decimal; Unit steps are one  *)
(* step of the 12th, to which credits are paid.  The inputs of a share's   *)
(* liability are modelled by the liability itself, field worth.            *)
(***************************************************************************)
EXTENDS Integers, FiniteSets, Functions

CONSTANTS
  Ids,            \* accounting ids, in their order
  Recipients,
  Worths,         \* liabilities a share may have
  Unit,
  None,
  From, Until,    \* the exported interval
  MaxRows,        \* MAX_ROWS
  MaxTime,        \* bound: timestamps
  MaxDamage       \* bound: damaged rows

ASSUME ShadowAuditAssumption ==
  /\ Ids \subseteq Nat /\ Worths \subseteq Nat \ {0}
  /\ Unit \in Nat \ {0} /\ MaxRows \in Nat /\ MaxTime \in Nat /\ MaxDamage \in Nat
  /\ From \in Nat /\ Until \in Nat /\ None \notin Nat

Share == [id : Nat, miner : Recipients, worth : Nat, created : Nat]
Credit == [id : Nat, address : Recipients, worth : Nat, calculated : Nat,
           credited : Nat, created : Nat]
Change == [n : Nat, tag : Nat \union {None}, address : Recipients, amount : Nat,
           created : Nat]
Empty == [shares |-> {}, credits |-> {}, changes |-> {}]

VARIABLES
  db,             \* Miningcore's tables of one pool
  carry,          \* per recipient, the remainder Miningcore has not paid yet
  damage,
  phase,          \* "new", "shares", "credits", "changes", "compare", "carry",
                  \* "report" or "refused"
  view,           \* the snapshot the transaction reads
  out,            \* the rows read so far
  differences,    \* the report's findings
  carried,        \* recipient_credits
  checked,        \* rows of carried the carry loop is past
  interval        \* per recipient: prefix, lower and upper

source == <<db, carry, damage>>
export == <<phase, view, out>>
report == <<differences, carried, checked, interval>>
vars == <<source, export, report>>

Init ==
  /\ db = Empty /\ carry \in [Recipients -> 0..(Unit - 1)] /\ damage = 0
  /\ phase = "new" /\ view = Empty /\ out = Empty
  /\ differences = {} /\ carried = {} /\ checked = {}
  /\ interval = [r \in Recipients |-> [prefix |-> 0, lower |-> 0, upper |-> Unit]]

-------------------------------------------------------------------------------
(* Miningcore: a share, its credit and the balance entry in one            *)
(* transaction.  A recipient's credits are taken from its remainder in     *)
(* (created, accountingid) order: the report's own assumption.             *)

Reading == phase \in {"new", "shares", "credits", "changes"}
Known == {c.id : c \in db.credits}
Before(c, d) == c.created < d.created \/ (c.created = d.created /\ c.id < d.id)

\* A credit of nothing has no balance entry.
Entry(c) ==
  IF c.credited = 0 THEN {}
  ELSE {[n |-> 0, tag |-> c.id, address |-> c.address, amount |-> c.credited,
         created |-> c.created]}

Rest(r, w) == (carry[r] + w) % Unit
NewCredit(i, r, w, t) ==
  [id |-> i, address |-> r, worth |-> w, calculated |-> w,
   credited |-> carry[r] + w - Rest(r, w), created |-> t]
NewShare(i, r, w, t) == [id |-> i, miner |-> r, worth |-> w, created |-> t]
InOrder(new) ==
  \A c \in db.credits :
    c.created <= new.created /\ (c.address = new.address => Before(c, new))

CreditShare ==
  /\ Reading /\ damage = 0
  /\ \E i \in Ids \ Known, r \in Recipients, w \in Worths, t \in 0..MaxTime :
       /\ InOrder(NewCredit(i, r, w, t))
       /\ carry' = [carry EXCEPT ![r] = Rest(r, w)]
       /\ db' = [shares |-> db.shares \union {NewShare(i, r, w, t)},
                 credits |-> db.credits \union {NewCredit(i, r, w, t)},
                 changes |-> db.changes \union Entry(NewCredit(i, r, w, t))]
  /\ UNCHANGED <<damage, export, report>>

\* What may have become of the rows: one lost, an entry repeated at any time or its
\* tag lost, an amount changed in the credit, in the ledger, or in both alike.
Repaid(c, v) == [c EXCEPT !.credited = v]
Near(v) == {v - Unit, v + Unit} \intersect Nat
Replaced(table, row, by) == (table \ {row}) \union {by}
Repeated(x, t) == [x EXCEPT !.n = 1, !.created = t]

DamagedEntry(x) ==
  {db.changes \ {x}, Replaced(db.changes, x, [x EXCEPT !.tag = None])}
  \union {db.changes \union {Repeated(x, t)} : t \in 0..MaxTime}
  \union {Replaced(db.changes, x, [x EXCEPT !.amount = v]) : v \in Near(x.amount)}
DamagedLedgers == UNION {DamagedEntry(x) : x \in db.changes}

Repayments(c) == {Repaid(c, v) : v \in Near(c.credited)}
Ledgers(by) == {db.changes, {x \in db.changes : x.tag # by.id} \union Entry(by)}

Damages ==
  {[db EXCEPT !.shares = @ \ {s}] : s \in db.shares}
  \union {[db EXCEPT !.credits = @ \ {c}] : c \in db.credits}
  \union {[db EXCEPT !.changes = ledger] : ledger \in DamagedLedgers}
  \union UNION {UNION {{[db EXCEPT !.credits = Replaced(@, c, by), !.changes = ledger] :
                          ledger \in Ledgers(by)} : by \in Repayments(c)} :
                  c \in db.credits}

Damage ==
  /\ phase = "new" /\ damage < MaxDamage
  /\ db' \in Damages
  /\ damage' = damage + 1
  /\ UNCHANGED <<carry, export, report>>

-------------------------------------------------------------------------------
(* snapshot                                                                *)

InInterval(row) == From <= row.created /\ row.created < Until

\* The transaction's first query fixes what all of them see.
Begin ==
  /\ phase = "new"
  /\ view' = db /\ phase' = "shares"
  /\ UNCHANGED <<source, out, report>>

\* Mutant: each query sees what is committed when it runs.
ReadCommitted == db

Visible == view

ReadShares ==
  /\ phase = "shares"
  /\ out' = [out EXCEPT !.shares = {s \in Visible.shares : InInterval(s)}]
  /\ phase' = "credits"
  /\ UNCHANGED <<source, view, report>>

ReadCredits ==
  /\ phase = "credits"
  /\ out' = [out EXCEPT !.credits = {c \in Visible.credits : InInterval(c)}]
  /\ phase' = IF Cardinality(out'.shares) <= MaxRows
                   /\ Cardinality(out'.credits) <= MaxRows
              THEN "changes" ELSE "refused"
  /\ UNCHANGED <<source, view, report>>

\* Entries of the interval, and those the rows already read are tagged on.
Tags == {s.id : s \in out.shares} \union {c.id : c \in out.credits}
FoundByTime(x) == InInterval(x)      \* mutant
Found(x) == InInterval(x) \/ x.tag \in Tags

ReadChanges ==
  /\ phase = "changes"
  /\ out' = [out EXCEPT !.changes = {x \in Visible.changes : Found(x)}]
  /\ phase' = IF Cardinality(out'.changes) <= MaxRows THEN "compare" ELSE "refused"
  /\ UNCHANGED <<source, view, report>>

-------------------------------------------------------------------------------
(* compare: the rows one by one                                            *)

Floor(amount) == amount - (amount % Unit)
Ceiling(amount) == IF amount % Unit = 0 THEN amount ELSE Floor(amount) + Unit

Linked(c) == {x \in out.changes : x.tag = c.id}

Wrong(s, c) ==
  [credit_source_mismatch |->
     s.worth # c.worth \/ s.created # c.created \/ s.miner # c.address,
   calculated_liability_mismatch |-> c.calculated # s.worth,
   credited_amount_outside_precision_carry_bounds |->
     c.credited \notin {Floor(c.calculated), Ceiling(c.calculated)},
   balance_credit_count_mismatch |->
     Cardinality(Linked(c)) # (IF c.credited > 0 THEN 1 ELSE 0),
   balance_credit_mismatch |->
     \E x \in Linked(c) :
       x.address # c.address \/ x.created # c.created \/ x.amount # c.credited]

PairDifferences(s, c) ==
  {<<c.id, why>> : why \in {w \in DOMAIN Wrong(s, c) : Wrong(s, c)[w]}}

Pairs == {p \in out.shares \X out.credits : p[1].id = p[2].id}
SharesKnown == {s.id : s \in out.shares}
CreditsKnown == {c.id : c \in out.credits}

RowDifferences ==
  {<<x.tag, "ambiguous_balance_credit_tags">> :
     x \in {y \in out.changes : y.tag = None}}
  \union {<<x.tag, "balance_credit_without_source_rows">> :
            x \in {y \in out.changes : y.tag # None /\ y.tag \notin Tags}}
  \union {<<i, "credit_without_retained_share">> : i \in CreditsKnown \ SharesKnown}
  \union {<<i, "share_without_pps_credit">> : i \in SharesKnown \ CreditsKnown}
  \union UNION {PairDifferences(p[1], p[2]) : p \in Pairs}

Compare ==
  /\ phase = "compare"
  /\ differences' = RowDifferences
  /\ carried' = {p[2] : p \in Pairs}
  /\ phase' = "carry"
  /\ UNCHANGED <<source, view, out, checked, interval>>

-------------------------------------------------------------------------------
(* compare: the carry of each recipient                                    *)

\* Mutant: a closing remainder of a whole unit is let through.
Crossed(i) == i.lower > i.upper

Broken(i) == i.lower >= i.upper
ToCheck(r) == {c \in carried \ checked : c.address = r /\ ~Broken(interval[r])}
First(rows) == {c \in rows : \A d \in rows : c = d \/ Before(c, d)}

Least(a, b) == IF a < b THEN a ELSE b
Greatest(a, b) == IF a < b THEN b ELSE a

\* Mutant: the bounds follow the last credit only, not the whole prefix.
NarrowedByLast(i, c) ==
  LET last == c.calculated - c.credited
  IN [prefix |-> i.prefix + last, lower |-> Greatest(i.lower, -last),
      upper |-> Least(i.upper, Unit - last)]

Narrowed(i, c) ==
  LET prefix == i.prefix + c.calculated - c.credited
  IN [prefix |-> prefix, lower |-> Greatest(i.lower, -prefix),
      upper |-> Least(i.upper, Unit - prefix)]

CheckCarry ==
  /\ phase = "carry"
  /\ \E r \in Recipients : \E c \in First(ToCheck(r)) :
       /\ interval' = [interval EXCEPT ![r] = Narrowed(@, c)]
       /\ checked' = checked \union {c}
       /\ differences' =
            IF Broken(interval'[r])
            THEN differences \union {<<c.id, "inconsistent_recipient_carry_history">>}
            ELSE differences
  /\ UNCHANGED <<source, export, carried>>

Report ==
  /\ phase = "carry" /\ \A r \in Recipients : ToCheck(r) = {}
  /\ phase' = "report"
  /\ UNCHANGED <<source, view, out, report>>

Next == CreditShare \/ Damage \/ Begin \/ ReadShares \/ ReadCredits
          \/ ReadChanges \/ Compare \/ CheckCarry \/ Report

Spec == Init /\ [][Next]_vars

AccountingMatches == out.shares # {} /\ out.credits # {} /\ differences = {}

-------------------------------------------------------------------------------
(* Properties                                                              *)

\* Types; the interval of a recipient stays inside one unit and inside what its
\* prefix allows.
Tables == [shares : SUBSET Share, credits : SUBSET Credit, changes : SUBSET Change]
TypeOK ==
  /\ db \in Tables /\ view \in Tables /\ out \in Tables
  /\ carry \in [Recipients -> 0..(Unit - 1)] /\ damage \in Nat
  /\ phase \in {"new", "shares", "credits", "changes", "compare", "carry",
                "report", "refused"}
  /\ carried \in SUBSET Credit /\ checked \in SUBSET carried
  /\ interval \in [Recipients -> [prefix : Int, lower : Int, upper : Int]]
  /\ \A r \in Recipients :
       LET i == interval[r]
       IN /\ 0 <= i.lower /\ -i.prefix <= i.lower
          /\ i.upper <= Unit /\ i.upper <= Unit - i.prefix

\* Tables that are as Miningcore wrote them are never reported as different,
\* whatever remainder the interval opens with, wherever its ends cut the history
\* and however many shares are credited between the queries of the export.
HonestMatches == phase = "report" /\ damage = 0 => differences = {}

\* The rule of Miningcore's credits, from an opening remainder: what the credits
\* before c leave of a unit, and what c pays of it.
Calculated(rows) == SumFunction([c \in rows |-> c.calculated])
Credited(rows) == SumFunction([c \in rows |-> c.credited])
Amounts(rows) == SumFunction([x \in rows |-> x.amount])
Worth(rows) == SumFunction([s \in rows |-> s.worth])

RestBefore(rows, open, c) ==
  (open + Calculated({d \in rows : Before(d, c)})) % Unit
Explains(rows, open) ==
  \A c \in rows :
    c.credited = Floor(RestBefore(rows, open, c) + c.calculated)
Explained(rows) == \E open \in 0..(Unit - 1) : Explains(rows, open)
Of(rows, r) == {c \in rows : c.address = r}

\* accounting_matches means what MININGCORE-SHADOW.md says of it, for the rows the
\* snapshot holds and not only those that were read: some opening remainder
\* explains every credit of the interval, the ledger entries of the interval and those
\* that name one of its credits, whenever they were made, pay out exactly what was
\* credited, and what was calculated is what the shares are worth.
MatchIsExplained ==
  phase = "report" /\ AccountingMatches =>
    \A r \in Recipients :
      LET credits == {c \in view.credits : InInterval(c)}
          entries == {x \in view.changes : InInterval(x) \/ \E c \in credits : c.id = x.tag}
          shares == {s \in view.shares : InInterval(s) /\ s.miner = r}
      IN /\ Explained(Of(credits, r))
         /\ Amounts(Of(entries, r)) = Credited(Of(credits, r))
         /\ Worth(shares) = Calculated(Of(credits, r))

\* The bounds are the replay of all possible openings: the remainders possible
\* after the rows checked are the openings left, each moved by the prefix.
Remainders ==
  [r \in Recipients |->
     {open + interval[r].prefix : open \in interval[r].lower..(interval[r].upper - 1)}]
Replayed == INSTANCE CarryReplay
              WITH credits <- carried, replayed <- checked, remainders <- Remainders
ImplementsReplay == Replayed!Spec
===============================================================================
