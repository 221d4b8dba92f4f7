------------------------- MODULE ShadowAudit_proofs ---------------------------
(***************************************************************************)
(* For every history of credits, unit and damage: the bounds the carry     *)
(* loop of compare keeps are the replay of all opening remainders; tables  *)
(* that are as Miningcore wrote them are reported as such; and a report    *)
(* without differences has an opening remainder that explains every credit *)
(* and a ledger that paid each of them once.                               *)
(***************************************************************************)
EXTENDS ShadowAudit, FiniteSetTheorems, TLAPS

\* What a credit needs to be replayed: integers, and a known recipient.
Replayable(c) ==
  c \in [id : Nat, address : Recipients, worth : Nat, calculated : Int,
          credited : Int, created : Nat]

IsTables(t) == t = [shares |-> t.shares, credits |-> t.credits, changes |-> t.changes]

CreditsReplayable ==
  /\ IsTables(db) /\ IsTables(view) /\ IsTables(out)
  /\ \A c \in db.credits : Replayable(c)
  /\ \A c \in view.credits : Replayable(c)
  /\ \A c \in out.credits : Replayable(c)
  /\ \A c \in carried : Replayable(c)
  /\ carry \in [Recipients -> Int]

\* The bounds of a recipient stay inside one unit, moved by its prefix or not.
Bounded(i) ==
  /\ i.prefix \in Int /\ i.lower \in Int /\ i.upper \in Int
  /\ 0 <= i.lower /\ -i.prefix <= i.lower
  /\ i.upper <= Unit /\ i.upper <= Unit - i.prefix

BoundsInv ==
  /\ DOMAIN interval = Recipients
  /\ \A r \in Recipients : Bounded(interval[r])
  /\ interval = [r \in Recipients |-> interval[r]]
  /\ phase \notin {"carry", "report"} => carried = {} /\ checked = {}

ReplayInv == CreditsReplayable /\ BoundsInv

LEMMA ReplayInvInit == Init => ReplayInv
<1> SUFFICES ASSUME Init PROVE ReplayInv
    OBVIOUS
<1>1. CreditsReplayable
      BY ShadowAuditAssumption DEF Init, CreditsReplayable, IsTables, Empty
<1>2. BoundsInv
      BY ShadowAuditAssumption DEF Init, BoundsInv, Bounded
<1> QED
    BY <1>1, <1>2 DEF ReplayInv

\* Crediting a share adds one replayable credit.
LEMMA CreditShareStep ==
  ASSUME CreditsReplayable, CreditShare
  PROVE  CreditsReplayable'
<1>1. PICK i \in Ids \ Known, r \in Recipients, w \in Worths, t \in 0..MaxTime :
        /\ carry' = [carry EXCEPT ![r] = Rest(r, w)]
        /\ db' = [shares |-> db.shares \union {NewShare(i, r, w, t)},
                  credits |-> db.credits \union {NewCredit(i, r, w, t)},
                  changes |-> db.changes \union Entry(NewCredit(i, r, w, t))]
      BY DEF CreditShare
<1>2. carry[r] \in Int /\ w \in Int /\ Rest(r, w) \in Int
      BY ShadowAuditAssumption DEF CreditsReplayable, Rest
<1>3. Replayable(NewCredit(i, r, w, t))
      BY <1>2, ShadowAuditAssumption DEF Replayable, NewCredit
<1>4. \A c \in db'.credits : Replayable(c)
      BY <1>1, <1>3 DEF CreditsReplayable
<1>5. carry' \in [Recipients -> Int]
      BY <1>1, <1>2 DEF CreditsReplayable
<1>6. IsTables(db)'
      BY <1>1 DEF IsTables
<1> QED
    BY <1>4, <1>5, <1>6 DEF CreditsReplayable, CreditShare, export, report, IsTables, Replayable

\* Damage, case by case.
LEMMA DamageForms ==
  ASSUME Damage
  PROVE  \/ \E s \in db.shares : db' = [db EXCEPT !.shares = @ \ {s}]
         \/ \E c \in db.credits : db' = [db EXCEPT !.credits = @ \ {c}]
         \/ \E ledger \in DamagedLedgers : db' = [db EXCEPT !.changes = ledger]
         \/ \E c \in db.credits : \E by \in Repayments(c) : \E ledger \in Ledgers(by) :
              db' = [db EXCEPT !.credits = Replaced(@, c, by), !.changes = ledger]
<1> DEFINE Repays(c) == UNION {{[db EXCEPT !.credits = Replaced(@, c, by),
                                         !.changes = ledger] :
                                  ledger \in Ledgers(by)} : by \in Repayments(c)}
<1>1. PICK after \in Damages : db' = after
      BY DEF Damage
<1>2. CASE \E c \in db.credits : after \in Repays(c)
  <2>1. PICK c \in db.credits : after \in Repays(c)
        BY <1>2
  <2>2. PICK by \in Repayments(c) :
          after \in {[db EXCEPT !.credits = Replaced(@, c, by), !.changes = ledger] :
                       ledger \in Ledgers(by)}
        BY <2>1
  <2> QED
      BY <1>1, <2>2
<1>3. \/ after \in {[db EXCEPT !.shares = @ \ {s}] : s \in db.shares}
      \/ after \in {[db EXCEPT !.credits = @ \ {c}] : c \in db.credits}
      \/ after \in {[db EXCEPT !.changes = ledger] : ledger \in DamagedLedgers}
      \/ after \in UNION {Repays(c) : c \in db.credits}
  <2> HIDE DEF Repays
  <2> QED
      BY <1>1 DEF Damages, Repays
<1>4. after \in UNION {Repays(c) : c \in db.credits} => \E c \in db.credits : after \in Repays(c)
  <2> HIDE DEF Repays
  <2> QED
      OBVIOUS
<1> QED
    BY <1>1, <1>2, <1>3, <1>4

\* Damaged rows may lie, but their amounts are still amounts.
LEMMA DamageStep ==
  ASSUME CreditsReplayable, Damage
  PROVE  CreditsReplayable'
<1>1. ASSUME NEW d \in db.credits, NEW by \in Repayments(d)
      PROVE  Replayable(by)
      BY <1>1 DEF CreditsReplayable, Replayable, Repayments, Repaid, Near
<1>2. IsTables(db') /\ \A c \in db'.credits : Replayable(c)
  <2>1. CASE \E s \in db.shares : db' = [db EXCEPT !.shares = @ \ {s}]
        BY <2>1 DEF IsTables, CreditsReplayable
  <2>2. CASE \E d \in db.credits : db' = [db EXCEPT !.credits = @ \ {d}]
        BY <2>2 DEF IsTables, CreditsReplayable
  <2>3. CASE \E ledger \in DamagedLedgers : db' = [db EXCEPT !.changes = ledger]
        BY <2>3 DEF IsTables, CreditsReplayable
  <2>4. ASSUME NEW d \in db.credits, NEW by \in Repayments(d), NEW ledger \in Ledgers(by),
               db' = [db EXCEPT !.credits = Replaced(@, d, by), !.changes = ledger]
        PROVE  IsTables(db') /\ \A c \in db'.credits : Replayable(c)
        BY <1>1, <2>4 DEF Replaced, IsTables, CreditsReplayable
  <2> QED
      BY <2>1, <2>2, <2>3, <2>4, DamageForms
<1> QED
    BY <1>2 DEF CreditsReplayable, Damage, export, report, IsTables, Replayable

\* The export reads rows of the snapshot, and compare pairs rows that were read.
LEMMA ExportStep ==
  ASSUME CreditsReplayable, Begin \/ ReadShares \/ ReadCredits \/ ReadChanges
  PROVE  CreditsReplayable'
<1>1. CASE Begin
      BY <1>1 DEF Begin, CreditsReplayable, IsTables, source, report
<1>2. CASE ReadShares
      BY <1>2 DEF ReadShares, CreditsReplayable, IsTables, source, report
<1>3. CASE ReadCredits
      BY <1>3 DEF ReadCredits, Visible, CreditsReplayable, IsTables, source, report
<1>4. CASE ReadChanges
      BY <1>4 DEF ReadChanges, CreditsReplayable, IsTables, source, report
<1> QED
    BY <1>1, <1>2, <1>3, <1>4

LEMMA CompareStep ==
  ASSUME CreditsReplayable, Compare
  PROVE  CreditsReplayable'
<1>1. \A p \in Pairs : p[2] \in out.credits
      BY DEF Pairs
<1> QED
    BY <1>1 DEF Compare, CreditsReplayable, IsTables, source

\* Narrowing keeps the bounds, and leaves the openings from which the credit too
\* can have been paid.
LEMMA NarrowedBounded ==
  ASSUME NEW i, NEW c, Bounded(i), Replayable(c)
  PROVE  /\ Bounded(Narrowed(i, c))
         /\ Narrowed(i, c).prefix = i.prefix + c.calculated - c.credited
         /\ \A open \in Int :
              open \in Narrowed(i, c).lower..(Narrowed(i, c).upper - 1)
                <=> /\ open \in i.lower..(i.upper - 1)
                    /\ open + Narrowed(i, c).prefix \in 0..(Unit - 1)
<1> DEFINE prefix == i.prefix + c.calculated - c.credited
<1>1. /\ i.prefix \in Int /\ i.lower \in Int /\ i.upper \in Int
      /\ c.calculated \in Int /\ c.credited \in Int /\ Unit \in Int
      BY ShadowAuditAssumption DEF Bounded, Replayable
<1>2. prefix \in Int
      BY <1>1
<1>3. /\ Narrowed(i, c).prefix = prefix
      /\ Narrowed(i, c).lower = Greatest(i.lower, -prefix)
      /\ Narrowed(i, c).upper = Least(i.upper, Unit - prefix)
      BY DEF Narrowed
<1> HIDE DEF prefix
<1>4. \A open \in Int :
        open \in Greatest(i.lower, -prefix)..(Least(i.upper, Unit - prefix) - 1)
          <=> open \in i.lower..(i.upper - 1) /\ open + prefix \in 0..(Unit - 1)
      BY <1>1, <1>2 DEF Greatest, Least
<1>5. Bounded(Narrowed(i, c))
      BY <1>1, <1>2, <1>3 DEF Bounded, Greatest, Least
<1> QED
    BY <1>3, <1>4, <1>5 DEF prefix

LEMMA CheckCarryStep ==
  ASSUME ReplayInv, CheckCarry
  PROVE  BoundsInv'
<1>1. PICK r \in Recipients : \E c \in First(ToCheck(r)) :
        interval' = [interval EXCEPT ![r] = Narrowed(@, c)]
      BY DEF CheckCarry
<1>2. PICK c \in First(ToCheck(r)) : interval' = [interval EXCEPT ![r] = Narrowed(@, c)]
      BY <1>1
<1>3. Replayable(c)
      BY DEF First, ToCheck, ReplayInv, CreditsReplayable
<1>4. Bounded(Narrowed(interval[r], c))
      BY <1>3, NarrowedBounded DEF ReplayInv, BoundsInv
<1> QED
    BY <1>2, <1>4 DEF ReplayInv, BoundsInv, CheckCarry, export

LEMMA ReplayInvStep == ReplayInv /\ [Next]_vars => ReplayInv'
<1> SUFFICES ASSUME ReplayInv, [Next]_vars PROVE ReplayInv'
    OBVIOUS
<1>1. CASE CreditShare
      BY <1>1, CreditShareStep DEF ReplayInv, BoundsInv, CreditShare, export, report
<1>2. CASE Damage
      BY <1>2, DamageStep DEF ReplayInv, BoundsInv, Damage, export, report
<1>3. CASE Begin \/ ReadShares \/ ReadCredits \/ ReadChanges
  <2>1. /\ UNCHANGED report /\ phase \notin {"carry", "report"}
        BY <1>3 DEF Begin, ReadShares, ReadCredits, ReadChanges
  <2> QED
      BY <1>3, <2>1, ExportStep DEF ReplayInv, BoundsInv, report
<1>4. CASE Compare
      BY <1>4, CompareStep DEF ReplayInv, BoundsInv, Compare
<1>5. CASE CheckCarry
  <2>1. CreditsReplayable'
        BY <1>5 DEF ReplayInv, CreditsReplayable, CheckCarry, source, export, IsTables
  <2> QED
      BY <1>5, <2>1, CheckCarryStep DEF ReplayInv
<1>6. CASE Report
      BY <1>6 DEF ReplayInv, CreditsReplayable, BoundsInv, Report, source, report, IsTables
<1>7. CASE UNCHANGED vars
      BY <1>7 DEF ReplayInv, CreditsReplayable, BoundsInv, vars, source, export, report, IsTables
<1> QED
    BY <1>1, <1>2, <1>3, <1>4, <1>5, <1>6, <1>7 DEF Next

-------------------------------------------------------------------------------
(* The types                                                               *)

\* What is credited is a multiple of the unit, and never negative.
LEMMA RestFacts ==
  ASSUME NEW x \in Nat
  PROVE  x % Unit \in 0..(Unit - 1) /\ x - (x % Unit) \in Nat
<1> DEFINE q == x \div Unit
           m == x % Unit
<1>1. Unit \in Nat /\ Unit > 0
      BY ShadowAuditAssumption
<1>2. m \in 0..(Unit - 1) /\ q \in Int /\ x = Unit * q + m
      BY <1>1
<1> HIDE DEF q, m
<1>3. ASSUME q < 0 PROVE FALSE
  <2>1. q <= -1 /\ Unit * q <= -Unit
        BY <1>1, <1>2, <1>3
  <2> QED
      BY <1>1, <1>2, <2>1
<1>4. Unit * q \in Int /\ Unit * q >= 0
      BY <1>1, <1>2, <1>3
<1>5. x - m = Unit * q
      BY <1>1, <1>2, <1>4
<1>6. x - m \in Nat
      BY <1>4, <1>5
<1> QED
    BY <1>2, <1>6 DEF m

LEMMA TypesInit == Init => TypeOK
<1>1. Empty \in Tables
      BY DEF Empty, Tables
<1> QED
    BY <1>1, ShadowAuditAssumption DEF Init, TypeOK

LEMMA CreditShareTypes ==
  ASSUME TypeOK, CreditShare
  PROVE  db' \in Tables /\ carry' \in [Recipients -> 0..(Unit - 1)]
<1>1. PICK i \in Ids \ Known, r \in Recipients, w \in Worths, t \in 0..MaxTime :
        /\ carry' = [carry EXCEPT ![r] = Rest(r, w)]
        /\ db' = [shares |-> db.shares \union {NewShare(i, r, w, t)},
                  credits |-> db.credits \union {NewCredit(i, r, w, t)},
                  changes |-> db.changes \union Entry(NewCredit(i, r, w, t))]
      BY DEF CreditShare
<1>2. carry[r] \in 0..(Unit - 1) /\ w \in Nat /\ i \in Nat /\ t \in Nat /\ Unit \in Nat
      BY ShadowAuditAssumption DEF TypeOK
<1>3. carry[r] + w \in Nat
      BY <1>2
<1>4. Rest(r, w) \in 0..(Unit - 1) /\ carry[r] + w - Rest(r, w) \in Nat
  <2> DEFINE x == carry[r] + w
  <2>1. Rest(r, w) = x % Unit
        BY DEF Rest
  <2>2. x \in Nat
        BY <1>3
  <2> HIDE DEF x
  <2>3. x % Unit \in 0..(Unit - 1) /\ x - (x % Unit) \in Nat
        BY <2>2, RestFacts
  <2>4. x - Rest(r, w) \in Nat /\ Rest(r, w) \in 0..(Unit - 1)
        BY <2>1, <2>3
  <2>5. carry[r] \in Int /\ w \in Int /\ Rest(r, w) \in Int
        BY <1>2, <2>4
  <2>6. carry[r] + w - Rest(r, w) = x - Rest(r, w)
        BY <2>5 DEF x
  <2> QED
      BY <2>4, <2>6
<1>5. NewCredit(i, r, w, t) \in Credit /\ NewShare(i, r, w, t) \in Share
      BY <1>2, <1>4 DEF NewCredit, NewShare, Credit, Share
<1>6. ASSUME NEW c \in Credit PROVE Entry(c) \subseteq Change
      BY DEF Entry, Credit, Change
<1>7. db' \in Tables
      BY <1>1, <1>5, <1>6 DEF TypeOK, Tables
<1> QED
    BY <1>1, <1>4, <1>7 DEF TypeOK

LEMMA DamageTypes ==
  ASSUME TypeOK, Damage
  PROVE  db' \in Tables
<1>0. /\ db.shares \subseteq Share /\ db.credits \subseteq Credit
      /\ db.changes \subseteq Change /\ db = [shares |-> db.shares, credits |-> db.credits,
                                              changes |-> db.changes]
      BY DEF TypeOK, Tables
<1>1. ASSUME NEW x \in Change
      PROVE  /\ [x EXCEPT !.tag = None] \in Change
             /\ \A t \in Nat : Repeated(x, t) \in Change
             /\ \A v \in Nat : [x EXCEPT !.amount = v] \in Change
      BY DEF Change, Repeated
<1>2. ASSUME NEW ledger \in DamagedLedgers PROVE ledger \subseteq Change
  <2>0. PICK x \in db.changes : ledger \in DamagedEntry(x)
        BY DEF DamagedLedgers
  <2>1. CASE ledger \in {db.changes \ {x}, Replaced(db.changes, x, [x EXCEPT !.tag = None])}
        BY <2>1, <1>0, <1>1 DEF Replaced
  <2>2. CASE ledger \in {db.changes \union {Repeated(x, t)} : t \in 0..MaxTime}
    <3>1. PICK t \in 0..MaxTime : ledger = db.changes \union {Repeated(x, t)}
          BY <2>2
    <3>2. t \in Nat /\ x \in Change
          BY <1>0
    <3> QED
        BY <1>0, <1>1, <3>1, <3>2
  <2>3. CASE ledger \in {Replaced(db.changes, x, [x EXCEPT !.amount = v]) : v \in Near(x.amount)}
    <3>1. PICK v \in Near(x.amount) : ledger = Replaced(db.changes, x, [x EXCEPT !.amount = v])
          BY <2>3
    <3>2. [x EXCEPT !.amount = v] \in Change
          BY <1>0, <1>1, <3>1 DEF Near
    <3> QED
        BY <1>0, <3>1, <3>2 DEF Replaced
  <2> QED
      BY <2>0, <2>1, <2>2, <2>3 DEF DamagedEntry
<1>3. ASSUME NEW c \in db.credits, NEW by \in Repayments(c), NEW ledger \in Ledgers(by)
      PROVE  by \in Credit /\ ledger \subseteq Change
  <2>1. by \in Credit
        BY <1>0 DEF Repayments, Repaid, Near, Credit
  <2>2. Entry(by) \subseteq Change
        BY <2>1 DEF Entry, Credit, Change
  <2> QED
      BY <1>0, <2>1, <2>2 DEF Ledgers
<1>4. CASE \E s \in db.shares : db' = [db EXCEPT !.shares = @ \ {s}]
      BY <1>0, <1>4 DEF Tables
<1>5. CASE \E c \in db.credits : db' = [db EXCEPT !.credits = @ \ {c}]
      BY <1>0, <1>5 DEF Tables
<1>6. CASE \E ledger \in DamagedLedgers : db' = [db EXCEPT !.changes = ledger]
      BY <1>0, <1>2, <1>6 DEF Tables
<1>7. ASSUME NEW c \in db.credits, NEW by \in Repayments(c), NEW ledger \in Ledgers(by),
             db' = [db EXCEPT !.credits = Replaced(@, c, by), !.changes = ledger]
      PROVE  db' \in Tables
      BY <1>0, <1>3, <1>7 DEF Tables, Replaced
<1> QED
    BY <1>4, <1>5, <1>6, <1>7, DamageForms

LEMMA TypesStep ==
  ASSUME TypeOK, ReplayInv, ReplayInv', [Next]_vars
  PROVE  TypeOK'
<1> DEFINE Bounds == \A r \in Recipients :
                       LET i == interval[r]
                       IN /\ 0 <= i.lower /\ -i.prefix <= i.lower
                          /\ i.upper <= Unit /\ i.upper <= Unit - i.prefix
<1>0. Bounds'
      BY DEF ReplayInv, BoundsInv, Bounded
<1>1. CASE CreditShare
      BY <1>0, <1>1, CreditShareTypes DEF TypeOK, CreditShare, export, report
<1>2. CASE Damage
      BY <1>0, <1>2, DamageTypes DEF TypeOK, Damage, export, report
<1>3. CASE Begin
      BY <1>0, <1>3 DEF TypeOK, Begin, source, report
<1>4. CASE ReadShares
  <2>1. out' \in Tables
        BY <1>4 DEF ReadShares, Visible, TypeOK, Tables
  <2> QED
      BY <1>0, <1>4, <2>1 DEF TypeOK, ReadShares, source, report
<1>5. CASE ReadCredits
  <2>1. out' \in Tables
        BY <1>5 DEF ReadCredits, Visible, TypeOK, Tables
  <2> QED
      BY <1>0, <1>5, <2>1 DEF TypeOK, ReadCredits, source, report
<1>6. CASE ReadChanges
  <2>1. out' \in Tables
        BY <1>6 DEF ReadChanges, Visible, TypeOK, Tables
  <2> QED
      BY <1>0, <1>6, <2>1 DEF TypeOK, ReadChanges, source, report
<1>7. CASE Compare
  <2>1. carried' \subseteq Credit
        BY <1>7 DEF Compare, Pairs, TypeOK, Tables
  <2>2. checked' \subseteq carried'
        BY <1>7 DEF Compare, ReplayInv, BoundsInv
  <2> QED
      BY <1>0, <1>7, <2>1, <2>2 DEF TypeOK, Compare, source
<1>8. CASE CheckCarry
  <2>1. PICK r \in Recipients : \E c \in First(ToCheck(r)) :
          /\ interval' = [interval EXCEPT ![r] = Narrowed(@, c)]
          /\ checked' = checked \union {c}
        BY <1>8 DEF CheckCarry
  <2>2. PICK c \in First(ToCheck(r)) :
          /\ interval' = [interval EXCEPT ![r] = Narrowed(@, c)]
          /\ checked' = checked \union {c}
        BY <2>1
  <2>3. c \in carried /\ carried' = carried
        BY <1>8 DEF CheckCarry, First, ToCheck
  <2>4. interval'[r] = Narrowed(interval[r], c)
        BY <2>2 DEF ReplayInv, BoundsInv
  <2>5. Bounded(interval'[r])
        BY DEF ReplayInv, BoundsInv
  <2>6. interval'[r] \in [prefix : Int, lower : Int, upper : Int]
    <3> DEFINE n == Narrowed(interval[r], c)
    <3>1. n.prefix \in Int /\ n.lower \in Int /\ n.upper \in Int
          BY <2>4, <2>5 DEF Bounded
    <3>2. n = [prefix |-> n.prefix, lower |-> n.lower, upper |-> n.upper]
          BY DEF Narrowed
    <3> HIDE DEF n
    <3>3. n \in [prefix : Int, lower : Int, upper : Int]
          BY <3>1, <3>2
    <3> QED
        BY <2>4, <3>3 DEF n
  <2>7. interval' \in [Recipients -> [prefix : Int, lower : Int, upper : Int]]
        BY <2>2, <2>4, <2>6 DEF TypeOK
  <2>8. checked' \in SUBSET carried'
        BY <2>2, <2>3 DEF TypeOK
  <2> QED
      BY <1>0, <1>8, <2>3, <2>7, <2>8 DEF TypeOK, CheckCarry, export, source
<1>9. CASE Report
      BY <1>0, <1>9 DEF TypeOK, Report, source, report
<1>10. CASE UNCHANGED vars
      BY <1>10 DEF TypeOK, vars, source, export, report
<1> QED
    BY <1>1, <1>2, <1>3, <1>4, <1>5, <1>6, <1>7, <1>8, <1>9, <1>10 DEF Next

-------------------------------------------------------------------------------
(* The refinement                                                          *)

Left(i) == {open + i.prefix : open \in i.lower..(i.upper - 1)}

\* One credit: the remainders left of a narrowed interval are those the rule of
\* Miningcore's credits reaches from the remainders before.
LEMMA NarrowedReplays ==
  ASSUME NEW i, NEW c, Bounded(i), Replayable(c)
  PROVE  Left(Narrowed(i, c)) =
           {y \in 0..(Unit - 1) : \E x \in Left(i) : y = x + c.calculated - c.credited}
<1> DEFINE n == Narrowed(i, c)
           paid == c.calculated - c.credited
           reached == {y \in 0..(Unit - 1) :
                         \E x \in Left(i) : y = x + c.calculated - c.credited}
<1>1. /\ i.prefix \in Int /\ i.lower \in Int /\ i.upper \in Int
      /\ c.calculated \in Int /\ c.credited \in Int
      BY DEF Bounded, Replayable
<1>2. /\ n.prefix = i.prefix + c.calculated - c.credited
      /\ \A open \in Int :
           open \in n.lower..(n.upper - 1)
             <=> open \in i.lower..(i.upper - 1) /\ open + n.prefix \in 0..(Unit - 1)
      BY NarrowedBounded
<1>3. n.lower \in Int /\ n.upper \in Int
      BY NarrowedBounded DEF Bounded
<1>4. ASSUME NEW y \in Left(n) PROVE y \in reached
  <2>1. PICK open \in n.lower..(n.upper - 1) : y = open + n.prefix
        BY DEF Left
  <2>2. open \in Int
        BY <2>1, <1>3
  <2>3. open \in i.lower..(i.upper - 1) /\ y \in 0..(Unit - 1)
        BY <2>1, <2>2, <1>2
  <2>4. open + i.prefix \in Left(i)
        BY <2>3 DEF Left
  <2>5. y = (open + i.prefix) + c.calculated - c.credited
        BY <2>1, <2>2, <1>1, <1>2
  <2> QED
      BY <2>3, <2>4, <2>5
<1>5. ASSUME NEW y \in reached PROVE y \in Left(n)
  <2>1. PICK x \in Left(i) : y = x + c.calculated - c.credited
        OBVIOUS
  <2>2. PICK open \in i.lower..(i.upper - 1) : x = open + i.prefix
        BY DEF Left
  <2>3. open \in Int
        BY <2>2, <1>1
  <2>4. y = open + n.prefix
        BY <2>1, <2>2, <2>3, <1>1, <1>2
  <2>5. open \in n.lower..(n.upper - 1)
        BY <2>2, <2>3, <2>4, <1>2
  <2> QED
      BY <2>4, <2>5 DEF Left
<1> QED
    BY <1>4, <1>5

LEMMA RemaindersLeft == Remainders = [r \in Recipients |-> Left(interval[r])]
BY DEF Remainders, Left

LEMMA ReplayInit == Init => Replayed!Init
<1> SUFFICES ASSUME Init PROVE Replayed!Init
    OBVIOUS
<1>1. ASSUME NEW r \in Recipients PROVE Left(interval[r]) = 0..(Unit - 1)
  <2>1. interval[r] = [prefix |-> 0, lower |-> 0, upper |-> Unit]
        BY DEF Init
  <2>2. Left(interval[r]) = {open + 0 : open \in 0..(Unit - 1)}
        BY <2>1 DEF Left
  <2>3. \A open \in 0..(Unit - 1) : open + 0 = open
        OBVIOUS
  <2> QED
      BY <2>2, <2>3
<1>2. Remainders = [r \in Recipients |-> 0..(Unit - 1)]
      BY <1>1, RemaindersLeft
<1> QED
    BY <1>2 DEF Init, Replayed!Init, Replayed!Remainder

LEMMA CheckCarryReplays ==
  ASSUME ReplayInv, CheckCarry
  PROVE  Replayed!Replay
<1>1. PICK r \in Recipients : \E c \in First(ToCheck(r)) :
        /\ interval' = [interval EXCEPT ![r] = Narrowed(@, c)]
        /\ checked' = checked \union {c}
      BY DEF CheckCarry
<1>2. PICK c \in First(ToCheck(r)) :
        /\ interval' = [interval EXCEPT ![r] = Narrowed(@, c)]
        /\ checked' = checked \union {c}
      BY <1>1
<1>3. c \in carried \ checked /\ c.address = r /\ Replayable(c)
      BY DEF First, ToCheck, ReplayInv, CreditsReplayable
<1>4. Bounded(interval[r]) /\ DOMAIN interval = Recipients
      BY DEF ReplayInv, BoundsInv
<1>5. Remainders' = [q \in Recipients |-> Left(interval'[q])]
  <2> SUFFICES Remainders' = [q \in Recipients |-> Left(interval[q])]'
      BY DEF Left
  <2> QED
      BY RemaindersLeft DEF Remainders, Left
<1>6. interval'[r] = Narrowed(interval[r], c)
      BY <1>2, <1>4
<1>7. \A q \in Recipients : q # r => interval'[q] = interval[q]
      BY <1>2, <1>4
<1>8. Left(interval'[r]) = {y \in 0..(Unit - 1) :
                              \E x \in Remainders[r] : y = x + c.calculated - c.credited}
      BY <1>3, <1>4, <1>6, NarrowedReplays, RemaindersLeft
<1>9. Remainders' = [Remainders EXCEPT ![r] =
                       {y \in 0..(Unit - 1) :
                          \E x \in @ : y = x + c.calculated - c.credited}]
      BY <1>5, <1>7, <1>8, RemaindersLeft
<1> QED
    BY <1>2, <1>3, <1>9 DEF Replayed!Replay, Replayed!Remainder, CheckCarry

LEMMA ReplayStep == ReplayInv /\ ReplayInv' /\ [Next]_vars => [Replayed!Next]_(Replayed!vars)
<1> SUFFICES ASSUME ReplayInv, ReplayInv', [Next]_vars
             PROVE  [Replayed!Next]_(Replayed!vars)
    OBVIOUS
<1>1. CASE UNCHANGED <<carried, checked, interval>>
      BY <1>1 DEF Replayed!vars, Remainders
<1>2. CASE Compare
  <2>1. carried = {} /\ checked = {} /\ UNCHANGED <<checked, interval>>
        BY <1>2 DEF Compare, ReplayInv, BoundsInv
  <2>2. Remainders' = Remainders
        BY <2>1 DEF Remainders
  <2>3. \A c \in carried' : c.address \in Recipients
        BY DEF ReplayInv, CreditsReplayable, Replayable
  <2> QED
      BY <2>1, <2>2, <2>3 DEF Replayed!Next, Replayed!Load
<1>3. CASE CheckCarry
      BY <1>3, CheckCarryReplays DEF Replayed!Next
<1> QED
    BY <1>1, <1>2, <1>3 DEF Next, vars, source, export, report, CreditShare, Damage, Begin,
       ReadShares, ReadCredits, ReadChanges, Report

\* The variables keep their types, and a recipient's interval stays inside one unit.
THEOREM TypeCorrect == Spec => []TypeOK
<1>1. Spec => []ReplayInv
      BY ReplayInvInit, ReplayInvStep, PTL DEF Spec
<1> QED
    BY <1>1, TypesInit, TypesStep, PTL DEF Spec

\* The carry loop of compare implements the replay of every opening remainder, for
\* every unit, set of recipients and history of credits the export may hold.
THEOREM CarryImplementsReplay == Spec => ImplementsReplay
<1>1. Spec => []ReplayInv
      BY ReplayInvInit, ReplayInvStep, PTL DEF Spec
<1> QED
    BY <1>1, ReplayInit, ReplayStep, PTL DEF Spec, ImplementsReplay, Replayed!Spec

-------------------------------------------------------------------------------
(* The rows of the export                                                  *)

\* Tables have finitely many rows, a share and a credit are one row each.
Keyed(t) ==
  /\ IsFiniteSet(t.shares) /\ IsFiniteSet(t.credits) /\ IsFiniteSet(t.changes)
  /\ \A s, u \in t.shares : s.id = u.id => s = u
  /\ \A c, d \in t.credits : c.id = d.id => c = d

\* Tables as Miningcore writes them: a share, its credit and its entry together.
AsWritten(t) ==
  /\ t.shares = {NewShare(c.id, c.address, c.worth, c.created) : c \in t.credits}
  /\ t.changes = UNION {Entry(c) : c \in t.credits}
  /\ \A c \in t.credits : c.calculated = c.worth

\* What was read is what the snapshot has of the interval, and of the entries what
\* is tagged on it.
ExportInv ==
  /\ Keyed(db) /\ Keyed(view)
  /\ damage = 0 => AsWritten(db) /\ AsWritten(view)
  /\ phase \notin {"new", "shares"} => out.shares = {s \in view.shares : InInterval(s)}
  /\ phase \notin {"new", "shares", "credits", "refused"} =>
       out.credits = {c \in view.credits : InInterval(c)}
  /\ phase \in {"compare", "carry", "report"} =>
       out.changes = {x \in view.changes : InInterval(x) \/ x.tag \in Tags}

\* Damage leaves the keys of the rows alone.
LEMMA DamageKeyed ==
  ASSUME TypeOK, Keyed(db), Damage
  PROVE  Keyed(db')
<1>0. /\ db = [shares |-> db.shares, credits |-> db.credits, changes |-> db.changes]
      /\ db.credits \subseteq Credit
      BY DEF TypeOK, Tables
<1>1. ASSUME NEW ledger, NEW more, IsFiniteSet(more), ledger \subseteq db.changes \union more
      PROVE  IsFiniteSet(ledger)
  <2>1. IsFiniteSet(db.changes \union more)
        BY <1>1, FS_Union DEF Keyed
  <2> QED
      BY <1>1, <2>1, FS_Subset
<1>2. CASE \E s \in db.shares : db' = [db EXCEPT !.shares = @ \ {s}]
  <2>1. PICK s \in db.shares : db' = [db EXCEPT !.shares = @ \ {s}]
        BY <1>2
  <2>2. /\ db'.shares \subseteq db.shares
        /\ db'.credits = db.credits /\ db'.changes = db.changes
        BY <1>0, <2>1
  <2>3. IsFiniteSet(db'.shares)
        BY <2>2, FS_Subset DEF Keyed
  <2> QED
      BY <2>2, <2>3 DEF Keyed
<1>3. CASE \E c \in db.credits : db' = [db EXCEPT !.credits = @ \ {c}]
  <2>1. PICK c \in db.credits : db' = [db EXCEPT !.credits = @ \ {c}]
        BY <1>3
  <2>2. /\ db'.credits \subseteq db.credits
        /\ db'.shares = db.shares /\ db'.changes = db.changes
        BY <1>0, <2>1
  <2>3. IsFiniteSet(db'.credits)
        BY <2>2, FS_Subset DEF Keyed
  <2> QED
      BY <2>2, <2>3 DEF Keyed
<1>4. CASE \E ledger \in DamagedLedgers : db' = [db EXCEPT !.changes = ledger]
  <2>1. PICK ledger \in DamagedLedgers : db' = [db EXCEPT !.changes = ledger]
        BY <1>4
  <2>2. \E more : IsFiniteSet(more) /\ ledger \subseteq db.changes \union more
    <3>0. PICK x \in db.changes : ledger \in DamagedEntry(x)
          BY <2>1 DEF DamagedLedgers
    <3>1. ASSUME NEW more, ledger \subseteq db.changes \union {more}
          PROVE  \E s : IsFiniteSet(s) /\ ledger \subseteq db.changes \union s
          BY <3>1, FS_Singleton
    <3>2. CASE ledger \in {db.changes \ {x}, Replaced(db.changes, x, [x EXCEPT !.tag = None])}
          BY <3>1, <3>2 DEF Replaced
    <3>3. CASE ledger \in {db.changes \union {Repeated(x, t)} : t \in 0..MaxTime}
          BY <3>1, <3>3
    <3>4. CASE ledger \in {Replaced(db.changes, x, [x EXCEPT !.amount = v]) :
                             v \in Near(x.amount)}
          BY <3>1, <3>4 DEF Replaced
    <3> QED
        BY <3>0, <3>2, <3>3, <3>4 DEF DamagedEntry
  <2>3. IsFiniteSet(ledger)
        BY <2>2, <1>1
  <2>4. db'.shares = db.shares /\ db'.credits = db.credits /\ db'.changes = ledger
        BY <1>0, <2>1
  <2> QED
      BY <2>3, <2>4 DEF Keyed
<1>5. CASE \E c \in db.credits : \E by \in Repayments(c) : \E ledger \in Ledgers(by) :
             db' = [db EXCEPT !.credits = Replaced(@, c, by), !.changes = ledger]
  <2>0. PICK c \in db.credits : \E by \in Repayments(c) : \E ledger \in Ledgers(by) :
          db' = [db EXCEPT !.credits = Replaced(@, c, by), !.changes = ledger]
        BY <1>5
  <2>a. PICK by \in Repayments(c) : \E ledger \in Ledgers(by) :
          db' = [db EXCEPT !.credits = Replaced(@, c, by), !.changes = ledger]
        BY <2>0
  <2>1. PICK ledger \in Ledgers(by) :
          db' = [db EXCEPT !.credits = Replaced(@, c, by), !.changes = ledger]
        BY <2>a
  <2>2. IsFiniteSet(Entry(by))
        BY FS_EmptySet, FS_Singleton DEF Entry
  <2>3. ledger \subseteq db.changes \union Entry(by)
        BY DEF Ledgers
  <2>4. IsFiniteSet(ledger)
        BY <2>2, <2>3, <1>1
  <2>5. by.id = c.id
        BY <1>0, <2>1 DEF Repayments, Repaid, Credit
  <2>6. /\ db'.credits = (db.credits \ {c}) \union {by}
        /\ db'.shares = db.shares /\ db'.changes = ledger
        BY <1>0, <2>1 DEF Replaced
  <2>7. IsFiniteSet(db'.credits)
    <3>1. IsFiniteSet(db.credits \ {c})
          BY FS_Subset DEF Keyed
    <3>2. IsFiniteSet((db.credits \ {c}) \union {by})
          BY <3>1, FS_Singleton, FS_Union
    <3> QED
        BY <2>6, <3>2
  <2> QED
      BY <2>4, <2>5, <2>6, <2>7 DEF Keyed
<1> QED
    BY <1>2, <1>3, <1>4, <1>5, DamageForms

\* Crediting a share keeps the keys and writes all that belongs together.
LEMMA CreditShareKeyed ==
  ASSUME TypeOK, Keyed(db), AsWritten(db), CreditShare
  PROVE  Keyed(db') /\ AsWritten(db')
<1>1. PICK i \in Ids \ Known, r \in Recipients, w \in Worths, t \in 0..MaxTime :
        db' = [shares |-> db.shares \union {NewShare(i, r, w, t)},
               credits |-> db.credits \union {NewCredit(i, r, w, t)},
               changes |-> db.changes \union Entry(NewCredit(i, r, w, t))]
      BY DEF CreditShare
<1> DEFINE c == NewCredit(i, r, w, t)
           s == NewShare(i, r, w, t)
<1>2. /\ c.id = i /\ c.address = r /\ c.worth = w /\ c.created = t /\ c.calculated = w
      /\ s.id = i /\ s = NewShare(c.id, c.address, c.worth, c.created)
      BY DEF NewCredit, NewShare
<1>3. \A d \in db.credits : d.id # i
      BY DEF Known
<1>4. \A u \in db.shares : u.id # i
      BY <1>3 DEF AsWritten, NewShare
<1>5. /\ db'.shares = db.shares \union {s} /\ db'.credits = db.credits \union {c}
      /\ db'.changes = db.changes \union Entry(c)
      BY <1>1
<1> HIDE DEF c, s
<1>6. IsFiniteSet(Entry(c))
      BY FS_EmptySet, FS_Singleton DEF Entry
<1>7. IsFiniteSet(db'.shares) /\ IsFiniteSet(db'.credits) /\ IsFiniteSet(db'.changes)
  <2>1. IsFiniteSet(db.shares) /\ IsFiniteSet(db.credits) /\ IsFiniteSet(db.changes)
        BY DEF Keyed
  <2>2. /\ IsFiniteSet(db.shares \union {s}) /\ IsFiniteSet(db.credits \union {c})
        /\ IsFiniteSet(db.changes \union Entry(c))
        BY <1>6, <2>1, FS_Singleton, FS_Union
  <2> QED
      BY <1>5, <2>2
<1>8. Keyed(db')
      BY <1>2, <1>3, <1>4, <1>5, <1>7 DEF Keyed
<1>9. AsWritten(db')
  <2>1. db'.shares = {NewShare(d.id, d.address, d.worth, d.created) : d \in db'.credits}
        BY <1>2, <1>5 DEF AsWritten
  <2>2. db'.changes = UNION {Entry(d) : d \in db'.credits}
    <3>1. db.changes = UNION {Entry(d) : d \in db.credits}
          BY DEF AsWritten
    <3> QED
        BY <1>5, <3>1
  <2>3. \A d \in db'.credits : d.calculated = d.worth
        BY <1>2, <1>5 DEF AsWritten
  <2> QED
      BY <2>1, <2>2, <2>3 DEF AsWritten
<1> QED
    BY <1>8, <1>9

LEMMA ExportInit == Init => ExportInv
<1> SUFFICES ASSUME Init PROVE ExportInv
    OBVIOUS
<1>1. Keyed(Empty) /\ AsWritten(Empty)
      BY FS_EmptySet DEF Keyed, AsWritten, Empty
<1> QED
    BY <1>1 DEF Init, ExportInv

\* The snapshot does not move, and each table is read from it once.
LEMMA ExportInvStep == TypeOK /\ ExportInv /\ [Next]_vars => ExportInv'
<1> SUFFICES ASSUME TypeOK, ExportInv, [Next]_vars PROVE ExportInv'
    OBVIOUS
<1>0. ASSUME NEW row PROVE InInterval(row)' = InInterval(row)
      BY DEF InInterval
<1>t. out = [shares |-> out.shares, credits |-> out.credits, changes |-> out.changes]
      BY DEF TypeOK, Tables
<1>1. CASE CreditShare
      BY <1>1, CreditShareKeyed DEF ExportInv, CreditShare, export, report, Tags
<1>2. CASE Damage
  <2>1. Keyed(db') /\ phase' = "new" /\ damage' # 0 /\ view' = view
        BY <1>2, DamageKeyed DEF ExportInv, Damage, export, TypeOK
  <2> QED
      BY <2>1 DEF ExportInv
<1>3. CASE Begin
      BY <1>3 DEF ExportInv, Begin, source
<1>4. CASE ReadShares
  <2>1. out'.shares = {s \in view.shares : InInterval(s)}
        BY <1>4, <1>t DEF ReadShares, Visible
  <2> QED
      BY <1>4, <2>1 DEF ExportInv, ReadShares, source
<1>5. CASE ReadCredits
  <2>1. out'.credits = {c \in view.credits : InInterval(c)} /\ out'.shares = out.shares
        BY <1>5, <1>t DEF ReadCredits, Visible
  <2> QED
      BY <1>5, <2>1 DEF ExportInv, ReadCredits, source
<1>6. CASE ReadChanges
  <2>1. /\ out'.changes = {x \in view.changes : InInterval(x) \/ x.tag \in Tags}
        /\ out'.shares = out.shares /\ out'.credits = out.credits
        BY <1>6, <1>t DEF ReadChanges, Visible, Found
  <2>2. Tags' = Tags
        BY <2>1 DEF Tags
  <2> QED
      BY <1>6, <2>1, <2>2 DEF ExportInv, ReadChanges, source
<1>7. CASE Compare
      BY <1>7 DEF ExportInv, Compare, source, Tags
<1>8. CASE CheckCarry
      BY <1>8 DEF ExportInv, CheckCarry, source, export, Tags
<1>9. CASE Report
      BY <1>9 DEF ExportInv, Report, source, report, Tags
<1>10. CASE UNCHANGED vars
      BY <1>10 DEF ExportInv, vars, source, export, Tags
<1> QED
    BY <1>1, <1>2, <1>3, <1>4, <1>5, <1>6, <1>7, <1>8, <1>9, <1>10 DEF Next

-------------------------------------------------------------------------------
(* What Miningcore writes has no differences                               *)

\* Whole units are paid.
Whole(amount) == \E q \in Int : amount = q * Unit

\* A history of credits: the remainder before each is below a unit, it leaves one,
\* and the next credit of the recipient is taken from that.
After(before, c) == before[c] + c.calculated - c.credited
Follows(rows, c, d) ==
  /\ c.address = d.address /\ Before(c, d)
  /\ \A e \in rows : e.address = c.address /\ Before(c, e) => ~ Before(e, d)

History(rows, before) ==
  /\ before \in [rows -> 0..(Unit - 1)]
  /\ \A c \in rows : After(before, c) \in 0..(Unit - 1) /\ Whole(c.credited)
  /\ \A c, d \in rows : Follows(rows, c, d) => before[d] = After(before, c)

\* The last credit of a recipient left the rest that is carried for it.
Closes(rows, before, rest) ==
  \A c \in rows :
    (\A e \in rows : e.address = c.address => e = c \/ Before(e, c))
      => rest[c.address] = After(before, c)

\* Credits are read in a total order.
LEMMA BeforeOrders ==
  ASSUME NEW c \in Credit, NEW d \in Credit, NEW e \in Credit
  PROVE  /\ ~ Before(c, c)
         /\ Before(c, d) => ~ Before(d, c)
         /\ Before(c, d) /\ Before(d, e) => Before(c, e)
         /\ c.id # d.id => Before(c, d) \/ Before(d, c)
<1>1. /\ c.id \in Nat /\ d.id \in Nat /\ e.id \in Nat
      /\ c.created \in Nat /\ d.created \in Nat /\ e.created \in Nat
      BY DEF Credit
<1> QED
    BY <1>1 DEF Before

\* A number is a multiple of the unit and what remains.
LEMMA Units ==
  ASSUME NEW x \in Nat
  PROVE  /\ x % Unit \in 0..(Unit - 1) /\ x \div Unit \in Nat
         /\ x = (x \div Unit) * Unit + (x % Unit)
BY ShadowAuditAssumption

\* A new credit is taken from what is carried, so it extends the history.
LEMMA CreditShareHistory ==
  ASSUME TypeOK, Keyed(db), CreditShare,
         NEW before, History(db.credits, before), Closes(db.credits, before, carry)
  PROVE  \E after : History(db'.credits, after) /\ Closes(db'.credits, after, carry')
<1>1. PICK i \in Ids \ Known, r \in Recipients, w \in Worths, t \in 0..MaxTime :
        /\ InOrder(NewCredit(i, r, w, t))
        /\ carry' = [carry EXCEPT ![r] = Rest(r, w)]
        /\ db' = [shares |-> db.shares \union {NewShare(i, r, w, t)},
                  credits |-> db.credits \union {NewCredit(i, r, w, t)},
                  changes |-> db.changes \union Entry(NewCredit(i, r, w, t))]
      BY DEF CreditShare
<1> DEFINE c == NewCredit(i, r, w, t)
<1>2. /\ Unit \in Nat \ {0} /\ i \in Nat /\ w \in Nat /\ t \in Nat
      /\ carry[r] \in 0..(Unit - 1) /\ carry[r] + w \in Nat
      BY ShadowAuditAssumption DEF TypeOK
<1>3. /\ c.id = i /\ c.address = r /\ c.calculated = w /\ c.created = t
      /\ c.credited = carry[r] + w - Rest(r, w)
      BY DEF NewCredit
<1>4. Rest(r, w) \in 0..(Unit - 1) /\ c.credited \in Nat /\ Whole(c.credited)
  <2>1. /\ Rest(r, w) \in 0..(Unit - 1) /\ (carry[r] + w) \div Unit \in Nat
        /\ carry[r] + w = ((carry[r] + w) \div Unit) * Unit + Rest(r, w)
        BY <1>2, Units DEF Rest
  <2>3. ((carry[r] + w) \div Unit) * Unit \in Nat
        BY <1>2, <2>1
  <2> DEFINE paid == ((carry[r] + w) \div Unit) * Unit
  <2>4. paid \in Nat /\ carry[r] + w = paid + Rest(r, w)
        BY <2>1, <2>3
  <2> HIDE DEF paid
  <2>5. c.credited = paid
        BY <1>2, <1>3, <2>1, <2>4
  <2>2. c.credited = ((carry[r] + w) \div Unit) * Unit
        BY <2>5 DEF paid
  <2> QED
      BY <2>1, <2>2, <2>3 DEF Whole
<1>5. c \in Credit /\ db.credits \subseteq Credit
      BY <1>2, <1>3, <1>4 DEF NewCredit, Credit, TypeOK, Tables
<1>6. c \notin db.credits
      BY <1>3 DEF Known
<1>7. /\ db'.credits = db.credits \union {c}
      /\ carry' = [carry EXCEPT ![r] = Rest(r, w)]
      /\ \A d \in db.credits : d.address = r => Before(d, c)
      BY <1>1, <1>3 DEF InOrder
<1> HIDE DEF c
<1> DEFINE after == [d \in db'.credits |-> IF d = c THEN carry[r] ELSE before[d]]
<1>8. /\ after[c] = carry[r] /\ After(after, c) = Rest(r, w)
      /\ \A d \in db.credits : after[d] = before[d] /\ After(after, d) = After(before, d)
  <2>1. after[c] = carry[r] /\ \A d \in db.credits : after[d] = before[d]
        BY <1>6, <1>7
  <2> HIDE DEF after
  <2>2. carry[r] + w - (carry[r] + w - Rest(r, w)) = Rest(r, w)
        BY <1>2, <1>4
  <2> QED
      BY <2>1, <2>2, <1>3 DEF After
<1>9. after \in [db'.credits -> 0..(Unit - 1)]
      BY <1>2, <1>7 DEF History
<1> HIDE DEF after
<1>10. \A d \in db'.credits : After(after, d) \in 0..(Unit - 1) /\ Whole(d.credited)
       BY <1>4, <1>7, <1>8 DEF History
<1>11. ASSUME NEW d \in db'.credits, NEW e \in db'.credits, Follows(db'.credits, d, e)
       PROVE  after[e] = After(after, d)
  <2>1. CASE d \in db.credits /\ e \in db.credits
    <3>1. Follows(db.credits, d, e)
          BY <1>7, <1>11 DEF Follows
    <3> QED
        BY <2>1, <3>1, <1>8 DEF History
  <2>2. CASE d \in db.credits /\ e = c
    <3>1. d.address = r
          BY <2>2, <1>3, <1>11 DEF Follows
    <3>2. ASSUME NEW f \in db.credits, f.address = d.address, f # d PROVE Before(f, d)
      <4>1. Before(f, c) /\ f \in db'.credits
            BY <1>7, <3>1, <3>2
      <4>2. ~ Before(d, f)
            BY <1>11, <2>2, <3>2, <4>1 DEF Follows
      <4>3. f.id # d.id
            BY <2>2, <3>2 DEF Keyed
      <4> QED
          BY <4>2, <4>3, <1>5, <2>2, BeforeOrders
    <3>3. carry[r] = After(before, d)
          BY <2>2, <3>1, <3>2 DEF Closes
    <3> QED
        BY <2>2, <3>3, <1>8
  <2>3. CASE d = c
    <3>1. Before(c, e) /\ e.address = r
          BY <2>3, <1>3, <1>11 DEF Follows
    <3>2. e # c
          BY <3>1, <1>5, BeforeOrders
    <3>3. e \in db.credits /\ Before(e, c)
          BY <3>1, <3>2, <1>7
    <3> QED
        BY <3>1, <3>3, <1>5, BeforeOrders
  <2> QED
      BY <2>1, <2>2, <2>3, <1>7
<1>12. ASSUME NEW d \in db'.credits,
              \A e \in db'.credits : e.address = d.address => e = d \/ Before(e, d)
       PROVE  carry'[d.address] = After(after, d)
  <2>1. CASE d = c
        BY <2>1, <1>1, <1>3, <1>8 DEF TypeOK
  <2>2. CASE d \in db.credits
    <3>1. d.address # r
      <4> SUFFICES ASSUME d.address = r PROVE FALSE
          OBVIOUS
      <4>1. Before(d, c)
            BY <2>2, <1>7
      <4>2. c = d \/ Before(c, d)
            BY <1>12, <1>3, <1>7
      <4> QED
          BY <4>1, <4>2, <1>5, <1>6, <2>2, BeforeOrders
    <3>2. carry'[d.address] = carry[d.address]
          BY <3>1, <1>5, <1>7, <2>2 DEF TypeOK, Credit
    <3>3. \A e \in db.credits : e.address = d.address => e = d \/ Before(e, d)
          BY <1>7, <1>12
    <3> QED
        BY <2>2, <3>2, <3>3, <1>8 DEF Closes
  <2> QED
      BY <2>1, <2>2, <1>7
<1>13. History(db'.credits, after)
       BY <1>9, <1>10, <1>11 DEF History
<1>14. Closes(db'.credits, after, carry')
       BY <1>12 DEF Closes
<1> QED
    BY <1>13, <1>14

\* A multiple of the unit other than zero is at least one away from it.
LEMMA MultipleBound ==
  ASSUME NEW k \in Int, NEW U \in Nat \ {0}
  PROVE  /\ k >= 1 => k * U >= U
         /\ k <= -2 => k * U <= -2 * U
<1>1. k >= 1 => (k - 1) * U >= 0
      OBVIOUS
<1>2. k <= -2 => (-2 - k) * U >= 0
      OBVIOUS
<1>3. (k - 1) * U = k * U - U /\ (-2 - k) * U = -2 * U - k * U /\ k * U \in Int
      OBVIOUS
<1> QED
    BY <1>1, <1>2, <1>3

\* Whole units that leave a remainder below one are the amount rounded down or up.
LEMMA RoundedEitherWay ==
  ASSUME NEW a \in Nat, NEW k, Whole(k), NEW b \in 0..(Unit - 1), b + a - k \in 0..(Unit - 1)
  PROVE  k \in {Floor(a), Ceiling(a)}
<1>1. PICK q \in Int : k = q * Unit
      BY DEF Whole
<1> DEFINE m == a % Unit
           n == a \div Unit
<1>2. m \in 0..(Unit - 1) /\ n \in Nat /\ a = n * Unit + m /\ Unit \in Nat \ {0}
      BY Units, ShadowAuditAssumption
<1> HIDE DEF m, n
<1>3. n * Unit \in Int /\ q * Unit \in Int /\ (n - q) * Unit = n * Unit - q * Unit
      BY <1>2
<1>4. b + m + (n - q) * Unit \in 0..(Unit - 1)
      BY <1>1, <1>2, <1>3
<1>5. n - q \in {0, -1}
  <2>1. /\ n - q >= 1 => (n - q) * Unit >= Unit
        /\ n - q <= -2 => (n - q) * Unit <= -2 * Unit
        BY <1>2, MultipleBound
  <2>2. (n - q) * Unit \in Int
        BY <1>3
  <2>3. ~ (n - q >= 1) /\ ~ (n - q <= -2)
        BY <1>2, <1>4, <2>1, <2>2
  <2> QED
      BY <2>3, <1>2
<1>6. CASE n - q = 0
  <2>1. (n - q) * Unit = 0
        BY <1>6, <1>2
  <2>2. k = a - m
        BY <1>1, <1>2, <1>3, <2>1
  <2> QED
      BY <2>2 DEF Floor, m
<1>7. CASE n - q = -1
  <2>1. (n - q) * Unit = -Unit
        BY <1>7, <1>2
  <2>2. k = a - m + Unit
        BY <1>1, <1>2, <1>3, <2>1
  <2>3. m # 0
        BY <1>2, <1>4, <2>1
  <2> QED
      BY <2>2, <2>3 DEF Floor, Ceiling, m
<1> QED
    BY <1>5, <1>6, <1>7

\* Rows that Miningcore wrote pair up, and no check of a pair or of a row finds
\* anything.
LEMMA HonestRows ==
  ASSUME TypeOK, ExportInv, phase = "compare", damage = 0,
         NEW before, History(view.credits, before)
  PROVE  RowDifferences = {} /\ {p[2] : p \in Pairs} = out.credits
<1>1. /\ Keyed(view) /\ AsWritten(view)
      /\ out.shares = {s \in view.shares : InInterval(s)}
      /\ out.credits = {c \in view.credits : InInterval(c)}
      /\ out.changes = {x \in view.changes : InInterval(x) \/ x.tag \in Tags}
      BY DEF ExportInv
<1>2. view.credits \subseteq Credit /\ None \notin Nat
      BY ShadowAuditAssumption DEF TypeOK, Tables
<1> DEFINE Of1(c) == NewShare(c.id, c.address, c.worth, c.created)
<1>3. ASSUME NEW c \in view.credits
      PROVE  /\ Of1(c).id = c.id /\ Of1(c).miner = c.address /\ Of1(c).worth = c.worth
             /\ Of1(c).created = c.created /\ Of1(c) \in view.shares
             /\ (InInterval(Of1(c)) <=> InInterval(c))
  <2>1. Of1(c) \in view.shares
        BY <1>1 DEF AsWritten
  <2> QED
      BY <2>1 DEF NewShare, InInterval
<1>4. \A s \in view.shares : \E c \in view.credits : s = Of1(c)
      BY <1>1 DEF AsWritten
<1> HIDE DEF Of1
<1>5. \A c \in out.credits : Of1(c) \in out.shares
      BY <1>1, <1>3
<1>6. \A s \in out.shares : \E c \in out.credits : s = Of1(c)
      BY <1>1, <1>3, <1>4
<1>7. SharesKnown = CreditsKnown /\ Tags = CreditsKnown
  <2>1. SharesKnown \subseteq CreditsKnown
        BY <1>1, <1>3, <1>6 DEF SharesKnown, CreditsKnown
  <2>2. CreditsKnown \subseteq SharesKnown
    <3> SUFFICES ASSUME NEW c \in out.credits PROVE c.id \in SharesKnown
        BY DEF CreditsKnown
    <3>1. Of1(c) \in out.shares /\ Of1(c).id = c.id
          BY <1>1, <1>3, <1>5
    <3> QED
        BY <3>1 DEF SharesKnown
  <2> QED
      BY <2>1, <2>2 DEF Tags, SharesKnown, CreditsKnown
<1>8. ASSUME NEW p \in Pairs
      PROVE  p[2] \in out.credits /\ p[2] \in view.credits /\ p[1] = Of1(p[2])
  <2>1. p[1] \in out.shares /\ p[2] \in out.credits /\ p[1].id = p[2].id
        BY DEF Pairs
  <2>2. p[2] \in view.credits /\ p[1] \in view.shares
        BY <1>1, <2>1
  <2>3. Of1(p[2]).id = p[1].id /\ Of1(p[2]) \in view.shares
        BY <1>3, <2>1, <2>2
  <2> QED
      BY <1>1, <2>1, <2>2, <2>3 DEF Keyed
<1>9. {p[2] : p \in Pairs} = out.credits
  <2>1. ASSUME NEW c \in out.credits PROVE c \in {p[2] : p \in Pairs}
    <3> DEFINE p == <<Of1(c), c>>
    <3>1. p \in out.shares \X out.credits /\ p[1].id = p[2].id /\ p[2] = c
          BY <1>1, <1>3, <1>5
    <3> HIDE DEF p
    <3>2. p \in Pairs
          BY <3>1 DEF Pairs
    <3> QED
        BY <3>1, <3>2
  <2> QED
      BY <2>1, <1>8
<1>10. ASSUME NEW x \in view.changes
       PROVE  \E c \in view.credits : x \in Entry(c)
       BY <1>1 DEF AsWritten
<1>11. ASSUME NEW c, NEW x \in Entry(c)
       PROVE  /\ x.tag = c.id /\ x.address = c.address /\ x.amount = c.credited
              /\ x.created = c.created /\ (InInterval(x) <=> InInterval(c))
       BY DEF Entry, InInterval
<1>12. ASSUME NEW x \in out.changes PROVE x.tag # None /\ x.tag \in Tags
  <2>1. PICK c \in view.credits : x \in Entry(c)
        BY <1>1, <1>10
  <2>2. x.tag = c.id /\ x.tag \in Nat /\ (InInterval(x) <=> InInterval(c))
        BY <1>2, <1>11, <2>1 DEF Credit
  <2>3. InInterval(x) => x.tag \in Tags
        BY <1>1, <2>2 DEF Tags
  <2> QED
      BY <1>1, <1>2, <2>2, <2>3
<1>13. ASSUME NEW c \in out.credits PROVE Linked(c) = Entry(c)
  <2>1. c \in view.credits
        BY <1>1
  <2>2. ASSUME NEW x \in Linked(c) PROVE x \in Entry(c)
    <3>1. x \in view.changes /\ x.tag = c.id
          BY <1>1 DEF Linked
    <3>2. PICK d \in view.credits : x \in Entry(d)
          BY <1>10, <3>1
    <3>3. d.id = c.id
          BY <1>11, <3>1, <3>2
    <3> QED
        BY <1>1, <2>1, <3>2, <3>3 DEF Keyed
  <2>3. ASSUME NEW x \in Entry(c) PROVE x \in Linked(c)
    <3>1. x \in view.changes
          BY <1>1, <2>1 DEF AsWritten
    <3>2. x.tag = c.id /\ x.tag \in Tags
          BY <1>11 DEF Tags
    <3> QED
        BY <1>1, <3>1, <3>2 DEF Linked
  <2> QED
      BY <2>2, <2>3
<1>14. ASSUME NEW c \in out.credits
       PROVE  Cardinality(Linked(c)) = IF c.credited > 0 THEN 1 ELSE 0
  <2>1. c.credited \in Nat
        BY <1>1, <1>2 DEF Credit
  <2>2. CASE c.credited = 0
    <3>1. Linked(c) = {}
          BY <2>2, <1>13 DEF Entry
    <3>2. Cardinality(Linked(c)) = 0
          BY <3>1, FS_EmptySet
    <3> QED
        BY <2>2, <3>2
  <2>3. CASE c.credited # 0
    <3>1. \E x : Linked(c) = {x}
          BY <2>3, <1>13 DEF Entry
    <3>2. Cardinality(Linked(c)) = 1
          BY <3>1, FS_Singleton
    <3> QED
        BY <2>1, <2>3, <3>2
  <2> QED
      BY <2>2, <2>3
<1>15. ASSUME NEW c \in out.credits
       PROVE  c.credited \in {Floor(c.calculated), Ceiling(c.calculated)}
  <2>1. c \in view.credits /\ c.calculated \in Nat
        BY <1>1, <1>2 DEF Credit
  <2>2. before[c] \in 0..(Unit - 1) /\ before[c] + c.calculated - c.credited \in 0..(Unit - 1)
        BY <2>1 DEF History, After
  <2>3. Whole(c.credited)
        BY <2>1 DEF History
  <2> QED
      BY <2>1, <2>2, <2>3, RoundedEitherWay
<1>16. ASSUME NEW p \in Pairs PROVE PairDifferences(p[1], p[2]) = {}
  <2> DEFINE s == p[1]
             c == p[2]
  <2>1. /\ s.worth = c.worth /\ s.created = c.created /\ s.miner = c.address
        /\ c.calculated = c.worth /\ c \in out.credits
        BY <1>1, <1>3, <1>8 DEF AsWritten
  <2>2. \A x \in Linked(c) : x.address = c.address /\ x.created = c.created /\ x.amount = c.credited
        BY <1>11, <1>13, <2>1
  <2>3. /\ DOMAIN Wrong(s, c) = {"credit_source_mismatch", "calculated_liability_mismatch",
                "credited_amount_outside_precision_carry_bounds",
                "balance_credit_count_mismatch", "balance_credit_mismatch"}
        /\ Wrong(s, c)["credit_source_mismatch"] = FALSE
        /\ Wrong(s, c)["calculated_liability_mismatch"] = FALSE
        /\ Wrong(s, c)["credited_amount_outside_precision_carry_bounds"] = FALSE
        /\ Wrong(s, c)["balance_credit_count_mismatch"] = FALSE
        /\ Wrong(s, c)["balance_credit_mismatch"] = FALSE
    <3> HIDE DEF s, c
    <3> QED
        BY <2>1, <2>2, <1>14, <1>15 DEF Wrong
  <2> HIDE DEF s, c
  <2>4. \A w \in DOMAIN Wrong(s, c) : ~ Wrong(s, c)[w]
        BY <2>3
  <2> QED
      BY <2>4 DEF PairDifferences, s, c
<1>17. UNION {PairDifferences(p[1], p[2]) : p \in Pairs} = {}
       BY <1>16
<1>18. RowDifferences = {}
       BY <1>7, <1>12, <1>17 DEF RowDifferences
<1> QED
    BY <1>9, <1>18

-------------------------------------------------------------------------------
(* Nor does the carry loop find any                                        *)

\* Of a recipient, what the carry loop is past precedes what it is not.
OrderInv ==
  /\ \A c \in checked, d \in carried \ checked : c.address = d.address => Before(c, d)
  /\ phase \notin {"carry", "report"} =>
       interval = [r \in Recipients |-> [prefix |-> 0, lower |-> 0, upper |-> Unit]]

\* The opening remainder of each recipient is within its bounds, and moved by the
\* prefix it is the remainder before the next credit.
Opens(before, open, bounds, left) ==
  \A r \in Recipients :
    /\ open[r] \in bounds[r].lower..(bounds[r].upper - 1)
    /\ \A c \in First({d \in left : d.address = r}) : before[c] = open[r] + bounds[r].prefix

HonestInv ==
  damage = 0 =>
    /\ phase = "new" =>
         \E before : History(db.credits, before) /\ Closes(db.credits, before, carry)
    /\ phase # "new" =>
         \E before : /\ History(view.credits, before)
                     /\ phase \in {"carry", "report"} =>
                          /\ differences = {} /\ carried = out.credits
                          /\ \E open : Opens(before, open, interval, carried \ checked)

\* Credits are totally ordered: there is one first.
LEMMA FirstIsOne ==
  ASSUME NEW rows \in SUBSET Credit, NEW c \in First(rows), NEW d \in First(rows)
  PROVE  c = d
<1>1. c \in Credit /\ d \in Credit /\ (c = d \/ Before(c, d)) /\ (d = c \/ Before(d, c))
      BY DEF First
<1> QED
    BY <1>1, BeforeOrders

\* The next credit of a recipient whose bounds are not broken.
LEMMA NextOf ==
  ASSUME TypeOK, NEW r \in Recipients, NEW c \in First(ToCheck(r))
  PROVE  /\ c \in carried \ checked /\ c \in Credit /\ c.address = r /\ ~ Broken(interval[r])
         /\ c \in First({d \in carried \ checked : d.address = r})
         /\ \A d \in carried \ checked : d.address = r => d = c \/ Before(c, d)
BY DEF First, ToCheck, TypeOK

LEMMA OrderInit == Init => OrderInv
BY DEF Init, OrderInv

LEMMA OrderStep == TypeOK /\ ReplayInv /\ OrderInv /\ [Next]_vars => OrderInv'
<1> SUFFICES ASSUME TypeOK, ReplayInv, OrderInv, [Next]_vars PROVE OrderInv'
    OBVIOUS
<1>0. ASSUME NEW c, NEW d PROVE Before(c, d)' = Before(c, d)
      BY DEF Before
<1>1. CASE CheckCarry
  <2>1. PICK r \in Recipients : \E c \in First(ToCheck(r)) : checked' = checked \union {c}
        BY <1>1 DEF CheckCarry
  <2>2. PICK c \in First(ToCheck(r)) : checked' = checked \union {c}
        BY <2>1
  <2>3. /\ c.address = r
        /\ \A d \in carried \ checked : d.address = r => d = c \/ Before(c, d)
        BY NextOf
  <2>4. carried' = carried /\ phase' = "carry"
        BY <1>1 DEF CheckCarry, export
  <2> QED
      BY <2>2, <2>3, <2>4 DEF OrderInv
<1>2. CASE Compare
  <2>1. checked' = {} /\ phase' = "carry"
        BY <1>2 DEF Compare, ReplayInv, BoundsInv
  <2> QED
      BY <2>1 DEF OrderInv
<1>3. CASE CreditShare
      BY <1>3 DEF CreditShare, OrderInv, export, report
<1>4. CASE Damage
      BY <1>4 DEF Damage, OrderInv, export, report
<1>5. CASE Begin \/ ReadShares \/ ReadCredits \/ ReadChanges
  <2>1. phase \notin {"carry", "report"} /\ UNCHANGED <<carried, checked, interval>>
        BY <1>5 DEF Begin, ReadShares, ReadCredits, ReadChanges, report
  <2> QED
      BY <2>1 DEF OrderInv
<1>6. CASE Report
      BY <1>6 DEF Report, OrderInv, report
<1>7. CASE UNCHANGED vars
      BY <1>7 DEF vars, OrderInv, export, report
<1> QED
    BY <1>1, <1>2, <1>3, <1>4, <1>5, <1>6, <1>7 DEF Next

\* The carry loop begins with every opening possible, the true one among them.
LEMMA CompareHonest ==
  ASSUME TypeOK, ReplayInv, ExportInv, OrderInv, HonestInv, Compare
  PROVE  HonestInv'
<1> SUFFICES ASSUME damage' = 0 PROVE HonestInv'
    BY DEF HonestInv
<1>1. /\ phase = "compare" /\ phase' = "carry" /\ damage = 0
      /\ view' = view /\ out' = out /\ interval' = interval /\ checked' = {}
      /\ differences' = RowDifferences /\ carried' = {p[2] : p \in Pairs}
      BY DEF Compare, source, ReplayInv, BoundsInv
<1>2. PICK before : History(view.credits, before)
      BY <1>1 DEF HonestInv
<1>3. differences' = {} /\ carried' = out.credits
      BY <1>1, <1>2, HonestRows
<1> DEFINE firsts(r) == First({d \in out.credits : d.address = r})
           open == [r \in Recipients |-> IF firsts(r) = {} THEN 0
                                         ELSE before[CHOOSE c \in firsts(r) : TRUE]]
<1>4. /\ out.credits \subseteq Credit /\ out.credits \subseteq view.credits
      /\ Unit \in Nat \ {0}
      BY <1>1, ShadowAuditAssumption DEF ExportInv, TypeOK, Tables
<1>5. ASSUME NEW r \in Recipients
      PROVE  open[r] \in 0..(Unit - 1) /\ \A c \in firsts(r) : before[c] = open[r]
  <2>1. CASE firsts(r) = {}
        BY <2>1, <1>4
  <2>2. CASE firsts(r) # {}
    <3>1. PICK c \in firsts(r) : c = CHOOSE d \in firsts(r) : TRUE
          BY <2>2
    <3>2. open[r] = before[c]
          BY <2>2, <3>1
    <3>3. c \in view.credits
          BY <1>4 DEF First
    <3>4. {d \in out.credits : d.address = r} \in SUBSET Credit
          BY <1>4
    <3>5. \A d \in firsts(r) : d = c
          BY <3>4, FirstIsOne
    <3> QED
        BY <3>2, <3>3, <3>5, <1>2 DEF History
  <2> QED
      BY <2>1, <2>2
<1>6. interval = [r \in Recipients |-> [prefix |-> 0, lower |-> 0, upper |-> Unit]]
      BY <1>1 DEF OrderInv
<1> HIDE DEF open
<1>7. Opens(before, open, interval, out.credits)
  <2> SUFFICES ASSUME NEW r \in Recipients
               PROVE  /\ open[r] \in interval[r].lower..(interval[r].upper - 1)
                      /\ \A c \in firsts(r) : before[c] = open[r] + interval[r].prefix
      BY DEF Opens
  <2>1. interval[r].lower = 0 /\ interval[r].upper = Unit /\ interval[r].prefix = 0
        BY <1>6
  <2> HIDE DEF firsts
  <2>2. open[r] + 0 = open[r]
        BY <1>4, <1>5
  <2> QED
      BY <1>5, <2>1, <2>2
<1>8. Opens(before, open, interval', carried' \ checked')
  <2>1. interval' = interval /\ carried' \ checked' = out.credits
        BY <1>1, <1>3
  <2> QED
      BY <1>7, <2>1
<1>9. History(view'.credits, before)
      BY <1>1, <1>2
<1>10. /\ phase' = "carry" /\ differences' = {} /\ carried' = out'.credits
       BY <1>1, <1>3
<1> HIDE DEF firsts
<1> QED
    BY <1>8, <1>9, <1>10 DEF HonestInv

\* The credit checked moves the true remainder, which the bounds cannot exclude.
LEMMA CheckCarryHonest ==
  ASSUME TypeOK, ReplayInv, ExportInv, OrderInv, HonestInv, CheckCarry
  PROVE  HonestInv'
<1> SUFFICES ASSUME damage' = 0 PROVE HonestInv'
    BY DEF HonestInv
<1>1. /\ phase = "carry" /\ phase' = "carry" /\ damage = 0
      /\ view' = view /\ out' = out /\ carried' = carried
      BY DEF CheckCarry, source, export
<1>2. PICK r \in Recipients : \E c \in First(ToCheck(r)) :
        /\ interval' = [interval EXCEPT ![r] = Narrowed(@, c)]
        /\ checked' = checked \union {c}
        /\ differences' =
             IF Broken(interval'[r])
             THEN differences \union {<<c.id, "inconsistent_recipient_carry_history">>}
             ELSE differences
      BY DEF CheckCarry
<1>3. PICK c \in First(ToCheck(r)) :
        /\ interval' = [interval EXCEPT ![r] = Narrowed(@, c)]
        /\ checked' = checked \union {c}
        /\ differences' =
             IF Broken(interval'[r])
             THEN differences \union {<<c.id, "inconsistent_recipient_carry_history">>}
             ELSE differences
      BY <1>2
<1>4. PICK before, open :
        /\ History(view.credits, before) /\ differences = {} /\ carried = out.credits
        /\ Opens(before, open, interval, carried \ checked)
      BY <1>1 DEF HonestInv
<1> DEFINE i == interval[r]
           n == Narrowed(i, c)
<1>5. /\ c \in carried \ checked /\ c \in Credit /\ c.address = r
      /\ c \in First({d \in carried \ checked : d.address = r})
      /\ \A d \in carried \ checked : d.address = r => d = c \/ Before(c, d)
      BY NextOf
<1>6. /\ c \in view.credits /\ carried \subseteq view.credits
      /\ carried = {d \in view.credits : InInterval(d)} /\ view.credits \subseteq Credit
      BY <1>1, <1>4, <1>5 DEF ExportInv, TypeOK, Tables
<1>7. Bounded(i) /\ Replayable(c)
      BY <1>5 DEF ReplayInv, BoundsInv, CreditsReplayable
<1>8. /\ interval'[r] = n /\ \A q \in Recipients : q # r => interval'[q] = interval[q]
      BY <1>3 DEF TypeOK
<1>9. /\ open[r] \in i.lower..(i.upper - 1) /\ before[c] = open[r] + i.prefix
      BY <1>4, <1>5 DEF Opens
<1>10. /\ i.prefix \in Int /\ i.lower \in Int /\ i.upper \in Int /\ open[r] \in Int
       /\ c.calculated \in Int /\ c.credited \in Int
       BY <1>7, <1>9 DEF Bounded, Replayable
<1>11. /\ n.prefix = i.prefix + c.calculated - c.credited
       /\ n.lower \in Int /\ n.upper \in Int /\ n.prefix \in Int
       /\ \A o \in Int : o \in n.lower..(n.upper - 1)
                          <=> o \in i.lower..(i.upper - 1) /\ o + n.prefix \in 0..(Unit - 1)
       BY <1>7, NarrowedBounded DEF Bounded
<1> HIDE DEF i, n
<1>12. After(before, c) = open[r] + n.prefix /\ After(before, c) \in 0..(Unit - 1)
  <2>1. After(before, c) \in 0..(Unit - 1)
        BY <1>4, <1>6 DEF History
  <2> QED
      BY <2>1, <1>9, <1>10, <1>11 DEF After
<1>13. open[r] \in n.lower..(n.upper - 1)
       BY <1>9, <1>10, <1>11, <1>12
<1>14. ~ Broken(interval'[r])
       BY <1>8, <1>10, <1>11, <1>13 DEF Broken
<1>15. differences' = {}
       BY <1>3, <1>4, <1>14
<1>16. ASSUME NEW d \in First({e \in carried \ checked' : e.address = r})
       PROVE  before[d] = open[r] + n.prefix
  <2>1. /\ d \in carried \ checked /\ d # c /\ d.address = r
        /\ \A e \in carried \ checked' : e.address = r => d = e \/ Before(d, e)
        BY <1>3 DEF First
  <2>2. Before(c, d) /\ d \in view.credits /\ d \in Credit
        BY <1>5, <1>6, <2>1
  <2>3. ASSUME NEW e \in view.credits, e.address = c.address, Before(c, e), Before(e, d)
        PROVE  FALSE
    <3>1. e \in Credit
          BY <1>6
    <3>2. InInterval(e)
      <4>1. c.created \in Nat /\ d.created \in Nat /\ e.created \in Nat
            BY <1>5, <2>2, <3>1 DEF Credit
      <4>2. c.created <= e.created /\ e.created <= d.created
            BY <2>3, <4>1 DEF Before
      <4>3. InInterval(c) /\ InInterval(d)
            BY <1>5, <1>6, <2>1
      <4> QED
          BY <4>1, <4>2, <4>3, ShadowAuditAssumption DEF InInterval
    <3>3. e \in carried
          BY <1>6, <3>2
    <3>4. CASE e \in checked
      <4>1. Before(e, c)
            BY <1>5, <2>3, <3>4 DEF OrderInv
      <4> QED
          BY <4>1, <1>5, <2>3, <3>1, BeforeOrders
    <3>5. CASE e \notin checked
      <4>1. e # c
            BY <1>5, <2>3, BeforeOrders
      <4>2. d = e \/ Before(d, e)
            BY <1>3, <1>5, <2>1, <2>3, <3>3, <3>5, <4>1
      <4> QED
          BY <4>2, <2>2, <2>3, <3>1, BeforeOrders
    <3> QED
        BY <3>4, <3>5
  <2>4. Follows(view.credits, c, d)
        BY <1>5, <2>1, <2>2, <2>3 DEF Follows
  <2>5. before[d] = After(before, c)
        BY <1>4, <1>6, <2>2, <2>4 DEF History
  <2> QED
      BY <2>5, <1>12
<1>17. Opens(before, open, interval', carried' \ checked')
  <2> SUFFICES ASSUME NEW q \in Recipients
               PROVE  /\ open[q] \in interval'[q].lower..(interval'[q].upper - 1)
                      /\ \A d \in First({e \in carried \ checked' : e.address = q}) :
                           before[d] = open[q] + interval'[q].prefix
      BY <1>1 DEF Opens
  <2>1. CASE q = r
        BY <2>1, <1>8, <1>13, <1>16
  <2>2. CASE q # r
    <3>1. {e \in carried \ checked' : e.address = q} = {e \in carried \ checked : e.address = q}
          BY <1>3, <1>5, <2>2
    <3> QED
        BY <2>2, <3>1, <1>4, <1>8 DEF Opens
  <2> QED
      BY <2>1, <2>2
<1>18. History(view'.credits, before) /\ carried' = out'.credits
       BY <1>1, <1>4
<1> QED
    BY <1>1, <1>15, <1>17, <1>18 DEF HonestInv

LEMMA HonestInit == Init => HonestInv
<1> SUFFICES ASSUME Init PROVE HonestInv
    OBVIOUS
<1> DEFINE before == [c \in {} |-> 0]
<1>1. db.credits = {} /\ phase = "new"
      BY DEF Init, Empty
<1>2. History({}, before) /\ Closes({}, before, carry)
      BY DEF History, Closes
<1> HIDE DEF before
<1> QED
    BY <1>1, <1>2 DEF HonestInv

LEMMA HonestStep ==
  TypeOK /\ ReplayInv /\ ExportInv /\ OrderInv /\ HonestInv /\ [Next]_vars => HonestInv'
<1> SUFFICES ASSUME TypeOK, ReplayInv, ExportInv, OrderInv, HonestInv, [Next]_vars
             PROVE  HonestInv'
    OBVIOUS
<1>1. CASE CreditShare
  <2> SUFFICES ASSUME damage' = 0 PROVE HonestInv'
      BY DEF HonestInv
  <2>1. /\ damage = 0 /\ phase' = phase /\ view' = view /\ phase \notin {"carry", "report"}
        BY <1>1 DEF CreditShare, export, Reading
  <2>2. CASE phase = "new"
    <3>1. PICK before : History(db.credits, before) /\ Closes(db.credits, before, carry)
          BY <2>1, <2>2 DEF HonestInv
    <3>2. \E after : History(db'.credits, after) /\ Closes(db'.credits, after, carry')
          BY <1>1, <3>1, CreditShareHistory DEF ExportInv
    <3> QED
        BY <2>1, <2>2, <3>2 DEF HonestInv
  <2>3. CASE phase # "new"
        BY <2>1, <2>3 DEF HonestInv
  <2> QED
      BY <2>2, <2>3
<1>2. CASE Damage
  <2>1. damage' # 0
        BY <1>2 DEF Damage, TypeOK
  <2> QED
      BY <2>1 DEF HonestInv
<1>3. CASE Begin
  <2>1. /\ phase = "new" /\ phase' = "shares" /\ view' = db /\ damage' = damage
        BY <1>3 DEF Begin, source
  <2> QED
      BY <2>1 DEF HonestInv
<1>4. CASE ReadShares \/ ReadCredits \/ ReadChanges
  <2>1. /\ phase # "new" /\ phase' \notin {"new", "carry", "report"}
        /\ view' = view /\ damage' = damage
        BY <1>4 DEF ReadShares, ReadCredits, ReadChanges, source
  <2> QED
      BY <2>1 DEF HonestInv
<1>5. CASE Compare
      BY <1>5, CompareHonest
<1>6. CASE CheckCarry
      BY <1>6, CheckCarryHonest
<1>7. CASE Report
  <2>1. /\ phase = "carry" /\ phase' = "report" /\ damage' = damage
        /\ UNCHANGED <<view, out, differences, carried, checked, interval>>
        BY <1>7 DEF Report, source, report
  <2> QED
      BY <2>1 DEF HonestInv
<1>8. CASE UNCHANGED vars
  <2>1. UNCHANGED <<db, carry, damage, phase, view, out, differences, carried, checked, interval>>
        BY <1>8 DEF vars, source, export, report
  <2> QED
      BY <2>1 DEF HonestInv
<1> QED
    BY <1>1, <1>2, <1>3, <1>4, <1>5, <1>6, <1>7, <1>8 DEF Next

\* What the report reads is the snapshot's, every credit is loaded once and the carry
\* loop goes through a recipient's credits in order.
LEMMA ReportInvariance == Spec => [](TypeOK /\ ReplayInv /\ ExportInv /\ OrderInv /\ HonestInv)
<1>1. Init => TypeOK /\ ReplayInv /\ ExportInv /\ OrderInv /\ HonestInv
      BY TypesInit, ReplayInvInit, ExportInit, OrderInit, HonestInit
<1>2. TypeOK /\ ReplayInv /\ ExportInv /\ OrderInv /\ HonestInv /\ [Next]_vars
        => TypeOK' /\ ReplayInv' /\ ExportInv' /\ OrderInv' /\ HonestInv'
      BY ReplayInvStep, TypesStep, ExportInvStep, OrderStep, HonestStep
<1> QED
    BY <1>1, <1>2, PTL DEF Spec

\* Tables as Miningcore wrote them are never reported as different, whatever was
\* carried when the interval begins and whatever is credited while they are read.
THEOREM HonestMatchesHolds == Spec => []HonestMatches
<1>1. TypeOK /\ ReplayInv /\ ExportInv /\ OrderInv /\ HonestInv => HonestMatches
      BY DEF HonestInv, HonestMatches
<1> QED
    BY <1>1, ReportInvariance, PTL

-------------------------------------------------------------------------------
(* Sums, as Reward_proofs proves them of any function and finite set: the lemmas   *)
(* cited are about no variable of that module.                                     *)
Absent == CHOOSE x : x \notin {"BIP141", <<>>}
Sums == INSTANCE Reward_proofs
          WITH Bundles <- {}, bundle <- None, cursor <- None, page <- {},
               selected <- {}, total <- 0, amounts <- <<>>, dust <- 0,
               Bases <- {}, Witnesses <- {}, Stacks <- {}, Payees <- {}, Heights <- {},
               Activation <- 0, Allowed <- {}, Nil <- Absent, MaxTxs <- 0,
               MaxOutputs <- 0, MaxClaims <- 0, mined <- <<>>, accepted <- {}

LEMMA AbsentIsNeither == Absent # "BIP141" /\ Absent # <<>>
<1>1. \E x : x \notin {"BIP141", <<>>}
      BY NoSetContainsEverything
<1> QED
    BY <1>1 DEF Absent

\* They are the same operators, seen from either module.
LEMMA SameSums ==
  /\ \A f, S : Sums!SumFunctionOnSet(f, S) = SumFunctionOnSet(f, S)
  /\ \A S : Sums!IsFiniteSet(S) <=> IsFiniteSet(S)
  /\ \A S : Sums!Cardinality(S) = Cardinality(S)
<1>1. ASSUME NEW f, NEW S PROVE Sums!SumFunctionOnSet(f, S) = SumFunctionOnSet(f, S)
      BY DEF SumFunctionOnSet, FoldFunctionOnSet, MapThenFoldSet,
             Sums!SumFunctionOnSet, Sums!FoldFunctionOnSet, Sums!MapThenFoldSet
<1>2. ASSUME NEW S PROVE Sums!IsFiniteSet(S) <=> IsFiniteSet(S)
      BY DEF IsFiniteSet, Sums!IsFiniteSet
<1>3. ASSUME NEW S PROVE Sums!Cardinality(S) = Cardinality(S)
      BY DEF Cardinality, Sums!Cardinality
<1> QED
    BY <1>1, <1>2, <1>3

LEMMA SumEmpty == \A f : SumFunctionOnSet(f, {}) = 0
BY Sums!SumEmpty, SameSums, AbsentIsNeither, ShadowAuditAssumption

LEMMA SumSame ==
  ASSUME NEW S, IsFiniteSet(S), NEW f, NEW g, \A x \in S : f[x] = g[x]
  PROVE  SumFunctionOnSet(f, S) = SumFunctionOnSet(g, S)
BY Sums!SumSame, SameSums, AbsentIsNeither, ShadowAuditAssumption

LEMMA SumInt ==
  ASSUME NEW S, IsFiniteSet(S), NEW f, \A x \in S : f[x] \in Int
  PROVE  SumFunctionOnSet(f, S) \in Int
BY Sums!SumInt, SameSums, AbsentIsNeither, ShadowAuditAssumption

LEMMA SumNat ==
  ASSUME NEW S, IsFiniteSet(S), NEW f, \A x \in S : f[x] \in Nat
  PROVE  SumFunctionOnSet(f, S) \in Nat
BY Sums!SumNat, SameSums, AbsentIsNeither, ShadowAuditAssumption

LEMMA SumWith ==
  ASSUME NEW S, IsFiniteSet(S), NEW f, NEW x, x \notin S, \A y \in S \union {x} : f[y] \in Int
  PROVE  /\ SumFunctionOnSet(f, S \union {x}) = f[x] + SumFunctionOnSet(f, S)
         /\ SumFunctionOnSet(f, S \union {x}) \in Int /\ SumFunctionOnSet(f, S) \in Int
<1> DEFINE T == S \union {x}
<1>1. IsFiniteSet(T) /\ x \in T /\ T \ {x} = S
      BY FS_AddElement
<1> HIDE DEF T
<1>2. Sums!IsFiniteSet(T) /\ x \in T /\ \A y \in T : f[y] \in Int
      BY <1>1, SameSums DEF T
<1>3. /\ Sums!SumFunctionOnSet(f, T) = f[x] + Sums!SumFunctionOnSet(f, T \ {x})
      /\ Sums!SumFunctionOnSet(f, T) \in Int /\ Sums!SumFunctionOnSet(f, T \ {x}) \in Int
      BY <1>2, Sums!SumWithout, AbsentIsNeither, ShadowAuditAssumption
<1> QED
    BY <1>1, <1>3, SameSums DEF T

LEMMA SumLinear ==
  ASSUME NEW S, IsFiniteSet(S), NEW c \in Int, NEW f, NEW g, NEW h,
         \A x \in S : f[x] \in Int /\ g[x] \in Int /\ h[x] = c * f[x] + g[x]
  PROVE  SumFunctionOnSet(h, S) = c * SumFunctionOnSet(f, S) + SumFunctionOnSet(g, S)
BY Sums!SumLinear, SameSums, AbsentIsNeither, ShadowAuditAssumption

LEMMA SumConstant ==
  ASSUME NEW S, IsFiniteSet(S), NEW c \in Int, NEW f, \A x \in S : f[x] = c
  PROVE  SumFunctionOnSet(f, S) = c * Cardinality(S)
BY Sums!SumConstant, SameSums, AbsentIsNeither, ShadowAuditAssumption

LEMMA SumByKey ==
  ASSUME NEW S, IsFiniteSet(S), NEW f, \A x \in S : f[x] \in Int,
         NEW P, IsFiniteSet(P), NEW k, \A x \in S : k[x] \in P
  PROVE  SumFunctionOnSet([i \in P |-> SumFunctionOnSet(f, {x \in S : k[x] = i})], P)
           = SumFunctionOnSet(f, S)
<1>1. \A i : SumFunctionOnSet(f, {x \in S : k[x] = i})
               = Sums!SumFunctionOnSet(f, {x \in S : k[x] = i})
      BY SameSums
<1>2. Sums!SumFunctionOnSet([i \in P |-> Sums!SumFunctionOnSet(f, {x \in S : k[x] = i})], P)
        = Sums!SumFunctionOnSet(f, S)
  <2>1. Sums!IsFiniteSet(S) /\ Sums!IsFiniteSet(P)
        BY SameSums
  <2> QED
      BY <2>1, Sums!SumByKey, AbsentIsNeither, ShadowAuditAssumption
<1> DEFINE parts == [i \in P |-> SumFunctionOnSet(f, {x \in S : k[x] = i})]
<1>3. parts = [i \in P |-> Sums!SumFunctionOnSet(f, {x \in S : k[x] = i})]
      BY <1>1
<1>4. Sums!SumFunctionOnSet(parts, P) = Sums!SumFunctionOnSet(f, S)
      BY <1>2, <1>3
<1> HIDE DEF parts
<1> QED
    BY <1>4, SameSums DEF parts

LEMMA SumOne ==
  ASSUME NEW f, NEW x, f[x] \in Int
  PROVE  SumFunctionOnSet(f, {x}) = f[x]
<1>1. {x} = {} \union {x} /\ IsFiniteSet({}) /\ x \notin {}
      BY FS_EmptySet
<1>2. SumFunctionOnSet(f, {} \union {x}) = f[x] + SumFunctionOnSet(f, {})
      BY <1>1, SumWith
<1>3. SumFunctionOnSet(f, {}) = 0
      BY SumEmpty
<1> QED
    BY <1>1, <1>2, <1>3

-------------------------------------------------------------------------------
(* What the carry loop knows when it ends                                  *)

Balance(rows) == SumFunction([c \in rows |-> c.calculated - c.credited])
Prior(rows, c) == {d \in rows : Before(d, c)}

\* A prefix is what was calculated and not paid of the credits checked, and every
\* opening within the bounds keeps the remainder below a unit before and after each
\* of them.  What the rows show, and bounds that break, is reported.
LoopInv ==
  phase \in {"carry", "report"} =>
    /\ carried = {p[2] : p \in Pairs} /\ RowDifferences \subseteq differences
    /\ \A r \in Recipients :
         /\ interval[r].prefix = Balance(Of(checked, r))
         /\ \A c \in Of(checked, r) :
              \A open \in interval[r].lower..(interval[r].upper - 1) :
                LET before == open + Balance(Prior(Of(checked, r), c))
                IN /\ before \in 0..(Unit - 1)
                   /\ before + c.calculated - c.credited \in 0..(Unit - 1)
         /\ Broken(interval[r]) => differences # {}
    /\ phase = "report" => \A r \in Recipients : ToCheck(r) = {}

\* One more credit.
LEMMA BalanceWith ==
  ASSUME NEW rows \in SUBSET Credit, IsFiniteSet(rows), NEW c \in Credit, c \notin rows
  PROVE  /\ Balance(rows) \in Int
         /\ Balance(rows \union {c}) = Balance(rows) + c.calculated - c.credited
<1> DEFINE f == [d \in rows |-> d.calculated - d.credited]
           g == [d \in rows \union {c} |-> d.calculated - d.credited]
<1>1. /\ \A d \in rows \union {c} : g[d] \in Int
      /\ \A d \in rows : f[d] = g[d] /\ f[d] \in Int
      BY DEF Credit
<1>2. /\ Balance(rows) = SumFunctionOnSet(f, rows)
      /\ Balance(rows \union {c}) = SumFunctionOnSet(g, rows \union {c})
      BY DEF Balance, SumFunction
<1>3. g[c] = c.calculated - c.credited /\ c.calculated \in Int /\ c.credited \in Int
      BY DEF Credit
<1> HIDE DEF f, g
<1>4. SumFunctionOnSet(f, rows) = SumFunctionOnSet(g, rows)
      BY <1>1, SumSame
<1>5. /\ SumFunctionOnSet(g, rows \union {c}) = g[c] + SumFunctionOnSet(g, rows)
      /\ SumFunctionOnSet(g, rows) \in Int
      BY <1>1, SumWith
<1> QED
    BY <1>2, <1>3, <1>4, <1>5

LEMMA BalanceEmpty == Balance({}) = 0
BY SumEmpty DEF Balance, SumFunction

\* The credits checked are finitely many, so that they have sums.
LEMMA CheckedFinite ==
  ASSUME TypeOK, ExportInv, LoopInv, phase \in {"carry", "report"}, NEW r
  PROVE  Of(checked, r) \in SUBSET Credit /\ IsFiniteSet(Of(checked, r))
<1>1. carried \subseteq out.credits /\ out.credits \subseteq view.credits
      BY DEF LoopInv, ExportInv, Pairs
<1>2. Of(checked, r) \subseteq view.credits /\ view.credits \subseteq Credit
      BY <1>1 DEF TypeOK, Tables, Of
<1> QED
    BY <1>2, FS_Subset DEF ExportInv, Keyed

\* Compare starts the loop with no credit checked.
LEMMA CompareLoop ==
  ASSUME TypeOK, ReplayInv, OrderInv, Compare
  PROVE  LoopInv'
<1>1. /\ phase' = "carry" /\ out' = out /\ interval' = interval /\ checked' = {}
      /\ differences' = RowDifferences /\ carried' = {p[2] : p \in Pairs}
      /\ interval = [r \in Recipients |-> [prefix |-> 0, lower |-> 0, upper |-> Unit]]
      BY DEF Compare, source, ReplayInv, BoundsInv, OrderInv
<1>2. Pairs' = Pairs /\ RowDifferences' = RowDifferences
      BY <1>1 DEF Pairs, RowDifferences, PairDifferences, Wrong, Linked, Tags, SharesKnown,
                  CreditsKnown
<1>3. \A r : Of({}, r) = {}
      BY DEF Of
<1>4. \A r \in Recipients : /\ interval[r].prefix = 0 /\ interval[r].lower = 0
                            /\ interval[r].upper = Unit /\ ~ Broken(interval[r])
      BY <1>1, ShadowAuditAssumption DEF Broken
<1>5. \A r \in Recipients : interval[r].prefix = Balance(Of(checked', r))
      BY <1>1, <1>3, <1>4, BalanceEmpty
<1> QED
    BY <1>1, <1>2, <1>3, <1>4, <1>5 DEF LoopInv, Balance, Of, Broken

\* One round of the loop: the next credit of a recipient, after those it is past.
LEMMA CheckCarryLoop ==
  ASSUME TypeOK, ReplayInv, ExportInv, OrderInv, LoopInv, CheckCarry
  PROVE  LoopInv'
<1>1. /\ phase = "carry" /\ phase' = "carry" /\ out' = out /\ carried' = carried
      BY DEF CheckCarry, source, export
<1>2. PICK r \in Recipients : \E c \in First(ToCheck(r)) :
        /\ interval' = [interval EXCEPT ![r] = Narrowed(@, c)]
        /\ checked' = checked \union {c}
        /\ differences' =
             IF Broken(interval'[r])
             THEN differences \union {<<c.id, "inconsistent_recipient_carry_history">>}
             ELSE differences
      BY DEF CheckCarry
<1>3. PICK c \in First(ToCheck(r)) :
        /\ interval' = [interval EXCEPT ![r] = Narrowed(@, c)]
        /\ checked' = checked \union {c}
        /\ differences' =
             IF Broken(interval'[r])
             THEN differences \union {<<c.id, "inconsistent_recipient_carry_history">>}
             ELSE differences
      BY <1>2
<1> DEFINE i == interval[r]
           n == Narrowed(i, c)
           rows == Of(checked, r)
<1>4. /\ c \in carried \ checked /\ c \in Credit /\ c.address = r
      BY NextOf
<1>5. /\ rows \in SUBSET Credit /\ IsFiniteSet(rows) /\ c \notin rows
      /\ Of(checked', r) = rows \union {c}
      BY <1>1, <1>3, <1>4, CheckedFinite DEF Of
<1>6. \A d \in rows : Before(d, c)
      BY <1>4 DEF Of, OrderInv
<1>7. Bounded(i) /\ Replayable(c)
      BY <1>4 DEF ReplayInv, BoundsInv, CreditsReplayable
<1>8. interval'[r] = n /\ \A q \in Recipients : q # r => interval'[q] = interval[q]
      BY <1>3 DEF TypeOK
<1>9. /\ i.prefix \in Int /\ i.lower \in Int /\ i.upper \in Int /\ Unit \in Nat
      /\ -i.prefix <= i.lower /\ i.upper <= Unit - i.prefix
      /\ c.calculated \in Int /\ c.credited \in Int
      BY <1>7, ShadowAuditAssumption DEF Bounded, Replayable
<1>10. /\ n.prefix = i.prefix + c.calculated - c.credited
       /\ n.lower \in Int /\ n.upper \in Int /\ n.prefix \in Int
       /\ \A o \in Int : o \in n.lower..(n.upper - 1)
                          <=> o \in i.lower..(i.upper - 1) /\ o + n.prefix \in 0..(Unit - 1)
       BY <1>7, NarrowedBounded DEF Bounded
<1>11. /\ i.prefix = Balance(rows)
       /\ \A d \in rows : \A open \in i.lower..(i.upper - 1) :
            LET before == open + Balance(Prior(rows, d))
            IN /\ before \in 0..(Unit - 1)
               /\ before + d.calculated - d.credited \in 0..(Unit - 1)
       /\ Broken(i) => differences # {}
       BY <1>1 DEF LoopInv
<1>12. Balance(rows \union {c}) = Balance(rows) + c.calculated - c.credited
       BY <1>4, <1>5, BalanceWith
<1>13. Prior(rows \union {c}, c) = rows
       BY <1>4, <1>5, <1>6, BeforeOrders DEF Prior
<1>14. ASSUME NEW d \in rows PROVE Prior(rows \union {c}, d) = Prior(rows, d)
  <2>1. ~ Before(c, d)
        BY <1>4, <1>5, <1>6, BeforeOrders
  <2> QED
      BY <2>1 DEF Prior
<1> HIDE DEF i, n, rows
<1>15. n.prefix = Balance(rows \union {c})
       BY <1>10, <1>11, <1>12
<1>16. ASSUME NEW d \in rows \union {c}, NEW open \in n.lower..(n.upper - 1)
       PROVE  LET before == open + Balance(Prior(rows \union {c}, d))
              IN /\ before \in 0..(Unit - 1)
                 /\ before + d.calculated - d.credited \in 0..(Unit - 1)
  <2>1. open \in Int /\ open \in i.lower..(i.upper - 1) /\ open + n.prefix \in 0..(Unit - 1)
        BY <1>10
  <2>2. CASE d = c
    <3>1. open + i.prefix \in 0..(Unit - 1)
          BY <2>1, <1>9
    <3>2. open + i.prefix + c.calculated - c.credited = open + n.prefix
          BY <2>1, <1>9, <1>10
    <3> QED
        BY <2>1, <2>2, <3>1, <3>2, <1>11, <1>13
  <2>3. CASE d \in rows
        BY <2>1, <2>3, <1>11, <1>14
  <2> QED
      BY <2>2, <2>3
<1>17. differences \subseteq differences' /\ (Broken(n) => differences' # {})
       BY <1>3, <1>8
<1>18. Pairs' = Pairs /\ RowDifferences' = RowDifferences
       BY <1>1 DEF Pairs, RowDifferences, PairDifferences, Wrong, Linked, Tags, SharesKnown,
                   CreditsKnown
<1>19. ASSUME NEW q \in Recipients
       PROVE  /\ interval'[q].prefix = Balance(Of(checked', q))
              /\ \A d \in Of(checked', q) :
                   \A open \in interval'[q].lower..(interval'[q].upper - 1) :
                     LET before == open + Balance(Prior(Of(checked', q), d))
                     IN /\ before \in 0..(Unit - 1)
                        /\ before + d.calculated - d.credited \in 0..(Unit - 1)
              /\ Broken(interval'[q]) => differences' # {}
  <2>1. CASE q = r
        BY <2>1, <1>5, <1>8, <1>15, <1>16, <1>17
  <2>2. CASE q # r
    <3>1. Of(checked', q) = Of(checked, q)
          BY <1>3, <1>4, <2>2 DEF Of
    <3>2. interval'[q] = interval[q]
          BY <1>8, <2>2
    <3> QED
        BY <3>1, <3>2, <1>1, <1>17 DEF LoopInv
  <2> QED
      BY <2>1, <2>2
<1>20. carried' = {p[2] : p \in Pairs'} /\ RowDifferences' \subseteq differences'
       BY <1>1, <1>17, <1>18 DEF LoopInv
<1> QED
    BY <1>1, <1>19, <1>20 DEF LoopInv, Balance, Prior, Before, Of, Broken

LEMMA LoopInit == Init => LoopInv
BY DEF Init, LoopInv

\* Steps that leave the report's variables alone.
LEMMA LoopStays ==
  ASSUME LoopInv, phase \in {"carry", "report"},
         UNCHANGED <<out, differences, carried, checked, interval>>,
         phase' = "report" => \A r \in Recipients : ToCheck(r) = {}
  PROVE  LoopInv'
<1>1. Pairs' = Pairs /\ RowDifferences' = RowDifferences
      BY DEF Pairs, RowDifferences, PairDifferences, Wrong, Linked, Tags, SharesKnown,
             CreditsKnown
<1>2. \A r \in Recipients : ToCheck(r)' = ToCheck(r)
      BY DEF ToCheck, Broken
<1> QED
    BY <1>1, <1>2 DEF LoopInv, Balance, Prior, Before, Of, Broken

LEMMA LoopStep ==
  TypeOK /\ ReplayInv /\ ExportInv /\ OrderInv /\ LoopInv /\ [Next]_vars => LoopInv'
<1> SUFFICES ASSUME TypeOK, ReplayInv, ExportInv, OrderInv, LoopInv, [Next]_vars
             PROVE  LoopInv'
    OBVIOUS
<1>1. CASE Compare
      BY <1>1, CompareLoop
<1>2. CASE CheckCarry
      BY <1>2, CheckCarryLoop
<1>3. CASE Report
  <2>1. /\ phase = "carry" /\ \A r \in Recipients : ToCheck(r) = {}
        /\ UNCHANGED <<out, differences, carried, checked, interval>>
        BY <1>3 DEF Report, report
  <2> QED
      BY <2>1, LoopStays
<1>4. CASE CreditShare \/ Damage \/ Begin \/ ReadShares \/ ReadCredits \/ ReadChanges
  <2>1. phase' \notin {"carry", "report"}
        BY <1>4 DEF CreditShare, Damage, Begin, ReadShares, ReadCredits, ReadChanges, Reading,
                    export
  <2> QED
      BY <2>1 DEF LoopInv
<1>5. CASE UNCHANGED vars
  <2>1. phase' = phase /\ UNCHANGED <<out, differences, carried, checked, interval>>
        BY <1>5 DEF vars, export, report
  <2>2. CASE phase \in {"carry", "report"}
    <3>1. phase' = "report" => \A r \in Recipients : ToCheck(r) = {}
          BY <2>1 DEF LoopInv
    <3> QED
        BY <2>1, <2>2, <3>1, LoopStays
  <2>3. CASE phase \notin {"carry", "report"}
        BY <2>1, <2>3 DEF LoopInv
  <2> QED
      BY <2>2, <2>3
<1> QED
    BY <1>1, <1>2, <1>3, <1>4, <1>5 DEF Next


-------------------------------------------------------------------------------
(* A report without differences explains the credits                       *)

\* A multiple of the unit and less than one more: that is the remainder.
LEMMA RestOfUnits ==
  ASSUME NEW x \in Nat, NEW k, Whole(k), NEW b \in 0..(Unit - 1), x = k + b
  PROVE  x % Unit = b
<1>1. PICK q \in Int : k = q * Unit
      BY DEF Whole
<1> DEFINE m == x % Unit
           n == x \div Unit
<1>2. m \in 0..(Unit - 1) /\ n \in Nat /\ x = n * Unit + m /\ Unit \in Nat \ {0}
      BY Units, ShadowAuditAssumption
<1> HIDE DEF m, n
<1>3. n * Unit \in Int /\ q * Unit \in Int /\ (n - q) * Unit = n * Unit - q * Unit
      BY <1>2
<1>4. (n - q) * Unit = b - m
      BY <1>1, <1>2, <1>3
<1>5. n - q = 0
  <2>1. /\ n - q >= 1 => (n - q) * Unit >= Unit
        /\ q - n >= 1 => (q - n) * Unit >= Unit
        BY <1>2, MultipleBound
  <2>2. (n - q) * Unit \in Int /\ (q - n) * Unit = -((n - q) * Unit)
        BY <1>2, <1>3
  <2>3. ~ (n - q >= 1) /\ ~ (q - n >= 1)
        BY <1>2, <1>4, <2>1, <2>2
  <2> QED
      BY <2>3, <1>2
<1>6. (n - q) * Unit = 0
      BY <1>5, <1>2
<1>7. m = b
      BY <1>2, <1>4, <1>6
<1> QED
    BY <1>7 DEF m

\* An amount rounded to the unit is whole.
LEMMA RoundedIsWhole ==
  ASSUME NEW a \in Nat, NEW k \in {Floor(a), Ceiling(a)}
  PROVE  Whole(k)
<1> DEFINE m == a % Unit
           n == a \div Unit
<1>1. m \in 0..(Unit - 1) /\ n \in Nat /\ a = n * Unit + m /\ Unit \in Nat \ {0}
      BY Units, ShadowAuditAssumption
<1>2. k \in {a - m, a - m + Unit, a}  /\ (k = a => m = 0 \/ k \in {a - m, a - m + Unit})
      BY DEF Floor, Ceiling
<1> HIDE DEF m, n
<1>3. n * Unit \in Int /\ (n + 1) * Unit = n * Unit + Unit
      BY <1>1
<1>4. k = n * Unit \/ k = (n + 1) * Unit
      BY <1>1, <1>2, <1>3
<1>5. n \in Int /\ n + 1 \in Int
      BY <1>1
<1> QED
    BY <1>4, <1>5 DEF Whole

\* What is left of a set of credits is what was calculated and not paid.
LEMMA BalanceIsDifference ==
  ASSUME NEW rows \in SUBSET Credit, IsFiniteSet(rows)
  PROVE  /\ Calculated(rows) \in Nat /\ Credited(rows) \in Nat
         /\ Balance(rows) = Calculated(rows) - Credited(rows)
<1> DEFINE f == [c \in rows |-> c.calculated]
           g == [c \in rows |-> c.credited]
           h == [c \in rows |-> c.calculated - c.credited]
<1>1. \A c \in rows : f[c] \in Nat /\ g[c] \in Nat /\ h[c] = (-1) * g[c] + f[c]
      BY DEF Credit
<1>2. /\ Calculated(rows) = SumFunctionOnSet(f, rows)
      /\ Credited(rows) = SumFunctionOnSet(g, rows)
      /\ Balance(rows) = SumFunctionOnSet(h, rows)
      BY DEF Calculated, Credited, Balance, SumFunction
<1> HIDE DEF f, g, h
<1>3. SumFunctionOnSet(f, rows) \in Nat /\ SumFunctionOnSet(g, rows) \in Nat
      BY <1>1, SumNat
<1>4. SumFunctionOnSet(h, rows) = (-1) * SumFunctionOnSet(g, rows) + SumFunctionOnSet(f, rows)
  <2>1. -1 \in Int /\ \A c \in rows : g[c] \in Int /\ f[c] \in Int
        BY <1>1
  <2> QED
      BY ONLY <1>1, <2>1, IsFiniteSet(rows), SumLinear
<1> QED
    BY <1>2, <1>3, <1>4

\* Whole credits add up to whole units.
LEMMA CreditedIsWhole ==
  ASSUME NEW rows \in SUBSET Credit, IsFiniteSet(rows), \A c \in rows : Whole(c.credited)
  PROVE  Whole(Credited(rows))
<1> DEFINE units == [c \in rows |-> CHOOSE q \in Int : c.credited = q * Unit]
           zero == [c \in rows |-> 0]
           paid == [c \in rows |-> c.credited]
<1>1. \A c \in rows : units[c] \in Int /\ c.credited = units[c] * Unit
      BY DEF Whole
<1>2. Unit \in Int
      BY ShadowAuditAssumption
<1>3. /\ \A c \in rows : zero[c] = 0 /\ paid[c] = c.credited
      /\ Credited(rows) = SumFunctionOnSet(paid, rows)
      BY DEF Credited, SumFunction
<1> HIDE DEF units, zero, paid
<1>4. \A c \in rows : /\ units[c] \in Int /\ zero[c] \in Int
                      /\ paid[c] = Unit * units[c] + zero[c]
  <2> SUFFICES ASSUME NEW c \in rows PROVE paid[c] = Unit * units[c] + zero[c]
      BY <1>1, <1>3
  <2>1. units[c] * Unit = Unit * units[c] /\ Unit * units[c] \in Int
        BY <1>1, <1>2
  <2> QED
      BY <1>1, <1>3, <2>1
<1>5. SumFunctionOnSet(paid, rows) = Unit * SumFunctionOnSet(units, rows)
                                       + SumFunctionOnSet(zero, rows)
      BY <1>2, <1>4, SumLinear
<1>6. SumFunctionOnSet(zero, rows) = 0 /\ SumFunctionOnSet(units, rows) \in Int
  <2>1. SumFunctionOnSet(zero, rows) = 0 * Cardinality(rows)
        BY <1>3, SumConstant
  <2>2. Cardinality(rows) \in Nat
        BY FS_CardinalityType
  <2>3. SumFunctionOnSet(units, rows) \in Int
        BY <1>1, SumInt
  <2> QED
      BY <2>1, <2>2, <2>3
<1>7. Credited(rows) = SumFunctionOnSet(units, rows) * Unit
      BY <1>2, <1>3, <1>5, <1>6
<1> QED
    BY <1>6, <1>7 DEF Whole

\* Without differences every credit of the interval has its share, and the entry
\* tagged on it if it paid anything; and no entry is without a credit.
LEMMA MatchedRows ==
  ASSUME TypeOK, ExportInv, LoopInv, phase = "report", differences = {}
  PROVE  /\ carried = out.credits
         /\ \A c \in out.credits : \E s \in out.shares :
              /\ s.id = c.id /\ s.miner = c.address /\ s.worth = c.calculated
              /\ c.credited \in {Floor(c.calculated), Ceiling(c.calculated)}
              /\ Cardinality(Linked(c)) = (IF c.credited > 0 THEN 1 ELSE 0)
              /\ \A x \in Linked(c) :
                   x.address = c.address /\ x.created = c.created /\ x.amount = c.credited
         /\ \A s \in out.shares : \E c \in out.credits : s.id = c.id /\ s.miner = c.address
         /\ \A x \in out.changes : \E c \in out.credits : x.tag = c.id
<1>1. RowDifferences = {} /\ carried = {p[2] : p \in Pairs}
      BY DEF LoopInv
<1>2. /\ \A y \in out.changes : y.tag # None /\ y.tag \in Tags
      /\ CreditsKnown \subseteq SharesKnown /\ SharesKnown \subseteq CreditsKnown
      /\ \A p \in Pairs : PairDifferences(p[1], p[2]) = {}
  <2>1. ASSUME NEW y \in out.changes, y.tag = None PROVE FALSE
    <3>1. <<y.tag, "ambiguous_balance_credit_tags">> \in RowDifferences
          BY <2>1 DEF RowDifferences
    <3> QED
        BY <1>1, <3>1
  <2>2. ASSUME NEW y \in out.changes, y.tag # None, y.tag \notin Tags PROVE FALSE
    <3>1. <<y.tag, "balance_credit_without_source_rows">> \in RowDifferences
          BY <2>2 DEF RowDifferences
    <3> QED
        BY <1>1, <3>1
  <2>3. ASSUME NEW i \in CreditsKnown \ SharesKnown PROVE FALSE
    <3>1. <<i, "credit_without_retained_share">> \in RowDifferences
          BY <2>3 DEF RowDifferences
    <3> QED
        BY <1>1, <3>1
  <2>4. ASSUME NEW i \in SharesKnown \ CreditsKnown PROVE FALSE
    <3>1. <<i, "share_without_pps_credit">> \in RowDifferences
          BY <2>4 DEF RowDifferences
    <3> QED
        BY <1>1, <3>1
  <2>5. ASSUME NEW p \in Pairs PROVE PairDifferences(p[1], p[2]) = {}
    <3>1. PairDifferences(p[1], p[2]) \subseteq UNION {PairDifferences(q[1], q[2]) : q \in Pairs}
          OBVIOUS
    <3>2. UNION {PairDifferences(q[1], q[2]) : q \in Pairs} \subseteq RowDifferences
          BY DEF RowDifferences
    <3> QED
        BY <1>1, <3>1, <3>2
  <2> QED
      BY <2>1, <2>2, <2>3, <2>4, <2>5
<1>3. ASSUME NEW c \in out.credits, NEW s \in out.shares, s.id = c.id
      PROVE  /\ c \in carried /\ s.worth = c.worth /\ s.created = c.created
             /\ s.miner = c.address /\ c.calculated = s.worth
             /\ c.credited \in {Floor(c.calculated), Ceiling(c.calculated)}
             /\ Cardinality(Linked(c)) = (IF c.credited > 0 THEN 1 ELSE 0)
             /\ \A x \in Linked(c) :
                  x.address = c.address /\ x.created = c.created /\ x.amount = c.credited
  <2>1. <<s, c>> \in Pairs /\ <<s, c>>[1] = s /\ <<s, c>>[2] = c
        BY <1>3 DEF Pairs
  <2>2. c \in carried
        BY <1>1, <2>1
  <2>3. PairDifferences(s, c) = {}
        BY <1>2, <2>1
  <2>4. \A w \in DOMAIN Wrong(s, c) : ~ Wrong(s, c)[w]
        BY <2>3 DEF PairDifferences
  <2>5. /\ ~ Wrong(s, c)["credit_source_mismatch"]
        /\ ~ Wrong(s, c)["calculated_liability_mismatch"]
        /\ ~ Wrong(s, c)["credited_amount_outside_precision_carry_bounds"]
        /\ ~ Wrong(s, c)["balance_credit_count_mismatch"]
        /\ ~ Wrong(s, c)["balance_credit_mismatch"]
    <3>1. DOMAIN Wrong(s, c) =
            {"credit_source_mismatch", "calculated_liability_mismatch",
             "credited_amount_outside_precision_carry_bounds",
             "balance_credit_count_mismatch", "balance_credit_mismatch"}
          BY DEF Wrong
    <3> QED
        BY <2>4, <3>1
  <2>6. /\ ~ (s.worth # c.worth \/ s.created # c.created \/ s.miner # c.address)
        /\ ~ (c.calculated # s.worth)
        /\ ~ (c.credited \notin {Floor(c.calculated), Ceiling(c.calculated)})
        /\ ~ (Cardinality(Linked(c)) # (IF c.credited > 0 THEN 1 ELSE 0))
        /\ ~ (\E x \in Linked(c) :
                x.address # c.address \/ x.created # c.created \/ x.amount # c.credited)
        BY <2>5 DEF Wrong
  <2> QED
      BY <2>2, <2>6
<1>4. ASSUME NEW c \in out.credits PROVE \E s \in out.shares : s.id = c.id
      BY <1>2 DEF CreditsKnown, SharesKnown
<1>5. ASSUME NEW s \in out.shares PROVE \E c \in out.credits : s.id = c.id
      BY <1>2 DEF CreditsKnown, SharesKnown
<1>6. carried \subseteq out.credits
      BY <1>1 DEF Pairs
<1>7. out.credits \subseteq carried
      BY <1>3, <1>4
<1>8. \A x \in out.changes : \E c \in out.credits : x.tag = c.id
      BY <1>2, <1>5 DEF Tags
<1>9. \A s \in out.shares : \E c \in out.credits : s.id = c.id /\ s.miner = c.address
  <2> TAKE s \in out.shares
  <2>1. PICK c \in out.credits : s.id = c.id
        BY <1>5
  <2> QED
      BY <2>1, <1>3
<1>10. \A c \in out.credits : \E s \in out.shares :
         /\ s.id = c.id /\ s.miner = c.address /\ s.worth = c.calculated
         /\ c.credited \in {Floor(c.calculated), Ceiling(c.calculated)}
         /\ Cardinality(Linked(c)) = (IF c.credited > 0 THEN 1 ELSE 0)
         /\ \A x \in Linked(c) :
              x.address = c.address /\ x.created = c.created /\ x.amount = c.credited
  <2> TAKE c \in out.credits
  <2>1. PICK s \in out.shares : s.id = c.id
        BY <1>4
  <2> WITNESS s \in out.shares
  <2> QED
      BY <2>1, <1>3
<1> QED
    BY <1>6, <1>7, <1>8, <1>9, <1>10

\* From the lowest opening within its bounds, the rule gives every credit of a
\* recipient what it was paid.
LEMMA CreditsExplained ==
  ASSUME TypeOK, ExportInv, LoopInv, phase = "report", differences = {}, NEW r \in Recipients
  PROVE  Explained(Of(out.credits, r))
<1> DEFINE rows == Of(out.credits, r)
           open == interval[r].lower
<1>1. carried = out.credits /\ Unit \in Nat \ {0}
      BY MatchedRows, ShadowAuditAssumption
<1>2. /\ interval[r].lower \in Int /\ interval[r].upper \in Int
      /\ 0 <= interval[r].lower /\ interval[r].upper <= Unit /\ ~ Broken(interval[r])
      BY DEF TypeOK, LoopInv
<1>3. open \in 0..(Unit - 1) /\ open \in interval[r].lower..(interval[r].upper - 1)
      BY <1>1, <1>2 DEF Broken
<1>4. rows = Of(checked, r) /\ rows \in SUBSET Credit /\ IsFiniteSet(rows)
  <2>1. ToCheck(r) = {} /\ checked \subseteq carried
        BY DEF LoopInv, TypeOK
  <2>2. rows = Of(checked, r)
        BY <1>1, <1>2, <2>1 DEF ToCheck, Of
  <2> QED
      BY <2>2, CheckedFinite
<1>5. \A c \in rows : c.credited \in {Floor(c.calculated), Ceiling(c.calculated)}
      BY MatchedRows DEF Of
<1> HIDE DEF open, rows
<1>6. \A c \in rows : Whole(c.credited)
  <2> TAKE c \in rows
  <2>1. c.calculated \in Nat
        BY <1>4 DEF Credit
  <2> QED
      BY <2>1, <1>5, RoundedIsWhole
<1>7. ASSUME NEW c \in rows
      PROVE  c.credited = Floor(RestBefore(rows, open, c) + c.calculated)
  <2> DEFINE prior == Prior(rows, c)
             before == open + Balance(prior)
  <2>1. prior \subseteq rows /\ IsFiniteSet(prior) /\ prior \in SUBSET Credit
        BY <1>4, FS_Subset DEF Prior
  <2>2. /\ Calculated(prior) \in Nat /\ Credited(prior) \in Nat
        /\ Balance(prior) = Calculated(prior) - Credited(prior)
        BY <2>1, BalanceIsDifference
  <2>3. Whole(Credited(prior))
        BY <2>1, <1>6, CreditedIsWhole
  <2>4. before \in 0..(Unit - 1) /\ before + c.calculated - c.credited \in 0..(Unit - 1)
    <3>1. /\ open + Balance(Prior(Of(checked, r), c)) \in 0..(Unit - 1)
          /\ open + Balance(Prior(Of(checked, r), c)) + c.calculated - c.credited
               \in 0..(Unit - 1)
          BY <1>3, <1>4 DEF LoopInv
    <3> QED
        BY <3>1, <1>4
  <2>5. c.calculated \in Nat /\ c.credited \in Nat
        BY <1>4 DEF Credit
  <2> HIDE DEF before, prior
  <2>6. (open + Calculated(prior)) % Unit = before
    <3>1. open + Calculated(prior) \in Nat /\ open + Calculated(prior) = Credited(prior) + before
          BY <1>3, <2>2 DEF before
    <3> QED
        BY <3>1, <2>3, <2>4, RestOfUnits
  <2>7. RestBefore(rows, open, c) = before
        BY <2>6 DEF RestBefore, prior, Prior
  <2>8. (before + c.calculated) % Unit = before + c.calculated - c.credited
    <3>1. before \in Nat
          BY <2>4, <1>1
    <3>2. before + c.calculated \in Nat
          BY <3>1, <2>5
    <3>3. before + c.calculated = c.credited + (before + c.calculated - c.credited)
          BY <3>1, <2>5
    <3>4. Whole(c.credited)
          BY <1>6
    <3> QED
        BY <3>2, <3>3, <3>4, <2>4, RestOfUnits
  <2>9. before \in Int
        BY <2>4, <1>1
  <2> QED
      BY <2>5, <2>7, <2>8, <2>9 DEF Floor
<1> QED
    BY <1>3, <1>7 DEF Explained, Explains, rows

\* The entries of a recipient's credits pay out what was credited.
LEMMA LedgerPays ==
  ASSUME TypeOK, ExportInv, LoopInv, phase = "report", differences = {}, NEW r \in Recipients
  PROVE  Amounts(Of({x \in view.changes :
                       InInterval(x) \/ \E c \in out.credits : c.id = x.tag}, r))
           = Credited(Of(out.credits, r))
<1> DEFINE entries == Of({x \in view.changes :
                            InInterval(x) \/ \E c \in out.credits : c.id = x.tag}, r)
           rows == Of(out.credits, r)
           amount == [x \in entries |-> x.amount]
           key == [x \in entries |-> CHOOSE c \in out.credits : x.tag = c.id]
           credited == [c \in rows |-> c.credited]
           paid == [c \in rows |->
                      SumFunctionOnSet(amount, {x \in entries : key[x] = c})]
<1>1. /\ out.credits = {c \in view.credits : InInterval(c)}
      /\ out.changes = {x \in view.changes : InInterval(x) \/ x.tag \in Tags}
      /\ IsFiniteSet(view.credits) /\ IsFiniteSet(view.changes)
      /\ \A c, d \in view.credits : c.id = d.id => c = d
      BY DEF ExportInv, Keyed
<1>2. view.credits \subseteq Credit /\ view.changes \subseteq Change
      BY DEF TypeOK, Tables
<1>3. /\ entries \subseteq out.changes /\ IsFiniteSet(entries) /\ entries \subseteq Change
      /\ rows \subseteq out.credits /\ IsFiniteSet(rows) /\ rows \subseteq Credit
  <2>1. entries \subseteq view.changes /\ rows \subseteq view.credits
        BY <1>1 DEF Of
  <2>2. entries \subseteq out.changes
        BY <1>1 DEF Of, Tags
  <2> QED
      BY <1>1, <1>2, <2>1, <2>2, FS_Subset DEF Of
<1>4. \A x \in entries : amount[x] = x.amount /\ amount[x] \in Int
      BY <1>3 DEF Change
<1>5. ASSUME NEW c \in out.credits
      PROVE  /\ Cardinality(Linked(c)) = (IF c.credited > 0 THEN 1 ELSE 0)
             /\ \A x \in Linked(c) :
                  x.address = c.address /\ x.created = c.created /\ x.amount = c.credited
      BY MatchedRows
<1>6. ASSUME NEW x \in entries
      PROVE  /\ key[x] \in rows /\ x \in Linked(key[x])
             /\ \A c \in out.credits : x.tag = c.id => c = key[x]
  <2>1. \E c \in out.credits : x.tag = c.id
        BY <1>3, MatchedRows
  <2>2. key[x] \in out.credits /\ x.tag = key[x].id
        BY <2>1
  <2>3. x \in Linked(key[x])
        BY <1>3, <2>2 DEF Linked
  <2>4. key[x].address = r
        BY <1>5, <2>2, <2>3 DEF Of
  <2> QED
      BY <1>1, <2>2, <2>3, <2>4 DEF Of
<1>7. ASSUME NEW c \in rows PROVE {x \in entries : key[x] = c} = Linked(c)
  <2>1. ASSUME NEW x \in Linked(c) PROVE x \in entries /\ key[x] = c
    <3>1. x \in out.changes /\ x.tag = c.id /\ x.address = c.address /\ x.created = c.created
          BY <1>3, <1>5 DEF Linked
    <3>2. c.address = r /\ InInterval(c) /\ c \in out.credits
          BY <1>1 DEF Of
    <3>3. x \in entries
          BY <1>1, <3>1, <3>2 DEF Of, InInterval
    <3> QED
        BY <1>6, <3>1, <3>2, <3>3
  <2>2. ASSUME NEW x \in entries, key[x] = c PROVE x \in Linked(c)
        BY <1>6, <2>2
  <2> QED
      BY <2>1, <2>2
<1>8. /\ Amounts(entries) = SumFunctionOnSet(amount, entries)
      /\ Credited(rows) = SumFunctionOnSet(credited, rows)
      BY DEF Amounts, Credited, SumFunction
<1>9. \A c \in rows : paid[c] = SumFunctionOnSet(amount, Linked(c))
      BY <1>7
<1> HIDE DEF key
<1>10. SumFunctionOnSet(paid, rows) = SumFunctionOnSet(amount, entries)
  <2> HIDE DEF entries, rows, amount
  <2> QED
      BY <1>3, <1>4, <1>6, SumByKey
<1>11. ASSUME NEW c \in rows PROVE paid[c] = credited[c]
  <2>1. Linked(c) \subseteq entries /\ c \in out.credits /\ c.credited \in Nat
        BY <1>3, <1>7 DEF Credit
  <2>2. IsFiniteSet(Linked(c)) /\ credited[c] = c.credited
        BY <1>3, <2>1, FS_Subset
  <2>3. CASE c.credited > 0
    <3>1. Cardinality(Linked(c)) = 1
          BY <1>5, <2>1, <2>3
    <3>2. PICK x : Linked(c) = {x}
          BY <2>2, <3>1, FS_Singleton
    <3>3. amount[x] = c.credited /\ amount[x] \in Int
          BY <1>4, <1>5, <2>1, <3>2
    <3>4. SumFunctionOnSet(amount, {x}) = amount[x]
      <4> HIDE DEF amount
      <4> QED
          BY <3>3, SumOne
    <3> QED
        BY <1>9, <2>2, <3>2, <3>3, <3>4
  <2>4. CASE ~ (c.credited > 0)
    <3>1. Cardinality(Linked(c)) = 0 /\ c.credited = 0
          BY <1>5, <2>1, <2>4
    <3>2. Linked(c) = {}
          BY <2>2, <3>1, FS_EmptySet
    <3> QED
        BY <1>9, <2>2, <3>1, <3>2, SumEmpty
  <2> QED
      BY <2>3, <2>4
<1> HIDE DEF paid, credited
<1>12. SumFunctionOnSet(paid, rows) = SumFunctionOnSet(credited, rows)
  <2> HIDE DEF rows
  <2> QED
      BY <1>3, <1>11, SumSame
<1> QED
    BY <1>8, <1>10, <1>12

\* What was calculated for a recipient's credits is what its shares are worth.
LEMMA SharesWorth ==
  ASSUME TypeOK, ExportInv, LoopInv, phase = "report", differences = {}, NEW r \in Recipients
  PROVE  Worth({s \in view.shares : InInterval(s) /\ s.miner = r})
           = Calculated(Of(out.credits, r))
<1> DEFINE shares == {s \in view.shares : InInterval(s) /\ s.miner = r}
           rows == Of(out.credits, r)
           worth == [s \in shares |-> s.worth]
           key == [s \in shares |-> CHOOSE c \in out.credits : s.id = c.id]
           calculated == [c \in rows |-> c.calculated]
           sums == [c \in rows |-> SumFunctionOnSet(worth, {s \in shares : key[s] = c})]
<1>1. /\ out.shares = {s \in view.shares : InInterval(s)}
      /\ out.credits = {c \in view.credits : InInterval(c)}
      /\ IsFiniteSet(view.credits) /\ IsFiniteSet(view.shares)
      /\ \A c, d \in view.credits : c.id = d.id => c = d
      /\ \A s, u \in view.shares : s.id = u.id => s = u
      BY DEF ExportInv, Keyed
<1>2. view.credits \subseteq Credit /\ view.shares \subseteq Share
      BY DEF TypeOK, Tables
<1>3. /\ shares \subseteq out.shares /\ IsFiniteSet(shares) /\ shares \subseteq Share
      /\ rows \subseteq out.credits /\ IsFiniteSet(rows) /\ rows \subseteq Credit
  <2>1. shares \subseteq view.shares /\ rows \subseteq view.credits
        BY <1>1 DEF Of
  <2> QED
      BY <1>1, <1>2, <2>1, FS_Subset DEF Of
<1>4. \A s \in shares : worth[s] = s.worth /\ worth[s] \in Int
      BY <1>3 DEF Share
<1>5. ASSUME NEW s \in shares
      PROVE  key[s] \in rows /\ \A c \in out.credits : s.id = c.id => c = key[s]
  <2>1. PICK c \in out.credits : s.id = c.id /\ s.miner = c.address
        BY <1>3, MatchedRows
  <2>2. key[s] \in out.credits /\ s.id = key[s].id
        BY <2>1
  <2>3. key[s] = c /\ c.address = r
        BY <1>1, <2>1, <2>2
  <2> QED
      BY <1>1, <2>2, <2>3 DEF Of
<1>6. /\ Worth(shares) = SumFunctionOnSet(worth, shares)
      /\ Calculated(rows) = SumFunctionOnSet(calculated, rows)
      BY DEF Worth, Calculated, SumFunction
<1>7. ASSUME NEW c \in rows PROVE sums[c] = calculated[c]
  <2>1. PICK s \in out.shares : s.id = c.id /\ s.miner = c.address /\ s.worth = c.calculated
        BY <1>3, MatchedRows
  <2>2. s \in shares
        BY <1>1, <2>1 DEF Of
  <2>3. key[s] = c
        BY <1>3, <1>5, <2>1, <2>2
  <2>4. ASSUME NEW u \in shares, key[u] = c PROVE u = s
    <3>1. \E d \in out.credits : u.id = d.id
          BY <1>3, MatchedRows
    <3>2. u.id = key[u].id
          BY <3>1
    <3> QED
        BY ZenonT(60), <1>1, <2>1, <2>4, <3>2
  <2>5. {u \in shares : key[u] = c} = {s}
        BY <2>2, <2>3, <2>4
  <2>6. worth[s] = c.calculated /\ worth[s] \in Int
        BY <1>4, <2>1, <2>2
  <2>7. SumFunctionOnSet(worth, {s}) = worth[s]
    <3> HIDE DEF worth
    <3> QED
        BY <2>6, SumOne
  <2> QED
      BY <2>5, <2>6, <2>7
<1> HIDE DEF key
<1>8. SumFunctionOnSet(sums, rows) = SumFunctionOnSet(worth, shares)
  <2> HIDE DEF shares, rows, worth
  <2> QED
      BY <1>3, <1>4, <1>5, SumByKey
<1> HIDE DEF sums, calculated
<1>9. SumFunctionOnSet(sums, rows) = SumFunctionOnSet(calculated, rows)
  <2> HIDE DEF rows
  <2> QED
      BY <1>3, <1>7, SumSame
<1> QED
    BY <1>6, <1>8, <1>9

\* The carry loop balances: prefixes are the sums of the credits it is past.
LEMMA LoopInvariance ==
  Spec => [](TypeOK /\ ReplayInv /\ ExportInv /\ OrderInv /\ LoopInv)
<1>1. Init => TypeOK /\ ReplayInv /\ ExportInv /\ OrderInv /\ LoopInv
      BY TypesInit, ReplayInvInit, ExportInit, OrderInit, LoopInit
<1>2. TypeOK /\ ReplayInv /\ ExportInv /\ OrderInv /\ LoopInv /\ [Next]_vars
        => TypeOK' /\ ReplayInv' /\ ExportInv' /\ OrderInv' /\ LoopInv'
      BY ReplayInvStep, TypesStep, ExportInvStep, OrderStep, LoopStep
<1> QED
    BY <1>1, <1>2, PTL DEF Spec

\* A report without differences means that some opening remainder explains every
\* credit of the interval, that the ledger paid what was credited, and that what
\* was calculated is what the shares are worth.
THEOREM MatchIsExplainedHolds == Spec => []MatchIsExplained
<1>1. TypeOK /\ ExportInv /\ LoopInv => MatchIsExplained
  <2> SUFFICES ASSUME TypeOK, ExportInv, LoopInv, phase = "report", differences = {},
                      NEW r \in Recipients
               PROVE  LET credits == {c \in view.credits : InInterval(c)}
                          entries == {x \in view.changes :
                                        InInterval(x) \/ \E c \in credits : c.id = x.tag}
                          shares == {s \in view.shares : InInterval(s) /\ s.miner = r}
                      IN /\ Explained(Of(credits, r))
                         /\ Amounts(Of(entries, r)) = Credited(Of(credits, r))
                         /\ Worth(shares) = Calculated(Of(credits, r))
      BY DEF MatchIsExplained, AccountingMatches
  <2>1. out.credits = {c \in view.credits : InInterval(c)}
        BY DEF ExportInv
  <2> QED
      BY <2>1, CreditsExplained, LedgerPays, SharesWorth
<1> QED
    BY <1>1, LoopInvariance, PTL
===============================================================================
