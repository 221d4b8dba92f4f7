------------------------------ MODULE DurableLog ------------------------------
(***************************************************************************)
(* What the sender's write-ahead log promises, with no disk, no anchor and *)
(* no crash in it: a log that only grows, in which an idempotency key      *)
(* occurs once and time never goes backwards, an acknowledgement that only *)
(* advances inside the log, and answers to callers that name the place of  *)
(* a record which is in the log for good.                                  *)
(***************************************************************************)
EXTENDS Integers, Sequences

CONSTANT Record     \* the records a log may hold

VARIABLES
  log,              \* the admitted records, oldest first
  ack,              \* length of the prefix the receiver has acknowledged
  told              \* the answers given: pairs of a key and its sequence

vars == <<log, ack, told>>

LastTime == IF log = <<>> THEN 0 ELSE log[Len(log)].time
LastFloor == IF log = <<>> THEN -1 ELSE log[Len(log)].through

\* A record may follow the log: next sequence, new key, time and completeness
\* boundary no earlier than what the log has already promised.
Follows(r) ==
  /\ r.seq = Len(log) + 1
  /\ \A i \in 1..Len(log) : log[i].key # r.key
  /\ r.time >= LastTime
  /\ r.time > LastFloor
  /\ r.through >= LastFloor

Init == log = <<>> /\ ack = 0 /\ told = {}

Extend ==
  /\ \E r \in Record : Follows(r) /\ log' = Append(log, r)
  /\ UNCHANGED <<ack, told>>

Advance ==
  /\ ack' \in (ack + 1)..Len(log)
  /\ UNCHANGED <<log, told>>

Answer ==
  /\ \E i \in 1..Len(log) : told' = told \union {<<log[i].key, i>>}
  /\ UNCHANGED <<log, ack>>

Next == Extend \/ Advance \/ Answer

Spec == Init /\ [][Next]_vars
===============================================================================
