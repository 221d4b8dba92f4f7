---------------------------- MODULE ReceiverStore ----------------------------
(***************************************************************************)
(* The receiver's durable side (coredrp_ref/storage.py): one PostgreSQL    *)
(* database with the stream's row, the event and effect tables, and the    *)
(* sessions that own the stream one at a time.  A transaction holds the    *)
(* stream's row FOR UPDATE from its first read to its commit, so opening a *)
(* session and ingesting a batch are single steps; the commit may still be *)
(* lost on the way back to the process that asked for it.                  *)
(*                                                                         *)
(* A hash covers a whole prefix of the log, so a chain value is modelled   *)
(* as that prefix; an event's sequence is its position.  One sender, its   *)
(* lane 0.  Relay event identities are uuid4: an id names one event.       *)
(***************************************************************************)
EXTENDS Integers, Sequences

CONSTANTS
  Events,         \* events that may be offered: [id, time, through]
  Sessions,       \* database sessions, one per stream of the transport
  None,
  Epochs,         \* log epochs that may be approved
  Identities,     \* receiver id and incarnation, as one value
  AdminIds,       \* idempotency ids of bootstrap
  Logs,           \* the histories senders and copies of them may offer
  MaxBatch,       \* MAX_BATCH, in events
  MaxOpens,       \* bound: sessions opened
  MaxFaults       \* bound: lost connections and processes

ASSUME ReceiverStoreAssumption ==
  /\ \A e \in Events : e.time \in Nat /\ e.through \in Nat /\ e.through <= e.time
  /\ \A e, f \in Events : e.id = f.id => e = f
  /\ Logs \subseteq Seq(Events)
  /\ None \notin Epochs \union Identities \union Sessions
  /\ MaxBatch \in Nat /\ MaxOpens \in Nat /\ MaxFaults \in Nat

VARIABLES
  identity,       \* table identity: the receiver this database is, or None
  admin,          \* table admin: <<id, request>> pairs
  row,            \* the sender's row of table streams
  events,         \* table events of the approved epoch, in sequence
  effects,        \* table effects: one boundary per applied event
  session,        \* per session: its state and the owner number it drew
  lock,           \* the session whose backend holds the advisory lock
  faults

storeVars == <<identity, admin, row, events, effects, session, lock, faults>>
tables == <<identity, admin, row, events, effects>>

NoRow == [epoch |-> None, head |-> 0, chain |-> <<>>, owner |-> 0,
          floor |-> -1, last |-> 0]

\* new      no session       open     a live connection
\* closing  closed by its process, the backend still there
\* broken   a session whose connection the database has lost
Free == [state |-> "new", owner |-> 0]

Init ==
  /\ identity = None /\ admin = {} /\ row = NoRow
  /\ events = <<>> /\ effects = <<>>
  /\ session = [s \in Sessions |-> Free] /\ lock = None
  /\ faults = 0

-------------------------------------------------------------------------------
(* bootstrap: one transaction under an advisory transaction lock. *)

BootstrapCode(id, req) ==
  IF \E a \in admin : a[1] = id
    THEN IF <<id, req>> \in admin THEN "done" ELSE "IDEMPOTENCY_KEY_CONFLICT"
  ELSE IF identity # None /\ identity # req.identity THEN "ADMIN_ACTION_CONFLICT"
  ELSE IF row.epoch # None THEN "ADMIN_ACTION_CONFLICT"
  ELSE "ok"

Bootstrap(id, req) ==
  /\ BootstrapCode(id, req) = "ok"
  /\ identity' = req.identity
  /\ row' = [NoRow EXCEPT !.epoch = req.epoch]
  /\ admin' = admin \union {<<id, req>>}
  /\ UNCHANGED <<events, effects, session, lock, faults>>

-------------------------------------------------------------------------------
(* Session.__init__: the advisory lock, then the row. *)

Prefix(log, n) == SubSeq(log, 1, n)

NoLock == TRUE                     \* mutant: the advisory lock is not taken
LockFree == lock = None

\* h: a ClientHello whose contract fields have been accepted
OpenCode(h) ==
  IF ~LockFree THEN "STREAM_ALREADY_ACTIVE"
  ELSE IF row.epoch = None \/ row.epoch # h.epoch THEN "EPOCH_NOT_APPROVED"
  ELSE IF row.head > h.tail THEN "SENDER_ROLLBACK"
  ELSE IF row.head < h.ack THEN "RECEIVER_ROLLBACK"
  ELSE IF Prefix(events, h.ack) # h.ackHash THEN "SPLIT_LOG"
  ELSE "ok"

OpenSession(s, h) ==
  /\ session[s].state = "new" /\ OpenCode(h) = "ok"
  /\ lock' = s
  /\ row' = [row EXCEPT !.owner = row.owner + 1]
  /\ session' = [session EXCEPT ![s] = [state |-> "open", owner |-> row.owner + 1]]
  /\ UNCHANGED <<identity, admin, events, effects, faults>>

\* A refused session closes its connection; if it took the lock, its backend
\* holds on to it until it notices.
OpenRefused(s, h) ==
  /\ session[s].state = "new" /\ OpenCode(h) # "ok"
  /\ lock' = IF LockFree THEN s ELSE lock
  /\ session' = [session EXCEPT ![s].state = "closing"]
  /\ UNCHANGED <<tables, faults>>

CloseSession(s) ==
  /\ session[s].state \in {"open", "broken"}
  /\ session' = [session EXCEPT ![s].state = "closing"]
  /\ UNCHANGED <<tables, lock, faults>>

\* the backend of a closed connection ends, and its lock with it
BackendExit(s) ==
  /\ session[s].state = "closing"
  /\ session' = [session EXCEPT ![s] = Free]
  /\ lock' = IF lock = s THEN None ELSE lock
  /\ UNCHANGED <<tables, faults>>

\* The connection is lost under a session that does not know it yet; its backend
\* may have gone, with the lock, or may still hold it.
Disconnected(s) ==
  /\ session' = [session EXCEPT ![s].state = "broken"]
  /\ lock' \in {lock, IF lock = s THEN None ELSE lock}
  /\ faults < MaxFaults /\ faults' = faults + 1

LoseConnection(s) ==
  /\ session[s].state = "open"
  /\ Disconnected(s)
  /\ UNCHANGED tables

-------------------------------------------------------------------------------
(* Session.ingest *)

At(b, i) == b.first + i - 1
\* mutant: the ancestor's stored chain is taken from the batch
OfferedAlone(b) == Prefix(b.terminal, b.first - 1) \o b.events
Offered(b) == Prefix(events, b.first - 1) \o b.events

\* mutant: the promised boundary is not looked at
BackdatedByTime(e, last, floor) == e.time < last
Backdated(e, last, floor) == e.time < last \/ e.time <= floor \/ e.through < floor

\* Event i of the batch: the stored one again, or one that may follow.
IsReplay(b, i) == At(b, i) <= row.head
EventCode(b, i) ==
  LET e == b.events[i]
      follows == i > 1 /\ ~IsReplay(b, i - 1)
      last == IF follows THEN b.events[i - 1].time ELSE row.last
      floor == IF follows THEN b.events[i - 1].through ELSE row.floor
  IN  IF IsReplay(b, i)
        THEN IF Prefix(events, At(b, i)) = Prefix(Offered(b), At(b, i))
               THEN "ok" ELSE "EVENT_IDENTITY_MISMATCH"
      ELSE IF Backdated(e, last, floor) THEN "CHECKPOINT_BACKDATED_EVENT"
      ELSE IF \E j \in 1..(At(b, i) - 1) : Offered(b)[j].id = e.id
        THEN "EVENT_IDENTITY_MISMATCH"
      ELSE "ok"

OwnerCode(s) == IF session[s].owner = row.owner THEN "ok" ELSE "STREAM_ALREADY_ACTIVE"

\* The first check the batch fails; a transaction that fails one is rolled back.
IngestCode(s, b, window) ==
  IF Len(b.events) > MaxBatch \/ Len(b.events) > window THEN "RESOURCE_LIMIT_EXCEEDED"
  ELSE IF OwnerCode(s) # "ok" THEN OwnerCode(s)
  ELSE IF b.first > row.head + 1 THEN "SEQUENCE_GAP"
  ELSE IF Offered(b) # b.terminal THEN "CHAIN_MISMATCH"
  ELSE IF \E i \in 1..Len(b.events) : EventCode(b, i) # "ok"
    THEN EventCode(b, CHOOSE i \in 1..Len(b.events) :
           /\ EventCode(b, i) # "ok"
           /\ \A j \in 1..(i - 1) : EventCode(b, j) = "ok")
  ELSE "ok"

\* the events of the batch that are not stored yet
NewFromFirst(b) == 1               \* mutant: replayed events are applied again
\* mutant: the first new event is taken for a replay
NewFromLate(b) == IF row.head < b.first THEN 2 ELSE row.head - b.first + 3
NewFrom(b) == IF row.head < b.first THEN 1 ELSE row.head - b.first + 2
NewEvents(b) == SubSeq(b.events, NewFrom(b), Len(b.events))
Boundaries(es) == [i \in 1..Len(es) |-> es[i].through]

Inserted(b) == events \o NewEvents(b)

\* insert the events and their effects and move the head, in one transaction
Commit(b) ==
  LET new == NewEvents(b) IN
  /\ events' = Inserted(b)
  /\ effects' = effects \o Boundaries(new)
  /\ row' = IF new = <<>> THEN row
            ELSE [row EXCEPT !.head = row.head + Len(new), !.chain = b.terminal,
                             !.last = new[Len(new)].time,
                             !.floor = new[Len(new)].through]
  /\ UNCHANGED <<identity, admin>>

\* The Ack names the head after the transaction, not the end of the batch.
Ingest(s, b, window) ==
  /\ session[s].state = "open" /\ IngestCode(s, b, window) = "ok"
  /\ Commit(b)
  /\ UNCHANGED <<session, lock, faults>>

IngestRefused(s, b, window) ==
  /\ session[s].state = "open" /\ IngestCode(s, b, window) # "ok"
  /\ UNCHANGED storeVars

\* The connection fails during the transaction: the commit has happened or not,
\* and the process, which sees an error, does not know which.
IngestLost(s, b, window) ==
  /\ session[s].state = "open" /\ IngestCode(s, b, window) = "ok"
  /\ Commit(b) \/ UNCHANGED tables
  /\ Disconnected(s)

-------------------------------------------------------------------------------
Hello(epoch, log, ack) ==
  [epoch |-> epoch, tail |-> Len(log), ack |-> ack, ackHash |-> Prefix(log, ack)]
Batch(log, first, last) ==
  [first |-> first, events |-> SubSeq(log, first, last), terminal |-> Prefix(log, last)]

Requests == [identity : Identities, epoch : Epochs]

Next ==
  \/ \E id \in AdminIds, req \in Requests : Bootstrap(id, req)
  \/ \E s \in Sessions, epoch \in Epochs, log \in Logs : \E ack \in 0..Len(log) :
       \/ row.owner < MaxOpens /\ OpenSession(s, Hello(epoch, log, ack))
       \/ OpenRefused(s, Hello(epoch, log, ack))
  \/ \E s \in Sessions : CloseSession(s) \/ BackendExit(s) \/ LoseConnection(s)
  \/ \E s \in Sessions, log \in Logs, window \in 0..MaxBatch :
       \E first \in 1..Len(log) : \E last \in first..Len(log) :
         LET b == Batch(log, first, last)
         IN  Ingest(s, b, window) \/ IngestRefused(s, b, window) \/ IngestLost(s, b, window)

Spec == Init /\ [][Next]_storeVars

-------------------------------------------------------------------------------
(* Properties. *)

\* The variables have the types the module gives them.
TypeOK ==
  /\ identity \in Identities \union {None}
  /\ admin \subseteq AdminIds \X Requests
  /\ row \in [epoch : Epochs \union {None}, head : Nat, chain : Seq(Events),
              owner : Nat, floor : Int, last : Nat]
  /\ events \in Seq(Events) /\ effects \in Seq(Nat)
  /\ session \in [Sessions -> [state : {"new", "open", "closing", "broken"},
                               owner : Nat]]
  /\ lock \in Sessions \union {None}
  /\ faults \in 0..MaxFaults

\* Whatever histories are offered, in whatever pieces and order, the database
\* holds a prefix of one of them: parts of two are never put together.
OneHistory == \E log \in Logs \union {<<>>} :
  Len(events) <= Len(log) /\ events = Prefix(log, Len(events))

\* Head, chain, floors, events and effects move together: one effect for each
\* stored event, however often the event was offered.
RowMatchesTables ==
  /\ row.head = Len(events) /\ row.chain = events
  /\ effects = Boundaries(events)
  /\ events # <<>> => /\ row.last = events[row.head].time
                      /\ row.floor = events[row.head].through

\* Event time and the completeness boundary never go back in the stored log,
\* and no event is stored twice.
StoredInOrder ==
  \A i, j \in 1..Len(events) : i < j =>
    /\ events[i].id # events[j].id
    /\ events[i].time <= events[j].time /\ events[i].through < events[j].time
    /\ events[i].through <= events[j].through

\* The session with a live connection is the lock's holder and the last owner:
\* no two sessions can write, and no live one is turned away by the owner check.
LiveSessionOwnsStream ==
  \A s \in Sessions :
    session[s].state = "open" => lock = s /\ session[s].owner = row.owner

\* What has been committed, and so may have been acknowledged, is never rewritten.
StoredLogOnlyGrows ==
  [][Len(events) <= Len(events') /\ events = Prefix(events', Len(events))]_storeVars
===============================================================================
