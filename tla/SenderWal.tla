------------------------------ MODULE SenderWal ------------------------------
(***************************************************************************)
(* The sender's write-ahead log (coredrp_ref/wal.py): one directory with   *)
(* events.wal, an append-only file of checksummed records, and             *)
(* anchor.json, a small state file replaced atomically.  The module keeps  *)
(* every persistence step of the code apart, so that an I/O error, a       *)
(* killed process or a loss of power may fall between any two of them.     *)
(*                                                                         *)
(* A chain hash covers a record and, through its predecessor's hash, every *)
(* record before it, and each admission draws a fresh relay_event_id       *)
(* (wire.checkpoint, uuid4).  The hash of a prefix is therefore modelled   *)
(* as the identity of its last record, 0 standing for the genesis hash;    *)
(* records carry the identity of their predecessor (the chain link).       *)
(***************************************************************************)
EXTENDS Integers, Sequences

CONSTANTS
  Requests,       \* admissions asked for: [key, time, through]
  Receivers,      \* receiver_id values a ServerHello may carry
  Incarnations,   \* receiver_database_epoch values
  None,           \* a pin that is not set
  Contracts,      \* contract checks a ServerHello fails, or "ok"
  Caps,           \* values of "cap", counted in records
  MaxWrites,      \* bound: records ever written to events.wal
  MaxFaults,      \* bound: I/O errors
  MaxCrashes      \* bound: killed processes and power losses

ASSUME SenderWalAssumption ==
  /\ \A r \in Requests : r.time \in Nat /\ r.through \in Int
  /\ None \notin Receivers \union Incarnations
  /\ Contracts \intersect {"WAL_CORRUPTION", "RECOVERY_GAP"} = {}
  /\ Caps \subseteq Nat /\ Caps # {}
  /\ MaxWrites \in Nat /\ MaxFaults \in Nat /\ MaxCrashes \in Nat

VARIABLES
  file,           \* complete records of events.wal, as the page cache has them
  torn,           \* an incomplete record follows them
  synced,         \* how many of them an fsync has made durable
  created,        \* directory entry of events.wal: absent, visible, durable
  anchor,         \* anchor.json as a reader finds it
  surviving,      \* the versions of anchor.json a power loss may leave
  mem,            \* WAL.state, the anchor's content in memory
  count,          \* len(WAL.events)
  tempClean,      \* the temporary anchor file has been fsynced
  pc,             \* the persistence step the process is about to take
  op,             \* the operation that step belongs to
  arg,            \* committed_sequence of the hello being bound
  result,         \* outcome of the last operation
  told,           \* <<key, sequence>> pairs returned to callers of admit
  announced,      \* the last remembered_ack_sequence put in a ClientHello
  fresh,          \* identities drawn so far
  faults, crashes

disk == <<file, torn, synced, created, anchor, surviving>>
proc == <<mem, count, tempClean, pc, op, arg, result>>
told_ == <<told, announced>>
bounds == <<fresh, faults, crashes>>
vars == <<disk, proc, told_, bounds>>

Record == [seq : Nat, id : Nat, prev : Nat,
           key : {r.key : r \in Requests},
           time : Nat, through : Int]

Anchor == [status : {"absent", "intact", "garbled"},
           tail : Nat, tailHash : Nat, ack : Nat, ackHash : Nat,
           receiver : Receivers \union {None},
           incarnation : Incarnations \union {None},
           bound : BOOLEAN, cap : Nat, last : Nat, floor : Int]

EmptyAnchor(status, cap) ==
  [status |-> status, tail |-> 0, tailHash |-> 0, ack |-> 0, ackHash |-> 0,
   receiver |-> None, incarnation |-> None, bound |-> FALSE,
   cap |-> cap, last |-> 0, floor |-> -1]
Genesis(cap) == EmptyAnchor("intact", cap)
NoAnchor == EmptyAnchor("absent", 0)

\* WAL.hashes[n], for n in 0..Len(file), and the time floors after n records
Hash(n) == IF n = 0 THEN 0 ELSE file[n].id
TimeAt(n) == IF n = 0 THEN 0 ELSE file[n].time
FloorAt(n) == IF n = 0 THEN -1 ELSE file[n].through

Init ==
  /\ file = <<>> /\ torn = FALSE /\ synced = 0 /\ created = "absent"
  /\ anchor = NoAnchor /\ surviving = {NoAnchor}
  /\ mem = NoAnchor /\ count = 0 /\ tempClean = FALSE
  /\ pc = "closed" /\ op = "none" /\ arg = 0 /\ result = "ok"
  /\ told = {} /\ announced = 0
  /\ fresh = 0 /\ faults = 0 /\ crashes = 0

-------------------------------------------------------------------------------
(* Closing, finishing and starting to save: what the operations share. *)

\* close(): the handle and what it knew are gone, for whatever reason
Close(code) ==
  /\ pc' = "closed" /\ op' = "none" /\ arg' = 0 /\ result' = code
  /\ mem' = NoAnchor /\ count' = 0 /\ tempClean' = FALSE

\* an operation that returns, or raises before it has changed anything
Finish(code) ==
  /\ pc' = "idle" /\ op' = "none" /\ arg' = 0 /\ result' = code
  /\ UNCHANGED <<mem, count, tempClean>>

Goto(step, o) == pc' = step /\ op' = o /\ result' = "pending"

-------------------------------------------------------------------------------
(* Opening: WAL.__init__ and recover. *)

OpenNew(identified, cap) ==
  /\ pc = "closed" /\ anchor.status = "absent"
  /\ IF identified /\ created = "absent"
       THEN /\ mem' = Genesis(cap)
            /\ Goto("anchor_write", "create")
            /\ UNCHANGED <<count, tempClean, arg>>
       ELSE Close("RECOVERY_GAP")
  /\ UNCHANGED <<disk, told_, bounds>>

\* What lines 46-54 check besides (the identity and epoch asked for, another process
\* that holds the sender's fence) only refuses an open and changes nothing here.
ReadAnchor ==
  /\ pc = "read" \/ (pc = "closed" /\ anchor.status # "absent")
  /\ IF anchor.status = "garbled" \/ (created = "absent" /\ anchor.tail # 0)
       THEN Close("WAL_CORRUPTION") /\ UNCHANGED created
       ELSE /\ mem' = anchor
            /\ created' = IF created = "absent" THEN "visible" ELSE created
            /\ Goto(IF created = "absent" THEN "newfile" ELSE "scan", "recover")
            /\ UNCHANGED <<count, tempClean, arg>>
  /\ UNCHANGED <<file, torn, synced, anchor, surviving, told_, bounds>>

\* fsync of the new, empty events.wal and of its directory
SyncNewFile ==
  /\ pc = "newfile"
  /\ created' = "durable" /\ surviving' = {anchor}
  /\ Goto("scan", "recover")
  /\ UNCHANGED <<file, torn, synced, anchor, mem, count, tempClean, arg,
                 told_, bounds>>

\* Each record whole, in sequence, linked, with a new key and no backdating.
ScanRecord(i) ==
  /\ file[i].seq = i
  /\ file[i].prev = Hash(i - 1)
  /\ \A j \in 1..(i - 1) : file[j].key # file[i].key
  /\ 0 <= file[i].through /\ file[i].through <= file[i].time
  /\ file[i].time >= TimeAt(i - 1)
  /\ file[i].time > FloorAt(i - 1)
  /\ file[i].through >= FloorAt(i - 1)

\* mutant: an anchor that lags the file is refused
ScanAnchorExact == mem.tail = Len(file) /\ mem.tailHash = Hash(mem.tail)
ScanAnchor ==
  /\ mem.tail <= Len(file) /\ mem.tailHash = Hash(mem.tail)
  /\ mem.ack <= mem.tail /\ mem.ackHash = Hash(mem.ack)

ScanOk == ~torn /\ (\A i \in 1..Len(file) : ScanRecord(i)) /\ ScanAnchor

Scan ==
  /\ pc = "scan"
  /\ IF ScanOk
       THEN /\ count' = Len(file)
            /\ Goto("recovery_fsync", "recover")
            /\ UNCHANGED <<mem, tempClean, arg>>
       ELSE Close("WAL_CORRUPTION")
  /\ UNCHANGED <<disk, told_, bounds>>

\* state.update(tail=n, tail_hash=..., last_time=..., checkpoint=...)
WithTail(a, n) == [a EXCEPT !.tail = n, !.tailHash = Hash(n),
                            !.last = TimeAt(n), !.floor = FloorAt(n)]

RecoverySkipsFsync == synced      \* mutant: the suffix is taken as durable
RecoverySynced == Len(file)

RecoveryFsync ==
  /\ pc = "recovery_fsync"
  /\ synced' = RecoverySynced
  /\ mem' = WithTail(mem, Len(file))
  /\ Goto("anchor_write", "recover")
  /\ UNCHANGED <<file, torn, created, anchor, surviving, count, tempClean, arg,
                 told_, bounds>>

-------------------------------------------------------------------------------
(* atomic(): the four persistence steps of every save. *)

AnchorWrite ==
  /\ pc = "anchor_write"
  /\ tempClean' = FALSE
  /\ Goto("anchor_fsync", op)
  /\ UNCHANGED <<disk, mem, count, arg, told_, bounds>>

AnchorFsync ==
  /\ pc = "anchor_fsync"
  /\ tempClean' = TRUE
  /\ Goto("anchor_replace", op)
  /\ UNCHANGED <<disk, mem, count, arg, told_, bounds>>

\* A rename that outlives data not yet synced leaves an unreadable file.
AnchorReplace ==
  /\ pc = "anchor_replace"
  /\ anchor' = mem
  /\ surviving' = surviving \union
       {IF tempClean THEN mem ELSE [mem EXCEPT !.status = "garbled"]}
  /\ Goto("anchor_directory_fsync", op)
  /\ UNCHANGED <<file, torn, synced, created, mem, count, tempClean, arg,
                 told_, bounds>>

SyncSkipsDirectory == surviving   \* mutant: the rename is never made durable
SyncedAnchors == {anchor}

\* What follows the save: reading the anchor just created, the in-memory append
\* of admit, the acknowledgement that ends bind, or the end of the operation.
AnchorDirectoryFsync ==
  /\ pc = "anchor_directory_fsync"
  /\ surviving' = SyncedAnchors
  /\ created' = IF created = "visible" THEN "durable" ELSE created
  /\ \/ op = "create" /\ Goto("read", op) /\ UNCHANGED <<mem, count, tempClean, arg>>
     \/ op = "admit" /\ Goto("return", op) /\ UNCHANGED <<mem, count, tempClean, arg>>
     \/ op = "bind" /\ Goto("bind_ack", op) /\ UNCHANGED <<mem, count, tempClean, arg>>
     \/ op \in {"recover", "ack", "cap"} /\ Finish("ok")
  /\ UNCHANGED <<file, torn, synced, anchor, told_, bounds>>

-------------------------------------------------------------------------------
(* admit_checkpoint *)

HeldNever(key) == {}              \* mutant: keys are not remembered
Held(key) == {i \in 1..count : file[i].key = key}

SameRequest(i, r) == file[i].time = r.time /\ file[i].through = r.through

\* The key has been admitted: its sequence again, or a conflict.
AdmitAgain(r) ==
  /\ pc = "idle"
  /\ \E i \in Held(r.key) :
       IF SameRequest(i, r)
         THEN Finish("ok") /\ told' = told \union {<<r.key, i>>}
         ELSE Finish("IDEMPOTENCY_KEY_CONFLICT") /\ UNCHANGED told
  /\ UNCHANGED <<disk, announced, bounds>>

\* mutant: an event may fall on the boundary that has been promised
BackdatedBefore(r) == r.time < mem.last \/ r.time < mem.floor \/ r.through < mem.floor
Backdated(r) == r.time < mem.last \/ r.time <= mem.floor \/ r.through < mem.floor

\* The first check a new request fails; "ok" when it may be written.
AdmitCode(r) ==
  IF ~mem.bound THEN "EPOCH_NOT_APPROVED"
  ELSE IF r.through < 0 \/ r.through > r.time THEN "SEMANTIC_PAYLOAD_INVALID"
  ELSE IF Backdated(r) THEN "CHECKPOINT_BACKDATED_EVENT"
  ELSE IF Len(file) + 1 > mem.cap THEN "RESOURCE_LIMIT_EXCEEDED"
  ELSE "ok"

AdmitRefused(r) ==
  /\ pc = "idle" /\ Held(r.key) = {} /\ AdmitCode(r) # "ok"
  /\ Finish(AdmitCode(r))
  /\ UNCHANGED <<disk, told_, bounds>>

NewRecord(r) ==
  [seq |-> mem.tail + 1, id |-> fresh + 1, prev |-> Hash(count),
   key |-> r.key, time |-> r.time, through |-> r.through]

AdmitWrite(r) ==
  /\ pc = "idle" /\ Held(r.key) = {} /\ AdmitCode(r) = "ok"
  /\ fresh < MaxWrites
  /\ file' = Append(file, NewRecord(r)) /\ fresh' = fresh + 1
  /\ Goto("wal_fsync", "admit")
  /\ UNCHANGED <<torn, synced, created, anchor, surviving, mem, count,
                 tempClean, arg, told_, faults, crashes>>

\* The write fails, or stops short and leaves part of the record behind.
AdmitWriteFails(r) ==
  /\ pc = "idle" /\ Held(r.key) = {} /\ AdmitCode(r) = "ok"
  /\ faults < MaxFaults /\ faults' = faults + 1
  /\ torn' \in BOOLEAN
  /\ Close("WAL_IO_FAILURE")
  /\ UNCHANGED <<file, synced, created, anchor, surviving, told_, fresh, crashes>>

AdmitSkipsFsync == synced         \* mutant: the anchor is saved at once
AdmitSynced == Len(file)

AdmitFsync ==
  /\ pc = "wal_fsync"
  /\ synced' = AdmitSynced
  /\ mem' = WithTail(mem, Len(file))
  /\ Goto("anchor_write", "admit")
  /\ UNCHANGED <<file, torn, created, anchor, surviving, count, tempClean, arg,
                 told_, bounds>>

AdmitReturn ==
  /\ pc = "return"
  /\ pc' = "idle" /\ op' = "none" /\ arg' = 0 /\ result' = "ok"
  /\ count' = count + 1
  /\ told' = told \union {<<file[mem.tail].key, mem.tail>>}
  /\ UNCHANGED <<disk, mem, tempClean, announced, bounds>>

-------------------------------------------------------------------------------
(* acknowledge, bind, increase_cap, hello, close *)

AckBounded(n) == n <= mem.tail    \* mutant: an acknowledgement may go back
AckInRange(n) == mem.ack <= n /\ n <= mem.tail

AckCode(n, digest) ==
  IF ~AckInRange(n) THEN "SENDER_ROLLBACK"
  ELSE IF Hash(n) # digest THEN "SPLIT_LOG"
  ELSE "ok"

\* the body of acknowledge, with the state and the save it shares with bind
TakeAck(n, digest) ==
  IF AckCode(n, digest) = "ok" /\ n # mem.ack
    THEN /\ mem' = [mem EXCEPT !.ack = n, !.ackHash = digest]
         /\ Goto("anchor_write", "ack") /\ arg' = 0
         /\ UNCHANGED <<count, tempClean>>
    ELSE Finish(AckCode(n, digest))

Acknowledge(n, digest) ==
  /\ pc = "idle"
  /\ TakeAck(n, digest)
  /\ UNCHANGED <<disk, told_, bounds>>

SameDatabase(h) == FALSE          \* mutant: the incarnation is not compared
OtherIncarnation(h) == mem.receiver # None /\ mem.incarnation # h.incarnation

\* h, digest: a ServerHello and its committed_chain_hash
BindCode(h, digest) ==
  IF mem.receiver # None /\ mem.receiver # h.receiver THEN "RECEIVER_ID_CHANGED"
  ELSE IF OtherIncarnation(h) THEN "RECEIVER_INCARNATION_CHANGED"
  ELSE IF h.contract # "ok" THEN h.contract
  ELSE IF h.seq > mem.tail THEN "SENDER_ROLLBACK"
  ELSE IF h.seq < mem.ack THEN "RECEIVER_ROLLBACK"
  ELSE IF Hash(h.seq) # digest THEN "SPLIT_LOG"
  ELSE "ok"

Bind(h, digest) ==
  /\ pc = "idle"
  /\ IF BindCode(h, digest) = "ok"
       THEN /\ mem' = [mem EXCEPT !.receiver = h.receiver,
                                  !.incarnation = h.incarnation, !.bound = TRUE]
            /\ Goto("anchor_write", "bind") /\ arg' = h.seq
            /\ UNCHANGED <<count, tempClean>>
       ELSE Finish(BindCode(h, digest))
  /\ UNCHANGED <<disk, told_, bounds>>

BindAcknowledge ==
  /\ pc = "bind_ack"
  /\ TakeAck(arg, Hash(arg))
  /\ UNCHANGED <<disk, told_, bounds>>

IncreaseCap(cap) ==
  /\ pc = "idle"
  /\ IF cap > mem.cap
       THEN /\ mem' = [mem EXCEPT !.cap = cap]
            /\ Goto("anchor_write", "cap")
            /\ UNCHANGED <<count, tempClean, arg>>
       ELSE Finish("INVALID_CAP_INCREASE")
  /\ UNCHANGED <<disk, told_, bounds>>

SendHello ==
  /\ pc = "idle"
  /\ announced' = mem.ack
  /\ UNCHANGED <<disk, proc, told, bounds>>

CloseHandle ==
  /\ pc = "idle"
  /\ Close("ok")
  /\ UNCHANGED <<disk, told_, bounds>>

\* check(): an operation on a handle that has been closed
UseClosed ==
  /\ pc = "closed" /\ result # "WAL_REOPEN_REQUIRED"
  /\ Close("WAL_REOPEN_REQUIRED")
  /\ UNCHANGED <<disk, told_, bounds>>

-------------------------------------------------------------------------------
(* Failures. *)

IoSteps == {"newfile", "recovery_fsync", "wal_fsync", "anchor_write",
            "anchor_fsync", "anchor_replace", "anchor_directory_fsync"}

\* A persistence step raises OSError before it has had its effect.  save() and
\* admit_checkpoint report it as WAL_IO_FAILURE, __init__ lets it through.
IoFault ==
  /\ pc \in IoSteps
  /\ faults < MaxFaults /\ faults' = faults + 1
  /\ Close(IF op = "create" \/ pc \in {"newfile", "recovery_fsync"}
             THEN "OSError" ELSE "WAL_IO_FAILURE")
  /\ UNCHANGED <<disk, told_, fresh, crashes>>

\* The process dies, at a hit() point or anywhere else; the kernel lives on.
ProcessCrash ==
  /\ pc # "closed"
  /\ crashes < MaxCrashes /\ crashes' = crashes + 1
  /\ Close("ok")
  /\ UNCHANGED <<disk, told_, fresh, faults>>

\* The machine stops.  What was not synced may be lost, in whole or in part.
PowerLoss ==
  /\ crashes < MaxCrashes /\ crashes' = crashes + 1
  /\ anchor' \in surviving /\ surviving' = {anchor'}
  /\ created' \in IF created = "visible" THEN {"absent", "durable"} ELSE {created}
  /\ \E n \in IF created' = "absent" THEN {0} ELSE synced..Len(file) :
       /\ file' = SubSeq(file, 1, n) /\ synced' = n
       /\ torn' \in IF torn \/ n < Len(file) THEN BOOLEAN ELSE {FALSE}
  /\ Close("ok")
  /\ UNCHANGED <<told_, fresh, faults>>

-------------------------------------------------------------------------------
Open(identified) == ReadAnchor \/ \E cap \in Caps : OpenNew(identified, cap)

\* the steps a running process takes by itself
Work == \/ pc # "closed" /\ ReadAnchor
        \/ SyncNewFile \/ Scan \/ RecoveryFsync
        \/ AnchorWrite \/ AnchorFsync \/ AnchorReplace \/ AnchorDirectoryFsync
        \/ AdmitFsync \/ AdmitReturn \/ BindAcknowledge

Hellos == [receiver : Receivers, incarnation : Incarnations,
           contract : Contracts, seq : 0..MaxWrites]

\* What a receiver may say of position n: the hash this log has there, if it
\* gets that far, or the hash of another history.
Digests(n) == {fresh + 1} \union {Hash(m) : m \in {n} \intersect (0..Len(file))}

Calls == \/ \E r \in Requests : AdmitAgain(r) \/ AdmitRefused(r) \/ AdmitWrite(r)
         \/ \E n \in 0..MaxWrites : \E d \in Digests(n) : Acknowledge(n, d)
         \/ \E h \in Hellos : \E d \in Digests(h.seq) : Bind(h, d)
         \/ \E cap \in Caps : IncreaseCap(cap)
         \/ SendHello \/ CloseHandle \/ UseClosed

Failures == \/ \E r \in Requests : AdmitWriteFails(r)
            \/ IoFault \/ ProcessCrash \/ PowerLoss

Next == (\E identified \in BOOLEAN : Open(identified)) \/ Work \/ Calls \/ Failures

Spec == Init /\ [][Next]_vars

\* Liveness: the code between two awaits of input runs on, and an operator (or
\* the loop of recovery.sync) reopens the log with the identity it was given.
Fairness == WF_vars(Work) /\ WF_vars(Open(TRUE))
FairSpec == Spec /\ Fairness

-------------------------------------------------------------------------------
(* Properties. *)

Steps == IoSteps \union {"closed", "read", "scan", "return", "bind_ack", "idle"}
Results == {"pending", "ok", "RECOVERY_GAP", "WAL_CORRUPTION", "WAL_IO_FAILURE",
            "OSError", "WAL_REOPEN_REQUIRED", "IDEMPOTENCY_KEY_CONFLICT",
            "EPOCH_NOT_APPROVED", "SEMANTIC_PAYLOAD_INVALID",
            "CHECKPOINT_BACKDATED_EVENT", "RESOURCE_LIMIT_EXCEEDED",
            "SENDER_ROLLBACK", "RECEIVER_ROLLBACK", "SPLIT_LOG",
            "RECEIVER_ID_CHANGED", "RECEIVER_INCARNATION_CHANGED",
            "INVALID_CAP_INCREASE"} \union Contracts
Ops == {"none", "create", "recover", "admit", "bind", "ack", "cap"}

\* The variables have the types the module gives them.
TypeOK ==
  /\ file \in Seq(Record) /\ torn \in BOOLEAN /\ synced \in Nat
  /\ created \in {"absent", "visible", "durable"}
  /\ anchor \in Anchor /\ surviving \subseteq Anchor
  /\ mem \in Anchor /\ count \in Nat /\ tempClean \in BOOLEAN
  /\ pc \in Steps /\ op \in Ops /\ arg \in Nat /\ result \in Results
  /\ told \subseteq {r.key : r \in Requests} \X Nat /\ announced \in Nat
  /\ fresh \in Nat /\ faults \in Nat /\ crashes \in Nat

\* "Anchor MAY lag WAL but MUST NOT lead it": whichever version of the anchor a
\* loss of power leaves, it points into the durable part of events.wal, at the
\* record whose hash it holds.
AnchorNeverLeads ==
  \A a \in surviving :
    /\ a.tail <= synced /\ a.tailHash = Hash(a.tail)
    /\ a.ack <= a.tail /\ a.ackHash = Hash(a.ack)

\* What admit returned cannot be lost: the record is in the durable part of the
\* file, at the sequence the caller was told, whatever fails from here on.
AnsweredIsDurable ==
  \A t \in told : t[2] \in 1..synced /\ file[t[2]].key = t[1]

\* A key is answered with one sequence, however many crashes, failed saves and
\* retries lie between two calls of admit.
OneSequencePerKey ==
  \A t, u \in told : t[1] = u[1] => t[2] = u[2]

\* No combination of failures makes the log refuse its own files: recovery
\* reports corruption only for a record that was cut short, and a log without
\* its anchor is one in which nothing has been admitted.
RefusesOnlyTornLogs ==
  /\ result = "WAL_CORRUPTION" => torn
  /\ result = "RECOVERY_GAP" => told = {}

\* The acknowledgement a hello has carried is never forgotten: every anchor a
\* restart may find remembers at least that much.
AnnouncedAckSurvives ==
  \A a \in surviving : announced <= a.ack

\* Once every version of the anchor a restart may find is bound to a receiver
\* (bind has returned), no later version is unbound or names another receiver.
Pinned(as, r, i) ==
  \A a \in as : a.bound /\ a.receiver = r /\ a.incarnation = i
PinsArePermanent ==
  [][\A r \in Receivers, i \in Incarnations :
       Pinned(surviving, r, i) => Pinned(surviving', r, i)]_vars

\* Once failures stop, a log comes back to service: unless its file ends in a
\* torn record, or a power loss kept the entry of an empty events.wal and not
\* the anchor created before it.
Stranded == anchor.status = "absent" /\ created # "absent"
ComesBack == (pc # "idle") ~> (pc = "idle" \/ torn \/ Stranded)

\* The durable part of the file, the acknowledgement every restart remembers
\* and the answers given behave as the abstract log.
DurableAck == CHOOSE n \in 0..MaxWrites :
  (\E a \in surviving : a.ack = n) /\ (\A a \in surviving : n <= a.ack)

Abstract == INSTANCE DurableLog WITH
  Record <- [seq : 1..MaxWrites, id : 1..MaxWrites, prev : 0..MaxWrites,
             key : {r.key : r \in Requests}, time : {r.time : r \in Requests},
             through : {r.through : r \in Requests}],
  log <- SubSeq(file, 1, synced), ack <- DurableAck
ImplementsDurableLog == Abstract!Spec

-------------------------------------------------------------------------------
(* The inductive invariant behind the safety properties. *)

AnchorSteps == {"anchor_write", "anchor_fsync", "anchor_replace",
                "anchor_directory_fsync"}

\* a points into the first n records of the file
PointsInto(a, n) ==
  /\ a.tail <= n /\ a.tailHash = Hash(a.tail)
  /\ a.ack <= a.tail /\ a.ackHash = Hash(a.ack)

\* a is the state recover() and admit_checkpoint compute after n records
DescribesFirst(a, n) ==
  /\ a.tail = n /\ a.tailHash = Hash(n)
  /\ a.last = TimeAt(n) /\ a.floor = FloorAt(n)

\* Disk: every record would pass a scan, at most one is not yet durable, and
\* every anchor a restart may find is readable and points into the durable part.
DiskInv ==
  /\ synced <= Len(file)
  /\ \A i \in 1..Len(file) : ScanRecord(i)
  /\ anchor \in surviving
  /\ \A a \in surviving :
       /\ a.status # "garbled" /\ PointsInto(a, synced) /\ announced <= a.ack
       /\ a.status = "absent" => a = NoAnchor
  /\ created # "durable" => file = <<>>

\* Memory: what the process knows at each step it may be about to take.
MemoryInv ==
  /\ pc \in {"read", "newfile", "scan", "recovery_fsync"} => anchor.status = "intact"
  /\ pc \in {"newfile", "scan"} => mem = anchor
  /\ pc \in {"newfile", "scan", "recovery_fsync"} => created # "absent"
  /\ pc = "recovery_fsync" => mem = anchor /\ count = Len(file)
  /\ pc \in AnchorSteps =>
       /\ op # "none" /\ mem.status = "intact" /\ PointsInto(mem, synced)
       /\ announced <= mem.ack
       /\ pc \in {"anchor_replace", "anchor_directory_fsync"} => tempClean
       /\ pc = "anchor_directory_fsync" => anchor = mem
  /\ pc \in AnchorSteps /\ op # "create" =>
       /\ synced = Len(file) /\ DescribesFirst(mem, synced) /\ created # "absent"
       /\ count = IF op = "admit" THEN synced - 1 ELSE synced
       /\ op = "bind" => mem.ack <= arg /\ arg <= mem.tail
  /\ pc \in {"idle", "bind_ack", "return", "wal_fsync"} =>
       /\ surviving = {mem} /\ mem.status = "intact"
       /\ DescribesFirst(mem, synced) /\ created = "durable"
       /\ count = IF pc = "return" THEN synced - 1 ELSE synced
       /\ Len(file) = IF pc = "wal_fsync" THEN synced + 1 ELSE synced
       /\ pc = "bind_ack" => mem.ack <= arg /\ arg <= mem.tail

\* The inductive invariant.
WalInv == DiskInv /\ MemoryInv /\ AnsweredIsDurable
===============================================================================
