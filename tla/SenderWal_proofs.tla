--------------------------- MODULE SenderWal_proofs ---------------------------
(***************************************************************************)
(* Proofs about SenderWal for every set of requests and receivers and      *)
(* every bound: WalInv is inductive together with TypeOK, and the safety   *)
(* properties follow from it.                                              *)
(***************************************************************************)
EXTENDS SenderWal, SequenceTheorems, TLAPS

Inv == TypeOK /\ WalInv

\* An anchor that says nothing has been written.
LEMMA EmptyAnchorFacts ==
  ASSUME NEW status \in {"absent", "intact"}, NEW cap \in Nat
  PROVE  LET a == EmptyAnchor(status, cap)
         IN  /\ a \in Anchor /\ a.status = status
             /\ a.tail = 0 /\ a.tailHash = 0 /\ a.ack = 0 /\ a.ackHash = 0
BY DEF EmptyAnchor, Anchor

LEMMA InitInv == Init => Inv
<1> SUFFICES ASSUME Init PROVE Inv
  OBVIOUS
<1>1. NoAnchor \in Anchor /\ NoAnchor.status = "absent" /\ NoAnchor.tail = 0
      /\ NoAnchor.tailHash = 0 /\ NoAnchor.ack = 0 /\ NoAnchor.ackHash = 0
  BY EmptyAnchorFacts DEF NoAnchor
<1>2. TypeOK
  BY <1>1, EmptySeq DEF Init, TypeOK, Steps, Ops, IoSteps, Results
<1>3. DiskInv
  BY <1>1 DEF Init, DiskInv, PointsInto, Hash
<1>4. MemoryInv
  BY DEF Init, MemoryInv, AnchorSteps
<1>5. AnsweredIsDurable
  BY DEF Init, AnsweredIsDurable
<1> QED
  BY <1>2, <1>3, <1>4, <1>5 DEF Inv, WalInv

-------------------------------------------------------------------------------
(* What actions share. *)

\* The hash, time and boundary after n records are numbers.
LEMMA PrefixTypes ==
  ASSUME file \in Seq(Record), NEW n \in 0..Len(file)
  PROVE  Hash(n) \in Nat /\ TimeAt(n) \in Nat /\ FloorAt(n) \in Int
<1>1. CASE n = 0
  BY <1>1 DEF Hash, TimeAt, FloorAt
<1>2. CASE n # 0
  <2>1. Len(file) \in Nat
    BY LenProperties
  <2>2. n \in 1..Len(file)
    BY <1>2, <2>1
  <2>3. file[n] \in Record
    BY <2>2, ElementOfSeq
  <2> QED
    BY <1>2, <2>3 DEF Hash, TimeAt, FloorAt, Record
<1> QED
  BY <1>1, <1>2

\* A step that leaves the files and what was announced alone keeps DiskInv.
LEMMA DiskStays ==
  ASSUME DiskInv, UNCHANGED <<file, synced, created, anchor, surviving, announced>>
  PROVE  DiskInv'
BY DEF DiskInv, ScanRecord, PointsInto, Hash, TimeAt, FloorAt

\* Closing the handle leaves nothing to know about memory.
LEMMA CloseInv ==
  ASSUME Inv, NEW code \in Results, Close(code),
         UNCHANGED <<file, synced, created, anchor, surviving, told_>>,
         torn' \in BOOLEAN, fresh' \in Nat, faults' \in Nat, crashes' \in Nat
  PROVE  Inv'
<1>1. NoAnchor \in Anchor
  BY EmptyAnchorFacts DEF NoAnchor
<1>2. MemoryInv'
  BY DEF Close, MemoryInv, AnchorSteps
<1>3. TypeOK'
  BY <1>1 DEF Inv, TypeOK, Close, told_, Steps, Ops
<1>4. DiskInv' /\ AnsweredIsDurable'
  BY DiskStays DEF Inv, WalInv, AnsweredIsDurable, told_
<1> QED
  BY <1>2, <1>3, <1>4 DEF Inv, WalInv

\* An operation that returns to the caller with the state it found.
LEMMA FinishInv ==
  ASSUME Inv, pc \in {"idle", "bind_ack"}, NEW code \in Results, Finish(code),
         UNCHANGED <<disk, told_, bounds>>
  PROVE  Inv'
<1>1. TypeOK'
  BY DEF Inv, TypeOK, Finish, disk, told_, bounds, Steps, Ops
<1>2. DiskInv' /\ AnsweredIsDurable'
  BY DiskStays DEF Inv, WalInv, AnsweredIsDurable, disk, told_
<1>3. MemoryInv'
  BY DEF Inv, WalInv, MemoryInv, AnchorSteps, Finish, disk, told_,
         DescribesFirst, Hash, TimeAt, FloorAt
<1> QED
  BY <1>1, <1>2, <1>3 DEF Inv, WalInv

\* A step of the process that leaves the disk and the answers alone.
LEMMA ProcessInv ==
  ASSUME Inv, UNCHANGED <<disk, told_, bounds>>, MemoryInv',
         mem' \in Anchor, count' \in Nat, tempClean' \in BOOLEAN,
         pc' \in Steps, op' \in Ops, arg' \in Nat, result' \in Results
  PROVE  Inv'
<1>1. TypeOK'
  BY DEF Inv, TypeOK, disk, told_, bounds
<1>2. DiskInv' /\ AnsweredIsDurable'
  BY DiskStays DEF Inv, WalInv, AnsweredIsDurable, disk, told_
<1> QED
  BY <1>1, <1>2 DEF Inv, WalInv

-------------------------------------------------------------------------------
(* Opening. *)

LEMMA OpenNewInv ==
  ASSUME Inv, NEW identified \in BOOLEAN, NEW cap \in Caps, OpenNew(identified, cap)
  PROVE  Inv'
<1>1. CASE identified /\ created = "absent"
  <2>1. Genesis(cap) \in Anchor /\ Genesis(cap).status = "intact"
        /\ Genesis(cap).tail = 0 /\ Genesis(cap).tailHash = 0
        /\ Genesis(cap).ack = 0 /\ Genesis(cap).ackHash = 0
    BY EmptyAnchorFacts, SenderWalAssumption DEF Genesis
  <2>2. announced = 0
    <3>1. anchor = NoAnchor /\ announced <= anchor.ack /\ announced \in Nat
      BY DEF Inv, WalInv, DiskInv, TypeOK, OpenNew
    <3> QED
      BY <3>1, EmptyAnchorFacts DEF NoAnchor
  <2>3. MemoryInv'
    BY <1>1, <2>1, <2>2 DEF Inv, TypeOK, OpenNew, Goto, MemoryInv, AnchorSteps,
       PointsInto, Hash, disk, told_
  <2> QED
    BY <1>1, <2>1, <2>3, ProcessInv
    DEF OpenNew, Goto, Inv, TypeOK, Steps, IoSteps, Ops, Results
<1>2. CASE ~(identified /\ created = "absent")
  <2>1. Close("RECOVERY_GAP") /\ UNCHANGED <<disk, told_, bounds>>
    BY <1>2 DEF OpenNew
  <2> QED
    BY <2>1, CloseInv DEF Results, disk, bounds, Inv, TypeOK
<1> QED
  BY <1>1, <1>2

LEMMA ReadAnchorInv == Inv /\ ReadAnchor => Inv'
<1> SUFFICES ASSUME Inv, ReadAnchor PROVE Inv'
  OBVIOUS
<1>1. CASE anchor.status = "garbled" \/ (created = "absent" /\ anchor.tail # 0)
  BY <1>1, CloseInv DEF ReadAnchor, Results, bounds, Inv, TypeOK
<1>2. CASE ~(anchor.status = "garbled" \/ (created = "absent" /\ anchor.tail # 0))
  <2>1. DiskInv'
    BY <1>2 DEF ReadAnchor, Inv, WalInv, DiskInv, told_,
       ScanRecord, PointsInto, Hash, TimeAt, FloorAt
  <2>2. TypeOK'
    BY <1>2 DEF ReadAnchor, Inv, TypeOK, Goto, told_, bounds, Steps, IoSteps, Ops, Results
  <2>3. MemoryInv'
    BY <1>2 DEF ReadAnchor, Inv, WalInv, DiskInv, TypeOK, Anchor, MemoryInv, Goto, AnchorSteps
  <2>4. AnsweredIsDurable'
    BY <1>2 DEF ReadAnchor, Inv, WalInv, AnsweredIsDurable, told_
  <2> QED
    BY <2>1, <2>2, <2>3, <2>4 DEF Inv, WalInv
<1> QED
  BY <1>1, <1>2

LEMMA SyncNewFileInv == Inv /\ SyncNewFile => Inv'
<1> SUFFICES ASSUME Inv, SyncNewFile PROVE Inv'
  OBVIOUS
<1>1. DiskInv'
  BY DEF SyncNewFile, Inv, WalInv, DiskInv, told_,
     ScanRecord, PointsInto, Hash, TimeAt, FloorAt
<1>2. TypeOK'
  BY DEF SyncNewFile, Inv, TypeOK, Goto, told_, bounds, Steps, IoSteps, Ops, Results
<1>3. MemoryInv'
  BY DEF SyncNewFile, Inv, WalInv, MemoryInv, Goto, AnchorSteps
<1>4. AnsweredIsDurable'
  BY DEF SyncNewFile, Inv, WalInv, AnsweredIsDurable, told_
<1> QED
  BY <1>1, <1>2, <1>3, <1>4 DEF Inv, WalInv

LEMMA ScanInv == Inv /\ Scan => Inv'
<1> SUFFICES ASSUME Inv, Scan PROVE Inv'
  OBVIOUS
<1>1. CASE ScanOk
  <2>1. MemoryInv'
    BY <1>1 DEF Scan, Inv, WalInv, MemoryInv, Goto, AnchorSteps, disk
  <2> QED
    BY <1>1, <2>1, ProcessInv, LenProperties
    DEF Scan, Goto, Inv, TypeOK, Steps, IoSteps, Ops, Results
<1>2. CASE ~ScanOk
  BY <1>2, CloseInv DEF Scan, Results, disk, bounds, Inv, TypeOK
<1> QED
  BY <1>1, <1>2

\* The state recover and admit save describes the whole, durable file.
LEMMA WithTailFacts ==
  ASSUME TypeOK, NEW a \in Anchor, NEW n \in 0..Len(file)
  PROVE  /\ WithTail(a, n) \in Anchor /\ DescribesFirst(WithTail(a, n), n)
         /\ WithTail(a, n).status = a.status
         /\ WithTail(a, n).ack = a.ack /\ WithTail(a, n).ackHash = a.ackHash
<1>1. Hash(n) \in Nat /\ TimeAt(n) \in Nat /\ FloorAt(n) \in Int /\ n \in Nat
  BY PrefixTypes, LenProperties DEF TypeOK
<1>2. ASSUME NEW h \in Nat, NEW t \in Nat, NEW f \in Int
      PROVE  [a EXCEPT !.tail = n, !.tailHash = h, !.last = t, !.floor = f] \in Anchor
  BY <1>1 DEF Anchor
<1>3. WithTail(a, n) \in Anchor
  BY <1>1, <1>2 DEF WithTail
<1>4. /\ WithTail(a, n).tail = n /\ WithTail(a, n).tailHash = Hash(n)
      /\ WithTail(a, n).last = TimeAt(n) /\ WithTail(a, n).floor = FloorAt(n)
  BY DEF WithTail, Anchor
<1>5. /\ WithTail(a, n).status = a.status
      /\ WithTail(a, n).ack = a.ack /\ WithTail(a, n).ackHash = a.ackHash
  BY DEF WithTail, Anchor
<1> QED
  BY <1>3, <1>4, <1>5 DEF DescribesFirst

\* Making more of the file durable keeps what was said of the durable part.
LEMMA SyncMore ==
  ASSUME Inv, synced' = Len(file), UNCHANGED <<file, created, anchor, surviving, told_>>
  PROVE  DiskInv' /\ AnsweredIsDurable'
<1>1. Len(file) \in Nat /\ synced \in Nat /\ synced <= Len(file)
  BY LenProperties DEF Inv, TypeOK, WalInv, DiskInv
<1>2. DiskInv'
  <2>1. ASSUME NEW a \in surviving
        PROVE  /\ a.status # "garbled" /\ PointsInto(a, synced)' /\ announced <= a.ack
               /\ a.status = "absent" => a = NoAnchor
    <3>1. a.tail \in Nat
      BY DEF Inv, TypeOK, Anchor
    <3> QED
      BY <1>1, <3>1 DEF Inv, WalInv, DiskInv, PointsInto, Hash
  <2>2. \A i \in 1..Len(file) : ScanRecord(i)'
    BY DEF Inv, WalInv, DiskInv, ScanRecord, Hash, TimeAt, FloorAt
  <2> QED
    BY <1>1, <2>1, <2>2 DEF Inv, WalInv, DiskInv, told_, PointsInto
<1>3. AnsweredIsDurable'
  BY <1>1 DEF Inv, TypeOK, WalInv, AnsweredIsDurable, told_
<1> QED
  BY <1>2, <1>3

LEMMA RecoveryFsyncInv == Inv /\ RecoveryFsync => Inv'
<1> SUFFICES ASSUME Inv, RecoveryFsync PROVE Inv'
  OBVIOUS
<1>1. DiskInv' /\ AnsweredIsDurable'
  BY SyncMore DEF RecoveryFsync, RecoverySynced
<1>2. /\ Len(file) \in 0..Len(file) /\ Len(file) \in Nat
      /\ mem \in Anchor /\ mem = anchor /\ mem \in surviving
      /\ mem.status = "intact" /\ count = Len(file) /\ created # "absent"
      /\ PointsInto(mem, synced) /\ announced <= mem.ack
      /\ synced \in Nat /\ synced <= Len(file)
  BY LenProperties DEF RecoveryFsync, Inv, TypeOK, WalInv, DiskInv, MemoryInv
<1>3. /\ mem' \in Anchor /\ DescribesFirst(mem', Len(file)) /\ mem'.status = "intact"
      /\ mem'.ack = mem.ack /\ mem'.ackHash = mem.ackHash
  BY <1>2, WithTailFacts DEF RecoveryFsync, Inv
<1>4. TypeOK'
  BY <1>2, <1>3 DEF RecoveryFsync, RecoverySynced, Goto, Inv, TypeOK, told_, bounds,
     Steps, IoSteps, Ops, Results
<1>5. PointsInto(mem', Len(file)) /\ announced <= mem'.ack
  BY <1>2, <1>3 DEF PointsInto, DescribesFirst, Anchor
<1>6. MemoryInv'
  BY <1>2, <1>3, <1>5 DEF RecoveryFsync, RecoverySynced, Goto, MemoryInv,
     AnchorSteps, told_, PointsInto, DescribesFirst, Hash, TimeAt, FloorAt
<1> QED
  BY <1>1, <1>4, <1>6 DEF Inv, WalInv

-------------------------------------------------------------------------------
(* The four steps of a save. *)

LEMMA AnchorWriteInv == Inv /\ AnchorWrite => Inv'
<1> SUFFICES ASSUME Inv, AnchorWrite PROVE Inv'
  OBVIOUS
<1>1. MemoryInv'
  BY DEF AnchorWrite, Inv, WalInv, MemoryInv, Goto, AnchorSteps, disk, told_,
     PointsInto, DescribesFirst, Hash, TimeAt, FloorAt
<1> QED
  BY <1>1, ProcessInv DEF AnchorWrite, Goto, Inv, TypeOK, Steps, IoSteps, Ops, Results

LEMMA AnchorFsyncInv == Inv /\ AnchorFsync => Inv'
<1> SUFFICES ASSUME Inv, AnchorFsync PROVE Inv'
  OBVIOUS
<1>1. MemoryInv'
  BY DEF AnchorFsync, Inv, WalInv, MemoryInv, Goto, AnchorSteps, disk, told_,
     PointsInto, DescribesFirst, Hash, TimeAt, FloorAt
<1> QED
  BY <1>1, ProcessInv DEF AnchorFsync, Goto, Inv, TypeOK, Steps, IoSteps, Ops, Results

LEMMA AnchorReplaceInv == Inv /\ AnchorReplace => Inv'
<1> SUFFICES ASSUME Inv, AnchorReplace PROVE Inv'
  OBVIOUS
<1>1. /\ tempClean /\ mem.status = "intact" /\ PointsInto(mem, synced)
      /\ announced <= mem.ack /\ surviving' = surviving \union {mem} /\ mem \in Anchor
  BY DEF AnchorReplace, Inv, TypeOK, WalInv, MemoryInv, AnchorSteps
<1>2. TypeOK'
  BY <1>1 DEF AnchorReplace, Goto, Inv, TypeOK, told_, bounds, Steps, IoSteps, Ops, Results
<1>3. DiskInv'
  BY <1>1 DEF AnchorReplace, Inv, WalInv, DiskInv, told_, ScanRecord, PointsInto,
     Hash, TimeAt, FloorAt
<1>4. MemoryInv'
  BY <1>1 DEF AnchorReplace, Inv, WalInv, MemoryInv, Goto, AnchorSteps, told_,
     PointsInto, DescribesFirst, Hash, TimeAt, FloorAt
<1>5. AnsweredIsDurable'
  BY DEF AnchorReplace, Inv, WalInv, AnsweredIsDurable, told_
<1> QED
  BY <1>2, <1>3, <1>4, <1>5 DEF Inv, WalInv

LEMMA AnchorDirectoryFsyncInv == Inv /\ AnchorDirectoryFsync => Inv'
<1> SUFFICES ASSUME Inv, AnchorDirectoryFsync PROVE Inv'
  OBVIOUS
<1>1. anchor = mem /\ surviving' = {mem} /\ mem.status = "intact" /\ mem \in Anchor
  BY DEF AnchorDirectoryFsync, SyncedAnchors, Inv, TypeOK, WalInv, MemoryInv, AnchorSteps
<1>2. mem' = mem /\ count' = count
  BY DEF AnchorDirectoryFsync, Finish
<1>3. TypeOK'
  BY <1>1, <1>2 DEF AnchorDirectoryFsync, Goto, Finish, Inv, TypeOK, told_, bounds,
     Steps, IoSteps, Ops, Results
<1>4. DiskInv'
  BY <1>1 DEF AnchorDirectoryFsync, Inv, WalInv, DiskInv, told_, ScanRecord,
     PointsInto, Hash, TimeAt, FloorAt
<1>5. AnsweredIsDurable'
  BY DEF AnchorDirectoryFsync, Inv, WalInv, AnsweredIsDurable, told_
<1>6. MemoryInv'
  <2>1. CASE op = "create"
    BY <1>1, <2>1 DEF AnchorDirectoryFsync, Goto, MemoryInv, AnchorSteps
  <2>2. CASE op # "create"
    <3>1. created' = "durable"
      BY <2>2 DEF AnchorDirectoryFsync, Inv, TypeOK, WalInv, MemoryInv, AnchorSteps
    <3> QED
      BY <1>1, <1>2, <2>2, <3>1 DEF AnchorDirectoryFsync, Goto, Finish, Inv, WalInv, MemoryInv,
       AnchorSteps, DescribesFirst, Hash, TimeAt, FloorAt
  <2> QED
    BY <2>1, <2>2
<1> QED
  BY <1>3, <1>4, <1>5, <1>6 DEF Inv, WalInv

-------------------------------------------------------------------------------
(* Admission. *)

\* What was said of the first m records stays true when they are kept.
LEMMA PrefixKept ==
  ASSUME NEW m \in Nat, \A i \in 1..m : file'[i] = file[i]
  PROVE  /\ \A n \in 0..m : /\ Hash(n)' = Hash(n) /\ TimeAt(n)' = TimeAt(n)
                            /\ FloorAt(n)' = FloorAt(n)
         /\ \A i \in 1..m : ScanRecord(i) => ScanRecord(i)'
<1>1. \A n \in 0..m : /\ Hash(n)' = Hash(n) /\ TimeAt(n)' = TimeAt(n)
                      /\ FloorAt(n)' = FloorAt(n)
  BY DEF Hash, TimeAt, FloorAt
<1>2. ASSUME NEW i \in 1..m, ScanRecord(i) PROVE ScanRecord(i)'
  <2>1. i - 1 \in 0..m /\ \A j \in 1..(i - 1) : j \in 1..m
    OBVIOUS
  <2>2. /\ Hash(i - 1)' = Hash(i - 1) /\ TimeAt(i - 1)' = TimeAt(i - 1)
        /\ FloorAt(i - 1)' = FloorAt(i - 1)
    BY <1>1, <2>1
  <2> QED
    BY <1>2, <2>1, <2>2 DEF ScanRecord
<1> QED
  BY <1>1, <1>2

\* An anchor that pointed into a prefix that is kept still does.
LEMMA PointsKept ==
  ASSUME NEW a \in Anchor, NEW k \in Nat, NEW m \in Nat, k <= m, PointsInto(a, k),
         \A i \in 1..m : file'[i] = file[i]
  PROVE  PointsInto(a, k)'
<1>1. a.tail \in 0..m /\ a.ack \in 0..m
  BY DEF PointsInto, Anchor
<1> QED
  BY <1>1, PrefixKept DEF PointsInto

LEMMA AdmitAgainInv ==
  ASSUME Inv, NEW r \in Requests, AdmitAgain(r)
  PROVE  Inv'
<1>1. PICK i \in Held(r.key) :
        IF SameRequest(i, r)
          THEN Finish("ok") /\ told' = told \union {<<r.key, i>>}
          ELSE Finish("IDEMPOTENCY_KEY_CONFLICT") /\ UNCHANGED told
  BY DEF AdmitAgain
<1>2. CASE ~SameRequest(i, r)
  BY <1>1, <1>2, FinishInv DEF AdmitAgain, told_, Results
<1>3. CASE SameRequest(i, r)
  <2>1. i \in 1..synced /\ file[i].key = r.key
    BY DEF AdmitAgain, Held, Inv, WalInv, MemoryInv
  <2>2. TypeOK'
    BY <1>1, <1>3, <2>1 DEF AdmitAgain, Finish, Inv, TypeOK, disk, bounds, Steps, Ops, Results
  <2>3. DiskInv'
    BY <1>1, DiskStays DEF AdmitAgain, Inv, WalInv, disk
  <2>4. MemoryInv'
    BY <1>1, <1>3 DEF AdmitAgain, Finish, Inv, WalInv, MemoryInv, AnchorSteps, disk,
       DescribesFirst, Hash, TimeAt, FloorAt
  <2>5. AnsweredIsDurable'
    BY <1>1, <1>3, <2>1 DEF AdmitAgain, Inv, WalInv, AnsweredIsDurable, disk
  <2> QED
    BY <2>2, <2>3, <2>4, <2>5 DEF Inv, WalInv
<1> QED
  BY <1>2, <1>3

LEMMA AdmitRefusedInv ==
  ASSUME Inv, NEW r \in Requests, AdmitRefused(r)
  PROVE  Inv'
BY FinishInv DEF AdmitRefused, AdmitCode, Results

\* The record a request becomes is well formed and would pass a scan.
LEMMA AdmitWriteInv ==
  ASSUME Inv, NEW r \in Requests, AdmitWrite(r)
  PROVE  Inv'
<1>0. PICK n \in Nat, rec \in {NewRecord(r)} : n = Len(file) /\ rec = NewRecord(r)
  BY LenProperties DEF Inv, TypeOK
<1>1. /\ file \in Seq(Record) /\ n = Len(file) /\ fresh \in Nat /\ mem \in Anchor
      /\ synced = n /\ count = n /\ surviving = {mem} /\ mem.status = "intact"
      /\ DescribesFirst(mem, n) /\ created = "durable" /\ PointsInto(mem, n)
      /\ announced <= mem.ack
  BY <1>0 DEF AdmitWrite, Inv, TypeOK, WalInv, DiskInv, MemoryInv
<1>2. /\ Hash(n) \in Nat /\ TimeAt(n) \in Nat /\ FloorAt(n) \in Int
  BY <1>1, PrefixTypes
<1>3. r.time \in Nat /\ r.through \in Int
  BY SenderWalAssumption
<1>4. /\ rec.seq = n + 1 /\ rec.prev = Hash(n) /\ rec.key = r.key
      /\ rec.time = r.time /\ rec.through = r.through
  BY <1>0, <1>1 DEF NewRecord, DescribesFirst
<1>5. rec \in Record
  <2>1. rec = [seq |-> n + 1, id |-> fresh + 1, prev |-> Hash(n),
               key |-> r.key, time |-> r.time, through |-> r.through]
    BY <1>0, <1>1 DEF NewRecord, DescribesFirst
  <2>2. r.key \in {q.key : q \in Requests} /\ n + 1 \in Nat /\ fresh + 1 \in Nat
    BY <1>1
  <2> QED
    BY <1>2, <1>3, <2>1, <2>2 DEF Record
<1>6. /\ file' \in Seq(Record) /\ Len(file') = n + 1 /\ file'[n + 1] = rec
      /\ \A i \in 1..n : file'[i] = file[i]
  BY <1>0, <1>1, <1>5, AppendProperties DEF AdmitWrite
<1>7. ScanRecord(n + 1)'
  <2>1. /\ 0 <= r.through /\ r.through <= r.time /\ r.time >= TimeAt(n)
        /\ r.time > FloorAt(n) /\ r.through >= FloorAt(n)
    BY <1>1, <1>2, <1>3 DEF AdmitWrite, AdmitCode, Backdated, DescribesFirst
  <2>2. \A j \in 1..n : file[j].key # r.key
    BY <1>1 DEF AdmitWrite, Held
  <2>3. Hash(n)' = Hash(n) /\ TimeAt(n)' = TimeAt(n) /\ FloorAt(n)' = FloorAt(n)
    BY <1>1, <1>6, PrefixKept
  <2>4. (n + 1) - 1 = n
    BY <1>1
  <2> QED
    BY <1>4, <1>6, <2>1, <2>2, <2>3, <2>4 DEF ScanRecord
<1>8. TypeOK'
  BY <1>1, <1>6 DEF AdmitWrite, Goto, Inv, TypeOK, told_, Steps, IoSteps, Ops, Results
<1>9. PointsInto(mem, n)' /\ UNCHANGED <<mem, surviving, anchor, announced, synced, created>>
  <2>1. UNCHANGED <<mem, surviving, anchor, announced, synced, created>>
    BY DEF AdmitWrite, told_
  <2>2. PICK a \in Anchor : a = mem
    BY <1>1
  <2>3. PointsInto(a, n)'
    BY <1>1, <1>6, <2>2, PointsKept
  <2> QED
    BY <2>1, <2>2, <2>3 DEF PointsInto, Hash
<1>10. DiskInv'
  <2>1. ASSUME NEW i \in 1..Len(file') PROVE ScanRecord(i)'
    <3>1. CASE i \in 1..n
      BY <1>1, <1>6, <3>1, PrefixKept DEF Inv, WalInv, DiskInv
    <3>2. i \in 1..n \/ i = n + 1
      BY <1>6
    <3> QED
      BY <1>7, <3>1, <3>2
  <2>2. anchor \in surviving /\ anchor = mem
    BY <1>1 DEF Inv, WalInv, DiskInv
  <2> QED
    BY <1>1, <1>6, <1>9, <2>1, <2>2 DEF DiskInv, PointsInto
<1>11. MemoryInv'
  <2>1. Hash(n)' = Hash(n) /\ TimeAt(n)' = TimeAt(n) /\ FloorAt(n)' = FloorAt(n)
    BY <1>1, <1>6, PrefixKept
  <2> QED
    BY <1>1, <1>6, <1>9, <2>1 DEF AdmitWrite, Goto, MemoryInv, AnchorSteps, DescribesFirst
<1>12. AnsweredIsDurable'
  BY <1>1, <1>6 DEF AdmitWrite, Inv, WalInv, AnsweredIsDurable, told_
<1> QED
  BY <1>8, <1>10, <1>11, <1>12 DEF Inv, WalInv

LEMMA AdmitWriteFailsInv ==
  ASSUME Inv, NEW r \in Requests, AdmitWriteFails(r)
  PROVE  Inv'
BY CloseInv DEF AdmitWriteFails, Results, Inv, TypeOK

LEMMA AdmitFsyncInv == Inv /\ AdmitFsync => Inv'
<1> SUFFICES ASSUME Inv, AdmitFsync PROVE Inv'
  OBVIOUS
<1>1. DiskInv' /\ AnsweredIsDurable'
  BY SyncMore DEF AdmitFsync, AdmitSynced
<1>2. /\ Len(file) \in 0..Len(file) /\ Len(file) \in Nat
      /\ mem \in Anchor /\ mem \in surviving /\ created = "durable"
      /\ mem.status = "intact" /\ count = Len(file) - 1
      /\ PointsInto(mem, synced) /\ announced <= mem.ack
      /\ synced \in Nat /\ synced <= Len(file)
  BY LenProperties DEF AdmitFsync, Inv, TypeOK, WalInv, DiskInv, MemoryInv
<1>3. /\ mem' \in Anchor /\ DescribesFirst(mem', Len(file)) /\ mem'.status = "intact"
      /\ mem'.ack = mem.ack /\ mem'.ackHash = mem.ackHash
  BY <1>2, WithTailFacts DEF AdmitFsync, Inv
<1>4. TypeOK'
  BY <1>2, <1>3 DEF AdmitFsync, AdmitSynced, Goto, Inv, TypeOK, told_, bounds,
     Steps, IoSteps, Ops, Results
<1>5. PointsInto(mem', Len(file)) /\ announced <= mem'.ack
  BY <1>2, <1>3 DEF PointsInto, DescribesFirst, Anchor
<1>6. MemoryInv'
  BY <1>2, <1>3, <1>5 DEF AdmitFsync, AdmitSynced, Goto, MemoryInv,
     AnchorSteps, told_, PointsInto, DescribesFirst, Hash, TimeAt, FloorAt
<1> QED
  BY <1>1, <1>4, <1>6 DEF Inv, WalInv

LEMMA AdmitReturnInv == Inv /\ AdmitReturn => Inv'
<1> SUFFICES ASSUME Inv, AdmitReturn PROVE Inv'
  OBVIOUS
<1>1. /\ mem.tail = synced /\ synced = Len(file) /\ count = synced - 1
      /\ count \in Nat /\ file \in Seq(Record) /\ synced \in 1..Len(file)
  BY LenProperties DEF AdmitReturn, Inv, TypeOK, WalInv, MemoryInv, DescribesFirst
<1>2. file[synced].key \in {r.key : r \in Requests}
  <2>1. file[synced] \in Record
    BY <1>1, ElementOfSeq
  <2> QED
    BY <2>1 DEF Record
<1>3. TypeOK'
  BY <1>1, <1>2 DEF AdmitReturn, Inv, TypeOK, disk, bounds, Steps, Ops, Results
<1>4. DiskInv'
  BY DiskStays DEF AdmitReturn, Inv, WalInv, disk
<1>5. MemoryInv'
  BY <1>1 DEF AdmitReturn, Inv, WalInv, MemoryInv, AnchorSteps, disk,
     DescribesFirst, Hash, TimeAt, FloorAt
<1>6. AnsweredIsDurable'
  BY <1>1 DEF AdmitReturn, Inv, WalInv, AnsweredIsDurable, disk
<1> QED
  BY <1>3, <1>4, <1>5, <1>6 DEF Inv, WalInv

-------------------------------------------------------------------------------
(* Acknowledgements, binding and the other calls. *)

LEMMA TakeAckInv ==
  ASSUME Inv, pc \in {"idle", "bind_ack"}, NEW n \in Nat, NEW digest \in Nat,
         TakeAck(n, digest), UNCHANGED <<disk, told_, bounds>>
  PROVE  Inv'
<1>1. CASE AckCode(n, digest) = "ok" /\ n # mem.ack
  <2>1. /\ mem' = [mem EXCEPT !.ack = n, !.ackHash = digest] /\ mem \in Anchor
        /\ mem.ack <= n /\ n <= mem.tail /\ Hash(n) = digest
    BY <1>1 DEF TakeAck, AckCode, AckInRange, Inv, TypeOK
  <2>2. mem' \in Anchor
    BY <2>1 DEF Anchor
  <2>3. /\ mem'.status = mem.status /\ mem'.ack = n /\ mem'.ackHash = digest
        /\ mem'.tail = mem.tail /\ mem'.tailHash = mem.tailHash
        /\ mem'.last = mem.last /\ mem'.floor = mem.floor
    BY <2>1 DEF Anchor
  <2>4. /\ PointsInto(mem, synced) /\ DescribesFirst(mem, synced) /\ announced <= mem.ack
        /\ mem.status = "intact" /\ count = synced /\ Len(file) = synced
        /\ created = "durable" /\ announced \in Nat
    BY DEF Inv, TypeOK, WalInv, DiskInv, MemoryInv
  <2>5. PointsInto(mem', synced) /\ DescribesFirst(mem', synced) /\ announced <= mem'.ack
    BY <2>1, <2>3, <2>4 DEF PointsInto, DescribesFirst, Anchor
  <2>6. MemoryInv'
    BY <1>1, <2>3, <2>4, <2>5 DEF TakeAck, Goto, MemoryInv, AnchorSteps, disk, told_,
       PointsInto, DescribesFirst, Hash, TimeAt, FloorAt
  <2> QED
    BY <1>1, <2>2, <2>6, ProcessInv
    DEF TakeAck, Goto, Inv, TypeOK, Steps, IoSteps, Ops, Results
<1>2. CASE ~(AckCode(n, digest) = "ok" /\ n # mem.ack)
  BY <1>2, FinishInv DEF TakeAck, AckCode, Results
<1> QED
  BY <1>1, <1>2

\* What a receiver may say is a number.
LEMMA DigestTypes ==
  ASSUME Inv, NEW n, NEW d \in Digests(n)
  PROVE  d \in Nat
BY PrefixTypes DEF Digests, Inv, TypeOK

LEMMA AcknowledgeInv ==
  ASSUME Inv, NEW n \in 0..MaxWrites, NEW d \in Digests(n), Acknowledge(n, d)
  PROVE  Inv'
BY TakeAckInv, DigestTypes, SenderWalAssumption DEF Acknowledge

LEMMA BindInv ==
  ASSUME Inv, NEW h \in Hellos, NEW d \in Digests(h.seq), Bind(h, d)
  PROVE  Inv'
<1>1. CASE BindCode(h, d) = "ok"
  <2>1. /\ mem' = [mem EXCEPT !.receiver = h.receiver,
                              !.incarnation = h.incarnation, !.bound = TRUE]
        /\ mem \in Anchor /\ h.receiver \in Receivers /\ h.incarnation \in Incarnations
        /\ h.seq \in Nat
    BY <1>1, SenderWalAssumption DEF Bind, Inv, TypeOK, Hellos
  <2>2. mem' \in Anchor
    BY <2>1 DEF Anchor
  <2>3. /\ mem'.status = mem.status /\ mem'.ack = mem.ack /\ mem'.ackHash = mem.ackHash
        /\ mem'.tail = mem.tail /\ mem'.tailHash = mem.tailHash
        /\ mem'.last = mem.last /\ mem'.floor = mem.floor
    BY <2>1 DEF Anchor
  <2>4. /\ PointsInto(mem, synced) /\ DescribesFirst(mem, synced) /\ announced <= mem.ack
        /\ mem.status = "intact" /\ count = synced /\ Len(file) = synced
        /\ created = "durable"
    BY DEF Bind, Inv, WalInv, DiskInv, MemoryInv
  <2>5. mem.ack <= h.seq /\ h.seq <= mem.tail
    BY <1>1, <2>1 DEF BindCode, Anchor
  <2>6. MemoryInv'
    BY <1>1, <2>3, <2>4, <2>5 DEF Bind, Goto, MemoryInv, AnchorSteps, disk, told_,
       PointsInto, DescribesFirst, Hash, TimeAt, FloorAt
  <2> QED
    BY <1>1, <2>1, <2>2, <2>6, ProcessInv
    DEF Bind, Goto, Inv, TypeOK, Steps, IoSteps, Ops, Results
<1>2. CASE BindCode(h, d) # "ok"
  <2>1. BindCode(h, d) \in Results
    BY DEF BindCode, Results, Hellos
  <2> QED
    BY <1>2, <2>1, FinishInv DEF Bind
<1> QED
  BY <1>1, <1>2

LEMMA BindAcknowledgeInv == Inv /\ BindAcknowledge => Inv'
<1> SUFFICES ASSUME Inv, BindAcknowledge PROVE Inv'
  OBVIOUS
<1>1. arg \in 0..Len(file) /\ file \in Seq(Record) /\ arg \in Nat
  BY DEF BindAcknowledge, Inv, TypeOK, WalInv, MemoryInv, DescribesFirst
<1> QED
  BY <1>1, PrefixTypes, TakeAckInv DEF BindAcknowledge

LEMMA IncreaseCapInv ==
  ASSUME Inv, NEW cap \in Caps, IncreaseCap(cap)
  PROVE  Inv'
<1>1. CASE cap > mem.cap
  <2>1. mem' = [mem EXCEPT !.cap = cap] /\ mem \in Anchor /\ cap \in Nat
    BY <1>1, SenderWalAssumption DEF IncreaseCap, Inv, TypeOK
  <2>2. mem' \in Anchor
    BY <2>1 DEF Anchor
  <2>3. /\ mem'.status = mem.status /\ mem'.ack = mem.ack /\ mem'.ackHash = mem.ackHash
        /\ mem'.tail = mem.tail /\ mem'.tailHash = mem.tailHash
        /\ mem'.last = mem.last /\ mem'.floor = mem.floor
    BY <2>1 DEF Anchor
  <2>4. /\ PointsInto(mem, synced) /\ DescribesFirst(mem, synced) /\ announced <= mem.ack
        /\ mem.status = "intact" /\ count = synced /\ Len(file) = synced
        /\ created = "durable"
    BY DEF IncreaseCap, Inv, WalInv, DiskInv, MemoryInv
  <2>5. MemoryInv'
    BY <1>1, <2>3, <2>4 DEF IncreaseCap, Goto, MemoryInv, AnchorSteps, disk, told_,
       PointsInto, DescribesFirst, Hash, TimeAt, FloorAt
  <2> QED
    BY <1>1, <2>2, <2>5, ProcessInv
    DEF IncreaseCap, Goto, Inv, TypeOK, Steps, IoSteps, Ops, Results
<1>2. CASE ~(cap > mem.cap)
  BY <1>2, FinishInv DEF IncreaseCap, Results
<1> QED
  BY <1>1, <1>2

LEMMA SendHelloInv == Inv /\ SendHello => Inv'
<1> SUFFICES ASSUME Inv, SendHello PROVE Inv'
  OBVIOUS
<1>1. surviving = {mem} /\ mem.ack \in Nat /\ announced' = mem.ack
  BY DEF SendHello, Inv, TypeOK, Anchor, WalInv, MemoryInv
<1>2. TypeOK'
  BY <1>1 DEF SendHello, Inv, TypeOK, disk, proc, bounds
<1>3. DiskInv'
  BY <1>1 DEF SendHello, Inv, WalInv, DiskInv, disk, ScanRecord, PointsInto,
     Hash, TimeAt, FloorAt
<1>4. MemoryInv'
  BY <1>1 DEF SendHello, Inv, WalInv, MemoryInv, AnchorSteps, disk, proc,
     DescribesFirst, Hash, TimeAt, FloorAt
<1>5. AnsweredIsDurable'
  BY DEF SendHello, Inv, WalInv, AnsweredIsDurable, disk
<1> QED
  BY <1>2, <1>3, <1>4, <1>5 DEF Inv, WalInv

LEMMA ClosingInv ==
  Inv /\ (CloseHandle \/ UseClosed \/ IoFault \/ ProcessCrash) => Inv'
<1>1. ASSUME Inv, CloseHandle PROVE Inv'
  BY <1>1, CloseInv DEF CloseHandle, Results, disk, bounds, Inv, TypeOK
<1>2. ASSUME Inv, UseClosed PROVE Inv'
  BY <1>2, CloseInv DEF UseClosed, Results, disk, bounds, Inv, TypeOK
<1>3. ASSUME Inv, IoFault PROVE Inv'
  BY <1>3, CloseInv DEF IoFault, Results, disk, Inv, TypeOK
<1>4. ASSUME Inv, ProcessCrash PROVE Inv'
  BY <1>4, CloseInv DEF ProcessCrash, Results, disk, Inv, TypeOK
<1> QED
  BY <1>1, <1>2, <1>3, <1>4

\* A power loss cuts the file back to a prefix that holds everything durable,
\* and leaves one of the anchors that may survive.
LEMMA PowerLossInv == Inv /\ PowerLoss => Inv'
<1> SUFFICES ASSUME Inv, PowerLoss PROVE Inv'
  OBVIOUS
<1>1. PICK n \in IF created' = "absent" THEN {0} ELSE synced..Len(file) :
        /\ file' = SubSeq(file, 1, n) /\ synced' = n
        /\ torn' \in IF torn \/ n < Len(file) THEN BOOLEAN ELSE {FALSE}
  BY DEF PowerLoss
<1>2. /\ file \in Seq(Record) /\ Len(file) \in Nat /\ synced \in Nat /\ synced <= Len(file)
      /\ announced' = announced /\ told' = told
  BY LenProperties DEF PowerLoss, told_, Inv, TypeOK, WalInv, DiskInv
<1>3. n \in Nat /\ synced <= n /\ n <= Len(file)
  <2>1. created' = "absent" => file = <<>>
    BY DEF PowerLoss, Inv, WalInv, DiskInv
  <2>2. file = <<>> => Len(file) = 0
    BY EmptySeq
  <2> QED
    BY <1>1, <1>2, <2>1, <2>2
<1>4. /\ file' \in Seq(Record) /\ Len(file') = n
      /\ \A i \in 1..n : file'[i] = file[i]
  <2>1. \A i \in 1..n : file[i] \in Record
    BY <1>2, <1>3, ElementOfSeq
  <2>2. /\ SubSeq(file, 1, n) \in Seq(Record)
        /\ Len(SubSeq(file, 1, n)) = IF 1 <= n THEN n - 1 + 1 ELSE 0
        /\ \A i \in 1..(n - 1 + 1) : SubSeq(file, 1, n)[i] = file[1 + i - 1]
    BY <1>3, <2>1, SubSeqProperties
  <2> QED
    BY <1>1, <1>3, <2>2
<1>5. TypeOK'
  <2>1. NoAnchor \in Anchor
    BY EmptyAnchorFacts DEF NoAnchor
  <2>2. torn' \in BOOLEAN /\ synced' \in Nat /\ crashes' \in Nat
    <3>1. torn' \in BOOLEAN
      BY <1>1, Zenon
    <3>2. synced' \in Nat
      BY <1>1, <1>3
    <3>3. crashes' \in Nat
      BY DEF PowerLoss, Inv, TypeOK
    <3> QED
      BY <3>1, <3>2, <3>3
  <2>3. surviving' \subseteq Anchor /\ anchor' \in Anchor
        /\ created' \in {"absent", "visible", "durable"}
    <3>1. created \in {"absent", "visible", "durable"} /\ surviving \subseteq Anchor
      BY DEF Inv, TypeOK
    <3>2. anchor' \in surviving /\ surviving' = {anchor'}
      BY DEF PowerLoss
    <3>3. created' \in IF created = "visible" THEN {"absent", "durable"} ELSE {created}
      BY DEF PowerLoss
    <3> QED
      BY <3>1, <3>2, <3>3
  <2> QED
    BY <1>4, <2>1, <2>2, <2>3 DEF PowerLoss, Close, Inv, TypeOK, told_, Steps, Ops, Results
<1>6. DiskInv'
  <2>1. \A i \in 1..n : ScanRecord(i)'
    BY <1>2, <1>3, <1>4, PrefixKept DEF Inv, WalInv, DiskInv
  <2>2. ASSUME NEW a \in surviving
        PROVE  /\ a.status # "garbled" /\ announced' <= a.ack
               /\ a.tail <= n /\ a.tailHash = Hash(a.tail)'
               /\ a.ack <= a.tail /\ a.ackHash = Hash(a.ack)'
               /\ a.status = "absent" => a = NoAnchor
    <3>1. a \in Anchor /\ PointsInto(a, synced)
      BY DEF Inv, TypeOK, WalInv, DiskInv
    <3>2. PICK k \in Nat : k = synced
      BY <1>2
    <3>3. PointsInto(a, k)'
      BY <1>3, <1>4, <3>1, <3>2, PointsKept
    <3>4. a.tail \in Nat
      BY <3>1 DEF Anchor
    <3> QED
      BY <1>2, <1>3, <3>2, <3>3, <3>4 DEF Inv, WalInv, DiskInv, PointsInto
  <2>3. created' # "durable" => file' = <<>>
    <3>1. created' # "durable" => n = 0
      BY <1>1, <1>2, <1>3, EmptySeq DEF PowerLoss, Inv, TypeOK, WalInv, DiskInv
    <3> QED
      BY <1>4, <3>1, EmptySeq
  <2> QED
    BY <1>1, <1>3, <1>4, <2>1, <2>2, <2>3 DEF PowerLoss, DiskInv, PointsInto
<1>7. MemoryInv'
  BY DEF PowerLoss, Close, MemoryInv, AnchorSteps
<1>8. AnsweredIsDurable'
  BY <1>1, <1>2, <1>3, <1>4 DEF Inv, TypeOK, WalInv, AnsweredIsDurable
<1> QED
  BY <1>5, <1>6, <1>7, <1>8 DEF Inv, WalInv

-------------------------------------------------------------------------------
(* The theorems. *)

LEMMA StutterInv == Inv /\ UNCHANGED vars => Inv'
<1> SUFFICES ASSUME Inv, UNCHANGED vars PROVE Inv'
  OBVIOUS
<1>1. MemoryInv'
  BY DEF vars, disk, proc, told_, bounds, Inv, WalInv, MemoryInv, AnchorSteps,
     PointsInto, DescribesFirst, Hash, TimeAt, FloorAt
<1> QED
  BY <1>1, ProcessInv DEF vars, proc, Inv, TypeOK

LEMMA StepInv == Inv /\ [Next]_vars => Inv'
<1> SUFFICES ASSUME Inv, [Next]_vars PROVE Inv'
  OBVIOUS
<1>1. CASE \E identified \in BOOLEAN : Open(identified)
  BY <1>1, OpenNewInv, ReadAnchorInv DEF Open
<1>2. CASE Work
  BY <1>2, ReadAnchorInv, SyncNewFileInv, ScanInv, RecoveryFsyncInv, AnchorWriteInv,
     AnchorFsyncInv, AnchorReplaceInv, AnchorDirectoryFsyncInv, AdmitFsyncInv,
     AdmitReturnInv, BindAcknowledgeInv DEF Work
<1>3. CASE Calls
  BY <1>3, AdmitAgainInv, AdmitRefusedInv, AdmitWriteInv, AcknowledgeInv, BindInv,
     IncreaseCapInv, SendHelloInv, ClosingInv DEF Calls
<1>4. CASE Failures
  BY <1>4, AdmitWriteFailsInv, ClosingInv, PowerLossInv DEF Failures
<1>5. CASE UNCHANGED vars
  BY <1>5, StutterInv
<1> QED
  BY <1>1, <1>2, <1>3, <1>4, <1>5 DEF Next

\* In every reachable state of the log the invariant holds, with any number of
\* requests, I/O errors, killed processes and power losses.
THEOREM Invariance == Spec => []Inv
BY InitInv, StepInv, PTL DEF Spec

\* The variables keep their types.
THEOREM TypeCorrect == Spec => []TypeOK
<1>1. Inv => TypeOK
  BY DEF Inv
<1> QED
  BY <1>1, Invariance, PTL

\* The disk, the memory and the answers stay consistent through every failure.
THEOREM WalInvariance == Spec => []WalInv
<1>1. Inv => WalInv
  BY DEF Inv
<1> QED
  BY <1>1, Invariance, PTL

\* No version of the anchor a power loss may leave leads the durable log.
THEOREM AnchorSafety == Spec => []AnchorNeverLeads
<1>1. Inv => AnchorNeverLeads
  BY DEF Inv, WalInv, DiskInv, PointsInto, AnchorNeverLeads
<1> QED
  BY <1>1, Invariance, PTL

\* An admission that has returned is durable.
THEOREM AnswerSafety == Spec => []AnsweredIsDurable
<1>1. Inv => AnsweredIsDurable
  BY DEF Inv, WalInv
<1> QED
  BY <1>1, Invariance, PTL

\* A key is answered with one sequence: two answers name two durable records of
\* that key, and the file holds one.
THEOREM AnswerUnique == Spec => []OneSequencePerKey
<1>1. Inv => OneSequencePerKey
  <2> SUFFICES ASSUME Inv, NEW t \in told, NEW u \in told, t[1] = u[1]
               PROVE  t[2] = u[2]
    BY DEF OneSequencePerKey
  <2>1. /\ synced \in Nat /\ Len(file) \in Nat /\ synced <= Len(file)
        /\ t[2] \in 1..synced /\ u[2] \in 1..synced
        /\ file[t[2]].key = file[u[2]].key
    BY LenProperties DEF Inv, TypeOK, WalInv, DiskInv, AnsweredIsDurable
  <2>2. ScanRecord(t[2]) /\ ScanRecord(u[2])
    BY <2>1 DEF Inv, WalInv, DiskInv
  <2>3. ~(t[2] < u[2])
    BY <2>1, <2>2 DEF ScanRecord
  <2>4. ~(u[2] < t[2])
    BY <2>1, <2>2 DEF ScanRecord
  <2> QED
    BY <2>1, <2>3, <2>4
<1> QED
  BY <1>1, Invariance, PTL

\* A remembered acknowledgement that has been announced is in every anchor a
\* restart may find.
THEOREM AckSafety == Spec => []AnnouncedAckSurvives
<1>1. Inv => AnnouncedAckSurvives
  BY DEF Inv, WalInv, DiskInv, AnnouncedAckSurvives
<1> QED
  BY <1>1, Invariance, PTL

-------------------------------------------------------------------------------
(* What the saves leave behind: the log refuses only files that are torn, its  *)
(* pins are permanent, and it implements DurableLog.  This needs more of the   *)
(* saves than WalInv says.                                                     *)


\* A power loss can take the anchor away only before anything was written.
AbsentIsEmpty == \A a \in surviving : a.status = "absent" => file = <<>>

\* At most one record is not durable, and then no save is under way.
OneBehind ==
  /\ Len(file) <= synced + 1
  /\ Len(file) > synced => surviving = {anchor}

\* Some version of the anchor remembers least.
SomeLeast == \E a \in surviving : \A b \in surviving : a.ack <= b.ack

\* What is being saved forgets neither an acknowledgement nor a pin that every
\* version remembers.
SaveInv == pc \in AnchorSteps =>
  /\ op = "create" => file = <<>>
  /\ \E a \in surviving : a.ack <= mem.ack
  /\ \A r \in Receivers, i \in Incarnations :
       Pinned(surviving, r, i) => Pinned({mem}, r, i)

\* Every record is of a request and has an identity of its own.
RecordsInv ==
  /\ Len(file) <= fresh /\ fresh <= MaxWrites
  /\ \A i \in 1..Len(file) :
       /\ file[i].id \in 1..fresh
       /\ \E r \in Requests : file[i].time = r.time /\ file[i].through = r.through

SavesInv ==
  /\ AbsentIsEmpty /\ OneBehind /\ SomeLeast /\ SaveInv /\ RecordsInv
  /\ RefusesOnlyTornLogs

LEMMA InitSaves == Init => SavesInv
<1> SUFFICES ASSUME Init PROVE SavesInv
  OBVIOUS
<1>1. NoAnchor.ack = 0 /\ Len(file) = 0 /\ MaxWrites \in Nat
  BY EmptyAnchorFacts, EmptySeq, SenderWalAssumption DEF Init, NoAnchor
<1> QED
  BY <1>1 DEF Init, SavesInv, AbsentIsEmpty, OneBehind, SomeLeast, SaveInv, RecordsInv,
     RefusesOnlyTornLogs, AnchorSteps

-------------------------------------------------------------------------------
(* The steps that leave the files alone. *)

\* Only memory and the result can be wrong then.
LEMMA FilesStay ==
  ASSUME SavesInv, UNCHANGED <<file, synced, anchor, surviving, fresh>>,
         SaveInv', RefusesOnlyTornLogs'
  PROVE  SavesInv'
BY DEF SavesInv, AbsentIsEmpty, OneBehind, SomeLeast, RecordsInv

\* A step that neither starts a save nor refuses.
LEMMA Quiet ==
  ASSUME SavesInv, UNCHANGED <<file, synced, anchor, surviving, fresh>>,
         pc' \notin AnchorSteps, result' \notin {"WAL_CORRUPTION", "RECOVERY_GAP"}
  PROVE  SavesInv'
BY FilesStay DEF SaveInv, RefusesOnlyTornLogs

\* A save of what an idle process knows, with the pins and an acknowledgement it
\* had, or later ones.
LEMMA IdleSave ==
  ASSUME Inv, SavesInv, surviving = {mem}, UNCHANGED <<file, synced, anchor, surviving, fresh>>,
         op' # "create", result' = "pending", mem.ack <= mem'.ack,
         mem'.bound = mem.bound, mem'.receiver = mem.receiver,
         mem'.incarnation = mem.incarnation
  PROVE  SavesInv'
<1>1. SaveInv'
  BY DEF SaveInv, Pinned
<1> QED
  BY <1>1, FilesStay DEF RefusesOnlyTornLogs

LEMMA OpenNewSaves ==
  ASSUME Inv, SavesInv, NEW identified \in BOOLEAN, NEW cap \in Caps, OpenNew(identified, cap)
  PROVE  SavesInv'
<1>1. anchor \in surviving /\ anchor = NoAnchor /\ file = <<>>
      /\ NoAnchor.bound = FALSE /\ NoAnchor.ack = 0
  BY DEF OpenNew, Inv, WalInv, DiskInv, SavesInv, AbsentIsEmpty, NoAnchor, EmptyAnchor
<1>2. told = {}
  <2>1. Len(file) = 0 /\ synced \in Nat /\ synced <= Len(file)
    BY <1>1, EmptySeq DEF Inv, TypeOK, WalInv, DiskInv
  <2> QED
    BY <2>1 DEF Inv, WalInv, AnsweredIsDurable
<1>3. CASE identified /\ created = "absent"
  <2>1. mem' = Genesis(cap) /\ Genesis(cap).ack = 0 /\ result' = "pending"
    BY <1>3 DEF OpenNew, Goto, Genesis, EmptyAnchor
  <2>2. SaveInv'
    BY <1>1, <2>1 DEF OpenNew, SaveInv, Pinned, disk
  <2> QED
    BY <2>1, <2>2, FilesStay DEF OpenNew, RefusesOnlyTornLogs, disk, bounds
<1>4. CASE ~(identified /\ created = "absent")
  BY <1>2, <1>4, FilesStay
  DEF OpenNew, Close, SaveInv, AnchorSteps, RefusesOnlyTornLogs, disk, told_, bounds
<1> QED
  BY <1>3, <1>4

\* An anchor is never garbled, and a log that is not there is one of length 0.
LEMMA ReadAnchorSaves == Inv /\ SavesInv /\ ReadAnchor => SavesInv'
<1> SUFFICES ASSUME Inv, SavesInv, ReadAnchor PROVE SavesInv'
  OBVIOUS
<1>1. anchor \in surviving /\ anchor \in Anchor /\ anchor.status # "garbled"
      /\ anchor.tail \in Nat /\ anchor.tail <= synced /\ synced <= Len(file) /\ synced \in Nat
  BY DEF Inv, TypeOK, WalInv, DiskInv, PointsInto, Anchor
<1>2. created = "absent" => anchor.tail = 0
  <2>1. created = "absent" => Len(file) = 0
    BY EmptySeq DEF Inv, WalInv, DiskInv
  <2> QED
    BY <1>1, <2>1
<1> QED
  BY <1>1, <1>2, Quiet DEF ReadAnchor, Goto, AnchorSteps, bounds

\* Every record passes and the anchor points into the file: only a torn record is
\* left to refuse.
LEMMA ScanSaves == Inv /\ SavesInv /\ Scan => SavesInv'
<1> SUFFICES ASSUME Inv, SavesInv, Scan PROVE SavesInv'
  OBVIOUS
<1>1. CASE ScanOk
  BY <1>1, Quiet DEF Scan, Goto, AnchorSteps, disk, bounds
<1>2. CASE ~ScanOk
  <2>1. mem = anchor /\ anchor \in surviving /\ mem \in Anchor /\ PointsInto(mem, synced)
        /\ synced <= Len(file) /\ synced \in Nat /\ Len(file) \in Nat
    BY LenProperties DEF Scan, Inv, TypeOK, WalInv, DiskInv, MemoryInv
  <2>2. ScanAnchor
    BY <2>1 DEF ScanAnchor, PointsInto, Anchor
  <2>3. torn
    BY <1>2, <2>2 DEF ScanOk, Inv, WalInv, DiskInv
  <2> QED
    BY <1>2, <2>3, FilesStay
    DEF Scan, Close, SaveInv, AnchorSteps, RefusesOnlyTornLogs, disk, bounds
<1> QED
  BY <1>1, <1>2

LEMMA AnchorWriteSaves == Inv /\ SavesInv /\ (AnchorWrite \/ AnchorFsync) => SavesInv'
<1> SUFFICES ASSUME Inv, SavesInv, AnchorWrite \/ AnchorFsync PROVE SavesInv'
  OBVIOUS
<1>1. SaveInv'
  BY DEF SavesInv, SaveInv, AnchorWrite, AnchorFsync, Goto, AnchorSteps, Pinned, disk
<1> QED
  BY <1>1, FilesStay DEF AnchorWrite, AnchorFsync, Goto, RefusesOnlyTornLogs, disk, bounds

LEMMA AdmitAnswerSaves ==
  ASSUME Inv, SavesInv, NEW r \in Requests,
         AdmitAgain(r) \/ AdmitRefused(r) \/ AdmitWriteFails(r) \/ AdmitReturn
  PROVE  SavesInv'
<1>1. CASE AdmitAgain(r)
  BY <1>1, Quiet DEF AdmitAgain, Finish, AnchorSteps, disk, bounds
<1>2. CASE AdmitRefused(r)
  BY <1>2, Quiet DEF AdmitRefused, AdmitCode, Finish, AnchorSteps, disk, bounds
<1>3. CASE AdmitWriteFails(r)
  BY <1>3, Quiet DEF AdmitWriteFails, Close, AnchorSteps
<1>4. CASE AdmitReturn
  BY <1>4, Quiet DEF AdmitReturn, AnchorSteps, disk, bounds
<1> QED
  BY <1>1, <1>2, <1>3, <1>4

LEMMA TakeAckSaves ==
  ASSUME Inv, SavesInv, pc \in {"idle", "bind_ack"}, NEW n \in Nat, NEW digest,
         TakeAck(n, digest), UNCHANGED <<disk, told_, bounds>>
  PROVE  SavesInv'
<1>1. CASE AckCode(n, digest) = "ok" /\ n # mem.ack
  <2>1. surviving = {mem} /\ mem \in Anchor /\ mem.ack <= n
        /\ mem' = [mem EXCEPT !.ack = n, !.ackHash = digest]
    BY <1>1 DEF TakeAck, AckCode, AckInRange, Inv, TypeOK, WalInv, MemoryInv
  <2>2. /\ mem'.ack = n /\ mem'.bound = mem.bound /\ mem'.receiver = mem.receiver
        /\ mem'.incarnation = mem.incarnation
    BY <2>1 DEF Anchor
  <2> QED
    BY <1>1, <2>1, <2>2, IdleSave DEF TakeAck, Goto, disk, bounds
<1>2. CASE ~(AckCode(n, digest) = "ok" /\ n # mem.ack)
  BY <1>2, Quiet DEF TakeAck, AckCode, Finish, AnchorSteps, disk, bounds
<1> QED
  BY <1>1, <1>2

\* bind goes on only with the receiver and the database that are pinned.
LEMMA BindSaves ==
  ASSUME Inv, SavesInv, NEW h \in Hellos, NEW d, Bind(h, d)
  PROVE  SavesInv'
<1>1. CASE BindCode(h, d) = "ok"
  <2>1. /\ mem' = [mem EXCEPT !.receiver = h.receiver,
                              !.incarnation = h.incarnation, !.bound = TRUE]
        /\ mem \in Anchor /\ surviving = {mem} /\ UNCHANGED <<surviving, file>>
        /\ op' = "bind" /\ result' = "pending"
    BY <1>1 DEF Bind, Goto, Inv, TypeOK, WalInv, MemoryInv, disk
  <2>2. /\ mem'.ack = mem.ack /\ mem'.bound = TRUE /\ mem'.receiver = h.receiver
        /\ mem'.incarnation = h.incarnation
    BY <2>1 DEF Anchor
  <2>3. mem.receiver # None => mem.receiver = h.receiver /\ mem.incarnation = h.incarnation
    BY <1>1 DEF BindCode, OtherIncarnation
  <2>4. ASSUME NEW r \in Receivers, NEW i \in Incarnations, Pinned(surviving', r, i)
        PROVE  Pinned({mem'}, r, i)
    <3>1. mem.receiver = r /\ mem.incarnation = i /\ r # None
      BY <2>1, <2>4, SenderWalAssumption DEF Pinned
    <3> QED
      BY <2>2, <2>3, <3>1 DEF Pinned
  <2>5. mem.ack \in Nat
    BY <2>1 DEF Anchor
  <2>6. SaveInv'
    BY <2>1, <2>2, <2>4, <2>5 DEF SaveInv, Pinned
  <2> QED
    BY <2>1, <2>6, FilesStay DEF Bind, RefusesOnlyTornLogs, disk, bounds
<1>2. CASE BindCode(h, d) # "ok"
  <2>1. BindCode(h, d) \notin {"WAL_CORRUPTION", "RECOVERY_GAP"}
    BY SenderWalAssumption DEF BindCode, Hellos
  <2> QED
    BY <1>2, <2>1, Quiet DEF Bind, Finish, AnchorSteps, disk, bounds
<1> QED
  BY <1>1, <1>2

LEMMA IncreaseCapSaves ==
  ASSUME Inv, SavesInv, NEW cap \in Caps, IncreaseCap(cap)
  PROVE  SavesInv'
<1>1. CASE cap > mem.cap
  <2>1. surviving = {mem} /\ mem \in Anchor /\ mem' = [mem EXCEPT !.cap = cap]
    BY <1>1 DEF IncreaseCap, Inv, TypeOK, WalInv, MemoryInv
  <2>2. /\ mem'.ack = mem.ack /\ mem'.bound = mem.bound /\ mem'.receiver = mem.receiver
        /\ mem'.incarnation = mem.incarnation /\ mem.ack \in Nat
    BY <2>1 DEF Anchor
  <2> QED
    BY <1>1, <2>1, <2>2, IdleSave DEF IncreaseCap, Goto, disk, bounds
<1>2. CASE ~(cap > mem.cap)
  BY <1>2, Quiet DEF IncreaseCap, Finish, AnchorSteps, disk, bounds
<1> QED
  BY <1>1, <1>2

LEMMA ClosingSaves ==
  ASSUME Inv, SavesInv, SendHello \/ CloseHandle \/ UseClosed \/ IoFault \/ ProcessCrash
  PROVE  SavesInv'
<1>1. CASE SendHello
  BY <1>1, FilesStay
  DEF SendHello, SavesInv, SaveInv, AnchorSteps, RefusesOnlyTornLogs, disk, proc, bounds
<1>2. CASE CloseHandle \/ UseClosed \/ IoFault \/ ProcessCrash
  BY <1>2, Quiet DEF CloseHandle, UseClosed, IoFault, ProcessCrash, Close, AnchorSteps,
     disk, bounds
<1> QED
  BY <1>1, <1>2

-------------------------------------------------------------------------------
(* The steps that change the disk. *)

\* Where a directory is synced, the anchor as it is read is the only one left.
LEMMA OneAnchor ==
  ASSUME Inv, SavesInv, surviving' = {anchor}, UNCHANGED <<file, synced, anchor, fresh>>,
         pc' \notin AnchorSteps, result' \notin {"WAL_CORRUPTION", "RECOVERY_GAP"}
  PROVE  SavesInv'
<1>1. anchor \in surviving /\ anchor \in Anchor /\ anchor.ack \in Nat
  BY DEF Inv, TypeOK, WalInv, DiskInv, Anchor
<1> QED
  BY <1>1 DEF SavesInv, AbsentIsEmpty, OneBehind, SomeLeast, SaveInv, RecordsInv,
     RefusesOnlyTornLogs

LEMMA DirectorySaves ==
  ASSUME Inv, SavesInv, SyncNewFile \/ AnchorDirectoryFsync
  PROVE  SavesInv'
<1>1. CASE SyncNewFile
  BY <1>1, OneAnchor DEF SyncNewFile, Goto, AnchorSteps, bounds
<1>2. CASE AnchorDirectoryFsync
  BY <1>2, OneAnchor
  DEF AnchorDirectoryFsync, SyncedAnchors, Goto, Finish, AnchorSteps, bounds
<1> QED
  BY <1>1, <1>2

\* The version that is put in place remembers what all others do.
LEMMA AnchorReplaceSaves == Inv /\ SavesInv /\ AnchorReplace => SavesInv'
<1> SUFFICES ASSUME Inv, SavesInv, AnchorReplace PROVE SavesInv'
  OBVIOUS
<1>1. /\ pc \in AnchorSteps /\ mem.status = "intact" /\ mem \in Anchor
      /\ surviving' = surviving \union {mem} /\ surviving \subseteq Anchor
      /\ UNCHANGED <<file, synced, mem, op, fresh>> /\ result' = "pending"
  BY DEF AnchorReplace, Goto, Inv, TypeOK, WalInv, MemoryInv, AnchorSteps, bounds
<1>2. /\ synced \in Nat /\ Len(file) \in Nat /\ ~(Len(file) > synced)
  <2>1. op = "create" => Len(file) = 0
    BY <1>1, EmptySeq DEF SavesInv, SaveInv
  <2>2. op # "create" => synced = Len(file)
    BY <1>1 DEF Inv, WalInv, MemoryInv
  <2> QED
    BY <2>1, <2>2, LenProperties DEF Inv, TypeOK
<1>3. SomeLeast'
  <2>1. PICK a \in surviving : \A b \in surviving : a.ack <= b.ack
    BY DEF SavesInv, SomeLeast
  <2>2. PICK b \in surviving : b.ack <= mem.ack
    BY <1>1 DEF SavesInv, SaveInv
  <2>3. a.ack \in Nat /\ b.ack \in Nat /\ mem.ack \in Nat
    BY <1>1, <2>1, <2>2 DEF Anchor
  <2> QED
    BY <1>1, <2>1, <2>2, <2>3 DEF SomeLeast
<1>4. SaveInv'
  <2>1. \E a \in surviving' : a.ack <= mem'.ack
    BY <1>1 DEF SavesInv, SaveInv
  <2>2. ASSUME NEW r \in Receivers, NEW i \in Incarnations, Pinned(surviving', r, i)
        PROVE  Pinned({mem'}, r, i)
    BY <1>1, <2>2 DEF Pinned
  <2> QED
    BY <1>1, <2>1, <2>2 DEF SavesInv, SaveInv
<1> QED
  BY <1>1, <1>2, <1>3, <1>4 DEF SavesInv, AbsentIsEmpty, OneBehind, RecordsInv,
     RefusesOnlyTornLogs

\* The log is durable and a save of its tail begins.
LEMMA FsyncSaves ==
  ASSUME Inv, SavesInv, RecoveryFsync \/ AdmitFsync
  PROVE  SavesInv'
<1>1. /\ synced' = Len(file) /\ Len(file) \in Nat /\ mem \in Anchor /\ mem \in surviving
      /\ mem' = WithTail(mem, Len(file)) /\ op' # "create" /\ result' = "pending"
      /\ UNCHANGED <<file, anchor, surviving, fresh>>
  BY LenProperties DEF RecoveryFsync, RecoverySynced, AdmitFsync, AdmitSynced, Goto,
     Inv, TypeOK, WalInv, DiskInv, MemoryInv, bounds
<1>2. /\ mem'.ack = mem.ack /\ mem'.bound = mem.bound /\ mem'.receiver = mem.receiver
      /\ mem'.incarnation = mem.incarnation /\ mem.ack \in Nat
  BY <1>1 DEF WithTail, Anchor
<1>3. SaveInv'
  BY <1>1, <1>2 DEF SaveInv, Pinned
<1> QED
  BY <1>1, <1>3 DEF SavesInv, AbsentIsEmpty, OneBehind, SomeLeast, RecordsInv,
     RefusesOnlyTornLogs

\* A record is written when all before it are durable.
LEMMA AdmitWriteSaves ==
  ASSUME Inv, SavesInv, NEW r \in Requests, AdmitWrite(r)
  PROVE  SavesInv'
<1>1. PICK n \in Nat, rec \in {NewRecord(r)} : n = Len(file)
  BY LenProperties DEF Inv, TypeOK
<1>2. /\ file \in Seq(Record) /\ file' = Append(file, rec) /\ synced = n /\ fresh \in Nat
      /\ surviving = {mem} /\ mem.status = "intact" /\ anchor \in surviving
      /\ fresh < MaxWrites /\ fresh' = fresh + 1 /\ MaxWrites \in Nat
      /\ UNCHANGED <<synced, surviving, anchor>> /\ result' = "pending"
      /\ pc' \notin AnchorSteps
  BY <1>1, SenderWalAssumption
  DEF AdmitWrite, Goto, AnchorSteps, Inv, TypeOK, WalInv, DiskInv, MemoryInv
<1>3. rec.id = fresh + 1 /\ rec.time = r.time /\ rec.through = r.through
  BY <1>1 DEF NewRecord
<1>4. Len(file') = n + 1 /\ file'[n + 1] = rec /\ \A i \in 1..n : file'[i] = file[i]
  BY <1>1, <1>2, AppendProperties
<1>5. n <= fresh
  BY <1>1 DEF SavesInv, RecordsInv
<1>6. RecordsInv'
  <2>1. ASSUME NEW i \in 1..Len(file')
        PROVE  /\ file'[i].id \in 1..fresh'
               /\ \E q \in Requests : file'[i].time = q.time /\ file'[i].through = q.through
    <3>1. CASE i \in 1..n
      <4>1. file[i].id \in 1..fresh
        BY <1>1, <3>1 DEF SavesInv, RecordsInv
      <4> QED
        BY <1>1, <1>2, <1>4, <3>1, <4>1 DEF SavesInv, RecordsInv
    <3>2. CASE i = n + 1
      BY <1>2, <1>3, <1>4, <3>2
    <3> QED
      BY <1>4, <3>1, <3>2
  <2> QED
    BY <1>2, <1>4, <1>5, <2>1 DEF RecordsInv
<1>7. AbsentIsEmpty' /\ OneBehind' /\ SomeLeast'
  BY <1>2, <1>4 DEF SavesInv, AbsentIsEmpty, OneBehind, SomeLeast
<1> QED
  BY <1>2, <1>6, <1>7 DEF SavesInv, SaveInv, RefusesOnlyTornLogs

\* What a power loss leaves of the file: a prefix with all that is durable.
LEMMA FileLeft ==
  ASSUME Inv, PowerLoss
  PROVE  /\ synced' \in synced..Len(file) /\ synced \in Nat /\ Len(file) \in Nat
         /\ file' \in Seq(Record) /\ Len(file') = synced'
         /\ \A i \in 1..synced' : file'[i] = file[i]
<1>1. PICK n \in IF created' = "absent" THEN {0} ELSE synced..Len(file) :
        file' = SubSeq(file, 1, n) /\ synced' = n
  BY DEF PowerLoss
<1>2. /\ file \in Seq(Record) /\ Len(file) \in Nat /\ synced \in Nat /\ synced <= Len(file)
  BY LenProperties DEF Inv, TypeOK, WalInv, DiskInv
<1>3. n \in Nat /\ synced <= n /\ n <= Len(file)
  <2>1. created' = "absent" => Len(file) = 0
    BY EmptySeq DEF PowerLoss, Inv, WalInv, DiskInv
  <2> QED
    BY <1>1, <1>2, <2>1
<1>4. \A i \in 1..n : file[i] \in Record
  BY <1>2, <1>3, ElementOfSeq
<1>5. /\ SubSeq(file, 1, n) \in Seq(Record)
      /\ Len(SubSeq(file, 1, n)) = IF 1 <= n THEN n - 1 + 1 ELSE 0
      /\ \A i \in 1..(n - 1 + 1) : SubSeq(file, 1, n)[i] = file[1 + i - 1]
  BY <1>3, <1>4, SubSeqProperties
<1> QED
  BY <1>1, <1>2, <1>3, <1>5

LEMMA PowerLossSaves == Inv /\ SavesInv /\ PowerLoss => SavesInv'
<1> SUFFICES ASSUME Inv, SavesInv, PowerLoss PROVE SavesInv'
  OBVIOUS
<1>1. /\ anchor' \in surviving /\ surviving' = {anchor'} /\ anchor' \in Anchor
      /\ fresh' = fresh /\ pc' \notin AnchorSteps /\ result' = "ok"
  BY DEF PowerLoss, Close, AnchorSteps, Inv, TypeOK
<1>2. /\ Len(file') <= Len(file) /\ Len(file') = synced' /\ Len(file') \in Nat
      /\ Len(file) \in Nat /\ \A i \in 1..Len(file') : file'[i] = file[i]
      /\ file' \in Seq(Record)
  BY FileLeft
<1>3. AbsentIsEmpty'
  <2>1. anchor'.status = "absent" => Len(file') = 0
    BY <1>1, <1>2, EmptySeq DEF SavesInv, AbsentIsEmpty
  <2> QED
    BY <1>1, <1>2, <2>1, EmptySeq DEF AbsentIsEmpty
<1>4. RecordsInv'
  <2>1. \A i \in 1..Len(file') : i \in 1..Len(file)
    BY <1>2
  <2>2. Len(file') <= fresh' /\ fresh' <= MaxWrites
    <3>1. Len(file) <= fresh /\ fresh <= MaxWrites /\ fresh \in Nat
      BY DEF SavesInv, RecordsInv, Inv, TypeOK
    <3> QED
      BY <1>1, <1>2, <3>1
  <2> QED
    BY <1>1, <1>2, <2>1, <2>2 DEF SavesInv, RecordsInv
<1>5. OneBehind' /\ SomeLeast'
  BY <1>1, <1>2 DEF OneBehind, SomeLeast, Anchor
<1> QED
  BY <1>1, <1>3, <1>4, <1>5 DEF SavesInv, SaveInv, RefusesOnlyTornLogs

LEMMA StepSaves == Inv /\ SavesInv /\ [Next]_vars => SavesInv'
<1> SUFFICES ASSUME Inv, SavesInv, [Next]_vars PROVE SavesInv'
  OBVIOUS
<1>1. CASE \E identified \in BOOLEAN : Open(identified)
  BY <1>1, OpenNewSaves, ReadAnchorSaves DEF Open
<1>2. CASE Work
  <2>1. CASE BindAcknowledge
    <3>1. arg \in Nat
      BY DEF Inv, TypeOK
    <3> QED
      BY <2>1, <3>1, TakeAckSaves DEF BindAcknowledge
  <2>2. CASE ReadAnchor \/ SyncNewFile \/ Scan \/ RecoveryFsync \/ AnchorWrite
             \/ AnchorFsync \/ AnchorReplace \/ AnchorDirectoryFsync \/ AdmitFsync
    BY <2>2, ReadAnchorSaves, DirectorySaves, ScanSaves, FsyncSaves, AnchorWriteSaves,
       AnchorReplaceSaves
  <2>3. CASE AdmitReturn
    BY <2>3, Quiet DEF AdmitReturn, AnchorSteps, disk, bounds
  <2> QED
    BY <1>2, <2>1, <2>2, <2>3 DEF Work
<1>3. CASE Calls
  <2>1. CASE \E r \in Requests : AdmitAgain(r) \/ AdmitRefused(r) \/ AdmitWrite(r)
    BY <2>1, AdmitAnswerSaves, AdmitWriteSaves
  <2>2. CASE \E n \in 0..MaxWrites : \E d \in Digests(n) : Acknowledge(n, d)
    BY <2>2, TakeAckSaves, SenderWalAssumption DEF Acknowledge
  <2>3. CASE \E h \in Hellos : \E d \in Digests(h.seq) : Bind(h, d)
    BY <2>3, BindSaves
  <2>4. CASE \E cap \in Caps : IncreaseCap(cap)
    BY <2>4, IncreaseCapSaves
  <2>5. CASE SendHello \/ CloseHandle \/ UseClosed
    BY <2>5, ClosingSaves
  <2> QED
    BY <1>3, <2>1, <2>2, <2>3, <2>4, <2>5 DEF Calls
<1>4. CASE Failures
  BY <1>4, AdmitAnswerSaves, ClosingSaves, PowerLossSaves DEF Failures
<1>5. CASE UNCHANGED vars
  <2>1. SaveInv'
    BY <1>5 DEF vars, disk, proc, SavesInv, SaveInv, AnchorSteps, Pinned
  <2>2. RefusesOnlyTornLogs'
    BY <1>5 DEF vars, disk, proc, told_, SavesInv, RefusesOnlyTornLogs
  <2> QED
    BY <1>5, <2>1, <2>2, FilesStay DEF vars, disk, bounds
<1> QED
  BY <1>1, <1>2, <1>3, <1>4, <1>5 DEF Next

\* What a save may leave behind, in every reachable state.
THEOREM SavesInvariance == Spec => [](Inv /\ SavesInv)
<1>1. Init => Inv /\ SavesInv
  BY InitInv, InitSaves
<1>2. Inv /\ SavesInv /\ [Next]_vars => (Inv /\ SavesInv)'
  BY StepInv, StepSaves
<1> QED
  BY <1>1, <1>2, PTL DEF Spec

\* The log refuses its own files only when a record was cut short, and reports a
\* gap only when nothing has been answered, whatever failed before.
THEOREM RefusalSafety == Spec => []RefusesOnlyTornLogs
<1>1. Inv /\ SavesInv => RefusesOnlyTornLogs
  BY DEF SavesInv
<1> QED
  BY <1>1, SavesInvariance, PTL

\* A step adds no version of the anchor but the one that is being saved.
LEMMA SurvivingStep ==
  ASSUME Inv, SavesInv, [Next]_vars
  PROVE  \/ surviving' \subseteq surviving
         \/ pc \in AnchorSteps /\ surviving' \subseteq surviving \union {mem}
<1>1. anchor \in surviving
  BY DEF Inv, WalInv, DiskInv
<1>2. CASE AnchorReplace
  <2>1. pc \in AnchorSteps /\ tempClean
    BY <1>2 DEF AnchorReplace, AnchorSteps, Inv, WalInv, MemoryInv
  <2> QED
    BY <1>2, <2>1 DEF AnchorReplace
<1>3. CASE SyncNewFile \/ AnchorDirectoryFsync \/ PowerLoss
  <2>1. CASE PowerLoss
    BY <2>1 DEF PowerLoss
  <2>2. CASE SyncNewFile \/ AnchorDirectoryFsync
    BY <1>1, <2>2 DEF SyncNewFile, AnchorDirectoryFsync, SyncedAnchors
  <2> QED
    BY <1>3, <2>1, <2>2
<1>4. CASE \E identified \in BOOLEAN : Open(identified)
  BY <1>4 DEF Open, OpenNew, ReadAnchor, disk
<1>5. CASE Work
  BY <1>2, <1>3, <1>5 DEF Work, ReadAnchor, Scan, RecoveryFsync, AnchorWrite, AnchorFsync,
     AdmitFsync, AdmitReturn, BindAcknowledge, disk
<1>6. CASE Calls
  BY <1>6 DEF Calls, AdmitAgain, AdmitRefused, AdmitWrite, Acknowledge, Bind, IncreaseCap,
     SendHello, CloseHandle, UseClosed, disk
<1>7. CASE Failures
  BY <1>3, <1>7 DEF Failures, AdmitWriteFails, IoFault, ProcessCrash, disk
<1>8. CASE UNCHANGED vars
  BY <1>8 DEF vars, disk
<1> QED
  BY <1>4, <1>5, <1>6, <1>7, <1>8 DEF Next

\* Once every version of the anchor names a receiver and a database, all later
\* ones do: no save, restart or loss of power takes the pins away.
THEOREM PinSafety == Spec => PinsArePermanent
<1>1. Inv /\ SavesInv /\ [Next]_vars =>
        [\A r \in Receivers, i \in Incarnations :
           Pinned(surviving, r, i) => Pinned(surviving', r, i)]_vars
  BY SurvivingStep DEF SavesInv, SaveInv, Pinned
<1> QED
  BY <1>1, SavesInvariance, PTL DEF Spec, PinsArePermanent

-------------------------------------------------------------------------------
(* The durable prefix, with the least acknowledgement, is the abstract log. *)

Durable == SubSeq(file, 1, synced)

\* The durable prefix holds the first records of the file.
LEMMA DurableFacts ==
  Inv => /\ synced \in Nat /\ Len(file) \in Nat /\ synced <= Len(file)
         /\ Durable \in Seq(Record) /\ Len(Durable) = synced
         /\ \A i \in 1..synced : Durable[i] = file[i] /\ file[i] \in Record
<1> SUFFICES ASSUME Inv
             PROVE  /\ synced \in Nat /\ Len(file) \in Nat /\ synced <= Len(file)
                    /\ Durable \in Seq(Record) /\ Len(Durable) = synced
                    /\ \A i \in 1..synced : Durable[i] = file[i] /\ file[i] \in Record
  OBVIOUS
<1>1. /\ file \in Seq(Record) /\ synced \in Nat /\ Len(file) \in Nat /\ synced <= Len(file)
  BY LenProperties DEF Inv, TypeOK, WalInv, DiskInv
<1>2. \A i \in 1..synced : file[i] \in Record
  BY <1>1, ElementOfSeq
<1>3. /\ SubSeq(file, 1, synced) \in Seq(Record)
      /\ Len(SubSeq(file, 1, synced)) = IF 1 <= synced THEN synced - 1 + 1 ELSE 0
      /\ \A i \in 1..(synced - 1 + 1) : SubSeq(file, 1, synced)[i] = file[1 + i - 1]
  BY <1>1, <1>2, SubSeqProperties
<1> QED
  BY <1>1, <1>2, <1>3 DEF Durable

\* DurableAck is what some version of the anchor remembers and all others exceed,
\* and it lies in the durable prefix.
LEMMA AckFacts ==
  Inv /\ SavesInv =>
    /\ DurableAck \in 0..synced /\ synced \in Nat
    /\ \E a \in surviving : a.ack = DurableAck
    /\ \A a \in surviving : DurableAck <= a.ack /\ a.ack \in 0..synced
<1> SUFFICES ASSUME Inv, SavesInv
             PROVE  /\ DurableAck \in 0..synced /\ synced \in Nat
                    /\ \E a \in surviving : a.ack = DurableAck
                    /\ \A a \in surviving : DurableAck <= a.ack /\ a.ack \in 0..synced
  OBVIOUS
<1>1. synced \in Nat /\ synced <= MaxWrites /\ MaxWrites \in Nat
  <2>1. synced <= Len(file) /\ Len(file) <= fresh /\ fresh <= MaxWrites
    BY DEF Inv, WalInv, DiskInv, SavesInv, RecordsInv
  <2>2. synced \in Nat /\ Len(file) \in Nat /\ fresh \in Nat /\ MaxWrites \in Nat
    BY LenProperties, SenderWalAssumption DEF Inv, TypeOK
  <2> QED
    BY <2>1, <2>2
<1>2. ASSUME NEW a \in surviving PROVE a.ack \in 0..synced
  <2>1. a \in Anchor /\ PointsInto(a, synced)
    BY DEF Inv, TypeOK, WalInv, DiskInv
  <2> QED
    BY <1>1, <2>1 DEF PointsInto, Anchor
<1>3. PICK least \in surviving : \A b \in surviving : least.ack <= b.ack
  BY DEF SavesInv, SomeLeast
<1>4. least.ack \in 0..MaxWrites
  BY <1>1, <1>2
<1>5. /\ DurableAck \in 0..MaxWrites /\ \E a \in surviving : a.ack = DurableAck
      /\ \A a \in surviving : DurableAck <= a.ack
  BY <1>3, <1>4 DEF DurableAck
<1> QED
  BY <1>1, <1>2, <1>5

LEMMA PrimedFacts ==
  ASSUME Inv', SavesInv'
  PROVE  /\ synced' \in Nat /\ Durable' \in Seq(Record) /\ Len(Durable') = synced'
         /\ \A i \in 1..synced' : Durable'[i] = file'[i] /\ file'[i] \in Record
         /\ DurableAck' \in 0..synced' /\ \E a \in surviving' : a.ack = DurableAck'
         /\ \A a \in surviving' : DurableAck' <= a.ack
<1>1. (Inv => /\ synced \in Nat /\ Len(file) \in Nat /\ synced <= Len(file)
              /\ Durable \in Seq(Record) /\ Len(Durable) = synced
              /\ \A i \in 1..synced : Durable[i] = file[i] /\ file[i] \in Record)'
  BY DurableFacts, PTL
<1>2. (Inv /\ SavesInv =>
         /\ DurableAck \in 0..synced /\ synced \in Nat
         /\ \E a \in surviving : a.ack = DurableAck
         /\ \A a \in surviving : DurableAck <= a.ack /\ a.ack \in 0..synced)'
  BY AckFacts, PTL
<1> QED
  BY <1>1, <1>2

\* The record after the durable prefix may follow the abstract log.
LEMMA NextFollows ==
  ASSUME Inv, SavesInv, synced < Len(file)
  PROVE  LET r == file[synced + 1]
         IN  /\ Abstract!Follows(r)
             /\ r \in [seq : 1..MaxWrites, id : 1..MaxWrites, prev : 0..MaxWrites,
                       key : {q.key : q \in Requests}, time : {q.time : q \in Requests},
                       through : {q.through : q \in Requests}]
<1> DEFINE r == file[synced + 1]
<1>1. /\ synced \in Nat /\ Len(file) \in Nat /\ synced + 1 \in 1..Len(file)
      /\ Len(Durable) = synced /\ \A i \in 1..synced : Durable[i] = file[i]
      /\ file \in Seq(Record)
  BY DurableFacts DEF Inv, TypeOK
<1>2. r \in Record /\ ScanRecord(synced + 1) /\ (synced + 1) - 1 = synced
  BY <1>1, ElementOfSeq DEF Inv, WalInv, DiskInv
<1>3. /\ r.seq = synced + 1 /\ r.prev = Hash(synced) /\ r.time >= TimeAt(synced)
      /\ r.time > FloorAt(synced) /\ r.through >= FloorAt(synced)
      /\ \A j \in 1..synced : file[j].key # r.key
  BY <1>2 DEF ScanRecord
<1>4. Abstract!LastTime = TimeAt(synced) /\ Abstract!LastFloor = FloorAt(synced)
  <2>1. Durable = <<>> <=> synced = 0
    BY <1>1, DurableFacts, EmptySeq
  <2>2. CASE synced = 0
    BY <2>1, <2>2 DEF Abstract!LastTime, Abstract!LastFloor, Durable, TimeAt, FloorAt
  <2>3. CASE synced # 0
    <3>1. synced \in 1..synced
      BY <1>1, <2>3
    <3>2. SubSeq(file, 1, synced)[Len(SubSeq(file, 1, synced))] = file[synced]
      BY <1>1, <3>1 DEF Durable
    <3> QED
      BY <2>1, <2>3, <3>2 DEF Abstract!LastTime, Abstract!LastFloor, Durable, TimeAt, FloorAt
  <2> QED
    BY <2>2, <2>3
<1>5. Abstract!Follows(r)
  BY <1>1, <1>3, <1>4 DEF Abstract!Follows, Durable
<1>6. /\ Len(file) <= fresh /\ fresh <= MaxWrites /\ fresh \in Nat /\ MaxWrites \in Nat
      /\ \A i \in 1..Len(file) : file[i].id \in 1..fresh
      /\ \E q \in Requests : r.time = q.time /\ r.through = q.through
  BY <1>1, SenderWalAssumption DEF SavesInv, RecordsInv, Inv, TypeOK
<1>7. r.prev \in 0..MaxWrites
  BY <1>1, <1>3, <1>6 DEF Hash
<1>8. r.seq \in 1..MaxWrites /\ r.id \in 1..MaxWrites
  BY <1>1, <1>3, <1>6
<1>9. r = [seq |-> r.seq, id |-> r.id, prev |-> r.prev, key |-> r.key, time |-> r.time,
           through |-> r.through]
      /\ r.key \in {q.key : q \in Requests}
  BY <1>2 DEF Record
<1>10. r.time \in {q.time : q \in Requests} /\ r.through \in {q.through : q \in Requests}
  BY <1>6
<1> HIDE DEF r
<1>11. r \in [seq : 1..MaxWrites, id : 1..MaxWrites, prev : 0..MaxWrites,
              key : {q.key : q \in Requests}, time : {q.time : q \in Requests},
              through : {q.through : q \in Requests}]
  BY <1>7, <1>8, <1>9, <1>10
<1> QED
  BY <1>5, <1>11 DEF r

\* Making at most one more record durable, and nothing else, extends the log.
LEMMA Extends ==
  ASSUME Inv, SavesInv, Inv', SavesInv', synced' \in synced..Len(file),
         \A i \in 1..synced' : file'[i] = file[i],
         DurableAck' = DurableAck, told' = told
  PROVE  [Abstract!Next]_(Abstract!vars)
<1>1. /\ synced \in Nat /\ Len(file) \in Nat /\ Len(file) <= synced + 1
      /\ Durable \in Seq(Record) /\ Len(Durable) = synced
      /\ \A i \in 1..synced : Durable[i] = file[i]
  BY DurableFacts DEF SavesInv, OneBehind
<1>2. /\ Durable' \in Seq(Record) /\ Len(Durable') = synced'
      /\ \A i \in 1..synced' : Durable'[i] = file[i]
  BY PrimedFacts
<1>3. CASE synced' = synced
  <2>1. Durable' = Durable
    BY <1>1, <1>2, <1>3, SeqEqual
  <2> QED
    BY <2>1 DEF Abstract!vars, Durable
<1>4. CASE synced' = synced + 1
  <2>1. file[synced + 1] \in Record /\ synced < Len(file)
    <3>1. synced + 1 \in 1..Len(file) /\ file \in Seq(Record)
      BY <1>1, <1>4 DEF Inv, TypeOK
    <3> QED
      BY <1>1, <3>1, ElementOfSeq
  <2>2. Durable' = Append(Durable, file[synced + 1])
    <3>1. /\ Append(Durable, file[synced + 1]) \in Seq(Record)
          /\ Len(Append(Durable, file[synced + 1])) = synced + 1
          /\ \A i \in 1..synced : Append(Durable, file[synced + 1])[i] = file[i]
          /\ Append(Durable, file[synced + 1])[synced + 1] = file[synced + 1]
      BY <1>1, <2>1, AppendProperties
    <3>2. \A i \in 1..(synced + 1) : Durable'[i] = Append(Durable, file[synced + 1])[i]
      BY <1>1, <1>2, <1>4, <3>1
    <3> QED
      BY <1>1, <1>2, <1>4, <3>1, <3>2, SeqEqual
  <2>3. Abstract!Extend
    BY <2>1, <2>2, NextFollows DEF Abstract!Extend, Durable
  <2> QED
    BY <2>3 DEF Abstract!Next
<1> QED
  BY <1>1, <1>3, <1>4

\* Versions of the anchor that go, or come with no smaller acknowledgement, let
\* it advance.
LEMMA Advances ==
  ASSUME Inv, SavesInv, Inv', SavesInv', Durable' = Durable, told' = told,
         \A a \in surviving' : DurableAck <= a.ack
  PROVE  [Abstract!Next]_(Abstract!vars)
<1>1. DurableAck \in 0..synced /\ synced \in Nat /\ Len(Durable) = synced
  BY AckFacts, DurableFacts
<1>2. DurableAck' \in 0..synced' /\ synced' = Len(Durable') /\ DurableAck <= DurableAck'
  BY PrimedFacts
<1>3. DurableAck' \in Nat /\ DurableAck' <= synced
  BY <1>1, <1>2
<1>4. CASE DurableAck' = DurableAck
  BY <1>4 DEF Abstract!vars, Durable
<1>5. CASE DurableAck' # DurableAck
  <2>1. DurableAck' \in (DurableAck + 1)..Len(Durable)
    BY <1>1, <1>2, <1>3, <1>5
  <2> QED
    BY <2>1 DEF Abstract!Next, Abstract!Advance, Durable
<1> QED
  BY <1>4, <1>5

\* An answer names a durable record.
LEMMA Answers ==
  ASSUME Inv, NEW i \in 1..synced, UNCHANGED <<file, synced, surviving>>,
         told' = told \union {<<file[i].key, i>>}
  PROVE  [Abstract!Next]_(Abstract!vars)
<1>1. Len(Durable) = synced /\ Durable[i] = file[i]
  BY DurableFacts
<1>2. DurableAck' = DurableAck /\ Durable' = Durable
  BY DEF DurableAck, Durable
<1>3. Abstract!Answer
  BY <1>1, <1>2 DEF Abstract!Answer, Durable
<1> QED
  BY <1>3 DEF Abstract!Next

\* A step that leaves the files and the answers alone is none of the abstract log's.
LEMMA Stutters ==
  ASSUME UNCHANGED <<file, synced, surviving, told>>
  PROVE  [Abstract!Next]_(Abstract!vars)
BY DEF Abstract!vars, DurableAck

LEMMA InitImplements == Init => Abstract!Init
<1> SUFFICES ASSUME Init PROVE Abstract!Init
  OBVIOUS
<1>1. Inv /\ SavesInv
  BY InitInv, InitSaves
<1>2. synced = 0 /\ told = {}
  BY DEF Init
<1>3. Durable = <<>>
  BY <1>1, <1>2, DurableFacts, EmptySeq
<1>4. DurableAck = 0
  BY <1>1, <1>2, AckFacts
<1> QED
  BY <1>2, <1>3, <1>4 DEF Abstract!Init, Durable

LEMMA SaveImplements ==
  ASSUME Inv, SavesInv, Inv', SavesInv',
         SyncNewFile \/ AnchorReplace \/ AnchorDirectoryFsync
  PROVE  [Abstract!Next]_(Abstract!vars)
<1>1. UNCHANGED <<file, synced, told>>
  BY DEF SyncNewFile, AnchorReplace, AnchorDirectoryFsync, told_
<1>2. anchor \in surviving /\ \A a \in surviving : DurableAck <= a.ack /\ a.ack \in Nat
  BY AckFacts DEF Inv, WalInv, DiskInv
<1>3. ASSUME NEW a \in surviving' PROVE DurableAck <= a.ack
  <2>1. CASE SyncNewFile \/ AnchorDirectoryFsync
    BY <1>2, <2>1 DEF SyncNewFile, AnchorDirectoryFsync, SyncedAnchors
  <2>2. CASE AnchorReplace
    <3>1. pc \in AnchorSteps /\ surviving' = surviving \union {mem} /\ mem \in Anchor
      BY <2>2 DEF AnchorReplace, AnchorSteps, Inv, TypeOK, WalInv, MemoryInv
    <3>2. PICK b \in surviving : b.ack <= mem.ack
      BY <3>1 DEF SavesInv, SaveInv
    <3>3. DurableAck <= mem.ack
      <4>1. DurableAck \in Int /\ b.ack \in Int /\ mem.ack \in Int
        BY <1>2, <3>1, <3>2, AckFacts DEF Anchor
      <4> QED
        BY <1>2, <3>2, <4>1
    <3> QED
      BY <1>2, <3>1, <3>3
  <2> QED
    BY <2>1, <2>2
<1>4. Durable' = Durable
  BY <1>1 DEF Durable
<1> QED
  BY <1>1, <1>3, <1>4, Advances

LEMMA FsyncImplements ==
  ASSUME Inv, SavesInv, Inv', SavesInv', RecoveryFsync \/ AdmitFsync
  PROVE  [Abstract!Next]_(Abstract!vars)
<1>1. synced' = Len(file) /\ UNCHANGED <<file, surviving, told>>
  BY DEF RecoveryFsync, RecoverySynced, AdmitFsync, AdmitSynced, told_
<1>2. synced' \in synced..Len(file)
  BY <1>1, DurableFacts
<1>3. DurableAck' = DurableAck
  BY <1>1 DEF DurableAck
<1> QED
  BY <1>1, <1>2, <1>3, Extends

LEMMA AnswerImplements ==
  ASSUME Inv, SavesInv, (\E r \in Requests : AdmitAgain(r)) \/ AdmitReturn
  PROVE  [Abstract!Next]_(Abstract!vars)
<1>1. ASSUME NEW r \in Requests, AdmitAgain(r) PROVE [Abstract!Next]_(Abstract!vars)
  <2>1. PICK i \in Held(r.key) :
          IF SameRequest(i, r) THEN told' = told \union {<<r.key, i>>} ELSE UNCHANGED told
    BY <1>1 DEF AdmitAgain
  <2>2. i \in 1..synced /\ file[i].key = r.key /\ UNCHANGED <<file, synced, surviving>>
    BY <1>1 DEF AdmitAgain, Held, Inv, WalInv, MemoryInv, disk
  <2> QED
    BY <2>1, <2>2, Answers, Stutters
<1>2. ASSUME AdmitReturn PROVE [Abstract!Next]_(Abstract!vars)
  <2>1. mem.tail = synced /\ count = synced - 1 /\ count \in Nat /\ synced \in Nat
    BY <1>2 DEF AdmitReturn, Inv, TypeOK, WalInv, MemoryInv, DescribesFirst
  <2>2. synced \in 1..synced
    BY <2>1
  <2>3. told' = told \union {<<file[synced].key, synced>>}
        /\ UNCHANGED <<file, synced, surviving>>
    BY <1>2, <2>1 DEF AdmitReturn, disk
  <2> QED
    BY <2>2, <2>3, Answers
<1> QED
  BY <1>1, <1>2

\* What is appended to the file is not yet in the durable prefix.
LEMMA AdmitWriteImplements ==
  ASSUME Inv, SavesInv, Inv', SavesInv', NEW r \in Requests, AdmitWrite(r)
  PROVE  [Abstract!Next]_(Abstract!vars)
<1>1. PICK rec \in {NewRecord(r)} : file' = Append(file, rec)
  BY DEF AdmitWrite
<1>2. UNCHANGED <<synced, surviving, told>>
  BY DEF AdmitWrite, told_
<1>3. file \in Seq(Record) /\ synced \in Nat /\ Len(file) \in Nat /\ synced <= Len(file)
  BY LenProperties DEF Inv, TypeOK, WalInv, DiskInv
<1>4. \A i \in 1..synced' : file'[i] = file[i]
  BY <1>1, <1>2, <1>3, AppendProperties
<1>5. synced' \in synced..Len(file) /\ DurableAck' = DurableAck
  BY <1>2, <1>3 DEF DurableAck
<1> QED
  BY <1>2, <1>4, <1>5, Extends

\* A loss of power may keep a record that was not synced, when there is one version
\* of the anchor, or choose among versions, when every record was.
LEMMA PowerLossImplements ==
  ASSUME Inv, SavesInv, Inv', SavesInv', PowerLoss
  PROVE  [Abstract!Next]_(Abstract!vars)
<1>1. /\ synced' \in synced..Len(file) /\ synced \in Nat /\ Len(file) \in Nat
      /\ \A i \in 1..synced' : file'[i] = file[i]
  BY FileLeft
<1>2. anchor' \in surviving /\ surviving' = {anchor'} /\ told' = told
  BY DEF PowerLoss, told_
<1>3. CASE synced' = synced
  <2>1. /\ Durable \in Seq(Record) /\ Len(Durable) = synced
        /\ \A i \in 1..synced : Durable[i] = file[i]
    BY DurableFacts
  <2>2. /\ Durable' \in Seq(Record) /\ Len(Durable') = synced
        /\ \A i \in 1..synced : Durable'[i] = file[i]
    BY <1>1, <1>3, PrimedFacts
  <2>3. Durable' = Durable
    BY <2>1, <2>2, SeqEqual
  <2>4. \A a \in surviving' : DurableAck <= a.ack
    BY <1>2, AckFacts
  <2> QED
    BY <1>2, <2>3, <2>4, Advances
<1>4. CASE synced' # synced
  <2>1. surviving = {anchor}
    BY <1>1, <1>4 DEF SavesInv, OneBehind
  <2>2. surviving' = surviving
    BY <1>2, <2>1
  <2>3. DurableAck' = DurableAck
    BY <2>2 DEF DurableAck
  <2> QED
    BY <1>1, <1>2, <2>3, Extends
<1> QED
  BY <1>3, <1>4

LEMMA StepImplements ==
  Inv /\ SavesInv /\ Inv' /\ SavesInv' /\ [Next]_vars => [Abstract!Next]_(Abstract!vars)
<1> SUFFICES ASSUME Inv, SavesInv, Inv', SavesInv', [Next]_vars
             PROVE  [Abstract!Next]_(Abstract!vars)
  OBVIOUS
<1>1. CASE \E identified \in BOOLEAN : Open(identified)
  <2>1. UNCHANGED <<file, synced, surviving, told>>
    BY <1>1 DEF Open, OpenNew, ReadAnchor, disk, told_
  <2> QED
    BY <2>1, Stutters
<1>2. CASE Work
  <2>1. CASE ReadAnchor \/ Scan \/ AnchorWrite \/ AnchorFsync \/ BindAcknowledge
    <3>1. UNCHANGED <<file, synced, surviving, told>>
      BY <2>1 DEF ReadAnchor, Scan, AnchorWrite, AnchorFsync, BindAcknowledge, disk, told_
    <3> QED
      BY <3>1, Stutters
  <2> QED
    BY <1>2, <2>1, SaveImplements, FsyncImplements, AnswerImplements DEF Work
<1>3. CASE Calls
  <2>1. CASE \E r \in Requests : AdmitAgain(r) \/ AdmitWrite(r)
    BY <2>1, AnswerImplements, AdmitWriteImplements
  <2>2. CASE ~\E r \in Requests : AdmitAgain(r) \/ AdmitWrite(r)
    <3>1. UNCHANGED <<file, synced, surviving, told>>
      BY <1>3, <2>2 DEF Calls, AdmitRefused, Acknowledge, Bind, IncreaseCap, SendHello,
         CloseHandle, UseClosed, disk, told_
    <3> QED
      BY <3>1, Stutters
  <2> QED
    BY <2>1, <2>2
<1>4. CASE Failures
  <2>1. CASE PowerLoss
    BY <2>1, PowerLossImplements
  <2>2. CASE ~PowerLoss
    <3>1. UNCHANGED <<file, synced, surviving, told>>
      BY <1>4, <2>2 DEF Failures, AdmitWriteFails, IoFault, ProcessCrash, disk, told_
    <3> QED
      BY <3>1, Stutters
  <2> QED
    BY <2>1, <2>2
<1>5. CASE UNCHANGED vars
  <2>1. UNCHANGED <<file, synced, surviving, told>>
    BY <1>5 DEF vars, disk, told_
  <2> QED
    BY <2>1, Stutters
<1> QED
  BY <1>1, <1>2, <1>3, <1>4, <1>5 DEF Next

\* The write-ahead log, with every persistence step and every failure between two
\* of them, implements the log that only grows, acknowledges forwards and answers
\* with what it holds.
THEOREM WalImplementsDurableLog == Spec => ImplementsDurableLog
BY SavesInvariance, InitImplements, StepImplements, PTL
DEF Spec, ImplementsDurableLog, Abstract!Spec
===============================================================================
