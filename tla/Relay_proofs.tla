---------------------------- MODULE Relay_proofs -----------------------------
(***************************************************************************)
(* The relay keeps its promise for every set of directories, connections   *)
(* and events, logs of any length, any number of faults, attempts and      *)
(* restored backups, and both ways of giving credit.                       *)
(*                                                                         *)
(* The argument rests on where the frames of the one connection in use can *)
(* be: Phase lists, for each state of the client, what the two queues hold *)
(* and what the two sides think the window is.  Truth says that what the   *)
(* receiver has written in a frame is stored, Acked that what a directory  *)
(* remembers is, Exclusive that no batch of an earlier connection can be   *)
(* committed any more once this one has been greeted.                      *)
(***************************************************************************)
EXTENDS Relay, SequenceTheorems, TLAPS

SP == INSTANCE ReceiverStore_proofs WITH
  Sessions <- Conns, Epochs <- {"epoch"}, Identities <- {"receiver"},
  AdminIds <- {}, Logs <- Seq(Events)

-------------------------------------------------------------------------------
(* Frames and queues. *)

HelloBodies == [epoch : {"epoch"}, tail : Nat, ack : Nat, ackHash : Seq(Events)]
BatchBodies == [first : Nat, events : Seq(Events), terminal : Seq(Events)]
UpFrames == [kind : {"hello"}, body : HelloBodies] \union [kind : {"heartbeat"}, body : Nat]
            \union [kind : {"batch"}, body : BatchBodies] \union [kind : {"goodbye"}, body : {0}]

PositionBodies == [head : Nat, chain : Seq(Events), window : 0..MaxBatch]
AckBodies == [n : Nat, chain : Seq(Events)]
Codes == {"EVENT_VALIDATOR_UNAVAILABLE", "RECEIVER_DURABILITY_UNAVAILABLE", "STREAM_ALREADY_ACTIVE",
          "SENDER_ROLLBACK", "RECEIVER_ROLLBACK", "SPLIT_LOG", "EPOCH_NOT_APPROVED",
          "SEQUENCE_GAP", "CHAIN_MISMATCH", "EVENT_IDENTITY_MISMATCH", "CHECKPOINT_BACKDATED_EVENT"}
DownFrames == [kind : {"hello"}, body : PositionBodies] \union [kind : {"ack"}, body : AckBodies]
              \union [kind : {"window"}, body : 0..MaxBatch] \union [kind : {"error"}, body : Codes]
              \union [kind : {"heartbeat", "goodbye"}, body : {0}]

Held(q) == {q[i] : i \in 1..Len(q)}
Rest(q) == SubSeq(q, 2, Len(q))
Win(n) == Frame("window", n)

Channels == up \in [Conns -> Seq(UpFrames)] /\ down \in [Conns -> Seq(DownFrames)]

-------------------------------------------------------------------------------
(* One stream at a time *)

\* A stream has at most one frame to read, and a session that follows its handler.
Handlers ==
  \A c \in Conns :
    /\ Len(up[c]) <= 1
    /\ handler[c] = "new" => session[c].state = "new"
    /\ handler[c] = "open" => session[c].state \in {"open", "broken"}
    /\ session[c].state = "open" => handler[c] = "open"

\* Only the client's own connection is up.
Links == \A c \in Conns : link[c] => Running /\ client.conn = c

\* The client works on a directory, and on an unbound one only as the first to do so.
ClientInv ==
  /\ client.pc # "off" => client.dir \in Dirs /\ (client.dir = Original \/ bound[client.dir])
  /\ Running => client.conn \in Conns
  /\ client.pc = "retry" => client.left > 0
  /\ client.pc \in {"loop", "bye"} => bound[client.dir]
  /\ client.pc = "bye" => ack[client.dir] = Len(log[client.dir])

\* A log repeats no event and keeps the order the store asks for.
DirInv ==
  \A d \in Dirs :
    /\ ack[d] <= Len(log[d])
    /\ ~bound[d] => log[d] = <<>>
    /\ \A i, j \in 1..Len(log[d]) : i < j => log[d][i] # log[d][j] /\ SP!Follows(log[d][i], log[d][j])

\* A batch on the wire is a part of some directory's log and fits its stream's window.
BatchInv ==
  \A c \in Conns : \A f \in Held(up[c]) : f.kind = "batch" =>
    /\ Len(f.body.events) <= window[c]
    /\ \E d \in Dirs : bound[d] /\ \E first \in 1..Len(log[d]) : \E last \in first..Len(log[d]) :
         f.body = Store!Batch(log[d], first, last)

W0 == IF Paused THEN 0 ELSE MaxBatch
HelloOf(d) == Frame("hello", [epoch |-> "epoch", tail |-> Len(log[d]), ack |-> ack[d],
                              ackHash |-> Prefix(log[d], ack[d])])
BatchOf(d, last) == Frame("batch", Store!Batch(log[d], ack[d] + 1, last))

\* The hello has not been answered; or it has, or it was refused.
Greeting(c) ==
  /\ client.inflight = 0
  /\ \/ up[c] = <<HelloOf(client.dir)>> /\ down[c] = <<>> /\ handler[c] \in {"new", "done"}
     \/ /\ up[c] = <<>> /\ handler[c] \in {"open", "done"} /\ window[c] = W0
        /\ \E f \in Held(down[c]) : f.kind = "hello" /\ f.body.window = W0 /\ down[c] = <<f>> \o Update(0)
     \/ /\ up[c] = <<>> /\ handler[c] = "done"
        /\ \E f \in Held(down[c]) : f.kind = "error" /\ down[c] = <<f>>

\* The heartbeat that asks for credit is out, or its answer is on its way.
Waiting(c) ==
  /\ client.inflight = 0 /\ client.credit = W0 /\ handler[c] \in {"open", "done"}
  /\ \/ /\ up[c] = <<Frame("heartbeat", Len(log[client.dir]))>> /\ down[c] \in {<<>>, Update(0)}
     \/ /\ up[c] = <<>> /\ window[c] = MaxBatch
        /\ down[c] \in {<<Frame("heartbeat", 0)>> \o Update(MaxBatch),
                        Update(0) \o <<Frame("heartbeat", 0)>> \o Update(MaxBatch)}

\* No batch is out; a paused receiver's window may still be on its way.
Idle(c) ==
  /\ client.inflight = 0 /\ up[c] = <<>> /\ handler[c] \in {"open", "done"}
  /\ \/ down[c] = <<>> /\ client.credit = window[c]
     \/ Paused /\ down[c] = <<Frame("window", window[c])>> /\ client.credit = 0

\* A batch, or its ack with the windows around it, or an error, is on its way.
Flying(c) ==
  /\ client.inflight \in (ack[client.dir] + 1)..Len(log[client.dir])
  /\ handler[c] \in {"open", "done"}
  /\ ~Paused => client.credit = window[c]
  /\ \/ up[c] = <<BatchOf(client.dir, client.inflight)>> /\ down[c] = <<>>
     \/ /\ up[c] = <<>>
        /\ \E f \in Held(down[c]) : f.kind = "ack" /\ down[c] = Update(0) \o <<f>> \o Update(window[c])
     \/ /\ up[c] = <<>> /\ (Paused => client.credit = 0)
        /\ \E f \in Held(down[c]) : f.kind = "ack" /\ down[c] = <<f>> \o Update(window[c])
     \/ up[c] = <<>> /\ handler[c] = "done" /\ \E f \in Held(down[c]) : f.kind = "error" /\ down[c] = <<f>>

\* Everything is acknowledged; windows may be left unread.
Parting(c) ==
  /\ up[c] \in {<<>>, <<Frame("goodbye", 0)>>} /\ handler[c] \in {"open", "done"}
  /\ \A f \in Held(down[c]) : f.kind \in {"window", "goodbye"}

\* Where the frames of the connection in use are.
Phase ==
  LET c == client.conn IN
  /\ client.pc = "hello" => Greeting(c)
  /\ client.pc = "loop" => IF client.waiting THEN Waiting(c) ELSE IF client.inflight = 0 THEN Idle(c) ELSE Flying(c)
  /\ client.pc = "bye" => Parting(c)

\* What the receiver has said is stored, until a backup is restored under it.
Stored(chain, n) == n <= Len(events) /\ chain = Prefix(events, n)
Truth ==
  \A c \in Conns : \A f \in Held(down[c]) :
    /\ f.kind = "hello" => Len(f.body.chain) = f.body.head
    /\ restores = 0 \/ link[c] =>
         /\ f.kind = "hello" => Stored(f.body.chain, f.body.head)
         /\ f.kind = "ack" => Stored(f.body.chain, f.body.n)

\* So is what a directory remembers, and always while its stream is up.
Acked ==
  \A d \in Dirs :
    restores = 0 \/ (client.pc \in {"loop", "bye"} /\ client.dir = d /\ link[client.conn])
      => Stored(Prefix(log[d], ack[d]), ack[d])

\* Once the receiver has greeted, no other stream has a batch that may be committed.
Greeted == \/ client.pc \in {"loop", "bye"}
           \/ client.pc = "hello" /\ \E f \in Held(down[client.conn]) : f.kind = "hello"
Exclusive ==
  Greeted => \A c \in Conns \ {client.conn} : session[c].state = "open" =>
    \A f \in Held(up[c]) : f.kind # "batch"

\* One client at a time moves the head: what it knows of the head is right.
Known ==
  restores = 0 =>
    /\ client.pc = "hello" => \A f \in Held(down[client.conn]) :
         f.kind = "hello" => f.body.head = row.head
    /\ client.pc = "loop" /\ (client.inflight = 0 \/ up[client.conn] # <<>>) => row.head = ack[client.dir]
    /\ client.pc = "loop" => \A f \in Held(down[client.conn]) :
         f.kind = "ack" => f.body.n = client.inflight /\ row.head = client.inflight

\* One sender is refused only for reasons that pass.
Retries ==
  OneSender /\ Running => \A f \in Held(down[client.conn]) : f.kind = "error" => f.body \in Retryable

RelayInv ==
  /\ Channels /\ Handlers /\ Links /\ ClientInv /\ DirInv /\ BatchInv
  /\ Phase /\ Truth /\ Acked /\ Exclusive /\ Known /\ Retries
  /\ OneLogCommitted /\ NoPermanentFailure

\* TypeOK, but for the tables and what is on the wire.
Types ==
  /\ log \in [Dirs -> Seq(Events)] /\ ack \in [Dirs -> Nat] /\ bound \in [Dirs -> BOOLEAN]
  /\ client \in [pc : {"off", "hello", "loop", "bye", "retry"}, conn : Conns \union {None},
                 dir : Dirs \union {None}, credit : 0..MaxBatch, inflight : Nat,
                 waiting : BOOLEAN, left : 0..(Attempts - 1), result : Results]
  /\ link \in [Conns -> BOOLEAN] /\ handler \in [Conns -> {"new", "open", "done"}]
  /\ window \in [Conns -> 0..MaxBatch]
  /\ faults \in 0..MaxFaults /\ restores \in 0..MaxRestores

\* The database's own invariant; it has been bootstrapped.
StoreInv ==
  /\ SP!Inv
  /\ row.epoch = "epoch" /\ (events = <<>> => row.last = 0 /\ row.floor = -1)

Inv == Types /\ StoreInv /\ RelayInv
-------------------------------------------------------------------------------
(* Queues. *)

(* What is left of a queue once its first frame is taken. *)
LEMMA RestFacts ==
  ASSUME NEW S, NEW q \in Seq(S), q # <<>>
  PROVE  /\ Rest(q) \in Seq(S) /\ Held(Rest(q)) \subseteq Held(q) /\ Head(q) \in Held(q)
         /\ Head(q) \in S /\ Len(Rest(q)) = Len(q) - 1
         /\ \A i \in 1..(Len(q) - 1) : Rest(q)[i] = q[i + 1]
<1>1. Len(q) \in Nat /\ Len(q) >= 1 /\ \A i \in 1..Len(q) : q[i] \in S
  BY LenProperties, EmptySeq
<1>2. Rest(q) = Tail(q)
  BY TailIsSubSeq DEF Rest
<1>3. /\ Rest(q) \in Seq(S) /\ Len(Rest(q)) = Len(q) - 1
      /\ \A i \in 1..(Len(q) - 1) : Rest(q)[i] = q[i + 1]
  BY <1>2, HeadTailProperties
<1>4. \A i \in 1..(Len(q) - 1) : i + 1 \in 1..Len(q)
  BY <1>1
<1>5. Held(Rest(q)) \subseteq Held(q)
  BY <1>3, <1>4 DEF Held
<1>6. Head(q) = q[1] /\ 1 \in 1..Len(q)
  BY <1>1
<1> QED BY <1>1, <1>3, <1>5, <1>6 DEF Held

LEMMA NoFrames ==
  Held(<<>>) = {} /\ Len(<<>>) = 0 /\ \A S : <<>> \in Seq(S)
BY DEF Held

LEMMA OneFrame ==
  ASSUME NEW f
  PROVE  /\ <<f>> # <<>> /\ Len(<<f>>) = 1 /\ Head(<<f>>) = f /\ Rest(<<f>>) = <<>>
         /\ Held(<<f>>) = {f} /\ \A S : f \in S => <<f>> \in Seq(S)
BY DEF Rest, Held

LEMMA TwoFrames ==
  ASSUME NEW f, NEW g
  PROVE  /\ <<f, g>> # <<>> /\ Len(<<f, g>>) = 2 /\ Head(<<f, g>>) = f /\ Rest(<<f, g>>) = <<g>>
         /\ Held(<<f, g>>) = {f, g} /\ \A S : {f, g} \subseteq S => <<f, g>> \in Seq(S)
<1> DEFINE t == <<f, g>>
           r == <<g>>
<1>1. /\ t \in Seq({f, g}) /\ t # <<>> /\ Len(t) = 2 /\ t[2] = g
      /\ r \in Seq({f, g}) /\ Len(r) = 1 /\ r[1] = g
  OBVIOUS
<1> HIDE DEF t, r
<1>2. /\ Rest(t) \in Seq({f, g}) /\ Len(Rest(t)) = Len(t) - 1
      /\ \A i \in 1..(Len(t) - 1) : Rest(t)[i] = t[i + 1]
  BY <1>1, RestFacts, Zenon
<1>3. \A i \in 1..Len(Rest(t)) : Rest(t)[i] = r[i]
  BY <1>1, <1>2
<1>4. Rest(t) = r
  BY <1>1, <1>2, <1>3, SeqEqual
<1>5. Held(<<f, g>>) = {f, g}
  BY DEF Held
<1> QED BY <1>4, <1>5 DEF t, r

LEMMA ThreeFrames ==
  ASSUME NEW f, NEW g, NEW h
  PROVE  /\ <<f, g, h>> # <<>> /\ Len(<<f, g, h>>) = 3 /\ Head(<<f, g, h>>) = f
         /\ Rest(<<f, g, h>>) = <<g, h>> /\ Held(<<f, g, h>>) = {f, g, h}
         /\ \A S : {f, g, h} \subseteq S => <<f, g, h>> \in Seq(S)
<1> DEFINE t == <<f, g, h>>
           r == <<g, h>>
<1>1. /\ t \in Seq({f, g, h}) /\ t # <<>> /\ Len(t) = 3 /\ t[2] = g /\ t[3] = h
      /\ r \in Seq({f, g, h}) /\ Len(r) = 2 /\ r[1] = g /\ r[2] = h
  OBVIOUS
<1> HIDE DEF t, r
<1>2. /\ Rest(t) \in Seq({f, g, h}) /\ Len(Rest(t)) = Len(t) - 1
      /\ \A i \in 1..(Len(t) - 1) : Rest(t)[i] = t[i + 1]
  BY <1>1, RestFacts, Zenon
<1>3. \A i \in 1..Len(Rest(t)) : Rest(t)[i] = r[i]
  BY <1>1, <1>2
<1>4. Rest(t) = r
  BY SMTT(30), <1>1, <1>2, <1>3, SeqEqual
<1>5. Held(<<f, g, h>>) = {f, g, h}
  BY DEF Held
<1> QED BY <1>4, <1>5 DEF t, r

(* The queues the receiver builds, spelled out. *)
LEMMA Forms ==
  ASSUME NEW f, NEW m, NEW n
  PROVE  /\ Update(n) = IF Paused THEN <<Win(n)>> ELSE <<>>
         /\ <<f>> \o Update(n) = IF Paused THEN <<f, Win(n)>> ELSE <<f>>
         /\ Update(m) \o <<f>> = IF Paused THEN <<Win(m), f>> ELSE <<f>>
         /\ Update(m) \o <<f>> \o Update(n) = IF Paused THEN <<Win(m), f, Win(n)>> ELSE <<f>>
         /\ Update(m) \o (<<f>> \o Update(n)) = Update(m) \o <<f>> \o Update(n)
<1>1. ASSUME NEW a, NEW b PROVE <<a>> \o <<b>> = <<a, b>>
  <2> DEFINE p == <<a>>
             q == <<b>>
             t == <<a, b>>
  <2>1. /\ p \in Seq({a, b}) /\ q \in Seq({a, b}) /\ t \in Seq({a, b})
        /\ Len(p) = 1 /\ Len(q) = 1 /\ Len(t) = 2
        /\ p[1] = a /\ q[1] = b /\ t[1] = a /\ t[2] = b
    OBVIOUS
  <2> HIDE DEF p, q, t
  <2>2. /\ p \o q \in Seq({a, b}) /\ Len(p \o q) = 2
        /\ \A i \in 1..2 : (p \o q)[i] = IF i <= 1 THEN p[i] ELSE q[i - 1]
    BY <2>1, ConcatProperties
  <2>3. \A i \in 1..Len(p \o q) : (p \o q)[i] = t[i]
    BY <2>1, <2>2
  <2>4. p \o q = t
    BY <2>1, <2>2, <2>3, SeqEqual
  <2> QED BY <2>4 DEF p, q, t
<1>2. ASSUME NEW a, NEW b, NEW c PROVE
        <<a, b>> \o <<c>> = <<a, b, c>> /\ <<a>> \o <<b, c>> = <<a, b, c>>
  <2> DEFINE S == {a, b, c}
             p == <<a>>
             q == <<c>>
             r == <<a, b>>
             s == <<b, c>>
             t == <<a, b, c>>
  <2>1. /\ p \in Seq(S) /\ q \in Seq(S) /\ r \in Seq(S) /\ s \in Seq(S) /\ t \in Seq(S)
        /\ Len(p) = 1 /\ Len(q) = 1 /\ Len(r) = 2 /\ Len(s) = 2 /\ Len(t) = 3
        /\ p[1] = a /\ q[1] = c /\ r[1] = a /\ r[2] = b /\ s[1] = b /\ s[2] = c
        /\ t[1] = a /\ t[2] = b /\ t[3] = c
    OBVIOUS
  <2> HIDE DEF S, p, q, r, s, t
  <2>2. r \o q = t
    <3>1. /\ r \o q \in Seq(S) /\ Len(r \o q) = Len(r) + Len(q)
          /\ \A i \in 1..(Len(r) + Len(q)) :
               (r \o q)[i] = IF i <= Len(r) THEN r[i] ELSE q[i - Len(r)]
      BY <2>1, ConcatProperties, Zenon
    <3>2. \A i \in 1..Len(r \o q) : (r \o q)[i] = t[i]
      BY <2>1, <3>1
    <3> QED BY <2>1, <3>1, <3>2, SeqEqual
  <2>3. p \o s = t
    <3>1. /\ p \o s \in Seq(S) /\ Len(p \o s) = Len(p) + Len(s)
          /\ \A i \in 1..(Len(p) + Len(s)) :
               (p \o s)[i] = IF i <= Len(p) THEN p[i] ELSE s[i - Len(p)]
      BY <2>1, ConcatProperties, Zenon
    <3>2. \A i \in 1..Len(p \o s) : (p \o s)[i] = t[i]
      BY <2>1, <3>1
    <3> QED BY SMTT(30), <2>1, <3>1, <3>2, SeqEqual
  <2> QED BY <2>2, <2>3 DEF p, q, r, s, t
<1>3. <<>> \o <<f>> = <<f>> /\ <<f>> \o <<>> = <<f>> /\ <<>> \o <<>> = <<>>
  BY OneFrame, NoFrames, ConcatEmptySeq
<1>4. CASE Paused
  <2>1. Update(m) = <<Win(m)>> /\ Update(n) = <<Win(n)>>
    BY <1>4 DEF Update, Win
  <2>2. /\ <<f>> \o Update(n) = <<f, Win(n)>> /\ Update(m) \o <<f>> = <<Win(m), f>>
    BY <1>1, <2>1
  <2>3. /\ Update(m) \o <<f>> \o Update(n) = <<Win(m), f, Win(n)>>
        /\ Update(m) \o (<<f>> \o Update(n)) = <<Win(m), f, Win(n)>>
    BY <1>2, <2>1, <2>2
  <2> QED BY <1>4, <2>1, <2>2, <2>3
<1>5. CASE ~Paused
  BY <1>3, <1>5 DEF Update
<1> QED BY <1>4, <1>5

(* What a queue holds once frames have been added. *)
LEMMA HeldJoin ==
  ASSUME NEW S, NEW q \in Seq(S), NEW r \in Seq(S)
  PROVE  q \o r \in Seq(S) /\ Held(q \o r) \subseteq Held(q) \union Held(r)
<1>1. /\ q \o r \in Seq(S) /\ Len(q \o r) = Len(q) + Len(r) /\ Len(q) \in Nat /\ Len(r) \in Nat
      /\ \A i \in 1..(Len(q) + Len(r)) : (q \o r)[i] = IF i <= Len(q) THEN q[i] ELSE r[i - Len(q)]
  BY ConcatProperties, LenProperties
<1>2. ASSUME NEW i \in 1..Len(q \o r) PROVE (q \o r)[i] \in Held(q) \union Held(r)
  <2>1. CASE i <= Len(q)
    BY <1>1, <2>1 DEF Held
  <2>2. CASE ~(i <= Len(q))
    <3>1. i - Len(q) \in 1..Len(r) /\ (q \o r)[i] = r[i - Len(q)]
      BY <1>1, <2>2
    <3> QED BY <3>1 DEF Held
  <2> QED BY <2>1, <2>2
<1> QED BY <1>1, <1>2 DEF Held

LEMMA HeldIn ==
  ASSUME NEW S, NEW q \in Seq(S)
  PROVE  Held(q) \subseteq S /\ Len(q) \in Nat /\ (Len(q) = 0 <=> q = <<>>)
BY LenProperties, EmptySeq DEF Held
-------------------------------------------------------------------------------
(* The database: what the theorems about ReceiverStore say of it here. *)

LEMMA StoreAssumption == SP!ReceiverStoreAssumption
BY RelayAssumption DEF SP!ReceiverStoreAssumption

(* A fault is counted. *)
LEMMA FaultCounted ==
  ASSUME faults \in 0..MaxFaults, faults < MaxFaults, faults' = faults + 1 PROVE faults' \in 0..MaxFaults
<1>1. MaxFaults \in Nat
  BY RelayAssumption
<1> QED BY ONLY <1>1, faults \in 0..MaxFaults, faults < MaxFaults, faults' = faults + 1

LEMMA SameStore ==
  ASSUME NEW c, NEW h
  PROVE  /\ Store!OpenCode(h) = SP!OpenCode(h)
         /\ Store!OpenSession(c, h) <=> SP!OpenSession(c, h)
         /\ Store!OpenRefused(c, h) <=> SP!OpenRefused(c, h)
         /\ Store!CloseSession(c) <=> SP!CloseSession(c)
         /\ Store!BackendExit(c) <=> SP!BackendExit(c)
         /\ Store!LoseConnection(c) <=> SP!LoseConnection(c)
         /\ Store!Free = [state |-> "new", owner |-> 0]
<1>1. Store!OpenCode(h) = SP!OpenCode(h)
  BY DEF Store!OpenCode, SP!OpenCode, Store!LockFree, SP!LockFree, Store!Prefix, SP!Prefix
<1>2. Store!OpenSession(c, h) <=> SP!OpenSession(c, h)
  BY <1>1 DEF Store!OpenSession, SP!OpenSession
<1>3. Store!OpenRefused(c, h) <=> SP!OpenRefused(c, h)
  BY <1>1 DEF Store!OpenRefused, SP!OpenRefused, Store!LockFree, SP!LockFree, Store!tables, SP!tables
<1>4. Store!CloseSession(c) <=> SP!CloseSession(c)
  BY DEF Store!CloseSession, SP!CloseSession, Store!tables, SP!tables
<1>5. Store!BackendExit(c) <=> SP!BackendExit(c)
  BY DEF Store!BackendExit, SP!BackendExit, Store!tables, SP!tables, Store!Free, SP!Free
<1>6. Store!LoseConnection(c) <=> SP!LoseConnection(c)
  BY DEF Store!LoseConnection, SP!LoseConnection, Store!tables, SP!tables, Store!Disconnected, SP!Disconnected
<1> QED BY <1>1, <1>2, <1>3, <1>4, <1>5, <1>6 DEF Store!Free

LEMMA SameIngest ==
  ASSUME NEW c, NEW b, NEW w
  PROVE  /\ Store!IngestCode(c, b, w) = SP!IngestCode(c, b, w)
         /\ Store!Commit(b) <=> SP!Commit(b)
<1>1. Store!IngestCode(c, b, w) = SP!IngestCode(c, b, w)
  BY DEF Store!IngestCode, SP!IngestCode, Store!OwnerCode, SP!OwnerCode, Store!Offered, SP!Offered,
         Store!Prefix, SP!Prefix, Store!EventCode, SP!EventCode, Store!IsReplay, SP!IsReplay,
         Store!At, SP!At, Store!Backdated, SP!Backdated
<1>2. Store!Commit(b) <=> SP!Commit(b)
  BY DEF Store!Commit, SP!Commit, Store!NewEvents, SP!NewEvents, Store!NewFrom, SP!NewFrom,
         Store!Inserted, SP!Inserted, Store!Boundaries, SP!Boundaries
<1> QED BY <1>1, <1>2

LEMMA SameBatch ==
  ASSUME NEW l, NEW first, NEW last
  PROVE  Store!Batch(l, first, last) = SP!Batch(l, first, last)
BY DEF Store!Batch, SP!Batch, Store!Prefix, SP!Prefix

SessionStates == [state : {"new", "open", "closing", "broken"}, owner : Nat]

(* What is known of the database at any time. *)
LEMMA StoreFacts ==
  ASSUME StoreInv
  PROVE  /\ row.head = Len(events) /\ row.chain = events /\ events \in Seq(Events) /\ Len(events) \in Nat
         /\ row.epoch = "epoch" /\ identity = identity
         /\ session \in [Conns -> SessionStates] /\ lock \in Conns \union {None} /\ faults \in 0..MaxFaults
         /\ \A s \in Conns : session[s].state = "open" => lock = s /\ session[s].owner = row.owner
BY LenProperties DEF StoreInv, SP!Inv, SP!StoreInv, SP!TypeOK, SP!RowMatchesTables,
   SP!LiveSessionOwnsStream, SessionStates

LEMMA Opened ==
  ASSUME StoreInv, NEW c \in Conns, NEW h, Store!OpenSession(c, h)
  PROVE  /\ StoreInv' /\ row'.head = row.head /\ UNCHANGED <<events, faults>>
         /\ Store!OpenCode(h) = "ok" /\ session'[c].state = "open"
         /\ \A s \in Conns \ {c} : session'[s] = session[s] /\ session[s].state # "open"
<1>1. SP!OpenSession(c, h)
  BY SameStore
<1>2. SP!Inv'
  BY <1>1, SP!OpenStep, StoreAssumption DEF StoreInv
<1>3. /\ SP!OpenCode(h) = "ok" /\ lock = None
      /\ row' = [row EXCEPT !.owner = row.owner + 1]
      /\ session' = [session EXCEPT ![c] = [state |-> "open", owner |-> row.owner + 1]]
      /\ UNCHANGED <<identity, admin, events, effects, faults>>
  BY <1>1 DEF SP!OpenSession, SP!OpenCode, SP!LockFree
<1>4. /\ row \in [epoch : {"epoch"} \union {None}, head : Nat, chain : Seq(Events),
                  owner : Nat, floor : Int, last : Nat]
      /\ row.epoch = "epoch"
  BY DEF StoreInv, SP!Inv, SP!TypeOK
<1>5. /\ row'.head = row.head /\ row'.epoch = "epoch"
      /\ row'.last = row.last /\ row'.floor = row.floor
  BY <1>3, <1>4
<1>6. \A s \in Conns \ {c} : session'[s] = session[s] /\ session[s].state # "open"
  BY <1>3, StoreFacts, RelayAssumption
<1>7. session'[c].state = "open"
  BY <1>3, StoreFacts
<1> QED BY <1>2, <1>3, <1>5, <1>6, <1>7, SameStore DEF StoreInv

(* A session that ends, or has not begun. *)
Ended(c) ==
  /\ StoreInv' /\ UNCHANGED <<identity, admin, row, events, effects>>
  /\ session'[c].state # "open" /\ \A s \in Conns \ {c} : session'[s] = session[s]

LEMMA EndedStep ==
  ASSUME StoreInv, NEW c \in Conns, UNCHANGED <<identity, admin, row, events, effects>>,
         faults' \in 0..MaxFaults,
         NEW x \in [state : {"new", "closing", "broken"}, owner : Nat],
         session' = [session EXCEPT ![c] = x],
         \/ lock' = lock
         \/ lock = c /\ lock' = None
         \/ lock = None /\ lock' = c
  PROVE  Ended(c) /\ session'[c] = x
<1>1. SP!Inv'
  BY SP!EndStep, StoreAssumption DEF StoreInv, SP!tables
<1>2. session'[c] = x /\ x.state # "open" /\ \A s \in Conns \ {c} : session'[s] = session[s]
  BY StoreFacts
<1> QED BY <1>1, <1>2 DEF Ended, StoreInv

LEMMA Refused ==
  ASSUME StoreInv, NEW c \in Conns, NEW h, Store!OpenRefused(c, h)
  PROVE  Ended(c) /\ Store!OpenCode(h) # "ok" /\ UNCHANGED faults
<1>1. SP!OpenRefused(c, h)
  BY SameStore
<1> DEFINE x == [session[c] EXCEPT !.state = "closing"]
<1>2. /\ x \in [state : {"new", "closing", "broken"}, owner : Nat]
      /\ session' = [session EXCEPT ![c] = x]
      /\ UNCHANGED <<identity, admin, row, events, effects, faults>>
  BY <1>1, StoreFacts DEF SP!OpenRefused, SP!tables, SessionStates
<1>3. lock' = lock \/ (lock = None /\ lock' = c)
  BY <1>1 DEF SP!OpenRefused, SP!LockFree
<1> HIDE DEF x
<1>4. Ended(c)
  BY <1>2, <1>3, EndedStep, StoreFacts
<1> QED BY <1>1, <1>2, <1>4, SameStore DEF SP!OpenRefused

LEMMA Closed ==
  ASSUME StoreInv, NEW c \in Conns, Store!CloseSession(c)
  PROVE  Ended(c) /\ session'[c].state = "closing" /\ session[c].state \in {"open", "broken"}
         /\ UNCHANGED faults
<1>1. SP!CloseSession(c)
  BY SameStore
<1> DEFINE x == [session[c] EXCEPT !.state = "closing"]
<1>2. /\ x \in [state : {"new", "closing", "broken"}, owner : Nat] /\ x.state = "closing"
      /\ session' = [session EXCEPT ![c] = x] /\ session[c].state \in {"open", "broken"}
      /\ UNCHANGED <<identity, admin, row, events, effects, faults, lock>>
  BY <1>1, StoreFacts DEF SP!CloseSession, SP!tables, SessionStates
<1> HIDE DEF x
<1> QED BY <1>2, EndedStep, StoreFacts

LEMMA Exited ==
  ASSUME StoreInv, NEW c \in Conns, Store!BackendExit(c)
  PROVE  Ended(c) /\ session'[c].state = "new" /\ session[c].state = "closing" /\ UNCHANGED faults
<1>1. SP!BackendExit(c)
  BY SameStore
<1> DEFINE x == [state |-> "new", owner |-> 0]
<1>2. /\ x \in [state : {"new", "closing", "broken"}, owner : Nat] /\ x.state = "new"
      /\ session' = [session EXCEPT ![c] = x] /\ session[c].state = "closing"
      /\ UNCHANGED <<identity, admin, row, events, effects, faults>>
  BY <1>1, StoreFacts DEF SP!BackendExit, SP!tables, SP!Free
<1>3. lock' = lock \/ (lock = c /\ lock' = None)
  BY <1>1 DEF SP!BackendExit
<1> HIDE DEF x
<1> QED BY <1>2, <1>3, EndedStep, StoreFacts

LEMMA Lost ==
  ASSUME StoreInv, NEW c \in Conns, Store!LoseConnection(c)
  PROVE  Ended(c) /\ session'[c].state = "broken" /\ session[c].state = "open"
<1>1. SP!LoseConnection(c)
  BY SameStore
<1> DEFINE x == [session[c] EXCEPT !.state = "broken"]
<1>2. /\ x \in [state : {"new", "closing", "broken"}, owner : Nat] /\ x.state = "broken"
      /\ session' = [session EXCEPT ![c] = x] /\ session[c].state = "open"
      /\ UNCHANGED <<identity, admin, row, events, effects>>
      /\ faults < MaxFaults /\ faults' = faults + 1
  BY <1>1, StoreFacts DEF SP!LoseConnection, SP!Disconnected, SP!tables, SessionStates
<1>4. lock' = lock \/ (lock = c /\ lock' = None)
  BY <1>1 DEF SP!LoseConnection, SP!Disconnected
<1>3. faults' \in 0..MaxFaults
  BY <1>2, StoreFacts, FaultCounted
<1> HIDE DEF x
<1> QED BY <1>2, <1>3, <1>4, EndedStep, StoreFacts
-------------------------------------------------------------------------------
(* What a batch does to the database. *)

Grows == Len(events) <= Len(events') /\ events = Prefix(events', Len(events))

LEMMA PrefixFacts ==
  ASSUME NEW l \in Seq(Events), NEW n \in 0..Len(l)
  PROVE  /\ Prefix(l, n) \in Seq(Events) /\ Len(Prefix(l, n)) = n
         /\ \A i \in 1..n : Prefix(l, n)[i] = l[i]
BY SP!PrefixFacts, StoreAssumption DEF Prefix, SP!Prefix

(* A prefix of a prefix. *)
LEMMA PrefixOfPrefix ==
  ASSUME NEW l \in Seq(Events), NEW n \in 0..Len(l), NEW m \in 0..n
  PROVE  Prefix(Prefix(l, n), m) = Prefix(l, m)
<1>1. /\ Prefix(l, n) \in Seq(Events) /\ Len(Prefix(l, n)) = n
      /\ \A i \in 1..n : Prefix(l, n)[i] = l[i]
  BY PrefixFacts
<1>2. Len(l) \in Nat /\ m \in 0..Len(l) /\ m \in 0..Len(Prefix(l, n)) /\ \A i \in 1..m : i \in 1..n
  BY <1>1, LenProperties
<1>3. /\ Prefix(l, m) \in Seq(Events) /\ Len(Prefix(l, m)) = m
      /\ \A i \in 1..m : Prefix(l, m)[i] = l[i]
  BY <1>2, PrefixFacts
<1>4. /\ Prefix(Prefix(l, n), m) \in Seq(Events) /\ Len(Prefix(Prefix(l, n), m)) = m
      /\ \A i \in 1..m : Prefix(Prefix(l, n), m)[i] = Prefix(l, n)[i]
  BY <1>1, <1>2, PrefixFacts
<1>5. \A i \in 1..Len(Prefix(l, m)) : Prefix(Prefix(l, n), m)[i] = Prefix(l, m)[i]
  BY <1>1, <1>2, <1>3, <1>4
<1> QED BY <1>3, <1>4, <1>5, SeqEqual

(* What is stored stays stored as the table grows. *)
LEMMA StoredStays ==
  ASSUME StoreInv, StoreInv', Grows, NEW chain, NEW n \in Nat, Stored(chain, n)
  PROVE  Stored(chain, n)'
<1>1. /\ events \in Seq(Events) /\ Len(events) \in Nat /\ events' \in Seq(Events) /\ Len(events') \in Nat
  <2>1. StoreInv => events \in Seq(Events) /\ Len(events) \in Nat
    BY StoreFacts
  <2>2. StoreInv' => events' \in Seq(Events) /\ Len(events') \in Nat
    BY LenProperties DEF StoreInv, SP!Inv, SP!TypeOK
  <2> QED BY <2>1, <2>2
<1>2. Len(events) \in 0..Len(events') /\ n \in 0..Len(events) /\ n <= Len(events')
  BY <1>1 DEF Grows, Stored
<1>3. Prefix(events, n) = Prefix(events', n)
  BY <1>1, <1>2, PrefixOfPrefix DEF Grows
<1> QED BY <1>2, <1>3 DEF Stored

(* A batch cut from a directory's log is stored already, or continues what is stored. *)
LEMMA Committed ==
  ASSUME StoreInv, Types, NEW c \in Conns, NEW d \in Dirs, NEW first \in 1..Len(log[d]),
         NEW last \in first..Len(log[d]), NEW b, b = Store!Batch(log[d], first, last), NEW w,
         session[c].state = "open", Store!IngestCode(c, b, w) = "ok", Store!Commit(b),
         session' \in [Conns -> SessionStates],
         lock' \in Conns \union {None}, faults' \in 0..MaxFaults,
         \A q \in Conns : session'[q].state = "open" =>
           session[q].state = "open" /\ session'[q] = session[q] /\ lock' = lock
  PROVE  /\ StoreInv' /\ Grows
         /\ \/ last <= Len(events) /\ events' = events
            \/ Len(events) < last /\ events' = Prefix(log[d], last)
<1>0. log[d] \in Seq(Events)
  BY DEF Types
<1>1. b = SP!Batch(log[d], first, last) /\ SP!IngestCode(c, b, w) = "ok" /\ SP!Commit(b)
  BY SameBatch, SameIngest
<1>2. SP!Inv' /\ Grows
  BY <1>0, <1>1, SP!IngestStep, StoreAssumption DEF StoreInv, SessionStates, Grows, Prefix, SP!Prefix
<1>3. /\ last <= Len(events) => SP!NewEvents(b) = <<>>
      /\ Len(events) < last => SP!Inserted(b) = SP!Prefix(log[d], last)
  <2>1. SP!TypeOK /\ SP!RowMatchesTables
    BY DEF StoreInv, SP!Inv, SP!StoreInv
  <2>2. last \in Int /\ Len(events) \in Int
    BY <1>0, LenProperties, StoreFacts
  <2> QED BY <1>0, <1>1, <2>1, <2>2, SP!AcceptedBatch, StoreAssumption
<1>4. events' = events \o SP!NewEvents(b) /\ events' = SP!Inserted(b)
  BY <1>1 DEF SP!Commit, SP!Inserted
<1>5. /\ events \o <<>> = events /\ last \in Nat \ {0} /\ Len(events) \in Nat
      /\ last \in 0..Len(log[d])
  <2>1. events \o <<>> = events
    BY StoreFacts, ConcatEmptySeq
  <2> QED BY <1>0, <2>1, LenProperties, StoreFacts
<1>6. CASE last <= Len(events)
  <2>1. events' = events /\ row' = row
    BY <1>1, <1>3, <1>4, <1>5, <1>6 DEF SP!Commit
  <2> QED BY <1>2, <1>6, <2>1 DEF StoreInv
<1>7. CASE Len(events) < last
  <2>1. events' = Prefix(log[d], last)
    BY <1>3, <1>4, <1>7 DEF Prefix, SP!Prefix
  <2>2. Len(events') = last
    BY <1>0, <1>5, <2>1, PrefixFacts
  <2>3. events' # <<>>
    BY <1>5, <2>2, NoFrames
  <2>4. row'.epoch = "epoch"
    <3>1. \/ row' = row
          \/ \E h, ch, t, f : row' = [row EXCEPT !.head = h, !.chain = ch, !.last = t, !.floor = f]
      BY <1>1 DEF SP!Commit
    <3>2. row \in [epoch : {"epoch"} \union {None}, head : Nat, chain : Seq(Events),
                   owner : Nat, floor : Int, last : Nat]
      BY DEF StoreInv, SP!Inv, SP!TypeOK
    <3> QED BY <3>1, <3>2 DEF StoreInv
  <2> QED BY <1>2, <1>7, <2>1, <2>3, <2>4 DEF StoreInv
<1> QED BY <1>5, <1>6, <1>7

(* The batch after what is stored, from the log that is stored, is accepted. *)
LEMMA FreshAccepted ==
  ASSUME StoreInv, Types, DirInv, NEW c \in Conns, NEW d \in Dirs, NEW n \in Nat, NEW last \in Nat,
         n = Len(events), events = Prefix(log[d], n), n < last, last <= Len(log[d]),
         session[c].state = "open", NEW w \in 0..MaxBatch,
         Len(Store!Batch(log[d], n + 1, last).events) <= w
  PROVE  Store!IngestCode(c, Store!Batch(log[d], n + 1, last), w) = "ok"
<1> DEFINE l == log[d]
           b == SP!Batch(l, n + 1, last)
<1>0. l \in Seq(Events) /\ Len(l) \in Nat /\ n + 1 \in 1..Len(l) /\ n \in 0..Len(l) /\ last \in 0..Len(l)
  BY SMTT(30), LenProperties DEF Types
<1>1. /\ b.first = n + 1 /\ b.events = SubSeq(l, n + 1, last) /\ b.terminal = SP!Prefix(l, last)
      /\ b.events \in Seq(Events) /\ Len(b.events) = last - n
      /\ \A i \in 1..(last - n) : b.events[i] = l[n + i]
  <2> DEFINE m == n + 1
  <2>1. /\ m \in 1..(Len(l) + 1) /\ last \in (m - 1)..Len(l)
        /\ last - m + 1 = last - n /\ \A i \in 1..(last - n) : m + i - 1 = n + i
    BY <1>0
  <2> HIDE DEF m
  <2>2. /\ SubSeq(l, m, last) \in Seq(Events)
        /\ Len(SubSeq(l, m, last)) = last - m + 1
        /\ \A i \in 1..(last - m + 1) : SubSeq(l, m, last)[i] = l[m + i - 1]
    BY <1>0, <2>1, SP!SegmentFacts, StoreAssumption
  <2>3. SubSeq(l, m, last) = SubSeq(l, n + 1, last)
    BY DEF m
  <2> HIDE DEF l
  <2> QED BY <2>1, <2>2, <2>3 DEF SP!Batch

<1>2. SP!Offered(b) = SP!Prefix(l, last)
  <2>1. (n + 1) - 1 = n /\ SP!Prefix(events, n) = events
    BY StoreFacts, SubSeqFull DEF SP!Prefix
  <2>2. SubSeq(l, 1, n) \o SubSeq(l, n + 1, last) = SubSeq(l, 1, last)
    <3>1. 1 \in 1..(Len(l) + 1) /\ n \in (1 - 1)..Len(l) /\ last \in n..Len(l)
      BY <1>0
    <3> QED BY <1>0, <3>1, ConcatAdjacentSubSeq
  <2> QED BY <1>1, <2>1, <2>2 DEF SP!Offered, Prefix, SP!Prefix
<1>3. /\ SP!OwnerCode(c) = "ok" /\ row.head = n
  BY StoreFacts DEF SP!OwnerCode
<1>4. /\ \A i \in 1..last : SP!Prefix(l, last)[i] = l[i]
      /\ \A i \in 1..n : events[i] = l[i]
  BY <1>0, PrefixFacts DEF Prefix, SP!Prefix
<1>5. n > 0 => row.last = l[n].time /\ row.floor = l[n].through
  <2>1. events # <<>> => row.last = events[n].time /\ row.floor = events[n].through
    BY <1>3 DEF StoreInv, SP!Inv, SP!StoreInv, SP!RowMatchesTables
  <2>2. n > 0 => events # <<>> /\ n \in 1..n
    BY EmptySeq
  <2> QED BY <1>4, <2>1, <2>2
<1>6. n = 0 => row.last = 0 /\ row.floor = -1
  BY StoreFacts, EmptySeq DEF StoreInv
<1>a. \A i, j \in 1..Len(l) : i < j => l[i] # l[j] /\ SP!Follows(l[i], l[j])
  BY DEF DirInv
<1>b. /\ Len(b.events) <= w /\ w <= MaxBatch /\ w \in Nat /\ MaxBatch \in Nat
      /\ row.head \in Nat
  BY SameBatch, RelayAssumption, StoreFacts
<1> HIDE DEF b, l
<1>7. ASSUME NEW i \in 1..(last - n) PROVE SP!EventCode(b, i) = "ok"
  <2> DEFINE k == n + i
  <2>a. /\ k \in 1..last /\ k \in 1..Len(l) /\ k \in Nat /\ k > n /\ n + 1 + i - 1 = k
        /\ i \in Nat \ {0} /\ (i > 1 => i - 1 \in 1..(last - n) /\ n + (i - 1) = k - 1
                                        /\ n + 1 + (i - 1) - 1 = k - 1 /\ k > 1 /\ k - 1 > n)
        /\ (i = 1 => k = n + 1 /\ k - 1 = n) /\ ~(k <= n)
    <3>1. n \in Nat /\ last \in Nat /\ i \in Nat /\ 1 <= i /\ i <= last - n /\ last <= Len(l) /\ Len(l) \in Nat
      BY <1>0
    <3>2. k = n + i
      OBVIOUS
    <3> HIDE DEF k
    <3>3. k \in Nat /\ 1 <= k /\ k <= last /\ k > n
      BY ONLY <3>1, <3>2
    <3>4. k \in 1..last /\ k \in 1..Len(l) /\ i \in Nat \ {0} /\ ~(k <= n) /\ n + 1 + i - 1 = k
      BY ONLY <3>1, <3>2, <3>3
    <3>5. i > 1 => /\ i - 1 \in 1..(last - n) /\ n + (i - 1) = k - 1 /\ n + 1 + (i - 1) - 1 = k - 1
                   /\ k > 1 /\ k - 1 > n
      BY ONLY <3>1, <3>2
    <3>6. i = 1 => k = n + 1 /\ k - 1 = n
      BY ONLY <3>1, <3>2
    <3> QED BY <3>3, <3>4, <3>5, <3>6
  <2>b. b.events[i] = l[k]
    BY <1>1
  <2> HIDE DEF k
  <2>0. /\ k \in 1..last /\ k \in 1..Len(l) /\ k \in Nat /\ k > n /\ b.events[i] = l[k]
        /\ n + 1 + i - 1 = k
    BY <2>a, <2>b
  <2>1. /\ k \in 1..last /\ k \in 1..Len(l) /\ SP!At(b, i) = k /\ ~SP!IsReplay(b, i) /\ b.events[i] = l[k]
        /\ k \in Nat /\ k > n
    <3>1. SP!At(b, i) = k
      BY <1>1, <2>0 DEF SP!At
    <3>2. ~SP!IsReplay(b, i)
      BY <1>3, <2>a, <3>1 DEF SP!IsReplay
    <3> QED BY <2>0, <3>1, <3>2
  <2>2. \A j \in 1..(k - 1) : /\ j \in 1..Len(l) /\ j \in 1..last /\ j < k
                              /\ l[j] # l[k] /\ SP!Follows(l[j], l[k])
    BY <1>0, <1>a, <2>1
  <2>3. \A j \in 1..Len(l) : /\ l[j] \in Events /\ l[j].time \in Nat /\ l[j].through \in Nat
                             /\ l[j].time \in Int /\ l[j].through \in Int
    BY <1>0, LenProperties, RelayAssumption
  <2> DEFINE follows == i > 1 /\ ~SP!IsReplay(b, i - 1)
             lastTime == IF follows THEN b.events[i - 1].time ELSE row.last
             lastFloor == IF follows THEN b.events[i - 1].through ELSE row.floor
  <2>4. \/ k > 1 /\ lastTime = l[k - 1].time /\ lastFloor = l[k - 1].through
        \/ k = 1 /\ lastTime = 0 /\ lastFloor = -1
    <3>1. CASE i > 1
      <4>1. /\ i - 1 \in 1..(last - n) /\ n + (i - 1) = k - 1 /\ k > 1
            /\ SP!At(b, i - 1) = k - 1 /\ k - 1 > n
        BY <1>1, <2>a, <3>1 DEF SP!At
      <4>2. follows
        <5>1. ~(SP!At(b, i - 1) <= row.head)
          <6>1. SP!At(b, i - 1) = k - 1 /\ ~(k - 1 <= n)
            BY <2>a, <4>1
          <6> QED BY <1>3, <6>1
        <5> QED BY <3>1, <5>1 DEF SP!IsReplay
      <4>3. b.events[i - 1] = l[k - 1]
        BY <1>1, <4>1
      <4> QED BY <4>1, <4>2, <4>3
    <3>2. CASE i = 1
      <4>1. ~follows /\ k = n + 1 /\ k - 1 = n
        BY <2>a, <3>2
      <4>2. CASE n > 0
        BY <1>5, <4>1, <4>2
      <4>3. CASE n = 0
        BY <1>6, <4>1, <4>3
      <4> QED BY <4>2, <4>3
    <3> QED BY <2>a, <3>1, <3>2
  <2> HIDE DEF lastTime, lastFloor
  <2>5. ~SP!Backdated(l[k], lastTime, lastFloor)
    <3>1. CASE k > 1
      <4>1. k - 1 \in 1..(k - 1) /\ k - 1 \in 1..Len(l)
        BY <2>1, <3>1
      <4>2. SP!Follows(l[k - 1], l[k]) /\ lastTime = l[k - 1].time /\ lastFloor = l[k - 1].through
        BY <2>2, <2>4, <3>1, <4>1
      <4>3. /\ l[k].time \in Int /\ l[k].through \in Int
            /\ l[k - 1].time \in Int /\ l[k - 1].through \in Int
        BY <2>0, <2>3, <4>1
      <4> DEFINE e == l[k - 1]
                 f == l[k]
      <4>4. SP!Follows(e, f) /\ e.time \in Int /\ e.through \in Int /\ f.time \in Int /\ f.through \in Int
        BY <4>2, <4>3
      <4> HIDE DEF e, f
      <4>5. ~SP!Backdated(f, e.time, e.through)
        BY <4>4 DEF SP!Follows, SP!Backdated
      <4>6. ~SP!Backdated(l[k], l[k - 1].time, l[k - 1].through)
        BY <4>5 DEF e, f
      <4> QED BY <4>2, <4>6
    <3>2. CASE k = 1
      BY <2>1, <2>3, <2>4, <3>2 DEF SP!Backdated
    <3> QED BY <2>1, <3>1, <3>2
  <2>6. \A j \in 1..(SP!At(b, i) - 1) : SP!Offered(b)[j].id # b.events[i].id
    <3>1. ASSUME NEW j \in 1..(k - 1) PROVE SP!Offered(b)[j].id # l[k].id
      <4>1. SP!Offered(b)[j] = l[j] /\ l[j] \in Events /\ l[k] \in Events /\ l[j] # l[k]
        BY <1>2, <1>4, <2>1, <2>2, <2>3
      <4> QED BY <4>1, RelayAssumption
    <3> QED BY <2>1, <3>1
  <2>7. ~SP!Backdated(b.events[i], lastTime, lastFloor)
    BY <2>1, <2>5
  <2> QED BY <2>1, <2>6, <2>7 DEF SP!EventCode, lastTime, lastFloor
<1>8. SP!IngestCode(c, b, w) = "ok"
  <2>1. /\ Len(b.events) \in Nat /\ Len(b.events) <= w /\ Len(b.events) <= MaxBatch
        /\ b.first = row.head + 1 /\ \A i \in 1..Len(b.events) : SP!EventCode(b, i) = "ok"
        /\ SP!Offered(b) = b.terminal
    <3>0. n \in Nat /\ last \in Nat /\ n < last
      OBVIOUS
    <3>1. last - n \in Nat
      BY ONLY <3>0
    <3>2. Len(b.events) = last - n
      BY <1>1
    <3>4. \A k \in Nat : k <= w => k <= MaxBatch
      BY ONLY <1>b
    <3>5. Len(b.events) \in Nat /\ Len(b.events) <= w /\ Len(b.events) <= MaxBatch
      BY ONLY <1>b, <3>1, <3>2, <3>4
    <3>3. b.first = row.head + 1 /\ SP!Offered(b) = b.terminal
      BY <1>1, <1>2, <1>3
    <3> QED BY <1>7, <3>2, <3>3, <3>5
  <2> QED BY <1>3, <1>b, <2>1 DEF SP!IngestCode
<1> QED BY <1>8, SameBatch, SameIngest DEF b, l
-------------------------------------------------------------------------------
(* Steps that leave most of the state alone. *)

LEMMA InvParts ==
  ASSUME Inv
  PROVE  /\ Types /\ StoreInv /\ Channels /\ Handlers /\ Links /\ ClientInv /\ DirInv /\ BatchInv
         /\ Phase /\ Truth /\ Acked /\ Exclusive /\ Known /\ Retries /\ OneLogCommitted
         /\ NoPermanentFailure
BY DEF Inv, RelayInv

(* What is known of a connection's queues. *)
LEMMA ChannelFacts ==
  ASSUME Channels, NEW c \in Conns
  PROVE  /\ up[c] \in Seq(UpFrames) /\ Held(up[c]) \subseteq UpFrames
         /\ down[c] \in Seq(DownFrames) /\ Held(down[c]) \subseteq DownFrames
         /\ up[c] # <<>> => /\ Head(up[c]) \in Held(up[c]) /\ Head(up[c]) \in UpFrames
                            /\ Rest(up[c]) \in Seq(UpFrames)
                            /\ Len(Rest(up[c])) = Len(up[c]) - 1
         /\ down[c] # <<>> => /\ Head(down[c]) \in Held(down[c]) /\ Head(down[c]) \in DownFrames
                              /\ Rest(down[c]) \in Seq(DownFrames)
                              /\ Held(Rest(down[c])) \subseteq Held(down[c])
<1>1. up[c] \in Seq(UpFrames) /\ down[c] \in Seq(DownFrames)
  BY DEF Channels
<1>2. Held(up[c]) \subseteq UpFrames /\ Held(down[c]) \subseteq DownFrames
  BY <1>1, HeldIn
<1>3. ASSUME up[c] # <<>> PROVE /\ Head(up[c]) \in Held(up[c]) /\ Head(up[c]) \in UpFrames
                                /\ Rest(up[c]) \in Seq(UpFrames)
                                /\ Len(Rest(up[c])) = Len(up[c]) - 1
  BY <1>1, <1>3, RestFacts
<1>4. ASSUME down[c] # <<>> PROVE /\ Head(down[c]) \in Held(down[c]) /\ Head(down[c]) \in DownFrames
                                  /\ Rest(down[c]) \in Seq(DownFrames)
                                  /\ Held(Rest(down[c])) \subseteq Held(down[c])
  BY <1>1, <1>4, RestFacts
<1> QED BY <1>1, <1>2, <1>3, <1>4

dbRest == <<identity, admin, row, events, effects, session, lock>>

LEMMA StoreKept ==
  ASSUME StoreInv, UNCHANGED dbRest, faults' \in 0..MaxFaults PROVE StoreInv'
<1> USE DEF dbRest
<1>1. SP!TypeOK'
  BY DEF StoreInv, SP!Inv, SP!TypeOK
<1>2. /\ SP!EmptyUntilBootstrap' /\ SP!OneHistory' /\ SP!RowMatchesTables'
      /\ SP!StoredInOrder' /\ SP!LiveSessionOwnsStream'
  BY DEF StoreInv, SP!Inv, SP!StoreInv, SP!EmptyUntilBootstrap, SP!OneHistory, SP!RowMatchesTables,
         SP!StoredInOrder, SP!LiveSessionOwnsStream
<1> QED BY <1>1, <1>2 DEF StoreInv, SP!Inv, SP!StoreInv

LEMMA DirKept == ASSUME DirInv, UNCHANGED dirVars PROVE DirInv'
BY DEF DirInv, dirVars

LEMMA BatchKept ==
  ASSUME BatchInv, UNCHANGED <<log, up, window>>, \A d \in Dirs : bound[d] => bound'[d]
  PROVE  BatchInv'
BY DEF BatchInv, Store!Batch, Store!Prefix

LEMMA OneLogKept == ASSUME OneLogCommitted, UNCHANGED <<log, events>> PROVE OneLogCommitted'
BY DEF OneLogCommitted, DurableTail

(* The client's attempt is over. *)
ClientOver ==
  /\ client.pc # "off"
  /\ UNCHANGED <<dirVars, up, handler, window, dbRest, restores>> /\ faults' \in 0..MaxFaults
  /\ \/ down' = down
     \/ Running /\ down[client.conn] # <<>> /\ Taken(client.conn)
  /\ link' \in [Conns -> BOOLEAN] /\ \A c \in Conns : ~link'[c]
  /\ \/ \E r \in Results : client' = NoClient(r)
     \/ /\ client.left # 0
        /\ client' = [NoClient("pending") EXCEPT !.pc = "retry", !.dir = client.dir,
                                                 !.left = client.left]
  /\ OneSender => client'.result \in {"ok", "pending", "crashed", "RECOVERY_RETRY_EXHAUSTED"}

LEMMA ClientOverStep == ASSUME Inv, ClientOver PROVE Inv'
<1> USE InvParts
<1>0. /\ client' \in [pc : {"off", "hello", "loop", "bye", "retry"}, conn : Conns \union {None},
                      dir : Dirs \union {None}, credit : 0..MaxBatch, inflight : Nat,
                      waiting : BOOLEAN, left : 0..(Attempts - 1), result : Results]
      /\ client'.pc \in {"off", "retry"}
      /\ client'.pc = "retry" => client'.dir = client.dir /\ client'.left > 0
  <2>1. /\ 0 \in 0..MaxBatch /\ 0 \in 0..(Attempts - 1) /\ "pending" \in Results
    BY RelayAssumption DEF Results
  <2>2. /\ client.dir \in Dirs \union {None} /\ client.left \in 0..(Attempts - 1) /\ client.left \in Nat
    BY RelayAssumption DEF Types
  <2>3. CASE \E r \in Results : client' = NoClient(r)
    BY <2>1, <2>3 DEF NoClient
  <2>4. CASE /\ client.left # 0
             /\ client' = [NoClient("pending") EXCEPT !.pc = "retry", !.dir = client.dir,
                                                      !.left = client.left]
    <3>1. client' = [pc |-> "retry", conn |-> None, dir |-> client.dir, credit |-> 0, inflight |-> 0,
                     waiting |-> FALSE, left |-> client.left, result |-> "pending"]
      BY <2>4 DEF NoClient
    <3>2. client'.pc = "retry" /\ client'.dir = client.dir /\ client'.left = client.left
      BY <3>1
    <3>3. client.left > 0
      BY <2>2, <2>4
    <3>4. None \in Conns \union {None} /\ FALSE \in BOOLEAN /\ 0 \in Nat
      OBVIOUS
    <3>5. client' \in [pc : {"off", "hello", "loop", "bye", "retry"}, conn : Conns \union {None},
                      dir : Dirs \union {None}, credit : 0..MaxBatch, inflight : Nat,
                      waiting : BOOLEAN, left : 0..(Attempts - 1), result : Results]
      BY ONLY <2>1, <2>2, <3>1, <3>4
    <3> QED BY <3>2, <3>3, <3>5
  <2> QED BY <2>3, <2>4 DEF ClientOver
<1>1. \A c \in Conns : down'[c] \in Seq(DownFrames) /\ Held(down'[c]) \subseteq Held(down[c])
  <2>1. CASE down' = down
    BY <2>1, ChannelFacts
  <2>2. CASE Running /\ down[client.conn] # <<>> /\ Taken(client.conn)
    <3>1. client.conn \in Conns /\ down' = [down EXCEPT ![client.conn] = Rest(down[client.conn])]
      BY <2>2 DEF ClientInv, Taken, Rest
    <3> QED BY <2>2, <3>1, ChannelFacts DEF Channels
  <2> QED BY <2>1, <2>2 DEF ClientOver
<1>2. down' \in [Conns -> Seq(DownFrames)]
  BY <1>1 DEF ClientOver, Channels, Taken
<1>3. Types'
  BY <1>0 DEF Types, ClientOver, dirVars
<1>4. StoreInv'
  BY StoreKept DEF ClientOver
<1>5. Channels' /\ Handlers'
  BY <1>2 DEF Channels, Handlers, ClientOver, dbRest
<1>6. Links' /\ ClientInv'
  BY <1>0 DEF Links, ClientInv, ClientOver, dirVars, Running
<1>7. DirInv' /\ BatchInv'
  BY DirKept, BatchKept DEF ClientOver, dirVars
<1>8. Phase' /\ Exclusive' /\ Retries'
  BY <1>0 DEF Phase, Exclusive, Greeted, Retries, Running
<1>9. Known'
  BY <1>0 DEF Known
<1>10. Truth'
  BY <1>1 DEF Truth, ClientOver, dbRest, Stored
<1>11. Acked'
  BY <1>0 DEF Acked, ClientOver, dbRest, dirVars, Stored
<1>12. OneLogCommitted'
  BY OneLogKept DEF ClientOver, dbRest, dirVars
<1>13. NoPermanentFailure'
  BY DEF NoPermanentFailure, ClientOver, OneSender, dirVars
<1> QED BY <1>3, <1>4, <1>5, <1>6, <1>7, <1>8, <1>9, <1>10, <1>11, <1>12, <1>13 DEF Inv, RelayInv

(* A server step that touches no queue: links and handlers end, sessions close. *)
Quiet ==
  /\ UNCHANGED <<dirVars, client, up, down, window, events, restores>>
  /\ StoreInv' /\ row'.head = row.head /\ faults' \in 0..MaxFaults
  /\ link' \in [Conns -> BOOLEAN] /\ \A c \in Conns : link'[c] => link[c]
  /\ handler' \in [Conns -> {"new", "open", "done"}]
  /\ \A c \in Conns : handler'[c] \in {handler[c], "done"}
  /\ \A c \in Conns : session'[c].state = "open" => session[c].state = "open"
  /\ Handlers'

LEMMA QuietStep == ASSUME Inv, Quiet PROVE Inv'
<1> USE InvParts
<1> USE DEF Quiet
<1>1. Types'
  BY DEF Types, dirVars
<1>2. Channels' /\ Links' /\ ClientInv'
  BY DEF Channels, Links, ClientInv, Running, dirVars
<1>3. DirInv' /\ BatchInv'
  BY DirKept, BatchKept DEF dirVars
<1>4. Phase'
  <2> DEFINE c == client.conn
  <2>0. Running => c \in Conns /\ handler'[c] \in {handler[c], "done"}
    BY DEF ClientInv
  <2>1. ASSUME client'.pc = "hello" PROVE Greeting(c)'
    <3>1. Greeting(c) /\ client.pc = "hello" /\ handler'[c] \in {handler[c], "done"}
      BY <2>0, <2>1 DEF Phase, Running
    <3>2. CASE up[c] = <<HelloOf(client.dir)>> /\ down[c] = <<>> /\ handler[c] \in {"new", "done"}
      BY <3>1, <3>2 DEF Greeting, HelloOf, dirVars
    <3>3. CASE /\ up[c] = <<>> /\ handler[c] \in {"open", "done"} /\ window[c] = W0
               /\ \E f \in Held(down[c]) : f.kind = "hello" /\ f.body.window = W0 /\ down[c] = <<f>> \o Update(0)
      BY <3>1, <3>3 DEF Greeting
    <3>4. CASE /\ up[c] = <<>> /\ handler[c] = "done"
               /\ \E f \in Held(down[c]) : f.kind = "error" /\ down[c] = <<f>>
      BY <3>1, <3>4 DEF Greeting
    <3> QED BY <3>1, <3>2, <3>3, <3>4 DEF Greeting
  <2>2. client'.pc = "loop" =>
          IF client'.waiting THEN Waiting(c)' ELSE IF client'.inflight = 0 THEN Idle(c)' ELSE Flying(c)'
    <3>1. client'.pc = "loop" /\ client'.waiting => Waiting(c)'
      BY <2>0 DEF Phase, Waiting, Running, dirVars
    <3>2. client'.pc = "loop" /\ ~client'.waiting /\ client'.inflight = 0 => Idle(c)'
      BY <2>0 DEF Phase, Idle, Running, dirVars
    <3>3. ASSUME client'.pc = "loop", ~client'.waiting, client'.inflight # 0 PROVE Flying(c)'
      <4>1. Flying(c) /\ handler'[c] \in {handler[c], "done"}
        BY <2>0, <3>3 DEF Phase, Running
      <4>2. UNCHANGED <<up[c], down[c], client, ack, log, window[c]>>
        BY DEF dirVars
      <4>3. BatchOf(client.dir, client.inflight)' = BatchOf(client.dir, client.inflight)
        BY <4>2 DEF BatchOf, Store!Batch, Store!Prefix
      <4> HIDE DEF Quiet
      <4> QED BY <4>1, <4>2, <4>3 DEF Flying
    <3> QED BY <3>1, <3>2, <3>3
  <2>3. client'.pc = "bye" => Parting(c)'
    BY <2>0 DEF Phase, Parting, Running
  <2> QED BY <2>1, <2>2, <2>3 DEF Phase
<1>5. Truth'
  BY DEF Truth, Stored
<1>6. Acked'
  BY DEF Acked, Stored, dirVars, ClientInv, Running
<1>7. Exclusive' /\ Retries'
  BY DEF Exclusive, Greeted, Retries, OneSender, Running, dirVars
<1>8. Known'
  BY DEF Known, dirVars
<1>9. OneLogCommitted'
  BY OneLogKept DEF dirVars
<1>10. NoPermanentFailure'
  BY DEF NoPermanentFailure, OneSender, dirVars
<1> QED BY <1>1, <1>2, <1>3, <1>4, <1>5, <1>6, <1>7, <1>8, <1>9, <1>10 DEF Inv, RelayInv
-------------------------------------------------------------------------------
(* A handler takes the one frame there is and answers with r. *)

LEMMA DownBodies ==
  ASSUME NEW f \in DownFrames
  PROVE  /\ f.kind = "hello" => f.body \in PositionBodies
         /\ f.kind = "ack" => f.body \in AckBodies
         /\ f.kind = "window" => f.body \in 0..MaxBatch
         /\ f.kind = "error" => f.body \in Codes
         /\ f.kind \in {"hello", "ack", "window", "error", "heartbeat", "goodbye"}
BY DEF DownFrames

LEMMA UpBodies ==
  ASSUME NEW f \in UpFrames
  PROVE  /\ f.kind = "hello" => f.body \in HelloBodies
         /\ f.kind = "batch" => f.body \in BatchBodies
         /\ f.kind \in {"hello", "heartbeat", "batch", "goodbye"}
BY DEF UpFrames

\* what the receiver says in a frame is stored once it has said it
Truthful(r) ==
  \A f \in Held(r) :
    /\ f.kind = "hello" => Len(f.body.chain) = f.body.head /\ Stored(f.body.chain, f.body.head)'
    /\ f.kind = "ack" => Stored(f.body.chain, f.body.n)'

Served(c, r, w, h) ==
  /\ UNCHANGED <<dirVars, client, link, restores>> /\ faults' \in 0..MaxFaults
  /\ up[c] # <<>> /\ Consume(c) /\ r \in Seq(DownFrames) /\ Reply(c, r)
  /\ window' = [window EXCEPT ![c] = w] /\ w \in 0..MaxBatch
  /\ handler' = [handler EXCEPT ![c] = h] /\ h \in {"open", "done"}
  /\ StoreInv' /\ Grows /\ OneLogCommitted' /\ Truthful(r)
  /\ h = "open" => session'[c].state \in {"open", "broken"}
  /\ session'[c].state = "open" => h = "open"
  /\ \A s \in Conns \ {c} : session'[s] = session[s]

\* what the answer means to the client, when it is this one's connection
OwnServed(c, r) ==
  Running /\ client.conn = c =>
    /\ Phase' /\ Known'
    /\ OneSender => \A f \in Held(r) : f.kind = "error" => f.body \in Retryable
    /\ Greeted' => Greeted \/ \A s \in Conns \ {c} : session[s].state # "open"

LEMMA ServedStep ==
  ASSUME Inv, NEW c \in Conns, NEW r, NEW w, NEW h, Served(c, r, w, h), OwnServed(c, r),
         Running /\ client.conn # c /\ Greeted => row'.head = row.head
  PROVE  Inv'
<1> USE InvParts
<1>1. /\ up' = [up EXCEPT ![c] = <<>>] /\ up'[c] = <<>> /\ \A s \in Conns \ {c} : up'[s] = up[s]
      /\ down' = [down EXCEPT ![c] = down[c] \o r] /\ \A s \in Conns \ {c} : down'[s] = down[s]
      /\ down'[c] = down[c] \o r
  <2>1. up \in [Conns -> Seq(UpFrames)] /\ down \in [Conns -> Seq(DownFrames)]
    BY DEF Channels
  <2>2. Rest(up[c]) = <<>>
    <3>1. Len(up[c]) <= 1 /\ Len(up[c]) \in Nat /\ Len(Rest(up[c])) = Len(up[c]) - 1
          /\ Rest(up[c]) \in Seq(UpFrames)
      BY <2>1, ChannelFacts, HeldIn DEF Handlers, Served
    <3>2. Len(Rest(up[c])) \in Nat /\ (Len(Rest(up[c])) = 0 <=> Rest(up[c]) = <<>>)
      BY <3>1, HeldIn
    <3> QED BY <3>1, <3>2
  <2> QED BY <2>1, <2>2 DEF Served, Consume, Reply, Rest
<1>2. /\ down'[c] \in Seq(DownFrames) /\ Held(down'[c]) \subseteq Held(down[c]) \union Held(r)
      /\ Held(up'[c]) = {}
  BY <1>1, ChannelFacts, HeldJoin, NoFrames DEF Served
<1>3. Types'
  BY DEF Types, Served, dirVars
<1>4. Channels'
  BY <1>1, <1>2, NoFrames DEF Channels
<1>5. Handlers'
  <2>1. Len(up'[c]) <= 1
    BY <1>1, NoFrames
  <2>2. /\ handler'[c] = h /\ \A s \in Conns \ {c} : handler'[s] = handler[s]
    BY DEF Types, Served
  <2> QED BY <1>1, <2>1, <2>2 DEF Handlers, Served
<1>6. Links' /\ ClientInv'
  BY DEF Links, ClientInv, Running, Served, dirVars
<1>7. DirInv'
  BY DirKept DEF Served
<1>8. BatchInv'
  <2> SUFFICES ASSUME NEW s \in Conns, NEW f \in Held(up'[s]), f.kind = "batch"
               PROVE  /\ Len(f.body.events) <= window'[s]
                      /\ \E d \in Dirs : bound'[d] /\ \E first \in 1..Len(log'[d]) : \E last \in first..Len(log'[d]) :
                           f.body = Store!Batch(log'[d], first, last)
    BY DEF BatchInv, Store!Batch, Store!Prefix
  <2>1. s # c /\ up'[s] = up[s] /\ window'[s] = window[s] /\ UNCHANGED <<log, bound>>
    BY <1>1, <1>2 DEF Served, Types, dirVars
  <2> QED BY <2>1 DEF BatchInv
<1>9. Truth'
  <2> SUFFICES ASSUME NEW s \in Conns, NEW f \in Held(down'[s])
               PROVE  /\ f.kind = "hello" => Len(f.body.chain) = f.body.head
                      /\ restores = 0 \/ link[s] =>
                           /\ f.kind = "hello" => Stored(f.body.chain, f.body.head)'
                           /\ f.kind = "ack" => Stored(f.body.chain, f.body.n)'
    BY DEF Truth, Served, Stored
  <2>1. f \in Held(down[s]) \/ (s = c /\ f \in Held(r))
    <3>1. CASE s = c
      BY <1>2, <3>1
    <3>2. CASE s # c
      BY <1>1, <3>2
    <3> QED BY <3>1, <3>2
  <2>2. CASE f \in Held(down[s])
    <3>1. f \in DownFrames
      BY <2>2, ChannelFacts
    <3>2. /\ f.kind = "hello" => f.body.head \in Nat
          /\ f.kind = "ack" => f.body.n \in Nat
      BY <3>1, DownBodies DEF PositionBodies, AckBodies
    <3> QED BY <2>2, <3>2, StoredStays DEF Truth, Served
  <2>3. CASE s = c /\ f \in Held(r)
    BY <2>3 DEF Served, Truthful
  <2> QED BY <2>1, <2>2, <2>3
<1>10. Acked'
  <2> SUFFICES ASSUME NEW d \in Dirs,
                      restores = 0 \/ (client.pc \in {"loop", "bye"} /\ client.dir = d /\ link[client.conn])
               PROVE  Stored(Prefix(log[d], ack[d]), ack[d])'
    BY DEF Acked, Served, Stored, dirVars
  <2>1. ack[d] \in Nat /\ Stored(Prefix(log[d], ack[d]), ack[d])
    BY DEF Acked, Types
  <2>2. UNCHANGED <<log, ack>>
    BY DEF Served, dirVars
  <2>3. \A p : Stored(p, ack[d]) => Stored(p, ack[d])'
    BY <2>1, <2>2, StoredStays DEF Served
  <2>4. Stored(Prefix(log[d], ack[d]), ack[d])'
    BY <2>1, <2>2, <2>3 DEF Stored
  <2> QED BY <2>4
<1>11. Exclusive'
  <2> SUFFICES ASSUME Greeted', NEW s \in Conns, s # client.conn, session'[s].state = "open",
                      NEW f \in Held(up'[s]), f.kind = "batch"
               PROVE  FALSE
    BY DEF Exclusive, Served
  <2>1. s # c /\ up'[s] = up[s] /\ session'[s] = session[s]
    BY <1>1, <1>2 DEF Served
  <2>2. UNCHANGED client /\ Running /\ client.conn \in Conns
    BY DEF Greeted, Served, Running, ClientInv
  <2>3. CASE client.conn = c
    BY <2>1, <2>2, <2>3 DEF OwnServed, Exclusive
  <2>4. CASE client.conn # c
    <3>1. Greeted
      BY <1>1, <2>2, <2>4 DEF Greeted
    <3> QED BY <2>1, <3>1 DEF Exclusive
  <2> QED BY <2>3, <2>4
<1>12. ASSUME Running, client.conn = c PROVE Phase' /\ Known'
  BY <1>12 DEF OwnServed
<1>13. ASSUME ~(Running /\ client.conn = c) PROVE Phase' /\ Known'
  <2>1. Running => /\ up'[client.conn] = up[client.conn] /\ down'[client.conn] = down[client.conn]
                   /\ window'[client.conn] = window[client.conn] /\ handler'[client.conn] = handler[client.conn]
    BY <1>1, <1>13 DEF Served, Types, ClientInv
  <2>2. UNCHANGED <<client, log, ack, restores>>
    BY DEF Served, dirVars
  <2>3. Phase'
    <3>1. client.pc = "hello" => Greeting(client.conn)'
      BY <2>1, <2>2 DEF Phase, Greeting, HelloOf, Running
    <3>2. client.pc = "loop" /\ client.waiting => Waiting(client.conn)'
      BY <2>1, <2>2 DEF Phase, Waiting, Running
    <3>3. client.pc = "loop" /\ ~client.waiting /\ client.inflight = 0 => Idle(client.conn)'
      BY <2>1, <2>2 DEF Phase, Idle, Running
    <3>4. client.pc = "loop" /\ ~client.waiting /\ client.inflight # 0 => Flying(client.conn)'
      BY <2>1, <2>2 DEF Phase, Flying, BatchOf, Store!Batch, Store!Prefix, Running
    <3>5. client.pc = "bye" => Parting(client.conn)'
      BY <2>1, <2>2 DEF Phase, Parting, Running
    <3> QED BY <2>2, <3>1, <3>2, <3>3, <3>4, <3>5 DEF Phase
  <2>4. Known'
    <3>1. CASE Greeted
      BY <1>13, <2>1, <2>2, <3>1 DEF Known, Greeted, Running
    <3>2. CASE ~Greeted
      BY <2>1, <2>2, <3>2 DEF Known, Greeted, Running
    <3> QED BY <3>1, <3>2
  <2> QED BY <2>3, <2>4
<1>14. Retries'
  <2> SUFFICES ASSUME OneSender, Running, NEW f \in Held(down'[client.conn]), f.kind = "error"
               PROVE  f.body \in Retryable
    BY DEF Retries, OneSender, Running, Served, dirVars
  <2>1. client.conn \in Conns
    BY DEF ClientInv
  <2>2. f \in Held(down[client.conn]) \/ (client.conn = c /\ f \in Held(r))
    <3>1. CASE client.conn = c
      BY <1>2, <3>1
    <3>2. CASE client.conn # c
      BY <1>1, <2>1, <3>2
    <3> QED BY <3>1, <3>2
  <2> QED BY <2>2 DEF Retries, OwnServed
<1>15. NoPermanentFailure'
  BY DEF NoPermanentFailure, OneSender, Served, dirVars
<1>16. StoreInv' /\ OneLogCommitted'
  BY DEF Served
<1> QED BY <1>3, <1>4, <1>5, <1>6, <1>7, <1>8, <1>9, <1>10, <1>11, <1>12, <1>13, <1>14, <1>15, <1>16
        DEF Inv, RelayInv
-------------------------------------------------------------------------------
(* The client reads or writes a frame and goes on. *)

ClientRecords == [pc : {"off", "hello", "loop", "bye", "retry"}, conn : Conns \union {None},
                  dir : Dirs \union {None}, credit : 0..MaxBatch, inflight : Nat,
                  waiting : BOOLEAN, left : 0..(Attempts - 1), result : Results]

\* a frame the client may send with its directory as it is
Sendable(c, d, f) ==
  /\ f \in UpFrames
  /\ f.kind = "batch" =>
       /\ Len(f.body.events) <= window[c]
       /\ bound[d] /\ \E first \in 1..Len(log[d]) : \E last \in first..Len(log[d]) :
            f.body = Store!Batch(log[d], first, last)

Moves(c, d) ==
  /\ UNCHANGED <<log, link, handler, window, dbRest, faults, restores>>
  /\ Greeted /\ c = client.conn /\ d = client.dir
  /\ client' \in ClientRecords /\ client'.pc \in {"loop", "bye"} /\ client'.conn = c /\ client'.dir = d
  /\ client'.result = client.result
  /\ ack' \in [Dirs -> Nat] /\ bound' \in [Dirs -> BOOLEAN] /\ bound'[d]
  /\ ack'[d] <= Len(log[d]) /\ (client'.pc = "bye" => ack'[d] = Len(log[d]))
  /\ \A e \in Dirs \ {d} : ack'[e] = ack[e] /\ bound'[e] = bound[e]
  /\ \/ up' = up
     \/ up[c] = <<>> /\ \E f : Sendable(c, d, f) /\ up' = [up EXCEPT ![c] = <<f>>]
  /\ down' = down \/ (down[c] # <<>> /\ Taken(c))
  /\ restores = 0 \/ link[c] => Stored(Prefix(log[d], ack'[d]), ack'[d])
  /\ Phase' /\ Known'

LEMMA MovesStep == ASSUME Inv, NEW c, NEW d, Moves(c, d) PROVE Inv'
<1> USE InvParts
<1>0. /\ c \in Conns /\ d \in Dirs /\ Running /\ c = client.conn /\ d = client.dir
      /\ (d = Original \/ bound[d]) /\ \A e \in Dirs : bound[e] => bound'[e]
  BY DEF Moves, Greeted, Running, ClientInv
<1>1. OneSender' => OneSender
  BY <1>0 DEF OneSender, Moves
<1>2. Types'
  BY DEF Types, Moves, ClientRecords, dbRest
<1>3. StoreInv'
  BY StoreKept DEF Moves, Types
<1>4. /\ \A s \in Conns \ {c} : up'[s] = up[s] /\ down'[s] = down[s]
      /\ up'[c] = up[c] \/ (up[c] = <<>> /\ \E f : Sendable(c, d, f) /\ up'[c] = <<f>>)
      /\ up' \in [Conns -> Seq(UpFrames)] /\ Len(up'[c]) <= 1
  <2>1. \A s \in Conns \ {c} : down'[s] = down[s]
    BY <1>0 DEF Moves, Taken, Channels
  <2>2. CASE up' = up
    BY <1>0, <2>1, <2>2 DEF Channels, Handlers
  <2>3. CASE up[c] = <<>> /\ \E f : Sendable(c, d, f) /\ up' = [up EXCEPT ![c] = <<f>>]
    <3>1. PICK f : Sendable(c, d, f) /\ up' = [up EXCEPT ![c] = <<f>>]
      BY <2>3
    <3>2. <<f>> \in Seq(UpFrames) /\ Len(<<f>>) = 1
      BY <3>1, OneFrame DEF Sendable
    <3> QED BY <1>0, <2>1, <2>3, <3>1, <3>2 DEF Channels
  <2> QED BY <2>2, <2>3 DEF Moves
<1>5. /\ down' \in [Conns -> Seq(DownFrames)] /\ \A s \in Conns : Held(down'[s]) \subseteq Held(down[s])
  <2>1. CASE down' = down
    BY <2>1 DEF Channels
  <2>2. CASE down[c] # <<>> /\ Taken(c)
    <3>1. down' = [down EXCEPT ![c] = Rest(down[c])]
      BY <2>2 DEF Taken, Rest
    <3>2. Rest(down[c]) \in Seq(DownFrames) /\ Held(Rest(down[c])) \subseteq Held(down[c])
      BY <1>0, <2>2, ChannelFacts
    <3>3. down \in [Conns -> Seq(DownFrames)]
      BY DEF Channels
    <3>4. \A s \in Conns : Held(down'[s]) \subseteq Held(down[s])
      BY <1>0, <3>1, <3>2, <3>3
    <3> QED BY <1>0, <3>1, <3>2, <3>3, <3>4
  <2> QED BY <2>1, <2>2 DEF Moves
<1>6. Channels' /\ Handlers'
  BY <1>0, <1>4, <1>5 DEF Channels, Handlers, Moves, dbRest
<1>7. Links' /\ ClientInv'
  BY <1>0 DEF Links, ClientInv, Running, Moves
<1>8. DirInv'
  BY <1>0 DEF DirInv, Moves
<1>9. BatchInv'
  <2>0. UNCHANGED <<log, window>>
    BY DEF Moves
  <2> SUFFICES ASSUME NEW s \in Conns, NEW f \in Held(up'[s]), f.kind = "batch"
               PROVE  /\ Len(f.body.events) <= window[s]
                      /\ \E e \in Dirs : bound'[e] /\ \E first \in 1..Len(log[e]) : \E last \in first..Len(log[e]) :
                           f.body = Store!Batch(log[e], first, last)
    BY <2>0 DEF BatchInv, Store!Batch, Store!Prefix
  <2>1. CASE f \in Held(up[s])
    BY <1>0, <2>1 DEF BatchInv
  <2>2. CASE s = c /\ Sendable(c, d, f)
    BY <1>0, <2>2 DEF Sendable
  <2>3. f \in Held(up[s]) \/ (s = c /\ Sendable(c, d, f))
    <3>1. CASE s = c
      <4>1. CASE up'[c] = up[c]
        BY <3>1, <4>1
      <4>2. CASE \E g : Sendable(c, d, g) /\ up'[c] = <<g>>
        BY <3>1, <4>2, OneFrame
      <4> QED BY <1>4, <4>1, <4>2
    <3>2. CASE s # c
      BY <1>4, <3>2
    <3> QED BY <3>1, <3>2
  <2> QED BY <2>1, <2>2, <2>3
<1>10. Truth'
  BY <1>5 DEF Truth, Moves, dbRest, Stored
<1>11. Acked'
  <2> SUFFICES ASSUME NEW e \in Dirs,
                      restores = 0 \/ (client'.pc \in {"loop", "bye"} /\ client'.dir = e /\ link[client'.conn])
               PROVE  Stored(Prefix(log[e], ack'[e]), ack'[e])
    BY DEF Acked, Moves, dbRest, Stored
  <2>1. CASE e = d
    BY <1>0, <2>1 DEF Moves
  <2>2. CASE e # d
    BY <1>0, <2>2 DEF Moves, Acked
  <2> QED BY <2>1, <2>2
<1>12. Exclusive'
  BY <1>0, <1>4 DEF Exclusive, Moves, dbRest
<1>13. Retries'
  BY <1>0, <1>1, <1>5 DEF Retries, Moves
<1>14. OneLogCommitted'
  BY OneLogKept DEF Moves, dbRest
<1>15. NoPermanentFailure'
  BY <1>1 DEF NoPermanentFailure, Moves
<1>16. Phase' /\ Known'
  BY DEF Moves
<1> QED BY <1>2, <1>3, <1>6, <1>7, <1>8, <1>9, <1>10, <1>11, <1>12, <1>13, <1>14, <1>15, <1>16 DEF Inv, RelayInv
-------------------------------------------------------------------------------
(* What the frame the client has sent tells of the client. *)

LEMMA OwnFrame ==
  ASSUME Inv, Running, up[client.conn] # <<>>
  PROVE  LET c == client.conn  k == Head(up[c]).kind IN
         \/ /\ k = "hello" /\ client.pc = "hello" /\ client.inflight = 0
            /\ up[c] = <<HelloOf(client.dir)>> /\ down[c] = <<>>
         \/ /\ k = "heartbeat" /\ client.pc = "loop" /\ client.waiting /\ Waiting(c)
            /\ down[c] \in {<<>>, Update(0)}
         \/ /\ k = "batch" /\ client.pc = "loop" /\ ~client.waiting /\ client.inflight # 0 /\ Flying(c)
            /\ up[c] = <<BatchOf(client.dir, client.inflight)>> /\ down[c] = <<>>
         \/ k = "goodbye" /\ client.pc = "bye" /\ Parting(c)
<1> USE InvParts
<1> DEFINE c == client.conn
<1>1. CASE client.pc = "hello"
  <2>1. Greeting(c) /\ up[c] # <<>>
    BY <1>1 DEF Phase
  <2>2. up[c] = <<HelloOf(client.dir)>> /\ down[c] = <<>> /\ client.inflight = 0
    BY <2>1 DEF Greeting
  <2>3. Head(up[c]).kind = "hello"
    BY <2>2 DEF HelloOf, Frame
  <2> QED BY <1>1, <2>2, <2>3
<1>2. CASE client.pc = "loop" /\ client.waiting
  <2>1. Waiting(c)
    BY <1>2 DEF Phase
  <2>2. up[c] = <<Frame("heartbeat", Len(log[client.dir]))>> /\ down[c] \in {<<>>, Update(0)}
    BY <2>1 DEF Waiting
  <2>3. Head(up[c]).kind = "heartbeat"
    BY <2>2 DEF Frame
  <2> QED BY <1>2, <2>1, <2>2, <2>3
<1>3. CASE client.pc = "loop" /\ ~client.waiting /\ client.inflight = 0
  BY <1>3 DEF Phase, Idle
<1>4. CASE client.pc = "loop" /\ ~client.waiting /\ client.inflight # 0
  <2>1. Flying(c)
    BY <1>4 DEF Phase
  <2>2. up[c] = <<BatchOf(client.dir, client.inflight)>> /\ down[c] = <<>>
    BY <2>1 DEF Flying
  <2>3. Head(up[c]).kind = "batch"
    BY <2>2 DEF BatchOf, Frame
  <2> QED BY <1>4, <2>1, <2>2, <2>3
<1>5. CASE client.pc = "bye"
  <2>1. Parting(c)
    BY <1>5 DEF Phase
  <2>2. up[c] = <<Frame("goodbye", 0)>>
    BY <2>1 DEF Parting
  <2>3. Head(up[c]).kind = "goodbye"
    BY <2>2 DEF Frame
  <2> QED BY <1>5, <2>1, <2>3
<1>6. client.pc \in {"hello", "loop", "bye"}
  BY DEF Running, Types
<1> QED BY <1>1, <1>2, <1>3, <1>4, <1>5, <1>6

LEMMA GrowsSame == ASSUME StoreInv, UNCHANGED events PROVE Grows
<1>1. events \in Seq(Events) /\ Len(events) \in Nat
  BY StoreFacts
<1>2. SubSeq(events, 1, Len(events)) = events
  BY <1>1, SubSeqFull
<1> QED BY <1>1, <1>2 DEF Grows, Prefix

LEMMA StoredAll == ASSUME StoreInv PROVE Stored(events, Len(events))
<1>1. events \in Seq(Events) /\ Len(events) \in Nat
  BY StoreFacts
<1>2. SubSeq(events, 1, Len(events)) = events
  BY <1>1, SubSeqFull
<1> QED BY <1>1, <1>2 DEF Stored, Prefix

(* One error frame. *)
LEMMA ErrorFrame ==
  ASSUME NEW code \in Codes
  PROVE  /\ Error(code) \in Seq(DownFrames) /\ Held(Error(code)) = {Frame("error", code)}
         /\ Frame("error", code).kind = "error" /\ Frame("error", code).body = code
         /\ Truthful(Error(code)) /\ Error(code) = <<Frame("error", code)>>
<1>1. Frame("error", code) \in DownFrames
  BY DEF Frame, DownFrames
<1>2. Error(code) \in Seq(DownFrames) /\ Held(Error(code)) = {Frame("error", code)}
  BY <1>1, OneFrame DEF Error
<1>3. Frame("error", code).kind = "error" /\ Frame("error", code).body = code
  BY DEF Frame
<1>4. Truthful(Error(code))
  BY <1>2, <1>3 DEF Truthful
<1> QED BY <1>2, <1>3, <1>4 DEF Error

(* The answer to a hello is an error: the client, if it is still there, is told. *)
LEMMA HelloRefusedOwn ==
  ASSUME Inv, NEW c \in Conns, NEW code \in Codes, Arrived(c, "hello"),
         Served(c, Error(code), window[c], "done"), row'.head = row.head,
         OneSender /\ Running /\ client.conn = c => code \in Retryable
  PROVE  OwnServed(c, Error(code))
<1> USE InvParts
<1> SUFFICES ASSUME Running, client.conn = c
             PROVE  /\ Phase' /\ Known' /\ (Greeted' => Greeted)
                    /\ OneSender => \A f \in Held(Error(code)) : f.kind = "error" => f.body \in Retryable
  BY DEF OwnServed
<1>1. /\ client.pc = "hello" /\ client.inflight = 0
      /\ up[c] = <<HelloOf(client.dir)>> /\ down[c] = <<>>
  BY OwnFrame DEF Arrived
<1> DEFINE f == Frame("error", code)
<1>2. /\ up'[c] = <<>> /\ down'[c] = <<f>> /\ handler'[c] = "done" /\ UNCHANGED client
  <2>1. down[c] \o Error(code) = <<f>>
    BY <1>1, ErrorFrame, ConcatEmptySeq
  <2>2. SubSeq(up[c], 2, Len(up[c])) = <<>>
    BY <1>1, OneFrame DEF Rest
  <2> QED BY <2>1, <2>2 DEF Served, Consume, Reply, Channels, Types
<1>3. Held(down'[c]) = {f} /\ f.kind = "error"
  BY <1>2, OneFrame, ErrorFrame
<1> HIDE DEF f
<1>4. Phase'
  BY <1>1, <1>2, <1>3 DEF Phase, Greeting
<1>5. Known' /\ (Greeted' => Greeted)
  BY <1>1, <1>2, <1>3 DEF Known, Greeted
<1> QED BY <1>4, <1>5, ErrorFrame
-------------------------------------------------------------------------------
(* As long as there is one sender, the receiver holds a prefix of its log, and *)
(* what that sender remembers.                                                *)
LEMMA OneSenderLog ==
  ASSUME Inv, OneSender
  PROVE  /\ events = Prefix(log[Original], Len(events)) /\ Len(events) <= Len(log[Original])
         /\ ack[Original] <= Len(events) /\ Prefix(log[Original], ack[Original]) = Prefix(events, ack[Original])
         /\ client.pc # "off" => client.dir = Original
<1> USE InvParts
<1>0. Original \in Dirs /\ log[Original] \in Seq(Events) /\ Len(log[Original]) \in Nat
  BY RelayAssumption, LenProperties DEF Types
<1>1. PICK d \in Dirs : Len(events) <= Len(log[d]) /\ events = Prefix(log[d], Len(events))
  BY DEF OneLogCommitted, DurableTail
<1>2. CASE d = Original
  BY <1>1, <1>2 DEF OneSender, Acked, Stored, ClientInv
<1>3. CASE d # Original
  <2>1. log[d] = <<>> /\ Len(log[d]) = 0
    BY <1>3, NoFrames DEF OneSender, DirInv
  <2>2. events = <<>> /\ Len(events) = 0
    BY <1>1, <2>1, StoreFacts, EmptySeq
  <2>3. SubSeq(log[Original], 1, 0) = <<>>
    BY SubSeqEmpty
  <2>4. events = Prefix(log[Original], Len(events)) /\ Len(events) <= Len(log[Original])
    BY <1>0, <2>2, <2>3 DEF Prefix
  <2> QED BY <1>0, <2>4 DEF OneSender, Acked, Stored, ClientInv
<1> QED BY <1>2, <1>3

LEMMA OpenCodes ==
  ASSUME NEW h, Store!OpenCode(h) # "ok"
  PROVE  Store!OpenCode(h) \in Codes
BY DEF Store!OpenCode, Codes

(* A hello from the only sender is refused only while the last stream lasts. *)
LEMMA OwnHelloAccepted ==
  ASSUME Inv, OneSender, Running, up[client.conn] = <<HelloOf(client.dir)>>,
         NEW h, h = HelloOf(client.dir).body, Store!OpenCode(h) # "ok"
  PROVE  Store!OpenCode(h) = "STREAM_ALREADY_ACTIVE"
<1> USE InvParts
<1>1. client.dir = Original
  BY OneSenderLog DEF Running
<1>2. /\ h.epoch = "epoch" /\ h.tail = Len(log[Original]) /\ h.ack = ack[Original]
      /\ h.ackHash = Prefix(log[Original], ack[Original])
  BY <1>1 DEF HelloOf, Frame
<1>3. /\ row.epoch = "epoch" /\ "epoch" # None /\ row.head = Len(events)
  BY StoreFacts, RelayAssumption
<1>4. /\ Len(events) <= Len(log[Original]) /\ ack[Original] <= Len(events)
      /\ Prefix(log[Original], ack[Original]) = Prefix(events, ack[Original])
      /\ Len(events) \in Int /\ Len(log[Original]) \in Int /\ ack[Original] \in Int
  <2>1. Len(log[Original]) \in Int /\ ack[Original] \in Int
    BY RelayAssumption, LenProperties DEF Types
  <2> QED BY <2>1, OneSenderLog, StoreFacts
<1>5. Store!Prefix(events, h.ack) = h.ackHash /\ ~(row.head > h.tail) /\ ~(row.head < h.ack)
  BY <1>2, <1>3, <1>4 DEF Prefix, Store!Prefix
<1> QED BY <1>2, <1>3, <1>5 DEF Store!OpenCode

LEMMA ServeHelloStep == ASSUME Inv, NEW c \in Conns, ServeHello(c) PROVE Inv'
<1> USE InvParts
<1> DEFINE h == Head(up[c]).body
<1>0. /\ handler[c] = "new" /\ Arrived(c, "hello") /\ Consume(c) /\ up[c] # <<>>
      /\ UNCHANGED <<dirVars, client, link, restores>>
  BY DEF ServeHello, Arrived
<1>w. window[c] \in 0..MaxBatch
  BY DEF Types
<1>1. CASE /\ Store!OpenRefused(c, h)
           /\ HandlerDone(c) /\ Reply(c, Error(Store!OpenCode(h))) /\ UNCHANGED window
  <2> DEFINE code == Store!OpenCode(h)
  <2>1. Ended(c) /\ code \in Codes /\ code # "ok" /\ UNCHANGED faults
    BY <1>1, Refused, OpenCodes
  <2>2. OneLogCommitted' /\ Grows /\ row'.head = row.head /\ StoreInv' /\ faults' \in 0..MaxFaults
    BY <1>0, <2>1, OneLogKept, GrowsSame DEF Ended, dirVars, Types
  <2>3. OneSender /\ Running /\ client.conn = c => code \in Retryable
    <3>1. SUFFICES ASSUME OneSender, Running, client.conn = c PROVE code = "STREAM_ALREADY_ACTIVE"
      BY DEF Retryable
    <3>2. up[client.conn] = <<HelloOf(client.dir)>>
      BY <1>0, <3>1, OwnFrame DEF Arrived
    <3> QED BY <2>1, <3>1, <3>2, OwnHelloAccepted
  <2> HIDE DEF code
  <2>4. window' = [window EXCEPT ![c] = window[c]]
    BY <1>1 DEF Types
  <2>5. Served(c, Error(code), window[c], "done")
    <3>1. Reply(c, Error(code)) /\ HandlerDone(c)
      BY <1>1 DEF code
    <3> QED BY <1>0, <1>w, <2>1, <2>2, <2>4, <3>1, ErrorFrame DEF Served, HandlerDone, Ended
  <2>6. OwnServed(c, Error(code))
    BY <1>0, <2>1, <2>2, <2>3, <2>5, HelloRefusedOwn
  <2> QED BY <2>2, <2>5, <2>6, ServedStep
<1>2. CASE /\ Store!OpenSession(c, h)
           /\ handler' = [handler EXCEPT ![c] = "open"]
           /\ window' = [window EXCEPT ![c] = IF Paused THEN 0 ELSE MaxBatch]
           /\ Reply(c, <<Frame("hello",
                [head |-> row.head, chain |-> row.chain,
                 window |-> IF Paused THEN 0 ELSE MaxBatch])>> \o Update(0))
  <2>0. PICK f : f = Frame("hello", [head |-> row.head, chain |-> row.chain, window |-> W0])
    OBVIOUS
  <2> DEFINE r == <<f>> \o Update(0)
  <2>1. /\ StoreInv' /\ row'.head = row.head /\ UNCHANGED <<events, faults>> /\ session'[c].state = "open"
        /\ \A s \in Conns \ {c} : session'[s] = session[s] /\ session[s].state # "open"
    BY <1>2, Opened
  <2>2. OneLogCommitted' /\ Grows /\ faults' \in 0..MaxFaults
    BY <1>0, <2>1, OneLogKept, GrowsSame DEF dirVars, Types
  <2>3. /\ f.kind = "hello" /\ f.body.head = row.head /\ f.body.chain = events /\ f.body.window = W0
        /\ row.head = Len(events) /\ f \in DownFrames /\ W0 \in 0..MaxBatch
    <3>1. /\ row.head = Len(events) /\ row.chain = events /\ events \in Seq(Events) /\ Len(events) \in Nat
          /\ W0 \in 0..MaxBatch
      BY StoreFacts, RelayAssumption DEF W0
    <3>2. f = [kind |-> "hello", body |-> [head |-> row.head, chain |-> row.chain, window |-> W0]]
      BY <2>0 DEF Frame
    <3> QED BY <3>1, <3>2 DEF DownFrames, PositionBodies
  <2>4. Reply(c, r) /\ window' = [window EXCEPT ![c] = W0]
    BY <1>2, <2>0 DEF W0
  <2>5. Win(0) \in DownFrames /\ Win(0).kind = "window"
    BY RelayAssumption DEF Win, Frame, DownFrames
  <2>6. r \in Seq(DownFrames) /\ Held(r) \subseteq {f, Win(0)} /\ f \in Held(r)
    <3>1. CASE Paused
      <4>1. r = <<f, Win(0)>>
        BY <3>1, Forms
      <4> HIDE DEF r
      <4> QED BY <2>3, <2>5, <4>1, TwoFrames
    <3>2. CASE ~Paused
      <4>1. r = <<f>>
        BY <3>2, Forms
      <4> HIDE DEF r
      <4> QED BY <2>3, <4>1, OneFrame
    <3> QED BY <3>1, <3>2
  <2>7. Truthful(r)
    <3>1. Stored(f.body.chain, f.body.head)'
      <4>1. Stored(events, Len(events))
        BY StoredAll
      <4> QED BY <2>1, <2>3, <4>1 DEF Stored
    <3> HIDE DEF r
    <3> QED BY <2>3, <2>5, <2>6, <3>1 DEF Truthful
  <2>8. Served(c, r, W0, "open")
    BY <1>0, <1>2, <2>1, <2>2, <2>3, <2>4, <2>6, <2>7 DEF Served
  <2>9. OwnServed(c, r)
    <3> SUFFICES ASSUME Running, client.conn = c
                 PROVE  /\ Phase' /\ Known'
                        /\ \A g \in Held(r) : g.kind # "error"
      BY <2>1 DEF OwnServed
    <3>1. /\ client.pc = "hello" /\ client.inflight = 0
          /\ up[c] = <<HelloOf(client.dir)>> /\ down[c] = <<>>
      BY <1>0, OwnFrame DEF Arrived
    <3>2. /\ up'[c] = <<>> /\ down'[c] = r /\ handler'[c] = "open" /\ UNCHANGED client /\ window'[c] = W0
      <4>1. down[c] \o r = r
        BY <2>6, <3>1, ConcatEmptySeq
      <4>2. SubSeq(up[c], 2, Len(up[c])) = <<>>
        BY <3>1, OneFrame DEF Rest
      <4> HIDE DEF r
      <4> QED BY <4>1, <4>2, <2>8 DEF Served, Consume, Reply, Channels, Types
    <3>3. Phase'
      <4>1. f \in Held(down'[c]) /\ f.kind = "hello" /\ f.body.window = W0 /\ down'[c] = <<f>> \o Update(0)
        BY <2>3, <2>6, <3>2
      <4> QED BY <3>1, <3>2, <4>1 DEF Phase, Greeting
    <3>4. Known'
      BY <2>1, <2>3, <2>5, <2>6, <3>1, <3>2 DEF Known
    <3> QED BY <2>3, <2>5, <2>6, <3>3, <3>4
  <2> HIDE DEF r
  <2> QED BY <2>1, <2>8, <2>9, ServedStep
<1> QED BY <1>1, <1>2 DEF ServeHello

LEMMA ServeUnavailableStep == ASSUME Inv, NEW c \in Conns, ServeUnavailable(c) PROVE Inv'
<1> USE InvParts
<1> DEFINE code == "RECEIVER_DURABILITY_UNAVAILABLE"
<1>0. /\ handler[c] = "new" /\ Arrived(c, "hello") /\ Consume(c) /\ up[c] # <<>>
      /\ UNCHANGED <<dirVars, client, link, restores, window, dbVars>> /\ Reply(c, Error(code))
      /\ handler' = [handler EXCEPT ![c] = "done"] /\ faults' \in 0..MaxFaults
  <2>1. faults < MaxFaults /\ faults' = faults + 1
    BY DEF ServeUnavailable, Fault
  <2>2. faults' \in 0..MaxFaults
    BY <2>1, FaultCounted DEF Types
  <2> QED BY <2>2 DEF ServeUnavailable, Arrived, HandlerDone
<1>1. StoreInv' /\ OneLogCommitted' /\ Grows /\ row'.head = row.head
  BY <1>0, StoreKept, OneLogKept, GrowsSame DEF dbVars, dbRest, dirVars
<1>2. code \in Codes /\ code \in Retryable
  BY DEF Codes, Retryable
<1> HIDE DEF code
<1>3. Served(c, Error(code), window[c], "done")
  <2>1. session'[c].state # "open" /\ session' = session
    BY <1>0 DEF Handlers, dbVars
  <2>2. window' = [window EXCEPT ![c] = window[c]] /\ window[c] \in 0..MaxBatch
    BY <1>0 DEF Types
  <2> QED BY <1>0, <1>1, <1>2, <2>1, <2>2, ErrorFrame DEF Served
<1>4. OwnServed(c, Error(code))
  BY <1>0, <1>1, <1>2, <1>3, HelloRefusedOwn
<1> QED BY <1>1, <1>3, <1>4, ServedStep
-------------------------------------------------------------------------------
(* Batches. *)

LEMMA StoreFactsNext ==
  ASSUME StoreInv'
  PROVE  /\ row'.head = Len(events') /\ row'.chain = events' /\ events' \in Seq(Events) /\ Len(events') \in Nat
         /\ SubSeq(events', 1, Len(events')) = events'
<1>1. row'.head = Len(events') /\ row'.chain = events' /\ events' \in Seq(Events)
  BY DEF StoreInv, SP!Inv, SP!StoreInv, SP!TypeOK, SP!RowMatchesTables
<1>2. Len(events') \in Nat
  BY <1>1, LenProperties
<1>3. SubSeq(events', 1, Len(events')) = events'
  BY <1>1, SubSeqFull
<1> QED BY <1>1, <1>2, <1>3

\* b is cut from the log of directory d
CutFrom(b, d, first, last) ==
  /\ d \in Dirs /\ first \in 1..Len(log[d]) /\ last \in first..Len(log[d])
  /\ b = Store!Batch(log[d], first, last)

LEMMA PendingBatch ==
  ASSUME Inv, NEW c \in Conns, Arrived(c, "batch"), NEW b, b = Head(up[c]).body
  PROVE  /\ Len(b.events) <= window[c] /\ window[c] \in 0..MaxBatch /\ Len(b.events) \in Nat
         /\ \E d, first, last : CutFrom(b, d, first, last)
<1> USE InvParts
<1>1. up[c] # <<>> /\ Head(up[c]).kind = "batch" /\ Head(up[c]) \in Held(up[c])
      /\ Head(up[c]) \in UpFrames
  BY ChannelFacts DEF Arrived
<1>2. Len(b.events) \in Nat
  BY <1>1, UpBodies, LenProperties DEF BatchBodies
<1>3. window[c] \in 0..MaxBatch
  BY DEF Types
<1>4. PICK d \in Dirs : \E first \in 1..Len(log[d]) : \E last \in first..Len(log[d]) :
        b = Store!Batch(log[d], first, last)
  BY <1>1 DEF BatchInv
<1>5. PICK first \in 1..Len(log[d]) : \E last \in first..Len(log[d]) :
        b = Store!Batch(log[d], first, last)
  BY <1>4
<1>6. PICK last \in first..Len(log[d]) : b = Store!Batch(log[d], first, last)
  BY <1>5
<1>7. CutFrom(b, d, first, last)
  BY <1>6 DEF CutFrom
<1> QED BY <1>1, <1>2, <1>3, <1>7 DEF BatchInv

LEMMA IngestCodes ==
  ASSUME NEW c, NEW b, NEW w \in 0..MaxBatch, Len(b.events) \in Nat, Len(b.events) <= w,
         Store!IngestCode(c, b, w) # "ok"
  PROVE  Store!IngestCode(c, b, w) \in Codes
<1>1. ~(Len(b.events) > MaxBatch \/ Len(b.events) > w)
  BY RelayAssumption
<1>2. Store!OwnerCode(c) \in {"ok", "STREAM_ALREADY_ACTIVE"}
  BY DEF Store!OwnerCode
<1>3. \A i : Store!EventCode(b, i) \in {"ok", "EVENT_IDENTITY_MISMATCH", "CHECKPOINT_BACKDATED_EVENT"}
  BY DEF Store!EventCode
<1> QED BY <1>1, <1>2, <1>3 DEF Store!IngestCode, Codes

(* What committing it does. *)
LEMMA BatchCommitted ==
  ASSUME Inv, NEW c \in Conns, Arrived(c, "batch"), NEW b, b = Head(up[c]).body,
         session[c].state = "open", Store!IngestCode(c, b, window[c]) = "ok", Store!Commit(b),
         UNCHANGED log, session' \in [Conns -> SessionStates],
         lock' \in Conns \union {None}, faults' \in 0..MaxFaults,
         \A q \in Conns : session'[q].state = "open" =>
           session[q].state = "open" /\ session'[q] = session[q] /\ lock' = lock
  PROVE  /\ StoreInv' /\ Grows /\ OneLogCommitted'
         /\ \A d, first, last : CutFrom(b, d, first, last) =>
              \/ last <= Len(events) /\ events' = events
              \/ Len(events) < last /\ events' = Prefix(log[d], last)
<1> USE InvParts
<1>1. \A d, first, last : CutFrom(b, d, first, last) =>
        /\ StoreInv' /\ Grows
        /\ \/ last <= Len(events) /\ events' = events
           \/ Len(events) < last /\ events' = Prefix(log[d], last)
  <2> SUFFICES ASSUME NEW d, NEW first, NEW last, CutFrom(b, d, first, last)
               PROVE  /\ StoreInv' /\ Grows
                      /\ \/ last <= Len(events) /\ events' = events
                         \/ Len(events) < last /\ events' = Prefix(log[d], last)
    OBVIOUS
  <2>1. d \in Dirs /\ first \in 1..Len(log[d]) /\ last \in first..Len(log[d])
        /\ b = Store!Batch(log[d], first, last)
    BY DEF CutFrom
  <2> QED BY <2>1, Committed
<1>2. PICK d, first, last : CutFrom(b, d, first, last)
  BY PendingBatch
<1>3. OneLogCommitted'
  <2>1. CASE events' = events
    BY <2>1, OneLogKept
  <2>2. CASE events' = Prefix(log[d], last)
    <3>1. d \in Dirs /\ log[d] \in Seq(Events) /\ last \in 0..Len(log[d]) /\ Len(log[d]) \in Nat
      BY <1>2, LenProperties DEF CutFrom, Types
    <3>2. Len(events') = last
      BY <2>2, <3>1, PrefixFacts
    <3>3. Len(events') <= Len(log'[d]) /\ events' = Prefix(log'[d], Len(events'))
      BY <2>2, <3>1, <3>2
    <3> QED BY <3>1, <3>3 DEF OneLogCommitted, DurableTail
  <2> QED BY <1>1, <1>2, <2>1, <2>2
<1> QED BY <1>1, <1>2, <1>3

(* The client's own batch is the one after what it has acknowledged. *)
LEMMA OwnBatch ==
  ASSUME Inv, Running, Arrived(client.conn, "batch")
  PROVE  LET d == client.dir  b == Head(up[client.conn]).body IN
         /\ client.pc = "loop" /\ ~client.waiting /\ Flying(client.conn)
         /\ down[client.conn] = <<>> /\ Len(up[client.conn]) = 1
         /\ d \in Dirs /\ ack[d] \in Nat /\ Len(log[d]) \in Nat
         /\ client.inflight \in (ack[d] + 1)..Len(log[d]) /\ client.inflight # 0
         /\ b = Store!Batch(log[d], ack[d] + 1, client.inflight)
         /\ CutFrom(b, d, ack[d] + 1, client.inflight)
         /\ restores = 0 => row.head = ack[d]
<1> USE InvParts
<1> DEFINE d == client.dir
           c == client.conn
<1>1. /\ client.pc = "loop" /\ ~client.waiting /\ client.inflight # 0 /\ Flying(c)
      /\ up[c] = <<BatchOf(d, client.inflight)>> /\ down[c] = <<>> /\ up[c] # <<>>
  BY OwnFrame DEF Arrived
<1>2. Head(up[c]).body = Store!Batch(log[d], ack[d] + 1, client.inflight) /\ Len(up[c]) = 1
  BY <1>1, OneFrame DEF BatchOf, Frame
<1>3. d \in Dirs /\ ack[d] \in Nat /\ Len(log[d]) \in Nat
  BY LenProperties DEF ClientInv, Running, Types
<1>4. client.inflight \in (ack[d] + 1)..Len(log[d])
  BY <1>1 DEF Flying
<1>5. CutFrom(Head(up[c]).body, d, ack[d] + 1, client.inflight)
  BY <1>2, <1>3, <1>4 DEF CutFrom
<1>6. restores = 0 => row.head = ack[d]
  BY <1>1 DEF Known
<1> QED BY <1>1, <1>2, <1>3, <1>4, <1>5, <1>6

(* The only sender's batch is accepted. *)
LEMMA OwnBatchAccepted ==
  ASSUME Inv, OneSender, Running, Arrived(client.conn, "batch"), session[client.conn].state = "open"
  PROVE  Store!IngestCode(client.conn, Head(up[client.conn]).body, window[client.conn]) = "ok"
<1> USE InvParts
<1> DEFINE d == client.dir
           n == Len(events)
<1>1. /\ d = Original /\ d \in Dirs /\ client.conn \in Conns /\ n \in Nat
      /\ events = Prefix(log[d], n) /\ row.head = n
  BY OneSenderLog, RelayAssumption, StoreFacts DEF Running, ClientInv
<1>2. /\ n = ack[d] /\ client.inflight \in (n + 1)..Len(log[d]) /\ client.inflight \in Nat
      /\ Head(up[client.conn]).body = Store!Batch(log[d], n + 1, client.inflight)
  BY <1>1, OwnBatch DEF OneSender
<1>3. n < client.inflight /\ client.inflight <= Len(log[d])
  BY <1>1, <1>2
<1>4. /\ Len(Store!Batch(log[d], n + 1, client.inflight).events) <= window[client.conn]
      /\ window[client.conn] \in 0..MaxBatch
  BY <1>1, <1>2, PendingBatch
<1> QED BY <1>1, <1>2, <1>3, <1>4, FreshAccepted

(* The answer to a batch is an error: the client, if it is still there, is told. *)
LEMMA BatchFailedOwn ==
  ASSUME Inv, NEW c \in Conns, NEW code \in Codes, Arrived(c, "batch"),
         Served(c, Error(code), window[c], "done"),
         OneSender /\ Running /\ client.conn = c => code \in Retryable
  PROVE  OwnServed(c, Error(code))
<1> USE InvParts
<1> SUFFICES ASSUME Running, client.conn = c
             PROVE  /\ Phase' /\ Known' /\ (Greeted' => Greeted)
                    /\ OneSender => \A f \in Held(Error(code)) : f.kind = "error" => f.body \in Retryable
  BY DEF OwnServed
<1> DEFINE f == Frame("error", code)
<1>1. /\ client.pc = "loop" /\ ~client.waiting /\ client.inflight # 0 /\ Flying(c)
      /\ down[c] = <<>> /\ Len(up[c]) = 1 /\ client.inflight \in (ack[client.dir] + 1)..Len(log[client.dir])
  BY OwnBatch
<1>2. /\ up'[c] = <<>> /\ down'[c] = <<f>> /\ handler'[c] = "done" /\ window'[c] = window[c]
      /\ UNCHANGED <<client, log, ack>>
  <2>1. down[c] \o Error(code) = <<f>>
    BY <1>1, ErrorFrame, ConcatEmptySeq
  <2>2. SubSeq(up[c], 2, Len(up[c])) = <<>>
    BY <1>1, SubSeqEmpty
  <2> QED BY <2>1, <2>2 DEF Served, Consume, Reply, Channels, Types, dirVars
<1>3. Held(down'[c]) = {f} /\ f.kind = "error"
  BY <1>2, OneFrame, ErrorFrame
<1> HIDE DEF f
<1>4. Phase'
  <2>1. Flying(c)'
    BY <1>1, <1>2, <1>3 DEF Flying
  <2> QED BY <1>1, <1>2, <2>1 DEF Phase
<1>5. Known' /\ Greeted
  BY <1>1, <1>2, <1>3 DEF Known, Greeted
<1> QED BY <1>4, <1>5, ErrorFrame

(* No batch is pending elsewhere once a client has been greeted. *)
LEMMA OnlyOwnBatch ==
  ASSUME Inv, NEW c \in Conns, Arrived(c, "batch"), session[c].state = "open"
  PROVE  ~(Running /\ client.conn # c /\ Greeted)
<1>1. Head(up[c]) \in Held(up[c]) /\ Head(up[c]).kind = "batch"
  BY InvParts, ChannelFacts DEF Arrived
<1> QED BY <1>1, InvParts DEF Exclusive

LEMMA ServeBatchRefused ==
  ASSUME Inv, NEW c \in Conns, NEW code \in Codes,
         Streaming(c), Arrived(c, "batch"), Consume(c), Store!CloseSession(c), EndWith(c, Error(code)),
         OneSender /\ Running /\ client.conn = c => code \in Retryable
  PROVE  Inv'
<1> USE InvParts
<1>1. Ended(c) /\ UNCHANGED faults
  BY Closed
<1>2. OneLogCommitted' /\ Grows /\ row'.head = row.head /\ StoreInv' /\ faults' \in 0..MaxFaults
  BY <1>1, OneLogKept, GrowsSame DEF Ended, EndWith, dirVars, Types
<1>3. window' = [window EXCEPT ![c] = window[c]] /\ window[c] \in 0..MaxBatch /\ up[c] # <<>>
  BY DEF EndWith, Types, Arrived
<1>4. Served(c, Error(code), window[c], "done")
  BY <1>1, <1>2, <1>3, ErrorFrame DEF Served, EndWith, HandlerDone, Ended
<1>5. OwnServed(c, Error(code))
  BY <1>4, BatchFailedOwn
<1> QED BY <1>2, <1>4, <1>5, ServedStep

LEMMA ServeBatchBrokenStep == ASSUME Inv, NEW c \in Conns, ServeBatchBroken(c) PROVE Inv'
<1> DEFINE code == "RECEIVER_DURABILITY_UNAVAILABLE"
<1>1. code \in Codes /\ code \in Retryable
  BY DEF Codes, Retryable
<1>2. /\ Streaming(c) /\ Arrived(c, "batch") /\ Consume(c) /\ Store!CloseSession(c)
      /\ EndWith(c, Error(code))
  BY DEF ServeBatchBroken
<1> HIDE DEF code
<1> QED BY <1>1, <1>2, ServeBatchRefused

LEMMA ServeBatchLostStep == ASSUME Inv, NEW c \in Conns, ServeBatchLost(c) PROVE Inv'
<1> USE InvParts
<1> DEFINE code == "RECEIVER_DURABILITY_UNAVAILABLE"
           b == Head(up[c]).body
<1>1. code \in Codes /\ code \in Retryable
  BY DEF Codes, Retryable
<1>2. /\ Streaming(c) /\ Arrived(c, "batch") /\ Consume(c) /\ Store!IngestLost(c, b, window[c])
      /\ EndWith(c, Error(code)) /\ up[c] # <<>>
  BY DEF ServeBatchLost, Arrived
<1> HIDE DEF code
<1>3. /\ session[c].state = "open" /\ Store!IngestCode(c, b, window[c]) = "ok"
      /\ Store!Commit(b) \/ UNCHANGED <<identity, admin, row, events, effects>>
      /\ session' = [session EXCEPT ![c].state = "broken"]
      /\ lock' \in {lock, IF lock = c THEN None ELSE lock}
      /\ faults < MaxFaults /\ faults' = faults + 1
  BY <1>2 DEF Store!IngestLost, Store!Disconnected, Store!tables
<1>4. faults' \in 0..MaxFaults
  BY <1>3, FaultCounted DEF Types
<1>5. /\ session'[c].state = "broken" /\ \A s \in Conns \ {c} : session'[s] = session[s]
      /\ session' \in [Conns -> SessionStates] /\ lock' \in Conns \union {None}
      /\ lock' = lock \/ (lock = c /\ lock' = None)
  BY <1>3, StoreFacts DEF SessionStates
<1>6. StoreInv' /\ Grows /\ OneLogCommitted'
  <2>1. CASE Store!Commit(b)
    <3>1. \A q \in Conns : session'[q].state = "open" =>
            session[q].state = "open" /\ session'[q] = session[q] /\ lock' = lock
      BY <1>3, <1>5, StoreFacts
    <3>2. UNCHANGED log
      BY <1>2 DEF EndWith, dirVars
    <3> HIDE DEF b
    <3>3. b = Head(up[c]).body
      BY DEF b
    <3> QED BY <1>2, <1>3, <1>4, <1>5, <2>1, <3>1, <3>2, <3>3, BatchCommitted
  <2>2. CASE UNCHANGED <<identity, admin, row, events, effects>>
    <3> DEFINE x == [session[c] EXCEPT !.state = "broken"]
    <3>1. x \in [state : {"new", "closing", "broken"}, owner : Nat] /\ session' = [session EXCEPT ![c] = x]
      BY <1>3, StoreFacts DEF SessionStates
    <3> HIDE DEF x
    <3>2. Ended(c)
      BY <1>4, <1>5, <2>2, <3>1, EndedStep
    <3> QED BY <1>2, <2>2, <3>2, OneLogKept, GrowsSame DEF Ended, EndWith, dirVars
  <2> QED BY <1>3, <2>1, <2>2
<1>7. window' = [window EXCEPT ![c] = window[c]] /\ window[c] \in 0..MaxBatch
  BY <1>2 DEF EndWith, Types
<1>8. Served(c, Error(code), window[c], "done")
  BY <1>1, <1>2, <1>4, <1>5, <1>6, <1>7, ErrorFrame DEF Served, EndWith, HandlerDone
<1>9. OwnServed(c, Error(code))
  BY <1>1, <1>2, <1>8, BatchFailedOwn
<1> QED BY <1>2, <1>3, <1>8, <1>9, OnlyOwnBatch, ServedStep

LEMMA NewWindow ==
  ASSUME Types, NEW c \in Conns, NEW n \in Nat, NEW w,
         w = IF Paused THEN Lower(1 + (n % 7), SmallWindow) ELSE window[c]
  PROVE  w \in 0..MaxBatch
<1>1. n % 7 \in 0..6
  OBVIOUS
<1>2. \A k \in 0..6 : Lower(1 + k, SmallWindow) \in 0..MaxBatch
  BY RelayAssumption DEF Lower
<1> QED BY <1>1, <1>2 DEF Types

LEMMA WinFrame ==
  ASSUME NEW n \in 0..MaxBatch
  PROVE  Win(n) \in DownFrames /\ Win(n).kind = "window" /\ Win(n).body = n
BY DEF Win, Frame, DownFrames

LEMMA ServeBatchStep == ASSUME Inv, NEW c \in Conns, ServeBatch(c) PROVE Inv'
<1> USE InvParts
<1>b. PICK b : b = Head(up[c]).body
  OBVIOUS
<1>c. PICK code : code = Store!IngestCode(c, b, window[c])
  OBVIOUS
<1>0. /\ Streaming(c) /\ Arrived(c, "batch") /\ Consume(c) /\ session[c].state = "open" /\ up[c] # <<>>
      /\ IF code = "ok" THEN Store!Ingest(c, b, window[c]) /\ AckBatch(c)
         ELSE Store!CloseSession(c) /\ EndWith(c, Error(code))
  BY <1>b, <1>c DEF ServeBatch, Arrived
<1>1. CASE code # "ok"
  <2>1. code \in Codes
    BY <1>0, <1>1, <1>b, <1>c, PendingBatch, IngestCodes
  <2>2. OneSender /\ Running /\ client.conn = c => code \in Retryable
    BY <1>0, <1>1, <1>b, <1>c, OwnBatchAccepted
  <2> QED BY <1>0, <1>1, <2>1, <2>2, ServeBatchRefused
<1>2. CASE code = "ok"
  <2>1. /\ Store!Commit(b) /\ UNCHANGED <<session, lock, faults>> /\ AckBatch(c)
        /\ UNCHANGED <<dirVars, client, link, handler, restores>>
    BY <1>0, <1>2 DEF Store!Ingest, AckBatch
  <2>2. /\ StoreInv' /\ Grows /\ OneLogCommitted' /\ faults' \in 0..MaxFaults
        /\ \A d, first, last : CutFrom(b, d, first, last) =>
              \/ last <= Len(events) /\ events' = events
              \/ Len(events) < last /\ events' = Prefix(log[d], last)
    <3>1. /\ session' \in [Conns -> SessionStates] /\ lock' \in Conns \union {None} /\ faults' \in 0..MaxFaults
          /\ \A q \in Conns : session'[q].state = "open" =>
               session[q].state = "open" /\ session'[q] = session[q] /\ lock' = lock
      BY <2>1, StoreFacts
    <3>2. UNCHANGED log
      BY <2>1 DEF dirVars
    <3> QED BY <1>0, <1>2, <1>b, <1>c, <2>1, <3>1, <3>2, BatchCommitted
  <2>3. PICK n, w, f : /\ n = row'.head
                       /\ w = IF Paused THEN Lower(1 + (n % 7), SmallWindow) ELSE window[c]
                       /\ f = Frame("ack", [n |-> n, chain |-> row'.chain])
    OBVIOUS
  <2> DEFINE r == Update(0) \o <<f>> \o Update(w)
  <2>4. window' = [window EXCEPT ![c] = w] /\ Reply(c, r)
    BY <2>1, <2>3 DEF AckBatch, AfterIngest
  <2>5. /\ n = Len(events') /\ n \in Nat /\ row'.chain = events' /\ events' \in Seq(Events)
        /\ events' = SubSeq(events', 1, n)
    BY <2>2, <2>3, StoreFactsNext
  <2>6. w \in 0..MaxBatch /\ 0 \in 0..MaxBatch
    BY <2>3, <2>5, NewWindow, RelayAssumption
  <2>7. f \in DownFrames /\ f.kind = "ack" /\ f.body.n = n /\ f.body.chain = events'
    <3>1. f = [kind |-> "ack", body |-> [n |-> n, chain |-> events']]
      BY <2>3, <2>5 DEF Frame
    <3>2. [n |-> n, chain |-> events'] \in AckBodies
      BY <2>5 DEF AckBodies
    <3> QED BY <3>1, <3>2 DEF DownFrames
  <2>8. /\ r \in Seq(DownFrames) /\ Held(r) \subseteq {f, Win(0), Win(w)} /\ f \in Held(r)
        /\ r # <<>>
    <3>1. {f, Win(0), Win(w)} \subseteq DownFrames
      BY <2>6, <2>7, WinFrame
    <3>2. CASE Paused
      <4>1. r = <<Win(0), f, Win(w)>>
        BY <3>2, Forms
      <4> HIDE DEF r
      <4> QED BY <3>1, <4>1, ThreeFrames
    <3>3. CASE ~Paused
      <4>1. r = <<f>>
        BY <3>3, Forms
      <4> HIDE DEF r
      <4> QED BY <3>1, <4>1, OneFrame
    <3> QED BY <3>2, <3>3
  <2> HIDE DEF r
  <2>9. \A g \in Held(r) : g = f \/ g.kind = "window"
    BY <2>6, <2>8, WinFrame
  <2>10. Truthful(r)
    <3>1. Stored(f.body.chain, f.body.n)'
      <4>1. f.body.n <= Len(events') /\ f.body.chain = Prefix(events', f.body.n)
        BY <2>5, <2>7 DEF Prefix
      <4> QED BY <4>1 DEF Stored
    <3> QED BY <2>7, <2>9, <3>1 DEF Truthful
  <2>11. Served(c, r, w, "open")
    <3>1. handler' = [handler EXCEPT ![c] = "open"] /\ session'[c].state \in {"open", "broken"}
      BY <1>0, <2>1 DEF Types, Streaming
    <3> QED BY <1>0, <2>1, <2>2, <2>4, <2>6, <2>8, <2>10, <3>1 DEF Served
  <2>12. OwnServed(c, r)
    <3> SUFFICES ASSUME Running, client.conn = c
                 PROVE  Phase' /\ Known' /\ Greeted /\ \A g \in Held(r) : g.kind # "error"
      BY DEF OwnServed
    <3>1. /\ client.pc = "loop" /\ ~client.waiting /\ Flying(c) /\ down[c] = <<>> /\ Len(up[c]) = 1
          /\ client.inflight \in (ack[client.dir] + 1)..Len(log[client.dir]) /\ client.inflight # 0
          /\ CutFrom(b, client.dir, ack[client.dir] + 1, client.inflight)
          /\ ack[client.dir] \in Nat /\ (restores = 0 => row.head = ack[client.dir])
      BY <1>0, <1>b, OwnBatch
    <3>2. /\ up'[c] = <<>> /\ down'[c] = r /\ handler'[c] = "open" /\ window'[c] = w
          /\ UNCHANGED <<client, log, ack, restores>>
      <4>1. down[c] \o r = r
        BY <2>8, <3>1, ConcatEmptySeq
      <4>2. SubSeq(up[c], 2, Len(up[c])) = <<>>
        BY <3>1, SubSeqEmpty
      <4> QED BY <4>1, <4>2, <2>11 DEF Served, Consume, Reply, Channels, Types, dirVars
    <3>3. Phase'
      <4>1. ~Paused => client.credit = w
        BY <2>3, <3>1 DEF Flying
      <4>2. f \in Held(down'[c]) /\ f.kind = "ack" /\ down'[c] = Update(0) \o <<f>> \o Update(window'[c])
        BY <2>7, <2>8, <3>2 DEF r
      <4>3. Flying(c)'
        BY <3>1, <3>2, <4>1, <4>2 DEF Flying
      <4> QED BY <3>1, <3>2, <4>3 DEF Phase
    <3>4. restores = 0 => row'.head = client.inflight
      <4> SUFFICES ASSUME restores = 0 PROVE n = client.inflight
        BY <2>3
      <4> DEFINE d == client.dir
                 last == client.inflight
      <4>1. Len(events) = ack[d] /\ Len(events) \in Nat
        BY <3>1, StoreFacts
      <4>2. ~(last <= Len(events))
        BY <3>1, <4>1
      <4>3. events' = Prefix(log[d], last)
        BY <2>2, <3>1, <4>2
      <4>4. d \in Dirs /\ log[d] \in Seq(Events) /\ last \in 0..Len(log[d])
        BY <3>1 DEF CutFrom, Types
      <4> HIDE DEF d, last
      <4>5. Len(events') = last
        BY <4>3, <4>4, PrefixFacts
      <4> QED BY <2>5, <4>5 DEF last
    <3>5. Known'
      BY <2>3, <2>7, <2>9, <3>1, <3>2, <3>4 DEF Known
    <3> QED BY <2>7, <2>9, <3>1, <3>3, <3>5 DEF Greeted
  <2> QED BY <1>0, <2>11, <2>12, OnlyOwnBatch, ServedStep
<1> QED BY <1>1, <1>2

LEMMA ServeHeartbeatStep == ASSUME Inv, NEW c \in Conns, ServeHeartbeat(c) PROVE Inv'
<1> USE InvParts
<1> DEFINE f == Frame("heartbeat", 0)
           r == <<f>> \o Update(MaxBatch)
<1>0. /\ Streaming(c) /\ Arrived(c, "heartbeat") /\ Consume(c) /\ up[c] # <<>>
      /\ window' = [window EXCEPT ![c] = MaxBatch] /\ Reply(c, r)
      /\ UNCHANGED <<dirVars, client, link, handler, dbVars, faults, restores>>
  BY DEF ServeHeartbeat, Arrived
<1>1. StoreInv' /\ Grows /\ OneLogCommitted' /\ faults' \in 0..MaxFaults /\ row'.head = row.head
  BY <1>0, StoreKept, OneLogKept, GrowsSame DEF dbVars, dbRest, dirVars, Types
<1>2. f \in DownFrames /\ f.kind = "heartbeat" /\ MaxBatch \in 0..MaxBatch
  BY RelayAssumption DEF Frame, DownFrames
<1>3. r \in Seq(DownFrames) /\ Held(r) \subseteq {f, Win(MaxBatch)}
  <2>1. {f, Win(MaxBatch)} \subseteq DownFrames
    BY <1>2, WinFrame
  <2> HIDE DEF f
  <2>2. CASE Paused
    <3>1. r = <<f, Win(MaxBatch)>>
      BY <2>2, Forms
    <3> HIDE DEF r
    <3> QED BY <2>1, <3>1, TwoFrames
  <2>3. CASE ~Paused
    <3>1. r = <<f>>
      BY <2>3, Forms
    <3> HIDE DEF r
    <3> QED BY <2>1, <3>1, OneFrame
  <2> QED BY <2>2, <2>3
<1>4. \A g \in Held(r) : g.kind \in {"heartbeat", "window"}
  BY <1>2, <1>3, WinFrame
<1> HIDE DEF f, r
<1>5. Served(c, r, MaxBatch, "open")
  <2>1. handler' = [handler EXCEPT ![c] = "open"] /\ session' = session
        /\ session[c].state \in {"open", "broken"}
    BY <1>0 DEF Types, Streaming, Handlers, dbVars
  <2>2. Truthful(r)
    BY <1>4 DEF Truthful
  <2> QED BY <1>0, <1>1, <1>2, <1>3, <2>1, <2>2 DEF Served
<1>6. OwnServed(c, r)
  <2> SUFFICES ASSUME Running, client.conn = c
               PROVE  Phase' /\ Known' /\ Greeted /\ \A g \in Held(r) : g.kind # "error"
    BY DEF OwnServed
  <2>1. /\ client.pc = "loop" /\ client.waiting /\ Waiting(c)
        /\ down[c] \in {<<>>, Update(0)}
    BY <1>0, OwnFrame DEF Arrived
  <2>2. /\ up'[c] = <<>> /\ down'[c] = down[c] \o r /\ handler'[c] = "open" /\ window'[c] = MaxBatch
        /\ UNCHANGED <<client, log, ack, restores>>
    <3>1. up[c] = <<Frame("heartbeat", Len(log[client.dir]))>>
      BY <1>0, <2>1 DEF Waiting
    <3>2. SubSeq(up[c], 2, Len(up[c])) = <<>>
      BY <3>1, OneFrame DEF Rest
    <3> QED BY <3>2, <1>5 DEF Served, Consume, Reply, Channels, Types, dirVars
  <2>3. down'[c] \in {<<f>> \o Update(MaxBatch), Update(0) \o <<f>> \o Update(MaxBatch)}
    <3>1. CASE down[c] = <<>>
      BY <1>3, <2>2, <3>1, ConcatEmptySeq DEF r
    <3>2. CASE down[c] = Update(0)
      <4>1. Update(0) \o (<<f>> \o Update(MaxBatch)) = Update(0) \o <<f>> \o Update(MaxBatch)
        BY Forms
      <4> QED BY <2>2, <3>2, <4>1 DEF r
    <3> QED BY <2>1, <3>1, <3>2
  <2>4. Phase'
    <3>1. Waiting(c)'
      BY <2>1, <2>2, <2>3 DEF Waiting, f
    <3> QED BY <2>1, <2>2, <3>1 DEF Phase
  <2>5. Known'
    <3>1. client.inflight = 0
      BY <2>1 DEF Waiting
    <3>2. \A g \in Held(down'[c]) : g.kind # "ack"
      <4>1. Held(down'[c]) \subseteq Held(down[c]) \union Held(r)
        BY <1>3, <2>2, ChannelFacts, HeldJoin
      <4>2. Held(down[c]) \subseteq {Win(0)}
        <5>1. CASE down[c] = <<>>
          BY <5>1, NoFrames
        <5>2. CASE down[c] = Update(0) /\ ~Paused
          BY <5>2, NoFrames DEF Update
        <5>3. CASE down[c] = Update(0) /\ Paused
          <6>1. down[c] = <<Win(0)>>
            BY <5>3 DEF Update, Win
          <6> QED BY <6>1, OneFrame
        <5> QED BY <2>1, <5>1, <5>2, <5>3
      <4>3. 0 \in 0..MaxBatch
        BY RelayAssumption
      <4> QED BY <1>4, <4>1, <4>2, <4>3, WinFrame
    <3> QED BY <1>1, <2>1, <2>2, <3>1, <3>2 DEF Known
  <2> QED BY <1>4, <2>1, <2>4, <2>5 DEF Greeted
<1> QED BY <1>1, <1>5, <1>6, ServedStep

LEMMA ServeGoodbyeStep == ASSUME Inv, NEW c \in Conns, ServeGoodbye(c) PROVE Inv'
<1> USE InvParts
<1> DEFINE f == Frame("goodbye", 0)
           r == <<f>>
<1>0. /\ Streaming(c) /\ Arrived(c, "goodbye") /\ Consume(c) /\ up[c] # <<>>
      /\ Store!CloseSession(c) /\ EndWith(c, r)
  BY DEF ServeGoodbye, Arrived
<1>1. Ended(c) /\ UNCHANGED faults
  BY <1>0, Closed
<1>2. OneLogCommitted' /\ Grows /\ row'.head = row.head /\ StoreInv' /\ faults' \in 0..MaxFaults
  BY <1>0, <1>1, OneLogKept, GrowsSame DEF Ended, EndWith, dirVars, Types
<1>3. f \in DownFrames /\ f.kind = "goodbye"
  BY DEF Frame, DownFrames
<1>4. r \in Seq(DownFrames) /\ \A g \in Held(r) : g.kind = "goodbye"
  BY <1>3, OneFrame
<1> HIDE DEF f, r
<1>5. Served(c, r, window[c], "done")
  <2>1. window' = [window EXCEPT ![c] = window[c]] /\ window[c] \in 0..MaxBatch
    BY <1>0 DEF EndWith, Types
  <2>2. Truthful(r)
    BY <1>4 DEF Truthful
  <2> QED BY <1>0, <1>1, <1>2, <1>4, <2>1, <2>2 DEF Served, EndWith, HandlerDone, Ended
<1>6. OwnServed(c, r)
  <2> SUFFICES ASSUME Running, client.conn = c
               PROVE  Phase' /\ Known' /\ Greeted /\ \A g \in Held(r) : g.kind # "error"
    BY DEF OwnServed
  <2>1. client.pc = "bye" /\ Parting(c)
    BY <1>0, OwnFrame DEF Arrived
  <2>2. /\ up'[c] = <<>> /\ down'[c] = down[c] \o r /\ handler'[c] = "done" /\ UNCHANGED client
    <3>1. up[c] = <<Frame("goodbye", 0)>>
      BY <1>0, <2>1 DEF Parting
    <3>2. SubSeq(up[c], 2, Len(up[c])) = <<>>
      BY <3>1, OneFrame DEF Rest
    <3> QED BY <3>2, <1>5 DEF Served, Consume, Reply, Channels, Types
  <2>3. Held(down'[c]) \subseteq Held(down[c]) \union Held(r)
    BY <1>4, <2>2, ChannelFacts, HeldJoin
  <2>4. Phase'
    <3>1. Parting(c)'
      BY <1>4, <2>1, <2>2, <2>3 DEF Parting
    <3> QED BY <2>1, <2>2, <3>1 DEF Phase
  <2>5. Known'
    BY <2>1, <2>2 DEF Known
  <2> QED BY <1>4, <2>1, <2>4, <2>5 DEF Greeted
<1> QED BY <1>2, <1>5, <1>6, ServedStep
-------------------------------------------------------------------------------
(* Handlers end, links and sessions are lost. *)

LEMMA QuietFrame ==
  ASSUME Inv, NEW c \in Conns, Ended(c), faults' \in 0..MaxFaults,
         UNCHANGED <<dirVars, client, up, down, window, restores>>,
         link' = link, handler' = [handler EXCEPT ![c] = "done"] \/ handler' = handler,
         handler'[c] = "new" => session'[c].state = "new",
         handler'[c] = "open" => session'[c].state \in {"open", "broken"}
  PROVE  Inv'
<1> USE InvParts
<1>1. /\ handler' \in [Conns -> {"new", "open", "done"}] /\ \A s \in Conns : handler'[s] \in {handler[s], "done"}
      /\ \A s \in Conns \ {c} : handler'[s] = handler[s] /\ session'[s] = session[s]
      /\ session'[c].state # "open" /\ link' \in [Conns -> BOOLEAN]
  BY DEF Types, Ended
<1>2. Handlers'
  BY <1>1 DEF Handlers
<1>3. Quiet
  BY <1>1, <1>2 DEF Quiet, Ended
<1> QED BY <1>3, QuietStep

LEMMA ServeAbandonedStep == ASSUME Inv, NEW c \in Conns, ServeAbandoned(c) PROVE Inv'
<1> USE InvParts
<1>0. /\ handler[c] # "done" /\ handler' = [handler EXCEPT ![c] = "done"] /\ handler'[c] = "done"
      /\ UNCHANGED <<dirVars, client, up, down, link, window, restores>>
      /\ IF handler[c] = "open" THEN Store!CloseSession(c) ELSE UNCHANGED <<dbVars, faults>>
  BY DEF ServeAbandoned, HandlerDone, Types
<1>1. CASE handler[c] = "open"
  <2>1. Ended(c) /\ faults' \in 0..MaxFaults
    BY <1>0, <1>1, Closed DEF Types
  <2> QED BY <1>0, <2>1, QuietFrame
<1>2. CASE handler[c] # "open"
  <2>1. session[c].state # "open" /\ UNCHANGED <<dbVars, faults>>
    BY <1>0, <1>2 DEF Handlers
  <2>2. StoreInv' /\ faults' \in 0..MaxFaults
    BY <2>1, StoreKept DEF dbVars, dbRest, Types
  <2>3. Ended(c)
    BY <2>1, <2>2 DEF Ended, dbVars
  <2> QED BY <1>0, <2>2, <2>3, QuietFrame
<1> QED BY <1>1, <1>2

LEMMA LoseConnectionStep == ASSUME Inv, NEW c \in Conns, LoseConnection(c) PROVE Inv'
<1> USE InvParts
<1>1. Store!LoseConnection(c) /\ UNCHANGED <<dirVars, client, connVars, restores>>
  BY DEF LoseConnection
<1>2. Ended(c) /\ session'[c].state = "broken" /\ session[c].state = "open"
  BY <1>1, Lost
<1>3. faults' \in 0..MaxFaults
  BY <1>2 DEF Ended, StoreInv, SP!Inv, SP!TypeOK
<1>4. handler[c] = "open"
  BY <1>2 DEF Handlers
<1> QED BY <1>1, <1>2, <1>3, <1>4, QuietFrame DEF connVars

LEMMA BackendExitStep == ASSUME Inv, NEW c \in Conns, BackendExit(c) PROVE Inv'
<1> USE InvParts
<1>1. /\ handler[c] = "done" /\ UNCHANGED <<dirVars, client, connVars, restores>>
      /\ Store!BackendExit(c) \/ Store!CloseSession(c)
  BY DEF BackendExit
<1>2. Ended(c) /\ UNCHANGED faults
  BY <1>1, Exited, Closed
<1>3. faults' \in 0..MaxFaults
  BY <1>2 DEF Types
<1> QED BY <1>1, <1>2, <1>3, QuietFrame DEF connVars

LEMMA LinkDownStep == ASSUME Inv, NEW c \in Conns, LinkDown(c) PROVE Inv'
<1> USE InvParts
<1>1. /\ link' = [link EXCEPT ![c] = FALSE] /\ faults < MaxFaults /\ faults' = faults + 1
      /\ UNCHANGED <<dirVars, client, up, down, handler, window, dbVars, restores>>
  BY DEF LinkDown, Fault
<1>2. faults' \in 0..MaxFaults
  BY <1>1, FaultCounted DEF Types
<1>3. StoreInv'
  BY <1>1, <1>2, StoreKept DEF dbVars, dbRest
<1>4. link' \in [Conns -> BOOLEAN] /\ \A s \in Conns : link'[s] => link[s]
  BY <1>1 DEF Types
<1>5. Handlers'
  BY <1>1 DEF Handlers, dbVars
<1>6. handler' \in [Conns -> {"new", "open", "done"}] /\ row' = row /\ session' = session /\ events' = events
  BY <1>1 DEF Types, dbVars
<1>7. Quiet
  BY <1>1, <1>2, <1>3, <1>4, <1>5, <1>6 DEF Quiet
<1> QED BY <1>7, QuietStep

LEMMA ServerCrashStep == ASSUME Inv, ServerCrash PROVE Inv'
<1> USE InvParts
<1>1. /\ faults < MaxFaults /\ faults' = faults + 1
      /\ link' = [c \in Conns |-> FALSE] /\ handler' = [c \in Conns |-> "done"]
      /\ session' = [c \in Conns |-> IF session[c].state \in {"open", "broken"}
                                       THEN [session[c] EXCEPT !.state = "closing"]
                                       ELSE session[c]]
      /\ UNCHANGED <<dirVars, client, up, down, window,
                     identity, admin, row, events, effects, lock, restores>>
  BY DEF ServerCrash, Fault
<1>2. faults' \in 0..MaxFaults
  BY <1>1, FaultCounted DEF Types
<1>3. session' \in [Conns -> SessionStates] /\ \A c \in Conns : session'[c].state # "open"
  <2>1. \A c \in Conns : session'[c] \in SessionStates /\ session'[c].state # "open"
    BY <1>1, StoreFacts DEF SessionStates
  <2> QED BY <1>1, <2>1
<1>4. StoreInv'
  <2>1. SP!TypeOK'
    BY <1>1, <1>2, <1>3 DEF StoreInv, SP!Inv, SP!TypeOK, SessionStates
  <2>2. /\ SP!EmptyUntilBootstrap' /\ SP!OneHistory' /\ SP!RowMatchesTables'
        /\ SP!StoredInOrder' /\ SP!LiveSessionOwnsStream'
    BY <1>1, <1>3 DEF StoreInv, SP!Inv, SP!StoreInv, SP!EmptyUntilBootstrap, SP!OneHistory,
       SP!RowMatchesTables, SP!StoredInOrder, SP!LiveSessionOwnsStream
  <2> QED BY <1>1, <2>1, <2>2 DEF StoreInv, SP!Inv, SP!StoreInv
<1>5. Handlers'
  BY <1>1, <1>3 DEF Handlers
<1>6. Quiet
  BY <1>1, <1>2, <1>3, <1>4, <1>5 DEF Quiet
<1> QED BY <1>6, QuietStep

(* A backup holds the first events, and their effects and row with them. *)
LEMMA StoreRestored ==
  ASSUME Inv, NEW n \in 0..Len(events), Restore(n)
  PROVE  /\ StoreInv' /\ events' = Prefix(events, n) /\ \A c \in Conns : session'[c].state # "open"
<1> USE InvParts
<1>1. /\ events' = Prefix(events, n) /\ effects' = Prefix(effects, n)
      /\ row' = [row EXCEPT !.head = n, !.chain = Prefix(events, n),
                            !.last = IF n = 0 THEN 0 ELSE events[n].time,
                            !.floor = IF n = 0 THEN -1 ELSE events[n].through]
      /\ session' = [c \in Conns |-> [state |-> "new", owner |-> 0]] /\ lock' = None
      /\ UNCHANGED <<identity, admin, faults>>
  BY SameStore DEF Restore
<1>2. /\ events \in Seq(Events) /\ Len(events) \in Nat /\ n \in Nat /\ \A i \in 1..Len(events) : events[i] \in Events
      /\ row \in [epoch : {"epoch"} \union {None}, head : Nat, chain : Seq(Events),
                  owner : Nat, floor : Int, last : Nat]
      /\ row.epoch = "epoch" /\ "epoch" # None
  BY StoreFacts, LenProperties, RelayAssumption DEF StoreInv, SP!Inv, SP!TypeOK
<1>3. /\ events' \in Seq(Events) /\ Len(events') = n /\ \A i \in 1..n : events'[i] = events[i]
  BY <1>1, <1>2, PrefixFacts
<1>4. effects' = SP!Boundaries(events') /\ effects' \in Seq(Nat)
  <2>1. /\ effects = SP!Boundaries(events) /\ effects \in Seq(Nat) /\ Len(effects) = Len(events)
        /\ \A i \in 1..Len(events) : effects[i] = events[i].through
    BY <1>2, SP!BoundariesFacts, StoreAssumption DEF StoreInv, SP!Inv, SP!StoreInv, SP!RowMatchesTables
  <2>2. /\ SP!Boundaries(events') \in Seq(Nat) /\ Len(SP!Boundaries(events')) = n
        /\ \A i \in 1..n : SP!Boundaries(events')[i] = events'[i].through
    BY <1>3, SP!BoundariesFacts, StoreAssumption
  <2>3. \A i \in 1..n : effects[i] \in Nat
    BY <1>2, <2>1, LenProperties
  <2>4. /\ 1 \in Int /\ n \in Int /\ (1 <= n => n - 1 + 1 = n) /\ (~(1 <= n) => n = 0)
        /\ 1..(n - 1 + 1) = 1..n /\ \A i \in 1..n : 1 + i - 1 = i
    BY <1>2
  <2>5. /\ SubSeq(effects, 1, n) \in Seq(Nat)
        /\ Len(SubSeq(effects, 1, n)) = IF 1 <= n THEN n - 1 + 1 ELSE 0
        /\ \A i \in 1..(n - 1 + 1) : SubSeq(effects, 1, n)[i] = effects[1 + i - 1]
    BY ONLY <2>3, <2>4, SubSeqProperties
  <2>6. /\ effects' \in Seq(Nat) /\ Len(effects') = n /\ \A i \in 1..n : effects'[i] = effects[i]
    BY <1>1, <2>4, <2>5 DEF Prefix
  <2>7. \A i \in 1..Len(effects') : effects'[i] = SP!Boundaries(events')[i]
    <3>1. \A i \in 1..n : i \in 1..Len(events)
      BY <1>2
    <3>2. \A i \in 1..n : effects'[i] = events[i].through /\ SP!Boundaries(events')[i] = events[i].through
      BY <1>3, <2>1, <2>2, <2>6, <3>1
    <3> QED BY <2>6, <3>2
  <2> QED BY <2>2, <2>6, <2>7, SeqEqual
<1>5. n > 0 => /\ events[n] \in Events /\ events[n].time \in Nat /\ events[n].through \in Int
               /\ events'[n] = events[n]
  BY <1>2, <1>3, RelayAssumption
<1>6. /\ row' \in [epoch : {"epoch"} \union {None}, head : Nat, chain : Seq(Events),
                   owner : Nat, floor : Int, last : Nat]
      /\ row'.epoch = "epoch" /\ row'.head = n /\ row'.chain = events'
      /\ (n > 0 => row'.last = events[n].time /\ row'.floor = events[n].through)
      /\ (n = 0 => row'.last = 0 /\ row'.floor = -1)
  <2>1. PICK last, floor : /\ last = IF n = 0 THEN 0 ELSE events[n].time
                           /\ floor = IF n = 0 THEN -1 ELSE events[n].through
    OBVIOUS
  <2>2. last \in Nat /\ floor \in Int
    <3>1. 0 \in Nat /\ -1 \in Int
      OBVIOUS
    <3>2. CASE n = 0
      BY <2>1, <3>1, <3>2
    <3>3. CASE n > 0
      BY <1>5, <2>1, <3>3
    <3> QED BY <1>2, <3>2, <3>3
  <2>3. row' = [epoch |-> row.epoch, head |-> n, chain |-> events', owner |-> row.owner,
                floor |-> floor, last |-> last]
    <3>1. row' = [row EXCEPT !.head = n, !.chain = events', !.last = last, !.floor = floor]
      BY <1>1, <2>1
    <3> QED BY ONLY <1>2, <3>1
  <2>4. row.epoch \in {"epoch"} \union {None} /\ row.owner \in Nat
    BY <1>2
  <2>5. row' \in [epoch : {"epoch"} \union {None}, head : Nat, chain : Seq(Events),
                  owner : Nat, floor : Int, last : Nat]
    BY ONLY <1>2, <1>3, <2>2, <2>3, <2>4
  <2>6. row'.epoch = "epoch" /\ row'.head = n /\ row'.chain = events' /\ row'.last = last /\ row'.floor = floor
    BY <1>2, <2>3
  <2>7. n > 0 => n # 0
    OBVIOUS
  <2> QED BY <2>1, <2>5, <2>6, <2>7
<1>7. \A c \in Conns : session'[c] = [state |-> "new", owner |-> 0]
  BY <1>1
<1>8. SP!TypeOK'
  <2>1. session' \in [Conns -> SessionStates]
    BY <1>1 DEF SessionStates
  <2> QED BY <1>1, <1>3, <1>4, <1>6, <2>1 DEF StoreInv, SP!Inv, SP!TypeOK, SessionStates
<1>9. SP!EmptyUntilBootstrap' /\ SP!LiveSessionOwnsStream'
  BY <1>2, <1>6, <1>7 DEF SP!EmptyUntilBootstrap, SP!LiveSessionOwnsStream
<1>10. SP!OneHistory'
  <2>1. SubSeq(events', 1, Len(events')) = events'
    BY <1>3, SubSeqFull
  <2> QED BY <1>2, <1>3, <2>1 DEF SP!OneHistory, SP!Prefix
<1>11. events' # <<>> => n > 0
  BY <1>2, <1>3, EmptySeq
<1>12. SP!RowMatchesTables'
  BY <1>3, <1>4, <1>5, <1>6, <1>11 DEF SP!RowMatchesTables
<1>13. SP!StoredInOrder'
  <2>1. \A i \in 1..n : i \in 1..Len(events)
    BY <1>2
  <2> QED BY <1>3, <2>1 DEF StoreInv, SP!Inv, SP!StoreInv, SP!StoredInOrder
<1>14. events' = <<>> => n = 0
  BY <1>2, <1>3, NoFrames
<1> QED BY <1>1, <1>6, <1>7, <1>8, <1>9, <1>10, <1>12, <1>13, <1>14 DEF StoreInv, SP!Inv, SP!StoreInv

LEMMA RestoreStep == ASSUME Inv, NEW n \in 0..Len(events), Restore(n) PROVE Inv'
<1> USE InvParts
<1>1. /\ restores < MaxRestores /\ restores' = restores + 1
      /\ link' = [c \in Conns |-> FALSE] /\ handler' = [c \in Conns |-> "done"]
      /\ UNCHANGED <<dirVars, client, up, down, window, faults>>
  BY DEF Restore
<1>2. StoreInv' /\ events' = Prefix(events, n) /\ \A c \in Conns : session'[c].state # "open"
  BY StoreRestored
<1>3. restores' \in 0..MaxRestores /\ restores' # 0
  <2>1. restores \in 0..MaxRestores /\ MaxRestores \in Nat
    BY RelayAssumption DEF Types
  <2> QED BY <1>1, <2>1
<1>4. Types'
  BY <1>1, <1>3 DEF Types, dirVars
<1>5. Channels' /\ Handlers' /\ Links' /\ ClientInv'
  BY <1>1, <1>2 DEF Channels, Handlers, Links, ClientInv, Running, dirVars
<1>6. DirInv' /\ BatchInv'
  BY <1>1, DirKept, BatchKept DEF dirVars
<1>7. Phase'
  <2> DEFINE c == client.conn
  <2>0. Running => c \in Conns /\ handler'[c] = "done"
    BY <1>1 DEF ClientInv
  <2>1. UNCHANGED <<client, up, down, window, log, ack>>
    BY <1>1 DEF dirVars
  <2>2. client.pc = "hello" => Greeting(c)'
    BY <2>0, <2>1 DEF Phase, Greeting, HelloOf, Running
  <2>3. client.pc = "loop" /\ client.waiting => Waiting(c)'
    BY <2>0, <2>1 DEF Phase, Waiting, Running
  <2>4. client.pc = "loop" /\ ~client.waiting /\ client.inflight = 0 => Idle(c)'
    BY <2>0, <2>1 DEF Phase, Idle, Running
  <2>5. client.pc = "loop" /\ ~client.waiting /\ client.inflight # 0 => Flying(c)'
    BY <2>0, <2>1 DEF Phase, Flying, BatchOf, Store!Batch, Store!Prefix, Running
  <2>6. client.pc = "bye" => Parting(c)'
    BY <2>0, <2>1 DEF Phase, Parting, Running
  <2> QED BY <2>1, <2>2, <2>3, <2>4, <2>5, <2>6 DEF Phase
<1>8. Truth'
  BY <1>1, <1>3 DEF Truth
<1>9. Acked'
  <2>1. client.pc \in {"loop", "bye"} => link'[client.conn] = FALSE
    BY <1>1 DEF ClientInv, Running
  <2> QED BY <1>1, <1>3, <2>1 DEF Acked
<1>10. Exclusive'
  BY <1>1, <1>2 DEF Exclusive
<1>11. Known' /\ Retries' /\ NoPermanentFailure'
  BY <1>3 DEF Known, Retries, NoPermanentFailure, OneSender
<1>12. OneLogCommitted'
  <2>1. PICK d \in Dirs : Len(events) <= Len(log[d]) /\ events = Prefix(log[d], Len(events))
    BY DEF OneLogCommitted, DurableTail
  <2>2. /\ log[d] \in Seq(Events) /\ Len(log[d]) \in Nat /\ Len(events) \in 0..Len(log[d])
        /\ events \in Seq(Events) /\ Len(events) \in Nat
    BY <2>1, LenProperties, StoreFacts DEF Types
  <2>3. events' = Prefix(log[d], n) /\ Len(events') = n /\ n <= Len(log[d])
    BY <1>2, <2>1, <2>2, PrefixOfPrefix, PrefixFacts
  <2>4. Len(events') <= Len(log'[d]) /\ events' = Prefix(log'[d], Len(events'))
    BY <1>1, <2>3 DEF dirVars
  <2> QED BY <2>4 DEF OneLogCommitted, DurableTail
<1> QED BY <1>2, <1>4, <1>5, <1>6, <1>7, <1>8, <1>9, <1>10, <1>11, <1>12 DEF Inv, RelayInv
-------------------------------------------------------------------------------
(* The client's steps. *)

(* A sync, or a retry of it, connects. *)
LEMMA ConnectStep ==
  ASSUME Inv, NEW d \in Dirs, NEW c \in Conns, NEW left \in 0..(Attempts - 1),
         ~Running, d = Original \/ bound[d], Connect(d, c, left)
  PROVE  Inv'
<1> USE InvParts
<1>0. PICK f : f = HelloOf(d)
  OBVIOUS
<1>1. /\ ~link[c] /\ handler[c] = "done" /\ session[c].state = "new"
      /\ up' = [up EXCEPT ![c] = <<f>>] /\ down' = [down EXCEPT ![c] = <<>>]
      /\ link' = [link EXCEPT ![c] = TRUE] /\ handler' = [handler EXCEPT ![c] = "new"]
      /\ window' = [window EXCEPT ![c] = 0]
      /\ UNCHANGED <<log, ack, bound, dbRest, faults, restores>>
  BY <1>0 DEF Connect, ConnFree, HelloOf, DurableTail, dirVars, dbVars, dbRest
<1>2. client' = [pc |-> "hello", conn |-> c, dir |-> d, credit |-> 0, inflight |-> 0,
                 waiting |-> FALSE, left |-> left, result |-> "pending"]
  BY DEF Connect, NoClient
<1>3. f \in UpFrames /\ f.kind = "hello"
  <2>1. log[d] \in Seq(Events) /\ ack[d] \in Nat /\ Len(log[d]) \in Nat
    BY LenProperties DEF Types
  <2>2. ack[d] \in 0..Len(log[d])
    BY <2>1 DEF DirInv
  <2>3. Prefix(log[d], ack[d]) \in Seq(Events)
    BY <2>1, <2>2, PrefixFacts
  <2>4. [epoch |-> "epoch", tail |-> Len(log[d]), ack |-> ack[d], ackHash |-> Prefix(log[d], ack[d])]
          \in HelloBodies
    BY <2>1, <2>3 DEF HelloBodies
  <2> QED BY <1>0, <2>4 DEF HelloOf, Frame, UpFrames
<1>4. /\ up'[c] = <<f>> /\ down'[c] = <<>> /\ handler'[c] = "new" /\ window'[c] = 0 /\ link'[c]
      /\ \A s \in Conns \ {c} : /\ up'[s] = up[s] /\ down'[s] = down[s] /\ window'[s] = window[s]
                                /\ link'[s] = link[s] /\ handler'[s] = handler[s]
  BY <1>1 DEF Channels, Types
<1>5. <<f>> \in Seq(UpFrames) /\ Held(<<f>>) = {f} /\ Len(<<f>>) = 1 /\ <<f>> # <<>>
  BY <1>3, OneFrame
<1>6. client'.pc = "hello" /\ client'.conn = c /\ client'.dir = d /\ client'.inflight = 0 /\ client'.result = "pending"
  BY <1>2
<1>7. Types'
  <2>1. /\ 0 \in 0..MaxBatch /\ "pending" \in Results
    BY RelayAssumption DEF Results
  <2>2. client' \in [pc : {"off", "hello", "loop", "bye", "retry"}, conn : Conns \union {None},
                 dir : Dirs \union {None}, credit : 0..MaxBatch, inflight : Nat,
                 waiting : BOOLEAN, left : 0..(Attempts - 1), result : Results]
    BY <1>2, <2>1
  <2> QED BY <1>1, <2>1, <2>2 DEF Types
<1>8. StoreInv'
  BY <1>1, StoreKept DEF Types
<1>9. Channels'
  <2>1. <<>> \in Seq(DownFrames)
    BY NoFrames
  <2> QED BY <1>1, <1>5, <2>1 DEF Channels
<1>10. Handlers'
  BY <1>1, <1>4, <1>5 DEF Handlers, dbRest
<1>11. Links' /\ ClientInv'
  BY <1>1, <1>4, <1>6 DEF Links, ClientInv, Running
<1>12. DirInv'
  BY <1>1, DirKept DEF dirVars
<1>13. BatchInv'
  <2>0. log' = log /\ bound' = bound
    BY <1>1
  <2> SUFFICES ASSUME NEW s \in Conns, NEW g \in Held(up'[s]), g.kind = "batch"
               PROVE  /\ Len(g.body.events) <= window'[s]
                      /\ \E e \in Dirs : bound[e] /\ \E first \in 1..Len(log[e]) : \E last \in first..Len(log[e]) :
                           g.body = Store!Batch(log[e], first, last)
    BY ZenonT(60), <2>0 DEF BatchInv, Store!Batch, Store!Prefix
  <2>1. s # c
    BY <1>3, <1>4, <1>5
  <2> QED BY <1>4, <2>1 DEF BatchInv
<1>14. Phase'
  <2>1. up'[c] = <<HelloOf(d)>>'
    BY <1>0, <1>1, <1>4 DEF HelloOf
  <2> QED BY <1>4, <1>6, <2>1 DEF Phase, Greeting
<1>15. Truth'
  <2>1. Held(down'[c]) = {}
    BY <1>4, NoFrames
  <2> QED BY <1>1, <1>4, <2>1 DEF Truth, Stored, dbRest
<1>16. Acked'
  BY <1>1, <1>6 DEF Acked, Stored, dbRest
<1>17. Held(down'[client'.conn]) = {}
  BY <1>4, <1>6, NoFrames
<1>18. Exclusive' /\ Known' /\ Retries'
  BY <1>6, <1>17 DEF Exclusive, Greeted, Known, Retries
<1>19. OneLogCommitted' /\ NoPermanentFailure'
  BY <1>1, <1>6, OneLogKept DEF NoPermanentFailure, dbRest
<1> QED BY <1>7, <1>8, <1>9, <1>10, <1>11, <1>12, <1>13, <1>14, <1>15, <1>16, <1>18, <1>19 DEF Inv, RelayInv

LEMMA SyncStep == ASSUME Inv, NEW d \in Dirs, NEW c \in Conns, Sync(d, c) PROVE Inv'
<1>1. ~Running /\ (d = Original \/ bound[d]) /\ Connect(d, c, Attempts - 1)
  BY DEF Sync, Running
<1>2. Attempts - 1 \in 0..(Attempts - 1)
  BY RelayAssumption
<1> QED BY <1>1, <1>2, ConnectStep

LEMMA RetryStep == ASSUME Inv, NEW c \in Conns, Retry(c) PROVE Inv'
<1> USE InvParts
<1>1. client.pc = "retry" /\ ~Running /\ Connect(client.dir, c, client.left - 1)
  BY DEF Retry, Running
<1>2. client.dir \in Dirs /\ (client.dir = Original \/ bound[client.dir]) /\ client.left > 0
  BY <1>1 DEF ClientInv
<1>3. client.left \in 0..(Attempts - 1) /\ Attempts \in Nat
  BY RelayAssumption DEF Types
<1>4. client.left - 1 \in 0..(Attempts - 1)
  BY <1>2, <1>3
<1> QED BY <1>1, <1>2, <1>4, ConnectStep

(* An attempt fails: the sync ends, or waits for the next attempt. *)
LEMMA FailStep ==
  ASSUME Inv, Running, NEW code \in Results \union Retryable, Fail(code),
         UNCHANGED <<dirVars, up, handler, window, dbRest, restores>>, faults' \in 0..MaxFaults,
         down' = down \/ (down[client.conn] # <<>> /\ Taken(client.conn)),
         OneSender => code \in Retryable
  PROVE  Inv'
<1> USE InvParts
<1>1. link' \in [Conns -> BOOLEAN] /\ \A c \in Conns : ~link'[c]
  <2>1. link' = [link EXCEPT ![client.conn] = FALSE] /\ link \in [Conns -> BOOLEAN]
    BY DEF Fail, Hangup, Types
  <2> QED BY <2>1 DEF Links
<1>2. \A r : NoClient(r).result = r
  BY DEF NoClient
<1>3. /\ \/ \E r \in Results : client' = NoClient(r)
         \/ /\ client.left # 0
            /\ client' = [NoClient("pending") EXCEPT !.pc = "retry", !.dir = client.dir,
                                                     !.left = client.left]
      /\ code \in Retryable => client'.result \in {"pending", "RECOVERY_RETRY_EXHAUSTED"}
  <2>1. CASE code \notin Retryable
    <3>1. client' = NoClient(code) /\ code \in Results
      BY <2>1 DEF Fail
    <3> QED BY <2>1, <3>1
  <2>2. CASE code \in Retryable /\ Exhausted
    <3>1. client' = NoClient("RECOVERY_RETRY_EXHAUSTED") /\ "RECOVERY_RETRY_EXHAUSTED" \in Results
      BY <2>2 DEF Fail, Results
    <3> QED BY <1>2, <3>1
  <2>3. CASE code \in Retryable /\ ~Exhausted
    <3>1. /\ client.left # 0
          /\ client' = [NoClient("pending") EXCEPT !.pc = "retry", !.dir = client.dir,
                                                   !.left = client.left]
      BY <2>3 DEF Fail, Exhausted
    <3>2. client'.result = "pending"
      BY <3>1 DEF NoClient
    <3> QED BY <3>1, <3>2
  <2> QED BY <2>1, <2>2, <2>3
<1>4. client.pc # "off"
  BY DEF Running
<1>5. ClientOver
  BY <1>1, <1>3, <1>4 DEF ClientOver
<1> QED BY <1>5, ClientOverStep

LEMMA NetworkErrorStep == ASSUME Inv, NetworkError PROVE Inv'
<1>1. "NETWORK" \in Retryable
  BY DEF Retryable
<1>2. faults' \in 0..MaxFaults
  <2>1. faults \in 0..MaxFaults
    BY InvParts DEF Types
  <2> QED BY <2>1, FaultCounted DEF NetworkError, Fault
<1>3. /\ Running /\ Fail("NETWORK") /\ down' = down
      /\ UNCHANGED <<dirVars, up, handler, window, dbRest, restores>>
  BY DEF NetworkError, dbVars, dbRest
<1> QED BY <1>1, <1>2, <1>3, FailStep

LEMMA ClientCrashStep == ASSUME Inv, ClientCrash PROVE Inv'
<1> USE InvParts
<1>1. /\ client.pc # "off" /\ client' = NoClient("crashed") /\ down' = down
      /\ link' = [c \in Conns |-> link[c] /\ c # client.conn]
      /\ UNCHANGED <<dirVars, up, handler, window, dbRest, restores>>
  BY DEF ClientCrash, dbVars, dbRest
<1>2. faults' \in 0..MaxFaults
  <2>1. faults \in 0..MaxFaults
    BY DEF Types
  <2> QED BY <2>1, FaultCounted DEF ClientCrash, Fault
<1>3. link' \in [Conns -> BOOLEAN] /\ \A c \in Conns : ~link'[c]
  BY <1>1 DEF Types, Links
<1>4. client'.result = "crashed" /\ "crashed" \in Results
  BY <1>1 DEF NoClient, Results
<1>5. ClientOver
  BY <1>1, <1>2, <1>3, <1>4 DEF ClientOver
<1> QED BY <1>5, ClientOverStep

LEMMA SucceedStep == ASSUME Inv, Succeed PROVE Inv'
<1> USE InvParts
<1>1. /\ client.pc # "off" /\ client' = NoClient("ok") /\ down' = down
      /\ link' = [link EXCEPT ![client.conn] = FALSE]
      /\ UNCHANGED <<dirVars, up, handler, window, dbRest, restores, faults>>
  BY DEF Succeed, Hangup, dbVars, dbRest
<1>2. faults' \in 0..MaxFaults
  BY <1>1 DEF Types
<1>3. link' \in [Conns -> BOOLEAN] /\ \A c \in Conns : ~link'[c]
  BY <1>1 DEF Types, Links
<1>4. client'.result = "ok" /\ "ok" \in Results
  BY <1>1 DEF NoClient, Results
<1>5. ClientOver
  BY <1>1, <1>2, <1>3, <1>4 DEF ClientOver
<1> QED BY <1>5, ClientOverStep

(* The client is told of an error. *)
LEMMA GetErrorStep == ASSUME Inv, GetError PROVE Inv'
<1> USE InvParts
<1>1. /\ Running /\ down[client.conn] # <<>> /\ Head(down[client.conn]).kind = "error"
      /\ Taken(client.conn) /\ Fail(Head(down[client.conn]).body)
      /\ UNCHANGED <<dirVars, up, handler, window, dbRest, faults, restores>>
  BY DEF GetError, Running, Reading, Receive, dbVars, dbRest
<1>2. PICK f : f = Head(down[client.conn])
  OBVIOUS
<1>3. f \in Held(down[client.conn]) /\ f \in DownFrames /\ f.kind = "error"
  BY <1>1, <1>2, ChannelFacts DEF ClientInv
<1>4. f.body \in Codes
  BY <1>3, DownBodies
<1>5. f.body \in Results \union Retryable
  BY <1>4 DEF Codes, Results, Retryable
<1>6. OneSender => f.body \in Retryable
  BY <1>1, <1>3 DEF Retries
<1>7. faults' \in 0..MaxFaults
  BY <1>1 DEF Types
<1> QED BY <1>1, <1>2, <1>5, <1>6, <1>7, FailStep

(* What the hello of the receiver says, and what the client makes of it. *)
LEMMA OwnPosition ==
  ASSUME Inv, client.pc = "hello", Receive(client.conn, "hello"),
         NEW h, h = Head(down[client.conn]).body
  PROVE  LET c == client.conn  d == client.dir IN
         /\ c \in Conns /\ d \in Dirs /\ h \in PositionBodies /\ h.window = W0
         /\ up[c] = <<>> /\ handler[c] \in {"open", "done"} /\ window[c] = W0 /\ Rest(down[c]) = Update(0)
         /\ client.inflight = 0 /\ Greeted /\ Len(h.chain) = h.head
         /\ restores = 0 \/ link[c] => Stored(h.chain, h.head)
         /\ restores = 0 => h.head = row.head
<1> USE InvParts
<1>1. PICK c, d, f : c = client.conn /\ d = client.dir /\ f = Head(down[c])
  OBVIOUS
<1>2. c \in Conns /\ d \in Dirs /\ Running
  BY <1>1 DEF ClientInv, Running
<1>3. f \in Held(down[c]) /\ f \in DownFrames /\ f.kind = "hello" /\ f.body = h /\ down[c] # <<>>
  BY <1>1, <1>2, ChannelFacts DEF Receive
<1>4. h \in PositionBodies
  BY <1>3, DownBodies
<1>5. Greeting(c)
  BY <1>1 DEF Phase
<1>6. /\ up[c] = <<>> /\ handler[c] \in {"open", "done"} /\ window[c] = W0
      /\ \E g \in Held(down[c]) : g.kind = "hello" /\ g.body.window = W0 /\ down[c] = <<g>> \o Update(0)
  <2>1. ~(up[c] = <<HelloOf(client.dir)>> /\ down[c] = <<>>)
    BY <1>3
  <2>2. ~\E g \in Held(down[c]) : g.kind = "error" /\ down[c] = <<g>>
    BY <1>1, <1>3, OneFrame
  <2> QED BY <1>5, <2>1, <2>2 DEF Greeting
<1>7. PICK g : g.kind = "hello" /\ g.body.window = W0 /\ down[c] = <<g>> \o Update(0)
  BY <1>6
<1>8. f = g /\ Rest(down[c]) = Update(0)
  <2>1. CASE Paused
    <3>1. down[c] = <<g, Win(0)>> /\ Update(0) = <<Win(0)>>
      BY <1>7, <2>1, Forms
    <3> QED BY <1>1, <3>1, TwoFrames
  <2>2. CASE ~Paused
    <3>1. down[c] = <<g>> /\ Update(0) = <<>>
      BY <1>7, <2>2, Forms
    <3> QED BY <1>1, <3>1, OneFrame
  <2> QED BY <2>1, <2>2
<1>9. Greeted
  BY <1>1, <1>3 DEF Greeted
<1>10. /\ Len(h.chain) = h.head /\ (restores = 0 \/ link[c] => Stored(h.chain, h.head))
       /\ (restores = 0 => h.head = row.head)
  BY <1>1, <1>2, <1>3 DEF Truth, Known
<1>11. client.inflight = 0
  BY <1>5 DEF Greeting
<1> QED BY <1>1, <1>2, <1>3, <1>4, <1>6, <1>7, <1>8, <1>9, <1>10, <1>11

LEMMA UpdateHeld ==
  ASSUME NEW n, NEW f \in Held(Update(n)) PROVE f = Win(n) /\ f.kind = "window"
<1>1. CASE Paused
  BY <1>1, OneFrame DEF Update, Win, Frame
<1>2. CASE ~Paused
  BY <1>2, NoFrames DEF Update
<1> QED BY <1>1, <1>2

(* The only sender resumes or adopts. *)
LEMMA OwnBindAccepted ==
  ASSUME Inv, OneSender, client.pc = "hello", Receive(client.conn, "hello"),
         NEW h, h = Head(down[client.conn]).body
  PROVE  BindCode(client.dir, h) = "ok"
<1> USE InvParts
<1>1. restores = 0 /\ client.dir = Original /\ h \in PositionBodies
  BY OwnPosition, OneSenderLog DEF OneSender
<1>2. Stored(h.chain, h.head) /\ h.head = row.head
  BY <1>1, OwnPosition
<1>3. row.head = Len(events)
  BY StoreFacts
<1>4. /\ log[Original] \in Seq(Events) /\ Len(log[Original]) \in Nat /\ ack[Original] \in Nat
      /\ Len(events) \in Nat
  BY RelayAssumption, LenProperties, StoreFacts DEF Types
<1>5. /\ events = Prefix(log[Original], Len(events)) /\ Len(events) <= Len(log[Original])
      /\ ack[Original] <= Len(events)
  BY OneSenderLog
<1>6. h.chain = events
  <2>1. SubSeq(events, 1, Len(events)) = events
    BY StoreFacts, SubSeqFull
  <2> QED BY <1>2, <1>3, <2>1 DEF Stored, Prefix
<1>7. SameHistory(Original, h)
  BY <1>2, <1>3, <1>5, <1>6 DEF SameHistory
<1>8. ~(h.head > DurableTail(Original)) /\ ~(h.head < ack[Original])
  BY <1>2, <1>3, <1>4, <1>5 DEF DurableTail
<1> QED BY <1>1, <1>7, <1>8 DEF BindCode

LEMMA GetHelloStep == ASSUME Inv, GetHello PROVE Inv'
<1> USE InvParts
<1>1. PICK c, d, h : c = client.conn /\ d = client.dir /\ h = Head(down[c]).body
  OBVIOUS
<1>2. /\ client.pc = "hello" /\ Receive(c, "hello") /\ Taken(c) /\ down[c] # <<>>
      /\ UNCHANGED <<log, handler, window, dbRest, faults, restores>>
  BY <1>1 DEF GetHello, Receive, dbVars, dbRest
<1>3. /\ c \in Conns /\ d \in Dirs /\ h \in PositionBodies /\ h.window = W0
      /\ up[c] = <<>> /\ handler[c] \in {"open", "done"} /\ Rest(down[c]) = Update(0)
      /\ client.inflight = 0 /\ Greeted
      /\ (restores = 0 \/ link[c] => Stored(h.chain, h.head))
      /\ (restores = 0 => h.head = row.head)
  BY <1>1, <1>2, OwnPosition
<1>4. CASE BindCode(d, h) # "ok"
  <2>1. Fail(BindCode(d, h)) /\ UNCHANGED <<dirVars, up>>
    BY <1>1, <1>2, <1>4 DEF GetHello, dirVars
  <2>2. BindCode(d, h) \in Results
    BY <1>4 DEF BindCode, Results
  <2>3. ~OneSender
    BY <1>1, <1>2, <1>4, OwnBindAccepted
  <2>4. Running /\ faults' \in 0..MaxFaults
    BY <1>2 DEF Running, Types
  <2> QED BY <1>1, <1>2, <2>1, <2>2, <2>3, <2>4, FailStep
<1>5. CASE BindCode(d, h) = "ok"
  <2>1. PICK f : f = Frame("heartbeat", Len(log[d]))
    OBVIOUS
  <2>2. /\ bound' = [bound EXCEPT ![d] = TRUE] /\ ack' = [ack EXCEPT ![d] = h.head]
        /\ client' = [client EXCEPT !.pc = "loop", !.credit = h.window, !.waiting = TRUE]
        /\ up' = [up EXCEPT ![c] = up[c] \o <<f>>] /\ link' = link
    BY <1>1, <1>2, <1>5, <2>1 DEF GetHello, Adopted, Send, DurableTail
  <2>3. up[c] \o <<f>> = <<f>>
    BY <1>3
  <2>4. up' = [up EXCEPT ![c] = <<f>>] /\ up'[c] = <<f>>
    BY <1>3, <2>2, <2>3 DEF Channels
  <2>5. /\ log[d] \in Seq(Events) /\ Len(log[d]) \in Nat /\ h.head \in Nat /\ h.window \in 0..MaxBatch
    BY <1>3, LenProperties DEF Types, PositionBodies
  <2>6. f \in UpFrames /\ f.kind = "heartbeat"
    BY <2>1, <2>5 DEF Frame, UpFrames
  <2>7. h.head <= Len(log[d]) /\ Prefix(log[d], h.head) = h.chain
    <3>1. ~(h.head > Len(log[d])) /\ SameHistory(d, h)
      BY <1>5 DEF BindCode, DurableTail
    <3> QED BY <2>5, <3>1 DEF SameHistory
  <2>8. client' \in ClientRecords /\ client'.pc = "loop" /\ client'.conn = c /\ client'.dir = d
        /\ client'.result = client.result /\ client'.credit = W0 /\ client'.waiting /\ client'.inflight = 0
    <3>1. client \in ClientRecords
      BY DEF Types, ClientRecords
    <3>2. client' \in ClientRecords
      BY <2>2, <2>5, <3>1 DEF ClientRecords
    <3>3. /\ client'.pc = "loop" /\ client'.conn = client.conn /\ client'.dir = client.dir
          /\ client'.result = client.result /\ client'.credit = h.window /\ client'.waiting
          /\ client'.inflight = client.inflight
      BY <2>2, <3>1 DEF ClientRecords
    <3> QED BY <1>1, <1>3, <3>2, <3>3
  <2>9. /\ ack' \in [Dirs -> Nat] /\ bound' \in [Dirs -> BOOLEAN] /\ bound'[d] /\ ack'[d] = h.head
        /\ \A e \in Dirs \ {d} : ack'[e] = ack[e] /\ bound'[e] = bound[e]
    BY <1>3, <2>2, <2>5 DEF Types
  <2>10. down'[c] = Update(0)
    BY <1>2, <1>3 DEF Taken, Rest, Channels
  <2>11. Phase'
    <3>1. up'[c] = <<Frame("heartbeat", Len(log'[d]))>> /\ down'[c] \in {<<>>, Update(0)}
      BY <1>2, <2>1, <2>4, <2>10
    <3>2. handler'[c] \in {"open", "done"}
      BY <1>2, <1>3
    <3>3. Waiting(c)'
      BY <2>8, <3>1, <3>2 DEF Waiting
    <3> QED BY <2>8, <3>3 DEF Phase
  <2>12. Known'
    <3>1. \A g \in Held(down'[c]) : g.kind # "ack"
      BY <2>10, UpdateHeld
    <3>2. restores' = 0 => row'.head = ack'[d]
      BY <1>2, <1>3, <2>9 DEF dbRest
    <3> QED BY <2>8, <3>1, <3>2 DEF Known
  <2>13. Moves(c, d)
    <3>1. Sendable(c, d, f)
      BY <2>6 DEF Sendable
    <3>2. restores = 0 \/ link[c] => Stored(Prefix(log[d], ack'[d]), ack'[d])
      BY <1>3, <2>7, <2>9
    <3> QED BY <1>1, <1>2, <1>3, <2>2, <2>4, <2>7, <2>8, <2>9, <2>11, <2>12, <3>1, <3>2 DEF Moves
  <2> QED BY <2>13, MovesStep
<1> QED BY <1>4, <1>5

LEMMA SendBatchStep == ASSUME Inv, SendBatch PROVE Inv'
<1> USE InvParts
<1>1. PICK c, d, last, f : /\ c = client.conn /\ d = client.dir
                           /\ last = Lower(DurableTail(d), ack[d] + Lower(client.credit, MaxBatch))
                           /\ f = BatchOf(d, last)
  OBVIOUS
<1>2. /\ client.pc = "loop" /\ ~client.waiting /\ client.inflight = 0 /\ client.credit > 0
      /\ ack[d] < Len(log[d]) /\ client' = [client EXCEPT !.inflight = last]
      /\ up' = [up EXCEPT ![c] = up[c] \o <<f>>]
      /\ UNCHANGED <<log, ack, bound, down, link, handler, window, dbRest, faults, restores>>
  BY <1>1 DEF SendBatch, MaySend, DurableTail, Send, BatchOf, Store!Batch, Store!Prefix, Prefix, dirVars, dbVars, dbRest
<1>3. /\ c \in Conns /\ d \in Dirs /\ bound[d] /\ Greeted
  BY <1>1, <1>2 DEF ClientInv, Running, Greeted
<1>4. /\ up[c] = <<>> /\ handler[c] \in {"open", "done"} /\ down[c] = <<>> /\ client.credit = window[c]
  <2>1. Idle(c)
    BY <1>1, <1>2 DEF Phase
  <2> QED BY <1>2, <2>1 DEF Idle
<1>5. /\ log[d] \in Seq(Events) /\ Len(log[d]) \in Nat /\ ack[d] \in Nat /\ MaxBatch \in Nat
      /\ client.credit \in 0..MaxBatch /\ client \in ClientRecords
  BY <1>3, RelayAssumption, LenProperties DEF Types, ClientRecords
<1>6. /\ last \in Nat /\ last \in (ack[d] + 1)..Len(log[d]) /\ last - ack[d] <= client.credit
      /\ ack[d] + 1 \in 1..Len(log[d]) /\ last \in (ack[d] + 1)..Len(log[d]) /\ last # 0
  <2>1. PICK n : n = Lower(client.credit, MaxBatch)
    OBVIOUS
  <2>2. n \in Nat /\ 0 < n /\ n <= client.credit
    BY <1>2, <1>5, <2>1, RelayAssumption DEF Lower
  <2>3. last = IF Len(log[d]) < ack[d] + n THEN Len(log[d]) ELSE ack[d] + n
    BY <1>1, <2>1 DEF Lower, DurableTail
  <2> QED BY <1>2, <1>5, <2>2, <2>3
<1>7. PICK b : b = Store!Batch(log[d], ack[d] + 1, last)
  OBVIOUS
<1>8. b.first = ack[d] + 1 /\ b.events \in Seq(Events) /\ Len(b.events) <= window[c] /\ b.terminal \in Seq(Events)
      /\ b \in BatchBodies
  <2>1. b = [first |-> ack[d] + 1, events |-> SubSeq(log[d], ack[d] + 1, last), terminal |-> Prefix(log[d], last)]
    BY <1>7 DEF Store!Batch, Store!Prefix, Prefix
  <2>2. Prefix(log[d], last) \in Seq(Events)
    <3>1. last \in 0..Len(log[d])
      BY <1>5, <1>6
    <3> QED BY <1>5, <3>1, PrefixFacts
  <2>3. /\ SubSeq(log[d], ack[d] + 1, last) \in Seq(Events)
        /\ Len(SubSeq(log[d], ack[d] + 1, last)) = last - (ack[d] + 1) + 1
    <3>1. /\ ack[d] + 1 \in Int /\ last \in Int /\ ack[d] + 1 <= last
          /\ \A i \in (ack[d] + 1)..last : i \in 1..Len(log[d])
      BY <1>5, <1>6
    <3>2. \A i \in (ack[d] + 1)..last : log[d][i] \in Events
      BY <1>5, <3>1, LenProperties
    <3> QED BY <3>1, <3>2, SubSeqProperties
  <2>4. last - (ack[d] + 1) + 1 <= window[c] /\ ack[d] + 1 \in Nat
    BY <1>4, <1>5, <1>6
  <2> QED BY <2>1, <2>2, <2>3, <2>4 DEF BatchBodies
<1>9. f \in UpFrames /\ f.body = b
  BY <1>1, <1>7, <1>8 DEF BatchOf, Frame, UpFrames
<1>10. Sendable(c, d, f)
  BY <1>3, <1>6, <1>7, <1>8, <1>9 DEF Sendable
<1>11. up' = [up EXCEPT ![c] = <<f>>] /\ up'[c] = <<f>>
  <2>1. up[c] \o <<f>> = <<f>>
    BY <1>4
  <2> QED BY <1>2, <1>3, <2>1 DEF Channels
<1>12. /\ client' \in ClientRecords /\ client'.pc = "loop" /\ client'.conn = c /\ client'.dir = d
       /\ client'.result = client.result /\ client'.credit = client.credit /\ ~client'.waiting
       /\ client'.inflight = last
  BY <1>1, <1>2, <1>5, <1>6 DEF ClientRecords
<1>13. Phase'
  <2>1. BatchOf(d, last)' = BatchOf(d, last)
    BY <1>2 DEF BatchOf, Store!Batch, Store!Prefix
  <2>2. /\ last \in (ack'[d] + 1)..Len(log'[d]) /\ handler'[c] \in {"open", "done"}
        /\ client'.credit = window'[c] /\ down'[c] = <<>>
    BY <1>2, <1>4, <1>6, <1>12
  <2>3. up'[c] = <<BatchOf(d, last)'>>
    BY <1>1, <1>11, <2>1
  <2>4. Flying(c)'
    BY <1>12, <2>2, <2>3 DEF Flying
  <2> QED BY <1>6, <1>12, <2>4 DEF Phase
<1>14. Known'
  <2>1. Held(down'[c]) = {}
    BY <1>2, <1>4, NoFrames
  <2>2. restores = 0 => row.head = ack[d]
    BY <1>1, <1>2 DEF Known
  <2> QED BY <1>2, <1>12, <2>1, <2>2 DEF Known, dbRest
<1>15. restores = 0 \/ link[c] => Stored(Prefix(log[d], ack'[d]), ack'[d])
  BY <1>1, <1>2, <1>3 DEF Acked
<1>16. Moves(c, d)
  <2>1. ack' \in [Dirs -> Nat] /\ bound' \in [Dirs -> BOOLEAN] /\ bound'[d] /\ ack'[d] <= Len(log[d])
    BY <1>2, <1>3, <1>5 DEF Types
  <2>2. up[c] = <<>> /\ \E g : Sendable(c, d, g) /\ up' = [up EXCEPT ![c] = <<g>>]
    BY <1>4, <1>10, <1>11
  <2> QED BY <1>1, <1>2, <1>3, <1>12, <1>13, <1>14, <1>15, <2>1, <2>2 DEF Moves
<1> QED BY <1>16, MovesStep

LEMMA SayGoodbyeStep == ASSUME Inv, SayGoodbye PROVE Inv'
<1> USE InvParts
<1>1. PICK c, d, f : c = client.conn /\ d = client.dir /\ f = Frame("goodbye", 0)
  OBVIOUS
<1>2. /\ client.pc = "loop" /\ ~client.waiting /\ ack[d] >= Len(log[d])
      /\ client' = [client EXCEPT !.pc = "bye"] /\ up' = [up EXCEPT ![c] = up[c] \o <<f>>]
      /\ UNCHANGED <<log, ack, bound, down, link, handler, window, dbRest, faults, restores>>
  BY <1>1 DEF SayGoodbye, Drained, DurableTail, Send, dirVars, dbVars, dbRest
<1>3. /\ c \in Conns /\ d \in Dirs /\ bound[d] /\ Greeted
  BY <1>1, <1>2 DEF ClientInv, Running, Greeted
<1>4. log[d] \in Seq(Events) /\ Len(log[d]) \in Nat /\ ack[d] \in Nat /\ client \in ClientRecords
  BY <1>3, LenProperties DEF Types, ClientRecords
<1>5. ack[d] = Len(log[d])
  BY <1>2, <1>3, <1>4 DEF DirInv
<1>6. Idle(c)
  <2>1. ~Flying(c)
    BY <1>1, <1>4, <1>5 DEF Flying
  <2> QED BY <1>1, <1>2, <2>1 DEF Phase
<1>7. up[c] = <<>> /\ handler[c] \in {"open", "done"} /\ \A g \in Held(down[c]) : g.kind = "window"
  <2>1. CASE down[c] = <<>>
    BY <1>6, <2>1, NoFrames DEF Idle
  <2>2. CASE down[c] = <<Frame("window", window[c])>>
    BY <1>6, <2>2, OneFrame DEF Idle, Frame
  <2> QED BY <1>6, <2>1, <2>2 DEF Idle
<1>8. f \in UpFrames /\ Sendable(c, d, f)
  BY <1>1 DEF Sendable, UpFrames, Frame
<1>9. up' = [up EXCEPT ![c] = <<f>>] /\ up'[c] = <<f>>
  <2>1. up[c] \o <<f>> = <<f>>
    BY <1>7
  <2> QED BY <1>2, <1>3, <2>1 DEF Channels
<1>10. /\ client' \in ClientRecords /\ client'.pc = "bye" /\ client'.conn = c /\ client'.dir = d
       /\ client'.result = client.result
  BY <1>1, <1>2, <1>4 DEF ClientRecords
<1>11. Phase'
  <2>1. Parting(c)'
    BY <1>1, <1>2, <1>7, <1>9 DEF Parting
  <2> QED BY <1>10, <2>1 DEF Phase
<1>12. Known'
  BY <1>10 DEF Known
<1>13. restores = 0 \/ link[c] => Stored(Prefix(log[d], ack[d]), ack[d])
  BY <1>1, <1>2, <1>3 DEF Acked
<1>14. Moves(c, d)
  BY <1>1, <1>2, <1>3, <1>4, <1>5, <1>7, <1>8, <1>9, <1>10, <1>11, <1>12, <1>13 DEF Moves, Types
<1> QED BY <1>14, MovesStep

LEMMA GetTrailingStep == ASSUME Inv, GetTrailing PROVE Inv'
<1> USE InvParts
<1>1. PICK c, d : c = client.conn /\ d = client.dir
  OBVIOUS
<1>2. /\ client.pc = "bye" /\ down[c] # <<>> /\ Taken(c)
      /\ UNCHANGED <<log, ack, bound, client, up, link, handler, window, dbRest, faults, restores>>
  BY <1>1 DEF GetTrailing, dirVars, dbVars, dbRest
<1>3. /\ c \in Conns /\ d \in Dirs /\ bound[d] /\ Greeted /\ ack[d] = Len(log[d])
  BY <1>1, <1>2 DEF ClientInv, Running, Greeted
<1>4. ack[d] \in Nat /\ client \in ClientRecords
  BY <1>3 DEF Types, ClientRecords
<1>5. down'[c] = Rest(down[c]) /\ Held(Rest(down[c])) \subseteq Held(down[c])
  <2>1. down'[c] = Rest(down[c])
    BY <1>2, <1>3 DEF Taken, Rest, Channels
  <2> QED BY <1>2, <1>3, <2>1, ChannelFacts
<1>6. Phase'
  <2>1. Parting(c)
    BY <1>1, <1>2 DEF Phase
  <2>2. Parting(c)'
    BY <1>2, <1>5, <2>1 DEF Parting
  <2> QED BY <1>1, <1>2, <2>2 DEF Phase
<1>7. Known'
  BY <1>2 DEF Known
<1>8. restores = 0 \/ link[c] => Stored(Prefix(log[d], ack[d]), ack[d])
  BY <1>1, <1>2, <1>3 DEF Acked
<1>9. Moves(c, d)
  BY <1>1, <1>2, <1>3, <1>4, <1>6, <1>7, <1>8 DEF Moves, Types
<1> QED BY <1>9, MovesStep

(* The next frame a client reads in its loop, and what is behind it. *)
InLoop(c, f, r) ==
  \/ /\ client.waiting /\ Paused /\ f = Win(0) /\ r = <<>>
     /\ up[c] = <<Frame("heartbeat", Len(log[client.dir]))>>
  \/ /\ client.waiting /\ Paused /\ f = Win(0) /\ r = <<Frame("heartbeat", 0)>> \o Update(MaxBatch)
     /\ up[c] = <<>> /\ window[c] = MaxBatch
  \/ /\ client.waiting /\ f = Frame("heartbeat", 0) /\ r = Update(MaxBatch)
     /\ up[c] = <<>> /\ window[c] = MaxBatch
  \/ /\ ~client.waiting /\ client.inflight = 0 /\ Paused /\ f = Win(window[c]) /\ r = <<>> /\ up[c] = <<>>
  \/ /\ ~client.waiting /\ client.inflight # 0 /\ Paused /\ f = Win(0) /\ up[c] = <<>>
     /\ \E g \in Held(r) : g.kind = "ack" /\ r = <<g>> \o Update(window[c])
  \/ /\ ~client.waiting /\ client.inflight # 0 /\ f.kind = "ack" /\ r = Update(window[c]) /\ up[c] = <<>>
     /\ Paused => client.credit = 0
  \/ ~client.waiting /\ client.inflight # 0 /\ f.kind = "error"

LEMMA NextInLoop ==
  ASSUME Inv, client.pc = "loop", NEW c, NEW f, NEW r, c = client.conn,
         down[c] # <<>>, f = Head(down[c]), r = Rest(down[c])
  PROVE  InLoop(c, f, r)
<1> USE InvParts
<1>1. CASE client.waiting
  <2>1. Waiting(c)
    BY <1>1 DEF Phase
  <2>2. CASE up[c] = <<Frame("heartbeat", Len(log[client.dir]))>> /\ down[c] \in {<<>>, Update(0)}
    <3>1. Paused /\ down[c] = <<Win(0)>>
      BY <2>2, Forms
    <3>2. f = Win(0) /\ r = <<>>
      BY <3>1, OneFrame
    <3> QED BY <1>1, <2>2, <3>1, <3>2 DEF InLoop
  <2>3. CASE up[c] = <<>> /\ window[c] = MaxBatch /\ down[c] = <<Frame("heartbeat", 0)>> \o Update(MaxBatch)
    <3>1. CASE Paused
      <4>1. down[c] = <<Frame("heartbeat", 0), Win(MaxBatch)>> /\ Update(MaxBatch) = <<Win(MaxBatch)>>
        BY <2>3, <3>1, Forms
      <4>2. f = Frame("heartbeat", 0) /\ r = Update(MaxBatch)
        BY <4>1, TwoFrames
      <4> QED BY <1>1, <2>3, <4>2 DEF InLoop
    <3>2. CASE ~Paused
      <4>1. down[c] = <<Frame("heartbeat", 0)>> /\ Update(MaxBatch) = <<>>
        BY <2>3, <3>2, Forms
      <4>2. f = Frame("heartbeat", 0) /\ r = Update(MaxBatch)
        BY <4>1, OneFrame
      <4> QED BY <1>1, <2>3, <4>2 DEF InLoop
    <3> QED BY <3>1, <3>2
  <2>4. CASE up[c] = <<>> /\ window[c] = MaxBatch
             /\ down[c] = Update(0) \o <<Frame("heartbeat", 0)>> \o Update(MaxBatch)
    <3>1. CASE Paused
      <4>1. down[c] = <<Win(0), Frame("heartbeat", 0), Win(MaxBatch)>>
        BY <2>4, <3>1, Forms
      <4>2. <<Frame("heartbeat", 0)>> \o Update(MaxBatch) = <<Frame("heartbeat", 0), Win(MaxBatch)>>
        BY <3>1, Forms
      <4>3. f = Win(0) /\ r = <<Frame("heartbeat", 0), Win(MaxBatch)>>
        BY <4>1, ThreeFrames
      <4> QED BY <1>1, <2>4, <3>1, <4>2, <4>3 DEF InLoop
    <3>2. CASE ~Paused
      <4>1. down[c] = <<Frame("heartbeat", 0)>> /\ Update(MaxBatch) = <<>>
        BY <2>4, <3>2, Forms
      <4>2. f = Frame("heartbeat", 0) /\ r = Update(MaxBatch)
        BY <4>1, OneFrame
      <4> QED BY <1>1, <2>4, <4>2 DEF InLoop
    <3> QED BY <3>1, <3>2
  <2> QED BY <2>1, <2>2, <2>3, <2>4 DEF Waiting
<1>2. CASE ~client.waiting /\ client.inflight = 0
  <2>1. Idle(c)
    BY <1>2 DEF Phase
  <2>2. Paused /\ down[c] = <<Win(window[c])>> /\ up[c] = <<>>
    BY <2>1 DEF Idle, Win
  <2>3. f = Win(window[c]) /\ r = <<>>
    BY <2>2, OneFrame
  <2> QED BY <1>2, <2>2, <2>3 DEF InLoop
<1>3. CASE ~client.waiting /\ client.inflight # 0
  <2>1. Flying(c)
    BY <1>3 DEF Phase
  <2>2. CASE up[c] = <<>> /\ \E g \in Held(down[c]) : g.kind = "ack" /\ down[c] = Update(0) \o <<g>> \o Update(window[c])
    <3>1. PICK g : g.kind = "ack" /\ down[c] = Update(0) \o <<g>> \o Update(window[c])
      BY <2>2
    <3>2. CASE Paused
      <4>1. down[c] = <<Win(0), g, Win(window[c])>> /\ <<g>> \o Update(window[c]) = <<g, Win(window[c])>>
        BY <3>1, <3>2, Forms
      <4>2. f = Win(0) /\ r = <<g, Win(window[c])>>
        BY <4>1, ThreeFrames
      <4>3. r = <<g>> \o Update(window[c])
        BY <4>1, <4>2
      <4>4. g \in Held(<<g, Win(window[c])>>)
        BY TwoFrames
      <4>5. g \in Held(r)
        BY <4>2, <4>4
      <4> QED BY <1>3, <2>2, <3>1, <3>2, <4>2, <4>3, <4>5 DEF InLoop
    <3>3. CASE ~Paused
      <4>1. down[c] = <<g>> /\ Update(window[c]) = <<>>
        BY <3>1, <3>3, Forms
      <4>2. f = g /\ r = Update(window[c])
        BY <4>1, OneFrame
      <4> QED BY <1>3, <2>2, <3>1, <3>3, <4>2 DEF InLoop
    <3> QED BY <3>2, <3>3
  <2>3. CASE /\ up[c] = <<>> /\ (Paused => client.credit = 0)
             /\ \E g \in Held(down[c]) : g.kind = "ack" /\ down[c] = <<g>> \o Update(window[c])
    <3>1. PICK g : g.kind = "ack" /\ down[c] = <<g>> \o Update(window[c])
      BY <2>3
    <3>2. CASE Paused
      <4>1. down[c] = <<g, Win(window[c])>> /\ Update(window[c]) = <<Win(window[c])>>
        BY <3>1, <3>2, Forms
      <4>2. f = g /\ r = Update(window[c])
        BY <4>1, TwoFrames
      <4> QED BY <1>3, <2>3, <3>1, <4>2 DEF InLoop
    <3>3. CASE ~Paused
      <4>1. down[c] = <<g>> /\ Update(window[c]) = <<>>
        BY <3>1, <3>3, Forms
      <4>2. f = g /\ r = Update(window[c])
        BY <4>1, OneFrame
      <4> QED BY <1>3, <2>3, <3>1, <4>2 DEF InLoop
    <3> QED BY <3>2, <3>3
  <2>4. CASE \E g \in Held(down[c]) : g.kind = "error" /\ down[c] = <<g>>
    <3>1. f.kind = "error"
      BY <2>4, OneFrame
    <3> QED BY <1>3, <3>1 DEF InLoop
  <2> QED BY <2>1, <2>2, <2>3, <2>4 DEF Flying
<1> QED BY <1>1, <1>2, <1>3

(* The client's state after it has read a frame. *)
LEMMA LoopFacts ==
  ASSUME Inv, client.pc = "loop", NEW c, NEW d, NEW f, NEW r, c = client.conn, d = client.dir,
         down[c] # <<>>, f = Head(down[c]), r = Rest(down[c]), Taken(c)
  PROVE  /\ c \in Conns /\ d \in Dirs /\ bound[d] /\ Greeted /\ handler[c] \in {"open", "done"}
         /\ log[d] \in Seq(Events) /\ Len(log[d]) \in Nat /\ ack[d] \in Nat /\ ack[d] <= Len(log[d])
         /\ client \in ClientRecords /\ down'[c] = r /\ Held(r) \subseteq Held(down[c])
         /\ f \in Held(down[c]) /\ f \in DownFrames
         /\ restores = 0 \/ link[c] => Stored(Prefix(log[d], ack[d]), ack[d])
<1> USE InvParts
<1>1. /\ c \in Conns /\ d \in Dirs /\ bound[d] /\ Greeted
  BY DEF ClientInv, Running, Greeted
<1>2. handler[c] \in {"open", "done"}
  BY DEF Phase, Waiting, Idle, Flying
<1>3. /\ log[d] \in Seq(Events) /\ Len(log[d]) \in Nat /\ ack[d] \in Nat /\ ack[d] <= Len(log[d])
      /\ client \in ClientRecords
  BY <1>1, LenProperties DEF Types, ClientRecords, DirInv
<1>4. down'[c] = r
  BY <1>1 DEF Taken, Rest, Channels
<1>5. Held(r) \subseteq Held(down[c]) /\ f \in Held(down[c]) /\ f \in DownFrames
  BY <1>1, ChannelFacts
<1>6. restores = 0 \/ link[c] => Stored(Prefix(log[d], ack[d]), ack[d])
  BY <1>1 DEF Acked
<1> QED BY <1>1, <1>2, <1>3, <1>4, <1>5, <1>6

(* Reading control frames: nothing is acknowledged. *)
LEMMA ControlStep ==
  ASSUME Inv, client.pc = "loop", NEW c, c = client.conn, down[c] # <<>>, Taken(c),
         UNCHANGED <<dirVars, up, link, handler, window, dbRest, faults, restores>>,
         client' \in ClientRecords, client'.pc = "loop", client'.conn = c, client'.dir = client.dir,
         client'.result = client.result, client'.inflight = client.inflight,
         Phase'
  PROVE  Inv'
<1> USE InvParts
<1>1. PICK d, f, r : d = client.dir /\ f = Head(down[c]) /\ r = Rest(down[c])
  OBVIOUS
<1>2. /\ c \in Conns /\ d \in Dirs /\ bound[d] /\ Greeted /\ ack[d] <= Len(log[d])
      /\ down'[c] = r /\ Held(r) \subseteq Held(down[c])
      /\ (restores = 0 \/ link[c] => Stored(Prefix(log[d], ack[d]), ack[d]))
  BY <1>1, LoopFacts
<1>3. Known'
  BY <1>1, <1>2 DEF Known, dirVars, dbRest
<1>4. ack' \in [Dirs -> Nat] /\ bound' \in [Dirs -> BOOLEAN] /\ ack' = ack /\ bound' = bound /\ log' = log
  BY DEF Types, dirVars
<1>5. Moves(c, d)
  BY <1>1, <1>2, <1>3, <1>4 DEF Moves
<1> QED BY <1>5, MovesStep

LEMMA GetWindowStep == ASSUME Inv, GetWindow PROVE Inv'
<1> USE InvParts
<1>1. PICK c, d, f, r : c = client.conn /\ d = client.dir /\ f = Head(down[c]) /\ r = Rest(down[c])
  OBVIOUS
<1>2. /\ client.pc = "loop" /\ down[c] # <<>> /\ f.kind = "window" /\ Taken(c)
      /\ client' = [client EXCEPT !.credit = f.body]
      /\ UNCHANGED <<dirVars, up, link, handler, window, dbRest, faults, restores>>
  BY <1>1 DEF GetWindow, Reading, Receive, dbVars, dbRest
<1>3. /\ c \in Conns /\ d \in Dirs /\ handler[c] \in {"open", "done"} /\ client \in ClientRecords
      /\ down'[c] = r /\ f \in DownFrames /\ InLoop(c, f, r)
  BY <1>1, <1>2, LoopFacts, NextInLoop
<1>4. f.body \in 0..MaxBatch
  BY <1>2, <1>3, DownBodies
<1>5. /\ client' \in ClientRecords /\ client'.pc = "loop" /\ client'.conn = c /\ client'.dir = d
      /\ client'.result = client.result /\ client'.inflight = client.inflight
      /\ client'.waiting = client.waiting /\ client'.credit = f.body
  BY <1>1, <1>2, <1>3, <1>4 DEF ClientRecords
<1>6. /\ UNCHANGED <<log, ack, up, window>> /\ handler'[c] \in {"open", "done"}
  BY <1>2, <1>3 DEF dirVars
<1>7. \A n : Win(n).kind = "window" /\ Win(n).body = n
  BY DEF Win, Frame
<1>8. Phase'
  <2>1. CASE /\ client.waiting /\ Paused /\ f = Win(0) /\ r = <<>>
             /\ up[c] = <<Frame("heartbeat", Len(log[client.dir]))>>
    <3>1. client'.inflight = 0 /\ client'.credit = W0
      BY <1>1, <1>2, <1>5, <1>7, <2>1 DEF Phase, Waiting, W0
    <3>2. up'[c] = <<Frame("heartbeat", Len(log'[client'.dir]))>> /\ down'[c] = <<>>
      BY <1>1, <1>3, <1>5, <1>6, <2>1
    <3>3. Waiting(c)'
      BY <1>6, <3>1, <3>2 DEF Waiting
    <3> QED BY <1>5, <2>1, <3>3 DEF Phase
  <2>2. CASE /\ client.waiting /\ Paused /\ f = Win(0) /\ r = <<Frame("heartbeat", 0)>> \o Update(MaxBatch)
             /\ up[c] = <<>> /\ window[c] = MaxBatch
    <3>1. client'.inflight = 0 /\ client'.credit = W0
      BY <1>1, <1>2, <1>5, <1>7, <2>2 DEF Phase, Waiting, W0
    <3>2. up'[c] = <<>> /\ window'[c] = MaxBatch /\ down'[c] = <<Frame("heartbeat", 0)>> \o Update(MaxBatch)
      BY <1>3, <1>6, <2>2
    <3>3. Waiting(c)'
      BY <1>6, <3>1, <3>2 DEF Waiting
    <3> QED BY <1>5, <2>2, <3>3 DEF Phase
  <2>3. CASE /\ ~client.waiting /\ client.inflight = 0 /\ Paused /\ f = Win(window[c]) /\ r = <<>> /\ up[c] = <<>>
    <3>1. client'.inflight = 0 /\ client'.credit = window'[c] /\ up'[c] = <<>> /\ down'[c] = <<>>
      BY <1>3, <1>5, <1>6, <1>7, <2>3
    <3>2. Idle(c)'
      BY <1>6, <3>1 DEF Idle
    <3> QED BY <1>5, <2>3, <3>2 DEF Phase
  <2>4. CASE /\ ~client.waiting /\ client.inflight # 0 /\ Paused /\ f = Win(0) /\ up[c] = <<>>
             /\ \E g \in Held(r) : g.kind = "ack" /\ r = <<g>> \o Update(window[c])
    <3>1. client.inflight \in (ack[d] + 1)..Len(log[d])
      BY <1>1, <1>2, <2>4 DEF Phase, Flying
    <3>2. client'.inflight \in (ack'[client'.dir] + 1)..Len(log'[client'.dir])
      BY <1>5, <1>6, <3>1
    <3>3. client'.credit = 0 /\ up'[c] = <<>>
          /\ \E g \in Held(down'[c]) : g.kind = "ack" /\ down'[c] = <<g>> \o Update(window'[c])
      BY <1>3, <1>5, <1>6, <1>7, <2>4
    <3>4. Flying(c)'
      BY <1>6, <2>4, <3>2, <3>3 DEF Flying
    <3> QED BY <1>5, <2>4, <3>4 DEF Phase
  <2>5. f # Frame("heartbeat", 0) /\ f.kind # "ack" /\ f.kind # "error"
    BY <1>2 DEF Frame
  <2> QED BY <1>3, <2>1, <2>2, <2>3, <2>4, <2>5 DEF InLoop
<1> QED BY <1>1, <1>2, <1>5, <1>8, ControlStep

LEMMA GetHeartbeatStep == ASSUME Inv, GetHeartbeat PROVE Inv'
<1> USE InvParts
<1>1. PICK c, d, f, r : c = client.conn /\ d = client.dir /\ f = Head(down[c]) /\ r = Rest(down[c])
  OBVIOUS
<1>2. /\ client.pc = "loop" /\ down[c] # <<>> /\ f.kind = "heartbeat" /\ Taken(c)
      /\ client' = [client EXCEPT !.waiting = FALSE]
      /\ UNCHANGED <<dirVars, up, link, handler, window, dbRest, faults, restores>>
  BY <1>1 DEF GetHeartbeat, Reading, Receive, dbVars, dbRest
<1>3. /\ c \in Conns /\ handler[c] \in {"open", "done"} /\ client \in ClientRecords
      /\ down'[c] = r /\ InLoop(c, f, r)
  BY <1>1, <1>2, LoopFacts, NextInLoop
<1>4. /\ client' \in ClientRecords /\ client'.pc = "loop" /\ client'.conn = c /\ client'.dir = d
      /\ client'.result = client.result /\ client'.inflight = client.inflight
      /\ ~client'.waiting /\ client'.credit = client.credit
  BY <1>1, <1>2, <1>3 DEF ClientRecords
<1>5. \A n : f # Win(n)
  BY <1>2 DEF Win, Frame
<1>6. client.waiting /\ r = Update(MaxBatch) /\ up[c] = <<>> /\ window[c] = MaxBatch
  BY <1>2, <1>3, <1>5 DEF InLoop
<1>7. client.inflight = 0 /\ client.credit = W0
  BY <1>1, <1>2, <1>6 DEF Phase, Waiting
<1>8. up'[c] = <<>> /\ window'[c] = MaxBatch /\ handler'[c] \in {"open", "done"} /\ down'[c] = Update(MaxBatch)
  BY <1>2, <1>3, <1>6
<1>9. \/ down'[c] = <<>> /\ client'.credit = window'[c]
      \/ Paused /\ down'[c] = <<Frame("window", window'[c])>> /\ client'.credit = 0
  BY <1>4, <1>7, <1>8 DEF Update, W0
<1>10. Phase'
  <2>1. Idle(c)'
    BY <1>4, <1>7, <1>8, <1>9 DEF Idle
  <2> QED BY <1>4, <1>7, <2>1 DEF Phase
<1> QED BY <1>1, <1>2, <1>4, <1>10, ControlStep

(* The only sender's ack is for the batch in flight, which is stored. *)
LEMMA OwnAckAccepted ==
  ASSUME Inv, OneSender, Reading, Receive(client.conn, "ack"), NEW a, a = Head(down[client.conn]).body
  PROVE  AckCode(client.dir, a) = "ok"
<1> USE InvParts
<1>1. PICK c, d, f : c = client.conn /\ d = client.dir /\ f = Head(down[c])
  OBVIOUS
<1>2. /\ client.pc = "loop" /\ down[c] # <<>> /\ f.kind = "ack" /\ c \in Conns
  BY <1>1 DEF Reading, Receive, ClientInv, Running
<1>3. f \in Held(down[c])
  BY <1>1, <1>2, ChannelFacts
<1>4. restores = 0 /\ d = Original
  BY <1>1, <1>2, OneSenderLog DEF OneSender
<1>5. a.n = client.inflight /\ row.head = client.inflight /\ Stored(a.chain, a.n)
  BY <1>1, <1>2, <1>3, <1>4 DEF Known, Truth
<1>6. row.head = Len(events) /\ events \in Seq(Events) /\ Len(events) \in Nat
  BY StoreFacts
<1>7. /\ events = Prefix(log[Original], Len(events)) /\ Len(events) <= Len(log[Original])
      /\ ack[Original] <= Len(events)
  BY OneSenderLog
<1>8. \A n : Win(n).kind # "ack" /\ Frame("heartbeat", 0).kind # "ack"
  BY DEF Win, Frame
<1>9. client.inflight # 0
  BY <1>1, <1>2, <1>8, NextInLoop DEF InLoop
<1>10. a.chain = events
  <2>1. SubSeq(events, 1, Len(events)) = events
    BY <1>6, SubSeqFull
  <2> QED BY <1>5, <1>6, <2>1 DEF Stored, Prefix
<1>11. ack[d] <= a.n /\ a.n <= DurableTail(d) /\ Prefix(log[d], a.n) = a.chain
  BY <1>4, <1>5, <1>6, <1>7, <1>10 DEF DurableTail
<1> QED BY <1>1, <1>5, <1>9, <1>11 DEF AckCode

LEMMA GetAckStep == ASSUME Inv, GetAck PROVE Inv'
<1> USE InvParts
<1>1. PICK c, d, f, r, a : /\ c = client.conn /\ d = client.dir
                           /\ f = Head(down[c]) /\ r = Rest(down[c]) /\ a = f.body
  OBVIOUS
<1>2. /\ Reading /\ Receive(c, "ack") /\ client.pc = "loop" /\ down[c] # <<>> /\ f.kind = "ack" /\ Taken(c)
      /\ UNCHANGED <<log, bound, up, handler, window, dbRest, faults, restores>>
  BY <1>1 DEF GetAck, Reading, Receive, dbVars, dbRest
<1>3. /\ c \in Conns /\ d \in Dirs /\ bound[d] /\ Greeted /\ handler[c] \in {"open", "done"}
      /\ log[d] \in Seq(Events) /\ Len(log[d]) \in Nat /\ ack[d] \in Nat /\ client \in ClientRecords
      /\ down'[c] = r /\ f \in Held(down[c]) /\ f \in DownFrames /\ InLoop(c, f, r)
  BY <1>1, <1>2, LoopFacts, NextInLoop
<1>4. a \in AckBodies
  BY <1>1, <1>2, <1>3, DownBodies
<1>5. CASE AckCode(d, a) # "ok"
  <2>1. Fail(AckCode(d, a)) /\ UNCHANGED dirVars
    BY <1>1, <1>2, <1>5 DEF GetAck, dirVars
  <2>2. AckCode(d, a) \in Results
    BY <1>5 DEF AckCode, Results
  <2>3. ~OneSender
    BY <1>1, <1>2, <1>5, OwnAckAccepted
  <2>4. Running /\ faults' \in 0..MaxFaults
    BY <1>2 DEF Running, Types
  <2> QED BY <1>1, <1>2, <2>1, <2>2, <2>3, <2>4, FailStep
<1>6. CASE AckCode(d, a) = "ok"
  <2>1. /\ ack' = [ack EXCEPT ![d] = a.n] /\ client' = [client EXCEPT !.inflight = 0] /\ link' = link
    BY <1>1, <1>2, <1>6 DEF GetAck
  <2>2. a.n = client.inflight /\ a.n \in Nat /\ a.n <= Len(log[d]) /\ Prefix(log[d], a.n) = a.chain
    BY <1>4, <1>6 DEF AckCode, AckBodies, DurableTail
  <2>3. /\ client' \in ClientRecords /\ client'.pc = "loop" /\ client'.conn = c /\ client'.dir = d
        /\ client'.result = client.result /\ client'.inflight = 0
        /\ client'.waiting = client.waiting /\ client'.credit = client.credit
    BY <1>1, <1>2, <1>3, <2>1 DEF ClientRecords
  <2>4. /\ ack' \in [Dirs -> Nat] /\ bound' \in [Dirs -> BOOLEAN] /\ ack'[d] = a.n /\ bound' = bound
        /\ \A e \in Dirs \ {d} : ack'[e] = ack[e]
    BY <1>2, <1>3, <2>1, <2>2 DEF Types
  <2>5. /\ ~client.waiting /\ client.inflight # 0 /\ r = Update(window[c]) /\ up[c] = <<>>
        /\ (Paused => client.credit = 0)
    <3>1. \A n : f # Win(n) /\ f # Frame("heartbeat", 0)
      BY <1>2 DEF Win, Frame
    <3> QED BY <1>2, <1>3, <3>1 DEF InLoop
  <2>6. ~Paused => client.credit = window[c]
    BY <1>1, <1>2, <2>5 DEF Phase, Flying
  <2>7. Phase'
    <3>1. up'[c] = <<>> /\ handler'[c] \in {"open", "done"} /\ down'[c] = Update(window'[c])
      BY <1>2, <1>3, <2>5
    <3>2. window'[c] = window[c]
      BY <1>2
    <3>3. \/ down'[c] = <<>> /\ client'.credit = window'[c]
          \/ Paused /\ down'[c] = <<Frame("window", window'[c])>> /\ client'.credit = 0
      BY <2>3, <2>5, <2>6, <3>1, <3>2 DEF Update
    <3>4. Idle(c)'
      BY <2>3, <3>1, <3>3 DEF Idle
    <3> QED BY <2>3, <2>5, <3>4 DEF Phase
  <2>8. Known'
    <3>1. \A g \in Held(down'[c]) : g.kind # "ack"
      BY <1>3, <2>5, UpdateHeld
    <3>2. restores = 0 => row.head = a.n
      BY <1>1, <1>2, <1>3, <2>2 DEF Known
    <3>3. restores' = 0 => row'.head = ack'[d]
      BY <1>2, <2>4, <3>2 DEF dbRest
    <3> QED BY <2>3, <3>1, <3>3 DEF Known
  <2>9. restores = 0 \/ link[c] => Stored(Prefix(log[d], ack'[d]), ack'[d])
    <3>1. restores = 0 \/ link[c] => Stored(a.chain, a.n)
      BY <1>1, <1>2, <1>3 DEF Truth
    <3> QED BY <2>2, <2>4, <3>1
  <2>10. Moves(c, d)
    BY <1>1, <1>2, <1>3, <2>1, <2>2, <2>3, <2>4, <2>5, <2>7, <2>8, <2>9 DEF Moves
  <2> QED BY <2>10, MovesStep
<1> QED BY <1>5, <1>6
-------------------------------------------------------------------------------
(* The sender's directories change while no sync is going on. *)

LEMMA SegmentOfAppend ==
  ASSUME NEW l \in Seq(Events), NEW e \in Events, NEW first \in 1..(Len(l) + 1), NEW last \in 0..Len(l)
  PROVE  SubSeq(Append(l, e), first, last) = SubSeq(l, first, last)
<1>1. /\ Len(l) \in Nat /\ Append(l, e) \in Seq(Events) /\ Len(Append(l, e)) = Len(l) + 1
      /\ \A i \in 1..Len(l) : Append(l, e)[i] = l[i] /\ l[i] \in Events
  BY LenProperties, AppendProperties
<1>2. first \in Int /\ last \in Int /\ \A i \in first..last : i \in 1..Len(l)
  BY <1>1
<1>3. PICK k \in Int : k = last - first + 1
  BY <1>2
<1>4. /\ SubSeq(l, first, last) \in Seq(Events)
      /\ Len(SubSeq(l, first, last)) = IF first <= last THEN k ELSE 0
      /\ \A i \in 1..k : SubSeq(l, first, last)[i] = l[first + i - 1]
  <2>1. \A i \in first..last : l[i] \in Events
    BY <1>1, <1>2
  <2> QED BY <1>2, <1>3, <2>1, SubSeqProperties
<1>5. /\ SubSeq(Append(l, e), first, last) \in Seq(Events)
      /\ Len(SubSeq(Append(l, e), first, last)) = IF first <= last THEN k ELSE 0
      /\ \A i \in 1..k : SubSeq(Append(l, e), first, last)[i] = Append(l, e)[first + i - 1]
  <2>1. \A i \in first..last : Append(l, e)[i] \in Events
    BY <1>1, <1>2
  <2> QED BY <1>2, <1>3, <2>1, SubSeqProperties
<1>6. \A i \in 1..k : first + i - 1 \in 1..Len(l)
  BY <1>1, <1>2, <1>3
<1>7. \A i \in 1..k : SubSeq(Append(l, e), first, last)[i] = SubSeq(l, first, last)[i]
  BY <1>1, <1>4, <1>5, <1>6
<1>8. ~(first <= last) => 1..0 = {}
  OBVIOUS
<1> QED BY <1>4, <1>5, <1>7, <1>8, SeqEqual

LEMMA PrefixOfAppend ==
  ASSUME NEW l \in Seq(Events), NEW e \in Events, NEW n \in 0..Len(l)
  PROVE  Prefix(Append(l, e), n) = Prefix(l, n)
<1>1. 1 \in 1..(Len(l) + 1)
  BY LenProperties
<1> QED BY <1>1, SegmentOfAppend DEF Prefix

\* the step leaves the client, the wire and the database alone
Provisions ==
  /\ client.pc = "off" /\ UNCHANGED <<client, connVars, dbRest, faults, restores>>
  /\ log' \in [Dirs -> Seq(Events)] /\ ack' \in [Dirs -> Nat] /\ bound' \in [Dirs -> BOOLEAN]
  /\ \A d \in Dirs : bound[d] => bound'[d]
  /\ DirInv' /\ OneLogCommitted'
  /\ \A d \in Dirs : bound[d] => /\ Len(log[d]) <= Len(log'[d])
                       /\ \A last \in 0..Len(log[d]) : \A first \in 1..(Len(log[d]) + 1) :
                            SubSeq(log'[d], first, last) = SubSeq(log[d], first, last)
  /\ restores = 0 => \A d \in Dirs : Stored(Prefix(log'[d], ack'[d]), ack'[d])

LEMMA ProvisionsStep == ASSUME Inv, Provisions PROVE Inv'
<1> USE InvParts
<1>1. /\ client.pc = "off" /\ UNCHANGED <<client, up, down, link, handler, window, dbRest, faults, restores>>
      /\ log' \in [Dirs -> Seq(Events)] /\ ack' \in [Dirs -> Nat] /\ bound' \in [Dirs -> BOOLEAN]
      /\ DirInv' /\ OneLogCommitted'
  BY DEF Provisions, connVars
<1>2. Types'
  BY <1>1 DEF Types
<1>3. StoreInv'
  BY <1>1, StoreKept DEF Types
<1>4. Channels' /\ Handlers' /\ Links' /\ ClientInv'
  BY <1>1 DEF Channels, Handlers, Links, ClientInv, Running, dbRest
<1>5. Phase' /\ Exclusive' /\ Known' /\ Retries'
  BY <1>1 DEF Phase, Exclusive, Greeted, Known, Retries, Running
<1>6. Truth'
  BY <1>1 DEF Truth, Stored, dbRest
<1>7. Acked'
  <2>1. restores = 0 => \A d \in Dirs : Stored(Prefix(log'[d], ack'[d]), ack'[d])
    BY DEF Provisions
  <2> QED BY <1>1, <2>1 DEF Acked, Stored, dbRest
<1>8. NoPermanentFailure'
  <2>1. OneSender' => OneSender
    BY <1>1 DEF OneSender, Provisions, Types
  <2> QED BY <1>1, <2>1 DEF NoPermanentFailure
<1>9. BatchInv'
  <2> SUFFICES ASSUME NEW c \in Conns, NEW f \in Held(up[c]), f.kind = "batch"
               PROVE  /\ Len(f.body.events) <= window[c]
                      /\ \E d \in Dirs : bound'[d] /\ \E first \in 1..Len(log'[d]) : \E last \in first..Len(log'[d]) :
                           f.body = Store!Batch(log[d], first, last)'
    BY <1>1 DEF BatchInv, Store!Batch, Store!Prefix
  <2>0. PICK d \in Dirs : bound[d] /\ \E first \in 1..Len(log[d]) : \E last \in first..Len(log[d]) :
          f.body = Store!Batch(log[d], first, last)
    BY DEF BatchInv
  <2>1. PICK first \in 1..Len(log[d]) : \E last \in first..Len(log[d]) :
          f.body = Store!Batch(log[d], first, last)
    BY <2>0
  <2>2. PICK last \in first..Len(log[d]) : f.body = Store!Batch(log[d], first, last)
    BY <2>1
  <2>3. Len(log[d]) \in Nat /\ Len(log'[d]) \in Nat
    BY <1>1, LenProperties DEF Types
  <2>4. bound'[d] /\ Len(log[d]) <= Len(log'[d])
    BY <2>0 DEF Provisions
  <2>5. first \in 1..Len(log'[d]) /\ last \in first..Len(log'[d]) /\ last \in 0..Len(log[d])
        /\ first \in 1..(Len(log[d]) + 1) /\ 1 \in 1..(Len(log[d]) + 1)
    BY <2>3, <2>4
  <2>6. /\ SubSeq(log'[d], first, last) = SubSeq(log[d], first, last)
        /\ SubSeq(log'[d], 1, last) = SubSeq(log[d], 1, last)
    BY <2>0, <2>5 DEF Provisions
  <2>7. f.body = Store!Batch(log[d], first, last)'
    BY <2>2, <2>6 DEF Store!Batch, Store!Prefix
  <2>8. Len(f.body.events) <= window[c]
    BY DEF BatchInv
  <2> QED BY <2>4, <2>5, <2>7, <2>8
<1> QED BY <1>1, <1>2, <1>3, <1>4, <1>5, <1>6, <1>7, <1>8, <1>9 DEF Inv, RelayInv

LEMMA AdmitStep == ASSUME Inv, NEW d \in Dirs, NEW e \in Events, Admit(d, e) PROVE Inv'
<1> USE InvParts
<1>1. /\ client.pc = "off" /\ bound[d] /\ e \notin Used /\ InOrder(log[d], e)
      /\ log' = [log EXCEPT ![d] = Append(log[d], e)]
      /\ UNCHANGED <<ack, bound, client, connVars, dbRest, faults, restores>>
  BY DEF Admit, dbVars, dbRest
<1>2. PICK l, n : l = log[d] /\ n = Len(log[d])
  OBVIOUS
<1>3. /\ log \in [Dirs -> Seq(Events)] /\ l \in Seq(Events) /\ n = Len(l) /\ n \in Nat
      /\ \A i \in 1..n : l[i] \in Events
  BY <1>2, LenProperties DEF Types
<1>4. /\ log'[d] = Append(l, e) /\ \A x \in Dirs \ {d} : log'[x] = log[x]
      /\ log'[d] \in Seq(Events) /\ Len(log'[d]) = n + 1
      /\ (\A i \in 1..n : log'[d][i] = l[i]) /\ log'[d][n + 1] = e
  BY <1>1, <1>2, <1>3, AppendProperties
<1>5. \A i \in 1..n : l[i] # e /\ SP!Follows(l[i], e)
  <2> SUFFICES ASSUME NEW i \in 1..n PROVE l[i] # e /\ SP!Follows(l[i], e)
    OBVIOUS
  <2>1. l[i] # e
    BY <1>1, <1>2 DEF Used
  <2>2. l[n] \in Events /\ SP!Follows(l[n], e)
    <3>1. n # 0 /\ n \in 1..n /\ l # <<>>
      BY <1>3, NoFrames
    <3>2. /\ e.time >= l[n].time /\ e.time > l[n].through /\ e.through >= l[n].through
      BY <1>1, <1>2, <3>1 DEF InOrder
    <3>3. /\ l[n] \in Events /\ e.time \in Nat /\ e.through \in Nat /\ l[n].time \in Nat /\ l[n].through \in Nat
      BY <1>3, <3>1, RelayAssumption
    <3> QED BY <3>2, <3>3 DEF SP!Follows
  <2>3. CASE i = n
    BY <2>1, <2>2, <2>3
  <2>4. CASE i < n
    <3>1. SP!Follows(l[i], l[n])
      BY <1>2, <1>3, <2>4 DEF DirInv
    <3> QED BY <1>3, <2>1, <2>2, <3>1, SP!FollowsTransitive, StoreAssumption
  <2> QED BY <1>3, <2>3, <2>4
<1>6. DirInv'
  <2> SUFFICES ASSUME NEW x \in Dirs
               PROVE  /\ ack[x] <= Len(log'[x]) /\ (~bound[x] => log'[x] = <<>>)
                      /\ \A i, j \in 1..Len(log'[x]) : i < j =>
                           log'[x][i] # log'[x][j] /\ SP!Follows(log'[x][i], log'[x][j])
    BY <1>1 DEF DirInv, SP!Follows
  <2>1. CASE x # d
    BY <1>4, <2>1 DEF DirInv
  <2>2. CASE x = d
    <3>1. ack[d] \in Nat /\ ack[d] <= n
      BY <1>2 DEF Types, DirInv
    <3>2. ASSUME NEW i \in 1..(n + 1), NEW j \in 1..(n + 1), i < j
          PROVE  log'[d][i] # log'[d][j] /\ SP!Follows(log'[d][i], log'[d][j])
      <4>1. i \in 1..n
        BY <1>3, <3>2
      <4>2. CASE j = n + 1
        BY <1>4, <1>5, <4>1, <4>2
      <4>3. CASE j \in 1..n
        BY <1>2, <1>4, <3>2, <4>1, <4>3 DEF DirInv
      <4> QED BY <1>3, <4>2, <4>3
    <3> QED BY <1>1, <1>3, <1>4, <2>2, <3>1, <3>2
  <2> QED BY <2>1, <2>2
<1>7. \A x \in Dirs : /\ Len(log[x]) <= Len(log'[x])
        /\ \A last \in 0..Len(log[x]) : \A first \in 1..(Len(log[x]) + 1) :
             SubSeq(log'[x], first, last) = SubSeq(log[x], first, last)
  <2> SUFFICES ASSUME NEW x \in Dirs
               PROVE  /\ Len(log[x]) <= Len(log'[x])
                      /\ \A last \in 0..Len(log[x]) : \A first \in 1..(Len(log[x]) + 1) :
                           SubSeq(log'[x], first, last) = SubSeq(log[x], first, last)
    OBVIOUS
  <2>1. CASE x # d
    BY <1>3, <1>4, <2>1, LenProperties
  <2>2. CASE x = d
    <3>1. \A last \in 0..n : \A first \in 1..(n + 1) : SubSeq(Append(l, e), first, last) = SubSeq(l, first, last)
      BY <1>3, SegmentOfAppend
    <3>2. log[x] = l /\ log'[x] = Append(l, e) /\ Len(log[x]) = n /\ Len(log'[x]) = n + 1 /\ n <= n + 1
      BY <1>2, <1>3, <1>4, <2>2
    <3> QED BY ONLY <3>1, <3>2
  <2> QED BY <2>1, <2>2
<1>8. \A x \in Dirs : \A m \in 0..Len(log[x]) : Prefix(log'[x], m) = Prefix(log[x], m)
  <2> SUFFICES ASSUME NEW x \in Dirs, NEW m \in 0..Len(log[x]) PROVE Prefix(log'[x], m) = Prefix(log[x], m)
    OBVIOUS
  <2>1. 1 \in 1..(Len(log[x]) + 1)
    BY <1>3, LenProperties
  <2> QED BY <1>7, <2>1 DEF Prefix
<1>9. OneLogCommitted'
  <2>1. PICK x \in Dirs : Len(events) <= Len(log[x]) /\ events = Prefix(log[x], Len(events))
    BY DEF OneLogCommitted, DurableTail
  <2>2. Len(events) \in Nat /\ Len(log[x]) \in Nat /\ Len(log'[x]) \in Nat
    BY <1>3, <1>4, StoreFacts, LenProperties
  <2>3. Len(events) \in 0..Len(log[x]) /\ Len(events) <= Len(log'[x])
    BY <1>7, <2>1, <2>2
  <2>4. events = Prefix(log'[x], Len(events))
    BY <1>8, <2>1, <2>3
  <2>5. events' = events
    BY <1>1 DEF dbRest
  <2> QED BY <2>3, <2>4, <2>5 DEF OneLogCommitted, DurableTail
<1>10. restores = 0 => \A x \in Dirs : Stored(Prefix(log'[x], ack'[x]), ack'[x])
  <2> SUFFICES ASSUME restores = 0, NEW x \in Dirs PROVE Stored(Prefix(log'[x], ack[x]), ack[x])
    BY <1>1
  <2>1. ack[x] \in 0..Len(log[x])
    <3>1. ack[x] \in Nat /\ ack[x] <= Len(log[x]) /\ Len(log[x]) \in Nat
      BY <1>3, LenProperties DEF Types, DirInv
    <3> QED BY <3>1
  <2>2. Stored(Prefix(log[x], ack[x]), ack[x])
    BY DEF Acked
  <2> QED BY <1>8, <2>1, <2>2
<1>11. log' \in [Dirs -> Seq(Events)]
  BY <1>1, <1>3, <1>4
<1>12. ack' \in [Dirs -> Nat] /\ bound' \in [Dirs -> BOOLEAN] /\ \A x \in Dirs : bound[x] => bound'[x]
  BY <1>1 DEF Types
<1>13. Provisions
  BY <1>1, <1>6, <1>7, <1>9, <1>10, <1>11, <1>12 DEF Provisions
<1> QED BY <1>13, ProvisionsStep

LEMMA CopyStep == ASSUME Inv, NEW from \in Dirs, NEW to \in Dirs, Copy(from, to) PROVE Inv'
<1> USE InvParts
<1>1. /\ client.pc = "off" /\ bound[from] /\ ~bound[to] /\ to # Original
      /\ log' = [log EXCEPT ![to] = log[from]] /\ ack' = [ack EXCEPT ![to] = ack[from]]
      /\ bound' = [bound EXCEPT ![to] = TRUE]
      /\ UNCHANGED <<client, connVars, dbRest, faults, restores>>
  BY DEF Copy, dbVars, dbRest
<1>2. /\ log'[to] = log[from] /\ ack'[to] = ack[from] /\ bound'[to]
      /\ \A x \in Dirs \ {to} : log'[x] = log[x] /\ ack'[x] = ack[x] /\ bound'[x] = bound[x]
  BY <1>1 DEF Types
<1>3. /\ log' \in [Dirs -> Seq(Events)] /\ ack' \in [Dirs -> Nat] /\ bound' \in [Dirs -> BOOLEAN]
  BY <1>1 DEF Types
<1>4. DirInv'
  <2> SUFFICES ASSUME NEW x \in Dirs
               PROVE  /\ ack'[x] <= Len(log'[x]) /\ (~bound'[x] => log'[x] = <<>>)
                      /\ \A i, j \in 1..Len(log'[x]) : i < j =>
                           log'[x][i] # log'[x][j] /\ SP!Follows(log'[x][i], log'[x][j])
    BY DEF DirInv, SP!Follows
  <2>1. CASE x # to
    BY <1>2, <2>1 DEF DirInv
  <2>2. CASE x = to
    BY <1>2, <2>2 DEF DirInv
  <2> QED BY <2>1, <2>2
<1>5. log[to] = <<>>
  BY <1>1 DEF DirInv
<1>6. OneLogCommitted'
  <2>1. PICK x \in Dirs : Len(events) <= Len(log[x]) /\ events = Prefix(log[x], Len(events))
    BY DEF OneLogCommitted, DurableTail
  <2>2. events' = events /\ events \in Seq(Events) /\ Len(events) \in Nat
    BY <1>1, StoreFacts DEF dbRest
  <2>3. CASE x # to
    BY <1>2, <2>1, <2>2, <2>3 DEF OneLogCommitted, DurableTail
  <2>4. CASE x = to
    <3>1. Len(events) = 0
      BY <1>5, <2>1, <2>2, <2>4, NoFrames
    <3>2. log'[to] \in Seq(Events) /\ Len(log'[to]) \in Nat /\ 0 \in 0..Len(log'[to])
      BY <1>3, LenProperties
    <3>3. Prefix(log'[to], 0) \in Seq(Events) /\ Len(Prefix(log'[to], 0)) = 0
      BY <3>2, PrefixFacts
    <3>4. Prefix(log'[to], 0) = <<>> /\ events = <<>>
      BY <2>2, <3>1, <3>3, HeldIn
    <3> QED BY <2>2, <3>1, <3>2, <3>4 DEF OneLogCommitted, DurableTail
  <2> QED BY <2>3, <2>4
<1>7. \A x \in Dirs : bound[x] => /\ x # to /\ bound'[x] /\ Len(log[x]) <= Len(log'[x])
        /\ \A last \in 0..Len(log[x]) : \A first \in 1..(Len(log[x]) + 1) :
             SubSeq(log'[x], first, last) = SubSeq(log[x], first, last)
  <2> SUFFICES ASSUME NEW x \in Dirs, bound[x]
               PROVE  x # to /\ bound'[x] /\ Len(log[x]) <= Len(log'[x]) /\ log'[x] = log[x]
    OBVIOUS
  <2>1. Len(log[x]) \in Nat
    BY LenProperties DEF Types
  <2> QED BY <1>1, <1>2, <2>1
<1>8. restores = 0 => \A x \in Dirs : Stored(Prefix(log'[x], ack'[x]), ack'[x])
  <2> SUFFICES ASSUME restores = 0, NEW x \in Dirs PROVE Stored(Prefix(log'[x], ack'[x]), ack'[x])
    OBVIOUS
  <2>1. Stored(Prefix(log[x], ack[x]), ack[x]) /\ Stored(Prefix(log[from], ack[from]), ack[from])
    BY DEF Acked
  <2> QED BY <1>2, <2>1
<1>9. Provisions
  BY <1>1, <1>3, <1>4, <1>6, <1>7, <1>8 DEF Provisions
<1> QED BY <1>9, ProvisionsStep
-------------------------------------------------------------------------------
(* The invariant. *)

LEMMA InitInv == Init => Inv
<1> SUFFICES ASSUME Init PROVE Inv
  OBVIOUS
<1>0. /\ log = [d \in Dirs |-> <<>>] /\ ack = [d \in Dirs |-> 0] /\ bound = [d \in Dirs |-> FALSE]
      /\ client = NoClient("ok") /\ client.pc = "off" /\ client.result = "ok"
      /\ up = [c \in Conns |-> <<>>] /\ down = [c \in Conns |-> <<>>]
      /\ link = [c \in Conns |-> FALSE] /\ handler = [c \in Conns |-> "done"]
      /\ window = [c \in Conns |-> 0] /\ identity = "receiver" /\ admin = {}
      /\ row = [epoch |-> "epoch", head |-> 0, chain |-> <<>>, owner |-> 0, floor |-> -1, last |-> 0]
      /\ events = <<>> /\ effects = <<>>
      /\ session = [c \in Conns |-> [state |-> "new", owner |-> 0]] /\ lock = None
      /\ faults = 0 /\ restores = 0
  <2>1. [Store!NoRow EXCEPT !.epoch = "epoch"] =
          [epoch |-> "epoch", head |-> 0, chain |-> <<>>, owner |-> 0, floor |-> -1, last |-> 0]
    BY DEF Store!NoRow
  <2>2. NoClient("ok").pc = "off" /\ NoClient("ok").result = "ok"
    BY DEF NoClient
  <2> QED BY <2>1, <2>2, SameStore DEF Init
<1>1. /\ Len(<<>>) = 0 /\ Held(<<>>) = {} /\ <<>> \in Seq(Events) /\ <<>> \in Seq(Nat)
      /\ <<>> \in Seq(UpFrames) /\ <<>> \in Seq(DownFrames)
  BY NoFrames
<1>2. Types
  <2>1. 0 \in 0..MaxBatch /\ 0 \in 0..(Attempts - 1) /\ 0 \in 0..MaxFaults /\ 0 \in 0..MaxRestores
    BY RelayAssumption
  <2>2. NoClient("ok") \in ClientRecords
    BY <2>1 DEF NoClient, ClientRecords, Results
  <2> QED BY <1>0, <1>1, <2>1, <2>2 DEF Types, ClientRecords
<1>3. StoreInv
  <2>1. SP!TypeOK
    <3>1. 0 \in 0..MaxFaults
      BY RelayAssumption
    <3>2. 0 \in Nat /\ -1 \in Int
      OBVIOUS
    <3>3. row \in [epoch : {"epoch"} \union {None}, head : Nat, chain : Seq(Events), owner : Nat, floor : Int, last : Nat]
      BY <1>0, <1>1, <3>2
    <3>4. session \in [Conns -> [state : {"new", "open", "closing", "broken"}, owner : Nat]]
      BY <1>0, <3>2
    <3> QED BY <1>0, <1>1, <3>1, <3>3, <3>4 DEF SP!TypeOK
  <2>2. SP!EmptyUntilBootstrap
    BY <1>0, RelayAssumption DEF SP!EmptyUntilBootstrap
  <2>3. SP!OneHistory
    <3>1. SP!Prefix(<<>>, Len(<<>>)) = <<>>
      BY <1>1, SubSeqFull DEF SP!Prefix
    <3> QED BY <1>0, <1>1, <3>1 DEF SP!OneHistory
  <2>4. SP!RowMatchesTables
    <3>1. /\ SP!Boundaries(<<>>) \in Seq(Nat) /\ Len(SP!Boundaries(<<>>)) = Len(<<>>)
      BY <1>1, SP!BoundariesFacts, StoreAssumption
    <3>2. SP!Boundaries(<<>>) = <<>>
      BY <1>1, <3>1, HeldIn
    <3> QED BY <1>0, <1>1, <3>2 DEF SP!RowMatchesTables
  <2>5. SP!StoredInOrder
    BY <1>0, <1>1 DEF SP!StoredInOrder
  <2>6. SP!LiveSessionOwnsStream
    BY <1>0 DEF SP!LiveSessionOwnsStream
  <2> QED BY <1>0, <2>1, <2>2, <2>3, <2>4, <2>5, <2>6 DEF StoreInv, SP!Inv, SP!StoreInv
<1>4. Channels /\ Handlers /\ Links
  BY <1>0, <1>1 DEF Channels, Handlers, Links
<1>5. ClientInv /\ Phase /\ Exclusive /\ Known /\ Retries
  BY <1>0 DEF ClientInv, Phase, Exclusive, Greeted, Known, Retries, Running
<1>6. DirInv
  BY <1>0, <1>1 DEF DirInv
<1>7. BatchInv /\ Truth
  BY <1>0, <1>1 DEF BatchInv, Truth
<1>8. Prefix(<<>>, 0) = <<>>
  BY <1>1, SubSeqFull DEF Prefix
<1>9. Acked /\ OneLogCommitted
  BY <1>0, <1>1, <1>8, RelayAssumption DEF Acked, Stored, OneLogCommitted, DurableTail
<1>10. NoPermanentFailure
  BY <1>0 DEF NoPermanentFailure
<1> QED BY <1>2, <1>3, <1>4, <1>5, <1>6, <1>7, <1>9, <1>10 DEF Inv, RelayInv

LEMMA StutterStep == ASSUME Inv, UNCHANGED vars PROVE Inv'
<1> USE InvParts
<1>1. /\ UNCHANGED <<dirVars, client, up, down, link, handler, window, dbRest, faults, restores>>
      /\ UNCHANGED <<identity, admin, row, events, effects, session, lock>>
  BY DEF vars, connVars, dbVars, dbRest
<1>2. StoreInv'
  BY <1>1, StoreKept DEF Types
<1>3. Handlers'
  BY <1>1 DEF Handlers
<1>4. /\ link' \in [Conns -> BOOLEAN] /\ handler' \in [Conns -> {"new", "open", "done"}]
      /\ faults' \in 0..MaxFaults
  BY <1>1 DEF Types
<1>5. Quiet
  BY <1>1, <1>2, <1>3, <1>4 DEF Quiet
<1> QED BY <1>5, QuietStep

LEMMA Step == Inv /\ [Next]_vars => Inv'
<1> SUFFICES ASSUME Inv, [Next]_vars PROVE Inv'
  OBVIOUS
<1>1. CASE \E d \in Dirs, e \in Events : Admit(d, e)
  BY <1>1, AdmitStep
<1>2. CASE \E from, to \in Dirs : Copy(from, to)
  BY <1>2, CopyStep
<1>3. CASE \E d \in Dirs, c \in Conns : Sync(d, c)
  BY <1>3, SyncStep
<1>4. CASE ClientStep
  BY <1>4, GetHelloStep, SendBatchStep, GetAckStep, GetWindowStep, GetHeartbeatStep, GetErrorStep,
     SayGoodbyeStep, GetTrailingStep, SucceedStep, RetryStep DEF ClientStep
<1>5. CASE Failure
  BY <1>5, NetworkErrorStep, ClientCrashStep, ServerCrashStep, LinkDownStep, LoseConnectionStep,
     ServeUnavailableStep, ServeBatchLostStep DEF Failure
<1>6. CASE \E c \in Conns : ServerStep(c) \/ BackendExit(c)
  BY <1>6, ServeHelloStep, ServeBatchStep, ServeBatchBrokenStep, ServeHeartbeatStep, ServeGoodbyeStep,
     ServeAbandonedStep, BackendExitStep DEF ServerStep
<1>7. CASE \E n \in 0..Len(events) : Restore(n)
  BY <1>7, RestoreStep
<1>8. CASE UNCHANGED vars
  BY <1>8, StutterStep
<1> QED BY <1>1, <1>2, <1>3, <1>4, <1>5, <1>6, <1>7, <1>8 DEF Next

(* What the directories, the client, the wire and the database hold together. *)
THEOREM Invariance == Spec => []Inv
<1>1. Inv /\ [Next]_vars => Inv'
  BY Step
<1> QED BY <1>1, InitInv, PTL DEF Spec

(* The variables keep their types. *)
THEOREM TypeCorrect == Spec => []TypeOK
<1>1. ASSUME Inv PROVE TypeOK
  <2> USE <1>1, InvParts
  <2>1. \A c \in Conns : Kinds(up[c]) \subseteq {"hello", "heartbeat", "batch", "goodbye"}
    <3> SUFFICES ASSUME NEW c \in Conns, NEW i \in 1..Len(up[c])
                 PROVE  up[c][i].kind \in {"hello", "heartbeat", "batch", "goodbye"}
      BY DEF Kinds
    <3>1. up[c][i] \in UpFrames
      BY ChannelFacts DEF Held
    <3> QED BY <3>1, UpBodies
  <2>2. \A c \in Conns : Kinds(down[c]) \subseteq {"hello", "heartbeat", "ack", "window", "error", "goodbye"}
    <3> SUFFICES ASSUME NEW c \in Conns, NEW i \in 1..Len(down[c])
                 PROVE  down[c][i].kind \in {"hello", "heartbeat", "ack", "window", "error", "goodbye"}
      BY DEF Kinds
    <3>1. down[c][i] \in DownFrames
      BY ChannelFacts DEF Held
    <3> QED BY <3>1, DownBodies
  <2>3. Store!TypeOK
    <3>1. SP!TypeOK
      BY DEF StoreInv, SP!Inv
    <3> QED BY <3>1 DEF SP!TypeOK, Store!TypeOK, SP!Requests, Store!Requests
  <2> QED BY <2>1, <2>2, <2>3 DEF Types, TypeOK
<1> QED BY <1>1, Invariance, PTL

(* What a directory counts as acknowledged is committed, until a backup is restored. *)
THEOREM AckedSafety == Spec => []AckedIsCommitted
<1>1. ASSUME Inv PROVE AckedIsCommitted
  <2> SUFFICES ASSUME restores = 0, NEW d \in Dirs
               PROVE  ack[d] <= Len(events) /\ Prefix(log[d], ack[d]) = Prefix(events, ack[d])
    BY DEF AckedIsCommitted
  <2> QED BY <1>1, InvParts DEF Acked, Stored
<1> QED BY <1>1, Invariance, PTL

(* The receiver holds a prefix of one directory's log. *)
THEOREM OneLogSafety == Spec => []OneLogCommitted
<1>1. Inv => OneLogCommitted
  BY DEF Inv, RelayInv
<1> QED BY <1>1, Invariance, PTL

(* One directory and one database never disagree for good. *)
THEOREM PermanentSafety == Spec => []NoPermanentFailure
<1>1. Inv => NoPermanentFailure
  BY DEF Inv, RelayInv
<1> QED BY <1>1, Invariance, PTL

(* A sender is never told that it went over its window. *)
THEOREM CreditSafety == Spec => []CreditRespected
<1>1. ASSUME Inv PROVE CreditRespected
  <2> SUFFICES ASSUME NEW c \in Conns, NEW i \in 1..Len(down[c]), down[c][i].kind = "error"
               PROVE  down[c][i].body # "RESOURCE_LIMIT_EXCEEDED"
    BY DEF CreditRespected
  <2>1. down[c][i] \in DownFrames
    BY <1>1, InvParts, ChannelFacts DEF Held
  <2>2. down[c][i].body \in Codes
    BY <2>1, DownBodies
  <2> QED BY <2>2 DEF Codes
<1> QED BY <1>1, Invariance, PTL

(* bind() decides as the conformance vectors prescribe. *)
THEOREM BindSafety == Spec => []BindIsReconnect
<1>1. ASSUME Inv PROVE BindIsReconnect
  <2> SUFFICES ASSUME client.pc = "hello", Receive(client.conn, "hello"),
                      NEW d, d = client.dir, NEW h, h = Head(down[client.conn]).body, NEW decision,
                      decision = Reconnect(Reconnection(d, h))
               PROVE  IF decision \in {"RESUME", "ADOPT_ACK"} THEN BindCode(d, h) = "ok"
                      ELSE BindCode(d, h) = decision
    BY DEF BindIsReconnect
  <2>1. d \in Dirs /\ h \in PositionBodies /\ Len(h.chain) = h.head
    BY <1>1, OwnPosition
  <2>2. /\ h.head \in Nat /\ h.chain \in Seq(Events)
        /\ log[d] \in Seq(Events) /\ Len(log[d]) \in Nat /\ ack[d] \in Nat
    BY <1>1, <2>1, InvParts, LenProperties DEF PositionBodies, Types
  <2>3. CASE h.head > Len(log[d])
    BY <2>2, <2>3 DEF Reconnect, Reconnection, BindCode, DurableTail
  <2>4. CASE h.head <= Len(log[d]) /\ h.head < ack[d]
    BY <2>2, <2>4 DEF Reconnect, Reconnection, BindCode, DurableTail
  <2>5. CASE h.head <= Len(log[d]) /\ ack[d] <= h.head
    <3>1. h.head \in 0..Len(log[d]) /\ ack[d] \in 0..h.head
      BY <2>2, <2>5
    <3>2. Prefix(Prefix(log[d], h.head), ack[d]) = Prefix(log[d], ack[d])
      BY <2>2, <3>1, PrefixOfPrefix
    <3>3. Prefix(h.chain, h.head) = h.chain
      BY <2>1, <2>2, SubSeqFull DEF Prefix
    <3>4. ~(h.head > DurableTail(d)) /\ ~(h.head < ack[d]) /\ ~(h.head + 1 < 1)
          /\ (h.head > ack[d] \/ h.head = ack[d])
      BY <2>2, <2>5 DEF DurableTail
    <3>5. CASE Prefix(log[d], h.head) = h.chain
      <4>1. BindCode(d, h) = "ok"
        BY <3>4, <3>5 DEF BindCode, SameHistory
      <4>2. decision \in {"RESUME", "ADOPT_ACK"}
        BY <3>2, <3>4, <3>5 DEF Reconnect, Reconnection
      <4> QED BY <4>1, <4>2
    <3>6. CASE Prefix(log[d], h.head) # h.chain
      <4>1. BindCode(d, h) = "SPLIT_LOG"
        BY <3>4, <3>6 DEF BindCode, SameHistory
      <4>2. CASE h.head > ack[d]
        <5>1. decision = "SPLIT_LOG"
          BY <3>4, <3>6, <4>2 DEF Reconnect, Reconnection
        <5> QED BY <4>1, <5>1
      <4>3. CASE h.head = ack[d]
        <5>1. Prefix(h.chain, ack[d]) # Prefix(log[d], ack[d])
          BY <3>3, <3>6, <4>3
        <5>2. h.head > 0
          <6>1. ASSUME h.head = 0 PROVE FALSE
            <7>1. h.chain = <<>> /\ Prefix(log[d], 0) = <<>>
              BY <2>1, <2>2, <6>1, EmptySeq DEF Prefix
            <7> QED BY <3>6, <6>1, <7>1
          <6> QED BY <2>2, <6>1
        <5>3. decision = "SPLIT_LOG"
          BY <3>4, <5>1, <5>2 DEF Reconnect, Reconnection
        <5> QED BY <4>1, <5>3
      <4> QED BY <3>4, <4>2, <4>3
    <3> QED BY <3>5, <3>6
  <2>6. \/ h.head > Len(log[d])
        \/ h.head <= Len(log[d]) /\ h.head < ack[d]
        \/ h.head <= Len(log[d]) /\ ack[d] <= h.head
    BY ONLY <2>2
  <2> QED BY <2>3, <2>4, <2>5, <2>6
<1> QED BY <1>1, Invariance, PTL

-------------------------------------------------------------------------------
(* Success. *)

(* A sync that fails does not end with "ok". *)
LEMMA FailureIsNotSuccess ==
  ASSUME NEW code, code # "ok", Fail(code) PROVE client'.result # "ok"
<1>1. NoClient(code).result = code /\ NoClient("RECOVERY_RETRY_EXHAUSTED").result # "ok"
  BY DEF NoClient
<1>2. [NoClient("pending") EXCEPT !.pc = "retry", !.dir = client.dir, !.left = client.left].result # "ok"
  BY DEF NoClient
<1> QED BY <1>1, <1>2 DEF Fail

(* Only Succeed ends a sync with success. *)
LEMMA OnlySucceed ==
  ASSUME Inv, Next, client.pc = "bye", client'.pc = "off", client'.result = "ok" PROVE Succeed
<1> USE InvParts
<1>1. client' # client
  OBVIOUS
<1>2. ~\E d \in Dirs, e \in Events : Admit(d, e)
  BY DEF Admit
<1>3. ~\E from, to \in Dirs : Copy(from, to)
  BY DEF Copy
<1>4. ~\E d \in Dirs, c \in Conns : Sync(d, c)
  BY DEF Sync
<1>5. ~(GetHello \/ SendBatch \/ GetAck \/ GetWindow \/ GetHeartbeat \/ \E c \in Conns : Retry(c))
  BY DEF GetHello, SendBatch, MaySend, GetAck, GetWindow, GetHeartbeat, Reading, Retry
<1>6. ~(SayGoodbye \/ GetTrailing)
  BY <1>1 DEF SayGoodbye, Drained, GetTrailing
<1>7. ~GetError
  <2> SUFFICES ASSUME GetError PROVE FALSE
    OBVIOUS
  <2>1. PICK f : f = Head(down[client.conn])
    OBVIOUS
  <2>2. f.kind = "error" /\ down[client.conn] # <<>> /\ Fail(f.body)
    BY <2>1 DEF GetError, Receive
  <2>3. f \in DownFrames
    BY <2>1, <2>2, ChannelFacts DEF ClientInv, Running
  <2>4. f.body \in Codes
    BY <2>2, <2>3, DownBodies
  <2>5. f.body # "ok"
    BY <2>4 DEF Codes
  <2> QED BY <2>2, <2>5, FailureIsNotSuccess
<1>8. ~NetworkError
  BY FailureIsNotSuccess DEF NetworkError
<1>9. ~ClientCrash
  BY DEF ClientCrash, NoClient
<1>10. ~(ServerCrash \/ \E c \in Conns : LinkDown(c) \/ LoseConnection(c) \/ ServeUnavailable(c) \/ ServeBatchLost(c))
  BY <1>1 DEF ServerCrash, LinkDown, LoseConnection, ServeUnavailable, ServeBatchLost, EndWith
<1>11. ~\E c \in Conns : ServeHello(c) \/ ServeHeartbeat(c) \/ ServeGoodbye(c) \/ ServeAbandoned(c) \/ BackendExit(c)
  BY <1>1 DEF ServeHello, ServeHeartbeat, ServeGoodbye, ServeAbandoned, BackendExit, EndWith
<1>12. ~\E c \in Conns : ServeBatch(c) \/ ServeBatchBroken(c)
  BY <1>1 DEF ServeBatch, ServeBatchBroken, EndWith, AckBatch
<1>13. ~\E n \in 0..Len(events) : Restore(n)
  BY <1>1 DEF Restore
<1> QED BY <1>2, <1>3, <1>4, <1>5, <1>6, <1>7, <1>8, <1>9, <1>10, <1>11, <1>12, <1>13
        DEF Next, ClientStep, Failure, ServerStep

(* A sync that reports success leaves every event of its directory stored. *)
THEOREM SuccessSafety == Spec => SuccessMeansStored
<1>1. ASSUME Inv, Next, client.pc = "bye", client'.pc = "off", client'.result = "ok"
      PROVE  /\ log[client.dir] = Prefix(events, DurableTail(client.dir))
             /\ ack[client.dir] = DurableTail(client.dir)
  <2> USE <1>1, InvParts
  <2>1. link[client.conn]
    BY OnlySucceed DEF Succeed
  <2>2. client.dir \in Dirs /\ ack[client.dir] = Len(log[client.dir])
    BY DEF ClientInv
  <2>3. Prefix(log[client.dir], ack[client.dir]) = Prefix(events, ack[client.dir])
    BY <2>1, <2>2 DEF Acked, Stored
  <2>4. Prefix(log[client.dir], Len(log[client.dir])) = log[client.dir]
    BY <2>2, SubSeqFull DEF Types, Prefix
  <2> QED BY <2>2, <2>3, <2>4 DEF DurableTail
<1>2. Inv /\ [Next]_vars =>
        [client.pc = "bye" /\ client'.pc = "off" /\ client'.result = "ok" =>
           /\ log[client.dir] = Prefix(events, DurableTail(client.dir))
           /\ ack[client.dir] = DurableTail(client.dir)]_vars
  BY <1>1
<1> QED BY <1>2, Invariance, PTL DEF Spec, SuccessMeansStored

-------------------------------------------------------------------------------
(* One directory, no restored backup: the relay implements Delivery. *)

(* A batch only adds to the table. *)
LEMMA CommitGrows ==
  ASSUME Inv, NEW c \in Conns, Arrived(c, "batch"), NEW b, b = Head(up[c]).body, Store!Commit(b)
  PROVE  Len(events) <= Len(events')
<1> USE InvParts
<1>1. b \in BatchBodies
  BY ChannelFacts, UpBodies DEF Arrived
<1>2. PICK s, k, n : s = b.events /\ k = Store!NewFrom(b) /\ n = Len(b.events)
  OBVIOUS
<1>3. /\ s \in Seq(Events) /\ n \in Nat /\ b.first \in Nat /\ row.head \in Nat /\ events \in Seq(Events)
      /\ \A i \in 1..n : s[i] \in Events
  BY <1>1, <1>2, StoreFacts, LenProperties DEF BatchBodies
<1>4. k \in Int /\ 1 <= k
  BY <1>2, <1>3 DEF Store!NewFrom
<1>5. SubSeq(s, k, n) \in Seq(Events)
  <2>1. n \in Int /\ \A i \in k..n : s[i] \in Events
    BY <1>3, <1>4
  <2> QED BY <1>4, <2>1, SubSeqProperties
<1>6. events' = events \o SubSeq(s, k, n)
  BY <1>2 DEF Store!Commit, Store!Inserted, Store!NewEvents
<1>7. Len(events') = Len(events) + Len(SubSeq(s, k, n))
  BY <1>3, <1>5, <1>6, ConcatProperties
<1>8. Len(events) \in Nat /\ Len(SubSeq(s, k, n)) \in Nat
  BY <1>3, <1>5, LenProperties
<1>9. \A m, p \in Nat : m <= m + p
  OBVIOUS
<1> QED BY ONLY <1>7, <1>8, <1>9

\* what a step does to the directories and the events
Unmoved == UNCHANGED <<log, ack, events>>
Commits == UNCHANGED <<log, ack>> /\ Len(events) <= Len(events')
Acks == /\ UNCHANGED <<log, events>> /\ \A d \in Dirs \ {client.dir} : ack'[d] = ack[d]
        /\ ack[client.dir] <= ack'[client.dir] /\ ack'[client.dir] <= Len(events)

LEMMA ServerMoves ==
  ASSUME Inv, NEW c \in Conns, ServerStep(c) \/ BackendExit(c) \/ ServeBatchLost(c) PROVE Commits
<1> USE InvParts
<1>0. Len(events) <= Len(events)
  BY StoreFacts
<1>1. CASE ServeHello(c) \/ ServeHeartbeat(c) \/ ServeGoodbye(c) \/ ServeAbandoned(c) \/ BackendExit(c)
           \/ ServeBatchBroken(c)
  <2>1. Unmoved
    BY <1>1 DEF Unmoved, ServeHello, ServeHeartbeat, ServeGoodbye, ServeAbandoned, BackendExit, ServeBatchBroken,
       EndWith, dirVars, dbVars, Store!OpenSession, Store!OpenRefused, Store!CloseSession, Store!BackendExit,
       Store!tables
  <2> QED BY <1>0, <2>1 DEF Unmoved, Commits
<1>2. CASE ServeBatch(c)
  <2>1. PICK b : b = Head(up[c]).body
    OBVIOUS
  <2>2. UNCHANGED <<log, ack>> /\ Arrived(c, "batch") /\ (events' = events \/ Store!Commit(b))
    BY <1>2, <2>1 DEF ServeBatch, Store!Ingest, Store!CloseSession, Store!tables, AckBatch, EndWith, dirVars
  <2> QED BY <1>0, <2>1, <2>2, CommitGrows DEF Commits
<1>3. CASE ServeBatchLost(c)
  <2>1. PICK b : b = Head(up[c]).body
    OBVIOUS
  <2>2. UNCHANGED <<log, ack>> /\ Arrived(c, "batch") /\ (events' = events \/ Store!Commit(b))
    BY <1>3, <2>1 DEF ServeBatchLost, Store!IngestLost, Store!tables, EndWith, dirVars
  <2> QED BY <1>0, <2>1, <2>2, CommitGrows DEF Commits
<1> QED BY <1>1, <1>2, <1>3 DEF ServerStep

LEMMA ClientMoves ==
  ASSUME Inv, restores = 0, ClientStep \/ (\E d \in Dirs, c \in Conns : Sync(d, c))
  PROVE  Unmoved \/ Acks
<1> USE InvParts
<1>1. CASE GetHello
  <2>1. PICK d, h : d = client.dir /\ h = Head(down[client.conn]).body
    OBVIOUS
  <2>2. /\ client.pc = "hello" /\ Receive(client.conn, "hello") /\ UNCHANGED <<log, events>>
        /\ IF BindCode(d, h) = "ok" THEN ack' = [ack EXCEPT ![d] = h.head] ELSE ack' = ack
    BY <1>1, <2>1 DEF GetHello, Adopted, dbVars
  <2>3. d \in Dirs /\ h \in PositionBodies /\ Stored(h.chain, h.head)
    BY <2>1, <2>2, OwnPosition
  <2>4. CASE BindCode(d, h) = "ok"
    <3>1. ack[d] \in Nat /\ h.head \in Nat /\ ~(h.head < ack[d]) /\ ack'[d] = h.head
      BY <2>2, <2>3, <2>4 DEF Types, PositionBodies, BindCode
    <3>2. ack[d] <= ack'[d] /\ ack'[d] <= Len(events)
      BY <2>3, <3>1 DEF Stored
    <3>3. \A x \in Dirs \ {d} : ack'[x] = ack[x]
      BY <2>2, <2>4 DEF Types
    <3> QED BY <2>1, <2>2, <3>2, <3>3 DEF Acks
  <2>5. CASE BindCode(d, h) # "ok"
    BY <2>2, <2>5 DEF Unmoved
  <2> QED BY <2>4, <2>5
<1>2. CASE GetAck
  <2>1. PICK c, d, f, a : c = client.conn /\ d = client.dir /\ f = Head(down[c]) /\ a = f.body
    OBVIOUS
  <2>2. /\ client.pc = "loop" /\ down[c] # <<>> /\ f.kind = "ack" /\ UNCHANGED <<log, events>>
        /\ IF AckCode(d, a) = "ok" THEN ack' = [ack EXCEPT ![d] = a.n] ELSE ack' = ack
    BY <1>2, <2>1 DEF GetAck, Reading, Receive, dbVars
  <2>3. c \in Conns /\ d \in Dirs
    BY <2>1, <2>2 DEF ClientInv, Running
  <2>4. f \in Held(down[c])
    BY <2>2, <2>1, <2>3, ChannelFacts
  <2>5. Stored(a.chain, a.n)
    BY <2>1, <2>2, <2>3, <2>4 DEF Truth
  <2>6. CASE AckCode(d, a) = "ok"
    <3>1. ack[d] <= a.n /\ ack'[d] = a.n /\ \A x \in Dirs \ {d} : ack'[x] = ack[x]
      BY <2>2, <2>3, <2>6 DEF AckCode, Types
    <3> QED BY <2>1, <2>2, <2>5, <3>1 DEF Acks, Stored
  <2>7. CASE AckCode(d, a) # "ok"
    BY <2>2, <2>7 DEF Unmoved
  <2> QED BY <2>6, <2>7
<1>3. CASE SendBatch \/ GetWindow \/ GetHeartbeat \/ GetError \/ SayGoodbye \/ GetTrailing \/ Succeed
  BY <1>3 DEF SendBatch, GetWindow, GetHeartbeat, GetError, SayGoodbye, GetTrailing, Succeed, dirVars, dbVars, Unmoved
<1>4. CASE (\E c \in Conns : Retry(c)) \/ (\E d \in Dirs, c \in Conns : Sync(d, c))
  BY <1>4 DEF Retry, Sync, Connect, dirVars, dbVars, Unmoved
<1> QED BY <1>1, <1>2, <1>3, <1>4 DEF ClientStep

LEMMA FailureMoves ==
  ASSUME Inv, Failure PROVE Commits
<1>1. CASE NetworkError \/ ClientCrash \/ ServerCrash \/ \E c \in Conns : LinkDown(c) \/ LoseConnection(c) \/ ServeUnavailable(c)
  <2>1. Unmoved
    BY <1>1 DEF Unmoved, NetworkError, ClientCrash, ServerCrash, LinkDown, LoseConnection, ServeUnavailable,
       Store!LoseConnection, Store!tables, dirVars, dbVars
  <2> QED BY <2>1, InvParts, StoreFacts DEF Unmoved, Commits
<1>2. CASE \E c \in Conns : ServeBatchLost(c)
  BY <1>2, ServerMoves
<1> QED BY <1>1, <1>2 DEF Failure

(* The relay of one directory whose receiver restores no backup keeps Delivery's promise. *)
THEOREM RelayImplementsDelivery ==
  ASSUME Dirs = {Original}, MaxRestores = 0 PROVE Spec => ImplementsDelivery
<1>1. Init => Promise!Init
  BY DEF Init, Promise!Init
<1>2. ASSUME Inv, [Next]_vars PROVE [Promise!Next]_(Promise!vars)
  <2> USE <1>2, InvParts
  <2> DEFINE l == log[Original]
             a == ack[Original]
  <2>1. /\ log \in [Dirs -> Seq(Events)] /\ l \in Seq(Events) /\ Len(l) \in Nat /\ a \in Nat
        /\ events \in Seq(Events) /\ Len(events) \in Nat /\ restores = 0
    <3>1. restores \in 0..MaxRestores
      BY DEF Types
    <3> QED BY <3>1, LenProperties, StoreFacts DEF Types
  <2>2. Len(events) <= Len(l) /\ events = Prefix(l, Len(events))
    BY DEF OneLogCommitted, DurableTail
  <2>3. Inv'
    BY Step
  <2>4. /\ Len(events') <= Len(l') /\ events' = Prefix(l', Len(events')) /\ Len(events') \in Nat
        /\ Types' /\ DirInv'
    <3>1. OneLogCommitted' /\ StoreInv' /\ Types' /\ DirInv'
      BY <2>3 DEF Inv, RelayInv
    <3> QED BY <3>1, StoreFactsNext DEF OneLogCommitted, DurableTail
  <2>5. ASSUME Commits PROVE [Promise!Next]_(Promise!vars)
    <3>1. l' = l /\ a' = a /\ Len(events) <= Len(events')
      BY <2>5 DEF Commits
    <3>2. CASE Len(events') = Len(events)
      <4>1. events' = events
        BY <2>2, <2>4, <3>1, <3>2
      <4> QED BY <3>1, <4>1 DEF Promise!vars
    <3>3. CASE Len(events) < Len(events')
      <4>1. Len(events') \in (Len(events) + 1)..Len(l)
        BY <2>1, <2>4, <3>1, <3>3
      <4>2. events' = SubSeq(l, 1, Len(events'))
        BY <2>4, <3>1 DEF Prefix
      <4>3. Promise!Store
        BY <3>1, <4>1, <4>2 DEF Promise!Store
      <4> QED BY <4>3 DEF Promise!Next
    <3> QED BY <2>1, <2>4, <3>1, <3>2, <3>3
  <2>6. ASSUME Acks PROVE [Promise!Next]_(Promise!vars)
    <3>1. l' = l /\ events' = events
      BY <2>6 DEF Acks
    <3>2. CASE a' = a
      BY <3>1, <3>2 DEF Promise!vars
    <3>3. CASE a' # a
      <4>1. a <= a' /\ a' <= Len(events)
        BY <2>6, <3>3 DEF Acks
      <4>2. a' \in Nat
        BY <2>4 DEF Types
      <4>3. a' \in (a + 1)..Len(events)
        BY <2>1, <3>3, <4>1, <4>2
      <4>4. Promise!Acknowledge
        BY <3>1, <4>3 DEF Promise!Acknowledge
      <4> QED BY <4>4 DEF Promise!Next
    <3> QED BY <3>2, <3>3
  <2>7. ASSUME Unmoved PROVE [Promise!Next]_(Promise!vars)
    BY <2>7 DEF Unmoved, Promise!vars
  <2>8. CASE \E d \in Dirs, e \in Events : Admit(d, e)
    <3>1. PICK e \in Events : Admit(Original, e)
      BY <2>8
    <3>2. l' = Append(l, e) /\ events' = events /\ a' = a
      BY <2>1, <3>1 DEF Admit, dbVars
    <3>3. Promise!Admit
      BY <3>2 DEF Promise!Admit
    <3> QED BY <3>3 DEF Promise!Next
  <2>9. ~\E from, to \in Dirs : Copy(from, to)
    BY DEF Copy
  <2>10. CASE ClientStep \/ (\E d \in Dirs, c \in Conns : Sync(d, c))
    BY <2>1, <2>6, <2>7, <2>10, ClientMoves
  <2>11. CASE Failure
    BY <2>5, <2>11, FailureMoves
  <2>12. CASE \E c \in Conns : ServerStep(c) \/ BackendExit(c)
    BY <2>5, <2>12, ServerMoves
  <2>13. ~\E n \in 0..Len(events) : Restore(n)
    BY <2>1 DEF Restore
  <2>14. CASE UNCHANGED vars
    BY <2>7, <2>14 DEF vars, dirVars, dbVars, Unmoved
  <2> QED BY <2>8, <2>9, <2>10, <2>11, <2>12, <2>13, <2>14 DEF Next
<1> QED BY <1>1, <1>2, Invariance, PTL DEF Spec, ImplementsDelivery, Promise!Spec
===============================================================================
