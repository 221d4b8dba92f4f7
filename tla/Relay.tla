-------------------------------- MODULE Relay --------------------------------
(***************************************************************************)
(* Sender, transport and receiver together: drain() and Receiver.Stream of *)
(* coredrp_ref/transport.py, the retries of recovery.sync, the store of    *)
(* ReceiverStore, and sender directories at the level of DurableLog (which *)
(* SenderWal implements): an admission or an acknowledgement is one step   *)
(* here because no failure of the directory can split it.                  *)
(*                                                                         *)
(* A connection is a pair of FIFO queues and one database session.  When   *)
(* its link is down each side may still read what has arrived, and learns  *)
(* of the loss at any later time: a batch may be committed long after the  *)
(* client that sent it has gone.                                           *)
(***************************************************************************)
EXTENDS Integers, Sequences

CONSTANTS
  Events,         \* events that may be admitted: [id, time, through]
  Dirs,           \* WAL directories of the sender, the original and copies
  Conns,          \* connections, each reused when it is over
  Original,       \* the directory provisioned first
  None,
  Paused,         \* the receiver gives credit batch by batch
  MaxBatch,       \* MAX_BATCH, in events
  SmallWindow,    \* events whose charge fits 100 bytes
  Attempts,       \* attempts of one recovery.sync
  MaxOpens,       \* bound: syncs, but for those of one sender with work to do
  MaxFaults,      \* bound: lost links, connections, processes, timeouts
  MaxRestores     \* bound: restores of an old database backup

ASSUME RelayAssumption ==
  /\ \A e \in Events : e.time \in Nat /\ e.through \in Nat /\ e.through <= e.time
  /\ \A e, f \in Events : e.id = f.id => e = f
  /\ Original \in Dirs /\ None \notin Dirs \union Conns \union {"epoch", "receiver"}
  /\ Paused \in BOOLEAN /\ MaxBatch \in Nat \ {0} /\ SmallWindow \in 1..MaxBatch
  /\ Attempts \in Nat \ {0} /\ MaxOpens \in Nat
  /\ MaxFaults \in Nat /\ MaxRestores \in Nat

VARIABLES
  log, ack, bound,                     \* per directory
  client,                              \* the sync in progress
  up, down, link, handler, window,     \* per connection
  identity, admin, row, events, effects, session, lock,   \* the database
  faults, restores

Store == INSTANCE ReceiverStore WITH
  Sessions <- Conns, Epochs <- {"epoch"}, Identities <- {"receiver"},
  AdminIds <- {}, Logs <- Seq(Events)

dirVars == <<log, ack, bound>>
connVars == <<up, down, link, handler, window>>
dbVars == <<identity, admin, row, events, effects, session, lock>>
vars == <<dirVars, client, connVars, dbVars, faults, restores>>

Prefix(s, n) == SubSeq(s, 1, n)
Lower(m, n) == IF m < n THEN m ELSE n

NoClient(result) ==
  [pc |-> "off", conn |-> None, dir |-> None, credit |-> 0, inflight |-> 0,
   waiting |-> FALSE, left |-> 0, result |-> result]

Init ==
  /\ log = [d \in Dirs |-> <<>>] /\ ack = [d \in Dirs |-> 0]
  /\ bound = [d \in Dirs |-> FALSE]
  /\ client = NoClient("ok")
  /\ up = [c \in Conns |-> <<>>] /\ down = [c \in Conns |-> <<>>]
  /\ link = [c \in Conns |-> FALSE] /\ handler = [c \in Conns |-> "done"]
  /\ window = [c \in Conns |-> 0]
  /\ identity = "receiver" /\ admin = {}
  /\ row = [Store!NoRow EXCEPT !.epoch = "epoch"]
  /\ events = <<>> /\ effects = <<>>
  /\ session = [c \in Conns |-> Store!Free] /\ lock = None
  /\ faults = 0 /\ restores = 0

Fault == faults < MaxFaults /\ faults' = faults + 1

-------------------------------------------------------------------------------
(* The sender's directories, while no process has them open. *)

Used == UNION {{log[d][i] : i \in 1..Len(log[d])} : d \in Dirs}

InOrder(l, e) == l # <<>> => LET f == l[Len(l)] IN
  e.time >= f.time /\ e.time > f.through /\ e.through >= f.through

Admit(d, e) ==
  /\ client.pc = "off" /\ bound[d] /\ e \notin Used /\ InOrder(log[d], e)
  /\ log' = [log EXCEPT ![d] = Append(log[d], e)]
  /\ UNCHANGED <<ack, bound, client, connVars, dbVars, faults, restores>>

\* the directory is copied, and the copy goes its own way
Copy(from, to) ==
  /\ client.pc = "off" /\ bound[from] /\ ~bound[to] /\ to # Original
  /\ log' = [log EXCEPT ![to] = log[from]]
  /\ ack' = [ack EXCEPT ![to] = ack[from]]
  /\ bound' = [bound EXCEPT ![to] = TRUE]
  /\ UNCHANGED <<client, connVars, dbVars, faults, restores>>

-------------------------------------------------------------------------------
(* Client: recovery.sync and drain. *)

DurableTail(d) == Len(log[d])
Frame(kind, body) == [kind |-> kind, body |-> body]

ConnFree(c) == ~link[c] /\ handler[c] = "done" /\ session[c].state = "new"

\* one attempt: open the log, connect, say hello
Connect(d, c, left) ==
  /\ ConnFree(c)
  /\ client' = [NoClient("pending") EXCEPT !.pc = "hello", !.conn = c, !.dir = d,
                                           !.left = left]
  /\ up' = [up EXCEPT ![c] =
       <<Frame("hello", [epoch |-> "epoch", tail |-> DurableTail(d), ack |-> ack[d],
                         ackHash |-> Prefix(log[d], ack[d])])>>]
  /\ down' = [down EXCEPT ![c] = <<>>]
  /\ link' = [link EXCEPT ![c] = TRUE]
  /\ handler' = [handler EXCEPT ![c] = "new"]
  /\ window' = [window EXCEPT ![c] = 0]
  /\ UNCHANGED <<dirVars, dbVars, faults, restores>>

\* Bounded by MaxOpens unless there is work for the only sender there is: a sync
\* of a diverged copy, or with a restored database, may fail again and again.
OneSender == restores = 0 /\ \A d \in Dirs \ {Original} : ~bound[d]
HasWork(d) == ~bound[d] \/ ack[d] < DurableTail(d)

Sync(d, c) ==
  /\ client.pc = "off" /\ (d = Original \/ bound[d])
  /\ (OneSender /\ HasWork(d)) \/ row.owner < MaxOpens
  /\ Connect(d, c, Attempts - 1)

Retry(c) == client.pc = "retry" /\ Connect(client.dir, c, client.left - 1)

\* mutant: the busy stream is taken for a permanent refusal
NotRetryingBusy == {"RECEIVER_DURABILITY_UNAVAILABLE", "NETWORK"}
Retryable == {"EVENT_VALIDATOR_UNAVAILABLE", "RECEIVER_DURABILITY_UNAVAILABLE",
              "CLOCK_CONTRACT_VIOLATION", "RESOURCE_LIMIT_EXCEEDED",
              "STREAM_ALREADY_ACTIVE", "NETWORK"}

\* the attempt is over: the log is closed and the connection with it
Hangup == link' = [link EXCEPT ![client.conn] = FALSE]
NeverExhausted == FALSE             \* mutant: attempts are not counted
Exhausted == client.left = 0
Fail(code) ==
  /\ Hangup
  /\ client' = IF code \notin Retryable THEN NoClient(code)
               ELSE IF Exhausted THEN NoClient("RECOVERY_RETRY_EXHAUSTED")
               ELSE [NoClient("pending") EXCEPT !.pc = "retry", !.dir = client.dir,
                                                !.left = client.left]

Send(c, frames) == up' = [up EXCEPT ![c] = @ \o frames]
Receive(c, kind) == down[c] # <<>> /\ Head(down[c]).kind = kind
Taken(c) == down' = [down EXCEPT ![c] = SubSeq(@, 2, Len(@))]

SameLength(d, h) == Len(Prefix(log[d], h.head)) = Len(h.chain)   \* mutant
SameHistory(d, h) == Prefix(log[d], h.head) = h.chain

BindCode(d, h) ==
  IF h.head > DurableTail(d) THEN "SENDER_ROLLBACK"
  ELSE IF h.head < ack[d] THEN "RECEIVER_ROLLBACK"
  ELSE IF ~SameHistory(d, h) THEN "SPLIT_LOG"
  ELSE "ok"

\* The decision table of the conformance vectors, for C committed at the receiver, R
\* remembered, T the tail and E the earliest record that is retained.
Reconnect(x) ==
  IF ~x.sameReceiver THEN "RECEIVER_ID_CHANGED"
  ELSE IF ~x.sameIncarnation THEN "RECEIVER_INCARNATION_CHANGED"
  ELSE IF ~x.approvedEpoch THEN "EPOCH_NOT_APPROVED"
  ELSE IF x.C > x.T THEN "SENDER_ROLLBACK"
  ELSE IF x.C < x.R THEN "RECEIVER_ROLLBACK"
  ELSE IF x.C = 0 /\ x.R = 0 /\ ~x.genesisMatch THEN "SPLIT_LOG"
  ELSE IF x.C > 0 /\ ~x.hashMatch THEN "SPLIT_LOG"
  ELSE IF x.C + 1 < x.E THEN "RECOVERY_GAP"
  ELSE IF x.C > x.R THEN IF x.verifiable THEN "ADOPT_ACK" ELSE "SPLIT_LOG"
  ELSE "RESUME"

\* Its inputs when d gets the receiver's hello h.  There is one receiver, with one
\* incarnation and one epoch, whose genesis hash both ends know; nothing is pruned:
\* a ClientHello always says that its earliest record is 1.
Reconnection(d, h) ==
  [C |-> h.head, R |-> ack[d], T |-> DurableTail(d), E |-> 1,
   sameReceiver |-> TRUE, sameIncarnation |-> TRUE, approvedEpoch |-> TRUE,
   genesisMatch |-> TRUE,
   hashMatch |-> Prefix(h.chain, ack[d]) = Prefix(log[d], ack[d]),
   verifiable |-> h.chain = Prefix(log[d], h.head)]

AdoptedTail(d, h) == DurableTail(d)   \* mutant: the wrong field of the hello
Adopted(d, h) == h.head

\* bind() adopts the committed prefix; the heartbeat is the control exchange
\* that comes before data.
GetHello ==
  LET c == client.conn  d == client.dir  h == Head(down[c]).body IN
  /\ client.pc = "hello" /\ Receive(c, "hello") /\ Taken(c)
  /\ IF BindCode(d, h) = "ok"
       THEN /\ bound' = [bound EXCEPT ![d] = TRUE]
            /\ ack' = [ack EXCEPT ![d] = Adopted(d, h)]
            /\ client' = [client EXCEPT !.pc = "loop", !.credit = h.window,
                                        !.waiting = TRUE]
            /\ Send(c, <<Frame("heartbeat", DurableTail(d))>>)
            /\ UNCHANGED link
       ELSE Fail(BindCode(d, h)) /\ UNCHANGED <<ack, bound, up>>
  /\ UNCHANGED <<log, handler, window, dbVars, faults, restores>>

MaySend == /\ client.pc = "loop" /\ ~client.waiting /\ client.inflight = 0
           /\ client.credit > 0 /\ ack[client.dir] < DurableTail(client.dir)
\* mutant: what is in flight counts as acknowledged
DrainedInFlight == /\ client.pc = "loop" /\ ~client.waiting
                   /\ \/ ack[client.dir] >= DurableTail(client.dir)
                      \/ client.inflight >= DurableTail(client.dir)
Drained == client.pc = "loop" /\ ~client.waiting /\ ack[client.dir] >= DurableTail(client.dir)

SendBatch ==
  LET d == client.dir
      first == ack[d] + 1
      last == Lower(DurableTail(d), ack[d] + Lower(client.credit, MaxBatch)) IN
  /\ MaySend
  /\ Send(client.conn, <<Frame("batch", [first |-> first,
       events |-> SubSeq(log[d], first, last), terminal |-> Prefix(log[d], last)])>>)
  /\ client' = [client EXCEPT !.inflight = last]
  /\ UNCHANGED <<dirVars, down, link, handler, window, dbVars, faults, restores>>

Reading == client.pc = "loop" /\ ~MaySend /\ ~Drained

AckCode(d, a) ==
  IF client.inflight = 0 \/ a.n # client.inflight THEN "MALFORMED_FRAME"
  ELSE IF ~(ack[d] <= a.n /\ a.n <= DurableTail(d)) THEN "SENDER_ROLLBACK"
  ELSE IF Prefix(log[d], a.n) # a.chain THEN "SPLIT_LOG"
  ELSE "ok"

GetAck ==
  LET c == client.conn  d == client.dir  a == Head(down[c]).body IN
  /\ Reading /\ Receive(c, "ack") /\ Taken(c)
  /\ IF AckCode(d, a) = "ok"
       THEN /\ ack' = [ack EXCEPT ![d] = a.n]
            /\ client' = [client EXCEPT !.inflight = 0]
            /\ UNCHANGED link
       ELSE Fail(AckCode(d, a)) /\ UNCHANGED ack
  /\ UNCHANGED <<log, bound, up, handler, window, dbVars, faults, restores>>

GetWindow ==
  LET c == client.conn  w == Head(down[c]).body IN
  /\ Reading /\ Receive(c, "window") /\ Taken(c)
  /\ client' = [client EXCEPT !.credit = w]
  /\ UNCHANGED <<dirVars, up, link, handler, window, dbVars, faults, restores>>

GetHeartbeat ==
  /\ Reading /\ Receive(client.conn, "heartbeat") /\ Taken(client.conn)
  /\ client' = [client EXCEPT !.waiting = FALSE]
  /\ UNCHANGED <<dirVars, up, link, handler, window, dbVars, faults, restores>>

GetError ==
  LET c == client.conn IN
  /\ client.pc = "hello" \/ Reading \/ client.pc = "bye"
  /\ Receive(c, "error") /\ Taken(c) /\ Fail(Head(down[c]).body)
  /\ UNCHANGED <<dirVars, up, handler, window, dbVars, faults, restores>>

SayGoodbye ==
  /\ Drained
  /\ client' = [client EXCEPT !.pc = "bye"]
  /\ Send(client.conn, <<Frame("goodbye", 0)>>)
  /\ UNCHANGED <<dirVars, down, link, handler, window, dbVars, faults, restores>>

\* control frames before the trailers are read and ignored
GetTrailing ==
  LET c == client.conn IN
  /\ client.pc = "bye" /\ down[c] # <<>> /\ ~Receive(c, "error") /\ Taken(c)
  /\ UNCHANGED <<dirVars, client, up, link, handler, window, dbVars, faults, restores>>

Succeed ==
  LET c == client.conn IN
  /\ client.pc = "bye" /\ link[c] /\ down[c] = <<>> /\ handler[c] = "done"
  /\ Hangup /\ client' = NoClient("ok")
  /\ UNCHANGED <<dirVars, up, down, handler, window, dbVars, faults, restores>>

Running == client.pc \notin {"off", "retry"}

\* the link is found lost, or the deadline of the stream passes
NetworkError ==
  /\ Running
  /\ IF link[client.conn] THEN Fault ELSE UNCHANGED faults
  /\ Fail("NETWORK")
  /\ UNCHANGED <<dirVars, up, down, handler, window, dbVars, restores>>

ClientCrash ==
  /\ client.pc # "off" /\ Fault
  /\ client' = NoClient("crashed")
  /\ link' = [c \in Conns |-> link[c] /\ c # client.conn]
  /\ UNCHANGED <<dirVars, up, down, handler, window, dbVars, restores>>

-------------------------------------------------------------------------------
(* Server: Receiver.Stream. *)

Arrived(c, kind) == up[c] # <<>> /\ Head(up[c]).kind = kind
Consume(c) == up' = [up EXCEPT ![c] = SubSeq(@, 2, Len(@))]
Reply(c, frames) == down' = [down EXCEPT ![c] = @ \o frames]
Error(code) == <<Frame("error", code)>>
Update(n) == IF Paused THEN <<Frame("window", n)>> ELSE <<>>
Streaming(c) == handler[c] = "open"
HandlerDone(c) == handler' = [handler EXCEPT ![c] = "done"]

ServeHello(c) ==
  LET h == Head(up[c]).body IN
  /\ handler[c] = "new" /\ Arrived(c, "hello") /\ Consume(c)
  /\ \/ /\ Store!OpenSession(c, h)
        /\ handler' = [handler EXCEPT ![c] = "open"]
        /\ window' = [window EXCEPT ![c] = IF Paused THEN 0 ELSE MaxBatch]
        /\ Reply(c, <<Frame("hello",
             [head |-> row.head, chain |-> row.chain,
              window |-> IF Paused THEN 0 ELSE MaxBatch])>> \o Update(0))
     \/ /\ Store!OpenRefused(c, h)
        /\ HandlerDone(c) /\ Reply(c, Error(Store!OpenCode(h))) /\ UNCHANGED window
  /\ UNCHANGED <<dirVars, client, link, restores>>

\* the database cannot be reached
ServeUnavailable(c) ==
  /\ handler[c] = "new" /\ Arrived(c, "hello") /\ Consume(c) /\ Fault
  /\ HandlerDone(c) /\ Reply(c, Error("RECEIVER_DURABILITY_UNAVAILABLE"))
  /\ UNCHANGED <<dirVars, client, link, window, dbVars, restores>>

\* In paused mode the credit is withdrawn before the ack is sent, so that the
\* ack cannot set off a batch under credit that is no longer there.
NoNewCredit(w, a) == Update(0) \o <<Frame("ack", a)>>   \* mutant
AckFirst(w, a) == <<Frame("ack", a)>> \o Update(0) \o Update(w)   \* mutant
AfterIngest(w, a) == Update(0) \o <<Frame("ack", a)>> \o Update(w)

\* an error frame ends the stream, and the session with it
EndWith(c, frames) ==
  /\ HandlerDone(c) /\ Reply(c, frames)
  /\ UNCHANGED <<dirVars, client, link, window, restores>>

AckBatch(c) ==
  LET n == row'.head
      w == IF Paused THEN Lower(1 + (n % 7), SmallWindow) ELSE window[c] IN
  /\ window' = [window EXCEPT ![c] = w]
  /\ Reply(c, AfterIngest(w, [n |-> n, chain |-> row'.chain]))
  /\ UNCHANGED <<dirVars, client, link, handler, restores>>

\* That a batch of this sender is never refused is what CreditRespected and
\* NoPermanentFailure come to; a mutation of the code takes the other branch.
ServeBatch(c) ==
  LET b == Head(up[c]).body
      code == Store!IngestCode(c, b, window[c]) IN
  /\ Streaming(c) /\ Arrived(c, "batch") /\ Consume(c)
  /\ session[c].state = "open"
  /\ IF code = "ok" THEN Store!Ingest(c, b, window[c]) /\ AckBatch(c)
     ELSE Store!CloseSession(c) /\ EndWith(c, Error(code))

\* psycopg.Error: the transaction may have committed all the same
ServeBatchLost(c) ==
  LET b == Head(up[c]).body IN
  /\ Streaming(c) /\ Arrived(c, "batch") /\ Consume(c)
  /\ Store!IngestLost(c, b, window[c])
  /\ EndWith(c, Error("RECEIVER_DURABILITY_UNAVAILABLE"))

ServeBatchBroken(c) ==
  /\ Streaming(c) /\ Arrived(c, "batch") /\ Consume(c)
  /\ session[c].state = "broken" /\ Store!CloseSession(c)
  /\ EndWith(c, Error("RECEIVER_DURABILITY_UNAVAILABLE"))

ServeHeartbeat(c) ==
  /\ Streaming(c) /\ Arrived(c, "heartbeat") /\ Consume(c)
  /\ window' = [window EXCEPT ![c] = MaxBatch]
  /\ Reply(c, <<Frame("heartbeat", 0)>> \o Update(MaxBatch))
  /\ UNCHANGED <<dirVars, client, link, handler, dbVars, faults, restores>>

ServeGoodbye(c) ==
  /\ Streaming(c) /\ Arrived(c, "goodbye") /\ Consume(c)
  /\ Store!CloseSession(c)
  /\ EndWith(c, <<Frame("goodbye", 0)>>)

\* the stream ends or is cancelled under the handler
ServeAbandoned(c) ==
  /\ handler[c] # "done" /\ ~link[c]
  /\ IF handler[c] = "open" THEN Store!CloseSession(c) ELSE UNCHANGED <<dbVars, faults>>
  /\ HandlerDone(c)
  /\ UNCHANGED <<dirVars, client, up, down, link, window, restores>>

LinkDown(c) ==
  /\ link[c] /\ Fault
  /\ link' = [link EXCEPT ![c] = FALSE]
  /\ UNCHANGED <<dirVars, client, up, down, handler, window, dbVars, restores>>

LoseConnection(c) ==
  /\ Store!LoseConnection(c)
  /\ UNCHANGED <<dirVars, client, connVars, restores>>

\* the session of a stream that has ended is closed and its backend exits
BackendExit(c) ==
  /\ handler[c] = "done"
  /\ \/ Store!BackendExit(c)
     \/ session[c].state = "broken" /\ Store!CloseSession(c)
  /\ UNCHANGED <<dirVars, client, connVars, restores>>

\* the receiver's process dies; what was queued for the clients may be lost
ServerCrash ==
  /\ Fault
  /\ link' = [c \in Conns |-> FALSE] /\ handler' = [c \in Conns |-> "done"]
  /\ session' = [c \in Conns |-> IF session[c].state \in {"open", "broken"}
                                   THEN [session[c] EXCEPT !.state = "closing"]
                                   ELSE session[c]]
  /\ UNCHANGED <<dirVars, client, up, down, window,
                 identity, admin, row, events, effects, lock, restores>>

\* The database is restored from a backup taken when it held n events.
Restore(n) ==
  /\ restores < MaxRestores /\ restores' = restores + 1
  /\ events' = Prefix(events, n) /\ effects' = Prefix(effects, n)
  /\ row' = [row EXCEPT !.head = n, !.chain = Prefix(events, n),
                        !.last = IF n = 0 THEN 0 ELSE events[n].time,
                        !.floor = IF n = 0 THEN -1 ELSE events[n].through]
  /\ link' = [c \in Conns |-> FALSE] /\ handler' = [c \in Conns |-> "done"]
  /\ session' = [c \in Conns |-> Store!Free] /\ lock' = None
  /\ UNCHANGED <<dirVars, client, up, down, window, identity, admin, faults>>

-------------------------------------------------------------------------------
ClientStep == GetHello \/ SendBatch \/ GetAck \/ GetWindow \/ GetHeartbeat
              \/ GetError \/ SayGoodbye \/ GetTrailing \/ Succeed
              \/ \E c \in Conns : Retry(c)
ServerStep(c) == ServeHello(c) \/ ServeBatch(c) \/ ServeBatchBroken(c)
                 \/ ServeHeartbeat(c) \/ ServeGoodbye(c) \/ ServeAbandoned(c)
Failure == \/ NetworkError \/ ClientCrash \/ ServerCrash
           \/ \E c \in Conns : LinkDown(c) \/ LoseConnection(c)
                               \/ ServeUnavailable(c) \/ ServeBatchLost(c)

Next == \/ \E d \in Dirs, e \in Events : Admit(d, e)
        \/ \E from, to \in Dirs : Copy(from, to)
        \/ \E d \in Dirs, c \in Conns : Sync(d, c)
        \/ ClientStep \/ Failure
        \/ \E c \in Conns : ServerStep(c) \/ BackendExit(c)
        \/ \E n \in 0..Len(events) : Restore(n)

Spec == Init /\ [][Next]_vars

\* Code that has input runs on, a client whose link is down finds out, backends
\* of closed sessions end, and a sync is started as long as there is work.
Fairness ==
  /\ WF_vars(ClientStep)
  /\ WF_vars(NetworkError /\ ~link[client.conn])
  /\ \A c \in Conns : WF_vars(ServerStep(c)) /\ WF_vars(BackendExit(c))
  /\ \A d \in Dirs : WF_vars(\E c \in Conns : Sync(d, c))
FairSpec == Spec /\ Fairness
-------------------------------------------------------------------------------
(* Properties. *)

Results == {"ok", "pending", "crashed", "RECOVERY_RETRY_EXHAUSTED", "MALFORMED_FRAME",
            "SENDER_ROLLBACK", "RECEIVER_ROLLBACK", "SPLIT_LOG", "EPOCH_NOT_APPROVED",
            "SEQUENCE_GAP", "CHAIN_MISMATCH", "EVENT_IDENTITY_MISMATCH",
            "CHECKPOINT_BACKDATED_EVENT"}

Kinds(queue) == {queue[i].kind : i \in 1..Len(queue)}

\* The variables have the types the module gives them.
TypeOK ==
  /\ log \in [Dirs -> Seq(Events)] /\ ack \in [Dirs -> Nat] /\ bound \in [Dirs -> BOOLEAN]
  /\ client \in [pc : {"off", "hello", "loop", "bye", "retry"}, conn : Conns \union {None},
                 dir : Dirs \union {None}, credit : 0..MaxBatch, inflight : Nat,
                 waiting : BOOLEAN, left : 0..(Attempts - 1), result : Results]
  /\ link \in [Conns -> BOOLEAN] /\ handler \in [Conns -> {"new", "open", "done"}]
  /\ window \in [Conns -> 0..MaxBatch]
  /\ \A c \in Conns : Kinds(up[c]) \subseteq {"hello", "heartbeat", "batch", "goodbye"}
  /\ \A c \in Conns : Kinds(down[c]) \subseteq
       {"hello", "heartbeat", "ack", "window", "error", "goodbye"}
  /\ faults \in 0..MaxFaults /\ restores \in 0..MaxRestores
  /\ Store!TypeOK

\* As long as no backup is restored, what a directory counts as acknowledged is
\* committed, event for event, in the receiver: losing the link, the ack or
\* either process between commit and acknowledgement does not part the two.
AckedIsCommitted ==
  restores = 0 => \A d \in Dirs :
    ack[d] <= Len(events) /\ Prefix(log[d], ack[d]) = Prefix(events, ack[d])

\* The receiver holds a prefix of one directory's log, whatever copies of the
\* directory went their own way and whatever backup was restored.
OneLogCommitted ==
  \E d \in Dirs : Len(events) <= DurableTail(d) /\ events = Prefix(log[d], Len(events))

\* bind() decides as the vectors prescribe, on every hello the receiver sends: it goes on
\* exactly when they resume or adopt, and refuses for their reason.  hash_match is about
\* what the sender remembers, receiver_hash_verifiable about what the receiver holds.
BindIsReconnect ==
  LET c == client.conn  d == client.dir IN
  client.pc = "hello" /\ Receive(c, "hello") =>
    LET h == Head(down[c]).body
        decision == Reconnect(Reconnection(d, h))
    IN IF decision \in {"RESUME", "ADOPT_ACK"} THEN BindCode(d, h) = "ok"
       ELSE BindCode(d, h) = decision

\* One directory and one database never disagree for good: a sync ends well, is
\* interrupted, or gives up with a code the operator may answer by trying again;
\* no loss, retry or late commit looks like a rollback or a split log.
NoPermanentFailure ==
  OneSender => client.result \in {"ok", "pending", "crashed", "RECOVERY_RETRY_EXHAUSTED"}

\* A sender that keeps to the windows it has been given is never told that it
\* went over them, though window, ack and batch cross on the wire.
CreditRespected ==
  \A c \in Conns : \A i \in 1..Len(down[c]) :
    ~(down[c][i].kind = "error" /\ down[c][i].body = "RESOURCE_LIMIT_EXCEEDED")

\* A sync that reports success leaves every event of its directory stored.
SuccessMeansStored ==
  [][client.pc = "bye" /\ client'.pc = "off" /\ client'.result = "ok" =>
       /\ log[client.dir] = Prefix(events, DurableTail(client.dir))
       /\ ack[client.dir] = DurableTail(client.dir)]_vars

\* Acknowledgement and storage deliver one directory's log once and in order.
Promise == INSTANCE Delivery WITH
  log <- log[Original], stored <- events, acked <- ack[Original]
ImplementsDelivery == Promise!Spec

\* Once failures stop, everything one directory has admitted is acknowledged.
EventuallyDrained == []<>(ack[Original] = DurableTail(Original))
===============================================================================
