# CoreDRP reference lab: TLA+ models, checks and proofs

CoreDRP relays payout-relevant events from a *sender* (a mining pool edge) to a
*receiver* (the accounting database). An event must survive any crash once the
caller has been told it is admitted, arrive exactly once and in order, and a
receiver must never join two histories into one. This directory models the
reference implementation (`src/reference/coredrp_ref`) and the state machines of
the conformance tools (`src/tools`); the protocol text under `src/docs` says what
the code is for but no definition is taken from it.

Contents: [1 inventory](#1-inventory), [2 modules and code](#2-modules-and-code),
[3 runs and bounds](#3-runs-and-bounds), [4 fairness](#4-fairness),
[5 what is proved](#5-what-is-proved), [6 abstractions](#6-abstractions),
[7 observations](#7-observations-made-while-modelling),
[8 not modelled](#8-not-modelled), [9 plan](#9-plan).

## 1 Inventory

### Components with state

| component | state | operations |
|---|---|---|
| **Sender WAL** `reference/coredrp_ref/wal.py` | `events.wal` (append-only, checksummed, hash-chained), `anchor.json` (small, replaced atomically: tail, remembered ack, receiver pins, cap, last time, completeness boundary), and their images in memory | open/create, `recover`, `admit_checkpoint`, `acknowledge`, `bind`, `increase_cap`, `hello`, close |
| **Receiver store** `storage.py` | PostgreSQL: `identity`, `admin`, `streams` (head, chain, owner, floor, last time), `events`, `effects`; per session a connection and an advisory lock | `bootstrap`, `Session.__init__`, `Session.ingest`, `Session.close` |
| **Transport** `transport.py` | client: credit, batch in flight, heartbeat outstanding; server, per stream: window, session | `drain` (client), `Receiver.Stream` (server) |
| **Recovery** `recovery.py` | attempts left | `sync`: open the log, connect, drain, retry retryable failures a bounded number of times |
| **Policy distribution** `tools/financial_semantics.py` 95-113, 189-223 | receiver: mode, holders of no-relay evidence, pending transition with its acks; sender: policies, admission caps, admitted-through, log, outcomes | `issue_no_relay`, `prepare_required`, `stage_withdrawal`, `acknowledge_required`, `commit_required`, `admit` |
| **PPS shadow comparison** `miningcore_shadow.py` | a snapshot and the rows read from it, the findings, per recipient an interval of possible opening remainders; beside it Miningcore's tables, which go on changing | `snapshot`, `compare` |
| **Settlement arithmetic** `financial_semantics.py` 58-75, 159-169 as `audit_evidence.py` runs it | a cursor, a page, a running total | `select_window`, `allocate`, `audit` |
| **Clock classification** `tools/verify_policy_clock_vectors.py` 29-139; also in `verify_state_vectors.py`, `verify_draft06_vectors.py`, `verify_freeze_completion_vectors.py` | passed in and out: last generation, state with the BAD latch, beginning of the UNKNOWN episode, lifetime of the evidence | `verify_clock_update`, `grace`, `bad_recovery` |
| **Completeness and settlement gate** `verify_state_vectors.py`, `verify_freeze_completion_vectors.py`, `verify_policy_clock_vectors.py`, `verify_draft06_vectors.py`, `shadow.py` 26-29 | passed in: policy generations and members, clocks, checkpoints, holes and their status, the scalar frontier | bootstrap, membership, epoch transitions, hole resolution, frontier, `settlement_safe` |
| **Direct-candidate verification** `verify_profile_vectors.py` 90-187 | none; what it accepts accumulates at its caller | `validate_candidate`, the length reader `rv` |
| **Reconnect decision** `verify_state_vectors.py` 5-16 | none | one decision of the two sides' sequences and chains |

### Components without state of their own

| component | what it does |
|---|---|
| `wire.py` | hash chain, event validation, limits; used by the WAL and the store |
| `faults.py` | kill points and injected I/O errors for the tests |
| `cli.py` | the command line around `bootstrap`, `admit`, `sync`, the shadow harnesses |
| `shadow.py` | PPLNS shadow comparison over retained fixtures: the gate above, the arithmetic above, an equality with a baseline |
| rest of `financial_semantics.py` | PPS liability, binary64 rounding, effect encodings, closure checks |
| `request_encodings.py` | canonical byte strings of requests |
| rest of `verify_*.py` | checks of single messages and of encodings, over recorded vectors |
| `check_*.py`, `mutate_tla.py` | registries, protobuf structure, layering, mutation of the repository's own TLA+ model |
| `csharp-vector-check` | a second implementation of encodings and pure functions |
| `*.proto`, `model/CoreDRP.tla` | message definitions; the repository's model of the *full* protocol, from which nothing here is derived |

### How they interact

    caller --admit--> WAL <--open, hello, bind, acknowledge-- drain <--- sync (retries)
                                                               |  ^
                                              hello, heartbeat |  | hello, window, ack,
                                              batch, goodbye   v  | heartbeat, error, goodbye
                                                          Receiver.Stream
                                                               |
                                             Session (advisory lock, row FOR UPDATE)
                                                               |
                                                          PostgreSQL

A sync opens the directory, so no admission happens while it runs (the WAL takes
an exclusive directory lock). One stream has one session. The policy machine
stands beside the relay: what the receiver has committed decides whether a
withdrawal of permission may be activated. The clock machine decides, per lane,
whether a sender's times may be believed; the completeness machine takes that, the
checkpoints the receiver has committed and the holes it knows of, and decides
whether a settlement may be made. Only then is the settlement arithmetic run, on
shares and on blocks whose coinbase the candidate verifier has read.

### What is hard about it

* **Crashes.** Write and fsync of the record, then write, fsync, rename and
  directory fsync of the anchor are six steps. A process may be killed between any
  two (the page cache survives) and a machine may stop there (it does not).
  Correctness: the anchor may lag the log but not lead it; an answer given is
  durable; a key has one sequence; the log refuses to open only when it is torn.
* **Lost acknowledgements.** A commit is ambiguous when the connection fails under
  it. Correctness: the next hello settles what was committed; nothing is applied
  twice; acknowledged means stored.
* **Two streams of one sender.** A client that has gone leaves a stream whose
  handler may still have a batch to ingest. Only the advisory lock stands between
  it and the next stream. Correctness: the session with a live connection is the
  only writer, and its appearance is never mistaken for a conflict of histories.
* **Copies and backups.** A directory may be copied and both copies used; a
  database may be restored. Correctness: what is stored is a prefix of *one* log.
* **Flow control.** Window updates, acks and batches cross. Correctness: a sender
  that honours its credit is never refused for exceeding it, and both sides never
  wait for each other for ever.
* **Withdrawing permission.** Evidence, proposals and acknowledgements are late or
  repeated while senders admit events, and callers repeat requests. Correctness: once
  the withdrawal is active no event at or after its effective time rests on the old
  evidence; a request that was admitted keeps its answer.
* **A snapshot of tables in use.** Three queries read tables Miningcore goes on
  writing, for an interval that cuts the history anywhere. Correctness: what
  Miningcore wrote is never reported as different, and a report without findings
  has an explanation: opening remainders from which every credit was paid.
* **Rational money.** The window is read in pages and ends inside a share; amounts
  are truncated. Correctness: the pages do not show in the result, and deductions,
  amounts and dust are the gross reward.
* **Two clocks.** A share and a block are dated by different senders, each off by up
  to S in its own direction. Correctness: after `B + 2S` is promised and committed,
  no record admitted before the block was found is missing, however it was lost.
* **A latch and a grace.** Updates are late, repeated and from an older stream.
  Correctness: BAD is released only by good probes that came after it and are far
  enough apart, and uncertainty is tolerated once, for a bounded time.
* **A statement about a header.** A candidate says what a header stands for.
  Correctness: two statements that are both accepted say the same.

`PROJECT.json` lists each hazard at its line with the properties that cover it.

## 2 Modules and code

| module | models | refines / composed with |
|---|---|---|
| `DurableLog` | what the WAL promises: a log that grows, an ack that advances inside it, answers that are in it | |
| `SenderWal` | `wal.py` and the faults of `faults.py`, every persistence step apart | implements `DurableLog` |
| `ReceiverStore` | `storage.py` | instantiated by `Relay` |
| `Delivery` | what the relay promises one directory: stored once, in order, acknowledged only what is stored | |
| `Relay` | `transport.py` and `recovery.sync`, over `ReceiverStore` and directories at the level of `DurableLog`; the reconnect decision beside `bind` | implements `Delivery` |
| `PolicyStaging` | policy distribution and `admit` of `financial_semantics.py` | |
| `CarryReplay` | Miningcore's rule of credits, replayed from every opening remainder | |
| `ShadowAudit` | `miningcore_shadow.py` and the database it reads | implements `CarryReplay` |
| `Settlement` | window selection and allocation, with the checks of `audit` | |
| `Clock` | the verification of clock updates and what becomes of the lane | compared with two other verifiers |
| `Completeness` | senders, receiver, holes, frontier and gate of a settlement in real time | |
| `Candidate` | `validate_candidate` under the header of a mined block | |
| `VarInt` | `rv`, which reads lengths for `parse_tx` | |
| `MC*` | constants for TLC | |
| `*_proofs` | theorems of the module named; `Reward_proofs` those of `Settlement` and `Candidate` | |

### SenderWal

`file`, `torn`, `synced` are `events.wal`: its complete records as the page cache
has them, whether a cut-off record follows, and how many records are durable.
`anchor` is `anchor.json` as a reader finds it, `surviving` the set of versions a
power loss may leave (a rename is durable only after the directory fsync; a rename
of a file that was not synced may leave garbage). `mem` is `WAL.state`, `count` is
`len(WAL.events)`. `pc` and `op` say which persistence step of which operation
comes next. `told` and `announced` are history: what callers and receivers heard.

| code | actions |
|---|---|
| `__init__` 31-59 | `OpenNew`, `ReadAnchor`, `SyncNewFile` |
| `recover` 79-101 | `Scan`, `RecoveryFsync`, then the four steps of a save |
| `atomic` 17-24 | `AnchorWrite`, `AnchorFsync`, `AnchorReplace`, `AnchorDirectoryFsync` |
| `admit_checkpoint` 102-125 | `AdmitAgain`, `AdmitRefused`, `AdmitWrite` or `AdmitWriteFails`, `AdmitFsync`, a save, `AdmitReturn` |
| `acknowledge`, `bind`, `increase_cap`, `hello` | `Acknowledge`; `Bind` then a save then `BindAcknowledge`; `IncreaseCap`; `SendHello` |
| failures | `IoFault` (the step raises and the handle closes), `ProcessCrash`, `PowerLoss` |

`PowerLoss` keeps any number of records between `synced` and the end of the file,
possibly followed by a torn one, one of the `surviving` anchors, and the directory
entry of a new `events.wal` or not.

### ReceiverStore

A transaction holds the stream's row `FOR UPDATE` from its first read to its
commit, so `Bootstrap`, `OpenSession` and `Ingest` are single steps. `IngestLost`
is the same transaction with a connection that fails: it commits or it does not,
and the session is `broken` either way. `lock` is the advisory lock: a closed
connection keeps it until its backend exits (`BackendExit`), which is the window
in which a retry meets `STREAM_ALREADY_ACTIVE`. `EventCode` walks the batch as the
loop of `ingest` does, with the floors that the events before it leave.

### Relay

The state is a pair of FIFO queues, a link, a handler and a window for each
connection, one client record (a sender directory is locked by the process that
syncs it), the directories and the store's variables. Each branch of `drain`'s
read loop and each branch of `Receiver.Stream` is an action; the permanent and
retryable exits both go through `Fail`, as in `sync`. A handler learns that its
stream is over (`ServeAbandoned`) at any time after the link has gone, so that a
batch which has arrived may be committed long after its client has left and even
while the client's next attempt says hello.

The directories are those of `DurableLog`: an admission or an acknowledgement is
one step. That `SenderWal` implements `DurableLog` with every failure of the
directory in between is checked by run `wal_crash` and proved in
`SenderWal_proofs`; it is why `Relay` need not repeat the persistence steps.

`Reconnect` is the decision table of `verify_state_vectors.py`, row by row, which
the conformance vectors test and the reference does not call. `Reconnection` is its
input: what `bind` sees in a hello of the relay, copies and restores included.
There is one receiver, one incarnation and one epoch in the relay, and a hello of
the reference always names 1 as the earliest record, so the rows about these and
`RECOVERY_GAP` are there and never decide; that `bind` refuses another receiver is
`PinsArePermanent` of `SenderWal`.

### PolicyStaging

`holders`, `pending`, `mode` and `committed` are the receiver's; `policies`,
`caps`, `through`, `wal`, `outcomes` and `last` are the senders'. The code says
"callers serialize mutations" of one side, so each function is one step; the
*messages* between the sides (`issued`, `proposals`, `answers`, `activations`) are
sets that only grow, from which a message may be taken late, again, or never.
`InstallNoRelay`, `InstallRequired` and `Relay` are the code's surroundings:
evidence arriving at a sender (it never replaces later evidence) and the relay
carrying a sender's events into the receiver's committed history and out of the
sender's log. `known` and `committedKnown` are the "history known" flags, fixed at
the start because no function of this code sets them. `admit` is three actions by its
exits: `AnswerRetry` (line 96: a request that has an outcome is answered with it, before
any policy is looked at), `Admit` and `Refuse`. `answered` is history: what a caller was
told last.

### ShadowAudit

`db` and `carry` are Miningcore's (external): `CreditShare` writes a share, its
credit and its balance entry in one transaction, `Damage` loses, repeats or changes
a row of the restored database (an entry may be repeated under any time, inside the
interval or not). The export fixes `view` at its first query
(REPEATABLE READ) and reads three tables from it into `out` (`ReadShares`,
`ReadCredits` and `ReadChanges`, with the row limits); an entry is looked up by its
time or by its tag (`Found`). `Compare` is the loop over
the rows (lines 89-141); `CheckCarry` is one round of the loop over a recipient's
credits (145-155), whose `prefix`, `lower` and `upper` are kept in `interval`.

### Settlement

`audit`'s checks (`Refuse`), then `select_window` as the pages it reads (`ReadPage`)
and the rows it takes from one (`TakeRow`), or all rows under PROP (`BeginProp`),
then `allocate`. `audit` reads pages of two; the page size is a parameter of the
function and of the model. What `audit` compares in the end with the recorded
settlement is an equality and is left out.

### Clock

The tools give pure functions; a caller hands them the state they need and keeps
what they return. The module is that caller: `last`, `clock`, `since` and `until`
are the inputs `last_generation`, `previous_state`, `previous_unknown_since_mono`
and the end of `remaining`, and what one decision returns is what the next is
given. `VerifyClockUpdate` is `verify_clock_update` with its order of checks;
`Effective` is the strictest of the active scopes. `Classify` and `Recover` take
any update of a fixed set at any time (messages may be late, repeated or
contradictory); `Tick` lets evidence expire and `NewStream` begins a stream.
`StateVectorUpdate`, `ClockStateCase` and `DelayedLifetime` are the same decision
as three other tools write it; `VerifiersAgree` compares them where all apply.
`Counted` is what the caller hands `bad_recovery` as `fresh_good_count`: the probes
accepted as GOOD since the latch. `proof`, `granted` and `sinceBad` are history; the
last collects the good probes since BAD without looking at the latch or at `goods`.

### Completeness

The tools decide on evidence; here the evidence is what the parties did. A sender
admits as `wal.py` does (`Backdated`), reading a clock that is off by at most
`Skew` for as long as it is GOOD and any time at all in an outage. Clocks recover,
any number of times (`Tick`), once trusted UTC is not behind what was admitted
(`NotBehind`, line 138 of the clock rules). The receiver commits in order, with the effect
(`Commit`) or without (`Quarantine`). `NormalTransition` and
`ExceptionalTransition` begin an epoch, the second after a loss and with exactly the
sequences recorded that were not committed (`GapIsExact`). The decisions are operators:
`ClearOfProven` (membership), `CheckpointCovers` (`B + 2S`), `Evidence` (a member's
clock *now* and its checkpoint), `Blocking`, `CapsScalar` (a hole caps the frontier),
`SettlementSafe` (the gate of `shadow.py`, over the required checkpoints).
`AdvanceFrontier` moves the scalar when every member's evidence and no hole says
otherwise. A record carries the real time `at` of its admission and the `outage` of the
clock that dated it (0 if that was GOOD), a block that of its discovery; `recovered`
counts the outages that are over and `dropped` keeps what left a log without its effect.
No decision reads these: they are there for the properties.

### Candidate and VarInt

`Mine` makes a block the network takes; `ValidateCandidate` offers any list of
transactions, statement of commitments and of payments under its header. Hashes
are terms: a leaf is `<<x>>`, the hash of a pair is the pair. `Merkle` pairs an odd
last node with itself, as the code and the network do. The definitions of the
specification carry the module's name (`CandidateInit`, `CandidateNext`,
`CandidateSpec`, `CandidateTypeOK`): the theorems are in one module with those of
`Settlement`. `VarInt` is the reader of one length, a byte a step.

## 3 Runs and bounds

All runs but the last finish with no error; the state counts are distinct states.

| run | question | bounds | states |
|---|---|---|---|
| `wal_crash` | is the log safe, does it implement `DurableLog`, are the pins permanent, and does it come back, when anything fails between any two persistence steps? | 3 writes, 3 requests of 2 keys, 2 receivers, 2 incarnations, caps 1 and 2, 2 crashes, 1 I/O error, fairness | 101,981 |
| `store_ingest` | is the stored history one history, whatever is offered? | 2 sessions, 4 histories, batches of 1 and 2 events in any position, 3 owners, 2 faults, 2 of each of epoch, identity, admin id | 17,983 |
| `relay_faults` | do lost links, processes, databases and deadlines stay invisible in the outcome? | 1 directory, 2 events, 2 connections, 2 attempts, 2 faults | 306,333 |
| `relay_paused` | is credit given batch by batch never exceeded, and does the log drain? | 4 events, batches of 2, window 1, 1 attempt a sync, 1 fault, fairness | 391,245 |
| `relay_copies` | does a copied directory or a restored database lead to parts of two logs? does `bind` decide as the reconnect table does? | 2 directories, 3 events, 2 connections, 1 fault, 1 restore of any older state | 2,404,924 |
| `policy_withdraw` | does a withdrawal hold once active? does a request keep its answer? | 2 senders, 2 scopes, 3 requests, 2 transitions, 2 effective times | 540,566 |
| `clock` | is GOOD proven, is grace given once, does BAD latch, do the verifiers agree? | 2 scopes, times 0 to 4, every combination of class, bounds, reason and probe, probe evidence of every age, any number of updates and streams; probe intervals of 3 and 4 | 26,615 |
| `settle_complete` | is a settlement that was judged safe complete, for ever? | 2 senders (one whose clock goes off and recovers, one that finds the block), S = 1, real time to 3 and event times to 5, membership from 2 or 4, rounds from 0 or 2, 1 outstanding record of each, 1 hole, 1 block | 1,724,312 |
| `candidate` | may two accepted candidates under one header differ? | up to 3 transactions beside the coinbase, 3 outputs, 2 payees, 2 heights around the activation, 2 accepted candidates | 38,255 |
| `settle_audit` | do pages and truncation show in the result? | up to 4 shares of scores 1 to 3, targets 1 to 5, pages of 1 to 3, 3 schemes, finder inside and outside the window, linked or not | 18,804 |
| `shadow_audit` | does the report flag what Miningcore wrote, or pass what it cannot have written? is the carry loop the replay of all openings? | 2 recipients, 3 credits of 2 worths, unit of 2 steps, any opening remainder, times 0 to 3 of which 1 and 2 are exported, 1 damaged row | 6,029,292 |
| `block_lengths` | does `rv` read a length as the network writes it? *It does not*: see [7](#7-observations-made-while-modelling) | lengths around 128 and 253, each followed by bytes that end it or go on | |

Why they are enough.

* **WAL.** The persistence protocol looks at most one record back: a third write
  gives a record before, at and after the one at risk. Two crashes give a crash
  during the recovery from a crash, and with the I/O error a failed retry of a failed
  operation. The requests contain an event at the time of the boundary before it,
  which is where admission and recovery could disagree. Faults and crashes have
  separate bounds, so they combine. `SenderWal_proofs` proves every safety property
  of this run without the bounds.
* **Store.** The histories are a log, a copy of it that diverges after one event,
  one with a backdated event and one that repeats an identity. Batches of two
  events over logs of three are replayed whole, replayed in part, adjacent, or
  leave a gap.
* **Relay.** Two connections are the stream that lingers and the one that replaces
  it; a third would wait on the same advisory lock. In `relay_faults` two faults
  allow the retry itself to fail. `relay_paused` has four events because a batch
  that follows an ack must be able to exceed a window that was lowered. In
  `relay_copies` three events let the two logs diverge after, at or before what is
  committed, and a restore may go back to any of these. `MaxOpens`
  bounds syncs of a directory with nothing to send, and all syncs once there is a
  copy or a restored database, when a sync may fail for ever with a permanent
  code; the only sender there is may always sync what it has, so no behaviour of
  interest is cut off. `Relay_proofs` proves every safety property of the three
  runs without these bounds.
* **Policy.** Two senders are a member and a holder that is not one; two
  transitions let a proposal of the first generation arrive during the second.
  The effective times and request times put an admission before, at and after the
  boundary, and a request may be repeated after its permission has gone.
* **Clock.** Each scope is the stricter one in two of the four parameters, so taking
  either whole is wrong. With an expiry of 3 and times up to 4 an update may arrive
  fresh, with part of its lifetime, or stale; the effective probe interval is 3, so
  three recovering probes may or may not span it, before and after another BAD. `Clock_proofs` proves all of the run's
  properties for any scopes and any updates.
* **Completeness.** With S = 1 the required promise is 2 beyond the boundary, and
  with event times up to 5 boundaries lie before, at and beyond what can be promised.
  Real time up to 3 lets a clock go off, misdate a record, and be GOOD again when the
  block is settled. One
  sender dates the block and the other the record, each off by one either way. One
  outstanding record is a record that is missing; it may be in flight, in a gap or
  in quarantine. `Completeness_proofs` proves all of the run's properties without
  the bounds.
* **Candidate.** Three transactions beside the coinbase make a tree with an odd
  level that another list can imitate; three outputs are two equal payments and a
  commitment; one height is before the activation and one at it. `Reward_proofs` proves
  the properties without these bounds.
* **Shadow.** Worths 1 and 3 are below and above a unit of two steps, so a credit
  pays nothing, one unit or two, and the remainder changes with each. Three credits
  put one before the exported interval, or leave a prefix of two inside it. A
  damaged credit and its ledger entry may agree with each other, which only the
  carry shows. Miningcore credits nothing after the last query (`Reading`) nor
  after damage: neither can reach the report.
* **Settlement.** A tuple key is a rank, so the keys 1 to n are all cases. Targets
  fall before, on and after the end of a share, of a page and of all shares.

`relay_copies` and `policy_withdraw` use symmetry on connections and on senders:
the values are interchangeable in the modules and neither run has a liveness
property. Deadlock is checked in the WAL and store runs, which can always be
reopened. It is not in the others: a drained relay, a system with every proposal
made or every message sent, time at its bound, a report and a settlement are at
rest by design.

Each property of each passing run is also broken by a mutant: a second version of one
definition, next to it in the module and marked *mutant*, with a bug that could
have been written (a missing fsync, an omitted lock, a comparison by length in
place of chain, an ack before the credit's withdrawal).

What the properties say, beyond the comment at each one:

* `RefusesOnlyTornLogs` ties admission to recovery: they compute the floors
  separately, and any disagreement would make the log reject a record it admitted.
* `NoPermanentFailure` is about *outcomes*: with one directory and one database no
  sequence of failures may end in `SPLIT_LOG`, `SENDER_ROLLBACK` and the like,
  which an operator would take for a conflict of histories. It rests on the
  advisory lock: if a lingering handler could commit after the next hello, that
  hello would be stale.
* `AckedIsCommitted` holds with copies but not with a restored backup; then the
  remembered ack makes the next hello fail with `RECEIVER_ROLLBACK`, and
  `OneLogCommitted` says the database is still a prefix of one log.
* `MatchIsExplained` speaks of the *snapshot*, not of the rows read, and of the rule
  by which Miningcore pays, not of the bounds `compare` keeps; so it fails as well
  if the export reads too little as if the bounds are off by one.
* `BindIsReconnect` compares two pieces of code over different fields: `bind` reads
  the receiver's head and chain against the records of the directory, the table
  reads sequence numbers and flags. They agree for every pair of log and
  database that copies and restores can bring together.
* `OneAnswer` relates an answer to an admission made any number of steps earlier: it
  fails if a request is admitted twice, and as well if the policies are asked before
  the outcomes, when a repeated request is refused because its permission has gone.
* `GoodIsProven` speaks of every scope and of the real age of the probe, not of
  `Effective` and the advertised lifetime; `GraceIsOneEpisode` counts the ticks of
  grace really granted. `LatchHolds` allows one way out of BAD: to GOOD, on three
  probes accepted as GOOD since *any* BAD, two of them a probe interval of some scope
  apart, with UTC not behind. Four mutants break it: an expiry that forgets the latch,
  probes in a burst, UTC behind, and probes kept over a BAD.
* `SettledIsComplete` is about a payment made earlier: no record admitted, in real
  time, before the block was found may be uncommitted *now*, or be committed without
  its effect, in any later state, although holes, epochs and clocks have changed since.
  It excepts what was dated in an outage that was over when the settlement was made
  ([6](#6-abstractions)). `FrontierProven` says the same of the scalar frontier, members
  that joined later included; that is why a membership needs `t > frontier + 2S`.
* `MatchIsExplained` counts every entry tagged on a credit of the interval, whenever it
  was made, so it also fails if the export looks entries up by time only.
* `HeaderDeterminesCandidate` relates two accepted candidates. It fails if repeated
  transactions are not refused, or the witness commitment is not bound.

## 4 Fairness

* `wal_crash` (`ComesBack`): weak fairness of `Work` (a process that has a
  persistence step to take takes it) and of opening the log with its identity. The
  second is the operator or the loop of `sync`. Failures are bounded, which is what
  "once failures stop" means; calls need no fairness.
* `relay_paused` (`EventuallyDrained`): weak fairness of the client's and of each
  server handler's steps (both are asyncio coroutines that run when a frame has
  arrived), of the client noticing a link that is down, of PostgreSQL ending the
  backend of a closed connection, and of starting a sync while there is work. The
  deadline of a stream with a live link is a *fault*, and so bounded: the property
  therefore says that the frames alone make progress, without a timeout that papers
  over two sides waiting for each other.

The other runs check safety only. Nothing in the code obliges an operator to
reconcile a hole, a sender to admit, or a pool to settle, and the decision
functions are called by nobody in this repository; a liveness property of them
would be one of an assumed caller.

## 5 What is proved

The proofs hold for every value of the constants that satisfies the modules' named
assumptions (`SenderWalAssumption`, `ReceiverStoreAssumption`, `RelayAssumption`,
`PolicyStagingAssumption`, `ShadowAuditAssumption`, `SettlementAssumption`,
`CompletenessAssumption`, `ClockAssumption`, `CandidateAssumption`), in particular for any number of
records, requests, failures, sessions, histories, directories, connections,
attempts, restored backups, senders, scopes, transitions, clock updates, credits,
shares, transactions and outputs. The assumptions give the types of the constants
and little else: histories and requests are finite and typed, `None` is no number,
a refusal for contract reasons does not reuse the two codes of a damaged log, `Nil`
is neither a class of commitments nor an empty list.

**SenderWal_proofs.** `TypeCorrect`, `Invariance`, `WalInvariance`, and from them
`AnchorSafety`, `AnswerSafety`, `AnswerUnique` and `AckSafety`. The inductive
invariant is `TypeOK /\ WalInv`. `AnchorNeverLeads` alone is not inductive: a save
installs whatever `mem` holds, so memory must point into the durable log at every
anchor step; that holds because `mem` describes exactly the file at the end of the
step before (`DescribesFirst`), which in turn needs `count`, `synced` and the
length of the file to be tied together at each `pc` (`MemoryInv`). On the disk side,
every version of the anchor that may survive must point into the durable prefix,
and every record must pass a scan (`DiskInv`). The step proof has one case per
action; lemmas say that appending a record or cutting the file above `synced`
disturbs neither the anchors nor the scan of what remains.

Its second half is `WalImplementsDurableLog`: `SenderWal` implements
`DurableLog`. The mapping takes the abstract log to be the durable prefix of the
file and the abstract ack to be the least that any surviving version of the anchor
remembers. So an fsync is the abstract append, the directory fsync that leaves one
version the abstract acknowledgement, and every other step stutters, power losses
included: a record that was not synced may be kept only while a single version of
the anchor survives. This needs more of the saves than `WalInv` says, `SavesInv`:
an anchor can be absent only while nothing was written (`AbsentIsEmpty`), at most
one record is not durable and then no save is under way (`OneBehind`), some version
remembers least (`SomeLeast`), and what is being saved forgets neither an ack nor a
pin that every version has (`SaveInv`). `PinSafety` and `RefusalSafety` follow from
the same invariant.

**ReceiverStore_proofs.** `TypeCorrect`, `Invariance`, `HistorySafety`,
`TablesInStep`, `OrderSafety`, `SessionSafety` and `NothingRewritten`. The
inductive invariant is `TypeOK /\ StoreInv`, the run's four properties and
`EmptyUntilBootstrap`. They need each other: a batch is compared with the stored
row, so that what it appends continues *one* history only if the row describes the
tables, and its events are in order only if the floors in the row are those of the
last event stored. That every event of an accepted batch passed (`EventCode` stops
at the first that does not) is an argument about the *first* failure; it uses the
least-number principle (`LeastNumber`, from the library's `NatLessThanWellFounded`).

**Relay_proofs.** `TypeCorrect`, `Invariance`, `AckedSafety`, `OneLogSafety`,
`PermanentSafety`, `CreditSafety`, `BindSafety`, `SuccessSafety` and
`RelayImplementsDelivery`: every safety property of the three relay runs, with and
without paused credit, for logs of any length. None of them is inductive. What a
step does depends on frames sent several steps earlier, so the invariant `Inv` says
what those frames can be:

* `Phase`: for each state of the client, what the two queues of the connection in
  use hold and what both sides think the window is (`Greeting`, `Waiting`, `Idle`,
  `Flying`, `Parting`). At most one frame goes up at a time, and the windows of a
  paused receiver stand in a fixed order around the answer to it. `CreditRespected`
  follows: the window a batch meets is never lower than the credit it was sent on.
* `Truth` and `Acked`: a head, an ack or a directory's memory speaks of a prefix that
  is stored. A restored backup breaks this for everything said before it and not for
  the stream that is up, hence the two guards.
* `Exclusive`: once the receiver has greeted, no other session that is open has a
  batch before it. This is where the advisory lock enters, through the store's
  `LiveSessionOwnsStream`; it is why a lingering handler cannot move the head under
  a client (`Known`), and why with one sender only codes that pass are answered
  (`Retries`).
* `BatchInv` and `DirInv`: a batch on the wire is a part of some directory's log,
  which repeats no event and is in order, so a batch that continues the stored
  history leaves it a prefix of *that* log even if the history came from a copy.
* `StoreInv` is the invariant of `ReceiverStore_proofs`, used through `INSTANCE`: the
  relay takes one sender's epoch and any log as a history, and each step of a handler
  is a step of the store.

`RelayAssumption` says of the code what this rests on: an event determines its
identity, is not evidence for a later time than its own, and the window a paused
receiver gives is between 1 and `MAX_BATCH` events (`drain` refuses a greater one,
and the receiver gives at least one). `RelayImplementsDelivery` assumes
`Dirs = {Original}` and `MaxRestores = 0`: with a copy or a restored backup the promise
of `Delivery` is not kept, nor meant to be. There `OneLogCommitted` and
`AckedIsCommitted` are what is left of it, and they are proved for any number of
directories and restores.

**PolicyStaging_proofs.** `TypeCorrect`, `Invariance`, `HoldersBound`,
`WithdrawalSafety` and `AdmissionSafety`. The inductive invariant is `TypeOK /\
WithdrawalInv`: whoever has evidence is a recorded holder, because recording
precedes the response (`HoldersRecorded`); an answer stands for a cap that blocks
later admissions and for a history with none at or after the boundary, pruned
events included (`AnswersBind`); an active transition has the answer of every
holder, and holders stop growing when the mode changes (`AllHoldersAnswered`). For
`OneAnswer` it says that every admission has an outcome and no identifier has two
(`OutcomesKept`).

**Clock_proofs.** `TypeCorrect`, `Invariance`, `GoodSafety`, `GraceSafety`,
`LatchSafety` and `VerifiersSafety`, for any set of scopes and of updates. The
inductive invariant is `TypeOK /\ ClockInv`: a GOOD lane's probe and bounds meet the
effective contract and its lifetime ends no later than the probe's own (`GoodInv`);
the ticks of grace fit the time since the episode began, and there are none
outside one (`GraceInv`); while BAD is latched the probes that count towards recovery
are among the good ones since the last BAD. `EffectiveFacts` carries these to every scope.

**Completeness_proofs.** `TypeCorrect`, `Invariance`, `SettlementSafety`,
`FrontierSafety` and `FrontierBlocks`. The inductive invariant is `TypeOK /\
CompletenessInv`: a record not committed is later than what its predecessors
promise, and near its real time while the clock is good (`LogInv`); a hole's
interval covers the records it stands for, and what left a log without its effect has a
hole (`HoleInv`); a block's boundary is near its discovery (`BlockInv`); what is still to
come after a settlement, or after the frontier, is later than the block, because time has
passed or because a promise stands (`SettledInv`, `FrontierInv`). The margin appears as
arithmetic: from `through >= B + 2S` and two clocks off by S, a missing record was really
admitted after the block was found. Recovery enters by `LogInv`: while a clock is GOOD,
also again, the last record admitted is at most S ahead of real time.

**ShadowAudit_proofs.** `TypeCorrect`, `CarryImplementsReplay`, `HonestMatchesHolds`
and `MatchIsExplainedHolds`: every property of the run, for every unit, interval,
history and number of damaged rows.

The carry loop implements `CarryReplay`: an interval stands for the remainders its
openings lead to, each moved by the prefix; the lemma `NarrowedReplays` says that
narrowing the interval by a credit leaves exactly the remainders that credit's rule
reaches. It needs the bounds to stay inside a unit, moved or not (`Bounded`), and the
rows to be integers whatever damaged them (`CreditsReplayable`).

The two directions of the report rest on what the transaction read (`ExportInv`: the
snapshot's rows of the interval, keys included) and on the loop's order (`OrderInv`).

* *No false alarm* (`HonestMatches`). Nothing in the tables records the remainder
  before a credit, so `HonestInv` says that some history of remainders exists
  (`History`: each is below a unit, the next follows from it), that the last of them is
  what is carried (`Closes`), and that the true opening of the interval is within the
  bounds and, moved by the prefix, is the remainder before the next credit (`Opens`).
  No bound can exclude it, and a credit's rule rounds it one way or the other
  (`RoundedEitherWay`).
* *No false clearance* (`MatchIsExplained`). `LoopInv` ties a prefix to the sum of what
  was calculated and not paid, and every opening within the bounds to the remainder
  before and after each credit the loop is past. When it ends without differences the
  lowest bound is an opening that explains them all (`CreditsExplained`), and the checks
  of the rows one by one leave one entry for each credit that paid and none besides
  (`MatchedRows`), so the sums agree (`LedgerPays`, `SharesWorth`). The laws of sums are
  those of `Reward_proofs`, cited through `INSTANCE`.

**Reward_proofs, Settlement.** `TypeCorrect`, `WindowInvariance`, `AccountInvariance`, and
from them `WindowIsNewestHolds`, `WindowExactHolds` and `ConservedHolds`: every
property of the run. Between pages the cursor separates taken from untaken, within a
page the rows left in it are newer than all others left (`WindowInv`). Partial payment
of the oldest share only follows because a share below its score means the target is
met, and then nothing more is taken.

The other two are about sums of any length. That a sum may be taken in any order,
split, bounded term by term or grouped by key is proved from the definition of the
community modules' `SumFunctionOnSet`, by induction on the set: a counterexample of
least size has an element, and without it is none (`SmallestSet`, which rests on the
library's `WFMin` and `NatLessThanWellFounded`; its induction theorems take an operator
and cannot be used). With these,

* `AccountInv`: what is selected adds up to `total`, so the recipients' shares do
  (`SharesOfTotal`), with the finder's part the weights are `100 * total`
  (`FinderPartOfTotal`), and parts that are each truncated once leave less than one
  step each (`TruncatedParts`): `Conserved`;
* `ScoreInv`: until the target is met `total` is the score of all rows taken, and when
  a row is taken those newer than it are exactly those (`NewerAreCounted`), so it
  contributes what the definition without pages gives it: `WindowExact`.

**Reward_proofs, Candidate.** `CandidateTypeCorrect`, `HeaderDeterminesHolds` and
`PaymentsHold`: every property of the run, for lists of any length. The inductive
invariant is simple (`CandidateInv`: the mined block has a coinbase with outputs of a
value; an accepted candidate passed every check, `Valid`), for nothing is ever taken
back. What the properties need is what the checks imply:

* *A root determines its leaves* (`TreeInjective`), if both lists are without
  repetition or of one length. That repetitions are excluded level by level
  (`ParentsDistinct`) is what makes a level follow from the one above it
  (`ParentsInjective`): without it an odd last node and its repetition have one parent.
  Both trees have the same height because a leaf is no pair (`TopsLevel`), so they can be
  compared from the root down. Ids give the transactions without witnesses
  (`SameBases`); under a commitment the witness tree, whose leaves may repeat but whose
  length is now known, gives the witnesses (`SameWitnesses`).
* *Claims that leave nothing are the outputs, each as often* (`ConsumeCounts`): a claim
  takes one copy of its output and none of another (`CopiesRemoved`), and once a claim
  finds none nothing is ever left again. What is declared are the commitments, each once
  (`DeclaredAre`, `SetListed`), so what is paid is the rest (`PaymentsCounted`), and
  since commitments pay nothing the total is the gross reward (`PaidInFull`, by the laws
  of sums above).

`Merkle` and `Consume` recur over numbers. That such a function exists, which TLA+ does
not grant to a definition by itself, is proved first (`LevelsUnfold`, `LeavesAll`).

The type invariants of `SenderWal`, `ReceiverStore`, `PolicyStaging`, `Clock`,
`Completeness` and `ShadowAudit` and the inductive invariants are proved and no run
repeats them; `Relay`, `Settlement` and `Candidate` have runs that check theirs.

With these every safety property of a passing run is a theorem. Only model-checked, and
out of the prover's reach: the liveness properties.

## 6 Abstractions

* **Hashes.** In `SenderWal` a chain hash is the identity of the last record (each
  draws a fresh uuid4); in `ReceiverStore` and `Relay` it is the prefix itself. So
  hashes do not collide. Records carry the predecessor's hash, so that the scan's
  link check means something. In `Candidate` a leaf and the hash of a pair are never
  the same: a transaction that is as long as two hashes, and could be taken for an
  inner node, is left out.
* **Fsync is honest**, a rename is atomic, and what was synced is not damaged
  later. A torn record is one that does not decode or fails its checksum; the two
  are not told apart because the code reports both as `WAL_CORRUPTION`.
* **Sizes.** The cap of the WAL and the limits of a batch count records, not bytes.
  `SmallWindow` is the number of events that fit the 100-byte windows the paused
  receiver gives.
* **One sender, one lane, one approved epoch** in `Relay`; `ReceiverStore` has
  several epochs and identities for `bootstrap` only. The contract fields of a
  hello are checked before anything changes and are a single choice (`Contracts`)
  in `SenderWal`; TLS, peer certificates and malformed frames end a stream with a
  permanent code and no change of state, and are left out.
* **Receiver identity** is fixed in `Relay`: a database with another identity is
  refused by the pins, which `SenderWal` covers.
* **Restore** keeps the owner counter. The code's owner check could not be told
  apart otherwise: `LiveSessionOwnsStream` shows it never fires while the lock
  protects the stream.
* **Amounts** are integers: a bundle or an export holds finitely many rationals,
  which a common unit makes integers. Binary64 scores and the formula of the PPS
  liability are opaque: a share has a score, or a worth. Noncanonical numbers, rows
  without an accounting id, several tags on an entry and another `usage` are
  findings of a single row and are left out, as are the totals the report prints,
  the digest of the export file and the policy file's checks.
* **Order of credits.** A recipient's credits are paid in `(created, accountingid)`
  order (`InOrder`), which is what the report itself assumes.
* **Opening a log** that exists also checks the identity and epoch asked for (lines 46-47)
  and the sender's fence (51-54). Both only refuse the open and change nothing; the second
  needs another live process with a copy of the directory, which `Relay` has and `SenderWal`
  does not. `ReadAnchor` leaves them out.
* **Completeness.** Epoch transitions are decided on sequence numbers
  (`GapIsExact`); the frontier and the gate need a hole's interval in *time*, which the tools
  are given (`hole_from`, `hole_until`) and compute nowhere. The model's reading of it is what
  the promises allow to say: from just after the last promise committed to the greatest
  event time. A transition of epochs takes a tick (`RoundTrip`), an assumption about its
  surroundings: the two sides exchange messages, and that takes longer than a clock's
  resolution. That the frontier may be advanced only on every member's `B + 2S` and clock is
  composed from `completeness_boundary_cases` and `payout_evidence_cases`; no line of the
  tools does both that and the cap by holes. Mode and `policy_staged`, which `shadow.py`
  also asks for, are constant: the model has one scope in RELAY_REQUIRED mode whose policy
  is staged, and how that comes about is `PolicyStaging`.
* **Outages.** `shadow.py` reads a clock's classification at the time of the settlement.
  What a clock dated in an outage that is over by then no decision sees, so a record or
  block dated then is excepted from `SettledIsComplete` (`Misdated`); the frontier's
  properties speak of what was dated by a clock that was GOOD. That these records are sent
  at all is the caller's doing: the clock rules grant no admission while BAD is latched, and
  UNKNOWN only its grace.
* **Retention.** Shares that the database no longer has because of its retention are, for
  `ShadowAudit`, rows lost: `HonestMatches` is about tables nothing was removed from.
* **Policy evidence** has no lower time bound (`from`), one scope changes mode, a
  staging digest is the proposal, `holder_skews` (kept, never read by these
  functions) and the evidence flags (`activated`, `authorized`, `contract`) that
  are constant during a transition are left out. Messages are never removed:
  delay, repetition and loss are all "taken later, again, never".

## 7 Observations made while modelling

One contradicts the repository's docs and is listed as a finding:

* *Lengths in a serialized block.* `rv` (`verify_profile_vectors.py` 90-96) reads
  counts and lengths seven bits at a time (LEB128).
  `docs/coredrp-miningcore-v1-semantics.md` says in line 118 that
  `serialized_block` is exact consensus serialization, and in line 124 asks for a
  consensus-compatible parser; the network writes CompactSize. Below 128 the two
  agree, and the recorded vectors hold nothing longer. Run `block_lengths` shows a
  length of 128 refused or read as another.

The others contradict nothing that is said of the reference:

* *An empty log may be stranded.* `__init__` creates the anchor, then
  `events.wal`. After a failure between the anchor's rename and its directory
  fsync, a retry creates `events.wal`; a power loss may then keep the second entry
  and drop the first, and every later open is a `RECOVERY_GAP`. Nothing can have
  been admitted. `ComesBack` names this state (`Stranded`).
* *A torn record is permanent.* A write that stops short leaves a log that refuses
  to open; there is no truncation. The reference prefers refusal.
* *A rejected proposal stays pending.* `stage_withdrawal` may reject for ever, and
  the model in `financial_semantics.py` has no way to abort a proposal: no other
  transition can be prepared, and no evidence issued, after that.
* *`prepare_required` does not look at the mode*, so a transition to the required
  mode may follow another; `WithdrawalHolds` covers both generations.
* *The server's heartbeat reports the committed sequence of the hello*, not the
  current one; the client reads no field of it.
* *The owner check of `ingest`* is a second line of defence: it never decides.
* *The carry check depends on the order of credits.* Credits of one recipient paid in
  another order than `(created, accountingid)` could be reported as inconsistent
  although all are right. `MININGCORE-SHADOW.md` says so ("a consistency check under
  that ordering, not proof of historical transaction order").
* *The clock verifiers differ outside fresh probe evidence.*
  `verify_state_vectors.py` calls evidence older than its advertised lifetime
  UNKNOWN where `verify_clock_update` shortens the lifetime; it ignores generation 0
  where the other calls it malformed, refuses a BAD for a step of the wall clock
  whose bounds are in doubt, and compares `None` when a GOOD has no bounds. `verify_draft06_vectors.py` has no case for
  `EVIDENCE_EXPIRED`. `VerifiersAgree` is stated where all three apply.
* *Recovery counts probes as they are accepted, not as they were sent.* A probe sent
  before the one that was BAD may count towards the three if its update is the later
  one. `LatchHolds` says what is guaranteed: three probes accepted since the BAD was,
  a probe interval apart, with UTC not behind.
* *More than the reserved value.* The coinbase's witness may hold items after the
  reserved value; the header does not bind them, so two accepted candidates may
  differ in them. `HeaderDeterminesCandidate` excepts exactly this.
* *The gate of `shadow.py` is stricter than needed*: it refuses on any uncertainty,
  `Relevant` or not. The model has the weaker gate of the tools, which suffices.

## 8 Not modelled

Each component that is left out is a row of `PROJECT.json` with its reason. In
short:

* *Conversions whose content is the bytes*: `request_encodings.py`, effect
  encodings, `parse_tx` and `scriptnum_minimal` (of the parser only the reader of
  lengths is modelled), binary64 rounding.
* *Checks of one message*: the share, projection and accounting validators of
  `verify_profile_vectors.py`, `verify_financial_hardening.py` and its siblings,
  which run pure functions over recorded tables and keep nothing.
* *Rules the tools state only as single rows of a table*, with no state to thread:
  receiver replacement, imports of retired epochs, administrative overrides,
  pruning and generation tables of producers, removal of members, changes of skew.
* *Around the program*: argument parsing, TLS and certificates, comparisons of text
  and descriptors in continuous integration (`check_*.py`), the second
  implementation in C#.

## 9 Plan

1. *Effects and requests*: acceptance of accounting groups and administrative
   actions, quarantine and its reconciliation, against their idempotency, when code
   of the repository keeps state for them.
2. *A rejected withdrawal*: a liveness statement for proposals, once there is an
   abort for them.
