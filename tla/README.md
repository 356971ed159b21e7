# A TLA+ model of D2PC

D2PC is a geo-distributed transactional store. Data is split into shards, each
shard is replicated by a leader-based protocol, and a transaction that touches
several shards commits by two-phase commit. The repository runs the same store
in several modes, which differ in who coordinates:

- **FAST**: the client coordinates. It sends a prepare request to the leader of
  each participant, a leader answers when a quorum has logged the transaction,
  and the client sends its decision.
- **PARALLEL** (the D2PC protocol): each data centre has a *co-coordinator*.
  Replicas send their acknowledgement and their shard's vote to the coordinator
  next to them; the *correspondent* coordinator, the one next to the leader of
  the transaction's primary shard, decides. Leaders *pre-commit* as soon as
  their coordinator has all votes, before the transaction is fault tolerant.
- **SLOW**: the leader of the primary shard coordinates. It splits the
  transaction, collects the participants' votes and answers the client.
- **RC**: every replica of the primary shard does so in its own region, and the
  client and the replicas look for a majority of the regions.
- **CAROUSEL**: every replica of a participant votes to the client, which takes
  a fast quorum of votes or the leader's word that the entry is replicated.

The repository also carries the protocols of TAPIR it grew out of; of these,
viewstamped replication is modelled.

This directory holds the model, the TLC configurations, the proofs and
`PROJECT.json`, which maps every definition to the lines it stands for.

## Inventory

| Part | Source | Model |
|---|---|---|
| lock table of the locking store | `store/common/backend/lockserver.cc` | `LockServer` |
| locking store | `store/strongstore/lockstore.cc` | `LockStore` |
| versioned store | `store/common/backend/versionstore.cc` | `VersionStore` |
| optimistic store, read and write sets | `store/strongstore/occstore.cc`, `store/common/transaction.cc` | `OCCStore`; one transaction's view in `LRReplica` |
| co-coordinators | `replication/commit/coordinator.cc` | `Coordinator`, `CoordinatorEnv` |
| replica, leader-based replication | `replication/lr/replica.cc`, `log.cc` | `LRReplica` (FAST, PARALLEL), `ParallelLeader` (reads and dependencies), `CommitModes` (SLOW, RC, CAROUSEL) |
| replication client, shard client, transaction client, promise | `replication/lr/client.cc`, `store/strongstore/{shardclient,client}.cc`, `store/common/promise.cc` | `Client` (FAST, PARALLEL), `CommitModes` |
| transport | `lib/udptransport.cc` | `Network` |
| viewstamped replication and its log | `replication/vr/replica.cc`, `replication/common` | `VRReplica` |
| inconsistent replication, TAPIR, weak store, lock service | `replication/ir`, `store/{tapirstore,weakstore}`, `lockserver` | not modelled: out of the build |
| sockets, TCP and simulated transports, clocks, tracing, benchmarks | `lib`, `timeserver`, `store/benchmark` | not modelled: I/O and workload |

`PROJECT.json` lists the parts with their status, and the hazards of the code,
each at the line where it bites.

## Modules

**`Network`** has the constants all protocol modules share (transactions,
shards `0..NShards-1`, replicas `0..n-1`, each transaction's participants and
primary shard), the placement of leaders (`Leader(s) = s % n`, as
`server.cc` sets it) and the messages. `msgs` is the set of all messages ever
sent. A handler may take any of them at any time and any number of times, so
messages are lost, repeated, delayed and reordered as a datagram transport may
do. Periodic resend timers need no action of their own: a message that was sent
can always be received again. A send may also fail locally, since `sendto` returns
an error and the process goes on (`udptransport.cc:407`). Most senders only warn,
and the message is lost. A client and a leader that cannot send a request forget
it, which is a change of their state and part of their actions; `Unsendable`
bounds the shards where this happens.

**`Client`** is one run of `Client::Commit()` per transaction: an attempt with a
new promise (`Prepare`), the callbacks and timers that complete the promise, and
`FinishCommit` or `FinishAbort`. A timer may fire whenever it is set. Replies
carry no attempt number in the code, so an answer to an earlier attempt may
complete the promise of a later one. A request that could not be sent
(`Unsent`, `lr/client.cc:133-139`) has no timer and its promise is not told.

**`LRReplica`** is a replica. `pendingTxns` and `committedTxns` are the leader's
tables, `active`, `log` and `store` are per replica. A transaction's log entries
are numbered per transaction (`<<t, lsn>>`); the real log interleaves the
entries of all transactions, which nothing here can observe. The store is what
one transaction sees of `OCCStore`: whether it is prepared, pre-committed (with
its writes, or as an empty transaction) and applied. Validation depends on other
transactions: it may succeed or fail, unless the code skips it. A leader that
cannot send an entry forgets the request (`SendFailed`, `replica.cc:405`), when it
prepares and when its timer fires (`ResendReplicateTxn`); in mode FAST also when it
cannot answer `PREPAREOK`, and then the active transaction with it. The log and the
store stay, and the next prepare starts over with a second entry.

**`Coordinator`** has the message handlers of the co-coordinators, with
`pendingCommits` and `commitResults` as state. **`CoordinatorEnv`** closes it
with the messages replicas send, over transactions that may have read
pre-committed data on the shards in `Blocked` and may be hit by a cascading
abort on those in `Cascading`.

**`FastCommit`** composes `Client` and `LRReplica`; **`D2PC`** composes `Client`,
`LRReplica` and `Coordinator`. **`AtomicCommit`** is the abstract specification:
one outcome per transaction, taken once, a commit only after every participant's
entry is durable, effects only in line with the outcome.

**`LockServer`** is the lock table with its two queue structures. `granted` is a
history variable: what callers were promised and have not given back. How old a
waiter is does not appear; a call prunes any prefix of the queue, which is what
time-ordered waiters allow.

**`LockStore`** puts the locking store and the leader that drives it on top of
`LockServer`. A prepare asks for all locks at once and goes on after one it
cannot get, so a refused prepare leaves locks and queue entries behind. A
decision about a transaction that is not pending is ignored, as by the leader.

**`VersionStore`** has the versions of a key and the list of transactions
pre-committed on it, as operators. **`OCCStore`** is the optimistic store of a
leader on top of it, with validation against the other prepared transactions.
**`ParallelLeader`** is the leader of a shard in mode PARALLEL with several
transactions that read each other's pre-committed data: the dependency counters
and edges, cascading aborts, and the notifications that release a reader. A read
request may come at any time, also after the prepare, and more than once; the
leader counts and lists the reader each time, and the client takes an answer only
while it waits for one. A client near a follower reads there. The coordinators and
clients around it are an environment that keeps the contract proved of
`Coordinator`.

**`CommitModes`** is one transaction in mode SLOW, RC or CAROUSEL. The handlers
are shared by the modes in the code, and the actions are their branches. A reply
field nobody sets reads as 0, as protocol buffers have it: answers that do not
name their replica come from replica 0. `ModesAssumption` leaves out deployments in
which two participants are led in the same region. The code has no such limit. In
mode RC a leader tells its decision to the participants' replicas of its own region
(`replica.cc:832-836`), which obey it when they lead their shard as well
(`replica.cc:963-1013`): there one leader's decision would execute at another's
shard. With one leader per region these messages find no active transaction.

**`VRReplica`** is viewstamped replication: batches of requests, the three
quorum sets, view change, state transfer and the log's `Install` and
`RemoveAfter`. The members of a replica are one record, and a handler maps it to
the next one in the order of the code (`EnterView` before `lastOp` is set,
`CommitUpTo` after). A replica that calls `Panic` takes no more steps. Three
history variables tell what was decided (`decided`) and when the code leaves the
protocol (`stray`, `late`; see the runs).

The assertions of the source are compiled out (`-DNASSERT`, `Makefile:10`), so
no action is guarded by one.

## Runs

| Run | Instance | Checks |
|---|---|---|
| `lock_server` | 2 keys, 4 transactions that read and write them | `StoreTypeOK`, `Exclusion`, `HoldersMatchGrants`, `QueueConsistent`, `WriterNotOvertaken`, `LockedConflictFree`, `ReleasedWhenDecided` |
| `coordinator` | 2 coordinators, participants on shards 0 and 3, a dependency on one, a cascading abort on the other | `CoordTypeOK`, `DecisionIsFaultTolerant`, `OneDecider`, `DecisionRespectsDependencies`, `NoMissedDecision` |
| `fast_commit` | 2 participants, 2 replicas, `f = 1`, 2 attempts, sends that fail at one shard | `TypeOK`, `PrepareOKIsDurable`, `PromiseKept`, `Refinement`, `ClientDecides` |
| `parallel_shards` | 2 participants, one that may refuse and where sends may fail, one that may time out, 1 data centre, 1 attempt | `CommitIsDurable` |
| `parallel_replicas` | 1 participant, a primary shard that takes no part, 2 data centres, `f = 1`, 2 attempts, sends that fail | `TypeOK`, `CommitIsDurable` |
| `parallel_leader` | 3 transactions, 2 keys; one prepares twice and has a read repeated or late, the writer may give up | `TypeOK`, `PreparedConflictFree`, `DependenciesCounted`, `AnnouncedAfterDependencies` |
| `commit_modes` | 5 deployments: each mode with 2 participants, RC and CAROUSEL with 3 live replicas; 2 attempts | `TypeOK`, `SlowCommitIsDurable`, `RCCommitIsVoted`, `CarouselCommitIsDurable`, `AppliedIsDecided` |
| `viewstamped` | 3 replicas, 2 clients, batches of 2; 4 bounds on what happens | `TypeOK`, `ViewstampUnique`, `NumberedOnce`, `CommitSurvives`, `Agreement` |
| `parallel_aborted` | 2 participants | violates `AbortedNotApplied` |
| `parallel_applied` | 2 participants | violates `CommitApplied` |
| `leader_visible` | 3 transactions, 2 loaded keys | violates `CommittedWriteVisible` |
| `slow_applied` | mode SLOW, 2 participants | violates `CommitApplied` |

Some properties hold up to a point, and name it:

- `DependenciesCounted` and `AnnouncedAfterDependencies` speak of each transaction
  that prepares once and is not reached by the abort of another (`Orderly`),
  whatever becomes of the others. A second prepare reads its counter from
  `inDependency`, which the first one has erased (`replica.cc:200`); a cascading
  abort leaves counters as they are. A read request that comes after the prepare
  lists the reader once more at the writer, whose commit then counts for two
  (`replica.cc:1056`): the second property leaves such transactions out (`late`),
  the first says that the counter is then at most the number of edges.
- `ClientDecides` except a client that waits for a request it could not send, when
  every participant that was asked has voted yes (`WaitsForUnsent`).
- `SlowCommitIsDurable` and `RCCommitIsVoted` except the case in which a piece
  of a transaction reaches the primary shard with nothing pending there and is
  split as if it were whole (`split`, `replica.cc:129`): it names no
  participants, so the first vote completes it. The code lets this happen in one
  attempt.
- `CarouselCommitIsDurable` holds for three replicas, where a fast quorum is all
  of them. With five, four votes outvote a leader that has refused
  (`lr/client.cc:451`).
- The properties of `VRReplica` hold until a replica goes *astray* or an entry is
  committed *late*. A replica goes astray
  - when a `STARTVIEW` without entries leaves its old log in place
    (`vr/replica.cc:986`), or a state transfer that takes it to another view
    keeps what lies beyond the last entry sent: it is then in a view with entries
    its leader does not have;
  - when a `STATETRANSFER` reaches the leader of its view, which acknowledges its
    own operations to itself (`vr/replica.cc:776`) and counts itself for another
    replica;
  - when a `STATETRANSFER` of the view it is changing to makes it acknowledge
    operations that the later `STARTVIEW` takes out of its log.

  An entry of an earlier view is committed late when acknowledgements alone commit
  it: it may lose to a log that ends in a view in between, since `lastnormalview`
  is the view of the last entry (`vr/replica.cc:820`), and a replica that executed
  it is left with `lastCommitted` beyond its log. The proofs found the second and
  the third way to go astray and the last consequence; they take more steps than
  the bounds of the run allow. `NumberedOnce` is per view: a new leader does not
  enter the requests it takes over in its client table.

What the violations show:

- **`parallel_aborted`**. A shard refuses a prepare and the client aborts, or the
  client's last attempt times out. A repeated prepare passes afterwards, and the
  coordinators, who see votes and acknowledgements only, commit. The client has
  reported an abort and a replica applies the writes. In PARALLEL mode the
  client and the coordinators are two deciders of one transaction.
- **`parallel_applied`**. `OCCStore::PreCommit` reads `prepared[id]`. When the
  notification comes twice the second call finds no such transaction, makes an
  empty one and stores it over the pre-committed writes. The commit phase then
  applies nothing.
- **`leader_visible`**. No message carries a commit timestamp, so every commit
  has timestamp 0. The versions of a key are a `std::set` ordered by timestamp,
  and a loaded key has a version 0 already: the insert does nothing.
- **`slow_applied`**. The primary shard's leader executes its own decision as
  `PREPAREOK`. `applyToStore` acts on `COMMIT` only, the transaction is
  forgotten, and the client's commit finds nothing to commit.

### Bounds

- *One transaction* per protocol run. Transactions meet in validation and in
  dependencies, which are nondeterministic there and the subject of
  `parallel_leader` and `lock_server`; the handlers never look at two
  transactions together otherwise.
- *`MaxLsn`* bounds the log entries a leader makes for one transaction, so the
  repeated prepares that are accepted as new ones. In `fast_commit` there are two:
  after a send that failed the leader has forgotten the request, the next prepare
  logs a second entry, and acknowledgements of the first are counted for it.
- *`Unsendable`* names the shards to and from whose leader a send may fail: one of
  two in `fast_commit` and `parallel_shards`, both in `parallel_replicas`.
  With these, three replicas per shard take `fast_commit` beyond five minutes, so
  it has two; its safety properties are proved for any number.
- *`COMMIT_RETRIES`* is 2 where the retry matters (the code has 5): a first and
  a second attempt give every overlap of an attempt with replies to an earlier
  one.
- *`Conflicts`* and *`Timers`* name the shards whose validation may fail and whose
  requests may time out. They are all shards, except in `parallel_shards`, where
  the primary shard may refuse and the other one may not answer in time.
- *Two participants* are the least for which votes, acknowledgements and
  replies can be mixed up. Two coordinators have no majority that is neither
  one nor all; the proofs below are for any number. PARALLEL mode with two participants *and* two
  replicas each is beyond five minutes, which is why it is split into
  `parallel_shards` and `parallel_replicas`.
- *Four transactions* reach a lock with two readers, a queued writer and a queued
  reader behind it, and two keys that are locked in part.
- *Three transactions* at a leader: a writer, one that reads it and overwrites
  it, and a reader of both, so that a dependency has a dependency. *`MaxPrepares`*
  lets one of them prepare twice, *`MaxRepeats`* the same one have a read whose
  answer nobody takes, *`Impatient`* the writer of both keys give up, whose abort
  cascades to the two others.
- *`Setup`* of `CommitModes` lists deployments: the mode, the replicas that get
  messages (`live`; the others are those a quorum can do without), who may
  refuse, whether timers fire and whether a late piece is split.
- *`Setup`* of `VRReplica` bounds a behaviour: the requests and operations, the
  replicas whose view-change timer fires and up to which view, and the number of
  state transfers. Four combinations cover normal operation, a view change with
  two operations under way, two view changes that meet, and a view change with
  a state transfer; a larger one (two operations, a view change and a state
  transfer), followed through seven million states and not to the end, showed
  nothing more. Clients are symmetric: handlers only compare
  them.

Deadlock is not checked in the commit runs: when everything is decided the
system stops.

### Fairness

`ClientDecides` assumes weak fairness of each client's own steps: starting an
attempt, finishing, and a prepare timer firing. A timer that is set fires, and a
thread that is signalled runs. No message has to arrive. Nothing is assumed of
replicas or coordinators. A request that was not sent has no timer, which is why
the property has an exception.

## Proofs

Eight modules hold theorems. They are for every value of the constants that the
named assumptions allow; the runs check the same definitions on small instances.
All of them go along the same lines. A property speaks of a client or of an
announcement; what makes it hold is spread over messages under way, tables and
logs. So the inductive invariant says of *every* message and table entry what it
stands for, as an operator of the state it speaks of, and a lemma shows once that
it stays true as messages and logs grow. A handler then answers only for what it
sends and changes.

| Module | About | Theorems |
|---|---|---|
| `LockProofs` | `LockServer`, `LockStore` | `TypeCorrect`, `Bookkeeping`, `QueueSafe`, `SingleWriter`; `StoreTypeCorrect`, `TableSafe`, `PreparedIsolated`, `LocksReleased`, `NotOvertaken` |
| `ParallelLeaderProofs` | `ParallelLeader` | `ValidationIsolates`, `LeaderTyped`, `DependenciesTheorem`, `AnnouncedTheorem` |
| `Handlers` | `Client`, `LRReplica`, `Coordinator` | lemmas about each handler, for the next two |
| `FastCommitProofs` | `FastCommit` | `FastTyped`, `PrepareOKDurable`, `PromiseKeptTheorem`, `ImplementsAtomicCommit` |
| `D2PCProofs` | `CoordinatorEnv`, `D2PC` | `TypeCorrect`, `FaultTolerantDecision`, `DependencyDecision`, `SingleDecider`, `NothingMissed`; `D2PCTyped`, `CommitDurable` |
| `CommitModesProofs` | `CommitModes` | `TypeCorrect`, `AppliedTheorem`; `SlowDurable`, `RCVoted`, `CarouselDurable` |
| `VRLemmas` | `VRReplica` | lemmas about the log, the ledger and normal operation |
| `VRProofs` | `VRReplica` | `VRInvariant`, `VRViewstampUnique`, `VRNumberedOnce`, `VRCommitSurvives`, `VRAgreement` |

### Locks

`HoldersMatchGrants` is not inductive by itself: the next holder comes out of
the queue, which must be typed and without duplicates for the head to be a
requester that leaves it entirely. The inductive invariant `IInv` says, lock by
lock, that the record is well formed, the queue consistent, and the state,
holders and promises match. Lemmas about the three queue operations
(`PruneLemma`, `WaitLemma`, `DequeueLemma`) and about the two answers of a call
(`GrantLemma`, `RefuseLemma`) carry the four calls, each proved with one case
per lock state as in the code's `switch`. `Exclusion` then follows from
`HoldersMatchGrants` by cases.

The same is carried over to the store, where one step takes or drops many locks,
for every set of keys, transactions, read and write sets. `StoreInv` adds that a
prepared transaction holds every lock it wants and that nobody holds one it does
not want; isolation (`PreparedIsolated`) follows from the first with `Exclusion`,
and that `dropLocks` leaves nothing behind (`LocksReleased`) from the second.

`NotOvertaken` is an action property. `Orderly` says of a lock before and after a
call by one requester what the call may do to a writer at the head of the queue;
it composes (`OrderlyTwice`), which matters because a prepare asks twice for a key
it reads and writes, and a release drops both locks of a key in one step.

### The leader in mode PARALLEL

`ValidationIsolates`: no two conflicting transactions are in the validation set
together. Validation looks at the prepared transactions and at the versions; the
invariant says that what a prepared transaction has read is stored and was read
before it prepared, so that its read set does not change under the check.

`LeaderTyped` needs that a stored key has a newest version. The library's
induction theorems are out of reach, so `DropLemma` and `GetLemma` argue with a
least counterexample among the natural numbers (`Least`).

`DependenciesTheorem` and `AnnouncedTheorem` are about the counters of
dependencies. `DepInv` says that pre-commit lists hold only what was pre-committed
(`Lists`), that what is stored is committed (`Versions`), and of each transaction
by itself where it is in the leader's tables (`Life`), that its counter is the
number of edges (`Count`), that whatever it has read from is committed or has an
edge to it (`Track`), and that a vote without dependencies, a notification and an
announcement mean that all it has read from is committed (`Report`). The last three
have the conditions of the two properties (`Orderly`,
`Fine`), and nothing is asked of the other transactions: an abort or a repeated
prepare puts only those it reaches in disorder. The transactions are a finite set.

### Clients, replicas and coordinators

`Handlers` has two invariants. That of the coordinators, `CoordInv`, is

- every message is true of what was sent before it (`MsgOK`): an
  acknowledgement that is forwarded was given, a decision that is announced is
  justified;
- every pending commit is an honest partial view (`PendOK`): its votes and
  acknowledgements come from participants, its flags stand for the conditions
  they were set by, acknowledgements are found at the correspondent
  coordinator only, and it is not ready to be decided;
- a result at the correspondent coordinator is justified (`ResultOK`), since a
  request for the result is answered from it.

Three lemmas say what the code's conditions establish (`ConsensusLemma`,
`ToleranceLemma`, `DependencyLemma`): the code compares *numbers* of shards, and
the proof shows that only participants are counted, so equal numbers mean equal
sets. The first part of `D2PCProofs` draws from it all that `coordinator` checks.

That of clients and replicas, `BaseInv`, is stated over the logs and the clients:
an acknowledgement names a replica that holds an entry, a `PREPAREOK`, the final
decision of the coordinators and a commit mean that enough replicas hold one, and
a decision under way is the client's (`WordOK`, `ClientOK`, `LeaderOK`). It holds
although replies are counted for a transaction whatever the attempt or the log
position they answer.

`FastCommitProofs` adds what a leader's promise needs (`FastInv`): until it has
executed the client's decision, a leader that has answered `PREPAREOK` has the
transaction in its tables, prepared and with its quorum. It forgets a request it
cannot send only before the promise: until there is consensus, or when the very
send that fails is the promise. `ImplementsAtomicCommit`
is the refinement of `AtomicCommit`: the initial states map to initial states and
every action to a step or a stutter, action by action.

The second part of `D2PCProofs` puts both invariants together, with each side answering for its own
messages: replicas send the coordinators only acknowledgements of what they hold,
and a decision of the coordinators has a majority of acknowledgements for every
participant. `CommitDurable` takes the hypothesis `2 * f <= n`: the coordinators
wait for a majority of the replicas, which is f + 1 only then, and
`configuration.cc` accepts any f and n. `D2PCTyped` holds for any f and n; in `Handlers`, `Enough` is the smaller of the two numbers in mode PARALLEL.

The assumptions of all three modules are those of the modules they are about: at
least one shard and one replica, every transaction has a participant,
dependencies are on participants' shards (`NetworkAssumption`, `EnvAssumption`,
`RetriesAssumption` and the assumptions on modes and bounds).

### Modes SLOW, RC and CAROUSEL

`CommitModesProofs` begins with what the three modes share: types, that only the
client's commit is ever applied (`AppliedTheorem`), and that acknowledgements and
a leader's record stand for log entries (`LogInv`). It goes on with what a
`PREPAREOK` stands for at each place it passes: in mode SLOW, f + 1 entries of its
shard, or of all shards once the primary leader has collected them; in mode RC, the
votes of one region's replicas, or of a majority of regions; in mode CAROUSEL, the
entry of the replica that votes. `SlowDurable` and `RCVoted` hold unless a late
piece of the transaction is taken for a whole one, a condition of the two
properties. `CarouselDurable` is for deployments whose fast quorum is all replicas
(`n <= FastQuorumSize`, as with f = 1 and n = 3).

### Viewstamped replication

The four properties are proved for any number n = 2f + 1 of replicas
(`VRAssumption`), any clients, and any bounds in `Setup`, which is left
arbitrary (`SetupAssumption`).

None of them is inductive: they speak of the logs as they are now, and what makes
them true is spread over the messages under way, the quorum sets and the logs
that view changes have replaced. The invariant `IInv` says that there is a
*ledger* L that explains all of it. L has one log per view that was started: the
longest its leader has had in it. `Ledger(L)` says that an entry stamped with view
v is in L[v], at its number, after the same entries as there (`Fits`). On the
ledger rest

- *replicas* (`RepOK`): a replica in a view has a prefix of that view's log, no
  shorter than the one the view started with; the leader has all of it, with the
  clients of this view's requests in its table; what is executed is a committed
  prefix;
- *messages* (`MsgOK`): the entries of a `PREPARE`, `STATETRANSFER`, `DOVIEWCHANGE`
  or `STARTVIEW` are a slice of the log they were taken from, and the numbers they
  carry are committed, started or acknowledged there;
- *votes* (`VoteOK`, `Kept`): an acknowledgement of operation i in view v is a
  promise: the voter's log holds the first i entries of v, unless a view that was
  started since is without them;
- *quorums* (`QuorumAt`): a view was started by a quorum of replicas that had left
  all earlier views, and its log holds what any of them voted for, unless a view
  started in between is without it;
- *decisions* (`DecidedOK`): what was decided was acknowledged by a quorum.

`ChosenStays` is the core: what a quorum has acknowledged in view v is in the log
of every later view. Otherwise take the least later view without it; the quorum
that started it and the quorum that acknowledged have a replica in common, whose
vote was kept, since no view in between is without it. `CandidateKeeps` gives the step that establishes it:
of the logs that a quorum of `DOVIEWCHANGE`s tells of, the one with the greatest last
viewstamp (`LatestMessages`) keeps the votes of all of them (`LatestKeeps`). A step
either leaves the ledger as it is (`StepLemma`), appends to the leader's log
(`LoggedStep`) or adds a view (`LeadStep`); each handler is an instance of one of
these. `InstallLemma` and `EntriesLemma` say what the log's `Install` and the loop of
`HandleStateTransfer` do to a log that fits the ledger.

That two quorums meet, that messages of different replicas count replicas and that
a set of numbers has a least one is all the argument takes from arithmetic. These
three facts are a predicate, `Counting`, which the lemmas have as a hypothesis and
`CountingHolds` proves from the library's theorems on finite sets before the
theorems are drawn.

### Model-checked only

- `ClientDecides`: liveness under fairness is out of the prover's reach.
- `TypeOK` of `VRReplica`. It is checked in all states, also after a replica has
  gone astray, where `lastCommitted` and the log are no longer related by anything
  but the bounds of the run; up to there `VRInvariant` has the types of all members
  but the bound on the view.
- The violated properties of the four runs that show findings.

## Not modelled

Of the parts that are built:

- Sockets, fragmentation and the event loop; parsing of configuration and
  options; latency measurement and benchmarks.
- Requests forgotten because a send failed, outside `Client` and `LRReplica`: in
  mode SLOW (`replica.cc:566-583`, `1326-1332`), at the leader of `ParallelLeader`,
  and read requests. In these modules a send that fails is a message that is lost.
- The undoing of a commit by a cascading abort. A transaction that has read
  pre-committed data is answered `PREPAREOK` with its dependencies open
  (`replica.cc:596-605`), its client may commit, and the abort of the writer then
  takes it out of the store (`replica.cc:748-777`). `ParallelLeader` has these steps
  and states no property about them; in `D2PC` no transaction reads another's data,
  and nothing there says that a commit is never undone.
- A cycle of readers, which late read requests can make: `CascadeAbort` would
  follow it for ever. The modelled behaviour ends there.
- Crashes with recovery: nothing is persisted and no process recovers, so a
  crashed replica is one whose messages are lost from then on. In `VRReplica`
  that is a replica that takes no more steps.
- Lifetimes and data races: the promise between the client's two threads, the
  pointer `latestMsg` in `vr/replica.cc:882`. A callback and an application step
  are atomic.
- A dereference of a null pointer after a late `ParallelModeCommit`
  (`replica.cc:556`) ends the modelled behaviour there.
- Values. A version's value is the transaction that wrote it, and the key that
  `SendPrepare` overwrites with a value (`replica.cc:1305`) is a free choice of
  the shards a piece goes to.
- Eventual application. Followers that get a decision before the entry, readers
  whose notification goes to another coordinator and replicas that send no
  `PREPAREOK` for a shorter log wait for ever. The model reaches these states;
  no line of the source claims otherwise.

Out of the build (`Makefile:125-139`): inconsistent replication, TAPIR's store,
the weak store, the lock service and the time server. The view change of
inconsistent replication merges records through an upcall of the application,
so it would have to be modelled together with TAPIR's store.

The map covers a small share of all lines under `src/`: more than two thirds of
them are a third-party JSON library (`lib/json.hpp`, `lib/nlohmann`), and most of the rest are the inherited
protocols, tests, transports and benchmarks. Of the files of the D2PC system
itself (`replication/lr`, `replication/commit`, `store/strongstore`, the lock
table) nearly all handlers are mapped.
