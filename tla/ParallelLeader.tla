--------------------------- MODULE ParallelLeader ---------------------------
(***************************************************************************)
(* The leader of one shard in mode PARALLEL, with several transactions     *)
(* that read and overwrite each other's data (replication/lr/replica.cc    *)
(* over occstore.cc).  A transaction that is pre-committed has left the    *)
(* validation set; others may read what it wrote, and depend on it from    *)
(* then on.  The leader counts a reader's dependencies (inDependency until *)
(* the reader prepares, then the `in' of its Transaction) and lists a      *)
(* writer's readers (`out').                                               *)
(*                                                                         *)
(* The rest of the system is an environment that keeps its contracts: the  *)
(* replicas acknowledge the entry at some time, the coordinators announce  *)
(* the pre-commit of a transaction once it is logged and its commit once   *)
(* they have been told of no dependency or that all are cleared            *)
(* (DecisionRespectsDependencies in CoordinatorEnv), each once.  The shard *)
(* is the only participant: others would only delay decisions.  Several    *)
(* deliveries of these notifications are the subject of LRReplica.         *)
(*                                                                         *)
(* A read request (GetData) may come late or more than once, and the       *)
(* answer may be lost: the leader counts and lists the reader every time,  *)
(* the client takes an answer only while it waits for one.  A client near  *)
(* a follower reads there.  Of the followers' stores only the loaded keys  *)
(* are modelled: all timestamps are 0, so they keep the loaded value.      *)
(***************************************************************************)
EXTENDS OCCStore

CONSTANTS readSet,         \* per transaction: the keys it will read
          correspondent,   \* per transaction: the coordinator of its primary
          MaxPrepares,     \* bound, per transaction: prepare requests received
          MaxRepeats,      \* bound, per transaction: reads nobody waits for
          Impatient        \* bound: transactions whose client may give up

ASSUME LeaderAssumption ==
  /\ readSet \in [Txn -> SUBSET Key]
  /\ MaxPrepares \in [Txn -> Nat \ {0}] /\ MaxRepeats \in [Txn -> Nat]
  /\ Impatient \subseteq Txn

VARIABLES activeTxns,     \* per transaction: Active
          inDependency,   \* per transaction: dependencies before it prepares
          pendingTxns,    \* per transaction: Pending
          committedTxns,  \* per transaction: the state answered
          client,         \* per transaction: where its client is
          prepares,       \* per transaction: prepare requests received
          answered,       \* transactions answered PREPAREOK
          votes,          \* per transaction: what its coordinator knows
          notified,       \* transactions whose pre-commit was announced
          cleared,        \* NotifyDependenciesAreCleared sent: <<txn, to>>
          announced,      \* transactions whose commit was announced
          repeats,        \* per transaction: reads whose answer was not taken
          seen,           \* history, per transaction and key: the value read
          late,           \* history: transactions read for after a prepare
          cascaded        \* history: transactions an abort has reached

leaderVars == <<activeTxns, inDependency, pendingTxns, committedTxns>>
readVars == <<rset, repeats, seen, late>>
clientVars == <<readVars, client, prepares>>
coordVars == <<votes, notified, cleared, announced>>
vars == <<storeVars, leaderVars, clientVars, answered, coordVars, cascaded>>

\* A lookup of a missing id with operator[] leaves a null pointer behind.  A
\* negative `in' stands for the number 2^64 below which it was assigned.
Active == [entry : {"absent", "null", "present"}, in : Int, out : Seq(Txn)]
NoActive == [entry |-> "absent", in |-> 0, out |-> <<>>]
Pending == [entry : {"absent", "sent", "consensus"}, has_precommit : BOOLEAN]
NoPending == [entry |-> "absent", has_precommit |-> FALSE]

IsPending(t) == pendingTxns[t].entry # "absent"

-----------------------------------------------------------------------------

CountDependency(t, d) ==
  /\ activeTxns' = [activeTxns EXCEPT ![d].out = Append(@, t)]
  /\ inDependency' = [inDependency EXCEPT ![t] = @ + 1]

\* The client takes the answer to the read it waits for (BufferClient::Get).
ReplyTaken(t, k, timestamp, value) ==
  /\ client[t] = "reading" /\ k \notin ReadKeys(t)
  /\ rset' = [rset EXCEPT ![t] = [@ EXCEPT ![k] = timestamp]]
  /\ seen' = [seen EXCEPT ![t] = [@ EXCEPT ![k] = value]]
  /\ UNCHANGED <<repeats, late>>

\* The answer is lost, or comes when nobody waits for it.
ReplyNotTaken(t) ==
  /\ repeats[t] < MaxRepeats[t]
  /\ repeats' = [repeats EXCEPT ![t] = @ + 1]
  /\ late' = IF prepares[t] > 0 THEN late \cup {t} ELSE late
  /\ UNCHANGED <<rset, seen>>

Answered(t, k, timestamp, value) ==
  ReplyTaken(t, k, timestamp, value) \/ ReplyNotTaken(t)

\* One key of a read request.  A dependency that is no longer active gives no
\* value at all, and is not counted.
HandleRead(t, k) ==
  LET g == Get(k)
      d == g.dependency
  IN  /\ k \in readSet[t] /\ inStore(kv[k])
      /\ \/ /\ d = Loader
            /\ UNCHANGED <<activeTxns, inDependency>>
            /\ Answered(t, k, g.timestamp, g.value)
         \/ /\ d # Loader
            /\ activeTxns[d].entry = "present"
            /\ CountDependency(t, d)
            /\ Answered(t, k, g.timestamp, d)
         \/ /\ d # Loader
            /\ activeTxns[d].entry # "present"
            /\ activeTxns' = [activeTxns EXCEPT ![d].entry = "null"]
            /\ UNCHANGED inDependency
            /\ Answered(t, k, g.timestamp, g.value)
      /\ UNCHANGED <<storeVars, pendingTxns, committedTxns, client, prepares,
                     answered, coordVars, cascaded>>

\* The same at a follower, where nothing is ever pre-committed.
HandleReadAtFollower(t, k) ==
  /\ k \in readSet[t] \cap Loaded
  /\ ReplyTaken(t, k, 0, Loader)
  /\ UNCHANGED <<storeVars, leaderVars, client, prepares, answered, coordVars,
                 cascaded>>

\* InvokeReplicateTxn.  A request that is pending is sent again as it is.
InvokeReplicateTxn(t, in) ==
  pendingTxns' = [pendingTxns EXCEPT ![t] =
    IF IsPending(t) THEN @ ELSE [entry |-> "sent", has_precommit |-> in # 0]]

\* A reader whose dependency has aborted is dropped, the first time it asks.
HandlePrepareTxn(t) ==
  LET in == inDependency[t]
      decided == committedTxns[t] # "none"
      agreed == pendingTxns[t].entry = "consensus"
      unknown == in # -1 /\ ~decided /\ ~agreed
  IN  /\ client[t] # "reading" /\ prepares[t] < MaxPrepares[t]
      /\ prepares' = [prepares EXCEPT ![t] = @ + 1]
      /\ \/ /\ in = -1
            /\ inDependency' = [inDependency EXCEPT ![t] = 0]
            /\ UNCHANGED <<storeVars, activeTxns, pendingTxns, answered>>
         \/ /\ in # -1 /\ decided
            /\ UNCHANGED <<storeVars, activeTxns, inDependency, pendingTxns,
                           answered>>
         \/ /\ in # -1 /\ ~decided /\ agreed
            /\ answered' = answered \cup {t}
            /\ UNCHANGED <<storeVars, activeTxns, inDependency, pendingTxns>>
         \/ /\ unknown /\ ~PrepareOK(t)
            /\ inDependency' = [inDependency EXCEPT ![t] = 0]
            /\ StoreAbort({t}, {})
            /\ UNCHANGED <<activeTxns, pendingTxns, answered>>
         \/ /\ unknown /\ PrepareOK(t)
            /\ inDependency' = [inDependency EXCEPT ![t] = 0]
            /\ StorePrepare(t)
            /\ activeTxns' = [activeTxns EXCEPT ![t] =
                 [entry |-> "present", in |-> in, out |-> <<>>]]
            /\ InvokeReplicateTxn(t, in)
            /\ UNCHANGED answered
      /\ UNCHANGED <<readVars, client, committedTxns, coordVars, cascaded>>

\* A quorum of replicas has acknowledged the entry.  The client hears of it
\* only when t has dependencies.
HandleConsensus(t) ==
  /\ pendingTxns[t].entry = "sent"
  /\ pendingTxns' = [pendingTxns EXCEPT ![t].entry = "consensus"]
  /\ answered' = IF pendingTxns[t].has_precommit THEN answered \cup {t}
                 ELSE answered
  /\ UNCHANGED <<storeVars, activeTxns, inDependency, committedTxns,
                 clientVars, coordVars, cascaded>>

-----------------------------------------------------------------------------
(***************************************************************************)
(* Deciding.                                                               *)
(***************************************************************************)
\* Where, and how many times, t is listed as a reader of d.
Listed(d, t) == {i \in DOMAIN activeTxns[d].out : activeTxns[d].out[i] = t}
Times(d, t) == Cardinality(Listed(d, t))

Readers(d) == {t \in Txn : Times(d, t) > 0}

\* decreaseIn, c times: a counter at 0 stays there.
decreaseIn(in, c) == IF 0 =< in /\ in < c THEN 0 ELSE in - c

\* Mutant: every dependency that commits clears the reader
ClearsReaderAlways(d, t) == TRUE

ClearsReader(d, t) == decreaseIn(activeTxns[t].in, Times(d, t)) = 0

\* The commit of d, told to its readers.  The notification that a reader has
\* no dependency left goes to the coordinator of d.  A null entry among the
\* readers is dereferenced; what follows is not modelled.
notifyForFollowingDependenies(d) ==
  /\ \A t \in Readers(d) : activeTxns[t].entry # "null"
  /\ activeTxns' = [t \in Txn |->
       IF t = d THEN NoActive
       ELSE IF activeTxns[t].entry = "present"
         THEN [activeTxns[t] EXCEPT !.in = decreaseIn(@, Times(d, t))]
       ELSE activeTxns[t]]
  /\ inDependency' = [t \in Txn |->
       IF activeTxns[t].entry = "present" THEN inDependency[t]
       ELSE inDependency[t] - Times(d, t)]
  /\ cleared' = cleared \cup
       {<<t, correspondent[d]>> : t \in {u \in Readers(d) :
            activeTxns[u].entry = "present" /\ ClearsReader(d, u)}}

\* The calls CascadeAbort(u) makes: for the readers of u that are active, when
\* u is pending.
CascadesTo(u) ==
  {t \in Readers(u) : IsPending(u) /\ activeTxns[t].entry # "absent"}

\* The transactions visited from those in T.
Visited(T) ==
  LET visited[i \in 0..Cardinality(Txn)] ==
        IF i = 0 THEN T
        ELSE visited[i - 1] \cup UNION {CascadesTo(u) : u \in visited[i - 1]}
  IN  visited[Cardinality(Txn)]

Cascade(d) == Visited({d})

\* Readers that have not prepared yet are marked; the others are aborted in
\* the store, and stay pending.  A cycle of readers, which late requests can
\* make, is followed for ever; what comes of it is not modelled.
CascadeAbort(d) ==
  /\ \A u \in Cascade(d) : u \notin Visited(CascadesTo(u))
  /\ StoreAbort(Cascade(d), {d})
  /\ activeTxns' = [activeTxns EXCEPT ![d] = NoActive]
  /\ inDependency' = [t \in Txn |->
       IF activeTxns[t].entry = "absent"
          /\ \E u \in Cascade(d) : IsPending(u) /\ t \in Readers(u)
         THEN -1 ELSE inDependency[t]]
  /\ cascaded' = cascaded \cup Cascade(d)
                   \cup UNION {Readers(u) : u \in Cascade(d) \cup {d}}
  /\ UNCHANGED cleared

\* Mutant: a timestamp that was not set is no number
CommitTimestampUnset == -1

\* Nobody sets the timestamp of a Commit message.
CommitTimestamp == 0

DoCommit(t, state) ==
  \/ /\ ~IsPending(t)
     /\ UNCHANGED <<storeVars, leaderVars, cleared, cascaded>>
  \/ /\ IsPending(t)
     /\ \/ /\ state = "COMMIT"
           /\ StoreCommit(t, CommitTimestamp)
           /\ notifyForFollowingDependenies(t)
           /\ UNCHANGED cascaded
        \/ state = "ABORT" /\ CascadeAbort(t)
     /\ pendingTxns' = [pendingTxns EXCEPT ![t] = NoPending]
     /\ committedTxns' = [committedTxns EXCEPT ![t] = state]

\* The decision of the client.
HandleCommit(t) ==
  /\ IsPending(t)
  /\ \/ client[t] = "committed" /\ DoCommit(t, "COMMIT")
     \/ client[t] = "aborted" /\ DoCommit(t, "ABORT")
  /\ UNCHANGED <<clientVars, answered, votes, notified, announced>>

\* The announcement of the pre-commit.
HandleDecisionFromCoordinatorReplica(t) ==
  /\ votes[t] # "none" /\ t \notin notified
  /\ notified' = notified \cup {t}
  /\ \/ /\ ~IsPending(t)
        /\ UNCHANGED <<storeVars, committedTxns>>
     \/ /\ IsPending(t)
        /\ StorePreCommit(t)
        /\ committedTxns' = [committedTxns EXCEPT ![t] = "COMMIT"]
  /\ UNCHANGED <<activeTxns, inDependency, pendingTxns, clientVars, answered,
                 votes, cleared, announced, cascaded>>

\* The announcement of the commit, which the client is told of.
HandleReplicateResultFromCoordinatorReplica(t) ==
  /\ votes[t] = "clear" /\ t \notin announced
  /\ announced' = announced \cup {t}
  /\ DoCommit(t, "COMMIT")
  /\ client' = [client EXCEPT ![t] =
       IF IsPending(t) /\ @ = "preparing" THEN "committed" ELSE @]
  /\ UNCHANGED <<readVars, prepares, answered, votes, notified>>

-----------------------------------------------------------------------------
(***************************************************************************)
(* The client and the coordinators.                                        *)
(***************************************************************************)
SetClient(t, phase) ==
  /\ client' = [client EXCEPT ![t] = phase]
  /\ UNCHANGED <<storeVars, leaderVars, readVars, prepares, answered,
                 coordVars, cascaded>>

\* Client::Commit: the requests are sent, all are answered PREPAREOK, or the
\* attempts are used up.
ClientPrepares(t) ==
  /\ client[t] = "reading"
  /\ \A k \in readSet[t] : k \in ReadKeys(t) \/ ~inStore(kv[k])
  /\ SetClient(t, "preparing")

ClientCommits(t) ==
  client[t] = "preparing" /\ t \in answered /\ SetClient(t, "committed")

ClientAborts(t) ==
  client[t] = "preparing" /\ t \in Impatient /\ SetClient(t, "aborted")

SetVote(t, v) ==
  /\ votes' = [votes EXCEPT ![t] = v]
  /\ UNCHANGED <<storeVars, leaderVars, clientVars, answered, notified,
                 cleared, announced, cascaded>>

\* The vote, which says whether t has dependencies, and later the notification
\* that they are cleared.
CoordinatorVote(t) ==
  /\ IsPending(t) /\ votes[t] = "none"
  /\ SetVote(t, IF pendingTxns[t].has_precommit THEN "blocked" ELSE "clear")

CoordinatorCleared(t) ==
  /\ votes[t] = "blocked" /\ <<t, correspondent[t]>> \in cleared
  /\ SetVote(t, "clear")

-----------------------------------------------------------------------------
Init ==
  /\ StoreInit
  /\ activeTxns = [t \in Txn |-> NoActive]
  /\ inDependency = [t \in Txn |-> 0]
  /\ pendingTxns = [t \in Txn |-> NoPending]
  /\ committedTxns = [t \in Txn |-> "none"]
  /\ client = [t \in Txn |-> "reading"]
  /\ prepares = [t \in Txn |-> 0]
  /\ answered = {} /\ notified = {} /\ cleared = {} /\ announced = {}
  /\ votes = [t \in Txn |-> "none"]
  /\ repeats = [t \in Txn |-> 0]
  /\ seen = [t \in Txn |-> [k \in Key |-> Nothing]]
  /\ late = {} /\ cascaded = {}

Next ==
  \E t \in Txn :
    \/ \E k \in Key : HandleRead(t, k) \/ HandleReadAtFollower(t, k)
    \/ HandlePrepareTxn(t)
    \/ HandleConsensus(t)
    \/ HandleCommit(t)
    \/ HandleDecisionFromCoordinatorReplica(t)
    \/ HandleReplicateResultFromCoordinatorReplica(t)
    \/ ClientPrepares(t) \/ ClientCommits(t) \/ ClientAborts(t)
    \/ CoordinatorVote(t) \/ CoordinatorCleared(t)

Spec == Init /\ [][Next]_vars

-----------------------------------------------------------------------------
\* Type correctness of the store and of the leader's tables.
TypeOK ==
  /\ StoreTypeOK
  /\ activeTxns \in [Txn -> Active]
  /\ inDependency \in [Txn -> Int]
  /\ pendingTxns \in [Txn -> Pending]
  /\ committedTxns \in [Txn -> {"none", "COMMIT", "ABORT"}]

\* Validation works: no two transactions that conflict are in the validation
\* set together, whatever was prepared again, pre-committed or aborted with
\* another in between.
PreparedConflictFree ==
  \A t, u \in prepared :
    t # u => writeSet[t] \cap (ReadKeys(u) \cup writeSet[u]) = {}

\* The leader has executed the commit of d.
Finished(d) == committedTxns[d] = "COMMIT" /\ ~IsPending(d)

\* The transactions whose writes t has read.
ReadFrom(t) == {seen[t][k] : k \in Key} \cap Txn

\* The edges that lead to t: <<d, i>> when t is the i-th reader listed at d.
Edges(t) == UNION {{d} \X Listed(d, t) : d \in Txn}

\* Nothing has put the counters of t in disorder: the leader has prepared it
\* once at most, and no abort of another transaction has reached it.
Orderly(t) == prepares[t] =< 1 /\ t \notin cascaded

\* The counters agree with the edges, for every transaction that prepares once
\* and is not hit by the abort of another, whatever becomes of the others: the
\* dependencies it waits for, in inDependency until it prepares and in its `in'
\* while it is active, are as many as the edges that lead to it from active
\* transactions.  HandleRead adds to both, preparing moves the count, the
\* writers' commits take both away.  A read request that comes after the
\* prepare adds an edge alone; it never makes a transaction wait for more than
\* the edges.
DependenciesCounted ==
  \A t \in Txn : Orderly(t) =>
    LET edges == Cardinality(Edges(t))
    IN  /\ prepares[t] = 0 => inDependency[t] = edges
        /\ activeTxns[t].entry = "present" => /\ activeTxns[t].in =< edges
                                              /\ t \in late \/ activeTxns[t].in = edges

\* No commit is announced too early: when the coordinators commit a
\* transaction, everything it has read from is committed at this leader,
\* because its dependencies are counted, reported with its vote and cleared by
\* the last of them.  This holds for every transaction that prepares once, is
\* not hit by the abort of another and has no read request come after its
\* prepare: such a request lists the transaction once more at a writer, whose
\* commit then counts for two.
AnnouncedAfterDependencies ==
  \A t \in announced : Orderly(t) /\ t \notin late =>
    \A d \in ReadFrom(t) : Finished(d)

-----------------------------------------------------------------------------
(***************************************************************************)
(* Statements of the source that the code does not keep.                   *)
(***************************************************************************)

\* "Returns the most recent value and timestamp for given key"
\* (versionstore.cc:32): a key that a committed transaction has written does
\* not hold the value it was loaded with as its newest.
CommittedWriteVisible ==
  \A t \in Txn : Finished(t) =>
    \A k \in writeSet[t] : inStore(kv[k]) /\ newest(kv[k]).value # Loader
=============================================================================
