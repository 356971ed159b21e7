-------------------------------- MODULE D2PC --------------------------------
(***************************************************************************)
(* Mode PARALLEL, the system's own protocol: clients, replicas and         *)
(* coordinators share the network.                                         *)
(***************************************************************************)
EXTENDS Client, LRReplica, Coordinator

ASSUME ParallelAssumption == tpcMode = "PARALLEL"

vars == <<msgs, client, replicaVars, coordVars>>

Init == msgs = {} /\ ClientInit /\ ReplicaInit /\ CoordInit

Next ==
  \/ ClientNext /\ UNCHANGED <<replicaVars, coordVars>>
  \/ (ReplicaNext \/ ReplicaTimers) /\ UNCHANGED <<client, coordVars>>
  \/ ParallelReplicaNext /\ UNCHANGED <<client, coordVars>>
  \/ CoordNext /\ UNCHANGED <<client, replicaVars>>

Spec == Init /\ [][Next]_vars

-----------------------------------------------------------------------------
\* Type correctness of all parties.
TypeOK == ClientTypeOK /\ ReplicaTypeOK /\ CoordTypeOK

\* The replicas of s that hold an entry of t.
Holders(t, s) == {r \in Replica : \E e \in log[s][r] : e[1] = t}

\* A commit is durable, whoever decides it: when the client has returned
\* success or any replica has applied the transaction, f + 1 replicas of every
\* participant hold its entry.  There are two ways to get there, the
\* coordinators' and, after a retry, the leaders' own PREPAREOK replies.
CommitIsDurable ==
  \A t \in Txn :
    (\/ client[t].phase = "committed"
     \/ \E s \in Shard, r \in Replica : store[s][r][t].applied)
    => \A s \in participants[t] : Cardinality(Holders(t, s)) >= f + 1

-----------------------------------------------------------------------------
(***************************************************************************)
(* Statements of the source that the code does not keep.                   *)
(***************************************************************************)

\* "Abort all Get(s) and Put(s) since Begin()"
\* (store/common/frontend/client.h:44): when Commit() has aborted, no replica
\* has applied the transaction's writes.
AbortedNotApplied ==
  \A t \in Txn, s \in Shard, r \in Replica :
    client[t].phase = "aborted" => ~store[s][r][t].applied

\* "the final decision is determined, the leader can execute the commit phase"
\* (replica.cc:1141): a leader that has finished the commit of a transaction
\* has applied its writes.
CommitApplied ==
  \A t \in Txn, s \in Shard :
    (committedTxns[s][t] = "COMMIT" /\ ~pendingTxns[s][t].present)
      => store[s][Leader(s)][t].applied
=============================================================================
