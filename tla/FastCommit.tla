----------------------------- MODULE FastCommit -----------------------------
(***************************************************************************)
(* Mode FAST: the client is the coordinator.  Clients and replicas share   *)
(* the network; no coordinator process takes part.                         *)
(***************************************************************************)
EXTENDS Client, LRReplica

ASSUME FastAssumption == tpcMode = "FAST"

vars == <<msgs, client, replicaVars>>

Init == msgs = {} /\ ClientInit /\ ReplicaInit

Next ==
  \/ ClientNext /\ UNCHANGED replicaVars
  \/ (ReplicaNext \/ ReplicaTimers) /\ UNCHANGED client

Spec == Init /\ [][Next]_vars

\* The steps a client takes by itself.  A timer that is set fires, and a
\* thread that is woken runs; no message has to arrive.
ClientRuns(t) ==
  \/ Prepare(t) \/ FinishCommit(t) \/ FinishAbort(t)
  \/ \E s \in Shard : PrepareTimeout(t, s)

LiveSpec ==
  Spec /\ \A t \in Txn : WF_vars(ClientRuns(t) /\ UNCHANGED replicaVars)

-----------------------------------------------------------------------------
\* Type correctness of clients and replicas: a leader answers a decided
\* transaction with the decision, never with a vote.
TypeOK == ClientTypeOK /\ ReplicaTypeOK

\* The replicas of s that hold an entry of t.
Holders(t, s) == {r \in Replica : \E e \in log[s][r] : e[1] = t}

\* The refinement mapping.  The decision is the client's.
Outcome == [t \in Txn |-> IF client[t].phase \in {"committed", "aborted"}
                            THEN client[t].phase ELSE "undecided"]

\* The shards where a quorum holds t.
DurableAt ==
  [t \in Txn |-> {s \in Shard : Cardinality(Holders(t, s)) >= QuorumSize}]

\* An abort leaves its mark at the leader only.
Effect ==
  [t \in Txn |-> [s \in Shard |-> [r \in Replica |->
     IF store[s][r][t].applied THEN "applied"
     ELSE IF r = Leader(s) /\ committedTxns[s][t] = "ABORT" THEN "undone"
     ELSE "none"]]]

AC == INSTANCE AtomicCommit WITH
  outcome <- Outcome, durable <- DurableAt, effect <- Effect

\* The mode implements atomic commitment: the decision is the client's, taken
\* once, only after every participant's entry is on a quorum, and a replica
\* applies a transaction, or a leader undoes it, only in line with it, under
\* lost, late and repeated messages, timeouts and retries.
Refinement == AC!Spec

\* "receive preparetxn reply means that the transaction log has been
\* replicated to a majority" (replication/lr/client.cc:217): when a leader has
\* answered PREPAREOK, f + 1 replicas of its shard hold the entry, although
\* acknowledgements are counted by transaction and outlive the request.
PrepareOKIsDurable ==
  \A t \in Txn, s \in Shard :
    PrepareReply(t, s, "PREPAREOK") \in msgs
      => Cardinality(Holders(t, s)) >= f + 1

\* A leader that has answered PREPAREOK keeps its word until it has executed a
\* decision: the transaction stays prepared in the store and pending, though
\* the client may ask again and validation might fail the second time.
PromiseKept ==
  \A t \in Txn, s \in Shard :
    (/\ PrepareReply(t, s, "PREPAREOK") \in msgs
     /\ committedTxns[s][t] = "none")
    => /\ pendingTxns[s][t].present
       /\ store[s][Leader(s)][t].prepared

\* Every other participant has promised to commit, and the requests that could
\* not be sent have no timer left that would end the wait.
WaitsForUnsent(t) ==
  LET cl == client[t]
  IN  /\ cl.phase = "preparing" /\ ~cl.done
      /\ cl.pendingReqs = {} /\ cl.unsent # {}
      /\ cl.preparereplies = participants[t] \ cl.unsent

\* Commit() returns: a client that has started to prepare decides, whatever is
\* lost, because every attempt ends with a reply or a timeout and the attempts
\* are counted.  The one way not to return is a request whose local send fails
\* (lr/client.cc:133-139) when every other participant votes yes.
ClientDecides ==
  \A t \in Txn : client[t].phase = "preparing"
                    ~> \/ client[t].phase \in {"committed", "aborted"}
                       \/ WaitsForUnsent(t)
=============================================================================
