--------------------------- MODULE CoordinatorEnv ---------------------------
(***************************************************************************)
(* The coordinators with the replicas of the shards as their environment,  *)
(* reduced to the messages the replicas send to coordinators.              *)
(***************************************************************************)
EXTENDS Coordinator

CONSTANTS Blocked,     \* shards where a transaction may have dependencies
          Cascading    \* shards where it may be aborted with readers active

ASSUME EnvAssumption == Blocked \subseteq Shard /\ Cascading \subseteq Shard

VARIABLE deps    \* deps[t]: the participants where t has read from a
                 \* transaction that was only pre-committed (getIn() > 0)

envVars == <<coordVars, msgs, deps>>

\* Replica r of participant s has logged t.
ReplicaVotes(t, s, r) ==
  /\ s \in participants[t]
  /\ Send({ReplyAndVote(t, s, r, s \in deps[t])})
  /\ UNCHANGED <<coordVars, deps>>

\* The last transaction t has read from on shard s commits.  The notification
\* goes to the correspondent coordinator c of that transaction, which may be
\* any.
DependenciesClear(t, s, c) ==
  /\ s \in deps[t]
  /\ Send({DependenciesCleared(t, s, c)})
  /\ UNCHANGED <<coordVars, deps>>

\* The leader of s aborts t while an active transaction has read from it.
CascadeAbort(t, s) ==
  /\ s \in participants[t] \cap Cascading
  /\ Send({Vote(t, s)})
  /\ UNCHANGED <<coordVars, deps>>

\* The primary leader gets the client's ParallelModeCommit before the
\* transaction itself, or is not a participant.
LeaderRequests(t) ==
  /\ Send({RequestResult(t)})
  /\ UNCHANGED <<coordVars, deps>>

EnvInit ==
  /\ CoordInit
  /\ msgs = {}
  /\ deps \in [Txn -> SUBSET Blocked]
  /\ \A t \in Txn : deps[t] \subseteq participants[t]

EnvNext ==
  \/ CoordNext /\ UNCHANGED deps
  \/ \E t \in Txn, s \in Shard, r \in Replica :
        \/ ReplicaVotes(t, s, r)
        \/ DependenciesClear(t, s, r)
  \/ \E t \in Txn, s \in Shard : CascadeAbort(t, s)
  \/ \E t \in Txn : LeaderRequests(t)

EnvSpec == EnvInit /\ [][EnvNext]_envVars

-----------------------------------------------------------------------------
\* A coordinator has announced that t commits.
Announced(t) == \E s \in Shard, c \in Replica : ReplicateResult(t, s, c) \in msgs

\* Replicas of s that have acknowledged t.
Acked(t, s) ==
  {r \in Replica : \E d \in BOOLEAN : ReplyAndVote(t, s, r, d) \in msgs}

\* No decision without fault tolerance: when the commit of t is announced,
\* every participant's entry is on a majority of its replicas, whatever the
\* order, loss and duplication of replies (ReachFaultTolerance and the flag
\* it leaves behind).
DecisionIsFaultTolerant ==
  \A t \in Txn : Announced(t) =>
    \A s \in participants[t] : 2 * Cardinality(Acked(t, s)) > n

\* No decision over a pending dependency: when the commit of t is announced,
\* every participant where t has read pre-committed data has been cleared,
\* unless the vote of a cascading abort has slipped t past the check.
DecisionRespectsDependencies ==
  \A t \in Txn : Announced(t) /\ (\A s \in Shard : Vote(t, s) \notin msgs) =>
    \A s \in deps[t] : \E c \in Replica : DependenciesCleared(t, s, c) \in msgs

\* Only the correspondent coordinator announces: nobody else's partial view
\* of the replies is ever taken for a decision.
OneDecider ==
  \A t \in Txn, s \in Shard, c \in Replica :
    ReplicateResult(t, s, c) \in msgs => c = Leader(primary[t])

\* No decision is missed: no coordinator that may decide sits on a pending
\* commit whose three conditions hold.  They become true in any order, each in
\* a handler of its own, and whichever comes last has to decide; no later
\* message would.
NoMissedDecision ==
  \A t \in Txn, c \in Replica :
    LET req == pendingCommits[c][t]
    IN  ~ (/\ req.reach_consensus
           /\ req.fault_tolerant
           /\ AllParticipantsHaveNoPrecommitDependency(req))
=============================================================================
