------------------------------ MODULE Handlers ------------------------------
(***************************************************************************)
(* What the handlers of clients, replicas and coordinators keep true, for  *)
(* any number of shards, replicas and transactions.  FastCommitProofs and  *)
(* D2PCProofs put the parts together.                                      *)
(*                                                                         *)
(* Coordinators first.  The facts of their invariant are about the         *)
(* messages sent so far, M, and stay true as M grows: they are written as  *)
(* constant-level operators of M (and of the dependencies D), and their    *)
(* monotonicity is proved once.                                            *)
(***************************************************************************)
EXTENDS Client, LRReplica, Coordinator, FiniteSetTheorems, TLAPS

\* Most leaves are first-order; the ones that need arithmetic or records say SMT.
USE ZenonT(30)

\* Acked and the condition of DecisionIsFaultTolerant, over the messages M.
AckedIn(M, t, s) ==
  {r \in Replica : \E d \in BOOLEAN : ReplyAndVote(t, s, r, d) \in M}

Tolerant(M, t) ==
  \A s \in participants[t] : 2 * Cardinality(AckedIn(M, t, s)) > n

\* The condition of DecisionRespectsDependencies.
Cleared(M, t, s) == \E c \in Replica : DependenciesCleared(t, s, c) \in M

Free(M, D, t) ==
  \/ \E s \in Shard : Vote(t, s) \in M
  \/ \A s \in D[t] : Cleared(M, t, s)

\* What a decision about t rests on, and who may take it.
Justified(M, D, t) == Tolerant(M, t) /\ Free(M, D, t)

Correspondent(c, t) == c = Leader(primary[t])

\* What a message says is so.
MsgOK(M, D, m) ==
  /\ m.tid \in Txn
  /\ m.type = "ReplicateReplyAndVote" =>
       /\ m.shard \in participants[m.tid]
       /\ m.replica \in Replica
       /\ m.hasPreCommit = (m.shard \in D[m.tid])
       /\ m = ReplyAndVote(m.tid, m.shard, m.replica, m.hasPreCommit)
  /\ m.type = "BypassLeaderReply" =>
       /\ m.shard \in participants[m.tid]
       /\ m.replica \in AckedIn(M, m.tid, m.shard)
  /\ m.type = "Vote" =>
       m.shard \in participants[m.tid] /\ m = Vote(m.tid, m.shard)
  /\ m.type = "NotifyDependenciesAreCleared" =>
       m.shard \in participants[m.tid] /\ Cleared(M, m.tid, m.shard)
  /\ m.type = "ReplicateDecision" =>
       m.commit \in BOOLEAN /\ Justified(M, D, m.tid)
  /\ m.type = "ReplyDecision" => m.coordinator \in Replica
  /\ m.type = "NotifyReplicateResult" =>
       Correspondent(m.replica, m.tid) /\ Justified(M, D, m.tid)

\* A pending commit that waits for nothing.
Ready(q) ==
  /\ q.reach_consensus
  /\ q.fault_tolerant
  /\ AllParticipantsHaveNoPrecommitDependency(q)

\* A pending commit q of t at coordinator c, while a handler is at work on it
\* and between handlers.
PendCore(M, D, c, t, q) ==
  /\ q \in PendingCommit
  /\ q.participants \in {{}, participants[t]}
  /\ q.votes \subseteq participants[t]
  /\ q.reach_consensus =>
       q.participants = participants[t] /\ q.votes = participants[t]
  /\ \A s \in Shard :
       /\ q.replicateResults[s] \subseteq AckedIn(M, t, s)
       /\ q.replicateResults[s] # {} =>
            s \in participants[t] /\ Correspondent(c, t)
       /\ q.dependencies[s] # "none" => s \in participants[t]
       /\ q.dependencies[s] = "no" /\ s \in D[t] => Cleared(M, t, s)
  /\ q.fault_tolerant =>
       q.present /\ Correspondent(c, t) /\ Tolerant(M, t)

PendOK(M, D, c, t, q) == PendCore(M, D, c, t, q) /\ ~Ready(q)

\* A result of t at coordinator c.
ResultOK(M, D, c, t, result) ==
  /\ result \in CommitResult \cup {"none"}
  /\ result # "none" /\ Correspondent(c, t) => Justified(M, D, t)

DepsOK(D) == D \in [Txn -> SUBSET Shard]
             /\ \A t \in Txn : D[t] \subseteq participants[t]

(***************************************************************************)
(* The inductive invariant.                                                *)
(***************************************************************************)
CoordInv(D) ==
  /\ CoordTypeOK
  /\ DepsOK(D)
  /\ \A m \in msgs : MsgOK(msgs, D, m)
  /\ \A c \in Replica, t \in Txn :
       /\ PendOK(msgs, D, c, t, pendingCommits[c][t])
       /\ ResultOK(msgs, D, c, t, commitResults[c][t])

-----------------------------------------------------------------------------
(***************************************************************************)
(* Constants.                                                              *)
(***************************************************************************)
\* Shards and replicas are finitely many, and a leader is a replica.
LEMMA ConstantsLemma ==
  /\ IsFiniteSet(Shard) /\ IsFiniteSet(Replica) /\ 0 \in Shard /\ 0 \in Replica
  /\ \A s \in Shard : Leader(s) \in Replica
  /\ \A t \in Txn : /\ participants[t] \subseteq Shard
                    /\ participants[t] # {}
                    /\ primary[t] \in Shard
<1>1. IsFiniteSet(Shard) /\ IsFiniteSet(Replica)
  BY NetworkAssumption, FS_Interval, SMTT(30) DEF Shard, Replica
<1>2. 0 \in Shard /\ 0 \in Replica
  BY NetworkAssumption, SMTT(30) DEF Shard, Replica
<1>3. \A s \in Shard : Leader(s) \in Replica
  BY NetworkAssumption, SMTT(30) DEF Shard, Replica, Leader
<1>4. \A t \in Txn : /\ participants[t] \subseteq Shard
                     /\ participants[t] # {}
                     /\ primary[t] \in Shard
  BY NetworkAssumption
<1> QED BY <1>1, <1>2, <1>3, <1>4

-----------------------------------------------------------------------------
(***************************************************************************)
(* The facts are monotone in the messages.                                 *)
(***************************************************************************)
\* An acknowledgement that was sent stays sent, so does fault tolerance.
LEMMA TolerantMonotone ==
  ASSUME NEW M, NEW N, M \subseteq N, NEW t \in Txn
  PROVE  /\ \A s \in Shard : AckedIn(M, t, s) \subseteq AckedIn(N, t, s)
         /\ Tolerant(M, t) => Tolerant(N, t)
<1>1. \A s \in Shard : AckedIn(M, t, s) \subseteq AckedIn(N, t, s)
  BY DEF AckedIn
<1>2. ASSUME Tolerant(M, t), NEW s \in participants[t]
      PROVE  2 * Cardinality(AckedIn(N, t, s)) > n
  <2>1. s \in Shard
    BY ConstantsLemma
  <2>2. IsFiniteSet(AckedIn(N, t, s)) /\ IsFiniteSet(AckedIn(M, t, s))
    <3>1. /\ AckedIn(N, t, s) \in SUBSET Replica
          /\ AckedIn(M, t, s) \in SUBSET Replica
      BY DEF AckedIn
    <3> QED BY <3>1, ConstantsLemma, FS_Subset
  <2>3. Cardinality(AckedIn(M, t, s)) <= Cardinality(AckedIn(N, t, s))
    BY <1>1, <2>1, <2>2, FS_Subset
  <2>4. /\ Cardinality(AckedIn(M, t, s)) \in Nat
        /\ Cardinality(AckedIn(N, t, s)) \in Nat
    BY <2>2, FS_CardinalityType
  <2>5. 2 * Cardinality(AckedIn(M, t, s)) > n
    BY <1>2 DEF Tolerant
  <2> QED BY <2>3, <2>4, <2>5, NetworkAssumption, SMTT(30)
<1> QED BY <1>1, <1>2 DEF Tolerant

\* So does the clearance of dependencies.
LEMMA ClearedMonotone ==
  ASSUME NEW M, NEW N, M \subseteq N, NEW D, NEW t \in Txn
  PROVE  /\ \A s \in Shard : Cleared(M, t, s) => Cleared(N, t, s)
         /\ DepsOK(D) /\ Free(M, D, t) => Free(N, D, t)
<1>1. \A s \in Shard : Cleared(M, t, s) => Cleared(N, t, s)
  BY DEF Cleared
<1>2. ASSUME DepsOK(D), Free(M, D, t) PROVE Free(N, D, t)
  <2>1. D[t] \subseteq Shard
    BY <1>2 DEF DepsOK
  <2> QED BY <1>1, <1>2, <2>1 DEF Free
<1> QED BY <1>1, <1>2

\* And so does the justification of a decision.
LEMMA JustifiedMonotone ==
  ASSUME NEW M, NEW N, M \subseteq N, NEW D, DepsOK(D), NEW t \in Txn,
         Justified(M, D, t)
  PROVE  Justified(N, D, t)
BY TolerantMonotone, ClearedMonotone DEF Justified

\* What a message says stays so.
LEMMA MsgMonotone ==
  ASSUME NEW M, NEW N, M \subseteq N, NEW D, DepsOK(D), NEW m, MsgOK(M, D, m)
  PROVE  MsgOK(N, D, m)
<1> DEFINE t == m.tid
<1>1. t \in Txn
  BY DEF MsgOK
<1>2. participants[t] \subseteq Shard
  BY <1>1, ConstantsLemma
<1>3. \A s \in Shard : /\ AckedIn(M, t, s) \subseteq AckedIn(N, t, s)
                       /\ Cleared(M, t, s) => Cleared(N, t, s)
  BY <1>1, TolerantMonotone, ClearedMonotone
<1>4. Justified(M, D, t) => Justified(N, D, t)
  BY <1>1, JustifiedMonotone
<1> QED BY <1>2, <1>3, <1>4 DEF MsgOK

\* A pending commit stays in order while other messages are sent.
LEMMA PendMonotone ==
  ASSUME NEW M, NEW N, M \subseteq N, NEW D, NEW c, NEW t \in Txn, NEW q,
         PendOK(M, D, c, t, q)
  PROVE  PendOK(N, D, c, t, q)
<1>1. \A s \in Shard : /\ AckedIn(M, t, s) \subseteq AckedIn(N, t, s)
                       /\ Cleared(M, t, s) => Cleared(N, t, s)
  BY TolerantMonotone, ClearedMonotone
<1>2. Tolerant(M, t) => Tolerant(N, t)
  BY TolerantMonotone
<1> QED BY <1>1, <1>2 DEF PendOK, PendCore

\* So does a result.
LEMMA ResultMonotone ==
  ASSUME NEW M, NEW N, M \subseteq N, NEW D, DepsOK(D), NEW c, NEW t \in Txn,
         NEW result, ResultOK(M, D, c, t, result)
  PROVE  ResultOK(N, D, c, t, result)
BY JustifiedMonotone DEF ResultOK

-----------------------------------------------------------------------------
(***************************************************************************)
(* What the three conditions of a decision establish.                      *)
(***************************************************************************)
\* ReachConsensus on at least one vote means that exactly the participants of
\* the transaction have voted.
LEMMA ConsensusLemma ==
  ASSUME NEW t \in Txn, NEW q, q.participants \in {{}, participants[t]},
         q.votes \subseteq participants[t], q.votes # {}, ReachConsensus(q)
  PROVE  q.participants = participants[t] /\ q.votes = participants[t]
<1>1. IsFiniteSet(participants[t])
  BY ConstantsLemma, FS_Subset
<1>2. IsFiniteSet(q.votes)
  BY <1>1, FS_Subset
<1>3. Cardinality(q.votes) = Cardinality(q.participants)
  BY DEF ReachConsensus
<1>4. q.participants = participants[t]
  BY <1>2, <1>3, FS_EmptySet
<1> QED BY <1>4 DEF ReachConsensus

\* ReachFaultTolerance means that every participant's entry is on a majority:
\* as many shards have acknowledgements as there are participants, only
\* participants have any, so all of them do.
LEMMA ToleranceLemma ==
  ASSUME NEW M, NEW t \in Txn, NEW q,
         q.participants \in {{}, participants[t]},
         \A s \in Shard : /\ q.replicateResults[s] \subseteq AckedIn(M, t, s)
                          /\ q.replicateResults[s] # {} => s \in participants[t],
         ReachFaultTolerance(q)
  PROVE  Tolerant(M, t)
<1> DEFINE replied == {s \in Shard : q.replicateResults[s] # {}}
<1>1. /\ q.participants = participants[t]
      /\ Cardinality(replied) = Cardinality(q.participants)
      /\ \A s \in replied : Cardinality(q.replicateResults[s]) >= Majority
  BY DEF ReachFaultTolerance
<1>2. IsFiniteSet(participants[t])
  BY ConstantsLemma, FS_Subset
<1>3. replied \in SUBSET participants[t]
  OBVIOUS
<1>4. replied = participants[t]
  <2> HIDE DEF replied
  <2> QED BY <1>1, <1>2, <1>3, FS_Subset
<1> SUFFICES ASSUME NEW s \in participants[t]
             PROVE  2 * Cardinality(AckedIn(M, t, s)) > n
  BY DEF Tolerant
<1>5. s \in Shard /\ Cardinality(q.replicateResults[s]) >= Majority
  BY <1>1, <1>4, ConstantsLemma
<1>6. IsFiniteSet(AckedIn(M, t, s))
  <2>1. AckedIn(M, t, s) \in SUBSET Replica
    BY DEF AckedIn
  <2> QED BY <2>1, ConstantsLemma, FS_Subset
<1>7. /\ Cardinality(q.replicateResults[s]) <= Cardinality(AckedIn(M, t, s))
      /\ IsFiniteSet(q.replicateResults[s])
  BY <1>5, <1>6, FS_Subset
<1>8. /\ Cardinality(AckedIn(M, t, s)) \in Nat
      /\ Cardinality(q.replicateResults[s]) \in Nat
  BY <1>6, <1>7, FS_CardinalityType
<1>9. Cardinality(AckedIn(M, t, s)) >= n \div 2 + 1
  BY <1>5, <1>7, <1>8, NetworkAssumption, SMTT(30) DEF Majority
<1> QED BY <1>8, <1>9, NetworkAssumption, SMTT(30)

\* AllParticipantsHaveNoPrecommitDependency means that every dependency of the
\* transaction is cleared: a flag per participant is known, none is set.
LEMMA DependencyLemma ==
  ASSUME NEW M, NEW D, DepsOK(D), NEW t \in Txn, NEW q,
         q.dependencies \in [Shard -> {"none", "yes", "no"}],
         q.participants = participants[t],
         \A s \in Shard :
            /\ q.dependencies[s] # "none" => s \in participants[t]
            /\ q.dependencies[s] = "no" /\ s \in D[t] => Cleared(M, t, s),
         AllParticipantsHaveNoPrecommitDependency(q)
  PROVE  Free(M, D, t)
<1> DEFINE known == {s \in Shard : q.dependencies[s] # "none"}
<1>1. /\ Cardinality(known) = Cardinality(participants[t])
      /\ \A p \in participants[t] : q.dependencies[p] # "yes"
  BY DEF AllParticipantsHaveNoPrecommitDependency
<1>2. IsFiniteSet(participants[t])
  BY ConstantsLemma, FS_Subset
<1>3. known \in SUBSET participants[t]
  OBVIOUS
<1>4. known = participants[t]
  <2> HIDE DEF known
  <2> QED BY <1>1, <1>2, <1>3, FS_Subset
<1> SUFFICES ASSUME NEW s \in D[t] PROVE Cleared(M, t, s)
  BY DEF Free
<1>5. s \in participants[t] /\ s \in Shard
  BY ConstantsLemma DEF DepsOK
<1>6. q.dependencies[s] = "no"
  BY <1>1, <1>4, <1>5
<1> QED BY <1>5, <1>6

\* The dependency check looks at two fields only.
LEMMA SameDependencies ==
  ASSUME NEW p, NEW q, p.dependencies = q.dependencies,
         p.participants = q.participants
  PROVE  AllParticipantsHaveNoPrecommitDependency(p)
           = AllParticipantsHaveNoPrecommitDependency(q)
BY DEF AllParticipantsHaveNoPrecommitDependency

-----------------------------------------------------------------------------
(***************************************************************************)
(* Steps.                                                                  *)
(***************************************************************************)
\* A handler that leaves one pending commit and its result in order, and
\* sends messages that are so, keeps the invariant.
LEMMA UpdateLemma ==
  ASSUME NEW D, CoordInv(D), NEW c \in Replica, NEW t \in Txn, NEW q, NEW result, NEW M,
         pendingCommits' = [pendingCommits EXCEPT
                              ![c] = [@ EXCEPT ![t] = q]],
         commitResults' = [commitResults EXCEPT
                              ![c] = [@ EXCEPT ![t] = result]],
         msgs' = msgs \cup M,
         PendOK(msgs', D, c, t, q),
         ResultOK(msgs', D, c, t, result),
         \A m \in M : MsgOK(msgs', D, m)
  PROVE  CoordInv(D)'
<1>1. msgs \subseteq msgs'
  OBVIOUS
<1>2. DepsOK(D)'
  BY DEF CoordInv, DepsOK
<1>3. \A m \in msgs' : MsgOK(msgs', D, m)
  BY <1>1, MsgMonotone DEF CoordInv
<1>4. q \in PendingCommit /\ result \in CommitResult \cup {"none"}
  BY DEF PendOK, PendCore, ResultOK
<1>5. CoordTypeOK'
  <2>1. pendingCommits \in [Replica -> [Txn -> PendingCommit]]
    BY DEF CoordInv, CoordTypeOK
  <2>2. commitResults \in [Replica -> [Txn -> CommitResult \cup {"none"}]]
    BY DEF CoordInv, CoordTypeOK
  <2>3. pendingCommits' \in [Replica -> [Txn -> PendingCommit]]
    BY <1>4, <2>1
  <2>4. commitResults' \in [Replica -> [Txn -> CommitResult \cup {"none"}]]
    BY <1>4, <2>2
  <2> QED BY <2>3, <2>4 DEF CoordTypeOK
<1>6. ASSUME NEW d \in Replica, NEW u \in Txn
      PROVE  /\ PendOK(msgs', D, d, u, pendingCommits'[d][u])
             /\ ResultOK(msgs', D, d, u, commitResults'[d][u])
  <2>1. CASE d = c /\ u = t
    <3>1. pendingCommits'[d][u] = q /\ commitResults'[d][u] = result
      BY <2>1 DEF CoordInv, CoordTypeOK
    <3> QED BY <2>1, <3>1
  <2>2. CASE ~ (d = c /\ u = t)
    <3>1. /\ pendingCommits'[d][u] = pendingCommits[d][u]
          /\ commitResults'[d][u] = commitResults[d][u]
      BY <2>2 DEF CoordInv, CoordTypeOK
    <3>2. /\ PendOK(msgs, D, d, u, pendingCommits[d][u])
          /\ ResultOK(msgs, D, d, u, commitResults[d][u])
          /\ DepsOK(D)
      BY DEF CoordInv
    <3>3. PendOK(msgs', D, d, u, pendingCommits[d][u])
      BY <1>1, <3>2, PendMonotone
    <3>4. ResultOK(msgs', D, d, u, commitResults[d][u])
      BY <1>1, <3>2, ResultMonotone
    <3> QED BY <3>1, <3>3, <3>4
  <2> QED BY <2>1, <2>2
<1> QED BY <1>2, <1>3, <1>5, <1>6 DEF CoordInv

\* The same for a handler that keeps the transaction pending.
LEMMA PendLemma ==
  ASSUME NEW D, CoordInv(D), NEW c \in Replica, NEW t \in Txn, NEW q, NEW M,
         Pend(c, t, q), Send(M),
         PendOK(msgs, D, c, t, q),
         \A m \in M : MsgOK(msgs, D, m)
  PROVE  CoordInv(D)'
<1>1. msgs' = msgs \cup M /\ msgs \subseteq msgs' /\ DepsOK(D)
  BY DEF Send, CoordInv
<1>2. commitResults' = [commitResults EXCEPT
                          ![c] = [@ EXCEPT ![t] = commitResults[c][t]]]
  BY DEF Pend, CoordInv, CoordTypeOK
<1>3. ResultOK(msgs', D, c, t, commitResults[c][t])
  <2>1. ResultOK(msgs, D, c, t, commitResults[c][t])
    BY DEF CoordInv
  <2> QED BY <1>1, <2>1, ResultMonotone
<1>4. PendOK(msgs', D, c, t, q)
  BY <1>1, PendMonotone
<1>5. \A m \in M : MsgOK(msgs', D, m)
  BY <1>1, MsgMonotone
<1>6. pendingCommits' = [pendingCommits EXCEPT ![c] = [@ EXCEPT ![t] = q]]
  BY DEF Pend
<1> QED BY <1>1, <1>2, <1>3, <1>4, <1>5, <1>6, UpdateLemma

\* No pending commit is a pending commit in order.
LEMMA NoCommitLemma ==
  ASSUME NEW M, NEW D, NEW c, NEW t \in Txn
  PROVE  PendOK(M, D, c, t, NoCommit)
<1>1. NoCommit \in PendingCommit
  BY ConstantsLemma DEF NoCommit, PendingCommit
<1> QED BY <1>1, ConstantsLemma DEF PendOK, PendCore, Ready, NoCommit

\* The same for a handler that decides, when the decision is justified and
\* the coordinator the correspondent one.
LEMMA DecideLemma ==
  ASSUME NEW D, CoordInv(D), NEW c \in Replica, NEW t \in Txn, NEW q, NEW M,
         NEW result \in CommitResult,
         Decide(c, t, q, result, M),
         Correspondent(c, t), Justified(msgs, D, t),
         \A m \in M : MsgOK(msgs, D, m)
  PROVE  CoordInv(D)'
<1> DEFINE N == M \cup NotifyReplicateResult(c, t, q, FALSE)
<1>1. msgs' = msgs \cup N /\ msgs \subseteq msgs' /\ DepsOK(D)
  BY DEF Decide, Send, CoordInv
<1>2. Justified(msgs', D, t)
  BY <1>1, JustifiedMonotone
<1>3. \A m \in N : MsgOK(msgs', D, m)
  <2>1. \A m \in M : MsgOK(msgs', D, m)
    BY <1>1, MsgMonotone
  <2>2. MsgOK(msgs', D, ReplicateResult(t, q.primary_shard, c))
    BY <1>2 DEF MsgOK, ReplicateResult
  <2>3. MsgOK(msgs', D, ReplicateDecision(t, FALSE))
    BY <1>2 DEF MsgOK, ReplicateDecision
  <2> QED BY <2>1, <2>2, <2>3 DEF NotifyReplicateResult
<1>4. ResultOK(msgs', D, c, t, result)
  BY <1>2 DEF ResultOK
<1>5. PendOK(msgs', D, c, t, NoCommit)
  BY NoCommitLemma
<1>6. /\ pendingCommits' = [pendingCommits EXCEPT
                              ![c] = [@ EXCEPT ![t] = NoCommit]]
      /\ commitResults' = [commitResults EXCEPT
                              ![c] = [@ EXCEPT ![t] = result]]
  BY DEF Decide, Record
<1> HIDE DEF N
<1> QED BY <1>1, <1>3, <1>4, <1>5, <1>6, UpdateLemma

\* A pre-commit notification says nothing that could be wrong.
LEMMA NotifyLemma ==
  ASSUME NEW M, NEW D, NEW c, NEW t \in Txn, NEW q,
         NEW m \in NotifyCommitDecision(c, t, q)
  PROVE  MsgOK(M, D, m)
BY SMTT(30) DEF NotifyCommitDecision, NotifyDecision, MsgOK
\* What the invariant says where a handler starts.
LEMMA HandlerLemma ==
  ASSUME NEW D, CoordInv(D), NEW c \in Replica, NEW m \in msgs
  PROVE  /\ MsgOK(msgs, D, m) /\ m.tid \in Txn /\ DepsOK(D)
         /\ PendCore(msgs, D, c, m.tid, pendingCommits[c][m.tid])
         /\ ~Ready(pendingCommits[c][m.tid])
         /\ pendingCommits[c][m.tid] \in PendingCommit
BY DEF CoordInv, MsgOK, PendOK, PendCore

\* Consensus, once reached, is reached for every later vote.
LEMMA StillConsensus ==
  ASSUME NEW q, q.participants = q.votes
  PROVE  ReachConsensus(q)
BY DEF ReachConsensus

\* HandleReplicateReplyAndVote keeps the invariant.  A coordinator that finds
\* the flag of fault tolerance set is the correspondent one, and knows it.
LEMMA ReplyAndVoteLemma ==
  ASSUME NEW D, CoordInv(D), NEW c \in Replica, NEW m \in msgs,
         HandleReplicateReplyAndVote(c, m)
  PROVE  CoordInv(D)'
<1> DEFINE t == m.tid
           s == m.shard
           old == pendingCommits[c][t]
           base == Voted(c, t, s, participants[t], primary[t],
                         Leader(primary[t]))
           flag == IF m.hasPreCommit THEN "yes" ELSE "no"
           req == [base EXCEPT !.dependencies = [@ EXCEPT ![s] = flag]]
           agreed == [req EXCEPT !.reach_consensus = TRUE]
           decided == /\ req.primary_coordinator = c
                      /\ req.fault_tolerant
                      /\ AllParticipantsHaveNoPrecommitDependency(req)
           precommit == NotifyCommitDecision(c, t, req)
           bypass == {Bypass(t, s, m.replica)}
<1>1. /\ m.replica = c
      /\ m.type = "ReplicateReplyAndVote"
      /\ \/ ~ReachConsensus(req) /\ Pend(c, t, req) /\ Send(bypass)
         \/ /\ ReachConsensus(req) /\ ~decided
            /\ Pend(c, t, agreed) /\ Send(precommit \cup bypass)
         \/ /\ ReachConsensus(req) /\ decided
            /\ Decide(c, t, agreed, "PREPARED", precommit \cup bypass)
  BY DEF HandleReplicateReplyAndVote
<1>2. /\ t \in Txn /\ s \in participants[t] /\ s \in Shard /\ DepsOK(D)
      /\ m.hasPreCommit = (s \in D[t])
      /\ m = ReplyAndVote(t, s, c, m.hasPreCommit)
  <2>1. MsgOK(msgs, D, m) /\ t \in Txn /\ DepsOK(D)
    BY HandlerLemma
  <2>2. /\ s \in participants[t] /\ m.hasPreCommit = (s \in D[t])
        /\ m = ReplyAndVote(t, s, c, m.hasPreCommit)
    BY <1>1, <2>1 DEF MsgOK
  <2> QED BY <2>1, <2>2, ConstantsLemma
<1>3. /\ old \in PendingCommit
      /\ PendCore(msgs, D, c, t, old)
      /\ ~Ready(old)
  BY HandlerLemma
<1> HIDE DEF t, s
<1>4. /\ base \in PendingCommit
      /\ base.present = TRUE
      /\ base.participants = participants[t]
      /\ base.votes = old.votes \cup {s}
      /\ base.dependencies = old.dependencies
      /\ base.replicateResults = old.replicateResults
      /\ base.reach_consensus = old.reach_consensus
      /\ base.fault_tolerant = old.fault_tolerant
      /\ old.present => base.primary_coordinator = c
  <2>1. /\ primary[t] \in Shard /\ Leader(primary[t]) \in Replica
        /\ participants[t] \subseteq Shard
    BY <1>2, ConstantsLemma
  <2>2. old.participants \in {{}, participants[t]}
    BY <1>3 DEF PendCore
  <2> QED BY <1>2, <1>3, <2>1, <2>2 DEF Voted, PendingCommit
<1> HIDE DEF old, base
<1>5. /\ req \in PendingCommit
      /\ req.present = TRUE
      /\ req.participants = participants[t]
      /\ req.votes = old.votes \cup {s}
      /\ req.dependencies = [old.dependencies EXCEPT ![s] = flag]
      /\ req.replicateResults = old.replicateResults
      /\ req.reach_consensus = old.reach_consensus
      /\ req.fault_tolerant = old.fault_tolerant
      /\ old.present => req.primary_coordinator = c
  BY <1>2, <1>4 DEF PendingCommit
<1> HIDE DEF req
<1>6. PendCore(msgs, D, c, t, req)
  <2>1. \A x \in Shard :
           /\ req.dependencies[x] # "none" => x \in participants[t]
           /\ req.dependencies[x] = "no" /\ x \in D[t]
                => Cleared(msgs, t, x)
    <3> SUFFICES ASSUME NEW x \in Shard
                 PROVE  /\ req.dependencies[x] # "none" => x \in participants[t]
                        /\ req.dependencies[x] = "no" /\ x \in D[t]
                             => Cleared(msgs, t, x)
      OBVIOUS
    <3>1. old.dependencies \in [Shard -> {"none", "yes", "no"}]
      BY <1>3 DEF PendingCommit
    <3>2. CASE x = s
      BY <1>2, <1>5, <3>1, <3>2
    <3>3. CASE x # s
      BY <1>3, <1>5, <3>1, <3>3 DEF PendCore
    <3> QED BY <3>2, <3>3
  <2>2. req.votes \subseteq participants[t]
    BY <1>2, <1>3, <1>5 DEF PendCore
  <2>3. req.reach_consensus => req.votes = participants[t]
    BY <1>2, <1>3, <1>5 DEF PendCore
  <2> QED BY <1>3, <1>5, <2>1, <2>2, <2>3 DEF PendCore
<1>7. \A x \in precommit \cup bypass : MsgOK(msgs, D, x)
  <2>1. \A x \in precommit : MsgOK(msgs, D, x)
    BY <1>2, NotifyLemma
  <2>2. c \in AckedIn(msgs, t, s)
    <3>1. m.hasPreCommit \in BOOLEAN
      BY <1>2, SMTT(30)
    <3>2. ReplyAndVote(t, s, c, m.hasPreCommit) \in msgs
      BY <1>2
    <3> QED BY <3>1, <3>2 DEF AckedIn
  <2>3. MsgOK(msgs, D, Bypass(t, s, c))
    BY <1>2, <2>2 DEF MsgOK, Bypass
  <2> QED BY <1>1, <2>1, <2>3
<1>8. req.fault_tolerant =>
        /\ req.primary_coordinator = c
        /\ Correspondent(c, t) /\ Tolerant(msgs, t)
  BY <1>3, <1>5 DEF PendCore
<1>9. CASE ~ReachConsensus(req) /\ Pend(c, t, req) /\ Send(bypass)
  <2>1. ~req.reach_consensus
    BY <1>5, <1>6, <1>9, StillConsensus DEF PendCore
  <2>2. PendOK(msgs, D, c, t, req)
    BY <1>6, <2>1 DEF PendOK, Ready
  <2> QED BY <1>2, <1>7, <1>9, <2>2, PendLemma
<1>10. ASSUME ReachConsensus(req)
       PROVE  /\ req.votes = participants[t]
              /\ agreed \in PendingCommit
              /\ PendCore(msgs, D, c, t, agreed)
              /\ AllParticipantsHaveNoPrecommitDependency(agreed)
                   = AllParticipantsHaveNoPrecommitDependency(req)
  <2>1. req.votes = participants[t]
    <3>1. req.votes # {} /\ req.votes \subseteq participants[t]
      BY <1>5, <1>6 DEF PendCore
    <3> QED BY <1>2, <1>5, <1>10, <3>1, ConsensusLemma, SMTT(30)
  <2>2. /\ agreed \in PendingCommit
        /\ agreed.present = req.present
        /\ agreed.participants = req.participants
        /\ agreed.votes = req.votes
        /\ agreed.dependencies = req.dependencies
        /\ agreed.replicateResults = req.replicateResults
        /\ agreed.fault_tolerant = req.fault_tolerant
    BY <1>5 DEF PendingCommit
  <2>3. PendCore(msgs, D, c, t, agreed)
    <3> HIDE DEF agreed
    <3> QED BY <1>5, <1>6, <2>1, <2>2 DEF PendCore
  <2>4. AllParticipantsHaveNoPrecommitDependency(agreed)
          = AllParticipantsHaveNoPrecommitDependency(req)
    BY <2>2, SameDependencies
  <2> QED BY <2>1, <2>2, <2>3, <2>4
<1>11. CASE /\ ReachConsensus(req) /\ ~decided
            /\ Pend(c, t, agreed) /\ Send(precommit \cup bypass)
  <2>1. agreed.fault_tolerant = req.fault_tolerant
    BY <1>5 DEF PendingCommit
  <2>2. PendOK(msgs, D, c, t, agreed)
    BY <1>8, <1>10, <1>11, <2>1 DEF PendOK, Ready
  <2> QED BY <1>2, <1>7, <1>11, <2>2, PendLemma
<1>12. CASE /\ ReachConsensus(req) /\ decided
            /\ Decide(c, t, agreed, "PREPARED", precommit \cup bypass)
  <2>1. Free(msgs, D, t)
    <3>1. req.dependencies \in [Shard -> {"none", "yes", "no"}]
      BY <1>5 DEF PendingCommit
    <3>2. \A x \in Shard :
            /\ req.dependencies[x] # "none" => x \in participants[t]
            /\ req.dependencies[x] = "no" /\ x \in D[t]
                 => Cleared(msgs, t, x)
      BY <1>6 DEF PendCore
    <3> QED BY <1>2, <1>5, <1>12, <3>1, <3>2, DependencyLemma
  <2>2. Justified(msgs, D, t) /\ Correspondent(c, t)
    BY <1>8, <1>12, <2>1 DEF Justified
  <2>3. "PREPARED" \in CommitResult
    BY DEF CommitResult
  <2> QED BY <1>2, <1>7, <1>12, <2>2, <2>3, DecideLemma
<1> QED BY <1>1, <1>9, <1>11, <1>12

\* HandleBypassLeaderReply keeps the invariant: the flag of fault tolerance is
\* set only when the condition holds, and only at the correspondent
\* coordinator, where acknowledgements are sent.
LEMMA BypassLemma ==
  ASSUME NEW D, CoordInv(D), NEW c \in Replica, NEW m \in msgs,
         HandleBypassLeaderReply(c, m)
  PROVE  CoordInv(D)'
<1> DEFINE t == m.tid
           s == m.shard
           old == pendingCommits[c][t]
           acks == [old.replicateResults EXCEPT ![s] = @ \cup {m.replica}]
           req == [old EXCEPT !.present = TRUE, !.replicateResults = acks]
           tolerant == [req EXCEPT !.fault_tolerant = TRUE]
           decided == /\ req.reach_consensus
                      /\ AllParticipantsHaveNoPrecommitDependency(req)
<1>1. old \in PendingCommit /\ PendCore(msgs, D, c, t, old) /\ ~Ready(old)
  BY HandlerLemma
<1>2. /\ m.type = "BypassLeaderReply"
      /\ Correspondent(c, t)
      /\ \/ ~ReachFaultTolerance(req) /\ Pend(c, t, req) /\ UNCHANGED msgs
         \/ /\ ReachFaultTolerance(req) /\ ~decided
            /\ Pend(c, t, tolerant) /\ UNCHANGED msgs
         \/ /\ ReachFaultTolerance(req) /\ decided
            /\ Decide(c, t, tolerant, "COMMIT", {})
  BY DEF HandleBypassLeaderReply, bypassTo, Correspondent
<1>3. /\ t \in Txn /\ s \in participants[t] /\ s \in Shard /\ DepsOK(D)
      /\ m.replica \in AckedIn(msgs, t, s)
  BY <1>2, HandlerLemma, ConstantsLemma DEF MsgOK
<1> HIDE DEF t, s, old
<1>4. acks \in [Shard -> SUBSET Replica]
  <2>1. m.replica \in Replica
    BY <1>3 DEF AckedIn
  <2>2. old.replicateResults \in [Shard -> SUBSET Replica]
    BY <1>1 DEF PendingCommit
  <2> QED BY <1>3, <2>1, <2>2
<1>5. \A x \in Shard : /\ acks[x] \subseteq AckedIn(msgs, t, x)
                       /\ acks[x] # {} => x \in participants[t]
  <2> SUFFICES ASSUME NEW x \in Shard
               PROVE  /\ acks[x] \subseteq AckedIn(msgs, t, x)
                      /\ acks[x] # {} => x \in participants[t]
    OBVIOUS
  <2>1. old.replicateResults \in [Shard -> SUBSET Replica]
    BY <1>1 DEF PendingCommit
  <2>2. CASE x = s
    BY <1>1, <1>3, <2>1, <2>2 DEF PendCore
  <2>3. CASE x # s
    BY <1>1, <1>3, <2>1, <2>3 DEF PendCore
  <2> QED BY <2>2, <2>3
<1> HIDE DEF acks
<1>6. /\ req \in PendingCommit
      /\ req.present = TRUE
      /\ req.participants = old.participants
      /\ req.votes = old.votes
      /\ req.dependencies = old.dependencies
      /\ req.replicateResults = acks
      /\ req.reach_consensus = old.reach_consensus
      /\ req.fault_tolerant = old.fault_tolerant
  BY <1>1, <1>4 DEF PendingCommit
<1> HIDE DEF req
<1>7. PendCore(msgs, D, c, t, req)
  BY <1>1, <1>2, <1>5, <1>6 DEF PendCore
<1>8. AllParticipantsHaveNoPrecommitDependency(req)
        = AllParticipantsHaveNoPrecommitDependency(old)
  BY <1>6, SameDependencies
<1>9. CASE ~ReachFaultTolerance(req) /\ Pend(c, t, req) /\ UNCHANGED msgs
  <2>1. ~Ready(req)
    BY <1>1, <1>6, <1>8 DEF Ready
  <2>2. PendOK(msgs, D, c, t, req) /\ Send({})
    BY <1>7, <1>9, <2>1 DEF PendOK, Send
  <2> QED BY <1>3, <1>9, <2>2, PendLemma
<1>10. ASSUME ReachFaultTolerance(req) PROVE Tolerant(msgs, t)
  <2>1. req.participants \in {{}, participants[t]}
    BY <1>7 DEF PendCore
  <2> QED BY <1>3, <1>5, <1>6, <1>10, <2>1, ToleranceLemma, SMTT(30)
<1>11. CASE /\ ReachFaultTolerance(req) /\ ~decided
            /\ Pend(c, t, tolerant) /\ UNCHANGED msgs
  <2>1. /\ tolerant \in PendingCommit
        /\ tolerant.present = req.present
        /\ tolerant.participants = req.participants
        /\ tolerant.votes = req.votes
        /\ tolerant.dependencies = req.dependencies
        /\ tolerant.replicateResults = req.replicateResults
        /\ tolerant.reach_consensus = req.reach_consensus
        /\ tolerant.fault_tolerant = TRUE
    BY <1>6 DEF PendingCommit
  <2> HIDE DEF tolerant
  <2>2. PendCore(msgs, D, c, t, tolerant)
    BY <1>2, <1>6, <1>7, <1>10, <1>11, <2>1 DEF PendCore
  <2>3. AllParticipantsHaveNoPrecommitDependency(tolerant)
          = AllParticipantsHaveNoPrecommitDependency(req)
    BY <2>1, SameDependencies
  <2>4. PendOK(msgs, D, c, t, tolerant) /\ Send({})
    BY <1>11, <2>1, <2>2, <2>3 DEF PendOK, Ready, Send
  <2> QED BY <1>3, <1>11, <2>4, PendLemma
<1>12. CASE /\ ReachFaultTolerance(req) /\ decided
            /\ Decide(c, t, tolerant, "COMMIT", {})
  <2>1. Free(msgs, D, t)
    <3>1. /\ req.dependencies \in [Shard -> {"none", "yes", "no"}]
          /\ req.participants = participants[t]
      BY <1>6, <1>7, <1>12 DEF PendingCommit, PendCore
    <3>2. \A x \in Shard :
            /\ req.dependencies[x] # "none" => x \in participants[t]
            /\ req.dependencies[x] = "no" /\ x \in D[t]
                 => Cleared(msgs, t, x)
      BY <1>7 DEF PendCore
    <3> QED BY <1>3, <1>12, <3>1, <3>2, DependencyLemma
  <2>2. Justified(msgs, D, t)
    BY <1>10, <1>12, <2>1 DEF Justified
  <2>3. "COMMIT" \in CommitResult
    BY DEF CommitResult
  <2> QED BY <1>2, <1>3, <1>12, <2>2, <2>3, DecideLemma, SMTT(30)
<1> QED BY <1>2, <1>9, <1>11, <1>12

\* HandleNotifyDependenciesAreCleared keeps the invariant: it decides exactly
\* when the notification is the last thing the transaction waited for.
LEMMA ClearedLemma ==
  ASSUME NEW D, CoordInv(D), NEW c \in Replica, NEW m \in msgs,
         HandleNotifyDependenciesAreCleared(c, m)
  PROVE  CoordInv(D)'
<1> DEFINE t == m.tid
           s == m.shard
           old == pendingCommits[c][t]
           flags == [old.dependencies EXCEPT ![s] = "no"]
           req == [old EXCEPT !.dependencies = flags]
<1>1. old \in PendingCommit /\ PendCore(msgs, D, c, t, old) /\ ~Ready(old)
  BY HandlerLemma
<1>2. req = [old EXCEPT !.dependencies = [@ EXCEPT ![s] = "no"]]
  BY <1>1 DEF PendingCommit
<1>3. /\ m.type = "NotifyDependenciesAreCleared"
      /\ \/ ~release(req) /\ Pend(c, t, req) /\ UNCHANGED msgs
         \/ release(req) /\ Decide(c, t, req, "PREPARED", {})
  BY <1>2 DEF HandleNotifyDependenciesAreCleared
<1>4. /\ t \in Txn /\ s \in participants[t] /\ s \in Shard /\ DepsOK(D)
      /\ Cleared(msgs, t, s)
  BY <1>3, HandlerLemma, ConstantsLemma DEF MsgOK
<1> HIDE DEF t, s, old
<1>5. old.dependencies \in [Shard -> {"none", "yes", "no"}]
  BY <1>1 DEF PendingCommit
<1>6. /\ flags \in [Shard -> {"none", "yes", "no"}]
      /\ \A x \in Shard :
           /\ flags[x] # "none" => x \in participants[t]
           /\ flags[x] = "no" /\ x \in D[t] => Cleared(msgs, t, x)
  <2> SUFFICES ASSUME NEW x \in Shard
               PROVE  /\ flags[x] # "none" => x \in participants[t]
                      /\ flags[x] = "no" /\ x \in D[t] => Cleared(msgs, t, x)
    BY <1>5
  <2>1. CASE x = s
    BY <1>4, <1>5, <2>1
  <2>2. CASE x # s
    BY <1>1, <1>5, <2>2 DEF PendCore
  <2> QED BY <2>1, <2>2
<1> HIDE DEF flags
<1>7. /\ req \in PendingCommit
      /\ req.present = old.present
      /\ req.participants = old.participants
      /\ req.votes = old.votes
      /\ req.dependencies = flags
      /\ req.replicateResults = old.replicateResults
      /\ req.reach_consensus = old.reach_consensus
      /\ req.fault_tolerant = old.fault_tolerant
  BY <1>1, <1>6 DEF PendingCommit
<1> HIDE DEF req
<1>8. PendCore(msgs, D, c, t, req)
  BY <1>1, <1>6, <1>7 DEF PendCore
<1>9. CASE ~release(req) /\ Pend(c, t, req) /\ UNCHANGED msgs
  <2>1. PendOK(msgs, D, c, t, req) /\ Send({})
    BY <1>8, <1>9 DEF PendOK, Ready, release, Send
  <2> QED BY <1>4, <1>9, <2>1, PendLemma
<1>10. CASE release(req) /\ Decide(c, t, req, "PREPARED", {})
  <2>1. /\ req.participants = participants[t]
        /\ Tolerant(msgs, t) /\ Correspondent(c, t)
        /\ AllParticipantsHaveNoPrecommitDependency(req)
    BY <1>8, <1>10 DEF release, PendCore
  <2>2. Free(msgs, D, t)
    BY <1>4, <1>6, <1>7, <2>1, DependencyLemma
  <2>3. Justified(msgs, D, t) /\ "PREPARED" \in CommitResult
    BY <2>1, <2>2 DEF Justified, CommitResult
  <2> QED BY <1>4, <1>10, <2>1, <2>3, DecideLemma, SMTT(30)
<1> QED BY <1>3, <1>9, <1>10

\* HandleReplicateDecision keeps the invariant: an announced decision is
\* justified, whatever it is recorded as.
LEMMA ReplicateDecisionLemma ==
  ASSUME NEW D, CoordInv(D), NEW c \in Replica, NEW m \in msgs,
         HandleReplicateDecision(c, m)
  PROVE  CoordInv(D)'
<1> DEFINE t == m.tid
           old == pendingCommits[c][t]
           q == IF Leader(old.primary_shard) = c THEN old ELSE NoCommit
           result == IF m.commit THEN "COMMIT" ELSE "ABORT"
           M == {ReplyDecision(t, c, Leader(old.primary_shard))}
<1>1. /\ m.type = "ReplicateDecision"
      /\ Record(c, t, q, result) /\ Send(M)
  BY DEF HandleReplicateDecision
<1>2. t \in Txn /\ DepsOK(D) /\ Justified(msgs, D, t)
  BY <1>1, HandlerLemma DEF MsgOK
<1> HIDE DEF t
<1>3. msgs' = msgs \cup M /\ msgs \subseteq msgs'
  BY <1>1 DEF Send
<1>4. PendOK(msgs', D, c, t, q)
  <2>1. PendOK(msgs, D, c, t, old)
    BY <1>2 DEF CoordInv
  <2> QED BY <1>2, <1>3, <2>1, PendMonotone, NoCommitLemma, ZenonT(90)
<1>5. ResultOK(msgs', D, c, t, result)
  <2>1. Justified(msgs', D, t)
    BY <1>2, <1>3, JustifiedMonotone
  <2>2. result \in CommitResult
    BY DEF CommitResult
  <2> QED BY <2>1, <2>2 DEF ResultOK
<1>6. \A x \in M : MsgOK(msgs', D, x)
  BY <1>2, SMTT(30) DEF MsgOK, ReplyDecision
<1>7. /\ pendingCommits' = [pendingCommits EXCEPT ![c] = [@ EXCEPT ![t] = q]]
      /\ commitResults' = [commitResults EXCEPT ![c] = [@ EXCEPT ![t] = result]]
  BY <1>1 DEF Record
<1> HIDE DEF q, result, M
<1> QED BY <1>2, <1>3, <1>4, <1>5, <1>6, <1>7, UpdateLemma

\* HandleReplyDecision keeps the invariant: it counts, and forgets.
LEMMA ReplyDecisionLemma ==
  ASSUME NEW D, CoordInv(D), NEW c \in Replica, NEW m \in msgs,
         HandleReplyDecision(c, m)
  PROVE  CoordInv(D)'
<1> DEFINE t == m.tid
           old == pendingCommits[c][t]
           replies == old.decisionReplies \cup {m.coordinator}
           req == [old EXCEPT !.decisionReplies = replies]
           q == IF Cardinality(replies) >= Majority THEN NoCommit ELSE req
<1>1. m.type = "ReplyDecision" /\ Pend(c, t, q) /\ UNCHANGED msgs
  BY DEF HandleReplyDecision
<1>2. t \in Txn /\ m.coordinator \in Replica
  BY <1>1, HandlerLemma DEF MsgOK
<1>3. old \in PendingCommit /\ PendCore(msgs, D, c, t, old) /\ ~Ready(old)
  BY HandlerLemma
<1> HIDE DEF t, old
<1>4. /\ req \in PendingCommit
      /\ req.present = old.present
      /\ req.participants = old.participants
      /\ req.votes = old.votes
      /\ req.dependencies = old.dependencies
      /\ req.replicateResults = old.replicateResults
      /\ req.reach_consensus = old.reach_consensus
      /\ req.fault_tolerant = old.fault_tolerant
  BY <1>2, <1>3 DEF PendingCommit
<1> HIDE DEF req
<1>5. PendCore(msgs, D, c, t, req)
  BY <1>3, <1>4 DEF PendCore
<1>6. ~Ready(req)
  BY <1>3, <1>4, SameDependencies DEF Ready
<1>7. PendOK(msgs, D, c, t, q) /\ Send({})
  BY <1>1, <1>2, <1>5, <1>6, NoCommitLemma DEF PendOK, Send
<1> HIDE DEF q
<1> QED BY <1>1, <1>2, <1>7, PendLemma

\* HandleRequestCommitResult keeps the invariant: an answer to a decided
\* transaction repeats a justified decision.
LEMMA RequestResultLemma ==
  ASSUME NEW D, CoordInv(D), NEW c \in Replica, NEW m \in msgs,
         HandleRequestCommitResult(c, m)
  PROVE  CoordInv(D)'
<1> DEFINE t == m.tid
           old == pendingCommits[c][t]
           parts == IF old.participants = {} THEN participants[t]
                    ELSE old.participants
           coord == IF old.present THEN old.primary_coordinator ELSE c
           req == [old EXCEPT !.present = TRUE, !.participants = parts,
                              !.primary_shard = 0,
                              !.primary_coordinator = coord]
<1>1. /\ t \in Txn /\ DepsOK(D)
      /\ old \in PendingCommit /\ PendCore(msgs, D, c, t, old) /\ ~Ready(old)
  BY HandlerLemma
<1>2. req = [old EXCEPT
              !.present = TRUE,
              !.participants = IF @ = {} THEN participants[t] ELSE @,
              !.primary_shard = 0,
              !.primary_coordinator = IF old.present THEN @ ELSE c]
  BY <1>1 DEF PendingCommit
<1>3. /\ Correspondent(c, t)
      /\ \/ /\ commitResults[c][t] # "none"
            /\ \E junk \in BOOLEAN :
                 Send(NotifyReplicateResult(c, t, req, junk))
            /\ UNCHANGED coordVars
         \/ Pend(c, t, req) /\ UNCHANGED msgs
  BY <1>2 DEF HandleRequestCommitResult, Correspondent
<1> HIDE DEF t
<1>4. parts = participants[t] /\ parts \in SUBSET Shard /\ coord \in Replica
  BY <1>1, ConstantsLemma DEF PendCore, PendingCommit
<1> HIDE DEF parts, coord
<1>5. /\ req \in PendingCommit
      /\ req.present = TRUE
      /\ req.participants = participants[t]
      /\ req.votes = old.votes
      /\ req.dependencies = old.dependencies
      /\ req.replicateResults = old.replicateResults
      /\ req.reach_consensus = old.reach_consensus
      /\ req.fault_tolerant = old.fault_tolerant
  BY <1>1, <1>4, ConstantsLemma DEF PendingCommit
<1> HIDE DEF req
<1>6. CASE /\ commitResults[c][t] # "none"
           /\ \E junk \in BOOLEAN :
                Send(NotifyReplicateResult(c, t, req, junk))
           /\ UNCHANGED coordVars
  <2>1. PICK junk \in BOOLEAN : Send(NotifyReplicateResult(c, t, req, junk))
    BY <1>6
  <2> DEFINE M == NotifyReplicateResult(c, t, req, junk)
  <2>2. msgs' = msgs \cup M /\ msgs \subseteq msgs'
    BY <2>1 DEF Send
  <2>3. /\ PendOK(msgs, D, c, t, old)
        /\ ResultOK(msgs, D, c, t, commitResults[c][t])
    BY <1>1 DEF CoordInv
  <2>4. /\ PendOK(msgs', D, c, t, old)
        /\ ResultOK(msgs', D, c, t, commitResults[c][t])
    BY <1>1, <2>2, <2>3, PendMonotone, ResultMonotone
  <2>5. Justified(msgs', D, t)
    BY <1>3, <1>6, <2>4 DEF ResultOK
  <2>6. \A x \in M : MsgOK(msgs', D, x)
    <3>1. MsgOK(msgs', D, ReplicateResult(t, req.primary_shard, c))
      BY <1>1, <1>3, <2>5 DEF MsgOK, ReplicateResult
    <3>2. MsgOK(msgs', D, ReplicateDecision(t, junk))
      BY <1>1, <2>5 DEF MsgOK, ReplicateDecision
    <3> QED BY <3>1, <3>2 DEF NotifyReplicateResult
  <2>7. /\ pendingCommits' = [pendingCommits EXCEPT
                                ![c] = [@ EXCEPT ![t] = old]]
        /\ commitResults' = [commitResults EXCEPT
                                ![c] = [@ EXCEPT ![t] = commitResults[c][t]]]
    BY <1>1, <1>6 DEF coordVars, CoordInv, CoordTypeOK
  <2> HIDE DEF M
  <2> QED BY <1>1, <2>2, <2>4, <2>6, <2>7, UpdateLemma
<1>7. CASE Pend(c, t, req) /\ UNCHANGED msgs
  <2>1. PendCore(msgs, D, c, t, req)
    BY <1>1, <1>5 DEF PendCore
  <2>2. ~Ready(req)
    <3>1. CASE old.participants = participants[t]
      BY <1>1, <1>5, <3>1, SameDependencies DEF Ready
    <3>2. CASE old.participants # participants[t]
      BY <1>1, <1>5, <3>2 DEF Ready, PendCore
    <3> QED BY <3>1, <3>2
  <2>3. PendOK(msgs, D, c, t, req) /\ Send({})
    BY <1>7, <2>1, <2>2 DEF PendOK, Send
  <2> QED BY <1>1, <1>7, <2>3, PendLemma
<1> QED BY <1>3, <1>6, <1>7

\* HandleVote keeps the invariant.  It decides without a look at dependencies:
\* the vote itself is the excuse.
LEMMA VoteLemma ==
  ASSUME NEW D, CoordInv(D), NEW c \in Replica, NEW m \in msgs,
         HandleVote(c, m)
  PROVE  CoordInv(D)'
<1> DEFINE t == m.tid
           s == m.shard
           old == pendingCommits[c][t]
           req == Voted(c, t, s, {}, 0, 0)
           agreed == [req EXCEPT !.reach_consensus = TRUE]
           decided == req.primary_coordinator = c /\ req.fault_tolerant
           precommit == NotifyCommitDecision(c, t, req)
<1>1. /\ m.type = "Vote"
      /\ \/ ~ReachConsensus(req) /\ Pend(c, t, req) /\ UNCHANGED msgs
         \/ /\ ReachConsensus(req) /\ ~decided
            /\ Pend(c, t, agreed) /\ Send(precommit)
         \/ /\ ReachConsensus(req) /\ decided
            /\ Decide(c, t, agreed, "PREPARED", precommit)
  BY DEF HandleVote
<1>2. /\ t \in Txn /\ s \in participants[t] /\ s \in Shard /\ DepsOK(D)
      /\ m = Vote(t, s)
  BY <1>1, HandlerLemma, ConstantsLemma DEF MsgOK
<1>3. /\ old \in PendingCommit
      /\ PendCore(msgs, D, c, t, old)
      /\ ~Ready(old)
  BY HandlerLemma
<1> HIDE DEF t, s
<1>4. /\ req \in PendingCommit
      /\ req.present = TRUE
      /\ req.participants = old.participants
      /\ req.votes = old.votes \cup {s}
      /\ req.dependencies = old.dependencies
      /\ req.replicateResults = old.replicateResults
      /\ req.reach_consensus = old.reach_consensus
      /\ req.fault_tolerant = old.fault_tolerant
      /\ old.present => req.primary_coordinator = c
  BY <1>2, <1>3, ConstantsLemma DEF Voted, PendingCommit
<1> HIDE DEF old, req
<1>5. PendCore(msgs, D, c, t, req)
  <2>1. /\ req.votes \subseteq participants[t]
        /\ req.reach_consensus => req.votes = participants[t]
    BY <1>2, <1>3, <1>4 DEF PendCore
  <2> QED BY <1>3, <1>4, <2>1 DEF PendCore
<1>6. \A x \in precommit : MsgOK(msgs, D, x)
  BY <1>2, NotifyLemma
<1>7. req.fault_tolerant =>
        /\ req.primary_coordinator = c
        /\ Correspondent(c, t) /\ Tolerant(msgs, t)
  BY <1>3, <1>4 DEF PendCore
<1>8. CASE ~ReachConsensus(req) /\ Pend(c, t, req) /\ UNCHANGED msgs
  <2>1. ~req.reach_consensus
    BY <1>5, <1>8, StillConsensus DEF PendCore
  <2>2. PendOK(msgs, D, c, t, req) /\ Send({})
    BY <1>5, <1>8, <2>1 DEF PendOK, Ready, Send
  <2> QED BY <1>2, <1>8, <2>2, PendLemma
<1>9. CASE /\ ReachConsensus(req) /\ ~decided
           /\ Pend(c, t, agreed) /\ Send(precommit)
  <2>1. req.participants = participants[t] /\ req.votes = participants[t]
    <3>1. /\ req.votes # {} /\ req.votes \subseteq participants[t]
          /\ req.participants \in {{}, participants[t]}
      BY <1>4, <1>5 DEF PendCore
    <3> QED BY <1>2, <1>9, <3>1, ConsensusLemma, SMTT(30)
  <2>2. /\ agreed \in PendingCommit
        /\ agreed.present = req.present
        /\ agreed.participants = req.participants
        /\ agreed.votes = req.votes
        /\ agreed.dependencies = req.dependencies
        /\ agreed.replicateResults = req.replicateResults
        /\ agreed.fault_tolerant = req.fault_tolerant
    BY <1>4 DEF PendingCommit
  <2>3. PendCore(msgs, D, c, t, agreed)
    <3> HIDE DEF agreed
    <3> QED BY <1>5, <2>1, <2>2 DEF PendCore
  <2>4. PendOK(msgs, D, c, t, agreed)
    BY <1>7, <1>9, <2>2, <2>3 DEF PendOK, Ready
  <2> QED BY <1>2, <1>6, <1>9, <2>4, PendLemma
<1>10. CASE /\ ReachConsensus(req) /\ decided
            /\ Decide(c, t, agreed, "PREPARED", precommit)
  <2>1. Free(msgs, D, t)
    BY <1>2 DEF Free
  <2>2. Justified(msgs, D, t) /\ Correspondent(c, t)
    BY <1>7, <1>10, <2>1 DEF Justified
  <2>3. "PREPARED" \in CommitResult
    BY DEF CommitResult
  <2> QED BY <1>2, <1>6, <1>10, <2>2, <2>3, DecideLemma
<1> QED BY <1>1, <1>8, <1>9, <1>10
\* A step that only sends messages that are in order keeps the invariant.
LEMMA CoordSend ==
  ASSUME NEW D, CoordInv(D), msgs \subseteq msgs', UNCHANGED coordVars,
         \A m \in msgs' \ msgs : MsgOK(msgs', D, m)
  PROVE  CoordInv(D)'
<1>1. DepsOK(D)
  BY DEF CoordInv
<1>2. pendingCommits' = pendingCommits /\ commitResults' = commitResults
  BY DEF coordVars
<1>3. \A m \in msgs' : MsgOK(msgs', D, m)
  BY <1>1, MsgMonotone DEF CoordInv
<1>4. ASSUME NEW c \in Replica, NEW t \in Txn
      PROVE  /\ PendOK(msgs', D, c, t, pendingCommits[c][t])
             /\ ResultOK(msgs', D, c, t, commitResults[c][t])
  <2>1. /\ PendOK(msgs, D, c, t, pendingCommits[c][t])
        /\ ResultOK(msgs, D, c, t, commitResults[c][t])
    BY DEF CoordInv
  <2> QED BY <1>1, <2>1, PendMonotone, ResultMonotone
<1>5. CoordTypeOK'
  BY <1>2 DEF CoordInv, CoordTypeOK
<1> QED BY <1>1, <1>2, <1>3, <1>4, <1>5 DEF CoordInv

\* It holds in the initial state.
LEMMA CoordInitLemma ==
  ASSUME NEW D, DepsOK(D), CoordInit, msgs = {}
  PROVE  CoordInv(D)
<1>1. /\ pendingCommits = [c \in Replica |-> [t \in Txn |-> NoCommit]]
      /\ commitResults = [c \in Replica |-> [t \in Txn |-> "none"]]
  BY DEF CoordInit
<1>2. ASSUME NEW c \in Replica, NEW t \in Txn
      PROVE  /\ PendOK(msgs, D, c, t, pendingCommits[c][t])
             /\ ResultOK(msgs, D, c, t, commitResults[c][t])
  <2>1. PendOK(msgs, D, c, t, NoCommit)
    BY NoCommitLemma
  <2> QED BY <1>1, <2>1 DEF ResultOK
<1>3. CoordTypeOK
  <2>1. NoCommit \in PendingCommit
    BY ConstantsLemma DEF NoCommit, PendingCommit
  <2> QED BY <1>1, <2>1 DEF CoordTypeOK
<1> QED BY <1>1, <1>2, <1>3 DEF CoordInv

\* Every step of a coordinator keeps it.
LEMMA CoordNextLemma ==
  ASSUME NEW D, CoordInv(D), CoordNext
  PROVE  CoordInv(D)'
<1>1. PICK c \in Replica, m \in msgs :
         \/ HandleReplicateReplyAndVote(c, m)
         \/ HandleBypassLeaderReply(c, m)
         \/ HandleNotifyDependenciesAreCleared(c, m)
         \/ HandleReplicateDecision(c, m)
         \/ HandleReplyDecision(c, m)
         \/ HandleRequestCommitResult(c, m)
         \/ HandleVote(c, m)
  BY DEF CoordNext
<1> QED BY <1>1, ReplyAndVoteLemma, BypassLemma, ClearedLemma,
           ReplicateDecisionLemma, ReplyDecisionLemma, RequestResultLemma,
           VoteLemma

-----------------------------------------------------------------------------
(***************************************************************************)
(* Clients and replicas.  Their facts are about the logs L and the         *)
(* clients' decisions C, and stay true as logs grow and clients decide.    *)
(***************************************************************************)
\* The replicas of s whose log in L has an entry of t, and what makes t
\* durable.
HoldersIn(L, t, s) == {r \in Replica : \E e \in L[s][r] : e[1] = t}

\* As many as a leader waits for; in parallel mode the coordinators wait for a
\* majority instead, which is fewer when n < 2f.
Enough == IF tpcMode = "PARALLEL" /\ 2 * f > n THEN Majority ELSE f + 1

Stored(L, t, s) == Cardinality(HoldersIn(L, t, s)) >= Enough

Durable(L, t) == \A s \in participants[t] : Stored(L, t, s)

\* Logs only grow.
Grows(L, N) == \A s \in Shard, r \in Replica : L[s][r] \subseteq N[s][r]

\* A decision of a client stays.
Kept(C, E) ==
  \A t \in Txn : C[t].phase \in {"committed", "aborted"}
                   => E[t].phase = C[t].phase

\* What the client of t has decided.
Decided(C, t, state) ==
  \/ state = "COMMIT" /\ C[t].phase = "committed"
  \/ state = "ABORT" /\ C[t].phase = "aborted"

\* What a message of a client or a replica says is so, by the logs L and the
\* clients C.
WordOK(L, C, m) ==
  /\ m.tid \in Txn
  /\ m.type = "PrepareTransaction" => m.shard \in participants[m.tid]
  /\ m.type = "PrepareTransactionReply" =>
       /\ m.shard \in Shard
       /\ m.state = "PREPAREOK" => Stored(L, m.tid, m.shard)
  /\ m.type = "Commit" =>
       /\ m.shard \in participants[m.tid]
       /\ Decided(C, m.tid, m.state)
       /\ m.state = "COMMIT" => Durable(L, m.tid)
  /\ m.type = "ReplicateTransaction" =>
       /\ m.shard \in participants[m.tid]
       /\ m.lsn \in 0..(MaxLsn - 1)
       /\ <<m.tid, m.lsn>> \in L[m.shard][Leader(m.shard)]
  /\ m.type = "ReplicateTransactionReply" =>
       m.shard \in Shard /\ m.replica \in HoldersIn(L, m.tid, m.shard)
  /\ m.type = "ReplicateReplyAndVote" =>
       m.shard \in Shard /\ m.replica \in HoldersIn(L, m.tid, m.shard)
  /\ m.type = "ReplicateCommit" =>
       /\ m.state \in {"COMMIT", "ABORT"}
       /\ m.state = "COMMIT" => Durable(L, m.tid)
  /\ m.type \in {"ParallelModeCommitReply", "NotifyReplicateResult"} =>
       Durable(L, m.tid)

\* The client cl of t counts only what is stored, and has a reason for every
\* success it is told of.
ClientOK(L, t, cl) ==
  /\ cl.phase = "active" => cl.tries = 0
  /\ cl.pendingReqs \subseteq participants[t]
  /\ \A s \in cl.preparereplies : Stored(L, t, s)
  /\ cl.done => \/ cl.fail \/ cl.final
                \/ cl.preparereplies = participants[t]
  /\ cl.fail /\ ~cl.final => cl.reply # "OK"
  /\ cl.final \/ cl.phase = "committed" => Durable(L, t)

\* The leader of s counts only replicas that hold t, sends an entry it has, and
\* aborts t only when its client has.
LeaderOK(L, C, t, s, req, state) ==
  /\ req.quorum \subseteq HoldersIn(L, t, s)
  /\ req.consensus => Stored(L, t, s)
  /\ req.timer => <<t, req.lsn>> \in L[s][Leader(s)]
  /\ state = "ABORT" => C[t].phase = "aborted"

\* The invariant of clients and replicas, in both modes.
BaseInv ==
  /\ ClientTypeOK
  /\ ReplicaTypeOK
  /\ \A m \in msgs : WordOK(log, client, m)
  /\ \A t \in Txn : ClientOK(log, t, client[t])
  /\ \A s \in Shard, t \in Txn :
       LeaderOK(log, client, t, s, pendingTxns[s][t], committedTxns[s][t])
  /\ \A s \in Shard, r \in Replica, t \in Txn :
       store[s][r][t].applied => Durable(log, t)

\* A leader's quorum is enough, and so is a majority in parallel mode.
LEMMA EnoughLemma ==
  /\ Enough \in Nat /\ Enough <= f + 1
  /\ tpcMode = "PARALLEL" => \A k \in Nat : 2 * k > n => k >= Enough
  /\ tpcMode = "FAST" \/ 2 * f <= n => Enough = f + 1
<1>1. /\ n \div 2 \in Nat /\ 2 * (n \div 2) <= n /\ n < 2 * (n \div 2) + 2
      /\ n \in Nat /\ f \in Nat
  BY NetworkAssumption, ReplicaAssumption, SMTT(30)
<1> QED BY <1>1, SMTT(30) DEF Enough, Majority

\* What is stored stays stored.
LEMMA StoredGrows ==
  ASSUME NEW L, NEW N, Grows(L, N), NEW t \in Txn
  PROVE  /\ \A s \in Shard : /\ HoldersIn(L, t, s) \subseteq HoldersIn(N, t, s)
                             /\ Stored(L, t, s) => Stored(N, t, s)
         /\ Durable(L, t) => Durable(N, t)
<1>1. ASSUME NEW s \in Shard
      PROVE  /\ HoldersIn(L, t, s) \subseteq HoldersIn(N, t, s)
             /\ Stored(L, t, s) => Stored(N, t, s)
  <2>1. HoldersIn(L, t, s) \subseteq HoldersIn(N, t, s)
    BY DEF HoldersIn, Grows
  <2>2. HoldersIn(N, t, s) \in SUBSET Replica
    BY DEF HoldersIn
  <2>3. IsFiniteSet(HoldersIn(N, t, s))
    BY <2>2, ConstantsLemma, FS_Subset
  <2>4. /\ Cardinality(HoldersIn(L, t, s)) <= Cardinality(HoldersIn(N, t, s))
        /\ Cardinality(HoldersIn(N, t, s)) \in Nat
        /\ Cardinality(HoldersIn(L, t, s)) \in Nat
    BY <2>1, <2>3, FS_Subset, FS_CardinalityType
  <2> QED BY <2>1, <2>4, EnoughLemma, SMTT(30) DEF Stored
<1> QED BY <1>1, ConstantsLemma DEF Durable

\* What was said stays so.
LEMMA WordGrows ==
  ASSUME NEW L, NEW N, Grows(L, N), NEW C, NEW E, Kept(C, E),
         NEW m, WordOK(L, C, m)
  PROVE  WordOK(N, E, m)
<1> DEFINE t == m.tid
<1>1. t \in Txn
  BY DEF WordOK
<1>2. Decided(C, t, m.state) => Decided(E, t, m.state)
  BY <1>1 DEF Kept, Decided
<1>3. /\ Durable(L, t) => Durable(N, t)
      /\ \A s \in Shard : /\ HoldersIn(L, t, s) \subseteq HoldersIn(N, t, s)
                          /\ Stored(L, t, s) => Stored(N, t, s)
  BY <1>1, StoredGrows
<1>4. \A s \in participants[t] :
        /\ s \in Shard
        /\ <<t, m.lsn>> \in L[s][Leader(s)] => <<t, m.lsn>> \in N[s][Leader(s)]
  BY <1>1, ConstantsLemma DEF Grows
<1> QED BY <1>1, <1>2, <1>3, <1>4 DEF WordOK

\* A step answers only for what it changes.
LEMMA BaseStep ==
  ASSUME BaseInv, ClientTypeOK', ReplicaTypeOK', Grows(log, log'),
         Kept(client, client'),
         \A m \in msgs' \ msgs : WordOK(log', client', m),
         \A t \in Txn : \/ client'[t] = client[t]
                        \/ ClientOK(log', t, client'[t]),
         \A s \in Shard, t \in Txn :
           \/ /\ pendingTxns'[s][t] = pendingTxns[s][t]
              /\ committedTxns'[s][t] = committedTxns[s][t]
           \/ LeaderOK(log', client', t, s, pendingTxns'[s][t],
                       committedTxns'[s][t]),
         \A s \in Shard, r \in Replica, t \in Txn :
           store'[s][r][t].applied => \/ store[s][r][t].applied
                                      \/ Durable(log', t)
  PROVE  BaseInv'
<1>1. PICK L, N, C, E : L = log /\ N = log' /\ C = client /\ E = client'
  OBVIOUS
<1>2. Grows(L, N) /\ Kept(C, E)
  BY <1>1
<1>3. ASSUME NEW m \in msgs' PROVE WordOK(N, E, m)
  <2>1. m \in msgs => WordOK(L, C, m)
    BY <1>1 DEF BaseInv
  <2> QED BY <1>1, <1>2, <2>1, WordGrows
<1>4. ASSUME NEW t \in Txn PROVE ClientOK(N, t, E[t])
  <2>1. ClientOK(L, t, C[t]) /\ C[t] \in ClientState
    BY <1>1 DEF BaseInv, ClientTypeOK
  <2>2. C[t].preparereplies \subseteq Shard
    BY <2>1 DEF ClientState
  <2>3. ClientOK(N, t, C[t])
    BY <1>2, <2>1, <2>2, StoredGrows DEF ClientOK
  <2> QED BY <1>1, <2>3
<1>5. ASSUME NEW s \in Shard, NEW t \in Txn
      PROVE  LeaderOK(N, E, t, s, pendingTxns'[s][t], committedTxns'[s][t])
  <2>1. PICK req, state : req = pendingTxns[s][t] /\ state = committedTxns[s][t]
    OBVIOUS
  <2>2. LeaderOK(L, C, t, s, req, state)
    BY <1>1, <2>1 DEF BaseInv
  <2>3. <<t, req.lsn>> \in L[s][Leader(s)] => <<t, req.lsn>> \in N[s][Leader(s)]
    BY <1>2, ConstantsLemma DEF Grows
  <2>4. C[t].phase = "aborted" => E[t].phase = "aborted"
    BY <1>2 DEF Kept
  <2>5. LeaderOK(N, E, t, s, req, state)
    BY <1>2, <2>2, <2>3, <2>4, StoredGrows DEF LeaderOK
  <2> QED BY <1>1, <2>1, <2>5
<1>6. ASSUME NEW s \in Shard, NEW r \in Replica, NEW t \in Txn,
             store'[s][r][t].applied
      PROVE  Durable(N, t)
  <2>1. store[s][r][t].applied => Durable(L, t)
    BY <1>1 DEF BaseInv
  <2> QED BY <1>1, <1>2, <1>6, <2>1, StoredGrows
<1> QED BY <1>1, <1>3, <1>4, <1>5, <1>6 DEF BaseInv

\* A step of the client of t that leaves the replicas alone.
LEMMA ClientStep ==
  ASSUME BaseInv, UNCHANGED replicaVars, NEW t \in Txn, NEW cl \in ClientState,
         Update(t, cl), ClientOK(log, t, cl),
         client[t].phase \in {"committed", "aborted"}
           => cl.phase = client[t].phase,
         \A m \in msgs' \ msgs : WordOK(log, client', m)
  PROVE  BaseInv'
<1>1. /\ ClientTypeOK' /\ client'[t] = cl
      /\ \A u \in Txn : u # t => client'[u] = client[u]
  BY DEF BaseInv, ClientTypeOK, Update
<1>2. /\ pendingTxns' = pendingTxns /\ committedTxns' = committedTxns
      /\ active' = active /\ log' = log /\ store' = store
  BY DEF replicaVars
<1>3. ReplicaTypeOK'
  BY <1>2 DEF BaseInv, ReplicaTypeOK
<1>4. Grows(log, log')
  BY <1>2 DEF Grows
<1>5. Kept(client, client')
  BY <1>1 DEF Kept
<1> QED BY <1>1, <1>2, <1>3, <1>4, <1>5, BaseStep

\* What the invariant says of the client of t.
LEMMA ClientFacts ==
  ASSUME BaseInv, NEW t \in Txn
  PROVE  client[t] \in ClientState /\ ClientOK(log, t, client[t])
BY DEF BaseInv, ClientTypeOK

\* An answer or a timeout: PREPAREOK is counted only from a shard that has t
\* stored, anything else fails the attempt.
LEMMA PrepareTxnReplyBase ==
  ASSUME BaseInv, UNCHANGED replicaVars, NEW t \in Txn, NEW m \in msgs,
         HandlePrepareTxnReply(t, m)
  PROVE  BaseInv'
<1> DEFINE s == m.shard
           old == client[t]
           cl == [old EXCEPT !.pendingReqs = @ \ {s}]
           r == IF m.state = "PREPAREOK" THEN "OK" ELSE "FAIL"
           rep == PrepareReplied(cl, s, r)
           fin == Completed(t, rep)
<1>1. old \in ClientState /\ ClientOK(log, t, old)
  BY ClientFacts
<1>2. /\ m.type = "PrepareTransactionReply" /\ m.tid = t
      /\ s \in old.pendingReqs /\ UNCHANGED msgs
      /\ Update(t, IF s \in cl.waiting /\ ~cl.final THEN fin ELSE cl)
  BY DEF HandlePrepareTxnReply
<1>3. m.state = "PREPAREOK" => Stored(log, t, s)
  <2>1. WordOK(log, client, m)
    BY DEF BaseInv
  <2> QED BY <1>2, <2>1 DEF WordOK
<1>4. s \in Shard /\ s \in participants[t]
  BY <1>1, <1>2 DEF ClientState, ClientOK
<1> HIDE DEF s, old
<1>5. /\ cl \in ClientState /\ cl.pendingReqs \subseteq old.pendingReqs
      /\ cl.phase = old.phase /\ cl.tries = old.tries
      /\ cl.preparereplies = old.preparereplies /\ cl.done = old.done
      /\ cl.fail = old.fail /\ cl.final = old.final /\ cl.reply = old.reply
  BY <1>1 DEF ClientState
<1>6. ClientOK(log, t, cl)
  BY <1>1, <1>5 DEF ClientOK
<1> HIDE DEF cl
<1>7. ASSUME ~cl.final
      PROVE  fin \in ClientState /\ ClientOK(log, t, fin) /\ fin.phase = cl.phase
  <2>1. CASE m.state = "PREPAREOK"
    <3>1. /\ rep \in ClientState /\ rep.phase = cl.phase /\ rep.tries = cl.tries
          /\ rep.pendingReqs = cl.pendingReqs
          /\ rep.preparereplies = cl.preparereplies \cup {s}
          /\ rep.done = cl.done /\ rep.fail = cl.fail /\ rep.final = cl.final
          /\ rep.reply = cl.reply
      BY <1>4, <1>5, <2>1 DEF PrepareReplied, ClientState
    <3> HIDE DEF rep
    <3>2. /\ fin \in ClientState /\ fin.phase = rep.phase /\ fin.tries = rep.tries
          /\ fin.pendingReqs = rep.pendingReqs
          /\ fin.preparereplies = rep.preparereplies
          /\ fin.done = (rep.done \/ rep.preparereplies = participants[t])
          /\ fin.fail = rep.fail /\ fin.final = rep.final /\ fin.reply = rep.reply
      BY <3>1 DEF Completed, ClientState
    <3> HIDE DEF fin
    <3>3. fin.done => fin.fail \/ fin.preparereplies = participants[t]
      <4>1. cl.preparereplies = participants[t]
              => rep.preparereplies = participants[t]
        BY <1>4, <3>1
      <4>2. cl.done => cl.fail \/ cl.preparereplies = participants[t]
        BY <1>6, <1>7 DEF ClientOK
      <4> QED BY <3>1, <3>2, <4>1, <4>2
    <3> QED BY <1>3, <1>6, <1>7, <2>1, <3>1, <3>2, <3>3 DEF ClientOK
  <2>2. CASE m.state # "PREPAREOK"
    <3>1. /\ rep \in ClientState /\ rep.phase = cl.phase /\ rep.tries = cl.tries
          /\ rep.pendingReqs = cl.pendingReqs
          /\ rep.preparereplies = cl.preparereplies
          /\ rep.done = TRUE /\ rep.fail = TRUE /\ rep.final = cl.final
          /\ rep.reply = "FAIL"
      BY <1>5, <2>2 DEF PrepareReplied, ClientState, Reply
    <3> HIDE DEF rep
    <3>2. /\ fin \in ClientState /\ fin.phase = rep.phase /\ fin.tries = rep.tries
          /\ fin.pendingReqs = rep.pendingReqs
          /\ fin.preparereplies = rep.preparereplies
          /\ fin.fail = rep.fail /\ fin.final = rep.final /\ fin.reply = rep.reply
      BY <3>1 DEF Completed, ClientState
    <3> HIDE DEF fin
    <3> QED BY <1>6, <1>7, <3>1, <3>2 DEF ClientOK
  <2> QED BY <2>1, <2>2
<1> HIDE DEF fin
<1>8. PICK new \in ClientState : /\ Update(t, new) /\ ClientOK(log, t, new)
                                 /\ new.phase = old.phase
  BY <1>2, <1>5, <1>6, <1>7
<1> QED BY <1>2, <1>8, ClientStep DEF old

\* A timer fails the attempt, even one that holds the final decision.
LEMMA PrepareTimeoutBase ==
  ASSUME BaseInv, UNCHANGED replicaVars, NEW t \in Txn, NEW s \in Shard,
         PrepareTimeout(t, s)
  PROVE  BaseInv'
<1> DEFINE old == client[t]
           cl == [old EXCEPT !.pendingReqs = @ \ {s}]
           rep == PrepareReplied(cl, s, "TIMEOUT")
<1>1. old \in ClientState /\ ClientOK(log, t, old)
  BY ClientFacts
<1>2. UNCHANGED msgs /\ Update(t, IF s \in cl.waiting THEN rep ELSE cl)
  BY DEF PrepareTimeout
<1> HIDE DEF old
<1>3. /\ cl \in ClientState /\ cl.pendingReqs \subseteq old.pendingReqs
      /\ cl.phase = old.phase /\ cl.tries = old.tries
      /\ cl.preparereplies = old.preparereplies /\ cl.done = old.done
      /\ cl.fail = old.fail /\ cl.final = old.final /\ cl.reply = old.reply
  BY <1>1 DEF ClientState
<1>4. ClientOK(log, t, cl)
  BY <1>1, <1>3 DEF ClientOK
<1> HIDE DEF cl
<1>5. /\ rep \in ClientState /\ rep.phase = cl.phase /\ rep.tries = cl.tries
      /\ rep.pendingReqs = cl.pendingReqs
      /\ rep.preparereplies = cl.preparereplies
      /\ rep.done = TRUE /\ rep.fail = TRUE /\ rep.final = cl.final
      /\ rep.reply = "TIMEOUT"
  BY <1>3 DEF PrepareReplied, ClientState, Reply
<1> HIDE DEF rep
<1>6. ClientOK(log, t, rep)
  BY <1>4, <1>5 DEF ClientOK
<1> QED BY <1>2, <1>3, <1>4, <1>5, <1>6, ClientStep DEF old

\* The result the primary shard's leader sends, or the timer of the request for
\* it.
LEMMA ParallelReplyBase ==
  ASSUME BaseInv, UNCHANGED replicaVars, NEW t \in Txn,
         \/ ParallelCommitTimeout(t)
         \/ \E m \in msgs : HandleParallelModeCommitReply(t, m)
  PROVE  BaseInv'
<1> DEFINE old == client[t]
           p == primary[t]
<1>1. old \in ClientState /\ ClientOK(log, t, old)
  BY ClientFacts
<1>2. CASE ParallelCommitTimeout(t)
  <2> DEFINE cl == [old EXCEPT !.parallelCommit = FALSE]
  <2>1. UNCHANGED msgs /\ Update(t, cl)
    BY <1>2 DEF ParallelCommitTimeout
  <2> HIDE DEF old
  <2>2. /\ cl \in ClientState /\ cl.pendingReqs = old.pendingReqs
        /\ cl.phase = old.phase /\ cl.tries = old.tries
        /\ cl.preparereplies = old.preparereplies /\ cl.done = old.done
        /\ cl.fail = old.fail /\ cl.final = old.final /\ cl.reply = old.reply
    BY <1>1 DEF ClientState
  <2> HIDE DEF cl
  <2>3. ClientOK(log, t, cl)
    BY <1>1, <2>2 DEF ClientOK
  <2> QED BY <2>1, <2>2, <2>3, ClientStep DEF old
<1>3. ASSUME NEW m \in msgs, HandleParallelModeCommitReply(t, m)
      PROVE  BaseInv'
  <2> DEFINE cl == [old EXCEPT !.parallelCommit = FALSE,
                               !.pendingReqs = @ \ {p}]
             fin == [cl EXCEPT !.waiting = @ \ {p}, !.final = TRUE,
                               !.done = TRUE, !.reply = "OK"]
  <2>1. /\ m.type = "ParallelModeCommitReply" /\ m.tid = t /\ UNCHANGED msgs
        /\ Update(t, IF p \in cl.waiting THEN fin ELSE cl)
    BY <1>3 DEF HandleParallelModeCommitReply
  <2>2. Durable(log, t)
    <3>1. WordOK(log, client, m)
      BY DEF BaseInv
    <3> QED BY <2>1, <3>1 DEF WordOK
  <2> HIDE DEF old
  <2>3. /\ cl \in ClientState /\ cl.pendingReqs \subseteq old.pendingReqs
        /\ cl.phase = old.phase /\ cl.tries = old.tries
        /\ cl.preparereplies = old.preparereplies /\ cl.done = old.done
        /\ cl.fail = old.fail /\ cl.final = old.final /\ cl.reply = old.reply
    BY <1>1 DEF ClientState
  <2>4. ClientOK(log, t, cl)
    BY <1>1, <2>3 DEF ClientOK
  <2> HIDE DEF cl
  <2>5. /\ fin \in ClientState /\ fin.pendingReqs = cl.pendingReqs
        /\ fin.phase = cl.phase /\ fin.tries = cl.tries
        /\ fin.preparereplies = cl.preparereplies
        /\ fin.final = TRUE /\ fin.reply = "OK"
    BY <2>3 DEF ClientState, Reply
  <2> HIDE DEF fin
  <2>6. ClientOK(log, t, fin)
    BY <2>2, <2>4, <2>5 DEF ClientOK
  <2> QED BY <2>1, <2>3, <2>4, <2>5, <2>6, ClientStep DEF old
<1> QED BY <1>2, <1>3

\* The requests and decisions a client sends are to participants, and a commit
\* only of what is durable.
LEMMA PrepareBase ==
  ASSUME BaseInv, UNCHANGED replicaVars, NEW t \in Txn, Prepare(t)
  PROVE  BaseInv'
<1> DEFINE old == client[t]
           parallel == tpcMode = "PARALLEL"
           asked == participants[t] \cup (IF parallel THEN {primary[t]} ELSE {})
<1>1. PICK unsent \in SUBSET (participants[t] \cap Unsendable),
           result \in {parallel, parallel /\ primary[t] \notin Unsendable} :
        /\ Update(t, [NewClient EXCEPT
             !.phase = "preparing",
             !.tries = old.tries + 1,
             !.pendingReqs = participants[t] \ unsent,
             !.parallelCommit = result \/ old.parallelCommit,
             !.waiting = asked,
             !.unsent = unsent])
        /\ Send({PrepareTransaction(t, s) : s \in participants[t] \ unsent}
                 \cup (IF result THEN {ParallelModeCommit(t)} ELSE {}))
  BY DEF Prepare, Unsent, ResultAsked
<1> DEFINE told == result \/ old.parallelCommit
           cl == [NewClient EXCEPT !.phase = "preparing",
                                   !.tries = old.tries + 1,
                                   !.pendingReqs = participants[t] \ unsent,
                                   !.parallelCommit = told,
                                   !.waiting = asked,
                                   !.unsent = unsent]
           M == {PrepareTransaction(t, s) : s \in participants[t] \ unsent}
                  \cup (IF result THEN {ParallelModeCommit(t)} ELSE {})
<1>2. MayPrepare(old) /\ Update(t, cl) /\ Send(M)
  BY <1>1 DEF Prepare
<1>3. /\ asked \subseteq Shard /\ participants[t] \subseteq Shard
      /\ unsent \subseteq Shard /\ told \in BOOLEAN
  BY ConstantsLemma
<1>4. old \in ClientState /\ ClientOK(log, t, old)
  BY ClientFacts
<1>5. old.tries + 1 \in 0..COMMIT_RETRIES
  BY <1>2, <1>4, RetriesAssumption, SMTT(30)
     DEF MayPrepare, ClientOK, ClientState
<1>6. old.phase \notin {"committed", "aborted"}
  BY <1>2 DEF MayPrepare
<1> HIDE DEF old, asked, parallel, told
<1>7. cl \in ClientState
  BY <1>3, <1>5 DEF NewClient, ClientState, Reply
<1>8. ClientOK(log, t, cl)
  BY DEF NewClient, ClientOK
<1>9. ASSUME NEW m \in M PROVE WordOK(log, client', m)
  BY SMTT(30) DEF PrepareTransaction, ParallelModeCommit, WordOK
<1> HIDE DEF cl, M
<1> QED BY <1>2, <1>6, <1>7, <1>8, <1>9, ClientStep DEF old, Send

LEMMA FinishBase ==
  ASSUME BaseInv, UNCHANGED replicaVars, NEW t \in Txn,
         FinishCommit(t) \/ FinishAbort(t) \/ Abort(t)
  PROVE  BaseInv'
<1> DEFINE old == client[t]
<1>1. old \in ClientState /\ ClientOK(log, t, old)
  BY ClientFacts
<1>2. ASSUME NEW phase, NEW state, Finish(t, phase, state),
             old.phase \in {"active", "preparing"},
             \/ phase = "committed" /\ state = "COMMIT" /\ Durable(log, t)
             \/ phase = "aborted" /\ state = "ABORT"
      PROVE  BaseInv'
  <2> DEFINE cl == [NewClient EXCEPT !.phase = phase, !.tries = old.tries]
             M == {Commit(t, s, state) : s \in participants[t]}
  <2>1. Update(t, cl) /\ Send(M)
    BY <1>2 DEF Finish
  <2>2. old.tries \in 0..COMMIT_RETRIES
    BY <1>1 DEF ClientState
  <2> HIDE DEF old
  <2>3. cl \in ClientState
    BY <1>2, <2>2 DEF NewClient, ClientState, Reply
  <2>4. ClientOK(log, t, cl)
    BY <1>2 DEF NewClient, ClientOK
  <2>5. cl.phase = phase
    BY DEF NewClient
  <2>6. client'[t] = cl
    BY <2>1 DEF Update, BaseInv, ClientTypeOK
  <2> HIDE DEF cl
  <2>7. Decided(client', t, state)
    BY <1>2, <2>5, <2>6 DEF Decided
  <2>8. ASSUME NEW m \in M PROVE WordOK(log, client', m)
    <3>1. PICK s \in participants[t] : m = Commit(t, s, state)
      OBVIOUS
    <3> QED BY <1>2, <2>7, <3>1 DEF Commit, WordOK
  <2> HIDE DEF M
  <2> QED BY <1>2, <2>1, <2>3, <2>4, <2>5, <2>8, ClientStep DEF old, Send
<1>3. CASE FinishCommit(t)
  <2>1. MayCommit(old) /\ Finish(t, "committed", "COMMIT")
    BY <1>3 DEF FinishCommit
  <2>2. Durable(log, t)
    BY <1>1, <2>1 DEF MayCommit, PrepareStatus, ClientOK, Durable
  <2> QED BY <1>2, <2>1, <2>2 DEF MayCommit
<1>4. CASE FinishAbort(t) \/ Abort(t)
  BY <1>2, <1>4 DEF FinishAbort, Abort
<1> QED BY <1>3, <1>4

\* Every step of a client keeps the invariant.
LEMMA ClientBase ==
  ASSUME BaseInv, UNCHANGED replicaVars, ClientNext
  PROVE  BaseInv'
BY PrepareBase, FinishBase, ParallelReplyBase, PrepareTimeoutBase,
   PrepareTxnReplyBase DEF ClientNext

\* What a handler of a replica finds.
LEMMA ReplicaFacts ==
  ASSUME BaseInv, NEW s \in Shard, NEW m \in msgs
  PROVE  /\ WordOK(log, client, m) /\ m.tid \in Txn
         /\ pendingTxns[s][m.tid] \in PendingTransaction
         /\ committedTxns[s][m.tid] \in {"none", "COMMIT", "ABORT"}
         /\ LeaderOK(log, client, m.tid, s, pendingTxns[s][m.tid],
                     committedTxns[s][m.tid])
         /\ \A r \in Replica : store[s][r][m.tid] \in StoreState
<1>1. WordOK(log, client, m)
  BY DEF BaseInv
<1>2. m.tid \in Txn
  BY <1>1 DEF WordOK
<1>3. LeaderOK(log, client, m.tid, s, pendingTxns[s][m.tid],
               committedTxns[s][m.tid])
  BY <1>2 DEF BaseInv
<1>4. ReplicaTypeOK
  BY DEF BaseInv
<1> QED BY <1>1, <1>2, <1>3, <1>4, SMTT(30) DEF ReplicaTypeOK

\* A handler writes one entry of a table.
LEMMA SetStoreLemma ==
  ASSUME BaseInv, NEW s \in Shard, NEW r \in Replica, NEW t \in Txn,
         NEW st \in StoreState, SetStore(s, r, t, st)
  PROVE  /\ store' \in [Shard -> [Replica -> [Txn -> StoreState]]]
         /\ store'[s][r][t] = st
         /\ \A x \in Shard, y \in Replica, z \in Txn :
              ~ (x = s /\ y = r /\ z = t) => store'[x][y][z] = store[x][y][z]
BY SMTT(30) DEF BaseInv, ReplicaTypeOK, SetStore

LEMMA SetPendingLemma ==
  ASSUME BaseInv, NEW s \in Shard, NEW t \in Txn,
         NEW req \in PendingTransaction, SetPending(s, t, req)
  PROVE  /\ pendingTxns' \in [Shard -> [Txn -> PendingTransaction]]
         /\ pendingTxns'[s][t] = req
         /\ \A x \in Shard, z \in Txn :
              ~ (x = s /\ z = t) => pendingTxns'[x][z] = pendingTxns[x][z]
BY DEF BaseInv, ReplicaTypeOK, SetPending

LEMMA SetCommittedLemma ==
  ASSUME BaseInv, NEW s \in Shard, NEW t \in Txn,
         NEW state \in {"COMMIT", "ABORT"}, SetCommitted(s, t, state)
  PROVE  /\ committedTxns' \in [Shard -> [Txn -> {"none", "COMMIT", "ABORT"}]]
         /\ committedTxns'[s][t] = state
         /\ \A x \in Shard, z \in Txn :
              ~ (x = s /\ z = t) => committedTxns'[x][z] = committedTxns[x][z]
BY DEF BaseInv, ReplicaTypeOK, SetCommitted

LEMMA ActiveLemma ==
  ASSUME BaseInv, NEW s \in Shard, NEW r \in Replica, NEW t \in Txn,
         \/ active' = [active EXCEPT ![s][r] = @ \cup {t}]
         \/ active' = [active EXCEPT ![s][r] = @ \ {t}]
  PROVE  active' \in [Shard -> [Replica -> SUBSET Txn]]
<1>1. active \in [Shard -> [Replica -> SUBSET Txn]]
  BY DEF BaseInv, ReplicaTypeOK
<1>2. CASE active' = [active EXCEPT ![s][r] = @ \cup {t}]
  BY <1>1, <1>2
<1>3. CASE active' = [active EXCEPT ![s][r] = @ \ {t}]
  BY <1>1, <1>3
<1> QED BY <1>2, <1>3

LEMMA LogLemma ==
  ASSUME BaseInv, NEW s \in Shard, NEW r \in Replica, NEW t \in Txn,
         NEW lsn \in 0..(MaxLsn - 1),
         log' = [log EXCEPT ![s][r] = @ \cup {<<t, lsn>>}]
  PROVE  /\ log' \in [Shard -> [Replica -> SUBSET (Txn \X (0..(MaxLsn - 1)))]]
         /\ Grows(log, log')
         /\ <<t, lsn>> \in log'[s][r]
         /\ r \in HoldersIn(log', t, s)
<1>1. /\ log' \in [Shard -> [Replica -> SUBSET (Txn \X (0..(MaxLsn - 1)))]]
      /\ log'[s][r] = log[s][r] \cup {<<t, lsn>>}
      /\ \A x \in Shard, y \in Replica : ~ (x = s /\ y = r) => log'[x][y] = log[x][y]
  BY SMTT(30) DEF BaseInv, ReplicaTypeOK
<1>2. Grows(log, log')
  BY <1>1 DEF Grows
<1>3. <<t, lsn>> \in log'[s][r] /\ <<t, lsn>>[1] = t
  BY <1>1
<1>4. r \in HoldersIn(log', t, s)
  BY <1>3 DEF HoldersIn
<1> QED BY <1>1, <1>2, <1>3, <1>4

\* The store's operations keep its type, and only a commit applies anything.
LEMMA StoreLemma ==
  ASSUME NEW st \in StoreState
  PROVE  /\ StorePrepare(st) \in StoreState
         /\ StorePreCommit(st) \in StoreState
         /\ StoreAbort(st) \in StoreState
         /\ StorePrepare(st).applied = st.applied
         /\ StorePrepare(st).prepared = TRUE
         /\ StorePreCommit(st).applied = st.applied
         /\ StoreAbort(st).applied = st.applied
         /\ \A state : applyToStore(st, state) \in StoreState
         /\ applyToStore(st, "ABORT").applied = st.applied
<1>1. StorePrepare(st) \in StoreState /\ StorePrepare(st).applied = st.applied
      /\ StorePrepare(st).prepared = TRUE
  BY DEF StorePrepare, StoreState
<1>2. StorePreCommit(st) \in StoreState /\ StorePreCommit(st).applied = st.applied
  BY DEF StorePreCommit, StoreState
<1>3. StoreAbort(st) \in StoreState /\ StoreAbort(st).applied = st.applied
  BY DEF StoreAbort, StoreState
<1>4. StoreCommit(st) \in StoreState
  <2>1. /\ st.prepared \in BOOLEAN /\ st.applied \in BOOLEAN
        /\ (st.applied \/ st.precommitted = "writes") \in BOOLEAN
        /\ (st.applied \/ st.prepared) \in BOOLEAN
    BY DEF StoreState
  <2> QED BY <2>1 DEF StoreCommit, StoreState
<1> QED BY <1>1, <1>2, <1>3, <1>4 DEF applyToStore

\* A step of the replicas, that changes the leader's entry of t at s and the
\* stores' of t at most.
LEMMA ReplicaStep ==
  ASSUME BaseInv, UNCHANGED client, ReplicaTypeOK', Grows(log, log'),
         NEW s \in Shard, NEW t \in Txn,
         \A m \in msgs' \ msgs : WordOK(log', client, m),
         LeaderOK(log', client, t, s, pendingTxns'[s][t], committedTxns'[s][t]),
         \A x \in Shard, z \in Txn :
           ~ (x = s /\ z = t) => /\ pendingTxns'[x][z] = pendingTxns[x][z]
                                 /\ committedTxns'[x][z] = committedTxns[x][z],
         \A x \in Shard, y \in Replica, z \in Txn :
           store'[x][y][z].applied => \/ store[x][y][z].applied
                                      \/ Durable(log', z)
  PROVE  BaseInv'
<1>1. ClientTypeOK' /\ Kept(client, client')
  BY DEF BaseInv, ClientTypeOK, Kept
<1>2. \A x \in Shard, z \in Txn :
        \/ /\ pendingTxns'[x][z] = pendingTxns[x][z]
           /\ committedTxns'[x][z] = committedTxns[x][z]
        \/ LeaderOK(log', client', z, x, pendingTxns'[x][z],
                    committedTxns'[x][z])
  OBVIOUS
<1> QED BY <1>1, <1>2, BaseStep

\* A step of the replicas that writes no table of a leader.
LEMMA QuietStep ==
  ASSUME BaseInv, UNCHANGED <<client, pendingTxns, committedTxns>>,
         ReplicaTypeOK', Grows(log, log'),
         \A m \in msgs' \ msgs : WordOK(log', client, m),
         \A x \in Shard, y \in Replica, z \in Txn :
           store'[x][y][z].applied => \/ store[x][y][z].applied
                                      \/ Durable(log', z)
  PROVE  BaseInv'
<1>1. ClientTypeOK' /\ Kept(client, client')
  BY DEF BaseInv, ClientTypeOK, Kept
<1> QED BY <1>1, BaseStep

\* A leader that forgets a request has nothing to answer for.
LEMMA ForgetLemma ==
  ASSUME BaseInv, NEW s \in Shard, NEW t \in Txn
  PROVE  /\ NoTransaction \in PendingTransaction
         /\ \A L, C, state : (state = "ABORT" => C[t].phase = "aborted")
                              => LeaderOK(L, C, t, s, NoTransaction, state)
         /\ SendFailed(s, t) =>
              /\ pendingTxns' \in [Shard -> [Txn -> PendingTransaction]]
              /\ pendingTxns'[s][t] = NoTransaction
              /\ \A x \in Shard, z \in Txn :
                   ~ (x = s /\ z = t) => pendingTxns'[x][z] = pendingTxns[x][z]
<1>1. NoTransaction \in PendingTransaction
  BY ReplicaAssumption, SMTT(30) DEF NoTransaction, PendingTransaction
<1>2. \A L, C, state : (state = "ABORT" => C[t].phase = "aborted")
                         => LeaderOK(L, C, t, s, NoTransaction, state)
  BY DEF LeaderOK, NoTransaction
<1>3. SendFailed(s, t) => SetPending(s, t, NoTransaction)
  BY DEF SendFailed
<1> QED BY <1>1, <1>2, <1>3, SetPendingLemma

\* Whoever loses a request of t at s, and the rest of the tables not, keeps the
\* invariant.
LEMMA ForgetStep ==
  ASSUME BaseInv, NEW s \in Shard, NEW t \in Txn, SendFailed(s, t),
         UNCHANGED <<client, committedTxns>>, Grows(log, log'),
         log' \in [Shard -> [Replica -> SUBSET (Txn \X (0..(MaxLsn - 1)))]],
         active' \in [Shard -> [Replica -> SUBSET Txn]],
         store' \in [Shard -> [Replica -> [Txn -> StoreState]]],
         \A x \in Shard, y \in Replica, z \in Txn :
           store'[x][y][z].applied = store[x][y][z].applied,
         \A m \in msgs' \ msgs : WordOK(log', client, m)
  PROVE  BaseInv'
<1>1. /\ pendingTxns' \in [Shard -> [Txn -> PendingTransaction]]
      /\ pendingTxns'[s][t] = NoTransaction
      /\ \A x \in Shard, z \in Txn :
           ~ (x = s /\ z = t) => pendingTxns'[x][z] = pendingTxns[x][z]
  BY ForgetLemma
<1>2. ReplicaTypeOK'
  BY <1>1 DEF BaseInv, ReplicaTypeOK
<1>3. committedTxns[s][t] = "ABORT" => client[t].phase = "aborted"
  BY DEF BaseInv, LeaderOK
<1>4. LeaderOK(log', client, t, s, pendingTxns'[s][t], committedTxns'[s][t])
  BY <1>1, <1>3, ForgetLemma
<1> QED BY <1>1, <1>2, <1>4, ReplicaStep

\* HandlePrepareTxn: the leader answers PREPAREOK only for what is stored, and
\* sends an entry it has logged.
LEMMA PrepareTxnBase ==
  ASSUME BaseInv, UNCHANGED client, NEW s \in Shard, NEW m \in msgs,
         HandlePrepareTxn(s, m)
  PROVE  BaseInv'
<1> DEFINE t == m.tid
           req == pendingTxns[s][t]
           state == committedTxns[s][t]
           r == Leader(s)
           st == store[s][r][t]
           lsn == NextLsn(s, t)
<1>1. /\ m.type = "PrepareTransaction" /\ m.shard = s
      /\ \/ /\ state # "none" /\ Send({PrepareReply(t, s, state)})
            /\ UNCHANGED replicaVars
         \/ /\ req.consensus /\ Send({PrepareReply(t, s, "PREPAREOK")})
            /\ UNCHANGED replicaVars
         \/ /\ SetStore(s, r, t, StoreAbort(st))
            /\ Send({PrepareReply(t, s, "ABORT")})
            /\ UNCHANGED <<pendingTxns, committedTxns, active, log>>
         \/ /\ SetStore(s, r, t, StorePrepare(st))
            /\ active' = [active EXCEPT ![s][r] = @ \cup {t}]
            /\ InvokeReplicateTxn(s, t)
            /\ UNCHANGED committedTxns
  BY DEF HandlePrepareTxn
<1>2. /\ t \in Txn /\ req \in PendingTransaction
      /\ state \in {"none", "COMMIT", "ABORT"}
      /\ LeaderOK(log, client, t, s, req, state)
      /\ r \in Replica /\ st \in StoreState
  BY ReplicaFacts, ConstantsLemma
<1>3. s \in participants[t]
  <2>1. WordOK(log, client, m)
    BY ReplicaFacts
  <2> QED BY <1>1, <2>1 DEF WordOK
<1>4. ReplicaTypeOK
  BY DEF BaseInv
<1>5. ASSUME NEW word, WordOK(log, client, PrepareReply(t, s, word)),
             Send({PrepareReply(t, s, word)}), UNCHANGED replicaVars
      PROVE  BaseInv'
  <2>1. /\ UNCHANGED <<pendingTxns, committedTxns>> /\ log' = log
        /\ store' = store /\ active' = active
    BY <1>5 DEF replicaVars
  <2>2. ReplicaTypeOK' /\ Grows(log, log')
    BY <1>4, <2>1 DEF ReplicaTypeOK, Grows
  <2>3. \A x \in msgs' \ msgs : WordOK(log', client, x)
    BY <1>5, <2>1 DEF Send
  <2> QED BY <2>1, <2>2, <2>3, QuietStep
<1>6. CASE state # "none" /\ Send({PrepareReply(t, s, state)})
           /\ UNCHANGED replicaVars
  <2>1. WordOK(log, client, PrepareReply(t, s, state))
    BY <1>2, <1>6 DEF WordOK, PrepareReply
  <2> QED BY <1>5, <1>6, <2>1
<1>7. CASE req.consensus /\ Send({PrepareReply(t, s, "PREPAREOK")})
           /\ UNCHANGED replicaVars
  <2>1. Stored(log, t, s)
    BY <1>2, <1>7 DEF LeaderOK
  <2>2. WordOK(log, client, PrepareReply(t, s, "PREPAREOK"))
    BY <1>2, <2>1 DEF WordOK, PrepareReply
  <2> QED BY <1>5, <1>7, <2>2
<1> HIDE DEF t, req, state, r, st, lsn
<1>8. ASSUME NEW new \in StoreState, SetStore(s, r, t, new),
             new.applied = st.applied
      PROVE  /\ store' \in [Shard -> [Replica -> [Txn -> StoreState]]]
             /\ \A x \in Shard, y \in Replica, z \in Txn :
                  store'[x][y][z].applied = store[x][y][z].applied
  <2>1. /\ store' \in [Shard -> [Replica -> [Txn -> StoreState]]]
        /\ store'[s][r][t] = new
        /\ \A x \in Shard, y \in Replica, z \in Txn :
             ~ (x = s /\ y = r /\ z = t) => store'[x][y][z] = store[x][y][z]
    BY <1>2, <1>8, SetStoreLemma, SMTT(30)
  <2> QED BY <1>8, <2>1 DEF st
<1>9. CASE /\ SetStore(s, r, t, StoreAbort(st))
           /\ Send({PrepareReply(t, s, "ABORT")})
           /\ UNCHANGED <<pendingTxns, committedTxns, active, log>>
  <2>1. StoreAbort(st) \in StoreState /\ StoreAbort(st).applied = st.applied
    BY <1>2, StoreLemma
  <2>2. /\ store' \in [Shard -> [Replica -> [Txn -> StoreState]]]
        /\ \A x \in Shard, y \in Replica, z \in Txn :
             store'[x][y][z].applied = store[x][y][z].applied
    BY <1>8, <1>9, <2>1
  <2>3. ReplicaTypeOK' /\ Grows(log, log')
    BY <1>4, <1>9, <2>2 DEF ReplicaTypeOK, Grows
  <2>4. WordOK(log, client, PrepareReply(t, s, "ABORT"))
    BY <1>2 DEF WordOK, PrepareReply
  <2>5. \A x \in msgs' \ msgs : WordOK(log', client, x)
    BY <1>9, <2>4 DEF Send
  <2> QED BY <1>9, <2>2, <2>3, <2>5, QuietStep
<1>10. CASE /\ SetStore(s, r, t, StorePrepare(st))
            /\ active' = [active EXCEPT ![s][r] = @ \cup {t}]
            /\ InvokeReplicateTxn(s, t)
            /\ UNCHANGED committedTxns
  <2>1. StorePrepare(st) \in StoreState /\ StorePrepare(st).applied = st.applied
    BY <1>2, StoreLemma
  <2>2. /\ store' \in [Shard -> [Replica -> [Txn -> StoreState]]]
        /\ \A x \in Shard, y \in Replica, z \in Txn :
             store'[x][y][z].applied = store[x][y][z].applied
    BY <1>8, <1>10, <2>1
  <2>3. active' \in [Shard -> [Replica -> SUBSET Txn]]
    <3>1. active' = [active EXCEPT ![s][r] = @ \cup {t}]
      BY <1>10
    <3> QED BY <1>2, <3>1, ActiveLemma
  <2>4. CASE /\ req.timer /\ Send({ReplicateTransaction(t, s, req.lsn)})
             /\ UNCHANGED pendingTxns \/ SendFailed(s, t)
             /\ UNCHANGED log
    <3>1. /\ log' \in [Shard -> [Replica -> SUBSET (Txn \X (0..(MaxLsn - 1)))]]
          /\ Grows(log, log')
      BY <1>4, <2>4 DEF ReplicaTypeOK, Grows
    <3>2. req.lsn \in 0..(MaxLsn - 1) /\ <<t, req.lsn>> \in log[s][r]
      BY <1>2, <2>4 DEF LeaderOK, PendingTransaction, r
    <3>3. WordOK(log, client, ReplicateTransaction(t, s, req.lsn))
      BY <1>2, <1>3, <3>2 DEF WordOK, ReplicateTransaction, r
    <3>4. \A x \in msgs' \ msgs : WordOK(log', client, x)
      BY <2>4, <3>3 DEF Send
    <3>5. CASE UNCHANGED pendingTxns
      <4>1. ReplicaTypeOK'
        BY <1>4, <1>10, <2>2, <2>3, <3>1, <3>5 DEF ReplicaTypeOK
      <4> QED BY <1>10, <2>2, <3>1, <3>4, <3>5, <4>1, QuietStep
    <3>6. CASE SendFailed(s, t)
      BY <1>2, <1>10, <2>2, <2>3, <3>1, <3>4, <3>6, ForgetStep
    <3> QED BY <2>4, <3>5, <3>6
  <2>5. CASE /\ lsn < MaxLsn
             /\ \/ SetPending(s, t, [req EXCEPT !.present = TRUE, !.timer = TRUE,
                                                !.lsn = lsn])
                \/ SendFailed(s, t)
             /\ log' = [log EXCEPT ![s][r] = @ \cup {<<t, lsn>>}]
             /\ Send({ReplicateTransaction(t, s, lsn)})
    <3> DEFINE new == [req EXCEPT !.present = TRUE, !.timer = TRUE, !.lsn = lsn]
    <3>1. lsn \in 0..(MaxLsn - 1)
      <4> DEFINE all == 0..MaxLsn
                 used == {l \in all : <<t, l>> \in log[s][r]}
      <4>1. IsFiniteSet(all) /\ used \in SUBSET all
        BY ReplicaAssumption, FS_Interval, SMTT(30)
      <4>2. Cardinality(used) \in Nat
        <5> HIDE DEF used, all
        <5>1. IsFiniteSet(used)
          BY <4>1, FS_Subset
        <5> QED BY <5>1, FS_CardinalityType
      <4>3. lsn = Cardinality(used)
        BY DEF lsn, NextLsn, r
      <4> HIDE DEF used
      <4> QED BY <2>5, <4>2, <4>3, ReplicaAssumption, SMTT(30)
    <3>2. /\ log' \in [Shard -> [Replica -> SUBSET (Txn \X (0..(MaxLsn - 1)))]]
          /\ Grows(log, log') /\ <<t, lsn>> \in log'[s][r]
      <4>1. log' = [log EXCEPT ![s][r] = @ \cup {<<t, lsn>>}]
        BY <2>5
      <4> QED BY <1>2, <3>1, <4>1, LogLemma
    <3>3. WordOK(log', client, ReplicateTransaction(t, s, lsn))
      BY <1>2, <1>3, <3>1, <3>2 DEF WordOK, ReplicateTransaction, r
    <3>4. \A x \in msgs' \ msgs : WordOK(log', client, x)
      BY <2>5, <3>3 DEF Send
    <3>5. CASE SendFailed(s, t)
      BY <1>2, <1>10, <2>2, <2>3, <3>2, <3>4, <3>5, ForgetStep
    <3>6. CASE SetPending(s, t, new)
      <4>1. /\ new \in PendingTransaction /\ new.lsn = lsn
            /\ new.quorum = req.quorum /\ new.consensus = req.consensus
        BY <1>2, <3>1 DEF PendingTransaction
      <4> HIDE DEF new
      <4>2. /\ pendingTxns' \in [Shard -> [Txn -> PendingTransaction]]
            /\ pendingTxns'[s][t] = new
            /\ \A x \in Shard, z \in Txn :
                 ~ (x = s /\ z = t) => pendingTxns'[x][z] = pendingTxns[x][z]
        BY <1>2, <3>6, <4>1, SetPendingLemma
      <4>3. ReplicaTypeOK'
        BY <1>4, <1>10, <2>2, <2>3, <3>2, <4>2 DEF ReplicaTypeOK
      <4>4. LeaderOK(log', client, t, s, new, state)
        <5>1. PICK L, N : L = log /\ N = log'
          OBVIOUS
        <5>2. LeaderOK(L, client, t, s, req, state) /\ Grows(L, N)
          BY <1>2, <3>2, <5>1
        <5>3. LeaderOK(N, client, t, s, new, state)
          BY <1>2, <3>2, <4>1, <5>1, <5>2, StoredGrows DEF LeaderOK, r
        <5> QED BY <5>1, <5>3
      <4>5. committedTxns' = committedTxns
        BY <1>10
      <4>6. LeaderOK(log', client, t, s, pendingTxns'[s][t], committedTxns'[s][t])
        BY <4>2, <4>4, <4>5 DEF state
      <4>7. \A x \in Shard, z \in Txn :
              ~ (x = s /\ z = t) => /\ pendingTxns'[x][z] = pendingTxns[x][z]
                                    /\ committedTxns'[x][z] = committedTxns[x][z]
        BY <4>2, <4>5
      <4>8. \A x \in Shard, y \in Replica, z \in Txn :
              store'[x][y][z].applied => \/ store[x][y][z].applied
                                         \/ Durable(log', z)
        BY <2>2
      <4> QED BY <1>2, <3>2, <3>4, <4>3, <4>6, <4>7, <4>8, ReplicaStep
    <3> QED BY <2>5, <3>5, <3>6
  <2> QED BY <1>10, <2>4, <2>5 DEF InvokeReplicateTxn, req, r, lsn
<1> QED BY <1>1, <1>6, <1>7, <1>9, <1>10 DEF t, req, state, r, st

\* A store that a handler writes applies nothing that is not durable.
LEMMA StoreStep ==
  ASSUME BaseInv, NEW s \in Shard, NEW r \in Replica, NEW t \in Txn,
         NEW new \in StoreState, SetStore(s, r, t, new),
         new.applied = store[s][r][t].applied \/ Durable(log, t)
  PROVE  /\ store' \in [Shard -> [Replica -> [Txn -> StoreState]]]
         /\ \A x \in Shard, y \in Replica, z \in Txn :
              store'[x][y][z].applied => \/ store[x][y][z].applied
                                         \/ Durable(log, z)
<1>1. /\ store' \in [Shard -> [Replica -> [Txn -> StoreState]]]
      /\ store'[s][r][t] = new
      /\ \A x \in Shard, y \in Replica, z \in Txn :
           ~ (x = s /\ y = r /\ z = t) => store'[x][y][z] = store[x][y][z]
  BY SetStoreLemma, SMTT(30)
<1>2. ASSUME NEW x \in Shard, NEW y \in Replica, NEW z \in Txn,
             store'[x][y][z].applied
      PROVE  store[x][y][z].applied \/ Durable(log, z)
  <2>1. CASE x = s /\ y = r /\ z = t
    BY <1>1, <1>2, <2>1
  <2>2. CASE ~ (x = s /\ y = r /\ z = t)
    BY <1>1, <1>2, <2>2
  <2> QED BY <2>1, <2>2
<1> QED BY <1>1, <1>2

\* HandleReplicateTransaction: a replica acknowledges an entry it has.
LEMMA ReplicateTransactionBase ==
  ASSUME BaseInv, UNCHANGED client, NEW s \in Shard, NEW r \in Replica,
         NEW m \in msgs, HandleReplicateTransaction(s, r, m)
  PROVE  BaseInv'
<1> DEFINE t == m.tid
           e == <<t, m.lsn>>
           M == {ReplicateTransactionReply(t, s, r)}
                  \cup (IF tpcMode = "PARALLEL"
                          THEN {ReplyAndVote(t, s, r, FALSE)} ELSE {})
<1>1. /\ m.type = "ReplicateTransaction" /\ m.shard = s
      /\ \/ e \in log[s][r] /\ UNCHANGED <<log, active, store>>
         \/ /\ log' = [log EXCEPT ![s][r] = @ \cup {e}]
            /\ active' = [active EXCEPT ![s][r] = @ \cup {t}]
            /\ SetStore(s, r, t, StorePrepare(store[s][r][t]))
      /\ Send(M) /\ UNCHANGED <<pendingTxns, committedTxns>>
  BY DEF HandleReplicateTransaction
<1>2. /\ t \in Txn /\ store[s][r][t] \in StoreState
      /\ WordOK(log, client, m) /\ ReplicaTypeOK
  BY ReplicaFacts DEF BaseInv
<1>3. m.lsn \in 0..(MaxLsn - 1) /\ s \in participants[t]
  BY <1>1, <1>2 DEF WordOK
<1> HIDE DEF t
<1>4. /\ ReplicaTypeOK' /\ Grows(log, log') /\ r \in HoldersIn(log', t, s)
      /\ \A x \in Shard, y \in Replica, z \in Txn :
           store'[x][y][z].applied => \/ store[x][y][z].applied
                                      \/ Durable(log', z)
  <2>1. CASE e \in log[s][r] /\ UNCHANGED <<log, active, store>>
    <3>1. ReplicaTypeOK' /\ Grows(log, log')
      BY <1>1, <1>2, <2>1 DEF ReplicaTypeOK, Grows
    <3>2. e \in log'[s][r] /\ e[1] = t
      BY <2>1
    <3>3. r \in HoldersIn(log', t, s)
      BY <3>2 DEF HoldersIn
    <3> QED BY <2>1, <3>1, <3>3
  <2>2. CASE /\ log' = [log EXCEPT ![s][r] = @ \cup {e}]
             /\ active' = [active EXCEPT ![s][r] = @ \cup {t}]
             /\ SetStore(s, r, t, StorePrepare(store[s][r][t]))
    <3>1. /\ log' \in [Shard -> [Replica -> SUBSET (Txn \X (0..(MaxLsn - 1)))]]
          /\ Grows(log, log') /\ r \in HoldersIn(log', t, s)
      BY <1>2, <1>3, <2>2, LogLemma
    <3>2. active' \in [Shard -> [Replica -> SUBSET Txn]]
      BY <1>2, <2>2, ActiveLemma
    <3>3. PICK L, new : L = log /\ new = StorePrepare(store[s][r][t])
      OBVIOUS
    <3>4. new \in StoreState /\ new.applied = store[s][r][t].applied
      BY <1>2, <3>3, StoreLemma
    <3>5. /\ store' \in [Shard -> [Replica -> [Txn -> StoreState]]]
          /\ \A x \in Shard, y \in Replica, z \in Txn :
               store'[x][y][z].applied => \/ store[x][y][z].applied
                                          \/ Durable(L, z)
      <4>1. SetStore(s, r, t, new)
        BY <2>2, <3>3
      <4> QED BY <1>2, <3>3, <3>4, <4>1, StoreStep
    <3>6. ReplicaTypeOK'
      BY <1>1, <1>2, <3>1, <3>2, <3>5 DEF ReplicaTypeOK
    <3>7. \A z \in Txn : Durable(L, z) => Durable(log', z)
      <4>1. PICK N : N = log'
        OBVIOUS
      <4>2. Grows(L, N)
        BY <3>1, <3>3, <4>1
      <4> QED BY <4>1, <4>2, StoredGrows
    <3> QED BY <3>1, <3>5, <3>6, <3>7
  <2> QED BY <1>1, <2>1, <2>2
<1>5. \A x \in msgs' \ msgs : WordOK(log', client, x)
  <2>1. WordOK(log', client, ReplicateTransactionReply(t, s, r))
    BY <1>2, <1>4 DEF WordOK, ReplicateTransactionReply
  <2>2. WordOK(log', client, ReplyAndVote(t, s, r, FALSE))
    BY <1>2, <1>4 DEF WordOK, ReplyAndVote
  <2>3. \A x \in msgs' \ msgs : \/ x = ReplicateTransactionReply(t, s, r)
                               \/ x = ReplyAndVote(t, s, r, FALSE)
    BY <1>1 DEF Send
  <2> QED BY <2>1, <2>2, <2>3
<1> QED BY <1>1, <1>4, <1>5, QuietStep

\* HandleReplicateTransactionReply: a quorum is one of replicas that hold t,
\* whatever the entry they have acknowledged.
LEMMA TransactionReplyBase ==
  ASSUME BaseInv, UNCHANGED client, NEW s \in Shard, NEW m \in msgs,
         HandleReplicateTransactionReply(s, m)
  PROVE  BaseInv'
<1> DEFINE t == m.tid
           req == pendingTxns[s][t]
           state == committedTxns[s][t]
           quorum == req.quorum \cup {m.replica}
           reached == Cardinality(quorum) >= QuorumSize
           new == [req EXCEPT !.quorum = quorum, !.consensus = reached]
           M == IF reached /\ tpcMode = "FAST"
                  THEN {PrepareReply(t, s, "PREPAREOK")} ELSE {}
<1>1. /\ m.type = "ReplicateTransactionReply" /\ m.shard = s
      /\ \/ SetPending(s, t, new) /\ Send(M) /\ UNCHANGED active
         \/ /\ SendFailed(s, t) /\ UNCHANGED msgs
            /\ active' = [active EXCEPT ![s][Leader(s)] = @ \ {t}]
      /\ UNCHANGED <<committedTxns, log, store>>
  BY DEF HandleReplicateTransactionReply
<1>2. /\ t \in Txn /\ req \in PendingTransaction /\ WordOK(log, client, m)
      /\ LeaderOK(log, client, t, s, req, state) /\ ReplicaTypeOK
  BY ReplicaFacts DEF BaseInv
<1>3. m.replica \in HoldersIn(log, t, s)
  BY <1>1, <1>2 DEF WordOK
<1>4. quorum \subseteq HoldersIn(log, t, s) /\ quorum \in SUBSET Replica
  BY <1>2, <1>3 DEF LeaderOK, HoldersIn
<1>5. reached => Stored(log, t, s)
  <2> HIDE DEF quorum, t
  <2>1. HoldersIn(log, t, s) \in SUBSET Replica
    BY DEF HoldersIn
  <2>2. IsFiniteSet(HoldersIn(log, t, s))
    BY <2>1, ConstantsLemma, FS_Subset
  <2>3. /\ Cardinality(quorum) <= Cardinality(HoldersIn(log, t, s))
        /\ IsFiniteSet(quorum)
    BY <1>4, <2>2, FS_Subset
  <2>4. Cardinality(quorum) \in Nat /\ Cardinality(HoldersIn(log, t, s)) \in Nat
    BY <2>2, <2>3, FS_CardinalityType
  <2> QED BY <2>3, <2>4, ReplicaAssumption, EnoughLemma, SMTT(30)
             DEF Stored, QuorumSize
<1> HIDE DEF t, req, state, quorum
<1>6. reached \in BOOLEAN
  BY SMTT(30)
<1> HIDE DEF reached
<1>7. /\ new \in PendingTransaction /\ new.quorum = quorum
      /\ new.consensus = reached /\ new.timer = req.timer /\ new.lsn = req.lsn
  BY <1>2, <1>4, <1>6 DEF PendingTransaction
<1> HIDE DEF new
<1>8. /\ log' \in [Shard -> [Replica -> SUBSET (Txn \X (0..(MaxLsn - 1)))]]
      /\ store' \in [Shard -> [Replica -> [Txn -> StoreState]]]
      /\ Grows(log, log')
  BY <1>1, <1>2 DEF ReplicaTypeOK, Grows
<1>9. CASE /\ SendFailed(s, t) /\ UNCHANGED msgs
           /\ active' = [active EXCEPT ![s][Leader(s)] = @ \ {t}]
  <2>1. active' \in [Shard -> [Replica -> SUBSET Txn]]
    BY <1>2, <1>9, ConstantsLemma, ActiveLemma
  <2> QED BY <1>1, <1>2, <1>8, <1>9, <2>1, ForgetStep
<1>10. CASE SetPending(s, t, new) /\ Send(M) /\ UNCHANGED active
  <2>1. /\ pendingTxns' \in [Shard -> [Txn -> PendingTransaction]]
        /\ pendingTxns'[s][t] = new
        /\ \A x \in Shard, z \in Txn :
             ~ (x = s /\ z = t) => pendingTxns'[x][z] = pendingTxns[x][z]
    BY <1>2, <1>7, <1>10, SetPendingLemma
  <2>2. ReplicaTypeOK'
    BY <1>1, <1>2, <1>10, <2>1 DEF ReplicaTypeOK
  <2>3. LeaderOK(log, client, t, s, new, state)
    BY <1>2, <1>4, <1>5, <1>7 DEF LeaderOK
  <2>4. LeaderOK(log', client, t, s, pendingTxns'[s][t], committedTxns'[s][t])
    BY <1>1, <2>1, <2>3 DEF state
  <2>5. \A x \in msgs' \ msgs : WordOK(log', client, x)
    <3>1. reached => WordOK(log, client, PrepareReply(t, s, "PREPAREOK"))
      BY <1>2, <1>5 DEF WordOK, PrepareReply
    <3>2. ASSUME NEW x \in msgs' \ msgs PROVE WordOK(log, client, x)
      <4>1. x \in M
        BY <1>10 DEF Send
      <4> QED BY <3>1, <4>1
    <3> QED BY <1>1, <3>2
  <2>6. \A x \in Shard, z \in Txn :
          ~ (x = s /\ z = t) => /\ pendingTxns'[x][z] = pendingTxns[x][z]
                                /\ committedTxns'[x][z] = committedTxns[x][z]
    BY <1>1, <2>1
  <2> QED BY <1>1, <1>2, <1>8, <2>2, <2>4, <2>5, <2>6, ReplicaStep
<1> QED BY <1>1, <1>9, <1>10

\* ResendReplicateTxn: a timer only ever makes the leader forget.
LEMMA ResendBase ==
  ASSUME BaseInv, UNCHANGED client, ReplicaTimers
  PROVE  BaseInv'
<1>1. PICK s \in Shard, t \in Txn : ResendReplicateTxn(s, t)
  BY DEF ReplicaTimers
<1>2. /\ SendFailed(s, t)
      /\ UNCHANGED <<committedTxns, active, log, store, msgs>>
  BY <1>1 DEF ResendReplicateTxn
<1>3. /\ log' \in [Shard -> [Replica -> SUBSET (Txn \X (0..(MaxLsn - 1)))]]
      /\ active' \in [Shard -> [Replica -> SUBSET Txn]]
      /\ store' \in [Shard -> [Replica -> [Txn -> StoreState]]]
      /\ Grows(log, log')
  BY <1>2 DEF BaseInv, ReplicaTypeOK, Grows
<1> QED BY <1>2, <1>3, ForgetStep

\* HandleCommit and its parallel counterpart: the leader executes a commit of
\* what is durable, or an abort its client has decided.
LEMMA DoCommitBase ==
  ASSUME BaseInv, UNCHANGED client, NEW s \in Shard, NEW t \in Txn,
         NEW state \in {"COMMIT", "ABORT"}, NEW M, DoCommit(s, t, state, M),
         state = "COMMIT" => Durable(log, t),
         state = "ABORT" => client[t].phase = "aborted",
         \A m \in M : WordOK(log, client, m)
  PROVE  BaseInv'
<1> DEFINE req == pendingTxns[s][t]
           r == Leader(s)
           st == applyToStore(store[s][r][t], state)
           new == IF state = "ABORT" THEN StoreAbort(st) ELSE st
<1>1. /\ SetPending(s, t, NoTransaction)
      /\ \/ Send(M) /\ UNCHANGED <<committedTxns, active, log, store>>
         \/ /\ Send(M \cup notifyCommitToReplica(t, s, state))
            /\ SetStore(s, r, t, new)
            /\ active' = [active EXCEPT ![s][r] = @ \ {t}]
            /\ SetCommitted(s, t, state) /\ UNCHANGED log
  BY DEF DoCommit
<1>2. /\ ReplicaTypeOK /\ r \in Replica /\ store[s][r][t] \in StoreState
      /\ LeaderOK(log, client, t, s, req, committedTxns[s][t])
  BY ConstantsLemma, SMTT(30) DEF BaseInv, ReplicaTypeOK
<1>3. NoTransaction \in PendingTransaction
  BY ReplicaAssumption, SMTT(30) DEF NoTransaction, PendingTransaction
<1>4. /\ pendingTxns' \in [Shard -> [Txn -> PendingTransaction]]
      /\ pendingTxns'[s][t] = NoTransaction
      /\ \A x \in Shard, z \in Txn :
           ~ (x = s /\ z = t) => pendingTxns'[x][z] = pendingTxns[x][z]
  BY <1>1, <1>3, SetPendingLemma
<1>5. \A c : (c = "ABORT" => client[t].phase = "aborted")
               => LeaderOK(log, client, t, s, NoTransaction, c)
  BY DEF LeaderOK, NoTransaction
<1>6. CASE Send(M) /\ UNCHANGED <<committedTxns, active, log, store>>
  <2>1. ReplicaTypeOK' /\ Grows(log, log')
    BY <1>2, <1>4, <1>6 DEF ReplicaTypeOK, Grows
  <2>2. LeaderOK(log, client, t, s, NoTransaction, committedTxns[s][t])
    BY <1>2, <1>5 DEF LeaderOK
  <2>3. LeaderOK(log', client, t, s, pendingTxns'[s][t], committedTxns'[s][t])
    BY <1>4, <1>6, <2>2
  <2>4. \A m \in msgs' \ msgs : WordOK(log', client, m)
    BY <1>6 DEF Send
  <2>5. \A x \in Shard, z \in Txn :
          ~ (x = s /\ z = t) => /\ pendingTxns'[x][z] = pendingTxns[x][z]
                                /\ committedTxns'[x][z] = committedTxns[x][z]
    BY <1>4, <1>6
  <2> QED BY <1>6, <2>1, <2>3, <2>4, <2>5, ReplicaStep
<1>7. CASE /\ Send(M \cup notifyCommitToReplica(t, s, state))
           /\ SetStore(s, r, t, new)
           /\ active' = [active EXCEPT ![s][r] = @ \ {t}]
           /\ SetCommitted(s, t, state) /\ UNCHANGED log
  <2>1. PICK w : w = new
    OBVIOUS
  <2>2. w \in StoreState /\ (state = "ABORT" => w.applied = store[s][r][t].applied)
    <3>1. st \in StoreState
          /\ (state = "ABORT" => st.applied = store[s][r][t].applied)
      BY <1>2, StoreLemma
    <3> HIDE DEF st
    <3>2. StoreAbort(st) \in StoreState /\ StoreAbort(st).applied = st.applied
      BY <3>1, StoreLemma
    <3> QED BY <2>1, <3>1, <3>2
  <2> HIDE DEF new, r
  <2>3. /\ store' \in [Shard -> [Replica -> [Txn -> StoreState]]]
        /\ \A x \in Shard, y \in Replica, z \in Txn :
             store'[x][y][z].applied => \/ store[x][y][z].applied
                                        \/ Durable(log, z)
    <3>1. w.applied = store[s][r][t].applied \/ Durable(log, t)
      BY <2>2
    <3>2. SetStore(s, r, t, w)
      BY <1>7, <2>1
    <3> QED BY <1>2, <2>2, <3>1, <3>2, StoreStep
  <2>4. active' \in [Shard -> [Replica -> SUBSET Txn]]
    BY <1>2, <1>7, ActiveLemma
  <2>5. /\ committedTxns' \in [Shard -> [Txn -> {"none", "COMMIT", "ABORT"}]]
        /\ committedTxns'[s][t] = state
        /\ \A x \in Shard, z \in Txn :
             ~ (x = s /\ z = t) => committedTxns'[x][z] = committedTxns[x][z]
    BY <1>7, SetCommittedLemma, SMTT(30)
  <2>6. ReplicaTypeOK' /\ Grows(log, log')
    BY <1>2, <1>4, <1>7, <2>3, <2>4, <2>5 DEF ReplicaTypeOK, Grows
  <2>7. LeaderOK(log', client, t, s, pendingTxns'[s][t], committedTxns'[s][t])
    BY <1>4, <1>5, <1>7, <2>5
  <2>8. WordOK(log, client, ReplicateCommit(t, s, state))
    BY DEF WordOK, ReplicateCommit
  <2>9. \A m \in msgs' \ msgs : WordOK(log', client, m)
    BY <1>7, <2>8 DEF Send, notifyCommitToReplica
  <2>10. \A x \in Shard, z \in Txn :
           ~ (x = s /\ z = t) => /\ pendingTxns'[x][z] = pendingTxns[x][z]
                                 /\ committedTxns'[x][z] = committedTxns[x][z]
    BY <1>4, <2>5
  <2>11. \A x \in Shard, y \in Replica, z \in Txn :
           store'[x][y][z].applied => \/ store[x][y][z].applied
                                      \/ Durable(log', z)
    BY <1>7, <2>3
  <2> QED BY <2>6, <2>7, <2>9, <2>10, <2>11, ReplicaStep
<1> QED BY <1>1, <1>6, <1>7

LEMMA CommitBase ==
  ASSUME BaseInv, UNCHANGED client, NEW s \in Shard, NEW m \in msgs,
         HandleCommit(s, m)
  PROVE  BaseInv'
<1>1. m.type = "Commit" /\ DoCommit(s, m.tid, m.state, {})
  BY DEF HandleCommit
<1>2. WordOK(log, client, m) /\ m.tid \in Txn
  BY ReplicaFacts
<1>3. /\ Decided(client, m.tid, m.state)
      /\ m.state = "COMMIT" => Durable(log, m.tid)
  BY <1>1, <1>2 DEF WordOK
<1> QED BY <1>1, <1>2, <1>3, DoCommitBase, SMTT(30) DEF Decided

\* HandleReplicateCommit: a follower is told of a commit only when t is durable.
LEMMA ReplicateCommitBase ==
  ASSUME BaseInv, UNCHANGED client, NEW s \in Shard, NEW r \in Replica,
         NEW m \in msgs, HandleReplicateCommit(s, r, m)
  PROVE  BaseInv'
<1> DEFINE t == m.tid
           new == applyToStore(store[s][r][t], m.state)
<1>1. /\ m.type = "ReplicateCommit" /\ SetStore(s, r, t, new)
      /\ active' = [active EXCEPT ![s][r] = @ \ {t}]
      /\ UNCHANGED <<pendingTxns, committedTxns, log, msgs>>
  BY DEF HandleReplicateCommit
<1>2. /\ t \in Txn /\ store[s][r][t] \in StoreState
      /\ WordOK(log, client, m) /\ ReplicaTypeOK
  BY ReplicaFacts DEF BaseInv
<1>3. /\ m.state \in {"COMMIT", "ABORT"}
      /\ m.state = "COMMIT" => Durable(log, t)
  BY <1>1, <1>2 DEF WordOK
<1>4. PICK w : w = new
  OBVIOUS
<1>5. w \in StoreState /\ (m.state = "ABORT" => w.applied = store[s][r][t].applied)
  BY <1>2, <1>4, StoreLemma
<1> HIDE DEF t, new
<1>6. /\ store' \in [Shard -> [Replica -> [Txn -> StoreState]]]
      /\ \A x \in Shard, y \in Replica, z \in Txn :
           store'[x][y][z].applied => \/ store[x][y][z].applied
                                      \/ Durable(log, z)
  <2>1. w.applied = store[s][r][t].applied \/ Durable(log, t)
    BY <1>3, <1>5
  <2>2. SetStore(s, r, t, w)
    BY <1>1, <1>4
  <2> QED BY <1>2, <1>5, <2>1, <2>2, StoreStep
<1>7. active' \in [Shard -> [Replica -> SUBSET Txn]]
  BY <1>1, <1>2, ActiveLemma
<1>8. ReplicaTypeOK' /\ Grows(log, log')
  BY <1>1, <1>2, <1>6, <1>7 DEF ReplicaTypeOK, Grows
<1>9. \A x \in Shard, y \in Replica, z \in Txn :
        store'[x][y][z].applied => \/ store[x][y][z].applied
                                   \/ Durable(log', z)
  BY <1>1, <1>6
<1> QED BY <1>1, <1>8, <1>9, QuietStep

\* Every step of a replica that both modes have keeps the invariant.
LEMMA ReplicaBase ==
  ASSUME BaseInv, UNCHANGED client, ReplicaNext \/ ReplicaTimers
  PROVE  BaseInv'
<1> SUFFICES ASSUME ReplicaNext PROVE BaseInv'
  BY ResendBase
<1>1. PICK s \in Shard, m \in msgs :
        \/ HandlePrepareTxn(s, m)
        \/ HandleReplicateTransactionReply(s, m)
        \/ HandleCommit(s, m)
        \/ \E r \in Replica : \/ HandleReplicateTransaction(s, r, m)
                              \/ HandleReplicateCommit(s, r, m)
  BY DEF ReplicaNext
<1> QED BY <1>1, PrepareTxnBase, TransactionReplyBase, CommitBase,
           ReplicateTransactionBase, ReplicateCommitBase

\* The invariant holds when the processes start.
LEMMA BaseInit ==
  ASSUME ClientInit, ReplicaInit, msgs = {}
  PROVE  BaseInv
<1>1. ClientTypeOK /\ \A t \in Txn : client[t] = NewClient
  <2>1. NewClient \in ClientState
    BY RetriesAssumption, SMTT(30) DEF NewClient, ClientState, Reply
  <2> QED BY <2>1 DEF ClientInit, ClientTypeOK
<1>2. \A t \in Txn : ClientOK(log, t, NewClient)
  BY DEF ClientOK, NewClient
<1>3. NoTransaction \in PendingTransaction /\ NewStore \in StoreState
  BY ReplicaAssumption, SMTT(30)
     DEF NoTransaction, PendingTransaction, NewStore, StoreState
<1>4. ReplicaTypeOK
  BY <1>3 DEF ReplicaInit, ReplicaTypeOK
<1>5. \A s \in Shard, t \in Txn :
        pendingTxns[s][t] = NoTransaction /\ committedTxns[s][t] = "none"
  BY DEF ReplicaInit
<1>6. \A s \in Shard, t \in Txn :
        LeaderOK(log, client, t, s, NoTransaction, "none")
  BY DEF LeaderOK, NoTransaction
<1>7. \A s \in Shard, r \in Replica, t \in Txn : ~store[s][r][t].applied
  BY DEF ReplicaInit, NewStore
<1> QED BY <1>1, <1>2, <1>4, <1>5, <1>6, <1>7 DEF BaseInv

\* What a client's step looks like from outside: one client changes, a decision
\* stays, and the messages are requests and decisions.
LEMMA ClientMoves ==
  ASSUME BaseInv, ClientNext
  PROVE  /\ msgs \subseteq msgs'
         /\ \A m \in msgs' \ msgs :
              /\ m.tid \in Txn
              /\ m.type \in {"PrepareTransaction", "ParallelModeCommit", "Commit"}
         /\ \E t \in Txn : \E cl :
              /\ Update(t, cl)
              /\ \/ cl.phase = client[t].phase
                 \/ client[t].phase \in {"active", "preparing"}
<1>1. PICK t \in Txn :
        \/ Prepare(t) \/ FinishCommit(t) \/ FinishAbort(t) \/ Abort(t)
        \/ ParallelCommitTimeout(t)
        \/ \E s \in Shard : PrepareTimeout(t, s)
        \/ \E m \in msgs : \/ HandlePrepareTxnReply(t, m)
                           \/ HandleParallelModeCommitReply(t, m)
  BY DEF ClientNext
<1> DEFINE old == client[t]
           Moves == /\ msgs \subseteq msgs'
                    /\ \A m \in msgs' \ msgs :
                         /\ m.tid \in Txn
                         /\ m.type \in {"PrepareTransaction",
                                        "ParallelModeCommit", "Commit"}
                    /\ \E cl : /\ Update(t, cl)
                               /\ \/ cl.phase = old.phase
                                  \/ old.phase \in {"active", "preparing"}
<1>2. old \in ClientState
  BY ClientFacts
<1>3. CASE Prepare(t)
  <2>1. old.phase \in {"active", "preparing"} /\ \E cl : Update(t, cl)
    BY <1>3 DEF Prepare, MayPrepare
  <2>2. PICK unsent, result :
          Send({PrepareTransaction(t, s) : s \in participants[t] \ unsent}
                \cup (IF result THEN {ParallelModeCommit(t)} ELSE {}))
    BY <1>3 DEF Prepare
  <2> DEFINE M == {PrepareTransaction(t, s) : s \in participants[t] \ unsent}
                    \cup (IF result THEN {ParallelModeCommit(t)} ELSE {})
  <2>3. ASSUME NEW m \in M
        PROVE  m.tid \in Txn /\ m.type \in {"PrepareTransaction",
                                            "ParallelModeCommit"}
    BY SMTT(30) DEF PrepareTransaction, ParallelModeCommit
  <2>4. Send(M)
    BY <2>2
  <2> HIDE DEF M
  <2> QED BY <2>1, <2>3, <2>4 DEF Send
<1>4. CASE FinishCommit(t) \/ FinishAbort(t) \/ Abort(t)
  <2>1. PICK phase, state : Finish(t, phase, state)
    BY <1>4 DEF FinishCommit, FinishAbort, Abort
  <2>2. old.phase \in {"active", "preparing"}
    BY <1>4 DEF FinishCommit, FinishAbort, Abort, MayCommit
  <2> DEFINE M == {Commit(t, s, state) : s \in participants[t]}
  <2>3. Send(M) /\ \E cl : Update(t, cl)
    BY <2>1 DEF Finish
  <2>4. ASSUME NEW m \in M PROVE m.tid \in Txn /\ m.type = "Commit"
    BY SMTT(30) DEF Commit
  <2> HIDE DEF M
  <2> QED BY <2>2, <2>3, <2>4 DEF Send
<1>5. CASE ParallelCommitTimeout(t)
  <2> DEFINE new == [old EXCEPT !.parallelCommit = FALSE]
  <2>1. Update(t, new) /\ UNCHANGED msgs
    BY <1>5 DEF ParallelCommitTimeout
  <2>2. new.phase = old.phase
    BY <1>2 DEF ClientState
  <2> HIDE DEF new
  <2> QED BY <2>1, <2>2
<1>6. ASSUME NEW s \in Shard, PrepareTimeout(t, s) PROVE Moves
  <2> DEFINE cl == [old EXCEPT !.pendingReqs = @ \ {s}]
             new == IF s \in cl.waiting THEN PrepareReplied(cl, s, "TIMEOUT")
                    ELSE cl
  <2>1. Update(t, new) /\ UNCHANGED msgs
    BY <1>6 DEF PrepareTimeout
  <2>2. new.phase = old.phase
    BY <1>2 DEF ClientState, PrepareReplied
  <2> HIDE DEF new
  <2> QED BY <2>1, <2>2
<1>7. ASSUME NEW m \in msgs, HandlePrepareTxnReply(t, m) PROVE Moves
  <2> DEFINE s == m.shard
             cl == [old EXCEPT !.pendingReqs = @ \ {s}]
             r == IF m.state = "PREPAREOK" THEN "OK" ELSE "FAIL"
             new == IF s \in cl.waiting /\ ~cl.final
                      THEN Completed(t, PrepareReplied(cl, s, r)) ELSE cl
  <2>1. Update(t, new) /\ UNCHANGED msgs
    BY <1>7 DEF HandlePrepareTxnReply
  <2>2. new.phase = old.phase
    BY <1>2 DEF ClientState, PrepareReplied, Completed
  <2> HIDE DEF new
  <2> QED BY <2>1, <2>2
<1>8. ASSUME NEW m \in msgs, HandleParallelModeCommitReply(t, m) PROVE Moves
  <2> DEFINE p == primary[t]
             cl == [old EXCEPT !.parallelCommit = FALSE, !.pendingReqs = @ \ {p}]
             new == IF p \in cl.waiting
                      THEN [cl EXCEPT !.waiting = @ \ {p}, !.final = TRUE,
                                      !.done = TRUE, !.reply = "OK"]
                      ELSE cl
  <2>1. Update(t, new) /\ UNCHANGED msgs
    BY <1>8 DEF HandleParallelModeCommitReply
  <2>2. new.phase = old.phase
    BY <1>2 DEF ClientState
  <2> HIDE DEF new
  <2> QED BY <2>1, <2>2
<1> QED BY <1>1, <1>3, <1>4, <1>5, <1>6, <1>7, <1>8
=============================================================================
