----------------------------- MODULE D2PCProofs -----------------------------
(***************************************************************************)
(* Mode PARALLEL, for any number of transactions, shards, replicas and     *)
(* retries.  First the co-coordinators, in the environment CoordinatorEnv. *)
(* Then clients, replicas and coordinators together: the invariant is that *)
(* of clients and replicas with that of coordinators, where no transaction *)
(* has dependencies, and each side answers for its own messages.           *)
(***************************************************************************)
EXTENDS CoordinatorEnv, D2PC, Handlers

\* Most leaves are first-order; the ones that need arithmetic or records say SMT.
USE ZenonT(30)

(***************************************************************************)
(* The coordinators with an environment of replicas.                       *)
(***************************************************************************)
\* The inductive invariant.
EnvInv == CoordInv(deps)

\* The replicas' messages are in order: a vote carries the dependency flag of
\* its shard, and only participants send one.
LEMMA EnvironmentLemma ==
  ASSUME NEW D, DepsOK(D), deps = D, NEW t \in Txn, NEW s \in Shard,
         NEW r \in Replica,
         \/ ReplicaVotes(t, s, r) \/ DependenciesClear(t, s, r)
         \/ CascadeAbort(t, s) \/ LeaderRequests(t)
  PROVE  /\ msgs \subseteq msgs' /\ UNCHANGED <<coordVars, deps>>
         /\ \A m \in msgs' \ msgs : MsgOK(msgs', D, m)
<1>1. CASE ReplicaVotes(t, s, r)
  <2> DEFINE m == ReplyAndVote(t, s, r, s \in D[t])
  <2>1. /\ m.type = "ReplicateReplyAndVote" /\ m.tid = t /\ m.shard = s
        /\ m.replica = r /\ m.hasPreCommit = (s \in D[t])
    BY DEF ReplyAndVote
  <2>2. m = ReplyAndVote(m.tid, m.shard, m.replica, m.hasPreCommit)
    BY <2>1
  <2>3. s \in participants[t] /\ Send({m}) /\ UNCHANGED <<coordVars, deps>>
    BY <1>1 DEF ReplicaVotes
  <2> HIDE DEF m
  <2>4. MsgOK(msgs', D, m)
    BY <2>1, <2>2, <2>3 DEF MsgOK
  <2> QED BY <2>3, <2>4 DEF Send
<1>2. CASE DependenciesClear(t, s, r)
  <2>1. s \in participants[t]
    BY <1>2 DEF DependenciesClear, DepsOK
  <2>2. /\ Send({DependenciesCleared(t, s, r)})
        /\ UNCHANGED <<coordVars, deps>>
    BY <1>2 DEF DependenciesClear
  <2>3. MsgOK(msgs', D, DependenciesCleared(t, s, r))
    <3>1. Cleared(msgs', t, s)
      BY <2>2 DEF Cleared, Send
    <3> QED BY <2>1, <3>1 DEF MsgOK, DependenciesCleared
  <2> QED BY <2>2, <2>3 DEF Send
<1>3. CASE CascadeAbort(t, s)
  <2> DEFINE m == Vote(t, s)
  <2>1. m.type = "Vote" /\ m.tid = t /\ m.shard = s
    BY DEF Vote
  <2>2. m = Vote(m.tid, m.shard)
    BY <2>1
  <2>3. s \in participants[t] /\ Send({m}) /\ UNCHANGED <<coordVars, deps>>
    BY <1>3 DEF CascadeAbort
  <2> HIDE DEF m
  <2>4. MsgOK(msgs', D, m)
    BY <2>1, <2>2, <2>3 DEF MsgOK
  <2> QED BY <2>3, <2>4 DEF Send
<1>4. CASE LeaderRequests(t)
  <2> DEFINE m == RequestResult(t)
  <2>1. m.type = "RequestCommitResult" /\ m.tid = t
    BY DEF RequestResult
  <2>2. Send({m}) /\ UNCHANGED <<coordVars, deps>>
    BY <1>4 DEF LeaderRequests
  <2> HIDE DEF m
  <2>3. MsgOK(msgs', D, m)
    BY <2>1 DEF MsgOK
  <2> QED BY <2>2, <2>3 DEF Send
<1> QED BY <1>1, <1>2, <1>3, <1>4

-----------------------------------------------------------------------------
\* It holds in the initial state.
LEMMA EnvInitLemma ==
  ASSUME EnvInit
  PROVE  EnvInv
<1>1. PICK D : D = deps
  OBVIOUS
<1>2. DepsOK(D) /\ CoordInit /\ msgs = {}
  BY <1>1, EnvAssumption DEF EnvInit, DepsOK
<1>3. CoordInv(D)
  BY <1>2, CoordInitLemma
<1> QED BY <1>1, <1>3 DEF EnvInv

\* Every step keeps it.
LEMMA EnvNextLemma ==
  ASSUME EnvInv, [EnvNext]_envVars
  PROVE  EnvInv'
<1>0. PICK D : D = deps
  OBVIOUS
<1>1. CoordInv(D) /\ DepsOK(D)
  BY <1>0 DEF EnvInv, CoordInv
<1>2. CASE CoordNext /\ UNCHANGED deps
  BY <1>0, <1>1, <1>2, CoordNextLemma DEF EnvInv
<1>3. ASSUME NEW t \in Txn, NEW s \in Shard, NEW r \in Replica,
             \/ ReplicaVotes(t, s, r) \/ DependenciesClear(t, s, r)
             \/ CascadeAbort(t, s) \/ LeaderRequests(t)
      PROVE  EnvInv'
  <2>1. /\ msgs \subseteq msgs' /\ UNCHANGED <<coordVars, deps>>
        /\ \A m \in msgs' \ msgs : MsgOK(msgs', D, m)
    BY <1>0, <1>1, <1>3, EnvironmentLemma
  <2>2. CoordInv(D)'
    BY <1>1, <2>1, CoordSend
  <2> QED BY <1>0, <2>1, <2>2 DEF EnvInv
<1>4. CASE UNCHANGED envVars
  BY <1>4 DEF envVars, coordVars, EnvInv, CoordInv, CoordTypeOK, DepsOK
<1> QED BY <1>2, <1>3, <1>4, ConstantsLemma DEF EnvNext

\* The coordinators' tables are well formed, in every reachable state.
THEOREM TypeCorrect == EnvSpec => []CoordTypeOK
<1>1. EnvInv => CoordTypeOK
  BY DEF EnvInv, CoordInv, CoordTypeOK
<1> QED BY <1>1, EnvInitLemma, EnvNextLemma, PTL DEF EnvSpec

\* What an announced commit rests on.
LEMMA AnnouncedLemma ==
  ASSUME EnvInv, NEW t \in Txn, NEW s, NEW c, ReplicateResult(t, s, c) \in msgs
  PROVE  Correspondent(c, t) /\ Justified(msgs, deps, t)
<1> DEFINE m == ReplicateResult(t, s, c)
<1>1. m.type = "NotifyReplicateResult" /\ m.tid = t /\ m.replica = c
  BY DEF ReplicateResult
<1>2. MsgOK(msgs, deps, m)
  BY DEF EnvInv, CoordInv
<1> HIDE DEF m
<1> QED BY <1>1, <1>2 DEF MsgOK

\* An announced commit is fault tolerant: with any number of replicas, and
\* whatever is lost, repeated or reordered, the correspondent coordinator
\* announces it only when every participant's entry is on a majority
\* (coordinator.cc, ReachFaultTolerance and its uses).
THEOREM FaultTolerantDecision == EnvSpec => []DecisionIsFaultTolerant
<1>1. ASSUME EnvInv PROVE DecisionIsFaultTolerant
  <2>1. \A t \in Txn : Announced(t) => Tolerant(msgs, t)
    BY <1>1, AnnouncedLemma DEF Announced, Justified
  <2>2. \A t \in Txn : \A s \in participants[t] :
          Acked(t, s) = AckedIn(msgs, t, s)
    BY DEF Acked, AckedIn
  <2> QED BY <2>1, <2>2 DEF DecisionIsFaultTolerant, Tolerant
<1> QED BY <1>1, EnvInitLemma, EnvNextLemma, PTL DEF EnvSpec

\* An announced commit waits for its dependencies, unless a cascading abort
\* has voted (coordinator.cc, AllParticipantsHaveNoPrecommitDependency and
\* HandleVote, which does not call it).
THEOREM DependencyDecision == EnvSpec => []DecisionRespectsDependencies
<1>1. ASSUME EnvInv PROVE DecisionRespectsDependencies
  <2>1. \A t \in Txn : Announced(t) => Free(msgs, deps, t)
    BY <1>1, AnnouncedLemma DEF Announced, Justified
  <2> QED BY <2>1 DEF DecisionRespectsDependencies, Free, Cleared
<1> QED BY <1>1, EnvInitLemma, EnvNextLemma, PTL DEF EnvSpec

\* Only the correspondent coordinator announces a commit: nobody else gets the
\* acknowledgements (bypassTo), so nobody else sets the flag.
THEOREM SingleDecider == EnvSpec => []OneDecider
<1>1. ASSUME EnvInv PROVE OneDecider
  BY <1>1, AnnouncedLemma DEF OneDecider, Correspondent
<1> QED BY <1>1, EnvInitLemma, EnvNextLemma, PTL DEF EnvSpec

\* Whichever of the three conditions comes last, its handler decides: no
\* pending commit is left waiting for nothing.
THEOREM NothingMissed == EnvSpec => []NoMissedDecision
<1>1. ASSUME EnvInv PROVE NoMissedDecision
  BY <1>1 DEF EnvInv, CoordInv, NoMissedDecision, PendOK, Ready
<1> QED BY <1>1, EnvInitLemma, EnvNextLemma, PTL DEF EnvSpec

-----------------------------------------------------------------------------
(***************************************************************************)
(* Clients, replicas and coordinators.                                     *)
(***************************************************************************)
NoDeps == [t \in Txn |-> {}]

\* The inductive invariant.
Inv == BaseInv /\ CoordInv(NoDeps)

\* What a majority has acknowledged is durable: replicas acknowledge what they
\* hold.
LEMMA TolerantDurable ==
  ASSUME BaseInv, NEW M, NEW t \in Txn, Tolerant(M, t),
         \A m \in M : m.type = "ReplicateReplyAndVote" => m \in msgs
  PROVE  Durable(log, t)
<1>1. ASSUME NEW s \in participants[t] PROVE Stored(log, t, s)
  <2> DEFINE A == AckedIn(M, t, s)
             H == HoldersIn(log, t, s)
  <2>1. A \subseteq H
    <3>1. ASSUME NEW r \in Replica, NEW d \in BOOLEAN,
                 ReplyAndVote(t, s, r, d) \in M
          PROVE  r \in H
      <4> DEFINE m == ReplyAndVote(t, s, r, d)
      <4>1. /\ m.type = "ReplicateReplyAndVote" /\ m.tid = t /\ m.shard = s
            /\ m.replica = r
        BY DEF ReplyAndVote
      <4>2. WordOK(log, client, m)
        BY <3>1, <4>1 DEF BaseInv
      <4> HIDE DEF m
      <4> QED BY <4>1, <4>2 DEF WordOK
    <3> QED BY <3>1 DEF AckedIn
  <2>2. H \in SUBSET Replica
    BY DEF HoldersIn
  <2>3. 2 * Cardinality(A) > n
    BY DEF Tolerant
  <2> HIDE DEF A, H
  <2>4. IsFiniteSet(H)
    BY <2>2, ConstantsLemma, FS_Subset
  <2>5. IsFiniteSet(A) /\ Cardinality(A) <= Cardinality(H)
    BY <2>1, <2>4, FS_Subset
  <2>6. Cardinality(A) \in Nat /\ Cardinality(H) \in Nat
    BY <2>4, <2>5, FS_CardinalityType
  <2>7. Cardinality(H) >= Enough
    BY <2>3, <2>5, <2>6, EnoughLemma, ParallelAssumption, SMTT(30)
  <2> QED BY <2>7 DEF Stored, H
<1> QED BY <1>1 DEF Durable

-----------------------------------------------------------------------------
(***************************************************************************)
(* The coordinators' steps.                                                *)
(***************************************************************************)
\* What a coordinator sends.
LEMMA CoordSends ==
  ASSUME CoordNext
  PROVE  /\ msgs \subseteq msgs'
         /\ \A m \in msgs' \ msgs :
              m.type \in {"BypassLeaderReply", "NotifyDecision",
                          "NotifyReplicateResult", "ReplicateDecision",
                          "ReplyDecision"}
<1> DEFINE Words == {"BypassLeaderReply", "NotifyDecision",
                     "NotifyReplicateResult", "ReplicateDecision",
                     "ReplyDecision"}
           Quiet(M) == \A m \in M : m.type \in Words
<1>1. ASSUME NEW M, Quiet(M), Send(M)
      PROVE  msgs \subseteq msgs' /\ \A m \in msgs' \ msgs : m.type \in Words
  BY <1>1 DEF Send
<1>2. PICK c \in Replica, m \in msgs :
        \/ HandleReplicateReplyAndVote(c, m)
        \/ HandleBypassLeaderReply(c, m)
        \/ HandleNotifyDependenciesAreCleared(c, m)
        \/ HandleReplicateDecision(c, m)
        \/ HandleReplyDecision(c, m)
        \/ HandleRequestCommitResult(c, m)
        \/ HandleVote(c, m)
  BY DEF CoordNext
<1>3. /\ \A t, q : Quiet(NotifyCommitDecision(c, t, q))
      /\ \A t, q, commit : Quiet(NotifyReplicateResult(c, t, q, commit))
      /\ \A t, s, r : Quiet({Bypass(t, s, r)})
      /\ \A t, to : Quiet({ReplyDecision(t, c, to)})
  BY SMTT(30) DEF NotifyCommitDecision, NotifyDecision, NotifyReplicateResult,
         ReplicateResult, ReplicateDecision, Bypass, ReplyDecision
<1>4. Quiet({}) /\ \A M, N : Quiet(M) /\ Quiet(N) => Quiet(M \cup N)
  OBVIOUS
<1>5. \A t, q, res, M : Quiet(M) /\ Decide(c, t, q, res, M)
        => \E N : Quiet(N) /\ Send(N)
  <2> HIDE DEF Quiet
  <2>1. ASSUME NEW t, NEW q, NEW res, NEW M, Quiet(M), Decide(c, t, q, res, M)
        PROVE  \E N : Quiet(N) /\ Send(N)
    <3> DEFINE all == M \cup NotifyReplicateResult(c, t, q, FALSE)
    <3>1. Quiet(all)
      BY <1>3, <1>4, <2>1
    <3>2. Send(all)
      BY <2>1 DEF Decide
    <3> QED BY <3>1, <3>2
  <2> QED BY <2>1
<1>6. \/ UNCHANGED msgs
      \/ \E M : Quiet(M) /\ Send(M)
  <2> HIDE DEF Quiet
  <2>1. CASE HandleReplicateReplyAndVote(c, m)
    BY <1>3, <1>4, <1>5, <2>1 DEF HandleReplicateReplyAndVote
  <2>2. CASE HandleBypassLeaderReply(c, m)
    BY <1>3, <1>4, <1>5, <2>2 DEF HandleBypassLeaderReply
  <2>3. CASE HandleNotifyDependenciesAreCleared(c, m)
    BY <1>3, <1>4, <1>5, <2>3 DEF HandleNotifyDependenciesAreCleared
  <2>4. CASE HandleReplicateDecision(c, m)
    BY <1>3, <2>4 DEF HandleReplicateDecision
  <2>5. CASE HandleReplyDecision(c, m)
    BY <2>5 DEF HandleReplyDecision
  <2>6. CASE HandleRequestCommitResult(c, m)
    BY <1>3, <2>6 DEF HandleRequestCommitResult
  <2>7. CASE HandleVote(c, m)
    BY <1>3, <1>4, <1>5, <2>7 DEF HandleVote
  <2> QED BY <1>2, <2>1, <2>2, <2>3, <2>4, <2>5, <2>6, <2>7
<1>7. CASE UNCHANGED msgs
  BY <1>7
<1> QED BY <1>1, <1>6, <1>7

\* A coordinator announces only what is durable.
LEMMA CoordBase ==
  ASSUME BaseInv, CoordInv(NoDeps)', CoordNext, UNCHANGED <<client, replicaVars>>
  PROVE  BaseInv'
<1>1. /\ msgs \subseteq msgs'
      /\ \A m \in msgs' \ msgs :
           m.type \in {"BypassLeaderReply", "NotifyDecision",
                       "NotifyReplicateResult", "ReplicateDecision",
                       "ReplyDecision"}
  BY CoordSends
<1>2. ASSUME NEW m \in msgs' \ msgs PROVE WordOK(log, client, m)
  <2>1. PICK N : N = msgs'
    OBVIOUS
  <2>2. MsgOK(N, NoDeps, m)
    BY <2>1 DEF CoordInv
  <2>3. m.tid \in Txn
    BY <2>2 DEF MsgOK
  <2>4. m.type = "NotifyReplicateResult" => Tolerant(N, m.tid)
    BY <2>2 DEF MsgOK, Justified
  <2>5. \A x \in N : x.type = "ReplicateReplyAndVote" => x \in msgs
    BY <1>1, <2>1
  <2>6. m.type = "NotifyReplicateResult" => Durable(log, m.tid)
    BY <2>3, <2>4, <2>5, TolerantDurable
  <2>7. m.type \in {"BypassLeaderReply", "NotifyDecision",
                    "NotifyReplicateResult", "ReplicateDecision",
                    "ReplyDecision"}
    BY <1>1
  <2> QED BY <2>3, <2>6, <2>7 DEF WordOK
<1>3. /\ UNCHANGED <<pendingTxns, committedTxns>> /\ log' = log
      /\ store' = store /\ active' = active /\ client' = client
  BY DEF replicaVars
<1>4. ReplicaTypeOK' /\ Grows(log, log')
  BY <1>3 DEF BaseInv, ReplicaTypeOK, Grows
<1>5. \A m \in msgs' \ msgs : WordOK(log', client, m)
  BY <1>2, <1>3
<1> QED BY <1>3, <1>4, <1>5, QuietStep

-----------------------------------------------------------------------------
(***************************************************************************)
(* The steps of the replicas that only this mode has.                      *)
(***************************************************************************)
\* The pre-commit decision changes what the leader answers, and applies
\* nothing.
LEMMA NotifyDecisionBase ==
  ASSUME BaseInv, UNCHANGED client, NEW s \in Shard, NEW m \in msgs,
         HandleDecisionFromCoordinatorReplica(s, m)
  PROVE  BaseInv'
<1> DEFINE t == m.tid
           r == Leader(s)
           st == store[s][r][t]
           new == StorePreCommit(st)
<1>1. /\ SetStore(s, r, t, new) /\ SetCommitted(s, t, "COMMIT")
      /\ UNCHANGED <<pendingTxns, active, log, msgs>>
  BY DEF HandleDecisionFromCoordinatorReplica
<1>2. /\ t \in Txn /\ r \in Replica /\ st \in StoreState /\ ReplicaTypeOK
      /\ LeaderOK(log, client, t, s, pendingTxns[s][t], committedTxns[s][t])
  BY ReplicaFacts, ConstantsLemma DEF BaseInv
<1>3. new \in StoreState /\ new.applied = st.applied
  BY <1>2, StoreLemma
<1> HIDE DEF t, r, new
<1>4. /\ store' \in [Shard -> [Replica -> [Txn -> StoreState]]]
      /\ \A x \in Shard, y \in Replica, z \in Txn :
           store'[x][y][z].applied => \/ store[x][y][z].applied
                                      \/ Durable(log, z)
  BY <1>1, <1>2, <1>3, StoreStep
<1>5. /\ committedTxns' \in [Shard -> [Txn -> {"none", "COMMIT", "ABORT"}]]
      /\ committedTxns'[s][t] = "COMMIT"
      /\ \A x \in Shard, z \in Txn :
           ~ (x = s /\ z = t) => committedTxns'[x][z] = committedTxns[x][z]
  BY <1>1, <1>2, SetCommittedLemma
<1>6. ReplicaTypeOK' /\ Grows(log, log')
  BY <1>1, <1>2, <1>4, <1>5 DEF ReplicaTypeOK, Grows
<1>7. LeaderOK(log, client, t, s, pendingTxns[s][t], "COMMIT")
  BY <1>2 DEF LeaderOK
<1>8. LeaderOK(log', client, t, s, pendingTxns'[s][t], committedTxns'[s][t])
  BY <1>1, <1>5, <1>7
<1>9. \A x \in Shard, z \in Txn :
        ~ (x = s /\ z = t) => /\ pendingTxns'[x][z] = pendingTxns[x][z]
                              /\ committedTxns'[x][z] = committedTxns[x][z]
  BY <1>1, <1>5
<1>10. \A x \in Shard, y \in Replica, z \in Txn :
         store'[x][y][z].applied => \/ store[x][y][z].applied
                                    \/ Durable(log', z)
  BY <1>1, <1>4
<1> QED BY <1>1, <1>2, <1>6, <1>8, <1>9, <1>10, ReplicaStep

\* The commit decision: the client is told of what is durable.
LEMMA ReplicateResultBase ==
  ASSUME BaseInv, UNCHANGED client, NEW s \in Shard, NEW m \in msgs,
         HandleReplicateResultFromCoordinatorReplica(s, m)
  PROVE  BaseInv'
<1> DEFINE t == m.tid
           M == {ParallelModeCommitReply(t)}
<1>1. m.type = "NotifyReplicateResult" /\ DoCommit(s, t, "COMMIT", M)
  BY DEF HandleReplicateResultFromCoordinatorReplica
<1>2. WordOK(log, client, m) /\ t \in Txn
  BY ReplicaFacts
<1>3. Durable(log, t)
  BY <1>1, <1>2 DEF WordOK
<1> HIDE DEF t
<1>4. WordOK(log, client, ParallelModeCommitReply(t))
  BY <1>2, <1>3 DEF WordOK, ParallelModeCommitReply
<1> HIDE DEF M
<1>5. \A x \in M : WordOK(log, client, x)
  BY <1>4 DEF M
<1> QED BY <1>1, <1>2, <1>3, <1>5, DoCommitBase

\* A primary shard that does not hold the transaction counts nothing for it.
LEMMA ParallelModeCommitBase ==
  ASSUME BaseInv, UNCHANGED client, NEW s \in Shard, NEW m \in msgs,
         HandleParallelModeCommit(s, m)
  PROVE  BaseInv'
<1> DEFINE t == m.tid
           new == [NoTransaction EXCEPT !.present = TRUE,
                                        !.is_participant = FALSE]
<1>1. /\ SetPending(s, t, new) /\ Send({RequestResult(t)})
      /\ UNCHANGED <<committedTxns, active, log, store>>
  BY DEF HandleParallelModeCommit
<1>2. /\ t \in Txn /\ ReplicaTypeOK
      /\ LeaderOK(log, client, t, s, pendingTxns[s][t], committedTxns[s][t])
  BY ReplicaFacts DEF BaseInv
<1>3. /\ new \in PendingTransaction /\ new.quorum = {} /\ ~new.consensus
      /\ ~new.timer
  <2>1. NoTransaction \in PendingTransaction
    BY ReplicaAssumption, SMTT(30) DEF NoTransaction, PendingTransaction
  <2>2. /\ new \in PendingTransaction /\ new.quorum = NoTransaction.quorum
        /\ new.consensus = NoTransaction.consensus
        /\ new.timer = NoTransaction.timer
    BY <2>1 DEF PendingTransaction
  <2>3. /\ NoTransaction.quorum = {} /\ ~NoTransaction.consensus
        /\ ~NoTransaction.timer
    BY DEF NoTransaction
  <2> QED BY <2>2, <2>3
<1> HIDE DEF t, new
<1>4. /\ pendingTxns' \in [Shard -> [Txn -> PendingTransaction]]
      /\ pendingTxns'[s][t] = new
      /\ \A x \in Shard, z \in Txn :
           ~ (x = s /\ z = t) => pendingTxns'[x][z] = pendingTxns[x][z]
  BY <1>1, <1>2, <1>3, SetPendingLemma
<1>5. ReplicaTypeOK' /\ Grows(log, log')
  BY <1>1, <1>2, <1>4 DEF ReplicaTypeOK, Grows
<1>6. LeaderOK(log, client, t, s, new, committedTxns[s][t])
  BY <1>2, <1>3 DEF LeaderOK
<1>7. LeaderOK(log', client, t, s, pendingTxns'[s][t], committedTxns'[s][t])
  BY <1>1, <1>4, <1>6
<1>8. WordOK(log, client, RequestResult(t))
  BY <1>2 DEF WordOK, RequestResult
<1>9. \A x \in msgs' \ msgs : WordOK(log', client, x)
  BY <1>1, <1>8 DEF Send
<1> QED BY <1>1, <1>2, <1>4, <1>5, <1>7, <1>9, ReplicaStep

-----------------------------------------------------------------------------
(***************************************************************************)
(* What the replicas tell the coordinators is so.                          *)
(***************************************************************************)
\* A message no coordinator reads anything from.
Plain(m) ==
  /\ m.tid \in Txn
  /\ m.type \notin {"ReplicateReplyAndVote", "BypassLeaderReply", "Vote",
                    "NotifyDependenciesAreCleared", "ReplicateDecision",
                    "ReplyDecision", "NotifyReplicateResult"}

\* The vote of a replica that has no dependencies.
PlainVote(m) ==
  \E t \in Txn, r \in Replica : \E s \in participants[t] :
    m = ReplyAndVote(t, s, r, FALSE)

LEMMA PlainLemma ==
  ASSUME NEW M, NEW m, Plain(m) \/ PlainVote(m)
  PROVE  MsgOK(M, NoDeps, m)
<1>1. CASE Plain(m)
  BY <1>1 DEF Plain, MsgOK
<1>2. ASSUME NEW t \in Txn, NEW r \in Replica, NEW s \in participants[t],
             m = ReplyAndVote(t, s, r, FALSE)
      PROVE  MsgOK(M, NoDeps, m)
  <2>1. /\ m.type = "ReplicateReplyAndVote" /\ m.tid = t /\ m.shard = s
        /\ m.replica = r /\ m.hasPreCommit = FALSE
    BY <1>2 DEF ReplyAndVote
  <2>2. m = ReplyAndVote(m.tid, m.shard, m.replica, m.hasPreCommit)
    BY <1>2, <2>1
  <2>3. NoDeps[t] = {}
    BY DEF NoDeps
  <2>4. m.hasPreCommit = (m.shard \in NoDeps[m.tid])
    <3>1. m.shard \notin NoDeps[m.tid]
      BY <2>1, <2>3
    <3>2. m.hasPreCommit = FALSE
      BY <2>1
    <3>3. (m.shard \in NoDeps[m.tid]) = FALSE
      BY <3>1, SMTT(30)
    <3> QED BY <3>2, <3>3
  <2> QED BY <2>1, <2>2, <2>4 DEF MsgOK
<1> QED BY <1>1, <1>2 DEF PlainVote

\* DoCommit sends its answer and the decision for the followers.
LEMMA DoCommitSends ==
  ASSUME NEW s, NEW t \in Txn, NEW state, NEW M, DoCommit(s, t, state, M),
         \A x \in M : Plain(x)
  PROVE  msgs \subseteq msgs' /\ \A x \in msgs' \ msgs : Plain(x)
<1>1. Send(M) \/ Send(M \cup notifyCommitToReplica(t, s, state))
  BY DEF DoCommit
<1>2. Plain(ReplicateCommit(t, s, state))
  BY DEF Plain, ReplicateCommit
<1> QED BY <1>1, <1>2 DEF Send, notifyCommitToReplica

LEMMA ReplicaSends ==
  ASSUME BaseInv, ReplicaNext \/ ReplicaTimers \/ ParallelReplicaNext
  PROVE  /\ msgs \subseteq msgs'
         /\ \A x \in msgs' \ msgs : Plain(x) \/ PlainVote(x)
<1> DEFINE Fine == /\ msgs \subseteq msgs'
                   /\ \A x \in msgs' \ msgs : Plain(x) \/ PlainVote(x)
<1>0. CASE ReplicaTimers
  BY <1>0 DEF ReplicaTimers, ResendReplicateTxn
<1> SUFFICES ASSUME ReplicaNext \/ ParallelReplicaNext PROVE Fine
  BY <1>0
<1>1. PICK s \in Shard, m \in msgs :
        \/ HandlePrepareTxn(s, m)
        \/ HandleReplicateTransactionReply(s, m)
        \/ HandleCommit(s, m)
        \/ \E r \in Replica : \/ HandleReplicateTransaction(s, r, m)
                              \/ HandleReplicateCommit(s, r, m)
        \/ HandleDecisionFromCoordinatorReplica(s, m)
        \/ HandleReplicateResultFromCoordinatorReplica(s, m)
        \/ HandleParallelModeCommit(s, m)
  BY DEF ReplicaNext, ParallelReplicaNext
<1> DEFINE t == m.tid
<1>2. t \in Txn /\ WordOK(log, client, m)
  BY ReplicaFacts
<1>3. CASE HandlePrepareTxn(s, m)
  <2> DEFINE next == NextLsn(s, t)
             lsn == pendingTxns[s][t].lsn
             state == committedTxns[s][t]
  <2>1. \/ Send({PrepareReply(t, s, state)})
        \/ Send({PrepareReply(t, s, "PREPAREOK")})
        \/ Send({PrepareReply(t, s, "ABORT")})
        \/ Send({ReplicateTransaction(t, s, lsn)})
        \/ Send({ReplicateTransaction(t, s, next)})
    BY <1>3 DEF HandlePrepareTxn, InvokeReplicateTxn
  <2> HIDE DEF t
  <2>2. /\ \A w : Plain(PrepareReply(t, s, w))
        /\ \A l : Plain(ReplicateTransaction(t, s, l))
    BY <1>2 DEF Plain, PrepareReply, ReplicateTransaction
  <2> HIDE DEF next, lsn, state
  <2> QED BY <2>1, <2>2 DEF Send
<1>4. CASE HandleReplicateTransactionReply(s, m)
  <2>1. \/ Send({}) \/ UNCHANGED msgs
        \/ Send({PrepareReply(t, s, "PREPAREOK")})
    BY <1>4 DEF HandleReplicateTransactionReply
  <2>2. Plain(PrepareReply(t, s, "PREPAREOK"))
    BY <1>2 DEF Plain, PrepareReply
  <2> QED BY <2>1, <2>2 DEF Send
<1>5. CASE HandleCommit(s, m)
  <2>1. DoCommit(s, t, m.state, {})
    BY <1>5 DEF HandleCommit
  <2> QED BY <1>2, <2>1, DoCommitSends, SMTT(30)
<1>6. ASSUME NEW r \in Replica, HandleReplicateTransaction(s, r, m)
      PROVE  Fine
  <2>1. m.type = "ReplicateTransaction" /\ m.shard = s
    BY <1>6 DEF HandleReplicateTransaction
  <2>2. s \in participants[t]
    BY <1>2, <2>1 DEF WordOK
  <2>3. PICK vote : vote = ReplyAndVote(t, s, r, FALSE)
    OBVIOUS
  <2>4. \/ Send({ReplicateTransactionReply(t, s, r)} \cup {vote})
        \/ Send({ReplicateTransactionReply(t, s, r)} \cup {})
    BY <1>6, <2>3 DEF HandleReplicateTransaction
  <2> HIDE DEF t
  <2>5. Plain(ReplicateTransactionReply(t, s, r))
    BY <1>2 DEF Plain, ReplicateTransactionReply
  <2>6. PlainVote(vote)
    BY <1>2, <1>6, <2>2, <2>3 DEF PlainVote
  <2> QED BY <2>4, <2>5, <2>6 DEF Send
<1>7. ASSUME NEW r \in Replica, HandleReplicateCommit(s, r, m) PROVE Fine
  BY <1>7 DEF HandleReplicateCommit
<1>8. CASE HandleDecisionFromCoordinatorReplica(s, m)
  BY <1>8 DEF HandleDecisionFromCoordinatorReplica
<1>9. CASE HandleReplicateResultFromCoordinatorReplica(s, m)
  <2>1. DoCommit(s, t, "COMMIT", {ParallelModeCommitReply(t)})
    BY <1>9 DEF HandleReplicateResultFromCoordinatorReplica
  <2>2. Plain(ParallelModeCommitReply(t))
    BY <1>2 DEF Plain, ParallelModeCommitReply
  <2> QED BY <1>2, <2>1, <2>2, DoCommitSends
<1>10. CASE HandleParallelModeCommit(s, m)
  <2>1. Send({RequestResult(t)})
    BY <1>10 DEF HandleParallelModeCommit
  <2>2. Plain(RequestResult(t))
    BY <1>2 DEF Plain, RequestResult
  <2> QED BY <2>1, <2>2 DEF Send
<1> QED BY <1>1, <1>3, <1>4, <1>5, <1>6, <1>7, <1>8, <1>9, <1>10

-----------------------------------------------------------------------------
(***************************************************************************)
(* The invariant is inductive.                                             *)
(***************************************************************************)
LEMMA InvInit ==
  ASSUME Init
  PROVE  Inv
<1>1. BaseInv
  BY BaseInit DEF Init
<1>2. DepsOK(NoDeps)
  BY DEF DepsOK, NoDeps
<1>3. CoordInv(NoDeps)
  BY <1>2, CoordInitLemma DEF Init
<1> QED BY <1>1, <1>3 DEF Inv

LEMMA InvNext ==
  ASSUME Inv, [Next]_vars
  PROVE  Inv'
<1>1. PICK D : D = NoDeps
  OBVIOUS
<1>2. BaseInv /\ CoordInv(D)
  BY <1>1 DEF Inv
<1>3. CASE ClientNext /\ UNCHANGED <<replicaVars, coordVars>>
  <2>1. BaseInv'
    BY <1>2, <1>3, ClientBase
  <2>2. /\ msgs \subseteq msgs'
        /\ \A m \in msgs' \ msgs : Plain(m)
    BY <1>2, <1>3, ClientMoves DEF Plain
  <2>3. \A m \in msgs' \ msgs : MsgOK(msgs', D, m)
    BY <1>1, <2>2, PlainLemma
  <2>4. CoordInv(D)'
    BY <1>2, <1>3, <2>2, <2>3, CoordSend
  <2> QED BY <1>1, <2>1, <2>4 DEF Inv
<1>4. CASE /\ ReplicaNext \/ ReplicaTimers \/ ParallelReplicaNext
           /\ UNCHANGED <<client, coordVars>>
  <2>1. BaseInv'
    <3>1. CASE ReplicaNext \/ ReplicaTimers
      BY <1>2, <1>4, <3>1, ReplicaBase
    <3>2. CASE ParallelReplicaNext
      BY <1>2, <1>4, <3>2, NotifyDecisionBase, ReplicateResultBase,
         ParallelModeCommitBase DEF ParallelReplicaNext
    <3> QED BY <1>4, <3>1, <3>2
  <2>2. /\ msgs \subseteq msgs'
        /\ \A m \in msgs' \ msgs : Plain(m) \/ PlainVote(m)
    BY <1>2, <1>4, ReplicaSends
  <2>3. \A m \in msgs' \ msgs : MsgOK(msgs', D, m)
    BY <1>1, <2>2, PlainLemma
  <2>4. CoordInv(D)'
    BY <1>2, <1>4, <2>2, <2>3, CoordSend
  <2> QED BY <1>1, <2>1, <2>4 DEF Inv
<1>5. CASE CoordNext /\ UNCHANGED <<client, replicaVars>>
  <2>1. CoordInv(D)'
    BY <1>2, <1>5, CoordNextLemma
  <2>2. BaseInv'
    BY <1>1, <1>2, <1>5, <2>1, CoordBase
  <2> QED BY <1>1, <2>1, <2>2 DEF Inv
<1>6. CASE UNCHANGED vars
  <2>1. /\ msgs' = msgs /\ client' = client /\ pendingTxns' = pendingTxns
        /\ committedTxns' = committedTxns /\ active' = active /\ log' = log
        /\ store' = store /\ UNCHANGED coordVars
    BY <1>6 DEF vars, replicaVars
  <2>2. BaseInv'
    BY <1>2, <2>1 DEF BaseInv, ClientTypeOK, ReplicaTypeOK
  <2>3. CoordInv(D)'
    BY <1>2, <2>1, CoordSend
  <2> QED BY <1>1, <2>2, <2>3 DEF Inv
<1> QED BY <1>3, <1>4, <1>5, <1>6 DEF Next

-----------------------------------------------------------------------------
(***************************************************************************)
(* The theorems.                                                           *)
(***************************************************************************)
\* Clients, replicas and coordinators are type correct.
THEOREM D2PCTyped == Spec => []TypeOK
<1>1. Inv => TypeOK
  BY DEF Inv, BaseInv, CoordInv, TypeOK
<1> QED BY <1>1, InvInit, InvNext, PTL DEF Spec

\* A commit is durable, by whichever of the two ways it was decided
\* (replica.cc:1141, lr/client.cc:217), when at least 2f replicas are
\* configured: then a majority, which the coordinators wait for, is f + 1.
\* Nothing in configuration.cc asks for that.
THEOREM CommitDurable ==
  ASSUME 2 * f <= n
  PROVE  Spec => []CommitIsDurable
<1>1. ASSUME Inv, NEW t \in Txn, Durable(log, t)
      PROVE  \A s \in participants[t] : Cardinality(Holders(t, s)) >= f + 1
  <2>1. Enough = f + 1
    BY EnoughLemma
  <2> TAKE s \in participants[t]
  <2>2. HoldersIn(log, t, s) = Holders(t, s)
    BY DEF HoldersIn, Holders
  <2>3. Stored(log, t, s)
    BY <1>1 DEF Durable
  <2> QED BY <2>1, <2>2, <2>3 DEF Stored
<1>2. ASSUME Inv, NEW t \in Txn,
             \/ client[t].phase = "committed"
             \/ \E s \in Shard, r \in Replica : store[s][r][t].applied
      PROVE  Durable(log, t)
  BY <1>2 DEF Inv, BaseInv, ClientOK
<1>3. Inv => CommitIsDurable
  BY <1>1, <1>2 DEF CommitIsDurable
<1> QED BY <1>3, InvInit, InvNext, PTL DEF Spec
=============================================================================
