-------------------------- MODULE FastCommitProofs --------------------------
(***************************************************************************)
(* Mode FAST, for any number of transactions, shards, replicas and         *)
(* retries: its invariants, and that it implements atomic commitment.      *)
(*                                                                         *)
(* Beyond what holds in both modes (BaseInv): nobody but the client        *)
(* decides, and a leader that has promised holds the transaction until the *)
(* client's decision reaches it: the sends that make a leader forget are   *)
(* those before its promise.                                               *)
(***************************************************************************)
EXTENDS FastCommit, Handlers

\* Most leaves are first-order; the ones that need arithmetic or records say SMT.
USE ZenonT(30)

Promised(t, s) == PrepareReply(t, s, "PREPAREOK") \in msgs

\* The leader of s has the entry req of t, has answered state and has t as st
\* in its store; P says whether it has answered PREPAREOK.
EntryOK(C, P, t, s, req, state, st) ==
  /\ req.is_participant
  /\ req.consensus => req.present
  /\ req.present => s \in participants[t] /\ state = "none" /\ st.prepared
  /\ state # "none" => Decided(C, t, state)
  /\ P /\ state = "none" => req.consensus

\* A follower is told what the client has decided.
FollowerWordOK(C, m) ==
  m.type = "ReplicateCommit" =>
    m.shard \in participants[m.tid] /\ Decided(C, m.tid, m.state)

\* The inductive invariant.
FastInv ==
  /\ BaseInv
  /\ \A m \in msgs : FollowerWordOK(client, m)
  /\ \A s \in Shard, t \in Txn :
       EntryOK(client, Promised(t, s), t, s, pendingTxns[s][t],
               committedTxns[s][t], store[s][Leader(s)][t])

-----------------------------------------------------------------------------
(***************************************************************************)
(* The invariant is inductive.                                             *)
(***************************************************************************)
\* A step answers only for what it changes.
LEMMA FastStep ==
  ASSUME FastInv, BaseInv', Kept(client, client'),
         \A m \in msgs' \ msgs : FollowerWordOK(client', m),
         \A x \in Shard, z \in Txn :
           \/ /\ pendingTxns'[x][z] = pendingTxns[x][z]
              /\ committedTxns'[x][z] = committedTxns[x][z]
              /\ store[x][Leader(x)][z].prepared
                   => store'[x][Leader(x)][z].prepared
              /\ Promised(z, x)' => Promised(z, x)
           \/ EntryOK(client', Promised(z, x)', z, x, pendingTxns'[x][z],
                      committedTxns'[x][z], store'[x][Leader(x)][z])
  PROVE  FastInv'
<1>1. PICK C, E : C = client /\ E = client'
  OBVIOUS
<1>2. Kept(C, E) /\ BaseInv
  BY <1>1 DEF FastInv
<1>3. \A t \in Txn : \A state : Decided(C, t, state) => Decided(E, t, state)
  BY <1>2 DEF Kept, Decided
<1>4. ASSUME NEW m \in msgs' PROVE FollowerWordOK(E, m)
  <2>1. CASE m \in msgs
    <3>1. FollowerWordOK(C, m)
      BY <1>1, <2>1 DEF FastInv
    <3>2. m.tid \in Txn
      <4>1. WordOK(log, client, m)
        BY <1>2, <2>1 DEF BaseInv
      <4> QED BY <4>1 DEF WordOK
    <3> QED BY <1>3, <3>1, <3>2 DEF FollowerWordOK
  <2> QED BY <1>1, <2>1
<1>5. ASSUME NEW x \in Shard, NEW z \in Txn
      PROVE  EntryOK(E, Promised(z, x)', z, x, pendingTxns'[x][z],
                     committedTxns'[x][z], store'[x][Leader(x)][z])
  <2>1. CASE /\ pendingTxns'[x][z] = pendingTxns[x][z]
             /\ committedTxns'[x][z] = committedTxns[x][z]
             /\ store[x][Leader(x)][z].prepared
                  => store'[x][Leader(x)][z].prepared
             /\ Promised(z, x)' => Promised(z, x)
    <3>1. PICK P, Q, req, state, st, new :
            /\ P = Promised(z, x) /\ Q = Promised(z, x)'
            /\ req = pendingTxns[x][z] /\ state = committedTxns[x][z]
            /\ st = store[x][Leader(x)][z] /\ new = store'[x][Leader(x)][z]
      OBVIOUS
    <3>2. EntryOK(C, P, z, x, req, state, st)
      BY <1>1, <3>1 DEF FastInv
    <3>3. (st.prepared => new.prepared) /\ (Q => P)
      BY <2>1, <3>1
    <3>4. EntryOK(E, Q, z, x, req, state, new)
      BY <1>3, <3>2, <3>3 DEF EntryOK
    <3> QED BY <2>1, <3>1, <3>4
  <2> QED BY <1>1, <2>1
<1> QED BY <1>1, <1>4, <1>5 DEF FastInv

\* A leader's step on t at s.
LEMMA LeaderStep ==
  ASSUME FastInv, BaseInv', UNCHANGED client, NEW s \in Shard, NEW t \in Txn,
         \A m \in msgs' \ msgs : FollowerWordOK(client, m),
         \A x \in Shard, z \in Txn :
           ~ (x = s /\ z = t) =>
             /\ pendingTxns'[x][z] = pendingTxns[x][z]
             /\ committedTxns'[x][z] = committedTxns[x][z]
             /\ store'[x][Leader(x)][z] = store[x][Leader(x)][z]
             /\ Promised(z, x)' => Promised(z, x),
         EntryOK(client, Promised(t, s)', t, s, pendingTxns'[s][t],
                 committedTxns'[s][t], store'[s][Leader(s)][t])
  PROVE  FastInv'
<1>1. Kept(client, client')
  BY DEF Kept
<1>2. ASSUME NEW x \in Shard, NEW z \in Txn
      PROVE  \/ /\ pendingTxns'[x][z] = pendingTxns[x][z]
                /\ committedTxns'[x][z] = committedTxns[x][z]
                /\ store[x][Leader(x)][z].prepared
                     => store'[x][Leader(x)][z].prepared
                /\ Promised(z, x)' => Promised(z, x)
             \/ EntryOK(client', Promised(z, x)', z, x, pendingTxns'[x][z],
                        committedTxns'[x][z], store'[x][Leader(x)][z])
  <2>1. CASE x = s /\ z = t
    BY <2>1
  <2>2. CASE ~ (x = s /\ z = t)
    BY <2>2
  <2> QED BY <2>1, <2>2
<1>3. \A m \in msgs' \ msgs : FollowerWordOK(client', m)
  OBVIOUS
<1> QED BY <1>1, <1>2, <1>3, FastStep

\* Who promises what, by the messages a step sends.
LEMMA PromisedLemma ==
  ASSUME NEW t \in Txn, NEW s \in Shard,
         \A m \in msgs' \ msgs :
           m.type = "PrepareTransactionReply" => m.tid = t /\ m.shard = s
  PROVE  \A x \in Shard, z \in Txn :
           ~ (x = s /\ z = t) => (Promised(z, x)' => Promised(z, x))
BY SMTT(30) DEF Promised, PrepareReply

\* What a handler finds at the leader.
LEMMA LeaderFacts ==
  ASSUME FastInv, NEW s \in Shard, NEW m \in msgs
  PROVE  /\ m.tid \in Txn /\ Leader(s) \in Replica
         /\ store[s][Leader(s)][m.tid] \in StoreState
         /\ pendingTxns[s][m.tid] \in PendingTransaction
         /\ committedTxns[s][m.tid] \in {"none", "COMMIT", "ABORT"}
         /\ WordOK(log, client, m)
         /\ EntryOK(client, Promised(m.tid, s), m.tid, s, pendingTxns[s][m.tid],
                    committedTxns[s][m.tid], store[s][Leader(s)][m.tid])
<1>1. BaseInv
  BY DEF FastInv
<1>2. /\ m.tid \in Txn /\ WordOK(log, client, m)
      /\ pendingTxns[s][m.tid] \in PendingTransaction
      /\ committedTxns[s][m.tid] \in {"none", "COMMIT", "ABORT"}
      /\ \A r \in Replica : store[s][r][m.tid] \in StoreState
  BY <1>1, ReplicaFacts
<1>3. Leader(s) \in Replica
  BY ConstantsLemma
<1>4. EntryOK(client, Promised(m.tid, s), m.tid, s, pendingTxns[s][m.tid],
              committedTxns[s][m.tid], store[s][Leader(s)][m.tid])
  BY <1>2 DEF FastInv
<1> QED BY <1>2, <1>3, <1>4

\* A leader that forgets before there is a consensus breaks no promise.
LEMMA ForgetEntry ==
  ASSUME NEW C, NEW P, NEW Q, NEW t, NEW s, NEW req, NEW state, NEW st, NEW w,
         EntryOK(C, P, t, s, req, state, st), ~req.consensus, Q => P
  PROVE  EntryOK(C, Q, t, s, NoTransaction, state, w)
BY DEF EntryOK, NoTransaction

\* HandlePrepareTxn.  A transaction that fails validation is not prepared, so
\* the leader does not hold it and has promised nothing.
LEMMA PrepareTxnFast ==
  ASSUME FastInv, BaseInv', UNCHANGED client, NEW s \in Shard, NEW m \in msgs,
         HandlePrepareTxn(s, m)
  PROVE  FastInv'
<1> DEFINE t == m.tid
           req == pendingTxns[s][t]
           state == committedTxns[s][t]
           r == Leader(s)
           st == store[s][r][t]
<1>1. /\ m.type = "PrepareTransaction" /\ m.shard = s
      /\ \/ /\ state # "none" /\ Send({PrepareReply(t, s, state)})
            /\ UNCHANGED replicaVars
         \/ /\ req.consensus /\ Send({PrepareReply(t, s, "PREPAREOK")})
            /\ UNCHANGED replicaVars
         \/ /\ state = "none" /\ ~st.prepared
            /\ SetStore(s, r, t, StoreAbort(st))
            /\ Send({PrepareReply(t, s, "ABORT")})
            /\ UNCHANGED <<pendingTxns, committedTxns, active, log>>
         \/ /\ state = "none" /\ ~req.consensus
            /\ SetStore(s, r, t, StorePrepare(st))
            /\ InvokeReplicateTxn(s, t)
            /\ UNCHANGED committedTxns
  BY DEF HandlePrepareTxn, MayFail
<1>2. /\ t \in Txn /\ req \in PendingTransaction /\ st \in StoreState
      /\ state \in {"none", "COMMIT", "ABORT"} /\ r \in Replica
      /\ WordOK(log, client, m)
      /\ EntryOK(client, Promised(t, s), t, s, req, state, st) /\ BaseInv
  BY LeaderFacts DEF FastInv
<1>3. s \in participants[t]
  BY <1>1, <1>2 DEF WordOK
<1> HIDE DEF t, req, state, r, st
<1>4. ASSUME NEW word, Send({PrepareReply(t, s, word)})
      PROVE  /\ \A x \in msgs' \ msgs : FollowerWordOK(client, x)
             /\ \A x \in Shard, z \in Txn :
                  ~ (x = s /\ z = t) => (Promised(z, x)' => Promised(z, x))
             /\ word # "PREPAREOK" => (Promised(t, s)' => Promised(t, s))
  <2>1. msgs' = msgs \cup {PrepareReply(t, s, word)}
    BY <1>4 DEF Send
  <2>2. \A x \in msgs' \ msgs : x.type = "PrepareTransactionReply"
                                /\ x.tid = t /\ x.shard = s /\ x.state = word
    BY <2>1, SMTT(30) DEF PrepareReply
  <2>3. PrepareReply(t, s, "PREPAREOK").state = "PREPAREOK"
    BY DEF PrepareReply
  <2> QED BY <1>2, <2>2, <2>3, PromisedLemma DEF FollowerWordOK, Promised
<1>5. CASE /\ \/ state # "none" /\ Send({PrepareReply(t, s, state)})
              \/ req.consensus /\ Send({PrepareReply(t, s, "PREPAREOK")})
           /\ UNCHANGED replicaVars
  <2>1. pendingTxns' = pendingTxns /\ committedTxns' = committedTxns
        /\ store' = store
    BY <1>5 DEF replicaVars
  <2>2. /\ \A x \in msgs' \ msgs : FollowerWordOK(client, x)
        /\ \A x \in Shard, z \in Txn :
             ~ (x = s /\ z = t) => (Promised(z, x)' => Promised(z, x))
    BY <1>4, <1>5
  <2>3. \/ req.consensus
        \/ Promised(t, s)' => Promised(t, s)
    BY <1>2, <1>4, <1>5
  <2>4. EntryOK(client, Promised(t, s)', t, s, req, state, st)
    BY <1>2, <2>3 DEF EntryOK
  <2> QED BY <1>2, <2>1, <2>2, <2>4, LeaderStep DEF req, state, st, r
<1>6. CASE /\ state = "none" /\ ~st.prepared
           /\ SetStore(s, r, t, StoreAbort(st))
           /\ Send({PrepareReply(t, s, "ABORT")})
           /\ UNCHANGED <<pendingTxns, committedTxns, active, log>>
  <2>1. StoreAbort(st) \in StoreState
    BY <1>2, StoreLemma
  <2>2. /\ store'[s][r][t] = StoreAbort(st)
        /\ \A x \in Shard, y \in Replica, z \in Txn :
             ~ (x = s /\ y = r /\ z = t) => store'[x][y][z] = store[x][y][z]
    BY <1>2, <1>6, <2>1, SetStoreLemma, SMTT(30)
  <2>3. /\ \A x \in msgs' \ msgs : FollowerWordOK(client, x)
        /\ \A x \in Shard, z \in Txn :
             ~ (x = s /\ z = t) => (Promised(z, x)' => Promised(z, x))
        /\ Promised(t, s)' => Promised(t, s)
    BY <1>4, <1>6, SMTT(30)
  <2>4. EntryOK(client, Promised(t, s)', t, s, req, state, StoreAbort(st))
    BY <1>2, <1>6, <2>3 DEF EntryOK
  <2> QED BY <1>2, <1>6, <2>2, <2>3, <2>4, ConstantsLemma, LeaderStep, SMTT(30)
          DEF req, state, r
<1>7. CASE /\ state = "none" /\ ~req.consensus
           /\ SetStore(s, r, t, StorePrepare(st))
           /\ InvokeReplicateTxn(s, t) /\ UNCHANGED committedTxns
  <2>1. StorePrepare(st) \in StoreState /\ StorePrepare(st).prepared
    BY <1>2, StoreLemma
  <2>2. /\ store'[s][r][t] = StorePrepare(st)
        /\ \A x \in Shard, y \in Replica, z \in Txn :
             ~ (x = s /\ y = r /\ z = t) => store'[x][y][z] = store[x][y][z]
    BY <1>2, <1>7, <2>1, SetStoreLemma, SMTT(30)
  <2> DEFINE next == NextLsn(s, t)
             new == [req EXCEPT !.present = TRUE, !.timer = TRUE, !.lsn = next]
  <2>3. /\ \/ Send({ReplicateTransaction(t, s, req.lsn)})
           \/ Send({ReplicateTransaction(t, s, next)})
        /\ \/ UNCHANGED pendingTxns
           \/ SetPending(s, t, new)
           \/ SendFailed(s, t)
    BY <1>7 DEF InvokeReplicateTxn, req
  <2> HIDE DEF next
  <2>4. /\ \A x \in msgs' \ msgs : FollowerWordOK(client, x)
        /\ \A x \in Shard, z \in Txn : Promised(z, x)' => Promised(z, x)
    <3>1. \A x \in msgs' \ msgs : x.type = "ReplicateTransaction"
      BY <2>3, SMTT(30) DEF Send, ReplicateTransaction
    <3> QED BY <3>1, SMTT(30) DEF FollowerWordOK, Promised, PrepareReply
  <2>5. /\ \A x \in Shard, z \in Txn :
             ~ (x = s /\ z = t) => pendingTxns'[x][z] = pendingTxns[x][z]
        /\ \/ pendingTxns'[s][t] = req
           \/ pendingTxns'[s][t] = NoTransaction
           \/ /\ pendingTxns'[s][t].present
              /\ pendingTxns'[s][t].is_participant = req.is_participant
              /\ pendingTxns'[s][t].consensus = req.consensus
    <3>1. /\ new.present /\ new.is_participant = req.is_participant
          /\ new.consensus = req.consensus
      BY <1>2 DEF PendingTransaction
    <3>2. ReplicaTypeOK
      BY <1>2 DEF BaseInv
    <3> HIDE DEF new
    <3>3. SetPending(s, t, new) =>
            /\ pendingTxns'[s][t] = new
            /\ \A x \in Shard, z \in Txn :
                 ~ (x = s /\ z = t) => pendingTxns'[x][z] = pendingTxns[x][z]
      BY <1>2, <3>2, SMTT(30) DEF SetPending, ReplicaTypeOK
    <3>4. CASE pendingTxns' = pendingTxns \/ SetPending(s, t, new)
      BY <3>1, <3>3, <3>4 DEF req
    <3>5. CASE SendFailed(s, t)
      BY <1>2, <3>5, ForgetLemma
    <3> QED BY <2>3, <3>4, <3>5
  <2>6. EntryOK(client, Promised(t, s)', t, s, pendingTxns'[s][t], state,
                StorePrepare(st))
    <3>1. PICK Q, q, w : /\ Q = Promised(t, s)' /\ q = pendingTxns'[s][t]
                         /\ w = StorePrepare(st)
      OBVIOUS
    <3>2. \/ q = req
          \/ q = NoTransaction
          \/ /\ q.present /\ q.is_participant = req.is_participant
             /\ q.consensus = req.consensus
      BY <2>5, <3>1
    <3>3. (Q => Promised(t, s)) /\ w.prepared
      BY <1>2, <2>1, <2>4, <3>1
    <3>4. CASE q = NoTransaction
      <4>1. EntryOK(client, Q, t, s, NoTransaction, state, w)
        BY <1>2, <1>7, <3>3, ForgetEntry
      <4> QED BY <3>1, <3>4, <4>1
    <3>5. CASE q # NoTransaction
      <4>1. EntryOK(client, Q, t, s, q, state, w)
        BY <1>2, <1>3, <1>7, <3>2, <3>3, <3>5 DEF EntryOK
      <4> QED BY <3>1, <4>1
    <3> QED BY <3>4, <3>5
  <2>7. committedTxns' = committedTxns
    BY <1>7
  <2> QED BY <1>2, <2>2, <2>4, <2>5, <2>6, <2>7, ConstantsLemma, LeaderStep, SMTT(30)
          DEF state, r
<1> QED BY <1>1, <1>5, <1>6, <1>7 DEF t, req, state, r, st

\* HandleReplicateTransaction: a replica that prepares breaks no promise.
LEMMA ReplicateTransactionFast ==
  ASSUME FastInv, BaseInv', UNCHANGED client, NEW s \in Shard, NEW r \in Replica,
         NEW m \in msgs, HandleReplicateTransaction(s, r, m)
  PROVE  FastInv'
<1> DEFINE t == m.tid
           st == store[s][r][t]
           M == {ReplicateTransactionReply(t, s, r)}
                  \cup (IF tpcMode = "PARALLEL"
                          THEN {ReplyAndVote(t, s, r, FALSE)} ELSE {})
<1>1. /\ UNCHANGED store \/ SetStore(s, r, t, StorePrepare(st))
      /\ Send(M) /\ UNCHANGED <<pendingTxns, committedTxns>>
  BY DEF HandleReplicateTransaction
<1>2. t \in Txn /\ st \in StoreState /\ BaseInv
  BY ReplicaFacts DEF FastInv
<1> HIDE DEF t, st
<1>3. StorePrepare(st) \in StoreState /\ StorePrepare(st).prepared
  BY <1>2, StoreLemma
<1>4. \A x \in Shard, y \in Replica, z \in Txn :
        store[x][y][z].prepared => store'[x][y][z].prepared
  <2>1. CASE UNCHANGED store
    BY <2>1
  <2>2. CASE SetStore(s, r, t, StorePrepare(st))
    <3>1. /\ store'[s][r][t] = StorePrepare(st)
          /\ \A x \in Shard, y \in Replica, z \in Txn :
               ~ (x = s /\ y = r /\ z = t) => store'[x][y][z] = store[x][y][z]
      BY <1>2, <1>3, <2>2, SetStoreLemma, SMTT(30)
    <3> QED BY <1>3, <3>1
  <2> QED BY <1>1, <2>1, <2>2
<1>5. \A x \in msgs' \ msgs :
        x.type \in {"ReplicateTransactionReply", "ReplicateReplyAndVote"}
  <2>1. \A x \in msgs' \ msgs : \/ x = ReplicateTransactionReply(t, s, r)
                               \/ x = ReplyAndVote(t, s, r, FALSE)
    BY <1>1 DEF Send
  <2> QED BY <2>1, SMTT(30) DEF ReplicateTransactionReply, ReplyAndVote
<1>6. /\ \A x \in msgs' \ msgs : FollowerWordOK(client', x)
      /\ \A x \in Shard, z \in Txn : Promised(z, x)' => Promised(z, x)
  BY <1>5, SMTT(30) DEF FollowerWordOK, Promised, PrepareReply
<1>7. Kept(client, client')
  BY DEF Kept
<1>8. \A x \in Shard, z \in Txn :
        /\ pendingTxns'[x][z] = pendingTxns[x][z]
        /\ committedTxns'[x][z] = committedTxns[x][z]
        /\ store[x][Leader(x)][z].prepared => store'[x][Leader(x)][z].prepared
        /\ Promised(z, x)' => Promised(z, x)
  BY <1>1, <1>4, <1>6, ConstantsLemma
<1> QED BY <1>6, <1>7, <1>8, FastStep

\* A leader that forgets the request of t at s, before the consensus.
LEMMA ForgetFast ==
  ASSUME FastInv, BaseInv', NEW s \in Shard, NEW t \in Txn, SendFailed(s, t),
         ~pendingTxns[s][t].consensus,
         UNCHANGED <<client, committedTxns, store, msgs>>
  PROVE  FastInv'
<1> DEFINE state == committedTxns[s][t]
           st == store[s][Leader(s)][t]
<1>1. /\ pendingTxns'[s][t] = NoTransaction
      /\ \A x \in Shard, z \in Txn :
           ~ (x = s /\ z = t) => pendingTxns'[x][z] = pendingTxns[x][z]
  BY ForgetLemma DEF FastInv
<1>2. \A x \in Shard, z \in Txn : Promised(z, x)' => Promised(z, x)
  BY DEF Promised
<1>3. EntryOK(client, Promised(t, s), t, s, pendingTxns[s][t], state, st)
  BY DEF FastInv
<1>4. EntryOK(client, Promised(t, s)', t, s, NoTransaction, state, st)
  <2>1. PICK P, Q : P = Promised(t, s) /\ Q = Promised(t, s)'
    OBVIOUS
  <2>2. EntryOK(client, P, t, s, pendingTxns[s][t], state, st) /\ (Q => P)
    BY <1>2, <1>3, <2>1
  <2>3. EntryOK(client, Q, t, s, NoTransaction, state, st)
    BY <2>2 DEF EntryOK, NoTransaction
  <2> QED BY <2>1, <2>3
<1> QED BY <1>1, <1>2, <1>4, LeaderStep

\* HandleReplicateTransactionReply: the leader promises what it holds.
LEMMA TransactionReplyFast ==
  ASSUME FastInv, BaseInv', UNCHANGED client, NEW s \in Shard, NEW m \in msgs,
         HandleReplicateTransactionReply(s, m)
  PROVE  FastInv'
<1> DEFINE t == m.tid
           req == pendingTxns[s][t]
           state == committedTxns[s][t]
           st == store[s][Leader(s)][t]
           quorum == req.quorum \cup {m.replica}
           reached == Cardinality(quorum) >= QuorumSize
           new == [req EXCEPT !.quorum = quorum, !.consensus = reached]
           M == IF reached /\ tpcMode = "FAST"
                  THEN {PrepareReply(t, s, "PREPAREOK")} ELSE {}
<1>1. /\ req.present /\ ~req.consensus
      /\ \/ SetPending(s, t, new) /\ Send(M)
         \/ SendFailed(s, t) /\ UNCHANGED msgs
      /\ UNCHANGED <<committedTxns, log, store>>
  BY DEF HandleReplicateTransactionReply
<1>2. /\ t \in Txn /\ req \in PendingTransaction
      /\ EntryOK(client, Promised(t, s), t, s, req, state, st) /\ BaseInv
  BY LeaderFacts DEF FastInv
<1> HIDE DEF t, req, state, st, quorum, reached
<1>3. CASE SendFailed(s, t) /\ UNCHANGED msgs
  BY <1>1, <1>2, <1>3, ForgetFast DEF req
<1>4. CASE SetPending(s, t, new) /\ Send(M)
  <2>1. /\ new.present = req.present /\ new.is_participant = req.is_participant
        /\ new.consensus = reached
    BY <1>2 DEF PendingTransaction
  <2> HIDE DEF new
  <2>2. /\ pendingTxns'[s][t] = new
        /\ \A x \in Shard, z \in Txn :
             ~ (x = s /\ z = t) => pendingTxns'[x][z] = pendingTxns[x][z]
    <3>1. ReplicaTypeOK
      BY <1>2 DEF BaseInv
    <3> QED BY <1>2, <1>4, <3>1 DEF SetPending, ReplicaTypeOK
  <2>3. \A x \in msgs' \ msgs : x = PrepareReply(t, s, "PREPAREOK") /\ reached
    BY <1>4 DEF Send
  <2>4. /\ \A x \in msgs' \ msgs : FollowerWordOK(client, x)
        /\ \A x \in Shard, z \in Txn :
             ~ (x = s /\ z = t) => (Promised(z, x)' => Promised(z, x))
    <3>1. \A x \in msgs' \ msgs : x.type = "PrepareTransactionReply"
                                  /\ x.tid = t /\ x.shard = s
      BY <2>3, SMTT(30) DEF PrepareReply
    <3> QED BY <1>2, <3>1, PromisedLemma DEF FollowerWordOK
  <2>5. Promised(t, s)' => Promised(t, s) \/ reached
    BY <2>3 DEF Promised
  <2>6. EntryOK(client, Promised(t, s)', t, s, new, state, st)
    BY <1>1, <1>2, <2>1, <2>5 DEF EntryOK
  <2> QED BY <1>1, <1>2, <2>2, <2>4, <2>6, LeaderStep, SMTT(30) DEF state, st
<1> QED BY <1>1, <1>3, <1>4

\* ResendReplicateTxn.
LEMMA ResendFast ==
  ASSUME FastInv, BaseInv', UNCHANGED client, ReplicaTimers
  PROVE  FastInv'
<1>1. PICK s \in Shard, t \in Txn : ResendReplicateTxn(s, t)
  BY DEF ReplicaTimers
<1>2. /\ ~pendingTxns[s][t].consensus /\ SendFailed(s, t)
      /\ UNCHANGED <<committedTxns, active, log, store, msgs>>
  BY <1>1, FastAssumption DEF ResendReplicateTxn
<1> QED BY <1>2, ForgetFast

\* HandleCommit: the decision the leader executes, and tells its followers of,
\* is the client's.
LEMMA CommitFast ==
  ASSUME FastInv, BaseInv', UNCHANGED client, NEW s \in Shard, NEW m \in msgs,
         HandleCommit(s, m)
  PROVE  FastInv'
<1> DEFINE t == m.tid
           state == m.state
           req == pendingTxns[s][t]
           r == Leader(s)
           st == applyToStore(store[s][r][t], state)
           new == IF state = "ABORT" THEN StoreAbort(st) ELSE st
<1>1. m.type = "Commit" /\ m.shard = s /\ DoCommit(s, t, state, {})
  BY DEF HandleCommit
<1>2. /\ t \in Txn /\ r \in Replica /\ store[s][r][t] \in StoreState
      /\ WordOK(log, client, m) /\ BaseInv
      /\ EntryOK(client, Promised(t, s), t, s, req, committedTxns[s][t],
                 store[s][r][t])
  BY LeaderFacts DEF FastInv
<1>3. Decided(client, t, state) /\ s \in participants[t]
  BY <1>1, <1>2 DEF WordOK
<1>4. state \in {"COMMIT", "ABORT"}
  BY <1>3 DEF Decided
<1>5. req.is_participant
  BY <1>2 DEF EntryOK
<1>6. /\ SetPending(s, t, NoTransaction)
      /\ Send({} \cup notifyCommitToReplica(t, s, state))
      /\ SetStore(s, r, t, new) /\ SetCommitted(s, t, state)
  BY <1>1, <1>5 DEF DoCommit
<1>7. new \in StoreState
  <2>1. st \in StoreState
    BY <1>2, StoreLemma
  <2> HIDE DEF st
  <2>2. StoreAbort(st) \in StoreState
    BY <2>1, StoreLemma
  <2> QED BY <2>1, <2>2
<1> HIDE DEF t, state, new, r
<1>8. /\ NoTransaction \in PendingTransaction
      /\ NoTransaction.is_participant /\ ~NoTransaction.present
      /\ ~NoTransaction.consensus
  BY ReplicaAssumption, SMTT(30) DEF NoTransaction, PendingTransaction
<1>9. /\ pendingTxns'[s][t] = NoTransaction
      /\ \A x \in Shard, z \in Txn :
           ~ (x = s /\ z = t) => pendingTxns'[x][z] = pendingTxns[x][z]
  BY <1>2, <1>6, <1>8, SetPendingLemma
<1>10. /\ committedTxns'[s][t] = state
       /\ \A x \in Shard, z \in Txn :
            ~ (x = s /\ z = t) => committedTxns'[x][z] = committedTxns[x][z]
  BY <1>2, <1>4, <1>6, SetCommittedLemma, SMTT(30)
<1>11. \A x \in Shard, y \in Replica, z \in Txn :
         ~ (x = s /\ y = r /\ z = t) => store'[x][y][z] = store[x][y][z]
  BY <1>2, <1>6, <1>7, SetStoreLemma, SMTT(30)
<1>12. \A x \in msgs' \ msgs : x = ReplicateCommit(t, s, state)
  BY <1>6 DEF Send, notifyCommitToReplica
<1>13. /\ \A x \in msgs' \ msgs : FollowerWordOK(client, x)
       /\ \A x \in Shard, z \in Txn : Promised(z, x)' => Promised(z, x)
  <2>1. \A x \in msgs' \ msgs : /\ x.type = "ReplicateCommit" /\ x.tid = t
                                /\ x.shard = s /\ x.state = state
    BY <1>12, SMTT(30) DEF ReplicateCommit
  <2> QED BY <1>3, <2>1, SMTT(30) DEF FollowerWordOK, Promised, PrepareReply
<1>14. EntryOK(client, Promised(t, s)', t, s, NoTransaction, state,
               store'[s][r][t])
  BY <1>3, <1>4, <1>8 DEF EntryOK
<1> QED BY <1>2, <1>9, <1>10, <1>11, <1>13, <1>14, ConstantsLemma, LeaderStep, SMTT(30)
        DEF r

\* HandleReplicateCommit concerns followers only.
LEMMA ReplicateCommitFast ==
  ASSUME FastInv, BaseInv', UNCHANGED client, NEW s \in Shard, NEW r \in Replica,
         NEW m \in msgs, HandleReplicateCommit(s, r, m)
  PROVE  FastInv'
<1> DEFINE t == m.tid
           new == applyToStore(store[s][r][t], m.state)
<1>1. /\ r # Leader(s) /\ SetStore(s, r, t, new)
      /\ UNCHANGED <<pendingTxns, committedTxns, msgs>>
  BY DEF HandleReplicateCommit
<1>2. t \in Txn /\ store[s][r][t] \in StoreState /\ BaseInv
  BY ReplicaFacts DEF FastInv
<1>3. new \in StoreState
  BY <1>2, StoreLemma
<1> HIDE DEF t, new
<1>4. \A x \in Shard, y \in Replica, z \in Txn :
        ~ (x = s /\ y = r /\ z = t) => store'[x][y][z] = store[x][y][z]
  BY <1>1, <1>2, <1>3, SetStoreLemma, SMTT(30)
<1>5. \A x \in Shard, z \in Txn :
        store'[x][Leader(x)][z] = store[x][Leader(x)][z]
  BY <1>1, <1>4, ConstantsLemma, SMTT(30)
<1>6. Kept(client, client')
  BY DEF Kept
<1>7. \A x \in Shard, z \in Txn :
        /\ pendingTxns'[x][z] = pendingTxns[x][z]
        /\ committedTxns'[x][z] = committedTxns[x][z]
        /\ store[x][Leader(x)][z].prepared => store'[x][Leader(x)][z].prepared
        /\ Promised(z, x)' => Promised(z, x)
  BY <1>1, <1>5 DEF Promised
<1> QED BY <1>1, <1>6, <1>7, FastStep

\* Every step keeps the invariant.
LEMMA FastNext ==
  ASSUME FastInv, [Next]_vars
  PROVE  FastInv'
<1>1. BaseInv
  BY DEF FastInv
<1>2. CASE ClientNext /\ UNCHANGED replicaVars
  <2>1. BaseInv'
    BY <1>1, <1>2, ClientBase
  <2>2. /\ \A m \in msgs' \ msgs :
             m.type \in {"PrepareTransaction", "ParallelModeCommit", "Commit"}
        /\ \E t \in Txn : \E cl :
             /\ Update(t, cl)
             /\ \/ cl.phase = client[t].phase
                \/ client[t].phase \in {"active", "preparing"}
    BY <1>1, <1>2, ClientMoves
  <2>3. ClientTypeOK
    BY <1>1 DEF BaseInv
  <2>4. Kept(client, client')
    BY <2>2, <2>3 DEF Kept, Update, ClientTypeOK
  <2>5. /\ \A m \in msgs' \ msgs : FollowerWordOK(client', m)
        /\ \A x \in Shard, z \in Txn : Promised(z, x)' => Promised(z, x)
    BY <2>2, SMTT(30) DEF FollowerWordOK, Promised, PrepareReply
  <2> QED BY <1>2, <2>1, <2>4, <2>5, FastStep DEF replicaVars
<1>3. CASE ReplicaNext /\ UNCHANGED client
  <2>1. BaseInv'
    BY <1>1, <1>3, ReplicaBase
  <2>2. PICK s \in Shard, m \in msgs :
          \/ HandlePrepareTxn(s, m)
          \/ HandleReplicateTransactionReply(s, m)
          \/ HandleCommit(s, m)
          \/ \E r \in Replica : \/ HandleReplicateTransaction(s, r, m)
                                \/ HandleReplicateCommit(s, r, m)
    BY <1>3 DEF ReplicaNext
  <2> QED BY <1>3, <2>1, <2>2, PrepareTxnFast, TransactionReplyFast, CommitFast,
             ReplicateTransactionFast, ReplicateCommitFast
<1>4. CASE ReplicaTimers /\ UNCHANGED client
  BY <1>1, <1>4, ReplicaBase, ResendFast
<1>5. CASE UNCHANGED vars
  <2>1. /\ msgs' = msgs /\ client' = client /\ pendingTxns' = pendingTxns
        /\ committedTxns' = committedTxns /\ active' = active /\ log' = log
        /\ store' = store
    BY <1>5 DEF vars, replicaVars
  <2>2. BaseInv'
    BY <1>1, <2>1 DEF BaseInv, ClientTypeOK, ReplicaTypeOK
  <2>3. Kept(client, client')
    BY <2>1 DEF Kept
  <2> QED BY <2>1, <2>2, <2>3, FastStep DEF Promised
<1> QED BY <1>2, <1>3, <1>4, <1>5 DEF Next

LEMMA FastInit ==
  ASSUME Init
  PROVE  FastInv
<1>1. BaseInv
  BY BaseInit DEF Init
<1>2. \A s \in Shard, t \in Txn :
        /\ pendingTxns[s][t] = NoTransaction /\ committedTxns[s][t] = "none"
        /\ ~Promised(t, s)
  BY DEF Init, ReplicaInit, Promised
<1>3. \A s \in Shard, t \in Txn : \A st :
        EntryOK(client, Promised(t, s), t, s, NoTransaction, "none", st)
  BY <1>2 DEF EntryOK, NoTransaction
<1>4. \A s \in Shard, t \in Txn :
        EntryOK(client, Promised(t, s), t, s, pendingTxns[s][t],
                committedTxns[s][t], store[s][Leader(s)][t])
  BY <1>2, <1>3
<1>5. \A m \in msgs : FollowerWordOK(client, m)
  BY DEF Init
<1> QED BY <1>1, <1>4, <1>5 DEF FastInv

-----------------------------------------------------------------------------
(***************************************************************************)
(* The theorems.                                                           *)
(***************************************************************************)
\* Clients and replicas are type correct: whatever is lost, repeated or late,
\* a leader answers a decided transaction with the decision.
THEOREM FastTyped == Spec => []TypeOK
<1>1. FastInv => TypeOK
  BY DEF FastInv, BaseInv, TypeOK
<1> QED BY <1>1, FastInit, FastNext, PTL DEF Spec

\* A PREPAREOK is durable (lr/client.cc:217): the acknowledgements a leader
\* counts are of replicas that hold the transaction, for any f and n.
THEOREM PrepareOKDurable == Spec => []PrepareOKIsDurable
<1>1. ASSUME FastInv, NEW t \in Txn, NEW s \in Shard,
             PrepareReply(t, s, "PREPAREOK") \in msgs
      PROVE  Cardinality(Holders(t, s)) >= f + 1
  <2> DEFINE m == PrepareReply(t, s, "PREPAREOK")
  <2>1. /\ m.type = "PrepareTransactionReply" /\ m.tid = t /\ m.shard = s
        /\ m.state = "PREPAREOK"
    BY DEF PrepareReply
  <2>2. WordOK(log, client, m)
    BY <1>1 DEF FastInv, BaseInv
  <2> HIDE DEF m
  <2>3. Stored(log, t, s)
    BY <2>1, <2>2 DEF WordOK
  <2> QED BY <2>3, EnoughLemma, FastAssumption DEF Stored, HoldersIn, Holders
<1>2. FastInv => PrepareOKIsDurable
  BY <1>1 DEF PrepareOKIsDurable
<1> QED BY <1>2, FastInit, FastNext, PTL DEF Spec

\* A leader that has promised keeps the transaction prepared and pending until
\* it has executed a decision (replica.cc, HandlePrepareTxn and HandleCommit).
THEOREM PromiseKeptTheorem == Spec => []PromiseKept
<1>1. ASSUME FastInv, NEW t \in Txn, NEW s \in Shard,
             Promised(t, s), committedTxns[s][t] = "none"
      PROVE  pendingTxns[s][t].present /\ store[s][Leader(s)][t].prepared
  <2>1. EntryOK(client, Promised(t, s), t, s, pendingTxns[s][t],
                committedTxns[s][t], store[s][Leader(s)][t])
    BY <1>1 DEF FastInv
  <2> QED BY <1>1, <2>1 DEF EntryOK
<1>2. FastInv => PromiseKept
  BY <1>1 DEF PromiseKept, Promised
<1> QED BY <1>2, FastInit, FastNext, PTL DEF Spec

-----------------------------------------------------------------------------
(***************************************************************************)
(* The refinement.  A client's decision is AC's; a log that grows persists *)
(* the transaction or nothing; an executed decision is carried out.        *)
(***************************************************************************)
\* A log that grows by an entry of t at s makes t durable at s at most.
LEMMA DurableStep ==
  ASSUME BaseInv, NEW s \in Shard, NEW r \in Replica, NEW t \in Txn,
         \/ log' = log
         \/ \E lsn \in 0..(MaxLsn - 1) :
              log' = [log EXCEPT ![s][r] = @ \cup {<<t, lsn>>}]
  PROVE  \/ DurableAt' = DurableAt
         \/ DurableAt' = [DurableAt EXCEPT ![t] = @ \cup {s}]
<1>1. CASE log' = log
  BY <1>1, ZenonT(90) DEF DurableAt, Holders
<1>2. ASSUME NEW lsn \in 0..(MaxLsn - 1),
             log' = [log EXCEPT ![s][r] = @ \cup {<<t, lsn>>}]
      PROVE  \/ DurableAt' = DurableAt
             \/ DurableAt' = [DurableAt EXCEPT ![t] = @ \cup {s}]
  <2>1. PICK L, N : L = log /\ N = log'
    OBVIOUS
  <2>2. Grows(L, N)
    <3>1. Grows(log, log')
      BY <1>2, LogLemma
    <3> QED BY <2>1, <3>1
  <2>3. ASSUME NEW x \in Shard, NEW z \in Txn, ~ (x = s /\ z = t)
        PROVE  HoldersIn(N, z, x) = HoldersIn(L, z, x)
    <3>1. log \in [Shard -> [Replica -> SUBSET (Txn \X (0..(MaxLsn - 1)))]]
      BY DEF BaseInv, ReplicaTypeOK
    <3>2. \A y \in Replica : N[x][y] = L[x][y] \/ (x = s /\ N[x][y] = L[x][y] \cup {<<t, lsn>>})
      BY <1>2, <2>1, <3>1
    <3>3. <<t, lsn>>[1] = t
      OBVIOUS
    <3> QED BY <2>3, <3>2, <3>3, SMTT(30) DEF HoldersIn
  <2>4. Stored(L, t, s) => Stored(N, t, s)
    BY <2>2, StoredGrows
  <2>5. \A z \in Txn : /\ DurableAt[z] = {x \in Shard : Stored(L, z, x)}
                       /\ DurableAt'[z] = {x \in Shard : Stored(N, z, x)}
    BY <2>1, EnoughLemma, FastAssumption
       DEF DurableAt, Holders, Stored, HoldersIn, QuorumSize
  <2>6. \A x \in Shard, z \in Txn :
          ~ (x = s /\ z = t) => (Stored(N, z, x) <=> Stored(L, z, x))
    BY <2>3 DEF Stored
  <2>7. /\ \A z \in Txn : z # t => DurableAt'[z] = DurableAt[z]
        /\ \/ DurableAt'[t] = DurableAt[t]
           \/ DurableAt'[t] = DurableAt[t] \cup {s}
    <3>1. ASSUME NEW z \in Txn, z # t PROVE DurableAt'[z] = DurableAt[z]
      <4>1. \A x \in Shard : Stored(N, z, x) <=> Stored(L, z, x)
        BY <2>6, <3>1
      <4>2. {x \in Shard : Stored(N, z, x)} = {x \in Shard : Stored(L, z, x)}
        BY <4>1
      <4> QED BY <2>5, <4>2
    <3>2. CASE Stored(N, t, s) <=> Stored(L, t, s)
      <4>1. \A x \in Shard : Stored(N, t, x) <=> Stored(L, t, x)
        BY <2>6, <3>2
      <4>2. {x \in Shard : Stored(N, t, x)} = {x \in Shard : Stored(L, t, x)}
        BY <4>1
      <4>3. DurableAt'[t] = DurableAt[t]
        BY <2>5, <4>2
      <4> QED BY <3>1, <4>3
    <3>3. CASE Stored(N, t, s) /\ ~Stored(L, t, s)
      <4>1. \A x \in Shard : Stored(N, t, x) <=> (Stored(L, t, x) \/ x = s)
        BY <2>6, <3>3
      <4>2. DurableAt'[t] = DurableAt[t] \cup {s}
        BY <2>5, <4>1
      <4> QED BY <3>1, <4>2
    <3> QED BY <2>4, <3>2, <3>3
  <2>8. /\ DurableAt = [z \in Txn |-> DurableAt[z]]
        /\ DurableAt' = [z \in Txn |-> DurableAt'[z]]
    BY DEF DurableAt
  <2> QED BY <2>7, <2>8
<1> QED BY <1>1, <1>2

\* The effect of t at replica r of s, read off the state.
LEMMA EffectLemma ==
  /\ \A t \in Txn, s \in Shard, r \in Replica :
       Effect[t][s][r] = IF store[s][r][t].applied THEN "applied"
                         ELSE IF r = Leader(s) /\ committedTxns[s][t] = "ABORT"
                           THEN "undone" ELSE "none"
  /\ Effect \in [Txn -> [Shard -> [Replica -> {"applied", "undone", "none"}]]]
BY DEF Effect

\* Effects differ where they differ.
LEMMA EffectStep ==
  ASSUME NEW s \in Shard, NEW r \in Replica, NEW t \in Txn,
         \A x \in Shard, y \in Replica, z \in Txn :
           ~ (x = s /\ y = r /\ z = t) => Effect'[z][x][y] = Effect[z][x][y]
  PROVE  /\ Effect'[t][s][r] = Effect[t][s][r] => Effect' = Effect
         /\ Effect' = [Effect EXCEPT ![t][s][r] = Effect'[t][s][r]]
<1>1. PICK F, G : F = Effect /\ G = Effect'
  OBVIOUS
<1>2. /\ F \in [Txn -> [Shard -> [Replica -> {"applied", "undone", "none"}]]]
      /\ G \in [Txn -> [Shard -> [Replica -> {"applied", "undone", "none"}]]]
  BY <1>1, EffectLemma DEF Effect
<1>3. \A x \in Shard, y \in Replica, z \in Txn :
        ~ (x = s /\ y = r /\ z = t) => G[z][x][y] = F[z][x][y]
  BY <1>1
<1>4. G[t][s][r] = F[t][s][r] => G = F
  BY <1>2, <1>3, SMTT(30)
<1>5. G = [F EXCEPT ![t][s][r] = G[t][s][r]]
  BY <1>2, <1>3, SMTT(30)
<1> QED BY <1>1, <1>4, <1>5

\* A store that is written without applying anything has the same effect.
LEMMA SameEffect ==
  ASSUME BaseInv, UNCHANGED committedTxns,
         NEW s \in Shard, NEW r \in Replica, NEW t \in Txn,
         \/ UNCHANGED store
         \/ \E new \in StoreState : /\ new.applied = store[s][r][t].applied
                                    /\ SetStore(s, r, t, new)
  PROVE  Effect' = Effect
<1>1. CASE UNCHANGED store
  BY <1>1 DEF Effect
<1>2. ASSUME NEW new \in StoreState, new.applied = store[s][r][t].applied,
             SetStore(s, r, t, new)
      PROVE  Effect' = Effect
  <2>1. /\ store'[s][r][t] = new
        /\ \A x \in Shard, y \in Replica, z \in Txn :
             ~ (x = s /\ y = r /\ z = t) => store'[x][y][z] = store[x][y][z]
    BY <1>2, SetStoreLemma, SMTT(30)
  <2>2. \A x \in Shard, y \in Replica, z \in Txn :
          store'[x][y][z].applied = store[x][y][z].applied
    BY <1>2, <2>1
  <2> QED BY <2>2, SMTT(30) DEF Effect
<1> QED BY <1>1, <1>2

\* A step of the replicas that executes no decision persists t at s or shows
\* nothing.
LEMMA PersistStep ==
  ASSUME BaseInv, UNCHANGED client, UNCHANGED committedTxns,
         NEW s \in Shard, NEW r \in Replica, NEW t \in Txn,
         \/ log' = log
         \/ \E lsn \in 0..(MaxLsn - 1) :
              log' = [log EXCEPT ![s][r] = @ \cup {<<t, lsn>>}],
         \/ UNCHANGED store
         \/ \E new \in StoreState : /\ new.applied = store[s][r][t].applied
                                    /\ SetStore(s, r, t, new)
  PROVE  [AC!Next]_AC!vars
<1>1. Outcome' = Outcome
  BY DEF Outcome
<1>2. Effect' = Effect
  BY SameEffect
<1>3. \/ DurableAt' = DurableAt
      \/ DurableAt' = [DurableAt EXCEPT ![t] = @ \cup {s}]
  BY DurableStep, SMTT(30)
<1>4. CASE DurableAt' = DurableAt
  BY <1>1, <1>2, <1>4 DEF AC!vars
<1>5. CASE DurableAt' = [DurableAt EXCEPT ![t] = @ \cup {s}]
  <2>1. AC!Persist(t, s)
    BY <1>1, <1>2, <1>5 DEF AC!Persist
  <2> QED BY <2>1 DEF AC!Next
<1> QED BY <1>3, <1>4, <1>5

\* A step that executes the client's decision on t at replica r of s, or has
\* no effect.
LEMMA CarryStep ==
  ASSUME UNCHANGED <<client, log>>,
         NEW s \in Shard, NEW r \in Replica, NEW t \in Txn, NEW state,
         s \in participants[t], Decided(client, t, state),
         \A x \in Shard, y \in Replica, z \in Txn :
           ~ (x = s /\ y = r /\ z = t) => Effect'[z][x][y] = Effect[z][x][y],
         \/ Effect'[t][s][r] = Effect[t][s][r]
         \/ /\ Effect[t][s][r] = "none"
            /\ Effect'[t][s][r] = IF state = "COMMIT" THEN "applied"
                                  ELSE "undone"
  PROVE  [AC!Next]_AC!vars
<1>1. Outcome' = Outcome /\ DurableAt' = DurableAt
  BY DEF Outcome, DurableAt, Holders
<1>2. /\ Effect'[t][s][r] = Effect[t][s][r] => Effect' = Effect
      /\ Effect' = [Effect EXCEPT ![t][s][r] = Effect'[t][s][r]]
  BY EffectStep, SMTT(30)
<1>3. CASE Effect'[t][s][r] = Effect[t][s][r]
  BY <1>1, <1>2, <1>3 DEF AC!vars
<1>4. CASE state = "COMMIT" /\ Effect[t][s][r] = "none"
           /\ Effect'[t][s][r] = "applied"
  <2>1. Outcome[t] = "committed"
    BY <1>4 DEF Outcome, Decided
  <2>2. AC!Apply(t, s, r)
    BY <1>1, <1>2, <1>4, <2>1 DEF AC!Apply, AC!Carry
  <2> QED BY <2>2 DEF AC!Next
<1>5. CASE state # "COMMIT" /\ Effect[t][s][r] = "none"
           /\ Effect'[t][s][r] = "undone"
  <2>1. Outcome[t] = "aborted"
    BY <1>5 DEF Outcome, Decided
  <2>2. AC!Undo(t, s, r)
    BY <1>1, <1>2, <1>5, <2>1 DEF AC!Undo, AC!Carry
  <2> QED BY <2>2 DEF AC!Next
<1> QED BY <1>3, <1>4, <1>5

\* A client decides once, and commits only what is durable.
LEMMA ClientRefines ==
  ASSUME FastInv, FastInv', ClientNext, UNCHANGED replicaVars
  PROVE  [AC!Next]_AC!vars
<1>1. BaseInv /\ BaseInv' /\ ClientTypeOK /\ ClientTypeOK'
  BY DEF FastInv, BaseInv
<1> DEFINE Moves(t, cl) == /\ Update(t, cl)
                           /\ \/ cl.phase = client[t].phase
                              \/ client[t].phase \in {"active", "preparing"}
<1>a. PICK t \in Txn : \E cl : Moves(t, cl)
  BY <1>1, ClientMoves
<1>2. PICK cl : Moves(t, cl)
  BY <1>a
<1>3. /\ client'[t] = cl /\ \A z \in Txn : z # t => client'[z] = client[z]
  BY <1>1, <1>2 DEF Update, ClientTypeOK
<1>4. DurableAt' = DurableAt /\ Effect' = Effect /\ log' = log
  BY DEF replicaVars, DurableAt, Holders, Effect
<1>5. cl.phase \in {"active", "preparing", "committed", "aborted"}
  BY <1>1, <1>3 DEF ClientTypeOK, ClientState
<1>6. /\ Outcome = [z \in Txn |-> Outcome[z]]
      /\ Outcome' = [z \in Txn |-> Outcome'[z]]
      /\ \A z \in Txn : z # t => Outcome'[z] = Outcome[z]
  BY <1>3 DEF Outcome
<1>7. CASE Outcome'[t] = Outcome[t]
  <2>1. Outcome' = Outcome
    BY <1>6, <1>7
  <2> QED BY <1>4, <2>1 DEF AC!vars
<1>8. CASE Outcome'[t] # Outcome[t]
  <2>1. Outcome[t] = "undecided"
    BY <1>2, <1>3, <1>8 DEF Outcome
  <2>2. Outcome'[t] \in {"committed", "aborted"} /\ Outcome'[t] = cl.phase
    BY <1>3, <1>8, <2>1 DEF Outcome
  <2>3. Outcome' = [Outcome EXCEPT ![t] = Outcome'[t]]
    BY <1>6
  <2>4. CASE Outcome'[t] = "aborted"
    <3>1. AC!Abort(t)
      BY <1>4, <2>1, <2>3, <2>4 DEF AC!Abort
    <3> QED BY <3>1 DEF AC!Next
  <2>5. CASE Outcome'[t] = "committed"
    <3>1. Durable(log, t)
      <4>1. ClientOK(log', t, client'[t])
        BY <1>1 DEF BaseInv
      <4> QED BY <1>3, <1>4, <2>2, <2>5, <4>1 DEF ClientOK
    <3>2. participants[t] \subseteq DurableAt[t]
      BY <3>1, EnoughLemma, FastAssumption, ConstantsLemma
         DEF Durable, Stored, DurableAt, Holders, HoldersIn, QuorumSize
    <3>3. AC!Commit(t)
      BY <1>4, <2>1, <2>3, <2>5, <3>2 DEF AC!Commit
    <3> QED BY <3>3 DEF AC!Next
  <2> QED BY <2>2, <2>4, <2>5
<1> QED BY <1>7, <1>8

LEMMA PrepareTxnRefines ==
  ASSUME FastInv, UNCHANGED client, NEW s \in Shard, NEW m \in msgs,
         HandlePrepareTxn(s, m), ReplicaTypeOK'
  PROVE  [AC!Next]_AC!vars
<1> DEFINE t == m.tid
           r == Leader(s)
           st == store[s][r][t]
           lsn == NextLsn(s, t)
<1>1. \/ UNCHANGED replicaVars
      \/ /\ SetStore(s, r, t, StoreAbort(st))
         /\ UNCHANGED <<pendingTxns, committedTxns, active, log>>
      \/ /\ SetStore(s, r, t, StorePrepare(st))
         /\ UNCHANGED committedTxns
         /\ \/ UNCHANGED log
            \/ log' = [log EXCEPT ![s][r] = @ \cup {<<t, lsn>>}]
  BY DEF HandlePrepareTxn, InvokeReplicateTxn
<1>2. t \in Txn /\ r \in Replica /\ st \in StoreState /\ BaseInv
  BY LeaderFacts DEF FastInv
<1> HIDE DEF t, r, lsn
<1>3. /\ StoreAbort(st) \in StoreState /\ StoreAbort(st).applied = st.applied
      /\ StorePrepare(st) \in StoreState /\ StorePrepare(st).applied = st.applied
  BY <1>2, StoreLemma
<1>4. committedTxns' = committedTxns
  BY <1>1 DEF replicaVars
<1>5. \/ UNCHANGED store
      \/ \E new \in StoreState : /\ new.applied = store[s][r][t].applied
                                 /\ SetStore(s, r, t, new)
  BY <1>1, <1>3 DEF replicaVars
<1>6. \/ log' = log
      \/ \E l \in 0..(MaxLsn - 1) :
           log' = [log EXCEPT ![s][r] = @ \cup {<<t, l>>}]
  <2>1. CASE log' = [log EXCEPT ![s][r] = @ \cup {<<t, lsn>>}]
    <3>1. log \in [Shard -> [Replica -> SUBSET (Txn \X (0..(MaxLsn - 1)))]]
      BY <1>2 DEF BaseInv, ReplicaTypeOK
    <3>2. log' \in [Shard -> [Replica -> SUBSET (Txn \X (0..(MaxLsn - 1)))]]
      BY DEF ReplicaTypeOK
    <3>3. <<t, lsn>> \in log'[s][r]
      BY <1>2, <2>1, <3>1
    <3>4. lsn \in 0..(MaxLsn - 1)
      BY <1>2, <3>2, <3>3, SMTT(30)
    <3> QED BY <2>1, <3>4
  <2> QED BY <1>1, <2>1 DEF replicaVars
<1> QED BY <1>2, <1>4, <1>5, <1>6, PersistStep

LEMMA ReplicateTransactionRefines ==
  ASSUME FastInv, UNCHANGED client, NEW s \in Shard, NEW r \in Replica,
         NEW m \in msgs, HandleReplicateTransaction(s, r, m)
  PROVE  [AC!Next]_AC!vars
<1> DEFINE t == m.tid
           st == store[s][r][t]
<1>1. /\ m.type = "ReplicateTransaction" /\ UNCHANGED committedTxns
      /\ \/ UNCHANGED <<log, active, store>>
         \/ /\ log' = [log EXCEPT ![s][r] = @ \cup {<<t, m.lsn>>}]
            /\ SetStore(s, r, t, StorePrepare(st))
  BY DEF HandleReplicateTransaction
<1>2. t \in Txn /\ st \in StoreState /\ WordOK(log, client, m) /\ BaseInv
  BY ReplicaFacts DEF FastInv
<1>3. m.lsn \in 0..(MaxLsn - 1)
  BY <1>1, <1>2 DEF WordOK
<1> HIDE DEF t
<1>4. StorePrepare(st) \in StoreState /\ StorePrepare(st).applied = st.applied
  BY <1>2, StoreLemma
<1>5. \/ UNCHANGED store
      \/ \E new \in StoreState : /\ new.applied = store[s][r][t].applied
                                 /\ SetStore(s, r, t, new)
  BY <1>1, <1>4
<1>6. \/ log' = log
      \/ \E l \in 0..(MaxLsn - 1) :
           log' = [log EXCEPT ![s][r] = @ \cup {<<t, l>>}]
  BY <1>1, <1>3
<1>7. committedTxns' = committedTxns
  BY <1>1
<1> QED BY <1>2, <1>5, <1>6, <1>7, PersistStep

\* A commit applies, or does nothing; an applied transaction stays applied.
LEMMA CommitApplies ==
  ASSUME NEW st \in StoreState, st.applied
  PROVE  applyToStore(st, "COMMIT").applied
BY DEF applyToStore, StoreCommit, StoreState

LEMMA CommitRefines ==
  ASSUME FastInv, UNCHANGED client, NEW s \in Shard, NEW m \in msgs,
         HandleCommit(s, m)
  PROVE  [AC!Next]_AC!vars
<1> DEFINE t == m.tid
           state == m.state
           req == pendingTxns[s][t]
           r == Leader(s)
           old == store[s][r][t]
           st == applyToStore(old, state)
           new == IF state = "ABORT" THEN StoreAbort(st) ELSE st
<1>1. m.type = "Commit" /\ m.shard = s /\ DoCommit(s, t, state, {})
  BY DEF HandleCommit
<1>2. /\ t \in Txn /\ r \in Replica /\ old \in StoreState
      /\ WordOK(log, client, m) /\ BaseInv
      /\ EntryOK(client, Promised(t, s), t, s, req, committedTxns[s][t], old)
  BY LeaderFacts DEF FastInv
<1>3. Decided(client, t, state) /\ s \in participants[t]
  BY <1>1, <1>2 DEF WordOK
<1>4. state \in {"COMMIT", "ABORT"}
  BY <1>3 DEF Decided
<1>5. req.is_participant /\ req.present
  BY <1>1, <1>2 DEF EntryOK, DoCommit
<1>6. /\ SetStore(s, r, t, new) /\ SetCommitted(s, t, state) /\ log' = log
  BY <1>1, <1>5 DEF DoCommit
<1>7. committedTxns[s][t] = "none"
  BY <1>2, <1>5 DEF EntryOK
<1>8. /\ new \in StoreState
      /\ state = "ABORT" => new.applied = old.applied
      /\ state = "COMMIT" /\ old.applied => new.applied
  <2>1. st \in StoreState
        /\ (state = "ABORT" => st.applied = old.applied)
        /\ (state = "COMMIT" /\ old.applied => st.applied)
    BY <1>2, StoreLemma, CommitApplies
  <2> HIDE DEF st
  <2>2. StoreAbort(st) \in StoreState /\ StoreAbort(st).applied = st.applied
    BY <2>1, StoreLemma
  <2> QED BY <1>4, <2>1, <2>2
<1> HIDE DEF t, state, new, r
<1>9. /\ committedTxns'[s][t] = state
      /\ \A x \in Shard, z \in Txn :
           ~ (x = s /\ z = t) => committedTxns'[x][z] = committedTxns[x][z]
  BY <1>2, <1>4, <1>6, SetCommittedLemma, SMTT(30)
<1>10. /\ store'[s][r][t] = new
       /\ \A x \in Shard, y \in Replica, z \in Txn :
            ~ (x = s /\ y = r /\ z = t) => store'[x][y][z] = store[x][y][z]
  BY <1>2, <1>6, <1>8, SetStoreLemma, SMTT(30)
<1>11. PICK F, G, C, D, S, T : /\ F = Effect /\ G = Effect'
                               /\ C = committedTxns /\ D = committedTxns'
                               /\ S = store /\ T = store'
  OBVIOUS
<1>12. /\ \A z \in Txn, x \in Shard, y \in Replica :
            /\ F[z][x][y] = IF S[x][y][z].applied THEN "applied"
                            ELSE IF y = Leader(x) /\ C[x][z] = "ABORT"
                              THEN "undone" ELSE "none"
            /\ G[z][x][y] = IF T[x][y][z].applied THEN "applied"
                            ELSE IF y = Leader(x) /\ D[x][z] = "ABORT"
                              THEN "undone" ELSE "none"
  BY <1>11 DEF Effect
<1>13. \A x \in Shard, y \in Replica, z \in Txn :
         ~ (x = s /\ y = r /\ z = t) => G[z][x][y] = F[z][x][y]
  <2>1. ASSUME NEW x \in Shard, NEW y \in Replica, NEW z \in Txn,
               ~ (x = s /\ y = r /\ z = t)
        PROVE  G[z][x][y] = F[z][x][y]
    <3>1. T[x][y][z] = S[x][y][z]
      BY <1>10, <1>11, <2>1
    <3>2. y = Leader(x) => D[x][z] = C[x][z]
      BY <1>9, <1>11, <2>1 DEF r
    <3> QED BY <1>12, <3>1, <3>2, SMTT(30)
  <2> QED BY <2>1
<1>14. \/ G[t][s][r] = F[t][s][r]
       \/ /\ F[t][s][r] = "none"
          /\ G[t][s][r] = IF state = "COMMIT" THEN "applied" ELSE "undone"
  <2>1. /\ S[s][r][t] = old /\ T[s][r][t] = new /\ C[s][t] = "none"
        /\ D[s][t] = state /\ r = Leader(s)
    BY <1>7, <1>9, <1>10, <1>11 DEF r, t
  <2>2. /\ F[t][s][r] = IF old.applied THEN "applied" ELSE "none"
        /\ G[t][s][r] = IF new.applied THEN "applied"
                        ELSE IF state = "ABORT" THEN "undone" ELSE "none"
    BY <1>2, <1>12, <2>1
  <2> QED BY <1>4, <1>8, <2>2
<1> QED BY <1>2, <1>3, <1>6, <1>11, <1>13, <1>14, CarryStep, SMTT(30)

LEMMA ReplicateCommitRefines ==
  ASSUME FastInv, UNCHANGED client, NEW s \in Shard, NEW r \in Replica,
         NEW m \in msgs, HandleReplicateCommit(s, r, m)
  PROVE  [AC!Next]_AC!vars
<1> DEFINE t == m.tid
           state == m.state
           old == store[s][r][t]
           new == applyToStore(old, state)
<1>1. /\ m.type = "ReplicateCommit" /\ m.shard = s /\ r # Leader(s)
      /\ SetStore(s, r, t, new) /\ UNCHANGED committedTxns /\ log' = log
  BY DEF HandleReplicateCommit
<1>2. t \in Txn /\ old \in StoreState /\ BaseInv
  BY ReplicaFacts DEF FastInv
<1>3. s \in participants[t] /\ Decided(client, t, state)
  <2>1. FollowerWordOK(client, m)
    BY DEF FastInv
  <2> QED BY <1>1, <2>1 DEF FollowerWordOK
<1>4. /\ new \in StoreState
      /\ state # "COMMIT" => new.applied = old.applied
      /\ state = "COMMIT" /\ old.applied => new.applied
  <2>1. state \in {"COMMIT", "ABORT"}
    BY <1>3 DEF Decided
  <2> QED BY <1>2, <2>1, StoreLemma, CommitApplies
<1> HIDE DEF t, state, new
<1>5. /\ store'[s][r][t] = new
      /\ \A x \in Shard, y \in Replica, z \in Txn :
           ~ (x = s /\ y = r /\ z = t) => store'[x][y][z] = store[x][y][z]
  BY <1>1, <1>2, <1>4, SetStoreLemma, SMTT(30)
<1>6. PICK F, G, C, S, T : /\ F = Effect /\ G = Effect' /\ C = committedTxns
                           /\ S = store /\ T = store'
  OBVIOUS
<1>7. \A z \in Txn, x \in Shard, y \in Replica :
        /\ F[z][x][y] = IF S[x][y][z].applied THEN "applied"
                        ELSE IF y = Leader(x) /\ C[x][z] = "ABORT"
                          THEN "undone" ELSE "none"
        /\ G[z][x][y] = IF T[x][y][z].applied THEN "applied"
                        ELSE IF y = Leader(x) /\ C[x][z] = "ABORT"
                          THEN "undone" ELSE "none"
  BY <1>1, <1>6 DEF Effect
<1>8. \A x \in Shard, y \in Replica, z \in Txn :
        ~ (x = s /\ y = r /\ z = t) => G[z][x][y] = F[z][x][y]
  BY <1>5, <1>6, <1>7, SMTT(30)
<1>9. \/ G[t][s][r] = F[t][s][r]
      \/ /\ F[t][s][r] = "none"
         /\ G[t][s][r] = IF state = "COMMIT" THEN "applied" ELSE "undone"
  <2>1. S[s][r][t] = old /\ T[s][r][t] = new
    BY <1>5, <1>6 DEF t
  <2>2. /\ F[t][s][r] = IF old.applied THEN "applied" ELSE "none"
        /\ G[t][s][r] = IF new.applied THEN "applied" ELSE "none"
    BY <1>1, <1>2, <1>7, <2>1
  <2> QED BY <1>4, <2>2
<1> QED BY <1>1, <1>2, <1>3, <1>6, <1>8, <1>9, CarryStep, SMTT(30)

LEMMA TransactionReplyRefines ==
  ASSUME FastInv, UNCHANGED client, NEW s \in Shard, NEW m \in msgs,
         HandleReplicateTransactionReply(s, m)
  PROVE  [AC!Next]_AC!vars
<1>1. log' = log /\ store' = store /\ committedTxns' = committedTxns
  BY DEF HandleReplicateTransactionReply
<1>2. Outcome' = Outcome /\ DurableAt' = DurableAt /\ Effect' = Effect
  BY <1>1 DEF Outcome, DurableAt, Holders, Effect
<1> QED BY <1>2 DEF AC!vars

\* Every step is a step of atomic commitment, or none.
LEMMA NextRefines ==
  ASSUME FastInv, FastInv', [Next]_vars
  PROVE  [AC!Next]_AC!vars
<1>1. CASE ClientNext /\ UNCHANGED replicaVars
  BY <1>1, ClientRefines
<1>2. CASE ReplicaNext /\ UNCHANGED client
  <2>1. PICK s \in Shard, m \in msgs :
          \/ HandlePrepareTxn(s, m)
          \/ HandleReplicateTransactionReply(s, m)
          \/ HandleCommit(s, m)
          \/ \E r \in Replica : \/ HandleReplicateTransaction(s, r, m)
                                \/ HandleReplicateCommit(s, r, m)
    BY <1>2 DEF ReplicaNext
  <2>2. ReplicaTypeOK'
    BY DEF FastInv, BaseInv
  <2> QED BY <1>2, <2>1, <2>2, PrepareTxnRefines, TransactionReplyRefines,
             CommitRefines, ReplicateTransactionRefines, ReplicateCommitRefines
<1>3. CASE ReplicaTimers /\ UNCHANGED client
  <2>1. log' = log /\ store' = store /\ committedTxns' = committedTxns
    BY <1>3 DEF ReplicaTimers, ResendReplicateTxn
  <2> QED BY <1>3, <2>1 DEF AC!vars, Outcome, DurableAt, Holders, Effect
<1>4. CASE UNCHANGED vars
  BY <1>4 DEF vars, replicaVars, AC!vars, Outcome, DurableAt, Holders, Effect
<1> QED BY <1>1, <1>2, <1>3, <1>4 DEF Next

\* Initially nobody holds anything.
LEMMA InitRefines ==
  ASSUME Init
  PROVE  AC!Init
<1>1. Outcome = [t \in Txn |-> "undecided"]
  BY DEF Init, ClientInit, NewClient, Outcome
<1>2. Effect = [t \in Txn |-> [s \in Shard |-> [r \in Replica |-> "none"]]]
  BY ConstantsLemma DEF Init, ReplicaInit, NewStore, Effect
<1>3. ASSUME NEW t \in Txn, NEW s \in Shard
      PROVE  ~ (Cardinality(Holders(t, s)) >= QuorumSize)
  <2>1. Holders(t, s) = {}
    BY DEF Init, ReplicaInit, Holders
  <2>2. Cardinality(Holders(t, s)) = 0
    BY <2>1, FS_EmptySet
  <2> QED BY <2>2, ReplicaAssumption, SMTT(30) DEF QuorumSize
<1>4. DurableAt = [t \in Txn |-> {}]
  BY <1>3 DEF DurableAt
<1> QED BY <1>1, <1>2, <1>4 DEF AC!Init

\* Mode FAST implements atomic commitment, under lost, late and repeated
\* messages, timeouts and retries: the client decides once (client.cc, Commit),
\* it commits only when every participant's entry is on f + 1 replicas, and a
\* replica applies a transaction, or a leader undoes it, only in line with that
\* (replica.cc, HandleCommit and HandleReplicateCommit).
THEOREM ImplementsAtomicCommit == Spec => Refinement
<1>1. Init => AC!Init
  BY InitRefines
<1>2. FastInv /\ FastInv' /\ [Next]_vars => [AC!Next]_AC!vars
  BY NextRefines
<1> QED BY <1>1, <1>2, FastInit, FastNext, PTL DEF Spec, Refinement, AC!Spec
=============================================================================
