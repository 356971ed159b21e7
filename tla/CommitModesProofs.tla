------------------------- MODULE CommitModesProofs -------------------------
(***************************************************************************)
(* Modes SLOW, RC and CAROUSEL for any number of replicas, participants    *)
(* and attempts, and any choice of deployments: what holds in every mode,  *)
(* and what a commit rests on, mode by mode.                               *)
(***************************************************************************)
EXTENDS CommitModes, FiniteSetTheorems, TLAPS

\* Most leaves are first-order; the ones that need arithmetic or records say SMT.
USE ZenonT(30)

(***************************************************************************)
(* The deployment does not change.                                         *)
(***************************************************************************)
LEMMA SetupLemma ==
  ASSUME setup \in Setup
  PROVE  /\ mode \in Mode /\ participants \subseteq Nat
         /\ primary \in participants /\ setup.live \subseteq Replica
         /\ \A s \in participants : Leader(s) \in Replica
         /\ 0 \in Replica /\ Asked \subseteq participants
<1>1. /\ mode \in Mode /\ participants \subseteq Nat
      /\ primary \in participants /\ setup.live \subseteq Replica
  BY ModesAssumption DEF mode, participants, primary
<1>2. \A s \in Nat : s % n \in 0..n - 1
  BY ModesAssumption, SMTT(30)
<1>3. 0 \in Replica
  BY ModesAssumption, SMTT(30) DEF Replica
<1> QED BY <1>1, <1>2, <1>3 DEF Leader, Replica, Asked

LEMMA FiniteReplicas == IsFiniteSet(Replica) /\ Cardinality(Replica) = n
<1>1. 0 \in Int /\ n - 1 \in Int /\ ~(0 > n - 1) /\ n - 1 - 0 + 1 = n
  BY ModesAssumption, SMTT(30)
<1> QED BY <1>1, FS_Interval DEF Replica

-----------------------------------------------------------------------------
(***************************************************************************)
(* Type correctness.  What arrives is what was sent, so messages are part  *)
(* of it.                                                                  *)
(***************************************************************************)
ReplyTyped(d, m) ==
  /\ m = Reply(m.to, m.at, m.shard, m.replica, m.state, m.ft)
  /\ m.to \in {"client", "primary"} /\ m.at \in Replica
  /\ m.shard \in d.participants /\ m.replica \in Replica
  /\ m.state \in State /\ m.ft \in BOOLEAN

RequestTyped(d, m) ==
  m.from \in {"client", "primary"} /\ m.shard \in d.participants

MsgTyped(d, m) ==
  /\ m.type = "PrepareTransaction" => RequestTyped(d, m)
  /\ m.type = "PrepareTransactionReply" => ReplyTyped(d, m)
  /\ m.type = "Commit" => m.state \in Failing

MsgsTyped == \A m \in msgs : MsgTyped(setup, m)

TypeInv ==
  /\ TypeOK /\ MsgsTyped
  /\ client.phase = "active" => client.tries = 0

\* The messages that are sent are of the forms the handlers expect.
LEMMA FormLemma ==
  ASSUME NEW d
  PROVE  /\ \A x \in {"client", "primary"}, s \in d.participants, r \in Replica :
              MsgTyped(d, Request(x, s, r))
         /\ \A x \in {"client", "primary"}, a \in Replica, s \in d.participants,
              r \in Replica, st \in State, ft \in BOOLEAN :
              MsgTyped(d, Reply(x, a, s, r, st, ft))
         /\ \A s : MsgTyped(d, Replicate(s))
         /\ \A s, r : MsgTyped(d, Ack(s, r))
         /\ \A s : \A st \in Failing : MsgTyped(d, Commit(s, st))
         /\ \A s, st : MsgTyped(d, ReplicateCommit(s, st))
<1>1. ASSUME NEW x \in {"client", "primary"}, NEW s \in d.participants,
             NEW r \in Replica
      PROVE  MsgTyped(d, Request(x, s, r))
  BY DEF MsgTyped, RequestTyped, Request
<1>2. ASSUME NEW x \in {"client", "primary"}, NEW a \in Replica,
             NEW s \in d.participants, NEW r \in Replica, NEW st \in State,
             NEW ft \in BOOLEAN
      PROVE  MsgTyped(d, Reply(x, a, s, r, st, ft))
  <2> DEFINE m == Reply(x, a, s, r, st, ft)
  <2>1. /\ m.to = x /\ m.at = a /\ m.shard = s /\ m.replica = r
        /\ m.state = st /\ m.ft = ft /\ m.type = "PrepareTransactionReply"
    BY DEF Reply
  <2>2. m = Reply(m.to, m.at, m.shard, m.replica, m.state, m.ft)
    BY <2>1
  <2> QED BY <2>1, <2>2 DEF MsgTyped, ReplyTyped
<1>3. /\ \A s : Replicate(s).type = "ReplicateTransaction"
      /\ \A s, r : Ack(s, r).type = "ReplicateTransactionReply"
      /\ \A s, st : ReplicateCommit(s, st).type = "ReplicateCommit"
  BY DEF Replicate, Ack, ReplicateCommit
<1>4. \A s : \A st \in Failing : MsgTyped(d, Commit(s, st))
  BY DEF MsgTyped, Commit
<1>5. /\ \A s : MsgTyped(d, Replicate(s))
      /\ \A s, r : MsgTyped(d, Ack(s, r))
      /\ \A s, st : MsgTyped(d, ReplicateCommit(s, st))
  BY <1>3 DEF MsgTyped
<1> QED BY <1>1, <1>2, <1>4, <1>5

LEMMA SendTyped ==
  ASSUME MsgsTyped, NEW M, Send(M), setup' = setup,
         \A m \in M : MsgTyped(setup, m)
  PROVE  MsgsTyped'
  BY DEF MsgsTyped, Send

\* The client's steps.
LEMMA ClientTyped ==
  ASSUME TypeInv, ClientNext
  PROVE  TypeInv'
<1>0. /\ setup' = setup /\ setup \in Setup
      /\ UNCHANGED <<pendingPrepares, shardVars, split>>
  <2>1. CASE Prepare
    BY <2>1 DEF TypeInv, TypeOK, Prepare
  <2>2. CASE FinishCommit \/ FinishAbort
    BY <2>2 DEF TypeInv, TypeOK, FinishCommit, FinishAbort, Finish
  <2>3. ASSUME NEW s \in Asked, PrepareTimeout(s)
        PROVE  setup' = setup /\ UNCHANGED <<pendingPrepares, shardVars, split>>
    BY <2>3 DEF PrepareTimeout
  <2>4. ASSUME NEW m \in msgs, HandlePrepareTxnReply(m)
        PROVE  setup' = setup /\ UNCHANGED <<pendingPrepares, shardVars, split>>
    BY <2>4 DEF HandlePrepareTxnReply
  <2> QED BY <2>1, <2>2, <2>3, <2>4 DEF ClientNext, TypeInv, TypeOK
<1>1. Asked' = Asked /\ participants' = participants /\ primary' = primary
      /\ mode' = mode
  BY <1>0 DEF Asked, mode, participants, primary
<1>2. /\ (pendingPrepares \in [Replica -> PendingPrepare])'
      /\ (pendingTxns \in [participants -> Pending])'
      /\ (committedTxns \in [participants -> State \cup {"none"}])'
      /\ (\A S \in {log, active, prepared, applied} :
            S \in [participants -> SUBSET Replica])'
  BY <1>0, <1>1 DEF TypeInv, TypeOK, shardVars, PendingPrepare
<1>3. SUFFICES /\ client' \in ClientState
               /\ client'.phase = "active" => client'.tries = 0
               /\ MsgsTyped'
  BY <1>0, <1>1, <1>2 DEF TypeInv, TypeOK, ClientState
<1> USE DEF NewClient, NoReplies
<1>4. CASE Prepare
  <2>1. client.tries + 1 \in 0..COMMIT_RETRIES
    BY <1>4, ModesAssumption, SMTT(30)
       DEF Prepare, MayPrepare, TypeInv, TypeOK, ClientState
  <2>2. client' = [NewClient(Asked) EXCEPT !.phase = "preparing",
                                           !.tries = client.tries + 1,
                                           !.pendingReqs = Asked]
    BY <1>4 DEF Prepare
  <2>3. client' \in ClientState /\ client'.phase # "active"
    BY <2>1, <2>2 DEF ClientState
  <2>4. MsgsTyped'
    BY <1>0, <1>4, SendTyped, FormLemma, SetupLemma, SMTT(30)
    DEF Prepare, TypeInv, participants
  <2> QED BY <2>3, <2>4
<1>5. CASE FinishCommit \/ FinishAbort
  <2>1. PICK phase \in {"committed", "aborted"}, st \in Failing : Finish(phase, st)
    BY <1>5 DEF FinishCommit, FinishAbort, Failing
  <2>2. client' = [NewClient(Asked) EXCEPT !.phase = phase, !.tries = client.tries]
    BY <2>1 DEF Finish
  <2>3. client' \in ClientState /\ client'.phase # "active"
    BY <2>2 DEF ClientState, TypeInv, TypeOK
  <2>4. MsgsTyped'
    BY <1>0, <2>1, SendTyped, FormLemma, SMTT(30)
       DEF Finish, TypeInv, participants
  <2> QED BY <2>3, <2>4
<1>6. ASSUME NEW s \in Asked, PrepareTimeout(s)
      PROVE  /\ client' \in ClientState /\ client'.phase = client.phase
             /\ client'.tries = client.tries /\ msgs' = msgs
  BY <1>6 DEF PrepareTimeout, ClientState, TypeInv, TypeOK
<1>7. ASSUME NEW m \in msgs, HandlePrepareTxnReply(m)
      PROVE  /\ client' \in ClientState /\ client'.phase = client.phase
             /\ client'.tries = client.tries /\ msgs' = msgs
  <2>1. ReplyTyped(setup, m) /\ m.shard \in Asked /\ client \in ClientState
    BY <1>7 DEF HandlePrepareTxnReply, TypeInv, TypeOK, MsgsTyped, MsgTyped, ClientState
  <2> DEFINE replies == [client.replies[m.shard] EXCEPT ![m.replica] = m.state]
  <2>2. replies \in [Replica -> State \cup {"none"}]
    BY <2>1 DEF ReplyTyped, ClientState
  <2>3. PICK c2 \in ClientState : /\ c2.phase = client.phase /\ c2.tries = client.tries
                                 /\ c2 = [client EXCEPT !.pendingReqs = @ \ {m.shard}]
    BY <2>1 DEF ClientState
  <2>4. \A st : /\ Replied(c2, m.shard, st) \in ClientState
                /\ Replied(c2, m.shard, st).phase = c2.phase
                /\ Replied(c2, m.shard, st).tries = c2.tries
    <3>1. m.shard \in participants
      BY <2>1 DEF ReplyTyped, participants
    <3> QED BY <3>1 DEF Replied, ClientState
  <2>5. /\ [client EXCEPT !.replies[m.shard] = replies,
                          !.ft[m.shard] = IF m.ft THEN m.state ELSE @] \in ClientState
    BY <2>1, <2>2 DEF ClientState, ReplyTyped
  <2>6. \/ client' = [client EXCEPT !.replies[m.shard] = replies,
                          !.ft[m.shard] = IF m.ft THEN m.state ELSE @]
        \/ \E st : client' = Replied(c2, m.shard, st)
    BY <1>7, <2>3 DEF HandlePrepareTxnReply
  <2>7. msgs' = msgs
    BY <1>7 DEF HandlePrepareTxnReply
  <2>8. CASE \E st : client' = Replied(c2, m.shard, st)
    BY <2>3, <2>4, <2>7, <2>8
  <2>9. CASE client' = [client EXCEPT !.replies[m.shard] = replies,
                          !.ft[m.shard] = IF m.ft THEN m.state ELSE @]
    BY <2>1, <2>5, <2>7, <2>9 DEF ClientState
  <2> QED BY <2>6, <2>8, <2>9
<1>8. ASSUME msgs' = msgs PROVE MsgsTyped'
  BY <1>0, <1>8 DEF MsgsTyped, TypeInv
<1> QED BY <1>4, <1>5, <1>6, <1>7, <1>8 DEF ClientNext, TypeInv

\* What a step of a replica has to keep: client and deployment do not change.
ShardTyped ==
  /\ pendingPrepares \in [Replica -> PendingPrepare]
  /\ pendingTxns \in [participants -> Pending]
  /\ committedTxns \in [participants -> State \cup {"none"}]
  /\ log \in [participants -> SUBSET Replica]
  /\ active \in [participants -> SUBSET Replica]
  /\ prepared \in [participants -> SUBSET Replica]
  /\ applied \in [participants -> SUBSET Replica]

LEMMA ShardTypedLemma ==
  /\ TypeInv => ShardTyped /\ setup \in Setup /\ MsgsTyped
  /\ TypeInv /\ UNCHANGED <<setup, client>> /\ ShardTyped' /\ MsgsTyped' => TypeInv'
<1>1. TypeInv => ShardTyped /\ setup \in Setup /\ MsgsTyped
  BY DEF TypeInv, TypeOK, ShardTyped
<1>2. ASSUME TypeInv, UNCHANGED <<setup, client>>, ShardTyped', MsgsTyped'
      PROVE  TypeInv'
  <2>1. client' \in ClientState' /\ setup' \in Setup
    BY <1>2 DEF TypeInv, TypeOK, ClientState, Asked, mode, participants, primary
  <2>2. (\A S \in {log, active, prepared, applied} :
           S \in [participants -> SUBSET Replica])'
    BY <1>2 DEF ShardTyped
  <2>3. client'.phase = "active" => client'.tries = 0
    BY <1>2 DEF TypeInv
  <2>4. /\ (pendingPrepares \in [Replica -> PendingPrepare])'
        /\ (pendingTxns \in [participants -> Pending])'
        /\ (committedTxns \in [participants -> State \cup {"none"}])'
    BY <1>2 DEF ShardTyped
  <2> QED BY <1>2, <2>1, <2>2, <2>3, <2>4 DEF TypeInv, TypeOK
<1> QED BY <1>1, <1>2

LEMMA DoCommitTyped ==
  ASSUME ShardTyped, setup \in Setup, UNCHANGED setup, NEW s \in participants,
         NEW state \in State, DoCommit(s, state),
         (pendingPrepares \in [Replica -> PendingPrepare])'
  PROVE  ShardTyped'
<1>1. participants' = participants
  BY DEF participants
<1>2. Leader(s) \in Replica
  BY SetupLemma
<1>3. CASE pendingTxns[s].entry = "absent"
  BY <1>1, <1>3 DEF DoCommit, ShardTyped, shardVars
<1>4. CASE pendingTxns[s].entry # "absent"
  <2>1. NoPending \in Pending
    BY DEF NoPending, Pending
  <2>2. pendingTxns' \in [participants -> Pending]
    BY <1>4, <2>1 DEF DoCommit, ShardTyped
  <2>3. committedTxns' \in [participants -> State \cup {"none"}]
    BY <1>4 DEF DoCommit, ShardTyped
  <2>4. applied' \in [participants -> SUBSET Replica]
    BY <1>2, <1>4, SMTT(30) DEF DoCommit, ShardTyped
  <2>5. prepared' \in [participants -> SUBSET Replica]
    BY <1>4, SMTT(30) DEF DoCommit, ShardTyped
  <2>6. log' = log /\ active' = active
    BY <1>4 DEF DoCommit
  <2> QED BY <1>1, <2>2, <2>3, <2>4, <2>5, <2>6 DEF ShardTyped
<1> QED BY <1>3, <1>4

LEMMA ReplicaTyped ==
  ASSUME TypeInv, ReplicaNext
  PROVE  TypeInv'
<1>0. ShardTyped /\ setup \in Setup /\ MsgsTyped
  BY ShardTypedLemma
<1> USE SetupLemma, <1>0
<1>1. PICK s \in participants :
        \/ ResendPrepareOK(s)
        \/ \E state \in State : HandleCommit(s, state)
        \/ \E r \in setup.live :
             \/ HandleReplicateTransaction(s, r)
             \/ HandleReplicateTransactionReply(s, r)
             \/ \E state \in State : HandleReplicateCommit(s, r, state)
             \/ \E m \in msgs : HandlePrepareTxn(s, r, m)
  BY DEF ReplicaNext
<1> DEFINE Same == /\ setup' = setup /\ client' = client
                   /\ participants' = participants /\ PendingPrepare' = PendingPrepare
<1>2. ASSUME UNCHANGED <<setup, client>> PROVE Same
  BY <1>2 DEF participants, PendingPrepare
<1>3. \A replica \in Replica, ft \in BOOLEAN :
        MsgTyped(setup, LeaderVote(s, replica, ft))
  BY FormLemma DEF LeaderVote, State, participants, primary
<1>4. CASE ResendPrepareOK(s)
  <2>1. MsgsTyped'
    BY <1>3, <1>4, SendTyped DEF ResendPrepareOK
  <2>2. ShardTyped'
    BY <1>2, <1>4 DEF ResendPrepareOK, ShardTyped, shardVars
  <2> QED BY <1>4, <2>1, <2>2, ShardTypedLemma DEF ResendPrepareOK
<1>5. ASSUME NEW state \in State, HandleCommit(s, state)
      PROVE  TypeInv'
  <2>1. MsgsTyped'
    BY <1>5, SendTyped, FormLemma, SMTT(30) DEF HandleCommit, SentOut
  <2>2. ShardTyped'
    <3>1. (pendingPrepares \in [Replica -> PendingPrepare])'
      BY <1>2, <1>5 DEF HandleCommit, ShardTyped
    <3> QED BY <1>5, <3>1, DoCommitTyped DEF HandleCommit
  <2> QED BY <1>5, <2>1, <2>2, ShardTypedLemma DEF HandleCommit
<1>6. ASSUME NEW r \in setup.live, HandleReplicateTransaction(s, r)
      PROVE  TypeInv'
  <2>1. MsgsTyped'
    BY <1>6, SendTyped, FormLemma, SMTT(30) DEF HandleReplicateTransaction
  <2>2. ShardTyped'
    BY <1>2, <1>6, SMTT(30) DEF HandleReplicateTransaction, ShardTyped
  <2> QED BY <1>6, <2>1, <2>2, ShardTypedLemma DEF HandleReplicateTransaction
<1>7. ASSUME NEW r \in setup.live, HandleReplicateTransactionReply(s, r)
      PROVE  TypeInv'
  <2>1. MsgsTyped'
    BY <1>3, <1>7, SendTyped DEF HandleReplicateTransactionReply, MsgsTyped
  <2>2. ShardTyped'
    <3>1. pendingTxns' \in [participants -> Pending]
      <4>1. pendingTxns[s] \in Pending /\ r \in Replica
        BY DEF ShardTyped
      <4> DEFINE quorum == pendingTxns[s].quorum \cup {r}
      <4>2. /\ [entry |-> "consensus", quorum |-> quorum] \in Pending
            /\ [pendingTxns[s] EXCEPT !.quorum = quorum] \in Pending
        BY <4>1 DEF Pending
      <4>3. \E e \in Pending : pendingTxns' = [pendingTxns EXCEPT ![s] = e]
        BY <1>7, <4>2 DEF HandleReplicateTransactionReply
      <4> QED BY <4>3 DEF ShardTyped
    <3> QED BY <1>2, <1>7, <3>1 DEF HandleReplicateTransactionReply, ShardTyped
  <2> QED BY <1>7, <2>1, <2>2, ShardTypedLemma DEF HandleReplicateTransactionReply
<1>8. ASSUME NEW r \in setup.live, NEW state \in State,
             HandleReplicateCommit(s, r, state)
      PROVE  TypeInv'
  <2>1. MsgsTyped'
    BY <1>8 DEF HandleReplicateCommit, MsgsTyped
  <2>2. ShardTyped'
    BY <1>2, <1>8 DEF HandleReplicateCommit, ShardTyped
  <2> QED BY <1>8, <2>1, <2>2, ShardTypedLemma DEF HandleReplicateCommit
<1>9. ASSUME NEW r \in setup.live, NEW m \in msgs, HandlePrepareTxn(s, r, m)
      PROVE  TypeInv'
  <2>1. /\ m.from \in {"client", "primary"} /\ UNCHANGED <<setup, client>>
    BY <1>9 DEF HandlePrepareTxn, MsgsTyped, MsgTyped, RequestTyped
  <2>2. CASE HandlePrepare(r, m)
    <3>1. \A q \in participants : PieceTo(q, r) \in Replica
      BY DEF PieceTo
    <3>2. MsgsTyped'
      BY <2>1, <2>2, <3>1, SendTyped, FormLemma, SMTT(30)
         DEF HandlePrepare, participants
    <3>3. ShardTyped'
      BY <1>2, <2>1, <2>2 DEF HandlePrepare, ShardTyped, shardVars, PendingPrepare,
         NoPrepare, NoReplies
    <3> QED BY <2>1, <3>2, <3>3, ShardTypedLemma
  <2>3. CASE PrepareAsParticipant(s, r, m)
    <3>1. \A replica \in Replica, st \in State, ft \in BOOLEAN :
            /\ MsgTyped(setup, ToSender(m, s, r, replica, st, ft))
            /\ MsgTyped(setup, Vote(m, s, r, replica, st, ft))
      BY <2>1, FormLemma DEF ToSender, Vote, participants
    <3>2. \A x \in Accepted(s, r, m) : MsgTyped(setup, x)
      BY FormLemma, ZenonT(90) DEF Accepted, State, Mode, participants
    <3>3. MsgsTyped'
      <4>1. committedTxns[s] # "none" => committedTxns[s] \in State
        BY DEF ShardTyped
      <4>2. \/ Send({Vote(m, s, r, 0, committedTxns[s], FALSE)}) /\ committedTxns[s] # "none"
            \/ Send({Vote(m, s, r, IF mode = "CAROUSEL" THEN r ELSE 0, "PREPAREOK",
                          mode = "CAROUSEL")})
            \/ Send({ToSender(m, s, r, r, "ABORT", mode = "CAROUSEL" /\ r = Leader(s))})
            \/ Send(Accepted(s, r, m))
        BY <2>3 DEF PrepareAsParticipant
      <4>3. (mode = "CAROUSEL") \in BOOLEAN /\ (mode = "CAROUSEL" /\ r = Leader(s)) \in BOOLEAN
            /\ {"PREPAREOK", "ABORT"} \subseteq State /\ r \in Replica
        BY DEF State
      <4>4. CASE Send({Vote(m, s, r, 0, committedTxns[s], FALSE)}) /\ committedTxns[s] # "none"
        BY <2>1, <3>1, <4>1, <4>4, SendTyped
      <4>5. CASE Send({Vote(m, s, r, IF mode = "CAROUSEL" THEN r ELSE 0, "PREPAREOK",
                          mode = "CAROUSEL")})
        BY <2>1, <3>1, <4>3, <4>5, SendTyped
      <4>6. CASE Send({ToSender(m, s, r, r, "ABORT", mode = "CAROUSEL" /\ r = Leader(s))})
        BY <2>1, <3>1, <4>3, <4>6, SendTyped
      <4>7. CASE Send(Accepted(s, r, m))
        BY <2>1, <3>2, <4>7, SendTyped
      <4> QED BY <4>2, <4>4, <4>5, <4>6, <4>7
    <3>4. ShardTyped'
      <4>1. /\ pendingPrepares' = pendingPrepares
            /\ committedTxns' = committedTxns /\ active' = active /\ applied' = applied
        BY <2>3 DEF PrepareAsParticipant, shardVars
      <4>2. prepared' = prepared \/ prepared' = [prepared EXCEPT ![s] = @ \cup {r}]
        BY <2>3 DEF PrepareAsParticipant, shardVars
      <4>3. /\ \/ pendingTxns' = pendingTxns
               \/ pendingTxns' = [pendingTxns EXCEPT ![s].entry = "sent"]
            /\ log' = log \/ log' = [log EXCEPT ![s] = @ \cup {Leader(s)}]
        BY <2>3 DEF PrepareAsParticipant, shardVars, InvokeReplicateTxn
      <4>4. pendingTxns' \in [participants -> Pending]
        BY <4>3, SMTT(30) DEF ShardTyped, Pending
      <4>5. prepared' \in [participants -> SUBSET Replica]
        BY <4>2, SMTT(30) DEF ShardTyped
      <4>6. log' \in [participants -> SUBSET Replica]
        BY <4>3, SMTT(30) DEF ShardTyped
      <4> QED BY <1>2, <2>1, <4>1, <4>4, <4>5, <4>6 DEF ShardTyped
    <3> QED BY <2>1, <3>3, <3>4, ShardTypedLemma
  <2> QED BY <1>9, <2>2, <2>3 DEF HandlePrepareTxn
<1> QED BY <1>1, <1>4, <1>5, <1>6, <1>7, <1>8, <1>9

\* RegionsAgree knows two decisions.
LEMMA AgreeLemma ==
  ASSUME NEW regions, NEW d, RegionsAgree(regions, d)
  PROVE  d \in {"PREPAREOK", "ABORT"}
  BY DEF RegionsAgree

LEMMA FinalTyped ==
  ASSUME TypeInv, UNCHANGED <<setup, client>>, NEW r \in Replica,
         NEW req \in PendingPrepare, NEW d \in {"PREPAREOK", "ABORT"},
         ReplyFinalDecision(r, req, d)
  PROVE  TypeInv'
<1>0. ShardTyped /\ setup \in Setup /\ MsgsTyped
  BY ShardTypedLemma
<1>1. /\ primary \in participants /\ primary \in setup.participants /\ 0 \in Replica
      /\ d \in State /\ FALSE \in BOOLEAN /\ req.client \in {"client", "primary"}
      /\ participants' = participants /\ PendingPrepare' = PendingPrepare
  BY <1>0, SetupLemma DEF State, participants, PendingPrepare
<1> DEFINE answer == {Reply(req.client, IF req.client = "client" THEN 0 ELSE r,
                            primary, r, d, FALSE)}
           others == {Reply("primary", q, primary, r, d, FALSE) : q \in Replica}
<1>2. \A x \in answer \cup others \cup SentOut(primary, d) : MsgTyped(setup, x)
  BY <1>1, FormLemma, ZenonT(90) DEF SentOut
<1>3. \E e \in PendingPrepare : pendingPrepares' = [pendingPrepares EXCEPT ![r] = e]
  <2>1. [req EXCEPT !.regions[r] = d] \in PendingPrepare /\ NoPrepare \in PendingPrepare
    BY <1>1 DEF PendingPrepare, NoPrepare, NoReplies
  <2> QED BY <2>1 DEF ReplyFinalDecision
<1>4. (pendingPrepares \in [Replica -> PendingPrepare])'
  BY <1>0, <1>1, <1>3 DEF ShardTyped
<1>5. MsgsTyped'
  BY <1>0, <1>2, SendTyped DEF ReplyFinalDecision
<1>6. CASE UNCHANGED shardVars
  BY <1>0, <1>1, <1>4, <1>5, <1>6, ShardTypedLemma DEF ShardTyped, shardVars
<1>7. CASE DoCommit(primary, d)
  BY <1>0, <1>1, <1>4, <1>5, <1>7, DoCommitTyped, ShardTypedLemma
<1> QED BY <1>6, <1>7 DEF ReplyFinalDecision

LEMMA PrimaryTyped ==
  ASSUME TypeInv, PrimaryNext
  PROVE  TypeInv'
<1>0. ShardTyped /\ setup \in Setup /\ MsgsTyped
  BY ShardTypedLemma
<1>1. PICK r \in setup.live, m \in msgs : HandlePrepareTransactionReply(r, m)
  BY DEF PrimaryNext
<1>2. /\ r \in Replica /\ ReplyTyped(setup, m) /\ UNCHANGED <<setup, client>>
      /\ primary \in participants /\ pendingPrepares[r] \in PendingPrepare
      /\ participants' = participants /\ PendingPrepare' = PendingPrepare
      /\ m.shard \in participants
  BY <1>0, <1>1, SetupLemma DEF HandlePrepareTransactionReply, MsgsTyped, MsgTyped,
     ReplyTyped, ShardTyped, participants, PendingPrepare
<1>3. ASSUME NEW e \in PendingPrepare,
             pendingPrepares' = [pendingPrepares EXCEPT ![r] = e]
      PROVE  (pendingPrepares \in [Replica -> PendingPrepare])'
  BY <1>0, <1>2, <1>3 DEF ShardTyped
<1>4. ASSUME NEW e \in PendingPrepare, UNCHANGED <<msgs, shardVars>>,
             pendingPrepares' = [pendingPrepares EXCEPT ![r] = e]
      PROVE  TypeInv'
  <2>1. ShardTyped' /\ MsgsTyped'
    BY <1>0, <1>2, <1>3, <1>4 DEF ShardTyped, MsgsTyped, shardVars
  <2> QED BY <1>2, <2>1, ShardTypedLemma
<1>5. CASE HandleRegionReply(r, m)
  <2> DEFINE regions == [pendingPrepares[r].regions EXCEPT ![m.replica] = m.state]
             old == pendingPrepares[r]
  <2>1. /\ [old EXCEPT !.regions = regions] \in PendingPrepare
        /\ NoPrepare \in PendingPrepare
    BY <1>2 DEF PendingPrepare, NoPrepare, NoReplies, ReplyTyped
  <2>2. CASE /\ pendingPrepares' = [pendingPrepares EXCEPT ![r].regions = regions]
             /\ UNCHANGED <<msgs, shardVars>>
    BY <1>4, <2>1, <2>2
  <2>3. CASE /\ pendingPrepares' = [pendingPrepares EXCEPT ![r] = NoPrepare]
             /\ UNCHANGED <<msgs, shardVars>>
    BY <1>4, <2>1, <2>3
  <2>4. ASSUME NEW d \in State, DoCommit(primary, d), Send(SentOut(primary, d)),
               pendingPrepares' = [pendingPrepares EXCEPT ![r] = NoPrepare]
        PROVE  TypeInv'
    <3>1. MsgsTyped'
      BY <1>0, <1>2, <2>4, SendTyped, FormLemma DEF SentOut
    <3>2. ShardTyped'
      BY <1>0, <1>2, <1>3, <2>1, <2>4, DoCommitTyped
    <3> QED BY <1>2, <3>1, <3>2, ShardTypedLemma
  <2> QED BY <1>5, <2>2, <2>3, <2>4 DEF HandleRegionReply
<1>6. CASE HandleParticipantReply(r, m)
  <2> DEFINE old == pendingPrepares[r]
             req == [old EXCEPT !.votes = @ \cup {m.shard}]
  <2>1. req \in PendingPrepare
    BY <1>2 DEF PendingPrepare
  <2>2. CASE /\ pendingPrepares' = [pendingPrepares EXCEPT ![r] = req]
             /\ UNCHANGED <<msgs, shardVars>>
    BY <1>4, <2>1, <2>2
  <2>3. CASE ReplyFinalDecision(r, req, "PREPAREOK")
    BY <1>2, <2>1, <2>3, FinalTyped
  <2>4. CASE ReplyFinalDecision(r, old, "ABORT")
    BY <1>2, <2>4, FinalTyped
  <2> QED BY <1>6, <2>2, <2>3, <2>4 DEF HandleParticipantReply
<1> QED BY <1>1, <1>5, <1>6 DEF HandlePrepareTransactionReply

LEMMA InitTyped == Init => TypeInv
<1> SUFFICES ASSUME Init PROVE TypeInv
  OBVIOUS
<1>1. client \in ClientState
  BY ModesAssumption, SMTT(30) DEF Init, NewClient, ClientState, NoReplies
<1>2. pendingPrepares \in [Replica -> PendingPrepare]
  BY DEF Init, PendingPrepare, NoPrepare, NoReplies
<1>3. pendingTxns \in [participants -> Pending]
  BY DEF Init, Pending, NoPending
<1>4. client.phase = "active" => client.tries = 0
  BY DEF Init, NewClient
<1> QED BY <1>1, <1>2, <1>3, <1>4 DEF Init, TypeInv, TypeOK, MsgsTyped

LEMMA StutterTyped ==
  ASSUME TypeInv, UNCHANGED vars
  PROVE  TypeInv'
<1>0. ShardTyped /\ setup \in Setup /\ MsgsTyped
  BY ShardTypedLemma
<1>1. UNCHANGED <<setup, client>> /\ ShardTyped' /\ MsgsTyped'
  BY <1>0 DEF vars, shardVars, ShardTyped, MsgsTyped, participants, PendingPrepare
<1> QED BY <1>1, ShardTypedLemma

\* Every state of the run is well formed, and so is every message: a handler
\* never meets a reply of a shard or replica that does not exist, whatever is
\* delayed, duplicated or lost.
THEOREM TypeCorrect == Spec => [](TypeOK /\ MsgsTyped)
<1>1. Init => TypeInv
  BY InitTyped
<1>2. TypeInv /\ [Next]_vars => TypeInv'
  BY ClientTyped, ReplicaTyped, PrimaryTyped, StutterTyped DEF Next
<1>3. TypeInv => TypeOK /\ MsgsTyped
  BY DEF TypeInv
<1> QED BY <1>1, <1>2, <1>3, PTL DEF Spec

-----------------------------------------------------------------------------
(***************************************************************************)
(* No store runs ahead of the client.  The invariant follows the decision  *)
(* from the client's Commit to the leader's ReplicateCommit: either is     *)
(* sent only when the store behind it has moved.                           *)
(***************************************************************************)
DecidedInv ==
  /\ AppliedIsDecided
  /\ \A s \in participants :
       /\ Commit(s, "COMMIT") \in msgs => Committed
       /\ ReplicateCommit(s, "COMMIT") \in msgs
            => Committed /\ Leader(s) \in applied[s]

\* What a step may do to it.
Justified ==
  \A s \in participants :
    /\ Commit(s, "COMMIT") \in msgs' => Commit(s, "COMMIT") \in msgs \/ Committed'
    /\ ReplicateCommit(s, "COMMIT") \in msgs'
         => \/ ReplicateCommit(s, "COMMIT") \in msgs
            \/ Committed' /\ Leader(s) \in applied'[s]
    /\ applied[s] \subseteq applied'[s]
    /\ applied'[s] # applied[s] => Committed' /\ Leader(s) \in applied'[s]

LEMMA JustifiedStep ==
  ASSUME DecidedInv, UNCHANGED setup, Committed => Committed', Justified
  PROVE  DecidedInv'
<1>1. participants' = participants /\ \A s : Leader(s)' = Leader(s)
  BY DEF participants, Leader
<1>2. AppliedIsDecided'
  BY <1>1 DEF DecidedInv, Justified, AppliedIsDecided
<1>3. ASSUME NEW s \in participants
      PROVE  /\ Commit(s, "COMMIT") \in msgs' => Committed'
             /\ ReplicateCommit(s, "COMMIT") \in msgs'
                  => Committed' /\ Leader(s) \in applied'[s]
  BY <1>3 DEF DecidedInv, Justified
<1> QED BY <1>1, <1>2, <1>3 DEF DecidedInv

\* The kinds of messages.
LEMMA KindLemma ==
  /\ \A x, s, r : Request(x, s, r).type = "PrepareTransaction"
  /\ \A x, a, s, r, st, ft :
       Reply(x, a, s, r, st, ft).type = "PrepareTransactionReply"
  /\ \A s : Replicate(s).type = "ReplicateTransaction"
  /\ \A s, r : Ack(s, r).type = "ReplicateTransactionReply"
  /\ \A s, st : Commit(s, st).type = "Commit"
  /\ \A s, st : ReplicateCommit(s, st).type = "ReplicateCommit"
  /\ \A s, st, q, st2 : Commit(s, st) = Commit(q, st2) => s = q /\ st = st2
  /\ \A s, st, q, st2 :
       ReplicateCommit(s, st) = ReplicateCommit(q, st2) => s = q /\ st = st2
<1>1. /\ \A x, s, r : Request(x, s, r).type = "PrepareTransaction"
      /\ \A x, a, s, r, st, ft :
           Reply(x, a, s, r, st, ft).type = "PrepareTransactionReply"
      /\ \A s : Replicate(s).type = "ReplicateTransaction"
      /\ \A s, r : Ack(s, r).type = "ReplicateTransactionReply"
  BY DEF Request, Reply, Replicate, Ack
<1>2. \A s, st : /\ Commit(s, st).type = "Commit" /\ Commit(s, st).shard = s
                 /\ Commit(s, st).state = st
                 /\ ReplicateCommit(s, st).type = "ReplicateCommit"
                 /\ ReplicateCommit(s, st).shard = s
                 /\ ReplicateCommit(s, st).state = st
  BY DEF Commit, ReplicateCommit
<1>3. \A s, st, q, st2 : Commit(s, st) = Commit(q, st2) => s = q /\ st = st2
  BY <1>2, SMTT(30)
<1>4. \A s, st, q, st2 :
        ReplicateCommit(s, st) = ReplicateCommit(q, st2) => s = q /\ st = st2
  BY <1>2, SMTT(30)
<1> QED BY <1>1, <1>2, <1>3, <1>4

LEMMA VoteKind ==
  /\ \A s, r, ft : LeaderVote(s, r, ft).type = "PrepareTransactionReply"
  /\ \A m, s, r, q, st, ft :
       /\ ToSender(m, s, r, q, st, ft).type = "PrepareTransactionReply"
       /\ Vote(m, s, r, q, st, ft).type = "PrepareTransactionReply"
<1>1. \A s, r, ft : LeaderVote(s, r, ft).type = "PrepareTransactionReply"
  BY DEF LeaderVote, Reply
<1>2. \A m, s, r, q, st, ft :
        ToSender(m, s, r, q, st, ft).type = "PrepareTransactionReply"
  BY DEF ToSender, Reply
<1>3. \A m, s, r, q, st, ft :
        Vote(m, s, r, q, st, ft).type = "PrepareTransactionReply"
  BY <1>2 DEF Vote, Reply
<1> QED BY <1>1, <1>2, <1>3

LEMMA SentKind ==
  \A s, d : \A x \in SentOut(s, d) : x.type = "ReplicateCommit"
  BY KindLemma, SMTT(30) DEF SentOut

\* A step that sends no decision and applies nothing.
LEMMA QuietStep ==
  ASSUME UNCHANGED applied, NEW M, Send(M),
         \A x \in M : x.type \notin {"Commit", "ReplicateCommit"}
  PROVE  Justified
  BY KindLemma DEF Send, Justified

\* A decision other than COMMIT applies nothing either.
LEMMA OtherDecision ==
  ASSUME NEW s, NEW d, d # "COMMIT", DoCommit(s, d), NEW M, Send(M),
         \A x \in M : \/ x.type \notin {"Commit", "ReplicateCommit"}
                      \/ x \in SentOut(s, d)
  PROVE  Justified
<1>1. applied' = applied
  BY DEF DoCommit, shardVars
<1>2. \A q : Commit(q, "COMMIT") \notin M /\ ReplicateCommit(q, "COMMIT") \notin M
  BY KindLemma, SMTT(30) DEF SentOut
<1> QED BY <1>1, <1>2 DEF Send, Justified

LEMMA ClientDecided ==
  ASSUME TypeInv, DecidedInv, ClientNext
  PROVE  DecidedInv'
<1> USE DEF Committed
<1>0. setup \in Setup /\ client \in ClientState
  BY DEF TypeInv, TypeOK
<1>1. CASE Prepare
  <2>1. ~Committed /\ UNCHANGED <<setup, applied>>
    BY <1>1, SMTT(30) DEF Prepare, MayPrepare, shardVars
  <2>2. Justified
    BY <1>1, <2>1, QuietStep, KindLemma, SMTT(30) DEF Prepare
  <2> QED BY <2>1, <2>2, JustifiedStep
<1>2. CASE FinishCommit
  <2>1. Committed'
    BY <1>2 DEF FinishCommit, Finish, NewClient
  <2>2. UNCHANGED <<setup, applied>> /\ Send({Commit(s, "COMMIT") : s \in participants})
    BY <1>2 DEF FinishCommit, Finish, shardVars
  <2>3. Justified
    BY <2>1, <2>2, KindLemma, SMTT(30) DEF Justified, Send
  <2> QED BY <2>1, <2>2, <2>3, JustifiedStep
<1>3. CASE FinishAbort
  <2>1. ~Committed
    BY <1>3 DEF FinishAbort
  <2>2. UNCHANGED <<setup, applied>> /\ Send({Commit(s, "ABORT") : s \in participants})
    BY <1>3 DEF FinishAbort, Finish, shardVars
  <2>3. Justified
    BY <2>2, KindLemma, SMTT(30) DEF Justified, Send
  <2> QED BY <2>1, <2>2, <2>3, JustifiedStep
<1>4. ASSUME UNCHANGED <<setup, msgs, applied>>, client'.phase = client.phase
      PROVE  DecidedInv'
  BY <1>4, JustifiedStep DEF Justified
<1>5. ASSUME NEW s \in Asked, PrepareTimeout(s)
      PROVE  DecidedInv'
  BY <1>0, <1>4, <1>5 DEF PrepareTimeout, shardVars, ClientState
<1>6. ASSUME NEW m \in msgs, HandlePrepareTxnReply(m)
      PROVE  DecidedInv'
  <2> DEFINE c2 == [client EXCEPT !.pendingReqs = @ \ {m.shard}]
  <2>1. c2.phase = client.phase /\ \A st : Replied(c2, m.shard, st).phase = client.phase
    BY <1>0 DEF Replied, ClientState
  <2>2. \A a, b : [client EXCEPT !.replies[m.shard] = a, !.ft[m.shard] = b].phase
                    = client.phase
    BY <1>0 DEF ClientState
  <2>3. \/ \E st : client' = Replied(c2, m.shard, st)
        \/ \E a, b : client' = [client EXCEPT !.replies[m.shard] = a, !.ft[m.shard] = b]
    BY <1>6 DEF HandlePrepareTxnReply
  <2>4. client'.phase = client.phase
    <3>1. CASE \E st : client' = Replied(c2, m.shard, st)
      BY <2>1, <3>1
    <3>2. CASE \E a, b : client' = [client EXCEPT !.replies[m.shard] = a,
                                                 !.ft[m.shard] = b]
      BY <2>2, <3>2, ZenonT(90)
    <3> QED BY <2>3, <3>1, <3>2
  <2> QED BY <1>4, <1>6, <2>4 DEF HandlePrepareTxnReply, shardVars
<1> QED BY <1>1, <1>2, <1>3, <1>5, <1>6 DEF ClientNext

LEMMA ReplicaDecided ==
  ASSUME TypeInv, DecidedInv, ReplicaNext
  PROVE  DecidedInv'
<1>0. ShardTyped /\ setup \in Setup
  BY ShardTypedLemma
<1>1. PICK s \in participants :
        \/ ResendPrepareOK(s)
        \/ \E state \in State : HandleCommit(s, state)
        \/ \E r \in setup.live :
             \/ HandleReplicateTransaction(s, r)
             \/ HandleReplicateTransactionReply(s, r)
             \/ \E state \in State : HandleReplicateCommit(s, r, state)
             \/ \E m \in msgs : HandlePrepareTxn(s, r, m)
  BY DEF ReplicaNext
<1>2. ASSUME UNCHANGED <<setup, client>>, Justified
      PROVE  DecidedInv'
  BY <1>2, JustifiedStep DEF Committed
<1>3. CASE ResendPrepareOK(s)
  <2>1. Justified
    BY <1>3, QuietStep, VoteKind DEF ResendPrepareOK, shardVars
  <2> QED BY <1>2, <1>3, <2>1 DEF ResendPrepareOK
<1>4. ASSUME NEW state \in State, HandleCommit(s, state)
      PROVE  DecidedInv'
  <2>1. CASE state # "COMMIT"
    <3>1. Send(SentOut(s, state)) /\ DoCommit(s, state)
      BY <1>4 DEF HandleCommit
    <3>2. Justified
      BY <2>1, <3>1, OtherDecision
    <3> QED BY <1>2, <1>4, <3>2 DEF HandleCommit
  <2>2. CASE state = "COMMIT"
    <3>1. Committed /\ UNCHANGED client
      BY <1>4, <2>2 DEF HandleCommit, DecidedInv
    <3>2. applied' = [applied EXCEPT ![s] = @ \cup {Leader(s)}]
      BY <1>4, <2>2 DEF HandleCommit, DoCommit
    <3>3. Justified
      BY <1>0, <1>4, <2>2, <3>1, <3>2, KindLemma, SMTT(30)
      DEF HandleCommit, SentOut, Send, Justified, ShardTyped, Committed
    <3> QED BY <1>2, <1>4, <3>3 DEF HandleCommit
  <2> QED BY <2>1, <2>2
<1>5. ASSUME NEW r \in setup.live, HandleReplicateTransaction(s, r)
      PROVE  DecidedInv'
  <2>1. Justified
    BY <1>5, QuietStep, KindLemma, SMTT(30) DEF HandleReplicateTransaction
  <2> QED BY <1>2, <1>5, <2>1 DEF HandleReplicateTransaction
<1>6. ASSUME NEW r \in setup.live, HandleReplicateTransactionReply(s, r)
      PROVE  DecidedInv'
  <2>1. Send({}) \/ Send({LeaderVote(s, Leader(s), TRUE)})
    BY <1>6 DEF HandleReplicateTransactionReply, Send
  <2>2. Justified
    <3>1. UNCHANGED applied
      BY <1>6 DEF HandleReplicateTransactionReply
    <3>2. CASE Send({})
      BY <3>1, <3>2, QuietStep
    <3>3. CASE Send({LeaderVote(s, Leader(s), TRUE)})
      BY <3>1, <3>3, QuietStep, VoteKind
    <3> QED BY <2>1, <3>2, <3>3
  <2> QED BY <1>2, <1>6, <2>2 DEF HandleReplicateTransactionReply
<1>7. ASSUME NEW r \in setup.live, NEW state \in State,
             HandleReplicateCommit(s, r, state)
      PROVE  DecidedInv'
  <2>1. \/ applied' = applied
        \/ state = "COMMIT" /\ applied' = [applied EXCEPT ![s] = @ \cup {r}]
    BY <1>7 DEF HandleReplicateCommit
  <2>2. state = "COMMIT" => Committed /\ Leader(s) \in applied[s]
    BY <1>7 DEF HandleReplicateCommit, DecidedInv
  <2>3. Justified
    BY <1>0, <1>7, <2>1, <2>2
    DEF HandleReplicateCommit, Justified, ShardTyped, Committed
  <2> QED BY <1>2, <1>7, <2>3 DEF HandleReplicateCommit
<1>8. ASSUME NEW r \in setup.live, NEW m \in msgs, HandlePrepareTxn(s, r, m)
      PROVE  DecidedInv'
  <2>1. UNCHANGED applied
    BY <1>8 DEF HandlePrepareTxn, HandlePrepare, PrepareAsParticipant, shardVars
  <2>2. \A x \in Accepted(s, r, m) : x.type \notin {"Commit", "ReplicateCommit"}
    <3>1. Accepted(s, r, m) \subseteq
            {Reply("primary", r, s, r, "PREPAREOK", FALSE),
             Reply("client", 0, s, r, "PREPAREOK", FALSE), Replicate(s)}
      BY <1>0, SetupLemma DEF Accepted, Mode
    <3>2. \A x \in {Reply("primary", r, s, r, "PREPAREOK", FALSE),
                    Reply("client", 0, s, r, "PREPAREOK", FALSE), Replicate(s)} :
            x.type \notin {"Commit", "ReplicateCommit"}
      BY SMTT(30) DEF Reply, Replicate
    <3> QED BY <3>1, <3>2
  <2>3. \A q, st, ft :
          /\ Vote(m, s, r, q, st, ft).type \notin {"Commit", "ReplicateCommit"}
          /\ ToSender(m, s, r, q, st, ft).type \notin {"Commit", "ReplicateCommit"}
    BY VoteKind
  <2>4. ASSUME HandlePrepare(r, m) PROVE Justified
    BY <2>1, <2>4, QuietStep, KindLemma, SMTT(30) DEF HandlePrepare
  <2>5. ASSUME PrepareAsParticipant(s, r, m) PROVE Justified
    <3>1. \/ Send(Accepted(s, r, m))
          \/ \E q, st, ft : \/ Send({Vote(m, s, r, q, st, ft)})
                            \/ Send({ToSender(m, s, r, q, st, ft)})
      BY <2>5 DEF PrepareAsParticipant
    <3>2. CASE Send(Accepted(s, r, m))
      BY <2>1, <2>2, <3>2, QuietStep
    <3>3. ASSUME NEW x, Send({x}), x.type \notin {"Commit", "ReplicateCommit"}
          PROVE  Justified
      BY <2>1, <3>3, QuietStep
    <3> QED BY <2>3, <3>1, <3>2, <3>3
  <2> QED BY <1>2, <1>8, <2>4, <2>5 DEF HandlePrepareTxn
<1> QED BY <1>1, <1>3, <1>4, <1>5, <1>6, <1>7, <1>8

LEMMA PrimaryDecided ==
  ASSUME TypeInv, DecidedInv, PrimaryNext
  PROVE  DecidedInv'
<1>1. PICK r \in setup.live, m \in msgs : HandlePrepareTransactionReply(r, m)
  BY DEF PrimaryNext
<1>2. ASSUME UNCHANGED <<msgs, shardVars>> PROVE Justified
  BY <1>2 DEF shardVars, Justified
<1>3. ASSUME NEW d, d # "COMMIT", DoCommit(primary, d), Send(SentOut(primary, d))
      PROVE  Justified
  BY <1>3, OtherDecision
<1>4. ASSUME NEW req, NEW d, d # "COMMIT", ReplyFinalDecision(r, req, d)
      PROVE  Justified
  <2> DEFINE answer == {Reply(req.client, IF req.client = "client" THEN 0 ELSE r,
                              primary, r, d, FALSE)}
             others == {Reply("primary", q, primary, r, d, FALSE) : q \in Replica}
  <2>1. \A x \in answer \cup others : x.type \notin {"Commit", "ReplicateCommit"}
    BY SMTT(30) DEF Reply
  <2>2. CASE Send(answer \cup others) /\ UNCHANGED shardVars
    BY <2>1, <2>2, QuietStep DEF shardVars
  <2>3. CASE Send(answer \cup SentOut(primary, d)) /\ DoCommit(primary, d)
    <3>1. \A x \in answer \cup SentOut(primary, d) :
            x.type \notin {"Commit", "ReplicateCommit"} \/ x \in SentOut(primary, d)
      BY <2>1
    <3> HIDE DEF answer
    <3> QED BY <1>4, <2>3, <3>1, OtherDecision
  <2> QED BY <1>4, <2>2, <2>3 DEF ReplyFinalDecision
<1>5. ASSUME HandleRegionReply(r, m) PROVE Justified
  <2>1. \/ UNCHANGED <<msgs, shardVars>>
        \/ \E d \in {"PREPAREOK", "ABORT"} :
             DoCommit(primary, d) /\ Send(SentOut(primary, d))
    BY <1>5, AgreeLemma DEF HandleRegionReply
  <2> QED BY <1>2, <1>3, <2>1
<1>6. ASSUME HandleParticipantReply(r, m) PROVE Justified
  <2>1. \/ UNCHANGED <<msgs, shardVars>>
        \/ \E req : ReplyFinalDecision(r, req, "PREPAREOK")
        \/ \E req : ReplyFinalDecision(r, req, "ABORT")
    BY <1>6 DEF HandleParticipantReply
  <2> QED BY <1>2, <1>4, <2>1
<1>7. Justified /\ UNCHANGED <<setup, client>>
  BY <1>1, <1>5, <1>6 DEF HandlePrepareTransactionReply
<1> QED BY <1>7, JustifiedStep DEF Committed

\* AppliedIsDecided for every deployment: a store applies only what the client
\* has committed (DoCommit, HandleReplicateCommit), and a follower never before
\* its leader.
THEOREM AppliedTheorem == Spec => []AppliedIsDecided
<1>1. Init => TypeInv /\ DecidedInv
  BY InitTyped DEF Init, DecidedInv, AppliedIsDecided
<1>2. TypeInv /\ DecidedInv /\ [Next]_vars => (TypeInv /\ DecidedInv)'
  <2>1. ASSUME TypeInv, DecidedInv, UNCHANGED vars PROVE DecidedInv'
    BY <2>1, JustifiedStep DEF vars, shardVars, Justified, Committed
  <2> QED BY <2>1, ClientTyped, ReplicaTyped, PrimaryTyped, StutterTyped,
             ClientDecided, ReplicaDecided, PrimaryDecided DEF Next
<1>3. DecidedInv => AppliedIsDecided
  BY DEF DecidedInv
<1> QED BY <1>1, <1>2, <1>3, PTL DEF Spec

-----------------------------------------------------------------------------
(***************************************************************************)
(* Logs, messages and the history variable only grow, so what was once     *)
(* durable or voted stays so.                                              *)
(***************************************************************************)
Grows ==
  /\ UNCHANGED setup /\ msgs \subseteq msgs' /\ (split => split')
  /\ \A s \in participants : log[s] \subseteq log'[s]

Durable(lg, s) == Cardinality(lg[s]) >= f + 1

LEMMA DurableMono ==
  ASSUME NEW lg, NEW lg2, NEW s, lg[s] \subseteq lg2[s], lg2[s] \subseteq Replica,
         Durable(lg, s)
  PROVE  Durable(lg2, s)
<1>1. IsFiniteSet(lg2[s])
  BY FiniteReplicas, FS_Subset
<1>2. /\ IsFiniteSet(lg[s]) /\ Cardinality(lg[s]) <= Cardinality(lg2[s])
      /\ Cardinality(lg[s]) \in Nat /\ Cardinality(lg2[s]) \in Nat
  BY <1>1, FS_Subset, FS_CardinalityType
<1> QED BY <1>2, ModesAssumption, SMTT(30) DEF Durable

LEMMA GrowsLemma ==
  ASSUME TypeInv, [Next]_vars
  PROVE  Grows
<1>0. ShardTyped /\ setup \in Setup
  BY ShardTypedLemma
<1> USE <1>0 DEF Send
<1>1. ASSUME UNCHANGED <<setup, log, split>>, msgs \subseteq msgs' PROVE Grows
  BY <1>1 DEF Grows
<1>2. CASE UNCHANGED vars
  BY <1>1, <1>2 DEF vars, shardVars
<1>3. CASE ClientNext
  <2>1. CASE Prepare
    BY <1>1, <2>1, SMTT(30) DEF Prepare, shardVars
  <2>2. CASE FinishCommit \/ FinishAbort
    BY <1>1, <2>2 DEF FinishCommit, FinishAbort, Finish, shardVars
  <2>3. ASSUME NEW s \in Asked, PrepareTimeout(s) PROVE Grows
    BY <1>1, <2>3 DEF PrepareTimeout, shardVars
  <2>4. ASSUME NEW m \in msgs, HandlePrepareTxnReply(m) PROVE Grows
    BY <1>1, <2>4 DEF HandlePrepareTxnReply, shardVars
  <2> QED BY <1>3, <2>1, <2>2, <2>3, <2>4 DEF ClientNext
<1>4. CASE ReplicaNext
  <2>1. ASSUME NEW s \in participants, ResendPrepareOK(s) PROVE Grows
    BY <1>1, <2>1 DEF ResendPrepareOK, shardVars
  <2>2. ASSUME NEW s \in participants, NEW state \in State, HandleCommit(s, state)
        PROVE  Grows
    BY <1>1, <2>2 DEF HandleCommit, DoCommit, shardVars
  <2>3. ASSUME NEW s \in participants, NEW r \in setup.live,
               HandleReplicateTransaction(s, r)
        PROVE  Grows
    BY <2>3, SMTT(30) DEF HandleReplicateTransaction, ShardTyped, Grows
  <2>4. ASSUME NEW s \in participants, NEW r \in setup.live,
               HandleReplicateTransactionReply(s, r)
        PROVE  Grows
    BY <1>1, <2>4 DEF HandleReplicateTransactionReply
  <2>5. ASSUME NEW s \in participants, NEW r \in setup.live, NEW state \in State,
               HandleReplicateCommit(s, r, state)
        PROVE  Grows
    BY <1>1, <2>5 DEF HandleReplicateCommit
  <2>6. ASSUME NEW s \in participants, NEW r \in setup.live, NEW m \in msgs,
               HandlePrepareTxn(s, r, m)
        PROVE  Grows
    <3>1. CASE HandlePrepare(r, m)
      BY <2>6, <3>1 DEF HandlePrepareTxn, HandlePrepare, Grows, shardVars
    <3>2. CASE PrepareAsParticipant(s, r, m)
      <4>1. UNCHANGED <<setup, split>> /\ msgs \subseteq msgs'
        BY <2>6, <3>2 DEF HandlePrepareTxn, PrepareAsParticipant
      <4>2. log' = log \/ log' = [log EXCEPT ![s] = @ \cup {Leader(s)}]
        BY <3>2 DEF PrepareAsParticipant, shardVars, InvokeReplicateTxn
      <4> QED BY <4>1, <4>2 DEF Grows, ShardTyped
    <3> QED BY <2>6, <3>1, <3>2 DEF HandlePrepareTxn
  <2> QED BY <1>4, <2>1, <2>2, <2>3, <2>4, <2>5, <2>6 DEF ReplicaNext
<1>5. CASE PrimaryNext
  <2>1. PICK r \in setup.live, m \in msgs : HandlePrepareTransactionReply(r, m)
    BY <1>5 DEF PrimaryNext
  <2>2. UNCHANGED <<setup, split>>
    BY <2>1 DEF HandlePrepareTransactionReply
  <2>3. \A s, d : DoCommit(s, d) => UNCHANGED log
    BY DEF DoCommit, shardVars
  <2>4. \A req, d : ReplyFinalDecision(r, req, d) => UNCHANGED log /\ msgs \subseteq msgs'
    BY <2>3 DEF ReplyFinalDecision, shardVars
  <2>5. CASE HandleRegionReply(r, m)
    BY <1>1, <2>2, <2>3, <2>5 DEF HandleRegionReply, shardVars
  <2>6. CASE HandleParticipantReply(r, m)
    BY <1>1, <2>2, <2>4, <2>6 DEF HandleParticipantReply, shardVars
  <2> QED BY <2>1, <2>5, <2>6 DEF HandlePrepareTransactionReply
<1> QED BY <1>2, <1>3, <1>4, <1>5 DEF Next

-----------------------------------------------------------------------------
(***************************************************************************)
(* Replication within a shard.  An acknowledgement stands for an entry in  *)
(* a log, so a leader that has reached consensus has it in f + 1 of them;  *)
(* mode RC replicates nothing.                                             *)
(***************************************************************************)
AcksOK(d, lg, ms, s) ==
  /\ \A r \in Replica : Ack(s, r) \in ms => r \in lg[s] /\ d.mode # "RC"
  /\ Replicate(s) \in ms => d.mode # "RC"

PendingOK(d, lg, e, s) ==
  /\ e.quorum \subseteq lg[s]
  /\ e.entry = "consensus" => Durable(lg, s) /\ d.mode # "RC"
  /\ e.entry # "absent" => Leader(s) \in lg[s]

LogInv ==
  \A s \in participants :
    AcksOK(setup, log, msgs, s) /\ PendingOK(setup, log, pendingTxns[s], s)

LEMMA PendingKept ==
  ASSUME Grows, ShardTyped', NEW s \in participants,
         NEW e, PendingOK(setup, log, e, s)
  PROVE  PendingOK(setup, log', e, s)
<1>1. log[s] \subseteq log'[s] /\ log'[s] \subseteq Replica
  BY DEF Grows, ShardTyped, participants
<1>2. Durable(log, s) => Durable(log', s)
  BY <1>1, DurableMono
<1> QED BY <1>1, <1>2 DEF PendingOK

LEMMA LogStep ==
  ASSUME LogInv, Grows, ShardTyped',
         \A s \in participants :
           /\ \A r \in Replica :
                Ack(s, r) \in msgs' => Ack(s, r) \in msgs \/ (r \in log'[s] /\ mode # "RC")
           /\ Replicate(s) \in msgs' => Replicate(s) \in msgs \/ mode # "RC"
           /\ \/ pendingTxns'[s] = pendingTxns[s]
              \/ PendingOK(setup, log', pendingTxns'[s], s)
  PROVE  LogInv'
<1>1. participants' = participants /\ setup' = setup
  BY DEF Grows, participants
<1>2. ASSUME NEW s \in participants PROVE AcksOK(setup, log', msgs', s)
  BY <1>2 DEF LogInv, AcksOK, Grows, mode
<1>3. ASSUME NEW s \in participants PROVE PendingOK(setup, log', pendingTxns'[s], s)
  BY <1>3, PendingKept DEF LogInv
<1> QED BY <1>1, <1>2, <1>3 DEF LogInv

\* A step that sends neither entries nor acknowledgements.
NoEntry(M) ==
  \A x \in M : x.type \notin {"ReplicateTransaction", "ReplicateTransactionReply"}

LEMMA LogQuiet ==
  ASSUME LogInv, Grows, ShardTyped', NEW M, Send(M), NoEntry(M),
         \A s \in participants : \/ pendingTxns'[s] = pendingTxns[s]
                                 \/ PendingOK(setup, log', pendingTxns'[s], s)
  PROVE  LogInv'
<1>1. /\ \A s, r : Ack(s, r).type = "ReplicateTransactionReply"
      /\ \A s : Replicate(s).type = "ReplicateTransaction"
  BY DEF Ack, Replicate
<1> QED BY <1>1, LogStep DEF Send, NoEntry

LEMMA ForgottenOK == \A s : PendingOK(setup, log', NoPending, s)
  BY DEF PendingOK, NoPending

LEMMA DoCommitPending ==
  ASSUME ShardTyped, NEW s, NEW state, DoCommit(s, state)
  PROVE  \A q \in participants : \/ pendingTxns'[q] = pendingTxns[q]
                                 \/ PendingOK(setup, log', pendingTxns'[q], q)
<1>1. \/ pendingTxns' = pendingTxns
      \/ pendingTxns' = [pendingTxns EXCEPT ![s] = NoPending]
  BY DEF DoCommit, shardVars
<1>2. \A q \in participants : pendingTxns'[q] = pendingTxns[q] \/ pendingTxns'[q] = NoPending
  BY <1>1 DEF ShardTyped
<1> QED BY <1>2, ForgottenOK

LEMMA LogReplica ==
  ASSUME TypeInv, TypeInv', LogInv, ReplicaNext, Grows
  PROVE  LogInv'
<1>0. ShardTyped /\ setup \in Setup /\ ShardTyped' /\ mode = setup.mode
  BY ShardTypedLemma DEF TypeInv, TypeOK, ShardTyped, mode
<1>1. PICK s \in participants :
        \/ ResendPrepareOK(s)
        \/ \E state \in State : HandleCommit(s, state)
        \/ \E r \in setup.live :
             \/ HandleReplicateTransaction(s, r)
             \/ HandleReplicateTransactionReply(s, r)
             \/ \E state \in State : HandleReplicateCommit(s, r, state)
             \/ \E m \in msgs : HandlePrepareTxn(s, r, m)
  BY DEF ReplicaNext
<1>2. CASE ResendPrepareOK(s)
  <2>1. NoEntry({LeaderVote(s, 0, FALSE)})
    BY VoteKind DEF NoEntry
  <2> QED BY <1>0, <1>2, <2>1, LogQuiet DEF ResendPrepareOK, shardVars
<1>3. ASSUME NEW state \in State, HandleCommit(s, state)
      PROVE  LogInv'
  <2>1. NoEntry(SentOut(s, state))
    BY SMTT(30) DEF NoEntry, SentOut, ReplicateCommit
  <2> QED BY <1>0, <1>3, <2>1, LogQuiet, DoCommitPending DEF HandleCommit
<1>4. ASSUME NEW r \in setup.live, HandleReplicateTransaction(s, r)
      PROVE  LogInv'
  <2>1. r \in log'[s] /\ mode # "RC"
    <3>1. AcksOK(setup, log, msgs, s) /\ Replicate(s) \in msgs
      BY <1>4 DEF LogInv, HandleReplicateTransaction
    <3>2. mode # "RC"
      BY <1>0, <3>1 DEF AcksOK
    <3>3. log \in [participants -> SUBSET Replica]
      BY <1>0 DEF ShardTyped
    <3>4. (r \in log[s] /\ log' = log) \/ log' = [log EXCEPT ![s] = @ \cup {r}]
      BY <1>4 DEF HandleReplicateTransaction
    <3>5. r \in log'[s]
      BY <3>3, <3>4
    <3> QED BY <3>2, <3>5
  <2>2. ASSUME NEW q \in participants, NEW a \in Replica, Ack(q, a) \in msgs'
        PROVE  Ack(q, a) \in msgs \/ (a \in log'[q] /\ mode # "RC")
    <3>1. Ack(q, a) = Ack(s, r) => q = s /\ a = r
      BY DEF Ack
    <3> QED BY <1>4, <2>1, <2>2, <3>1 DEF HandleReplicateTransaction, Send
  <2> QED BY <1>0, <1>4, <2>1, <2>2, LogStep DEF HandleReplicateTransaction
<1>5. ASSUME NEW r \in setup.live, HandleReplicateTransactionReply(s, r)
      PROVE  LogInv'
  <2> DEFINE quorum == pendingTxns[s].quorum \cup {r}
  <2>1. /\ r \in log[s] /\ mode # "RC" /\ log' = log /\ pendingTxns[s] \in Pending
        /\ PendingOK(setup, log, pendingTxns[s], s) /\ pendingTxns[s].entry = "sent"
    BY <1>0, <1>5, SetupLemma
    DEF HandleReplicateTransactionReply, LogInv, AcksOK, ShardTyped
  <2>2. quorum \subseteq log[s] /\ Leader(s) \in log[s]
    BY <2>1 DEF PendingOK
  <2>3. Reached(quorum) => Durable(log, s)
    <3>1. IsFiniteSet(log[s])
      BY <1>0, FiniteReplicas, FS_Subset DEF ShardTyped
    <3>2. /\ Cardinality(quorum) <= Cardinality(log[s])
          /\ Cardinality(quorum) \in Nat /\ Cardinality(log[s]) \in Nat
      BY <2>2, <3>1, FS_Subset, FS_CardinalityType
    <3> QED BY <3>2, ModesAssumption, SMTT(30) DEF Reached, QuorumSize, Durable
  <2>4. \/ /\ pendingTxns' = [pendingTxns EXCEPT ![s] =
               [entry |-> "consensus", quorum |-> quorum]]
           /\ Reached(quorum)
        \/ pendingTxns' = [pendingTxns EXCEPT ![s].quorum = quorum]
    BY <1>5 DEF HandleReplicateTransactionReply
  <2>5. PendingOK(setup, log, pendingTxns'[s], s)
    <3>1. CASE /\ pendingTxns' = [pendingTxns EXCEPT ![s] =
                     [entry |-> "consensus", quorum |-> quorum]]
               /\ Reached(quorum)
      <4>1. pendingTxns'[s].entry = "consensus" /\ pendingTxns'[s].quorum = quorum
        BY <1>0, <3>1 DEF ShardTyped
      <4> QED BY <1>0, <2>1, <2>2, <2>3, <3>1, <4>1 DEF PendingOK
    <3>2. CASE pendingTxns' = [pendingTxns EXCEPT ![s].quorum = quorum]
      <4>1. pendingTxns'[s].entry = "sent" /\ pendingTxns'[s].quorum = quorum
        BY <1>0, <2>1, <3>2 DEF ShardTyped, Pending
      <4> QED BY <2>2, <4>1 DEF PendingOK
    <3> QED BY <2>4, <3>1, <3>2
  <2>6. \A q \in participants : q # s => pendingTxns'[q] = pendingTxns[q]
    BY <1>0, <2>4 DEF ShardTyped
  <2>7. PICK M : Send(M) /\ NoEntry(M)
    <3>1. NoEntry({}) /\ NoEntry({LeaderVote(s, Leader(s), TRUE)})
      BY VoteKind DEF NoEntry
    <3>2. Send({}) \/ Send({LeaderVote(s, Leader(s), TRUE)})
      BY <1>5 DEF HandleReplicateTransactionReply, Send
    <3> QED BY <3>1, <3>2
  <2> QED BY <1>0, <2>1, <2>5, <2>6, <2>7, LogQuiet
<1>6. ASSUME NEW r \in setup.live, NEW state \in State,
             HandleReplicateCommit(s, r, state)
      PROVE  LogInv'
  BY <1>0, <1>6, LogStep DEF HandleReplicateCommit
<1>7. ASSUME NEW r \in setup.live, NEW m \in msgs, HandlePrepareTxn(s, r, m)
      PROVE  LogInv'
  <2>1. CASE HandlePrepare(r, m)
    <3>1. PICK S : Send({Request("primary", p, PieceTo(p, r)) : p \in S})
      BY <2>1 DEF HandlePrepare
    <3>2. NoEntry({Request("primary", p, PieceTo(p, r)) : p \in S})
      BY SMTT(30) DEF NoEntry, Request
    <3> QED BY <1>0, <2>1, <3>1, <3>2, LogQuiet DEF HandlePrepare, shardVars
  <2>2. CASE PrepareAsParticipant(s, r, m)
    <3>1. ASSUME NEW q \in participants
          PROVE  \/ pendingTxns'[q] = pendingTxns[q]
                 \/ PendingOK(setup, log', pendingTxns'[q], q)
      <4>1. \/ pendingTxns' = pendingTxns
            \/ /\ pendingTxns' = [pendingTxns EXCEPT ![s].entry = "sent"]
               /\ log' = [log EXCEPT ![s] = @ \cup {Leader(s)}]
        BY <2>2 DEF PrepareAsParticipant, InvokeReplicateTxn, shardVars
      <4>2. CASE /\ pendingTxns' = [pendingTxns EXCEPT ![s].entry = "sent"]
                 /\ log' = [log EXCEPT ![s] = @ \cup {Leader(s)}] /\ q = s
        <5>1. /\ pendingTxns'[s].entry = "sent" /\ Leader(s) \in log'[s]
              /\ pendingTxns'[s].quorum = pendingTxns[s].quorum
              /\ log[s] \subseteq log'[s] /\ PendingOK(setup, log, pendingTxns[s], s)
          BY <1>0, <4>2 DEF ShardTyped, Pending, LogInv
        <5> QED BY <4>2, <5>1 DEF PendingOK
      <4> QED BY <1>0, <4>1, <4>2 DEF ShardTyped
    <3>2. CASE Send(Accepted(s, r, m))
      <4>1. \A x \in Accepted(s, r, m) :
              /\ \A q, a : x # Ack(q, a)
              /\ \A q : x = Replicate(q) => mode # "RC"
        <5>1. \A x \in Accepted(s, r, m) :
                \/ x.type = "PrepareTransactionReply"
                \/ x.type = "ReplicateTransaction" /\ mode # "RC"
          <6>1. Accepted(s, r, m) \subseteq
                  {Reply("primary", r, s, r, "PREPAREOK", FALSE),
                   Reply("client", 0, s, r, "PREPAREOK", FALSE)}
                  \cup (IF mode # "RC" THEN {Replicate(s)} ELSE {})
            BY <1>0, SetupLemma DEF Accepted, Mode
          <6>2. /\ Reply("primary", r, s, r, "PREPAREOK", FALSE).type
                      = "PrepareTransactionReply"
                /\ Reply("client", 0, s, r, "PREPAREOK", FALSE).type
                      = "PrepareTransactionReply"
                /\ Replicate(s).type = "ReplicateTransaction"
            BY DEF Reply, Replicate
          <6> QED BY <6>1, <6>2
        <5>2. /\ \A q, a : Ack(q, a).type = "ReplicateTransactionReply"
              /\ \A q : Replicate(q).type = "ReplicateTransaction"
          BY DEF Ack, Replicate
        <5> QED BY <5>1, <5>2
      <4> QED BY <1>0, <3>1, <3>2, <4>1, LogStep DEF Send
    <3>3. ASSUME NEW x, Send({x}), x.type = "PrepareTransactionReply"
          PROVE  LogInv'
      BY <1>0, <3>1, <3>3, LogQuiet DEF NoEntry
    <3>4. \/ Send(Accepted(s, r, m))
          \/ \E q, st, ft : \/ Send({Vote(m, s, r, q, st, ft)})
                            \/ Send({ToSender(m, s, r, q, st, ft)})
      BY <2>2 DEF PrepareAsParticipant
    <3> QED BY <3>2, <3>3, <3>4, VoteKind
  <2> QED BY <1>7, <2>1, <2>2 DEF HandlePrepareTxn
<1> QED BY <1>1, <1>2, <1>3, <1>4, <1>5, <1>6, <1>7

\* The client sends requests and decisions, and its steps touch no replica.
LEMMA ClientQuiet ==
  ASSUME ClientNext
  PROVE  /\ UNCHANGED <<setup, pendingPrepares, shardVars, split>>
         /\ \E M : /\ Send(M)
                  /\ \A x \in M : x.type \in {"PrepareTransaction", "Commit"}
<1>1. CASE Prepare
  <2> DEFINE M == {Request("client", s, r) : s \in Asked,
                     r \in IF mode = "SLOW" THEN {Leader(primary)} ELSE Replica}
  <2>1. Send(M) /\ UNCHANGED <<setup, pendingPrepares, shardVars, split>>
    BY <1>1, SMTT(30) DEF Prepare
  <2>2. \A x \in M : x.type = "PrepareTransaction"
    BY SMTT(30) DEF Request
  <2> HIDE DEF M
  <2> QED BY <2>1, <2>2
<1>2. ASSUME NEW phase, NEW st, Finish(phase, st)
      PROVE  /\ UNCHANGED <<setup, pendingPrepares, shardVars, split>>
             /\ \E M : /\ Send(M)
                      /\ \A x \in M : x.type \in {"PrepareTransaction", "Commit"}
  <2> DEFINE M == {Commit(s, st) : s \in participants}
  <2>1. Send(M) /\ UNCHANGED <<setup, pendingPrepares, shardVars, split>>
    BY <1>2 DEF Finish
  <2>2. \A x \in M : x.type = "Commit"
    BY SMTT(30) DEF Commit
  <2> HIDE DEF M
  <2> QED BY <2>1, <2>2
<1>3. CASE FinishCommit \/ FinishAbort
  BY <1>2, <1>3 DEF FinishCommit, FinishAbort
<1>4. ASSUME UNCHANGED msgs
      PROVE  \E M : /\ Send(M)
                   /\ \A x \in M : x.type \in {"PrepareTransaction", "Commit"}
  <2>1. Send({})
    BY <1>4 DEF Send
  <2> QED BY <2>1, SMTT(30)
<1>5. ASSUME NEW s \in Asked, PrepareTimeout(s)
      PROVE  UNCHANGED <<setup, msgs, pendingPrepares, shardVars, split>>
  BY <1>5 DEF PrepareTimeout
<1>6. ASSUME NEW m \in msgs, HandlePrepareTxnReply(m)
      PROVE  UNCHANGED <<setup, msgs, pendingPrepares, shardVars, split>>
  BY <1>6 DEF HandlePrepareTxnReply
<1> QED BY <1>1, <1>3, <1>4, <1>5, <1>6 DEF ClientNext

LEMMA LogOthers ==
  ASSUME TypeInv, TypeInv', LogInv, ClientNext \/ PrimaryNext \/ UNCHANGED vars, Grows
  PROVE  LogInv'
<1>0. ShardTyped /\ setup \in Setup /\ ShardTyped'
  BY ShardTypedLemma DEF TypeInv, TypeOK, ShardTyped
<1>1. CASE ClientNext
  <2>1. UNCHANGED pendingTxns /\ \E M : Send(M) /\ NoEntry(M)
    BY <1>1, ClientQuiet DEF shardVars, NoEntry
  <2> QED BY <1>0, <2>1, LogQuiet
<1>2. CASE UNCHANGED <<msgs, shardVars>>
  BY <1>0, <1>2, LogStep DEF shardVars
<1>3. CASE PrimaryNext
  <2>1. PICK r \in setup.live, m \in msgs : HandlePrepareTransactionReply(r, m)
    BY <1>3 DEF PrimaryNext
  <2>2. \A d : NoEntry(SentOut(primary, d))
    BY SMTT(30) DEF NoEntry, SentOut, ReplicateCommit
  <2>3. ASSUME NEW d, DoCommit(primary, d), Send(SentOut(primary, d))
        PROVE  LogInv'
    BY <1>0, <2>2, <2>3, LogQuiet, DoCommitPending
  <2>4. ASSUME NEW req, NEW d, ReplyFinalDecision(r, req, d)
        PROVE  LogInv'
    <3> DEFINE answer == {Reply(req.client, IF req.client = "client" THEN 0 ELSE r,
                                primary, r, d, FALSE)}
               others == {Reply("primary", q, primary, r, d, FALSE) : q \in Replica}
    <3>1. NoEntry(answer \cup others)
      BY SMTT(30) DEF NoEntry, Reply
    <3>2. NoEntry(answer \cup SentOut(primary, d))
      BY <2>2, <3>1 DEF NoEntry
    <3>3. \/ Send(answer \cup others) /\ UNCHANGED shardVars
          \/ Send(answer \cup SentOut(primary, d)) /\ DoCommit(primary, d)
      BY <2>4 DEF ReplyFinalDecision
    <3> HIDE DEF answer, others
    <3>4. CASE Send(answer \cup others) /\ UNCHANGED shardVars
      BY <1>0, <3>1, <3>4, LogQuiet DEF shardVars
    <3>5. CASE Send(answer \cup SentOut(primary, d)) /\ DoCommit(primary, d)
      BY <1>0, <3>2, <3>5, LogQuiet, DoCommitPending
    <3> QED BY <3>3, <3>4, <3>5
  <2>5. CASE HandleRegionReply(r, m)
    BY <1>2, <2>3, <2>5 DEF HandleRegionReply
  <2>6. CASE HandleParticipantReply(r, m)
    BY <1>2, <2>4, <2>6 DEF HandleParticipantReply
  <2> QED BY <2>1, <2>5, <2>6 DEF HandlePrepareTransactionReply
<1> QED BY <1>1, <1>2, <1>3 DEF vars

LEMMA LogInit == Init => LogInv
<1> SUFFICES ASSUME Init, NEW s \in participants
             PROVE  AcksOK(setup, log, msgs, s) /\ PendingOK(setup, log, pendingTxns[s], s)
  BY DEF LogInv
<1>1. pendingTxns[s] = NoPending /\ msgs = {}
  BY DEF Init
<1> QED BY <1>1, SMTT(30) DEF AcksOK, PendingOK, NoPending

\* Types and logs together: what the rest builds on.
BaseInv == TypeInv /\ LogInv

LEMMA BaseInductive ==
  /\ Init => BaseInv
  /\ BaseInv /\ [Next]_vars => BaseInv' /\ Grows
<1>1. Init => BaseInv
  BY InitTyped, LogInit DEF BaseInv
<1>2. ASSUME BaseInv, [Next]_vars PROVE BaseInv' /\ Grows
  <2>1. Grows /\ TypeInv'
    BY <1>2, GrowsLemma, ClientTyped, ReplicaTyped, PrimaryTyped, StutterTyped
    DEF Next, BaseInv
  <2> QED BY <1>2, <2>1, LogReplica, LogOthers DEF Next, BaseInv
<1> QED BY <1>1, <1>2

-----------------------------------------------------------------------------
(***************************************************************************)
(* Modes SLOW and RC: what each PREPAREOK on its way from a participant to *)
(* the client stands for.  In mode SLOW it is entries in logs; in mode RC  *)
(* it is votes of the replicas of one region, or a majority of regions.    *)
(* d is the deployment, lg the logs, ms the messages.                      *)
(***************************************************************************)
VotedIn(d, ms, r) ==
  \A p \in d.participants : Reply("primary", r, p, r, "PREPAREOK", FALSE) \in ms
Enough(d, ms) == Cardinality({r \in Replica : VotedIn(d, ms, r)}) >= f + 1
AllDurable(d, lg) == \A p \in d.participants : Durable(lg, p)

\* The vote of participant p, at replica r of the primary shard.
VoteOK(d, lg, ms, p, r) ==
  IF d.mode = "SLOW" THEN Durable(lg, p)
  ELSE Reply("primary", r, p, r, "PREPAREOK", FALSE) \in ms

\* The word of replica q of the primary shard, to another one of it.
RegionOK(d, lg, ms, q) ==
  IF d.mode = "SLOW" THEN Durable(lg, d.primary)
  ELSE VotedIn(d, ms, q) \/ Enough(d, ms)

\* The same, to the client.
AnswerOK(d, lg, ms, q) ==
  IF d.mode = "SLOW" THEN AllDurable(d, lg) ELSE VotedIn(d, ms, q) \/ Enough(d, ms)

\* The primary shard's leader has recorded it, and the client has committed.
RecordOK(d, lg, ms) ==
  IF d.mode = "SLOW" THEN Durable(lg, d.primary) ELSE Enough(d, ms)
CommitOK(d, lg, ms) ==
  IF d.mode = "SLOW" THEN AllDurable(d, lg) ELSE Enough(d, ms)

MsgOK(d, lg, ms, m) ==
  m.type = "PrepareTransactionReply" /\ m.state = "PREPAREOK" =>
    /\ m.to = "client" => AnswerOK(d, lg, ms, m.replica)
    /\ m.to = "primary" =>
         IF m.shard = d.primary /\ m.replica # m.at THEN RegionOK(d, lg, ms, m.replica)
         ELSE VoteOK(d, lg, ms, m.shard, m.at)

PrimaryOK(d, lg, ms, e, r) ==
  e.present =>
    /\ e.client = "client" /\ e.participants = d.participants
    /\ \A p \in e.votes : VoteOK(d, lg, ms, p, r)
    /\ \A q \in Replica : e.regions[q] = "PREPAREOK" => RegionOK(d, lg, ms, q)

LeaderOK(d, lg, ms, c, s) == c = "PREPAREOK" => s = d.primary /\ RecordOK(d, lg, ms)

ClientOK(d, lg, ms, cl) ==
  /\ cl.phase = "committed" \/ (cl.done /\ cl.reply = "OK") => CommitOK(d, lg, ms)
  /\ \A q \in Replica :
       cl.replies[d.primary][q] = "PREPAREOK" => AnswerOK(d, lg, ms, q)

Collected ==
  /\ \A m \in msgs : MsgOK(setup, log, msgs, m)
  /\ \A r \in Replica : PrimaryOK(setup, log, msgs, pendingPrepares[r], r)
  /\ \A s \in participants : LeaderOK(setup, log, msgs, committedTxns[s], s)
  /\ ClientOK(setup, log, msgs, client)

CollectInv == mode # "CAROUSEL" /\ ~split => Collected

LEMMA EnoughMono ==
  ASSUME NEW d, NEW ms, NEW ms2, ms \subseteq ms2
  PROVE  /\ \A r : VotedIn(d, ms, r) => VotedIn(d, ms2, r)
         /\ Enough(d, ms) => Enough(d, ms2)
<1>1. \A r : VotedIn(d, ms, r) => VotedIn(d, ms2, r)
  BY DEF VotedIn
<1> DEFINE A == {r \in Replica : VotedIn(d, ms, r)}
           B == {r \in Replica : VotedIn(d, ms2, r)}
<1>2. A \subseteq B /\ IsFiniteSet(B)
  BY <1>1, FiniteReplicas, FS_Subset
<1>3. /\ Cardinality(A) <= Cardinality(B)
      /\ Cardinality(A) \in Nat /\ Cardinality(B) \in Nat
  BY <1>2, FS_Subset, FS_CardinalityType
<1> HIDE DEF A, B
<1>4. Cardinality(A) >= f + 1 => Cardinality(B) >= f + 1
  BY <1>3, ModesAssumption, SMTT(30)
<1> QED BY <1>1, <1>4 DEF Enough, A, B

\* Everything the invariant speaks of only becomes truer.
LEMMA MeaningMono ==
  ASSUME Grows, ShardTyped', setup \in Setup
  PROVE  /\ \A p \in participants : \A r :
              VoteOK(setup, log, msgs, p, r) => VoteOK(setup, log', msgs', p, r)
         /\ \A q : RegionOK(setup, log, msgs, q) => RegionOK(setup, log', msgs', q)
         /\ \A q : AnswerOK(setup, log, msgs, q) => AnswerOK(setup, log', msgs', q)
         /\ RecordOK(setup, log, msgs) => RecordOK(setup, log', msgs')
         /\ CommitOK(setup, log, msgs) => CommitOK(setup, log', msgs')
<1>1. \A p \in setup.participants : Durable(log, p) => Durable(log', p)
  BY DurableMono DEF Grows, ShardTyped, participants
<1>2. /\ \A r : VotedIn(setup, msgs, r) => VotedIn(setup, msgs', r)
      /\ Enough(setup, msgs) => Enough(setup, msgs')
      /\ msgs \subseteq msgs'
  BY EnoughMono DEF Grows
<1>3. setup.primary \in setup.participants
  BY SetupLemma DEF primary, participants
<1>4. AllDurable(setup, log) => AllDurable(setup, log')
  BY <1>1 DEF AllDurable
<1>5. ASSUME NEW p \in participants, NEW r, VoteOK(setup, log, msgs, p, r)
      PROVE  VoteOK(setup, log', msgs', p, r)
  <2>1. CASE setup.mode = "SLOW"
    BY <1>1, <1>5, <2>1 DEF VoteOK, participants
  <2>2. CASE setup.mode # "SLOW"
    BY <1>2, <1>5, <2>2 DEF VoteOK
  <2> QED BY <2>1, <2>2
<1>6. \A q : RegionOK(setup, log, msgs, q) => RegionOK(setup, log', msgs', q)
  BY <1>1, <1>2, <1>3 DEF RegionOK
<1>7. \A q : AnswerOK(setup, log, msgs, q) => AnswerOK(setup, log', msgs', q)
  BY <1>2, <1>4 DEF AnswerOK
<1>8. RecordOK(setup, log, msgs) => RecordOK(setup, log', msgs')
  BY <1>1, <1>2, <1>3 DEF RecordOK
<1>9. CommitOK(setup, log, msgs) => CommitOK(setup, log', msgs')
  BY <1>2, <1>4 DEF CommitOK
<1> QED BY <1>5, <1>6, <1>7, <1>8, <1>9

\* So a step answers only for what it changes.
LEMMA CollectStep ==
  ASSUME Grows, ShardTyped, ShardTyped', MsgsTyped, setup \in Setup, Collected,
         \A m \in msgs' : m \in msgs \/ MsgOK(setup, log', msgs', m),
         \A r \in Replica : \/ pendingPrepares'[r] = pendingPrepares[r]
                            \/ PrimaryOK(setup, log', msgs', pendingPrepares'[r], r),
         \A s \in participants : \/ committedTxns'[s] = committedTxns[s]
                                 \/ LeaderOK(setup, log', msgs', committedTxns'[s], s),
         client' = client \/ ClientOK(setup, log', msgs', client')
  PROVE  Collected'
<1>0. setup' = setup /\ participants' = participants
  BY DEF Grows, participants
<1>1. ASSUME NEW m \in msgs' PROVE MsgOK(setup, log', msgs', m)
  <2>1. CASE m \in msgs
    <3>1. m.type = "PrepareTransactionReply" => m.shard \in participants
      BY <2>1 DEF MsgsTyped, MsgTyped, ReplyTyped, participants
    <3>2. MsgOK(setup, log, msgs, m)
      BY <2>1 DEF Collected
    <3> QED BY <3>1, <3>2, MeaningMono DEF MsgOK
  <2> QED BY <1>1, <2>1
<1>2. ASSUME NEW r \in Replica
      PROVE  PrimaryOK(setup, log', msgs', pendingPrepares'[r], r)
  <2>1. CASE pendingPrepares'[r] = pendingPrepares[r]
    <3>1. /\ PrimaryOK(setup, log, msgs, pendingPrepares[r], r)
          /\ pendingPrepares[r].votes \subseteq participants
      BY DEF Collected, ShardTyped, PendingPrepare
    <3> QED BY <2>1, <3>1, MeaningMono DEF PrimaryOK
  <2> QED BY <2>1
<1>3. ASSUME NEW s \in participants
      PROVE  LeaderOK(setup, log', msgs', committedTxns'[s], s)
  BY MeaningMono DEF Collected, LeaderOK
<1>4. ClientOK(setup, log', msgs', client')
  <2>1. CASE client' = client
    BY <2>1, MeaningMono DEF Collected, ClientOK
  <2> QED BY <2>1
<1> QED BY <1>0, <1>1, <1>2, <1>3, <1>4 DEF Collected

\* All votes at one replica make its word; f + 1 regions make a decision.
LEMMA AllVotes ==
  ASSUME NEW d, NEW lg, NEW ms, NEW r, d.primary \in d.participants,
         \A p \in d.participants : VoteOK(d, lg, ms, p, r)
  PROVE  /\ AnswerOK(d, lg, ms, r) /\ RegionOK(d, lg, ms, r)
         /\ d.mode = "SLOW" => RecordOK(d, lg, ms)
<1>1. CASE d.mode = "SLOW"
  BY <1>1 DEF VoteOK, AnswerOK, RegionOK, RecordOK, AllDurable
<1>2. CASE d.mode # "SLOW"
  BY <1>2 DEF VoteOK, AnswerOK, RegionOK, VotedIn
<1> QED BY <1>1, <1>2

LEMMA Majority ==
  ASSUME NEW d, NEW ms, NEW regions, Count(regions, {"PREPAREOK"}) >= QuorumSize
  PROVE  /\ \E q \in Replica : regions[q] = "PREPAREOK"
         /\ (\A q \in Replica : regions[q] = "PREPAREOK" =>
                VotedIn(d, ms, q) \/ Enough(d, ms)) => Enough(d, ms)
<1> DEFINE A == {q \in Replica : regions[q] \in {"PREPAREOK"}}
           B == {q \in Replica : VotedIn(d, ms, q)}
<1>1. Cardinality(A) >= f + 1 /\ f + 1 > 0
  BY ModesAssumption, SMTT(30) DEF Count, QuorumSize
<1>2. \E q \in Replica : regions[q] = "PREPAREOK"
  <2>1. ASSUME A = {} PROVE FALSE
    <3> HIDE DEF A
    <3>1. Cardinality(A) = 0
      BY <2>1, FS_EmptySet
    <3> QED BY <1>1, <3>1, ModesAssumption, SMTT(30)
  <2> QED BY <2>1
<1>3. ASSUME \A q \in Replica : regions[q] = "PREPAREOK" =>
               VotedIn(d, ms, q) \/ Enough(d, ms),
             ~Enough(d, ms)
      PROVE  FALSE
  <2>1. A \subseteq B /\ IsFiniteSet(B)
    BY <1>3, FiniteReplicas, FS_Subset
  <2>2. /\ Cardinality(A) <= Cardinality(B)
        /\ Cardinality(A) \in Nat /\ Cardinality(B) \in Nat
    BY <2>1, FS_Subset, FS_CardinalityType
  <2> HIDE DEF A, B
  <2>3. Cardinality(B) >= f + 1
    BY <1>1, <2>2, ModesAssumption, SMTT(30)
  <2> QED BY <1>3, <2>3 DEF Enough, B
<1> QED BY <1>2, <1>3

LEMMA CollectClient ==
  ASSUME BaseInv, BaseInv', Grows, mode # "CAROUSEL", Collected, ClientNext
  PROVE  Collected'
<1>0. /\ ShardTyped /\ ShardTyped' /\ MsgsTyped /\ setup \in Setup /\ mode = setup.mode
      /\ client \in ClientState /\ Asked = {primary} /\ primary = setup.primary
      /\ participants # {}
  BY ShardTypedLemma, SetupLemma
  DEF BaseInv, TypeInv, TypeOK, ShardTyped, mode, Asked, primary
<1>1. /\ \A m \in msgs' : m \in msgs \/ MsgOK(setup, log', msgs', m)
      /\ pendingPrepares' = pendingPrepares /\ committedTxns' = committedTxns
  BY ClientQuiet DEF Send, MsgOK, shardVars
<1>2. SUFFICES ClientOK(setup, log, msgs, client')
  <2>1. ClientOK(setup, log, msgs, client') => ClientOK(setup, log', msgs', client')
    BY <1>0, MeaningMono DEF ClientOK
  <2> QED BY <1>0, <1>1, <2>1, CollectStep
<1>3. ClientOK(setup, log, msgs, client)
  BY DEF Collected
<1>4. CASE Prepare
  <2>1. /\ client'.phase = "preparing" /\ ~client'.done
        /\ \A q \in Replica : client'.replies[setup.primary][q] = "none"
    BY <1>0, <1>4 DEF Prepare, NewClient, NoReplies
  <2> QED BY <2>1 DEF ClientOK
<1>5. ASSUME NEW phase, NEW st, Finish(phase, st),
             phase = "committed" => CommitOK(setup, log, msgs)
      PROVE  ClientOK(setup, log, msgs, client')
  <2>1. /\ client'.phase = phase /\ ~client'.done
        /\ \A q \in Replica : client'.replies[setup.primary][q] = "none"
    BY <1>0, <1>5 DEF Finish, NewClient, NoReplies
  <2> QED BY <1>5, <2>1 DEF ClientOK
<1>6. CASE FinishCommit \/ FinishAbort
  BY <1>3, <1>5, <1>6 DEF FinishCommit, FinishAbort, MayCommit, ClientOK
<1>7. ASSUME NEW s \in Asked, PrepareTimeout(s)
      PROVE  ClientOK(setup, log, msgs, client')
  <2>1. /\ client'.phase = client.phase /\ client'.reply = "TIMEOUT"
        /\ client'.replies = client.replies
    BY <1>0, <1>7 DEF PrepareTimeout, ClientState
  <2> QED BY <1>3, <2>1 DEF ClientOK
<1>8. ASSUME NEW m \in msgs, HandlePrepareTxnReply(m)
      PROVE  ClientOK(setup, log, msgs, client')
  <2> DEFINE replies == [client.replies[m.shard] EXCEPT ![m.replica] = m.state]
             c2 == [client EXCEPT !.pendingReqs = @ \ {m.shard}]
             state == IF mode = "SLOW" THEN m.state ELSE RCCheck(replies)
  <2>1. /\ ReplyTyped(setup, m) /\ m.shard = primary /\ MsgOK(setup, log, msgs, m)
        /\ m.type = "PrepareTransactionReply" /\ m.to = "client"
    BY <1>0, <1>8
    DEF HandlePrepareTxnReply, MsgsTyped, MsgTyped, ClientState, Collected
  <2>2. mode \in {"SLOW", "RC"}
    BY <1>0, SetupLemma DEF Mode
  <2>3. client' = IF state = "none"
                    THEN [client EXCEPT !.replies[m.shard] = replies,
                                        !.ft[m.shard] = IF m.ft THEN m.state ELSE @]
                  ELSE Replied(c2, m.shard, state)
    <3>1. CASE mode = "SLOW"
      BY <1>8, <3>1 DEF HandlePrepareTxnReply
    <3>2. CASE mode = "RC"
      BY <1>8, <3>2 DEF HandlePrepareTxnReply
    <3> QED BY <2>2, <3>1, <3>2
  <2>4. \A q \in Replica : replies[q] = "PREPAREOK" => AnswerOK(setup, log, msgs, q)
    <3>1. client.replies[primary] \in [Replica -> State \cup {"none"}] /\ m.replica \in Replica
      BY <1>0, <2>1 DEF ClientState, ReplyTyped
    <3>2. \A q \in Replica : \/ q = m.replica /\ replies[q] = m.state
                             \/ replies[q] = client.replies[primary][q]
      BY <2>1, <3>1
    <3> QED BY <1>0, <1>3, <2>1, <3>2 DEF ClientOK, MsgOK
  <2>5. CASE state = "none"
    <3>1. /\ client'.phase = client.phase /\ client'.reply = client.reply
          /\ client'.done = client.done /\ client'.replies[primary] = replies
      BY <1>0, <2>1, <2>3, <2>5 DEF ClientState
    <3> HIDE DEF replies
    <3> QED BY <1>0, <1>3, <2>4, <3>1 DEF ClientOK
  <2>6. CASE state \notin {"none", "PREPAREOK"}
    <3>1. client' = [c2 EXCEPT !.done = TRUE, !.reply = "FAIL"]
      BY <2>3, <2>6 DEF Replied
    <3>2. /\ client'.phase = client.phase /\ client'.reply = "FAIL"
          /\ client'.replies = client.replies
      BY <1>0, <3>1 DEF ClientState
    <3> QED BY <1>3, <3>2 DEF ClientOK
  <2>7. CASE state = "PREPAREOK"
    <3>1. CommitOK(setup, log, msgs)
      <4>1. CASE mode = "SLOW"
        BY <1>0, <2>1, <2>7, <4>1 DEF MsgOK, AnswerOK, CommitOK
      <4>2. CASE mode = "RC"
        <5> HIDE DEF replies
        <5>1. Count(replies, {"PREPAREOK"}) >= QuorumSize
          BY <2>7, <4>2 DEF RCCheck
        <5>2. Enough(setup, msgs)
          BY <1>0, <2>4, <4>2, <5>1, Majority DEF AnswerOK
        <5> QED BY <1>0, <4>2, <5>2 DEF CommitOK
      <4> QED BY <2>2, <4>1, <4>2
    <3>2. client' = Replied(c2, m.shard, "PREPAREOK")
      BY <2>3, <2>7
    <3>3. client'.replies = client.replies
      BY <1>0, <3>2 DEF Replied, ClientState
    <3> QED BY <1>3, <3>1, <3>3 DEF ClientOK
  <2> QED BY <2>5, <2>6, <2>7
<1> QED BY <1>4, <1>6, <1>7, <1>8 DEF ClientNext

\* The replies that are sent.
LEMMA ReplyOK ==
  ASSUME NEW d, NEW lg, NEW ms, NEW a, NEW p, NEW q, NEW ft
  PROVE  /\ d.mode = "SLOW" /\ Durable(lg, p)
              => MsgOK(d, lg, ms, Reply("primary", a, p, q, "PREPAREOK", ft))
         /\ d.mode = "RC" /\ Reply("primary", q, p, q, "PREPAREOK", FALSE) \in ms
              => MsgOK(d, lg, ms, Reply("primary", q, p, q, "PREPAREOK", FALSE))
         /\ RegionOK(d, lg, ms, q) /\ q # a
              => MsgOK(d, lg, ms, Reply("primary", a, d.primary, q, "PREPAREOK", ft))
         /\ AnswerOK(d, lg, ms, q)
              => MsgOK(d, lg, ms, Reply("client", a, p, q, "PREPAREOK", ft))
         /\ \A x, st : st # "PREPAREOK" => MsgOK(d, lg, ms, Reply(x, a, p, q, st, ft))
<1>3. ASSUME d.mode = "SLOW", Durable(lg, p)
      PROVE  MsgOK(d, lg, ms, Reply("primary", a, p, q, "PREPAREOK", ft))
  <2> DEFINE m == Reply("primary", a, p, q, "PREPAREOK", ft)
  <2>1. /\ m.to = "primary" /\ m.at = a /\ m.shard = p /\ m.replica = q
        /\ m.state = "PREPAREOK"
    BY DEF Reply
  <2> HIDE DEF m
  <2>2. (p = d.primary => RegionOK(d, lg, ms, q)) /\ VoteOK(d, lg, ms, p, a)
    BY <1>3 DEF RegionOK, VoteOK
  <2>3. MsgOK(d, lg, ms, m)
    BY <2>1, <2>2 DEF MsgOK
  <2> QED BY <2>3 DEF m
<1>4. ASSUME d.mode = "RC", Reply("primary", q, p, q, "PREPAREOK", FALSE) \in ms
      PROVE  MsgOK(d, lg, ms, Reply("primary", q, p, q, "PREPAREOK", FALSE))
  <2> DEFINE m == Reply("primary", q, p, q, "PREPAREOK", FALSE)
  <2>1. /\ m.to = "primary" /\ m.at = q /\ m.shard = p /\ m.replica = q
        /\ m.state = "PREPAREOK"
    BY DEF Reply
  <2>2. VoteOK(d, lg, ms, p, q)
    BY <1>4 DEF VoteOK
  <2> HIDE DEF m
  <2>3. MsgOK(d, lg, ms, m)
    BY <2>1, <2>2 DEF MsgOK
  <2> QED BY <2>3 DEF m
<1>5. ASSUME RegionOK(d, lg, ms, q), q # a
      PROVE  MsgOK(d, lg, ms, Reply("primary", a, d.primary, q, "PREPAREOK", ft))
  <2> DEFINE m == Reply("primary", a, d.primary, q, "PREPAREOK", ft)
  <2>1. /\ m.to = "primary" /\ m.at = a /\ m.shard = d.primary /\ m.replica = q
        /\ m.state = "PREPAREOK"
    BY DEF Reply
  <2> HIDE DEF m
  <2>3. MsgOK(d, lg, ms, m)
    BY <1>5, <2>1 DEF MsgOK
  <2> QED BY <2>3 DEF m
<1>6. ASSUME AnswerOK(d, lg, ms, q)
      PROVE  MsgOK(d, lg, ms, Reply("client", a, p, q, "PREPAREOK", ft))
  <2> DEFINE m == Reply("client", a, p, q, "PREPAREOK", ft)
  <2>1. /\ m.to = "client" /\ m.at = a /\ m.shard = p /\ m.replica = q
        /\ m.state = "PREPAREOK"
    BY DEF Reply
  <2> HIDE DEF m
  <2>3. MsgOK(d, lg, ms, m)
    BY <1>6, <2>1 DEF MsgOK
  <2> QED BY <2>3 DEF m
<1>7. ASSUME NEW x, NEW st, st # "PREPAREOK"
      PROVE  MsgOK(d, lg, ms, Reply(x, a, p, q, st, ft))
  <2>1. Reply(x, a, p, q, st, ft).state = st
    BY DEF Reply
  <2> QED BY <1>7, <2>1 DEF MsgOK
<1> QED BY <1>3, <1>4, <1>5, <1>6, <1>7

LEMMA CollectReplica ==
  ASSUME BaseInv, BaseInv', Grows, mode # "CAROUSEL", ~split', Collected, ReplicaNext
  PROVE  Collected'
<1>0. /\ ShardTyped /\ ShardTyped' /\ MsgsTyped /\ setup \in Setup /\ mode = setup.mode
      /\ primary = setup.primary /\ primary \in participants
      /\ participants = setup.participants /\ mode \in {"SLOW", "RC"}
      /\ setup' = setup /\ participants' = participants
  BY ShardTypedLemma, SetupLemma
  DEF BaseInv, TypeInv, TypeOK, ShardTyped, mode, primary, participants, Mode, Grows
<1>1. PICK s \in participants :
        \/ ResendPrepareOK(s)
        \/ \E state \in State : HandleCommit(s, state)
        \/ \E r \in setup.live :
             \/ HandleReplicateTransaction(s, r)
             \/ HandleReplicateTransactionReply(s, r)
             \/ \E state \in State : HandleReplicateCommit(s, r, state)
             \/ \E m \in msgs : HandlePrepareTxn(s, r, m)
  BY DEF ReplicaNext
<1>2. ASSUME UNCHANGED <<client, pendingPrepares, committedTxns>>, NEW M, Send(M),
             \A x \in M : MsgOK(setup, log', msgs', x)
      PROVE  Collected'
  BY <1>0, <1>2, CollectStep DEF Send
<1>3. ASSUME NEW e, PendingOK(setup, log', e, s), e.entry = "consensus"
      PROVE  mode = "SLOW" /\ Durable(log', s)
  BY <1>0, <1>3 DEF PendingOK
<1>4. PendingOK(setup, log, pendingTxns[s], s) /\ PendingOK(setup, log', pendingTxns'[s], s)
  BY <1>0 DEF BaseInv, LogInv
<1>5. ASSUME mode = "SLOW", Durable(log', s)
      PROVE  \A q, ft : MsgOK(setup, log', msgs', LeaderVote(s, q, ft))
  BY <1>0, <1>5, ReplyOK DEF LeaderVote
<1>6. CASE ResendPrepareOK(s)
  <2>1. log' = log /\ UNCHANGED <<client, pendingPrepares, committedTxns>>
    BY <1>6 DEF ResendPrepareOK, shardVars
  <2>2. MsgOK(setup, log', msgs', LeaderVote(s, 0, FALSE))
    BY <1>3, <1>4, <1>5, <1>6, <2>1 DEF ResendPrepareOK
  <2> QED BY <1>2, <1>6, <2>1, <2>2 DEF ResendPrepareOK
<1>7. ASSUME NEW state \in State, HandleCommit(s, state)
      PROVE  Collected'
  <2>1. state # "PREPAREOK"
    <3>1. Commit(s, state).type = "Commit" /\ Commit(s, state).state = state
      BY DEF Commit
    <3> QED BY <1>0, <1>7, <3>1 DEF HandleCommit, MsgsTyped, MsgTyped, Failing
  <2>2. \A x \in SentOut(s, state) : MsgOK(setup, log', msgs', x)
    BY SentKind DEF MsgOK
  <2>3. \A q \in participants : \/ committedTxns'[q] = committedTxns[q]
                                \/ committedTxns'[q] = state
    BY <1>0, <1>7 DEF HandleCommit, DoCommit, ShardTyped, shardVars
  <2>4. \A q \in participants : \/ committedTxns'[q] = committedTxns[q]
                                \/ LeaderOK(setup, log', msgs', committedTxns'[q], q)
    BY <2>1, <2>3 DEF LeaderOK
  <2>5. /\ UNCHANGED <<client, pendingPrepares>>
        /\ \A x \in msgs' : x \in msgs \/ x \in SentOut(s, state)
    BY <1>7 DEF HandleCommit, Send
  <2> QED BY <1>0, <2>2, <2>4, <2>5, CollectStep
<1>8. ASSUME NEW r \in setup.live, HandleReplicateTransaction(s, r)
      PROVE  Collected'
  <2>1. MsgOK(setup, log', msgs', Ack(s, r))
    BY DEF Ack, MsgOK
  <2> QED BY <1>2, <1>8, <2>1 DEF HandleReplicateTransaction
<1>9. ASSUME NEW r \in setup.live, HandleReplicateTransactionReply(s, r)
      PROVE  Collected'
  <2>1. CASE UNCHANGED msgs
    <3>1. Send({})
      BY <2>1 DEF Send
    <3> QED BY <1>2, <1>9, <3>1 DEF HandleReplicateTransactionReply
  <2>2. CASE /\ Send({LeaderVote(s, Leader(s), TRUE)})
             /\ \E quorum : pendingTxns' = [pendingTxns EXCEPT ![s] =
                  [entry |-> "consensus", quorum |-> quorum]]
    <3>0. pendingTxns \in [participants -> Pending]
      BY <1>0 DEF ShardTyped
    <3>1. pendingTxns'[s].entry = "consensus"
      BY <2>2, <3>0, SMTT(30)
    <3>2. MsgOK(setup, log', msgs', LeaderVote(s, Leader(s), TRUE))
      BY <1>3, <1>4, <1>5, <3>1
    <3> QED BY <1>2, <1>9, <2>2, <3>2 DEF HandleReplicateTransactionReply
  <2> QED BY <1>9, <2>1, <2>2 DEF HandleReplicateTransactionReply
<1>10. ASSUME NEW r \in setup.live, NEW state \in State,
              HandleReplicateCommit(s, r, state)
       PROVE  Collected'
  BY <1>0, <1>10, CollectStep DEF HandleReplicateCommit
<1>11. ASSUME NEW r \in setup.live, NEW m \in msgs, HandlePrepareTxn(s, r, m)
       PROVE  Collected'
  <2>1. UNCHANGED client /\ r \in Replica
    BY <1>0, <1>11, SetupLemma DEF HandlePrepareTxn
  <2>2. CASE HandlePrepare(r, m)
    <3>1. m.from = "client" /\ UNCHANGED shardVars
      BY <2>2 DEF HandlePrepare
    <3>2. \A x \in msgs' : x \in msgs \/ MsgOK(setup, log', msgs', x)
      BY <2>2, SMTT(30) DEF HandlePrepare, Send, Request, MsgOK
    <3>3. pendingPrepares' = [pendingPrepares EXCEPT ![r] =
            [NoPrepare EXCEPT !.present = TRUE, !.client = "client",
                              !.participants = participants]]
      BY <2>2, <3>1 DEF HandlePrepare
    <3>4. /\ pendingPrepares'[r].client = "client"
          /\ pendingPrepares'[r].participants = participants
          /\ pendingPrepares'[r].votes = {}
          /\ \A q \in Replica : pendingPrepares'[r].regions[q] = "none"
      BY <1>0, <2>1, <3>3 DEF ShardTyped, NoPrepare, NoReplies
    <3>5. PrimaryOK(setup, log', msgs', pendingPrepares'[r], r)
      BY <1>0, <3>4 DEF PrimaryOK
    <3>6. \A q \in Replica : q # r => pendingPrepares'[q] = pendingPrepares[q]
      BY <1>0, <3>3 DEF ShardTyped
    <3> QED BY <1>0, <2>1, <3>1, <3>2, <3>5, <3>6, CollectStep DEF shardVars
  <2>3. CASE PrepareAsParticipant(s, r, m)
    <3>0. /\ UNCHANGED <<pendingPrepares, committedTxns>>
          /\ m.from \in {"client", "primary"}
      BY <1>0, <1>11, <2>3
      DEF PrepareAsParticipant, shardVars, HandlePrepareTxn, MsgsTyped, MsgTyped, RequestTyped
    <3>1. ASSUME NEW x, Send({x}), MsgOK(setup, log', msgs', x)
          PROVE  Collected'
      BY <1>2, <2>1, <3>0, <3>1
    <3>2. CASE /\ Send({Vote(m, s, r, 0, committedTxns[s], FALSE)}) /\ r = Leader(s)
               /\ UNCHANGED shardVars
      <4> DEFINE x == Vote(m, s, r, 0, committedTxns[s], FALSE)
      <4>1. CASE committedTxns[s] # "PREPAREOK"
        <5>1. MsgOK(setup, log', msgs', x)
          BY <4>1, ReplyOK DEF Vote, ToSender
        <5> QED BY <3>1, <3>2, <5>1
      <4>2. CASE committedTxns[s] = "PREPAREOK"
        <5>1. /\ s = primary /\ RecordOK(setup, log', msgs')
          BY <1>0, <4>2, MeaningMono DEF Collected, LeaderOK
        <5>2. CASE mode = "SLOW"
          <6>1. x = Reply("primary", Leader(primary), s, 0, "PREPAREOK", FALSE)
            BY <4>2, <5>2 DEF Vote
          <6>2. MsgOK(setup, log', msgs', x)
            BY <1>0, <5>1, <5>2, <6>1, ReplyOK DEF RecordOK
          <6> QED BY <3>1, <3>2, <6>2
        <5>3. CASE mode = "RC"
          <6>1. x = Reply(m.from, IF m.from = "client" THEN 0 ELSE r, setup.primary, 0,
                          "PREPAREOK", FALSE)
            BY <1>0, <4>2, <5>1, <5>3 DEF Vote, ToSender
          <6>2. x \in msgs'
            BY <3>2 DEF Send
          <6>3. AnswerOK(setup, log', msgs', 0) /\ RegionOK(setup, log', msgs', 0)
            BY <1>0, <5>1, <5>3 DEF RecordOK, AnswerOK, RegionOK
          <6>4. CASE m.from = "client"
            <7>1. MsgOK(setup, log', msgs', x)
              BY <6>1, <6>3, <6>4, ReplyOK
            <7> QED BY <3>1, <3>2, <7>1
          <6>5. CASE m.from = "primary" /\ r # 0
            <7>1. MsgOK(setup, log', msgs', x)
              BY <6>1, <6>3, <6>5, ReplyOK
            <7> QED BY <3>1, <3>2, <7>1
          <6>6. CASE m.from = "primary" /\ r = 0
            <7>1. x = Reply("primary", 0, setup.primary, 0, "PREPAREOK", FALSE)
              BY <6>1, <6>6
            <7>2. MsgOK(setup, log', msgs', x)
              BY <1>0, <5>3, <6>2, <7>1, ReplyOK
            <7> QED BY <3>1, <3>2, <7>2
          <6> QED BY <3>0, <6>4, <6>5, <6>6
        <5> QED BY <1>0, <5>2, <5>3
      <4> QED BY <4>1, <4>2
    <3>3. ASSUME pendingTxns[s].entry = "consensus", UNCHANGED shardVars, NEW q, NEW ft,
                 Send({Vote(m, s, r, q, "PREPAREOK", ft)})
          PROVE  Collected'
      <4>1. mode = "SLOW" /\ Durable(log', s)
        BY <1>3, <1>4, <3>3 DEF shardVars
      <4>2. MsgOK(setup, log', msgs', Vote(m, s, r, q, "PREPAREOK", ft))
        BY <1>0, <4>1, ReplyOK DEF Vote
      <4> QED BY <3>1, <3>3, <4>2
    <3>4. ASSUME NEW ft, Send({ToSender(m, s, r, r, "ABORT", ft)})
          PROVE  Collected'
      <4>1. MsgOK(setup, log', msgs', ToSender(m, s, r, r, "ABORT", ft))
        BY ReplyOK DEF ToSender
      <4> QED BY <3>1, <3>4, <4>1
    <3>5. CASE Send(Accepted(s, r, m))
      <4>1. MsgOK(setup, log', msgs', Replicate(s))
        BY DEF Replicate, MsgOK
      <4>2. CASE mode = "SLOW"
        <5>1. \A x \in Accepted(s, r, m) : x = Replicate(s)
          BY <4>2 DEF Accepted
        <5> QED BY <1>2, <2>1, <3>0, <3>5, <4>1, <5>1
      <4>3. CASE mode = "RC"
        <5>1. Accepted(s, r, m) = {Reply("primary", r, s, r, "PREPAREOK", FALSE)}
          BY <4>3 DEF Accepted
        <5>2. Reply("primary", r, s, r, "PREPAREOK", FALSE) \in msgs'
          BY <3>5, <5>1 DEF Send
        <5>3. MsgOK(setup, log', msgs', Reply("primary", r, s, r, "PREPAREOK", FALSE))
          BY <1>0, <4>3, <5>2, ReplyOK
        <5> QED BY <3>1, <3>5, <5>1, <5>3
      <4> QED BY <1>0, <4>2, <4>3
    <3> QED BY <2>3, <3>2, <3>3, <3>4, <3>5 DEF PrepareAsParticipant
  <2> QED BY <1>11, <2>2, <2>3 DEF HandlePrepareTxn
<1> QED BY <1>1, <1>6, <1>7, <1>8, <1>9, <1>10, <1>11

\* What the proofs about the primary shard start from.
Ready ==
  /\ Grows /\ Collected /\ ShardTyped /\ ShardTyped' /\ MsgsTyped /\ setup \in Setup
  /\ UNCHANGED client /\ mode = setup.mode /\ primary = setup.primary
  /\ primary \in participants /\ participants = setup.participants
  /\ mode \in {"SLOW", "RC"}

LEMMA DecisionOK ==
  ASSUME Ready, NEW d, d = "PREPAREOK" => RecordOK(setup, log, msgs),
         DoCommit(primary, d)
  PROVE  \A s \in participants : \/ committedTxns'[s] = committedTxns[s]
                                 \/ LeaderOK(setup, log', msgs', committedTxns'[s], s)
<1>1. \A s \in participants : \/ committedTxns'[s] = committedTxns[s]
                              \/ s = primary /\ committedTxns'[s] = d
  BY DEF Ready, DoCommit, ShardTyped, shardVars
<1>2. d = "PREPAREOK" => RecordOK(setup, log', msgs')
  BY MeaningMono DEF Ready
<1> QED BY <1>1, <1>2 DEF LeaderOK, Ready

LEMMA FinalOK ==
  ASSUME Ready, NEW r \in Replica, NEW req \in PendingPrepare, req.present,
         PrimaryOK(setup, log, msgs, req, r), NEW d \in {"PREPAREOK", "ABORT"},
         d = "PREPAREOK" => \A p \in participants : VoteOK(setup, log, msgs, p, r),
         ReplyFinalDecision(r, req, d)
  PROVE  Collected'
<1> USE DEF Ready
<1>1. d = "PREPAREOK" => /\ AnswerOK(setup, log, msgs, r) /\ RegionOK(setup, log, msgs, r)
                         /\ mode = "SLOW" => RecordOK(setup, log, msgs)
  BY AllVotes
<1>2. d = "PREPAREOK" => AnswerOK(setup, log', msgs', r) /\ RegionOK(setup, log', msgs', r)
  BY <1>1, MeaningMono
<1>3. req.client = "client"
  BY DEF PrimaryOK
<1> DEFINE answer == Reply("client", 0, primary, r, d, FALSE)
           others == {Reply("primary", q, primary, r, d, FALSE) : q \in Replica}
<1>4. MsgOK(setup, log', msgs', answer)
  BY <1>2, ReplyOK
<1>5. CASE /\ mode = "RC" /\ UNCHANGED shardVars /\ Send({answer} \cup others)
           /\ pendingPrepares' = [pendingPrepares EXCEPT
                                    ![r] = [req EXCEPT !.regions[r] = d]]
  <2>1. ASSUME NEW q \in Replica
        PROVE  MsgOK(setup, log', msgs', Reply("primary", q, primary, r, d, FALSE))
    <3>1. CASE d = "ABORT"
      BY <3>1, ReplyOK
    <3>2. CASE d = "PREPAREOK" /\ q # r
      BY <1>2, <3>2, ReplyOK
    <3>3. CASE d = "PREPAREOK" /\ q = r
      <4>1. Reply("primary", r, primary, r, "PREPAREOK", FALSE) \in msgs'
        BY <1>5, <3>3 DEF Send
      <4> QED BY <1>5, <3>3, <4>1, ReplyOK
    <3> QED BY <3>1, <3>2, <3>3
  <2>2. \A x \in msgs' : x \in msgs \/ MsgOK(setup, log', msgs', x)
    BY <1>4, <1>5, <2>1 DEF Send
  <2>3. PrimaryOK(setup, log', msgs', pendingPrepares'[r], r)
    <3>1. /\ pendingPrepares'[r].client = req.client
          /\ pendingPrepares'[r].participants = req.participants
          /\ pendingPrepares'[r].votes = req.votes
          /\ pendingPrepares'[r].regions = [req.regions EXCEPT ![r] = d]
      BY <1>5, SMTT(30) DEF ShardTyped, PendingPrepare
    <3>2. \A q \in Replica : pendingPrepares'[r].regions[q] = "PREPAREOK"
                               => RegionOK(setup, log', msgs', q)
      <4>1. \A q \in Replica : \/ pendingPrepares'[r].regions[q] = req.regions[q]
                               \/ q = r /\ pendingPrepares'[r].regions[q] = d
        <5>1. req.regions \in [Replica -> State \cup {"none"}]
          BY DEF PendingPrepare
        <5>2. \A q \in Replica : [req.regions EXCEPT ![r] = d][q]
                                  = IF q = r THEN d ELSE req.regions[q]
          BY <5>1
        <5> QED BY <3>1, <5>2
      <4> QED BY <1>2, <4>1, MeaningMono DEF PrimaryOK
    <3>3. \A p \in req.votes : VoteOK(setup, log', msgs', p, r)
      BY MeaningMono DEF PrimaryOK, PendingPrepare
    <3> QED BY <3>1, <3>2, <3>3 DEF PrimaryOK
  <2>4. \A q \in Replica : q # r => pendingPrepares'[q] = pendingPrepares[q]
    BY <1>5 DEF ShardTyped
  <2> QED BY <1>5, <2>2, <2>3, <2>4, CollectStep DEF shardVars
<1>6. CASE /\ mode = "SLOW" /\ DoCommit(primary, d)
           /\ Send({answer} \cup SentOut(primary, d))
           /\ pendingPrepares' = [pendingPrepares EXCEPT ![r] = NoPrepare]
  <2>1. \A x \in SentOut(primary, d) : MsgOK(setup, log', msgs', x)
    BY SentKind DEF MsgOK
  <2>2. \A x \in msgs' : x \in msgs \/ MsgOK(setup, log', msgs', x)
    BY <1>4, <1>6, <2>1 DEF Send
  <2>3. \A q \in Replica : pendingPrepares'[q] = pendingPrepares[q]
                           \/ ~pendingPrepares'[q].present
    BY <1>6 DEF ShardTyped, NoPrepare
  <2>4. \A q \in Replica : \/ pendingPrepares'[q] = pendingPrepares[q]
                           \/ PrimaryOK(setup, log', msgs', pendingPrepares'[q], q)
    BY <2>3 DEF PrimaryOK
  <2>5. \A s \in participants : \/ committedTxns'[s] = committedTxns[s]
                                \/ LeaderOK(setup, log', msgs', committedTxns'[s], s)
    BY <1>1, <1>6, DecisionOK
  <2> QED BY <2>2, <2>4, <2>5, CollectStep
<1> QED BY <1>3, <1>5, <1>6 DEF ReplyFinalDecision

LEMMA CollectPrimary ==
  ASSUME BaseInv, BaseInv', Grows, mode # "CAROUSEL", Collected, PrimaryNext
  PROVE  Collected'
<1>1. PICK r \in setup.live, m \in msgs : HandlePrepareTransactionReply(r, m)
  BY DEF PrimaryNext
<1>2. Ready
  <2>1. /\ ShardTyped /\ setup \in Setup /\ MsgsTyped /\ ShardTyped'
    BY ShardTypedLemma DEF BaseInv, TypeInv, TypeOK, ShardTyped
  <2>2. UNCHANGED client
    BY <1>1 DEF HandlePrepareTransactionReply
  <2> QED BY <2>1, <2>2, SetupLemma DEF Ready, mode, primary, participants, Mode
<1>3. /\ r \in Replica /\ ReplyTyped(setup, m) /\ m.shard \in participants
      /\ pendingPrepares[r] \in PendingPrepare /\ pendingPrepares[r].present
      /\ m.type = "PrepareTransactionReply" /\ m.to = "primary" /\ m.at = r
  BY <1>1, <1>2, SetupLemma
  DEF HandlePrepareTransactionReply, Ready, MsgsTyped, MsgTyped, ReplyTyped, ShardTyped
<1>4. MsgOK(setup, log, msgs, m) /\ PrimaryOK(setup, log, msgs, pendingPrepares[r], r)
  BY <1>3 DEF Collected
<1> DEFINE old == pendingPrepares[r]
<1>5. CASE m.shard = primary /\ m.replica # r /\ HandleRegionReply(r, m)
  <2> DEFINE regions == [old.regions EXCEPT ![m.replica] = m.state]
  <2>1. \A q \in Replica : regions[q] = "PREPAREOK" => RegionOK(setup, log, msgs, q)
    <3>1. m.state = "PREPAREOK" => RegionOK(setup, log, msgs, m.replica)
      BY <1>2, <1>3, <1>4, <1>5 DEF MsgOK, Ready
    <3>2. \A q \in Replica : \/ q = m.replica /\ regions[q] = m.state
                             \/ regions[q] = old.regions[q]
      BY <1>3 DEF PendingPrepare, ReplyTyped
    <3> HIDE DEF regions
    <3> QED BY <1>3, <1>4, <3>1, <3>2 DEF PrimaryOK
  <2>2. CASE /\ pendingPrepares' = [pendingPrepares EXCEPT ![r].regions = regions]
             /\ UNCHANGED <<msgs, shardVars>>
    <3>1. /\ pendingPrepares'[r] = [old EXCEPT !.regions = regions]
          /\ \A q \in Replica : q # r => pendingPrepares'[q] = pendingPrepares[q]
      BY <1>2, <1>3, <2>2 DEF Ready, ShardTyped
    <3>2. /\ pendingPrepares'[r].client = old.client
          /\ pendingPrepares'[r].participants = old.participants
          /\ pendingPrepares'[r].votes = old.votes
          /\ pendingPrepares'[r].regions = regions
      BY <1>3, <3>1 DEF PendingPrepare
    <3> HIDE DEF regions
    <3>3. PrimaryOK(setup, log, msgs, pendingPrepares'[r], r)
      BY <1>3, <1>4, <2>1, <3>2 DEF PrimaryOK
    <3> QED BY <1>2, <2>2, <3>1, <3>3, CollectStep DEF Ready, shardVars
  <2>3. ASSUME pendingPrepares' = [pendingPrepares EXCEPT ![r] = NoPrepare]
        PROVE  \A q \in Replica : \/ pendingPrepares'[q] = pendingPrepares[q]
                                  \/ PrimaryOK(setup, log', msgs', pendingPrepares'[q], q)
    <3>1. \A q \in Replica : pendingPrepares'[q] = pendingPrepares[q]
                             \/ ~pendingPrepares'[q].present
      BY <1>2, <2>3 DEF Ready, ShardTyped, NoPrepare
    <3> QED BY <3>1 DEF PrimaryOK
  <2>4. CASE /\ pendingPrepares' = [pendingPrepares EXCEPT ![r] = NoPrepare]
             /\ UNCHANGED <<msgs, shardVars>>
    BY <1>2, <2>3, <2>4, CollectStep DEF Ready, shardVars
  <2>5. ASSUME NEW d \in State, RegionsAgree(regions, d), DoCommit(primary, d),
               Send(SentOut(primary, d)),
               pendingPrepares' = [pendingPrepares EXCEPT ![r] = NoPrepare]
        PROVE  Collected'
    <3>1. d = "PREPAREOK" => RecordOK(setup, log, msgs)
      <4> HIDE DEF regions
      <4> SUFFICES ASSUME d = "PREPAREOK" PROVE RecordOK(setup, log, msgs)
        OBVIOUS
      <4>1. Count(regions, {"PREPAREOK"}) >= QuorumSize
        BY <2>5 DEF RegionsAgree
      <4>2. CASE mode = "SLOW"
        BY <1>2, <2>1, <4>1, <4>2, Majority DEF RegionOK, RecordOK, Ready
      <4>3. CASE mode = "RC"
        <5>1. Enough(setup, msgs)
          BY <1>2, <2>1, <4>1, <4>3, Majority DEF RegionOK, Ready
        <5> QED BY <1>2, <4>3, <5>1 DEF RecordOK, Ready
      <4> QED BY <1>2, <4>2, <4>3 DEF Ready
    <3>2. \A s \in participants : \/ committedTxns'[s] = committedTxns[s]
                                  \/ LeaderOK(setup, log', msgs', committedTxns'[s], s)
      BY <1>2, <2>5, <3>1, DecisionOK
    <3>3. \A x \in SentOut(primary, d) : MsgOK(setup, log', msgs', x)
      BY SentKind DEF MsgOK
    <3>4. \A x \in msgs' : x \in msgs \/ MsgOK(setup, log', msgs', x)
      BY <2>5, <3>3 DEF Send
    <3> QED BY <1>2, <2>3, <2>5, <3>2, <3>4, CollectStep DEF Ready
  <2> QED BY <1>5, <2>2, <2>4, <2>5 DEF HandleRegionReply
<1>6. CASE ~(m.shard = primary /\ m.replica # r) /\ HandleParticipantReply(r, m)
  <2> DEFINE req == [old EXCEPT !.votes = @ \cup {m.shard}]
  <2>1. /\ req \in PendingPrepare /\ req.present = old.present /\ req.client = old.client
        /\ req.participants = old.participants /\ req.regions = old.regions
        /\ req.votes = old.votes \cup {m.shard}
    BY <1>3 DEF PendingPrepare
  <2>2. ASSUME m.state = "PREPAREOK"
        PROVE  PrimaryOK(setup, log, msgs, req, r)
    <3>1. VoteOK(setup, log, msgs, m.shard, r)
      BY <1>2, <1>3, <1>4, <1>6, <2>2 DEF MsgOK, Ready
    <3> HIDE DEF req
    <3> QED BY <1>3, <1>4, <2>1, <3>1 DEF PrimaryOK
  <2>3. CASE /\ m.state = "PREPAREOK" /\ ReachFinalDecision(req)
             /\ ReplyFinalDecision(r, req, "PREPAREOK")
    <3> HIDE DEF req
    <3>1. \A p \in participants : VoteOK(setup, log, msgs, p, r)
      BY <1>2, <1>3, <2>1, <2>2, <2>3 DEF PrimaryOK, ReachFinalDecision, Ready
    <3> QED BY <1>2, <1>3, <2>1, <2>2, <2>3, <3>1, FinalOK
  <2>4. CASE /\ m.state = "PREPAREOK"
             /\ pendingPrepares' = [pendingPrepares EXCEPT ![r] = req]
             /\ UNCHANGED <<msgs, shardVars>>
    <3> HIDE DEF req
    <3>1. /\ pendingPrepares'[r] = req
          /\ \A q \in Replica : q # r => pendingPrepares'[q] = pendingPrepares[q]
      BY <1>2, <1>3, <2>4 DEF Ready, ShardTyped
    <3> QED BY <1>2, <2>2, <2>4, <3>1, CollectStep DEF Ready, shardVars
  <2>5. CASE ReplyFinalDecision(r, old, "ABORT")
    BY <1>2, <1>3, <1>4, <2>5, FinalOK
  <2> QED BY <1>6, <2>3, <2>4, <2>5 DEF HandleParticipantReply
<1> QED BY <1>1, <1>5, <1>6 DEF HandlePrepareTransactionReply

CollectBase == BaseInv /\ CollectInv

LEMMA CollectInductive ==
  /\ Init => CollectBase
  /\ CollectBase /\ [Next]_vars => CollectBase'
<1>1. Init => CollectInv
  <2> SUFFICES ASSUME Init, mode # "CAROUSEL" PROVE Collected
    BY DEF CollectInv
  <2>1. /\ \A m \in msgs : MsgOK(setup, log, msgs, m)
        /\ \A r \in Replica : ~pendingPrepares[r].present
        /\ \A s \in participants : committedTxns[s] = "none"
    BY DEF Init, NoPrepare
  <2>2. /\ client.phase = "active" /\ ~client.done
        /\ \A q \in Replica : client.replies[setup.primary][q] = "none"
    BY DEF Init, NewClient, NoReplies, Asked, primary
  <2> QED BY <2>1, <2>2 DEF Collected, PrimaryOK, LeaderOK, ClientOK
<1>2. ASSUME CollectBase, [Next]_vars PROVE CollectBase'
  <2>1. BaseInv /\ BaseInv' /\ Grows
    BY <1>2, BaseInductive DEF CollectBase
  <2>2. ASSUME mode' # "CAROUSEL", ~split' PROVE Collected'
    <3>1. mode # "CAROUSEL" /\ Collected
      BY <1>2, <2>1, <2>2 DEF CollectBase, CollectInv, Grows, mode
    <3>2. CASE UNCHANGED vars
      BY <3>1, <3>2 DEF vars, shardVars, Collected, participants
    <3> QED BY <1>2, <2>1, <2>2, <3>1, <3>2, CollectClient, CollectReplica,
               CollectPrimary DEF Next
  <2> QED BY <2>1, <2>2 DEF CollectBase, CollectInv
<1> QED BY <1>1, <1>2, BaseInductive DEF CollectBase

\* SlowCommitIsDurable for every deployment, whatever is lost, repeated or late:
\* the votes HandlePrepareTransactionReply counts are logged by f + 1 replicas
\* each, also those that answer an earlier attempt or name another replica,
\* unless a piece of the transaction is taken for a whole one.
THEOREM SlowDurable == Spec => []SlowCommitIsDurable
<1>1. CollectBase => SlowCommitIsDurable
  BY DEF CollectBase, CollectInv, Collected, ClientOK, CommitOK, AllDurable, Durable,
     SlowCommitIsDurable, Committed, mode, participants
<1> QED BY <1>1, CollectInductive, PTL DEF Spec

\* RCCommitIsVoted for every deployment: the majority of regions RCCheck and
\* ReachConsensusOnFinalDecision look for is one of regions in which every
\* participant's replica has voted, unless a piece of the transaction is taken
\* for a whole one.
THEOREM RCVoted == Spec => []RCCommitIsVoted
<1>1. CollectBase => RCCommitIsVoted
  BY DEF CollectBase, CollectInv, Collected, ClientOK, CommitOK, Enough, VotedIn,
     RCCommitIsVoted, Committed, mode, participants
<1> QED BY <1>1, CollectInductive, PTL DEF Spec

-----------------------------------------------------------------------------
(***************************************************************************)
(* Mode CAROUSEL: what a PREPAREOK at the client stands for.  Settled is   *)
(* the leader's word; otherwise it is the vote of the replica it names,    *)
(* and a leader that votes has the entry.  Backed is what the client needs.*)
(***************************************************************************)
VotedFor(ms, s) == {r \in Replica : Reply("client", 0, s, r, "PREPAREOK", FALSE) \in ms}
Settled(lg, s) == Durable(lg, s) /\ Leader(s) \in lg[s]
OKFrom(lg, ms, s, r) ==
  Settled(lg, s) \/ (r \in VotedFor(ms, s) /\ (r = Leader(s) => Leader(s) \in lg[s]))
Backed(lg, ms, s) ==
  Leader(s) \in lg[s] /\ Cardinality(lg[s] \cup VotedFor(ms, s)) >= f + 1

WordOK(lg, ms, m) ==
  m.type = "PrepareTransactionReply" /\ m.state = "PREPAREOK" /\ m.to = "client" =>
    OKFrom(lg, ms, m.shard, m.replica) /\ (m.ft => Settled(lg, m.shard))

AskerOK(S, lg, ms, cl) ==
  /\ \A p \in S :
       /\ \A r \in Replica : cl.replies[p][r] = "PREPAREOK" => OKFrom(lg, ms, p, r)
       /\ cl.ft[p] = "PREPAREOK" => Settled(lg, p)
       /\ p \in cl.preparereplies \/ cl.phase = "committed" => Backed(lg, ms, p)
  /\ cl.done /\ cl.reply = "OK" => cl.preparereplies = S

Asking ==
  /\ \A m \in msgs : WordOK(log, msgs, m)
  /\ \A r \in Replica : ~pendingPrepares[r].present
  /\ \A s \in participants : committedTxns[s] # "PREPAREOK"
  /\ AskerOK(participants, log, msgs, client)

AskInv == mode = "CAROUSEL" => Asking

LEMMA BackedMono ==
  ASSUME Grows, ShardTyped', NEW s \in participants
  PROVE  /\ Settled(log, s) => Settled(log', s)
         /\ \A r : OKFrom(log, msgs, s, r) => OKFrom(log', msgs', s, r)
         /\ Backed(log, msgs, s) => Backed(log', msgs', s)
<1>1. log[s] \subseteq log'[s] /\ log'[s] \subseteq Replica
  BY DEF Grows, ShardTyped, participants
<1>2. Settled(log, s) => Settled(log', s)
  BY <1>1, DurableMono DEF Settled
<1>3. VotedFor(msgs, s) \subseteq VotedFor(msgs', s)
  BY DEF Grows, VotedFor
<1>4. \A r : OKFrom(log, msgs, s, r) => OKFrom(log', msgs', s, r)
  BY <1>1, <1>2, <1>3 DEF OKFrom
<1> DEFINE A == log[s] \cup VotedFor(msgs, s)
           B == log'[s] \cup VotedFor(msgs', s)
<1>5. A \subseteq B /\ IsFiniteSet(B)
  BY <1>1, <1>3, FiniteReplicas, FS_Subset DEF VotedFor
<1>6. /\ Cardinality(A) <= Cardinality(B)
      /\ Cardinality(A) \in Nat /\ Cardinality(B) \in Nat
  BY <1>5, FS_Subset, FS_CardinalityType
<1>7. Cardinality(A) >= f + 1 => Cardinality(B) >= f + 1
  <2> HIDE DEF A, B
  <2> QED BY <1>6, ModesAssumption, SMTT(30)
<1> QED BY <1>1, <1>2, <1>4, <1>7 DEF Backed

LEMMA AskerMono ==
  ASSUME Grows, ShardTyped', NEW cl, AskerOK(participants, log, msgs, cl)
  PROVE  AskerOK(participants, log', msgs', cl)
  BY BackedMono DEF AskerOK

LEMMA AskStep ==
  ASSUME Grows, ShardTyped', MsgsTyped, Asking,
         \A m \in msgs' : m \in msgs \/ WordOK(log', msgs', m),
         UNCHANGED pendingPrepares,
         \A s \in participants : \/ committedTxns'[s] = committedTxns[s]
                                 \/ committedTxns'[s] # "PREPAREOK",
         client' = client \/ AskerOK(participants, log', msgs', client')
  PROVE  Asking'
<1>0. participants' = participants
  BY DEF Grows, participants
<1>1. ASSUME NEW m \in msgs' PROVE WordOK(log', msgs', m)
  <2>1. CASE m \in msgs
    <3>1. m.type = "PrepareTransactionReply" => m.shard \in participants
      BY <2>1 DEF MsgsTyped, MsgTyped, ReplyTyped, participants
    <3>2. WordOK(log, msgs, m)
      BY <2>1 DEF Asking
    <3> QED BY <3>1, <3>2, BackedMono DEF WordOK
  <2> QED BY <1>1, <2>1
<1>2. AskerOK(participants, log', msgs', client')
  BY AskerMono DEF Asking
<1> QED BY <1>0, <1>1, <1>2 DEF Asking

\* The two paths of CarouselCheck.
LEMMA SlowPath == \A s \in participants : ShardTyped /\ Settled(log, s) => Backed(log, msgs, s)
<1> SUFFICES ASSUME NEW s \in participants, ShardTyped, Settled(log, s)
             PROVE  Backed(log, msgs, s)
  OBVIOUS
<1> DEFINE B == log[s] \cup VotedFor(msgs, s)
<1>1. log[s] \subseteq B /\ IsFiniteSet(B)
  BY FiniteReplicas, FS_Subset DEF VotedFor, ShardTyped
<1>2. /\ Cardinality(log[s]) <= Cardinality(B)
      /\ Cardinality(log[s]) \in Nat /\ Cardinality(B) \in Nat
  BY <1>1, FS_Subset, FS_CardinalityType
<1>3. Cardinality(B) >= f + 1
  <2> HIDE DEF B
  <2> QED BY <1>2, ModesAssumption, SMTT(30) DEF Settled, Durable
<1> QED BY <1>3 DEF Backed, Settled

LEMMA FastPath ==
  ASSUME n <= FastQuorumSize, NEW s \in participants, setup \in Setup, ShardTyped,
         NEW replies, FastOK(s, replies),
         \A r \in Replica : replies[r] = "PREPAREOK" => OKFrom(log, msgs, s, r)
  PROVE  Backed(log, msgs, s)
<1> DEFINE A == {r \in Replica : replies[r] \in {"PREPAREOK"}}
<1>1. Cardinality(A) >= FastQuorumSize /\ A \subseteq Replica
  BY DEF FastOK, Count
<1> HIDE DEF A
<1>2. /\ IsFiniteSet(A) /\ Cardinality(A) <= n /\ Cardinality(A) \in Nat
      /\ (Cardinality(A) = n => A = Replica)
  BY <1>1, FiniteReplicas, FS_Subset, FS_CardinalityType
<1>3. FastQuorumSize \in Nat /\ FastQuorumSize >= f + 1
  <2>1. (f + 1) \div 2 \in Nat
    BY ModesAssumption, SMTT(30)
  <2> QED BY <2>1, ModesAssumption, SMTT(30) DEF FastQuorumSize
<1>4. A = Replica /\ n >= f + 1
  BY <1>1, <1>2, <1>3, ModesAssumption, SMTT(30)
<1>5. \A r \in Replica : OKFrom(log, msgs, s, r)
  BY <1>4 DEF A
<1>6. CASE Settled(log, s)
  BY <1>6, SlowPath
<1>7. CASE ~Settled(log, s)
  <2>1. Leader(s) \in log[s]
    BY <1>5, <1>7, SetupLemma DEF OKFrom
  <2>2. log[s] \cup VotedFor(msgs, s) = Replica
    BY <1>5, <1>7 DEF OKFrom, VotedFor, ShardTyped
  <2> QED BY <1>4, <2>1, <2>2, FiniteReplicas DEF Backed
<1> QED BY <1>6, <1>7

LEMMA AskClient ==
  ASSUME n <= FastQuorumSize, BaseInv, BaseInv', Grows, mode = "CAROUSEL", Asking,
         ClientNext
  PROVE  Asking'
<1>0. /\ ShardTyped /\ ShardTyped' /\ MsgsTyped /\ setup \in Setup
      /\ client \in ClientState /\ Asked = participants
      /\ participants = setup.participants
  BY ShardTypedLemma DEF BaseInv, TypeInv, TypeOK, ShardTyped, mode, Asked, participants
<1>1. /\ \A m \in msgs' : m \in msgs \/ WordOK(log', msgs', m)
      /\ pendingPrepares' = pendingPrepares /\ committedTxns' = committedTxns
  BY ClientQuiet DEF Send, WordOK, shardVars
<1>2. SUFFICES AskerOK(participants, log, msgs, client')
  BY <1>0, <1>1, AskerMono, AskStep
<1>3. AskerOK(participants, log, msgs, client)
  BY DEF Asking
<1>4. ASSUME NEW cl, cl.replies = [s \in Asked |-> NoReplies],
             cl.ft = [s \in Asked |-> "none"], cl.preparereplies = {}, ~cl.done,
             cl.phase = "committed" => \A p \in participants : Backed(log, msgs, p)
      PROVE  AskerOK(participants, log, msgs, cl)
  BY <1>0, <1>4, SMTT(30) DEF AskerOK, NoReplies
<1>5. CASE Prepare
  <2>1. /\ client'.phase = "preparing" /\ ~client'.done /\ client'.preparereplies = {}
        /\ client'.replies = [s \in Asked |-> NoReplies]
        /\ client'.ft = [s \in Asked |-> "none"]
    BY <1>5 DEF Prepare, NewClient
  <2> QED BY <1>4, <2>1
<1>6. ASSUME NEW phase, NEW st, Finish(phase, st),
             phase = "committed" => \A p \in participants : Backed(log, msgs, p)
      PROVE  AskerOK(participants, log, msgs, client')
  <2>1. /\ client'.phase = phase /\ ~client'.done /\ client'.preparereplies = {}
        /\ client'.replies = [s \in Asked |-> NoReplies]
        /\ client'.ft = [s \in Asked |-> "none"]
    BY <1>6 DEF Finish, NewClient
  <2> QED BY <1>4, <1>6, <2>1
<1>7. CASE FinishCommit \/ FinishAbort
  BY <1>3, <1>6, <1>7 DEF FinishCommit, FinishAbort, MayCommit, AskerOK
<1>8. ASSUME NEW s \in Asked, PrepareTimeout(s)
      PROVE  AskerOK(participants, log, msgs, client')
  <2>1. /\ client'.phase = client.phase /\ client'.reply = "TIMEOUT"
        /\ client'.replies = client.replies /\ client'.ft = client.ft
        /\ client'.preparereplies = client.preparereplies
    BY <1>0, <1>8 DEF PrepareTimeout, ClientState
  <2> QED BY <1>3, <2>1 DEF AskerOK
<1>9. ASSUME NEW m \in msgs, HandlePrepareTxnReply(m)
      PROVE  AskerOK(participants, log, msgs, client')
  <2> DEFINE s == m.shard
             replies == [client.replies[s] EXCEPT ![m.replica] = m.state]
             c2 == [client EXCEPT !.pendingReqs = @ \ {s}]
             state == CarouselCheck(s, replies, client.ft[s])
  <2>1. /\ ReplyTyped(setup, m) /\ s \in participants /\ WordOK(log, msgs, m)
        /\ m.type = "PrepareTransactionReply" /\ m.to = "client"
    BY <1>0, <1>9
    DEF HandlePrepareTxnReply, MsgsTyped, MsgTyped, ClientState, Asking
  <2>2. client' = IF state = "none"
                    THEN [client EXCEPT !.replies[s] = replies,
                                        !.ft[s] = IF m.ft THEN m.state ELSE @]
                  ELSE Replied(c2, s, state)
    BY <1>9 DEF HandlePrepareTxnReply
  <2>3. \A r \in Replica : replies[r] = "PREPAREOK" => OKFrom(log, msgs, s, r)
    <3>1. client.replies[s] \in [Replica -> State \cup {"none"}] /\ m.replica \in Replica
      BY <1>0, <2>1 DEF ClientState, ReplyTyped
    <3>2. \A q \in Replica : \/ q = m.replica /\ replies[q] = m.state
                             \/ replies[q] = client.replies[s][q]
      BY <3>1
    <3> QED BY <1>3, <2>1, <3>2 DEF AskerOK, WordOK
  <2>4. CASE state = "none"
    <3>1. /\ client'.phase = client.phase /\ client'.reply = client.reply
          /\ client'.done = client.done /\ client'.preparereplies = client.preparereplies
          /\ client'.replies = [client.replies EXCEPT ![s] = replies]
          /\ client'.ft = [client.ft EXCEPT ![s] = IF m.ft THEN m.state ELSE @]
      BY <1>0, <2>1, <2>2, <2>4 DEF ClientState
    <3> HIDE DEF replies
    <3>0. DOMAIN client.replies = participants /\ DOMAIN client.ft = participants
      BY <1>0 DEF ClientState
    <3>2. \A p \in participants : \/ p = s /\ client'.replies[p] = replies
                                  \/ client'.replies[p] = client.replies[p]
      BY <3>0, <3>1
    <3>3. \A p \in participants : \/ p = s /\ m.ft /\ client'.ft[p] = m.state
                                  \/ client'.ft[p] = client.ft[p]
      BY <3>0, <3>1
    <3>4. \A p \in participants : client'.ft[p] = "PREPAREOK" => Settled(log, p)
      BY <1>3, <2>1, <3>3 DEF AskerOK, WordOK
    <3>5. \A p \in participants : \A r \in Replica :
            client'.replies[p][r] = "PREPAREOK" => OKFrom(log, msgs, p, r)
      BY <1>3, <2>3, <3>2 DEF AskerOK
    <3> QED BY <1>3, <3>1, <3>4, <3>5 DEF AskerOK
  <2>5. CASE state \notin {"none", "PREPAREOK"}
    <3>1. client' = [c2 EXCEPT !.done = TRUE, !.reply = "FAIL"]
      BY <2>2, <2>5 DEF Replied
    <3>2. /\ client'.phase = client.phase /\ client'.reply = "FAIL"
          /\ client'.replies = client.replies /\ client'.ft = client.ft
          /\ client'.preparereplies = client.preparereplies
      BY <1>0, <3>1 DEF ClientState
    <3> QED BY <1>3, <3>2 DEF AskerOK
  <2>6. CASE state = "PREPAREOK"
    <3>1. Backed(log, msgs, s)
      <4>1. client.ft[s] = "PREPAREOK" \/ FastOK(s, replies)
        BY <2>6 DEF CarouselCheck
      <4>2. CASE client.ft[s] = "PREPAREOK"
        BY <1>0, <1>3, <2>1, <4>2, SlowPath DEF AskerOK
      <4>3. CASE FastOK(s, replies)
        <5> HIDE DEF replies, s
        <5> QED BY <1>0, <2>1, <2>3, <4>3, FastPath
      <4> QED BY <4>1, <4>2, <4>3
    <3>2. client' = [c2 EXCEPT !.preparereplies = client.preparereplies \cup {s},
                       !.done = @ \/ client.preparereplies \cup {s} = participants]
      BY <1>0, <2>2, <2>6 DEF Replied, ClientState
    <3>3. /\ client'.phase = client.phase /\ client'.reply = client.reply
          /\ client'.replies = client.replies /\ client'.ft = client.ft
          /\ client'.preparereplies = client.preparereplies \cup {s}
          /\ client'.done => \/ client.done
                            \/ client.preparereplies \cup {s} = participants
      BY <1>0, <3>2 DEF ClientState
    <3>4. client'.done /\ client'.reply = "OK" => client'.preparereplies = participants
      BY <1>3, <2>1, <3>3 DEF AskerOK
    <3> HIDE DEF s
    <3> QED BY <1>3, <3>1, <3>3, <3>4 DEF AskerOK
  <2> QED BY <2>4, <2>5, <2>6
<1> QED BY <1>5, <1>7, <1>8, <1>9 DEF ClientNext

LEMMA WordsOK ==
  ASSUME NEW lg, NEW ms, NEW s, NEW r
  PROVE  /\ \A x : x.type # "PrepareTransactionReply" => WordOK(lg, ms, x)
         /\ \A a, ft : Settled(lg, s)
                       => WordOK(lg, ms, Reply("client", a, s, r, "PREPAREOK", ft))
         /\ OKFrom(lg, ms, s, r)
              => WordOK(lg, ms, Reply("client", 0, s, r, "PREPAREOK", FALSE))
         /\ \A x, a, st, ft : x # "client" \/ st # "PREPAREOK"
                               => WordOK(lg, ms, Reply(x, a, s, r, st, ft))
<1>1. \A x, a, st, ft : LET m == Reply(x, a, s, r, st, ft)
                       IN  /\ m.to = x /\ m.shard = s /\ m.replica = r
                           /\ m.state = st /\ m.ft = ft
  BY ZenonT(90) DEF Reply
<1>2. ASSUME NEW a, NEW ft, Settled(lg, s)
      PROVE  WordOK(lg, ms, Reply("client", a, s, r, "PREPAREOK", ft))
  BY <1>1, <1>2, ZenonT(90) DEF WordOK, OKFrom
<1>3. ASSUME OKFrom(lg, ms, s, r)
      PROVE  WordOK(lg, ms, Reply("client", 0, s, r, "PREPAREOK", FALSE))
  <2> DEFINE m == Reply("client", 0, s, r, "PREPAREOK", FALSE)
  <2>1. m.ft = FALSE /\ m.shard = s /\ m.replica = r
    BY DEF Reply
  <2> HIDE DEF m
  <2>2. WordOK(lg, ms, m)
    BY <1>3, <2>1 DEF WordOK
  <2> QED BY <2>2 DEF m
<1>4. ASSUME NEW x, NEW a, NEW st, NEW ft, x # "client" \/ st # "PREPAREOK"
      PROVE  WordOK(lg, ms, Reply(x, a, s, r, st, ft))
  BY <1>1, <1>4, SMTT(30) DEF WordOK
<1>5. ASSUME NEW x, x.type # "PrepareTransactionReply" PROVE WordOK(lg, ms, x)
  BY <1>5 DEF WordOK
<1> QED BY <1>2, <1>3, <1>4, <1>5

LEMMA AskReplica ==
  ASSUME BaseInv, BaseInv', Grows, mode = "CAROUSEL", Asking, ReplicaNext
  PROVE  Asking'
<1>0. /\ ShardTyped /\ ShardTyped' /\ MsgsTyped /\ setup \in Setup
      /\ participants' = participants /\ setup' = setup
  BY ShardTypedLemma DEF BaseInv, TypeInv, TypeOK, ShardTyped, Grows, participants
<1>1. PICK s \in participants :
        \/ ResendPrepareOK(s)
        \/ \E state \in State : HandleCommit(s, state)
        \/ \E r \in setup.live :
             \/ HandleReplicateTransaction(s, r)
             \/ HandleReplicateTransactionReply(s, r)
             \/ \E state \in State : HandleReplicateCommit(s, r, state)
             \/ \E m \in msgs : HandlePrepareTxn(s, r, m)
  BY DEF ReplicaNext
<1>2. ASSUME UNCHANGED <<client, pendingPrepares, committedTxns>>, NEW M, Send(M),
             \A x \in M : WordOK(log', msgs', x)
      PROVE  Asking'
  BY <1>0, <1>2, AskStep DEF Send
<1>3. ASSUME NEW e, PendingOK(setup, log', e, s), e.entry = "consensus"
      PROVE  Settled(log', s)
  BY <1>3 DEF PendingOK, Settled
<1>4. PendingOK(setup, log, pendingTxns[s], s) /\ PendingOK(setup, log', pendingTxns'[s], s)
  BY <1>0 DEF BaseInv, LogInv
<1>5. ASSUME Settled(log', s)
      PROVE  \A q, ft : WordOK(log', msgs', LeaderVote(s, q, ft))
  BY <1>5, WordsOK DEF LeaderVote
<1>6. CASE ResendPrepareOK(s)
  <2>1. log' = log /\ UNCHANGED <<client, pendingPrepares, committedTxns>>
    BY <1>6 DEF ResendPrepareOK, shardVars
  <2>2. WordOK(log', msgs', LeaderVote(s, 0, FALSE))
    BY <1>3, <1>4, <1>5, <1>6, <2>1 DEF ResendPrepareOK
  <2> QED BY <1>2, <1>6, <2>1, <2>2 DEF ResendPrepareOK
<1>7. ASSUME NEW state \in State, HandleCommit(s, state)
      PROVE  Asking'
  <2>1. state # "PREPAREOK"
    <3>1. Commit(s, state).type = "Commit" /\ Commit(s, state).state = state
      BY DEF Commit
    <3> QED BY <1>0, <1>7, <3>1 DEF HandleCommit, MsgsTyped, MsgTyped, Failing
  <2>2. \A x \in SentOut(s, state) : WordOK(log', msgs', x)
    BY SentKind DEF WordOK
  <2>3. \A q \in participants : \/ committedTxns'[q] = committedTxns[q]
                                \/ committedTxns'[q] # "PREPAREOK"
    BY <1>0, <1>7, <2>1 DEF HandleCommit, DoCommit, ShardTyped, shardVars
  <2>4. /\ UNCHANGED <<client, pendingPrepares>>
        /\ \A x \in msgs' : x \in msgs \/ x \in SentOut(s, state)
    BY <1>7 DEF HandleCommit, Send
  <2> QED BY <1>0, <2>2, <2>3, <2>4, AskStep
<1>8. ASSUME NEW r \in setup.live, HandleReplicateTransaction(s, r)
      PROVE  Asking'
  <2>1. WordOK(log', msgs', Ack(s, r))
    BY DEF Ack, WordOK
  <2> QED BY <1>2, <1>8, <2>1 DEF HandleReplicateTransaction
<1>9. ASSUME NEW r \in setup.live, HandleReplicateTransactionReply(s, r)
      PROVE  Asking'
  <2>1. CASE UNCHANGED msgs
    <3>1. Send({})
      BY <2>1 DEF Send
    <3> QED BY <1>2, <1>9, <3>1 DEF HandleReplicateTransactionReply
  <2>2. CASE /\ Send({LeaderVote(s, Leader(s), TRUE)})
             /\ \E quorum : pendingTxns' = [pendingTxns EXCEPT ![s] =
                  [entry |-> "consensus", quorum |-> quorum]]
    <3>0. pendingTxns \in [participants -> Pending]
      BY <1>0 DEF ShardTyped
    <3>1. pendingTxns'[s].entry = "consensus"
      BY <2>2, <3>0, SMTT(30)
    <3>2. WordOK(log', msgs', LeaderVote(s, Leader(s), TRUE))
      BY <1>3, <1>4, <1>5, <3>1
    <3> QED BY <1>2, <1>9, <2>2, <3>2 DEF HandleReplicateTransactionReply
  <2> QED BY <1>9, <2>1, <2>2 DEF HandleReplicateTransactionReply
<1>10. ASSUME NEW r \in setup.live, NEW state \in State,
              HandleReplicateCommit(s, r, state)
       PROVE  Asking'
  BY <1>0, <1>10, AskStep DEF HandleReplicateCommit
<1>11. ASSUME NEW r \in setup.live, NEW m \in msgs, HandlePrepareTxn(s, r, m)
       PROVE  Asking'
  <2>1. UNCHANGED client /\ r \in Replica /\ PrepareAsParticipant(s, r, m)
    BY <1>0, <1>11, SetupLemma DEF HandlePrepareTxn, StartsPrepare
  <2>2. UNCHANGED <<pendingPrepares, committedTxns>>
    BY <2>1 DEF PrepareAsParticipant, shardVars
  <2>3. ASSUME NEW x, Send({x}), WordOK(log', msgs', x)
        PROVE  Asking'
    BY <1>2, <2>1, <2>2, <2>3
  <2>4. CASE Send({Vote(m, s, r, 0, committedTxns[s], FALSE)})
    <3>1. committedTxns[s] # "PREPAREOK"
      BY DEF Asking
    <3>2. WordOK(log', msgs', Vote(m, s, r, 0, committedTxns[s], FALSE))
      BY <3>1, WordsOK DEF Vote, ToSender
    <3> QED BY <2>3, <2>4, <3>2
  <2>5. ASSUME pendingTxns[s].entry = "consensus", UNCHANGED shardVars, NEW q, NEW ft,
               Send({Vote(m, s, r, q, "PREPAREOK", ft)})
        PROVE  Asking'
    <3>1. Settled(log', s)
      BY <1>3, <1>4, <2>5 DEF shardVars
    <3>2. \A x, a : WordOK(log', msgs', Reply(x, a, s, q, "PREPAREOK", ft))
      BY <3>1, WordsOK
    <3>3. WordOK(log', msgs', Vote(m, s, r, q, "PREPAREOK", ft))
      BY <3>2 DEF Vote, ToSender
    <3> QED BY <2>3, <2>5, <3>3
  <2>6. ASSUME NEW ft, Send({ToSender(m, s, r, r, "ABORT", ft)})
        PROVE  Asking'
    <3>1. WordOK(log', msgs', ToSender(m, s, r, r, "ABORT", ft))
      BY WordsOK DEF ToSender
    <3> QED BY <2>3, <2>6, <3>1
  <2>7. CASE /\ Send(Accepted(s, r, m))
             /\ IF r = Leader(s) THEN InvokeReplicateTxn(s)
                ELSE UNCHANGED <<pendingTxns, log>>
    <3> DEFINE x == Reply("client", 0, s, r, "PREPAREOK", FALSE)
    <3>1. Accepted(s, r, m) \subseteq {x, Replicate(s)} /\ x \in Accepted(s, r, m)
      BY DEF Accepted
    <3>2. r = Leader(s) => Leader(s) \in log'[s]
      <4>1. CASE pendingTxns[s].entry = "absent"
        BY <1>0, <2>7, <4>1, SMTT(30) DEF InvokeReplicateTxn, ShardTyped
      <4>2. CASE pendingTxns[s].entry # "absent"
        BY <1>4, <2>7, <4>2 DEF InvokeReplicateTxn, PendingOK
      <4> QED BY <4>1, <4>2
    <3>3. r \in VotedFor(msgs', s)
      BY <2>1, <2>7, <3>1 DEF Send, VotedFor
    <3>4. WordOK(log', msgs', x)
      BY <3>2, <3>3, WordsOK DEF OKFrom
    <3>5. WordOK(log', msgs', Replicate(s))
      BY DEF Replicate, WordOK
    <3> HIDE DEF x
    <3> QED BY <1>2, <2>1, <2>2, <2>7, <3>1, <3>4, <3>5
  <2> QED BY <2>1, <2>4, <2>5, <2>6, <2>7 DEF PrepareAsParticipant
<1> QED BY <1>1, <1>6, <1>7, <1>8, <1>9, <1>10, <1>11

AskBase == BaseInv /\ AskInv

LEMMA AskInductive ==
  ASSUME n <= FastQuorumSize
  PROVE  /\ Init => AskBase
         /\ AskBase /\ [Next]_vars => AskBase'
<1>1. Init => AskInv
  <2> SUFFICES ASSUME Init, mode = "CAROUSEL" PROVE Asking
    BY DEF AskInv
  <2>1. /\ \A m \in msgs : WordOK(log, msgs, m)
        /\ \A r \in Replica : ~pendingPrepares[r].present
        /\ \A s \in participants : committedTxns[s] # "PREPAREOK"
    BY DEF Init, NoPrepare
  <2>2. /\ client.phase = "active" /\ ~client.done /\ client.preparereplies = {}
        /\ \A p \in participants : /\ client.ft[p] = "none"
                                   /\ \A q \in Replica : client.replies[p][q] = "none"
    BY DEF Init, NewClient, NoReplies, Asked
  <2> QED BY <2>1, <2>2 DEF Asking, AskerOK
<1>2. ASSUME AskBase, [Next]_vars PROVE AskBase'
  <2>1. BaseInv /\ BaseInv' /\ Grows
    BY <1>2, BaseInductive DEF AskBase
  <2>2. ASSUME mode' = "CAROUSEL" PROVE Asking'
    <3>1. mode = "CAROUSEL" /\ Asking
      BY <1>2, <2>1, <2>2 DEF AskBase, AskInv, Grows, mode
    <3>2. CASE UNCHANGED vars
      BY <3>1, <3>2 DEF vars, shardVars, Asking, participants
    <3>3. ~PrimaryNext
      BY <2>1, <3>1, SetupLemma DEF PrimaryNext, HandlePrepareTransactionReply, Asking,
         BaseInv, TypeInv, TypeOK
    <3> QED BY <1>2, <2>1, <3>1, <3>2, <3>3, AskClient, AskReplica DEF Next
  <2> QED BY <2>1, <2>2 DEF AskBase, AskInv
<1> QED BY <1>1, <1>2, BaseInductive DEF AskBase

\* CarouselCommitIsDurable where a fast quorum is all replicas, as it is with
\* f = 1 and n = 3: CarouselCheck lets the client commit only what f + 1 replicas
\* have, the leader among them.
THEOREM CarouselDurable ==
  ASSUME n <= FastQuorumSize
  PROVE  Spec => []CarouselCommitIsDurable
<1>1. AskBase => CarouselCommitIsDurable
  BY DEF AskBase, AskInv, Asking, AskerOK, Backed, VotedFor, CarouselCommitIsDurable,
     Committed
<1>2. /\ Init => AskBase
      /\ AskBase /\ [Next]_vars => AskBase'
  BY AskInductive
<1> QED BY <1>1, <1>2, PTL DEF Spec
=============================================================================
