------------------------ MODULE ParallelLeaderProofs ------------------------
(***************************************************************************)
(* Optimistic validation at a leader in mode PARALLEL, proved for any      *)
(* number of transactions and keys.                                        *)
(***************************************************************************)
EXTENDS ParallelLeader, FiniteSetTheorems, WellFoundedInduction, TLAPS

\* Most leaves are first-order; the ones that need arithmetic or records say SMT.
USE ZenonT(30)

(***************************************************************************)
(* The inductive invariant.  A transaction checks its reads only against   *)
(* stored keys, so what was read must be stored; and it must read nothing  *)
(* more once it is prepared, or the check would be void.                   *)
(***************************************************************************)
Shape == /\ rset = [t \in Txn |-> [k \in Key |-> rset[t][k]]]
         /\ client = [t \in Txn |-> client[t]]
         /\ prepared \subseteq Txn

ReadIsStored == \A t \in Txn, k \in Key : rset[t][k] # -1 => kv[k] # {}

\* What a follower answers from is stored at the leader too.
LoadedIsStored == \A k \in Loaded : kv[k] # {}

PreparedHasRead == \A t \in prepared : client[t] # "reading"

ValInv == /\ Shape /\ ReadIsStored /\ LoadedIsStored /\ PreparedHasRead
          /\ PreparedConflictFree

-----------------------------------------------------------------------------
\* A version list never becomes empty by a write.
LEMMA PutLemma ==
  ASSUME NEW vs, NEW val, NEW ts, vs # {}
  PROVE  put(vs, val, ts) # {}
BY DEF put

\* A step that reads nothing, empties no key and prepares nobody keeps the
\* invariant.
LEMMA FrameLemma ==
  ASSUME ValInv, UNCHANGED rset, prepared' \subseteq prepared,
         \A k \in Key : kv[k] # {} => kv'[k] # {},
         client' = [t \in Txn |-> client'[t]],
         \A t \in Txn : client[t] # "reading" => client'[t] # "reading"
  PROVE  ValInv'
<1>1. LoadedIsStored'
  BY StoreAssumption DEF ValInv, LoadedIsStored
<1>2. Shape' /\ ReadIsStored' /\ PreparedHasRead'
  BY DEF ValInv, Shape, ReadIsStored, PreparedHasRead
<1>3. PreparedConflictFree'
  BY DEF ValInv, PreparedConflictFree, ReadKeys
<1> QED BY <1>1, <1>2, <1>3 DEF ValInv

\* What the operations of the store do to the keys and the validation set.
LEMMA StoreLemma ==
  /\ UNCHANGED storeVars => UNCHANGED <<kv, prepared>>
  /\ \A t \in Txn : StorePreCommit(t) => UNCHANGED kv /\ prepared' \subseteq prepared
  /\ \A T, A \in SUBSET Txn :
       StoreAbort(T, A) => UNCHANGED kv /\ prepared' \subseteq prepared
  /\ \A t \in Txn : \A ts : StoreCommit(t, ts)
       => /\ prepared' \subseteq prepared
          /\ \A k \in Key : kv[k] # {} => kv'[k] # {}
<1>1. \A t \in Txn : \A ts : StoreCommit(t, ts)
        => /\ prepared' \subseteq prepared
           /\ \A k \in Key : kv[k] # {} => kv'[k] # {}
  BY PutLemma, SMTT(30) DEF StoreCommit
<1> QED BY <1>1 DEF storeVars, StorePreCommit, StoreAbort

\* DoCommit commits, aborts with a cascade, or does nothing.
LEMMA DoCommitLemma ==
  ASSUME NEW t \in Txn, NEW state, DoCommit(t, state)
  PROVE  /\ prepared' \subseteq prepared
         /\ \A k \in Key : kv[k] # {} => kv'[k] # {}
<1>1. CASE UNCHANGED storeVars
  BY <1>1, StoreLemma
<1>2. CASE StoreCommit(t, CommitTimestamp)
  BY <1>2, StoreLemma
<1>3. CASE CascadeAbort(t)
  BY <1>3 DEF CascadeAbort, StoreAbort
<1> QED BY <1>1, <1>2, <1>3 DEF DoCommit

-----------------------------------------------------------------------------
\* An answer that the client takes: its transaction is not prepared.
LEMMA ReadLemma ==
  ASSUME ValInv, NEW t \in Txn, NEW k \in Key, NEW ts, NEW v,
         ReplyTaken(t, k, ts, v), kv[k] # {}, UNCHANGED <<kv, prepared, client>>
  PROVE  ValInv'
<1>1. /\ rset' = [rset EXCEPT ![t] = [rset[t] EXCEPT ![k] = ts]]
      /\ kv[k] # {} /\ client[t] = "reading"
      /\ UNCHANGED <<kv, prepared, client>>
  BY DEF ReplyTaken
<1>2. \A u \in Txn : u # t => rset'[u] = rset[u]
  BY <1>1 DEF ValInv, Shape
<1>3. \A j \in Key : j # k => rset'[t][j] = rset[t][j]
  BY <1>1 DEF ValInv, Shape
<1>4. Shape' /\ ReadIsStored' /\ LoadedIsStored'
  <2>1. Shape' /\ LoadedIsStored'
    BY <1>1 DEF ValInv, Shape, LoadedIsStored
  <2>2. ReadIsStored'
    <3> SUFFICES ASSUME NEW u \in Txn, NEW j \in Key, rset'[u][j] # -1
                 PROVE  kv'[j] # {}
      BY DEF ReadIsStored
    <3>1. CASE u = t /\ j = k
      BY <1>1, <3>1
    <3>2. CASE ~(u = t /\ j = k)
      BY <1>1, <1>2, <1>3, <3>2 DEF ValInv, ReadIsStored
    <3> QED BY <3>1, <3>2
  <2> QED BY <2>1, <2>2
<1>5. PreparedHasRead' /\ t \notin prepared /\ prepared \subseteq Txn
  BY <1>1 DEF ValInv, Shape, PreparedHasRead
<1>6. \A u \in prepared : ReadKeys(u)' = ReadKeys(u)
  BY <1>2, <1>5 DEF ReadKeys
<1>7. PreparedConflictFree'
  BY <1>1, <1>6 DEF ValInv, PreparedConflictFree
<1> QED BY <1>4, <1>5, <1>7 DEF ValInv

\* Preparing: the check against the validation set.
LEMMA ValidateLemma ==
  ASSUME ValInv, NEW t \in Txn, client[t] # "reading",
         PrepareOK(t), StorePrepare(t), UNCHANGED <<rset, client>>
  PROVE  ValInv'
<1>1. prepared' = prepared \cup {t} /\ UNCHANGED kv
  BY DEF StorePrepare
<1>2. Shape' /\ ReadIsStored' /\ LoadedIsStored' /\ PreparedHasRead'
  BY <1>1 DEF ValInv, Shape, ReadIsStored, LoadedIsStored, PreparedHasRead
<1>3. CASE t \in prepared
  <2>1. prepared' = prepared
    BY <1>1, <1>3
  <2> QED BY <1>2, <2>1, SMTT(30) DEF ValInv, PreparedConflictFree, ReadKeys
<1>4. CASE t \notin prepared
  <2>1. OCCCheck(t)
    BY <1>4 DEF PrepareOK
  <2>2. ASSUME NEW u \in prepared
        PROVE  /\ writeSet[t] \cap (ReadKeys(u) \cup writeSet[u]) = {}
               /\ writeSet[u] \cap ReadKeys(t) = {}
    <3>1. writeSet[t] \cap (ReadKeys(u) \cup writeSet[u]) = {}
      BY <2>1, <2>2, SMTT(30) DEF OCCCheck, getPreparedReadWrites
    <3>2. \A k \in ReadKeys(t) : k \notin getPreparedWrites
      BY <2>1 DEF OCCCheck, inStore, ReadKeys, ValInv, ReadIsStored
    <3>3. writeSet[u] \subseteq getPreparedWrites
      BY <2>2 DEF getPreparedWrites
    <3> QED BY <3>1, <3>2, <3>3
  <2>3. \A u \in Txn : ReadKeys(u)' = ReadKeys(u)
    BY DEF ReadKeys
  <2>4. PreparedConflictFree'
    <3> SUFFICES ASSUME NEW v \in prepared', NEW u \in prepared', v # u
                 PROVE  writeSet[v] \cap (ReadKeys(u)' \cup writeSet[u]) = {}
      BY DEF PreparedConflictFree
    <3>1. u \in Txn /\ v \in Txn
      BY <1>1 DEF ValInv, Shape
    <3>2. CASE u # t /\ v # t
      BY <1>1, <2>3, <3>1, <3>2 DEF ValInv, PreparedConflictFree
    <3>3. CASE v = t
      BY <1>1, <2>2, <2>3, <3>1, <3>3
    <3>4. CASE u = t
      <4>1. writeSet[t] \cap (ReadKeys(v) \cup writeSet[v]) = {}
            /\ writeSet[v] \cap ReadKeys(t) = {}
        BY <1>1, <2>2, <3>4
      <4> QED BY <2>3, <3>1, <3>4, <4>1
    <3> QED BY <3>2, <3>3, <3>4
  <2> QED BY <1>2, <2>4 DEF ValInv
<1> QED BY <1>3, <1>4

-----------------------------------------------------------------------------
\* Initially nothing is read or prepared.
LEMMA ValInitLemma == Init => ValInv
<1> SUFFICES ASSUME Init PROVE ValInv
  OBVIOUS
<1>1. LoadedIsStored
  BY StoreAssumption DEF Init, StoreInit, LoadedIsStored, put
<1>2. Shape /\ ReadIsStored /\ PreparedHasRead /\ PreparedConflictFree
  BY SMTT(30) DEF Init, StoreInit, Shape, ReadIsStored, PreparedHasRead,
     PreparedConflictFree
<1> QED BY <1>1, <1>2 DEF ValInv

\* Every step keeps the invariant.
LEMMA ValNextLemma == ValInv /\ [Next]_vars => ValInv'
<1> SUFFICES ASSUME ValInv, [Next]_vars PROVE ValInv'
  OBVIOUS
<1>0. client = [t \in Txn |-> client[t]]
  BY DEF ValInv, Shape
<1>1. CASE UNCHANGED vars
  BY <1>0, <1>1, FrameLemma DEF vars, storeVars, clientVars, readVars
<1>2. ASSUME NEW t \in Txn, NEW k \in Key,
             HandleRead(t, k) \/ HandleReadAtFollower(t, k)
      PROVE  ValInv'
  <2>1. UNCHANGED <<kv, prepared, client>>
    BY <1>2 DEF HandleRead, HandleReadAtFollower, storeVars
  <2>2. kv[k] # {}
    BY <1>2 DEF HandleRead, HandleReadAtFollower, inStore, ValInv, LoadedIsStored
  <2>3. (\E ts, v : ReplyTaken(t, k, ts, v)) \/ UNCHANGED rset
    BY <1>2 DEF HandleRead, HandleReadAtFollower, Answered, ReplyNotTaken
  <2>4. CASE UNCHANGED rset
    BY <1>0, <2>1, <2>4, FrameLemma
  <2> QED BY <2>1, <2>2, <2>3, <2>4, ReadLemma
<1>3. ASSUME NEW t \in Txn, HandlePrepareTxn(t) PROVE ValInv'
  <2>1. client[t] # "reading" /\ UNCHANGED <<rset, client>>
    BY <1>3 DEF HandlePrepareTxn, readVars
  <2>2. CASE UNCHANGED storeVars
    BY <1>0, <2>1, <2>2, FrameLemma DEF storeVars
  <2>3. CASE StoreAbort({t}, {})
    BY <1>0, <2>1, <2>3, FrameLemma DEF StoreAbort
  <2>4. CASE PrepareOK(t) /\ StorePrepare(t)
    BY <2>1, <2>4, ValidateLemma
  <2> QED BY <1>3, <2>2, <2>3, <2>4 DEF HandlePrepareTxn
<1>4. ASSUME NEW t \in Txn, HandleConsensus(t) PROVE ValInv'
  BY <1>0, <1>4, FrameLemma DEF HandleConsensus, storeVars, clientVars, readVars
<1>5. ASSUME NEW t \in Txn, HandleCommit(t) PROVE ValInv'
  <2>1. PICK state : DoCommit(t, state)
    BY <1>5 DEF HandleCommit
  <2>2. UNCHANGED <<rset, client>>
    BY <1>5 DEF HandleCommit, clientVars, readVars
  <2> QED BY <1>0, <2>1, <2>2, DoCommitLemma, FrameLemma
<1>6. ASSUME NEW t \in Txn, HandleDecisionFromCoordinatorReplica(t)
      PROVE  ValInv'
  <2>1. UNCHANGED <<rset, client>> /\ (UNCHANGED storeVars \/ StorePreCommit(t))
    BY <1>6 DEF HandleDecisionFromCoordinatorReplica, clientVars, readVars
  <2> QED BY <1>0, <2>1, StoreLemma, FrameLemma
<1>7. ASSUME NEW t \in Txn, HandleReplicateResultFromCoordinatorReplica(t)
      PROVE  ValInv'
  <2>1. /\ DoCommit(t, "COMMIT") /\ UNCHANGED rset
        /\ client' = [client EXCEPT ![t] =
             IF IsPending(t) /\ client[t] = "preparing" THEN "committed"
             ELSE client[t]]
    BY <1>0, <1>7 DEF HandleReplicateResultFromCoordinatorReplica, readVars
  <2>2. /\ client' = [u \in Txn |-> client'[u]]
        /\ \A u \in Txn : client[u] # "reading" => client'[u] # "reading"
    BY <1>0, <2>1
  <2> QED BY <2>1, <2>2, DoCommitLemma, FrameLemma
<1>8. ASSUME NEW t \in Txn, NEW phase, phase # "reading", SetClient(t, phase)
      PROVE  ValInv'
  <2>1. /\ client' = [u \in Txn |-> client'[u]]
        /\ \A u \in Txn : client[u] # "reading" => client'[u] # "reading"
    BY <1>0, <1>8 DEF SetClient
  <2> QED BY <1>8, <2>1, FrameLemma DEF SetClient, storeVars, readVars
<1>9. ASSUME NEW t \in Txn, NEW v, SetVote(t, v) PROVE ValInv'
  BY <1>0, <1>9, FrameLemma DEF SetVote, storeVars, clientVars, readVars
<1>10. ASSUME NEW t \in Txn,
              ClientPrepares(t) \/ ClientCommits(t) \/ ClientAborts(t)
       PROVE  ValInv'
  BY <1>8, <1>10 DEF ClientPrepares, ClientCommits, ClientAborts
<1>11. ASSUME NEW t \in Txn, CoordinatorVote(t) \/ CoordinatorCleared(t)
       PROVE  ValInv'
  BY <1>9, <1>11 DEF CoordinatorVote, CoordinatorCleared
<1> QED BY <1>1, <1>2, <1>3, <1>4, <1>5, <1>6, <1>7, <1>10, <1>11 DEF Next

(***************************************************************************)
(* Validation works for every set of transactions and keys: two            *)
(* transactions that conflict are never prepared together, although        *)
(* pre-commit takes transactions out of the validation set early, prepares *)
(* are repeated, and aborts cascade.                                       *)
(***************************************************************************)
THEOREM ValidationIsolates == Spec => []PreparedConflictFree
<1>1. ValInv => PreparedConflictFree
  BY DEF ValInv
<1> QED BY <1>1, ValInitLemma, ValNextLemma, PTL DEF Spec

-----------------------------------------------------------------------------
(***************************************************************************)
(* Type correctness.                                                       *)
(***************************************************************************)
Phase == {"reading", "preparing", "committed", "aborted"}

\* Every version carries timestamp 0, so that a version list has a newest one.
Typed ==
  /\ TypeOK
  /\ \A k \in Key : \A v \in kv[k] : v.write = 0
  /\ client \in [Txn -> Phase]
  /\ prepares \in [Txn -> Nat]
  /\ votes \in [Txn -> {"none", "blocked", "clear"}]
  /\ seen \in [Txn -> [Key -> Txn \cup {Loader, Nothing}]]
  /\ notified \subseteq Txn /\ announced \subseteq Txn

\* A set of natural numbers has a least element: induction, without a predicate
\* as a parameter.
LEMMA Least ==
  ASSUME NEW T, T \subseteq Nat, T # {}
  PROVE  \E x \in T : \A y \in T : x <= y
<1>1. PICK x \in T : \A y \in T : ~(<<y, x>> \in OpToRel(<, Nat))
  BY WFMin, NatLessThanWellFounded
<1>2. \A y \in T : ~(<<y, x>> \in {ss \in Nat \X Nat : ss[1] < ss[2]})
  BY <1>1 DEF OpToRel
<1>3. \A y \in T : ~(y < x)
  BY <1>2
<1> QED BY <1>3, SMTT(30)

\* What commit(key, tid) leaves of a pre-commit list: entries of the list, none
\* of them tid.
LEMMA DropLemma ==
  ASSUME NEW S, NEW l \in Seq(S), NEW t
  PROVE  /\ dropPreCommit(l, t) \in Seq(S)
         /\ \A i \in DOMAIN dropPreCommit(l, t) :
              dropPreCommit(l, t)[i] # t /\ \E j \in DOMAIN l : l[j] = dropPreCommit(l, t)[i]
<1> DEFINE step(g, i) == IF i = 0 THEN <<>>
                         ELSE IF l[i] = t THEN g[i - 1] ELSE Append(g[i - 1], l[i])
           upto(g, m) == g = [i \in 0..m |-> step(g, i)]
           exists(m) == \E g : upto(g, m)
           rest == CHOOSE g : upto(g, Len(l))
<1>0. Len(l) \in Nat
  BY SMTT(30)
<1>1. dropPreCommit(l, t) = rest[Len(l)]
  BY DEF dropPreCommit
<1>2. \A m \in 0..Len(l) : exists(m)
  <2> HIDE DEF exists
  <2> SUFFICES ASSUME NEW m0 \in 0..Len(l), ~exists(m0) PROVE FALSE
    OBVIOUS
  <2> DEFINE T == {m \in 0..Len(l) : ~exists(m)}
  <2>1. T \subseteq Nat /\ T # {}
    <3>1. T \subseteq 0..Len(l)
      OBVIOUS
    <3>2. m0 \in T
      OBVIOUS
    <3> HIDE DEF T
    <3> QED BY <1>0, <3>1, <3>2, SMTT(30)
  <2> HIDE DEF T
  <2>2. PICK x \in T : \A y \in T : x <= y
    BY <2>1, Least
  <2>3. x \in 0..Len(l) /\ ~exists(x)
    BY DEF T
  <2>4. CASE x = 0
    <3> DEFINE g == [i \in 0..0 |-> <<>>]
    <3>1. upto(g, 0)
      BY SMTT(30)
    <3> QED BY <2>3, <2>4, <3>1 DEF exists
  <2>5. CASE x # 0
    <3>1. x - 1 \in 0..Len(l) /\ x - 1 \notin T
      BY <1>0, <2>2, <2>3, <2>5, SMTT(30)
    <3>2. PICK g : upto(g, x - 1)
      BY <3>1 DEF T, exists
    <3> DEFINE h == [i \in 0..x |-> IF i = x THEN step(g, x) ELSE g[i]]
    <3>3. \A i \in 0..x : h[i] = step(h, i)
      <4> SUFFICES ASSUME NEW i \in 0..x PROVE h[i] = step(h, i)
        OBVIOUS
      <4>1. CASE i = x
        <5>1. h[x - 1] = g[x - 1]
          BY <2>3, <2>5, SMTT(30)
        <5> QED BY <2>3, <2>5, <4>1, <5>1
      <4>2. CASE i # x
        <5>1. i \in 0..(x - 1) /\ h[i] = g[i]
          BY <2>3, <4>2, SMTT(30)
        <5>2. g[i] = step(g, i)
          BY <3>2, <5>1
        <5>3. i # 0 => h[i - 1] = g[i - 1]
          BY <2>3, <5>1, SMTT(30)
        <5> QED BY <5>1, <5>2, <5>3
      <4> QED BY <4>1, <4>2
    <3>4. upto(h, x)
      BY <3>3
    <3> QED BY <2>3, <3>4 DEF exists
  <2> QED BY <2>4, <2>5
<1>3. upto(rest, Len(l))
  <2> HIDE DEF upto
  <2>1. \E g : upto(g, Len(l))
    BY <1>0, <1>2, SMTT(30)
  <2> QED BY <2>1
<1> HIDE DEF rest
<1>4. \A i \in 0..Len(l) : rest[i] = step(rest, i)
  BY <1>3
<1> DEFINE good(q) == /\ q \in Seq(S)
                      /\ \A i \in 1..Len(q) : q[i] # t /\ \E j \in DOMAIN l : l[j] = q[i]
<1>5. \A m \in 0..Len(l) : good(rest[m])
  <2> SUFFICES ASSUME NEW m0 \in 0..Len(l), ~good(rest[m0]) PROVE FALSE
    OBVIOUS
  <2> DEFINE T == {m \in 0..Len(l) : ~good(rest[m])}
  <2>1. T \subseteq Nat /\ T # {}
    BY <1>0, SMTT(30)
  <2> HIDE DEF T
  <2>2. PICK x \in T : \A y \in T : x <= y
    BY <2>1, Least
  <2>3. x \in 0..Len(l) /\ ~good(rest[x])
    BY DEF T
  <2>4. CASE x = 0
    <3>1. rest[x] = <<>>
      BY <1>4, <2>3, <2>4
    <3>2. good(<<>>)
      BY SMTT(30)
    <3> QED BY <2>3, <3>1, <3>2
  <2>5. CASE x # 0
    <3>1. x - 1 \in 0..Len(l) /\ x - 1 \notin T /\ x \in DOMAIN l
      BY <1>0, <2>2, <2>3, <2>5, SMTT(30)
    <3>2. good(rest[x - 1])
      BY <3>1 DEF T
    <3>3. CASE l[x] = t
      <4>1. rest[x] = rest[x - 1]
        BY <1>4, <2>3, <2>5, <3>3
      <4> QED BY <2>3, <3>2, <4>1
    <3>4. CASE l[x] # t
      <4>1. rest[x] = Append(rest[x - 1], l[x])
        BY <1>4, <2>3, <2>5, <3>4
      <4>2. good(Append(rest[x - 1], l[x]))
        BY <3>1, <3>2, <3>4, SMTT(30)
      <4> QED BY <2>3, <4>1, <4>2
    <3> QED BY <3>3, <3>4
  <2> QED BY <2>4, <2>5
<1> QED BY <1>0, <1>1, <1>5, SMTT(30)

\* What a read returns.
LEMMA GetLemma ==
  ASSUME Typed, NEW k \in Key, kv[k] # {}
  PROVE  /\ Get(k).timestamp \in Nat
         /\ Get(k).dependency \in Txn \cup {Loader}
         /\ Get(k).value \in Txn \cup {Loader, Nothing}
         /\ Get(k).dependency = Loader => \E v \in kv[k] : Get(k).value = v.value
         /\ Get(k).dependency # Loader =>
              /\ Get(k).value = Nothing
              /\ \E i \in DOMAIN precommits[k] : precommits[k][i] = Get(k).dependency
<1>1. kv[k] \subseteq Version(Txn \cup {Loader}) /\ precommits[k] \in Seq(Txn)
  BY DEF Typed, TypeOK, StoreTypeOK
<1>2. newest(kv[k]) \in kv[k]
  <2>1. PICK v \in kv[k] : TRUE
    OBVIOUS
  <2>2. \A u \in kv[k] : u.write =< v.write
    BY SMTT(30) DEF Typed
  <2> QED BY <2>2 DEF newest
<1>3. CASE precommits[k] = <<>>
  <2>1. /\ Get(k).dependency = Loader /\ Get(k).timestamp = newest(kv[k]).write
        /\ Get(k).value = newest(kv[k]).value
    BY <1>3 DEF Get
  <2>2. newest(kv[k]).write \in Nat /\ newest(kv[k]).value \in Txn \cup {Loader}
    BY <1>1, <1>2 DEF Version
  <2> QED BY <1>2, <2>1, <2>2
<1>4. CASE precommits[k] # <<>>
  <2>1. /\ Get(k).dependency = precommits[k][Len(precommits[k])]
        /\ Get(k).timestamp = 0 /\ Get(k).value = Nothing
    BY <1>4 DEF Get
  <2>2. Len(precommits[k]) \in DOMAIN precommits[k]
    BY <1>1, <1>4, SMTT(30)
  <2>3. Get(k).dependency \in Txn
    BY <1>1, <2>1, <2>2, SMTT(30)
  <2> QED BY <2>1, <2>2, <2>3, StoreAssumption, SMTT(30)
<1> QED BY <1>3, <1>4

\* The list of a writer's readers is finite.
LEMMA ListedLemma ==
  ASSUME activeTxns \in [Txn -> Active], NEW d \in Txn, NEW t
  PROVE  IsFiniteSet(Listed(d, t)) /\ Times(d, t) \in Nat
<1>1. activeTxns[d].out \in Seq(Txn)
  BY DEF Active
<1>2. Listed(d, t) \subseteq 1..Len(activeTxns[d].out) /\ Len(activeTxns[d].out) \in Nat
  BY <1>1, SMTT(30) DEF Listed
<1>3. IsFiniteSet(Listed(d, t))
  <2>1. IsFiniteSet(1..Len(activeTxns[d].out))
    BY <1>2, FS_Interval, SMTT(30)
  <2> QED BY <1>2, <2>1, FS_Subset
<1> QED BY <1>3, FS_CardinalityType DEF Times

-----------------------------------------------------------------------------
\* Reading.
LEMMA AnswerTyped ==
  ASSUME Typed, NEW t \in Txn, NEW k \in Key, NEW ts \in Nat,
         NEW v \in Txn \cup {Loader, Nothing}, Answered(t, k, ts, v)
  PROVE  /\ rset' \in [Txn -> [Key -> Nat \cup {-1}]]
         /\ seen' \in [Txn -> [Key -> Txn \cup {Loader, Nothing}]]
<1>1. \/ UNCHANGED <<rset, seen>>
      \/ /\ rset' = [rset EXCEPT ![t] = [rset[t] EXCEPT ![k] = ts]]
         /\ seen' = [seen EXCEPT ![t] = [seen[t] EXCEPT ![k] = v]]
  BY DEF Answered, ReplyTaken, ReplyNotTaken
<1>2. /\ rset \in [Txn -> [Key -> Nat \cup {-1}]]
      /\ seen \in [Txn -> [Key -> Txn \cup {Loader, Nothing}]]
  BY DEF Typed, TypeOK, StoreTypeOK
<1>3. rset' \in [Txn -> [Key -> Nat \cup {-1}]]
  <2>1. [rset[t] EXCEPT ![k] = ts] \in [Key -> Nat \cup {-1}]
    BY <1>2
  <2>2. CASE rset' = [rset EXCEPT ![t] = [rset[t] EXCEPT ![k] = ts]]
    BY <1>2, <2>1, <2>2
  <2>3. CASE UNCHANGED rset
    BY <1>2, <2>3
  <2> QED BY <1>1, <2>2, <2>3
<1>4. seen' \in [Txn -> [Key -> Txn \cup {Loader, Nothing}]]
  BY <1>1, <1>2, SMTT(30)
<1> QED BY <1>3, <1>4

LEMMA FollowerTyped ==
  ASSUME Typed, NEW t \in Txn, NEW k \in Key, HandleReadAtFollower(t, k)
  PROVE  Typed'
<1>1. ReplyTaken(t, k, 0, Loader)
      /\ UNCHANGED <<storeVars, leaderVars, client, prepares, coordVars>>
  BY DEF HandleReadAtFollower
<1>2. /\ rset' \in [Txn -> [Key -> Nat \cup {-1}]]
      /\ seen' \in [Txn -> [Key -> Txn \cup {Loader, Nothing}]]
  BY <1>1, AnswerTyped, SMTT(30) DEF Answered
<1> QED BY <1>1, <1>2
        DEF Typed, TypeOK, StoreTypeOK, storeVars, leaderVars, coordVars

LEMMA ReadTyped ==
  ASSUME Typed, NEW t \in Txn, NEW k \in Key, HandleRead(t, k)
  PROVE  Typed'
<1> DEFINE g == Get(k)
           d == g.dependency
<1>1. /\ g.timestamp \in Nat /\ d \in Txn \cup {Loader}
      /\ g.value \in Txn \cup {Loader, Nothing}
  BY GetLemma DEF HandleRead, inStore
<1>2. UNCHANGED <<storeVars, pendingTxns, committedTxns, client, prepares, coordVars>>
  BY DEF HandleRead
<1>3. /\ \/ UNCHANGED activeTxns
         \/ d \in Txn /\ activeTxns' = [activeTxns EXCEPT ![d].out = Append(@, t)]
         \/ d \in Txn /\ activeTxns' = [activeTxns EXCEPT ![d].entry = "null"]
      /\ UNCHANGED inDependency \/ inDependency' = [inDependency EXCEPT ![t] = @ + 1]
      /\ \E v \in Txn \cup {Loader, Nothing} : Answered(t, k, g.timestamp, v)
  BY <1>1 DEF HandleRead, CountDependency
<1> HIDE DEF g, d
<1>4. activeTxns' \in [Txn -> Active]
  <2>1. activeTxns \in [Txn -> Active]
    BY DEF Typed, TypeOK
  <2>2. ASSUME d \in Txn, activeTxns' = [activeTxns EXCEPT ![d].out = Append(@, t)]
        PROVE  activeTxns' \in [Txn -> Active]
    <3>1. activeTxns[d] \in Active /\ Append(activeTxns[d].out, t) \in Seq(Txn)
      BY <2>1, <2>2, SMTT(30) DEF Active
    <3>2. [activeTxns[d] EXCEPT !.out = Append(@, t)] \in Active
      BY <3>1 DEF Active
    <3> QED BY <2>1, <2>2, <3>2
  <2>3. ASSUME d \in Txn, activeTxns' = [activeTxns EXCEPT ![d].entry = "null"]
        PROVE  activeTxns' \in [Txn -> Active]
    <3>1. [activeTxns[d] EXCEPT !.entry = "null"] \in Active
      BY <2>1, <2>3 DEF Active
    <3> QED BY <2>1, <2>3, <3>1
  <2> QED BY <1>3, <2>1, <2>2, <2>3
<1>5. inDependency' \in [Txn -> Int]
  BY <1>3, SMTT(30) DEF Typed, TypeOK
<1>6. /\ seen' \in [Txn -> [Key -> Txn \cup {Loader, Nothing}]]
      /\ rset' \in [Txn -> [Key -> Nat \cup {-1}]]
  BY <1>1, <1>3, AnswerTyped
<1> QED BY <1>2, <1>4, <1>5, <1>6
        DEF Typed, TypeOK, StoreTypeOK, storeVars, coordVars

\* What the operations of the store do to its types.
StoreTyped ==
  /\ StoreTypeOK
  /\ \A k \in Key : \A v \in kv[k] : v.write = 0

LEMMA StoreOpsTyped ==
  ASSUME StoreTyped, UNCHANGED rset, NEW t \in Txn
  PROVE  /\ UNCHANGED storeVars => StoreTyped'
         /\ StorePrepare(t) => StoreTyped'
         /\ StorePreCommit(t) => StoreTyped'
         /\ StoreCommit(t, CommitTimestamp) => StoreTyped'
         /\ \A T, A : StoreAbort(T, A) => StoreTyped'
<1>1. UNCHANGED storeVars => StoreTyped'
  BY DEF storeVars, StoreTyped, StoreTypeOK
<1>2. StorePrepare(t) => StoreTyped'
  BY DEF StorePrepare, StoreTyped, StoreTypeOK
<1>3. ASSUME StorePreCommit(t) PROVE StoreTyped'
  <2>1. \A k \in Key : precommits[k] \in Seq(Txn) /\ preCommit(precommits[k], t) \in Seq(Txn)
    BY SMTT(30) DEF StoreTyped, StoreTypeOK, preCommit
  <2>2. precommits' \in [Key -> Seq(Txn)]
    BY <1>3, <2>1 DEF StorePreCommit
  <2> QED BY <1>3, <2>2 DEF StorePreCommit, StoreTyped, StoreTypeOK
<1>4. ASSUME StoreCommit(t, CommitTimestamp) PROVE StoreTyped'
  <2>1. \A k \in Key : kv'[k] = kv[k] \/ kv'[k] = put(kv[k], t, 0)
    BY <1>4 DEF StoreCommit, CommitTimestamp
  <2>2. ASSUME NEW k \in Key
        PROVE  /\ put(kv[k], t, 0) \subseteq Version(Txn \cup {Loader})
               /\ \A v \in put(kv[k], t, 0) : v.write = 0
    <3>1. [write |-> 0, value |-> t] \in Version(Txn \cup {Loader})
      BY DEF Version
    <3>2. kv[k] \subseteq Version(Txn \cup {Loader})
      BY DEF StoreTyped, StoreTypeOK
    <3>3. \A v \in put(kv[k], t, 0) : v \in kv[k] \/ v = [write |-> 0, value |-> t]
      BY DEF put
    <3>4. \A v \in kv[k] : v.write = 0
      BY DEF StoreTyped
    <3>5. \A v \in put(kv[k], t, 0) : v.write = 0
      BY <3>3, <3>4, SMTT(30)
    <3> QED BY <3>1, <3>2, <3>3, <3>5
  <2>3. \A k \in Key : /\ kv'[k] \subseteq Version(Txn \cup {Loader})
                       /\ \A v \in kv'[k] : v.write = 0
    BY <2>1, <2>2 DEF StoreTyped, StoreTypeOK
  <2>4. kv' \in [Key -> SUBSET Version(Txn \cup {Loader})]
    BY <1>4, <2>3 DEF StoreCommit
  <2>5. \A k \in Key : precommits[k] \in Seq(Txn) /\ dropPreCommit(precommits[k], t) \in Seq(Txn)
    BY DropLemma DEF StoreTyped, StoreTypeOK
  <2>6. precommits' \in [Key -> Seq(Txn)]
    BY <1>4, <2>5 DEF StoreCommit
  <2> QED BY <1>4, <2>3, <2>4, <2>6 DEF StoreCommit, StoreTyped, StoreTypeOK
<1>5. ASSUME NEW T, NEW A, StoreAbort(T, A) PROVE StoreTyped'
  BY <1>5 DEF StoreAbort, StoreTyped, StoreTypeOK
<1> QED BY <1>1, <1>2, <1>3, <1>4, <1>5

\* A step answers only for what it changes.
LEMMA TypedStep ==
  ASSUME Typed, StoreTyped', activeTxns' \in [Txn -> Active],
         inDependency' \in [Txn -> Int], pendingTxns' \in [Txn -> Pending],
         committedTxns' \in [Txn -> {"none", "COMMIT", "ABORT"}],
         client' \in [Txn -> Phase], prepares' \in [Txn -> Nat],
         votes' \in [Txn -> {"none", "blocked", "clear"}], UNCHANGED seen,
         notified' \subseteq Txn, announced' \subseteq Txn
  PROVE  Typed'
BY DEF Typed, TypeOK, StoreTyped

\* Preparing.
LEMMA PrepareTyped ==
  ASSUME Typed, NEW t \in Txn, HandlePrepareTxn(t)
  PROVE  Typed'
<1>0. /\ StoreTyped /\ activeTxns \in [Txn -> Active]
      /\ inDependency \in [Txn -> Int] /\ pendingTxns \in [Txn -> Pending]
      /\ prepares \in [Txn -> Nat] /\ inDependency[t] \in Int
  BY DEF Typed, TypeOK, StoreTyped
<1>1. /\ UNCHANGED <<rset, client, seen, committedTxns, coordVars>>
      /\ prepares' = [prepares EXCEPT ![t] = @ + 1]
      /\ UNCHANGED storeVars \/ StoreAbort({t}, {}) \/ StorePrepare(t)
      /\ UNCHANGED inDependency \/ inDependency' = [inDependency EXCEPT ![t] = 0]
      /\ \/ UNCHANGED activeTxns
         \/ activeTxns' = [activeTxns EXCEPT ![t] =
              [entry |-> "present", in |-> inDependency[t], out |-> <<>>]]
      /\ UNCHANGED pendingTxns \/ InvokeReplicateTxn(t, inDependency[t])
  BY DEF HandlePrepareTxn, readVars
<1>2. StoreTyped'
  BY <1>0, <1>1, StoreOpsTyped
<1>3. activeTxns' \in [Txn -> Active]
  <2>1. [entry |-> "present", in |-> inDependency[t], out |-> <<>>] \in Active
    BY <1>0, SMTT(30) DEF Active
  <2> QED BY <1>0, <1>1, <2>1
<1>4. pendingTxns' \in [Txn -> Pending]
  <2>1. [entry |-> "sent", has_precommit |-> inDependency[t] # 0] \in Pending
    BY DEF Pending
  <2> QED BY <1>0, <1>1, <2>1 DEF InvokeReplicateTxn
<1>5. prepares' \in [Txn -> Nat] /\ inDependency' \in [Txn -> Int]
  BY <1>0, <1>1, SMTT(30)
<1> QED BY <1>1, <1>2, <1>3, <1>4, <1>5, TypedStep DEF Typed, TypeOK, coordVars

\* Deciding.
LEMMA DoCommitTyped ==
  ASSUME Typed, NEW t \in Txn, NEW state \in {"COMMIT", "ABORT"}, DoCommit(t, state),
         UNCHANGED rset
  PROVE  /\ StoreTyped' /\ activeTxns' \in [Txn -> Active]
         /\ inDependency' \in [Txn -> Int] /\ pendingTxns' \in [Txn -> Pending]
         /\ committedTxns' \in [Txn -> {"none", "COMMIT", "ABORT"}]
<1>0. /\ StoreTyped /\ activeTxns \in [Txn -> Active]
      /\ inDependency \in [Txn -> Int] /\ pendingTxns \in [Txn -> Pending]
      /\ committedTxns \in [Txn -> {"none", "COMMIT", "ABORT"}]
  BY DEF Typed, TypeOK, StoreTyped
<1>1. NoActive \in Active /\ NoPending \in Pending
  BY SMTT(30) DEF NoActive, Active, NoPending, Pending
<1>2. CASE UNCHANGED <<storeVars, leaderVars>>
  BY <1>0, <1>2, StoreOpsTyped DEF leaderVars
<1>3. CASE /\ pendingTxns' = [pendingTxns EXCEPT ![t] = NoPending]
           /\ committedTxns' = [committedTxns EXCEPT ![t] = state]
           /\ StoreCommit(t, CommitTimestamp) /\ notifyForFollowingDependenies(t)
  <2>1. \A u \in Txn : Times(t, u) \in Nat /\ decreaseIn(activeTxns[u].in, Times(t, u)) \in Int
    <3>1. \A u \in Txn : Times(t, u) \in Nat /\ activeTxns[u].in \in Int
      BY <1>0, ListedLemma DEF Active
    <3> QED BY <3>1, SMTT(30) DEF decreaseIn
  <2>2. activeTxns' \in [Txn -> Active]
    <3>1. \A u \in Txn :
            [activeTxns[u] EXCEPT !.in = decreaseIn(@, Times(t, u))] \in Active
      BY <1>0, <2>1 DEF Active
    <3> QED BY <1>0, <1>1, <1>3, <3>1 DEF notifyForFollowingDependenies
  <2>3. inDependency' \in [Txn -> Int]
    BY <1>0, <1>3, <2>1, SMTT(30) DEF notifyForFollowingDependenies
  <2> QED BY <1>0, <1>1, <1>3, <2>2, <2>3, StoreOpsTyped
<1>4. CASE /\ pendingTxns' = [pendingTxns EXCEPT ![t] = NoPending]
           /\ committedTxns' = [committedTxns EXCEPT ![t] = state]
           /\ CascadeAbort(t)
  <2>1. activeTxns' \in [Txn -> Active] /\ inDependency' \in [Txn -> Int]
    BY <1>0, <1>1, <1>4, SMTT(30) DEF CascadeAbort
  <2>2. StoreTyped'
    BY <1>0, <1>4, StoreOpsTyped DEF CascadeAbort
  <2> QED BY <1>0, <1>1, <1>4, <2>1, <2>2
<1> QED BY <1>2, <1>3, <1>4 DEF DoCommit

LEMMA TypedInit == Init => Typed
<1> SUFFICES ASSUME Init PROVE Typed
  OBVIOUS
<1>1. /\ activeTxns \in [Txn -> Active] /\ pendingTxns \in [Txn -> Pending]
  BY SMTT(30) DEF Init, NoActive, Active, NoPending, Pending
<1>2. \A k \in Key : kv[k] \subseteq {[write |-> 0, value |-> Loader]}
  BY DEF Init, StoreInit, put
<1>3. kv \in [Key -> SUBSET Version(Txn \cup {Loader})]
  <2>1. [write |-> 0, value |-> Loader] \in Version(Txn \cup {Loader})
    BY DEF Version
  <2> QED BY <1>2, <2>1 DEF Init, StoreInit
<1>4. StoreTypeOK
  <2>1. precommits \in [Key -> Seq(Txn)]
    BY SMTT(30) DEF Init, StoreInit
  <2>2. /\ prepared \subseteq Txn /\ rset \in [Txn -> [Key -> Nat \cup {-1}]]
        /\ precommitted \in [Txn -> {"none", "writes", "empty"}]
    BY DEF Init, StoreInit
  <2> QED BY <1>3, <2>1, <2>2 DEF StoreTypeOK
<1>5. \A k \in Key : \A v \in kv[k] : v.write = 0
  BY <1>2, SMTT(30)
<1> QED BY <1>1, <1>4, <1>5, SMTT(30) DEF Init, Typed, TypeOK, Phase

LEMMA TypedNext == Typed /\ [Next]_vars => Typed'
<1> SUFFICES ASSUME Typed, [Next]_vars PROVE Typed'
  OBVIOUS
<1>0. /\ StoreTyped /\ activeTxns \in [Txn -> Active]
      /\ inDependency \in [Txn -> Int] /\ pendingTxns \in [Txn -> Pending]
      /\ committedTxns \in [Txn -> {"none", "COMMIT", "ABORT"}]
      /\ client \in [Txn -> Phase] /\ prepares \in [Txn -> Nat]
      /\ votes \in [Txn -> {"none", "blocked", "clear"}]
      /\ notified \subseteq Txn /\ announced \subseteq Txn
  BY DEF Typed, TypeOK, StoreTyped
<1>1. CASE UNCHANGED vars
  <2>1. StoreTyped'
    BY <1>0, <1>1 DEF vars, storeVars, clientVars, readVars, StoreTyped, StoreTypeOK
  <2> QED BY <1>0, <1>1, <2>1, TypedStep
          DEF vars, leaderVars, clientVars, readVars, coordVars
<1>2. ASSUME NEW t \in Txn, NEW k \in Key,
             HandleRead(t, k) \/ HandleReadAtFollower(t, k)
      PROVE  Typed'
  BY <1>2, ReadTyped, FollowerTyped
<1>3. ASSUME NEW t \in Txn, HandlePrepareTxn(t) PROVE Typed'
  BY <1>3, PrepareTyped
<1>4. ASSUME NEW t \in Txn, HandleConsensus(t) PROVE Typed'
  <2>1. pendingTxns' \in [Txn -> Pending]
    <3>1. [pendingTxns[t] EXCEPT !.entry = "consensus"] \in Pending
      BY <1>0 DEF Pending
    <3> QED BY <1>0, <1>4, <3>1 DEF HandleConsensus
  <2>2. StoreTyped'
    BY <1>0, <1>4, StoreOpsTyped DEF HandleConsensus, clientVars, readVars
  <2> QED BY <1>0, <1>4, <2>1, <2>2, TypedStep
          DEF HandleConsensus, clientVars, readVars, coordVars
<1>5. ASSUME NEW t \in Txn, HandleCommit(t) PROVE Typed'
  <2>1. PICK state \in {"COMMIT", "ABORT"} : DoCommit(t, state)
    BY <1>5 DEF HandleCommit
  <2>2. UNCHANGED <<clientVars, votes, notified, announced>>
    BY <1>5 DEF HandleCommit
  <2> QED BY <1>0, <2>1, <2>2, DoCommitTyped, TypedStep DEF clientVars, readVars
<1>6. ASSUME NEW t \in Txn, HandleDecisionFromCoordinatorReplica(t) PROVE Typed'
  <2>1. /\ UNCHANGED <<activeTxns, inDependency, pendingTxns, clientVars, votes, announced>>
        /\ UNCHANGED storeVars \/ StorePreCommit(t)
        /\ UNCHANGED committedTxns \/ committedTxns' = [committedTxns EXCEPT ![t] = "COMMIT"]
        /\ notified' = notified \cup {t}
    BY <1>6 DEF HandleDecisionFromCoordinatorReplica
  <2>2. StoreTyped'
    BY <1>0, <2>1, StoreOpsTyped DEF clientVars, readVars
  <2> QED BY <1>0, <2>1, <2>2, TypedStep DEF clientVars, readVars
<1>7. ASSUME NEW t \in Txn, HandleReplicateResultFromCoordinatorReplica(t) PROVE Typed'
  <2>1. /\ DoCommit(t, "COMMIT") /\ UNCHANGED <<rset, prepares, seen, votes, notified>>
        /\ announced' = announced \cup {t}
        /\ \E p \in Phase : client' = [client EXCEPT ![t] = p]
    BY <1>0, <1>7 DEF HandleReplicateResultFromCoordinatorReplica, Phase, readVars
  <2>2. client' \in [Txn -> Phase]
    BY <1>0, <2>1
  <2> QED BY <1>0, <2>1, <2>2, DoCommitTyped, TypedStep
<1>8. ASSUME NEW t \in Txn, NEW phase \in Phase, SetClient(t, phase) PROVE Typed'
  <2>1. StoreTyped'
    BY <1>0, <1>8, StoreOpsTyped DEF SetClient, readVars
  <2> QED BY <1>0, <1>8, <2>1, TypedStep DEF SetClient, leaderVars, readVars, coordVars
<1>9. ASSUME NEW t \in Txn, NEW v \in {"none", "blocked", "clear"}, SetVote(t, v)
      PROVE  Typed'
  <2>1. StoreTyped'
    BY <1>0, <1>9, StoreOpsTyped DEF SetVote, clientVars, readVars
  <2> QED BY <1>0, <1>9, <2>1, TypedStep DEF SetVote, leaderVars, clientVars, readVars
<1>10. ASSUME NEW t \in Txn, ClientPrepares(t) \/ ClientCommits(t) \/ ClientAborts(t)
       PROVE  Typed'
  BY <1>8, <1>10 DEF ClientPrepares, ClientCommits, ClientAborts, Phase
<1>11. ASSUME NEW t \in Txn, CoordinatorVote(t) \/ CoordinatorCleared(t) PROVE Typed'
  BY <1>9, <1>11 DEF CoordinatorVote, CoordinatorCleared
<1> QED BY <1>1, <1>2, <1>3, <1>4, <1>5, <1>6, <1>7, <1>10, <1>11 DEF Next

(***************************************************************************)
(* The leader's tables and its store keep their types whatever is asked    *)
(* twice, aborted in a cascade or left null by a lookup: readers are in    *)
(* the lists of transactions, counters are integers, and a stored key has  *)
(* a newest version to answer a read with.                                 *)
(***************************************************************************)
THEOREM LeaderTyped == Spec => []TypeOK
<1>1. Typed => TypeOK
  BY DEF Typed
<1> QED BY <1>1, TypedInit, TypedNext, PTL DEF Spec

-----------------------------------------------------------------------------
(***************************************************************************)
(* The edges of the dependency graph, and what a step does to them.        *)
(***************************************************************************)
LEMMA EdgesLemma ==
  ASSUME NEW t
  PROVE  \A e : e \in Edges(t) <=> \E d \in Txn : \E i \in Listed(d, t) : e = <<d, i>>
<1>1. \A e : e \in Edges(t) <=> \E d \in Txn : e \in {d} \X Listed(d, t)
  BY DEF Edges
<1>2. \A e, d : e \in {d} \X Listed(d, t) <=> \E i \in Listed(d, t) : e = <<d, i>>
  BY SMTT(30)
<1> QED BY <1>1, <1>2, SMTT(30)

LEMMA EdgesFinite ==
  ASSUME activeTxns \in [Txn -> Active], NEW t
  PROVE  /\ IsFiniteSet(Edges(t)) /\ Cardinality(Edges(t)) \in Nat
         /\ Cardinality(Edges(t)) = 0 <=> \A d \in Txn : Listed(d, t) = {}
         /\ \A d \in Txn : /\ Times(d, t) = Cardinality(Edges(t) \cap ({d} \X Listed(d, t)))
                           /\ Times(d, t) <= Cardinality(Edges(t))
<1>1. \A d \in Txn : IsFiniteSet({d} \X Listed(d, t))
                     /\ Cardinality({d} \X Listed(d, t)) = Times(d, t)
  <2> SUFFICES ASSUME NEW d \in Txn
               PROVE  /\ IsFiniteSet({d} \X Listed(d, t))
                      /\ Cardinality({d} \X Listed(d, t)) = Times(d, t)
    OBVIOUS
  <2>1. IsFiniteSet({d}) /\ Cardinality({d}) = 1
    BY FS_Singleton
  <2>2. IsFiniteSet(Listed(d, t)) /\ Times(d, t) \in Nat
    BY ListedLemma
  <2>3. Cardinality({d} \X Listed(d, t)) = 1 * Cardinality(Listed(d, t))
    BY <2>1, <2>2, FS_Product
  <2>4. IsFiniteSet({d} \X Listed(d, t))
    BY <2>1, <2>2, FS_Product
  <2> QED BY <2>2, <2>3, <2>4, SMTT(30) DEF Times
<1> DEFINE family == {{d} \X Listed(d, t) : d \in Txn}
           g == [d \in Txn |-> {d} \X Listed(d, t)]
<1>2. IsFiniteSet(family)
  <2>1. g \in Surjection(Txn, family)
    BY DEF Surjection
  <2> HIDE DEF family, g
  <2> QED BY <2>1, StoreAssumption, FS_Surjection
<1>3. IsFiniteSet(Edges(t))
  <2>1. \A T \in family : IsFiniteSet(T)
    BY <1>1
  <2> HIDE DEF family
  <2>2. IsFiniteSet(UNION family)
    BY <1>2, <2>1, FS_UNION
  <2> QED BY <2>2 DEF Edges, family
<1>4. Cardinality(Edges(t)) \in Nat
  BY <1>3, FS_CardinalityType
<1>5. Cardinality(Edges(t)) = 0 <=> \A d \in Txn : Listed(d, t) = {}
  <2>1. Cardinality(Edges(t)) = 0 <=> Edges(t) = {}
    BY <1>3, FS_EmptySet
  <2>2. ASSUME Edges(t) = {} PROVE \A d \in Txn : Listed(d, t) = {}
    <3> SUFFICES ASSUME NEW d \in Txn, NEW i \in Listed(d, t) PROVE FALSE
      OBVIOUS
    <3>1. <<d, i>> \in Edges(t)
      BY EdgesLemma
    <3> QED BY <2>2, <3>1
  <2>3. ASSUME \A d \in Txn : Listed(d, t) = {} PROVE Edges(t) = {}
    BY <2>3, EdgesLemma
  <2> QED BY <2>1, <2>2, <2>3
<1>6. ASSUME NEW d \in Txn
      PROVE  /\ Times(d, t) = Cardinality(Edges(t) \cap ({d} \X Listed(d, t)))
             /\ Times(d, t) <= Cardinality(Edges(t))
  <2> DEFINE part == {d} \X Listed(d, t)
  <2>1. part \subseteq Edges(t)
    BY DEF Edges
  <2>2. Cardinality(part) = Times(d, t)
    BY <1>1
  <2> HIDE DEF part
  <2>3. Cardinality(part) <= Cardinality(Edges(t)) /\ Edges(t) \cap part = part
    BY <1>3, <2>1, FS_Subset
  <2> QED BY <2>2, <2>3 DEF part
<1> QED BY <1>3, <1>4, <1>5, <1>6

\* Lists that stay as they are.
LEMMA EdgesKept ==
  ASSUME \A d \in Txn : activeTxns'[d].out = activeTxns[d].out
  PROVE  /\ \A t : \A d \in Txn : Listed(d, t)' = Listed(d, t)
         /\ \A t : Edges(t)' = Edges(t)
<1>1. \A t : \A d \in Txn : Listed(d, t)' = Listed(d, t)
  BY DEF Listed
<1> QED BY <1>1 DEF Edges

\* A reader t of d more.
LEMMA EdgeAdded ==
  ASSUME activeTxns \in [Txn -> Active], NEW t \in Txn, NEW d \in Txn,
         activeTxns' = [activeTxns EXCEPT ![d].out = Append(@, t)]
  PROVE  /\ \A u : \A w \in Txn : Listed(w, u) \subseteq Listed(w, u)'
         /\ Listed(d, t)' # {}
         /\ Cardinality(Edges(t)') = Cardinality(Edges(t)) + 1
         /\ \A u \in Txn : u # t => Edges(u)' = Edges(u)
<1> DEFINE len == Len(activeTxns[d].out)
<1>1. activeTxns[d].out \in Seq(Txn) /\ len \in Nat
  BY SMTT(30) DEF Active
<1>2. activeTxns'[d].out = Append(activeTxns[d].out, t)
  BY DEF Active
<1>3. \A w \in Txn : w # d => activeTxns'[w] = activeTxns[w]
  OBVIOUS
<1>4. \A u : \A w \in Txn : w # d => Listed(w, u)' = Listed(w, u)
  BY <1>3 DEF Listed
<1>5. \A u : Listed(d, u)' = Listed(d, u) \cup (IF u = t THEN {len + 1} ELSE {})
  BY <1>1, <1>2, SMTT(30) DEF Listed
<1>6. len + 1 \notin Listed(d, t)
  BY <1>1, SMTT(30) DEF Listed
<1> HIDE DEF len
<1>7. \A u \in Txn : u # t => Edges(u)' = Edges(u)
  <2>1. \A u \in Txn : u # t => \A w \in Txn : Listed(w, u)' = Listed(w, u)
    BY <1>4, <1>5
  <2> QED BY <2>1 DEF Edges
<1>8. Edges(t)' = Edges(t) \cup {<<d, len + 1>>} /\ <<d, len + 1>> \notin Edges(t)
  <2>1. \A e : e \in Edges(t)' <=> \E w \in Txn : \E i \in Listed(w, t)' : e = <<w, i>>
    <3>1. \A e : e \in Edges(t)' <=> \E w \in Txn : e \in {w} \X Listed(w, t)'
      BY DEF Edges
    <3> QED BY <3>1, SMTT(30)
  <2>2. ASSUME NEW w \in Txn, NEW i \in Listed(w, t)'
        PROVE  i \in Listed(w, t) \/ <<w, i>> = <<d, len + 1>>
    BY <1>4, <1>5
  <2>3. \A w \in Txn : Listed(w, t) \subseteq Listed(w, t)'
    BY <1>4, <1>5
  <2>4. <<d, len + 1>> \notin Edges(t)
    BY <1>6, EdgesLemma, SMTT(30)
  <2>5. \A e \in Edges(t)' : e \in Edges(t) \/ e = <<d, len + 1>>
    BY <2>1, <2>2, EdgesLemma, SMTT(30)
  <2>6. \A e \in Edges(t) : e \in Edges(t)'
    BY <2>1, <2>3, EdgesLemma, SMTT(30)
  <2>7. <<d, len + 1>> \in Edges(t)'
    BY <1>5, <2>1
  <2> QED BY <2>4, <2>5, <2>6, <2>7
<1>9. Cardinality(Edges(t)') = Cardinality(Edges(t)) + 1
  <2> DEFINE old == Edges(t)
             new == <<d, len + 1>>
  <2>1. IsFiniteSet(old) /\ Edges(t)' = old \cup {new} /\ new \notin old
    BY <1>8, EdgesFinite
  <2> HIDE DEF old, new
  <2>2. Cardinality(old \cup {new}) = Cardinality(old) + 1
    BY <2>1, FS_AddElement
  <2> QED BY <2>1, <2>2 DEF old
<1>10. \A u : \A w \in Txn : Listed(w, u) \subseteq Listed(w, u)'
  BY <1>4, <1>5
<1> QED BY <1>5, <1>7, <1>9, <1>10

\* The list of d goes with d.
LEMMA EdgesGone ==
  ASSUME activeTxns \in [Txn -> Active], NEW d \in Txn,
         activeTxns'[d].out = <<>>,
         \A w \in Txn : w # d => activeTxns'[w].out = activeTxns[w].out
  PROVE  /\ \A u : \A w \in Txn : w # d => Listed(w, u)' = Listed(w, u)
         /\ \A u : Listed(d, u)' = {}
         /\ \A u : Cardinality(Edges(u)') = Cardinality(Edges(u)) - Times(d, u)
         /\ \A u : Cardinality(Edges(u)') = 0 => \A w \in Txn : Listed(w, u)' = {}
<1>1. \A u : \A w \in Txn : w # d => Listed(w, u)' = Listed(w, u)
  BY DEF Listed
<1>2. \A u : Listed(d, u)' = {}
  BY SMTT(30) DEF Listed
<1>3. ASSUME NEW u
      PROVE  Edges(u)' = Edges(u) \ ({d} \X Listed(d, u))
  <2>1. \A e : e \in Edges(u)' <=> \E w \in Txn : e \in {w} \X Listed(w, u)'
    BY DEF Edges
  <2>2. \A e : e \in Edges(u) <=> \E w \in Txn : e \in {w} \X Listed(w, u)
    BY DEF Edges
  <2>3. ASSUME NEW e \in Edges(u)'
        PROVE  e \in Edges(u) \ ({d} \X Listed(d, u))
    <3>1. PICK w \in Txn : e \in {w} \X Listed(w, u)'
      BY <2>1, <2>3
    <3>2. w # d
      BY <1>2, <3>1
    <3> QED BY <1>1, <2>2, <3>1, <3>2
  <2>4. ASSUME NEW e \in Edges(u) \ ({d} \X Listed(d, u))
        PROVE  e \in Edges(u)'
    <3>1. PICK w \in Txn : e \in {w} \X Listed(w, u)
      BY <2>2, <2>4
    <3>2. w # d
      BY <2>4, <3>1
    <3> QED BY <1>1, <2>1, <3>1, <3>2
  <2> QED BY <2>3, <2>4
<1>4. \A u : Cardinality(Edges(u)') = Cardinality(Edges(u)) - Times(d, u)
  <2> SUFFICES ASSUME NEW u
               PROVE  Cardinality(Edges(u)') = Cardinality(Edges(u)) - Times(d, u)
    OBVIOUS
  <2> DEFINE part == {d} \X Listed(d, u)
  <2>1. IsFiniteSet(Edges(u)) /\ Times(d, u) = Cardinality(Edges(u) \cap part)
    BY EdgesFinite
  <2>2. Edges(u)' = Edges(u) \ part
    BY <1>3
  <2> HIDE DEF part
  <2> QED BY <2>1, <2>2, FS_Difference
<1>5. ASSUME NEW u, Cardinality(Edges(u)') = 0
      PROVE  \A w \in Txn : Listed(w, u)' = {}
  <2> DEFINE part == {d} \X Listed(d, u)
  <2>1. IsFiniteSet(Edges(u)) /\ Edges(u)' = Edges(u) \ part
    BY <1>3, EdgesFinite
  <2> HIDE DEF part
  <2>2. IsFiniteSet(Edges(u)')
    BY <2>1, FS_Difference
  <2>3. Edges(u)' = {}
    BY <1>5, <2>2, FS_EmptySet
  <2>4. \A w \in Txn : {w} \X Listed(w, u)' \subseteq Edges(u)'
    BY DEF Edges
  <2>5. \A w \in Txn : \A i \in Listed(w, u)' : <<w, i>> \in Edges(u)'
    BY <2>4
  <2> QED BY <2>3, <2>5
<1> QED BY <1>1, <1>2, <1>4, <1>5

-----------------------------------------------------------------------------
(***************************************************************************)
(* The dependencies.  What a transaction has read from is committed or     *)
(* leads an edge to it; the edges are counted; and whoever says that a     *)
(* transaction has no dependency left says so when no edge leads to it.    *)
(* All of it is stated transaction by transaction: what a second prepare,  *)
(* a late read or an abort disturbs is the transactions it concerns.       *)
(***************************************************************************)
Settled(t) == \A d \in ReadFrom(t) : Finished(d)

Fine(t) == Orderly(t) /\ t \notin late

\* The leader's tables agree on where a transaction is.
Life(t) ==
  /\ client[t] = "reading" => prepares[t] = 0
  /\ prepares[t] = 0 =>
       /\ ~IsPending(t) /\ committedTxns[t] = "none" /\ votes[t] = "none"
       /\ t \notin announced /\ \A c : <<t, c>> \notin cleared
  /\ activeTxns[t].entry = "present" <=> IsPending(t)
  /\ activeTxns[t].out # <<>> => IsPending(t) /\ committedTxns[t] # "none"

\* A transaction in a pre-commit list has been pre-committed.
Lists ==
  \A k \in Key : \A i \in DOMAIN precommits[k] : committedTxns[precommits[k][i]] # "none"

\* What is stored was loaded or is committed.
Versions == \A k \in Key : \A v \in kv[k] : v.value \in Txn => Finished(v.value)

Count(t) ==
  Orderly(t) =>
    /\ prepares[t] = 0 => inDependency[t] = Cardinality(Edges(t))
    /\ activeTxns[t].entry = "present" =>
         /\ activeTxns[t].in \in Nat /\ activeTxns[t].in =< Cardinality(Edges(t))
         /\ t \notin late => activeTxns[t].in = Cardinality(Edges(t))

Track(t) ==
  t \notin cascaded => \A d \in ReadFrom(t) : Finished(d) \/ Listed(d, t) # {}

\* The vote of a transaction without dependencies, the notification that they
\* are cleared, and the announcement of the commit.
Report(t) ==
  Fine(t) =>
    /\ IsPending(t) /\ ~pendingTxns[t].has_precommit => Settled(t)
    /\ (\E c : <<t, c>> \in cleared) => Settled(t)
    /\ votes[t] = "clear" => Settled(t)
    /\ t \in announced => Settled(t)

DepInv ==
  /\ Lists /\ Versions
  /\ \A t \in Txn : Life(t) /\ Count(t) /\ Track(t) /\ Report(t)

\* What is committed stays so, and reads that are over stay as they are.
LEMMA SettledKept ==
  ASSUME NEW u \in Txn, seen'[u] = seen[u], Settled(u),
         \A d \in Txn : Finished(d) => Finished(d)'
  PROVE  Settled(u)'
<1>1. ReadFrom(u)' = ReadFrom(u) /\ ReadFrom(u) \subseteq Txn
  BY DEF ReadFrom
<1> QED BY <1>1 DEF Settled

\* A transaction no edge leads to has no dependency left.
LEMMA NoEdges ==
  ASSUME activeTxns \in [Txn -> Active], NEW t \in Txn, Track(t), t \notin cascaded,
         Cardinality(Edges(t)) = 0
  PROVE  Settled(t)
<1>1. \A d \in Txn : Listed(d, t) = {}
  BY EdgesFinite
<1>2. ReadFrom(t) \subseteq Txn
  BY DEF ReadFrom
<1> QED BY <1>1, <1>2 DEF Track, Settled

\* What is out of order stays so.
LEMMA FineKept ==
  ASSUME Typed, Typed', NEW t \in Txn, prepares[t] =< prepares'[t],
         cascaded \subseteq cascaded', late \subseteq late'
  PROVE  (Orderly(t)' => Orderly(t)) /\ (Fine(t)' => Fine(t))
<1>1. prepares[t] \in Nat /\ prepares'[t] \in Nat
  BY DEF Typed
<1>2. prepares'[t] =< 1 => prepares[t] =< 1
  BY <1>1, SMTT(30)
<1> QED BY <1>2 DEF Orderly, Fine

\* A report that was true stays true; a new one needs a reason.
LEMMA ReportKept ==
  ASSUME NEW t \in Txn, Report(t), Fine(t)' => Fine(t), seen'[t] = seen[t],
         \A d \in Txn : Finished(d) => Finished(d)',
         Fine(t)' /\ IsPending(t)' /\ ~pendingTxns'[t].has_precommit
           => (IsPending(t) /\ ~pendingTxns[t].has_precommit) \/ Settled(t)',
         Fine(t)' /\ (\E c : <<t, c>> \in cleared')
           => (\E c : <<t, c>> \in cleared) \/ Settled(t)',
         Fine(t)' /\ votes'[t] = "clear" => votes[t] = "clear" \/ Settled(t)',
         t \in announced' => t \in announced \/ votes[t] = "clear"
  PROVE  Report(t)'
<1>1. Settled(t) => Settled(t)'
  BY SettledKept
<1> QED BY <1>1 DEF Report

\* Steps that leave the tables, the reads and the store's lists alone.
LEMMA DepFrame ==
  ASSUME Typed, Typed', DepInv,
         UNCHANGED <<kv, precommits, activeTxns, inDependency, committedTxns,
                     prepares, seen, cleared, late, cascaded>>,
         \A t \in Txn : /\ IsPending(t)' <=> IsPending(t)
                        /\ pendingTxns'[t].has_precommit = pendingTxns[t].has_precommit,
         \A t \in Txn : client'[t] = "reading" => client[t] = "reading",
         \A t \in Txn : \/ votes'[t] = votes[t]
                        \/ prepares[t] # 0 /\ (Fine(t) /\ votes'[t] = "clear" => Settled(t)),
         \A t \in announced' : t \in announced \/ votes[t] = "clear"
  PROVE  DepInv'
<1>0. \A t \in Txn : (Finished(t)' <=> Finished(t)) /\ (Settled(t) => Settled(t)')
  <2>1. \A t \in Txn : Finished(t)' <=> Finished(t)
    BY DEF Finished
  <2> QED BY <2>1, SettledKept
<1>1. Lists' /\ Versions'
  BY <1>0 DEF DepInv, Lists, Versions
<1>2. /\ \A t : \A d \in Txn : Listed(d, t)' = Listed(d, t)
      /\ \A t : Edges(t)' = Edges(t)
  BY EdgesKept
<1>3. \A t \in Txn : (Orderly(t)' <=> Orderly(t)) /\ (Fine(t)' <=> Fine(t))
  BY DEF Orderly, Fine
<1>4. ASSUME NEW t \in Txn PROVE Life(t)' /\ Count(t)' /\ Track(t)' /\ Report(t)'
  <2>1. Life(t) /\ Count(t) /\ Track(t) /\ Report(t)
    BY DEF DepInv
  <2>2. Life(t)'
    <3>1. prepares[t] = 0 => t \notin announced'
      BY <2>1 DEF Life
    <3> QED BY <2>1, <3>1 DEF Life
  <2>3. Count(t)'
    BY <1>2, <1>3, <2>1 DEF Count
  <2>4. Track(t)'
    <3>1. ReadFrom(t)' = ReadFrom(t) /\ ReadFrom(t) \subseteq Txn
      BY DEF ReadFrom
    <3> QED BY <1>0, <1>2, <2>1, <3>1 DEF Track
  <2>5. Report(t)'
    BY <1>0, <1>3, <2>1, ReportKept
  <2> QED BY <2>2, <2>3, <2>4, <2>5
<1> QED BY <1>1, <1>4 DEF DepInv

-----------------------------------------------------------------------------
\* Reading, whatever it does to the readers' lists.
Reads(t) ==
  /\ UNCHANGED <<storeVars, pendingTxns, committedTxns, client, prepares, coordVars,
                 cascaded>>
  /\ \A u \in Txn : u # t => seen'[u] = seen[u]
  /\ UNCHANGED <<seen>> \/ prepares[t] = 0
  /\ late \subseteq late' /\ (t \in late' \/ prepares[t] = 0)

LEMMA ReadsLemma ==
  ASSUME Typed, Typed', DepInv, NEW t \in Txn, Reads(t)
  PROVE  /\ Lists' /\ Versions' /\ \A u \in Txn : Report(u)'
         /\ \A u \in Txn : /\ IsPending(u)' <=> IsPending(u)
                           /\ Finished(u)' <=> Finished(u)
                           /\ Orderly(u)' <=> Orderly(u)
<1>1. \A u \in Txn : /\ IsPending(u)' <=> IsPending(u)
                     /\ Finished(u)' <=> Finished(u)
                     /\ Orderly(u)' <=> Orderly(u)
                     /\ Fine(u)' => Fine(u)
  BY DEF Reads, IsPending, Finished, Orderly, Fine
<1>2. Lists' /\ Versions'
  BY <1>1 DEF Reads, storeVars, DepInv, Lists, Versions
<1>3. ASSUME NEW u \in Txn PROVE Report(u)'
  <2>1. Life(u) /\ Report(u)
    BY DEF DepInv
  <2>2. CASE seen'[u] = seen[u]
    BY <1>1, <2>1, <2>2, ReportKept DEF Reads, coordVars
  <2>3. CASE u = t /\ prepares[t] = 0
    BY <1>1, <2>1, <2>3 DEF Reads, coordVars, Life, Report
  <2> QED BY <2>2, <2>3 DEF Reads
<1> QED BY <1>1, <1>2, <1>3

\* A read of a value that is committed, or of none.
LEMMA DepReadPlain ==
  ASSUME Typed, Typed', DepInv, NEW t \in Txn, Reads(t), UNCHANGED inDependency,
         \A u \in Txn : /\ activeTxns'[u].entry = "present" <=> activeTxns[u].entry = "present"
                        /\ activeTxns'[u].in = activeTxns[u].in
                        /\ activeTxns'[u].out = activeTxns[u].out,
         \A d \in ReadFrom(t)' : d \in ReadFrom(t) \/ Finished(d)
  PROVE  DepInv'
<1>1. /\ Lists' /\ Versions' /\ \A u \in Txn : Report(u)'
      /\ \A u \in Txn : /\ IsPending(u)' <=> IsPending(u)
                        /\ Finished(u)' <=> Finished(u)
                        /\ Orderly(u)' <=> Orderly(u)
  BY ReadsLemma
<1>2. /\ \A u : \A w \in Txn : Listed(w, u)' = Listed(w, u)
      /\ \A u : Edges(u)' = Edges(u)
  BY EdgesKept
<1>3. ASSUME NEW u \in Txn PROVE Life(u)' /\ Count(u)' /\ Track(u)'
  <2>1. Life(u) /\ Count(u) /\ Track(u)
    BY DEF DepInv
  <2>2. /\ committedTxns'[u] = committedTxns[u] /\ client'[u] = client[u]
        /\ prepares'[u] = prepares[u] /\ votes'[u] = votes[u]
        /\ UNCHANGED <<announced, cleared, cascaded>> /\ late \subseteq late'
    BY DEF Reads, coordVars
  <2>3. Life(u)'
    BY <1>1, <2>1, <2>2 DEF Life
  <2>4. Count(u)'
    BY <1>1, <1>2, <2>1, <2>2, ZenonT(90) DEF Count
  <2>5. Track(u)'
    <3>1. ReadFrom(u) \subseteq Txn /\ ReadFrom(u)' \subseteq Txn
      BY DEF ReadFrom
    <3>2. \A d \in ReadFrom(u)' : d \in ReadFrom(u) \/ Finished(d)
      <4>1. u # t => ReadFrom(u)' = ReadFrom(u)
        BY DEF Reads, ReadFrom
      <4> QED BY <4>1
    <3> QED BY <1>1, <1>2, <2>1, <2>2, <3>1, <3>2 DEF Track
  <2> QED BY <2>3, <2>4, <2>5
<1> QED BY <1>1, <1>3 DEF DepInv

\* A read of what the pending transaction e has written: a reader more.
LEMMA DepReadEdge ==
  ASSUME Typed, Typed', DepInv, NEW t \in Txn, Reads(t), NEW e \in Txn,
         activeTxns[e].entry = "present", committedTxns[e] # "none",
         CountDependency(t, e), \A d \in ReadFrom(t)' : d \in ReadFrom(t) \cup {e}
  PROVE  DepInv'
<1>0. activeTxns \in [Txn -> Active]
  BY DEF Typed, TypeOK
<1>1. /\ Lists' /\ Versions' /\ \A u \in Txn : Report(u)'
      /\ \A u \in Txn : /\ IsPending(u)' <=> IsPending(u)
                        /\ Finished(u)' <=> Finished(u)
                        /\ Orderly(u)' <=> Orderly(u)
  BY ReadsLemma
<1>2. /\ activeTxns' = [activeTxns EXCEPT ![e].out = Append(@, t)]
      /\ inDependency' = [inDependency EXCEPT ![t] = @ + 1]
  BY DEF CountDependency
<1>3. \A u \in Txn : /\ activeTxns'[u].entry = activeTxns[u].entry
                     /\ activeTxns'[u].in = activeTxns[u].in
                     /\ u # e => activeTxns'[u].out = activeTxns[u].out
  BY <1>0, <1>2 DEF Active
<1>4. /\ \A u : \A w \in Txn : Listed(w, u) \subseteq Listed(w, u)'
      /\ Listed(e, t)' # {}
      /\ Cardinality(Edges(t)') = Cardinality(Edges(t)) + 1
      /\ \A u \in Txn : u # t => Edges(u)' = Edges(u)
  BY <1>0, <1>2, EdgeAdded
<1>5. ASSUME NEW u \in Txn PROVE Life(u)' /\ Count(u)' /\ Track(u)'
  <2>1. Life(u) /\ Count(u) /\ Track(u) /\ Life(e)
    BY DEF DepInv
  <2>2. /\ committedTxns'[u] = committedTxns[u] /\ client'[u] = client[u]
        /\ prepares'[u] = prepares[u] /\ votes'[u] = votes[u]
        /\ UNCHANGED <<announced, cleared, cascaded>> /\ late \subseteq late'
        /\ t \in late' \/ prepares[t] = 0
    BY DEF Reads, coordVars
  <2>3. Life(u)'
    <3>1. activeTxns'[u].out # <<>> => IsPending(u) /\ committedTxns[u] # "none"
      BY <1>3, <2>1 DEF Life
    <3> QED BY <1>1, <1>3, <2>1, <2>2, <3>1 DEF Life
  <2>4. Count(u)'
    <3>1. CASE u # t
      <4>1. inDependency'[u] = inDependency[u]
        BY <1>2, <3>1 DEF Typed, TypeOK
      <4> QED BY <1>1, <1>3, <1>4, <2>1, <2>2, <3>1, <4>1, ZenonT(90) DEF Count
    <3>2. CASE u = t
      <4>1. inDependency'[t] = inDependency[t] + 1
        BY <1>2 DEF Typed, TypeOK
      <4>2. Cardinality(Edges(t)) \in Nat
        BY <1>0, EdgesFinite
      <4>3. activeTxns[t].entry = "present" => prepares[t] # 0
        BY <2>1, <3>2 DEF Life
      <4>4. Orderly(t) /\ prepares[t] = 0 => inDependency'[t] = Cardinality(Edges(t)')
        BY <1>4, <2>1, <3>2, <4>1 DEF Count
      <4>5. Orderly(t) /\ activeTxns[t].entry = "present" =>
              activeTxns[t].in \in Nat /\ activeTxns[t].in =< Cardinality(Edges(t)')
        <5>1. Orderly(t) /\ activeTxns[t].entry = "present" =>
                activeTxns[t].in \in Nat /\ activeTxns[t].in =< Cardinality(Edges(t))
          BY <2>1, <3>2 DEF Count
        <5> QED BY <1>4, <4>2, <5>1, SMTT(30)
      <4> QED BY <1>1, <1>3, <2>2, <3>2, <4>3, <4>4, <4>5 DEF Count
    <3> QED BY <3>1, <3>2
  <2>5. Track(u)'
    <3>1. ReadFrom(u) \subseteq Txn
      BY DEF ReadFrom
    <3>2. \A d \in ReadFrom(u)' : d \in ReadFrom(u) \/ (u = t /\ d = e)
      <4>1. CASE u # t
        BY <4>1 DEF Reads, ReadFrom
      <4>2. CASE u = t
        BY <4>2
      <4> QED BY <4>1, <4>2
    <3> QED BY <1>1, <1>4, <2>1, <2>2, <3>1, <3>2 DEF Track
  <2> QED BY <2>3, <2>4, <2>5
<1> QED BY <1>1, <1>5 DEF DepInv

\* What an answer does to the reads.
LEMMA AnswerLemma ==
  ASSUME Typed, DepInv, NEW t \in Txn, NEW k \in Key, NEW ts, NEW v,
         Answered(t, k, ts, v),
         UNCHANGED <<storeVars, pendingTxns, committedTxns, client, prepares, coordVars,
                     cascaded>>
  PROVE  Reads(t) /\ \A d \in ReadFrom(t)' : d \in ReadFrom(t) \/ d = v
<1>1. seen \in [Txn -> [Key -> Txn \cup {Loader, Nothing}]] /\ prepares[t] \in Nat
  BY DEF Typed
<1>2. CASE ReplyTaken(t, k, ts, v)
  <2>1. prepares[t] = 0 /\ UNCHANGED late
        /\ seen' = [seen EXCEPT ![t] = [seen[t] EXCEPT ![k] = v]]
    BY <1>2 DEF ReplyTaken, DepInv, Life
  <2>2. \A d \in ReadFrom(t)' : d \in ReadFrom(t) \/ d = v
    BY <1>1, <2>1 DEF ReadFrom
  <2> QED BY <1>1, <2>1, <2>2 DEF Reads
<1>3. CASE ReplyNotTaken(t)
  <2>1. UNCHANGED seen /\ late \subseteq late' /\ (prepares[t] > 0 => t \in late')
    BY <1>3 DEF ReplyNotTaken
  <2>2. prepares[t] > 0 \/ prepares[t] = 0
    BY <1>1, SMTT(30)
  <2>3. ReadFrom(t)' = ReadFrom(t)
    BY <2>1 DEF ReadFrom
  <2> QED BY <2>1, <2>2, <2>3 DEF Reads
<1> QED BY <1>2, <1>3 DEF Answered

\* Reading at the leader.
LEMMA DepRead ==
  ASSUME Typed, Typed', DepInv, NEW t \in Txn, NEW k \in Key, HandleRead(t, k)
  PROVE  DepInv'
<1> DEFINE g == Get(k)
           d == g.dependency
<1>0. /\ kv[k] # {} /\ activeTxns \in [Txn -> Active]
      /\ UNCHANGED <<storeVars, pendingTxns, committedTxns, client, prepares, coordVars,
                     cascaded>>
  BY DEF HandleRead, inStore, Typed, TypeOK
<1>1. /\ d \in Txn \cup {Loader}
      /\ d = Loader => \E v \in kv[k] : g.value = v.value
      /\ d # Loader => g.value = Nothing /\ committedTxns[d] # "none"
  <2>1. /\ d \in Txn \cup {Loader}
        /\ d = Loader => \E v \in kv[k] : g.value = v.value
        /\ d # Loader => /\ g.value = Nothing
                         /\ \E i \in DOMAIN precommits[k] : precommits[k][i] = d
    BY <1>0, GetLemma
  <2> HIDE DEF g, d
  <2> QED BY <2>1 DEF DepInv, Lists
<1>2. \/ /\ d = Loader /\ UNCHANGED <<activeTxns, inDependency>>
         /\ Answered(t, k, g.timestamp, g.value)
      \/ /\ d # Loader /\ activeTxns[d].entry = "present"
         /\ CountDependency(t, d) /\ Answered(t, k, g.timestamp, d)
      \/ /\ d # Loader /\ activeTxns[d].entry # "present"
         /\ activeTxns' = [activeTxns EXCEPT ![d].entry = "null"]
         /\ UNCHANGED inDependency /\ Answered(t, k, g.timestamp, g.value)
  BY DEF HandleRead
<1> DEFINE ts == g.timestamp
           val == g.value
<1> HIDE DEF ts, val, d
<1>3. CASE /\ d = Loader /\ UNCHANGED <<activeTxns, inDependency>>
           /\ Answered(t, k, ts, val)
  <2>1. Reads(t) /\ \A e \in ReadFrom(t)' : e \in ReadFrom(t) \/ e = val
    BY <1>0, <1>3, AnswerLemma
  <2>2. val \in Txn => Finished(val)
    BY <1>1, <1>3 DEF DepInv, Versions, val
  <2>3. ReadFrom(t)' \subseteq Txn
    BY DEF ReadFrom
  <2> QED BY <1>3, <2>1, <2>2, <2>3, DepReadPlain
<1>4. CASE /\ d # Loader /\ activeTxns[d].entry = "present"
           /\ CountDependency(t, d) /\ Answered(t, k, ts, d)
  <2>1. Reads(t) /\ \A e \in ReadFrom(t)' : e \in ReadFrom(t) \/ e = d
    BY <1>0, <1>4, AnswerLemma
  <2>2. d \in Txn /\ committedTxns[d] # "none"
    BY <1>1, <1>4
  <2> QED BY <1>4, <2>1, <2>2, DepReadEdge
<1>5. CASE /\ d # Loader /\ activeTxns[d].entry # "present"
           /\ activeTxns' = [activeTxns EXCEPT ![d].entry = "null"]
           /\ UNCHANGED inDependency /\ Answered(t, k, ts, val)
  <2>1. Reads(t) /\ \A e \in ReadFrom(t)' : e \in ReadFrom(t) \/ e = val
    BY <1>0, <1>5, AnswerLemma
  <2>2. val \notin Txn
    BY <1>1, <1>5, StoreAssumption DEF val
  <2>3. ReadFrom(t)' \subseteq Txn
    BY DEF ReadFrom
  <2>4. d \in Txn
    BY <1>1, <1>5
  <2>5. \A u \in Txn :
          /\ activeTxns'[u].entry = "present" <=> activeTxns[u].entry = "present"
          /\ activeTxns'[u].in = activeTxns[u].in
          /\ activeTxns'[u].out = activeTxns[u].out
    BY <1>0, <1>5, <2>4 DEF Active
  <2> QED BY <1>5, <2>1, <2>2, <2>3, <2>5, DepReadPlain
<1> QED BY <1>2, <1>3, <1>4, <1>5 DEF ts, val

\* Reading at a follower.
LEMMA DepFollower ==
  ASSUME Typed, Typed', DepInv, NEW t \in Txn, NEW k \in Key, HandleReadAtFollower(t, k)
  PROVE  DepInv'
<1>1. Answered(t, k, 0, Loader)
      /\ UNCHANGED <<storeVars, leaderVars, client, prepares, coordVars, cascaded>>
  BY DEF HandleReadAtFollower, Answered
<1>2. Reads(t) /\ \A e \in ReadFrom(t)' : e \in ReadFrom(t) \/ e = Loader
  BY <1>1, AnswerLemma DEF leaderVars
<1>3. ReadFrom(t)' \subseteq Txn
  BY DEF ReadFrom
<1> QED BY <1>1, <1>2, <1>3, StoreAssumption, DepReadPlain DEF leaderVars

-----------------------------------------------------------------------------
\* Preparing: a second time, whatever happens; the first time, what was counted
\* is what the edges are.
LEMMA DepPrepare ==
  ASSUME Typed, Typed', DepInv, NEW t \in Txn, HandlePrepareTxn(t)
  PROVE  DepInv'
<1>0. /\ activeTxns \in [Txn -> Active] /\ prepares \in [Txn -> Nat]
      /\ pendingTxns \in [Txn -> Pending] /\ inDependency \in [Txn -> Int]
      /\ UNCHANGED <<client, seen, late, committedTxns, coordVars, cascaded>>
      /\ prepares' = [prepares EXCEPT ![t] = @ + 1] /\ client[t] # "reading"
  BY DEF Typed, TypeOK, HandlePrepareTxn, readVars
<1>1. \/ UNCHANGED <<activeTxns, pendingTxns>>
      \/ /\ committedTxns[t] = "none" /\ InvokeReplicateTxn(t, inDependency[t])
         /\ activeTxns' = [activeTxns EXCEPT ![t] =
              [entry |-> "present", in |-> inDependency[t], out |-> <<>>]]
  BY DEF HandlePrepareTxn
<1>2. /\ \A u \in Txn : u # t => /\ inDependency'[u] = inDependency[u]
                                 /\ prepares'[u] = prepares[u]
                                 /\ pendingTxns'[u] = pendingTxns[u]
                                 /\ activeTxns'[u] = activeTxns[u]
      /\ prepares'[t] = prepares[t] + 1
  <2>1. UNCHANGED inDependency \/ inDependency' = [inDependency EXCEPT ![t] = 0]
    BY DEF HandlePrepareTxn
  <2> QED BY <1>0, <1>1, <2>1 DEF InvokeReplicateTxn
<1>3. \/ pendingTxns'[t] = pendingTxns[t] /\ activeTxns'[t] = activeTxns[t]
      \/ /\ committedTxns[t] = "none"
         /\ activeTxns'[t] = [entry |-> "present", in |-> inDependency[t], out |-> <<>>]
         /\ \/ IsPending(t) /\ pendingTxns'[t] = pendingTxns[t]
            \/ ~IsPending(t)
               /\ pendingTxns'[t] = [entry |-> "sent", has_precommit |-> inDependency[t] # 0]
  BY <1>0, <1>1 DEF InvokeReplicateTxn
<1>4. \A u \in Txn : activeTxns'[u].out = activeTxns[u].out
  <2>1. committedTxns[t] = "none" => activeTxns[t].out = <<>>
    BY DEF DepInv, Life
  <2>2. activeTxns'[t].out = activeTxns[t].out
    BY <1>3, <2>1, SMTT(30)
  <2> QED BY <1>2, <2>2
<1>5. /\ UNCHANGED <<kv, precommits>>
      /\ \A u \in Txn : prepares[u] =< prepares'[u]
  <2>1. UNCHANGED <<kv, precommits>>
    BY DEF HandlePrepareTxn, storeVars, StoreAbort, StorePrepare
  <2>2. \A u \in Txn : prepares[u] =< prepares'[u]
    BY <1>0, SMTT(30)
  <2> QED BY <2>1, <2>2
<1>6. \A u \in Txn : Finished(u)' <=> Finished(u)
  <2>1. \A u \in Txn : u # t => (Finished(u)' <=> Finished(u))
    BY <1>0, <1>2 DEF Finished, IsPending
  <2>2. Finished(t)' <=> Finished(t)
    BY <1>0, <1>3 DEF Finished, IsPending
  <2> QED BY <2>1, <2>2
<1>7. Lists' /\ Versions'
  BY <1>0, <1>5, <1>6 DEF DepInv, Lists, Versions
<1>8. /\ \A u : \A d \in Txn : Listed(d, u)' = Listed(d, u)
      /\ \A u : Edges(u)' = Edges(u)
  BY <1>4, EdgesKept
<1>9. \A u \in Txn : Life(u)
  BY DEF DepInv
<1>10. \A u \in Txn : (Orderly(u)' => Orderly(u)) /\ (Fine(u)' => Fine(u))
  BY <1>0, <1>5, FineKept
<1>11. ASSUME NEW u \in Txn PROVE Track(u)'
  <2>1. ReadFrom(u)' = ReadFrom(u) /\ ReadFrom(u) \subseteq Txn
    BY <1>0 DEF ReadFrom
  <2> QED BY <1>0, <1>6, <1>8, <2>1 DEF DepInv, Track
<1>12. ASSUME NEW u \in Txn, u # t PROVE Life(u)' /\ Count(u)' /\ Report(u)'
  <2>1. Life(u) /\ Count(u) /\ Report(u) /\ (IsPending(u)' <=> IsPending(u))
    BY <1>2, <1>12 DEF DepInv, IsPending
  <2>2. Life(u)'
    BY <1>0, <1>2, <1>12, <2>1 DEF Life, coordVars
  <2>3. Count(u)'
    BY <1>0, <1>2, <1>8, <1>10, <1>12, <2>1 DEF Count
  <2>4. Report(u)'
    BY <1>0, <1>2, <1>6, <1>10, <1>12, <2>1, ReportKept DEF coordVars
  <2> QED BY <2>2, <2>3, <2>4
<1>13. Life(t)'
  <2>1. prepares'[t] # 0
    BY <1>0, <1>2, SMTT(30)
  <2>2. activeTxns'[t].entry = "present" <=> IsPending(t)'
    <3>1. CASE pendingTxns'[t] = pendingTxns[t] /\ activeTxns'[t] = activeTxns[t]
      BY <1>9, <3>1 DEF Life, IsPending
    <3>2. CASE ~(pendingTxns'[t] = pendingTxns[t] /\ activeTxns'[t] = activeTxns[t])
      <4>1. activeTxns'[t].entry = "present"
        BY <1>3, <3>2, SMTT(30)
      <4>2. \/ pendingTxns'[t].entry = pendingTxns[t].entry /\ IsPending(t)
            \/ pendingTxns'[t].entry = "sent"
        BY <1>3, <3>2, SMTT(30)
      <4> QED BY <4>1, <4>2 DEF IsPending
    <3> QED BY <3>1, <3>2
  <2>3. activeTxns'[t].out # <<>> => IsPending(t)' /\ committedTxns'[t] # "none"
    BY <1>0, <1>3, <1>4, <1>9 DEF Life, IsPending
  <2> QED BY <1>0, <2>1, <2>2, <2>3 DEF Life
<1>14. CASE prepares[t] # 0
  <2>1. ~Orderly(t)'
    <3>1. ~(prepares'[t] =< 1)
      BY <1>0, <1>2, <1>14, SMTT(30)
    <3> QED BY <3>1 DEF Orderly
  <2>2. Count(t)' /\ Report(t)'
    BY <2>1 DEF Count, Report, Fine
  <2> QED BY <1>7, <1>11, <1>12, <1>13, <2>2 DEF DepInv
<1>15. CASE prepares[t] = 0
  <2>1. /\ ~IsPending(t) /\ t \notin announced /\ votes[t] = "none"
        /\ activeTxns[t].entry # "present" /\ \A c : <<t, c>> \notin cleared
    BY <1>9, <1>15 DEF Life
  <2>2. Orderly(t) => inDependency[t] = Cardinality(Edges(t))
    BY <1>15 DEF DepInv, Count
  <2>3. Cardinality(Edges(t)) \in Nat
    BY <1>0, EdgesFinite
  <2>4. Count(t)'
    <3>1. activeTxns'[t].entry = "present" => activeTxns'[t].in = inDependency[t]
      BY <1>3, <2>1, SMTT(30)
    <3>2. prepares'[t] # 0
      BY <1>0, <1>2, SMTT(30)
    <3>3. \A i, n : i = n /\ n \in Nat => i \in Nat /\ i =< n
      BY SMTT(30)
    <3> QED BY <1>8, <1>10, <2>2, <2>3, <3>1, <3>2, <3>3 DEF Count
  <2>5. Report(t)'
    <3>1. ASSUME Fine(t)', IsPending(t)', ~pendingTxns'[t].has_precommit
          PROVE  Settled(t)'
      <4> DEFINE dep == inDependency[t] # 0
      <4>1. pendingTxns'[t] = [entry |-> "sent", has_precommit |-> dep]
        BY <1>3, <2>1, <3>1 DEF IsPending
      <4> HIDE DEF dep
      <4>2. pendingTxns'[t].has_precommit = dep
        BY <4>1, SMTT(30)
      <4>3. inDependency[t] = 0
        BY <3>1, <4>2 DEF dep
      <4>4. Orderly(t) /\ t \notin cascaded
        BY <1>10, <3>1 DEF Fine, Orderly
      <4>5. Settled(t)
        BY <1>0, <2>2, <4>3, <4>4, NoEdges DEF DepInv
      <4> QED BY <1>0, <1>6, <4>5, SettledKept
    <3> QED BY <1>0, <2>1, <3>1 DEF Report, coordVars
  <2> QED BY <1>7, <1>11, <1>12, <1>13, <2>4, <2>5 DEF DepInv
<1> QED BY <1>14, <1>15

-----------------------------------------------------------------------------
\* What a decision on a pending transaction t leaves alone.
Decides(t, state) ==
  /\ pendingTxns' = [pendingTxns EXCEPT ![t] = NoPending]
  /\ committedTxns' = [committedTxns EXCEPT ![t] = state]
  /\ UNCHANGED <<prepares, seen, late, votes>>
  /\ \A u \in Txn : client'[u] = "reading" => client[u] = "reading"
  /\ \A u \in announced' : u \in announced \/ votes[u] = "clear"

\* A decision, as far as it does not depend on which.
LEMMA DecidesLemma ==
  ASSUME Typed, Typed', DepInv, NEW t \in Txn, IsPending(t),
         NEW state \in {"COMMIT", "ABORT"}, Decides(t, state),
         cascaded \subseteq cascaded',
         activeTxns'[t] = NoActive,
         \A u \in Txn : u # t => /\ activeTxns'[u].entry = activeTxns[u].entry
                                 /\ activeTxns'[u].out = activeTxns[u].out,
         \A u \in Txn : (\E c : <<u, c>> \in cleared') =>
           (\E c : <<u, c>> \in cleared) \/ activeTxns[u].entry = "present"
  PROVE  /\ \A u \in Txn : /\ u # t => pendingTxns'[u] = pendingTxns[u]
                           /\ IsPending(u)' <=> IsPending(u) /\ u # t
                           /\ committedTxns[u] # "none" => committedTxns'[u] # "none"
                           /\ Finished(u) => Finished(u)'
                           /\ Life(u)'
                           /\ (Orderly(u)' => Orderly(u)) /\ (Fine(u)' => Fine(u))
         /\ state = "COMMIT" => Finished(t)'
         /\ activeTxns'[t].out = <<>> /\ activeTxns'[t].entry = "absent"
<1>0. /\ pendingTxns \in [Txn -> Pending] /\ prepares \in [Txn -> Nat]
      /\ committedTxns \in [Txn -> {"none", "COMMIT", "ABORT"}]
  BY DEF Typed, TypeOK
<1>1. /\ \A u \in Txn : u # t => /\ pendingTxns'[u] = pendingTxns[u]
                                 /\ committedTxns'[u] = committedTxns[u]
      /\ pendingTxns'[t] = NoPending /\ committedTxns'[t] = state
  BY <1>0 DEF Decides
<1>2. ~IsPending(t)' /\ activeTxns'[t].out = <<>> /\ activeTxns'[t].entry = "absent"
  <2>1. pendingTxns'[t].entry = "absent"
    BY <1>1, SMTT(30) DEF NoPending
  <2>2. activeTxns'[t].out = <<>> /\ activeTxns'[t].entry = "absent"
    BY SMTT(30) DEF NoActive
  <2> QED BY <2>1, <2>2 DEF IsPending
<1>3. \A u \in Txn : /\ IsPending(u)' <=> IsPending(u) /\ u # t
                     /\ committedTxns[u] # "none" => committedTxns'[u] # "none"
                     /\ Finished(u) => Finished(u)'
  BY <1>1, <1>2 DEF IsPending, Finished
<1>4. state = "COMMIT" => Finished(t)'
  BY <1>1, <1>2 DEF Finished
<1>5. ASSUME NEW u \in Txn PROVE (Orderly(u)' => Orderly(u)) /\ (Fine(u)' => Fine(u))
  <2>1. UNCHANGED <<prepares, late>>
    BY DEF Decides
  <2> QED BY <2>1 DEF Orderly, Fine
<1>6. ASSUME NEW u \in Txn PROVE Life(u)'
  <2>1. Life(u) /\ Life(t)
    BY DEF DepInv
  <2>2. /\ prepares'[u] = prepares[u] /\ votes'[u] = votes[u]
        /\ client'[u] = "reading" => client[u] = "reading"
        /\ u \in announced' => u \in announced \/ votes[u] = "clear"
    BY DEF Decides
  <2>3. client'[u] = "reading" => prepares'[u] = 0
    BY <2>1, <2>2 DEF Life
  <2>4. prepares'[u] = 0 =>
          /\ ~IsPending(u)' /\ committedTxns'[u] = "none" /\ votes'[u] = "none"
          /\ u \notin announced' /\ \A c : <<u, c>> \notin cleared'
    <3>1. ASSUME prepares[u] = 0
          PROVE  /\ ~IsPending(u) /\ committedTxns[u] = "none" /\ votes[u] = "none"
                 /\ u # t /\ u \notin announced /\ \A c : <<u, c>> \notin cleared
                 /\ activeTxns[u].entry # "present"
      BY <2>1, <3>1 DEF Life
    <3> QED BY <1>1, <1>3, <2>2, <3>1
  <2>5. activeTxns'[u].entry = "present" <=> IsPending(u)'
    BY <1>2, <1>3, <2>1 DEF Life
  <2>6. activeTxns'[u].out # <<>> => IsPending(u)' /\ committedTxns'[u] # "none"
    BY <1>2, <1>3, <2>1 DEF Life
  <2> QED BY <2>3, <2>4, <2>5, <2>6 DEF Life
<1> QED BY <1>1, <1>2, <1>3, <1>4, <1>5, <1>6

\* The commit of a pending transaction t, told to its readers.
LEMMA DepCommit ==
  ASSUME Typed, Typed', DepInv, NEW t \in Txn, IsPending(t), Decides(t, "COMMIT"),
         StoreCommit(t, CommitTimestamp), notifyForFollowingDependenies(t),
         UNCHANGED cascaded
  PROVE  DepInv'
<1>0. /\ activeTxns \in [Txn -> Active] /\ precommits \in [Key -> Seq(Txn)]
      /\ UNCHANGED <<prepares, seen, late, votes>>
  BY DEF Typed, TypeOK, StoreTypeOK, Decides
<1>1. /\ activeTxns'[t] = NoActive
      /\ \A u \in Txn : u # t =>
           /\ activeTxns'[u].entry = activeTxns[u].entry
           /\ activeTxns'[u].out = activeTxns[u].out
           /\ activeTxns[u].entry = "present" =>
                activeTxns'[u].in = decreaseIn(activeTxns[u].in, Times(t, u))
  BY <1>0, SMTT(30) DEF notifyForFollowingDependenies, Active
<1>2. \A u \in Txn : (\E c : <<u, c>> \in cleared') =>
        \/ \E c : <<u, c>> \in cleared
        \/ activeTxns[u].entry = "present" /\ ClearsReader(t, u)
  <2> SUFFICES ASSUME NEW u \in Txn, NEW c, <<u, c>> \in cleared', <<u, c>> \notin cleared
               PROVE  activeTxns[u].entry = "present" /\ ClearsReader(t, u)
    OBVIOUS
  <2>1. <<u, c>> \in {<<v, correspondent[t]>> : v \in {v \in Readers(t) :
            activeTxns[v].entry = "present" /\ ClearsReader(t, v)}}
    BY DEF notifyForFollowingDependenies
  <2> QED BY <2>1
<1>3. /\ \A u \in Txn : /\ u # t => pendingTxns'[u] = pendingTxns[u]
                        /\ IsPending(u)' <=> IsPending(u) /\ u # t
                        /\ committedTxns[u] # "none" => committedTxns'[u] # "none"
                        /\ Finished(u) => Finished(u)'
                        /\ Life(u)'
                        /\ (Orderly(u)' => Orderly(u)) /\ (Fine(u)' => Fine(u))
      /\ Finished(t)'
      /\ activeTxns'[t].out = <<>> /\ activeTxns'[t].entry = "absent"
  BY <1>1, <1>2, DecidesLemma
<1>4. /\ \A u : \A w \in Txn : w # t => Listed(w, u)' = Listed(w, u)
      /\ \A u : Listed(t, u)' = {}
      /\ \A u : Cardinality(Edges(u)') = Cardinality(Edges(u)) - Times(t, u)
      /\ \A u : Cardinality(Edges(u)') = 0 => \A w \in Txn : Listed(w, u)' = {}
  BY <1>0, <1>1, <1>3, EdgesGone
<1>5. \A u \in Txn : /\ Cardinality(Edges(u)) \in Nat /\ Times(t, u) \in Nat
                     /\ Times(t, u) <= Cardinality(Edges(u))
  BY <1>0, EdgesFinite, ListedLemma
<1>6. Lists'
  <2> SUFFICES ASSUME NEW k \in Key, NEW i \in DOMAIN precommits'[k]
               PROVE  committedTxns'[precommits'[k][i]] # "none"
    BY DEF Lists
  <2> DEFINE list == precommits[k]
  <2>1. list \in Seq(Txn)
    BY <1>0
  <2>2. precommits'[k] = dropPreCommit(list, t) \/ precommits'[k] = list
    BY DEF StoreCommit
  <2>3. PICK j \in DOMAIN list : precommits'[k][i] = list[j]
    <3>1. CASE precommits'[k] = dropPreCommit(list, t)
      BY <2>1, <3>1, DropLemma, SMTT(30)
    <3>2. CASE precommits'[k] = list
      BY <3>2
    <3> QED BY <2>2, <3>1, <3>2
  <2>4. list[j] \in Txn
    BY <2>1, SMTT(30)
  <2> QED BY <1>3, <2>3, <2>4 DEF DepInv, Lists
<1>7. Versions'
  <2>1. \A k \in Key : \A v \in kv'[k] : v \in kv[k] \/ v.value = t
    <3>1. \A vs, w, u : \A v \in put(vs, w, u) : v \in vs \/ v.value = w
      BY SMTT(30) DEF put
    <3> QED BY <3>1 DEF StoreCommit
  <2> QED BY <1>3, <2>1 DEF DepInv, Versions
<1>8. ASSUME NEW u \in Txn, Orderly(u), activeTxns[u].entry = "present"
      PROVE  LET in == decreaseIn(activeTxns[u].in, Times(t, u))
             IN  /\ in \in Nat /\ in =< Cardinality(Edges(u)')
                 /\ u \notin late => in = Cardinality(Edges(u)')
  <2> DEFINE n == Cardinality(Edges(u))
             c == Times(t, u)
             i == activeTxns[u].in
  <2>1. /\ n \in Nat /\ c \in Nat /\ c =< n /\ Cardinality(Edges(u)') = n - c
    BY <1>4, <1>5
  <2>2. i \in Nat /\ i =< n /\ (u \notin late => i = n)
    BY <1>8 DEF DepInv, Count
  <2> HIDE DEF n, c, i
  <2>3. decreaseIn(i, c) \in Nat /\ decreaseIn(i, c) =< n - c
    BY <2>1, <2>2, SMTT(30) DEF decreaseIn
  <2>4. i = n => decreaseIn(i, c) = n - c
    BY <2>1, <2>2, SMTT(30) DEF decreaseIn
  <2> QED BY <2>1, <2>2, <2>3, <2>4 DEF c, i
<1>9. ASSUME NEW u \in Txn PROVE Count(u)'
  <2>1. ASSUME Orderly(u)', prepares'[u] = 0
        PROVE  inDependency'[u] = Cardinality(Edges(u)')
    <3>1. activeTxns[u].entry # "present" /\ inDependency[u] = Cardinality(Edges(u))
      BY <1>0, <1>3, <2>1 DEF DepInv, Life, Count
    <3>2. inDependency'[u] = inDependency[u] - Times(t, u)
      BY <3>1 DEF notifyForFollowingDependenies
    <3> QED BY <1>4, <3>1, <3>2
  <2>2. ASSUME Orderly(u)', activeTxns'[u].entry = "present"
        PROVE  /\ activeTxns'[u].in \in Nat /\ activeTxns'[u].in =< Cardinality(Edges(u)')
               /\ u \notin late' => activeTxns'[u].in = Cardinality(Edges(u)')
    <3>1. u # t /\ Orderly(u)
      BY <1>3, <2>2
    <3>2. activeTxns[u].entry = "present"
          /\ activeTxns'[u].in = decreaseIn(activeTxns[u].in, Times(t, u))
      BY <1>1, <2>2, <3>1
    <3> QED BY <1>0, <1>8, <3>1, <3>2
  <2> QED BY <2>1, <2>2 DEF Count
<1>10. ASSUME NEW u \in Txn PROVE Track(u)'
  <2>1. ReadFrom(u)' = ReadFrom(u) /\ ReadFrom(u) \subseteq Txn
    BY <1>0 DEF ReadFrom
  <2> SUFFICES ASSUME u \notin cascaded, NEW d \in ReadFrom(u)
               PROVE  Finished(d)' \/ Listed(d, u)' # {}
    BY <2>1 DEF Track
  <2>2. d \in Txn /\ (Finished(d) \/ Listed(d, u) # {})
    BY <2>1 DEF DepInv, Track
  <2> QED BY <1>3, <1>4, <2>2
<1>11. ASSUME NEW u \in Txn PROVE Report(u)'
  <2>1. ASSUME Fine(u)', \E c : <<u, c>> \in cleared'
        PROVE  (\E c : <<u, c>> \in cleared) \/ Settled(u)'
    <3> SUFFICES ASSUME activeTxns[u].entry = "present", ClearsReader(t, u)
                 PROVE  Settled(u)'
      BY <1>2, <2>1
    <3>1. Orderly(u) /\ u \notin late
      BY <1>3, <2>1 DEF Fine
    <3>2. Cardinality(Edges(u)') = 0
      BY <1>8, <3>1 DEF ClearsReader
    <3>3. \A d \in Txn : Listed(d, u)' = {}
      BY <1>4, <3>2
    <3>4. u \notin cascaded'
      BY <2>1 DEF Fine, Orderly
    <3> QED BY <1>10, <3>3, <3>4 DEF Track, Settled, ReadFrom
  <2>2. IsPending(u)' => IsPending(u) /\ pendingTxns'[u] = pendingTxns[u]
    BY <1>3
  <2>3. Report(u) /\ seen'[u] = seen[u] /\ votes'[u] = votes[u]
        /\ (u \in announced' => u \in announced \/ votes[u] = "clear")
    BY DEF DepInv, Decides
  <2> QED BY <1>3, <2>1, <2>2, <2>3, ReportKept
<1> QED BY <1>3, <1>6, <1>7, <1>9, <1>10, <1>11 DEF DepInv

\* The abort of a pending transaction t: whoever has read from it is out of
\* order from then on, and so is whoever is marked.
LEMMA DepAbort ==
  ASSUME Typed, Typed', DepInv, NEW t \in Txn, IsPending(t), Decides(t, "ABORT"),
         CascadeAbort(t)
  PROVE  DepInv'
<1>0. /\ activeTxns \in [Txn -> Active] /\ precommits \in [Key -> Seq(Txn)]
      /\ UNCHANGED <<prepares, seen, late, votes, kv, precommits, cleared>>
      /\ cascaded \subseteq cascaded' /\ Readers(t) \subseteq cascaded'
  <2>1. Readers(t) \subseteq UNION {Readers(u) : u \in Cascade(t) \cup {t}}
    OBVIOUS
  <2>2. cascaded \subseteq cascaded' /\ Readers(t) \subseteq cascaded'
    BY <2>1 DEF CascadeAbort
  <2> QED BY <2>2 DEF Typed, TypeOK, StoreTypeOK, Decides, CascadeAbort, StoreAbort
<1>1. activeTxns'[t] = NoActive /\ \A u \in Txn : u # t => activeTxns'[u] = activeTxns[u]
  BY <1>0 DEF CascadeAbort
<1>2. /\ \A u \in Txn : /\ u # t => pendingTxns'[u] = pendingTxns[u]
                        /\ IsPending(u)' <=> IsPending(u) /\ u # t
                        /\ committedTxns[u] # "none" => committedTxns'[u] # "none"
                        /\ Finished(u) => Finished(u)'
                        /\ Life(u)'
                        /\ (Orderly(u)' => Orderly(u)) /\ (Fine(u)' => Fine(u))
      /\ activeTxns'[t].out = <<>> /\ activeTxns'[t].entry = "absent"
  BY <1>0, <1>1, DecidesLemma
<1>3. /\ \A u : \A w \in Txn : w # t => Listed(w, u)' = Listed(w, u)
      /\ \A u : Cardinality(Edges(u)') = Cardinality(Edges(u)) - Times(t, u)
  BY <1>0, <1>1, <1>2, EdgesGone
<1>4. \A u \in Txn : u \notin cascaded' =>
        Listed(t, u) = {} /\ Cardinality(Edges(u)') = Cardinality(Edges(u))
  <2> SUFFICES ASSUME NEW u \in Txn, u \notin cascaded'
               PROVE  Listed(t, u) = {} /\ Cardinality(Edges(u)') = Cardinality(Edges(u))
    OBVIOUS
  <2>1. IsFiniteSet(Listed(t, u)) /\ Times(t, u) \in Nat /\ Cardinality(Edges(u)) \in Nat
    BY <1>0, ListedLemma, EdgesFinite
  <2>2. ~(Times(t, u) > 0)
    BY <1>0 DEF Readers
  <2>3. Times(t, u) = 0
    BY <2>1, <2>2, SMTT(30)
  <2>4. Listed(t, u) = {}
    BY <2>1, <2>3, FS_EmptySet DEF Times
  <2>5. Cardinality(Edges(u)') = Cardinality(Edges(u)) - 0
    BY <1>3, <2>3
  <2>6. \A n \in Nat : n - 0 = n
    BY SMTT(30)
  <2> QED BY <2>1, <2>4, <2>5, <2>6
<1>5. \A u \in Txn : u \notin cascaded' => inDependency'[u] = inDependency[u]
  <2> SUFFICES ASSUME NEW u \in Txn, u \notin cascaded'
               PROVE  inDependency'[u] = inDependency[u]
    OBVIOUS
  <2>1. \A w \in Cascade(t) : u \notin Readers(w)
    BY DEF CascadeAbort
  <2> QED BY <2>1 DEF CascadeAbort
<1>6. Lists'
  <2>1. \A k \in Key : \A i \in DOMAIN precommits[k] : precommits[k][i] \in Txn
    BY <1>0, SMTT(30)
  <2> QED BY <1>0, <1>2, <2>1 DEF DepInv, Lists
<1>7. Versions'
  BY <1>0, <1>2 DEF DepInv, Versions
<1>8. ASSUME NEW u \in Txn PROVE Count(u)'
  <2> SUFFICES ASSUME Orderly(u)'
               PROVE  /\ prepares'[u] = 0 => inDependency'[u] = Cardinality(Edges(u)')
                      /\ activeTxns'[u].entry = "present" =>
                           /\ activeTxns'[u].in \in Nat
                           /\ activeTxns'[u].in =< Cardinality(Edges(u)')
                           /\ u \notin late' => activeTxns'[u].in = Cardinality(Edges(u)')
    BY DEF Count
  <2>1. u \notin cascaded' /\ Orderly(u) /\ Count(u)
    BY <1>2 DEF Orderly, DepInv
  <2>2. Cardinality(Edges(u)') = Cardinality(Edges(u)) /\ inDependency'[u] = inDependency[u]
    BY <1>4, <1>5, <2>1
  <2>3. activeTxns'[u].entry = "present" => activeTxns'[u] = activeTxns[u]
    BY <1>1, <1>2
  <2> QED BY <1>0, <2>1, <2>2, <2>3 DEF Count
<1>9. ASSUME NEW u \in Txn PROVE Track(u)'
  <2>1. ReadFrom(u)' = ReadFrom(u) /\ ReadFrom(u) \subseteq Txn
    BY <1>0 DEF ReadFrom
  <2> SUFFICES ASSUME u \notin cascaded', NEW d \in ReadFrom(u)
               PROVE  Finished(d)' \/ Listed(d, u)' # {}
    BY <2>1 DEF Track
  <2>2. d \in Txn /\ (Finished(d) \/ Listed(d, u) # {})
    BY <1>0, <2>1 DEF DepInv, Track
  <2> QED BY <1>2, <1>3, <1>4, <2>2
<1>10. ASSUME NEW u \in Txn PROVE Report(u)'
  <2>1. IsPending(u)' => IsPending(u) /\ pendingTxns'[u] = pendingTxns[u]
    BY <1>2
  <2>2. Report(u) /\ (u \in announced' => u \in announced \/ votes[u] = "clear")
    BY DEF DepInv, Decides
  <2> QED BY <1>0, <1>2, <2>1, <2>2, ReportKept
<1> QED BY <1>2, <1>6, <1>7, <1>8, <1>9, <1>10 DEF DepInv

\* A decision: the commit or the abort of a pending transaction, or nothing.
LEMMA DepDecide ==
  ASSUME Typed, Typed', DepInv, NEW t \in Txn, NEW state \in {"COMMIT", "ABORT"},
         DoCommit(t, state), UNCHANGED <<prepares, seen, late, votes>>,
         \A u \in Txn : client'[u] = "reading" => client[u] = "reading",
         \A u \in announced' : u \in announced \/ votes[u] = "clear"
  PROVE  DepInv'
<1>1. CASE ~IsPending(t)
  <2>1. UNCHANGED <<storeVars, leaderVars, cleared, cascaded>>
    BY <1>1 DEF DoCommit
  <2>2. \A u \in Txn : IsPending(u)' <=> IsPending(u)
    BY <2>1 DEF leaderVars, IsPending
  <2> QED BY <2>1, <2>2, DepFrame DEF storeVars, leaderVars
<1>2. CASE IsPending(t)
  <2>1. Decides(t, state)
    BY <1>2 DEF DoCommit, Decides
  <2>2. \/ /\ state = "COMMIT" /\ StoreCommit(t, CommitTimestamp)
           /\ notifyForFollowingDependenies(t) /\ UNCHANGED cascaded
        \/ state = "ABORT" /\ CascadeAbort(t)
    BY <1>2 DEF DoCommit
  <2> QED BY <1>2, <2>1, <2>2, DepCommit, DepAbort
<1> QED BY <1>1, <1>2

\* A pre-commit.
LEMMA DepPreCommit ==
  ASSUME Typed, Typed', DepInv, NEW t \in Txn, IsPending(t),
         StorePreCommit(t), committedTxns' = [committedTxns EXCEPT ![t] = "COMMIT"],
         UNCHANGED <<activeTxns, inDependency, pendingTxns, clientVars, votes, cleared,
                     announced, cascaded>>
  PROVE  DepInv'
<1>0. /\ committedTxns \in [Txn -> {"none", "COMMIT", "ABORT"}]
      /\ precommits \in [Key -> Seq(Txn)]
      /\ UNCHANGED <<kv, seen, late, prepares, client>>
  BY DEF Typed, TypeOK, StoreTypeOK, StorePreCommit, clientVars, readVars
<1>1. \A u \in Txn : /\ IsPending(u)' <=> IsPending(u)
                     /\ Finished(u)' <=> Finished(u)
                     /\ committedTxns[u] # "none" => committedTxns'[u] # "none"
                     /\ u # t => committedTxns'[u] = committedTxns[u]
  BY <1>0 DEF IsPending, Finished
<1>2. Lists'
  <2> SUFFICES ASSUME NEW k \in Key, NEW i \in DOMAIN precommits'[k]
               PROVE  committedTxns'[precommits'[k][i]] # "none"
    BY DEF Lists
  <2> DEFINE list == precommits[k]
  <2>1. precommits'[k] = list \/ precommits'[k] = Append(list, t)
    BY DEF StorePreCommit, preCommit
  <2>2. list \in Seq(Txn) /\ committedTxns'[t] # "none"
    BY <1>0
  <2>3. precommits'[k][i] = t \/ (i \in DOMAIN list /\ precommits'[k][i] = list[i])
    BY <2>1, <2>2, SMTT(30)
  <2>4. i \in DOMAIN list => list[i] \in Txn
    BY <2>2, SMTT(30)
  <2> QED BY <1>1, <2>2, <2>3, <2>4 DEF DepInv, Lists
<1>3. Versions'
  BY <1>0, <1>1 DEF DepInv, Versions
<1>4. /\ \A u : \A d \in Txn : Listed(d, u)' = Listed(d, u)
      /\ \A u : Edges(u)' = Edges(u)
  BY EdgesKept
<1>5. \A u \in Txn : (Orderly(u)' <=> Orderly(u)) /\ (Fine(u)' <=> Fine(u))
  BY <1>0 DEF Orderly, Fine
<1>6. ASSUME NEW u \in Txn PROVE Life(u)' /\ Count(u)' /\ Track(u)' /\ Report(u)'
  <2>1. Life(u) /\ Count(u) /\ Track(u) /\ Report(u)
    BY DEF DepInv
  <2>2. Life(u)'
    <3>1. prepares[u] = 0 => u # t
      BY <2>1 DEF Life
    <3> QED BY <1>0, <1>1, <2>1, <3>1 DEF Life
  <2>3. Count(u)'
    BY <1>0, <1>4, <1>5, <2>1 DEF Count
  <2>4. Track(u)'
    <3>1. ReadFrom(u)' = ReadFrom(u) /\ ReadFrom(u) \subseteq Txn
      BY <1>0 DEF ReadFrom
    <3> QED BY <1>1, <1>4, <2>1, <3>1 DEF Track
  <2>5. Report(u)'
    BY <1>0, <1>1, <1>5, <2>1, ReportKept
  <2> QED BY <2>2, <2>3, <2>4, <2>5
<1> QED BY <1>2, <1>3, <1>6 DEF DepInv

-----------------------------------------------------------------------------
LEMMA DepInit == Init => DepInv
<1> SUFFICES ASSUME Init PROVE DepInv
  OBVIOUS
<1>0. Typed /\ \A t \in Txn : activeTxns[t] = NoActive /\ ~IsPending(t)
  BY TypedInit DEF Init, IsPending, NoPending
<1>1. \A d \in Txn : activeTxns[d].out = <<>> /\ activeTxns[d].entry = "absent"
  BY <1>0, SMTT(30) DEF NoActive
<1>2. \A t : \A d \in Txn : Listed(d, t) = {}
  BY <1>1, SMTT(30) DEF Listed
<1>3. \A t : Cardinality(Edges(t)) = 0
  BY <1>0, <1>2, EdgesFinite DEF Typed, TypeOK
<1>4. \A t \in Txn : ReadFrom(t) = {}
  BY StoreAssumption DEF Init, ReadFrom
<1>5. Versions
  <2>1. \A k \in Key : \A v \in kv[k] : v = [write |-> 0, value |-> Loader]
    BY DEF Init, StoreInit, put
  <2>2. \A k \in Key : \A v \in kv[k] : v.value = Loader
    BY <2>1, SMTT(30)
  <2> QED BY <2>2, StoreAssumption DEF Versions
<1>6. Lists
  BY SMTT(30) DEF Init, StoreInit, Lists
<1>7. \A t \in Txn : Life(t) /\ Count(t)
  BY <1>0, <1>1, <1>3 DEF Init, Life, Count
<1>8. \A t \in Txn : Track(t) /\ Report(t)
  BY <1>0, <1>4 DEF Init, Track, Report, Settled
<1> QED BY <1>5, <1>6, <1>7, <1>8 DEF DepInv

LEMMA DepNext == Typed /\ Typed' /\ DepInv /\ [Next]_vars => DepInv'
<1> SUFFICES ASSUME Typed, Typed', DepInv, [Next]_vars PROVE DepInv'
  OBVIOUS
<1>1. CASE UNCHANGED vars
  <2>1. \A u \in Txn : IsPending(u)' <=> IsPending(u)
    BY <1>1 DEF vars, leaderVars, IsPending
  <2> QED BY <1>1, <2>1, DepFrame
          DEF vars, storeVars, leaderVars, clientVars, readVars, coordVars
<1>2. ASSUME NEW t \in Txn, NEW k \in Key,
             HandleRead(t, k) \/ HandleReadAtFollower(t, k)
      PROVE  DepInv'
  BY <1>2, DepRead, DepFollower
<1>3. ASSUME NEW t \in Txn, HandlePrepareTxn(t) PROVE DepInv'
  BY <1>3, DepPrepare
<1>4. ASSUME NEW t \in Txn, HandleConsensus(t) PROVE DepInv'
  <2>1. /\ pendingTxns' = [pendingTxns EXCEPT ![t].entry = "consensus"]
        /\ pendingTxns[t].entry = "sent" /\ pendingTxns \in [Txn -> Pending]
    BY <1>4 DEF HandleConsensus, Typed, TypeOK
  <2>2. \A u \in Txn : /\ IsPending(u)' <=> IsPending(u)
                       /\ pendingTxns'[u].has_precommit = pendingTxns[u].has_precommit
    BY <2>1 DEF IsPending, Pending
  <2> QED BY <1>4, <2>2, DepFrame
          DEF HandleConsensus, storeVars, clientVars, readVars, coordVars
<1>5. ASSUME NEW t \in Txn, HandleCommit(t) PROVE DepInv'
  <2>1. PICK state \in {"COMMIT", "ABORT"} : DoCommit(t, state)
    BY <1>5 DEF HandleCommit
  <2>2. UNCHANGED <<client, prepares, seen, late, votes, announced>>
    BY <1>5 DEF HandleCommit, clientVars, readVars
  <2> QED BY <2>1, <2>2, DepDecide
<1>6. ASSUME NEW t \in Txn, HandleDecisionFromCoordinatorReplica(t) PROVE DepInv'
  <2>1. CASE IsPending(t)
    BY <1>6, <2>1, DepPreCommit DEF HandleDecisionFromCoordinatorReplica
  <2>2. CASE ~IsPending(t)
    <3>1. UNCHANGED <<storeVars, committedTxns, activeTxns, inDependency, pendingTxns,
                      clientVars, votes, cleared, announced, cascaded>>
      BY <1>6, <2>2 DEF HandleDecisionFromCoordinatorReplica
    <3>2. \A u \in Txn : IsPending(u)' <=> IsPending(u)
      BY <3>1 DEF IsPending
    <3> QED BY <3>1, <3>2, DepFrame DEF storeVars, clientVars, readVars
  <2> QED BY <2>1, <2>2
<1>7. ASSUME NEW t \in Txn, HandleReplicateResultFromCoordinatorReplica(t) PROVE DepInv'
  <2>1. /\ DoCommit(t, "COMMIT") /\ UNCHANGED <<prepares, seen, late, votes>>
        /\ announced' = announced \cup {t} /\ votes[t] = "clear"
        /\ client \in [Txn -> Phase]
        /\ client' = [client EXCEPT ![t] =
             IF IsPending(t) /\ client[t] = "preparing" THEN "committed" ELSE client[t]]
    BY <1>7 DEF HandleReplicateResultFromCoordinatorReplica, readVars, Typed
  <2>2. \A u \in Txn : client'[u] = "reading" => client[u] = "reading"
    BY <2>1
  <2> QED BY <2>1, <2>2, DepDecide
<1>8. ASSUME NEW t \in Txn, NEW phase, phase # "reading", SetClient(t, phase)
      PROVE  DepInv'
  <2>1. \A u \in Txn : (IsPending(u)' <=> IsPending(u))
                       /\ (client'[u] = "reading" => client[u] = "reading")
    BY <1>8 DEF SetClient, leaderVars, IsPending, Typed
  <2> QED BY <1>8, <2>1, DepFrame DEF SetClient, storeVars, leaderVars, readVars, coordVars
<1>9. ASSUME NEW t \in Txn, NEW v, SetVote(t, v), prepares[t] # 0,
             Fine(t) /\ v = "clear" => Settled(t)
      PROVE  DepInv'
  <2>1. \A u \in Txn :
          /\ IsPending(u)' <=> IsPending(u)
          /\ \/ votes'[u] = votes[u]
             \/ prepares[u] # 0 /\ (Fine(u) /\ votes'[u] = "clear" => Settled(u))
    BY <1>9 DEF SetVote, leaderVars, IsPending, Typed
  <2> QED BY <1>9, <2>1, DepFrame DEF SetVote, storeVars, leaderVars, clientVars, readVars
<1>10. ASSUME NEW t \in Txn, ClientPrepares(t) \/ ClientCommits(t) \/ ClientAborts(t)
       PROVE  DepInv'
  BY <1>8, <1>10 DEF ClientPrepares, ClientCommits, ClientAborts
<1>11. ASSUME NEW t \in Txn, CoordinatorVote(t) PROVE DepInv'
  <2>1. IsPending(t) /\ prepares[t] # 0
        /\ SetVote(t, IF pendingTxns[t].has_precommit THEN "blocked" ELSE "clear")
    BY <1>11 DEF CoordinatorVote, DepInv, Life
  <2>2. Fine(t) /\ ~pendingTxns[t].has_precommit => Settled(t)
    BY <2>1 DEF DepInv, Report
  <2> QED BY <1>9, <2>1, <2>2
<1>12. ASSUME NEW t \in Txn, CoordinatorCleared(t) PROVE DepInv'
  <2>1. prepares[t] # 0 /\ SetVote(t, "clear") /\ (Fine(t) => Settled(t))
    BY <1>12 DEF CoordinatorCleared, DepInv, Life, Report
  <2> QED BY <1>9, <2>1
<1> QED BY <1>1, <1>2, <1>3, <1>4, <1>5, <1>6, <1>7, <1>10, <1>11, <1>12 DEF Next

LEMMA DepInductive == Spec => [](Typed /\ DepInv)
<1>1. Init => Typed /\ DepInv
  BY TypedInit, DepInit
<1>2. Typed /\ DepInv /\ [Next]_vars => (Typed /\ DepInv)'
  BY TypedNext, DepNext
<1> QED BY <1>1, <1>2, PTL DEF Spec

(***************************************************************************)
(* The counters of a transaction are the numbers of its edges, for every   *)
(* set of transactions and whatever they read and write, unless it         *)
(* prepares twice or is hit by an abort: HandleRead adds to both,          *)
(* HandlePrepareTxn moves the count, notifyForFollowingDependenies takes   *)
(* both away.  A late read leaves the count below the edges.               *)
(***************************************************************************)
THEOREM DependenciesTheorem == Spec => []DependenciesCounted
<1>1. Typed /\ DepInv => DependenciesCounted
  BY DEF DepInv, Count, DependenciesCounted
<1> QED BY <1>1, DepInductive, PTL

(***************************************************************************)
(* No commit is announced before everything the transaction has read from  *)
(* is committed at the leader, for every set of transactions, whatever     *)
(* becomes of the others, unless it prepares twice, is hit by an abort or  *)
(* is read for after its prepare: a vote without dependencies, and the     *)
(* notification that they are cleared, mean that no edge is left.          *)
(***************************************************************************)
THEOREM AnnouncedTheorem == Spec => []AnnouncedAfterDependencies
<1>1. Typed /\ DepInv => AnnouncedAfterDependencies
  BY DEF DepInv, Report, Fine, Settled, AnnouncedAfterDependencies, Typed
<1> QED BY <1>1, DepInductive, PTL
=============================================================================
