------------------------------ MODULE VRLemmas ------------------------------
(***************************************************************************)
(* Viewstamped replication: what the operators on logs do, the invariant,  *)
(* and that normal operation preserves it.                                 *)
(*                                                                         *)
(* The invariant speaks of a ledger L: for every view that has started,    *)
(* the longest log its leader has had in it.  No variable holds it; the    *)
(* invariant says that there is one.                                       *)
(***************************************************************************)
EXTENDS VRReplica, TLAPS

\* Most leaves are first-order; the ones that need arithmetic or records say SMT.
USE ZenonT(60)

-----------------------------------------------------------------------------
(***************************************************************************)
(* Numbers and quorums.                                                    *)
(***************************************************************************)
\* The sets of replicas that can decide.
Quorums == {Q \in SUBSET Replica : Cardinality(Q) >= QuorumSize}

\* The replicas that sent the messages of X.
Senders(X) == {x.replicaidx : x \in X}

\* What the argument takes from arithmetic and from counting: a set of numbers has
\* a least one, two quorums have a replica in common, and messages of different
\* replicas, none of them r, count a quorum with r.  VRProofs shows it.
Counting ==
  /\ \A T \in SUBSET Nat : T # {} => \E x \in T : \A y \in T : x <= y
  /\ \A P, Q \in Quorums : \E q \in P : q \in Q
  /\ \A X : \A r \in Replica :
       /\ \A x \in X : x.replicaidx \in Replica \ {r}
       /\ \A x, y \in X : x.replicaidx = y.replicaidx => x = y
       /\ Cardinality(X) >= QuorumSize - 1
       => Senders(X) \cup {r} \in Quorums

\* A set of numbers has a least one.
LEMMA Least ==
  ASSUME Counting, NEW T, T \subseteq Nat, T # {}
  PROVE  \E x \in T : \A y \in T : x <= y
BY DEF Counting

\* Two quorums have a replica in common.
LEMMA QuorumsMeet ==
  ASSUME Counting, NEW P \in Quorums, NEW Q \in Quorums
  PROVE  \E q \in P : q \in Q
BY DEF Counting

\* The senders of messages of different replicas, with a replica that sent none.
LEMMA SendersQuorum ==
  ASSUME Counting, NEW X, NEW r \in Replica, \A x \in X : x.replicaidx \in Replica \ {r},
         \A x, y \in X : x.replicaidx = y.replicaidx => x = y,
         Cardinality(X) >= QuorumSize - 1
  PROVE  Senders(X) \cup {r} \in Quorums
BY DEF Counting

\* A set of numbers with a bound has a greatest one.
LEMMA Greatest ==
  ASSUME Counting, NEW T, T \subseteq Nat, T # {}, NEW b \in Nat, \A y \in T : y <= b
  PROVE  \E x \in T : \A y \in T : y <= x
<1> DEFINE U == {u \in Nat : u <= b /\ b - u \in T}
<1>1. U \subseteq Nat /\ U # {}
  <2>1. PICK y \in T : TRUE
    OBVIOUS
  <2> b - y \in U
    BY <2>1, SMTT(30)
  <2> QED OBVIOUS
<1> HIDE DEF U
<1>2. PICK u \in U : \A w \in U : u <= w
  BY <1>1, Least
<1>3. b - u \in T /\ u \in Nat /\ u <= b
  BY <1>2 DEF U
<1>4. ASSUME NEW y \in T PROVE y <= b - u
  <2>1. b - y \in U
    BY SMTT(30) DEF U
  <2> u <= b - y
    BY <1>2, <2>1
  <2> QED BY <1>3, SMTT(30)
<1> QED BY <1>3, <1>4

\* The leader of a view is a replica.
LEMMA LeaderIsReplica ==
  ASSUME NEW v \in Nat
  PROVE  GetLeaderIndex(v) \in Replica
BY VRAssumption, SMTT(30) DEF GetLeaderIndex, Replica

-----------------------------------------------------------------------------
(***************************************************************************)
(* The log.                                                                *)
(***************************************************************************)
\* The members of a replica; M is the set of messages.
RepType(M) ==
  [status : Status, view : Nat, log : Seq(LogEntry), lastOp : Nat,
   lastCommitted : Nat, lastBatchEnd : Nat, batchOpen : BOOLEAN,
   clientTable : SUBSET Client, prepareOKs : SUBSET M,
   startViewChanges : SUBSET M, doViewChanges : SUBSET M,
   executed : Seq(Client)]

\* Every entry of a log is at its number.
Numbered(K) == K \in Seq(LogEntry) /\ \A i \in 1..Len(K) : K[i].opnum = i

\* entries are those of K from number a to number k.
Slice(entries, K, a, k) ==
  /\ a \in Nat \ {0} /\ k \in 0..Len(K)
  /\ entries \in Seq(LogEntry)
  /\ Len(entries) = IF a <= k THEN k - a + 1 ELSE 0
  /\ \A i \in 1..Len(entries) : entries[i] = K[a + i - 1]

\* The committed part of the log is that of H, and so are the entries with the
\* same viewstamp.
Agrees(s, H, k) ==
  \A j \in 1..Len(s.log) :
    j <= k /\ (j <= s.lastCommitted \/ s.log[j].view = H[j].view) => s.log[j] = H[j]

\* What is known of a sequence.
LEMMA SeqLen ==
  ASSUME NEW S, NEW K \in Seq(S)
  PROVE  /\ Len(K) \in Nat /\ DOMAIN K = 1..Len(K)
         /\ \A i \in 1..Len(K) : K[i] \in S
BY SMTT(30)

\* Two sequences, one after the other.
LEMMA ConcatLemma ==
  ASSUME NEW S, NEW B \in Seq(S), NEW C \in Seq(S)
  PROVE  /\ B \o C \in Seq(S) /\ Len(B \o C) = Len(B) + Len(C)
         /\ \A j \in 1..Len(B) : (B \o C)[j] = B[j]
         /\ \A j \in 1..Len(C) : (B \o C)[Len(B) + j] = C[j]
BY SMTT(30)

\* A part of a sequence.
LEMMA SubSeqLemma ==
  ASSUME NEW S, NEW B \in Seq(S), NEW a \in Nat \ {0}, NEW b \in Nat, a <= b, b <= Len(B)
  PROVE  /\ SubSeq(B, a, b) \in Seq(S) /\ Len(SubSeq(B, a, b)) = b - a + 1
         /\ DOMAIN SubSeq(B, a, b) = 1..(b - a + 1)
         /\ \A i \in 1..(b - a + 1) : SubSeq(B, a, b)[i] = B[a + i - 1]
BY SMTT(30)

\* The last entry of a numbered log.
LEMMA LastLemma ==
  ASSUME NEW K, Numbered(K)
  PROVE  /\ Len(K) \in Nat /\ LastOpnum(K) = Len(K)
         /\ Len(K) = 0 => LastViewstamp(K).view = 0
         /\ Len(K) # 0 => LastViewstamp(K).view = K[Len(K)].view
<1> K \in Seq(LogEntry) /\ Len(K) \in Nat
  BY SeqLen DEF Numbered
<1>2. CASE K = <<>>
  <2> Len(K) = 0
    BY <1>2, SMTT(30)
  <2> QED BY <1>2, SMTT(30) DEF LastOpnum, LastViewstamp
<1>3. CASE K # <<>>
  <2>1. Len(K) # 0 /\ Len(K) \in 1..Len(K)
    BY <1>3, SMTT(30)
  <2> K[Len(K)].opnum = Len(K)
    BY <2>1 DEF Numbered
  <2> QED BY <1>3, <2>1, SMTT(30) DEF LastOpnum, LastViewstamp
<1> QED BY <1>2, <1>3

\* RemoveAfter leaves the entries before op.
LEMMA RemoveAfterLemma ==
  ASSUME NEW K, Numbered(K), NEW op \in Nat \ {0}
  PROVE  /\ Numbered(RemoveAfter(K, op))
         /\ Len(RemoveAfter(K, op)) = IF op > Len(K) THEN Len(K) ELSE op - 1
         /\ \A i \in 1..Len(RemoveAfter(K, op)) : i \in 1..Len(K) /\ RemoveAfter(K, op)[i] = K[i]
<1> LastOpnum(K) = Len(K) /\ K \in Seq(LogEntry) /\ Len(K) \in Nat
  BY LastLemma DEF Numbered
<1>2. CASE op > Len(K)
  <2> RemoveAfter(K, op) = K
    BY <1>2 DEF RemoveAfter
  <2> QED BY <1>2
<1>3. CASE ~(op > Len(K))
  <2>1. RemoveAfter(K, op) = SubSeq(K, 1, op - 1)
    BY <1>3 DEF RemoveAfter
  <2>2. op - 1 \in Nat /\ op - 1 <= Len(K)
    BY <1>3, SMTT(30)
  <2> /\ SubSeq(K, 1, op - 1) \in Seq(LogEntry) /\ Len(SubSeq(K, 1, op - 1)) = op - 1
      /\ \A i \in 1..(op - 1) : i \in 1..Len(K) /\ SubSeq(K, 1, op - 1)[i] = K[i]
    BY <2>2, SMTT(30)
  <2> QED BY <1>3, <2>1 DEF Numbered
<1> QED BY <1>2, <1>3

\* Dump gives the entries from a number on.
LEMMA DumpLemma ==
  ASSUME NEW K, Numbered(K), NEW from \in Nat
  PROVE  Slice(Dump(K, from), K, IF from = 0 THEN 1 ELSE from, Len(K))
<1> DEFINE a == IF from = 0 THEN 1 ELSE from
<1> LastOpnum(K) = Len(K) /\ K \in Seq(LogEntry) /\ Len(K) \in Nat
  BY LastLemma DEF Numbered
<1>2. Dump(K, from) = SubSeq(K, a, Len(K))
  BY DEF Dump
<1>3. a \in Nat /\ a # 0
  BY SMTT(30)
<1> HIDE DEF a
<1>4. /\ SubSeq(K, a, Len(K)) \in Seq(LogEntry)
      /\ Len(SubSeq(K, a, Len(K))) = IF a <= Len(K) THEN Len(K) - a + 1 ELSE 0
      /\ \A i \in 1..Len(SubSeq(K, a, Len(K))) : SubSeq(K, a, Len(K))[i] = K[a + i - 1]
  BY <1>3, SMTT(30)
<1>5. Len(K) \in 0..Len(K)
  BY SMTT(30)
<1> Slice(Dump(K, from), K, a, Len(K))
  BY <1>2, <1>3, <1>4, <1>5 DEF Slice
<1> QED BY DEF a

\* The entries of a slice have the numbers a .. k.
LEMMA SliceNumbers ==
  ASSUME NEW H, Numbered(H), NEW entries, NEW a, NEW k, Slice(entries, H, a, k)
  PROVE  /\ a \in Nat \ {0} /\ k \in Nat /\ k <= Len(H) /\ Len(H) \in Nat
         /\ entries \in Seq(LogEntry) /\ Len(entries) \in Nat
         /\ DOMAIN entries = 1..Len(entries)
         /\ \A i \in 1..Len(entries) : /\ a + i - 1 \in 1..k
                                       /\ entries[i] = H[a + i - 1]
                                       /\ entries[i].opnum = a + i - 1
<1> /\ a \in Nat \ {0} /\ k \in 0..Len(H) /\ entries \in Seq(LogEntry)
    /\ Len(entries) = IF a <= k THEN k - a + 1 ELSE 0
    /\ \A i \in 1..Len(entries) : entries[i] = H[a + i - 1]
  BY DEF Slice
<1> Len(H) \in Nat /\ Len(entries) \in Nat /\ DOMAIN entries = 1..Len(entries)
  BY SeqLen DEF Numbered
<1>3. k \in Nat /\ k <= Len(H)
  BY SMTT(30)
<1>4. \A i \in 1..Len(entries) : a + i - 1 \in 1..k /\ a + i - 1 \in 1..Len(H)
  BY <1>3, SMTT(30)
<1> \A i \in 1..Len(entries) : H[a + i - 1].opnum = a + i - 1
  BY <1>4 DEF Numbered
<1> QED BY <1>3, <1>4

\* How many entries a slice has, and the number of the first one.
LEMMA SliceFirst ==
  ASSUME NEW H, Numbered(H), NEW entries, NEW a, NEW k, Slice(entries, H, a, k)
  PROVE  /\ a \in Nat \ {0} /\ k \in Nat /\ k <= Len(H) /\ Len(H) \in Nat
         /\ entries \in Seq(LogEntry) /\ Len(entries) \in Nat
         /\ Len(entries) = IF a <= k THEN k - a + 1 ELSE 0
         /\ a <= k => entries[1].opnum = a
<1>1. /\ a \in Nat \ {0} /\ k \in Nat /\ k <= Len(H) /\ Len(H) \in Nat
      /\ entries \in Seq(LogEntry) /\ Len(entries) \in Nat
      /\ \A i \in 1..Len(entries) : entries[i].opnum = a + i - 1
  BY SliceNumbers, SMTT(30)
<1>2. Len(entries) = IF a <= k THEN k - a + 1 ELSE 0
  BY DEF Slice
<1>3. a <= k => 1 \in 1..Len(entries) /\ a + 1 - 1 = a
  BY <1>1, <1>2, SMTT(30)
<1> QED BY <1>1, <1>2, <1>3

\* Install makes a log of the first k entries of H, when the entries it is
\* given are a .. k of them, and the log has those before and none beyond.
LEMMA InstallLemma ==
  ASSUME Counting, NEW log, Numbered(log), NEW H, Numbered(H), NEW entries, NEW a, NEW k,
         Slice(entries, H, a, k), a <= k, a <= Len(log) + 1, Len(log) <= k,
         \A j \in 1..Len(log) : j < a \/ log[j].view = H[j].view => log[j] = H[j]
  PROVE  /\ Install(log, entries) \in Seq(LogEntry) /\ Len(Install(log, entries)) = k
         /\ \A j \in 1..k : Install(log, entries)[j] = H[j]
<1> DEFINE Found(e) == e.opnum <= Len(log)
           diverging == {i \in DOMAIN entries :
                           Found(entries[i]) => log[entries[i].opnum].view # entries[i].view}
           at == CHOOSE i \in diverging : \A j \in diverging : i <= j
           B == IF Found(entries[at]) THEN RemoveAfter(log, entries[at].opnum) ELSE log
<1> log \in Seq(LogEntry) /\ Len(log) \in Nat
  BY SeqLen DEF Numbered
<1> /\ a \in Nat \ {0} /\ k \in Nat /\ k <= Len(H) /\ Len(H) \in Nat
    /\ entries \in Seq(LogEntry) /\ Len(entries) \in Nat
    /\ DOMAIN entries = 1..Len(entries)
    /\ Len(entries) = k - a + 1
    /\ \A i \in 1..Len(entries) : /\ a + i - 1 \in 1..k
                                  /\ entries[i] = H[a + i - 1]
                                  /\ entries[i].opnum = a + i - 1
  <2>1. Len(entries) = IF a <= k THEN k - a + 1 ELSE 0
    BY DEF Slice
  <2>2. Len(entries) = k - a + 1
    BY <2>1
  <2> /\ a \in Nat \ {0} /\ k \in Nat /\ k <= Len(H) /\ Len(H) \in Nat
      /\ entries \in Seq(LogEntry) /\ Len(entries) \in Nat
      /\ DOMAIN entries = 1..Len(entries)
      /\ \A i \in 1..Len(entries) : /\ a + i - 1 \in 1..k
                                    /\ entries[i] = H[a + i - 1]
                                    /\ entries[i].opnum = a + i - 1
    BY SliceNumbers, SMTT(30)
  <2> QED BY <2>2
<1>2. ASSUME NEW i \in 1..Len(entries), i \notin diverging
      PROVE  a + i - 1 \in 1..Len(log) /\ log[a + i - 1] = H[a + i - 1]
  <2>1. entries[i].opnum = a + i - 1 /\ entries[i] = H[a + i - 1]
    OBVIOUS
  <2>2. a + i - 1 <= Len(log) /\ log[a + i - 1].view = H[a + i - 1].view
    BY <1>2, <2>1
  <2> a + i - 1 \in 1..Len(log)
    BY <2>2, SMTT(30)
  <2> QED BY <2>2
<1>3. CASE diverging = {}
  <2>1. Install(log, entries) = log
    BY <1>3 DEF Install
  <2>2. \A i \in 1..Len(entries) : a + i - 1 \in 1..Len(log) /\ log[a + i - 1] = H[a + i - 1]
    BY <1>2, <1>3
  <2>3. Len(log) = k
    <3>1. Len(entries) \in 1..Len(entries) /\ a + Len(entries) - 1 = k
      BY SMTT(30)
    <3> k \in 1..Len(log)
      BY <2>2, <3>1
    <3> QED BY SMTT(30)
  <2>4. ASSUME NEW j \in 1..k PROVE log[j] = H[j]
    <3>1. CASE j < a
      BY <2>3, <3>1
    <3>2. CASE ~(j < a)
      <4> j - a + 1 \in 1..Len(entries) /\ a + (j - a + 1) - 1 = j
        BY <3>2, SMTT(30)
      <4> QED BY <2>2
    <3> QED BY <3>1, <3>2
  <2> QED BY <2>1, <2>3, <2>4
<1>4. CASE diverging # {}
  <2>1. Install(log, entries) = B \o SubSeq(entries, at, Len(entries))
    BY <1>4 DEF Install
  <2>2. at \in diverging /\ \A j \in diverging : at <= j
    <3>1. diverging \subseteq DOMAIN entries
      OBVIOUS
    <3> HIDE DEF diverging
    <3>2. diverging \subseteq Nat
      BY <3>1, SMTT(30)
    <3> \E i \in diverging : \A j \in diverging : i <= j
      BY <1>4, <3>2, Least
    <3> QED OBVIOUS
  <2> at \in 1..Len(entries)
    BY <2>2
  <2> DEFINE p == a + at - 1
  <2> p \in 1..k /\ entries[at].opnum = p
    OBVIOUS
  <2>5. ASSUME NEW i \in 1..Len(entries), i < at
        PROVE  a + i - 1 \in 1..Len(log) /\ log[a + i - 1] = H[a + i - 1]
    <3> i \notin diverging
      <4> HIDE DEF diverging, at
      <4> QED BY <2>2, <2>5, SMTT(30)
    <3> QED BY <1>2
  <2> HIDE DEF diverging, at
  <2>6. p - 1 <= Len(log)
    <3>1. CASE at = 1
      BY <3>1, SMTT(30)
    <3>2. CASE at # 1
      <4>1. at - 1 \in 1..Len(entries) /\ at - 1 < at
        BY <3>2, SMTT(30)
      <4> a + (at - 1) - 1 \in 1..Len(log)
        BY <2>5, <4>1
      <4> QED BY SMTT(30)
    <3> QED BY <3>1, <3>2
  <2>7. ASSUME NEW j \in 1..(p - 1) PROVE j \in 1..Len(log) /\ log[j] = H[j]
    <3>0. j \in 1..Len(log)
      BY <2>6, SMTT(30)
    <3>1. CASE j < a
      BY <3>0, <3>1
    <3>2. CASE ~(j < a)
      <4> j - a + 1 \in 1..Len(entries) /\ a + (j - a + 1) - 1 = j /\ j - a + 1 < at
        BY <3>2, SMTT(30)
      <4> QED BY <2>5
    <3> QED BY <3>0, <3>1, <3>2
  <2>8. B \in Seq(LogEntry) /\ Len(B) = p - 1 /\ \A j \in 1..(p - 1) : B[j] = log[j]
    <3>1. CASE p <= Len(log)
      <4>1. B = RemoveAfter(log, p)
        BY <3>1
      <4>2. p \in Nat \ {0} /\ ~(p > Len(log))
        BY <3>1, SMTT(30)
      <4> Numbered(RemoveAfter(log, p)) /\ Len(RemoveAfter(log, p)) = p - 1
          /\ \A i \in 1..Len(RemoveAfter(log, p)) : RemoveAfter(log, p)[i] = log[i]
        BY <4>2, RemoveAfterLemma
      <4> QED BY <4>1 DEF Numbered
    <3>2. CASE ~(p <= Len(log))
      <4>1. B = log
        BY <3>2
      <4> Len(log) = p - 1
        BY <2>6, <3>2, SMTT(30)
      <4> QED BY <4>1
    <3> QED BY <3>1, <3>2
  <2> HIDE DEF B
  <2> DEFINE C == SubSeq(entries, at, Len(entries))
  <2>9. C \in Seq(LogEntry) /\ Len(C) = k - p + 1 /\ \A i \in 1..Len(C) : C[i] = entries[at + i - 1]
    BY SMTT(30)
  <2> HIDE DEF C
  <2> /\ B \o C \in Seq(LogEntry) /\ Len(B \o C) = k
      /\ \A j \in 1..(p - 1) : (B \o C)[j] = B[j]
      /\ \A j \in p..k : (B \o C)[j] = C[j - p + 1] /\ j - p + 1 \in 1..Len(C)
    <3>0. B \in Seq(LogEntry) /\ C \in Seq(LogEntry)
      BY <2>8, <2>9
    <3>1. /\ B \o C \in Seq(LogEntry) /\ Len(B \o C) = Len(B) + Len(C)
          /\ \A j \in 1..Len(B) : (B \o C)[j] = B[j]
          /\ \A j \in 1..Len(C) : (B \o C)[Len(B) + j] = C[j]
      BY <3>0, ConcatLemma, SMTT(30)
    <3>2. p \in Int /\ k \in Int /\ 1 <= p /\ p <= k
      BY SMTT(30)
    <3> HIDE DEF p
    <3>3. Len(B \o C) = k
      BY <2>8, <2>9, <3>1, <3>2, SMTT(30)
    <3>4. ASSUME NEW j \in p..k
          PROVE  j - p + 1 \in 1..Len(C) /\ Len(B) + (j - p + 1) = j
      BY <2>8, <2>9, <3>2, SMTT(30)
    <3> \A j \in p..k : (B \o C)[j] = C[j - p + 1] /\ j - p + 1 \in 1..Len(C)
      BY <3>1, <3>4
    <3> QED BY <2>8, <3>1, <3>3
  <2>11. ASSUME NEW j \in 1..k PROVE (B \o C)[j] = H[j]
    <3>1. CASE j \in 1..(p - 1)
      BY <2>7, <2>8, <3>1
    <3>2. CASE j \notin 1..(p - 1)
      <4>0. a \in Int /\ at \in Int /\ j \in Int /\ k \in Int /\ p = a + at - 1
        BY SMTT(30)
      <4> HIDE DEF p
      <4> j \in p..k /\ at + (j - p + 1) - 1 = j - a + 1 /\ j - a + 1 \in 1..Len(entries)
          /\ a + (j - a + 1) - 1 = j
        <5>1. p <= j /\ j <= k
          BY <3>2, <4>0, SMTT(30)
        <5> 1 <= at /\ Len(entries) = k - a + 1
          BY SMTT(30)
        <5> QED BY <4>0, <5>1, SMTT(30)
      <4>2. (B \o C)[j] = entries[at + (j - p + 1) - 1]
        BY <2>9
      <4> entries[j - a + 1] = H[a + (j - a + 1) - 1]
        OBVIOUS
      <4> QED BY <4>2
    <3> QED BY <3>1, <3>2
  <2> QED BY <2>1, <2>11 DEF C
<1> QED BY <1>3, <1>4

\* Message m has what replica s needs of H to take over H's log.
Fitting(M, s, H, m, a) ==
  /\ s \in RepType(M) /\ Numbered(s.log) /\ s.lastCommitted <= Len(s.log)
  /\ Numbered(H) /\ Slice(m.entries, H, a, m.lastop)
  /\ Agrees(s, H, m.lastop) /\ s.status # "PANIC"

\* t is s with that log, or has panicked.
TookOver(M, s, H, m, a, t) ==
  /\ t \in RepType(M) /\ t.view = s.view
  /\ t.lastOp = s.lastOp /\ t.lastCommitted = s.lastCommitted
  /\ t.executed = s.executed /\ t.clientTable = s.clientTable
  /\ t.prepareOKs = s.prepareOKs /\ t.startViewChanges = s.startViewChanges
  /\ t.doViewChanges = s.doViewChanges
  /\ t.status = "PANIC" => t.log = s.log
  /\ t.status # "PANIC" =>
       /\ t.status = s.status
       /\ a <= m.lastop => /\ Len(t.log) = m.lastop
                           /\ \A j \in 1..m.lastop : t.log[j] = H[j]
       /\ ~(a <= m.lastop) => t.log = s.log

\* The log a message leaves: Installed, when it does not panic.  H is the log of
\* the sender, of which the message has the entries from a on.
LEMMA InstalledLemma ==
  ASSUME Counting, NEW M, NEW s, NEW H, NEW m, NEW a, Fitting(M, s, H, m, a)
  PROVE  TookOver(M, s, H, m, a, Installed(s, m))
<1> /\ s \in RepType(M) /\ Numbered(s.log) /\ s.lastCommitted <= Len(s.log)
    /\ Numbered(H) /\ Slice(m.entries, H, a, m.lastop)
    /\ Agrees(s, H, m.lastop) /\ s.status # "PANIC"
  BY DEF Fitting
<1> DEFINE t == Installed(s, m)
           B == RemoveAfter(s.log, m.lastop + 1)
           K == Install(B, m.entries)
<1>1. /\ s.log \in Seq(LogEntry) /\ Len(s.log) \in Nat /\ s.lastCommitted \in Nat
  BY SeqLen DEF RepType
<1>2. /\ a \in Nat \ {0} /\ m.lastop \in Nat /\ m.lastop <= Len(H) /\ Len(H) \in Nat
      /\ m.entries \in Seq(LogEntry) /\ Len(m.entries) \in Nat
      /\ Len(m.entries) = IF a <= m.lastop THEN m.lastop - a + 1 ELSE 0
      /\ a <= m.lastop => m.entries[1].opnum = a
  BY SliceFirst
<1>3. CASE ~(a <= m.lastop)
  <2>1. m.entries = <<>>
    BY <1>2, <1>3, SMTT(30)
  <2>2. t = s
    BY <2>1 DEF Installed
  <2>3. TookOver(M, s, H, m, a, s)
    BY <1>3 DEF TookOver
  <2> QED BY <2>2, <2>3
<1>4. CASE a <= m.lastop
  <2>1. m.entries # <<>>
    BY <1>2, <1>4, SMTT(30)
  <2>2. CASE a > s.lastCommitted + 1
    <3>1. t = [s EXCEPT !.status = "PANIC"]
      BY <1>2, <1>4, <2>1, <2>2 DEF Installed
    <3> HIDE DEF t
    <3>2. /\ t \in RepType(M) /\ t.view = s.view
          /\ t.lastOp = s.lastOp /\ t.lastCommitted = s.lastCommitted
          /\ t.executed = s.executed /\ t.clientTable = s.clientTable
          /\ t.prepareOKs = s.prepareOKs /\ t.startViewChanges = s.startViewChanges
          /\ t.doViewChanges = s.doViewChanges /\ t.status = "PANIC" /\ t.log = s.log
      BY <3>1 DEF RepType, Status
    <3>3. TookOver(M, s, H, m, a, t)
      BY <3>2 DEF TookOver
    <3> QED BY <3>3 DEF t
  <2>3. CASE ~(a > s.lastCommitted + 1)
    <3>1. t = [s EXCEPT !.log = K]
      BY <1>2, <1>4, <2>1, <2>3 DEF Installed
    <3>2. m.lastop + 1 \in Nat \ {0} /\ (m.lastop + 1) - 1 = m.lastop
      <4>1. m.lastop \in Nat
        BY <1>2
      <4> QED BY <4>1, SMTT(30)
    <3>3. /\ Numbered(B)
          /\ Len(B) = IF m.lastop + 1 > Len(s.log) THEN Len(s.log) ELSE m.lastop
          /\ \A i \in 1..Len(B) : i \in 1..Len(s.log) /\ B[i] = s.log[i]
      BY <3>2, RemoveAfterLemma
    <3> HIDE DEF B
    <3>4. a <= Len(B) + 1 /\ Len(B) <= m.lastop /\ Len(B) \in Nat
      BY <1>1, <1>2, <1>4, <2>3, <3>3, SMTT(30)
    <3>5. \A j \in 1..Len(B) : j < a \/ B[j].view = H[j].view => B[j] = H[j]
      <4> TAKE j \in 1..Len(B)
      <4>1. j <= m.lastop /\ (j < a => j <= s.lastCommitted)
        BY <1>1, <1>2, <2>3, <3>4, SMTT(30)
      <4> QED BY <3>3, <4>1 DEF Agrees
    <3>6. /\ K \in Seq(LogEntry) /\ Len(K) = m.lastop
          /\ \A j \in 1..m.lastop : K[j] = H[j]
      BY <1>4, <3>3, <3>4, <3>5, InstallLemma, SMTT(30)
    <3> HIDE DEF K, t
    <3>7. /\ t \in RepType(M) /\ t.view = s.view
          /\ t.lastOp = s.lastOp /\ t.lastCommitted = s.lastCommitted
          /\ t.executed = s.executed /\ t.clientTable = s.clientTable
          /\ t.prepareOKs = s.prepareOKs /\ t.startViewChanges = s.startViewChanges
          /\ t.doViewChanges = s.doViewChanges /\ t.status = s.status /\ t.log = K
      BY <3>1, <3>6 DEF RepType
    <3>8. TookOver(M, s, H, m, a, t)
      BY <1>4, <3>6, <3>7 DEF TookOver
    <3> QED BY <3>8 DEF t
  <2> QED BY <2>2, <2>3
<1> QED BY <1>3, <1>4

-----------------------------------------------------------------------------
(***************************************************************************)
(* State transfer: entries are installed one by one.                       *)
(***************************************************************************)
\* Append at the end of a numbered log.
LEMMA AppendLemma ==
  ASSUME NEW K, Numbered(K), NEW e \in LogEntry, e.opnum = Len(K) + 1
  PROVE  /\ Numbered(Append(K, e)) /\ Len(Append(K, e)) = Len(K) + 1
         /\ Append(K, e)[Len(K) + 1] = e
         /\ \A j \in 1..Len(K) : Append(K, e)[j] = K[j]
<1>1. K \in Seq(LogEntry) /\ Len(K) \in Nat
  BY SeqLen DEF Numbered
<1>2. /\ Append(K, e) \in Seq(LogEntry) /\ Len(Append(K, e)) = Len(K) + 1
      /\ Append(K, e)[Len(K) + 1] = e
      /\ \A j \in 1..Len(K) : Append(K, e)[j] = K[j]
  BY <1>1, SMTT(30)
<1>3. \A j \in 1..(Len(K) + 1) : j \in 1..Len(K) \/ j = Len(K) + 1
  BY <1>1, SMTT(30)
<1> \A j \in 1..Len(Append(K, e)) : Append(K, e)[j].opnum = j
  BY <1>2, <1>3 DEF Numbered
<1> QED BY <1>2 DEF Numbered

\* s with the log K.
With(s, K) == [s EXCEPT !.log = K, !.lastOp = Len(K)]

\* The members of a replica with another log.
LEMMA WithFields ==
  ASSUME NEW M, NEW s \in RepType(M), NEW K \in Seq(LogEntry)
  PROVE  /\ With(s, K) \in RepType(M) /\ With(s, K).log = K /\ With(s, K).lastOp = Len(K)
         /\ With(s, K).status = s.status /\ With(s, K).view = s.view
         /\ With(s, K).lastCommitted = s.lastCommitted /\ With(s, K).executed = s.executed
         /\ With(s, K).clientTable = s.clientTable
         /\ With(s, K).prepareOKs = s.prepareOKs
         /\ With(s, K).startViewChanges = s.startViewChanges
         /\ With(s, K).doViewChanges = s.doViewChanges
<1> Len(K) \in Nat
  BY SeqLen
<1> QED BY DEF With, RepType

\* K is the log of s after i of the entries a .. k of H.
Partly(s, H, a, k, K, i) ==
  /\ Numbered(K) /\ s.lastCommitted <= Len(K) /\ a - 1 + i <= Len(K)
  /\ \A j \in 1..(a - 1 + i) : j <= k => K[j] = H[j]
  /\ Len(K) > a - 1 + i => K = s.log
  /\ i = 0 => K = s.log
  /\ \/ Len(K) >= Len(s.log)
     \/ \E j \in 1..Len(s.log) : j <= k /\ s.log[j].view # H[j].view

\* One entry of a STATETRANSFER: InstallEntry.
LEMMA EntryLemma ==
  ASSUME NEW M, NEW s \in RepType(M), Numbered(s.log), s.lastCommitted <= Len(s.log),
         NEW H, Numbered(H), NEW entries, NEW a, NEW k, Slice(entries, H, a, k),
         Agrees(s, H, k),
         NEW i \in 1..Len(entries), NEW K, Partly(s, H, a, k, K, i - 1), NEW o \in Nat
  PROVE  \E K2 : \E o2 \in Nat :
           /\ Partly(s, H, a, k, K2, i)
           /\ InstallEntry([s |-> With(s, K), oldLastOp |-> o], entries[i])
                = [s |-> With(s, K2), oldLastOp |-> o2]
<1> DEFINE e == entries[i]
           p == a + i - 1
           x == [s |-> With(s, K), oldLastOp |-> o]
<1> /\ a \in Nat \ {0} /\ k \in Nat /\ k <= Len(H) /\ Len(H) \in Nat
    /\ entries \in Seq(LogEntry) /\ Len(entries) \in Nat
    /\ p \in 1..k /\ e = H[p] /\ e.opnum = p
  BY SliceNumbers, SMTT(30)
<1>2. e \in LogEntry
  BY SeqLen
<1>3. /\ Numbered(K) /\ s.lastCommitted <= Len(K) /\ a - 1 + (i - 1) <= Len(K)
      /\ \A j \in 1..(a - 1 + (i - 1)) : j <= k => K[j] = H[j]
      /\ Len(K) > a - 1 + (i - 1) => K = s.log
      /\ \/ Len(K) >= Len(s.log)
         \/ \E j \in 1..Len(s.log) : j <= k /\ s.log[j].view # H[j].view
  BY DEF Partly
<1> K \in Seq(LogEntry) /\ Len(K) \in Nat /\ Len(s.log) \in Nat /\ s.lastCommitted \in Nat
  BY <1>3, SeqLen DEF Numbered, RepType
<1> p \in Nat \ {0} /\ p <= k /\ a - 1 + i = p /\ a - 1 + (i - 1) = p - 1 /\ i \in Nat
  <2>1. a \in Int /\ i \in Int /\ Len(entries) \in Nat /\ k \in Int /\ p \in 1..k
    BY SMTT(30)
  <2> p \in Nat \ {0} /\ p <= k /\ i \in Nat
    BY <2>1, SMTT(30)
  <2> QED BY <2>1, SMTT(30)
<1>6. x.s = With(s, K) /\ x.oldLastOp = o
  OBVIOUS
<1> With(s, K).log = K /\ With(s, K).lastOp = Len(K) /\ With(s, K).lastCommitted = s.lastCommitted
  BY WithFields
<1> HIDE DEF e, p
<1>8. /\ p - 1 <= Len(K) /\ \A j \in 1..(p - 1) : j <= k => K[j] = H[j]
      /\ Len(K) > p - 1 => K = s.log
  BY <1>3
<1>80. i # 0
  BY SliceNumbers, SMTT(30)
<1>9. ASSUME p <= Len(K), K[p] = H[p]
      PROVE  Partly(s, H, a, k, K, i)
  <2>1. \A j \in 1..p : j \in 1..(p - 1) \/ j = p
    BY SMTT(30)
  <2>2. \A j \in 1..p : j <= k => K[j] = H[j]
    BY <1>8, <1>9, <2>1
  <2> Len(K) > p => Len(K) > p - 1
    BY SMTT(30)
  <2> QED BY <1>3, <1>8, <1>80, <1>9, <2>2 DEF Partly
<1>10. ASSUME NEW B, Numbered(B), Len(B) = p - 1, \A j \in 1..(p - 1) : B[j] = K[j],
              s.lastCommitted < p, 
              p <= Len(K) => K[p].view # H[p].view
       PROVE  /\ Partly(s, H, a, k, Append(B, e), i)
              /\ Append(B, e) \in Seq(LogEntry) /\ Len(Append(B, e)) = p
  <2>1. e.opnum = Len(B) + 1 /\ Len(B) + 1 = p
    BY <1>10, SMTT(30)
  <2>2. /\ Numbered(Append(B, e)) /\ Len(Append(B, e)) = p /\ Append(B, e)[p] = e
        /\ \A j \in 1..(p - 1) : Append(B, e)[j] = B[j]
    BY <1>2, <1>10, <2>1, AppendLemma, SMTT(30)
  <2>3. \A j \in 1..p : j \in 1..(p - 1) \/ j = p
    BY SMTT(30)
  <2>4. \A j \in 1..p : j <= k => Append(B, e)[j] = H[j]
    BY <1>8, <1>10, <2>2, <2>3
  <2>5. s.lastCommitted <= p /\ p <= p /\ ~(p > p)
    BY <1>10, SMTT(30)
  <2>6. p >= Len(s.log) \/ \E j \in 1..Len(s.log) : j <= k /\ s.log[j].view # H[j].view
    <3>1. CASE p <= Len(K)
      <4>1. Len(K) > p - 1 /\ p \in 1..Len(K)
        BY <3>1, SMTT(30)
      <4> K = s.log
        BY <1>8, <4>1
      <4> QED BY <1>10, <3>1, <4>1
    <3>2. CASE ~(p <= Len(K))
      <4> Len(K) >= Len(s.log) => p >= Len(s.log)
        BY <3>2, SMTT(30)
      <4> QED BY <1>3
    <3> QED BY <3>1, <3>2
  <2> Append(B, e) \in Seq(LogEntry)
    BY <2>2 DEF Numbered
  <2> QED BY <1>80, <2>2, <2>4, <2>5, <2>6 DEF Partly
<1>11. CASE p <= s.lastCommitted
  <2>1. InstallEntry(x, e) = x
    <3> ~(p > s.lastCommitted)
      BY <1>11, SMTT(30)
    <3> QED BY <1>6, <1>11 DEF InstallEntry
  <2>2. p <= Len(K) /\ Len(K) > p - 1 /\ p \in 1..Len(s.log)
    BY <1>3, <1>11, SMTT(30)
  <2> K[p] = H[p]
    BY <1>8, <1>11, <2>2 DEF Agrees
  <2> QED BY <1>9, <2>1, <2>2 DEF e
<1>12. CASE ~(p <= s.lastCommitted) /\ p <= Len(K)
  <2>1. p > s.lastCommitted /\ s.lastCommitted < p /\ Len(K) > p - 1 /\ ~(p > Len(K))
    BY <1>12, SMTT(30)
  <2>2. K = s.log /\ p \in 1..Len(s.log)
    <3> K = s.log
      BY <1>8, <2>1
    <3> QED BY <1>12, SMTT(30)
  <2>3. CASE K[p].view = e.view
    <3>1. InstallEntry(x, e) = x
      BY <1>6, <1>12, <2>1, <2>3 DEF InstallEntry
    <3> K[p] = H[p]
      BY <2>2, <2>3 DEF Agrees
    <3> QED BY <1>9, <1>12, <3>1 DEF e
  <2>4. CASE K[p].view # e.view
    <3> DEFINE B == RemoveAfter(K, p)
    <3>1. InstallEntry(x, e) = [s |-> [With(s, K) EXCEPT !.log = Append(RemoveAfter(@, p), e), !.lastOp = p],
                                oldLastOp |-> p]
      BY <1>6, <1>12, <2>1, <2>4 DEF InstallEntry
    <3>2. Numbered(B) /\ Len(B) = p - 1 /\ \A j \in 1..(p - 1) : B[j] = K[j]
      BY <1>3, <2>1, RemoveAfterLemma, SMTT(30)
    <3> HIDE DEF B
    <3>3. /\ Partly(s, H, a, k, Append(B, e), i)
          /\ Append(B, e) \in Seq(LogEntry) /\ Len(Append(B, e)) = p
      BY <1>10, <2>1, <2>4, <3>2
    <3>4. [With(s, K) EXCEPT !.log = Append(RemoveAfter(@, p), e), !.lastOp = p]
            = With(s, Append(B, e))
      <4>1. [With(s, K) EXCEPT !.log = Append(RemoveAfter(@, p), e), !.lastOp = p]
              = [With(s, K) EXCEPT !.log = Append(B, e), !.lastOp = p]
        BY SMTT(30) DEF B
      <4> DEFINE C == Append(B, e)
      <4>2. C \in Seq(LogEntry) /\ Len(C) = p
        BY <3>3
      <4> HIDE DEF C
      <4> [With(s, K) EXCEPT !.log = C, !.lastOp = p] = With(s, C)
        BY <4>2 DEF With, RepType
      <4> QED BY <4>1 DEF C
    <3> p \in Nat
      OBVIOUS
    <3> QED BY <3>1, <3>3, <3>4 DEF e
  <2> QED BY <2>3, <2>4
<1>13. CASE ~(p <= s.lastCommitted) /\ ~(p <= Len(K))
  <2>1. Len(K) = p - 1 /\ s.lastCommitted < p /\ p > s.lastCommitted
    BY <1>8, <1>13, SMTT(30)
  <2>2. InstallEntry(x, e) = [x EXCEPT !.s = [With(s, K) EXCEPT !.log = Append(@, e), !.lastOp = @ + 1]]
    BY <1>6, <1>13 DEF InstallEntry
  <2>3. /\ Partly(s, H, a, k, Append(K, e), i)
        /\ Append(K, e) \in Seq(LogEntry) /\ Len(Append(K, e)) = p
    BY <1>3, <1>10, <1>13, <2>1
  <2> DEFINE C == Append(K, e)
  <2>4. C \in Seq(LogEntry) /\ Len(C) = p
    BY <2>3
  <2>5. [With(s, K) EXCEPT !.log = Append(@, e), !.lastOp = @ + 1] = [With(s, K) EXCEPT !.log = C, !.lastOp = p]
    <3> Len(K) + 1 = p
      BY <2>1, SMTT(30)
    <3> QED OBVIOUS
  <2> HIDE DEF C
  <2>6. [With(s, K) EXCEPT !.log = C, !.lastOp = p] = With(s, C)
    BY <2>4 DEF With, RepType
  <2> InstallEntry(x, e) = [s |-> With(s, C), oldLastOp |-> o]
    BY <2>2, <2>5, <2>6, SMTT(30)
  <2> QED BY <2>3 DEF C, e
<1> QED BY <1>11, <1>12, <1>13

\* x is what the entries of a STATETRANSFER leave.
Installs(s, H, a, k, entries, x) ==
  \E K : \E o \in Nat :
    Partly(s, H, a, k, K, Len(entries)) /\ x = [s |-> With(s, K), oldLastOp |-> o]

\* All the entries.
LEMMA EntriesLemma ==
  ASSUME Counting,
         NEW M, NEW s \in RepType(M), Numbered(s.log), s.lastCommitted <= Len(s.log),
         s.lastOp = Len(s.log),
         NEW H, Numbered(H), NEW entries, NEW a, NEW k, Slice(entries, H, a, k),
         Agrees(s, H, k), a <= s.lastCommitted + 1
  PROVE  Installs(s, H, a, k, entries, InstallEntries(s, entries))
<1> DEFINE step(g, i) == IF i = 0 THEN [s |-> s, oldLastOp |-> s.lastOp]
                         ELSE InstallEntry(g[i - 1], entries[i])
           upto(g, m) == g = [i \in 0..m |-> step(g, i)]
           exists(m) == \E g : upto(g, m)
           done == CHOOSE g : upto(g, Len(entries))
<1> /\ Len(entries) \in Nat /\ a \in Nat \ {0} /\ k \in Nat
    /\ s.lastCommitted \in Nat /\ s.log \in Seq(LogEntry) /\ Len(s.log) \in Nat
  <2> s.lastCommitted \in Nat /\ s.log \in Seq(LogEntry)
    BY DEF RepType
  <2> QED BY SliceNumbers, SeqLen, SMTT(30)
<1>1. InstallEntries(s, entries) = done[Len(entries)]
  BY DEF InstallEntries
<1>2. \A m \in 0..Len(entries) : exists(m)
  <2> HIDE DEF exists
  <2> SUFFICES ASSUME NEW m0 \in 0..Len(entries), ~exists(m0) PROVE FALSE
    OBVIOUS
  <2> DEFINE T == {m \in 0..Len(entries) : ~exists(m)}
  <2>1. T \subseteq Nat /\ T # {}
    <3>1. T \subseteq 0..Len(entries)
      OBVIOUS
    <3>2. m0 \in T
      OBVIOUS
    <3> HIDE DEF T
    <3> QED BY <3>1, <3>2, SMTT(30)
  <2> HIDE DEF T
  <2>2. PICK x \in T : \A y \in T : x <= y
    BY <2>1, Least
  <2> x \in 0..Len(entries) /\ ~exists(x)
    BY DEF T
  <2>4. CASE x = 0
    <3> DEFINE g == [i \in 0..0 |-> [s |-> s, oldLastOp |-> s.lastOp]]
    <3>1. \A i \in 0..0 : i = 0
      BY SMTT(30)
    <3> upto(g, 0)
      BY <3>1
    <3> QED BY <2>4 DEF exists
  <2>5. CASE x # 0
    <3>1. x - 1 \in 0..Len(entries) /\ x - 1 \notin T
      BY <2>2, <2>5, SMTT(30)
    <3>2. PICK g : upto(g, x - 1)
      BY <3>1 DEF T, exists
    <3> DEFINE h == [i \in 0..x |-> IF i = x THEN step(g, x) ELSE g[i]]
    <3>3. \A i \in 0..x : h[i] = step(h, i)
      <4> SUFFICES ASSUME NEW i \in 0..x PROVE h[i] = step(h, i)
        OBVIOUS
      <4>0. x - 1 \in 0..x /\ x - 1 # x
        BY <2>5, SMTT(30)
      <4>1. CASE i = x
        <5> h[x - 1] = g[x - 1]
          BY <4>0
        <5> QED BY <2>5, <4>1
      <4>2. CASE i # x
        <5> i \in 0..(x - 1) /\ h[i] = g[i]
          <6> i \in 0..(x - 1)
            BY <4>2, SMTT(30)
          <6> QED BY <4>2
        <5>2. g[i] = step(g, i)
          BY <3>2
        <5> i # 0 => h[i - 1] = g[i - 1]
          <6> i # 0 => i - 1 \in 0..x /\ i - 1 # x
            BY SMTT(30)
          <6> QED OBVIOUS
        <5> QED BY <5>2
      <4> QED BY <4>1, <4>2
    <3> upto(h, x)
      BY <3>3
    <3> QED BY DEF exists
  <2> QED BY <2>4, <2>5
<1>3. upto(done, Len(entries))
  <2> HIDE DEF upto
  <2>1. Len(entries) \in 0..Len(entries)
    BY SMTT(30)
  <2> \E g : upto(g, Len(entries))
    BY <1>2, <2>1
  <2> QED OBVIOUS
<1> HIDE DEF done
<1>4. \A i \in 0..Len(entries) : done[i] = step(done, i)
  BY <1>3
<1> DEFINE good(i) == \E K : \E o \in Nat :
                        /\ Partly(s, H, a, k, K, i)
                        /\ done[i] = [s |-> With(s, K), oldLastOp |-> o]
<1>5. \A m \in 0..Len(entries) : good(m)
  <2> HIDE DEF good
  <2> SUFFICES ASSUME NEW m0 \in 0..Len(entries), ~good(m0) PROVE FALSE
    OBVIOUS
  <2> DEFINE T == {m \in 0..Len(entries) : ~good(m)}
  <2>1. T \subseteq Nat /\ T # {}
    <3>1. T \subseteq 0..Len(entries)
      OBVIOUS
    <3>2. m0 \in T
      OBVIOUS
    <3> HIDE DEF T
    <3> QED BY <3>1, <3>2, SMTT(30)
  <2> HIDE DEF T
  <2>2. PICK x \in T : \A y \in T : x <= y
    BY <2>1, Least
  <2>3. x \in 0..Len(entries) /\ ~good(x)
    BY DEF T
  <2>4. CASE x = 0
    <3>1. done[0] = [s |-> s, oldLastOp |-> s.lastOp]
      BY <1>4, <2>3, <2>4
    <3>2. s = With(s, s.log)
      BY DEF With, RepType
    <3>3. Partly(s, H, a, k, s.log, 0)
      <4> /\ s.lastCommitted <= Len(s.log) /\ a - 1 + 0 <= Len(s.log) /\ Len(s.log) >= Len(s.log)
          /\ \A j \in 1..(a - 1 + 0) : j \in 1..Len(s.log) /\ j <= s.lastCommitted
        BY SMTT(30)
      <4> QED BY DEF Partly, Agrees
    <3>4. s.lastOp \in Nat
      OBVIOUS
    <3> done[0] = [s |-> With(s, s.log), oldLastOp |-> s.lastOp]
      BY <3>1, <3>2
    <3> QED BY <2>3, <2>4, <3>3, <3>4 DEF good
  <2>5. CASE x # 0
    <3>1. x - 1 \in 0..Len(entries) /\ x - 1 \notin T /\ x \in 1..Len(entries)
      BY <2>2, <2>3, <2>5, SMTT(30)
    <3>2. good(x - 1)
      BY <3>1 DEF T
    <3>30. PICK K : \E o \in Nat : /\ Partly(s, H, a, k, K, x - 1)
                                   /\ done[x - 1] = [s |-> With(s, K), oldLastOp |-> o]
      BY <3>2 DEF good
    <3>3. PICK o \in Nat : /\ Partly(s, H, a, k, K, x - 1)
                           /\ done[x - 1] = [s |-> With(s, K), oldLastOp |-> o]
      BY <3>30
    <3>4. done[x] = InstallEntry([s |-> With(s, K), oldLastOp |-> o], entries[x])
      BY <1>4, <2>3, <2>5, <3>3
    <3> \E K2 : \E o2 \in Nat :
          /\ Partly(s, H, a, k, K2, x)
          /\ InstallEntry([s |-> With(s, K), oldLastOp |-> o], entries[x])
               = [s |-> With(s, K2), oldLastOp |-> o2]
      BY <3>1, <3>3, EntryLemma, SMTT(30)
    <3> QED BY <2>3, <3>4 DEF good
  <2> QED BY <2>4, <2>5
<1> good(Len(entries))
  <2> Len(entries) \in 0..Len(entries)
    BY SMTT(30)
  <2> QED BY <1>5
<1> QED BY <1>1 DEF Installs

-----------------------------------------------------------------------------
(***************************************************************************)
(* The other members.                                                      *)
(***************************************************************************)
\* What is executed is the committed part of the log.
ExecOK(s) ==
  /\ s.lastOp = Len(s.log) /\ s.lastCommitted <= Len(s.log)
  /\ Len(s.executed) = s.lastCommitted
  /\ \A i \in 1..s.lastCommitted : s.executed[i] = s.log[i].request

\* c is s, after what was committed up to number upto is executed.
CommitsTo(M, s, upto, c) ==
  /\ c \in RepType(M) /\ ExecOK(c)
  /\ c.lastCommitted = IF upto <= s.lastCommitted THEN s.lastCommitted ELSE upto
  /\ s.clientTable \subseteq c.clientTable
  /\ c.log = s.log /\ c.view = s.view /\ c.status = s.status
  /\ c.prepareOKs = s.prepareOKs /\ c.startViewChanges = s.startViewChanges
  /\ c.doViewChanges = s.doViewChanges /\ c.lastOp = s.lastOp

\* CommitUpTo, up to an operation the log has.
LEMMA CommitLemma ==
  ASSUME NEW M, NEW s \in RepType(M), ExecOK(s), NEW upto \in Nat, upto <= Len(s.log)
  PROVE  CommitsTo(M, s, upto, CommitUpTo(s, upto))
<1> DEFINE run == SubSeq(s.log, s.lastCommitted + 1, upto)
           requests == [i \in DOMAIN run |-> run[i].request]
           table == {run[i].request : i \in DOMAIN run}
           c == CommitUpTo(s, upto)
<1> /\ s.log \in Seq(LogEntry) /\ Len(s.log) \in Nat /\ s.lastCommitted \in Nat
    /\ s.executed \in Seq(Client) /\ s.clientTable \subseteq Client
    /\ s.lastCommitted <= Len(s.log) /\ Len(s.executed) = s.lastCommitted
    /\ \A i \in 1..s.lastCommitted : s.executed[i] = s.log[i].request
    /\ s.lastOp = Len(s.log)
  BY SeqLen DEF RepType, ExecOK
<1>1. CASE upto <= s.lastCommitted
  <2>1. c = s
    BY <1>1 DEF CommitUpTo
  <2> HIDE DEF c
  <2> CommitsTo(M, s, upto, c)
    BY <1>1, <2>1 DEF CommitsTo
  <2> QED BY DEF c
<1>2. CASE ~(upto <= s.lastCommitted)
  <2>1. ~(upto < upto)
    BY SMTT(30)
  <2>2. c = [s EXCEPT !.lastCommitted = upto, !.executed = @ \o requests,
                      !.clientTable = @ \cup table,
                      !.status = @]
    BY <1>2, <2>1 DEF CommitUpTo
  <2>3. /\ run \in Seq(LogEntry) /\ Len(run) = upto - s.lastCommitted
        /\ \A i \in 1..Len(run) : run[i] = s.log[s.lastCommitted + i]
    <3> DEFINE a == s.lastCommitted + 1
    <3>1. a \in Nat \ {0} /\ a <= upto /\ s.log \in Seq(LogEntry)
      BY <1>2, SMTT(30)
    <3>2. /\ upto - a + 1 = upto - s.lastCommitted
          /\ \A i \in 1..(upto - s.lastCommitted) : a + i - 1 = s.lastCommitted + i
      BY <1>2, SMTT(30)
    <3> HIDE DEF a
    <3> /\ SubSeq(s.log, a, upto) \in Seq(LogEntry) /\ Len(SubSeq(s.log, a, upto)) = upto - a + 1
        /\ \A i \in 1..(upto - a + 1) : SubSeq(s.log, a, upto)[i] = s.log[a + i - 1]
      BY <3>1, SubSeqLemma, SMTT(30)
    <3> QED BY <3>2 DEF a
  <2> HIDE DEF run
  <2> DOMAIN run = 1..Len(run) /\ Len(run) \in Nat /\ \A i \in 1..Len(run) : run[i] \in LogEntry
    BY <2>3, SeqLen
  <2>5. \A i \in 1..Len(run) : run[i].request \in Client
    BY DEF LogEntry
  <2>6. /\ requests \in Seq(Client) /\ Len(requests) = Len(run)
        /\ \A i \in 1..Len(run) : requests[i] = run[i].request
    BY <2>5, SMTT(30)
  <2>7. table \subseteq Client
    BY <2>5
  <2> HIDE DEF requests, table
  <2> DEFINE ex == s.executed \o requests
  <2>8. /\ ex \in Seq(Client) /\ Len(ex) = Len(s.executed) + Len(requests)
        /\ \A i \in 1..Len(s.executed) : ex[i] = s.executed[i]
        /\ \A i \in 1..Len(ex) : i > Len(s.executed) => ex[i] = requests[i - Len(s.executed)]
    BY <2>6, SMTT(90)
  <2> HIDE DEF ex
  <2>13. Len(ex) = upto
    BY <1>2, <2>3, <2>6, <2>8, SMTT(30)
  <2>9. ASSUME NEW i \in 1..upto PROVE ex[i] = s.log[i].request
    <3>1. CASE i \in 1..s.lastCommitted
      BY <2>8, <3>1
    <3>2. CASE i \notin 1..s.lastCommitted
      <4>1. /\ i > s.lastCommitted /\ i - s.lastCommitted \in 1..Len(run)
            /\ s.lastCommitted + (i - s.lastCommitted) = i
        BY <1>2, <2>3, <3>2, SMTT(30)
      <4> ex[i] = requests[i - s.lastCommitted]
        BY <2>8, <2>13, <4>1
      <4> QED BY <2>3, <2>6, <4>1
    <3> QED BY <3>1, <3>2
  <2>10. c = [s EXCEPT !.lastCommitted = upto, !.executed = ex,
                       !.clientTable = @ \cup table]
    BY <2>2 DEF RepType, ex
  <2> HIDE DEF c
  <2>11. /\ c \in RepType(M) /\ c.executed = ex /\ c.lastCommitted = upto
         /\ s.clientTable \subseteq c.clientTable
         /\ c.log = s.log /\ c.view = s.view /\ c.status = s.status
         /\ c.prepareOKs = s.prepareOKs /\ c.startViewChanges = s.startViewChanges
         /\ c.doViewChanges = s.doViewChanges /\ c.lastOp = s.lastOp
    BY <2>7, <2>8, <2>10 DEF RepType
  <2>12. ExecOK(c)
    BY <2>8, <2>9, <2>11, <2>13 DEF ExecOK
  <2> CommitsTo(M, s, upto, c)
    BY <1>2, <2>11, <2>12 DEF CommitsTo
  <2> QED BY DEF c
<1> QED BY <1>1, <1>2

-----------------------------------------------------------------------------
(***************************************************************************)
(* The ledger: for every view that has started, the longest log its leader *)
(* has had in it.                                                          *)
(***************************************************************************)
\* K has the first i entries of view v.
Has(L, K, v, i) ==
  i <= Len(K) /\ i <= Len(L[v]) /\ \A j \in 1..i : K[j] = L[v][j]

\* A log: every entry is where its leader put it, after what its leader had.
Fits(L, K) ==
  /\ K \in Seq(LogEntry)
  /\ \A i \in 1..Len(K) :
       K[i].opnum = i /\ K[i].view \in DOMAIN L /\ Has(L, K, K[i].view, i)

\* A leader numbers a request once.
Once(K, v) ==
  \A i, j \in 1..Len(K) :
    K[i].view = v /\ K[j].view = v /\ K[i].request = K[j].request => i = j

\* The ledger: the logs of the leaders fit, and number a request once.
Ledger(L) ==
  /\ DOMAIN L \subseteq Nat /\ 0 \in DOMAIN L
  /\ \A v \in DOMAIN L :
       /\ Fits(L, L[v]) /\ Once(L[v], v)
       /\ \A i \in 1..Len(L[v]) : L[v][i].view <= v

\* Beyond the first k entries, view v has only entries of its own.
Started(L, v, k) == \A i \in 1..Len(L[v]) : i > k => L[v][i].view = v

\* Number i of view v is an entry of its own.
Own(L, v, i) == i \in 1..Len(L[v]) /\ L[v][i].view = v

\* What the ledger has for a view is numbered, and of no later view.
LEMMA LedgerFacts ==
  ASSUME NEW L, Ledger(L), NEW v \in DOMAIN L
  PROVE  /\ v \in Nat /\ L[v] \in Seq(LogEntry) /\ Len(L[v]) \in Nat
         /\ \A i \in 1..Len(L[v]) :
              /\ L[v][i].opnum = i /\ L[v][i].view \in DOMAIN L /\ L[v][i].view \in Nat
              /\ L[v][i].view <= v
<1>1. v \in Nat /\ Fits(L, L[v]) /\ \A i \in 1..Len(L[v]) : L[v][i].view <= v
  BY DEF Ledger
<1>2. DOMAIN L \subseteq Nat
  BY DEF Ledger
<1>3. L[v] \in Seq(LogEntry) /\ \A i \in 1..Len(L[v]) : L[v][i].opnum = i /\ L[v][i].view \in DOMAIN L
  BY <1>1 DEF Fits
<1> Len(L[v]) \in Nat
  BY <1>3, SeqLen
<1> QED BY <1>1, <1>2, <1>3

\* An entry of K that view v has too is preceded by what view v has.
LEMMA FitsFacts ==
  ASSUME NEW L, Ledger(L), NEW K, Fits(L, K)
  PROVE  /\ K \in Seq(LogEntry) /\ Len(K) \in Nat
         /\ \A i \in 1..Len(K) :
              /\ K[i].opnum = i /\ K[i].view \in DOMAIN L /\ K[i].view \in Nat
              /\ Has(L, K, K[i].view, i)
<1>1. DOMAIN L \subseteq Nat
  BY DEF Ledger
<1>2. K \in Seq(LogEntry)
  BY DEF Fits
<1> Len(K) \in Nat
  BY <1>2, SeqLen
<1> QED BY <1>1, <1>2 DEF Fits

\* A log that has i entries of a view has fewer of them.
LEMMA HasLess ==
  ASSUME NEW L, NEW K, NEW v, NEW i \in Nat, Has(L, K, v, i), NEW j \in Nat, j <= i,
         Len(K) \in Nat, Len(L[v]) \in Nat
  PROVE  Has(L, K, v, j)
BY SMTT(30) DEF Has

\* Views do not decrease along a log.
LEMMA ViewsGrow ==
  ASSUME NEW L, Ledger(L), NEW K, Fits(L, K), NEW i \in 1..Len(K), NEW j \in 1..i
  PROVE  j \in 1..Len(K) /\ K[j].view <= K[i].view
<1> Len(K) \in Nat /\ K[i].view \in DOMAIN L /\ Has(L, K, K[i].view, i)
  BY FitsFacts
<1>2. j \in 1..Len(K) /\ i \in Nat /\ j \in Nat
  BY SMTT(30)
<1>3. K[j] = L[K[i].view][j] /\ i <= Len(L[K[i].view])
  BY DEF Has
<1>4. Len(L[K[i].view]) \in Nat
  BY LedgerFacts
<1>5. j \in 1..Len(L[K[i].view])
  BY <1>3, <1>4, SMTT(30)
<1> L[K[i].view][j].view <= K[i].view
  BY <1>5, LedgerFacts
<1> QED BY <1>2, <1>3

\* Two logs with the same viewstamp somewhere are the same up to it.
LEMMA LogsMatch ==
  ASSUME NEW L, Ledger(L), NEW K, Fits(L, K), NEW H, Fits(L, H),
         NEW i \in 1..Len(K), i \in 1..Len(H), K[i].view = H[i].view
  PROVE  \A j \in 1..i : K[j] = H[j]
<1> Has(L, K, K[i].view, i) /\ Has(L, H, K[i].view, i)
  BY FitsFacts
<1> QED BY DEF Has

-----------------------------------------------------------------------------
(***************************************************************************)
(* Votes, and what they leave in the logs.                                 *)
(***************************************************************************)
\* Votes.  The leader of a view has voted for all it has numbered, another replica
\* for what its PREPAREOKs among the messages M say.
Voted(L, M, r, v, i) ==
  /\ i <= Len(L[v])
  /\ \/ r = GetLeaderIndex(v)
     \/ \E m \in M : /\ m.type = "PREPAREOK" /\ m.view = v /\ m.replicaidx = r
                     /\ i <= m.opnum

\* A quorum has voted for an entry of view v, up to number i.
Chosen(L, M, v, i) ==
  /\ v \in DOMAIN L /\ Own(L, v, i)
  /\ \E Q \in Quorums : \A r \in Q : Voted(L, M, r, v, i)

\* The first c entries of K are part of what was chosen, in a view up to w.
Committed(L, M, K, c, w) ==
  /\ c \in Nat
  /\ c # 0 => \E v \in DOMAIN L : \E i \in Nat :
                v <= w /\ Chosen(L, M, v, i) /\ c <= i /\ Has(L, K, v, c)

\* The vote for the first i entries of view v is kept in K, unless a view that
\* started since, and before w, is without them.
Kept(L, K, v, i, w) ==
  \/ Has(L, K, v, i)
  \/ \E u \in DOMAIN L : v < u /\ u < w /\ ~Has(L, L[u], v, i)

\* The last viewstamp of K is not before that of H.
NotOlder(K, H) ==
  \/ LastViewstamp(K).view > LastViewstamp(H).view
  \/ LastViewstamp(K).view = LastViewstamp(H).view /\ Len(K) >= Len(H)

\* The last entry of a log that is not older has at least the view of any entry
\* of the other.
LEMMA LastView ==
  ASSUME NEW L, Ledger(L), NEW H, Fits(L, H), NEW i \in 1..Len(H),
         NEW K, Fits(L, K), NotOlder(K, H)
  PROVE  /\ H[i].view \in Nat /\ LastViewstamp(K).view \in Nat
         /\ H[i].view <= LastViewstamp(K).view
         /\ LastViewstamp(K).view = LastViewstamp(H).view =>
              H[Len(H)].view = LastViewstamp(K).view /\ Len(H) <= Len(K)
<1> /\ Len(H) \in Nat /\ Len(K) \in Nat /\ Numbered(H) /\ Numbered(K)
    /\ \A j \in 1..Len(H) : H[j].view \in Nat
    /\ \A j \in 1..Len(K) : K[j].view \in Nat
  BY FitsFacts DEF Numbered
<1> /\ Len(H) # 0 /\ Len(H) \in 1..Len(H) /\ i \in 1..Len(H) /\ i \in Nat
    /\ Len(K) # 0 => Len(K) \in 1..Len(K)
  BY SMTT(30)
<1>3. LastViewstamp(H).view = H[Len(H)].view /\ LastViewstamp(H).view \in Nat
  BY LastLemma
<1>4. LastViewstamp(K).view \in Nat
  BY LastLemma
<1>5. H[i].view <= H[Len(H)].view /\ H[i].view \in Nat
  BY ViewsGrow
<1> \/ LastViewstamp(K).view > LastViewstamp(H).view
    \/ LastViewstamp(K).view = LastViewstamp(H).view /\ Len(K) >= Len(H)
  BY DEF NotOlder
<1> QED BY <1>3, <1>4, <1>5, SMTT(30)

\* A vote that H has kept is kept in a log that is not older.
LEMMA LatestKeeps ==
  ASSUME NEW L, Ledger(L), NEW w \in Nat, w \notin DOMAIN L,
         NEW K, Fits(L, K), \A j \in 1..Len(K) : K[j].view < w,
         NEW H, Fits(L, H), NotOlder(K, H),
         NEW v \in DOMAIN L, NEW i \in Nat, Own(L, v, i), Kept(L, H, v, i, w + 1)
  PROVE  Kept(L, K, v, i, w)
<1>1. CASE \E u \in DOMAIN L : v < u /\ u < w + 1 /\ ~Has(L, L[u], v, i)
  <2>1. PICK u \in DOMAIN L : v < u /\ u < w + 1 /\ ~Has(L, L[u], v, i)
    BY <1>1
  <2>2. u \in Nat /\ u # w
    BY LedgerFacts
  <2> u < w
    BY <2>1, <2>2, SMTT(30)
  <2> QED BY <2>1 DEF Kept
<1>2. CASE Has(L, H, v, i)
  <2> DEFINE u == LastViewstamp(K).view
  <2> /\ i \in 1..Len(L[v]) /\ L[v][i].view = v /\ i <= Len(H)
      /\ \A j \in 1..i : H[j] = L[v][j]
    BY <1>2 DEF Own, Has
  <2> /\ v \in Nat /\ Len(L[v]) \in Nat /\ Len(H) \in Nat /\ Len(K) \in Nat
      /\ Numbered(K) /\ Numbered(H)
    <3>1. v \in Nat /\ Len(L[v]) \in Nat
      BY LedgerFacts
    <3>2. Len(H) \in Nat /\ Numbered(H)
      BY FitsFacts DEF Numbered
    <3> Len(K) \in Nat /\ Numbered(K)
      BY FitsFacts DEF Numbered
    <3> QED BY <3>1, <3>2
  <2> i \in 1..i /\ i \in 1..Len(H) /\ i # 0
    BY SMTT(30)
  <2>4. H[i].view = v
    OBVIOUS
  <2> /\ u \in Nat /\ v <= u
      /\ u = LastViewstamp(H).view => H[Len(H)].view = u /\ Len(H) <= Len(K)
    <3> /\ H[i].view \in Nat /\ LastViewstamp(K).view \in Nat
        /\ H[i].view <= LastViewstamp(K).view
        /\ LastViewstamp(K).view = LastViewstamp(H).view =>
             H[Len(H)].view = LastViewstamp(K).view /\ Len(H) <= Len(K)
      BY LastView
    <3> QED BY <2>4
  <2> HIDE DEF u
  <2> Len(K) # 0
    <3>1. CASE u = LastViewstamp(H).view
      BY <3>1, SMTT(30)
    <3>2. CASE u # LastViewstamp(H).view
      <4>1. u > LastViewstamp(H).view
        BY <3>2 DEF NotOlder, u
      <4>2. LastViewstamp(H).view \in Nat
        <5>1. Len(H) \in 1..Len(H) /\ Len(H) # 0
          BY SMTT(30)
        <5>2. LastViewstamp(H).view = H[Len(H)].view
          BY <5>1, LastLemma
        <5> H[Len(H)].view \in Nat
          BY <5>1, FitsFacts
        <5> QED BY <5>2
      <4> Len(K) = 0 => u = 0
        BY LastLemma DEF u
      <4> QED BY <4>1, <4>2, SMTT(30)
    <3> QED BY <3>1, <3>2
  <2> Len(K) \in 1..Len(K) /\ Len(H) \in 1..Len(H)
    BY SMTT(30)
  <2>8. K[Len(K)].view = u /\ u \in DOMAIN L /\ Has(L, K, u, Len(K)) /\ u < w
    <3> K[Len(K)].view = u
      BY LastLemma DEF u
    <3> QED BY FitsFacts
  <2> /\ Len(K) <= Len(L[u]) /\ \A j \in 1..Len(K) : K[j] = L[u][j]
      /\ Len(L[u]) \in Nat
    BY <2>8, LedgerFacts DEF Has
  <2>10. CASE u = LastViewstamp(H).view
    <3>1. Has(L, H, u, Len(H))
      BY <2>10, FitsFacts
    <3>2. \A j \in 1..Len(H) : H[j] = L[u][j] /\ j \in 1..Len(K)
      BY <2>10, <3>1, SMTT(30) DEF Has
    <3>3. \A j \in 1..i : j \in 1..Len(H)
      BY SMTT(30)
    <3>4. \A j \in 1..i : K[j] = L[v][j]
      BY <3>2, <3>3
    <3> i <= Len(K) /\ i <= Len(L[v])
      BY <2>10, SMTT(30)
    <3> QED BY <3>4 DEF Kept, Has
  <2>11. CASE u # LastViewstamp(H).view
    <3>1. v < u
      <4>1. u > LastViewstamp(H).view
        BY <2>11 DEF NotOlder, u
      <4>2. LastViewstamp(H).view = H[Len(H)].view
        <5> Len(H) # 0
          BY SMTT(30)
        <5> QED BY LastLemma
      <4>3. H[i].view <= H[Len(H)].view
        BY ViewsGrow
      <4> H[Len(H)].view \in Nat
        BY FitsFacts
      <4> QED BY <2>4, <4>1, <4>2, <4>3, SMTT(30)
    <3>2. CASE ~Has(L, L[u], v, i)
      BY <2>8, <3>1, <3>2 DEF Kept
    <3>3. CASE Has(L, L[u], v, i)
      <4> /\ i <= Len(L[u]) /\ i <= Len(L[v])
          /\ \A j \in 1..i : L[u][j] = L[v][j]
        BY <3>3 DEF Has
      <4>2. L[u][i].view = v
        OBVIOUS
      <4>3. L[u][Len(K)].view = u
        BY <2>8
      <4>4. i <= Len(K)
        <5>1. SUFFICES ASSUME ~(i <= Len(K)) PROVE FALSE
          OBVIOUS
        <5>2. i \in 1..Len(L[u]) /\ Len(K) \in 1..i
          BY <5>1, SMTT(30)
        <5>3. Fits(L, L[u])
          BY <2>8 DEF Ledger
        <5> L[u][Len(K)].view <= L[u][i].view
          BY <5>2, <5>3, ViewsGrow
        <5> QED BY <3>1, <4>2, <4>3, SMTT(30)
      <4>5. \A j \in 1..i : j \in 1..Len(K)
        BY <4>4, SMTT(30)
      <4> \A j \in 1..i : K[j] = L[v][j]
        BY <4>5
      <4> QED BY <4>4 DEF Kept, Has
    <3> QED BY <3>2, <3>3
  <2> QED BY <2>10, <2>11
<1> QED BY <1>1, <1>2 DEF Kept

-----------------------------------------------------------------------------
(***************************************************************************)
(* The invariant.                                                          *)
(***************************************************************************)
\* Where the log of replica r comes from.
PlaceOK(L, s, r) ==
  /\ \A i \in 1..Len(s.log) :
       \/ s.log[i].view < s.view
       \/ s.log[i].view = s.view /\ s.status # "VIEW_CHANGE"
  /\ s.status = "NORMAL" =>
       /\ s.view \in DOMAIN L
       /\ Has(L, s.log, s.view, Len(s.log)) /\ Started(L, s.view, Len(s.log))
  /\ s.view \in DOMAIN L /\ AmLeader(s, r) =>
       /\ s.status # "VIEW_CHANGE" /\ s.log = L[s.view]
       /\ \A i \in 1..Len(s.log) :
            s.log[i].view = s.view => s.log[i].request \in s.clientTable

\* What replica r has voted for.
VoteOK(L, M, s, r) ==
  \A v \in DOMAIN L : \A i \in Nat :
    Voted(L, M, r, v, i) => v <= s.view /\ Kept(L, s.log, v, i, s.view + 1)

\* The messages replica r has collected.
SetsOK(s) ==
  /\ \A x \in s.prepareOKs :
       x.type = "PREPAREOK" /\ (s.status = "NORMAL" => x.view = s.view)
  /\ \A x \in s.startViewChanges : x.type = "STARTVIEWCHANGE"
  /\ \A x \in s.doViewChanges : x.type = "DOVIEWCHANGE" /\ x.view = s.view
  /\ \A x, y \in s.doViewChanges : x.replicaidx = y.replicaidx => x = y

\* What holds of replica r, which is s.
RepOK(L, M, s, r) ==
  /\ s \in RepType(M) /\ Fits(L, s.log) /\ ExecOK(s)
  /\ Committed(L, M, s.log, s.lastCommitted, s.view)
  /\ PlaceOK(L, s, r) /\ VoteOK(L, M, s, r) /\ SetsOK(s)

\* The messages; R is the members of the replicas.  The requests of a PREPARE are
\* in the log of its view.
PrepareMsg(L, m) ==
  /\ m.view \in DOMAIN L /\ m.opnum \in 0..Len(L[m.view])
  /\ m.batchstart \in Nat \ {0}
  /\ \A i \in m.batchstart..m.opnum :
       m.requests[i - m.batchstart + 1] = L[m.view][i].request

\* A PREPAREOK is of a replica that does not lead the view and has reached it.
PrepareOKMsg(L, R, m) ==
  /\ m.view \in DOMAIN L /\ m.opnum \in 0..Len(L[m.view])
  /\ m.replicaidx \in Replica \ {GetLeaderIndex(m.view)}
  /\ R[m.replicaidx].view >= m.view
  /\ m = PrepareOK(m.view, m.opnum, m.replicaidx)

\* A COMMIT tells what was chosen.
CommitMsg(L, M, m) ==
  m.view \in DOMAIN L /\ Committed(L, M, L[m.view], m.opnum, m.view)

\* Who asks for a state transfer has committed as far as it says.
RequestMsg(R, m) ==
  /\ m.replicaidx \in Replica /\ m.view \in Nat
  /\ m.opnum \in 0..R[m.replicaidx].lastCommitted

\* A STATETRANSFER has a part of the log of its view, from where it is needed.
TransferMsg(L, M, R, m) ==
  /\ m.view \in DOMAIN L /\ m.to \in Replica
  /\ Committed(L, M, L[m.view], m.opnum, m.view)
  /\ \E a, k \in Nat :
       /\ Slice(m.entries, L[m.view], a, k) /\ Started(L, m.view, k)
       /\ a <= R[m.to].lastCommitted + 1 /\ m.opnum <= k

\* A STARTVIEWCHANGE.
StartViewChangeMsg(m) ==
  m.view \in Nat /\ m.replicaidx \in Replica /\ m.lastcommitted \in Nat

\* K is the log the message was sent with.
DoViewChangeFrom(L, M, m, K) ==
  /\ Fits(L, K) /\ Len(K) = m.lastop /\ LastViewstamp(K).view = m.lastnormalview
  /\ \A i \in 1..Len(K) : K[i].view < m.view
  /\ Committed(L, M, K, m.lastcommitted, m.view) /\ m.lastcommitted <= m.lastop
  /\ \E a \in Nat : Slice(m.entries, K, a, m.lastop) /\ (a = 1 \/ a <= m.lastop)
  /\ \A v \in DOMAIN L : \A i \in Nat :
       Voted(L, M, m.replicaidx, v, i) /\ v < m.view => Kept(L, K, v, i, m.view + 1)

\* A DOVIEWCHANGE is of a replica that has left the views before.
DoViewChangeMsg(L, M, R, m) ==
  /\ m.view \in Nat /\ m.replicaidx \in Replica \ {GetLeaderIndex(m.view)}
  /\ R[m.replicaidx].view >= m.view
  /\ \E K \in Seq(LogEntry) : DoViewChangeFrom(L, M, m, K)

\* A STARTVIEW has the log its view started with.
StartViewMsg(L, M, m) ==
  /\ m.view \in DOMAIN L /\ Started(L, m.view, m.lastop)
  /\ Committed(L, M, L[m.view], m.lastcommitted, m.view) /\ m.lastcommitted <= m.lastop
  /\ \E a \in Nat : Slice(m.entries, L[m.view], a, m.lastop) /\ (a = 1 \/ a <= m.lastop)

\* A message means what its kind means.
MsgOK(L, M, R, m) ==
  /\ m.type = "PREPARE" => PrepareMsg(L, m)
  /\ m.type = "PREPAREOK" => PrepareOKMsg(L, R, m)
  /\ m.type = "COMMIT" => CommitMsg(L, M, m)
  /\ m.type = "REQUESTSTATETRANSFER" => RequestMsg(R, m)
  /\ m.type = "STATETRANSFER" => TransferMsg(L, M, R, m)
  /\ m.type = "STARTVIEWCHANGE" => StartViewChangeMsg(m)
  /\ m.type = "DOVIEWCHANGE" => DoViewChangeMsg(L, M, R, m)
  /\ m.type = "STARTVIEW" => StartViewMsg(L, M, m)

\* All messages do.
MsgsOK(L, M, R) == \A m \in M : MsgOK(L, M, R, m)

\* View w was started by a quorum that had given up all earlier views; a vote
\* of one of them is kept in the log w started with, or lost before.
QuorumAt(L, M, R, w) ==
  \E Q \in Quorums : \A q \in Q :
    /\ R[q].view >= w
    /\ \A v \in DOMAIN L : \A i \in Nat :
         v < w /\ Own(L, v, i) /\ Voted(L, M, q, v, i) => Kept(L, L[w], v, i, w)

\* So was every view but the first.
QuorumsAt(L, M, R) == \A w \in DOMAIN L \ {0} : QuorumAt(L, M, R, w)

\* What was decided was chosen.
DecidedOK(L, M, d) ==
  \E i \in Nat : /\ Chosen(L, M, d.view, i) /\ d.opnum \in 1..i
                 /\ L[d.view][d.opnum].request = d.request

\* The invariant, of ledger L, messages M, replicas R and decisions D.
Inv(L, M, R, D) ==
  /\ Ledger(L) /\ R \in [Replica -> RepType(M)]
  /\ \A r \in Replica : RepOK(L, M, R[r], r)
  /\ MsgsOK(L, M, R)
  /\ \A w \in DOMAIN L : R[GetLeaderIndex(w)].view >= w
  /\ QuorumsAt(L, M, R)
  /\ \A d \in D : DecidedOK(L, M, d)

\* The invariant of the specification.
IInv ==
  /\ setup \in Setup
  /\ ~stray /\ ~late => \E L : Inv(L, msgs, rep, decided)

-----------------------------------------------------------------------------
(***************************************************************************)
(* The first state, and the history variables.                             *)
(***************************************************************************)
\* The ledger of the start: view 0 has an empty log.
FirstLedger == [v \in {0} |-> <<>>]

\* It is a ledger.
LEMMA FirstLedgerOK ==
  /\ Ledger(FirstLedger) /\ DOMAIN FirstLedger = {0}
  /\ FirstLedger[0] = <<>> /\ Len(FirstLedger[0]) = 0
<1>1. DOMAIN FirstLedger = {0} /\ FirstLedger[0] = <<>>
  BY DEF FirstLedger
<1> Len(<<>>) = 0 /\ 1..0 = {} /\ 0 \in Nat /\ <<>> \in Seq(LogEntry)
  BY SMTT(30)
<1>3. Fits(FirstLedger, <<>>) /\ Once(<<>>, 0)
  BY DEF Fits, Once
<1> Ledger(FirstLedger)
  BY <1>1, <1>3 DEF Ledger
<1> QED BY <1>1

\* A replica of the start.
LEMMA FirstReplica ==
  ASSUME NEW r \in Replica
  PROVE  RepOK(FirstLedger, {}, NewReplica, r)
<1> DEFINE L == FirstLedger
           s == NewReplica
<1> Ledger(L) /\ DOMAIN L = {0} /\ L[0] = <<>> /\ Len(L[0]) = 0
  BY FirstLedgerOK
<1> /\ Len(<<>>) = 0 /\ 1..0 = {} /\ 0 \in Nat /\ <<>> \in Seq(LogEntry) /\ <<>> \in Seq(Client)
    /\ 0 <= 0 /\ \A i \in Nat : i <= 0 => i = 0
  BY SMTT(30)
<1> /\ s.status = "NORMAL" /\ s.view = 0 /\ s.log = <<>> /\ s.lastOp = 0 /\ s.lastCommitted = 0
    /\ s.clientTable = {} /\ s.prepareOKs = {} /\ s.startViewChanges = {}
    /\ s.doViewChanges = {} /\ s.executed = <<>>
  BY DEF NewReplica
<1>4. s \in RepType({})
  BY DEF NewReplica, RepType, Status
<1> HIDE DEF s, L
<1>5. Fits(L, s.log)
  BY DEF Fits
<1>6. ExecOK(s)
  BY DEF ExecOK
<1>7. Committed(L, {}, s.log, s.lastCommitted, s.view)
  BY DEF Committed
<1>8. Has(L, s.log, 0, 0)
  BY DEF Has
<1>9. PlaceOK(L, s, r)
  <2> Started(L, s.view, Len(s.log))
    BY DEF Started
  <2> QED BY <1>8 DEF PlaceOK
<1>10. VoteOK(L, {}, s, r)
  <2> SUFFICES ASSUME NEW v \in DOMAIN L, NEW i \in Nat, Voted(L, {}, r, v, i)
               PROVE  v <= s.view /\ Kept(L, s.log, v, i, s.view + 1)
    BY DEF VoteOK
  <2>1. v = 0
    OBVIOUS
  <2> i = 0
    BY <2>1 DEF Voted
  <2> QED BY <1>8, <2>1 DEF Kept
<1>11. SetsOK(s)
  BY DEF SetsOK
<1> RepOK(L, {}, s, r)
  BY <1>4, <1>5, <1>6, <1>7, <1>9, <1>10, <1>11 DEF RepOK
<1> QED BY DEF s, L

\* The invariant holds at the start.
LEMMA InitIInv == Init => IInv
<1> SUFFICES ASSUME Init PROVE IInv
  OBVIOUS
<1> DEFINE L == FirstLedger
<1> Ledger(L) /\ DOMAIN L = {0}
  BY FirstLedgerOK
<1> /\ setup \in Setup /\ msgs = {} /\ decided = {}
    /\ \A r \in Replica : rep[r] = NewReplica
    /\ rep = [r \in Replica |-> NewReplica]
  BY DEF Init
<1>3. \A r \in Replica : RepOK(L, {}, NewReplica, r)
  BY FirstReplica
<1>4. 0 \in Nat /\ 0 >= 0 /\ GetLeaderIndex(0) \in Replica
  <2> 0 \in Nat /\ 0 >= 0
    BY SMTT(30)
  <2> QED BY LeaderIsReplica
<1>5. NewReplica.view = 0
  BY DEF NewReplica
<1> HIDE DEF L
<1>6. rep \in [Replica -> RepType(msgs)]
  <2>1. NewReplica \in RepType({})
    BY <1>3, <1>4 DEF RepOK
  <2> HIDE DEF NewReplica
  <2> QED BY <2>1
<1>7. /\ \A r \in Replica : RepOK(L, msgs, rep[r], r)
      /\ MsgsOK(L, msgs, rep) /\ \A d \in decided : DecidedOK(L, msgs, d)
  BY <1>3 DEF MsgsOK
<1>8. \A w \in DOMAIN L : rep[GetLeaderIndex(w)].view >= w
  BY <1>4, <1>5
<1>9. QuorumsAt(L, msgs, rep)
  BY DEF QuorumsAt
<1> Inv(L, msgs, rep, decided)
  BY <1>6, <1>7, <1>8, <1>9 DEF Inv
<1> QED BY DEF IInv

\* A step leaves the bounds alone.
LEMMA StepSetup ==
  ASSUME NEW r, NEW s, NEW out, Step(r, s, out)
  PROVE  setup' = setup
BY DEF Step

\* No step takes back that a replica went astray, or an entry was late.
LEMMA HistoryGrows ==
  ASSUME Next
  PROVE  /\ setup' = setup
         /\ ~stray' /\ ~late' => ~stray /\ ~late
<1> DEFINE Same == setup' = setup /\ NoHistory
           Grows == setup' = setup /\ (~stray' /\ ~late' => ~stray /\ ~late)
<1> Same => Grows
  <2> SUFFICES ASSUME Same PROVE Grows
    OBVIOUS
  <2> stray' = stray /\ late' = late
    BY DEF NoHistory
  <2> QED OBVIOUS
<1>1. PICK r \in Replica : LeaderNext(r) \/ FollowerNext(r) \/ TransferNext(r) \/ ViewChangeNext(r)
  BY DEF Next
<1> SUFFICES Grows
  OBVIOUS
<1>2. CASE LeaderNext(r)
  <2>1. ASSUME NEW c \in setup.clients, HandleRequest(r, c) PROVE Same
    BY <2>1, StepSetup DEF HandleRequest
  <2>2. ASSUME NEW m \in Received("PREPAREOK"), HandlePrepareOK(r, m) PROVE Grows
    <3>1. setup' = setup
      BY <2>2, StepSetup DEF HandlePrepareOK
    <3> ~stray' /\ ~late' => ~stray /\ ~late
      BY <2>2 DEF HandlePrepareOK, NoHistory
    <3> QED BY <3>1
  <2>3. ASSUME CloseBatch(r) PROVE Same
    BY <2>3, StepSetup DEF CloseBatch
  <2>4. ASSUME SendNullCommit(r) PROVE Same
    BY <2>4, StepSetup DEF SendNullCommit
  <2> HIDE DEF Same, Grows
  <2> QED BY <1>2, <2>1, <2>2, <2>3, <2>4 DEF LeaderNext
<1>3. CASE FollowerNext(r)
  <2>1. ASSUME NEW m \in Received("PREPARE"), HandlePrepare(r, m) PROVE Same
    BY <2>1, StepSetup DEF HandlePrepare
  <2>2. ASSUME NEW m \in Received("COMMIT"), HandleCommit(r, m) PROVE Same
    BY <2>2, StepSetup DEF HandleCommit
  <2> HIDE DEF Same, Grows
  <2> QED BY <1>3, <2>1, <2>2 DEF FollowerNext
<1>4. CASE TransferNext(r)
  <2>1. ASSUME NEW m, Behind(r, m) PROVE Same
    BY <2>1, StepSetup DEF Behind
  <2>2. ASSUME NEW m, HandleRequestStateTransfer(r, m) PROVE Same
    BY <2>2, StepSetup DEF HandleRequestStateTransfer
  <2>3. ASSUME NEW m, HandleStateTransfer(r, m) PROVE Grows
    <3>1. setup' = setup
      BY <2>3, StepSetup DEF HandleStateTransfer
    <3> ~stray' /\ ~late' => ~stray /\ ~late
      BY <2>3 DEF HandleStateTransfer
    <3> QED BY <3>1
  <2> HIDE DEF Same, Grows
  <2> QED BY <1>4, <2>1, <2>2, <2>3 DEF TransferNext
<1>5. CASE ViewChangeNext(r)
  <2>1. ASSUME ViewChangeTimeout(r) PROVE Same
    BY <2>1, StepSetup DEF ViewChangeTimeout
  <2>2. ASSUME NEW m, HandleStartViewChange(r, m) PROVE Same
    BY <2>2, StepSetup DEF HandleStartViewChange
  <2>3. ASSUME NEW m, HandleDoViewChange(r, m) PROVE Same
    BY <2>3, StepSetup DEF HandleDoViewChange
  <2>4. ASSUME NEW m, HandleStartView(r, m) PROVE Grows
    <3>1. setup' = setup
      BY <2>4, StepSetup DEF HandleStartView
    <3> ~stray' /\ ~late' => ~stray /\ ~late
      BY <2>4 DEF HandleStartView
    <3> QED BY <3>1
  <2> HIDE DEF Same, Grows
  <2> QED BY <1>5, <2>1, <2>2, <2>3, <2>4 DEF ViewChangeNext
<1> QED BY <1>1, <1>2, <1>3, <1>4, <1>5

-----------------------------------------------------------------------------
(***************************************************************************)
(* The ledger grows: views start, and leaders number requests.             *)
(***************************************************************************)
\* L2 is L after views have started, and leaders have numbered requests.
Grown(L, L2) ==
  /\ Ledger(L) /\ Ledger(L2) /\ DOMAIN L \subseteq DOMAIN L2
  /\ \A v \in DOMAIN L :
       /\ Len(L[v]) <= Len(L2[v])
       /\ \A i \in 1..Len(L[v]) : L2[v][i] = L[v][i]
       /\ \A i \in 1..Len(L2[v]) : i > Len(L[v]) => L2[v][i].view = v

\* What view w has of an earlier view it has from its start.
LEMMA StartedHas ==
  ASSUME NEW L, Ledger(L), NEW w \in DOMAIN L, NEW v \in DOMAIN L, v < w,
         NEW k \in Nat, Started(L, w, k), NEW i \in Nat, Has(L, L[w], v, i)
  PROVE  i <= k
<1> v \in Nat /\ w \in Nat /\ Len(L[w]) \in Nat /\ Len(L[v]) \in Nat
  BY LedgerFacts
<1>2. SUFFICES ASSUME i > k PROVE FALSE
  BY SMTT(30)
<1> i \in 1..i /\ i \in 1..Len(L[v]) /\ i \in 1..Len(L[w])
  BY <1>2, SMTT(30) DEF Has
<1>4. L[w][i].view = w
  BY <1>2 DEF Started
<1>5. L[w][i] = L[v][i]
  BY DEF Has
<1> L[v][i].view <= v
  BY LedgerFacts
<1> QED BY <1>4, <1>5, SMTT(30)

\* A log has the same entries of a view in the grown ledger.
LEMMA GrownHas ==
  ASSUME NEW L, NEW L2, Grown(L, L2), NEW K, NEW v \in DOMAIN L, NEW i \in Nat,
         Len(K) \in Nat
  PROVE  /\ Has(L, K, v, i) => Has(L2, K, v, i)
         /\ i <= Len(L[v]) /\ Has(L2, K, v, i) => Has(L, K, v, i)
<1>1. /\ Len(L[v]) \in Nat /\ Len(L2[v]) \in Nat /\ Len(L[v]) <= Len(L2[v])
      /\ \A j \in 1..Len(L[v]) : L2[v][j] = L[v][j]
  BY LedgerFacts DEF Grown
<1> i <= Len(L[v]) => i <= Len(L2[v]) /\ \A j \in 1..i : j \in 1..Len(L[v])
  BY <1>1, SMTT(30)
<1> QED BY <1>1 DEF Has

\* The ledger with the view w, which starts with the log K.
WithView(L, w, K) == [v \in DOMAIN L \cup {w} |-> IF v = w THEN K ELSE L[v]]

\* What is known of it.
ViewAdded(L, w, K, L2) ==
  /\ Grown(L, L2) /\ Ledger(L2) /\ DOMAIN L2 = DOMAIN L \cup {w}
  /\ L2[w] = K /\ \A v \in DOMAIN L : L2[v] = L[v]
  /\ Fits(L2, K) /\ Started(L2, w, Len(K)) /\ Has(L2, K, w, Len(K))

\* Such a ledger has grown.
LEMMA WithViewLemma ==
  ASSUME NEW L, Ledger(L), NEW w \in Nat, w \notin DOMAIN L,
         NEW K, Fits(L, K), \A j \in 1..Len(K) : K[j].view < w,
         NEW L2, L2 = WithView(L, w, K)
  PROVE  ViewAdded(L, w, K, L2)
<1>1. /\ DOMAIN L2 = DOMAIN L \cup {w} /\ L2[w] = K
      /\ \A v \in DOMAIN L : L2[v] = L[v]
  BY DEF WithView
<1>2. /\ K \in Seq(LogEntry) /\ Len(K) \in Nat
      /\ \A j \in 1..Len(K) : K[j].opnum = j /\ K[j].view \in DOMAIN L /\ K[j].view \in Nat
  BY FitsFacts
<1>3. \A v \in DOMAIN L : v \in Nat /\ Len(L[v]) \in Nat
  BY LedgerFacts
<1>4. ASSUME NEW H, Fits(L, H) PROVE Fits(L2, H)
  <2>1. H \in Seq(LogEntry)
    BY <1>4 DEF Fits
  <2>2. ASSUME NEW i \in 1..Len(H)
        PROVE  H[i].opnum = i /\ H[i].view \in DOMAIN L2 /\ Has(L2, H, H[i].view, i)
    <3>1. H[i].opnum = i /\ H[i].view \in DOMAIN L /\ Has(L, H, H[i].view, i)
      BY <1>4, <2>2 DEF Fits
    <3> L2[H[i].view] = L[H[i].view] /\ H[i].view \in DOMAIN L2
      BY <1>1, <3>1
    <3> QED BY <3>1 DEF Has
  <2> QED BY <2>1, <2>2 DEF Fits
<1>5. Fits(L2, K)
  BY <1>4
<1>6. \A j \in 1..Len(K) : K[j].view # w /\ K[j].view <= w
  BY <1>2, SMTT(30)
<1>7. Once(K, w)
  BY <1>6 DEF Once
<1>8. Ledger(L2)
  <2>1. DOMAIN L2 \subseteq Nat /\ 0 \in DOMAIN L2
    BY <1>1 DEF Ledger
  <2>2. ASSUME NEW v \in DOMAIN L2
        PROVE  /\ Fits(L2, L2[v]) /\ Once(L2[v], v)
               /\ \A i \in 1..Len(L2[v]) : L2[v][i].view <= v
    <3>1. CASE v = w
      BY <1>1, <1>5, <1>6, <1>7, <3>1
    <3>2. CASE v \in DOMAIN L
      <4>1. /\ Fits(L, L[v]) /\ Once(L[v], v)
            /\ \A i \in 1..Len(L[v]) : L[v][i].view <= v
        BY <3>2 DEF Ledger
      <4> Fits(L2, L[v])
        BY <1>4, <4>1
      <4> QED BY <1>1, <3>2, <4>1
    <3> QED BY <1>1, <2>2, <3>1, <3>2
  <2> QED BY <2>1, <2>2 DEF Ledger
<1>9. Grown(L, L2)
  <2>1. ASSUME NEW v \in DOMAIN L
        PROVE  /\ Len(L[v]) <= Len(L2[v])
               /\ \A i \in 1..Len(L[v]) : L2[v][i] = L[v][i]
               /\ \A i \in 1..Len(L2[v]) : i > Len(L[v]) => L2[v][i].view = v
    <3>1. L2[v] = L[v] /\ Len(L[v]) \in Nat
      BY <1>1, <1>3, <2>1
    <3> Len(L[v]) <= Len(L[v]) /\ \A i \in 1..Len(L[v]) : ~(i > Len(L[v]))
      BY <3>1, SMTT(30)
    <3> QED BY <3>1
  <2> DOMAIN L \subseteq DOMAIN L2
    BY <1>1
  <2> QED BY <1>8, <2>1 DEF Grown
<1>10. Len(K) <= Len(K) /\ \A i \in 1..Len(K) : ~(i > Len(K))
  BY <1>2, SMTT(30)
<1> Started(L2, w, Len(K)) /\ Has(L2, K, w, Len(K))
  BY <1>1, <1>10 DEF Started, Has
<1> QED BY <1>1, <1>5, <1>8, <1>9 DEF ViewAdded

\* A log that fits a ledger fits the grown one.
LEMMA GrownFits ==
  ASSUME NEW L, NEW L2, Grown(L, L2), NEW K, Fits(L, K)
  PROVE  Fits(L2, K)
<1> Ledger(L) /\ DOMAIN L \subseteq DOMAIN L2
  BY DEF Grown
<1> K \in Seq(LogEntry) /\ Len(K) \in Nat
  BY FitsFacts
<1>3. ASSUME NEW i \in 1..Len(K)
      PROVE  K[i].opnum = i /\ K[i].view \in DOMAIN L2 /\ Has(L2, K, K[i].view, i)
  <2>1. K[i].opnum = i /\ K[i].view \in DOMAIN L /\ Has(L, K, K[i].view, i)
    BY FitsFacts
  <2> i \in Nat
    BY SMTT(30)
  <2> QED BY <2>1, GrownHas
<1> QED BY <1>3 DEF Fits

\* A view grows by entries of its own.
LEMMA GrownStarted ==
  ASSUME NEW L, NEW L2, Grown(L, L2), NEW v \in DOMAIN L, NEW k \in Nat, Started(L, v, k)
  PROVE  Started(L2, v, k)
<1>1. Len(L[v]) \in Nat /\ Len(L2[v]) \in Nat
  BY LedgerFacts DEF Grown
<1>2. SUFFICES ASSUME NEW i \in 1..Len(L2[v]), i > k PROVE L2[v][i].view = v
  BY DEF Started
<1>3. CASE i > Len(L[v])
  BY <1>3 DEF Grown
<1>4. CASE ~(i > Len(L[v]))
  <2> i \in 1..Len(L[v])
    BY <1>1, <1>4, SMTT(30)
  <2> QED BY <1>2 DEF Grown, Started
<1> QED BY <1>3, <1>4

\* A view that is without entries of an earlier one stays so.
LEMMA GrownLacks ==
  ASSUME NEW L, NEW L2, Grown(L, L2), NEW v \in DOMAIN L, NEW u \in DOMAIN L, v < u,
         NEW i \in Nat, i <= Len(L[v])
  PROVE  Has(L2, L2[u], v, i) <=> Has(L, L[u], v, i)
<1> /\ Ledger(L) /\ Ledger(L2) /\ v \in DOMAIN L2 /\ u \in DOMAIN L2
    /\ Len(L[u]) <= Len(L2[u]) /\ Len(L[v]) <= Len(L2[v])
    /\ \A j \in 1..Len(L[u]) : L2[u][j] = L[u][j]
    /\ \A j \in 1..Len(L[v]) : L2[v][j] = L[v][j]
    /\ \A j \in 1..Len(L2[u]) : j > Len(L[u]) => L2[u][j].view = u
  BY DEF Grown
<1> /\ v \in Nat /\ u \in Nat /\ Len(L[u]) \in Nat /\ Len(L[v]) \in Nat
    /\ Len(L2[u]) \in Nat /\ Len(L2[v]) \in Nat
  BY LedgerFacts
<1>3. Started(L2, u, Len(L[u]))
  BY DEF Started
<1>4. Has(L2, L2[u], v, i) => i <= Len(L[u])
  BY <1>3, StartedHas
<1>5. ASSUME i <= Len(L[u]), NEW j \in 1..i
      PROVE  j \in 1..Len(L[u]) /\ j \in 1..Len(L[v])
  BY <1>5, SMTT(30)
<1>6. i <= Len(L2[v]) /\ (i <= Len(L[u]) => i <= Len(L2[u]))
  BY SMTT(30)
<1>7. Has(L, L[u], v, i) => i <= Len(L[u])
  BY DEF Has
<1>8. ASSUME i <= Len(L[u]), NEW j \in 1..i
      PROVE  L2[u][j] = L[u][j] /\ L2[v][j] = L[v][j]
  BY <1>5, <1>8
<1> QED BY <1>4, <1>6, <1>7, <1>8 DEF Has

\* Votes and what they decide stay.
LEMMA GrownChosen ==
  ASSUME NEW L, NEW L2, Grown(L, L2), NEW M, NEW M2, M \subseteq M2,
         NEW v \in DOMAIN L, NEW i \in Nat
  PROVE  /\ \A r : Voted(L, M, r, v, i) => Voted(L2, M2, r, v, i)
         /\ Own(L, v, i) => Own(L2, v, i)
         /\ Chosen(L, M, v, i) => Chosen(L2, M2, v, i)
<1> /\ Len(L[v]) \in Nat /\ Len(L2[v]) \in Nat /\ Len(L[v]) <= Len(L2[v])
    /\ \A j \in 1..Len(L[v]) : L2[v][j] = L[v][j]
    /\ v \in DOMAIN L2
  BY LedgerFacts DEF Grown
<1>2. i <= Len(L[v]) => i <= Len(L2[v])
  BY SMTT(30)
<1>3. \A r : Voted(L, M, r, v, i) => Voted(L2, M2, r, v, i)
  BY <1>2 DEF Voted
<1>4. i \in 1..Len(L[v]) => i \in 1..Len(L2[v])
  BY SMTT(30)
<1> Own(L, v, i) => Own(L2, v, i)
  BY <1>4 DEF Own
<1> QED BY <1>3 DEF Chosen

\* What is committed stays committed.
LEMMA GrownCommitted ==
  ASSUME NEW L, NEW L2, Grown(L, L2), NEW M, NEW M2, M \subseteq M2,
         NEW K, Len(K) \in Nat, NEW c, NEW w, NEW w2, Committed(L, M, K, c, w),
         w \in Nat, w2 \in Nat, w <= w2
  PROVE  Committed(L2, M2, K, c, w2)
<1> c \in Nat /\ DOMAIN L \subseteq DOMAIN L2 /\ DOMAIN L \subseteq Nat
  BY DEF Committed, Grown, Ledger
<1>2. SUFFICES ASSUME c # 0
               PROVE  \E v \in DOMAIN L2 : \E i \in Nat :
                        v <= w2 /\ Chosen(L2, M2, v, i) /\ c <= i /\ Has(L2, K, v, c)
  BY DEF Committed
<1>3. PICK v \in DOMAIN L, i \in Nat :
        v <= w /\ Chosen(L, M, v, i) /\ c <= i /\ Has(L, K, v, c)
  BY <1>2 DEF Committed
<1>4. Chosen(L2, M2, v, i) /\ Has(L2, K, v, c)
  BY <1>3, GrownChosen, GrownHas
<1> v <= w2
  BY <1>3, SMTT(30)
<1> QED BY <1>3, <1>4

\* Committed entries of a log are those of a longer one.
LEMMA CommittedLog ==
  ASSUME NEW L, NEW M, NEW K, NEW H, NEW c, NEW w, Committed(L, M, K, c, w),
         c <= Len(H), \A j \in 1..c : H[j] = K[j]
  PROVE  Committed(L, M, H, c, w)
BY DEF Committed, Has

\* A vote that is kept stays kept.
LEMMA GrownKept ==
  ASSUME NEW L, NEW L2, Grown(L, L2), NEW K, Len(K) \in Nat,
         NEW v \in DOMAIN L, NEW i \in Nat, i <= Len(L[v]), NEW w, Kept(L, K, v, i, w)
  PROVE  Kept(L2, K, v, i, w)
<1>1. DOMAIN L \subseteq DOMAIN L2
  BY DEF Grown
<1>2. CASE Has(L, K, v, i)
  BY <1>2, GrownHas DEF Kept
<1>3. CASE \E u \in DOMAIN L : v < u /\ u < w /\ ~Has(L, L[u], v, i)
  BY <1>1, <1>3, GrownLacks DEF Kept
<1> QED BY <1>2, <1>3 DEF Kept

-----------------------------------------------------------------------------
(***************************************************************************)
(* A step of one replica.                                                  *)
(***************************************************************************)
\* A step of replica r, from t to s, with the messages of out: others' logs and
\* votes stay, and r votes in its new view only.
Change(L, L2, t, r, s, out) ==
  /\ Grown(L, L2)
  /\ t.view <= s.view /\ t.lastCommitted <= s.lastCommitted
  /\ \A v \in DOMAIN L2 : \/ v \in DOMAIN L /\ L2[v] = L[v]
                          \/ v = s.view /\ r = GetLeaderIndex(v)
  /\ \A m \in out : m.type = "PREPAREOK" => m.replicaidx = r /\ m.view = s.view

\* A step adds votes of its own replica in the view it is in, and no others.
LEMMA OldVotes ==
  ASSUME NEW L, NEW L2, NEW M, NEW R, NEW t, NEW r, NEW s, NEW out,
         Change(L, L2, t, r, s, out),
         MsgsOK(L, M, R)
  PROVE  \A q : \A v \in DOMAIN L2 : \A i \in Nat :
           Voted(L2, M \cup out, q, v, i) /\ (q # r \/ v # s.view)
             => v \in DOMAIN L /\ Voted(L, M, q, v, i)
<1> SUFFICES ASSUME NEW q, NEW v \in DOMAIN L2, NEW i \in Nat, Voted(L2, M \cup out, q, v, i),
                    q # r \/ v # s.view
             PROVE  v \in DOMAIN L /\ Voted(L, M, q, v, i)
  OBVIOUS
<1>1. ASSUME NEW m \in M \cup out, m.type = "PREPAREOK", m.view = v, m.replicaidx = q
      PROVE  m \in M /\ v \in DOMAIN L /\ m.opnum \in 0..Len(L[v])
  <2>1. m \notin out
    BY <1>1 DEF Change
  <2> PrepareOKMsg(L, R, m)
    BY <1>1, <2>1 DEF MsgsOK, MsgOK
  <2> QED BY <1>1, <2>1 DEF PrepareOKMsg
<1>2. CASE v \in DOMAIN L /\ L2[v] = L[v]
  BY <1>1, <1>2 DEF Voted
<1>3. CASE v = s.view /\ r = GetLeaderIndex(v)
  <2>1. q # GetLeaderIndex(v)
    BY <1>3
  <2>2. PICK m \in M \cup out : /\ m.type = "PREPAREOK" /\ m.view = v /\ m.replicaidx = q
                               /\ i <= m.opnum
    BY <2>1 DEF Voted
  <2> m \in M /\ v \in DOMAIN L /\ m.opnum \in 0..Len(L[v])
    BY <1>1, <2>2
  <2>4. Len(L[v]) \in Nat
    BY LedgerFacts DEF Change, Grown
  <2> i <= Len(L[v])
    BY <2>2, <2>4, SMTT(30)
  <2> QED BY <2>2 DEF Voted
<1> QED BY <1>2, <1>3 DEF Change

\* The other replicas are as they should be after a step.
LEMMA RepKeeps ==
  ASSUME NEW L, NEW L2, NEW M, NEW R, NEW t, NEW r, NEW s, NEW out,
         Change(L, L2, t, r, s, out),
         MsgsOK(L, M, R),
         NEW q, q # r, NEW z, RepOK(L, M, z, q)
  PROVE  RepOK(L2, M \cup out, z, q)
<1> Ledger(L) /\ Ledger(L2) /\ Grown(L, L2) /\ M \subseteq M \cup out
  BY DEF Change, Grown
<1> z \in RepType(M) /\ Fits(L, z.log) /\ ExecOK(z) /\ SetsOK(z)
  BY DEF RepOK
<1> z.view \in Nat /\ z.log \in Seq(LogEntry) /\ z.lastCommitted \in Nat
  BY DEF RepType
<1> Len(z.log) \in Nat
  BY SeqLen
<1>4. z \in RepType(M \cup out)
  BY SMTT(30) DEF RepType
<1>5. Fits(L2, z.log)
  BY GrownFits
<1>6. z.view <= z.view
  BY SMTT(30)
<1>7. Committed(L2, M \cup out, z.log, z.lastCommitted, z.view)
  BY <1>6, GrownCommitted DEF RepOK
<1>8. PlaceOK(L2, z, q)
  <2>1. PlaceOK(L, z, q)
    BY DEF RepOK
  <2>2. ASSUME z.status = "NORMAL"
        PROVE  /\ z.view \in DOMAIN L2
               /\ Has(L2, z.log, z.view, Len(z.log)) /\ Started(L2, z.view, Len(z.log))
    <3> z.view \in DOMAIN L /\ Has(L, z.log, z.view, Len(z.log)) /\ Started(L, z.view, Len(z.log))
      BY <2>1, <2>2 DEF PlaceOK
    <3> QED BY GrownHas, GrownStarted DEF Grown
  <2>3. ASSUME z.view \in DOMAIN L2, AmLeader(z, q)
        PROVE  z.view \in DOMAIN L /\ L2[z.view] = L[z.view]
    BY <2>3 DEF Change, AmLeader
  <2> QED BY <2>1, <2>2, <2>3 DEF PlaceOK
<1> VoteOK(L2, M \cup out, z, q)
  <2> SUFFICES ASSUME NEW v \in DOMAIN L2, NEW i \in Nat, Voted(L2, M \cup out, q, v, i)
               PROVE  v <= z.view /\ Kept(L2, z.log, v, i, z.view + 1)
    BY DEF VoteOK
  <2>0. \A p : \A x \in DOMAIN L2 : \A j \in Nat :
           Voted(L2, M \cup out, p, x, j) /\ (p # r \/ x # s.view)
             => x \in DOMAIN L /\ Voted(L, M, p, x, j)
    BY OldVotes
  <2> v \in DOMAIN L /\ Voted(L, M, q, v, i)
    BY <2>0
  <2>2. v <= z.view /\ Kept(L, z.log, v, i, z.view + 1)
    BY DEF RepOK, VoteOK
  <2> i <= Len(L[v])
    BY DEF Voted
  <2> QED BY <2>2, GrownKept
<1> QED BY <1>4, <1>5, <1>7, <1>8 DEF RepOK

\* The messages sent before are as they should be after a step.
LEMMA MsgKeeps ==
  ASSUME NEW L, NEW L2, NEW M, NEW R, NEW r \in Replica, NEW s, NEW out,
         R \in [Replica -> RepType(M)], s \in RepType(M \cup out),
         Change(L, L2, R[r], r, s, out),
         MsgsOK(L, M, R),
         NEW m \in M
  PROVE  MsgOK(L2, M \cup out, [R EXCEPT ![r] = s], m)
<1> DEFINE R2 == [R EXCEPT ![r] = s]
           M2 == M \cup out
<1> Ledger(L) /\ Ledger(L2) /\ Grown(L, L2) /\ M \subseteq M2 /\ DOMAIN L \subseteq DOMAIN L2
  BY DEF Change, Grown
<1>1. /\ R[r].view \in Nat /\ R[r].lastCommitted \in Nat
      /\ s.view \in Nat /\ s.lastCommitted \in Nat
      /\ R[r].view <= s.view /\ R[r].lastCommitted <= s.lastCommitted
  <2> R[r] \in RepType(M)
    OBVIOUS
  <2> QED BY DEF RepType, Change
<1>2. ASSUME NEW q \in Replica
      PROVE  /\ R[q].view \in Nat /\ R2[q].view \in Nat /\ R[q].view <= R2[q].view
             /\ R[q].lastCommitted \in Nat /\ R2[q].lastCommitted \in Nat
             /\ R[q].lastCommitted <= R2[q].lastCommitted
  <2>1. CASE q = r
    BY <1>1, <2>1
  <2>2. CASE q # r
    <3>1. R2[q] = R[q] /\ R[q] \in RepType(M)
      BY <2>2
    <3> R[q].view \in Nat /\ R[q].lastCommitted \in Nat
      BY <3>1 DEF RepType
    <3> QED BY <3>1, SMTT(30)
  <2> QED BY <2>1, <2>2
<1>15. \A p : \A x \in DOMAIN L2 : \A j \in Nat :
           Voted(L2, M2, p, x, j) /\ (p # r \/ x # s.view)
             => x \in DOMAIN L /\ Voted(L, M, p, x, j)
  BY OldVotes
<1> HIDE DEF R2, M2
<1> MsgOK(L, M, R, m)
  BY DEF MsgsOK
<1>4. ASSUME NEW v \in DOMAIN L
      PROVE  /\ v \in Nat /\ v \in DOMAIN L2 /\ Len(L[v]) \in Nat /\ Len(L2[v]) \in Nat
             /\ Len(L[v]) <= Len(L2[v])
             /\ \A i \in 1..Len(L[v]) : L2[v][i] = L[v][i]
  BY LedgerFacts DEF Grown
<1>5. ASSUME NEW v \in DOMAIN L, NEW c, Committed(L, M, L[v], c, v)
      PROVE  Committed(L2, M2, L2[v], c, v)
  <2>1. v \in Nat /\ v <= v
    BY <1>4, SMTT(30)
  <2>2. Committed(L2, M2, L[v], c, v)
    BY <1>4, <1>5, <2>1, GrownCommitted
  <2>3. CASE c = 0
    BY <2>2, <2>3 DEF Committed
  <2>4. CASE c # 0
    <3>1. c \in Nat /\ c <= Len(L[v])
      BY <1>5, <2>4 DEF Committed, Has
    <3>2. c <= Len(L2[v]) /\ \A j \in 1..c : j \in 1..Len(L[v])
      BY <1>4, <3>1, SMTT(30)
    <3> \A j \in 1..c : L2[v][j] = L[v][j]
      BY <1>4, <3>2
    <3> QED BY <2>2, <3>2, CommittedLog
  <2> QED BY <2>3, <2>4
<1>6. ASSUME NEW v \in DOMAIN L, NEW entries, NEW a, NEW k, Slice(entries, L[v], a, k)
      PROVE  Slice(entries, L2[v], a, k)
  <2>1. a \in Nat /\ a # 0 /\ k \in 0..Len(L[v]) /\ Len(entries) = IF a <= k THEN k - a + 1 ELSE 0
    BY <1>6 DEF Slice
  <2> k \in 0..Len(L2[v]) /\ \A i \in 1..Len(entries) : a + i - 1 \in 1..Len(L[v])
    BY <1>4, <2>1, SMTT(30)
  <2> QED BY <1>4, <1>6 DEF Slice
<1>7. CASE m.type = "PREPARE"
  <2>1. PrepareMsg(L, m)
    BY <1>7 DEF MsgOK
  <2>2. /\ m.view \in DOMAIN L /\ m.opnum \in 0..Len(L[m.view]) /\ m.batchstart \in Nat /\ m.batchstart # 0
        /\ \A i \in m.batchstart..m.opnum : m.requests[i - m.batchstart + 1] = L[m.view][i].request
    BY <2>1 DEF PrepareMsg
  <2>3. m.opnum \in 0..Len(L2[m.view]) /\ \A i \in m.batchstart..m.opnum : i \in 1..Len(L[m.view])
    BY <1>4, <2>2, SMTT(30)
  <2> PrepareMsg(L2, m)
    BY <1>4, <2>2, <2>3 DEF PrepareMsg
  <2> QED BY <1>7 DEF MsgOK
<1>8. CASE m.type = "PREPAREOK"
  <2>1. PrepareOKMsg(L, R, m)
    BY <1>8 DEF MsgOK
  <2>2. /\ m.view \in DOMAIN L /\ m.opnum \in 0..Len(L[m.view]) /\ m.replicaidx \in Replica
        /\ R[m.replicaidx].view >= m.view
    BY <2>1 DEF PrepareOKMsg
  <2>3. m.opnum \in 0..Len(L2[m.view]) /\ R2[m.replicaidx].view >= m.view
    BY <1>2, <1>4, <2>2, SMTT(30)
  <2> PrepareOKMsg(L2, R2, m)
    BY <1>4, <2>1, <2>3 DEF PrepareOKMsg
  <2> QED BY <1>8 DEF MsgOK, R2
<1>9. CASE m.type = "COMMIT"
  BY <1>4, <1>5, <1>9 DEF MsgOK, CommitMsg, M2
<1>10. CASE m.type = "REQUESTSTATETRANSFER"
  <2>1. m.replicaidx \in Replica /\ m.view \in Nat /\ m.opnum \in 0..R[m.replicaidx].lastCommitted
    BY <1>10 DEF MsgOK, RequestMsg
  <2> m.opnum \in 0..R2[m.replicaidx].lastCommitted
    BY <1>2, <2>1, SMTT(30)
  <2> QED BY <1>10, <2>1 DEF MsgOK, RequestMsg, R2
<1>11. CASE m.type = "STATETRANSFER"
  <2>1. TransferMsg(L, M, R, m)
    BY <1>11 DEF MsgOK
  <2>2. PICK a \in Nat, k \in Nat :
          /\ Slice(m.entries, L[m.view], a, k) /\ Started(L, m.view, k)
          /\ a <= R[m.to].lastCommitted + 1 /\ m.opnum <= k
    BY <2>1 DEF TransferMsg
  <2> m.view \in DOMAIN L /\ m.to \in Replica /\ Committed(L, M, L[m.view], m.opnum, m.view)
    BY <2>1 DEF TransferMsg
  <2>4. a <= R2[m.to].lastCommitted + 1
    BY <1>2, <2>2, SMTT(30)
  <2>5. Slice(m.entries, L2[m.view], a, k) /\ Started(L2, m.view, k)
    BY <1>6, <2>2, GrownStarted
  <2> TransferMsg(L2, M2, R2, m)
    BY <1>4, <1>5, <2>2, <2>4, <2>5 DEF TransferMsg
  <2> QED BY <1>11 DEF MsgOK, R2, M2
<1>12. CASE m.type = "STARTVIEWCHANGE"
  BY <1>12 DEF MsgOK
<1>13. CASE m.type = "DOVIEWCHANGE"
  <2> DoViewChangeMsg(L, M, R, m)
    BY <1>13 DEF MsgOK
  <2>2. PICK K \in Seq(LogEntry) : DoViewChangeFrom(L, M, m, K)
    BY DEF DoViewChangeMsg
  <2> m.view \in Nat /\ m.replicaidx \in Replica /\ R[m.replicaidx].view >= m.view
    BY DEF DoViewChangeMsg
  <2>4. R2[m.replicaidx].view >= m.view
    BY <1>2, SMTT(30)
  <2>5. Len(K) \in Nat
    BY SeqLen
  <2>6. Fits(L2, K)
    BY <2>2, GrownFits DEF DoViewChangeFrom
  <2>7. Committed(L2, M2, K, m.lastcommitted, m.view)
    <3> m.view <= m.view
      BY SMTT(30)
    <3> QED BY <2>2, <2>5, GrownCommitted DEF DoViewChangeFrom
  <2>8. ASSUME NEW v \in DOMAIN L2, NEW i \in Nat, Voted(L2, M2, m.replicaidx, v, i), v < m.view
        PROVE  Kept(L2, K, v, i, m.view + 1)
    <3>1. m.replicaidx # r \/ v # s.view
      <4>1. CASE m.replicaidx = r
        <5>1. R2[r] = s
          BY DEF R2
        <5> v \in Nat
          BY DEF Ledger
        <5> QED BY <1>1, <2>4, <2>8, <4>1, <5>1, SMTT(30)
      <4> QED BY <4>1
    <3>2. v \in DOMAIN L /\ Voted(L, M, m.replicaidx, v, i)
      BY <1>15, <2>8, <3>1
    <3> Kept(L, K, v, i, m.view + 1) /\ i <= Len(L[v])
      BY <2>2, <2>8, <3>2 DEF DoViewChangeFrom, Voted
    <3> QED BY <2>5, <3>2, GrownKept
  <2>9. DoViewChangeFrom(L2, M2, m, K)
    BY <2>2, <2>6, <2>7, <2>8 DEF DoViewChangeFrom
  <2> DoViewChangeMsg(L2, M2, R2, m)
    BY <2>4, <2>9 DEF DoViewChangeMsg
  <2> QED BY <1>13 DEF MsgOK, R2, M2
<1>14. CASE m.type = "STARTVIEW"
  <2>1. StartViewMsg(L, M, m)
    BY <1>14 DEF MsgOK
  <2>2. PICK a \in Nat : Slice(m.entries, L[m.view], a, m.lastop) /\ (a = 1 \/ a <= m.lastop)
    BY <2>1 DEF StartViewMsg
  <2> /\ m.view \in DOMAIN L /\ Started(L, m.view, m.lastop)
      /\ Committed(L, M, L[m.view], m.lastcommitted, m.view) /\ m.lastcommitted <= m.lastop
    BY <2>1 DEF StartViewMsg
  <2>4. m.lastop \in Nat
    BY <1>4, <2>2, SMTT(30) DEF Slice
  <2>5. Slice(m.entries, L2[m.view], a, m.lastop) /\ Started(L2, m.view, m.lastop)
    BY <1>6, <2>2, <2>4, GrownStarted
  <2> StartViewMsg(L2, M2, m)
    BY <1>4, <1>5, <2>2, <2>5 DEF StartViewMsg
  <2> QED BY <1>14 DEF MsgOK, M2
<1> QED BY <1>7, <1>8, <1>9, <1>10, <1>11, <1>12, <1>13, <1>14 DEF MsgOK

\* The quorum a view was started by is one after a step.
LEMMA QuorumKeeps ==
  ASSUME NEW L, NEW L2, NEW M, NEW R, NEW r \in Replica, NEW s, NEW out,
         R \in [Replica -> RepType(M)], s \in RepType(M \cup out),
         Change(L, L2, R[r], r, s, out), MsgsOK(L, M, R),
         NEW w \in DOMAIN L, QuorumAt(L, M, R, w)
  PROVE  QuorumAt(L2, M \cup out, [R EXCEPT ![r] = s], w)
<1> DEFINE R2 == [R EXCEPT ![r] = s]
           M2 == M \cup out
<1> Ledger(L) /\ Ledger(L2) /\ Grown(L, L2) /\ M \subseteq M2 /\ DOMAIN L \subseteq DOMAIN L2
  BY DEF Change, Grown
<1>1. PICK Q \in Quorums : \A q \in Q :
        /\ R[q].view >= w
        /\ \A v \in DOMAIN L : \A i \in Nat :
             v < w /\ Own(L, v, i) /\ Voted(L, M, q, v, i) => Kept(L, L[w], v, i, w)
  BY DEF QuorumAt
<1>2. Q \subseteq Replica
  BY DEF Quorums
<1>3. R[r].view \in Nat /\ s.view \in Nat /\ R[r].view <= s.view /\ w \in Nat
  <2> R[r] \in RepType(M)
    OBVIOUS
  <2> QED BY DEF RepType, Change, Ledger
<1>4. \A p : \A x \in DOMAIN L2 : \A j \in Nat :
           Voted(L2, M2, p, x, j) /\ (p # r \/ x # s.view)
             => x \in DOMAIN L /\ Voted(L, M, p, x, j)
  BY OldVotes
<1> R2[r] = s /\ \A q \in Replica : q # r => R2[q] = R[q]
  OBVIOUS
<1> HIDE DEF R2, M2
<1>6. ASSUME NEW q \in Q PROVE R2[q].view >= w
  <2>1. R[q].view >= w
    BY <1>1
  <2>2. CASE q = r
    BY <1>3, <2>1, <2>2, SMTT(30)
  <2> QED BY <1>2, <2>1, <2>2
<1>7. ASSUME NEW q \in Q, NEW v \in DOMAIN L2, NEW i \in Nat,
             v < w, Own(L2, v, i), Voted(L2, M2, q, v, i)
      PROVE  Kept(L2, L2[w], v, i, w)
  <2>1. q # r \/ v # s.view
    <3>1. v \in Nat
      BY DEF Ledger
    <3> q = r => s.view >= w
      BY <1>6
    <3> QED BY <1>3, <1>7, <3>1, SMTT(30)
  <2> v \in DOMAIN L /\ Voted(L, M, q, v, i)
    BY <1>4, <1>7, <2>1
  <2> Len(L[v]) \in Nat /\ i <= Len(L[v]) /\ \A j \in 1..Len(L[v]) : L2[v][j] = L[v][j]
    BY LedgerFacts DEF Voted, Grown
  <2>4. Own(L, v, i)
    <3> i \in 1..Len(L[v])
      BY <1>7, SMTT(30) DEF Own
    <3> QED BY <1>7 DEF Own
  <2>5. Kept(L, L[w], v, i, w)
    BY <1>1, <1>7, <2>4
  <2>6. CASE Has(L, L[w], v, i)
    BY <1>7, <2>6, GrownLacks DEF Kept
  <2>7. CASE \E u \in DOMAIN L : v < u /\ u < w /\ ~Has(L, L[u], v, i)
    BY <2>7, GrownLacks DEF Kept
  <2> QED BY <2>5, <2>6, <2>7 DEF Kept
<1> QuorumAt(L2, M2, R2, w)
  BY <1>6, <1>7 DEF QuorumAt
<1> QED BY DEF R2, M2

\* The messages of out.
SentOK(L, M, R, out) == \A m \in out : MsgOK(L, M, R, m)

\* The views a step starts.
StartedOK(L, L2, M, R) == \A w \in DOMAIN L2 : w \notin DOMAIN L => QuorumAt(L2, M, R, w)

\* What a step commits.
NewlyDecided(L, M, D, D2) == \A d \in D2 : d \in D \/ DecidedOK(L, M, d)

\* It is enough to look at the replica that takes the step.
LEMMA StepLemma ==
  ASSUME NEW L, NEW L2, NEW M, NEW R, NEW D, NEW D2, NEW r \in Replica, NEW s, NEW out,
         Inv(L, M, R, D), Change(L, L2, R[r], r, s, out),
         RepOK(L2, M \cup out, s, r), SentOK(L2, M \cup out, [R EXCEPT ![r] = s], out),
         StartedOK(L, L2, M \cup out, [R EXCEPT ![r] = s]),
         NewlyDecided(L2, M \cup out, D, D2)
  PROVE  Inv(L2, M \cup out, [R EXCEPT ![r] = s], D2)
<1> DEFINE R2 == [R EXCEPT ![r] = s]
           M2 == M \cup out
<1> Ledger(L) /\ Ledger(L2) /\ Grown(L, L2) /\ M \subseteq M2 /\ DOMAIN L \subseteq DOMAIN L2
  BY DEF Change, Grown
<1> R \in [Replica -> RepType(M)] /\ MsgsOK(L, M, R) /\ QuorumsAt(L, M, R)
  BY DEF Inv
<1> s \in RepType(M2)
  BY DEF RepOK
<1> R2[r] = s /\ \A q \in Replica : q # r => R2[q] = R[q]
  OBVIOUS
<1>4. R[r].view \in Nat /\ s.view \in Nat /\ R[r].view <= s.view
  <2> R[r] \in RepType(M)
    OBVIOUS
  <2> QED BY DEF RepType, Change
<1>5. ASSUME NEW q \in Replica PROVE RepOK(L2, M2, R2[q], q)
  <2>1. CASE q = r
    BY <2>1
  <2>2. CASE q # r
    <3> RepOK(L, M, R[q], q)
      BY DEF Inv
    <3> QED BY <2>2, RepKeeps
  <2> QED BY <2>1, <2>2
<1>6. R2 \in [Replica -> RepType(M2)]
  <2>1. \A q \in Replica : R2[q] \in RepType(M2)
    BY <1>5 DEF RepOK
  <2>2. R2 = [q \in Replica |-> R2[q]]
    OBVIOUS
  <2> HIDE DEF R2
  <2> QED BY <2>1, <2>2
<1>7. MsgsOK(L2, M2, R2)
  <2>1. ASSUME NEW m \in M PROVE MsgOK(L2, M2, R2, m)
    BY MsgKeeps
  <2> QED BY <2>1 DEF MsgsOK, SentOK
<1>8. ASSUME NEW w \in DOMAIN L2 PROVE R2[GetLeaderIndex(w)].view >= w
  <2> w \in Nat
    BY DEF Ledger
  <2>2. GetLeaderIndex(w) \in Replica
    BY LeaderIsReplica
  <2>3. CASE w \in DOMAIN L
    <3>1. R[GetLeaderIndex(w)].view >= w
      BY <2>3 DEF Inv
    <3>2. CASE GetLeaderIndex(w) = r
      BY <1>4, <3>1, <3>2, SMTT(30)
    <3> QED BY <2>2, <3>1, <3>2
  <2>4. CASE w \notin DOMAIN L
    <3>1. w = s.view /\ r = GetLeaderIndex(w)
      BY <2>4 DEF Change
    <3> w >= w
      BY SMTT(30)
    <3> QED BY <3>1
  <2> QED BY <2>3, <2>4
<1>9. QuorumsAt(L2, M2, R2)
  <2> SUFFICES ASSUME NEW w \in DOMAIN L2 \ {0} PROVE QuorumAt(L2, M2, R2, w)
    BY DEF QuorumsAt
  <2>1. CASE w \in DOMAIN L
    BY <2>1, QuorumKeeps DEF QuorumsAt
  <2>2. CASE w \notin DOMAIN L
    BY <2>2 DEF StartedOK
  <2> QED BY <2>1, <2>2
<1>10. ASSUME NEW d \in D2 PROVE DecidedOK(L2, M2, d)
  <2>1. CASE d \in D
    <3>1. PICK i \in Nat : /\ Chosen(L, M, d.view, i) /\ d.opnum \in 1..i
                           /\ L[d.view][d.opnum].request = d.request
      BY <2>1 DEF Inv, DecidedOK
    <3> d.view \in DOMAIN L /\ i \in 1..Len(L[d.view])
      BY <3>1 DEF Chosen, Own
    <3>3. Chosen(L2, M2, d.view, i)
      BY <3>1, GrownChosen
    <3>4. Len(L[d.view]) \in Nat /\ \A j \in 1..Len(L[d.view]) : L2[d.view][j] = L[d.view][j]
      BY LedgerFacts DEF Grown
    <3> d.opnum \in 1..Len(L[d.view])
      BY <3>1, <3>4, SMTT(30)
    <3> QED BY <3>1, <3>3, <3>4 DEF DecidedOK
  <2> QED BY <2>1 DEF NewlyDecided
<1> QED BY <1>5, <1>6, <1>7, <1>8, <1>9, <1>10 DEF Inv

-----------------------------------------------------------------------------
(***************************************************************************)
(* A leader numbers a request.                                             *)
(***************************************************************************)
\* What a leader knows of itself.
LeaderOK(L, M, s, r) ==
  /\ Ledger(L) /\ s \in RepType(M) /\ s.status = "NORMAL"
  /\ s.view \in DOMAIN L /\ s.view \in Nat /\ GetLeaderIndex(s.view) = r
  /\ s.log = L[s.view] /\ s.log \in Seq(LogEntry) /\ Len(s.log) \in Nat
  /\ s.lastOp = Len(s.log) /\ s.lastCommitted \in Nat /\ s.lastCommitted <= Len(s.log)
  /\ Committed(L, M, L[s.view], s.lastCommitted, s.view)

\* What the leader of a view knows of itself.
LEMMA LeadsFacts ==
  ASSUME NEW L, NEW M, NEW R, NEW D, NEW r \in Replica, Inv(L, M, R, D), Leads(R[r], r)
  PROVE  LeaderOK(L, M, R[r], r)
<1> RepOK(L, M, R[r], r) /\ Ledger(L)
  BY DEF Inv
<1>2. R[r] \in RepType(M)
  BY DEF RepOK
<1>3. R[r].view \in Nat /\ R[r].log \in Seq(LogEntry) /\ R[r].lastCommitted \in Nat
  BY <1>2 DEF RepType
<1>4. R[r].status = "NORMAL" /\ GetLeaderIndex(R[r].view) = r
  BY DEF Leads, AmLeader
<1>5. R[r].view \in DOMAIN L /\ R[r].log = L[R[r].view]
  BY <1>4 DEF RepOK, PlaceOK, AmLeader
<1>6. R[r].lastOp = Len(R[r].log) /\ R[r].lastCommitted <= Len(R[r].log)
  BY DEF RepOK, ExecOK
<1>7. Len(R[r].log) \in Nat
  BY <1>3, SeqLen
<1> Committed(L, M, L[R[r].view], R[r].lastCommitted, R[r].view)
  BY <1>5 DEF RepOK
<1> QED BY <1>2, <1>3, <1>4, <1>5, <1>6, <1>7 DEF LeaderOK

\* The PREPARE a leader sends.
LEMMA PrepareSent ==
  ASSUME NEW L, Ledger(L), NEW M, NEW R, NEW s, s.view \in DOMAIN L, s.log = L[s.view],
         s.lastOp = Len(s.log), s.lastBatchEnd \in Nat
  PROVE  /\ \A m \in {BatchPrepare(s)} : m.type = "PREPARE"
         /\ SentOK(L, M, R, {BatchPrepare(s)})
<1> DEFINE m == BatchPrepare(s)
           batch == SubSeq(s.log, s.lastBatchEnd + 1, s.lastOp)
<1> /\ m.type = "PREPARE" /\ m.view = s.view /\ m.opnum = s.lastOp
    /\ m.batchstart = s.lastBatchEnd + 1
    /\ m.requests = [i \in DOMAIN batch |-> batch[i].request]
  BY DEF BatchPrepare
<1> s.log \in Seq(LogEntry) /\ Len(s.log) \in Nat
  <2> L[s.view] \in Seq(LogEntry) /\ Len(L[s.view]) \in Nat
    BY LedgerFacts
  <2> QED OBVIOUS
<1>3. ASSUME NEW i \in (s.lastBatchEnd + 1)..s.lastOp
      PROVE  /\ i - (s.lastBatchEnd + 1) + 1 \in DOMAIN batch
             /\ batch[i - (s.lastBatchEnd + 1) + 1] = s.log[i]
  <2> DEFINE a == s.lastBatchEnd + 1
             j == i - a + 1
  <2>1. a \in Nat \ {0} /\ s.lastOp \in Nat /\ a <= s.lastOp /\ s.lastOp <= Len(s.log)
    BY SMTT(30)
  <2>2. j \in 1..(s.lastOp - a + 1) /\ a + j - 1 = i
    BY SMTT(30)
  <2> HIDE DEF a, j
  <2>3. /\ DOMAIN SubSeq(s.log, a, s.lastOp) = 1..(s.lastOp - a + 1)
        /\ \A q \in 1..(s.lastOp - a + 1) : SubSeq(s.log, a, s.lastOp)[q] = s.log[a + q - 1]
    BY <2>1, SubSeqLemma, SMTT(30)
  <2> j \in DOMAIN SubSeq(s.log, a, s.lastOp) /\ SubSeq(s.log, a, s.lastOp)[j] = s.log[i]
    BY <2>2, <2>3
  <2> QED BY DEF a, j
<1> HIDE DEF m, batch
<1>4. m.opnum \in 0..Len(L[m.view]) /\ m.batchstart \in Nat \ {0}
  BY SMTT(30)
<1>5. PrepareMsg(L, m)
  <2>1. ASSUME NEW i \in m.batchstart..m.opnum
        PROVE  m.requests[i - m.batchstart + 1] = L[m.view][i].request
    <3>1. i - (s.lastBatchEnd + 1) + 1 \in DOMAIN batch
           /\ batch[i - (s.lastBatchEnd + 1) + 1] = s.log[i]
      BY <1>3
    <3> m.requests[i - (s.lastBatchEnd + 1) + 1] = s.log[i].request
      BY <3>1
    <3> QED OBVIOUS
  <2> QED BY <1>4, <2>1 DEF PrepareMsg
<1> MsgOK(L, M, R, m)
  BY <1>5 DEF MsgOK
<1> QED BY DEF m, SentOK

\* The members are well formed as messages are sent.
LEMMA RepMore ==
  ASSUME NEW M, NEW out, NEW s \in RepType(M)
  PROVE  s \in RepType(M \cup out)
BY DEF RepType

\* The leader numbers a request: its view's log in the ledger grows.
LEMMA LoggedStep ==
  ASSUME NEW L, NEW M, NEW R, NEW D, NEW r \in Replica, Inv(L, M, R, D), Leads(R[r], r),
         NEW c \in Client, c \notin R[r].clientTable,
         NEW s, s \in RepType(M),
         s.log = AppendEntry(R[r].log, R[r].view, R[r].lastOp + 1, c),
         s.lastOp = R[r].lastOp + 1, s.lastCommitted = R[r].lastCommitted,
         s.executed = R[r].executed, s.view = R[r].view, s.status = R[r].status,
         s.clientTable = R[r].clientTable \cup {c}, SetsOK(s),
         NEW z, z.view = s.view, z.log = s.log, z.lastOp = s.lastOp, z.lastBatchEnd \in Nat,
         NEW out, out \subseteq {BatchPrepare(z)}
  PROVE  \E L2 : Inv(L2, M \cup out, [R EXCEPT ![r] = s], D)
<1> DEFINE t == R[r]
           w == t.view
           K == s.log
           e == [view |-> w, opnum |-> t.lastOp + 1, request |-> c]
           L2 == [v \in DOMAIN L |-> IF v = w THEN K ELSE L[v]]
           M2 == M \cup out
<1>1. LeaderOK(L, M, t, r) /\ RepOK(L, M, t, r)
  BY LeadsFacts DEF Inv
<1>2. /\ Ledger(L) /\ t \in RepType(M) /\ t.status = "NORMAL"
      /\ w \in DOMAIN L /\ w \in Nat /\ GetLeaderIndex(w) = r
      /\ t.log = L[w] /\ t.log \in Seq(LogEntry) /\ Len(t.log) \in Nat
      /\ t.lastOp = Len(t.log) /\ t.lastCommitted \in Nat /\ t.lastCommitted <= Len(t.log)
  BY <1>1 DEF LeaderOK
<1>3. Fits(L, t.log) /\ ExecOK(t) /\ PlaceOK(L, t, r) /\ VoteOK(L, M, t, r)
       /\ Committed(L, M, t.log, t.lastCommitted, w)
  BY <1>1 DEF RepOK
<1>4. /\ Len(K) = Len(t.log) + 1 /\ K \in Seq(LogEntry)
      /\ K[Len(t.log) + 1].view = w /\ K[Len(t.log) + 1].opnum = Len(t.log) + 1
      /\ K[Len(t.log) + 1].request = c
      /\ \A j \in 1..Len(t.log) : K[j] = t.log[j]
  <2>1. e \in LogEntry /\ e.view = w /\ e.opnum = Len(t.log) + 1 /\ e.request = c
    <3> t.lastOp + 1 \in Nat
      BY <1>2, SMTT(30)
    <3> QED BY <1>2 DEF LogEntry
  <2>2. Numbered(t.log)
    BY <1>3 DEF Fits, Numbered
  <2>3. K = Append(t.log, e)
    BY DEF AppendEntry
  <2> HIDE DEF e, t, K
  <2> /\ Numbered(Append(t.log, e)) /\ Len(Append(t.log, e)) = Len(t.log) + 1
      /\ Append(t.log, e)[Len(t.log) + 1] = e
      /\ \A j \in 1..Len(t.log) : Append(t.log, e)[j] = t.log[j]
    BY <2>1, <2>2, AppendLemma, ZenonT(90)
  <2> QED BY <2>1, <2>3 DEF Numbered
<1>5. /\ DOMAIN L2 = DOMAIN L /\ L2[w] = K
      /\ \A v \in DOMAIN L : v # w => L2[v] = L[v]
  BY <1>2
<1> HIDE DEF t, w, K, L2, e
<1>6. 1..Len(K) = 1..Len(t.log) \cup {Len(t.log) + 1} /\ Len(t.log) <= Len(K) /\ Len(K) \in Nat
  BY <1>2, <1>4, SMTT(30)
<1>7. ASSUME NEW v \in DOMAIN L
      PROVE  /\ Len(L[v]) \in Nat /\ Len(L2[v]) \in Nat /\ Len(L[v]) <= Len(L2[v])
             /\ \A i \in 1..Len(L[v]) : i \in 1..Len(L2[v]) /\ L2[v][i] = L[v][i]
             /\ \A i \in 1..Len(L2[v]) : i \in 1..Len(L[v]) \/ (v = w /\ i = Len(t.log) + 1)
  <2>1. Len(L[v]) \in Nat
    BY <1>2, LedgerFacts
  <2>2. CASE v = w
    BY <1>2, <1>4, <1>5, <1>6, <2>1, <2>2, ZenonT(90)
  <2>3. CASE v # w
    <3> L2[v] = L[v] /\ Len(L[v]) <= Len(L[v])
      BY <1>5, <2>1, <2>3, SMTT(30)
    <3> QED BY <2>1
  <2> QED BY <2>2, <2>3
<1>8. ASSUME NEW v \in DOMAIN L, NEW H, NEW i \in Nat, i <= Len(L[v]), Has(L, H, v, i)
      PROVE  Has(L2, H, v, i)
  <2>1. Len(L[v]) \in Nat /\ Len(L2[v]) \in Nat /\ Len(L[v]) <= Len(L2[v])
    BY <1>7
  <2> i <= Len(L2[v]) /\ \A j \in 1..i : j \in 1..Len(L[v])
    BY <1>8, <2>1, SMTT(30)
  <2> QED BY <1>7, <1>8 DEF Has
<1>9. ASSUME NEW v \in DOMAIN L, NEW i \in 1..Len(L[v])
      PROVE  /\ L2[v][i] = L[v][i] /\ L[v][i].opnum = i /\ L[v][i].view \in DOMAIN L
             /\ L[v][i].view <= v /\ Has(L2, L2[v], L[v][i].view, i)
  <2>1. /\ L[v][i].opnum = i /\ L[v][i].view \in DOMAIN L /\ L[v][i].view <= v
        /\ Has(L, L[v], L[v][i].view, i)
    BY <1>2 DEF Ledger, Fits
  <2>2. Len(L[v]) \in Nat /\ Len(L2[v]) \in Nat /\ Len(L[v]) <= Len(L2[v])
    BY <1>7
  <2>3. i \in Nat /\ i <= Len(L2[v]) /\ \A j \in 1..i : j \in 1..Len(L[v])
    BY <2>2, SMTT(30)
  <2>4. i <= Len(L[L[v][i].view])
    BY <2>1 DEF Has
  <2> Has(L2, L[v], L[v][i].view, i)
    BY <1>8, <2>1, <2>3, <2>4
  <2> QED BY <1>7, <2>1, <2>3 DEF Has
<1>10. ASSUME NEW v \in DOMAIN L
       PROVE  /\ Fits(L2, L2[v]) /\ Once(L2[v], v)
              /\ \A i \in 1..Len(L2[v]) : L2[v][i].view <= v
  <2>0. v \in Nat
    BY <1>2, LedgerFacts
  <2>1. L2[v] \in Seq(LogEntry)
    <3> L[v] \in Seq(LogEntry)
      BY <1>2, LedgerFacts
    <3> QED BY <1>4, <1>5
  <2>2. ASSUME NEW i \in 1..Len(L2[v])
        PROVE  /\ L2[v][i].opnum = i /\ L2[v][i].view \in DOMAIN L2
               /\ L2[v][i].view <= v /\ Has(L2, L2[v], L2[v][i].view, i)
    <3>1. CASE i \in 1..Len(L[v])
      <4> /\ L2[v][i] = L[v][i] /\ L[v][i].opnum = i /\ L[v][i].view \in DOMAIN L
          /\ L[v][i].view <= v /\ Has(L2, L2[v], L[v][i].view, i)
        BY <1>9, <3>1
      <4> QED BY <1>5
    <3>2. CASE v = w /\ i = Len(t.log) + 1
      <4>1. L2[v][i].view = v /\ L2[v][i].opnum = i /\ v <= v
        BY <1>4, <1>5, <2>0, <3>2, SMTT(30)
      <4>2. i <= Len(L2[v])
        BY <1>7, SMTT(30)
      <4> Has(L2, L2[v], v, i)
        BY <4>2 DEF Has
      <4> QED BY <1>5, <4>1
    <3> QED BY <1>7, <3>1, <3>2
  <2> Once(L2[v], v)
    <3>1. Once(L[v], v)
      BY <1>2 DEF Ledger
    <3>2. CASE v # w
      BY <1>5, <3>1, <3>2
    <3>3. CASE v = w
      <4>1. ASSUME NEW i \in 1..Len(t.log), K[i].view = w PROVE K[i].request # c
        <5> t.log[i].request \in t.clientTable
          <6> t.view \in DOMAIN L /\ AmLeader(t, r) /\ t.log[i].view = t.view
            BY <1>2, <1>4, <4>1 DEF AmLeader, w
          <6> QED BY <1>3 DEF PlaceOK
        <5> QED BY <1>4 DEF t
      <4>2. \A i, j \in 1..Len(t.log) :
              K[i].view = w /\ K[j].view = w /\ K[i].request = K[j].request => i = j
        <5>1. Once(t.log, w)
          BY <1>2, <3>1, <3>3
        <5> TAKE i, j \in 1..Len(t.log)
        <5> K[i] = t.log[i] /\ K[j] = t.log[j]
          BY <1>4
        <5> QED BY <5>1 DEF Once
      <4> Once(K, w)
        BY <1>4, <1>6, <4>1, <4>2 DEF Once
      <4> QED BY <1>5, <3>3
    <3> QED BY <3>2, <3>3
  <2> QED BY <2>1, <2>2 DEF Fits
<1>11. Ledger(L2)
  <2> DOMAIN L2 \subseteq Nat /\ 0 \in DOMAIN L2
    BY <1>2, <1>5 DEF Ledger
  <2> QED BY <1>5, <1>10 DEF Ledger
<1>12. Grown(L, L2)
  <2>1. ASSUME NEW v \in DOMAIN L, NEW i \in 1..Len(L2[v]), i > Len(L[v])
        PROVE  L2[v][i].view = v
    <3>1. ~(i \in 1..Len(L[v]))
      BY <1>7, <2>1, SMTT(30)
    <3> v = w /\ i = Len(t.log) + 1
      BY <1>7, <3>1
    <3> QED BY <1>4, <1>5, ZenonT(90)
  <2> QED BY <1>2, <1>5, <1>7, <1>11, <2>1 DEF Grown
<1>13. \A m \in out : m.type = "PREPARE"
  <2> BatchPrepare(z).type = "PREPARE"
    BY DEF BatchPrepare
  <2> QED OBVIOUS
<1>14. s.view = w /\ s.lastCommitted = t.lastCommitted /\ s.status = "NORMAL"
        /\ s.executed = t.executed /\ s.clientTable = t.clientTable \cup {c}
        /\ s.log = K /\ s.lastOp = Len(K)
  BY <1>2, <1>4 DEF t, w, K
<1>15. Change(L, L2, t, r, s, out)
  <2> t.view <= s.view /\ t.lastCommitted <= s.lastCommitted
    BY <1>2, <1>14, SMTT(30) DEF w
  <2> QED BY <1>2, <1>5, <1>12, <1>13, <1>14 DEF Change
<1>16. Committed(L2, M2, K, t.lastCommitted, w)
  <2>1. M \subseteq M2 /\ w <= w
    BY <1>2, SMTT(30)
  <2>2. Committed(L2, M2, t.log, t.lastCommitted, w)
    <3> HIDE DEF M2
    <3> QED BY <1>2, <1>3, <1>12, <2>1, GrownCommitted
  <2>3. t.lastCommitted <= Len(K) /\ \A j \in 1..t.lastCommitted : j \in 1..Len(t.log)
    BY <1>2, <1>6, SMTT(30)
  <2> HIDE DEF M2
  <2> \A j \in 1..t.lastCommitted : K[j] = t.log[j]
    BY <1>4, <2>3
  <2> QED BY <2>2, <2>3, CommittedLog
<1>17. ExecOK(s)
  <2> t.lastCommitted <= Len(K) /\ \A j \in 1..t.lastCommitted : j \in 1..Len(t.log)
    BY <1>2, <1>6, SMTT(30)
  <2> QED BY <1>3, <1>4, <1>14 DEF ExecOK
<1>18. PlaceOK(L2, s, r)
  <2>1. ASSUME NEW i \in 1..Len(K)
        PROVE  /\ K[i].view < w \/ K[i].view = w
               /\ K[i].view = w => K[i].request \in s.clientTable
    <3>1. CASE i = Len(t.log) + 1
      BY <1>4, <1>14, <3>1
    <3>2. CASE i \in 1..Len(t.log)
      <4>1. w \in DOMAIN L /\ AmLeader(t, r)
        BY <1>2 DEF AmLeader, w
      <4>2. K[i] = t.log[i]
        BY <1>4, <3>2
      <4> /\ t.log[i].view < w \/ t.log[i].view = w
          /\ t.log[i].view = w => t.log[i].request \in t.clientTable
        BY <1>3, <3>2, <4>1 DEF PlaceOK, w
      <4> QED BY <1>14, <4>2
    <3> QED BY <1>6, <3>1, <3>2
  <2>2. Has(L2, K, w, Len(K))
    <3> Len(K) <= Len(K)
      BY <1>6, SMTT(30)
    <3> QED BY <1>5 DEF Has
  <2> Started(L2, w, Len(K))
    <3> \A i \in 1..Len(K) : ~(i > Len(K))
      BY <1>6, SMTT(30)
    <3> QED BY <1>5 DEF Started
  <2> QED BY <1>2, <1>5, <1>14, <2>1, <2>2 DEF PlaceOK
<1>19. VoteOK(L2, M2, s, r)
  <2> SUFFICES ASSUME NEW v \in DOMAIN L2, NEW i \in Nat, Voted(L2, M2, r, v, i)
               PROVE  v <= w /\ Kept(L2, K, v, i, w + 1)
    BY <1>14 DEF VoteOK
  <2>1. CASE v = w
    <3>1. i <= Len(K)
      BY <1>5, <2>1 DEF Voted
    <3> Has(L2, K, v, i) /\ w <= w
      BY <1>2, <1>5, <2>1, <3>1, SMTT(30) DEF Has
    <3> QED BY <2>1 DEF Kept
  <2>2. CASE v # w
    <3>1. MsgsOK(L, M, R)
      BY DEF Inv
    <3>2. v \in DOMAIN L /\ Voted(L, M, r, v, i)
      <4> \A q : \A x \in DOMAIN L2 : \A y \in Nat :
            Voted(L2, M \cup out, q, x, y) /\ (q # r \/ x # s.view)
              => x \in DOMAIN L /\ Voted(L, M, q, x, y)
        BY <1>15, <3>1, OldVotes, SMTT(30)
      <4> QED BY <1>14, <2>2
    <3>3. v <= w /\ Kept(L, t.log, v, i, w + 1)
      BY <1>3, <3>2 DEF VoteOK, w
    <3>4. i <= Len(L[v])
      BY <3>2 DEF Voted
    <3>5. Kept(L2, t.log, v, i, w + 1)
      BY <1>2, <1>12, <3>2, <3>3, <3>4, GrownKept
    <3> Has(L2, t.log, v, i) => Has(L2, K, v, i)
      <4> i <= Len(t.log) => i <= Len(K) /\ \A j \in 1..i : j \in 1..Len(t.log)
        BY <1>2, <1>6, SMTT(30)
      <4> QED BY <1>4 DEF Has
    <3> QED BY <3>3, <3>5 DEF Kept
  <2> QED BY <2>1, <2>2
<1>20. RepOK(L2, M2, s, r)
  <2>1. s \in RepType(M2)
    BY RepMore
  <2> Fits(L2, K)
    BY <1>2, <1>5, <1>10
  <2> QED BY <1>14, <1>16, <1>17, <1>18, <1>19, <2>1 DEF RepOK
<1>21. SentOK(L2, M2, [R EXCEPT ![r] = s], out)
  <2>1. z.view \in DOMAIN L2 /\ z.log = L2[z.view] /\ z.lastOp = Len(z.log)
    BY <1>2, <1>5, <1>14
  <2> SentOK(L2, M2, [R EXCEPT ![r] = s], {BatchPrepare(z)})
    <3> HIDE DEF M2
    <3> QED BY <1>11, <2>1, PrepareSent
  <2> QED BY DEF SentOK
<1>22. StartedOK(L, L2, M2, [R EXCEPT ![r] = s]) /\ NewlyDecided(L2, M2, D, D)
  BY <1>5 DEF StartedOK, NewlyDecided
<1> Inv(L2, M2, [R EXCEPT ![r] = s], D)
  BY <1>15, <1>20, <1>21, <1>22, StepLemma DEF t
<1> QED OBVIOUS

-----------------------------------------------------------------------------
(***************************************************************************)
(* What was chosen is in every later view.                                 *)
(***************************************************************************)
\* A ledger that stays the same has grown.
LEMMA GrownSame ==
  ASSUME NEW L, Ledger(L)
  PROVE  Grown(L, L)
<1> SUFFICES ASSUME NEW v \in DOMAIN L
             PROVE  /\ Len(L[v]) <= Len(L[v])
                    /\ \A i \in 1..Len(L[v]) : i > Len(L[v]) => L[v][i].view = v
  BY DEF Grown
<1> Len(L[v]) \in Nat
  BY LedgerFacts
<1> QED BY SMTT(30)

\* A step that starts no view and numbers nothing.
LEMMA StepSame ==
  ASSUME NEW L, NEW M, NEW R, NEW D, NEW D2, NEW r \in Replica, NEW s, NEW out,
         Inv(L, M, R, D),
         R[r].view <= s.view, R[r].lastCommitted <= s.lastCommitted,
         \A m \in out : m.type = "PREPAREOK" => m.replicaidx = r /\ m.view = s.view,
         RepOK(L, M \cup out, s, r), SentOK(L, M \cup out, [R EXCEPT ![r] = s], out),
         NewlyDecided(L, M \cup out, D, D2)
  PROVE  Inv(L, M \cup out, [R EXCEPT ![r] = s], D2)
<1>1. Grown(L, L)
  BY GrownSame DEF Inv
<1>2. Change(L, L, R[r], r, s, out)
  BY <1>1 DEF Change
<1> StartedOK(L, L, M \cup out, [R EXCEPT ![r] = s])
  BY DEF StartedOK
<1> QED BY <1>2, StepLemma

\* The log of a later view has what was chosen in an earlier one.
LEMMA ChosenStays ==
  ASSUME Counting, NEW L, NEW M, NEW R, Ledger(L), QuorumsAt(L, M, R),
         NEW v \in DOMAIN L, NEW i \in Nat, Chosen(L, M, v, i),
         NEW w \in DOMAIN L, v < w
  PROVE  Has(L, L[w], v, i)
<1> DEFINE T == {x \in DOMAIN L : v < x /\ ~Has(L, L[x], v, i)}
<1> DOMAIN L \subseteq Nat
  BY DEF Ledger
<1>2. SUFFICES ASSUME T # {} PROVE FALSE
  OBVIOUS
<1>3. PICK x \in T : \A y \in T : x <= y
  <2>1. T \subseteq Nat
    OBVIOUS
  <2> HIDE DEF T
  <2> QED BY <1>2, <2>1, Least
<1> x \in DOMAIN L /\ v < x /\ ~Has(L, L[x], v, i) /\ x \in Nat /\ v \in Nat
  BY <1>3
<1>5. x # 0
  BY SMTT(30)
<1>6. PICK Q \in Quorums : \A q \in Q : \A y \in DOMAIN L : \A j \in Nat :
        y < x /\ Own(L, y, j) /\ Voted(L, M, q, y, j) => Kept(L, L[x], y, j, x)
  BY <1>5 DEF QuorumsAt, QuorumAt
<1>7. PICK P \in Quorums : \A q \in P : Voted(L, M, q, v, i)
  BY DEF Chosen
<1>8. PICK q \in P : q \in Q
  BY QuorumsMeet
<1>9. Kept(L, L[x], v, i, x)
  BY <1>6, <1>7, <1>8 DEF Chosen
<1>10. PICK u \in DOMAIN L : v < u /\ u < x /\ ~Has(L, L[u], v, i)
  BY <1>9 DEF Kept
<1> x <= u /\ u \in Nat
  BY <1>3, <1>10
<1> QED BY <1>10, SMTT(30)

\* What is committed somewhere is in the logs of the views since.
LEMMA CommittedStays ==
  ASSUME Counting, NEW L, NEW M, NEW R, Ledger(L), QuorumsAt(L, M, R),
         NEW K, Len(K) \in Nat, NEW c, NEW x \in Nat, Committed(L, M, K, c, x),
         NEW w \in DOMAIN L, x <= w
  PROVE  c \in Nat /\ Has(L, K, w, c) /\ Committed(L, M, L[w], c, w)
<1> w \in Nat /\ Len(L[w]) \in Nat /\ DOMAIN L \subseteq Nat /\ c \in Nat
  BY LedgerFacts DEF Ledger, Committed
<1>1. CASE c = 0
  <2> 0 <= Len(K) /\ 0 <= Len(L[w]) /\ 1..0 = {}
    BY SMTT(30)
  <2> QED BY <1>1 DEF Committed, Has
<1>2. CASE c # 0
  <2>1. PICK v \in DOMAIN L, i \in Nat :
          v <= x /\ Chosen(L, M, v, i) /\ c <= i /\ Has(L, K, v, c)
    BY <1>2 DEF Committed
  <2> v \in Nat /\ Len(L[v]) \in Nat /\ v <= w /\ (v = w \/ v < w)
    BY <2>1, LedgerFacts, SMTT(30)
  <2>3. Has(L, L[w], v, c)
    <3>1. CASE v = w
      BY <2>1, <3>1 DEF Has
    <3>2. CASE v < w
      <4> Has(L, L[w], v, i)
        BY <2>1, <3>2, ChosenStays
      <4> QED BY <2>1, HasLess
    <3> QED BY <3>1, <3>2
  <2> Has(L, K, w, c)
    BY <2>1, <2>3 DEF Has
  <2> QED BY <2>1, <2>3 DEF Committed
<1> QED BY <1>1, <1>2

\* What is committed in two places is the same.
LEMMA CommittedAgree ==
  ASSUME Counting, NEW L, NEW M, NEW R, Ledger(L), QuorumsAt(L, M, R),
         NEW K, NEW c, NEW x \in Nat, Committed(L, M, K, c, x),
         NEW H, NEW d, NEW y \in Nat, Committed(L, M, H, d, y),
         NEW j \in Nat \ {0}, j <= c, j <= d
  PROVE  K[j] = H[j]
<1> c \in Nat /\ d \in Nat /\ c # 0 /\ d # 0 /\ j \in 1..c /\ j \in 1..d
  <2> c \in Nat /\ d \in Nat
    BY DEF Committed
  <2> QED BY SMTT(30)
<1>1. PICK v \in DOMAIN L, i \in Nat : Chosen(L, M, v, i) /\ c <= i /\ Has(L, K, v, c)
  BY DEF Committed
<1>2. PICK w \in DOMAIN L, k \in Nat : Chosen(L, M, w, k) /\ d <= k /\ Has(L, H, w, d)
  BY DEF Committed
<1>3. v \in Nat /\ w \in Nat
  BY LedgerFacts
<1> K[j] = L[v][j] /\ H[j] = L[w][j]
  BY <1>1, <1>2 DEF Has
<1>5. CASE v < w
  <2>1. Has(L, L[w], v, i)
    BY <1>1, <1>5, ChosenStays
  <2> j \in 1..i
    BY <1>1, SMTT(30)
  <2> QED BY <2>1 DEF Has
<1>6. CASE w < v
  <2>1. Has(L, L[v], w, k)
    BY <1>2, <1>6, ChosenStays
  <2> j \in 1..k
    BY <1>2, SMTT(30)
  <2> QED BY <2>1 DEF Has
<1>7. CASE v = w
  BY <1>7
<1> QED BY <1>3, <1>5, <1>6, <1>7, SMTT(30)

-----------------------------------------------------------------------------
(***************************************************************************)
(* What the invariant says of the properties.                              *)
(***************************************************************************)
\* The logs of the replicas fit a ledger.
LEMMA ViewstampUniqueInv == IInv => ViewstampUnique
<1> SUFFICES ASSUME IInv, ~stray, ~late,
                    NEW q \in Replica, NEW r \in Replica,
                    NEW i \in DOMAIN rep[q].log, NEW j \in DOMAIN rep[r].log,
                    rep[q].log[i].view = rep[r].log[j].view,
                    rep[q].log[i].opnum = rep[r].log[j].opnum
             PROVE  rep[q].log[i].request = rep[r].log[j].request
  BY DEF ViewstampUnique
<1>1. PICK L : Inv(L, msgs, rep, decided)
  BY DEF IInv
<1>2. Ledger(L) /\ Fits(L, rep[q].log) /\ Fits(L, rep[r].log)
  BY <1>1 DEF Inv, RepOK
<1> DEFINE K == rep[q].log
           H == rep[r].log
<1> i \in DOMAIN K /\ j \in DOMAIN H /\ K[i].view = H[j].view /\ K[i].opnum = H[j].opnum
  OBVIOUS
<1> SUFFICES K[i].request = H[j].request
  OBVIOUS
<1> Fits(L, K) /\ Fits(L, H)
  BY <1>2
<1> HIDE DEF K, H
<1>5. K \in Seq(LogEntry) /\ H \in Seq(LogEntry)
  BY DEF Fits
<1>6. DOMAIN K = 1..Len(K) /\ DOMAIN H = 1..Len(H)
  BY <1>5, SeqLen
<1> i \in 1..Len(K) /\ j \in 1..Len(H)
  BY <1>6
<1>8. K[i].opnum = i /\ H[j].opnum = j
  BY DEF Fits
<1>9. i = j
  BY <1>8
<1>10. Has(L, K, K[i].view, i) /\ Has(L, H, K[i].view, i)
  BY <1>9 DEF Fits
<1> i \in 1..i
  BY SMTT(30)
<1> QED BY <1>9, <1>10 DEF Has

\* A log has the entries of a view where the leader of the view put them.
LEMMA NumberedOnceInv == IInv => NumberedOnce
<1> SUFFICES ASSUME IInv, ~stray, ~late, NEW r \in Replica,
                    NEW i \in DOMAIN rep[r].log, NEW j \in DOMAIN rep[r].log,
                    rep[r].log[i].view = rep[r].log[j].view,
                    rep[r].log[i].request = rep[r].log[j].request
             PROVE  i = j
  BY DEF NumberedOnce
<1>1. PICK L : Inv(L, msgs, rep, decided)
  BY DEF IInv
<1> DEFINE K == rep[r].log
<1> Ledger(L) /\ Fits(L, K)
  BY <1>1 DEF Inv, RepOK
<1> i \in DOMAIN K /\ j \in DOMAIN K /\ K[i].view = K[j].view /\ K[i].request = K[j].request
  OBVIOUS
<1> HIDE DEF K
<1>4. K \in Seq(LogEntry)
  BY DEF Fits
<1>5. Len(K) \in Nat /\ DOMAIN K = 1..Len(K)
  BY <1>4, SeqLen
<1> i \in 1..Len(K) /\ j \in 1..Len(K)
  BY <1>5
<1> DEFINE v == K[i].view
<1> v \in DOMAIN L /\ Has(L, K, v, i) /\ Has(L, K, v, j) /\ v = K[j].view
  BY DEF Fits
<1> HIDE DEF v
<1>8. Len(L[v]) \in Nat /\ Once(L[v], v)
  <2> Once(L[v], v)
    BY DEF Ledger
  <2> QED BY LedgerFacts
<1>9. i <= Len(L[v]) /\ j <= Len(L[v]) /\ i \in 1..i /\ j \in 1..j
  BY SMTT(30) DEF Has
<1>10. K[i] = L[v][i] /\ K[j] = L[v][j]
  BY <1>9 DEF Has
<1>11. i \in 1..Len(L[v]) /\ j \in 1..Len(L[v])
  BY <1>8, <1>9, SMTT(30)
<1> L[v][i].view = v /\ L[v][j].view = v /\ L[v][i].request = L[v][j].request
  BY <1>10 DEF v
<1> QED BY <1>8, <1>11 DEF Once

\* What was chosen is in the ledger of every later view, and that is the log
\* of its leader.
LEMMA CommitSurvivesInv ==
  ASSUME Counting
  PROVE  IInv => CommitSurvives
<1> SUFFICES ASSUME IInv, ~stray, ~late, NEW d \in decided, NEW r \in Replica,
                    rep[r].status = "NORMAL", AmLeader(rep[r], r), rep[r].view >= d.view
             PROVE  /\ d.opnum \in DOMAIN rep[r].log
                    /\ rep[r].log[d.opnum].request = d.request
  BY DEF CommitSurvives
<1>1. PICK L : Inv(L, msgs, rep, decided)
  BY DEF IInv
<1> DEFINE s == rep[r]
           w == s.view
           v == d.view
           k == d.opnum
<1>2. LeaderOK(L, msgs, s, r)
  BY <1>1, LeadsFacts DEF Leads
<1> Ledger(L) /\ w \in DOMAIN L /\ s.log = L[w] /\ w \in Nat /\ Len(L[w]) \in Nat
  BY <1>2 DEF LeaderOK
<1>4. DecidedOK(L, msgs, d) /\ QuorumsAt(L, msgs, rep)
  BY <1>1 DEF Inv
<1>5. PICK i \in Nat : /\ Chosen(L, msgs, v, i) /\ k \in 1..i
                       /\ L[v][k].request = d.request
  BY <1>4 DEF DecidedOK
<1> v \in DOMAIN L /\ i \in 1..Len(L[v])
  BY <1>5 DEF Chosen, Own
<1>7. v \in Nat /\ Len(L[v]) \in Nat
  BY LedgerFacts
<1>8. w >= v
  OBVIOUS
<1> HIDE DEF w, v, k, s
<1>9. Has(L, L[w], v, i)
  <2>1. CASE v < w
    BY <1>4, <1>5, <2>1, ChosenStays
  <2>2. CASE ~(v < w)
    <3>1. v = w
      BY <1>7, <1>8, <2>2, SMTT(30)
    <3> i <= Len(L[w])
      BY <1>7, <3>1, SMTT(30)
    <3> QED BY <3>1 DEF Has
  <2> QED BY <2>1, <2>2
<1>10. L[w][k] = L[v][k]
  BY <1>5, <1>9 DEF Has
<1>11. k \in 1..Len(L[w])
  BY <1>5, <1>9, SMTT(30) DEF Has
<1>12. DOMAIN L[w] = 1..Len(L[w])
  <2> L[w] \in Seq(LogEntry)
    BY LedgerFacts
  <2> QED BY SeqLen
<1> k \in DOMAIN s.log /\ s.log[k].request = d.request
  BY <1>5, <1>10, <1>11, <1>12
<1> QED BY DEF s, k

\* What two replicas have executed is committed, and so the same.
LEMMA AgreementInv ==
  ASSUME Counting
  PROVE  IInv => Agreement
<1> SUFFICES ASSUME IInv, ~stray, ~late, NEW q \in Replica, NEW r \in Replica,
                    NEW i \in DOMAIN rep[q].executed \cap DOMAIN rep[r].executed
             PROVE  rep[q].executed[i] = rep[r].executed[i]
  BY DEF Agreement
<1>1. PICK L : Inv(L, msgs, rep, decided)
  BY DEF IInv
<1>2. Ledger(L) /\ QuorumsAt(L, msgs, rep)
  BY <1>1 DEF Inv
<1>3. ASSUME NEW p \in Replica, i \in DOMAIN rep[p].executed
      PROVE  /\ rep[p].view \in Nat /\ i \in Nat \ {0} /\ i <= rep[p].lastCommitted
             /\ Committed(L, msgs, rep[p].log, rep[p].lastCommitted, rep[p].view)
             /\ rep[p].executed[i] = rep[p].log[i].request
  <2> DEFINE s == rep[p]
  <2>1. RepOK(L, msgs, s, p)
    BY <1>1 DEF Inv
  <2>2. i \in DOMAIN s.executed
    BY <1>3
  <2> HIDE DEF s
  <2> /\ s \in RepType(msgs) /\ ExecOK(s)
      /\ Committed(L, msgs, s.log, s.lastCommitted, s.view)
    BY <2>1 DEF RepOK
  <2> s.executed \in Seq(Client) /\ s.lastCommitted \in Nat /\ s.view \in Nat
    BY DEF RepType
  <2>5. Len(s.executed) = s.lastCommitted
    BY DEF ExecOK
  <2>6. DOMAIN s.executed = 1..s.lastCommitted
    BY <2>5, SeqLen
  <2>7. i \in 1..s.lastCommitted
    BY <2>2, <2>6
  <2>8. s.executed[i] = s.log[i].request
    BY <2>7 DEF ExecOK
  <2> i \in Nat \ {0} /\ i <= s.lastCommitted
    BY <2>7, SMTT(30)
  <2> QED BY <2>8 DEF s
<1>4. /\ rep[q].view \in Nat /\ i \in Nat \ {0} /\ i <= rep[q].lastCommitted
      /\ Committed(L, msgs, rep[q].log, rep[q].lastCommitted, rep[q].view)
      /\ rep[q].executed[i] = rep[q].log[i].request
  BY <1>3
<1>5. /\ rep[r].view \in Nat /\ i \in Nat \ {0} /\ i <= rep[r].lastCommitted
      /\ Committed(L, msgs, rep[r].log, rep[r].lastCommitted, rep[r].view)
      /\ rep[r].executed[i] = rep[r].log[i].request
  BY <1>3
<1> rep[q].log[i] = rep[r].log[i]
  BY <1>2, <1>4, <1>5, CommittedAgree, SMTT(30)
<1> QED BY <1>4, <1>5

-----------------------------------------------------------------------------
(***************************************************************************)
(* A replica is, or comes to be, in a view that another one leads, with a  *)
(* part of that leader's log.                                              *)
(***************************************************************************)
\* A part of the log of a view fits the ledger.
LEMMA PrefixFits ==
  ASSUME NEW L, Ledger(L), NEW w \in DOMAIN L, NEW K \in Seq(LogEntry), Has(L, K, w, Len(K))
  PROVE  Fits(L, K) /\ \A i \in 1..Len(K) : K[i].view <= w
<1> Len(K) \in Nat /\ Len(L[w]) \in Nat /\ Len(K) <= Len(L[w]) /\ \A j \in 1..Len(K) : K[j] = L[w][j]
  BY SeqLen, LedgerFacts DEF Has
<1>2. Fits(L, L[w])
  BY DEF Ledger
<1>3. ASSUME NEW i \in 1..Len(K)
      PROVE  K[i].opnum = i /\ K[i].view \in DOMAIN L /\ Has(L, K, K[i].view, i) /\ K[i].view <= w
  <2>1. i \in 1..Len(L[w]) /\ i <= Len(K) /\ \A j \in 1..i : j \in 1..Len(K)
    BY SMTT(30)
  <2> /\ K[i].opnum = i /\ K[i].view \in DOMAIN L /\ Has(L, L[w], K[i].view, i)
      /\ K[i].view <= w
    BY <1>2, <2>1 DEF Fits, Ledger
  <2> QED BY <2>1 DEF Has
<1> QED BY <1>3 DEF Fits

\* The replicas' votes in a view so far.
VotesUpTo(L, M, r, w, k) == \A i \in Nat : Voted(L, M, r, w, i) => i <= k

\* PREPAREOKs of replica r, for what it has.
OKsUpTo(out, r, w, k) ==
  \A m \in out : \E op \in 0..k : m = PrepareOK(w, op, r)

\* The fields of a PREPAREOK.
LEMMA OKFields ==
  ASSUME NEW w, NEW op, NEW r
  PROVE  /\ PrepareOK(w, op, r).type = "PREPAREOK" /\ PrepareOK(w, op, r).view = w
         /\ PrepareOK(w, op, r).opnum = op /\ PrepareOK(w, op, r).replicaidx = r
BY DEF PrepareOK

\* The messages that a replica acknowledges its log with, up to an operation, are PREPAREOKs.
LEMMA OKsFields ==
  ASSUME NEW out, NEW r, NEW w, NEW k, OKsUpTo(out, r, w, k)
  PROVE  \A m \in out : /\ m.type = "PREPAREOK" /\ m.view = w /\ m.replicaidx = r
                        /\ m.opnum \in 0..k /\ m = PrepareOK(w, m.opnum, r)
<1> TAKE m \in out
<1>1. PICK op \in 0..k : m = PrepareOK(w, op, r)
  BY DEF OKsUpTo
<1> QED BY <1>1, OKFields, SMTT(30)

\* A step that leaves a replica, not the leader, with the log of its view.
LEMMA FollowStep ==
  ASSUME NEW L, NEW M, NEW R, NEW D, NEW r \in Replica, NEW s, NEW out,
         Inv(L, M, R, D), s \in RepType(M), ExecOK(s), SetsOK(s),
         R[r].view <= s.view, R[r].lastCommitted <= s.lastCommitted,
         s.status = "NORMAL", s.view \in DOMAIN L, r # GetLeaderIndex(s.view),
         Has(L, s.log, s.view, Len(s.log)), Started(L, s.view, Len(s.log)),
         Committed(L, M, L[s.view], s.lastCommitted, s.view),
         VotesUpTo(L, M, r, s.view, Len(s.log)), OKsUpTo(out, r, s.view, Len(s.log))
  PROVE  Inv(L, M \cup out, [R EXCEPT ![r] = s], D)
<1> DEFINE R2 == [R EXCEPT ![r] = s]
           M2 == M \cup out
           w == s.view
<1>0. /\ Ledger(L) /\ R \in [Replica -> RepType(M)] /\ MsgsOK(L, M, R) /\ M \subseteq M2
      /\ Grown(L, L)
  BY GrownSame DEF Inv
<1> s.view \in Nat /\ s.log \in Seq(LogEntry) /\ s.lastCommitted \in Nat /\ Len(s.log) \in Nat
  BY SeqLen DEF RepType
<1>2. Len(L[w]) \in Nat /\ Len(s.log) <= Len(L[w]) /\ \A j \in 1..Len(s.log) : s.log[j] = L[w][j]
  BY <1>0, LedgerFacts DEF Has
<1>3. \A m \in out : /\ m.type = "PREPAREOK" /\ m.view = w /\ m.replicaidx = r
                     /\ m.opnum \in 0..Len(s.log) /\ m = PrepareOK(w, m.opnum, r)
  BY OKsFields, SMTT(30)
<1>4. Change(L, L, R[r], r, s, out)
  BY <1>0, <1>3 DEF Change
<1>5. s \in RepType(M2)
  BY <1>0 DEF RepType
<1>6. Fits(L, s.log) /\ \A i \in 1..Len(s.log) : s.log[i].view <= w
  BY <1>0, PrefixFits
<1>7. Committed(L, M2, s.log, s.lastCommitted, w)
  <2>1. s.lastCommitted <= Len(s.log) /\ w <= w /\ \A j \in 1..s.lastCommitted : j \in 1..Len(s.log)
    BY SMTT(30) DEF ExecOK
  <2> Committed(L, M, s.log, s.lastCommitted, w)
    BY <1>2, <2>1, CommittedLog
  <2> QED BY <1>0, <2>1, GrownCommitted
<1>8. PlaceOK(L, s, r)
  <2> \A i \in 1..Len(s.log) : s.log[i].view < w \/ s.log[i].view = w
    <3> TAKE i \in 1..Len(s.log)
    <3> s.log[i].view <= w /\ s.log[i].view \in Nat
      BY <1>0, <1>6, FitsFacts
    <3> QED BY SMTT(30)
  <2> QED BY DEF PlaceOK, AmLeader
<1>9. VoteOK(L, M2, s, r)
  <2> SUFFICES ASSUME NEW v \in DOMAIN L, NEW i \in Nat, Voted(L, M2, r, v, i)
               PROVE  v <= w /\ Kept(L, s.log, v, i, w + 1)
    BY DEF VoteOK
  <2>0. v \in Nat /\ Len(L[v]) \in Nat
    BY <1>0, LedgerFacts
  <2>1. CASE v = w
    <3>1. i <= Len(s.log)
      <4>1. CASE Voted(L, M, r, w, i)
        BY <4>1 DEF VotesUpTo
      <4>2. CASE ~Voted(L, M, r, w, i)
        <5>1. PICK m \in out : i <= m.opnum
          BY <2>1, <4>2 DEF Voted
        <5> m.opnum \in 0..Len(s.log)
          BY <1>3
        <5> QED BY <5>1, SMTT(30)
      <4> QED BY <4>1, <4>2
    <3>2. Has(L, s.log, w, i)
      BY <1>2, <3>1, HasLess
    <3> v <= w
      BY <2>1, SMTT(30)
    <3> QED BY <2>1, <3>2 DEF Kept
  <2>2. CASE v # w
    <3>1. Voted(L, M, r, v, i)
      <4> \A m \in out : m.view # v
        BY <1>3, <2>2
      <4> QED BY DEF Voted
    <3>2. v <= R[r].view /\ R[r].view \in Nat
      <4> RepOK(L, M, R[r], r)
        BY DEF Inv
      <4> QED BY <3>1 DEF RepOK, VoteOK, RepType
    <3>3. v < w /\ v <= w /\ w < w + 1
      BY <2>0, <2>2, <3>2, SMTT(30)
    <3>4. CASE Has(L, L[w], v, i)
      <4>1. i <= Len(s.log)
        BY <1>0, <3>3, <3>4, StartedHas
      <4>2. \A j \in 1..i : j \in 1..Len(s.log)
        BY <4>1, SMTT(30)
      <4> Has(L, s.log, v, i)
        BY <1>2, <3>4, <4>1, <4>2 DEF Has
      <4> QED BY <3>3 DEF Kept
    <3>5. CASE ~Has(L, L[w], v, i)
      BY <3>3, <3>5 DEF Kept
    <3> QED BY <3>4, <3>5
  <2> QED BY <2>1, <2>2
<1>10. RepOK(L, M2, s, r)
  BY <1>5, <1>6, <1>7, <1>8, <1>9 DEF RepOK
<1>11. SentOK(L, M2, R2, out)
  <2> SUFFICES ASSUME NEW m \in out PROVE MsgOK(L, M2, R2, m)
    BY DEF SentOK
  <2>1. /\ m.type = "PREPAREOK" /\ m.view = w /\ m.replicaidx = r
        /\ m.opnum \in 0..Len(s.log) /\ m = PrepareOK(w, m.opnum, r)
    BY <1>3
  <2>2. m.opnum \in 0..Len(L[w]) /\ w >= w
    BY <1>2, <2>1, SMTT(30)
  <2>3. R2[r].view = w
    BY <1>0
  <2> HIDE DEF R2
  <2> PrepareOKMsg(L, R2, m)
    BY <2>1, <2>2, <2>3 DEF PrepareOKMsg
  <2> QED BY <2>1 DEF MsgOK
<1>12. NewlyDecided(L, M2, D, D)
  BY DEF NewlyDecided
<1> \A m \in out : m.type = "PREPAREOK" => m.replicaidx = r /\ m.view = s.view
  BY <1>3
<1> QED BY <1>10, <1>11, <1>12, StepSame

-----------------------------------------------------------------------------
(***************************************************************************)
(* A replica keeps its log.                                                *)
(***************************************************************************)
\* Second, the replica keeps its log, and votes for nothing.
LEMMA KeepStep ==
  ASSUME NEW L, NEW M, NEW R, NEW D, NEW D2, NEW r \in Replica, NEW s, NEW out,
         Inv(L, M, R, D), s \in RepType(M \cup out), ExecOK(s), SetsOK(s),
         s.log = R[r].log, R[r].lastCommitted <= s.lastCommitted,
         R[r].clientTable \subseteq s.clientTable,
         Committed(L, M, s.log, s.lastCommitted, s.view),
         \/ s.view = R[r].view /\ (s.status = R[r].status \/ s.status = "PANIC")
         \/ R[r].view < s.view /\ s.status \in {"VIEW_CHANGE", "PANIC"},
         \A m \in out : m.type # "PREPAREOK",
         SentOK(L, M \cup out, [R EXCEPT ![r] = s], out),
         NewlyDecided(L, M \cup out, D, D2)
  PROVE  Inv(L, M \cup out, [R EXCEPT ![r] = s], D2)
<1> DEFINE t == R[r]
           M2 == M \cup out
<1>0. /\ Ledger(L) /\ R \in [Replica -> RepType(M)] /\ MsgsOK(L, M, R) /\ M \subseteq M2
      /\ Grown(L, L) /\ RepOK(L, M, t, r)
  BY GrownSame DEF Inv
<1>1. /\ t \in RepType(M) /\ Fits(L, t.log) /\ PlaceOK(L, t, r) /\ VoteOK(L, M, t, r)
  BY <1>0 DEF RepOK
<1>2. s.view \in Nat /\ t.view \in Nat /\ s.log \in Seq(LogEntry) /\ Len(s.log) \in Nat
  BY <1>1, SeqLen DEF RepType
<1>3. t.view <= s.view /\ t.view + 1 <= s.view + 1
  BY <1>2, SMTT(30)
<1>4. Committed(L, M2, s.log, s.lastCommitted, s.view)
  <2>1. s.view <= s.view
    BY <1>2, SMTT(30)
  <2> QED BY <1>0, <1>2, <2>1, GrownCommitted
<1>5. PlaceOK(L, s, r)
  <2>1. CASE s.view = t.view /\ (s.status = t.status \/ s.status = "PANIC")
    BY <1>1, <2>1 DEF PlaceOK, AmLeader
  <2>2. CASE t.view < s.view /\ s.status \in {"VIEW_CHANGE", "PANIC"}
    <3>1. \A i \in 1..Len(s.log) : s.log[i].view < s.view
      <4> TAKE i \in 1..Len(s.log)
      <4>1. s.log[i].view \in Nat
        BY <1>0, <1>1, FitsFacts
      <4>2. s.log[i].view < t.view \/ s.log[i].view = t.view
        BY <1>1 DEF PlaceOK
      <4> QED BY <1>2, <2>2, <4>1, <4>2, SMTT(30)
    <3>2. ASSUME s.view \in DOMAIN L, AmLeader(s, r) PROVE FALSE
      <4>1. t.view >= s.view
        BY <3>2 DEF Inv, AmLeader
      <4> QED BY <1>2, <2>2, <4>1, SMTT(30)
    <3> QED BY <2>2, <3>1, <3>2 DEF PlaceOK
  <2> QED BY <2>1, <2>2
<1>6. VoteOK(L, M2, s, r)
  <2> SUFFICES ASSUME NEW v \in DOMAIN L, NEW i \in Nat, Voted(L, M2, r, v, i)
               PROVE  v <= s.view /\ Kept(L, s.log, v, i, s.view + 1)
    BY DEF VoteOK
  <2>1. Voted(L, M, r, v, i)
    BY DEF Voted
  <2>2. v <= t.view /\ Kept(L, s.log, v, i, t.view + 1)
    BY <1>1, <2>1 DEF VoteOK
  <2>3. v \in Nat /\ DOMAIN L \subseteq Nat
    BY <1>0 DEF Ledger
  <2>4. v <= s.view /\ \A u \in DOMAIN L : u < t.view + 1 => u < s.view + 1
    BY <1>2, <1>3, <2>2, <2>3, SMTT(30)
  <2> QED BY <2>2, <2>4 DEF Kept
<1>7. RepOK(L, M2, s, r)
  BY <1>1, <1>4, <1>5, <1>6 DEF RepOK
<1> QED BY <1>3, <1>7, StepSame

\* EnterView.
LEMMA EnterLemma ==
  ASSUME NEW M, NEW s \in RepType(M), NEW w \in Nat
  PROVE  LET e == EnterView(s, w)
         IN  /\ e \in RepType(M) /\ SetsOK(e)
             /\ e.view = w /\ e.status = "NORMAL"
             /\ e.log = s.log /\ e.lastOp = s.lastOp /\ e.lastCommitted = s.lastCommitted
             /\ e.executed = s.executed /\ e.clientTable = s.clientTable
<1> DEFINE e == EnterView(s, w)
<1>1. s.lastOp \in Nat
  BY DEF RepType
<1>2. /\ e \in RepType(M)
      /\ e.view = w /\ e.status = "NORMAL"
      /\ e.log = s.log /\ e.lastOp = s.lastOp /\ e.lastCommitted = s.lastCommitted
      /\ e.executed = s.executed /\ e.clientTable = s.clientTable
      /\ e.prepareOKs = {} /\ e.startViewChanges = {} /\ e.doViewChanges = {}
  BY <1>1 DEF EnterView, RepType, Status
<1> HIDE DEF e
<1> SetsOK(e)
  BY <1>2 DEF SetsOK
<1> QED BY <1>2 DEF e

\* The same with lastOp set.
LEMMA AfterOKsLemma ==
  ASSUME NEW M, NEW s \in RepType(M), ExecOK(s), SetsOK(s), NEW o \in Nat, NEW r
  PROVE  LET a == AfterPrepareOKs(s, o)
         IN  /\ a \in RepType(M) /\ ExecOK(a) /\ SetsOK(a)
             /\ a.view = s.view /\ a.status = s.status
             /\ a.log = s.log /\ a.lastCommitted = s.lastCommitted
             /\ OKsUpTo(PrepareOKs(s, r, o), r, s.view, Len(s.log))
<1> DEFINE ops == {i \in o..s.lastOp : s.lastCommitted < i}
           a == AfterPrepareOKs(s, o)
           table == {s.log[i].request : i \in ops \cap DOMAIN s.log}
<1> /\ s.log \in Seq(LogEntry) /\ Len(s.log) \in Nat /\ s.lastCommitted \in Nat
    /\ DOMAIN s.log = 1..Len(s.log) /\ s.lastOp = Len(s.log)
    /\ \A i \in 1..Len(s.log) : s.log[i] \in LogEntry
  BY SeqLen DEF RepType, ExecOK
<1>2. ops \subseteq DOMAIN s.log
  BY SMTT(30)
<1>3. table \subseteq Client
  BY DEF LogEntry
<1>4. a = [[s EXCEPT !.clientTable = @ \cup table] EXCEPT !.status = @]
  BY <1>2 DEF AfterPrepareOKs, UpdateClientTable
<1> HIDE DEF a, ops, table
<1>5. /\ a \in RepType(M)
      /\ a.view = s.view /\ a.status = s.status
      /\ a.log = s.log /\ a.lastCommitted = s.lastCommitted
      /\ a.lastOp = s.lastOp /\ a.executed = s.executed
      /\ a.prepareOKs = s.prepareOKs /\ a.startViewChanges = s.startViewChanges
      /\ a.doViewChanges = s.doViewChanges
  BY <1>3, <1>4 DEF RepType
<1>6. ExecOK(a) /\ SetsOK(a)
  BY <1>5 DEF ExecOK, SetsOK
<1> OKsUpTo(PrepareOKs(s, r, o), r, s.view, Len(s.log))
  <2> \A j \in o..s.lastOp : s.lastCommitted < j /\ j <= Len(s.log) => j \in 0..Len(s.log)
    BY SMTT(30)
  <2> QED BY DEF OKsUpTo, PrepareOKs
<1> QED BY <1>5, <1>6 DEF a

\* Only members change that say nothing of the log, or the view.
LEMMA QuietStep ==
  ASSUME NEW L, NEW M, NEW R, NEW D, NEW r \in Replica, NEW s, NEW out,
         Inv(L, M, R, D), s \in RepType(M \cup out), SetsOK(s),
         s.log = R[r].log, s.lastOp = R[r].lastOp, s.lastCommitted = R[r].lastCommitted,
         s.executed = R[r].executed, R[r].clientTable \subseteq s.clientTable,
         \/ s.view = R[r].view /\ (s.status = R[r].status \/ s.status = "PANIC")
         \/ R[r].view < s.view /\ s.status \in {"VIEW_CHANGE", "PANIC"},
         \A m \in out : m.type # "PREPAREOK",
         SentOK(L, M \cup out, [R EXCEPT ![r] = s], out)
  PROVE  Inv(L, M \cup out, [R EXCEPT ![r] = s], D)
<1> RepOK(L, M, R[r], r) /\ Ledger(L)
  BY DEF Inv
<1>2. Grown(L, L)
  BY GrownSame
<1>3. ExecOK(s)
  BY DEF RepOK, ExecOK
<1>4. /\ s.lastCommitted \in Nat /\ s.view \in Nat /\ R[r].view \in Nat
      /\ s.log \in Seq(LogEntry) /\ Len(s.log) \in Nat
  BY SeqLen DEF RepType, RepOK
<1>5. R[r].lastCommitted <= s.lastCommitted /\ R[r].view <= s.view
  BY <1>4, SMTT(30)
<1>6. Committed(L, M, s.log, s.lastCommitted, s.view)
  BY <1>2, <1>4, <1>5, GrownCommitted DEF RepOK
<1> NewlyDecided(L, M \cup out, D, D)
  BY DEF NewlyDecided
<1> QED BY <1>3, <1>5, <1>6, KeepStep

\* Replica r is one of the replicas.
LEMMA SameRep ==
  ASSUME NEW L, NEW M, NEW R, NEW D, NEW r \in Replica, Inv(L, M, R, D)
  PROVE  /\ [R EXCEPT ![r] = R[r]] = R
         /\ R[r] \in RepType(M) /\ R \in [Replica -> RepType(M)] /\ RepOK(L, M, R[r], r)
<1> R \in [Replica -> RepType(M)]
  BY DEF Inv
<1> QED BY DEF Inv

\* Nothing changes but the messages.
LEMMA SendStep ==
  ASSUME NEW L, NEW M, NEW R, NEW D, NEW r \in Replica, NEW out,
         Inv(L, M, R, D), \A m \in out : m.type # "PREPAREOK",
         SentOK(L, M \cup out, R, out)
  PROVE  Inv(L, M \cup out, [R EXCEPT ![r] = R[r]], D)
<1> [R EXCEPT ![r] = R[r]] = R /\ R[r] \in RepType(M) /\ RepOK(L, M, R[r], r)
  BY SameRep
<1>2. R[r] \in RepType(M \cup out)
  BY DEF RepType
<1> SetsOK(R[r])
  BY DEF RepOK
<1> QED BY <1>2, QuietStep

\* RequestStateTransfer.
LEMMA AskStep ==
  ASSUME NEW L, NEW M, NEW R, NEW D, NEW r \in Replica, Inv(L, M, R, D)
  PROVE  Inv(L, M \cup RequestStateTransfer(R[r], r), [R EXCEPT ![r] = R[r]], D)
<1> DEFINE out == RequestStateTransfer(R[r], r)
<1>1. R[r].view \in Nat /\ R[r].lastCommitted \in Nat
  <2> R[r] \in RepType(M)
    BY SameRep
  <2> QED BY DEF RepType
<1>2. R[r].lastCommitted \in 0..R[r].lastCommitted
  BY <1>1, SMTT(30)
<1>3. ASSUME NEW m \in out
      PROVE  /\ m.type = "REQUESTSTATETRANSFER" /\ m.replicaidx = r
             /\ m.view = R[r].view /\ m.opnum = R[r].lastCommitted
  <2> m = [type |-> "REQUESTSTATETRANSFER", view |-> R[r].view,
           opnum |-> R[r].lastCommitted, replicaidx |-> r]
    BY DEF RequestStateTransfer
  <2> QED OBVIOUS
<1> HIDE DEF out
<1>4. SentOK(L, M \cup out, R, out)
  <2> SUFFICES ASSUME NEW m \in out PROVE MsgOK(L, M \cup out, R, m)
    BY DEF SentOK
  <2> RequestMsg(R, m)
    BY <1>1, <1>2, <1>3 DEF RequestMsg
  <2> QED BY <1>3 DEF MsgOK
<1>5. \A m \in out : m.type # "PREPAREOK"
  BY <1>3
<1> Inv(L, M \cup out, [R EXCEPT ![r] = R[r]], D)
  BY <1>4, <1>5, SendStep
<1> QED BY DEF out

-----------------------------------------------------------------------------
(***************************************************************************)
(* The handlers of a leader.                                               *)
(***************************************************************************)
\* The COMMIT a leader sends.
LEMMA CommitSent ==
  ASSUME NEW L, NEW M, NEW R, NEW s, s.view \in DOMAIN L,
         Committed(L, M, L[s.view], s.lastCommitted, s.view)
  PROVE  /\ \A m \in {CommitMessage(s)} : m.type = "COMMIT"
         /\ SentOK(L, M, R, {CommitMessage(s)})
<1> DEFINE m == CommitMessage(s)
<1>1. m.type = "COMMIT" /\ m.view = s.view /\ m.opnum = s.lastCommitted
  BY DEF CommitMessage
<1> HIDE DEF m
<1> MsgOK(L, M, R, m)
  BY <1>1 DEF MsgOK, CommitMsg
<1> QED BY <1>1 DEF m, SentOK

\* What is committed stays committed as messages are sent.
LEMMA CommittedMore ==
  ASSUME NEW L, Ledger(L), NEW M, NEW M2, M \subseteq M2, NEW K, Len(K) \in Nat,
         NEW c, NEW w \in Nat, Committed(L, M, K, c, w)
  PROVE  Committed(L, M2, K, c, w)
<1> Grown(L, L) /\ w <= w
  BY GrownSame, SMTT(30)
<1> QED BY GrownCommitted

\* SendNullCommit.
LEMMA SendNullCommitStep ==
  ASSUME NEW L, Inv(L, msgs, rep, decided), NEW r \in Replica, SendNullCommit(r)
  PROVE  Inv(L, msgs', rep', decided')
<1> DEFINE s == rep[r]
           out == {CommitMessage(s)}
           M2 == msgs \cup out
<1>1. /\ Leads(s, r) /\ rep' = [rep EXCEPT ![r] = s] /\ msgs' = M2 /\ decided' = decided
  BY DEF SendNullCommit, Step, NoHistory
<1>2. /\ Ledger(L) /\ s.view \in DOMAIN L /\ s.view \in Nat /\ s.log = L[s.view]
      /\ Len(s.log) \in Nat /\ Committed(L, msgs, L[s.view], s.lastCommitted, s.view)
  <2> LeaderOK(L, msgs, s, r)
    BY <1>1, LeadsFacts
  <2> QED BY DEF LeaderOK
<1>3. Committed(L, M2, L[s.view], s.lastCommitted, s.view)
  <2>1. msgs \subseteq M2
    OBVIOUS
  <2> HIDE DEF M2, s
  <2> QED BY <1>2, <2>1, CommittedMore
<1>4. SentOK(L, M2, rep, out) /\ \A m \in out : m.type = "COMMIT"
  <2> HIDE DEF M2, s
  <2> QED BY <1>2, <1>3, CommitSent
<1> HIDE DEF out
<1> Inv(L, M2, [rep EXCEPT ![r] = rep[r]], decided)
  BY <1>4, SendStep
<1> QED BY <1>1

\* CloseBatch.
LEMMA CloseBatchStep ==
  ASSUME NEW L, Inv(L, msgs, rep, decided), NEW r \in Replica, CloseBatch(r)
  PROVE  Inv(L, msgs', rep', decided')
<1> DEFINE t == rep[r]
           s == BatchClosed(t)
           out == {BatchPrepare(t)}
           M2 == msgs \cup out
<1>1. /\ Leads(t, r) /\ rep' = [rep EXCEPT ![r] = s] /\ msgs' = M2 /\ decided' = decided
  BY DEF CloseBatch, Step, NoHistory
<1> /\ Ledger(L) /\ t.view \in DOMAIN L /\ t.view \in Nat /\ t.log = L[t.view]
    /\ t.lastOp = Len(t.log) /\ t \in RepType(msgs)
  <2> LeaderOK(L, msgs, t, r)
    BY <1>1, LeadsFacts
  <2> QED BY DEF LeaderOK
<1>3. t.lastBatchEnd \in Nat /\ t.lastOp \in Nat
  BY DEF RepType
<1>4. SentOK(L, M2, [rep EXCEPT ![r] = s], out) /\ \A m \in out : m.type = "PREPARE"
  <2> HIDE DEF M2, s, t
  <2> QED BY <1>3, PrepareSent
<1>5. t \in RepType(M2) /\ SetsOK(t)
  <2>1. RepOK(L, msgs, t, r)
    BY DEF Inv
  <2> HIDE DEF out
  <2> QED BY <2>1, RepMore DEF RepOK
<1>6. /\ s \in RepType(M2) /\ s.log = t.log /\ s.lastOp = t.lastOp /\ s.view = t.view
      /\ s.lastCommitted = t.lastCommitted /\ s.executed = t.executed
      /\ s.clientTable = t.clientTable /\ s.status = t.status
      /\ s.prepareOKs = t.prepareOKs /\ s.startViewChanges = t.startViewChanges
      /\ s.doViewChanges = t.doViewChanges
  <2> HIDE DEF M2, t
  <2> QED BY <1>3, <1>5 DEF BatchClosed, RepType
<1> HIDE DEF s, out
<1>7. SetsOK(s)
  BY <1>5, <1>6 DEF SetsOK
<1> Inv(L, M2, [rep EXCEPT ![r] = s], decided)
  BY <1>4, <1>6, <1>7, QuietStep
<1> QED BY <1>1

\* A quorum of PREPAREOKs for an entry of the leader's view chooses it.
LEMMA QuorumChooses ==
  ASSUME Counting,
         NEW L, NEW M, NEW R, NEW D, NEW r \in Replica, Inv(L, M, R, D), Leads(R[r], r),
         NEW m \in M, m.type = "PREPAREOK", m.view = R[r].view,
         Own(L, R[r].view, m.opnum),
         Quorum(AddMessage({x \in R[r].prepareOKs : x.opnum = m.opnum}, m))
  PROVE  Chosen(L, M, R[r].view, m.opnum)
<1> DEFINE s == R[r]
           oks == AddMessage({x \in s.prepareOKs : x.opnum = m.opnum}, m)
           S == Senders(oks)
<1> /\ Ledger(L) /\ s.view \in DOMAIN L /\ GetLeaderIndex(s.view) = r
    /\ s \in RepType(M) /\ s.status = "NORMAL"
  <2> LeaderOK(L, M, s, r)
    BY LeadsFacts
  <2> QED BY DEF LeaderOK
<1>2. SetsOK(s) /\ s.prepareOKs \subseteq M
  <2> RepOK(L, M, s, r)
    BY DEF Inv
  <2> QED BY DEF RepOK, RepType
<1>3. ASSUME NEW x \in oks
      PROVE  /\ x \in M /\ x.type = "PREPAREOK" /\ x.view = s.view /\ x.opnum = m.opnum
             /\ x.replicaidx \in Replica \ {r}
             /\ x = PrepareOK(s.view, m.opnum, x.replicaidx)
  <2>1. x = m \/ (x \in s.prepareOKs /\ x.opnum = m.opnum)
    BY DEF AddMessage
  <2>2. x \in M /\ x.type = "PREPAREOK" /\ x.view = s.view /\ x.opnum = m.opnum
    BY <1>2, <2>1 DEF SetsOK
  <2> PrepareOKMsg(L, R, x)
    BY <2>2 DEF Inv, MsgsOK, MsgOK
  <2> QED BY <2>2 DEF PrepareOKMsg
<1>4. Cardinality(oks) >= QuorumSize - 1
  BY DEF Quorum
<1> HIDE DEF oks
<1>5. \A x, y \in oks : x.replicaidx = y.replicaidx => x = y
  BY <1>3
<1>6. S \cup {r} \in Quorums
  BY <1>3, <1>4, <1>5, SendersQuorum
<1> HIDE DEF S
<1>7. ASSUME NEW q \in S \cup {r} PROVE Voted(L, M, q, s.view, m.opnum)
  <2>1. m.opnum \in 1..Len(L[s.view]) /\ Len(L[s.view]) \in Nat
    BY LedgerFacts DEF Own
  <2>2. m.opnum <= Len(L[s.view]) /\ m.opnum <= m.opnum
    BY <2>1, SMTT(30)
  <2>3. CASE q = r
    BY <2>2, <2>3 DEF Voted
  <2>4. CASE q \in S
    <3>1. PICK x \in oks : x.replicaidx = q
      BY <2>4 DEF S, Senders
    <3> QED BY <1>3, <2>2, <3>1 DEF Voted
  <2> QED BY <2>3, <2>4
<1> QED BY <1>6, <1>7 DEF Chosen

\* HandlePrepareOK, unless it commits an entry late.
LEMMA HandlePrepareOKStep ==
  ASSUME Counting, NEW L, Inv(L, msgs, rep, decided), NEW r \in Replica,
         NEW m \in Received("PREPAREOK"), HandlePrepareOK(r, m), ~late'
  PROVE  Inv(L, msgs', rep', decided')
<1> DEFINE s == rep[r]
           oks == AddMessage({x \in s.prepareOKs : x.opnum = m.opnum}, m)
           t == [s EXCEPT !.prepareOKs = @ \cup {m}]
           done == CommitUpTo(t, m.opnum)
           own == m.opnum \in DOMAIN s.log /\ s.log[m.opnum].view = s.view
<1>1. m \in msgs /\ m.type = "PREPAREOK" /\ Leads(s, r) /\ m.view = s.view
  BY DEF Received, HandlePrepareOK
<1>2. LeaderOK(L, msgs, s, r)
  BY <1>1, LeadsFacts
<1> /\ Ledger(L) /\ s \in RepType(msgs) /\ s.status = "NORMAL"
    /\ s.view \in DOMAIN L /\ s.view \in Nat /\ s.log = L[s.view] /\ Len(s.log) \in Nat
    /\ s.lastCommitted \in Nat /\ s.lastCommitted <= Len(s.log)
    /\ DOMAIN s.log = 1..Len(s.log)
    /\ Committed(L, msgs, L[s.view], s.lastCommitted, s.view)
  <2> s.log \in Seq(LogEntry)
    BY <1>2 DEF LeaderOK
  <2> QED BY <1>2, SeqLen DEF LeaderOK
<1>4. RepOK(L, msgs, s, r) /\ ExecOK(s) /\ SetsOK(s)
  BY DEF Inv, RepOK
<1>5. m.opnum \in 0..Len(s.log)
  <2> PrepareOKMsg(L, rep, m)
    BY <1>1 DEF Inv, MsgsOK, MsgOK
  <2> QED BY <1>1 DEF PrepareOKMsg
<1>6. m.opnum \in Nat /\ m.opnum <= Len(s.log)
  BY <1>5, SMTT(30)
<1>7. /\ t \in RepType(msgs) /\ t.log = s.log /\ t.lastOp = s.lastOp /\ t.view = s.view
      /\ t.lastCommitted = s.lastCommitted /\ t.executed = s.executed
      /\ t.clientTable = s.clientTable /\ t.status = s.status
      /\ t.prepareOKs = s.prepareOKs \cup {m} /\ t.startViewChanges = s.startViewChanges
      /\ t.doViewChanges = s.doViewChanges
  <2> HIDE DEF s
  <2> QED BY <1>1 DEF RepType
<1> HIDE DEF t
<1>8. ExecOK(t) /\ SetsOK(t)
  BY <1>1, <1>4, <1>7 DEF ExecOK, SetsOK
<1>9. CASE ~Quorum(oks)
  <2>1. rep' = [rep EXCEPT ![r] = t] /\ msgs' = msgs \cup {} /\ decided' = decided
    BY <1>9 DEF HandlePrepareOK, Step, NoHistory, t
  <2>2. t \in RepType(msgs \cup {})
    BY <1>7
  <2>3. SentOK(L, msgs \cup {}, [rep EXCEPT ![r] = t], {})
    BY DEF SentOK
  <2> Inv(L, msgs \cup {}, [rep EXCEPT ![r] = t], decided)
    BY <1>7, <1>8, <2>2, <2>3, QuietStep
  <2> QED BY <2>1
<1>10. CASE Quorum(oks)
  <2> DEFINE out == IF done.status = "PANIC" \/ Cardinality(oks) >= QuorumSize
                      THEN {} ELSE {CommitMessage(done)}
  <2>1. /\ rep' = [rep EXCEPT ![r] = done] /\ msgs' = msgs \cup out
        /\ decided' = IF own THEN decided \cup Decisions(s, m.opnum) ELSE decided
        /\ own \/ ~(m.opnum > s.lastCommitted)
    BY <1>10 DEF HandlePrepareOK, Step, t
  <2>2. /\ done \in RepType(msgs) /\ ExecOK(done)
        /\ done.lastCommitted = IF m.opnum <= s.lastCommitted THEN s.lastCommitted ELSE m.opnum
        /\ s.clientTable \subseteq done.clientTable
        /\ done.log = s.log /\ done.view = s.view /\ done.status = s.status
        /\ done.prepareOKs = t.prepareOKs /\ done.startViewChanges = t.startViewChanges
        /\ done.doViewChanges = t.doViewChanges
    <3>1. m.opnum <= Len(t.log)
      BY <1>6, <1>7
    <3>2. CommitsTo(msgs, t, m.opnum, CommitUpTo(t, m.opnum))
      BY <1>6, <1>7, <1>8, <3>1, CommitLemma
    <3> HIDE DEF s
    <3> QED BY <1>7, <3>2 DEF CommitsTo
  <2> HIDE DEF done
  <2>3. SetsOK(done)
    BY <1>7, <1>8, <2>2 DEF SetsOK
  <2>4. own => Chosen(L, msgs, s.view, m.opnum)
    <3> own => Own(L, s.view, m.opnum)
      BY DEF Own
    <3> QED BY <1>1, <1>10, QuorumChooses
  <2>5. Committed(L, msgs, L[s.view], done.lastCommitted, s.view)
    <3>1. CASE m.opnum <= s.lastCommitted
      BY <2>2, <3>1
    <3>2. CASE ~(m.opnum <= s.lastCommitted)
      <4>1. own /\ done.lastCommitted = m.opnum
        BY <1>6, <2>1, <2>2, <3>2, SMTT(30)
      <4>2. Has(L, L[s.view], s.view, m.opnum)
        BY <1>6 DEF Has
      <4> m.opnum <= m.opnum /\ s.view <= s.view
        BY <1>6, SMTT(30)
      <4> QED BY <1>6, <2>4, <4>1, <4>2 DEF Committed
    <3> QED BY <3>1, <3>2
  <2>6. Committed(L, msgs \cup out, L[s.view], done.lastCommitted, s.view)
    <3>1. msgs \subseteq msgs \cup out
      OBVIOUS
    <3> HIDE DEF out, s
    <3> QED BY <2>5, <3>1, CommittedMore
  <2>7. /\ \A x \in out : x.type # "PREPAREOK"
        /\ SentOK(L, msgs \cup out, [rep EXCEPT ![r] = done], out)
    <3>1. CASE out = {}
      BY <3>1 DEF SentOK
    <3>2. CASE out = {CommitMessage(done)}
      <4> HIDE DEF out
      <4> /\ \A x \in {CommitMessage(done)} : x.type = "COMMIT"
          /\ SentOK(L, msgs \cup out, [rep EXCEPT ![r] = done], {CommitMessage(done)})
        BY <2>2, <2>6, CommitSent
      <4> QED BY <3>2
    <3> QED BY <3>1, <3>2
  <2> HIDE DEF out
  <2>8. NewlyDecided(L, msgs \cup out, decided, decided')
    <3> SUFFICES ASSUME NEW d \in decided', d \notin decided
                 PROVE  DecidedOK(L, msgs \cup out, d)
      BY DEF NewlyDecided
    <3>1. own /\ d \in Decisions(s, m.opnum)
      BY <2>1
    <3>2. PICK i \in DOMAIN s.log :
            /\ i <= m.opnum
            /\ d = [view |-> s.view, opnum |-> i, request |-> s.log[i].request]
      BY <3>1 DEF Decisions
    <3>3. d.view = s.view /\ d.opnum = i /\ d.request = s.log[i].request
      BY <3>2
    <3>4. i \in 1..m.opnum
      BY <1>6, <3>2, SMTT(30)
    <3> Chosen(L, msgs \cup out, s.view, m.opnum)
      <4> Grown(L, L) /\ msgs \subseteq msgs \cup out
        BY GrownSame
      <4> QED BY <1>6, <2>4, <3>1, GrownChosen
    <3> QED BY <1>6, <3>3, <3>4 DEF DecidedOK
  <2>9. done \in RepType(msgs \cup out)
    BY <2>2, RepMore
  <2>10. s.lastCommitted <= done.lastCommitted
    BY <1>6, <2>2, SMTT(30)
  <2> Inv(L, msgs \cup out, [rep EXCEPT ![r] = done], decided')
    BY <2>2, <2>3, <2>5, <2>7, <2>8, <2>9, <2>10, KeepStep
  <2> QED BY <2>1
<1> QED BY <1>9, <1>10

\* HandleRequest.
LEMMA HandleRequestStep ==
  ASSUME NEW L, Inv(L, msgs, rep, decided), NEW r \in Replica, NEW c \in Client,
         HandleRequest(r, c)
  PROVE  \E L2 : Inv(L2, msgs', rep', decided')
<1> DEFINE s == rep[r]
           known == UpdateClientTable(s, {c})
           K == AppendEntry(s.log, s.view, s.lastOp + 1, c)
           logged == [known EXCEPT !.lastOp = @ + 1,
                                   !.log = AppendEntry(@, s.view, s.lastOp + 1, c)]
<1> /\ Leads(s, r) /\ c \notin s.clientTable /\ decided' = decided
    /\ \/ rep' = [rep EXCEPT ![r] = known] /\ msgs' = msgs \cup {}
       \/ /\ rep' = [rep EXCEPT ![r] = BatchClosed(logged)]
          /\ msgs' = msgs \cup {BatchPrepare(logged)}
       \/ rep' = [rep EXCEPT ![r] = [logged EXCEPT !.batchOpen = TRUE]] /\ msgs' = msgs \cup {}
  BY DEF HandleRequest, Step, NoHistory
<1>2. LeaderOK(L, msgs, s, r)
  BY LeadsFacts
<1> RepOK(L, msgs, s, r) /\ SetsOK(s) /\ Fits(L, s.log)
  BY DEF Inv, RepOK
<1> /\ s \in RepType(msgs) /\ s.view \in Nat /\ s.lastOp = Len(s.log) /\ Len(s.log) \in Nat
    /\ s.lastBatchEnd \in Nat
  <2> HIDE DEF s
  <2> QED BY <1>2 DEF LeaderOK, RepType
<1> s.lastOp + 1 \in Nat
  BY SMTT(30)
<1>6. K \in Seq(LogEntry)
  <2> DEFINE e == [view |-> s.view, opnum |-> s.lastOp + 1, request |-> c]
  <2>1. e \in LogEntry /\ e.opnum = Len(s.log) + 1
    BY DEF LogEntry
  <2>2. Numbered(s.log)
    BY DEF Fits, Numbered
  <2>3. K = Append(s.log, e)
    BY DEF AppendEntry
  <2> HIDE DEF e, K, s
  <2> Numbered(Append(s.log, e))
    BY <2>1, <2>2, AppendLemma
  <2> QED BY <2>3 DEF Numbered
<1> /\ known \in RepType(msgs) /\ known.log = s.log /\ known.lastOp = s.lastOp
    /\ known.view = s.view /\ known.lastCommitted = s.lastCommitted
    /\ known.executed = s.executed /\ known.clientTable = s.clientTable \cup {c}
    /\ known.status = s.status /\ known.lastBatchEnd = s.lastBatchEnd
    /\ known.prepareOKs = s.prepareOKs /\ known.startViewChanges = s.startViewChanges
    /\ known.doViewChanges = s.doViewChanges
  <2> HIDE DEF s
  <2> QED BY DEF UpdateClientTable, RepType
<1> HIDE DEF known
<1> /\ logged \in RepType(msgs) /\ logged.log = K /\ logged.lastOp = s.lastOp + 1
    /\ logged.view = s.view /\ logged.lastCommitted = s.lastCommitted
    /\ logged.executed = s.executed /\ logged.clientTable = s.clientTable \cup {c}
    /\ logged.status = s.status /\ logged.lastBatchEnd = s.lastBatchEnd
    /\ logged.prepareOKs = s.prepareOKs /\ logged.startViewChanges = s.startViewChanges
    /\ logged.doViewChanges = s.doViewChanges
  <2>1. logged = [known EXCEPT !.lastOp = s.lastOp + 1, !.log = K]
    <3> HIDE DEF s
    <3> QED BY DEF RepType
  <2> HIDE DEF logged, K, s
  <2> QED BY <1>6, <2>1 DEF RepType
<1> HIDE DEF logged
<1>9. ASSUME NEW x, x \in RepType(msgs), x.log = K, x.lastOp = s.lastOp + 1,
             x.view = s.view, x.lastCommitted = s.lastCommitted,
             x.executed = s.executed, x.clientTable = s.clientTable \cup {c},
             x.status = s.status, x.prepareOKs = s.prepareOKs,
             x.startViewChanges = s.startViewChanges, x.doViewChanges = s.doViewChanges,
             NEW out, out \subseteq {BatchPrepare(logged)}
      PROVE  \E L2 : Inv(L2, msgs \cup out, [rep EXCEPT ![r] = x], decided)
  <2>1. SetsOK(x)
    BY <1>9 DEF SetsOK
  <2> /\ logged.view = x.view /\ logged.log = x.log /\ logged.lastOp = x.lastOp
      /\ logged.lastBatchEnd \in Nat
    BY <1>9
  <2> QED BY <1>9, <2>1, LoggedStep
<1>10. CASE rep' = [rep EXCEPT ![r] = known] /\ msgs' = msgs \cup {}
  <2>1. known \in RepType(msgs \cup {}) /\ SetsOK(known)
    BY DEF SetsOK
  <2>2. SentOK(L, msgs \cup {}, [rep EXCEPT ![r] = known], {})
    BY DEF SentOK
  <2> Inv(L, msgs \cup {}, [rep EXCEPT ![r] = known], decided)
    BY <2>1, <2>2, QuietStep
  <2> QED BY <1>10
<1>11. CASE /\ rep' = [rep EXCEPT ![r] = BatchClosed(logged)]
            /\ msgs' = msgs \cup {BatchPrepare(logged)}
  <2> DEFINE x == BatchClosed(logged)
  <2>1. /\ x \in RepType(msgs) /\ x.log = K /\ x.lastOp = s.lastOp + 1
        /\ x.view = s.view /\ x.lastCommitted = s.lastCommitted
        /\ x.executed = s.executed /\ x.clientTable = s.clientTable \cup {c}
        /\ x.status = s.status /\ x.prepareOKs = s.prepareOKs
        /\ x.startViewChanges = s.startViewChanges /\ x.doViewChanges = s.doViewChanges
    <3> HIDE DEF s, K
    <3> QED BY DEF BatchClosed, RepType
  <2> HIDE DEF x
  <2> \E L2 : Inv(L2, msgs \cup {BatchPrepare(logged)}, [rep EXCEPT ![r] = x], decided)
    BY <1>9, <2>1
  <2> QED BY <1>11 DEF x
<1>12. CASE rep' = [rep EXCEPT ![r] = [logged EXCEPT !.batchOpen = TRUE]] /\ msgs' = msgs \cup {}
  <2> DEFINE x == [logged EXCEPT !.batchOpen = TRUE]
  <2>1. /\ x \in RepType(msgs) /\ x.log = K /\ x.lastOp = s.lastOp + 1
        /\ x.view = s.view /\ x.lastCommitted = s.lastCommitted
        /\ x.executed = s.executed /\ x.clientTable = s.clientTable \cup {c}
        /\ x.status = s.status /\ x.prepareOKs = s.prepareOKs
        /\ x.startViewChanges = s.startViewChanges /\ x.doViewChanges = s.doViewChanges
    <3> HIDE DEF s, K
    <3> QED BY DEF RepType
  <2> HIDE DEF x
  <2> \E L2 : Inv(L2, msgs \cup {}, [rep EXCEPT ![r] = x], decided)
    BY <1>9, <2>1
  <2> QED BY <1>12 DEF x
<1> QED BY <1>10, <1>11, <1>12

-----------------------------------------------------------------------------
(***************************************************************************)
(* The handlers of the other replicas.                                     *)
(***************************************************************************)
\* The votes of a replica in its view are part of its log.
LEMMA FollowerVotes ==
  ASSUME NEW L, Ledger(L), NEW M, NEW s, NEW r, RepOK(L, M, s, r), s.view \in DOMAIN L
  PROVE  VotesUpTo(L, M, r, s.view, Len(s.log))
<1> SUFFICES ASSUME NEW i \in Nat, Voted(L, M, r, s.view, i) PROVE i <= Len(s.log)
  BY DEF VotesUpTo
<1>1. Kept(L, s.log, s.view, i, s.view + 1)
  BY DEF RepOK, VoteOK
<1>2. DOMAIN L \subseteq Nat
  BY DEF Ledger
<1> \A u \in DOMAIN L : ~(s.view < u /\ u < s.view + 1)
  BY <1>2, SMTT(30)
<1> QED BY <1>1 DEF Kept, Has

\* What a replica in status NORMAL knows of itself.
FollowerOK(L, M, s, r) ==
  /\ Ledger(L) /\ s \in RepType(M) /\ ExecOK(s) /\ SetsOK(s) /\ Numbered(s.log)
  /\ s.view \in DOMAIN L /\ s.view \in Nat /\ s.lastCommitted \in Nat
  /\ s.log \in Seq(LogEntry) /\ Len(s.log) \in Nat /\ s.lastOp = Len(s.log)
  /\ s.lastCommitted <= Len(s.log)
  /\ L[s.view] \in Seq(LogEntry) /\ Len(L[s.view]) \in Nat
  /\ Has(L, s.log, s.view, Len(s.log)) /\ Started(L, s.view, Len(s.log))
  /\ Committed(L, M, L[s.view], s.lastCommitted, s.view)
  /\ VotesUpTo(L, M, r, s.view, Len(s.log))

\* It follows from the invariant.
LEMMA FollowerFacts ==
  ASSUME NEW L, NEW M, NEW R, NEW D, NEW r \in Replica, Inv(L, M, R, D),
         R[r].status = "NORMAL"
  PROVE  FollowerOK(L, M, R[r], r)
<1> DEFINE s == R[r]
<1> RepOK(L, M, s, r) /\ Ledger(L)
  BY DEF Inv
<1> HIDE DEF s
<1>2. s.status = "NORMAL"
  BY DEF s
<1> /\ s \in RepType(M) /\ ExecOK(s) /\ SetsOK(s) /\ Fits(L, s.log)
    /\ s.view \in DOMAIN L /\ Committed(L, M, s.log, s.lastCommitted, s.view)
    /\ Has(L, s.log, s.view, Len(s.log)) /\ Started(L, s.view, Len(s.log))
  BY <1>2 DEF RepOK, PlaceOK
<1> /\ s.view \in Nat /\ s.lastCommitted \in Nat /\ s.log \in Seq(LogEntry)
    /\ s.lastOp = Len(s.log) /\ s.lastCommitted <= Len(s.log) /\ Numbered(s.log)
  BY DEF RepType, ExecOK, Fits, Numbered
<1>5. Len(s.log) \in Nat /\ L[s.view] \in Seq(LogEntry) /\ Len(L[s.view]) \in Nat
  BY SeqLen, LedgerFacts
<1>6. VotesUpTo(L, M, r, s.view, Len(s.log))
  BY FollowerVotes
<1>7. Committed(L, M, L[s.view], s.lastCommitted, s.view)
  <2> s.lastCommitted <= Len(L[s.view]) /\ \A j \in 1..s.lastCommitted : L[s.view][j] = s.log[j]
    BY <1>5, SMTT(30) DEF Has
  <2> QED BY CommittedLog
<1> FollowerOK(L, M, s, r)
  BY <1>5, <1>6, <1>7 DEF FollowerOK
<1> QED BY DEF s

\* HandleCommit.
LEMMA HandleCommitStep ==
  ASSUME NEW L, Inv(L, msgs, rep, decided), NEW r \in Replica,
         NEW m \in Received("COMMIT"), HandleCommit(r, m)
  PROVE  Inv(L, msgs', rep', decided')
<1> DEFINE s == rep[r]
           c == CommitUpTo(s, m.opnum)
<1> /\ m \in msgs /\ m.type = "COMMIT" /\ s.status = "NORMAL" /\ r # GetLeaderIndex(m.view)
    /\ m.view = s.view /\ m.opnum > s.lastCommitted /\ decided' = decided
    /\ \/ rep' = [rep EXCEPT ![r] = s] /\ msgs' = msgs \cup RequestStateTransfer(s, r)
       \/ ~(m.opnum > s.lastOp) /\ rep' = [rep EXCEPT ![r] = c] /\ msgs' = msgs \cup {}
  BY DEF HandleCommit, Received, Step, NoHistory
<1>2. CASE rep' = [rep EXCEPT ![r] = s] /\ msgs' = msgs \cup RequestStateTransfer(s, r)
  BY <1>2, AskStep
<1>3. CASE ~(m.opnum > s.lastOp) /\ rep' = [rep EXCEPT ![r] = c] /\ msgs' = msgs \cup {}
  <2>1. FollowerOK(L, msgs, s, r)
    BY FollowerFacts
  <2>2. CommitMsg(L, msgs, m)
    BY DEF Inv, MsgsOK, MsgOK
  <2> HIDE DEF s
  <2> /\ s \in RepType(msgs) /\ ExecOK(s) /\ SetsOK(s) /\ s.view \in DOMAIN L /\ s.view \in Nat
      /\ s.lastCommitted \in Nat /\ s.lastOp = Len(s.log) /\ Len(s.log) \in Nat
      /\ Has(L, s.log, s.view, Len(s.log)) /\ Started(L, s.view, Len(s.log))
      /\ VotesUpTo(L, msgs, r, s.view, Len(s.log))
    BY <2>1 DEF FollowerOK
  <2> Committed(L, msgs, L[s.view], m.opnum, s.view) /\ m.opnum \in Nat
    BY <2>2 DEF CommitMsg, Committed
  <2>5. m.opnum <= Len(s.log)
    BY <1>3, SMTT(30)
  <2>6. CommitsTo(msgs, s, m.opnum, c)
    BY <2>5, CommitLemma
  <2> HIDE DEF c
  <2> /\ c \in RepType(msgs) /\ ExecOK(c)
      /\ c.log = s.log /\ c.view = s.view /\ c.status = "NORMAL"
      /\ c.prepareOKs = s.prepareOKs /\ c.startViewChanges = s.startViewChanges
      /\ c.doViewChanges = s.doViewChanges
    BY <2>6 DEF CommitsTo
  <2>8. c.lastCommitted = m.opnum
    <3> /\ c.lastCommitted = IF m.opnum <= s.lastCommitted THEN s.lastCommitted ELSE m.opnum
        /\ m.opnum > s.lastCommitted /\ m.opnum \in Nat /\ s.lastCommitted \in Nat
      BY <2>6 DEF CommitsTo
    <3> QED BY SMTT(30)
  <2>9. SetsOK(c)
    BY DEF SetsOK
  <2>10. s.view <= c.view /\ s.lastCommitted <= c.lastCommitted
    BY <2>8, SMTT(30)
  <2>11. OKsUpTo({}, r, c.view, Len(c.log))
    BY DEF OKsUpTo
  <2>12. /\ c.view \in DOMAIN L /\ r # GetLeaderIndex(c.view)
         /\ Has(L, c.log, c.view, Len(c.log)) /\ Started(L, c.view, Len(c.log))
         /\ Committed(L, msgs, L[c.view], c.lastCommitted, c.view)
         /\ VotesUpTo(L, msgs, r, c.view, Len(c.log))
    BY <2>8
  <2> Inv(L, msgs \cup {}, [rep EXCEPT ![r] = c], decided)
    BY <2>9, <2>10, <2>11, <2>12, FollowStep DEF s
  <2> QED BY <1>3
<1> QED BY <1>2, <1>3

\* An entry of a log is a record.
LEMMA EntryIs ==
  ASSUME NEW e \in LogEntry, NEW v, NEW i, NEW q, e.view = v, e.opnum = i, e.request = q
  PROVE  e = [view |-> v, opnum |-> i, request |-> q]
BY DEF LogEntry

\* new is what follows K in H, up to number k.
Rest(new, K, H, k) ==
  /\ new \in Seq(LogEntry) /\ Len(new) = k - Len(K)
  /\ \A i \in 1..(k - Len(K)) : new[i] = H[Len(K) + i]

\* A log and what follows it in the log of its view.
LEMMA ExtendLemma ==
  ASSUME NEW L, NEW v, L[v] \in Seq(LogEntry), NEW K \in Seq(LogEntry), NEW k \in Nat,
         Len(K) <= k, k <= Len(L[v]), Has(L, K, v, Len(K)),
         NEW new, Rest(new, K, L[v], k)
  PROVE  K \o new \in Seq(LogEntry) /\ Len(K \o new) = k /\ Has(L, K \o new, v, k)
<1>1. Len(K) \in Nat /\ Len(L[v]) \in Nat
  BY SeqLen
<1>2. \A j \in 1..Len(K) : K[j] = L[v][j]
  BY DEF Has
<1>3. /\ K \o new \in Seq(LogEntry) /\ Len(K \o new) = k
      /\ \A j \in 1..k : (K \o new)[j] = L[v][j]
  BY <1>1, <1>2, SMTT(30) DEF Rest
<1> k <= k
  BY SMTT(30)
<1> QED BY <1>3 DEF Has

\* p is s with the rest of a batch that ends with number op in its log.
PreparedOK(L, M, s, op, p) ==
  /\ p \in RepType(M) /\ Has(L, p.log, s.view, Len(p.log)) /\ Len(p.log) = op
  /\ p.lastOp = op /\ \A j \in 1..Len(s.log) : p.log[j] = s.log[j]
  /\ p.view = s.view /\ p.status = s.status /\ p.lastCommitted = s.lastCommitted
  /\ p.executed = s.executed
  /\ p.prepareOKs = s.prepareOKs /\ p.startViewChanges = s.startViewChanges
  /\ p.doViewChanges = s.doViewChanges

\* Prepared.
LEMMA PreparedLemma ==
  ASSUME NEW L, NEW M, NEW s, NEW r, FollowerOK(L, M, s, r),
         NEW m, PrepareMsg(L, m), m.view = s.view, m.opnum > s.lastOp,
         m.batchstart <= s.lastOp + 1
  PROVE  PreparedOK(L, M, s, m.opnum, Prepared(s, m))
<1> DEFINE p == Prepared(s, m)
           H == L[s.view]
           new == [i \in 1..(m.opnum - s.lastOp) |->
                     [view |-> m.view, opnum |-> s.lastOp + i,
                      request |-> m.requests[s.lastOp + i - m.batchstart + 1]]]
           K == s.log \o new
           table == {new[i].request : i \in DOMAIN new}
<1> /\ s \in RepType(M) /\ s.view \in DOMAIN L /\ s.lastOp = Len(s.log) /\ Len(s.log) \in Nat
    /\ s.log \in Seq(LogEntry) /\ H \in Seq(LogEntry) /\ Len(H) \in Nat /\ Ledger(L)
    /\ Has(L, s.log, s.view, Len(s.log)) /\ Started(L, s.view, Len(s.log))
  BY DEF FollowerOK
<1>2. /\ m.opnum \in 0..Len(H) /\ m.batchstart \in Nat \ {0}
      /\ \A i \in m.batchstart..m.opnum :
           m.requests[i - m.batchstart + 1] = H[i].request
  BY DEF PrepareMsg
<1> HIDE DEF H
<1>3. m.opnum \in Nat /\ m.opnum <= Len(H) /\ Len(s.log) <= m.opnum
  BY <1>2, SMTT(30)
<1>4. ASSUME NEW i \in 1..(m.opnum - s.lastOp)
      PROVE  /\ new[i] = H[Len(s.log) + i] /\ H[Len(s.log) + i] \in LogEntry
             /\ Len(s.log) + i \in 1..m.opnum
  <2> DEFINE j == s.lastOp + i
  <2>1. /\ j \in 1..Len(H) /\ j > Len(s.log) /\ j \in m.batchstart..m.opnum
        /\ Len(s.log) + i \in 1..m.opnum
    BY <1>2, <1>3, SMTT(30)
  <2>2. H[j] \in LogEntry /\ H[j].view = m.view /\ H[j].opnum = j
    <3> HIDE DEF j
    <3>1. H[j] \in LogEntry
      BY <2>1, SeqLen
    <3>2. H[j].view = m.view
      BY <2>1 DEF Started, H
    <3> H[j].opnum = j
      BY <2>1, LedgerFacts DEF H
    <3> QED BY <3>1, <3>2
  <2>3. m.requests[j - m.batchstart + 1] = H[j].request
    BY <1>2, <2>1
  <2>4. new[i] = [view |-> m.view, opnum |-> j, request |-> m.requests[j - m.batchstart + 1]]
    <3>1. new[i] = [view |-> m.view, opnum |-> s.lastOp + i,
                    request |-> m.requests[s.lastOp + i - m.batchstart + 1]]
      OBVIOUS
    <3>2. s.lastOp + i - m.batchstart + 1 = j - m.batchstart + 1
      BY <1>2, SMTT(30)
    <3> HIDE DEF new
    <3> QED BY <3>1, <3>2
  <2> HIDE DEF j, new
  <2> H[j] = [view |-> m.view, opnum |-> j, request |-> m.requests[j - m.batchstart + 1]]
    BY <2>2, <2>3, EntryIs
  <2> QED BY <2>1, <2>2, <2>4 DEF j
<1>5. DOMAIN new = 1..(m.opnum - s.lastOp)
  OBVIOUS
<1>6. Rest(new, s.log, H, m.opnum)
  <2>1. new = [i \in 1..(m.opnum - s.lastOp) |-> new[i]]
    OBVIOUS
  <2> HIDE DEF new
  <2>2. m.opnum - s.lastOp \in Nat
    BY <1>3, SMTT(30)
  <2>3. \A i \in 1..(m.opnum - s.lastOp) : new[i] \in LogEntry
    BY <1>4
  <2> new \in Seq(LogEntry) /\ Len(new) = m.opnum - s.lastOp
    BY <2>1, <2>2, <2>3, SMTT(30)
  <2> QED BY <1>4 DEF Rest
<1>7. p = [[s EXCEPT !.clientTable = @ \cup table] EXCEPT !.log = @ \o new, !.lastOp = m.opnum]
  BY DEF Prepared, UpdateClientTable
<1> HIDE DEF new, p
<1>8. table \subseteq Client
  <2>1. ASSUME NEW i \in DOMAIN new PROVE new[i].request \in Client
    <3> new[i] \in LogEntry
      BY <1>4, <1>5
    <3> QED BY DEF LogEntry
  <2> QED BY <2>1
<1>9. /\ K \in Seq(LogEntry) /\ Len(K) = m.opnum /\ \A j \in 1..m.opnum : K[j] = H[j]
  <2> s.log \o new \in Seq(LogEntry) /\ Len(s.log \o new) = m.opnum
       /\ Has(L, s.log \o new, s.view, m.opnum)
    BY <1>3, <1>6, ExtendLemma DEF H
  <2> QED BY DEF Has, H
<1> HIDE DEF table
<1>10. /\ p \in RepType(M) /\ p.log = K /\ p.lastOp = m.opnum
       /\ p.view = s.view /\ p.status = s.status /\ p.lastCommitted = s.lastCommitted
       /\ p.executed = s.executed
       /\ p.prepareOKs = s.prepareOKs /\ p.startViewChanges = s.startViewChanges
       /\ p.doViewChanges = s.doViewChanges
  <2>1. p = [s EXCEPT !.clientTable = s.clientTable \cup table, !.log = K, !.lastOp = m.opnum]
    BY <1>7 DEF RepType
  <2> HIDE DEF K
  <2> QED BY <1>3, <1>8, <1>9, <2>1 DEF RepType
<1> HIDE DEF K
<1>11. Has(L, K, s.view, Len(K))
  <2> Len(K) <= Len(K) /\ Len(K) <= Len(H)
    BY <1>3, <1>9, SMTT(30)
  <2> QED BY <1>9 DEF Has, H
<1>12. \A j \in 1..Len(s.log) : K[j] = s.log[j]
  <2> \A j \in 1..Len(s.log) : j \in 1..m.opnum
    BY <1>3, SMTT(30)
  <2> QED BY <1>9 DEF Has, H
<1> PreparedOK(L, M, s, m.opnum, p)
  BY <1>9, <1>10, <1>11, <1>12 DEF PreparedOK
<1> QED BY DEF p

\* A longer prefix of the log of a view leaves less to come.
LEMMA StartedMore ==
  ASSUME NEW L, Ledger(L), NEW v \in DOMAIN L, NEW k \in Nat, Started(L, v, k),
         NEW k2 \in Nat, k <= k2
  PROVE  Started(L, v, k2)
<1>1. Len(L[v]) \in Nat
  BY LedgerFacts
<1> \A i \in 1..Len(L[v]) : i > k2 => i > k
  BY <1>1, SMTT(30)
<1> QED BY DEF Started

\* Votes up to k are votes up to any later number.
LEMMA VotesMore ==
  ASSUME NEW L, NEW M, NEW r, NEW w, NEW k \in Nat, VotesUpTo(L, M, r, w, k),
         NEW k2 \in Nat, k <= k2
  PROVE  VotesUpTo(L, M, r, w, k2)
<1> \A i \in Nat : i <= k => i <= k2
  BY SMTT(30)
<1> QED BY DEF VotesUpTo

\* HandlePrepare.
LEMMA HandlePrepareStep ==
  ASSUME NEW L, Inv(L, msgs, rep, decided), NEW r \in Replica,
         NEW m \in Received("PREPARE"), HandlePrepare(r, m)
  PROVE  Inv(L, msgs', rep', decided')
<1> DEFINE s == rep[r]
           p == Prepared(s, m)
           ok == {PrepareOK(m.view, m.opnum, r)}
<1> /\ m \in msgs /\ m.type = "PREPARE" /\ s.status = "NORMAL" /\ r # GetLeaderIndex(m.view)
    /\ decided' = decided
    /\ \/ rep' = [rep EXCEPT ![r] = s] /\ msgs' = msgs \cup RequestStateTransfer(s, r)
       \/ /\ m.view = s.view /\ m.opnum <= s.lastOp
          /\ rep' = [rep EXCEPT ![r] = s] /\ msgs' = msgs \cup ok
       \/ /\ m.view = s.view /\ m.opnum > s.lastOp /\ m.batchstart <= s.lastOp + 1
          /\ rep' = [rep EXCEPT ![r] = p] /\ msgs' = msgs \cup ok
  BY DEF HandlePrepare, Received, Step, NoHistory
<1>2. FollowerOK(L, msgs, s, r) /\ PrepareMsg(L, m)
  BY FollowerFacts DEF Inv, MsgsOK, MsgOK
<1>3. rep[r] = s
  OBVIOUS
<1> HIDE DEF s
<1>4. /\ Ledger(L) /\ s \in RepType(msgs) /\ ExecOK(s) /\ SetsOK(s)
      /\ s.view \in DOMAIN L /\ s.view \in Nat /\ s.lastCommitted \in Nat
      /\ s.lastOp = Len(s.log) /\ Len(s.log) \in Nat /\ s.lastCommitted <= Len(s.log)
      /\ Has(L, s.log, s.view, Len(s.log)) /\ Started(L, s.view, Len(s.log))
      /\ Committed(L, msgs, L[s.view], s.lastCommitted, s.view)
      /\ VotesUpTo(L, msgs, r, s.view, Len(s.log))
  BY <1>2 DEF FollowerOK
<1>5. /\ m.view = s.view => m.opnum \in Nat
      /\ s.view <= s.view /\ s.lastCommitted <= s.lastCommitted
  <2>1. m.view \in DOMAIN L /\ m.opnum \in 0..Len(L[m.view])
    BY <1>2 DEF PrepareMsg
  <2> Len(L[m.view]) \in Nat
    BY <1>4, <2>1, LedgerFacts
  <2> QED BY <1>4, <2>1, SMTT(30)
<1>6. CASE rep' = [rep EXCEPT ![r] = s] /\ msgs' = msgs \cup RequestStateTransfer(s, r)
  BY <1>3, <1>6, AskStep
<1>7. CASE /\ m.view = s.view /\ m.opnum <= s.lastOp
           /\ rep' = [rep EXCEPT ![r] = s] /\ msgs' = msgs \cup ok
  <2>1. m.opnum \in 0..Len(s.log)
    BY <1>4, <1>5, <1>7, SMTT(30)
  <2>2. OKsUpTo(ok, r, s.view, Len(s.log))
    BY <1>7, <2>1 DEF OKsUpTo
  <2> HIDE DEF ok
  <2> Inv(L, msgs \cup ok, [rep EXCEPT ![r] = s], decided)
    BY <1>3, <1>4, <1>5, <1>7, <2>2, FollowStep
  <2> QED BY <1>7
<1>8. CASE /\ m.view = s.view /\ m.opnum > s.lastOp /\ m.batchstart <= s.lastOp + 1
           /\ rep' = [rep EXCEPT ![r] = p] /\ msgs' = msgs \cup ok
  <2>1. PreparedOK(L, msgs, s, m.opnum, p)
    <3> m.view = s.view /\ m.opnum > s.lastOp /\ m.batchstart <= s.lastOp + 1
      BY <1>8
    <3> QED BY <1>2, PreparedLemma
  <2> HIDE DEF p
  <2>2. /\ p \in RepType(msgs) /\ Has(L, p.log, p.view, Len(p.log)) /\ Len(p.log) = m.opnum
        /\ p.lastOp = m.opnum /\ \A j \in 1..Len(s.log) : p.log[j] = s.log[j]
        /\ p.view = s.view /\ p.status = "NORMAL" /\ p.lastCommitted = s.lastCommitted
        /\ p.executed = s.executed
        /\ p.prepareOKs = s.prepareOKs /\ p.startViewChanges = s.startViewChanges
        /\ p.doViewChanges = s.doViewChanges
    BY <2>1 DEF PreparedOK
  <2>3. /\ m.opnum \in 0..m.opnum /\ Len(s.log) <= m.opnum /\ m.opnum \in Nat
        /\ s.lastCommitted <= m.opnum /\ \A i \in 1..s.lastCommitted : i \in 1..Len(s.log)
    BY <1>4, <1>5, <1>8, SMTT(30)
  <2>4. ExecOK(p) /\ SetsOK(p)
    BY <1>4, <2>2, <2>3 DEF ExecOK, SetsOK
  <2>5. Started(L, p.view, Len(p.log))
    BY <1>4, <2>2, <2>3, StartedMore
  <2>6. VotesUpTo(L, msgs, r, p.view, Len(p.log))
    BY <1>4, <2>2, <2>3, VotesMore
  <2>7. OKsUpTo(ok, r, p.view, Len(p.log))
    BY <1>8, <2>2, <2>3 DEF OKsUpTo
  <2>8. p.view \in DOMAIN L /\ r # GetLeaderIndex(p.view)
         /\ Committed(L, msgs, L[p.view], p.lastCommitted, p.view)
         /\ rep[r].view <= p.view /\ rep[r].lastCommitted <= p.lastCommitted
    BY <1>3, <1>4, <1>5, <1>8, <2>2
  <2> HIDE DEF ok
  <2> Inv(L, msgs \cup ok, [rep EXCEPT ![r] = p], decided)
    BY <2>2, <2>4, <2>5, <2>6, <2>7, <2>8, FollowStep
  <2> QED BY <1>8
<1> QED BY <1>6, <1>7, <1>8
=============================================================================
