------------------------------ MODULE VRProofs ------------------------------
(***************************************************************************)
(* Viewstamped replication, for any number of replicas, clients, views,    *)
(* operations and transfers: state transfers and view changes preserve the *)
(* invariant, and the four properties of VRReplica hold up to the first    *)
(* replica that goes astray and the first entry committed late.            *)
(***************************************************************************)
EXTENDS VRLemmas

\* Most leaves are first-order; the ones that need arithmetic or records say SMT.
USE ZenonT(60)

-----------------------------------------------------------------------------
(***************************************************************************)
(* State transfer.                                                         *)
(***************************************************************************)
\* Behind.
LEMMA BehindStep ==
  ASSUME NEW L, Inv(L, msgs, rep, decided), NEW r \in Replica, NEW m, Behind(r, m)
  PROVE  Inv(L, msgs', rep', decided')
BY AskStep DEF Behind, Step, NoHistory

\* The entries from a on of a log that is part of the log of view v.
LEMMA SliceOf ==
  ASSUME NEW L, NEW K, NEW v, Len(K) \in Nat, Len(L[v]) \in Nat, Has(L, K, v, Len(K)),
         NEW entries, NEW a, Slice(entries, K, a, Len(K))
  PROVE  Slice(entries, L[v], a, Len(K))
<1>1. Len(K) \in 0..Len(L[v])
  BY SMTT(30) DEF Has
<1>2. ASSUME NEW i \in 1..Len(entries)
      PROVE  a + i - 1 \in 1..Len(K)
  <2> a \in Nat \ {0} /\ Len(entries) = IF a <= Len(K) THEN Len(K) - a + 1 ELSE 0
    BY DEF Slice
  <2> QED BY SMTT(30)
<1> QED BY <1>1, <1>2 DEF Slice, Has

\* HandleRequestStateTransfer.
LEMMA HandleRequestStateTransferStep ==
  ASSUME NEW L, Inv(L, msgs, rep, decided), NEW r \in Replica,
         NEW m \in Received("REQUESTSTATETRANSFER"), HandleRequestStateTransfer(r, m)
  PROVE  Inv(L, msgs', rep', decided')
<1> DEFINE s == rep[r]
           x == [type |-> "STATETRANSFER", view |-> s.view,
                 opnum |-> s.lastCommitted, to |-> m.replicaidx,
                 entries |-> Dump(s.log, m.opnum + 1)]
           out == {x}
           M2 == msgs \cup out
<1> /\ m \in msgs /\ m.type = "REQUESTSTATETRANSFER" /\ s.status = "NORMAL"
    /\ rep' = [rep EXCEPT ![r] = s] /\ msgs' = M2 /\ decided' = decided
  BY DEF HandleRequestStateTransfer, Received, Step, NoHistory
<1>2. RequestMsg(rep, m)
  BY DEF Inv, MsgsOK, MsgOK
<1> RepOK(L, msgs, s, r) /\ Ledger(L)
  BY DEF Inv
<1> /\ s \in RepType(msgs) /\ Fits(L, s.log) /\ ExecOK(s)
    /\ Committed(L, msgs, s.log, s.lastCommitted, s.view)
    /\ s.view \in DOMAIN L
    /\ Has(L, s.log, s.view, Len(s.log)) /\ Started(L, s.view, Len(s.log))
  <2> HIDE DEF s
  <2> QED BY DEF RepOK, PlaceOK
<1> /\ s.view \in Nat /\ s.lastCommitted \in Nat /\ Len(s.log) \in Nat
    /\ Len(L[s.view]) \in Nat /\ s.lastCommitted <= Len(s.log) /\ Numbered(s.log)
  <2>1. s.log \in Seq(LogEntry)
    BY DEF Fits
  <2>2. Len(s.log) \in Nat /\ Len(L[s.view]) \in Nat /\ s.view \in Nat
    BY <2>1, SeqLen, LedgerFacts
  <2> HIDE DEF s
  <2> QED BY <2>2 DEF Fits, Numbered, ExecOK, RepType
<1> m.opnum \in Nat /\ m.replicaidx \in Replica /\ m.opnum + 1 <= rep[m.replicaidx].lastCommitted + 1
    /\ m.opnum + 1 \in Nat /\ m.opnum + 1 # 0
  <2>1. m.replicaidx \in Replica /\ m.opnum \in 0..rep[m.replicaidx].lastCommitted
    BY <1>2 DEF RequestMsg
  <2> rep[m.replicaidx].lastCommitted \in Nat
    <3> rep[m.replicaidx] \in RepType(msgs)
      BY <2>1 DEF Inv
    <3> QED BY DEF RepType
  <2> QED BY <2>1, SMTT(30)
<1>7. Committed(L, M2, L[s.view], s.lastCommitted, s.view)
  <2>1. Committed(L, msgs, L[s.view], s.lastCommitted, s.view)
    <3>1. s.lastCommitted <= Len(L[s.view]) /\ \A j \in 1..s.lastCommitted : L[s.view][j] = s.log[j]
      BY SMTT(30) DEF Has
    <3> HIDE DEF s
    <3> QED BY <3>1, CommittedLog
  <2>2. msgs \subseteq M2
    OBVIOUS
  <2> HIDE DEF M2, s
  <2> QED BY <2>1, <2>2, CommittedMore
<1>8. Slice(x.entries, L[s.view], m.opnum + 1, Len(s.log))
  <2>1. Slice(Dump(s.log, m.opnum + 1), s.log,
              IF m.opnum + 1 = 0 THEN 1 ELSE m.opnum + 1, Len(s.log))
    BY DumpLemma
  <2>2. Slice(x.entries, s.log, m.opnum + 1, Len(s.log))
    BY <2>1
  <2> HIDE DEF x, s
  <2> QED BY <2>2, SliceOf
<1>9. x.type = "STATETRANSFER" /\ x.view = s.view /\ x.opnum = s.lastCommitted /\ x.to = m.replicaidx
  OBVIOUS
<1> HIDE DEF x, M2
<1>10. TransferMsg(L, M2, rep, x)
  <2> HIDE DEF s
  <2> QED BY <1>7, <1>8, <1>9 DEF TransferMsg
<1>11. SentOK(L, M2, rep, out) /\ \A y \in out : y.type # "PREPAREOK"
  BY <1>9, <1>10 DEF SentOK, MsgOK
<1> HIDE DEF out
<1> Inv(L, M2, [rep EXCEPT ![r] = rep[r]], decided)
  BY <1>11, SendStep DEF M2
<1> QED OBVIOUS

\* A replica has entered a view with a part of its leader's log: the end of
\* HandleStateTransfer and of HandleStartView.
LEMMA AdoptStep ==
  ASSUME NEW L, NEW M, NEW R, NEW D, NEW r \in Replica, Inv(L, M, R, D),
         NEW e, e \in RepType(M), ExecOK(e), SetsOK(e), e.status = "NORMAL",
         e.view \in DOMAIN L, r # GetLeaderIndex(e.view),
         R[r].view <= e.view, R[r].lastCommitted = e.lastCommitted,
         Has(L, e.log, e.view, Len(e.log)), Started(L, e.view, Len(e.log)),
         VotesUpTo(L, M, r, e.view, Len(e.log)),
         Committed(L, M, L[e.view], e.lastCommitted, e.view),
         NEW op, Committed(L, M, L[e.view], op, e.view), op <= Len(e.log),
         NEW o \in Nat
  PROVE  LET d == CommitUpTo(e, op)
         IN  /\ d.status = "NORMAL"
             /\ Inv(L, M \cup PrepareOKs(d, r, o), [R EXCEPT ![r] = AfterPrepareOKs(d, o)], D)
<1> DEFINE d == CommitUpTo(e, op)
           z == AfterPrepareOKs(d, o)
           out == PrepareOKs(d, r, o)
<1>1. op \in Nat
  BY DEF Committed
<1>2. CommitsTo(M, e, op, d)
  BY <1>1, CommitLemma
<1> HIDE DEF d
<1> /\ d \in RepType(M) /\ ExecOK(d) /\ d.status = "NORMAL"
    /\ d.lastCommitted = IF op <= e.lastCommitted THEN e.lastCommitted ELSE op
    /\ d.log = e.log /\ d.view = e.view
    /\ d.prepareOKs = e.prepareOKs /\ d.startViewChanges = e.startViewChanges
    /\ d.doViewChanges = e.doViewChanges
  BY <1>2 DEF CommitsTo
<1>4. SetsOK(d)
  BY DEF SetsOK
<1>5. LET a == AfterPrepareOKs(d, o)
      IN  /\ a \in RepType(M) /\ ExecOK(a) /\ SetsOK(a)
          /\ a.view = d.view /\ a.status = d.status
          /\ a.log = d.log /\ a.lastCommitted = d.lastCommitted
          /\ OKsUpTo(PrepareOKs(d, r, o), r, d.view, Len(d.log))
  BY <1>4, AfterOKsLemma
<1> /\ z \in RepType(M) /\ ExecOK(z) /\ SetsOK(z) /\ z.status = "NORMAL"
    /\ z.view = e.view /\ z.log = e.log /\ z.lastCommitted = d.lastCommitted
    /\ OKsUpTo(out, r, z.view, Len(z.log))
  BY <1>5
<1> HIDE DEF z, out
<1>7. e.lastCommitted \in Nat
  BY DEF RepType
<1>8. R[r].lastCommitted <= z.lastCommitted
  <2> z.lastCommitted = IF op <= e.lastCommitted THEN e.lastCommitted ELSE op
    OBVIOUS
  <2> QED BY <1>1, <1>7, SMTT(30)
<1>9. Committed(L, M, L[z.view], z.lastCommitted, z.view)
  OBVIOUS
<1>10. /\ z.view \in DOMAIN L /\ r # GetLeaderIndex(z.view) /\ R[r].view <= z.view
       /\ Has(L, z.log, z.view, Len(z.log)) /\ Started(L, z.view, Len(z.log))
       /\ VotesUpTo(L, M, r, z.view, Len(z.log))
  OBVIOUS
<1> Inv(L, M \cup out, [R EXCEPT ![r] = z], D)
  BY <1>8, <1>9, <1>10, FollowStep
<1> QED BY DEF d, z, out

\* A log agrees with that of a later view on what is committed, and wherever it
\* has the same viewstamp.
Compatible(L, M, s, w) ==
  /\ \A j \in 1..Len(s.log) :
       /\ j \in 1..Len(L[w])
       /\ j <= s.lastCommitted \/ s.log[j].view = L[w][j].view
       => s.log[j] = L[w][j]
  /\ Has(L, s.log, w, s.lastCommitted) /\ Committed(L, M, L[w], s.lastCommitted, w)
  /\ Numbered(s.log) /\ Numbered(L[w])

\* The log of a replica agrees with that of any view it is not beyond.
LEMMA AgreesLemma ==
  ASSUME Counting, NEW L, NEW M, NEW R, NEW D, NEW r \in Replica, Inv(L, M, R, D),
         NEW w \in DOMAIN L, R[r].view <= w
  PROVE  Compatible(L, M, R[r], w)
<1> DEFINE s == R[r]
<1> RepOK(L, M, s, r) /\ Ledger(L) /\ QuorumsAt(L, M, R)
  BY DEF Inv
<1> /\ Fits(L, s.log) /\ Committed(L, M, s.log, s.lastCommitted, s.view)
    /\ s.view \in Nat /\ s.lastCommitted \in Nat
  <2> HIDE DEF s
  <2> QED BY DEF RepOK, RepType
<1> /\ Numbered(s.log) /\ Numbered(L[w]) /\ Len(s.log) \in Nat /\ Len(L[w]) \in Nat
    /\ Fits(L, L[w])
  <2>1. Fits(L, L[w])
    BY DEF Ledger
  <2> Len(s.log) \in Nat /\ Len(L[w]) \in Nat
    BY FitsFacts, LedgerFacts
  <2> QED BY <2>1 DEF Fits, Numbered
<1>4. /\ s.lastCommitted \in Nat /\ Has(L, s.log, w, s.lastCommitted)
      /\ Committed(L, M, L[w], s.lastCommitted, w)
  BY CommittedStays
<1>5. ASSUME NEW j \in 1..Len(s.log), j \in 1..Len(L[w]),
             j <= s.lastCommitted \/ s.log[j].view = L[w][j].view
      PROVE  s.log[j] = L[w][j]
  <2>1. CASE j <= s.lastCommitted
    <3> j \in 1..s.lastCommitted
      BY <2>1, SMTT(30)
    <3> QED BY <1>4 DEF Has
  <2>2. CASE s.log[j].view = L[w][j].view
    <3>1. \A i \in 1..j : s.log[i] = L[w][i]
      BY <1>5, <2>2, LogsMatch, SMTT(30)
    <3> j \in 1..j
      BY SMTT(30)
    <3> QED BY <3>1
  <2> QED BY <1>5, <2>1, <2>2
<1> QED BY <1>4, <1>5 DEF Compatible

\* CommitUpTo leaves the log alone.
LEMMA CommitLog ==
  ASSUME NEW M, NEW s \in RepType(M), NEW op
  PROVE  CommitUpTo(s, op).log = s.log
BY DEF CommitUpTo, RepType

\* HandleStateTransfer, unless the replica goes astray.
LEMMA HandleStateTransferStep ==
  ASSUME Counting, NEW L, Inv(L, msgs, rep, decided), NEW r \in Replica,
         NEW m \in Received("STATETRANSFER"), HandleStateTransfer(r, m), ~stray'
  PROVE  Inv(L, msgs', rep', decided')
<1> DEFINE s == rep[r]
           w == m.view
           H == L[w]
           x == InstallEntries(s, m.entries)
           entered == IF m.view > s.view THEN EnterView(x.s, m.view) ELSE x.s
           done == CommitUpTo(entered, m.opnum)
           over == done.status = "PANIC"
           end == IF m.entries = <<>> THEN s.lastCommitted ELSE m.entries[Len(m.entries)].opnum
<1>1. /\ m \in msgs /\ m.type = "STATETRANSFER" /\ decided' = decided
      /\ s.status # "PANIC" /\ m.to = r /\ w >= s.view
      /\ rep' = [rep EXCEPT ![r] = IF over THEN done ELSE AfterPrepareOKs(done, x.oldLastOp)]
      /\ msgs' = msgs \cup (IF over THEN {} ELSE PrepareOKs(done, r, x.oldLastOp))
      /\ ~(w > s.view /\ Len(done.log) > end)
      /\ ~(w = s.view /\ (AmLeader(s, r) \/ s.status = "VIEW_CHANGE"))
  BY DEF HandleStateTransfer, Received, Step
<1>2. TransferMsg(L, msgs, rep, m)
  BY <1>1 DEF Inv, MsgsOK, MsgOK
<1>3. /\ w \in DOMAIN L /\ Committed(L, msgs, H, m.opnum, w)
      /\ \E a, k \in Nat :
           /\ Slice(m.entries, H, a, k) /\ Started(L, w, k)
           /\ a <= s.lastCommitted + 1 /\ m.opnum <= k
  BY <1>1, <1>2 DEF TransferMsg
<1>4. RepOK(L, msgs, s, r) /\ Ledger(L)
  BY DEF Inv
<1> /\ s \in RepType(msgs) /\ ExecOK(s) /\ SetsOK(s) /\ VoteOK(L, msgs, s, r)
    /\ s.status \in Status /\ s.view \in Nat /\ s.lastCommitted \in Nat
    /\ s.log \in Seq(LogEntry)
  <2> HIDE DEF s
  <2> QED BY <1>4 DEF RepOK, RepType
<1>6. /\ Len(s.log) \in Nat /\ s.lastOp = Len(s.log) /\ s.lastCommitted <= Len(s.log)
      /\ w \in Nat /\ Len(H) \in Nat /\ s.view <= w
  <2>1. w \in Nat /\ Len(H) \in Nat
    BY <1>3, <1>4, LedgerFacts
  <2>2. Len(s.log) \in Nat
    BY SeqLen
  <2>3. s.lastOp = Len(s.log) /\ s.lastCommitted <= Len(s.log)
    BY DEF ExecOK
  <2>4. w >= s.view /\ s.view \in Nat
    BY <1>1
  <2> s.view <= w
    BY <2>1, <2>4, SMTT(30)
  <2> QED BY <2>1, <2>2, <2>3
<1>7. /\ \A j \in 1..Len(s.log) :
              /\ j \in 1..Len(H)
              /\ j <= s.lastCommitted \/ s.log[j].view = H[j].view
              => s.log[j] = H[j]
      /\ Has(L, s.log, w, s.lastCommitted) /\ Committed(L, msgs, H, s.lastCommitted, w)
      /\ Numbered(s.log) /\ Numbered(H)
  <2> Compatible(L, msgs, s, w)
    BY <1>3, <1>6, AgreesLemma
  <2> QED BY DEF Compatible
<1>8. w = s.view => s.status = "NORMAL" /\ r # GetLeaderIndex(w)
  BY <1>1 DEF Status, AmLeader
<1>9. r # GetLeaderIndex(w)
  <2>1. rep[GetLeaderIndex(w)].view >= w
    BY <1>3 DEF Inv
  <2> r = GetLeaderIndex(w) => w = s.view
    <3> s.view \in Nat /\ w \in Nat /\ s.view <= w
      BY <1>6
    <3> QED BY <2>1, SMTT(30)
  <2> QED BY <1>8
<1>10. rep[r] = s
  OBVIOUS
<1>11. w = s.view => /\ Has(L, s.log, w, Len(s.log)) /\ Started(L, w, Len(s.log))
                     /\ VotesUpTo(L, msgs, r, w, Len(s.log))
  BY <1>4, <1>8, FollowerVotes, <1>3 DEF RepOK, PlaceOK
<1>12. w # s.view => VotesUpTo(L, msgs, r, w, 0)
  <2>1. ASSUME w # s.view, NEW i \in Nat, Voted(L, msgs, r, w, i) PROVE FALSE
    <3> w <= s.view
      BY <1>3, <2>1 DEF VoteOK
    <3> QED BY <1>6, <2>1, SMTT(30)
  <2> QED BY <2>1 DEF VotesUpTo
<1> HIDE DEF s, w, H
<1>13. PICK a \in Nat : \E k \in Nat :
           /\ Slice(m.entries, H, a, k) /\ Started(L, w, k)
           /\ a <= s.lastCommitted + 1 /\ m.opnum <= k
  BY <1>3
<1>14. PICK k \in Nat :
           /\ Slice(m.entries, H, a, k) /\ Started(L, w, k)
           /\ a <= s.lastCommitted + 1 /\ m.opnum <= k
  BY <1>13
<1>15. /\ a \in Nat \ {0} /\ k <= Len(H) /\ m.entries \in Seq(LogEntry) /\ Len(m.entries) \in Nat
       /\ Len(m.entries) = IF a <= k THEN k - a + 1 ELSE 0
       /\ \A i \in 1..Len(m.entries) : m.entries[i].opnum = a + i - 1
  <2>1. \A i \in 1..Len(m.entries) : m.entries[i].opnum = a + i - 1
    BY <1>7, <1>14, SliceNumbers, SMTT(30)
  <2> k <= Len(H)
    BY <1>6, <1>14, SMTT(30) DEF Slice
  <2> QED BY <1>14, <2>1, SeqLen DEF Slice
<1>16. Agrees(s, H, k)
  <2> \A j \in 1..Len(s.log) : j <= k => j \in 1..Len(H)
    BY <1>6, <1>15, SMTT(30)
  <2> QED BY <1>7 DEF Agrees
<1>17. PICK K : \E o \in Nat :
           /\ Partly(s, H, a, k, K, Len(m.entries)) /\ x = [s |-> With(s, K), oldLastOp |-> o]
  <2>1. /\ s \in RepType(msgs) /\ Numbered(s.log) /\ s.lastCommitted <= Len(s.log)
        /\ s.lastOp = Len(s.log) /\ Numbered(H) /\ Slice(m.entries, H, a, k)
        /\ a <= s.lastCommitted + 1
    BY <1>6, <1>7, <1>14
  <2> Installs(s, H, a, k, m.entries, x)
    <3> HIDE DEF s, H
    <3> QED BY <1>16, <2>1, EntriesLemma
  <2> QED BY DEF Installs
<1>18. PICK o \in Nat :
           /\ Partly(s, H, a, k, K, Len(m.entries)) /\ x = [s |-> With(s, K), oldLastOp |-> o]
  BY <1>17
<1> HIDE DEF x
<1>19. x.s = With(s, K) /\ x.oldLastOp = o
  BY <1>18
<1>20. /\ K \in Seq(LogEntry) /\ Len(K) \in Nat /\ s.lastCommitted <= Len(K)
       /\ a - 1 + Len(m.entries) <= Len(K)
       /\ \A j \in 1..(a - 1 + Len(m.entries)) : j <= k => K[j] = H[j]
       /\ Len(K) > a - 1 + Len(m.entries) => K = s.log
       /\ Len(m.entries) = 0 => K = s.log
       /\ Len(K) >= Len(s.log) \/ \E j \in 1..Len(s.log) : j <= k /\ s.log[j].view # H[j].view
  <2> K \in Seq(LogEntry)
    BY <1>18 DEF Partly, Numbered
  <2> QED BY <1>18, SeqLen DEF Partly
<1>21. /\ entered \in RepType(msgs) /\ SetsOK(entered)
       /\ entered.view = w /\ entered.status = "NORMAL"
       /\ entered.log = K /\ entered.lastOp = Len(K) /\ entered.lastCommitted = s.lastCommitted
       /\ entered.executed = s.executed
  <2> DEFINE y == With(s, K)
  <2>1. /\ y \in RepType(msgs) /\ y.log = K /\ y.lastOp = Len(K)
        /\ y.status = s.status /\ y.view = s.view
        /\ y.lastCommitted = s.lastCommitted /\ y.executed = s.executed
        /\ y.prepareOKs = s.prepareOKs
        /\ y.startViewChanges = s.startViewChanges
        /\ y.doViewChanges = s.doViewChanges
    <3> s \in RepType(msgs) /\ K \in Seq(LogEntry)
      BY <1>20
    <3> QED BY WithFields
  <2> HIDE DEF y
  <2>2. x.s = y
    BY <1>19 DEF y
  <2>3. CASE w > s.view
    <3>1. entered = EnterView(y, w)
      BY <2>2, <2>3 DEF w
    <3>2. LET e == EnterView(y, w)
          IN  /\ e \in RepType(msgs) /\ SetsOK(e)
              /\ e.view = w /\ e.status = "NORMAL"
              /\ e.log = y.log /\ e.lastOp = y.lastOp /\ e.lastCommitted = y.lastCommitted
              /\ e.executed = y.executed /\ e.clientTable = y.clientTable
      BY <1>6, <2>1, EnterLemma
    <3> HIDE DEF entered
    <3> QED BY <2>1, <3>1, <3>2
  <2>4. CASE ~(w > s.view)
    <3>1. entered = y
      BY <2>2, <2>4 DEF w
    <3>2. w = s.view
      BY <1>6, <2>4, SMTT(30)
    <3>3. SetsOK(y)
      BY <2>1 DEF SetsOK
    <3> HIDE DEF entered
    <3> QED BY <1>8, <2>1, <3>1, <3>2, <3>3
  <2> QED BY <2>3, <2>4
<1> HIDE DEF entered
<1>22. done.log = K
  BY <1>21, CommitLog
<1>23. /\ Has(L, K, w, Len(K)) /\ Started(L, w, Len(K)) /\ m.opnum <= Len(K)
       /\ VotesUpTo(L, msgs, r, w, Len(K))
  <2>1. m.opnum \in Nat
    BY <1>3 DEF Committed, H, w
  <2>2. CASE ~(a <= k)
    <3>1. m.entries = <<>> /\ K = s.log
      BY <1>15, <1>20, <2>2, SMTT(30)
    <3>2. k <= s.lastCommitted /\ k <= Len(K) /\ m.opnum <= Len(K)
      BY <1>6, <1>14, <1>15, <2>1, <2>2, <3>1, SMTT(30)
    <3>3. CASE w = s.view
      BY <1>11, <3>1, <3>2, <3>3
    <3>4. CASE w # s.view
      <4>1. w > s.view
        BY <1>6, <3>4, SMTT(30)
      <4>2. ~(Len(K) > s.lastCommitted)
        BY <1>1, <1>22, <3>1, <4>1 DEF s, w
      <4>3. Len(K) = s.lastCommitted /\ 0 <= Len(K)
        BY <1>20, <4>2, SMTT(30)
      <4>4. Has(L, K, w, Len(K))
        BY <1>7, <3>1, <4>3
      <4>5. Started(L, w, Len(K))
        BY <1>3, <1>4, <1>14, <1>20, <3>2, StartedMore DEF w
      <4> VotesUpTo(L, msgs, r, w, Len(K))
        BY <1>12, <1>20, <3>4, <4>3, VotesMore
      <4> QED BY <3>2, <4>4, <4>5
    <3> QED BY <3>3, <3>4
  <2>3. CASE a <= k
    <3>1. /\ a - 1 + Len(m.entries) = k /\ k <= Len(K) /\ m.entries # <<>> /\ m.opnum <= Len(K)
          /\ Len(m.entries) \in 1..Len(m.entries) /\ a + Len(m.entries) - 1 = k
      BY <1>14, <1>15, <1>20, <2>1, <2>3, SMTT(30)
    <3>2. \A j \in 1..k : K[j] = H[j]
      <4> \A j \in 1..k : j <= k
        BY SMTT(30)
      <4> QED BY <1>20, <3>1
    <3>3. ASSUME Len(K) = k PROVE Has(L, K, w, Len(K)) /\ Started(L, w, Len(K))
      <4> k <= k
        BY SMTT(30)
      <4> QED BY <1>14, <1>15, <3>2, <3>3 DEF Has, H
    <3>4. CASE w = s.view
      <4>1. Len(K) >= Len(s.log)
        <5> \A j \in 1..Len(s.log) : s.log[j] = H[j]
          BY <1>11, <3>4 DEF Has, H
        <5> QED BY <1>20
      <4>2. Len(s.log) <= Len(K)
        BY <1>6, <1>20, <4>1, SMTT(30)
      <4>3. VotesUpTo(L, msgs, r, w, Len(K))
        BY <1>6, <1>11, <1>20, <3>4, <4>2, VotesMore
      <4>4. CASE Len(K) > k
        BY <1>11, <1>20, <3>1, <3>4, <4>3, <4>4
      <4>5. CASE ~(Len(K) > k)
        <5> Len(K) = k
          BY <1>20, <3>1, <4>5, SMTT(30)
        <5> QED BY <3>1, <3>3, <4>3
      <4> QED BY <4>4, <4>5
    <3>5. CASE w # s.view
      <4>1. w > s.view /\ 0 <= Len(K)
        BY <1>6, <1>20, <3>5, SMTT(30)
      <4>2. end = k
        <5> m.entries[Len(m.entries)].opnum = a + Len(m.entries) - 1
          BY <1>15, <3>1
        <5> QED BY <3>1
      <4>3. ~(Len(K) > k)
        BY <1>1, <1>22, <4>1, <4>2 DEF s, w
      <4>4. Len(K) = k
        BY <1>20, <3>1, <4>3, SMTT(30)
      <4> VotesUpTo(L, msgs, r, w, Len(K))
        BY <1>12, <1>20, <3>5, <4>1, VotesMore
      <4> QED BY <3>1, <3>3, <4>4
    <3> QED BY <3>4, <3>5
  <2> QED BY <2>2, <2>3
<1>24. ExecOK(entered)
  <2>1. ASSUME NEW i \in 1..s.lastCommitted PROVE K[i] = s.log[i]
    <3>1. s.log[i] = H[i]
      BY <1>7 DEF Has, H
    <3>2. i \in 1..Len(K)
      BY <1>20, SMTT(30)
    <3> K[i] = H[i]
      BY <1>23, <3>2 DEF Has, H
    <3> QED BY <3>1
  <2> QED BY <1>20, <1>21, <2>1 DEF ExecOK
<1>25. LET d == CommitUpTo(entered, m.opnum)
       IN  /\ d.status = "NORMAL"
           /\ Inv(L, msgs \cup PrepareOKs(d, r, o), [rep EXCEPT ![r] = AfterPrepareOKs(d, o)], decided)
  <2> /\ entered.view \in DOMAIN L /\ r # GetLeaderIndex(entered.view)
      /\ rep[r].view <= entered.view /\ rep[r].lastCommitted = entered.lastCommitted
      /\ Has(L, entered.log, entered.view, Len(entered.log))
      /\ Started(L, entered.view, Len(entered.log))
      /\ VotesUpTo(L, msgs, r, entered.view, Len(entered.log))
      /\ Committed(L, msgs, L[entered.view], entered.lastCommitted, entered.view)
      /\ Committed(L, msgs, L[entered.view], m.opnum, entered.view)
      /\ m.opnum <= Len(entered.log)
    BY <1>3, <1>6, <1>7, <1>9, <1>10, <1>21, <1>23 DEF H
  <2> QED BY <1>21, <1>24, AdoptStep
<1>26. ~over /\ Inv(L, msgs \cup PrepareOKs(done, r, o), [rep EXCEPT ![r] = AfterPrepareOKs(done, o)], decided)
  BY <1>25
<1> HIDE DEF done
<1> QED BY <1>1, <1>19, <1>26

-----------------------------------------------------------------------------
(***************************************************************************)
(* STARTVIEW.                                                              *)
(***************************************************************************)
\* What has the first i entries of view w, and is of earlier views, is part of
\* what w started with.
LEMMA EarlierPart ==
  ASSUME NEW L, Ledger(L), NEW w \in DOMAIN L, NEW k \in Nat, Started(L, w, k),
         NEW K, Len(K) \in Nat, \A i \in 1..Len(K) : K[i].view \in Nat /\ K[i].view < w,
         NEW i \in Nat, Has(L, K, w, i)
  PROVE  i <= k
<1>1. w \in Nat /\ Len(L[w]) \in Nat
  BY LedgerFacts
<1>2. SUFFICES ASSUME ~(i <= k) PROVE FALSE
  OBVIOUS
<1>3. i <= Len(K) /\ i <= Len(L[w]) /\ \A j \in 1..i : K[j] = L[w][j]
  BY DEF Has
<1>4. i \in 1..Len(K) /\ i \in 1..Len(L[w]) /\ i \in 1..i /\ i > k
  BY <1>1, <1>2, <1>3, SMTT(30)
<1>5. L[w][i].view = w /\ K[i] = L[w][i]
  BY <1>3, <1>4 DEF Started
<1> w < w
  BY <1>4, <1>5
<1> QED BY <1>1, SMTT(30)

\* The log of a replica that is not in view w yet is of earlier views.
LEMMA AboutViews ==
  ASSUME NEW L, NEW M, NEW s, NEW r, RepOK(L, M, s, r), Ledger(L), NEW m, m.view \in Nat,
         About(s, m)
  PROVE  \A i \in 1..Len(s.log) : s.log[i].view \in Nat /\ s.log[i].view < m.view
<1> TAKE i \in 1..Len(s.log)
<1> Fits(L, s.log) /\ PlaceOK(L, s, r) /\ s.view \in Nat
  BY DEF RepOK, RepType
<1>2. s.log[i].view \in Nat
  BY FitsFacts
<1>3. s.log[i].view < s.view \/ (s.log[i].view = s.view /\ s.status # "VIEW_CHANGE")
  BY DEF PlaceOK
<1> m.view > s.view \/ (m.view = s.view /\ s.status = "VIEW_CHANGE")
  BY DEF About
<1> QED BY <1>2, <1>3, SMTT(30)

\* e is s on entering view w with op operations numbered.
EnteredAs(M, s, w, op, e) ==
  /\ e \in RepType(M) /\ SetsOK(e)
  /\ e.view = w /\ e.status = "NORMAL"
  /\ e.log = s.log /\ e.lastOp = op /\ e.lastCommitted = s.lastCommitted
  /\ e.executed = s.executed /\ e.clientTable = s.clientTable

\* EnterView, and the lastOp its callers set.
LEMMA EnteredLemma ==
  ASSUME NEW M, NEW s \in RepType(M), NEW w \in Nat, NEW op \in Nat,
         NEW e, e = [EnterView(s, w) EXCEPT !.lastOp = op]
  PROVE  EnteredAs(M, s, w, op, e)
<1>1. s.lastOp \in Nat
  BY DEF RepType
<1>2. /\ e \in RepType(M)
      /\ e.view = w /\ e.status = "NORMAL"
      /\ e.log = s.log /\ e.lastOp = op /\ e.lastCommitted = s.lastCommitted
      /\ e.executed = s.executed /\ e.clientTable = s.clientTable
      /\ e.prepareOKs = {} /\ e.startViewChanges = {} /\ e.doViewChanges = {}
  BY <1>1 DEF EnterView, RepType, Status
<1> SetsOK(e)
  BY <1>2 DEF SetsOK
<1> QED BY <1>2 DEF EnteredAs

\* HandleStartView, unless the replica goes astray.
LEMMA HandleStartViewStep ==
  ASSUME Counting, NEW L, Inv(L, msgs, rep, decided), NEW r \in Replica,
         NEW m \in Received("STARTVIEW"), HandleStartView(r, m), ~stray'
  PROVE  Inv(L, msgs', rep', decided')
<1> DEFINE s == rep[r]
           w == m.view
           H == L[w]
           t == Installed(s, m)
           entered == [EnterView(t, m.view) EXCEPT !.lastOp = m.lastop]
           done == CommitUpTo(entered, m.lastcommitted)
           over == done.status = "PANIC"
<1>1. /\ m \in msgs /\ m.type = "STARTVIEW" /\ decided' = decided
      /\ About(s, m) /\ r # GetLeaderIndex(w)
      /\ \/ /\ t.status = "PANIC"
            /\ rep' = [rep EXCEPT ![r] = t] /\ msgs' = msgs \cup {}
         \/ /\ t.status # "PANIC"
            /\ rep' = [rep EXCEPT ![r] = IF over THEN done ELSE AfterPrepareOKs(done, s.lastOp)]
            /\ msgs' = msgs \cup (IF over THEN {} ELSE PrepareOKs(done, r, s.lastOp))
      /\ ~(Len(t.log) > m.lastop)
  BY DEF HandleStartView, Received, Step
<1>2. StartViewMsg(L, msgs, m)
  BY <1>1 DEF Inv, MsgsOK, MsgOK
<1>3. /\ w \in DOMAIN L /\ Committed(L, msgs, H, m.lastcommitted, w)
      /\ Started(L, w, m.lastop) /\ m.lastcommitted <= m.lastop
      /\ \E a \in Nat : Slice(m.entries, H, a, m.lastop) /\ (a = 1 \/ a <= m.lastop)
  BY <1>2 DEF StartViewMsg
<1>4. RepOK(L, msgs, s, r) /\ Ledger(L)
  BY DEF Inv
<1>5. /\ s \in RepType(msgs) /\ ExecOK(s) /\ SetsOK(s) /\ VoteOK(L, msgs, s, r)
      /\ s.view \in Nat /\ s.lastCommitted \in Nat
      /\ s.log \in Seq(LogEntry)
  <2> HIDE DEF s
  <2> QED BY <1>4 DEF RepOK, RepType
<1> /\ Len(s.log) \in Nat /\ s.lastOp = Len(s.log) /\ s.lastCommitted <= Len(s.log)
    /\ w \in Nat /\ Len(H) \in Nat /\ s.view <= w
  <2>1. w \in Nat /\ Len(H) \in Nat
    BY <1>3, <1>4, LedgerFacts
  <2>2. Len(s.log) \in Nat
    BY <1>5, SeqLen
  <2>3. s.lastOp = Len(s.log) /\ s.lastCommitted <= Len(s.log)
    BY <1>5 DEF ExecOK
  <2> w > s.view \/ w = s.view
    BY <1>1 DEF About
  <2> QED BY <1>5, <2>1, <2>2, <2>3, SMTT(30)
<1>7. Compatible(L, msgs, s, w)
  BY <1>3, AgreesLemma
<1>8. /\ \A j \in 1..Len(s.log) :
              /\ j \in 1..Len(H)
              /\ j <= s.lastCommitted \/ s.log[j].view = H[j].view
              => s.log[j] = H[j]
      /\ Has(L, s.log, w, s.lastCommitted) /\ Committed(L, msgs, H, s.lastCommitted, w)
      /\ Numbered(s.log) /\ Numbered(H)
  BY <1>7 DEF Compatible
<1>9. \A i \in 1..Len(s.log) : s.log[i].view \in Nat /\ s.log[i].view < w
  BY <1>1, <1>4, AboutViews
<1>10. rep[r] = s /\ s.status # "PANIC"
  BY <1>1 DEF About
<1> HIDE DEF s, w, H
<1>11. PICK a \in Nat : Slice(m.entries, H, a, m.lastop) /\ (a = 1 \/ a <= m.lastop)
  BY <1>3
<1>12. m.lastop \in Nat /\ m.lastop <= Len(H)
  BY <1>11, SMTT(30) DEF Slice
<1>13. Agrees(s, H, m.lastop)
  <2> \A j \in 1..Len(s.log) : j <= m.lastop => j \in 1..Len(H)
    BY <1>12, SMTT(30)
  <2> QED BY <1>8 DEF Agrees
<1>14. /\ t \in RepType(msgs) /\ t.view = s.view
       /\ t.lastOp = s.lastOp /\ t.lastCommitted = s.lastCommitted
       /\ t.executed = s.executed /\ t.clientTable = s.clientTable
       /\ t.prepareOKs = s.prepareOKs /\ t.startViewChanges = s.startViewChanges
       /\ t.doViewChanges = s.doViewChanges
       /\ t.status = "PANIC" => t.log = s.log
       /\ t.status # "PANIC" =>
            /\ t.status = s.status
            /\ a <= m.lastop => /\ Len(t.log) = m.lastop
                                /\ \A j \in 1..m.lastop : t.log[j] = H[j]
            /\ ~(a <= m.lastop) => t.log = s.log
  <2>1. Fitting(msgs, s, H, m, a)
    BY <1>5, <1>8, <1>10, <1>11, <1>13 DEF Fitting
  <2>2. TookOver(msgs, s, H, m, a, t)
    BY <2>1, InstalledLemma
  <2> HIDE DEF t
  <2> QED BY <2>2 DEF TookOver
<1>15. CASE t.status = "PANIC"
  <2> HIDE DEF t
  <2>1. rep' = [rep EXCEPT ![r] = t] /\ msgs' = msgs \cup {}
    BY <1>1, <1>15
  <2>2. SetsOK(t)
    BY <1>5, <1>14, <1>15 DEF SetsOK
  <2>3. t \in RepType(msgs \cup {}) /\ SentOK(L, msgs \cup {}, [rep EXCEPT ![r] = t], {})
    BY <1>14 DEF SentOK
  <2> Inv(L, msgs \cup {}, [rep EXCEPT ![r] = t], decided)
    BY <1>10, <1>14, <1>15, <2>2, <2>3, QuietStep
  <2> QED BY <1>1, <2>1
<1>16. CASE t.status # "PANIC"
  <2> HIDE DEF t
  <2>1. Len(t.log) = m.lastop /\ Has(L, t.log, w, m.lastop)
    <3>1. CASE a <= m.lastop
      <4> m.lastop <= m.lastop
        BY <1>12, SMTT(30)
      <4> QED BY <1>12, <1>14, <1>16, <3>1 DEF Has, H
    <3>2. CASE ~(a <= m.lastop)
      <4>1. m.lastop = 0 /\ t.log = s.log
        BY <1>11, <1>12, <1>14, <1>16, <3>2, SMTT(30)
      <4>2. Len(t.log) = 0
        BY <1>1, <4>1, SMTT(30) DEF t, s
      <4> 0 <= Len(t.log) /\ 0 <= Len(H) /\ \A j : ~(j \in 1..0)
        BY <4>2, SMTT(30)
      <4> QED BY <4>1, <4>2 DEF Has, H
    <3> QED BY <3>1, <3>2
  <2>2. s.lastCommitted <= m.lastop
    BY <1>3, <1>4, <1>5, <1>8, <1>9, <1>12, EarlierPart DEF w
  <2>3. VotesUpTo(L, msgs, r, w, m.lastop)
    <3> SUFFICES ASSUME NEW i \in Nat, Voted(L, msgs, r, w, i) PROVE i <= m.lastop
      BY DEF VotesUpTo
    <3>1. w <= s.view /\ Kept(L, s.log, w, i, s.view + 1)
      BY <1>3, <1>5 DEF VoteOK, w
    <3>2. DOMAIN L \subseteq Nat
      BY <1>4 DEF Ledger
    <3>3. \A u \in DOMAIN L : ~(w < u /\ u < s.view + 1)
      BY <1>5, <3>1, <3>2, SMTT(30)
    <3> Has(L, s.log, w, i)
      BY <3>1, <3>3 DEF Kept
    <3> QED BY <1>3, <1>4, <1>5, <1>9, <1>12, EarlierPart DEF w
  <2>4. /\ entered \in RepType(msgs) /\ SetsOK(entered)
        /\ entered.view = w /\ entered.status = "NORMAL"
        /\ entered.log = t.log /\ entered.lastOp = m.lastop
        /\ entered.lastCommitted = s.lastCommitted /\ entered.executed = s.executed
    <3>1. t \in RepType(msgs) /\ w \in Nat /\ m.lastop \in Nat
      BY <1>12, <1>14
    <3>2. entered = [EnterView(t, w) EXCEPT !.lastOp = m.lastop]
      BY DEF w
    <3> HIDE DEF entered
    <3> EnteredAs(msgs, t, w, m.lastop, entered)
      BY <3>1, <3>2, EnteredLemma
    <3> QED BY <1>14 DEF EnteredAs
  <2> HIDE DEF entered
  <2>5. ExecOK(entered)
    <3>1. ASSUME NEW i \in 1..s.lastCommitted PROVE t.log[i] = s.log[i]
      <4> i \in 1..m.lastop
        BY <1>5, <1>12, <2>2, SMTT(30)
      <4> QED BY <1>8, <2>1 DEF Has
    <3> QED BY <1>5, <2>1, <2>2, <2>4, <3>1 DEF ExecOK
  <2>6. /\ entered.view \in DOMAIN L /\ r # GetLeaderIndex(entered.view)
        /\ rep[r].view <= entered.view /\ rep[r].lastCommitted = entered.lastCommitted
        /\ Has(L, entered.log, entered.view, Len(entered.log))
        /\ Started(L, entered.view, Len(entered.log))
        /\ VotesUpTo(L, msgs, r, entered.view, Len(entered.log))
        /\ Committed(L, msgs, L[entered.view], entered.lastCommitted, entered.view)
        /\ Committed(L, msgs, L[entered.view], m.lastcommitted, entered.view)
        /\ m.lastcommitted <= Len(entered.log)
    BY <1>1, <1>3, <1>8, <1>10, <2>1, <2>3, <2>4 DEF H, w
  <2>7. s.lastOp \in Nat
    OBVIOUS
  <2>8. LET d == CommitUpTo(entered, m.lastcommitted)
        IN  /\ d.status = "NORMAL"
            /\ Inv(L, msgs \cup PrepareOKs(d, r, s.lastOp),
                   [rep EXCEPT ![r] = AfterPrepareOKs(d, s.lastOp)], decided)
    BY <2>4, <2>5, <2>6, <2>7, AdoptStep
  <2>9. /\ ~over
        /\ Inv(L, msgs \cup PrepareOKs(done, r, s.lastOp),
               [rep EXCEPT ![r] = AfterPrepareOKs(done, s.lastOp)], decided)
    BY <2>8
  <2> HIDE DEF done
  <2> QED BY <1>1, <1>16, <2>9 DEF s
<1> QED BY <1>15, <1>16
-----------------------------------------------------------------------------
(***************************************************************************)
(* A view change, until its leader has what it needs.                      *)
(***************************************************************************)
\* How far the least advanced of some replicas has come.
LEMMA MinLemma ==
  ASSUME Counting, NEW s, s.lastCommitted \in Nat, NEW ms, \A x \in ms : x.lastcommitted \in Nat
  PROVE  MinCommitted(s, ms) \in Nat /\ MinCommitted(s, ms) <= s.lastCommitted
<1> DEFINE T == {x.lastcommitted : x \in ms} \cup {s.lastCommitted}
           P(c) == \A x \in ms : c <= x.lastcommitted /\ c <= s.lastCommitted
<1> T \subseteq Nat /\ T # {} /\ s.lastCommitted \in T /\ \A x \in ms : x.lastcommitted \in T
  OBVIOUS
<1>2. \A c \in T : c = s.lastCommitted \/ ms # {}
  OBVIOUS
<1>3. MinCommitted(s, ms) = CHOOSE c \in T : P(c)
  BY DEF MinCommitted
<1> HIDE DEF T
<1>4. \E c \in T : \A y \in T : c <= y
  BY Least
<1>5. \E c \in T : P(c)
  BY <1>4
<1>6. MinCommitted(s, ms) \in T /\ P(MinCommitted(s, ms))
  <2> HIDE DEF P
  <2> QED BY <1>3, <1>5
<1>7. MinCommitted(s, ms) = s.lastCommitted \/ MinCommitted(s, ms) <= s.lastCommitted
  BY <1>2, <1>6
<1> MinCommitted(s, ms) \in Nat
  BY <1>6
<1> QED BY <1>7, SMTT(30)

\* StartViewChange.
LEMMA StartLemma ==
  ASSUME NEW M, NEW s \in RepType(M), NEW w \in Nat, SetsOK(s)
  PROVE  LET e == StartViewChange(s, w)
         IN  /\ e \in RepType(M) /\ SetsOK(e) /\ e.view = w /\ e.status = "VIEW_CHANGE"
             /\ e.log = s.log /\ e.lastOp = s.lastOp /\ e.lastCommitted = s.lastCommitted
             /\ e.executed = s.executed /\ e.clientTable = s.clientTable
<1> DEFINE e == StartViewChange(s, w)
<1>1. /\ e \in RepType(M) /\ e.view = w /\ e.status = "VIEW_CHANGE"
      /\ e.log = s.log /\ e.lastOp = s.lastOp /\ e.lastCommitted = s.lastCommitted
      /\ e.executed = s.executed /\ e.clientTable = s.clientTable
      /\ e.prepareOKs = s.prepareOKs /\ e.startViewChanges = {} /\ e.doViewChanges = {}
  BY DEF StartViewChange, RepType, Status
<1> HIDE DEF e
<1> SetsOK(e)
  BY <1>1 DEF SetsOK
<1> QED BY <1>1 DEF e

\* The STARTVIEWCHANGE a replica sends.
LEMMA StartSent ==
  ASSUME NEW L, NEW M, NEW R, NEW s, s.view \in Nat, s.lastCommitted \in Nat, NEW r \in Replica
  PROVE  /\ \A m \in {StartViewChangeMessage(s, r)} : m.type = "STARTVIEWCHANGE"
         /\ SentOK(L, M, R, {StartViewChangeMessage(s, r)})
<1> DEFINE m == StartViewChangeMessage(s, r)
<1>1. /\ m.type = "STARTVIEWCHANGE" /\ m.view = s.view /\ m.replicaidx = r
      /\ m.lastcommitted = s.lastCommitted
  BY DEF StartViewChangeMessage
<1> HIDE DEF m
<1> MsgOK(L, M, R, m)
  BY <1>1 DEF MsgOK, StartViewChangeMsg
<1> QED BY <1>1 DEF m, SentOK

\* ViewChangeTimeout.
LEMMA ViewChangeTimeoutStep ==
  ASSUME NEW L, Inv(L, msgs, rep, decided), NEW r \in Replica, ViewChangeTimeout(r)
  PROVE  Inv(L, msgs', rep', decided')
<1> DEFINE s == rep[r]
           t == StartViewChange(s, s.view + 1)
           out == {StartViewChangeMessage(t, r)}
<1>1. rep' = [rep EXCEPT ![r] = t] /\ msgs' = msgs \cup out /\ decided' = decided
  BY DEF ViewChangeTimeout, Step, NoHistory
<1>2. s \in RepType(msgs) /\ SetsOK(s)
  BY DEF Inv, RepOK
<1>3. s.view \in Nat /\ s.lastCommitted \in Nat
  <2> HIDE DEF s
  <2> QED BY <1>2 DEF RepType
<1> s.view + 1 \in Nat /\ s.view < s.view + 1
  BY <1>3, SMTT(30)
<1> /\ t \in RepType(msgs) /\ SetsOK(t) /\ t.view = s.view + 1 /\ t.status = "VIEW_CHANGE"
    /\ t.log = s.log /\ t.lastOp = s.lastOp /\ t.lastCommitted = s.lastCommitted
    /\ t.executed = s.executed /\ t.clientTable = s.clientTable
  <2> HIDE DEF s
  <2> QED BY <1>2, StartLemma
<1> HIDE DEF t
<1>6. t.view \in Nat /\ t.lastCommitted \in Nat
  BY <1>3
<1>7. /\ SentOK(L, msgs \cup out, [rep EXCEPT ![r] = t], out)
      /\ \A m \in out : m.type = "STARTVIEWCHANGE"
  BY <1>6, StartSent
<1> HIDE DEF out
<1>8. t \in RepType(msgs \cup out)
  BY RepMore
<1> Inv(L, msgs \cup out, [rep EXCEPT ![r] = t], decided)
  BY <1>7, <1>8, QuietStep
<1> QED BY <1>1

\* A replica that hears of view m.view joins its change: s is what it is left
\* with once it has collected a message.
Joins(t, s, m) ==
  /\ s.view = m.view /\ s.status = "VIEW_CHANGE" /\ s.log = t.log
  /\ s.lastOp = t.lastOp /\ s.lastCommitted = t.lastCommitted
  /\ s.executed = t.executed /\ s.clientTable = t.clientTable

\* Joined.
LEMMA JoinLemma ==
  ASSUME NEW M, NEW t \in RepType(M), SetsOK(t), NEW m, m.view \in Nat, About(t, m)
  PROVE  LET s == Joined(t, m)
         IN  s \in RepType(M) /\ SetsOK(s) /\ Joins(t, s, m)
<1> DEFINE s == Joined(t, m)
<1>1. t.view \in Nat /\ t.status \in Status
  BY DEF RepType
<1>2. CASE m.view > t.view
  <2>1. s = StartViewChange(t, m.view)
    BY <1>2 DEF Joined
  <2> LET e == StartViewChange(t, m.view)
       IN  /\ e \in RepType(M) /\ SetsOK(e) /\ e.view = m.view /\ e.status = "VIEW_CHANGE"
           /\ e.log = t.log /\ e.lastOp = t.lastOp /\ e.lastCommitted = t.lastCommitted
           /\ e.executed = t.executed /\ e.clientTable = t.clientTable
    BY StartLemma
  <2> QED BY <2>1 DEF Joins
<1>3. CASE ~(m.view > t.view)
  <2>1. s = t
    BY <1>3 DEF Joined
  <2> m.view = t.view /\ t.status = "VIEW_CHANGE"
    BY <1>3 DEF About
  <2> QED BY <2>1 DEF Joins
<1> QED BY <1>2, <1>3

\* The replica joins, sends its STARTVIEWCHANGE, and has s.
LEMMA JoinStep ==
  ASSUME NEW L, NEW M, NEW R, NEW D, NEW r \in Replica, Inv(L, M, R, D),
         NEW m, m.view \in Nat, About(R[r], m),
         NEW s \in RepType(M), SetsOK(s), Joins(R[r], s, m)
  PROVE  Inv(L, M \cup JoinMessage(R[r], r, m), [R EXCEPT ![r] = s], D)
<1> DEFINE t == R[r]
           out == JoinMessage(t, r, m)
<1>1. t \in RepType(M) /\ SetsOK(t) /\ About(t, m)
  BY DEF Inv, RepOK
<1>2. t.view \in Nat /\ t.lastCommitted \in Nat
  <2> HIDE DEF t
  <2> QED BY <1>1 DEF RepType
<1>3. /\ \A x \in out : x.type # "PREPAREOK"
      /\ SentOK(L, M \cup out, [R EXCEPT ![r] = s], out)
  <2>1. CASE m.view > t.view
    <3> DEFINE e == Joined(t, m)
    <3>1. out = {StartViewChangeMessage(e, r)}
      BY <2>1 DEF JoinMessage
    <3>2. Joins(t, e, m)
      <4> HIDE DEF t
      <4> LET z == Joined(t, m)
          IN  z \in RepType(M) /\ SetsOK(z) /\ Joins(t, z, m)
        BY <1>1, JoinLemma
      <4> QED OBVIOUS
    <3>3. e.view \in Nat /\ e.lastCommitted \in Nat
      BY <1>2, <3>2 DEF Joins
    <3> HIDE DEF out, e
    <3> /\ \A x \in {StartViewChangeMessage(e, r)} : x.type = "STARTVIEWCHANGE"
        /\ SentOK(L, M \cup out, [R EXCEPT ![r] = s], {StartViewChangeMessage(e, r)})
      BY <3>3, StartSent
    <3> QED BY <3>1
  <2>2. CASE ~(m.view > t.view)
    BY <2>2 DEF JoinMessage, SentOK
  <2> QED BY <2>1, <2>2
<1>4. \/ s.view = t.view /\ s.status = t.status
      \/ t.view < s.view /\ s.status = "VIEW_CHANGE"
  <2> m.view > t.view => t.view < m.view
    BY <1>2, SMTT(30)
  <2> QED BY DEF About, Joins
<1> HIDE DEF out
<1>5. s \in RepType(M \cup out)
  BY RepMore
<1> Inv(L, M \cup out, [R EXCEPT ![r] = s], D)
  BY <1>3, <1>4, <1>5, QuietStep DEF Joins
<1> QED BY DEF out

\* The DOVIEWCHANGE a replica sends.
LEMMA DoViewChangeSent ==
  ASSUME Counting, NEW L, NEW M, NEW R, NEW D, NEW r \in Replica, Inv(L, M, R, D),
         R[r].status = "VIEW_CHANGE", ~AmLeader(R[r], r)
  PROVE  Inv(L, M \cup {DoViewChangeMessage(R[r], r)}, [R EXCEPT ![r] = R[r]], D)
<1> DEFINE s == R[r]
           m == DoViewChangeMessage(s, r)
           out == {m}
           M2 == M \cup out
           from == MinCommitted(s, s.startViewChanges)
           a == IF from = 0 THEN 1 ELSE from
<1> RepOK(L, M, s, r) /\ Ledger(L) /\ MsgsOK(L, M, R)
  BY DEF Inv
<1> /\ s \in RepType(M) /\ Fits(L, s.log) /\ ExecOK(s) /\ SetsOK(s)
    /\ Committed(L, M, s.log, s.lastCommitted, s.view)
    /\ PlaceOK(L, s, r) /\ VoteOK(L, M, s, r)
  BY DEF RepOK
<1> /\ s.view \in Nat /\ s.lastCommitted \in Nat /\ s.log \in Seq(LogEntry)
    /\ s.startViewChanges \subseteq M
  <2> HIDE DEF s
  <2> QED BY DEF RepType
<1> /\ Len(s.log) \in Nat /\ s.lastOp = Len(s.log) /\ s.lastCommitted <= Len(s.log)
    /\ Numbered(s.log)
  BY SeqLen DEF ExecOK, Fits, Numbered
<1>5. from \in Nat /\ from <= s.lastCommitted
  <2>1. \A x \in s.startViewChanges : x.lastcommitted \in Nat
    <3> TAKE x \in s.startViewChanges
    <3>1. x \in M /\ x.type = "STARTVIEWCHANGE"
      BY DEF SetsOK
    <3> StartViewChangeMsg(x)
      BY <3>1 DEF MsgsOK, MsgOK
    <3> QED BY DEF StartViewChangeMsg
  <2> HIDE DEF s
  <2> QED BY <2>1, MinLemma
<1> /\ m.type = "DOVIEWCHANGE" /\ m.view = s.view /\ m.replicaidx = r
    /\ m.lastnormalview = LastViewstamp(s.log).view /\ m.lastop = s.lastOp
    /\ m.lastcommitted = s.lastCommitted /\ m.entries = Dump(s.log, from)
  BY DEF DoViewChangeMessage
<1>7. Slice(m.entries, s.log, a, m.lastop) /\ (a = 1 \/ a <= m.lastop) /\ a \in Nat
  <2>1. Slice(Dump(s.log, from), s.log, IF from = 0 THEN 1 ELSE from, Len(s.log))
    BY <1>5, DumpLemma
  <2> (a = 1 \/ a <= Len(s.log)) /\ a \in Nat
    BY <1>5, SMTT(30)
  <2> QED BY <2>1
<1> HIDE DEF m, M2, a, from
<1>8. \A i \in 1..Len(s.log) : s.log[i].view < s.view
  BY DEF PlaceOK
<1>9. Committed(L, M2, s.log, s.lastCommitted, s.view)
  <2>1. M \subseteq M2
    BY DEF M2
  <2> HIDE DEF s
  <2> QED BY <2>1, CommittedMore
<1>10. ASSUME NEW v \in DOMAIN L, NEW i \in Nat, Voted(L, M2, r, v, i)
       PROVE  Kept(L, s.log, v, i, s.view + 1)
  <2> Voted(L, M, r, v, i)
    BY <1>10 DEF Voted, M2
  <2> QED BY DEF VoteOK
<1>11. DoViewChangeFrom(L, M2, m, s.log)
  <2> HIDE DEF s
  <2> QED BY <1>7, <1>8, <1>9, <1>10 DEF DoViewChangeFrom
<1>12. DoViewChangeMsg(L, M2, R, m)
  <2>1. s.view >= s.view
    BY SMTT(30)
  <2>2. m.view \in Nat /\ m.replicaidx = r /\ R[r].view >= m.view /\ r # GetLeaderIndex(m.view)
    BY <2>1 DEF AmLeader
  <2>3. s.log \in Seq(LogEntry)
    OBVIOUS
  <2> HIDE DEF s
  <2> QED BY <1>11, <2>2, <2>3 DEF DoViewChangeMsg
<1>13. SentOK(L, M2, R, out) /\ \A y \in out : y.type # "PREPAREOK"
  BY <1>12 DEF SentOK, MsgOK
<1> HIDE DEF out
<1> Inv(L, M \cup out, [R EXCEPT ![r] = R[r]], D)
  BY <1>13, SendStep DEF M2
<1> QED BY DEF out, m

\* HandleStartViewChange.
LEMMA HandleStartViewChangeStep ==
  ASSUME Counting, NEW L, Inv(L, msgs, rep, decided), NEW r \in Replica,
         NEW m \in Received("STARTVIEWCHANGE"), HandleStartViewChange(r, m)
  PROVE  Inv(L, msgs', rep', decided')
<1> DEFINE z == rep[r]
           t == Joined(z, m)
           s == [t EXCEPT !.startViewChanges = AddMessage(@, m)]
           send == Quorum(s.startViewChanges) /\ ~AmLeader(s, r)
           join == JoinMessage(z, r, m)
           M1 == msgs \cup join
           R2 == [rep EXCEPT ![r] = s]
<1> /\ m \in msgs /\ m.type = "STARTVIEWCHANGE" /\ About(z, m) /\ decided' = decided
    /\ rep' = R2
    /\ msgs' = msgs \cup (join \cup (IF send THEN {DoViewChangeMessage(s, r)} ELSE {}))
  BY DEF HandleStartViewChange, Received, Step, NoHistory
<1>2. m.view \in Nat
  BY DEF Inv, MsgsOK, MsgOK, StartViewChangeMsg
<1>3. z \in RepType(msgs) /\ SetsOK(z) /\ rep \in [Replica -> RepType(msgs)]
  BY DEF Inv, RepOK
<1> t \in RepType(msgs) /\ SetsOK(t) /\ Joins(z, t, m)
  <2> HIDE DEF z
  <2> LET e == Joined(z, m)
      IN  e \in RepType(msgs) /\ SetsOK(e) /\ Joins(z, e, m)
    BY <1>2, <1>3, JoinLemma
  <2> QED OBVIOUS
<1> HIDE DEF t
<1>5. /\ AddMessage(t.startViewChanges, m) \subseteq msgs
      /\ \A x \in AddMessage(t.startViewChanges, m) : x.type = "STARTVIEWCHANGE"
  <2> t.startViewChanges \subseteq msgs
    BY DEF RepType
  <2> QED BY DEF AddMessage, SetsOK
<1>6. /\ s \in RepType(msgs) /\ s.log = t.log /\ s.lastOp = t.lastOp /\ s.view = t.view
      /\ s.lastCommitted = t.lastCommitted /\ s.executed = t.executed
      /\ s.clientTable = t.clientTable /\ s.status = t.status
      /\ s.prepareOKs = t.prepareOKs /\ s.doViewChanges = t.doViewChanges
      /\ s.startViewChanges = AddMessage(t.startViewChanges, m)
  BY <1>5 DEF RepType
<1> HIDE DEF s
<1>7. SetsOK(s) /\ Joins(z, s, m)
  BY <1>5, <1>6 DEF SetsOK, Joins
<1> Inv(L, M1, R2, decided)
  BY <1>2, <1>6, <1>7, JoinStep
<1> R2[r] = s /\ R2 = [R2 EXCEPT ![r] = R2[r]]
  <2>1. R2[r] = s
    BY <1>3
  <2> [R2 EXCEPT ![r] = R2[r]] = R2
    <3> HIDE DEF M1, R2
    <3> QED BY SameRep
  <2> QED BY <2>1
<1>10. CASE send
  <2>1. s.status = "VIEW_CHANGE"
    BY <1>7 DEF Joins
  <2>2. Inv(L, M1 \cup {DoViewChangeMessage(R2[r], r)}, [R2 EXCEPT ![r] = R2[r]], decided)
    <3> HIDE DEF M1, R2
    <3> QED BY <1>10, <2>1, DoViewChangeSent
  <2>3. msgs' = M1 \cup {DoViewChangeMessage(R2[r], r)}
    BY <1>10
  <2> HIDE DEF M1, R2
  <2> QED BY <2>2, <2>3
<1>11. CASE ~send
  <2> msgs' = M1
    BY <1>11
  <2> QED OBVIOUS
<1> QED BY <1>10, <1>11

-----------------------------------------------------------------------------
(***************************************************************************)
(* The leader of a new view.                                               *)
(***************************************************************************)
\* Replica r of R may start its view w, with the log K.
Ready(L, M, R, D, r) ==
  /\ Inv(L, M, R, D) /\ R[r].status = "VIEW_CHANGE"
  /\ GetLeaderIndex(R[r].view) = r /\ Quorum(R[r].doViewChanges)

\* K is as recent as the logs of the replica and of the messages it has.
Candidate(L, M, s, K) ==
  /\ Fits(L, K) /\ \A j \in 1..Len(K) : K[j].view < s.view
  /\ NotOlder(K, s.log)
  /\ \A y \in s.doViewChanges : \A H : DoViewChangeFrom(L, M, y, H) => NotOlder(K, H)

\* What is known of that replica and of its messages.
Fresh(L, M, R, r, s) ==
  /\ Ledger(L) /\ RepOK(L, M, s, r) /\ s \in RepType(M) /\ ExecOK(s) /\ SetsOK(s)
  /\ s.view \in Nat /\ s.view \notin DOMAIN L
  /\ Fits(L, s.log) /\ \A j \in 1..Len(s.log) : s.log[j].view < s.view
  /\ Committed(L, M, s.log, s.lastCommitted, s.view)
  /\ \A y \in s.doViewChanges :
       /\ y \in M /\ y.view = s.view /\ DoViewChangeMsg(L, M, R, y)

\* It follows from the invariant.
LEMMA ReadyFacts ==
  ASSUME NEW L, NEW M, NEW R, NEW D, NEW r \in Replica, Ready(L, M, R, D, r)
  PROVE  Fresh(L, M, R, r, R[r])
<1> DEFINE s == R[r]
<1>1. /\ Inv(L, M, R, D) /\ s.status = "VIEW_CHANGE" /\ GetLeaderIndex(s.view) = r
  BY DEF Ready
<1> RepOK(L, M, s, r) /\ Ledger(L) /\ MsgsOK(L, M, R)
  BY <1>1 DEF Inv
<1> HIDE DEF s
<1> /\ s \in RepType(M) /\ ExecOK(s) /\ SetsOK(s) /\ Fits(L, s.log) /\ PlaceOK(L, s, r)
    /\ Committed(L, M, s.log, s.lastCommitted, s.view)
  BY DEF RepOK
<1>4. s.view \in Nat /\ s.doViewChanges \subseteq M
  BY DEF RepType
<1>5. s.view \notin DOMAIN L /\ \A j \in 1..Len(s.log) : s.log[j].view < s.view
  BY <1>1 DEF PlaceOK, AmLeader
<1>6. ASSUME NEW y \in s.doViewChanges
      PROVE  y \in M /\ y.view = s.view /\ DoViewChangeMsg(L, M, R, y)
  <2>1. y \in M /\ y.view = s.view /\ y.type = "DOVIEWCHANGE"
    BY <1>4, <1>6 DEF SetsOK
  <2> MsgOK(L, M, R, y)
    BY <2>1 DEF MsgsOK
  <2> QED BY <2>1 DEF MsgOK
<1> Fresh(L, M, R, r, s)
  BY <1>4, <1>5, <1>6 DEF Fresh
<1> QED BY DEF s

\* The senders of the messages a new leader has collected and itself are a
\* quorum, whose votes are kept in its log.
LEMMA CandidateKeeps ==
  ASSUME Counting, NEW L, NEW M, NEW R, NEW D, NEW r \in Replica, Ready(L, M, R, D, r),
         NEW K, Candidate(L, M, R[r], K)
  PROVE  \E Q \in Quorums : \A q \in Q :
           /\ R[q].view >= R[r].view
           /\ \A v \in DOMAIN L : \A i \in Nat :
                v < R[r].view /\ Own(L, v, i) /\ Voted(L, M, q, v, i)
                  => Kept(L, K, v, i, R[r].view)
<1> DEFINE s == R[r]
           w == s.view
           ms == s.doViewChanges
           S == Senders(ms)
<1>1. Fresh(L, M, R, r, s)
  BY ReadyFacts
<1>2. GetLeaderIndex(w) = r /\ Quorum(ms)
  BY DEF Ready
<1> /\ Fits(L, K) /\ \A j \in 1..Len(K) : K[j].view < w
    /\ NotOlder(K, s.log)
    /\ \A y \in ms : \A H : DoViewChangeFrom(L, M, y, H) => NotOlder(K, H)
  BY DEF Candidate
<1>4. R[r] = s
  OBVIOUS
<1> HIDE DEF s
<1> /\ Ledger(L) /\ SetsOK(s) /\ w \in Nat /\ w \notin DOMAIN L /\ Fits(L, s.log)
    /\ RepOK(L, M, s, r)
    /\ \A y \in ms : y.view = w /\ DoViewChangeMsg(L, M, R, y)
  BY <1>1 DEF Fresh
<1> HIDE DEF w
<1>6. ASSUME NEW y \in ms
      PROVE  /\ y.replicaidx \in Replica /\ y.replicaidx # r /\ R[y.replicaidx].view >= w
             /\ \E H \in Seq(LogEntry) : DoViewChangeFrom(L, M, y, H)
  BY <1>2, <1>6 DEF DoViewChangeMsg
<1>7. \A x, y \in ms : x.replicaidx = y.replicaidx => x = y
  BY DEF SetsOK
<1>8. Cardinality(ms) >= QuorumSize - 1
  BY <1>2 DEF Quorum
<1> HIDE DEF ms
<1>9. S \cup {r} \in Quorums
  BY <1>6, <1>7, <1>8, SendersQuorum
<1>10. ASSUME NEW q \in S \cup {r}
       PROVE  R[q].view >= w
  <2>1. CASE q = r
    <3> w >= w
      BY SMTT(30)
    <3> QED BY <1>4, <2>1 DEF w
  <2>2. CASE q \in S
    BY <1>6, <2>2 DEF Senders
  <2> QED BY <1>10, <2>1, <2>2
<1>11. ASSUME NEW q \in S \cup {r}, NEW v \in DOMAIN L, NEW i \in Nat,
              v < w, Own(L, v, i), Voted(L, M, q, v, i)
       PROVE  Kept(L, K, v, i, w)
  <2>1. CASE q = r
    <3> Kept(L, s.log, v, i, w + 1)
      BY <1>11, <2>1 DEF RepOK, VoteOK, w
    <3> QED BY <1>11, LatestKeeps
  <2>2. CASE q \in S
    <3>1. PICK y \in ms : y.replicaidx = q
      BY <2>2 DEF Senders
    <3>2. PICK H \in Seq(LogEntry) : DoViewChangeFrom(L, M, y, H)
      BY <1>6
    <3>3. NotOlder(K, H) /\ y.view = w
      BY <3>2 DEF ms, w
    <3> Fits(L, H) /\ Kept(L, H, v, i, w + 1)
      BY <1>11, <3>1, <3>2, <3>3 DEF DoViewChangeFrom
    <3> QED BY <1>11, <3>3, LatestKeeps
  <2> QED BY <1>11, <2>1, <2>2
<1> QED BY <1>9, <1>10, <1>11 DEF w, s

\* So the new view starts as all views do.
LEMMA CandidateStarts ==
  ASSUME Counting, NEW L, NEW M, NEW R, NEW D, NEW r \in Replica, Ready(L, M, R, D, r),
         NEW K, Candidate(L, M, R[r], K),
         NEW L2, L2 = WithView(L, R[r].view, K)
  PROVE  QuorumsAt(L2, M, R)
<1> DEFINE s == R[r]
           w == s.view
<1>1. Fresh(L, M, R, r, s)
  BY ReadyFacts
<1> /\ Inv(L, M, R, D) /\ GetLeaderIndex(w) = r /\ Ledger(L) /\ MsgsOK(L, M, R)
    /\ R \in [Replica -> RepType(M)] /\ QuorumsAt(L, M, R) /\ s \in RepType(M)
  BY DEF Ready, Inv
<1>3. Fits(L, K) /\ \A j \in 1..Len(K) : K[j].view < w
  BY DEF Candidate
<1> w \in Nat /\ w \notin DOMAIN L
  BY <1>1 DEF Fresh
<1>5. PICK Q \in Quorums : \A q \in Q :
           /\ R[q].view >= w
           /\ \A v \in DOMAIN L : \A i \in Nat :
                v < w /\ Own(L, v, i) /\ Voted(L, M, q, v, i) => Kept(L, K, v, i, w)
  BY CandidateKeeps
<1> /\ Grown(L, L2) /\ Ledger(L2) /\ DOMAIN L2 = DOMAIN L \cup {w}
    /\ L2[w] = K /\ \A v \in DOMAIN L : L2[v] = L[v]
  <2> ViewAdded(L, w, K, L2)
    BY <1>3, WithViewLemma
  <2> QED BY DEF ViewAdded
<1>7. s.lastCommitted \in Nat
  BY DEF RepType
<1>8. [R EXCEPT ![r] = s] = R
  OBVIOUS
<1>9. R[r] = s
  OBVIOUS
<1> HIDE DEF s
<1>10. Change(L, L2, s, r, s, {})
  <2> s.view <= s.view /\ s.lastCommitted <= s.lastCommitted
    BY <1>7, SMTT(30)
  <2> QED BY DEF Change
<1>11. M \cup {} = M
  OBVIOUS
<1>12. ASSUME NEW x \in DOMAIN L \ {0} PROVE QuorumAt(L2, M, R, x)
  <2>1. QuorumAt(L, M, R, x)
    BY <1>12 DEF QuorumsAt
  <2>2. s \in RepType(M \cup {}) /\ x \in DOMAIN L
    BY <1>11, <1>12
  <2> QuorumAt(L2, M \cup {}, [R EXCEPT ![r] = s], x)
    BY <1>9, <1>10, <2>1, <2>2, QuorumKeeps
  <2> QED BY <1>8, <1>11
<1> HIDE DEF w
<1> QuorumAt(L2, M, R, w)
  <2> SUFFICES ASSUME NEW q \in Q, NEW v \in DOMAIN L2, NEW i \in Nat,
                      v < w, Own(L2, v, i), Voted(L2, M, q, v, i)
               PROVE  Kept(L2, L2[w], v, i, w)
    BY <1>5 DEF QuorumAt
  <2>1. v # w
    BY SMTT(30)
  <2> v \in DOMAIN L /\ L2[v] = L[v]
    BY <2>1
  <2>3. Own(L, v, i) /\ Voted(L, M, q, v, i)
    BY DEF Own, Voted
  <2>4. Kept(L, K, v, i, w)
    BY <1>5, <2>3
  <2>5. Len(K) \in Nat /\ i <= Len(L[v])
    BY <1>3, <2>3, FitsFacts DEF Voted
  <2> Kept(L2, K, v, i, w)
    BY <2>4, <2>5, GrownKept
  <2> QED OBVIOUS
<1> QED BY <1>12 DEF QuorumsAt

\* What the new leader s has committed is in the log K it takes over, and where
\* the two logs agree on a view they agree on the entry.
Succeeds(L2, M, s, K) ==
  /\ Agrees(s, K, Len(K)) /\ s.lastCommitted \in Nat /\ s.lastCommitted <= Len(K)
  /\ \A j \in 1..s.lastCommitted : s.log[j] = K[j]
  /\ Committed(L2, M, K, s.lastCommitted, s.view)

\* The log of a candidate has all that the new leader has executed.
LEMMA CandidateSucceeds ==
  ASSUME Counting, NEW L, NEW M, NEW R, NEW D, NEW r \in Replica, Ready(L, M, R, D, r),
         NEW K, Candidate(L, M, R[r], K),
         NEW L2, L2 = WithView(L, R[r].view, K)
  PROVE  Succeeds(L2, M, R[r], K)
<1> DEFINE s == R[r]
           w == s.view
<1>1. Fresh(L, M, R, r, s)
  BY ReadyFacts
<1>2. QuorumsAt(L2, M, R)
  BY CandidateStarts
<1> Fits(L, K) /\ \A j \in 1..Len(K) : K[j].view < w
  BY DEF Candidate
<1>4. L2 = WithView(L, w, K)
  OBVIOUS
<1> HIDE DEF s
<1> /\ Ledger(L) /\ w \in Nat /\ w \notin DOMAIN L /\ Fits(L, s.log)
    /\ Committed(L, M, s.log, s.lastCommitted, w) /\ s \in RepType(M)
  BY <1>1 DEF Fresh
<1>6. ViewAdded(L, w, K, L2)
  BY <1>4, WithViewLemma
<1> Grown(L, L2) /\ Ledger(L2) /\ w \in DOMAIN L2 /\ L2[w] = K
  BY <1>6 DEF ViewAdded
<1> Len(s.log) \in Nat /\ Len(K) \in Nat
  BY FitsFacts
<1>9. w <= w /\ M \subseteq M
  BY SMTT(30)
<1>10. Committed(L2, M, s.log, s.lastCommitted, w)
  BY <1>9, GrownCommitted
<1> s.lastCommitted \in Nat /\ Has(L2, s.log, w, s.lastCommitted)
    /\ Committed(L2, M, L2[w], s.lastCommitted, w)
  BY <1>2, <1>9, <1>10, CommittedStays
<1>12. s.lastCommitted <= Len(K) /\ \A j \in 1..s.lastCommitted : s.log[j] = K[j]
  BY DEF Has
<1>13. Agrees(s, K, Len(K))
  <2> SUFFICES ASSUME NEW j \in 1..Len(s.log), j <= Len(K),
                      j <= s.lastCommitted \/ s.log[j].view = K[j].view
               PROVE  s.log[j] = K[j]
    BY DEF Agrees
  <2> j \in 1..Len(K) /\ j \in 1..j /\ (j <= s.lastCommitted => j \in 1..s.lastCommitted)
    BY SMTT(30)
  <2>2. CASE j <= s.lastCommitted
    BY <1>12, <2>2
  <2>3. CASE s.log[j].view = K[j].view
    <3> \A x \in 1..j : s.log[x] = K[x]
      BY <2>3, LogsMatch, SMTT(30)
    <3> QED OBVIOUS
  <2> QED BY <2>2, <2>3
<1> Succeeds(L2, M, s, K)
  BY <1>12, <1>13 DEF Succeeds
<1> QED BY DEF s

\* d is the replica as the leader of its view, which starts with the log K.
NewlyLeads(L2, M, s, K, d) ==
  /\ d \in RepType(M) /\ ExecOK(d) /\ SetsOK(d) /\ d.status = "NORMAL"
  /\ d.view = s.view /\ d.log = K /\ s.lastCommitted <= d.lastCommitted
  /\ Committed(L2, M, K, d.lastCommitted, d.view)

\* The step in which the new leader starts its view.
LEMMA LeadStep ==
  ASSUME Counting, NEW L, NEW M, NEW R, NEW D, NEW r \in Replica, Ready(L, M, R, D, r),
         NEW K, Candidate(L, M, R[r], K),
         NEW L2, L2 = WithView(L, R[r].view, K),
         NEW d, NewlyLeads(L2, M, R[r], K, d)
  PROVE  Inv(L2, M, [R EXCEPT ![r] = d], D)
<1> DEFINE s == R[r]
           w == s.view
<1>1. Fresh(L, M, R, r, s)
  BY ReadyFacts
<1>2. QuorumsAt(L2, M, R)
  BY CandidateStarts
<1>3. Fits(L, K) /\ \A j \in 1..Len(K) : K[j].view < w
  BY DEF Candidate
<1>4. L2 = WithView(L, w, K)
  OBVIOUS
<1>5. /\ Inv(L, M, R, D) /\ GetLeaderIndex(w) = r /\ MsgsOK(L, M, R)
      /\ R \in [Replica -> RepType(M)]
  BY DEF Ready, Inv
<1>6. NewlyLeads(L2, M, s, K, d)
  OBVIOUS
<1>7. R[r] = s
  OBVIOUS
<1> HIDE DEF s
<1>8. /\ Ledger(L) /\ w \in Nat /\ w \notin DOMAIN L /\ RepOK(L, M, s, r)
  BY <1>1 DEF Fresh
<1>9. ViewAdded(L, w, K, L2)
  BY <1>3, <1>4, <1>8, WithViewLemma
<1>10. /\ Grown(L, L2) /\ Ledger(L2) /\ DOMAIN L2 = DOMAIN L \cup {w}
       /\ L2[w] = K /\ \A v \in DOMAIN L : L2[v] = L[v]
       /\ Fits(L2, K) /\ Started(L2, w, Len(K)) /\ Has(L2, K, w, Len(K))
  BY <1>9 DEF ViewAdded
<1>11. /\ d \in RepType(M) /\ ExecOK(d) /\ SetsOK(d) /\ d.status = "NORMAL"
       /\ d.view = w /\ d.log = K /\ s.lastCommitted <= d.lastCommitted
       /\ Committed(L2, M, K, d.lastCommitted, w)
  BY <1>6 DEF NewlyLeads
<1>12. w <= w /\ w >= w
  BY <1>8, SMTT(30)
<1>13. M \cup {} = M
  OBVIOUS
<1> HIDE DEF w
<1>14. VoteOK(L2, M, d, r)
  <2> SUFFICES ASSUME NEW v \in DOMAIN L2, NEW i \in Nat, Voted(L2, M, r, v, i)
               PROVE  v <= w /\ Kept(L2, K, v, i, w + 1)
    BY <1>11 DEF VoteOK
  <2>1. CASE v = w
    <3>1. i <= Len(K) /\ Len(K) \in Nat
      BY <1>3, <1>8, <1>10, <2>1, FitsFacts DEF Voted
    <3> Has(L2, K, w, i)
      BY <1>10, <3>1, HasLess
    <3> QED BY <1>12, <2>1 DEF Kept
  <2>2. CASE v # w
    <3>1. v \in DOMAIN L /\ L2[v] = L[v]
      BY <1>10, <2>2
    <3>2. Voted(L, M, r, v, i)
      BY <3>1 DEF Voted
    <3>3. v <= w
      BY <1>8, <3>1, <3>2 DEF RepOK, VoteOK, w
    <3>4. v \in Nat
      BY <1>8, <3>1, LedgerFacts
    <3> v < w /\ w < w + 1
      BY <1>8, <2>2, <3>3, <3>4, SMTT(30)
    <3> QED BY <1>10, <3>3 DEF Kept
  <2> QED BY <2>1, <2>2
<1>15. PlaceOK(L2, d, r)
  <2> \A j \in 1..Len(K) : K[j].view # w
    BY <1>3, <1>8, SMTT(30) DEF w
  <2> QED BY <1>3, <1>5, <1>10, <1>11 DEF PlaceOK, w
<1>16. RepOK(L2, M, d, r)
  BY <1>10, <1>11, <1>14, <1>15 DEF RepOK
<1>17. Change(L, L2, s, r, d, {})
  <2> s.view <= d.view
    BY <1>11, <1>12 DEF w
  <2> QED BY <1>5, <1>10, <1>11 DEF Change, w
<1>18. StartedOK(L, L2, M, [R EXCEPT ![r] = d])
  <2> SUFFICES QuorumAt(L2, M, [R EXCEPT ![r] = d], w)
    BY <1>10 DEF StartedOK
  <2>1. w # 0 /\ w \in DOMAIN L2
    BY <1>8, <1>10 DEF Ledger
  <2>2. QuorumAt(L2, M, R, w)
    BY <1>2, <2>1 DEF QuorumsAt
  <2>3. PICK Q \in Quorums : \A q \in Q :
           /\ R[q].view >= w
           /\ \A v \in DOMAIN L2 : \A i \in Nat :
                v < w /\ Own(L2, v, i) /\ Voted(L2, M, q, v, i) => Kept(L2, L2[w], v, i, w)
    BY <2>2 DEF QuorumAt
  <2>4. ASSUME NEW q \in Q PROVE [R EXCEPT ![r] = d][q].view >= w
    <3>1. q \in Replica
      BY DEF Quorums
    <3>2. CASE q = r
      BY <1>5, <1>11, <1>12, <3>2
    <3>3. CASE q # r
      <4> [R EXCEPT ![r] = d][q] = R[q]
        BY <1>5, <3>1, <3>3
      <4> QED BY <2>3
    <3> QED BY <3>2, <3>3
  <2> QED BY <2>3, <2>4 DEF QuorumAt
<1>19. SentOK(L2, M, [R EXCEPT ![r] = d], {}) /\ NewlyDecided(L2, M, D, D)
  BY DEF SentOK, NewlyDecided
<1> Inv(L2, M \cup {}, [R EXCEPT ![r] = d], D)
  BY <1>5, <1>7, <1>13, <1>16, <1>17, <1>18, <1>19, StepLemma, ZenonT(90)
<1> QED BY <1>13

\* A DOVIEWCHANGE tells the last viewstamp of the log it was sent with.
Stamped(L, y, H) ==
  /\ y.lastnormalview \in DOMAIN L /\ y.lastnormalview \in Nat
  /\ y.lastop \in Nat /\ y.lastop <= Len(L[y.lastnormalview])
  /\ y.lastnormalview <= y.view /\ y.lastcommitted \in Nat /\ y.lastcommitted <= y.lastop
  /\ Len(H) = y.lastop /\ LastViewstamp(H).view = y.lastnormalview
  /\ y.lastop = 0 => y.lastnormalview = 0

\* It follows from what is known of the message.
LEMMA StampedLemma ==
  ASSUME NEW L, Ledger(L), NEW M, NEW y, y.view \in Nat, NEW H, DoViewChangeFrom(L, M, y, H)
  PROVE  Stamped(L, y, H)
<1> /\ Fits(L, H) /\ Len(H) = y.lastop /\ LastViewstamp(H).view = y.lastnormalview
    /\ \A i \in 1..Len(H) : H[i].view < y.view
    /\ y.lastcommitted \in Nat /\ y.lastcommitted <= y.lastop
  BY DEF DoViewChangeFrom, Committed
<1> Len(H) \in Nat /\ Numbered(H)
  BY FitsFacts DEF Numbered
<1>3. /\ Len(H) = 0 => y.lastnormalview = 0
      /\ Len(H) # 0 => y.lastnormalview = H[Len(H)].view
  BY LastLemma
<1>4. CASE Len(H) = 0
  <2>1. 0 \in DOMAIN L
    BY DEF Ledger
  <2>2. Len(L[0]) \in Nat
    BY <2>1, LedgerFacts
  <2> 0 <= Len(L[0]) /\ 0 <= y.view /\ 0 \in Nat
    BY <2>2, SMTT(30)
  <2> QED BY <1>3, <1>4, <2>1 DEF Stamped
<1>5. CASE Len(H) # 0
  <2>1. Len(H) \in 1..Len(H)
    BY <1>5, SMTT(30)
  <2> /\ H[Len(H)].view \in DOMAIN L /\ H[Len(H)].view \in Nat
      /\ Has(L, H, H[Len(H)].view, Len(H))
    BY <2>1, FitsFacts
  <2>3. Len(H) <= Len(L[H[Len(H)].view])
    BY DEF Has
  <2> H[Len(H)].view <= y.view
    BY <2>1, SMTT(30)
  <2> QED BY <1>3, <1>5, <2>3 DEF Stamped
<1> QED BY <1>4, <1>5

\* The last viewstamp of the replica's own log, as LatestMessages has it.
OwnStamp(s) ==
  [lastnormalview |-> LastViewstamp(s.log).view, lastop |-> LastViewstamp(s.log).opnum]

\* It is the number and the view of the last entry.
LEMMA OwnStampLemma ==
  ASSUME NEW L, Ledger(L), NEW s, Fits(L, s.log)
  PROVE  /\ OwnStamp(s).lastnormalview = LastViewstamp(s.log).view
         /\ OwnStamp(s).lastop = Len(s.log)
         /\ OwnStamp(s).lastnormalview \in Nat /\ OwnStamp(s).lastop \in Nat
<1> Len(s.log) \in Nat /\ Numbered(s.log)
  BY FitsFacts DEF Numbered
<1>2. /\ LastOpnum(s.log) = Len(s.log)
      /\ Len(s.log) = 0 => LastViewstamp(s.log).view = 0
      /\ Len(s.log) # 0 => LastViewstamp(s.log).view = s.log[Len(s.log)].view
  BY LastLemma
<1>3. Len(s.log) # 0 => Len(s.log) \in 1..Len(s.log)
  BY SMTT(30)
<1>4. Len(s.log) # 0 => s.log[Len(s.log)].view \in Nat
  BY <1>3, FitsFacts
<1>5. LastViewstamp(s.log).view \in Nat
  <2> 0 \in Nat
    BY SMTT(30)
  <2> QED BY <1>2, <1>4
<1> LastViewstamp(s.log).opnum = Len(s.log)
  BY <1>2 DEF LastOpnum
<1> QED BY <1>5 DEF OwnStamp

\* Of the messages that are later than the replica's own log, if there are any,
\* some are the latest.
LEMMA LatestExists ==
  ASSUME Counting, NEW L, NEW M, NEW R, NEW r, NEW s, Fresh(L, M, R, r, s),
         NEW y0 \in s.doViewChanges, ~NotBefore(OwnStamp(s), y0)
  PROVE  LatestMessages(s, s.doViewChanges) # {}
<1> DEFINE ms == s.doViewChanges
           own == OwnStamp(s)
           Y == {y \in ms : ~NotBefore(own, y)}
           V == {y.lastnormalview : y \in Y}
<1> /\ Ledger(L) /\ Fits(L, s.log) /\ s.view \in Nat
    /\ \A y \in ms : y.view = s.view /\ DoViewChangeMsg(L, M, R, y)
  BY DEF Fresh
<1>2. ASSUME NEW y \in ms
      PROVE  /\ y.lastnormalview \in DOMAIN L /\ y.lastnormalview \in Nat
             /\ y.lastop \in Nat /\ y.lastop <= Len(L[y.lastnormalview])
             /\ y.lastnormalview <= s.view
  <2>1. PICK H \in Seq(LogEntry) : DoViewChangeFrom(L, M, y, H)
    BY <1>2 DEF DoViewChangeMsg
  <2> Stamped(L, y, H)
    BY <1>2, <2>1, StampedLemma
  <2> QED BY <1>2 DEF Stamped
<1>3. own.lastnormalview \in Nat /\ own.lastop \in Nat
  BY OwnStampLemma
<1>4. y0 \in Y
  OBVIOUS
<1>5. V \subseteq Nat /\ V # {} /\ \A v \in V : v <= s.view
  BY <1>2, <1>4
<1> HIDE DEF V
<1>6. PICK v \in V : \A z \in V : z <= v
  BY <1>5, Greatest
<1>7. PICK y1 \in Y : y1.lastnormalview = v
  BY DEF V
<1> DEFINE O == {y.lastop : y \in {z \in Y : z.lastnormalview = v}}
<1>8. O \subseteq Nat /\ O # {} /\ \A o \in O : o <= Len(L[v])
  BY <1>2, <1>7
<1>9. Len(L[v]) \in Nat
  BY <1>2, <1>7, LedgerFacts
<1> HIDE DEF O
<1>10. PICK o \in O : \A z \in O : z <= o
  BY <1>8, <1>9, Greatest
<1>11. PICK x \in Y : x.lastnormalview = v /\ x.lastop = o
  BY DEF O
<1>12. ASSUME NEW y \in ms PROVE NotBefore(x, y)
  <2>1. /\ y.lastnormalview \in Nat /\ y.lastop \in Nat
        /\ x.lastnormalview \in Nat /\ x.lastop \in Nat
    BY <1>2, <1>12
  <2>2. CASE y \in Y
    <3>1. y.lastnormalview <= x.lastnormalview
      BY <1>6, <1>11, <2>2 DEF V
    <3> y.lastnormalview = x.lastnormalview => y.lastop <= x.lastop
      BY <1>10, <1>11, <2>2 DEF O
    <3> QED BY <2>1, <3>1, SMTT(30) DEF NotBefore
  <2>3. CASE y \notin Y
    <3>1. NotBefore(own, y) /\ ~NotBefore(own, x)
      BY <1>12, <2>3
    <3> HIDE DEF own
    <3> QED BY <1>3, <2>1, <3>1, SMTT(30) DEF NotBefore
  <2> QED BY <2>2, <2>3
<1> x \in LatestMessages(s, ms)
  BY <1>12 DEF LatestMessages, OwnStamp
<1> QED OBVIOUS

\* The log NewLeader takes is a candidate: its own, when no message is later,
LEMMA CandidateOwn ==
  ASSUME Counting, NEW L, NEW M, NEW R, NEW r, NEW s, Fresh(L, M, R, r, s),
         LatestMessages(s, s.doViewChanges) = {}
  PROVE  Candidate(L, M, s, s.log)
<1> /\ Ledger(L) /\ Fits(L, s.log) /\ \A j \in 1..Len(s.log) : s.log[j].view < s.view
    /\ s.view \in Nat /\ \A y \in s.doViewChanges : y.view = s.view
  BY DEF Fresh
<1>2. /\ OwnStamp(s).lastnormalview = LastViewstamp(s.log).view
      /\ OwnStamp(s).lastop = Len(s.log)
      /\ OwnStamp(s).lastnormalview \in Nat /\ OwnStamp(s).lastop \in Nat
  BY OwnStampLemma
<1>3. NotOlder(s.log, s.log)
  <2> Len(s.log) >= Len(s.log)
    BY <1>2, SMTT(30)
  <2> QED BY DEF NotOlder
<1>4. ASSUME NEW y \in s.doViewChanges, NEW H, DoViewChangeFrom(L, M, y, H)
      PROVE  NotOlder(s.log, H)
  <2>1. NotBefore(OwnStamp(s), y)
    BY <1>4, LatestExists
  <2>2. Stamped(L, y, H)
    BY <1>4, StampedLemma
  <2> Len(H) = y.lastop /\ LastViewstamp(H).view = y.lastnormalview
    BY <2>2 DEF Stamped
  <2> QED BY <1>2, <2>1 DEF NotBefore, NotOlder
<1> QED BY <1>3, <1>4 DEF Candidate

\* and the log of one of the latest messages otherwise, which is not empty.
LEMMA CandidateOf ==
  ASSUME NEW L, NEW M, NEW R, NEW r, NEW s, Fresh(L, M, R, r, s),
         NEW x \in LatestMessages(s, s.doViewChanges),
         NEW K, DoViewChangeFrom(L, M, x, K)
  PROVE  Candidate(L, M, s, K) /\ Len(K) \in Nat \ {0}
<1> /\ Ledger(L) /\ Fits(L, s.log) /\ s.view \in Nat
    /\ \A y \in s.doViewChanges : y.view = s.view
  BY DEF Fresh
<1> /\ OwnStamp(s).lastnormalview = LastViewstamp(s.log).view
    /\ OwnStamp(s).lastop = Len(s.log)
    /\ OwnStamp(s).lastnormalview \in Nat /\ OwnStamp(s).lastop \in Nat
  BY OwnStampLemma
<1> /\ x \in s.doViewChanges /\ \A y \in s.doViewChanges : NotBefore(x, y)
    /\ ~NotBefore(OwnStamp(s), x)
  BY DEF LatestMessages, OwnStamp
<1>4. Stamped(L, x, K)
  BY StampedLemma
<1> /\ Len(K) = x.lastop /\ LastViewstamp(K).view = x.lastnormalview
    /\ x.lastop \in Nat /\ x.lastnormalview \in Nat
    /\ x.lastop = 0 => x.lastnormalview = 0
  BY <1>4 DEF Stamped
<1>6. Fits(L, K) /\ \A j \in 1..Len(K) : K[j].view < s.view
  BY DEF DoViewChangeFrom
<1>7. ~(OwnStamp(s).lastnormalview > x.lastnormalview) /\
      ~(OwnStamp(s).lastnormalview = x.lastnormalview /\ OwnStamp(s).lastop >= x.lastop)
  BY DEF NotBefore
<1>8. NotOlder(K, s.log)
  <2> \/ x.lastnormalview > OwnStamp(s).lastnormalview
      \/ x.lastnormalview = OwnStamp(s).lastnormalview /\ x.lastop >= OwnStamp(s).lastop
    BY <1>7, SMTT(30)
  <2> QED BY DEF NotOlder
<1>9. x.lastop # 0
  BY <1>7, SMTT(30)
<1>10. ASSUME NEW y \in s.doViewChanges, NEW H, DoViewChangeFrom(L, M, y, H)
       PROVE  NotOlder(K, H)
  <2>1. NotBefore(x, y)
    BY <1>10
  <2>2. Stamped(L, y, H)
    BY <1>10, StampedLemma
  <2> Len(H) = y.lastop /\ LastViewstamp(H).view = y.lastnormalview
    BY <2>2 DEF Stamped
  <2> QED BY <2>1 DEF NotBefore, NotOlder
<1> Candidate(L, M, s, K)
  BY <1>6, <1>8, <1>10 DEF Candidate
<1> QED BY <1>9

\* NewLeader ends with a replica d that has panicked, or leads its view.
Led(L, M, R, D, r, d) ==
  \/ d.status = "PANIC" /\ Inv(L, M, [R EXCEPT ![r] = d], D)
  \/ /\ d.status = "NORMAL" /\ d.view = R[r].view /\ R[r].lastCommitted <= d.lastCommitted
     /\ \E L2 : Inv(L2, M, [R EXCEPT ![r] = d], D)

\* The replica the new leader becomes with the log it has.
LEMMA OwnLog ==
  ASSUME Counting, NEW L, NEW M, NEW R, NEW D, NEW r \in Replica, Ready(L, M, R, D, r),
         Candidate(L, M, R[r], R[r].log),
         NEW d, d = [EnterView(R[r], R[r].view) EXCEPT !.lastOp = LastOpnum(R[r].log)]
  PROVE  Led(L, M, R, D, r, d)
<1> DEFINE s == R[r]
           w == s.view
           L2 == WithView(L, w, s.log)
<1>1. Fresh(L, M, R, r, s)
  BY ReadyFacts
<1>2. Succeeds(L2, M, s, s.log)
  BY CandidateSucceeds
<1>3. R[r] = s /\ d = [EnterView(s, w) EXCEPT !.lastOp = LastOpnum(s.log)]
  OBVIOUS
<1> HIDE DEF s, L2
<1> /\ Ledger(L) /\ s \in RepType(M) /\ ExecOK(s) /\ w \in Nat /\ Fits(L, s.log)
  BY <1>1 DEF Fresh
<1>5. Len(s.log) \in Nat /\ LastOpnum(s.log) = Len(s.log)
  <2> Numbered(s.log)
    BY FitsFacts DEF Numbered
  <2> QED BY LastLemma
<1>6. EnteredAs(M, s, w, Len(s.log), d)
  <2> d = [EnterView(s, w) EXCEPT !.lastOp = Len(s.log)]
    BY <1>3, <1>5
  <2> QED BY <1>5, EnteredLemma
<1> /\ d \in RepType(M) /\ SetsOK(d) /\ d.view = w /\ d.status = "NORMAL"
    /\ d.log = s.log /\ d.lastOp = Len(s.log) /\ d.lastCommitted = s.lastCommitted
    /\ d.executed = s.executed
  BY <1>6 DEF EnteredAs
<1>8. ExecOK(d)
  BY DEF ExecOK
<1>9. s.lastCommitted <= d.lastCommitted /\ Committed(L2, M, s.log, d.lastCommitted, d.view)
  <2>1. s.lastCommitted \in Nat /\ Committed(L2, M, s.log, s.lastCommitted, w)
    BY <1>2 DEF Succeeds
  <2> s.lastCommitted <= s.lastCommitted
    BY <2>1, SMTT(30)
  <2> QED BY <2>1
<1>10. NewlyLeads(L2, M, s, s.log, d)
  BY <1>8, <1>9 DEF NewlyLeads
<1> Inv(L2, M, [R EXCEPT ![r] = d], D)
  BY <1>10, LeadStep DEF s, L2
<1> QED BY <1>3, <1>9 DEF Led

\* Replica s takes the log of message x: t has it, e has entered the view with
\* it, and d is what the replica becomes.
Taken(s, x, t, e, d) ==
  /\ t = Installed(s, x)
  /\ e = [EnterView(t, s.view) EXCEPT !.lastOp = x.lastop]
  /\ d = IF t.status = "PANIC" THEN t ELSE CommitUpTo(e, x.lastcommitted)

\* The replica the new leader becomes with the log of message x.
LEMMA TakenLog ==
  ASSUME Counting, NEW L, NEW M, NEW R, NEW D, NEW r \in Replica, Ready(L, M, R, D, r),
         NEW K, Candidate(L, M, R[r], K), Len(K) \in Nat \ {0},
         NEW x, DoViewChangeFrom(L, M, x, K), x.view = R[r].view,
         NEW t, NEW e, NEW d, Taken(R[r], x, t, e, d)
  PROVE  Led(L, M, R, D, r, d)
<1> DEFINE s == R[r]
           w == s.view
           L2 == WithView(L, w, K)
<1>1. Fresh(L, M, R, r, s)
  BY ReadyFacts
<1>2. Succeeds(L2, M, s, K)
  BY CandidateSucceeds
<1>3. R[r] = s /\ Taken(s, x, t, e, d) /\ x.view = w
  OBVIOUS
<1>4. Inv(L, M, R, D) /\ s.status = "VIEW_CHANGE"
  BY DEF Ready
<1>5. Fits(L, K) /\ \A j \in 1..Len(K) : K[j].view < w
  BY DEF Candidate
<1> HIDE DEF s
<1> /\ Ledger(L) /\ s \in RepType(M) /\ ExecOK(s) /\ SetsOK(s) /\ w \in Nat
    /\ w \notin DOMAIN L /\ Fits(L, s.log)
  BY <1>1 DEF Fresh
<1>7. ViewAdded(L, w, K, L2)
  BY <1>5, WithViewLemma
<1> HIDE DEF L2
<1>8. Grown(L, L2)
  BY <1>7 DEF ViewAdded
<1>9. Numbered(K) /\ Numbered(s.log)
  BY <1>5, FitsFacts DEF Numbered
<1>10. /\ Len(K) = x.lastop /\ x.lastcommitted <= x.lastop
       /\ Committed(L, M, K, x.lastcommitted, w) /\ x.lastcommitted \in Nat
       /\ \E a \in Nat : Slice(x.entries, K, a, x.lastop) /\ (a = 1 \/ a <= x.lastop)
  BY <1>3 DEF DoViewChangeFrom, Committed
<1>11. PICK a \in Nat : Slice(x.entries, K, a, x.lastop) /\ (a = 1 \/ a <= x.lastop)
  BY <1>10
<1>12. a <= x.lastop /\ x.lastop \in Nat
  BY <1>10, <1>11, SMTT(30)
<1>13. /\ Agrees(s, K, Len(K)) /\ s.lastCommitted \in Nat /\ s.lastCommitted <= Len(K)
       /\ \A j \in 1..s.lastCommitted : s.log[j] = K[j]
       /\ Committed(L2, M, K, s.lastCommitted, w)
  BY <1>2 DEF Succeeds
<1>14. s.lastCommitted <= Len(s.log) /\ s.status # "PANIC"
  BY <1>4 DEF ExecOK
<1>15. TookOver(M, s, K, x, a, t)
  <2>1. Fitting(M, s, K, x, a)
    BY <1>9, <1>10, <1>11, <1>13, <1>14 DEF Fitting
  <2> TookOver(M, s, K, x, a, Installed(s, x))
    BY <2>1, InstalledLemma
  <2> QED BY <1>3 DEF Taken
<1>16. CASE t.status = "PANIC"
  <2>1. d = t
    BY <1>3, <1>16 DEF Taken
  <2>2. /\ t \in RepType(M) /\ t.view = s.view
        /\ t.lastOp = s.lastOp /\ t.lastCommitted = s.lastCommitted
        /\ t.executed = s.executed /\ t.clientTable = s.clientTable
        /\ t.prepareOKs = s.prepareOKs /\ t.startViewChanges = s.startViewChanges
        /\ t.doViewChanges = s.doViewChanges /\ t.log = s.log
    BY <1>15, <1>16 DEF TookOver
  <2>3. SetsOK(t)
    BY <1>16, <2>2 DEF SetsOK
  <2>4. t \in RepType(M \cup {}) /\ SentOK(L, M \cup {}, [R EXCEPT ![r] = t], {})
    BY <2>2 DEF SentOK
  <2>5. Inv(L, M \cup {}, [R EXCEPT ![r] = t], D)
    BY <1>3, <1>4, <1>16, <2>2, <2>3, <2>4, QuietStep
  <2> M \cup {} = M
    OBVIOUS
  <2> QED BY <1>16, <2>1, <2>5 DEF Led
<1>17. CASE t.status # "PANIC"
  <2>1. /\ d = CommitUpTo(e, x.lastcommitted)
        /\ e = [EnterView(t, w) EXCEPT !.lastOp = x.lastop]
    BY <1>3, <1>17 DEF Taken
  <2>2. /\ t \in RepType(M) /\ t.lastCommitted = s.lastCommitted
        /\ t.executed = s.executed
        /\ Len(t.log) = x.lastop /\ \A j \in 1..x.lastop : t.log[j] = K[j]
    BY <1>12, <1>15, <1>17 DEF TookOver
  <2>3. t.log = K
    <3> t.log \in Seq(LogEntry) /\ K \in Seq(LogEntry)
      BY <1>9, <2>2 DEF RepType, Numbered
    <3> QED BY <1>10, <2>2, SMTT(30)
  <2>4. EnteredAs(M, t, w, x.lastop, e)
    BY <1>12, <2>1, <2>2, EnteredLemma
  <2>5. /\ e \in RepType(M) /\ SetsOK(e) /\ e.view = w /\ e.status = "NORMAL"
        /\ e.log = K /\ e.lastOp = Len(K) /\ e.lastCommitted = s.lastCommitted
        /\ e.executed = s.executed
    BY <1>10, <2>2, <2>3, <2>4 DEF EnteredAs
  <2>6. ExecOK(e)
    <3>1. /\ Len(s.executed) = s.lastCommitted
          /\ \A i \in 1..s.lastCommitted : s.executed[i] = s.log[i].request
      BY DEF ExecOK
    <3>2. \A i \in 1..e.lastCommitted : e.executed[i] = e.log[i].request
      BY <1>13, <2>5, <3>1
    <3> e.lastCommitted <= Len(e.log) /\ Len(e.executed) = e.lastCommitted
      BY <1>13, <2>5, <3>1
    <3> QED BY <2>5, <3>2 DEF ExecOK
  <2>7. x.lastcommitted <= Len(e.log)
    BY <1>10, <2>5
  <2>8. CommitsTo(M, e, x.lastcommitted, CommitUpTo(e, x.lastcommitted))
    BY <1>10, <2>5, <2>6, <2>7, CommitLemma, ZenonT(90)
  <2>9. /\ d \in RepType(M) /\ ExecOK(d)
        /\ d.lastCommitted = IF x.lastcommitted <= s.lastCommitted
                               THEN s.lastCommitted ELSE x.lastcommitted
        /\ d.log = K /\ d.view = w /\ d.status = "NORMAL"
        /\ d.prepareOKs = e.prepareOKs /\ d.startViewChanges = e.startViewChanges
        /\ d.doViewChanges = e.doViewChanges
    BY <2>1, <2>5, <2>8 DEF CommitsTo
  <2>10. SetsOK(d)
    <3>1. d.view = e.view /\ d.status = e.status
      BY <2>5, <2>9
    <3> SetsOK(e)
      BY <2>5
    <3> QED BY <2>9, <3>1 DEF SetsOK
  <2>11. Committed(L2, M, K, d.lastCommitted, w)
    <3>1. w <= w /\ M \subseteq M /\ Len(K) \in Nat
      BY SMTT(30)
    <3> Committed(L2, M, K, x.lastcommitted, w)
      BY <1>8, <1>10, <3>1, GrownCommitted
    <3> QED BY <1>13, <2>9
  <2>12. s.lastCommitted <= d.lastCommitted
    BY <1>10, <1>13, <2>9, SMTT(30)
  <2>13. NewlyLeads(L2, M, s, K, d)
    BY <2>9, <2>10, <2>11, <2>12 DEF NewlyLeads
  <2> Inv(L2, M, [R EXCEPT ![r] = d], D)
    BY <2>13, LeadStep DEF s, L2
  <2> QED BY <1>3, <2>9, <2>12 DEF Led
<1> QED BY <1>16, <1>17

\* The first of a set of messages, by the replicas that sent them.
LEMMA FirstMessage ==
  ASSUME Counting, NEW X, X # {}, \A y \in X : y.replicaidx \in Replica
  PROVE  (CHOOSE x \in X : \A y \in X : x.replicaidx <= y.replicaidx) \in X
<1> DEFINE T == {y.replicaidx : y \in X}
<1>1. Replica \subseteq Nat
  BY VRAssumption, SMTT(30) DEF Replica
<1>2. T \subseteq Nat /\ T # {}
  BY <1>1
<1>3. PICK i \in T : \A j \in T : i <= j
  BY <1>2, Least
<1> \E x \in X : \A y \in X : x.replicaidx <= y.replicaidx
  BY <1>3
<1> QED OBVIOUS

\* NewLeader.
LEMMA NewLeaderStep ==
  ASSUME Counting, NEW L, NEW M, NEW R, NEW D, NEW r \in Replica, Ready(L, M, R, D, r),
         NEW s, s = R[r]
  PROVE  Led(L, M, R, D, r, NewLeader(s, LatestMessages(s, s.doViewChanges)))
<1> DEFINE latest == LatestMessages(s, s.doViewChanges)
           x == CHOOSE x \in latest : \A y \in latest : x.replicaidx <= y.replicaidx
           d == NewLeader(s, latest)
<1> Fresh(L, M, R, r, s) /\ s.status # "PANIC"
  BY ReadyFacts DEF Ready
<1> \A y \in s.doViewChanges : y.view = s.view /\ DoViewChangeMsg(L, M, R, y)
  BY DEF Fresh
<1>3. CASE latest = {}
  <2>1. Candidate(L, M, s, s.log)
    BY <1>3, CandidateOwn
  <2>2. d = [EnterView(s, s.view) EXCEPT !.lastOp = LastOpnum(s.log)]
    BY <1>3 DEF NewLeader
  <2> HIDE DEF d
  <2> Led(L, M, R, D, r, d)
    BY <2>1, <2>2, OwnLog
  <2> QED BY DEF d
<1>4. CASE latest # {}
  <2> \A y \in latest : y \in s.doViewChanges
    BY DEF LatestMessages
  <2>2. \A y \in latest : y.replicaidx \in Replica
    BY DEF DoViewChangeMsg
  <2> x \in latest
    BY <1>4, <2>2, FirstMessage
  <2> DEFINE t == Installed(s, x)
             e == [EnterView(t, s.view) EXCEPT !.lastOp = x.lastop]
  <2>4. Taken(s, x, t, e, d)
    <3>1. d = IF t.status = "PANIC" THEN t ELSE CommitUpTo(e, x.lastcommitted)
      BY <1>4, SMTT(30) DEF NewLeader
    <3> HIDE DEF d, x, latest
    <3> QED BY <3>1 DEF Taken
  <2> HIDE DEF d, x, latest
  <2>5. PICK K \in Seq(LogEntry) : DoViewChangeFrom(L, M, x, K)
    BY DEF DoViewChangeMsg
  <2>6. Candidate(L, M, s, K) /\ Len(K) \in Nat \ {0}
    BY <2>5, CandidateOf DEF latest
  <2>7. x.view = s.view
    OBVIOUS
  <2> HIDE DEF t, e
  <2>8. Taken(R[r], x, t, e, d) /\ x.view = R[r].view /\ Candidate(L, M, R[r], K)
    BY <2>4, <2>6, <2>7
  <2> Led(L, M, R, D, r, d)
    BY <2>5, <2>6, <2>8, TakenLog
  <2> QED BY DEF d, latest
<1> QED BY <1>3, <1>4

\* The STARTVIEW of a new leader.
LEMMA StartViewSent ==
  ASSUME NEW L, NEW M, NEW R, NEW D, NEW r \in Replica, Inv(L, M, R, D), Leads(R[r], r),
         NEW from \in Nat, from <= R[r].lastCommitted
  PROVE  Inv(L, M \cup {StartViewMessage(R[r], from)}, R, D)
<1> DEFINE s == R[r]
           m == StartViewMessage(s, from)
           out == {m}
           M2 == M \cup out
           a == IF from = 0 THEN 1 ELSE from
<1>1. LeaderOK(L, M, s, r)
  BY LeadsFacts
<1>2. from <= s.lastCommitted
  OBVIOUS
<1> HIDE DEF s
<1> /\ Ledger(L) /\ s.view \in DOMAIN L /\ s.log = L[s.view] /\ s.view \in Nat
    /\ Len(s.log) \in Nat /\ s.lastOp = Len(s.log) /\ s.lastCommitted \in Nat
    /\ s.lastCommitted <= Len(s.log)
    /\ Committed(L, M, L[s.view], s.lastCommitted, s.view)
  BY <1>1 DEF LeaderOK
<1> /\ m.type = "STARTVIEW" /\ m.view = s.view /\ m.lastop = s.lastOp
    /\ m.lastcommitted = s.lastCommitted /\ m.entries = Dump(s.log, from)
  BY DEF StartViewMessage
<1> HIDE DEF m
<1>5. Committed(L, M2, L[s.view], s.lastCommitted, s.view)
  <2>1. M \subseteq M2
    OBVIOUS
  <2> HIDE DEF M2
  <2> QED BY <2>1, CommittedMore
<1>6. Fits(L, s.log)
  BY DEF Ledger
<1>7. Numbered(s.log)
  BY <1>6 DEF Fits, Numbered
<1>8. Slice(m.entries, L[m.view], a, m.lastop)
  <2>1. Slice(Dump(s.log, from), s.log, a, Len(s.log))
    BY <1>7, DumpLemma
  <2> HIDE DEF a
  <2> QED BY <2>1
<1>9. a \in Nat /\ (a = 1 \/ a <= m.lastop)
  BY <1>2, SMTT(30)
<1>10. Started(L, m.view, m.lastop)
  <2> \A i \in 1..Len(s.log) : ~(i > Len(s.log))
    BY SMTT(30)
  <2> QED BY DEF Started
<1> HIDE DEF a
<1>11. StartViewMsg(L, M2, m)
  <2> HIDE DEF M2
  <2> Committed(L, M2, L[m.view], m.lastcommitted, m.view) /\ m.lastcommitted <= m.lastop
    BY <1>5
  <2> QED BY <1>8, <1>9, <1>10 DEF StartViewMsg
<1>12. SentOK(L, M2, R, out) /\ \A x \in out : x.type # "PREPAREOK"
  <2> MsgOK(L, M2, R, m)
    <3> HIDE DEF M2
    <3> QED BY <1>11 DEF MsgOK
  <2> QED BY DEF SentOK
<1> HIDE DEF out
<1>13. Inv(L, M2, [R EXCEPT ![r] = R[r]], D)
  BY <1>12, SendStep
<1> [R EXCEPT ![r] = R[r]] = R
  BY SameRep
<1> QED BY <1>13 DEF s, m, out

\* StartViewFrom.
LEMMA FromLemma ==
  ASSUME Counting, NEW L, NEW M, NEW R, NEW D, NEW r \in Replica, Inv(L, M, R, D),
         NEW from \in StartViewFrom(R[r])
  PROVE  from \in Nat /\ from <= R[r].lastCommitted
<1> DEFINE s == R[r]
<1> s \in RepType(M) /\ SetsOK(s) /\ MsgsOK(L, M, R) /\ from \in StartViewFrom(s)
  BY DEF Inv, RepOK
<1> HIDE DEF s
<1> /\ s.lastCommitted \in Nat /\ s.startViewChanges \subseteq M /\ s.doViewChanges \subseteq M
  BY DEF RepType
<1>3. \A x \in s.startViewChanges : x.lastcommitted \in Nat
  BY DEF SetsOK, MsgsOK, MsgOK, StartViewChangeMsg
<1>4. \A x \in s.doViewChanges : x.lastcommitted \in Nat
  <2> SUFFICES ASSUME NEW x \in s.doViewChanges PROVE x.lastcommitted \in Nat
    OBVIOUS
  <2>1. x.type = "DOVIEWCHANGE" /\ x \in M
    BY DEF SetsOK
  <2> DoViewChangeMsg(L, M, R, x)
    BY <2>1 DEF MsgsOK, MsgOK
  <2> QED BY DEF DoViewChangeMsg, DoViewChangeFrom, Committed
<1>5. CASE s.startViewChanges = {}
  <2>1. from \in 0..MinCommitted(s, s.doViewChanges)
    BY <1>5 DEF StartViewFrom
  <2>2. /\ MinCommitted(s, s.doViewChanges) \in Nat
        /\ MinCommitted(s, s.doViewChanges) <= s.lastCommitted
    BY <1>4, MinLemma
  <2> from \in Nat /\ from <= s.lastCommitted
    BY <2>1, <2>2, SMTT(30)
  <2> QED BY DEF s
<1>6. CASE s.startViewChanges # {}
  <2> DEFINE ms == s.startViewChanges \cup s.doViewChanges
  <2>1. from = MinCommitted(s, ms)
    BY <1>6 DEF StartViewFrom
  <2>2. \A x \in ms : x.lastcommitted \in Nat
    BY <1>3, <1>4
  <2> HIDE DEF ms
  <2> MinCommitted(s, ms) \in Nat /\ MinCommitted(s, ms) <= s.lastCommitted
    BY <2>2, MinLemma
  <2> QED BY <2>1 DEF s
<1> QED BY <1>5, <1>6

\* t with DOVIEWCHANGE m.
WithMessage(t, m) == [t EXCEPT !.doViewChanges = AddMessage(@, m)]

\* A DOVIEWCHANGE joins those of its view.
LEMMA AddDoViewChange ==
  ASSUME NEW M, NEW t \in RepType(M), SetsOK(t), t.status = "VIEW_CHANGE",
         NEW m \in M, m.type = "DOVIEWCHANGE", m.view = t.view,
         NEW z, Joins(z, t, m), NEW s, s = WithMessage(t, m)
  PROVE  s \in RepType(M) /\ SetsOK(s) /\ Joins(z, s, m)
<1>1. t.doViewChanges \subseteq M
  BY DEF RepType
<1>2. /\ AddMessage(t.doViewChanges, m) \subseteq M
      /\ \A x \in AddMessage(t.doViewChanges, m) : x.type = "DOVIEWCHANGE" /\ x.view = t.view
      /\ \A x, y \in AddMessage(t.doViewChanges, m) : x.replicaidx = y.replicaidx => x = y
  BY <1>1 DEF AddMessage, SetsOK
<1> /\ s \in RepType(M) /\ s.log = t.log /\ s.lastOp = t.lastOp /\ s.view = t.view
    /\ s.lastCommitted = t.lastCommitted /\ s.executed = t.executed
    /\ s.clientTable = t.clientTable /\ s.status = t.status
    /\ s.prepareOKs = t.prepareOKs /\ s.startViewChanges = t.startViewChanges
    /\ s.doViewChanges = AddMessage(t.doViewChanges, m)
  BY <1>2 DEF RepType, WithMessage
<1>4. SetsOK(s)
  <2>1. /\ \A x \in t.prepareOKs : x.type = "PREPAREOK"
        /\ \A x \in t.startViewChanges : x.type = "STARTVIEWCHANGE"
    BY DEF SetsOK
  <2>2. s.status # "NORMAL"
    OBVIOUS
  <2>3. /\ \A x \in s.prepareOKs :
             x.type = "PREPAREOK" /\ (s.status = "NORMAL" => x.view = s.view)
        /\ \A x \in s.startViewChanges : x.type = "STARTVIEWCHANGE"
    BY <2>1, <2>2
  <2> /\ \A x \in s.doViewChanges : x.type = "DOVIEWCHANGE" /\ x.view = s.view
      /\ \A x, y \in s.doViewChanges : x.replicaidx = y.replicaidx => x = y
    BY <1>2
  <2> QED BY <2>3 DEF SetsOK
<1> Joins(z, s, m)
  BY DEF Joins
<1> QED BY <1>4

\* HandleDoViewChange.
LEMMA HandleDoViewChangeStep ==
  ASSUME Counting, NEW L, Inv(L, msgs, rep, decided), NEW r \in Replica,
         NEW m \in Received("DOVIEWCHANGE"), HandleDoViewChange(r, m)
  PROVE  \E L2 : Inv(L2, msgs', rep', decided')
<1> DEFINE z == rep[r]
           t == Joined(z, m)
           s == [t EXCEPT !.doViewChanges = AddMessage(@, m)]
           join == JoinMessage(z, r, m)
           M1 == msgs \cup join
           R1 == [rep EXCEPT ![r] = s]
           d == NewLeader(s, LatestMessages(s, s.doViewChanges))
           R2 == [rep EXCEPT ![r] = d]
<1> /\ m \in msgs /\ m.type = "DOVIEWCHANGE" /\ About(z, m) /\ decided' = decided
    /\ GetLeaderIndex(m.view) = r
    /\ \/ ~Quorum(s.doViewChanges) /\ rep' = R1 /\ msgs' = M1
       \/ Quorum(s.doViewChanges) /\ d.status = "PANIC" /\ rep' = R2 /\ msgs' = M1
       \/ /\ Quorum(s.doViewChanges) /\ d.status # "PANIC" /\ rep' = R2
          /\ \E from \in StartViewFrom(s) :
               msgs' = msgs \cup (join \cup {StartViewMessage(d, from)})
  BY DEF HandleDoViewChange, Received, Step, NoHistory
<1>2. m.view \in Nat
  BY DEF Inv, MsgsOK, MsgOK, DoViewChangeMsg
<1>3. z \in RepType(msgs) /\ SetsOK(z) /\ rep \in [Replica -> RepType(msgs)]
  BY DEF Inv, RepOK
<1>4. t \in RepType(msgs) /\ SetsOK(t) /\ Joins(z, t, m)
  <2> HIDE DEF z
  <2> LET e == Joined(z, m)
      IN  e \in RepType(msgs) /\ SetsOK(e) /\ Joins(z, e, m)
    BY <1>2, <1>3, JoinLemma
  <2> QED OBVIOUS
<1> HIDE DEF t
<1>5. t.status = "VIEW_CHANGE" /\ m.view = t.view /\ s = WithMessage(t, m)
  BY <1>4 DEF Joins, WithMessage
<1> HIDE DEF s
<1> s \in RepType(msgs) /\ SetsOK(s) /\ Joins(z, s, m)
  BY <1>4, <1>5, AddDoViewChange
<1> Inv(L, M1, R1, decided)
  BY <1>2, JoinStep
<1> R1[r] = s /\ R2[r] = d /\ R2 = [R1 EXCEPT ![r] = d]
  BY <1>3
<1> HIDE DEF M1, R1, d, z
<1>9. s.status = "VIEW_CHANGE" /\ s.view = m.view
  BY DEF Joins
<1>10. CASE ~Quorum(s.doViewChanges) /\ rep' = R1 /\ msgs' = M1
  BY <1>10
<1>11. ASSUME Quorum(s.doViewChanges)
       PROVE  Led(L, M1, R1, decided, r, d)
  <2> Ready(L, M1, R1, decided, r)
    BY <1>9, <1>11 DEF Ready
  <2> QED BY NewLeaderStep DEF d
<1>12. CASE Quorum(s.doViewChanges) /\ d.status = "PANIC" /\ rep' = R2 /\ msgs' = M1
  <2>1. Inv(L, M1, [R1 EXCEPT ![r] = d], decided)
    BY <1>11, <1>12 DEF Led
  <2> HIDE DEF R2
  <2> QED BY <1>12, <2>1
<1>13. CASE /\ Quorum(s.doViewChanges) /\ d.status # "PANIC" /\ rep' = R2
            /\ \E from \in StartViewFrom(s) :
                 msgs' = msgs \cup (join \cup {StartViewMessage(d, from)})
  <2> /\ d.status = "NORMAL" /\ d.view = s.view /\ s.lastCommitted <= d.lastCommitted
      /\ \E L2 : Inv(L2, M1, [R1 EXCEPT ![r] = d], decided)
    BY <1>11, <1>13 DEF Led
  <2> HIDE DEF R2
  <2>2. PICK L2 : Inv(L2, M1, R2, decided)
    OBVIOUS
  <2>3. PICK from \in StartViewFrom(s) : msgs' = msgs \cup (join \cup {StartViewMessage(d, from)})
    BY <1>13
  <2>4. msgs' = M1 \cup {StartViewMessage(R2[r], from)}
    BY <2>3 DEF M1
  <2>5. from \in Nat /\ from <= s.lastCommitted
    BY <2>3, FromLemma
  <2>6. Leads(R2[r], r)
    BY <1>9 DEF Leads, AmLeader
  <2>7. R2[r].lastCommitted \in Nat /\ s.lastCommitted \in Nat
    <3> LeaderOK(L2, M1, R2[r], r)
      BY <2>2, <2>6, LeadsFacts
    <3> QED BY DEF LeaderOK, RepType
  <2>8. from <= R2[r].lastCommitted
    BY <2>5, <2>7, SMTT(30)
  <2>9. Inv(L2, M1 \cup {StartViewMessage(R2[r], from)}, R2, decided)
    BY <2>2, <2>5, <2>6, <2>8, StartViewSent
  <2> Inv(L2, msgs', rep', decided')
    BY <1>13, <2>4, <2>9
  <2> QED OBVIOUS
<1> QED BY <1>10, <1>12, <1>13

-----------------------------------------------------------------------------
(***************************************************************************)
(* The theorems.                                                           *)
(***************************************************************************)
\* A step keeps the invariant of a ledger, of a new one if need be.
LEMMA NextInv ==
  ASSUME Counting, setup \in Setup, NEW L, Inv(L, msgs, rep, decided), Next, ~stray', ~late'
  PROVE  \E L2 : Inv(L2, msgs', rep', decided')
<1>1. PICK r \in Replica : LeaderNext(r) \/ FollowerNext(r) \/ TransferNext(r) \/ ViewChangeNext(r)
  BY DEF Next
<1>2. CASE LeaderNext(r)
  <2>1. ASSUME NEW c \in setup.clients, HandleRequest(r, c)
        PROVE  \E L2 : Inv(L2, msgs', rep', decided')
    <3> c \in Client
      BY <2>1, SetupAssumption
    <3> QED BY <2>1, HandleRequestStep
  <2>2. ASSUME NEW m \in Received("PREPAREOK"), HandlePrepareOK(r, m)
        PROVE  Inv(L, msgs', rep', decided')
    BY <2>2, HandlePrepareOKStep
  <2>3. CASE CloseBatch(r)
    BY <2>3, CloseBatchStep
  <2>4. CASE SendNullCommit(r)
    BY <2>4, SendNullCommitStep
  <2> QED BY <1>2, <2>1, <2>2, <2>3, <2>4 DEF LeaderNext
<1>3. CASE FollowerNext(r)
  <2>1. ASSUME NEW m \in Received("PREPARE"), HandlePrepare(r, m)
        PROVE  Inv(L, msgs', rep', decided')
    BY <2>1, HandlePrepareStep
  <2>2. ASSUME NEW m \in Received("COMMIT"), HandleCommit(r, m)
        PROVE  Inv(L, msgs', rep', decided')
    BY <2>2, HandleCommitStep
  <2> QED BY <1>3, <2>1, <2>2 DEF FollowerNext
<1>4. CASE TransferNext(r)
  <2>1. ASSUME NEW m, Behind(r, m)
        PROVE  Inv(L, msgs', rep', decided')
    BY <2>1, BehindStep
  <2>2. ASSUME NEW m \in Received("REQUESTSTATETRANSFER"), HandleRequestStateTransfer(r, m)
        PROVE  Inv(L, msgs', rep', decided')
    BY <2>2, HandleRequestStateTransferStep
  <2>3. ASSUME NEW m \in Received("STATETRANSFER"), HandleStateTransfer(r, m)
        PROVE  Inv(L, msgs', rep', decided')
    BY <2>3, HandleStateTransferStep
  <2> QED BY <1>4, <2>1, <2>2, <2>3 DEF TransferNext
<1>5. CASE ViewChangeNext(r)
  <2>1. CASE ViewChangeTimeout(r)
    BY <2>1, ViewChangeTimeoutStep
  <2>2. ASSUME NEW m \in Received("STARTVIEWCHANGE"), HandleStartViewChange(r, m)
        PROVE  Inv(L, msgs', rep', decided')
    BY <2>2, HandleStartViewChangeStep
  <2>3. ASSUME NEW m \in Received("DOVIEWCHANGE"), HandleDoViewChange(r, m)
        PROVE  \E L2 : Inv(L2, msgs', rep', decided')
    BY <2>3, HandleDoViewChangeStep
  <2>4. ASSUME NEW m \in Received("STARTVIEW"), HandleStartView(r, m)
        PROVE  Inv(L, msgs', rep', decided')
    BY <2>4, HandleStartViewStep
  <2> QED BY <1>5, <2>1, <2>2, <2>3, <2>4 DEF ViewChangeNext
<1> QED BY <1>1, <1>2, <1>3, <1>4, <1>5

-----------------------------------------------------------------------------
(***************************************************************************)
(* Counting: what the lemmas have taken as given, from the library's       *)
(* theorems on finite sets.                                                *)
(***************************************************************************)
FS == INSTANCE FiniteSetTheorems

\* The library's instance counts as the modules do.
LEMMA SameCardinality == \A X : Cardinality(X) = FS!Cardinality(X)
BY DEF Cardinality, FS!Cardinality

\* There are n replicas.
LEMMA ReplicaFinite == FS!IsFiniteSet(Replica) /\ FS!Cardinality(Replica) = n
<1>1. 0 \in Int /\ n - 1 \in Int /\ ~(0 > n - 1)
  BY VRAssumption, SMTT(30)
<1> FS!IsFiniteSet(0..(n - 1)) /\ FS!Cardinality(0..(n - 1)) = n - 1 - 0 + 1
  BY <1>1, FS!FS_Interval
<1> QED BY VRAssumption, SMTT(30) DEF Replica

\* A set of numbers has a least one.
LEMMA NumbersLeast == \A T \in SUBSET Nat : T # {} => \E x \in T : \A y \in T : x <= y
<1> SUFFICES ASSUME NEW T \in SUBSET Nat, T # {}
             PROVE  \E x \in T : \A y \in T : x <= y
  OBVIOUS
<1>1. PICK x \in T : \A y \in T : ~(<<y, x>> \in FS!OpToRel(<, Nat))
  BY FS!WFMin, FS!NatLessThanWellFounded
<1>2. \A y \in T : ~(<<y, x>> \in {ss \in Nat \X Nat : ss[1] < ss[2]})
  BY <1>1 DEF FS!OpToRel
<1> \A y \in T : ~(y < x)
  BY <1>2
<1> QED BY SMTT(30)

\* Two quorums have a replica in common.
LEMMA QuorumsIntersect ==
  ASSUME NEW P \in Quorums, NEW Q \in Quorums
  PROVE  \E q \in P : q \in Q
<1> P \subseteq Replica /\ Q \subseteq Replica
     /\ FS!Cardinality(P) >= f + 1 /\ FS!Cardinality(Q) >= f + 1
  BY SameCardinality DEF Quorums, QuorumSize
<1>2. FS!IsFiniteSet(P) /\ FS!IsFiniteSet(Q)
  BY ReplicaFinite, FS!FS_Subset
<1>3. SUFFICES ASSUME P \cap Q = {} PROVE FALSE
  OBVIOUS
<1>4. FS!Cardinality(P \cup Q) = FS!Cardinality(P) + FS!Cardinality(Q) - FS!Cardinality(P \cap Q)
  BY <1>2, FS!FS_Union
<1>5. FS!Cardinality(P \cup Q) <= n
  <2> P \cup Q \in SUBSET Replica
    OBVIOUS
  <2> QED BY ReplicaFinite, FS!FS_Subset
<1>6. FS!Cardinality(P \cap Q) = 0
  BY <1>3, FS!FS_EmptySet
<1> FS!Cardinality(P) \in Nat /\ FS!Cardinality(Q) \in Nat
  BY <1>2, FS!FS_CardinalityType
<1> QED BY <1>4, <1>5, <1>6, VRAssumption, SMTT(30)

\* Messages of different replicas count replicas.
LEMMA SendersCount ==
  ASSUME NEW X, NEW r \in Replica, \A x \in X : x.replicaidx \in Replica \ {r},
         \A x, y \in X : x.replicaidx = y.replicaidx => x = y,
         Cardinality(X) >= QuorumSize - 1
  PROVE  Senders(X) \cup {r} \in Quorums
<1> DEFINE S == Senders(X)
           g == [q \in S |-> CHOOSE x \in X : x.replicaidx = q]
<1> S \subseteq Replica /\ r \notin S
  BY DEF Senders
<1> FS!IsFiniteSet(S)
  BY ReplicaFinite, FS!FS_Subset
<1>3. \A x \in X : x.replicaidx \in S
  BY DEF Senders
<1>4. \A q \in S : g[q] \in X
  BY DEF Senders
<1>5. \A x \in X : g[x.replicaidx] = x
  BY <1>3
<1>6. g \in [S -> X]
  <2> HIDE DEF S
  <2> QED BY <1>4
<1> HIDE DEF S, g
<1>7. g \in FS!Surjection(S, X)
  BY <1>3, <1>4, <1>5, <1>6 DEF FS!Surjection
<1>8. FS!IsFiniteSet(X) /\ FS!Cardinality(X) <= FS!Cardinality(S)
  BY <1>7, FS!FS_Surjection
<1>9. FS!Cardinality(S \cup {r}) = FS!Cardinality(S) + 1
  BY FS!FS_AddElement
<1>10. FS!Cardinality(S) \in Nat /\ FS!Cardinality(X) \in Nat
  BY <1>8, FS!FS_CardinalityType
<1> FS!Cardinality(S \cup {r}) >= QuorumSize
  BY <1>8, <1>9, <1>10, SameCardinality, VRAssumption, SMTT(30) DEF QuorumSize
<1> QED BY SameCardinality DEF Quorums, S

\* What the lemmas have taken as given.
LEMMA CountingHolds == Counting
<1>1. \A P, Q \in Quorums : \E q \in P : q \in Q
  BY QuorumsIntersect
<1>2. ASSUME NEW X, NEW r \in Replica, \A x \in X : x.replicaidx \in Replica \ {r},
             \A x, y \in X : x.replicaidx = y.replicaidx => x = y,
             Cardinality(X) >= QuorumSize - 1
      PROVE  Senders(X) \cup {r} \in Quorums
  BY <1>2, SendersCount
<1> QED BY <1>1, <1>2, NumbersLeast DEF Counting


\* The invariant is inductive.
LEMMA NextIInv == IInv /\ [Next]_vars => IInv'
<1>1. ASSUME IInv, Next PROVE IInv'
  <2> /\ setup' = setup /\ setup \in Setup
      /\ ~stray' /\ ~late' => ~stray /\ ~late
    BY <1>1, HistoryGrows DEF IInv
  <2>2. ASSUME ~stray', ~late' PROVE \E L : Inv(L, msgs', rep', decided')
    <3>1. PICK L : Inv(L, msgs, rep, decided)
      BY <1>1, <2>2 DEF IInv
    <3> QED BY <1>1, <2>2, <3>1, NextInv, CountingHolds
  <2> QED BY <2>2 DEF IInv
<1>2. ASSUME IInv, UNCHANGED vars PROVE IInv'
  BY <1>2 DEF IInv, vars
<1> QED BY <1>1, <1>2

(***************************************************************************)
(* The invariant, of every behaviour: while no replica has gone astray and *)
(* no entry was committed late, there is a ledger that tells where every   *)
(* log, message and vote comes from.                                       *)
(***************************************************************************)
THEOREM VRInvariant == Spec => []IInv
BY InitIInv, NextIInv, PTL DEF Spec

(***************************************************************************)
(* A viewstamp names one request, in the logs of all replicas: Install may *)
(* compare entries by their views (log-impl.h:34).                         *)
(***************************************************************************)
THEOREM VRViewstampUnique == Spec => []ViewstampUnique
BY VRInvariant, ViewstampUniqueInv, PTL

(***************************************************************************)
(* The client table keeps a leader from numbering a request twice in a     *)
(* view (replica.cc:394).                                                  *)
(***************************************************************************)
THEOREM VRNumberedOnce == Spec => []NumberedOnce
BY VRInvariant, NumberedOnceInv, PTL

(***************************************************************************)
(* What a quorum committed in a view is in the log of the leader of every  *)
(* later view: HandleDoViewChange selects a log that has it                *)
(* (replica.cc:876).                                                       *)
(***************************************************************************)
THEOREM VRCommitSurvives == Spec => []CommitSurvives
<1> IInv => CommitSurvives
  BY CommitSurvivesInv, CountingHolds
<1> QED BY VRInvariant, PTL

(***************************************************************************)
(* Replicas execute the same requests in the same order, through view      *)
(* changes, state transfers and any loss, delay or repetition of messages. *)
(***************************************************************************)
THEOREM VRAgreement == Spec => []Agreement
<1> IInv => Agreement
  BY AgreementInv, CountingHolds
<1> QED BY VRInvariant, PTL
=============================================================================
