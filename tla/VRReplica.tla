----------------------------- MODULE VRReplica ------------------------------
(***************************************************************************)
(* Viewstamped replication (replication/vr/replica.cc) and the log it      *)
(* keeps (replication/common/log.cc): a leader numbers the requests of     *)
(* the clients and replicates them, a view change replaces a silent        *)
(* leader, state transfer helps a replica that has fallen behind.          *)
(*                                                                         *)
(* The network is the set of messages ever sent: a message arrives late,   *)
(* out of order, repeatedly or never.  So the resending timers             *)
(* (ResendPrepare, and VRClient::ResendRequest) add nothing to it, and a   *)
(* crashed replica is one that takes no more steps; the code has no        *)
(* restart.  SendMessageToAll leaves out the sender.                       *)
(*                                                                         *)
(* A client makes one request (a name of a client is its request), and     *)
(* sends it to the replicas as often as it likes.  Assertions are compiled *)
(* out (Makefile:10), Panic is not: a replica that panics is gone.         *)
(***************************************************************************)
EXTENDS Integers, FiniteSets, Sequences

CONSTANTS n, f,         \* replicas, and the failures they tolerate
          Client,       \* clients, one request each
          batchSize,    \* requests the leader sends in one PREPARE
          Setup         \* bounds of a behaviour, see below

ASSUME VRAssumption ==
  /\ n \in Nat \ {0} /\ f \in Nat /\ n = 2 * f + 1
  /\ batchSize \in Nat \ {0}

(***************************************************************************)
(* The bounds of a behaviour, chosen at the start:                         *)
(*   clients    the clients that make their request                        *)
(*   ops        the operations a leader numbers                            *)
(*   timers     the replicas whose viewChangeTimeout fires; the others     *)
(*              join a view change when they hear of it                    *)
(*   lastView   the last view whose change a timer starts                  *)
(*   transfers  how many different requests for state are made             *)
(*   nullCommit whether nullCommitTimeout fires                            *)
(*   refused    whether LeaderUpcall may refuse to replicate               *)
(*   strays     whether the behaviour is followed beyond the first replica *)
(*              that goes astray                                           *)
(***************************************************************************)
ASSUME SetupAssumption ==
  \A x \in Setup :
    /\ x.clients \subseteq Client /\ x.timers \subseteq 0..(n - 1)
    /\ x.ops \in Nat /\ x.lastView \in Nat /\ x.transfers \in Nat
    /\ {x.nullCommit, x.refused, x.strays} \subseteq BOOLEAN

VARIABLES setup,        \* the bounds
          rep,          \* the members of each VRReplica
          msgs,         \* every message ever sent
          decided,      \* history: what quorums of an entry's own view agreed to
          late,         \* history: a quorum of a later view agreed to an entry
          stray         \* history: a replica took over a log as it should not
                        \*   (see the properties)

vars == <<setup, rep, msgs, decided, late, stray>>

Replica == 0..(n - 1)
Status == {"NORMAL", "VIEW_CHANGE", "PANIC"}

GetLeaderIndex(view) == view % n
QuorumSize == f + 1

\* A viewstamp with its request.  lastCommitted tells the state of an entry.
LogEntry == [view : Nat, opnum : Nat, request : Client]

\* clientTable: the clients whose request the table has.  prepareOKs,
\* startViewChanges and doViewChanges are the messages the three QuorumSets
\* have for the current view; batchOpen tells whether closeBatchTimeout runs.
NewReplica ==
  [status |-> "NORMAL", view |-> 0, log |-> <<>>, lastOp |-> 0,
   lastCommitted |-> 0, lastBatchEnd |-> 0, batchOpen |-> FALSE,
   clientTable |-> {}, prepareOKs |-> {},
   startViewChanges |-> {}, doViewChanges |-> {},
   executed |-> <<>>]

AmLeader(s, r) == GetLeaderIndex(s.view) = r

Leads(s, r) == s.status = "NORMAL" /\ AmLeader(s, r)

-----------------------------------------------------------------------------
(***************************************************************************)
(* The log: entries are found by position, and the last one tells how far  *)
(* the log goes.                                                           *)
(***************************************************************************)
LastViewstamp(log) ==
  IF log = <<>> THEN [view |-> 0, opnum |-> 0]
  ELSE [view |-> log[Len(log)].view, opnum |-> log[Len(log)].opnum]

LastOpnum(log) == LastViewstamp(log).opnum

AppendEntry(log, view, opnum, request) ==
  Append(log, [view |-> view, opnum |-> opnum, request |-> request])

RemoveAfter(log, op) ==
  IF op > LastOpnum(log) THEN log ELSE SubSeq(log, 1, op - 1)

Dump(log, from) == SubSeq(log, IF from = 0 THEN 1 ELSE from, LastOpnum(log))

\* Mutant: entries are compared by their number, not by their view
InstallByNumber(log, entries) ==
  LET missing == {i \in DOMAIN entries : entries[i].opnum > Len(log)}
      at == CHOOSE i \in missing : \A j \in missing : i <= j
  IN IF missing = {} THEN log ELSE log \o SubSeq(entries, at, Len(entries))

\* The entries from the first one whose view differs, or that is missing, on.
Install(log, entries) ==
  LET Found(e) == e.opnum <= Len(log)
      diverging == {i \in DOMAIN entries :
                      Found(entries[i]) => log[entries[i].opnum].view # entries[i].view}
      at == CHOOSE i \in diverging : \A j \in diverging : i <= j
  IN
  IF diverging = {} THEN log
  ELSE (IF Found(entries[at]) THEN RemoveAfter(log, entries[at].opnum) ELSE log)
         \o SubSeq(entries, at, Len(entries))

-----------------------------------------------------------------------------
(***************************************************************************)
(* Steps of the handlers: each maps the members s of a replica to those it *)
(* leaves.                                                                 *)
(***************************************************************************)
\* Mutant: the last operation executed is executed again
CommitUpToAgain(s, upto) ==
  LET from == IF s.lastCommitted = 0 THEN 1 ELSE s.lastCommitted
      run == SubSeq(s.log, from, upto)
      requests == [i \in DOMAIN run |-> run[i].request]
  IN
  IF upto <= s.lastCommitted \/ upto > Len(s.log) THEN s
  ELSE [s EXCEPT !.lastCommitted = upto,
                 !.executed = @ \o requests,
                 !.clientTable = @ \cup {run[i].request : i \in DOMAIN run}]

\* Executes what the log has up to `upto', and panics when it has too little.
CommitUpTo(s, upto) ==
  LET last == IF upto <= Len(s.log) THEN upto
              ELSE IF s.lastCommitted <= Len(s.log) THEN Len(s.log) ELSE s.lastCommitted
      run == SubSeq(s.log, s.lastCommitted + 1, last)
      requests == [i \in DOMAIN run |-> run[i].request]
  IN
  IF upto <= s.lastCommitted THEN s
  ELSE [s EXCEPT !.lastCommitted = last,
                 !.executed = @ \o requests,
                 !.clientTable = @ \cup {run[i].request : i \in DOMAIN run},
                 !.status = IF last < upto THEN "PANIC" ELSE @]

\* Mutant: the client table is not updated
UpdateClientTableNot(s, requests) == s

UpdateClientTable(s, requests) == [s EXCEPT !.clientTable = @ \cup requests]

\* lastOp is the one before the caller sets it.
EnterView(s, newview) ==
  [s EXCEPT !.view = newview, !.status = "NORMAL", !.lastBatchEnd = s.lastOp,
            !.batchOpen = FALSE, !.prepareOKs = {},
            !.startViewChanges = {}, !.doViewChanges = {}]

StartViewChange(s, newview) ==
  [s EXCEPT !.view = newview, !.status = "VIEW_CHANGE", !.batchOpen = FALSE,
            !.startViewChanges = {}, !.doViewChanges = {}]

\* AddAndCheckForQuorum: a message replaces an earlier one of the same replica.
AddMessage(ms, m) == {x \in ms : x.replicaidx # m.replicaidx} \cup {m}
Quorum(ms) == Cardinality(ms) >= QuorumSize - 1

-----------------------------------------------------------------------------
(***************************************************************************)
(* Messages.                                                               *)
(***************************************************************************)
PrepareOK(view, op, r) ==
  [type |-> "PREPAREOK", view |-> view, opnum |-> op, replicaidx |-> r]

CommitMessage(s) ==
  [type |-> "COMMIT", view |-> s.view, opnum |-> s.lastCommitted]

\* The timer that allows the same request again is always about to fire.
RequestStateTransfer(s, r) ==
  {[type |-> "REQUESTSTATETRANSFER", view |-> s.view,
    opnum |-> s.lastCommitted, replicaidx |-> r]}

StartViewChangeMessage(s, r) ==
  [type |-> "STARTVIEWCHANGE", view |-> s.view, replicaidx |-> r,
   lastcommitted |-> s.lastCommitted]

\* Requests lastBatchEnd+1 .. lastOp, and the members CloseBatch leaves.
BatchPrepare(s) ==
  LET batch == SubSeq(s.log, s.lastBatchEnd + 1, s.lastOp) IN
  [type |-> "PREPARE", view |-> s.view, batchstart |-> s.lastBatchEnd + 1,
   opnum |-> s.lastOp, requests |-> [i \in DOMAIN batch |-> batch[i].request]]

BatchClosed(s) == [s EXCEPT !.lastBatchEnd = s.lastOp, !.batchOpen = FALSE]

\* SendPrepareOKs.  An operation the log does not have is a panic.
PrepareOKs(s, r, oldLastOp) ==
  {PrepareOK(s.view, i, r) :
     i \in {j \in oldLastOp..s.lastOp : s.lastCommitted < j /\ j <= Len(s.log)}}

AfterPrepareOKs(s, oldLastOp) ==
  LET ops == {i \in oldLastOp..s.lastOp : s.lastCommitted < i} IN
  [UpdateClientTable(s, {s.log[i].request : i \in ops \cap DOMAIN s.log})
     EXCEPT !.status = IF ops \subseteq DOMAIN s.log THEN @ ELSE "PANIC"]

-----------------------------------------------------------------------------
(***************************************************************************)
(* Handlers.                                                               *)
(***************************************************************************)
\* Replica r is left with s, and has sent `out'.
Step(r, s, out) ==
  /\ rep' = [rep EXCEPT ![r] = s]
  /\ msgs' = msgs \cup out
  /\ Cardinality({m \in msgs' : m.type = "REQUESTSTATETRANSFER"}) <= setup.transfers
  /\ UNCHANGED setup

NoHistory == UNCHANGED <<decided, late, stray>>

\* Messages of type t.
Received(t) == {m \in msgs : m.type = t}

\* LeaderUpcall decides whether the request is replicated.  The size of the
\* batch is unsigned: a negative one is a large one.
HandleRequest(r, c) ==
  LET s == rep[r]
      known == UpdateClientTable(s, {c})
      logged == [known EXCEPT !.lastOp = @ + 1,
                              !.log = AppendEntry(@, s.view, s.lastOp + 1, c)]
      batch == logged.lastOp - logged.lastBatchEnd + 1
      full == batch < 0 \/ batch > batchSize
  IN
  /\ Leads(s, r) /\ c \notin s.clientTable
  /\ s.lastOp < setup.ops
  /\ \/ setup.refused /\ Step(r, known, {})
     \/ IF full THEN Step(r, BatchClosed(logged), {BatchPrepare(logged)})
        ELSE Step(r, [logged EXCEPT !.batchOpen = TRUE], {})
  /\ NoHistory

\* closeBatchTimeout.
CloseBatch(r) ==
  LET s == rep[r] IN
  /\ Leads(s, r) /\ s.batchOpen
  /\ Step(r, BatchClosed(s), {BatchPrepare(s)})
  /\ NoHistory

\* The requests of a PREPARE that the replica has not logged yet.
Prepared(s, m) ==
  LET new == [i \in 1..(m.opnum - s.lastOp) |->
                [view |-> m.view, opnum |-> s.lastOp + i,
                 request |-> m.requests[s.lastOp + i - m.batchstart + 1]]]
  IN
  [UpdateClientTable(s, {new[i].request : i \in DOMAIN new})
     EXCEPT !.log = @ \o new, !.lastOp = m.opnum]

\* Mutant: a PREPARE of an earlier view is taken for one of the current view
HandlePrepareStale(r, m) ==
  LET s == rep[r] IN
  /\ s.status = "NORMAL" /\ r # GetLeaderIndex(s.view)
  /\ m.opnum > s.lastOp /\ m.batchstart <= s.lastOp + 1
  /\ Step(r, Prepared(s, [m EXCEPT !.view = s.view]), {PrepareOK(s.view, m.opnum, r)})
  /\ NoHistory

\* pendingPrepares is left out: HandleStateTransfer clears the list before it
\* goes through it (replica.cc:779-785), so a PREPARE kept there is lost.
HandlePrepare(r, m) ==
  LET s == rep[r]
      ok == {PrepareOK(m.view, m.opnum, r)}
  IN
  /\ s.status = "NORMAL" /\ r # GetLeaderIndex(m.view) /\ m.view >= s.view
  /\ \/ /\ m.view > s.view \/ m.batchstart > s.lastOp + 1
        /\ m.view = s.view => m.opnum > s.lastOp
        /\ Step(r, s, RequestStateTransfer(s, r))
     \/ /\ m.view = s.view /\ m.opnum <= s.lastOp
        /\ Step(r, s, ok)
     \/ /\ m.view = s.view /\ m.opnum > s.lastOp /\ m.batchstart <= s.lastOp + 1
        /\ Step(r, Prepared(s, m), ok)
  /\ NoHistory

\* A view the replica has not reached yet: it asks for the state.
Behind(r, m) ==
  /\ rep[r].status = "NORMAL" /\ m.view > rep[r].view
  /\ m.type = "PREPAREOK" => r = GetLeaderIndex(m.view)
  /\ Step(r, rep[r], RequestStateTransfer(rep[r], r))
  /\ NoHistory

\* The operations that become committed with `op', at the leader s.
Decisions(s, op) ==
  {[view |-> s.view, opnum |-> i, request |-> s.log[i].request] :
     i \in {j \in DOMAIN s.log : s.lastCommitted < j /\ j <= op}}

HandlePrepareOK(r, m) ==
  LET s == rep[r]
      oks == AddMessage({x \in s.prepareOKs : x.opnum = m.opnum}, m)
      t == [s EXCEPT !.prepareOKs = @ \cup {m}]
      done == CommitUpTo(t, m.opnum)
      own == m.opnum \in DOMAIN s.log /\ s.log[m.opnum].view = s.view
  IN
  /\ Leads(s, r) /\ m.view = s.view
  /\ IF ~Quorum(oks) THEN Step(r, t, {}) /\ NoHistory
     ELSE /\ Step(r, done, IF done.status = "PANIC" \/ Cardinality(oks) >= QuorumSize
                             THEN {} ELSE {CommitMessage(done)})
          /\ decided' = IF own THEN decided \cup Decisions(s, m.opnum) ELSE decided
          /\ late' = (late \/ (~own /\ m.opnum > s.lastCommitted))
          /\ UNCHANGED stray

\* nullCommitTimeout.
SendNullCommit(r) ==
  /\ setup.nullCommit
  /\ Leads(rep[r], r)
  /\ Step(r, rep[r], {CommitMessage(rep[r])})
  /\ NoHistory

HandleCommit(r, m) ==
  LET s == rep[r] IN
  /\ s.status = "NORMAL" /\ r # GetLeaderIndex(m.view)
  /\ m.view = s.view /\ m.opnum > s.lastCommitted
  /\ IF m.opnum > s.lastOp THEN Step(r, s, RequestStateTransfer(s, r))
     ELSE Step(r, CommitUpTo(s, m.opnum), {})
  /\ NoHistory

-----------------------------------------------------------------------------
\* The replica is not in view m.view yet.
About(s, m) ==
  /\ s.status # "PANIC"
  /\ m.view > s.view \/ (m.view = s.view /\ s.status = "VIEW_CHANGE")

(***************************************************************************)
(* State transfer.                                                         *)
(***************************************************************************)
HandleRequestStateTransfer(r, m) ==
  LET s == rep[r] IN
  /\ s.status = "NORMAL" /\ m.replicaidx # r /\ m.view <= s.view
  /\ Step(r, s, {[type |-> "STATETRANSFER", view |-> s.view,
                  opnum |-> s.lastCommitted, to |-> m.replicaidx,
                  entries |-> Dump(s.log, m.opnum + 1)]})
  /\ NoHistory

\* One entry of a STATETRANSFER; x is the members and oldLastOp.
InstallEntry(x, e) ==
  LET s == x.s
      mine == s.log[e.opnum]
  IN
  CASE e.opnum <= s.lastCommitted -> x
    [] e.opnum > s.lastCommitted /\ e.opnum <= s.lastOp ->
         IF mine.view = e.view THEN x
         ELSE [s |-> [s EXCEPT !.log = Append(RemoveAfter(@, e.opnum), e),
                               !.lastOp = e.opnum],
               oldLastOp |-> e.opnum]
    [] OTHER -> [x EXCEPT !.s = [s EXCEPT !.log = Append(@, e), !.lastOp = @ + 1]]

InstallEntries(s, entries) ==
  LET x[i \in 0..Len(entries)] ==
        IF i = 0 THEN [s |-> s, oldLastOp |-> s.lastOp]
        ELSE InstallEntry(x[i - 1], entries[i])
  IN x[Len(entries)]

\* No condition on the status, nor on who leads the view.
HandleStateTransfer(r, m) ==
  LET s == rep[r]
      x == InstallEntries(s, m.entries)
      entered == IF m.view > s.view THEN EnterView(x.s, m.view) ELSE x.s
      done == CommitUpTo(entered, m.opnum)
      over == done.status = "PANIC"
      end == IF m.entries = <<>> THEN s.lastCommitted ELSE m.entries[Len(m.entries)].opnum
  IN
  /\ s.status # "PANIC" /\ m.to = r /\ m.view >= s.view
  /\ Step(r, IF over THEN done ELSE AfterPrepareOKs(done, x.oldLastOp),
             IF over THEN {} ELSE PrepareOKs(done, r, x.oldLastOp))
  /\ stray' = (stray \/ (m.view > s.view /\ Len(done.log) > end)
                     \/ (m.view = s.view /\ (AmLeader(s, r) \/ s.status = "VIEW_CHANGE")))
  /\ UNCHANGED <<decided, late>>

-----------------------------------------------------------------------------
(***************************************************************************)
(* View change.                                                            *)
(***************************************************************************)
\* viewChangeTimeout: it runs unless the replica leads a view.
ViewChangeTimeout(r) ==
  LET t == StartViewChange(rep[r], rep[r].view + 1) IN
  /\ rep[r].status = "VIEW_CHANGE" \/ (rep[r].status = "NORMAL" /\ ~AmLeader(rep[r], r))
  /\ r \in setup.timers /\ rep[r].view < setup.lastView
  /\ Step(r, t, {StartViewChangeMessage(t, r)})
  /\ NoHistory

\* A message about view m.view makes the replica start that view change.
Joined(s, m) == IF m.view > s.view THEN StartViewChange(s, m.view) ELSE s

JoinMessage(s, r, m) ==
  IF m.view > s.view THEN {StartViewChangeMessage(Joined(s, m), r)} ELSE {}

MinCommitted(s, ms) ==
  CHOOSE c \in {x.lastcommitted : x \in ms} \cup {s.lastCommitted} :
    \A x \in ms : c <= x.lastcommitted /\ c <= s.lastCommitted

DoViewChangeMessage(s, r) ==
  [type |-> "DOVIEWCHANGE", view |-> s.view, replicaidx |-> r,
   lastnormalview |-> LastViewstamp(s.log).view, lastop |-> s.lastOp,
   lastcommitted |-> s.lastCommitted,
   entries |-> Dump(s.log, MinCommitted(s, s.startViewChanges))]

HandleStartViewChange(r, m) ==
  LET t == Joined(rep[r], m)
      s == [t EXCEPT !.startViewChanges = AddMessage(@, m)]
      send == Quorum(s.startViewChanges) /\ ~AmLeader(s, r)
  IN
  /\ About(rep[r], m) /\ m.replicaidx # r
  /\ Step(r, s, JoinMessage(rep[r], r, m)
                  \cup (IF send THEN {DoViewChangeMessage(s, r)} ELSE {}))
  /\ NoHistory

\* x is a later viewstamp than y, or as late.
NotBefore(x, y) ==
  x.lastnormalview > y.lastnormalview
    \/ (x.lastnormalview = y.lastnormalview /\ x.lastop >= y.lastop)

\* Mutant: the new leader keeps its own log
LatestMessagesNone(s, ms) == {}

\* The messages of ms with the latest viewstamp, if it is later than the log's.
LatestMessages(s, ms) ==
  LET own == LastViewstamp(s.log) IN
  {x \in ms : /\ \A y \in ms : NotBefore(x, y)
              /\ ~NotBefore([lastnormalview |-> own.view, lastop |-> own.opnum], x)}

\* Log and lastCommitted a message x hands to replica s; too few entries are
\* a panic.
Installed(s, x) ==
  IF x.entries = <<>> THEN s
  ELSE IF x.entries[1].opnum > s.lastCommitted + 1 THEN [s EXCEPT !.status = "PANIC"]
  ELSE [s EXCEPT !.log = Install(RemoveAfter(@, x.lastop + 1), x.entries)]

\* How far back a STARTVIEW goes.  A leader that has had no STARTVIEWCHANGE
\* dereferences end() of an empty map: any number may come out.
StartViewFrom(s) ==
  LET least == MinCommitted(s, s.doViewChanges) IN
  IF s.startViewChanges = {} THEN 0..least
  ELSE {MinCommitted(s, s.startViewChanges \cup s.doViewChanges)}

StartViewMessage(s, from) ==
  [type |-> "STARTVIEW", view |-> s.view, lastop |-> s.lastOp,
   lastcommitted |-> s.lastCommitted, entries |-> Dump(s.log, from)]

\* The leader of the new view, with the log of the first message of `latest', or
\* its own.  (latestMsg points at a copy made by the loop that looks for it, and
\* outlives it, replica.cc:882; the model takes the message that was copied.)
NewLeader(s, latest) ==
  LET x == CHOOSE x \in latest :
             \A y \in latest : x.replicaidx <= y.replicaidx
      t == IF latest = {} THEN s ELSE Installed(s, x)
      lastOp == IF latest = {} THEN LastOpnum(s.log) ELSE x.lastop
      entered == [EnterView(t, s.view) EXCEPT !.lastOp = lastOp]
  IN
  IF t.status = "PANIC" THEN t
  ELSE IF latest = {} THEN entered ELSE CommitUpTo(entered, x.lastcommitted)

HandleDoViewChange(r, m) ==
  LET t == Joined(rep[r], m)
      s == [t EXCEPT !.doViewChanges = AddMessage(@, m)]
      join == JoinMessage(rep[r], r, m)
      done == NewLeader(s, LatestMessages(s, s.doViewChanges))
  IN
  /\ About(rep[r], m) /\ GetLeaderIndex(m.view) = r
  /\ IF ~Quorum(s.doViewChanges) THEN Step(r, s, join)
     ELSE IF done.status = "PANIC" THEN Step(r, done, join)
     ELSE \E from \in StartViewFrom(s) :
            Step(r, done, join \cup {StartViewMessage(done, from)})
  /\ NoHistory

HandleStartView(r, m) ==
  LET s == rep[r]
      t == Installed(s, m)
      entered == [EnterView(t, m.view) EXCEPT !.lastOp = m.lastop]
      done == CommitUpTo(entered, m.lastcommitted)
      over == done.status = "PANIC"
  IN
  /\ About(s, m) /\ r # GetLeaderIndex(m.view)
  /\ IF t.status = "PANIC" THEN Step(r, t, {})
     ELSE Step(r, IF over THEN done ELSE AfterPrepareOKs(done, s.lastOp),
                  IF over THEN {} ELSE PrepareOKs(done, r, s.lastOp))
  /\ stray' = (stray \/ Len(t.log) > m.lastop)
  /\ UNCHANGED <<decided, late>>

-----------------------------------------------------------------------------
Init ==
  /\ setup \in Setup
  /\ rep = [r \in Replica |-> NewReplica]
  /\ msgs = {}
  /\ decided = {}
  /\ late = FALSE
  /\ stray = FALSE

LeaderNext(r) ==
  \/ \E c \in setup.clients : HandleRequest(r, c)
  \/ CloseBatch(r)
  \/ \E m \in Received("PREPAREOK") : HandlePrepareOK(r, m)
  \/ SendNullCommit(r)

FollowerNext(r) ==
  \/ \E m \in Received("PREPARE") : HandlePrepare(r, m)
  \/ \E m \in Received("COMMIT") : HandleCommit(r, m)

TransferNext(r) ==
  \/ \E m \in msgs : /\ m.type \in {"PREPAREOK", "COMMIT", "REQUESTSTATETRANSFER"}
                     /\ Behind(r, m)
  \/ \E m \in Received("REQUESTSTATETRANSFER") : HandleRequestStateTransfer(r, m)
  \/ \E m \in Received("STATETRANSFER") : HandleStateTransfer(r, m)

ViewChangeNext(r) ==
  \/ ViewChangeTimeout(r)
  \/ \E m \in Received("STARTVIEWCHANGE") : HandleStartViewChange(r, m)
  \/ \E m \in Received("DOVIEWCHANGE") : HandleDoViewChange(r, m)
  \/ \E m \in Received("STARTVIEW") : HandleStartView(r, m)

Next ==
  /\ stray => setup.strays
  /\ \E r \in Replica : LeaderNext(r) \/ FollowerNext(r) \/ TransferNext(r)
                          \/ ViewChangeNext(r)

Spec == Init /\ [][Next]_vars

-----------------------------------------------------------------------------
\* The members are well formed; what is executed is counted by lastCommitted.
TypeOK ==
  /\ setup \in Setup /\ late \in BOOLEAN /\ stray \in BOOLEAN
  /\ \A r \in Replica :
       LET s == rep[r] IN
       /\ s.status \in Status /\ s.view \in 0..setup.lastView
       /\ \A i \in DOMAIN s.log : s.log[i] \in LogEntry
       /\ s.lastOp \in Nat /\ s.lastBatchEnd \in Nat /\ s.batchOpen \in BOOLEAN
       /\ s.lastCommitted = Len(s.executed) /\ s.clientTable \subseteq Client

(***************************************************************************)
(* The properties hold until a replica goes astray or an entry is          *)
(* committed late.  There are four ways to go astray:                      *)
(*  - HandleStartView keeps the whole old log when the new one is empty    *)
(*    (replica.cc:986), and HandleStateTransfer, when it enters a view,    *)
(*    keeps what lies beyond the last entry it is sent: the replica is     *)
(*    then in a view with entries its leader does not have, acknowledges   *)
(*    the leader's operations in their place, and executes its own;        *)
(*  - a STATETRANSFER that its leader gets (it has asked in an earlier     *)
(*    view) makes it acknowledge its own operations to itself              *)
(*    (replica.cc:776), and it counts itself for another replica;          *)
(*  - a STATETRANSFER of the view a replica is changing to makes it        *)
(*    acknowledge operations that the STARTVIEW, which comes later and is  *)
(*    still accepted, takes out of its log (replica.cc:986).               *)
(* An entry of an earlier view that PREPAREOKs alone commit is committed   *)
(* late: it does not stand up to a log whose last viewstamp is from a view *)
(* in between, since lastnormalview is the view of the last entry, not the *)
(* last view the replica was in (replica.cc:820).  A replica that has      *)
(* executed it and takes over such a log may be left with lastCommitted    *)
(* beyond its log, and numbers no longer say where an entry is.            *)
(***************************************************************************)

(***************************************************************************)
(* A viewstamp names one request: two replicas whose logs both have it     *)
(* have the same request there, so that Install may compare entries by     *)
(* their views alone (log-impl.h:34).                                      *)
(***************************************************************************)
ViewstampUnique ==
  ~stray /\ ~late =>
    \A q, r \in Replica :
      \A i \in DOMAIN rep[q].log, j \in DOMAIN rep[r].log :
        LET d == rep[q].log[i]
            e == rep[r].log[j]
        IN d.view = e.view /\ d.opnum = e.opnum => d.request = e.request

(***************************************************************************)
(* A leader numbers a request once, however often the client sends it (the *)
(* client table, replica.cc:394).  This is so within a view only: the      *)
(* entries a new leader takes over are not in its table                    *)
(* (HandleDoViewChange), and it numbers them again when the client asks.   *)
(***************************************************************************)
NumberedOnce ==
  ~stray /\ ~late =>
    \A r \in Replica : \A i, j \in DOMAIN rep[r].log :
      LET d == rep[r].log[i]
          e == rep[r].log[j]
      IN d.view = e.view /\ d.request = e.request => i = j

(***************************************************************************)
(* What a quorum of PREPAREOKs committed while the last entry was of the   *)
(* current view is in the log of the leader of every later view: the log a *)
(* new leader selects by its last viewstamp (replica.cc:876) has it.       *)
(***************************************************************************)
CommitSurvives ==
  ~stray /\ ~late =>
    \A d \in decided : \A r \in Replica :
      rep[r].status = "NORMAL" /\ AmLeader(rep[r], r) /\ rep[r].view >= d.view
        => d.opnum \in DOMAIN rep[r].log
             /\ rep[r].log[d.opnum].request = d.request

(***************************************************************************)
(* Replicas execute the same requests in the same order.                   *)
(***************************************************************************)
Agreement ==
  ~stray /\ ~late =>
    \A q, r \in Replica :
      \A i \in DOMAIN rep[q].executed \cap DOMAIN rep[r].executed :
        rep[q].executed[i] = rep[r].executed[i]
=============================================================================
