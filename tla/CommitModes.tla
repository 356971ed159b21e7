----------------------------- MODULE CommitModes ----------------------------
(***************************************************************************)
(* The commit modes beside FAST and PARALLEL, one transaction from request *)
(* to decision (replication/lr/replica.cc, replication/lr/client.cc,       *)
(* store/strongstore/client.cc):                                           *)
(*   SLOW      the leader of the primary shard splits the transaction, and *)
(*             collects the participants' votes for the client;            *)
(*   RC        every replica of the primary shard does so in its own       *)
(*             region, with votes of the participants' replicas there, and *)
(*             client and replicas look for a majority of the regions;     *)
(*   CAROUSEL  every replica of a participant votes to the client, which   *)
(*             takes a fast quorum of them, or the leader's word that the  *)
(*             entry is replicated.                                        *)
(* The mode is fixed at start-up.  One handler serves all modes, and the   *)
(* actions below are its branches.                                         *)
(*                                                                         *)
(* The network is that of Network: msgs is all that was ever sent, so that *)
(* a message comes late, twice, out of order or never, and the timers that *)
(* send the same again (ResendReplicateTxn, ResendPrepare) are in it.  A   *)
(* reply field nobody sets reads as 0, so answers without a replica come   *)
(* from replica 0.                                                         *)
(*                                                                         *)
(* Bounds.  Keys and values hash to the shards of the participants only;   *)
(* no two participants are led in the same region, so that in mode RC a    *)
(* ReplicateCommit finds no active transaction and nothing happens.        *)
(***************************************************************************)
EXTENDS Integers, FiniteSets

CONSTANTS n,                \* replicas per shard: the regions
          f,                \* failures to tolerate
          COMMIT_RETRIES,   \* attempts of Commit()
          Setup             \* the deployments to look at

Replica == 0..n - 1
Mode == {"SLOW", "RC", "CAROUSEL"}

\* refusers: where validation may fail.  Bounds on the network: live, the
\* replicas that get any message; timers, whether the client's may fire; late,
\* whether a piece may reach the primary shard when nothing is pending there.
ASSUME ModesAssumption ==
  /\ n \in Nat \ {0} /\ f \in Nat /\ COMMIT_RETRIES \in Nat \ {0}
  /\ \A d \in Setup :
       /\ d.mode \in Mode /\ d.participants \subseteq Nat
       /\ d.primary \in d.participants /\ d.live \subseteq Replica
       /\ d.timers \in BOOLEAN /\ d.late \in BOOLEAN
       /\ d.refusers \subseteq d.participants \X Replica
       /\ \A p, q \in d.participants : p % n = q % n => p = q

VARIABLES setup,            \* the deployment
          msgs,             \* all messages sent
          client,           \* the client
          pendingPrepares,  \* per replica of the primary shard
          pendingTxns,      \* per shard, at its leader
          committedTxns,    \* per shard, at its leader: the state answered
          log, active,      \* per shard: replicas with the entry; of these,
                            \* the followers that wait for the decision
          prepared, applied,\* per shard: what the stores of its replicas did
          split             \* history: a piece was split as if it were whole

shardVars == <<pendingTxns, committedTxns, log, active, prepared, applied>>
vars == <<setup, msgs, client, pendingPrepares, shardVars, split>>

mode == setup.mode
participants == setup.participants
primary == setup.primary
Leader(s) == s % n

QuorumSize == f + 1
FastQuorumSize == f + (f + 1) \div 2 + 1

State == {"PREPAREOK", "COMMIT", "ABORT"}
NoReplies == [r \in Replica |-> "none"]
Count(replies, S) == Cardinality({r \in Replica : replies[r] \in S})
Failing == {"COMMIT", "ABORT"}

Send(M) == msgs' = msgs \cup M

-----------------------------------------------------------------------------
(***************************************************************************)
(* Messages.  A request reaches replica r of shard s; a reply goes to the  *)
(* client, or to replica `at' of the primary shard.                        *)
(***************************************************************************)
Request(from, s, r) ==
  [type |-> "PrepareTransaction", from |-> from, shard |-> s, replica |-> r]

Reply(to, at, s, r, state, ft) ==
  [type |-> "PrepareTransactionReply", to |-> to, at |-> at, shard |-> s,
   replica |-> r, state |-> state, ft |-> ft]

Replicate(s) == [type |-> "ReplicateTransaction", shard |-> s]
Ack(s, r) == [type |-> "ReplicateTransactionReply", shard |-> s, replica |-> r]
Commit(s, state) == [type |-> "Commit", shard |-> s, state |-> state]
ReplicateCommit(s, state) ==
  [type |-> "ReplicateCommit", shard |-> s, state |-> state]

\* The replica of shard s that gets the piece replica r of the primary sends.
PieceTo(s, r) == IF mode = "SLOW" THEN Leader(s) ELSE r

\* The answer to whoever sent request m, which replica r has received; in mode
\* SLOW a vote goes to the primary shard's leader whoever asked.
ToSender(m, s, r, replica, state, ft) ==
  Reply(m.from, IF m.from = "client" THEN 0
                ELSE IF mode = "SLOW" THEN Leader(primary) ELSE r,
        s, replica, state, ft)

Vote(m, s, r, replica, state, ft) ==
  IF mode = "SLOW" THEN Reply("primary", Leader(primary), s, replica, state, ft)
  ELSE ToSender(m, s, r, replica, state, ft)

-----------------------------------------------------------------------------
(***************************************************************************)
(* The primary shard: splitting a transaction.                             *)
(***************************************************************************)
PendingPrepare ==
  [present : BOOLEAN, participants : SUBSET participants,
   votes : SUBSET participants, regions : [Replica -> State \cup {"none"}],
   client : {"client", "primary"}]

NoPrepare == [present |-> FALSE, participants |-> {}, votes |-> {},
              regions |-> NoReplies, client |-> "client"]

StartsPrepare(s, r) ==
  mode \in {"SLOW", "RC"} /\ s = primary /\ ~pendingPrepares[r].present

\* HandlePrepare and SendPrepare.  A piece names no participants: when one
\* arrives here with nothing pending it is split once more, by keys that are
\* values now (replica.cc:1305), and answered to its sender.
HandlePrepare(r, m) ==
  /\ m.from = "client" \/ setup.late
  /\ \E S \in IF m.from = "client" THEN {participants}
             ELSE SUBSET participants \ {{}} :
       Send({Request("primary", p, PieceTo(p, r)) : p \in S})
  /\ split' = (split \/ m.from # "client")
  /\ pendingPrepares' = [pendingPrepares EXCEPT ![r] =
       [NoPrepare EXCEPT !.present = TRUE, !.client = m.from,
          !.participants = IF m.from = "client" THEN participants ELSE {}]]
  /\ UNCHANGED shardVars

-----------------------------------------------------------------------------
(***************************************************************************)
(* A participant's replica r: validating and logging.                      *)
(***************************************************************************)
Pending == [entry : {"absent", "sent", "consensus"}, quorum : SUBSET Replica]
NoPending == [entry |-> "absent", quorum |-> {}]

\* InvokeReplicateTxn at the leader.  Mode RC replicates nothing.
InvokeReplicateTxn(s) ==
  LET new == pendingTxns[s].entry = "absent"
  IN  /\ pendingTxns' = IF new THEN [pendingTxns EXCEPT ![s].entry = "sent"]
                        ELSE pendingTxns
      /\ log' = IF new THEN [log EXCEPT ![s] = @ \cup {Leader(s)}] ELSE log

\* What is prepared already is not validated again.
MayRefuse(s, r) == r \notin prepared[s] /\ <<s, r>> \in setup.refusers

\* The messages of a replica that accepts: its vote in the modes where every
\* replica votes, the entry where the leader replicates.
Accepted(s, r, m) ==
  (CASE mode = "SLOW" -> {}
     [] mode = "RC" -> {Reply("primary", r, s, r, "PREPAREOK", FALSE)}
     [] mode = "CAROUSEL" -> {Reply("client", 0, s, r, "PREPAREOK", FALSE)})
  \cup (IF mode # "RC" /\ r = Leader(s) THEN {Replicate(s)} ELSE {})

PrepareAsParticipant(s, r, m) ==
  LET leads == r = Leader(s)
      decided == leads /\ committedTxns[s] # "none"
      agreed == leads /\ ~decided /\ pendingTxns[s].entry = "consensus"
      carousel == mode = "CAROUSEL"
  IN  /\ \/ /\ decided
            /\ Send({Vote(m, s, r, 0, committedTxns[s], FALSE)})
            /\ UNCHANGED shardVars
         \/ /\ agreed
            /\ Send({Vote(m, s, r, IF carousel THEN r ELSE 0, "PREPAREOK",
                          carousel)})
            /\ UNCHANGED shardVars
         \/ /\ ~decided /\ ~agreed /\ MayRefuse(s, r)
            /\ Send({ToSender(m, s, r, r, "ABORT", carousel /\ leads)})
            /\ UNCHANGED shardVars
         \/ /\ ~decided /\ ~agreed
            /\ prepared' = [prepared EXCEPT ![s] = @ \cup {r}]
            /\ Send(Accepted(s, r, m))
            /\ IF leads THEN InvokeReplicateTxn(s)
               ELSE UNCHANGED <<pendingTxns, log>>
            /\ UNCHANGED <<committedTxns, active, applied>>
      /\ UNCHANGED <<pendingPrepares, split>>

HandlePrepareTxn(s, r, m) ==
  /\ m.type = "PrepareTransaction" /\ m.shard = s /\ m.replica = r
  /\ \/ StartsPrepare(s, r) /\ HandlePrepare(r, m)
     \/ ~StartsPrepare(s, r) /\ PrepareAsParticipant(s, r, m)
  /\ UNCHANGED <<setup, client>>

\* At replica r, the leader included, which has the entry.
HandleReplicateTransaction(s, r) ==
  /\ Replicate(s) \in msgs
  /\ Send({Ack(s, r)})
  /\ IF r \in log[s] THEN UNCHANGED <<log, active, prepared>>
     ELSE /\ log' = [log EXCEPT ![s] = @ \cup {r}]
          /\ active' = [active EXCEPT ![s] = @ \cup {r}]
          /\ prepared' = [prepared EXCEPT ![s] = @ \cup {r}]
  /\ UNCHANGED <<setup, client, pendingPrepares, pendingTxns, committedTxns,
                 applied, split>>

\* Mutant: the followers' acknowledgements alone are enough, one short
ReachedEarly(quorum) == Cardinality(quorum) >= QuorumSize - 1

\* The leader's own acknowledgement comes over the network like the others.
Reached(quorum) == Cardinality(quorum) >= QuorumSize

\* The leader's vote when the entry is replicated (HandleConsensus) and, every
\* second from then on, once more without its name (ResendPrepareOK); the timer
\* that mode SLOW makes for it is never started.
LeaderVote(s, replica, ft) ==
  IF mode = "SLOW"
    THEN Reply("primary", Leader(primary), s, replica, "PREPAREOK", FALSE)
    ELSE Reply("client", 0, s, replica, "PREPAREOK", ft)

HandleReplicateTransactionReply(s, r) ==
  LET quorum == pendingTxns[s].quorum \cup {r}
  IN  /\ Ack(s, r) \in msgs /\ pendingTxns[s].entry = "sent"
      /\ \/ /\ Reached(quorum)
            /\ pendingTxns' = [pendingTxns EXCEPT ![s] =
                 [entry |-> "consensus", quorum |-> quorum]]
            /\ Send({LeaderVote(s, Leader(s), TRUE)})
         \/ /\ ~Reached(quorum)
            /\ pendingTxns' = [pendingTxns EXCEPT ![s].quorum = quorum]
            /\ UNCHANGED msgs
      /\ UNCHANGED <<setup, client, pendingPrepares, committedTxns, log, active,
                     prepared, applied, split>>

ResendPrepareOK(s) ==
  /\ mode # "SLOW" /\ pendingTxns[s].entry = "consensus"
  /\ Send({LeaderVote(s, 0, FALSE)})
  /\ UNCHANGED <<setup, client, pendingPrepares, shardVars, split>>

-----------------------------------------------------------------------------
(***************************************************************************)
(* Executing a decision.                                                   *)
(***************************************************************************)
\* Mutant: all but an abort is applied
DoCommitOnVote(s, state) ==
  IF pendingTxns[s].entry = "absent" THEN UNCHANGED shardVars
  ELSE /\ pendingTxns' = [pendingTxns EXCEPT ![s] = NoPending]
       /\ committedTxns' = [committedTxns EXCEPT ![s] = state]
       /\ applied' = IF state # "ABORT"
                       THEN [applied EXCEPT ![s] = @ \cup {Leader(s)}]
                       ELSE applied
       /\ prepared' = [prepared EXCEPT ![s] = @ \ {Leader(s)}]
       /\ UNCHANGED <<log, active>>

\* HandleCommit at the leader of s, on word from the client or, at the primary
\* shard, from its own collection of votes, where a decision to go on is the
\* state PREPAREOK: it applies nothing, and is cascaded like an abort.  SentOut
\* is what it sends: in mode RC nobody acts on it.
DoCommit(s, state) ==
  LET leader == {Leader(s)}
  IN  IF pendingTxns[s].entry = "absent" THEN UNCHANGED shardVars
      ELSE /\ pendingTxns' = [pendingTxns EXCEPT ![s] = NoPending]
           /\ committedTxns' = [committedTxns EXCEPT ![s] = state]
           /\ applied' = IF state = "COMMIT"
                           THEN [applied EXCEPT ![s] = @ \cup leader]
                           ELSE applied
           /\ prepared' = [prepared EXCEPT ![s] = @ \ leader]
           /\ UNCHANGED <<log, active>>

SentOut(s, state) ==
  IF mode # "RC" /\ pendingTxns[s].entry # "absent"
    THEN {ReplicateCommit(s, state)} ELSE {}

HandleCommit(s, state) ==
  /\ Commit(s, state) \in msgs /\ pendingTxns[s].entry # "absent"
  /\ DoCommit(s, state)
  /\ Send(SentOut(s, state))
  /\ UNCHANGED <<setup, client, pendingPrepares, split>>

\* A follower forgets the transaction whatever the state is.
HandleReplicateCommit(s, r, state) ==
  /\ ReplicateCommit(s, state) \in msgs /\ r \in active[s]
  /\ active' = [active EXCEPT ![s] = @ \ {r}]
  /\ applied' = IF state = "COMMIT" /\ r \in prepared[s]
                  THEN [applied EXCEPT ![s] = @ \cup {r}] ELSE applied
  /\ prepared' = IF state \in Failing THEN [prepared EXCEPT ![s] = @ \ {r}]
                  ELSE prepared
  /\ UNCHANGED <<setup, msgs, client, pendingPrepares, pendingTxns,
                 committedTxns, log, split>>

-----------------------------------------------------------------------------
(***************************************************************************)
(* The primary shard: collecting votes at replica r.                       *)
(***************************************************************************)
ReachFinalDecision(req) == req.participants \subseteq req.votes

\* ReachConsensusOnFinalDecision: the decision most regions agree on.
RegionsAgree(regions, decision) ==
  \/ /\ decision = "PREPAREOK"
     /\ Count(regions, {"PREPAREOK"}) >= QuorumSize
  \/ /\ decision = "ABORT"
     /\ Count(regions, {"PREPAREOK"}) < QuorumSize
     /\ Count(regions, Failing) >= QuorumSize

\* A reply in the name of another replica of this shard.
HandleRegionReply(r, m) ==
  LET regions == [pendingPrepares[r].regions EXCEPT ![m.replica] = m.state]
  IN  \/ /\ \A d \in State : ~RegionsAgree(regions, d)
         /\ pendingPrepares' = [pendingPrepares EXCEPT ![r].regions = regions]
         /\ UNCHANGED <<msgs, shardVars>>
      \/ \E d \in State :
           /\ RegionsAgree(regions, d)
           /\ pendingPrepares' = [pendingPrepares EXCEPT ![r] = NoPrepare]
           /\ IF r = Leader(primary)
                THEN DoCommit(primary, d) /\ Send(SentOut(primary, d))
                ELSE UNCHANGED <<msgs, shardVars>>

\* ReplyFinalDecision: to the client and, in mode RC, to the other regions; in
\* mode SLOW the leader executes the decision and is done.
ReplyFinalDecision(r, req, d) ==
  LET answer == {Reply(req.client, IF req.client = "client" THEN 0 ELSE r,
                       primary, r, d, FALSE)}
  IN  \/ /\ mode = "RC"
         /\ pendingPrepares' = [pendingPrepares EXCEPT
                                  ![r] = [req EXCEPT !.regions[r] = d]]
         /\ Send(answer \cup {Reply("primary", q, primary, r, d, FALSE) :
                                q \in Replica})
         /\ UNCHANGED shardVars
      \/ /\ mode = "SLOW"
         /\ pendingPrepares' = [pendingPrepares EXCEPT ![r] = NoPrepare]
         /\ DoCommit(primary, d)
         /\ Send(answer \cup SentOut(primary, d))

\* A participant's vote: what is not PREPAREOK ends the transaction.
HandleParticipantReply(r, m) ==
  LET old == pendingPrepares[r]
      req == [old EXCEPT !.votes = @ \cup {m.shard}]
  IN  \/ /\ m.state = "PREPAREOK" /\ m.shard \notin old.votes
         /\ IF ReachFinalDecision(req) THEN ReplyFinalDecision(r, req, "PREPAREOK")
            ELSE /\ pendingPrepares' = [pendingPrepares EXCEPT ![r] = req]
                 /\ UNCHANGED <<msgs, shardVars>>
      \/ /\ m.state # "PREPAREOK"
         /\ ReplyFinalDecision(r, old, "ABORT")

HandlePrepareTransactionReply(r, m) ==
  LET region == m.shard = primary /\ m.replica # r
  IN  /\ m.type = "PrepareTransactionReply" /\ m.to = "primary" /\ m.at = r
      /\ pendingPrepares[r].present
      /\ \/ region /\ HandleRegionReply(r, m)
         \/ ~region /\ HandleParticipantReply(r, m)
      /\ UNCHANGED <<setup, client, split>>

-----------------------------------------------------------------------------
(***************************************************************************)
(* The client (see Client for its promise and its two threads).            *)
(***************************************************************************)
Asked == IF mode = "CAROUSEL" THEN participants ELSE {primary}

\* replies, ft: per request, the last word of each replica, and that of a leader
\* which has told that its word is fault tolerant.
ClientState ==
  [phase          : {"active", "preparing", "committed", "aborted"},
   tries          : 0..COMMIT_RETRIES,
   pendingReqs    : SUBSET Asked,
   replies        : [Asked -> [Replica -> State \cup {"none"}]],
   ft             : [Asked -> State \cup {"none"}],
   preparereplies : SUBSET participants,
   done           : BOOLEAN,
   reply          : {"OK", "FAIL", "TIMEOUT"}]

NewClient(S) ==
  [phase          |-> "active",
   tries          |-> 0,
   pendingReqs    |-> {},
   replies        |-> [s \in S |-> NoReplies],
   ft             |-> [s \in S |-> "none"],
   preparereplies |-> {},
   done           |-> FALSE,
   reply          |-> "OK"]

\* Mutant: a majority of the replicas is fast enough
FastOKMajority(s, replies) ==
  Count(replies, {"PREPAREOK"}) >= QuorumSize /\ replies[Leader(s)] # "none"

FastOK(s, replies) ==
  /\ Count(replies, {"PREPAREOK"}) >= FastQuorumSize
  /\ replies[Leader(s)] # "none"

FastFail(s, replies) ==
  /\ Count(replies, Failing) >= FastQuorumSize
  /\ replies[Leader(s)] # "none"

\* CarouselCheck: the state a request has come to, or "none".  The leader's
\* word is looked at before the message at hand is.
CarouselCheck(s, replies, ft) ==
  IF ft # "none" THEN ft
  ELSE IF FastOK(s, replies) THEN "PREPAREOK"
  ELSE IF FastFail(s, replies) THEN "ABORT" ELSE "none"

\* Mutant: one region is enough
RCCheckOne(replies) ==
  IF Count(replies, {"PREPAREOK"}) >= 1 THEN "PREPAREOK"
  ELSE IF Count(replies, Failing) >= QuorumSize THEN "ABORT" ELSE "none"

RCCheck(replies) ==
  IF Count(replies, {"PREPAREOK"}) >= QuorumSize THEN "PREPAREOK"
  ELSE IF Count(replies, Failing) >= QuorumSize THEN "ABORT" ELSE "none"

\* PrepareCallback and Promise::Reply.  In modes SLOW and RC the one answer is
\* final; in mode CAROUSEL the last of the participants' completes the promise.
Replied(cl, s, state) ==
  IF state # "PREPAREOK" THEN [cl EXCEPT !.done = TRUE, !.reply = "FAIL"]
  ELSE LET oks == IF mode = "CAROUSEL" THEN cl.preparereplies \cup {s}
                  ELSE participants
       IN  [cl EXCEPT !.preparereplies = oks, !.done = @ \/ oks = participants]

HandlePrepareTxnReply(m) ==
  LET s == m.shard
      replies == [client.replies[s] EXCEPT ![m.replica] = m.state]
      state == CASE mode = "SLOW" -> m.state
                 [] mode = "RC" -> RCCheck(replies)
                 [] mode = "CAROUSEL" -> CarouselCheck(s, replies, client.ft[s])
  IN  /\ m.type = "PrepareTransactionReply" /\ m.to = "client"
      /\ s \in client.pendingReqs
      /\ client' =
           IF state = "none"
             THEN [client EXCEPT !.replies[s] = replies,
                                 !.ft[s] = IF m.ft THEN m.state ELSE @]
           ELSE Replied([client EXCEPT !.pendingReqs = @ \ {s}], s, state)
      /\ UNCHANGED <<setup, msgs, pendingPrepares, shardVars, split>>

PrepareTimeout(s) ==
  /\ setup.timers /\ s \in client.pendingReqs
  /\ client' = [client EXCEPT !.pendingReqs = @ \ {s}, !.done = TRUE,
                              !.reply = "TIMEOUT"]
  /\ UNCHANGED <<setup, msgs, pendingPrepares, shardVars, split>>

\* Mutant: the attempts are not counted
MayPrepareAgain ==
  \/ client.phase = "active"
  \/ client.phase = "preparing" /\ client.done /\ client.reply = "TIMEOUT"

MayPrepare ==
  \/ client.phase = "active"
  \/ /\ client.phase = "preparing" /\ client.done /\ client.reply = "TIMEOUT"
     /\ client.tries < COMMIT_RETRIES

\* In mode SLOW the primary shard's leader is asked, in mode RC all its
\* replicas, in mode CAROUSEL all replicas of every participant.
Prepare ==
  /\ MayPrepare
  /\ client' = [NewClient(Asked) EXCEPT !.phase = "preparing",
                                        !.tries = client.tries + 1,
                                        !.pendingReqs = Asked]
  /\ Send({Request("client", s, r) : s \in Asked,
             r \in IF mode = "SLOW" THEN {Leader(primary)} ELSE Replica})
  /\ UNCHANGED <<setup, pendingPrepares, shardVars, split>>

Finish(phase, state) ==
  /\ client' = [NewClient(Asked) EXCEPT !.phase = phase, !.tries = client.tries]
  /\ Send({Commit(s, state) : s \in participants})
  /\ UNCHANGED <<setup, pendingPrepares, shardVars, split>>

MayCommit == client.phase = "preparing" /\ client.done /\ client.reply = "OK"

FinishCommit == MayCommit /\ Finish("committed", "COMMIT")

FinishAbort ==
  /\ client.phase = "preparing" /\ client.done /\ ~MayCommit /\ ~MayPrepare
  /\ Finish("aborted", "ABORT")

-----------------------------------------------------------------------------
Init ==
  /\ setup \in Setup
  /\ msgs = {}
  /\ client = NewClient(Asked)
  /\ pendingPrepares = [r \in Replica |-> NoPrepare]
  /\ pendingTxns = [s \in participants |-> NoPending]
  /\ committedTxns = [s \in participants |-> "none"]
  /\ log = [s \in participants |-> {}] /\ active = log
  /\ prepared = log /\ applied = log
  /\ split = FALSE

ClientNext ==
  \/ Prepare \/ FinishCommit \/ FinishAbort
  \/ \E s \in Asked : PrepareTimeout(s)
  \/ \E m \in msgs : HandlePrepareTxnReply(m)

ReplicaNext ==
  \E s \in participants :
    \/ ResendPrepareOK(s)
    \/ \E state \in State : HandleCommit(s, state)
    \/ \E r \in setup.live :
         \/ HandleReplicateTransaction(s, r)
         \/ HandleReplicateTransactionReply(s, r)
         \/ \E state \in State : HandleReplicateCommit(s, r, state)
         \/ \E m \in msgs : HandlePrepareTxn(s, r, m)

PrimaryNext ==
  \E r \in setup.live, m \in msgs : HandlePrepareTransactionReply(r, m)

Next == ClientNext \/ ReplicaNext \/ PrimaryNext

Spec == Init /\ [][Next]_vars

-----------------------------------------------------------------------------
Committed == client.phase = "committed"

\* Type correctness.
TypeOK ==
  /\ setup \in Setup
  /\ client \in ClientState
  /\ pendingPrepares \in [Replica -> PendingPrepare]
  /\ pendingTxns \in [participants -> Pending]
  /\ committedTxns \in [participants -> State \cup {"none"}]
  /\ \A S \in {log, active, prepared, applied} :
       S \in [participants -> SUBSET Replica]

\* "check if receive vote from all participants, and make the decision"
\* (replica.cc:1447), mode SLOW: what the client was told is committed is in the
\* log of f + 1 replicas of every participant, though votes outlive the attempt
\* they answer and may come in another replica's name; except when a piece of
\* the transaction was taken for a whole one.
SlowCommitIsDurable ==
  mode = "SLOW" /\ Committed /\ ~split
    => \A p \in participants : Cardinality(log[p]) >= f + 1

\* "if more than majority regions make the same decision, the final decision is
\* determined" (replica.cc:1355), mode RC: when the client commits there are
\* f + 1 regions in which every participant's replica has voted for it,
\* although a region may tell first one decision and then the other.
RCCommitIsVoted ==
  mode = "RC" /\ Committed /\ ~split
    => Cardinality({r \in Replica : \A p \in participants :
         Reply("primary", r, p, r, "PREPAREOK", FALSE) \in msgs}) >= f + 1

\* "if replies from replicas form a super quorum, it enters fast path" and "if
\* receive replicate success reply from leader, it enters slow path" (lr/
\* client.cc:180-181), mode CAROUSEL: on either path f + 1 replicas of every
\* participant have the transaction when the client commits, and the leader,
\* which alone acts on the client's decision, is one of them.  A fast quorum
\* that leaves somebody out (n = 5) may leave out the leader.
CarouselCommitIsDurable ==
  mode = "CAROUSEL" /\ Committed
    => \A p \in participants :
         /\ Leader(p) \in log[p]
         /\ Cardinality(log[p] \cup {r \in Replica :
              Reply("client", 0, p, r, "PREPAREOK", FALSE) \in msgs}) >= f + 1

\* A store applies the transaction only when the client has committed it, and a
\* follower's only after its leader's: a vote the primary shard's leader passes
\* to itself as a decision (ReplyFinalDecision) moves no data.
AppliedIsDecided ==
  \A p \in participants :
    applied[p] # {} => Committed /\ Leader(p) \in applied[p]

-----------------------------------------------------------------------------
(***************************************************************************)
(* Statements of the source that the code does not keep.                   *)
(***************************************************************************)
\* "apply to the store when reaching the commit decision" (replica.h:190): a
\* leader that has executed the decision of a committed transaction has applied
\* it.
CommitApplied ==
  \A p \in participants :
    Committed /\ committedTxns[p] # "none" => Leader(p) \in applied[p]
=============================================================================
