---------------------------- MODULE Coordinator -----------------------------
(***************************************************************************)
(* The co-coordinators of the parallel mode                                *)
(* (replication/commit/coordinator.cc).  Coordinator c collects, from the  *)
(* co-located replica c of every participant, one message that is both the *)
(* replica's acknowledgement of the log entry and its shard's vote.  It    *)
(* notifies the co-located leaders once all participants have voted        *)
(* (pre-commit), and forwards the acknowledgement to the transaction's     *)
(* correspondent coordinator, the one co-located with the leader of the    *)
(* primary shard.  That one decides, when every participant has voted, has *)
(* the entry on a majority of replicas, and waits for no pre-committed     *)
(* transaction it has read from.                                           *)
(*                                                                         *)
(* Every vote that is sent is PREPARED: the vote field of                  *)
(* ReplicateTransaction is a constant (replica.cc:389) and CascadeAbort    *)
(* votes PREPARED (replica.cc:768).  The branches for another vote, and    *)
(* the handlers of the two messages without a sender                       *)
(* (BypassLeaderReplyUnion, NotifyDecisionToPrimary), cannot be reached.   *)
(* Nobody sets the timestamp of a vote: it is 0 everywhere and left out.   *)
(***************************************************************************)
EXTENDS Network

VARIABLES pendingCommits,   \* per coordinator and transaction: PendingCommit
          commitResults     \* per coordinator and transaction: CommitState

coordVars == <<pendingCommits, commitResults>>

CommitResult == {"COMMIT", "ABORT", "PRECOMMIT", "PREPARED"}

\* Mutant: half of the replicas are taken for a majority
MajorityHalf == n \div 2

Majority == n \div 2 + 1

\* dependencies[s]: "none" when the map has no entry for shard s.
PendingCommit ==
  [present             : BOOLEAN,
   participants        : SUBSET Shard,
   votes               : SUBSET Shard,
   dependencies        : [Shard -> {"none", "yes", "no"}],
   replicateResults    : [Shard -> SUBSET Replica],
   decisionReplies     : SUBSET Replica,
   primary_shard       : Shard,
   primary_coordinator : Replica,
   reach_consensus     : BOOLEAN,
   fault_tolerant      : BOOLEAN]

\* No pending commit.  The fields of a new one that the constructor leaves
\* uninitialized are written before they are read.
NoCommit ==
  [present             |-> FALSE,
   participants        |-> {},
   votes               |-> {},
   dependencies        |-> [s \in Shard |-> "none"],
   replicateResults    |-> [s \in Shard |-> {}],
   decisionReplies     |-> {},
   primary_shard       |-> 0,
   primary_coordinator |-> 0,
   reach_consensus     |-> FALSE,
   fault_tolerant      |-> FALSE]

-----------------------------------------------------------------------------
(***************************************************************************)
(* The three conditions of a decision.                                     *)
(***************************************************************************)
ReachConsensus(req) ==
  /\ Cardinality(req.votes) = Cardinality(req.participants)
  /\ req.participants \subseteq req.votes

\* Mutant: the flags are counted, not looked at
DependenciesCounted(req) ==
  Cardinality({s \in Shard : req.dependencies[s] # "none"})
    = Cardinality(req.participants)

AllParticipantsHaveNoPrecommitDependency(req) ==
  LET known == {s \in Shard : req.dependencies[s] # "none"}
  IN  /\ Cardinality(known) = Cardinality(req.participants)
      /\ \A p \in req.participants : req.dependencies[p] # "yes"

ReachFaultTolerance(req) ==
  LET replied == {s \in Shard : req.replicateResults[s] # {}}
  IN  /\ req.participants # {}
      /\ Cardinality(replied) = Cardinality(req.participants)
      /\ \A s \in replied : Cardinality(req.replicateResults[s]) >= Majority

\* To the co-located leaders among the participants: the pre-commit decision.
NotifyCommitDecision(c, t, req) ==
  {NotifyDecision(t, p) : p \in {q \in req.participants : q % n = c}}

\* To the co-located replica of the primary shard and to all coordinators:
\* the commit decision.
NotifyReplicateResult(c, t, req, commit) ==
  {ReplicateResult(t, req.primary_shard, c), ReplicateDecision(t, commit)}

Pend(c, t, req) ==
  /\ pendingCommits' = [pendingCommits EXCEPT
                          ![c] = [@ EXCEPT ![t] = req]]
  /\ UNCHANGED commitResults

Record(c, t, req, result) ==
  /\ pendingCommits' = [pendingCommits EXCEPT
                          ![c] = [@ EXCEPT ![t] = req]]
  /\ commitResults' = [commitResults EXCEPT
                          ![c] = [@ EXCEPT ![t] = result]]

\* Erase the pending commit, record the result and announce it.  The state
\* that goes with it is PREPARED, the one of the votes.
Decide(c, t, req, result, M) ==
  /\ Record(c, t, NoCommit, result)
  /\ Send(M \cup NotifyReplicateResult(c, t, req, FALSE))

\* The pending commit a vote updates: a new one takes all from the message,
\* an existing one takes the participants only if it has none.
Voted(c, t, s, parts, pshard, pcoord) ==
  LET req == pendingCommits[c][t]
  IN  [req EXCEPT
        !.present = TRUE,
        !.participants = IF @ = {} THEN parts ELSE @,
        !.primary_shard = pshard,
        !.primary_coordinator = IF req.present THEN c ELSE pcoord,
        !.votes = @ \cup {s}]

-----------------------------------------------------------------------------
(***************************************************************************)
(* The message handlers of coordinator c.                                  *)
(***************************************************************************)
HandleReplicateReplyAndVote(c, m) ==
  LET t == m.tid
      base == Voted(c, t, m.shard, participants[t], primary[t],
                    Leader(primary[t]))
      req == [base EXCEPT !.dependencies =
               [@ EXCEPT ![m.shard] = IF m.hasPreCommit THEN "yes" ELSE "no"]]
      agreed == [req EXCEPT !.reach_consensus = TRUE]
      decided == /\ req.primary_coordinator = c
                 /\ req.fault_tolerant
                 /\ AllParticipantsHaveNoPrecommitDependency(req)
      precommit == NotifyCommitDecision(c, t, req)
      bypass == {Bypass(t, m.shard, m.replica)}
  IN  /\ m.type = "ReplicateReplyAndVote"
      /\ m.replica = c
      /\ commitResults[c][t] = "none"
      /\ \/ /\ ~ReachConsensus(req)
            /\ Pend(c, t, req)
            /\ Send(bypass)
         \/ /\ ReachConsensus(req)
            /\ ~decided
            /\ Pend(c, t, agreed)
            /\ Send(precommit \cup bypass)
         \/ /\ ReachConsensus(req)
            /\ decided
            /\ Decide(c, t, agreed, "PREPARED", precommit \cup bypass)

\* Mutant: the acknowledgement is broadcast to the coordinators
bypassBroadcast(c, t) == TRUE

\* An acknowledgement is forwarded to the correspondent coordinator.
bypassTo(c, t) == Leader(primary[t]) = c

HandleBypassLeaderReply(c, m) ==
  LET t == m.tid
      old == pendingCommits[c][t]
      acks == [old.replicateResults EXCEPT ![m.shard] = @ \cup {m.replica}]
      req == [old EXCEPT !.present = TRUE, !.replicateResults = acks]
      tolerant == [req EXCEPT !.fault_tolerant = TRUE]
      decided == /\ req.reach_consensus
                 /\ AllParticipantsHaveNoPrecommitDependency(req)
  IN  /\ m.type = "BypassLeaderReply"
      /\ bypassTo(c, t)
      /\ commitResults[c][t] = "none"
      /\ m.replica \notin old.replicateResults[m.shard]
      /\ \/ /\ ~ReachFaultTolerance(req)
            /\ Pend(c, t, req)
            /\ UNCHANGED msgs
         \/ /\ ReachFaultTolerance(req)
            /\ ~decided
            /\ Pend(c, t, tolerant)
            /\ UNCHANGED msgs
         \/ /\ ReachFaultTolerance(req)
            /\ decided
            /\ Decide(c, t, tolerant, "COMMIT", {})

\* Mutant: the last notification does not release the transaction
releaseNever(req) == FALSE

\* A blocked transaction commits when its last dependency is cleared.
release(req) ==
  /\ AllParticipantsHaveNoPrecommitDependency(req)
  /\ req.reach_consensus
  /\ req.fault_tolerant

\* A notification for a transaction that is not pending is dropped.
HandleNotifyDependenciesAreCleared(c, m) ==
  LET t == m.tid
      old == pendingCommits[c][t]
      req == [old EXCEPT
               !.dependencies = [@ EXCEPT ![m.shard] = "no"]]
  IN  /\ m.type = "NotifyDependenciesAreCleared"
      /\ m.to = c
      /\ old.present
      /\ \/ /\ ~release(req)
            /\ Pend(c, t, req)
            /\ UNCHANGED msgs
         \/ /\ release(req)
            /\ Decide(c, t, req, "PREPARED", {})

\* Only COMMIT is recorded as such.  The coordinator that the pending commit
\* takes for the correspondent one keeps it.
HandleReplicateDecision(c, m) ==
  LET t == m.tid
      req == pendingCommits[c][t]
      correspondent == Leader(req.primary_shard)
  IN  /\ m.type = "ReplicateDecision"
      /\ req.present
      /\ Record(c, t, IF correspondent = c THEN req ELSE NoCommit,
                IF m.commit THEN "COMMIT" ELSE "ABORT")
      /\ Send({ReplyDecision(t, c, correspondent)})

HandleReplyDecision(c, m) ==
  LET t == m.tid
      req == pendingCommits[c][t]
      replies == req.decisionReplies \cup {m.coordinator}
  IN  /\ m.type = "ReplyDecision"
      /\ m.to = c
      /\ req.present
      /\ m.coordinator \notin req.decisionReplies
      /\ Pend(c, t, IF Cardinality(replies) >= Majority
                    THEN NoCommit
                    ELSE [req EXCEPT !.decisionReplies = replies])
      /\ UNCHANGED msgs

\* The leader of the primary shard asks when it does not hold the transaction
\* itself.  Its request names the participants and leaves the primary shard
\* unset, which reads as shard 0; the state of the PendingCommit made for an
\* answer is uninitialized.
HandleRequestCommitResult(c, m) ==
  LET t == m.tid
      old == pendingCommits[c][t]
      req == [old EXCEPT
               !.present = TRUE,
               !.participants = IF @ = {} THEN participants[t] ELSE @,
               !.primary_shard = 0,
               !.primary_coordinator = IF old.present THEN @ ELSE c]
  IN  /\ m.type = "RequestCommitResult"
      /\ Leader(primary[t]) = c
      /\ \/ /\ ~old.present
            /\ commitResults[c][t] # "none"
            /\ \E junk \in BOOLEAN :
                  Send(NotifyReplicateResult(c, t, req, junk))
            /\ UNCHANGED coordVars
         \/ /\ old.present \/ commitResults[c][t] = "none"
            /\ Pend(c, t, req)
            /\ UNCHANGED msgs

\* The vote CascadeAbort sends: no participants, no primary shard, no primary
\* coordinator.  Dependencies are not looked at.
HandleVote(c, m) ==
  LET t == m.tid
      req == Voted(c, t, m.shard, {}, 0, 0)
      agreed == [req EXCEPT !.reach_consensus = TRUE]
      decided == req.primary_coordinator = c /\ req.fault_tolerant
      precommit == NotifyCommitDecision(c, t, req)
  IN  /\ m.type = "Vote"
      /\ commitResults[c][t] = "none"
      /\ \/ /\ ~ReachConsensus(req)
            /\ Pend(c, t, req)
            /\ UNCHANGED msgs
         \/ /\ ReachConsensus(req)
            /\ ~decided
            /\ Pend(c, t, agreed)
            /\ Send(precommit)
         \/ /\ ReachConsensus(req)
            /\ decided
            /\ Decide(c, t, agreed, "PREPARED", precommit)

-----------------------------------------------------------------------------
CoordInit ==
  /\ pendingCommits = [c \in Replica |-> [t \in Txn |-> NoCommit]]
  /\ commitResults = [c \in Replica |-> [t \in Txn |-> "none"]]

CoordNext ==
  \E c \in Replica, m \in msgs :
    \/ HandleReplicateReplyAndVote(c, m)
    \/ HandleBypassLeaderReply(c, m)
    \/ HandleNotifyDependenciesAreCleared(c, m)
    \/ HandleReplicateDecision(c, m)
    \/ HandleReplyDecision(c, m)
    \/ HandleRequestCommitResult(c, m)
    \/ HandleVote(c, m)

\* Type correctness of the coordinators' tables.
CoordTypeOK ==
  /\ pendingCommits \in [Replica -> [Txn -> PendingCommit]]
  /\ commitResults \in [Replica -> [Txn -> CommitResult \cup {"none"}]]
=============================================================================
