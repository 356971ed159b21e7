------------------------------ MODULE Network -------------------------------
(***************************************************************************)
(* What every part of the system shares: who exists, what a transaction    *)
(* touches, and the network.                                               *)
(*                                                                         *)
(* A data centre r holds replica r of every shard and coordinator r        *)
(* (replica.cc:393-395).  Shard s is led by its replica s % n, for ever    *)
(* (store/strongstore/server.cc:370, shardclient.cc:33).                   *)
(*                                                                         *)
(* Messages are UDP datagrams (lib/udptransport.cc).  msgs is the set of   *)
(* messages ever sent: a message may be received at any later time, in any *)
(* order, several times, or never.  Sending a message again, as the timers *)
(* ResendReplicateTxn and ResendPrepareOK do, therefore changes nothing.   *)
(* A broadcast (SendMessageToAll) is one record without a destination; it  *)
(* reaches the sender too.  A send may fail locally (udptransport.cc:407). *)
(* Where the sender only warns of it, that is a lost message; where it     *)
(* drops its request, the action says so.  Fields that are a function of   *)
(* the transaction (participants, primary shard) are read from the         *)
(* constants instead.                                                      *)
(***************************************************************************)
EXTENDS Integers, FiniteSets

CONSTANTS Txn,            \* transactions
          NShards,        \* number of shards
          n,              \* replicas per shard, and coordinators
          tpcMode,        \* the commit protocol, fixed at start-up
          participants,   \* the shards a transaction reads or writes
          primary,        \* the primary shard its client chooses
          Unsendable      \* bound: the shards to whose leader, and from whose
                          \* leader, a send may fail

Shard == 0..NShards - 1
Replica == 0..n - 1

\* Mutant: the shard number itself is taken for a replica number
LeaderUnreduced(s) == s

Leader(s) == s % n

ASSUME NetworkAssumption ==
  /\ NShards \in Nat /\ NShards > 0
  /\ n \in Nat /\ n > 0
  /\ tpcMode \in {"FAST", "PARALLEL"}
  /\ participants \in [Txn -> (SUBSET Shard) \ {{}}]
  /\ primary \in [Txn -> Shard]
  /\ Unsendable \subseteq Shard

VARIABLE msgs

Send(M) == msgs' = msgs \cup M

-----------------------------------------------------------------------------
(***************************************************************************)
(* Between a client and the leader of shard s.                             *)
(***************************************************************************)
PrepareTransaction(t, s) ==
  [type |-> "PrepareTransaction", tid |-> t, shard |-> s]

PrepareReply(t, s, state) ==
  [type |-> "PrepareTransactionReply", tid |-> t, shard |-> s, state |-> state]

Commit(t, s, state) ==
  [type |-> "Commit", tid |-> t, shard |-> s, state |-> state]

ParallelModeCommit(t) == [type |-> "ParallelModeCommit", tid |-> t]

ParallelModeCommitReply(t) == [type |-> "ParallelModeCommitReply", tid |-> t]

-----------------------------------------------------------------------------
(***************************************************************************)
(* Between the replicas of shard s.                                        *)
(***************************************************************************)
ReplicateTransaction(t, s, lsn) ==
  [type |-> "ReplicateTransaction", tid |-> t, shard |-> s, lsn |-> lsn]

ReplicateTransactionReply(t, s, r) ==
  [type |-> "ReplicateTransactionReply", tid |-> t, shard |-> s, replica |-> r]

ReplicateCommit(t, s, state) ==
  [type |-> "ReplicateCommit", tid |-> t, shard |-> s, state |-> state]

-----------------------------------------------------------------------------
(***************************************************************************)
(* To, from and between coordinators.                                      *)
(***************************************************************************)
ReplyAndVote(t, s, r, dep) ==
  [type |-> "ReplicateReplyAndVote", tid |-> t, shard |-> s, replica |-> r,
   hasPreCommit |-> dep]

Bypass(t, s, r) ==
  [type |-> "BypassLeaderReply", tid |-> t, shard |-> s, replica |-> r]

Vote(t, s) == [type |-> "Vote", tid |-> t, shard |-> s]

DependenciesCleared(t, s, c) ==
  [type |-> "NotifyDependenciesAreCleared", tid |-> t, shard |-> s, to |-> c]

RequestResult(t) == [type |-> "RequestCommitResult", tid |-> t]

NotifyDecision(t, s) == [type |-> "NotifyDecision", tid |-> t, shard |-> s]

ReplicateResult(t, s, r) ==
  [type |-> "NotifyReplicateResult", tid |-> t, shard |-> s, replica |-> r]

\* commit: whether the state sent is COMMIT, which is all that is looked at.
ReplicateDecision(t, commit) ==
  [type |-> "ReplicateDecision", tid |-> t, commit |-> commit]

ReplyDecision(t, c, to) ==
  [type |-> "ReplyDecision", tid |-> t, coordinator |-> c, to |-> to]
=============================================================================
