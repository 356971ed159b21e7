------------------------------- MODULE Client -------------------------------
(***************************************************************************)
(* The transaction client: Client::Commit and Client::Prepare              *)
(* (store/strongstore/client.cc), the ShardClient and the LRClient it has  *)
(* for each shard (store/strongstore/shardclient.cc,                       *)
(* replication/lr/client.cc), and the Promise between the application's    *)
(* thread and the transport's (store/common/promise.cc).                   *)
(*                                                                         *)
(* A transaction is one run of Commit() by one client.  Its reads and      *)
(* writes are over; what it does is decided by the replies, and by timers  *)
(* that may fire at any time.  The two threads meet in the promise alone:  *)
(* posting the requests of an attempt (Timer(0)) is one step with starting *)
(* the attempt.                                                            *)
(***************************************************************************)
EXTENDS Network

CONSTANTS COMMIT_RETRIES,   \* 5 (store/common/frontend/txnclient.h:24)
          Timers            \* bound: the shards a client may time out on

ASSUME RetriesAssumption ==
  COMMIT_RETRIES \in Nat /\ COMMIT_RETRIES > 0 /\ Timers \subseteq Shard

VARIABLE client

Reply == {"OK", "FAIL", "TIMEOUT"}

\* pendingReqs, parallelCommit: requests the LRClients have no answer to.
\* waiting: the shards whose ShardClient points at the current promise.
\* preparereplies .. reply: that promise.
\* unsent: the participants this attempt could not send its request to; the
\* code forgets them.
ClientState ==
  [phase          : {"active", "preparing", "committed", "aborted"},
   tries          : 0..COMMIT_RETRIES,
   pendingReqs    : SUBSET Shard,
   parallelCommit : BOOLEAN,
   waiting        : SUBSET Shard,
   preparereplies : SUBSET Shard,
   done           : BOOLEAN,
   fail           : BOOLEAN,
   final          : BOOLEAN,
   reply          : Reply,
   unsent         : SUBSET Shard]

NewClient ==
  [phase          |-> "active",
   tries          |-> 0,
   pendingReqs    |-> {},
   parallelCommit |-> FALSE,
   waiting        |-> {},
   preparereplies |-> {},
   done           |-> FALSE,
   fail           |-> FALSE,
   final          |-> FALSE,
   reply          |-> "OK",
   unsent         |-> {}]

Update(t, cl) == client' = [client EXCEPT ![t] = cl]

-----------------------------------------------------------------------------
(***************************************************************************)
(* The promise.                                                            *)
(***************************************************************************)
\* Mutant: only an answer from the shard ends the wait
PrepareRepliedOnly(cl, s, r) ==
  IF r = "TIMEOUT" THEN cl
  ELSE IF r = "FAIL" THEN [cl EXCEPT !.fail = TRUE, !.done = TRUE, !.reply = r]
  ELSE [cl EXCEPT !.preparereplies = @ \cup {s}]

\* Promise::Reply(shard, r, timestamp)
PrepareReplied(cl, s, r) ==
  IF r # "OK" THEN [cl EXCEPT !.fail = TRUE, !.done = TRUE, !.reply = r]
  ELSE [cl EXCEPT !.preparereplies = @ \cup {s}]

\* Mutant: one reply is enough
CompletedEarly(t, cl) ==
  [cl EXCEPT !.done = @ \/ cl.preparereplies # {}]

\* The last of the participants' replies completes the promise.
Completed(t, cl) ==
  [cl EXCEPT !.done = @ \/ cl.preparereplies = participants[t]]

\* Promise::GetPrepareReply
PrepareStatus(cl) == IF cl.fail \/ cl.final THEN cl.reply ELSE "OK"

-----------------------------------------------------------------------------
(***************************************************************************)
(* Replies and timeouts, on the transport's thread.                        *)
(***************************************************************************)
\* A late answer is taken for an answer to the current attempt.  Every state
\* but PREPAREOK is a failure, COMMIT too.
HandlePrepareTxnReply(t, m) ==
  LET s == m.shard
      cl == [client[t] EXCEPT !.pendingReqs = @ \ {s}]
      r == IF m.state = "PREPAREOK" THEN "OK" ELSE "FAIL"
  IN  /\ m.type = "PrepareTransactionReply"
      /\ m.tid = t
      /\ s \in client[t].pendingReqs
      /\ Update(t, IF s \in cl.waiting /\ ~cl.final
                     THEN Completed(t, PrepareReplied(cl, s, r))
                     ELSE cl)
      /\ UNCHANGED msgs

\* PrepareTimeoutCallback, then ShardClient::PrepareTimeout, which fails the
\* promise even when it holds the final decision already.
PrepareTimeout(t, s) ==
  LET cl == [client[t] EXCEPT !.pendingReqs = @ \ {s}]
  IN  /\ s \in client[t].pendingReqs \cap Timers
      /\ Update(t, IF s \in cl.waiting
                     THEN PrepareReplied(cl, s, "TIMEOUT") ELSE cl)
      /\ UNCHANGED msgs

\* The answer of the primary leader ends the wait for its prepare reply too.
HandleParallelModeCommitReply(t, m) ==
  LET p == primary[t]
      cl == [client[t] EXCEPT !.parallelCommit = FALSE,
                              !.pendingReqs = @ \ {p}]
  IN  /\ m.type = "ParallelModeCommitReply"
      /\ m.tid = t
      /\ client[t].parallelCommit
      /\ Update(t, IF p \in cl.waiting
                     THEN [cl EXCEPT !.waiting = @ \ {p}, !.final = TRUE,
                                     !.done = TRUE, !.reply = "OK"]
                     ELSE cl)
      /\ UNCHANGED msgs

\* Nobody is told that the request for the result has timed out.
ParallelCommitTimeout(t) ==
  /\ client[t].parallelCommit /\ primary[t] \in Timers
  /\ Update(t, [client[t] EXCEPT !.parallelCommit = FALSE])
  /\ UNCHANGED msgs

-----------------------------------------------------------------------------
(***************************************************************************)
(* The application's thread.                                               *)
(***************************************************************************)
\* Commit() starts, or has slept through an attempt that timed out.
MayPrepare(cl) ==
  \/ cl.phase = "active"
  \/ /\ cl.phase = "preparing" /\ cl.done
     /\ PrepareStatus(cl) = "TIMEOUT"
     /\ cl.tries < COMMIT_RETRIES

\* InvokePrepare, SendPrepare: the participants whose request fails to be sent.
\* It is dropped with its timer, and the promise is not told.
Unsent(t) == SUBSET (participants[t] \cap Unsendable)

\* InvokeParallelCommit: whether the request for the result is sent.
ResultAsked(t) ==
  LET parallel == tpcMode = "PARALLEL"
  IN  {parallel, parallel /\ primary[t] \notin Unsendable}

\* One attempt: a new promise, a request to each participant's leader and, in
\* parallel mode, one for the result to the primary shard's.  A ShardClient
\* waits on for a request that was not sent.  A request for the result that
\* cannot be sent leaves the one of an earlier attempt in its place.
Prepare(t) ==
  LET cl == client[t]
      parallel == tpcMode = "PARALLEL"
      asked == participants[t] \cup (IF parallel THEN {primary[t]} ELSE {})
  IN  /\ MayPrepare(cl)
      /\ \E unsent \in Unsent(t), result \in ResultAsked(t) :
           /\ Update(t, [NewClient EXCEPT
                !.phase = "preparing",
                !.tries = cl.tries + 1,
                !.pendingReqs = participants[t] \ unsent,
                !.parallelCommit = result \/ cl.parallelCommit,
                !.waiting = asked,
                !.unsent = unsent])
           /\ Send({PrepareTransaction(t, s) : s \in participants[t] \ unsent}
                    \cup (IF result THEN {ParallelModeCommit(t)} ELSE {}))

\* Nothing reaches the promise once waiting is NULL: the rest of the state is
\* cleared with it.
Finish(t, phase, state) ==
  /\ Update(t, [NewClient EXCEPT !.phase = phase, !.tries = client[t].tries])
  /\ Send({Commit(t, s, state) : s \in participants[t]})

\* Mutant: an attempt that did not fail outright is a success
MayCommitOnTimeout(cl) ==
  cl.phase = "preparing" /\ cl.done /\ PrepareStatus(cl) # "FAIL"

MayCommit(cl) ==
  cl.phase = "preparing" /\ cl.done /\ PrepareStatus(cl) = "OK"

\* The rest of Client::Commit: the decision is sent to all participants, once,
\* and nobody acknowledges it.
FinishCommit(t) == MayCommit(client[t]) /\ Finish(t, "committed", "COMMIT")

FinishAbort(t) ==
  LET cl == client[t]
  IN  /\ cl.phase = "preparing" /\ cl.done
      /\ ~MayCommit(cl) /\ ~MayPrepare(cl)
      /\ Finish(t, "aborted", "ABORT")

\* The application calls Abort() instead of Commit().
Abort(t) == client[t].phase = "active" /\ Finish(t, "aborted", "ABORT")

-----------------------------------------------------------------------------
ClientInit == client = [t \in Txn |-> NewClient]

ClientNext ==
  \E t \in Txn :
    \/ Prepare(t) \/ FinishCommit(t) \/ FinishAbort(t) \/ Abort(t)
    \/ ParallelCommitTimeout(t)
    \/ \E s \in Shard : PrepareTimeout(t, s)
    \/ \E m \in msgs : \/ HandlePrepareTxnReply(t, m)
                        \/ HandleParallelModeCommitReply(t, m)

ClientTypeOK == client \in [Txn -> ClientState]
=============================================================================
