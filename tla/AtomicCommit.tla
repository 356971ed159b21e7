---------------------------- MODULE AtomicCommit ----------------------------
(***************************************************************************)
(* What a distributed commit promises.  Every transaction is decided once, *)
(* one way, and committed only when enough replicas of every participant   *)
(* hold it.  Afterwards each replica of each participant carries out that  *)
(* decision, once, or never hears of it.                                   *)
(***************************************************************************)
CONSTANTS Txn, Shard, Replica, participants

VARIABLES outcome,    \* per transaction: "undecided", "committed", "aborted"
          durable,    \* per transaction: the shards where a quorum holds it
          effect      \* per transaction, shard and replica: "none",
                      \* "applied", "undone"

vars == <<outcome, durable, effect>>

Init ==
  /\ outcome = [t \in Txn |-> "undecided"]
  /\ durable = [t \in Txn |-> {}]
  /\ effect = [t \in Txn |-> [s \in Shard |-> [r \in Replica |-> "none"]]]

Persist(t, s) ==
  /\ durable' = [durable EXCEPT ![t] = @ \cup {s}]
  /\ UNCHANGED <<outcome, effect>>

Commit(t) ==
  /\ outcome[t] = "undecided"
  /\ participants[t] \subseteq durable[t]
  /\ outcome' = [outcome EXCEPT ![t] = "committed"]
  /\ UNCHANGED <<durable, effect>>

Abort(t) ==
  /\ outcome[t] = "undecided"
  /\ outcome' = [outcome EXCEPT ![t] = "aborted"]
  /\ UNCHANGED <<durable, effect>>

Carry(t, s, r, e) ==
  /\ s \in participants[t]
  /\ effect[t][s][r] = "none"
  /\ effect' = [effect EXCEPT ![t][s][r] = e]
  /\ UNCHANGED <<outcome, durable>>

Apply(t, s, r) == outcome[t] = "committed" /\ Carry(t, s, r, "applied")

Undo(t, s, r) == outcome[t] = "aborted" /\ Carry(t, s, r, "undone")

Next ==
  \E t \in Txn :
    \/ Commit(t) \/ Abort(t)
    \/ \E s \in Shard : Persist(t, s)
    \/ \E s \in Shard, r \in Replica : Apply(t, s, r) \/ Undo(t, s, r)

Spec == Init /\ [][Next]_vars
=============================================================================
