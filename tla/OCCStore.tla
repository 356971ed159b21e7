------------------------------ MODULE OCCStore ------------------------------
(***************************************************************************)
(* The optimistic store of a shard at its leader                           *)
(* (store/strongstore/occstore.cc), behind the upcalls of                  *)
(* store/strongstore/server.cc.  The value of a version is the transaction *)
(* that wrote it.                                                          *)
(*                                                                         *)
(* What a transaction writes is fixed by writeSet; what it has read, with  *)
(* the timestamps it was given, is rset, kept by its client and sent with  *)
(* the prepare request.                                                    *)
(***************************************************************************)
EXTENDS VersionStore

CONSTANTS Txn,        \* transactions
          Key,        \* the keys of the shard
          Loaded,     \* the keys loaded from the file at start-up
          writeSet,   \* per transaction: the keys it writes
          Loader,     \* the writer of the loaded values
          Nothing     \* a value that was never set: the empty string

ASSUME StoreAssumption ==
  /\ Loaded \subseteq Key
  /\ writeSet \in [Txn -> SUBSET Key]
  /\ Loader \notin Txn /\ Nothing \notin Txn \cup {Loader}
  /\ IsFiniteSet(Txn)

VARIABLES kv,            \* per key: its versions
          precommits,    \* per key: the transactions pre-committed on it
          prepared,      \* the transactions in the validation set
          precommitted,  \* per transaction: "none", "writes", "empty"
          rset           \* per transaction and key: the timestamp read, or -1

storeVars == <<kv, precommits, prepared, precommitted>>

\* The keys t has read.
ReadKeys(t) == {k \in Key : rset[t][k] # -1}

\* Get with a dependency.  When the key has pre-committed writers, neither
\* value nor timestamp is filled in.
Get(k) ==
  IF precommits[k] = <<>>
    THEN [dependency |-> Loader, timestamp |-> newest(kv[k]).write,
          value |-> newest(kv[k]).value]
    ELSE [dependency |-> precommits[k][Len(precommits[k])], timestamp |-> 0,
          value |-> Nothing]

-----------------------------------------------------------------------------
getPreparedWrites == UNION {writeSet[u] : u \in prepared}

getPreparedReadWrites == UNION {writeSet[u] \cup ReadKeys(u) : u \in prepared}

\* Mutant: writes are checked against prepared writes only
OCCCheckWritesOnly(t) ==
  /\ \A k \in ReadKeys(t) : inStore(kv[k]) =>
       newest(kv[k]).write =< rset[t][k] /\ k \notin getPreparedWrites
  /\ writeSet[t] \cap getPreparedWrites = {}

\* The check of Prepare.  A read of a key that is not there is not checked.
OCCCheck(t) ==
  /\ \A k \in ReadKeys(t) : inStore(kv[k]) =>
       newest(kv[k]).write =< rset[t][k] /\ k \notin getPreparedWrites
  /\ writeSet[t] \cap getPreparedReadWrites = {}

PrepareOK(t) == t \in prepared \/ OCCCheck(t)

StorePrepare(t) ==
  /\ prepared' = prepared \cup {t}
  /\ UNCHANGED <<kv, precommits, precommitted>>

\* prepared[id] makes an empty transaction when there is none.
StorePreCommit(t) ==
  /\ prepared' = prepared \ {t}
  /\ precommitted' = [precommitted EXCEPT ![t] =
                        IF t \in prepared THEN "writes" ELSE "empty"]
  /\ precommits' = [k \in Key |->
                      IF t \in prepared /\ k \in writeSet[t]
                        THEN preCommit(precommits[k], t) ELSE precommits[k]]
  /\ UNCHANGED kv

\* Pre-committed transactions are looked for first.
StoreCommit(t, ts) ==
  LET early == precommitted[t] # "none"
      written == IF precommitted[t] = "writes" \/ (~early /\ t \in prepared)
                   THEN writeSet[t] ELSE {}
  IN  /\ kv' = [k \in Key |-> IF k \in written THEN put(kv[k], t, ts) ELSE kv[k]]
      /\ precommits' = [k \in Key |->
                          IF k \in written THEN dropPreCommit(precommits[k], t)
                          ELSE precommits[k]]
      /\ precommitted' = [precommitted EXCEPT ![t] = "none"]
      /\ prepared' = IF early THEN prepared ELSE prepared \ {t}

\* Abort of the transactions in T, called once more for those in Again.  The
\* pre-commit lists keep them.
StoreAbort(T, Again) ==
  /\ precommitted' = [t \in Txn |-> IF t \in T THEN "none" ELSE precommitted[t]]
  /\ prepared' = prepared \ {t \in T : precommitted[t] = "none" \/ t \in Again}
  /\ UNCHANGED <<kv, precommits>>

\* Load, with Timestamp().
StoreInit ==
  /\ kv = [k \in Key |-> IF k \in Loaded THEN put({}, Loader, 0) ELSE {}]
  /\ precommits = [k \in Key |-> <<>>]
  /\ prepared = {}
  /\ precommitted = [t \in Txn |-> "none"]
  /\ rset = [t \in Txn |-> [k \in Key |-> -1]]

StoreTypeOK ==
  /\ kv \in [Key -> SUBSET Version(Txn \cup {Loader})]
  /\ precommits \in [Key -> Seq(Txn)]
  /\ prepared \subseteq Txn
  /\ precommitted \in [Txn -> {"none", "writes", "empty"}]
  /\ rset \in [Txn -> [Key -> Nat \cup {-1}]]
=============================================================================
