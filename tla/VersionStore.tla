---------------------------- MODULE VersionStore ----------------------------
(***************************************************************************)
(* The multi-version table under every store                               *)
(* (store/common/backend/versionstore.cc).  The versions of a key are a    *)
(* std::set ordered by the timestamp of the write alone: a set vs of       *)
(* records [write, value] with no two alike in write.  A timestamp is a    *)
(* pair (timestamp, id) compared lexicographically; only its order is used,*)
(* and a natural number stands for it.                                     *)
(***************************************************************************)
EXTENDS Integers, Sequences, FiniteSets

Version(Value) == [write : Nat, value : Value]

inStore(vs) == vs # {}

\* get(key): *(store[key].rbegin()), asked of a key that is in the store.
newest(vs) == CHOOSE v \in vs : \A u \in vs : u.write =< v.write

\* put: std::set::insert leaves an equal element where it is.
put(vs, val, t) ==
  IF \E v \in vs : v.write = t THEN vs
  ELSE vs \cup {[write |-> t, value |-> val]}

-----------------------------------------------------------------------------
(***************************************************************************)
(* The pre-commit lists: a vector of transaction ids per key.              *)
(***************************************************************************)
preCommit(list, t) == Append(list, t)

\* commit(key, tid), which looks at the list of a stored key only.
dropPreCommit(list, t) ==
  LET rest[i \in 0..Len(list)] ==
        IF i = 0 THEN <<>>
        ELSE IF list[i] = t THEN rest[i - 1] ELSE Append(rest[i - 1], list[i])
  IN  rest[Len(list)]
=============================================================================
