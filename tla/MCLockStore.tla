----------------------------- MODULE MCLockStore -----------------------------
\* LockStore for TLC: a transaction that reads both keys and writes x, one
\* that reads x and writes y, one that writes both, and a reader of x.
EXTENDS LockStore, TLC

CONSTANTS a, b, c, d, x, y

MCreadSet == a :> {x, y} @@ b :> {x} @@ c :> {} @@ d :> {x}
MCwriteSet == a :> {x} @@ b :> {y} @@ c :> {x, y} @@ d :> {}
=============================================================================
