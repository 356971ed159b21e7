-------------------------- MODULE MCParallelLeader --------------------------
\* A writer w of x and y, a transaction u that reads y and writes x, and a
\* reader r of both whose prepare may come twice.
EXTENDS ParallelLeader

CONSTANTS w, r, u, x, y

MCreadSet == [t \in Txn |-> CASE t = w -> {} [] t = r -> {x, y} [] OTHER -> {y}]
MCwriteSet == [t \in Txn |-> CASE t = w -> {x, y} [] t = r -> {} [] OTHER -> {x}]
MCcorrespondent == [t \in Txn |-> 0]
MCMaxPrepares == [t \in Txn |-> IF t = r THEN 2 ELSE 1]
MCMaxRepeats == [t \in Txn |-> IF t = r THEN 1 ELSE 0]
=============================================================================
