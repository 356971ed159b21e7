---------------------------- MODULE MCVRReplica -----------------------------
(***************************************************************************)
(* Viewstamped replication with three replicas.                            *)
(***************************************************************************)
EXTENDS VRReplica, TLC

CONSTANTS c1, c2

MCClient == {c1, c2}
Symmetry == Permutations(MCClient)

Bounds(clients, ops, timers, lastView, transfers, nullCommit, refused, strays) ==
  [clients |-> clients, ops |-> ops, timers |-> timers, lastView |-> lastView,
   transfers |-> transfers, nullCommit |-> nullCommit, refused |-> refused,
   strays |-> strays]

\* Normal operation, batches, refused requests, a lagging replica.
Normal == Bounds(MCClient, 2, {}, 0, 1, TRUE, TRUE, TRUE)

\* A view change with two operations under way.
OneChange == Bounds(MCClient, 2, {2}, 1, 0, FALSE, FALSE, TRUE)

\* Two view changes that meet.
TwoChanges == Bounds(MCClient, 1, {1, 2}, 2, 0, FALSE, FALSE, FALSE)

\* A view change with state transfer, followed beyond stray entries.
Transfer == Bounds(MCClient, 1, {2}, 1, 1, FALSE, FALSE, TRUE)

MCSetup == {Normal, OneChange, TwoChanges, Transfer}
=============================================================================
