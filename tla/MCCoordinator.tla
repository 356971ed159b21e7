---------------------------- MODULE MCCoordinator ---------------------------
\* One transaction on two shards led in different data centres.  The number of
\* the primary shard is no replica number, so that s and s % n differ.
EXTENDS CoordinatorEnv

MCprimary == [t \in Txn |-> n + 1]
MCparticipants == [t \in Txn |-> {0, n + 1}]
=============================================================================
