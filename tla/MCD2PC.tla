------------------------------- MODULE MCD2PC -------------------------------
\* One transaction.  It takes part on two shards led in one data centre, or on
\* one shard replicated in two, with the other shard as its primary.
EXTENDS D2PC

MCtwoShards == [t \in Txn |-> {0, 1}]
MConeShard == [t \in Txn |-> {0}]
MCprimary == [t \in Txn |-> 1]
=============================================================================
