---------------------------- MODULE MCFastCommit ----------------------------
EXTENDS FastCommit

MCprimary == [t \in Txn |-> 0]
MCparticipants == [t \in Txn |-> {0, 1}]
=============================================================================
