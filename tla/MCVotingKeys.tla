---- MODULE MCVotingKeys ----
EXTENDS VotingKeys

CONSTANTS n1, n2, n3

\* A file the user makes under the third index, after the first generated one.
SomeManualFiles == {<<3, [startEpoch |-> 4, endEpoch |-> 5]>>}
====
