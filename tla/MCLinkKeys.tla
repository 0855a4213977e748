---- MODULE MCLinkKeys ----
EXTENDS LinkKeys

Key(kind, pk, from, to) == [kind |-> kind, publicKey |-> pk, startEpoch |-> from, endEpoch |-> to]

\* A voting node with a remote key, and keys of an earlier setup: both voting
\* keys cross the epochs of the node's second file, and with the other two
\* they make the fourth key.
MCOwnKeys == {Key("remote", "own", 0, 0)}
MCLinks ==
    MCOwnKeys \cup
    {Key("remote", "old", 0, 0),
     Key("voting", "own", 1, 1), Key("voting", "own", 2, 3), Key("voting", "own", 4, 5),
     Key("voting", "old", 2, 2), Key("voting", "old", 3, 3)}
====
