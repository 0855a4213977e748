---- MODULE MCAnnounce ----
EXTENDS Announce

MCAccounts == {"m1", "m2", "s", "c1", "c2", "c3"}
MCMain == <<"m1", "m2">>

\* Nobody is multisig; both nodes are, with different cosigners; the provider
\* and one node are.
Multi(keys, approval, removal) ==
    [cosigners |-> keys, minApproval |-> approval, minRemoval |-> removal]
Nobody == [a \in MCAccounts |-> NotMultisig]
MCMultisigs ==
    {Nobody,
     [Nobody EXCEPT !["m1"] = Multi({"c1", "c2", "c3"}, 2, 1), !["m2"] = Multi({"c2", "c3"}, 1, 1)],
     [Nobody EXCEPT !["s"] = Multi({"c1", "c2"}, 2, 2), !["m1"] = Multi({"c1", "c3"}, 1, 1)]}

Rich == [a \in MCAccounts |-> "funded"]
MCBalances ==
    {Rich,
     [Rich EXCEPT !["m1"] = "empty", !["c2"] = "unknown"],
     [Rich EXCEPT !["m2"] = "unknown", !["c1"] = "empty"]}

\* Make an account multisig or add two cosigners to it; delete a cosigner.
MCModifications ==
    {[additions |-> {"c1", "c2"}, deletions |-> {}, approvalDelta |-> 1, removalDelta |-> 1],
     [additions |-> {}, deletions |-> {"c1"}, approvalDelta |-> 0, removalDelta |-> 0]}
====
