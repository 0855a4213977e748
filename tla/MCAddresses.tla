----------------------------- MODULE MCAddresses ----------------------------
EXTENDS Addresses

NoKeys == [k \in Kinds |-> NoAccount]
PublicOnly(key) == [public |-> key, private |-> 0]
Pair(key) == [public |-> key, private |-> key]
PrivateOnly(key) == [public |-> 0, private |-> key]

Custom(mode, keys) == [mode |-> mode, keys |-> keys, roles |-> RoleKinds]
Roleless(mode, keys) == [mode |-> mode, keys |-> keys, roles |-> {}]

\* The custom presets of users: no keys, keys given in full, by their
\* private key or by their public key, one or all, in every mode, of nodes
\* that harvest and of nodes that no longer do.
SomeCustoms ==
    {Custom("ENCRYPT", NoKeys),
     Roleless("ENCRYPT", [NoKeys EXCEPT !["Main"] = Pair(1), !["Transport"] = Pair(2),
                                  ![Signer] = PrivateOnly(1)]),
     Custom("PROMPT_MAIN", [NoKeys EXCEPT !["Main"] = PublicOnly(1)]),
     Custom("PROMPT_MAIN_TRANSPORT", [NoKeys EXCEPT !["Main"] = PublicOnly(1)]),
     Custom("PROMPT_ALL", NoKeys),
     Custom("PROMPT_ALL", [k \in Kinds |-> IF k = Signer THEN NoAccount ELSE PublicOnly(2)])}

\* The balances of small mosaics: with and without fixed amounts (zero among
\* them), accounts to generate, nodes with an amount and without.
SmallRequests ==
    [supply : {4, 7}, maxHarvesterBalance : {1, 3}, accounts : {0, 2},
     fixed : {<<>>, <<0, 3>>},
     nodes : {<<4>>, <<Unasked, 1>>, <<Unasked, Unasked>>}]
=============================================================================
