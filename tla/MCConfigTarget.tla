--------------------------- MODULE MCConfigTarget ---------------------------
EXTENDS ConfigTarget

Nd(n, main, roles) ==
    [name |-> n, provided |-> [NoKeys EXCEPT !["main"] = main], roles |-> roles,
     excluded |-> FALSE]

\* A network that goes between a nemesis of its own and a seed folder, and from
\* one node to two and back; the second has a provided key.
Growing ==
    [customs |-> {<<Nd("a", 0, {})>>, <<Nd("a", 0, {}), Nd("b", 100, {})>>},
     seeds |-> {0, 1}, maxKeys |-> 1]

\* A private network, of two nodes that harvest or of one that does so with a
\* provided key and a remote account, and one that is excluded.
Private ==
    [customs |-> {<<Nd("a", 0, {"vrf"}), Nd("b", 0, {"vrf", "remote"})>>,
                  <<Nd("a", 100, {"remote", "vrf"}),
                    [Nd("b", 0, {"vrf"}) EXCEPT !.excluded = TRUE]>>},
     seeds |-> {0}, maxKeys |-> 4]

\* A network of one node whose seed folder changes with a release.
Adopting ==
    [customs |-> {<<Nd("a", 0, {"vrf"})>>}, seeds |-> {0, 1, 2}, maxKeys |-> 1]

SomeNetworks == {Growing, Private, Adopting}
=============================================================================
