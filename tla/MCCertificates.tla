---- MODULE MCCertificates ----
EXTENDS Certificates, TLC

CONSTANTS a, b

\* No property tells the nodes apart.
TwoNodes == {a, b}
NodesAlike == Permutations(TwoNodes)
====
