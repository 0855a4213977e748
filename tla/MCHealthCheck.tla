---- MODULE MCHealthCheck ----
EXTENDS HealthCheck

CONSTANTS database, node, gateway, nodePort, restPort

\* The database exposes no port.
OneEach == [p \in {nodePort, restPort} |-> IF p = nodePort THEN node ELSE gateway]
====
