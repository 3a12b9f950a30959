----------------------------- MODULE MCXfsmStartup ----------------------------
EXTENDS XfsmStartup

CONSTANTS p1, p2, p3, p4

\* Two clients share the first priority group.
MCPriority == [p \in Properties |-> IF p \in {p1, p2} THEN 15 ELSE 50]
=============================================================================
