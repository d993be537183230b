------------------------------ MODULE MCConsole ------------------------------
(* Two consoles of one visitor behind the proxy, and two plans.            *)
EXTENDS Console, TLC
CONSTANTS b1, b2, p1, p2, r1, r2, v1, proxy
MCPeer == [b \in Browsers |-> proxy]
MCRealIP == [b \in Browsers |-> v1]
Symmetry == Permutations({b1, b2}) \cup Permutations({p1, p2}) \cup Permutations({r1, r2})
==============================================================================
