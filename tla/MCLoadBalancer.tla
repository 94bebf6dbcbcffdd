--------------------------- MODULE MCLoadBalancer ---------------------------
(* Two servers that take one task at a time, and two clients.                *)
EXTENDS LoadBalancer

CONSTANTS c1, c2
=============================================================================
