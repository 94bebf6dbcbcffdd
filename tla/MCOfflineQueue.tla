--------------------------- MODULE MCOfflineQueue ---------------------------
(* Two payments of the same amount to the same receiver.                     *)
EXTENDS OfflineQueue

CONSTANTS p1, p2, g

Alike == [p \in Payments |-> "lunch"]
=============================================================================
