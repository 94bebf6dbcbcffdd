--------------------------- MODULE MCSimplePayment --------------------------
(* Three calls for two payments that a deposit of four cannot cover twice.   *)
EXTENDS SimplePayment

CONSTANTS rent, fee

Amounts == [i \in {rent, fee} |-> IF i = rent THEN 3 ELSE 1]
=============================================================================
