----------------------------- MODULE MCMapReduce ----------------------------
(* Three inputs over three words; the hash of the long one has overflowed.   *)
EXTENDS MapReduce

CONSTANTS a, b, long

SmallTexts == <<<<a, b>>, <<b, b, long>>, <<a>>>>
SmallHash  == [w \in {a, b, long} |-> IF w = a THEN 1 ELSE IF w = b THEN 2 ELSE -3]
=============================================================================
