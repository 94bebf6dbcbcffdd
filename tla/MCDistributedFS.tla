-------------------------- MODULE MCDistributedFS ---------------------------
(* Three workers and two files, of two chunks and of one.                    *)
EXTENDS DistributedFS

CONSTANTS story, note

Sizes == [f \in Files |-> IF f = story THEN 2 ELSE 1]
=============================================================================
