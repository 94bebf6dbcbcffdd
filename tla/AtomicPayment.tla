--------------------------- MODULE AtomicPayment ----------------------------
(***************************************************************************)
(* What a client of P3-Strife is promised (README of P3-Strife, sections   *)
(* 2.2.2 and 5.2): a transfer happens at one instant at both banks or not  *)
(* at all, happens at most once however often the client sends it, and     *)
(* every answer tells the truth about it.                                  *)
(***************************************************************************)
CONSTANTS
    Requests,    \* calls a client makes
    TxIds,
    TxOf         \* the transaction each call is for

VARIABLES
    moved,       \* transactions whose money has moved
    answer       \* the answer to each call

Init ==
    /\ moved = {}
    /\ answer = [r \in Requests |-> "none"]

\* The transfer happens, on behalf of a call that is still to be answered.
Transfer(r) ==
    /\ answer[r] = "none"
    /\ TxOf[r] \notin moved
    /\ moved' = moved \cup {TxOf[r]}
    /\ UNCHANGED answer

Confirm(r) ==
    /\ answer[r] = "none"
    /\ TxOf[r] \in moved
    /\ \E a \in {"success", "duplicate"} : answer' = [answer EXCEPT ![r] = a]
    /\ UNCHANGED moved

Refuse(r) ==
    /\ answer[r] = "none"
    /\ TxOf[r] \notin moved
    /\ answer' = [answer EXCEPT ![r] = "failure"]
    /\ UNCHANGED moved

Next == \E r \in Requests : Transfer(r) \/ Confirm(r) \/ Refuse(r)

Spec == Init /\ [][Next]_<<moved, answer>>
=============================================================================
