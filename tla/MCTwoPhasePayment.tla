------------------------- MODULE MCTwoPhasePayment --------------------------
(* Instances of TwoPhasePayment: Alice banks at BankA, Bob and Dave at BankB, *)
(* as in data/bank_clients.json; nobody is called Zed.                       *)
EXTENDS TwoPhasePayment, TLC

CONSTANTS alice, bob, dave, zed, bankA, bankB, h1, h2, h3, h4, h5, t1, t2, t3, t4

HomeBank == alice :> bankA @@ bob :> bankB @@ dave :> bankB @@ zed :> NoBank
HomeBankOf == [c \in Clients |-> HomeBank[c]]

\* Alice can afford one of her two transfers, and another once Bob has paid.
Funds == alice :> 2 @@ bob :> 2 @@ dave :> 1 @@ zed :> 0
FundsOf == [c \in Clients |-> Funds[c]]

Payer == [t \in TxIds |-> IF t \in {t1, t2} THEN alice ELSE bob]
Payee == [t \in TxIds |-> CASE t = t1 -> bob [] t = t2 -> dave [] t = t3 -> alice [] t = t4 -> zed]
Cost  == [t \in TxIds |-> IF t \in {t1, t3} THEN 2 ELSE 1]

\* The first transfer is sent twice, the others once.
Tx == h1 :> t1 @@ h2 :> t1 @@ h3 :> t2 @@ h4 :> t3 @@ h5 :> t4
TxOfHandler == [h \in Handlers |-> Tx[h]]
=============================================================================
