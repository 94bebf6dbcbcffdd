-------------------------------- MODULE Bank --------------------------------
(***************************************************************************)
(* The bank servers of P3-Strife (bank/bank_server.go).  Each bank keeps   *)
(* the balances of its clients and a map from transaction ids to the       *)
(* transaction's state; every handler runs under the bank's mutex, so each *)
(* is one atomic step.  The clients of the banks are disjoint, so one      *)
(* function holds the balances of all of them.                             *)
(*                                                                         *)
(* An operator of this module is the effect of one remote call.  The last  *)
(* parameter of a call that may be refused is the answer the bank gives.   *)
(***************************************************************************)
EXTENDS Integers

CONSTANTS
    Clients,         \* the names a payment may mention
    Banks,           \* BankA, BankB
    NoBank,          \* where a name lives that no bank knows
    BankOf,          \* data/bank_clients.json: the bank of each name
    TxIds,           \* transaction ids
    InitialBalance   \* data/balances.json when the processes start

ASSUME BankAssumption ==
    /\ NoBank \notin Banks
    /\ BankOf \in [Clients -> Banks \cup {NoBank}]
    /\ InitialBalance \in [Clients -> Nat]

VARIABLES
    bankTx,          \* bankTx[b][t]: state of transaction t at bank b
    balances         \* balances[c]: balance of c at its bank

bankVars == <<bankTx, balances>>

\* "unknown": the id is not in the bank's map.
BankTxState == {"unknown", "prepared", "committed", "aborted"}

BankTypeOK ==
    /\ bankTx \in [Banks -> [TxIds -> BankTxState]]
    /\ balances \in [Clients -> Int]

NoTransactions == [b \in Banks |-> [t \in TxIds |-> "unknown"]]

BankInit ==
    /\ bankTx = NoTransactions
    /\ balances = InitialBalance

-----------------------------------------------------------------------------
\* A prepared record replaces whatever the map holds for the id, and nothing
\* is set aside for it: the balance stays as it is until the commit.
Prepare(b, t, vote) ==
    /\ bankTx' = IF vote THEN [bankTx EXCEPT ![b][t] = "prepared"] ELSE bankTx
    /\ UNCHANGED balances

PrepareDebit(b, t, c, amount, vote) ==
    /\ vote = (BankOf[c] = b /\ balances[c] >= amount)
    /\ Prepare(b, t, vote)

PrepareCredit(b, t, c, amount, vote) ==
    /\ vote = (BankOf[c] = b)
    /\ Prepare(b, t, vote)

\* Only a prepared record commits; committing it adds delta to the balance.
Commit(b, t, c, delta, done) ==
    /\ done = (bankTx[b][t] = "prepared")
    /\ bankTx' = IF done THEN [bankTx EXCEPT ![b][t] = "committed"] ELSE bankTx
    /\ balances' = IF done THEN [balances EXCEPT ![c] = @ + delta] ELSE balances

\* The handler logs the state of the record before it looks whether there is
\* one: for an id the bank does not know, the process panics (RestartBanks).
CommitDebit(b, t, c, amount, done) ==
    /\ bankTx[b][t] # "unknown"
    /\ Commit(b, t, c, -amount, done)

CommitCredit(b, t, c, amount, done) == Commit(b, t, c, amount, done)

\* Any known record becomes aborted, a committed one too; no balance moves.
\* An unknown id is acknowledged and leaves no trace.
Abort(b, t) ==
    /\ bankTx' = IF bankTx[b][t] = "unknown" THEN bankTx
                 ELSE [bankTx EXCEPT ![b][t] = "aborted"]
    /\ UNCHANGED balances

\* Mutant of RestartBanks: the map of transactions is not made.
RestartWithoutMap(file) ==
    /\ bankTx' = [b \in Banks |-> <<>>]
    /\ balances' = file

\* Both banks run in one process.  A new one starts with empty maps and with
\* the balances found in the common file, which only the gateway writes.
RestartBanks(file) ==
    /\ bankTx' = NoTransactions
    /\ balances' = file
=============================================================================
