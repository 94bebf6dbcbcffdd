---------------------------- MODULE SimplePayment ---------------------------
(***************************************************************************)
(* A2/P3-Strife: a payment without a receiver.  The gateway makes one call *)
(* to the bank of the payer, then writes down what it takes the balance to *)
(* be, and keeps a record for payments that are sent again.                *)
(*                                                                         *)
(* One payer and one bank.  The gateway and the bank each have their own   *)
(* balance; both start from the file that only the gateway writes, in a    *)
(* goroutine of its own after every update.                                *)
(***************************************************************************)
EXTENDS Integers, FiniteSets

CONSTANTS
    Calls,       \* calls of MakePayment, numbered as they arrive
    Ids,         \* transaction ids; a retry carries the id of its first call
    NoId,        \* the id of a call that has not arrived
    Amount,      \* Amount[id]
    Deposit,     \* the balance at the start
    MaxCrashes   \* bound on crashes of the gateway and of the bank

ASSUME SimplePaymentAssumption ==
    /\ Calls \subseteq Nat
    /\ Amount \in [Ids -> Int] /\ NoId \notin Ids
    /\ Deposit \in Nat /\ MaxCrashes \in Nat

VARIABLES
    usesTwoPhase,  \* the configuration; true in NewGatewayServer
    roles,         \* the payer's roles in users.json; none also if not listed
    served,        \* some bank of bank_clients.json has the payer
    gateway,       \* accountBalances of the payer
    file,          \* balances.json
    saves,         \* SaveBalances goroutines that have not run
    records,       \* ids with a simple record
    connected,     \* bank.connected
    bankUp,
    bank,          \* balances of the payer in the bank
    call,          \* for each call: where it is, its id, the balance it read
    orders,        \* calls whose request has not been dealt with by the bank
    replies,       \* what the bank replied
    crashes,
    paid,          \* history: how often the bank took the amount of an id
    disturbed,     \* history: ids one of whose calls overlapped another, failed
                   \* without an answer of the bank, or lost its record
    reloaded       \* history: the bank has restarted after it took a payment

vars == <<usesTwoPhase, roles, served, gateway, file, saves, records, connected, bankUp, bank, call,
          orders, replies, crashes, paid, disturbed, reloaded>>
config   == <<usesTwoPhase, roles, served>>
storage  == <<gateway, file, saves>>
bankVars == <<bankUp, bank, paid, reloaded>>

New  == [pc |-> "new", id |-> NoId, balance |-> 0]
Running(k) == call[k].pc \notin {"new", "paid", "refused", "failed"}

Init ==
    /\ usesTwoPhase \in BOOLEAN /\ roles \in {{}, {"user"}} /\ served \in BOOLEAN
    /\ gateway = Deposit /\ file = Deposit /\ bank = Deposit
    /\ saves = 0 /\ records = {} /\ connected = FALSE /\ bankUp = TRUE
    /\ call = [k \in Calls |-> New]
    /\ orders = {}
    /\ replies = [k \in Calls |-> "none"]
    /\ crashes = 0
    /\ paid = [i \in Ids |-> 0] /\ disturbed = {} /\ reloaded = FALSE

Goto(k, pc) == call' = [call EXCEPT ![k].pc = pc]

\* The bank's answer is taken; the balance that was read is not needed again.
Take(k, pc) ==
    /\ call' = [call EXCEPT ![k] = [pc |-> pc, id |-> @.id, balance |-> 0]]
    /\ replies' = [replies EXCEPT ![k] = "none"]

-----------------------------------------------------------------------------
(* The gateway *)

(* Who may make payments, and see balances.                                  *)
MethodPermissions == {"user", "admin"}
HasRole == \E role \in MethodPermissions : role \in roles

(* The interceptor asks for a role, and not whether the user has logged in.  *)
Unary(handler) == IF HasRole THEN handler ELSE "refused"

(* A call arrives, from the payer.                                           *)
Arrive(k, i) ==
    /\ call[k].pc = "new" /\ \A l \in Calls : l < k => call[l].pc # "new"
    /\ call' = [call EXCEPT ![k] = [pc |-> Unary("look"), id |-> i, balance |-> 0]]
    /\ disturbed' = IF \E l \in Calls : Running(l) /\ call[l].id = i
                    THEN disturbed \cup {i} ELSE disturbed
    /\ UNCHANGED <<config, storage, records, connected, bankVars, orders, replies, crashes>>

(* A record is taken for an answer only when two-phase payments are off.     *)
(* Only successful payments have one.                                        *)
LookUp(k) ==
    /\ call[k].pc = "look"
    /\ IF call[k].id \in records /\ ~usesTwoPhase
       THEN Goto(k, "paid")
       ELSE Goto(k, "funds")
    /\ UNCHANGED <<config, storage, records, connected, bankVars, orders, replies, crashes,
                   disturbed>>

CheckFunds(k) ==
    /\ call[k].pc = "funds"
    /\ IF gateway < Amount[call[k].id]
       THEN Goto(k, "refused")
       ELSE call' = [call EXCEPT ![k] = [pc |-> "connect", id |-> @.id, balance |-> gateway]]
    /\ UNCHANGED <<config, storage, records, connected, bankVars, orders, replies, crashes,
                   disturbed>>

(* GetBankClient, GetAccountNumber, and the request to the bank.  Dialling   *)
(* takes at most three seconds; it succeeds if the bank is up.               *)
SendToBank(k) ==
    /\ call[k].pc = "connect"
    /\ IF served /\ (connected \/ bankUp)
       THEN /\ connected' = TRUE
            /\ Goto(k, "waiting")
            /\ orders' = orders \cup {k}
       ELSE /\ Goto(k, "refused")
            /\ UNCHANGED <<connected, orders>>
    /\ UNCHANGED <<config, storage, records, bankVars, replies, crashes, disturbed>>

(* No answer: the bank is gone, or paymentTimeout passes while the request   *)
(* or its reply is under way.  The payment is reported as failed.            *)
CallFails(k) ==
    /\ call[k].pc = "waiting"
    /\ Take(k, "failed")
    /\ disturbed' = disturbed \cup {call[k].id}
    /\ orders' = IF bankUp THEN orders ELSE orders \ {k}
    /\ UNCHANGED <<config, storage, records, connected, bankVars, crashes>>

Refused(k) ==
    /\ call[k].pc = "waiting" /\ replies[k] = "no"
    /\ Take(k, "refused")
    /\ UNCHANGED <<config, storage, records, connected, bankVars, orders, crashes,
                   disturbed>>

\* Mutant of UpdateBalance: the balance is lowered whatever the bank replied.
UpdateAnyway(k) ==
    /\ call[k].pc = "waiting" /\ replies[k] # "none"
    /\ gateway' = call[k].balance - Amount[call[k].id]
    /\ saves' = saves + 1
    /\ Take(k, "record")
    /\ UNCHANGED <<config, file, records, connected, bankVars, orders, crashes,
                   disturbed>>

(* The balance read before the call to the bank is lowered and written back. *)
UpdateBalance(k) ==
    /\ call[k].pc = "waiting" /\ replies[k] = "yes"
    /\ gateway' = call[k].balance - Amount[call[k].id]
    /\ saves' = saves + 1
    /\ Take(k, "record")
    /\ UNCHANGED <<config, file, records, connected, bankVars, orders, crashes,
                   disturbed>>

\* Mutant of StoreSimpleTransaction: the record is left out.
StoreNothing(k) ==
    /\ call[k].pc = "record"
    /\ Goto(k, "paid")
    /\ UNCHANGED <<config, storage, records, connected, bankVars, orders, replies, crashes,
                   disturbed>>

StoreSimpleTransaction(k) ==
    /\ call[k].pc = "record"
    /\ records' = records \cup {call[k].id}
    /\ Goto(k, "paid")
    /\ UNCHANGED <<config, storage, connected, bankVars, orders, replies, crashes, disturbed>>

SaveBalances ==
    /\ saves > 0
    /\ saves' = saves - 1
    /\ file' = gateway
    /\ UNCHANGED <<config, gateway, records, connected, bankVars, call, orders, replies,
                   crashes, disturbed>>

(* The cleanup routine removes a record that is older than TransactionTTL.   *)
Expire(i) ==
    /\ i \in records
    /\ records' = records \ {i}
    /\ disturbed' = disturbed \cup {i}
    /\ UNCHANGED <<config, storage, connected, bankVars, call, orders, replies, crashes>>

(* What GetBalance shows the payer.                                          *)
GetBalance == gateway

(* GetTransactionStatus, for a payment of this kind.                         *)
Status(i) == IF i \in records THEN "completed" ELSE "not_found"

(* The gateway dies, or is stopped before a save has run, and starts again.  *)
RestartGateway ==
    /\ crashes < MaxCrashes
    /\ crashes' = crashes + 1
    /\ gateway' = file
    /\ saves' = 0 /\ records' = {} /\ connected' = FALSE
    /\ call' = [k \in Calls |-> IF Running(k)
                               THEN [pc |-> "failed", id |-> call[k].id, balance |-> 0]
                               ELSE call[k]]
    /\ replies' = [k \in Calls |-> "none"]
    /\ orders' = IF bankUp THEN orders ELSE {}
    /\ disturbed' = Ids
    /\ UNCHANGED <<config, file, bankVars>>

-----------------------------------------------------------------------------
(* The bank *)

\* Mutant of Covered: the funds are not compared.
Uncovered(k) == Amount[call[k].id] > 0

Covered(k) == Amount[call[k].id] > 0 /\ bank >= Amount[call[k].id]

(* ProcessPayment of the bank.  It does not look at the transaction id, and  *)
(* runs also when the gateway has given up the call or is gone.              *)
ProcessPayment(k) ==
    /\ bankUp /\ k \in orders
    /\ orders' = orders \ {k}
    /\ IF Covered(k)
       THEN /\ bank' = bank - Amount[call[k].id]
            /\ paid' = [paid EXCEPT ![call[k].id] = @ + 1]
       ELSE UNCHANGED <<bank, paid>>
    /\ replies' = IF Running(k)
                  THEN [replies EXCEPT ![k] = IF Covered(k) THEN "yes" ELSE "no"]
                  ELSE replies
    /\ UNCHANGED <<config, storage, records, connected, bankUp, reloaded, call, crashes, disturbed>>

(* A call that was cancelled may not reach the bank at all.                  *)
Drop(k) ==
    /\ k \in orders /\ ~Running(k)
    /\ orders' = orders \ {k}
    /\ UNCHANGED <<config, storage, records, connected, bankVars, call, replies, crashes, disturbed>>

StopBank ==
    /\ bankUp /\ crashes < MaxCrashes
    /\ bankUp' = FALSE
    /\ crashes' = crashes + 1
    /\ orders' = {}
    /\ UNCHANGED <<config, storage, records, connected, bank, paid, reloaded, call, replies,
                   disturbed>>

(* A bank never saves: it starts from the file of the gateway.               *)
StartBank ==
    /\ ~bankUp
    /\ bankUp' = TRUE
    /\ bank' = file
    /\ reloaded' = (reloaded \/ \E i \in Ids : paid[i] > 0)
    /\ UNCHANGED <<config, storage, records, connected, call, orders, replies, crashes, paid,
                   disturbed>>

Next ==
    \/ \E k \in Calls, i \in Ids : Arrive(k, i)
    \/ \E k \in Calls : \/ LookUp(k) \/ CheckFunds(k) \/ SendToBank(k)
                        \/ CallFails(k) \/ Refused(k)
                        \/ UpdateBalance(k) \/ StoreSimpleTransaction(k)
                        \/ ProcessPayment(k) \/ Drop(k)
    \/ \E i \in Ids : Expire(i)
    \/ SaveBalances \/ RestartGateway \/ StopBank \/ StartBank

Spec == Init /\ [][Next]_vars

-----------------------------------------------------------------------------
(* Properties *)

(* Every variable keeps to its type; neither ledger is ever overdrawn        *)
(* (ProcessPayment of the gateway and of the bank).                          *)
TypeOK ==
    /\ usesTwoPhase \in BOOLEAN /\ roles \subseteq MethodPermissions /\ served \in BOOLEAN
    /\ gateway \in 0 .. Deposit /\ file \in 0 .. Deposit /\ bank \in 0 .. Deposit
    /\ saves \in Nat /\ records \subseteq Ids
    /\ connected \in BOOLEAN /\ bankUp \in BOOLEAN
    /\ \A k \in Calls : /\ call[k].id \in Ids \/ call[k] = New
                        /\ call[k].balance \in 0 .. Deposit
                        /\ replies[k] \in {"none", "yes", "no"}
    /\ orders \subseteq Calls /\ crashes \in 0 .. MaxCrashes
    /\ paid \in [Ids -> Nat] /\ disturbed \subseteq Ids /\ reloaded \in BOOLEAN

(* As long as the bank has lost nothing by a restart, a user is never shown  *)
(* less than the bank has: the gateway's balance, and the one in the file,   *)
(* may miss a payment (of two at once the later write wins, a call timed     *)
(* out, a save was lost), but never charge one that was not made             *)
(* (GetBalance, SaveBalances).                                               *)
GatewayNeverBelowBank == ~reloaded => GetBalance >= bank /\ file >= bank

(* With two-phase payments off, an id whose calls came one after the other,  *)
(* each answered by the bank or from the record, is charged at most once.    *)
(* (With them on, as NewGatewayServer configures, the record is passed over  *)
(* and a retry is charged again.)                                            *)
OnceWhenCalm == ~usesTwoPhase => \A i \in Ids \ disturbed : paid[i] <= 1

(* A payment reported as made, in an answer or as a status, was charged by   *)
(* the bank.                                                                 *)
SuccessMeansCharged ==
    /\ \A k \in Calls : call[k].pc = "paid" => paid[call[k].id] > 0
    /\ \A i \in Ids : Status(i) = "completed" => paid[i] > 0

=============================================================================
