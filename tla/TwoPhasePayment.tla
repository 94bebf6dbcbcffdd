-------------------------- MODULE TwoPhasePayment ---------------------------
(***************************************************************************)
(* A transfer between two accounts in P3-Strife: the gateway's handler of  *)
(* MakePayment (gateway/payment/processor.go with gateway/payment/         *)
(* transaction.go, gateway/storage/balances.go and gateway/banking/        *)
(* client.go) running two-phase commit against the banks of module Bank.   *)
(*                                                                         *)
(* A handler is one call of MakePayment.  Handlers run concurrently, each  *)
(* in a goroutine of the gRPC server; several may carry the same           *)
(* transaction id, because the client re-sends a payment under the id it   *)
(* cached (client/interceptors/transaction.go).  A call to a bank is made  *)
(* by a goroutine of its own: it may be executed by the bank after its     *)
(* caller gave up, or never.                                               *)
(***************************************************************************)
EXTENDS Bank

CONSTANTS
    Handlers,           \* calls of MakePayment
    TxOf,               \* TxOf[h]: the transaction id handler h is sent
    Sender, Receiver,   \* of each transaction: the id stands for one request
    Amount,
    NoRecord,           \* "no such transaction" in the gateway's map
    MayExpire,          \* whether contexts may run out or be cancelled
    Overlap,            \* whether the client's queue may send one payment twice at once
    MayForget,          \* whether records may grow older than TransactionTTL
    MaxBankRestarts,    \* bound on operator restarts of the bank process
    MaxGatewayRestarts  \* bound on restarts of the gateway

ASSUME PaymentAssumption ==
    /\ NoRecord \notin Handlers
    /\ TxOf \in [Handlers -> TxIds]
    /\ Sender \in [TxIds -> Clients]
    /\ Receiver \in [TxIds -> Clients]
    /\ Amount \in [TxIds -> Nat \ {0}]
    /\ \A t \in TxIds : BankOf[Sender[t]] \in Banks
    /\ MayExpire \in BOOLEAN /\ Overlap \in BOOLEAN /\ MayForget \in BOOLEAN
    /\ MaxBankRestarts \in Nat /\ MaxGatewayRestarts \in Nat

VARIABLES
    pc,          \* where each handler is
    expired,     \* handlers whose context is done
    answer,      \* what each handler returned to its client
    state,       \* State field of the record each handler created
    record,      \* TransactionManager.transactions: id -> creator of the record
    reply,       \* outcome of the two calls of the phase a handler is in
    wire,        \* calls on their way to a bank
    applied,     \* history: the sides of its transfer a handler got executed
    gwBalance,   \* BalanceStorage.accountBalances
    read,        \* balance a handler read and has yet to write back
    file,        \* data/balances.json
    connected,   \* banks the gateway has dialled
    raced,       \* history: a balance was written back over somebody else's update
    bankRestarts, gwRestarts

handlerVars == <<pc, expired, answer, state, reply, read>>
gatewayVars == <<record, gwBalance, connected>>
counters    == <<raced, bankRestarts, gwRestarts>>

vars == <<bankVars, handlerVars, gatewayVars, wire, applied, file, counters>>

Roles  == {"debit", "credit"}
Phases == {"prepare", "commit"}
Calls  == [handler : Handlers, phase : Phases, role : Roles]

HandlerPc == {"idle", "lookup", "funds", "admit", "register", "connecting", "preparing",
              "prepared", "committing", "abortDebit", "abortCredit", "cleanup",
              "storeDebit", "readCredit", "storeCredit", "save", "done", "dead"}

\* "created" is the zero value before the record exists.
TransactionState == {"created", "preparing", "prepared", "committing", "committed",
                     "aborting", "aborted"}

Answers == {"none", "success", "duplicate", "failure"}

Party(h, role) == IF role = "debit" THEN Sender[TxOf[h]] ELSE Receiver[TxOf[h]]
BankFor(h, role) == BankOf[Party(h, role)]

TypeOK ==
    /\ BankTypeOK
    /\ pc \in [Handlers -> HandlerPc]
    /\ expired \in SUBSET Handlers
    /\ answer \in [Handlers -> Answers]
    /\ state \in [Handlers -> TransactionState]
    /\ record \in [TxIds -> Handlers \cup {NoRecord}]
    /\ reply \in [Handlers -> [Roles -> {"none", "yes", "no"}]]
    /\ wire \in SUBSET Calls
    /\ applied \in [Handlers -> SUBSET Roles]
    /\ gwBalance \in [Clients -> Int]
    /\ read \in [Handlers -> Int]
    /\ file \in [Clients -> Int]
    /\ connected \in SUBSET Banks
    /\ raced \in BOOLEAN
    /\ bankRestarts \in Nat
    /\ gwRestarts \in Nat

NoReplies == [role \in Roles |-> "none"]

Init ==
    /\ BankInit
    /\ pc = [h \in Handlers |-> "idle"]
    /\ expired = {}
    /\ answer = [h \in Handlers |-> "none"]
    /\ state = [h \in Handlers |-> "created"]
    /\ record = [t \in TxIds |-> NoRecord]
    /\ reply = [h \in Handlers |-> NoReplies]
    /\ wire = {}
    /\ applied = [h \in Handlers |-> {}]
    /\ gwBalance = InitialBalance
    /\ read = [h \in Handlers |-> 0]
    /\ file = InitialBalance
    /\ connected = {}
    /\ raced = FALSE
    /\ bankRestarts = 0
    /\ gwRestarts = 0

-----------------------------------------------------------------------------
(* Steps of a handler.                                                     *)

Goto(h, place) == pc' = [pc EXCEPT ![h] = place]

Return(h, result) ==
    /\ Goto(h, "done")
    /\ answer' = [answer EXCEPT ![h] = result]

\* The client sends the payment.  It sends it again only when it gave up on
\* the earlier calls, unless two goroutines of its queue send it at once.
Arrive(h) ==
    /\ pc[h] = "idle"
    /\ \A h2 \in Handlers \ {h} :
           TxOf[h2] = TxOf[h] =>
               Overlap \/ pc[h2] \in {"idle", "done", "dead"} \/ h2 \in expired
    /\ Goto(h, "lookup")
    /\ UNCHANGED <<bankVars, expired, answer, state, reply, read, gatewayVars, wire,
                   applied, file, counters>>

\* Mutant of Lookup: a committed record is not looked for.
LookupSkipsCommitted(h) ==
    LET rec == record[TxOf[h]] IN
    /\ pc[h] = "lookup"
    /\ IF rec # NoRecord /\ state[rec] = "aborted"
       THEN Return(h, "failure")
       ELSE Goto(h, "funds") /\ UNCHANGED answer
    /\ UNCHANGED <<bankVars, expired, state, reply, read, gatewayVars, wire, applied,
                   file, counters>>

\* Mutant of Lookup: the answers for the two final states are swapped.
LookupSwapped(h) ==
    LET rec == record[TxOf[h]] IN
    /\ pc[h] = "lookup"
    /\ CASE rec # NoRecord /\ state[rec] = "aborted"   -> Return(h, "duplicate")
         [] rec # NoRecord /\ state[rec] = "committed" -> Return(h, "failure")
         [] OTHER -> Goto(h, "funds") /\ UNCHANGED answer
    /\ UNCHANGED <<bankVars, expired, state, reply, read, gatewayVars, wire, applied,
                   file, counters>>

\* A record in the map answers for the payment when it is final.
Lookup(h) ==
    LET rec == record[TxOf[h]] IN
    /\ pc[h] = "lookup"
    /\ CASE rec # NoRecord /\ state[rec] = "committed" -> Return(h, "duplicate")
         [] rec # NoRecord /\ state[rec] = "aborted"   -> Return(h, "failure")
         [] OTHER -> Goto(h, "funds") /\ UNCHANGED answer
    /\ UNCHANGED <<bankVars, expired, state, reply, read, gatewayVars, wire, applied,
                   file, counters>>

\* The gateway's own copy of the sender's balance must cover the amount.
CheckFunds(h) ==
    /\ pc[h] = "funds"
    /\ IF gwBalance[Sender[TxOf[h]]] < Amount[TxOf[h]]
       THEN Return(h, "failure")
       ELSE Goto(h, "admit") /\ UNCHANGED answer
    /\ UNCHANGED <<bankVars, expired, state, reply, read, gatewayVars, wire, applied,
                   file, counters>>

\* Turned away while another handler prepares or commits the transaction; a
\* record that is prepared or aborting does not turn it away.
Admit(h) ==
    LET rec == record[TxOf[h]] IN
    /\ pc[h] = "admit"
    /\ IF rec # NoRecord /\ state[rec] \in {"preparing", "committing"}
       THEN Return(h, "failure")
       ELSE Goto(h, "register") /\ UNCHANGED answer
    /\ UNCHANGED <<bankVars, expired, state, reply, read, gatewayVars, wire, applied,
                   file, counters>>

\* A phase starts with one call to each bank.  A context that is already done
\* fails both calls before they leave the gateway.
StartPhase(h, phase) ==
    /\ wire' = IF h \in expired THEN wire
               ELSE wire \cup {[handler |-> h, phase |-> phase, role |-> r] : r \in Roles}
    /\ reply' = [reply EXCEPT ![h] = [r \in Roles |-> IF h \in expired THEN "no" ELSE "none"]]

\* The new record replaces whatever the map holds for the id.
Register(h) ==
    /\ pc[h] = "register"
    /\ record' = [record EXCEPT ![TxOf[h]] = h]
    /\ state' = [state EXCEPT ![h] = "preparing"]
    /\ Goto(h, "connecting")
    /\ UNCHANGED <<bankVars, expired, answer, reply, read, gwBalance, connected, wire,
                   applied, file, counters>>

\* preparePhase reaches both banks, dialling those it has not, and asks them.
Connect(h) ==
    /\ pc[h] = "connecting"
    /\ \A r \in Roles : BankFor(h, r) # NoBank
    /\ connected' = connected \cup {BankFor(h, r) : r \in Roles}
    /\ StartPhase(h, "prepare")
    /\ Goto(h, "preparing")
    /\ UNCHANGED <<bankVars, expired, answer, state, read, record, gwBalance, applied,
                   file, counters>>

\* Mutant of BeginAbort: the banks are not told.
BeginAbortAlone(h) ==
    /\ state' = [state EXCEPT ![h] = "aborted"]
    /\ Goto(h, "cleanup")

\* The entry of abortTransaction: the record is marked before the banks hear.
BeginAbort(h) ==
    /\ state' = [state EXCEPT ![h] = "aborting"]
    /\ Goto(h, "abortDebit")

\* GetBankForClient fails: no bank has the receiver, or a bank that was never
\* reached cannot be dialled.  The sender's bank is dialled first.
Unreachable(h) ==
    /\ pc[h] = "connecting"
    /\ \/ /\ BankFor(h, "debit") \notin connected
          /\ UNCHANGED connected
       \/ /\ BankFor(h, "credit") \notin connected
          /\ connected' = connected \cup {BankFor(h, "debit")}
    /\ BeginAbort(h)
    /\ UNCHANGED <<bankVars, expired, answer, reply, read, record, gwBalance, wire,
                   applied, file, counters>>

\* Mutant of AllReplied: the loop over the replies ends after the first.
AnyReplied(h) == \E r \in Roles : reply[h][r] # "none"
\* Mutant of AllAgreed: only the receiver's bank is listened to.
CreditAgreed(h) == reply[h]["credit"] = "yes"

AllReplied(h) == \A r \in Roles : reply[h][r] # "none"
AllAgreed(h)  == \A r \in Roles : reply[h][r] = "yes"

\* Mutant of PrepareDone: nothing is done about a refusal.
PrepareDoneIfAgreed(h) ==
    /\ pc[h] = "preparing"
    /\ AllAgreed(h)
    /\ state' = [state EXCEPT ![h] = "prepared"]
    /\ Goto(h, "prepared")
    /\ UNCHANGED <<bankVars, expired, answer, reply, read, gatewayVars, wire, applied,
                   file, counters>>

\* Both votes are in.
PrepareDone(h) ==
    /\ pc[h] = "preparing"
    /\ AllReplied(h)
    /\ IF AllAgreed(h)
       THEN state' = [state EXCEPT ![h] = "prepared"] /\ Goto(h, "prepared")
       ELSE BeginAbort(h)
    /\ UNCHANGED <<bankVars, expired, answer, reply, read, gatewayVars, wire, applied,
                   file, counters>>

StartCommit(h) ==
    /\ pc[h] = "prepared"
    /\ state' = [state EXCEPT ![h] = "committing"]
    /\ StartPhase(h, "commit")
    /\ Goto(h, "committing")
    /\ UNCHANGED <<bankVars, expired, answer, read, gatewayVars, applied, file, counters>>

\* Both commits were confirmed: the record is final and the sender's balance
\* is read for updateTwoPhaseBalances.
CommitDone(h) ==
    /\ pc[h] = "committing"
    /\ AllAgreed(h)
    /\ state' = [state EXCEPT ![h] = "committed"]
    /\ read' = [read EXCEPT ![h] = gwBalance[Sender[TxOf[h]]]]
    /\ Goto(h, "storeDebit")
    /\ UNCHANGED <<bankVars, expired, answer, reply, gatewayVars, wire, applied, file,
                   counters>>

\* A commit failed: the handler gives up without an abort and without a retry.
CommitFailed(h) ==
    /\ pc[h] = "committing"
    /\ AllReplied(h) /\ ~AllAgreed(h)
    /\ Goto(h, "cleanup")
    /\ UNCHANGED <<bankVars, expired, answer, state, reply, read, gatewayVars, wire,
                   applied, file, counters>>

\* The select of either phase sees the context done before, or instead of, the
\* last reply.
PhaseTimeout(h) ==
    /\ pc[h] \in {"preparing", "committing"}
    /\ h \in expired
    /\ BeginAbort(h)
    /\ UNCHANGED <<bankVars, expired, answer, reply, read, gatewayVars, wire, applied,
                   file, counters>>

\* One of the two Abort calls, made in turn and under a context of their own.
\* A bank that cannot be dialled is skipped.
AbortAt(h, role) ==
    LET b == BankFor(h, role) IN
    /\ pc[h] = IF role = "debit" THEN "abortDebit" ELSE "abortCredit"
    /\ \/ /\ b # NoBank
          /\ Abort(b, TxOf[h])
          /\ connected' = connected \cup {b}
       \/ b \notin connected /\ UNCHANGED <<bankVars, connected>>
    /\ IF role = "debit"
       THEN Goto(h, "abortCredit") /\ UNCHANGED state
       ELSE Goto(h, "cleanup") /\ state' = [state EXCEPT ![h] = "aborted"]
    /\ UNCHANGED <<expired, answer, reply, read, record, gwBalance, wire, applied, file,
                   counters>>

\* A failed payment takes the id out of the map, whoever's record it holds.
Cleanup(h) ==
    /\ pc[h] = "cleanup"
    /\ record' = [record EXCEPT ![TxOf[h]] = NoRecord]
    /\ Return(h, "failure")
    /\ UNCHANGED <<bankVars, expired, state, reply, read, gwBalance, connected, wire,
                   applied, file, counters>>

\* The storage replaces one balance, or writes all of them to the file.
UpdateBalance(c, amount) == gwBalance' = [gwBalance EXCEPT ![c] = amount]
WriteBalances == file' = gwBalance

\* updateTwoPhaseBalances writes back what was read, one account at a time.
StoreDebit(h) ==
    /\ pc[h] = "storeDebit"
    /\ UpdateBalance(Sender[TxOf[h]], read[h] - Amount[TxOf[h]])
    /\ raced' = (raced \/ gwBalance[Sender[TxOf[h]]] # read[h])
    /\ Goto(h, "readCredit")
    /\ UNCHANGED <<bankVars, expired, answer, state, reply, read, record, connected, wire,
                   applied, file, bankRestarts, gwRestarts>>

ReadCredit(h) ==
    /\ pc[h] = "readCredit"
    /\ read' = [read EXCEPT ![h] = gwBalance[Receiver[TxOf[h]]]]
    /\ Goto(h, "storeCredit")
    /\ UNCHANGED <<bankVars, expired, answer, state, reply, gatewayVars, wire, applied,
                   file, counters>>

StoreCredit(h) ==
    /\ pc[h] = "storeCredit"
    /\ UpdateBalance(Receiver[TxOf[h]], read[h] + Amount[TxOf[h]])
    /\ raced' = (raced \/ gwBalance[Receiver[TxOf[h]]] # read[h])
    /\ Goto(h, "save")
    /\ UNCHANGED <<bankVars, expired, answer, state, reply, read, record, connected, wire,
                   applied, file, bankRestarts, gwRestarts>>

\* The success is returned once the file is written, from the whole copy.
SaveBalances(h) ==
    /\ pc[h] = "save"
    /\ WriteBalances
    /\ Return(h, "success")
    /\ UNCHANGED <<bankVars, expired, state, reply, read, gatewayVars, wire, applied,
                   counters>>

HandlerStep(h) ==
    \/ Lookup(h) \/ CheckFunds(h) \/ Admit(h)
    \/ Register(h) \/ Connect(h) \/ Unreachable(h)
    \/ PrepareDone(h) \/ StartCommit(h) \/ CommitDone(h) \/ CommitFailed(h)
    \/ PhaseTimeout(h) \/ (\E role \in Roles : AbortAt(h, role)) \/ Cleanup(h)
    \/ StoreDebit(h) \/ ReadCredit(h) \/ StoreCredit(h) \/ SaveBalances(h)

-----------------------------------------------------------------------------
(* The calls between the gateway and the banks.                            *)

\* The goroutine of the call still waits for the bank.
Awaited(m) ==
    /\ pc[m.handler] = IF m.phase = "prepare" THEN "preparing" ELSE "committing"
    /\ reply[m.handler][m.role] = "none"

\* The bank's answer to m.  Once the context is done it may be too late.
Answer(m, ok) ==
    \/ /\ Awaited(m)
       /\ reply' = [reply EXCEPT ![m.handler][m.role] = IF ok THEN "yes" ELSE "no"]
    \/ /\ ~Awaited(m) \/ m.handler \in expired
       /\ UNCHANGED reply

ServePrepare(m) ==
    LET h == m.handler
        t == TxOf[h]
        c == Party(h, m.role)
    IN /\ m \in wire /\ m.phase = "prepare"
       /\ \E vote \in BOOLEAN :
              /\ IF m.role = "debit" THEN PrepareDebit(BankOf[c], t, c, Amount[t], vote)
                                     ELSE PrepareCredit(BankOf[c], t, c, Amount[t], vote)
              /\ Answer(m, vote)
       /\ wire' = wire \ {m}
       /\ UNCHANGED <<pc, expired, answer, state, read, gatewayVars, applied, file, counters>>

ServeCommit(m) ==
    LET h == m.handler
        t == TxOf[h]
        c == Party(h, m.role)
    IN /\ m \in wire /\ m.phase = "commit"
       /\ \E done \in BOOLEAN :
              /\ IF m.role = "debit" THEN CommitDebit(BankOf[c], t, c, Amount[t], done)
                                     ELSE CommitCredit(BankOf[c], t, c, Amount[t], done)
              /\ Answer(m, done)
              /\ applied' = [applied EXCEPT ![h] = IF done THEN @ \cup {m.role} ELSE @]
       /\ wire' = wire \ {m}
       /\ UNCHANGED <<pc, expired, answer, state, read, gatewayVars, file, counters>>

\* The context ends: its deadline (the client's 3 s, the gateway's 30 s) or
\* the client's disconnection.
Expire(h) ==
    /\ MayExpire
    /\ pc[h] \notin {"idle", "done", "dead"}
    /\ h \notin expired
    /\ expired' = expired \cup {h}
    /\ UNCHANGED <<bankVars, pc, answer, state, reply, read, gatewayVars, wire, applied,
                   file, counters>>

\* A call fails with its context, whatever the bank makes of it.
CallExpires(h, role) ==
    /\ h \in expired
    /\ pc[h] \in {"preparing", "committing"}
    /\ reply[h][role] = "none"
    /\ reply' = [reply EXCEPT ![h][role] = "no"]
    /\ UNCHANGED <<bankVars, pc, expired, answer, state, read, gatewayVars, wire, applied,
                   file, counters>>

\* A cancelled call that never reaches its handler at the bank.
CallLost(m) ==
    /\ m \in wire
    /\ m.handler \in expired
    /\ wire' = wire \ {m}
    /\ UNCHANGED <<bankVars, handlerVars, gatewayVars, applied, file, counters>>

-----------------------------------------------------------------------------
(* Restarts, and the cleanup routine.                                      *)

\* The answers that may still be on their way to the handler.
AnswersUnderWay ==
    {c \in Handlers \X Roles :
        pc[c[1]] \in {"preparing", "committing"} /\ reply[c[1]][c[2]] = "yes"}

\* The bank process dies and is started again.  The calls it had are lost;
\* those still unanswered fail, and so may those whose answer was on its way.
BanksGoDown(late) ==
    /\ RestartBanks(file)
    /\ wire' = {}
    /\ reply' = [h \in Handlers |-> [r \in Roles |->
                    IF pc[h] \in {"preparing", "committing"}
                       /\ (reply[h][r] = "none" \/ <<h, r>> \in late)
                    THEN "no" ELSE reply[h][r]]]
    /\ UNCHANGED <<pc, expired, answer, state, read, gatewayVars, applied, file, raced,
                   gwRestarts>>

BankRestart ==
    /\ bankRestarts < MaxBankRestarts
    /\ \E late \in SUBSET AnswersUnderWay : BanksGoDown(late)
    /\ bankRestarts' = bankRestarts + 1

\* CommitDebit of an id the bank lost in a restart panics, and takes the
\* process of both banks down once more.
CommitDebitPanic(m) ==
    /\ m \in wire /\ m.phase = "commit" /\ m.role = "debit"
    /\ bankTx[BankFor(m.handler, "debit")][TxOf[m.handler]] = "unknown"
    /\ \E late \in SUBSET AnswersUnderWay : BanksGoDown(late)
    /\ UNCHANGED bankRestarts

\* The gateway dies and is started again: its handlers, its transaction map
\* and its connections are gone, its balances are those of the file.  Calls it
\* had sent may still be executed.
GatewayRestart ==
    /\ gwRestarts < MaxGatewayRestarts
    /\ gwRestarts' = gwRestarts + 1
    /\ pc' = [h \in Handlers |-> IF pc[h] \in {"idle", "done"} THEN pc[h] ELSE "dead"]
    /\ expired' = expired \cup {h \in Handlers : pc[h] # "idle"}
    /\ record' = [t \in TxIds |-> NoRecord]
    /\ gwBalance' = file
    /\ connected' = {}
    /\ UNCHANGED <<bankVars, answer, state, reply, read, wire, applied, file, raced,
                   bankRestarts>>

\* cleanupExpiredTransactions: after TransactionTTL (24 h) a record is dropped.
\* The handler that made it is long done: its context lasts 30 s at most.
Forget(t) ==
    /\ MayForget
    /\ record[t] # NoRecord
    /\ pc[record[t]] = "done"
    /\ record' = [record EXCEPT ![t] = NoRecord]
    /\ UNCHANGED <<bankVars, handlerVars, gwBalance, connected, wire, applied, file, counters>>

-----------------------------------------------------------------------------
(* What the gateway tells a monitor.  Neither call changes anything.       *)

GetTransactionStatus(t) == IF record[t] = NoRecord THEN "not_found" ELSE state[record[t]]

ListActiveTransactions ==
    {<<t, GetTransactionStatus(t)>> : t \in {x \in TxIds : record[x] # NoRecord}}

-----------------------------------------------------------------------------
Next ==
    \/ \E h \in Handlers :
          \/ Arrive(h) \/ HandlerStep(h) \/ Expire(h)
          \/ \E r \in Roles : CallExpires(h, r)
    \/ \E m \in wire :
          ServePrepare(m) \/ ServeCommit(m) \/ CommitDebitPanic(m) \/ CallLost(m)
    \/ BankRestart \/ GatewayRestart
    \/ \E t \in TxIds : Forget(t)

Spec == Init /\ [][Next]_vars

\* A handler's goroutine keeps running, a call reaches its bank or fails, and
\* the abort calls, which have no deadline, are answered by a live bank.
\* Nothing is assumed of clients, contexts or restarts.
Fairness ==
    /\ \A h \in Handlers : WF_vars(HandlerStep(h))
    /\ \A m \in Calls : WF_vars(ServePrepare(m) \/ ServeCommit(m) \/ CommitDebitPanic(m))

FairSpec == Spec /\ Fairness

-----------------------------------------------------------------------------
(* Properties.                                                             *)

Moved(h) == applied[h] # {}

\* A payment reported as successful was debited at the sender's bank and
\* credited at the receiver's, by the call that reports it or, when the answer
\* is "already processed", by an earlier call of the same transaction.
SuccessMeansBothMoved ==
    \A h \in Handlers :
        /\ answer[h] = "success" => applied[h] = Roles
        /\ answer[h] = "duplicate" =>
               \E h2 \in Handlers : TxOf[h2] = TxOf[h] /\ applied[h2] = Roles

\* A transaction that GetTransactionStatus or ListActiveTransactions gives as
\* committed has been executed by both banks.
StatusIsTrue ==
    \A t \in TxIds :
        GetTransactionStatus(t) = "committed" \/ <<t, "committed">> \in ListActiveTransactions =>
            \E h \in Handlers : TxOf[h] = t /\ applied[h] = Roles

\* Atomicity: once a handler has returned and none of its calls is under way,
\* both sides of its transfer moved or neither did.
AllOrNothing ==
    \A h \in Handlers :
        pc[h] = "done" /\ (\A m \in wire : m.handler # h) => applied[h] \in {{}, Roles}

\* A payment reported as failed moved nothing at either bank, and will not:
\* no commit of it is still on its way.
FailureMeansNothingMoved ==
    \A h \in Handlers : answer[h] = "failure" =>
        ~Moved(h) /\ \A m \in wire : m.handler # h

\* A bank that voted for a transaction is able to commit it: a commit call on
\* its way finds the record prepared.
VoteBindsBank ==
    \A m \in wire : m.phase = "commit" =>
        bankTx[BankFor(m.handler, m.role)][TxOf[m.handler]] = "prepared"

\* Rolled back or committed: when no call is being handled, no bank holds a
\* record that is merely prepared.
Quiet == wire = {} /\ \A h \in Handlers : pc[h] \in {"idle", "done"}
NothingLeftPrepared ==
    Quiet => \A b \in Banks, t \in TxIds : bankTx[b][t] # "prepared"

\* However often a payment is sent, each side of it moves at most once.
AtMostOnce ==
    \A h1, h2 \in Handlers :
        h1 # h2 /\ TxOf[h1] = TxOf[h2] => applied[h1] \cap applied[h2] = {}

\* A payment that succeeded is answered from the record ever after: it is
\* never run again and never reported as failed.
SuccessIsRemembered ==
    [][\A h \in Handlers :
          (/\ answer'[h] # answer[h]
           /\ \E h2 \in Handlers : TxOf[h2] = TxOf[h] /\ answer[h2] = "success")
          => answer'[h] = "duplicate"]_vars

\* No account is debited below zero: the funds a bank voted for are there when
\* it commits.
NoOverdraft == \A c \in Clients : balances[c] >= 0

\* At rest the gateway's copy of the balances, the file it saves and the banks
\* agree on every account, unless one handler wrote a balance back over the
\* update of another (updateTwoPhaseBalances).
LedgersAgree == Quiet /\ ~raced => gwBalance = balances /\ file = balances

\* The protocol implements the promise of AtomicPayment: the transfer happens,
\* for the client, when the first of the two banks commits it.
Promise == INSTANCE AtomicPayment
               WITH Requests <- Handlers, moved <- {TxOf[h] : h \in {x \in Handlers : Moved(x)}}
ImplementsAtomicPayment == Promise!Spec

\* Every payment that arrives is answered, timeouts and duplicates included.
EveryPaymentIsAnswered ==
    \A h \in Handlers : pc[h] = "lookup" ~> answer[h] # "none"

=============================================================================
