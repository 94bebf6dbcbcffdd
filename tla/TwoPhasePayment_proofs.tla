----------------------- MODULE TwoPhasePayment_proofs -----------------------
(***************************************************************************)
(* Theorems about TwoPhasePayment, for any number of handlers,             *)
(* transactions, accounts and banks.  Those of the first part hold with    *)
(* every fault the module has: expiring contexts, late and lost calls,     *)
(* duplicates, forgotten records and restarts.                             *)
(*                                                                         *)
(* The second part, from CalmRun on, is what two-phase commit guarantees   *)
(* when nothing goes wrong: no context expires, nothing restarts, no       *)
(* record is forgotten, the client sends a payment again only after the    *)
(* earlier call returned, and the two accounts of a transfer are at        *)
(* different banks.  Each of these is needed: without any one of them TLC  *)
(* finds a run of a single transfer that breaks the promise to the client. *)
(* Still any number of payments run at once, over any accounts and banks,  *)
(* and banks refuse, cannot be dialled or do not exist.                    *)
(***************************************************************************)
EXTENDS TwoPhasePayment, FiniteSetTheorems, TLAPS

\* The case split every proof about a step of the protocol starts from.
LEMMA StepCases ==
    ASSUME Next
    PROVE  \/ \E h \in Handlers :
                 Arrive(h) \/ HandlerStep(h) \/ Expire(h) \/ (\E r \in Roles : CallExpires(h, r))
           \/ \E m \in wire :
                 ServePrepare(m) \/ ServeCommit(m) \/ CommitDebitPanic(m) \/ CallLost(m)
           \/ BankRestart \/ GatewayRestart
           \/ \E t \in TxIds : Forget(t)
  BY DEF Next

-----------------------------------------------------------------------------
(* Type correctness.                                                       *)

LEMMA InitTypeOK == Init => TypeOK
  <1> SUFFICES ASSUME Init PROVE TypeOK
    OBVIOUS
  <1>1. BankTypeOK
    BY BankAssumption DEF Init, BankInit, BankTypeOK, NoTransactions, BankTxState
  <1>2. raced \in BOOLEAN
    BY DEF Init
  <1> QED
    BY <1>1, <1>2, BankAssumption
    DEF Init, TypeOK, HandlerPc, Answers, TransactionState, NoReplies, Roles

\* The steps a handler takes on its own.
LEMMA HandlerTypeOK ==
    ASSUME TypeOK, NEW h \in Handlers, HandlerStep(h)
    PROVE  TypeOK'
  <1> USE PaymentAssumption, BankAssumption
      DEF TypeOK, BankTypeOK, BankTxState, HandlerPc, Answers, TransactionState, Goto, Return,
          bankVars, gatewayVars, counters
  <1>1. CASE Lookup(h)
    BY <1>1 DEF Lookup
  <1>2. CASE CheckFunds(h)
    BY <1>2 DEF CheckFunds
  <1>3. CASE Admit(h)
    BY <1>3 DEF Admit
  <1>4. CASE Register(h)
    BY <1>4 DEF Register
  <1>5. CASE Unreachable(h)
    BY <1>5 DEF Unreachable, BeginAbort, BankFor, Party
  <1>6. CASE PrepareDone(h)
    BY <1>6 DEF PrepareDone, BeginAbort
  <1>7. CASE StartCommit(h)
    BY <1>7 DEF StartCommit, StartPhase, Calls, Phases, Roles
  <1>8. CASE CommitDone(h)
    BY <1>8 DEF CommitDone
  <1>9. CASE CommitFailed(h)
    BY <1>9 DEF CommitFailed
  <1>10. CASE PhaseTimeout(h)
    BY <1>10 DEF PhaseTimeout, BeginAbort
  <1>11. ASSUME NEW role \in Roles, AbortAt(h, role)
         PROVE  TypeOK'
    <2>1. BankFor(h, role) \in Banks \cup {NoBank}
      BY DEF BankFor, Party, Roles
    <2>2. /\ bankTx' \in [Banks -> [TxIds -> BankTxState]]
          /\ balances' \in [Clients -> Int]
          /\ connected' \in SUBSET Banks
      <3>1. CASE UNCHANGED <<bankVars, connected>>
        BY <3>1
      <3>2. CASE /\ BankFor(h, role) # NoBank
                 /\ Abort(BankFor(h, role), TxOf[h])
                 /\ connected' = connected \cup {BankFor(h, role)}
        BY <2>1, <3>2 DEF Abort
      <3> QED
        BY <1>11, <3>1, <3>2 DEF AbortAt
    <2>3. pc' \in [Handlers -> HandlerPc] /\ state' \in [Handlers -> TransactionState]
      BY <1>11 DEF AbortAt
    <2> QED
      BY <1>11, <2>2, <2>3 DEF AbortAt
  <1>12. CASE Cleanup(h)
    BY <1>12 DEF Cleanup
  <1>13. CASE StoreDebit(h)
    BY <1>13 DEF StoreDebit, UpdateBalance
  <1>14. CASE ReadCredit(h)
    BY <1>14 DEF ReadCredit
  <1>15. CASE StoreCredit(h)
    BY <1>15 DEF StoreCredit, UpdateBalance
  <1>16. CASE SaveBalances(h)
    BY <1>16 DEF SaveBalances, WriteBalances
  <1>17. CASE Connect(h)
    BY <1>17 DEF Connect, StartPhase, Calls, Phases, Roles, BankFor, Party
  <1> QED
    BY <1>1, <1>2, <1>3, <1>4, <1>5, <1>6, <1>7, <1>8, <1>9, <1>10, <1>11, <1>12, <1>13,
       <1>14, <1>15, <1>16, <1>17 DEF HandlerStep

\* The calls, the restarts and the cleanup routine.
LEMMA ServeTypeOK ==
    ASSUME TypeOK, NEW m \in wire, ServePrepare(m) \/ ServeCommit(m)
    PROVE  TypeOK'
  <1> USE PaymentAssumption, BankAssumption DEF TypeOK, BankTypeOK
  <1> DEFINE h == m.handler
             t == TxOf[h]
             c == Party(h, m.role)
  <1>1. m \in Calls /\ h \in Handlers /\ t \in TxIds /\ c \in Clients /\ m.role \in Roles
    BY DEF Calls, Party, Roles
  <1>2. ASSUME NEW ok \in BOOLEAN, Answer(m, ok)
        PROVE  reply' \in [Handlers -> [Roles -> {"none", "yes", "no"}]]
    <2>1. CASE UNCHANGED reply
      BY <2>1
    <2>2. CASE reply' = [reply EXCEPT ![h][m.role] = IF ok THEN "yes" ELSE "no"]
      BY <1>1, <2>2
    <2> QED
      BY <1>2, <2>1, <2>2 DEF Answer
  <1>3. CASE ServePrepare(m)
    <2>1. PICK vote \in BOOLEAN :
              /\ IF m.role = "debit" THEN PrepareDebit(BankOf[c], t, c, Amount[t], vote)
                                     ELSE PrepareCredit(BankOf[c], t, c, Amount[t], vote)
              /\ Answer(m, vote)
      BY <1>3 DEF ServePrepare
    <2>2. bankTx' \in [Banks -> [TxIds -> BankTxState]] /\ balances' = balances
      <3>1. Prepare(BankOf[c], t, vote)
        BY <2>1 DEF PrepareDebit, PrepareCredit
      <3>2. CASE vote
        <4>1. bankTx' = [bankTx EXCEPT ![BankOf[c]][t] = "prepared"] /\ balances' = balances
          BY <3>1, <3>2 DEF Prepare
        <4> QED
          BY <4>1 DEF BankTxState
      <3>3. CASE ~vote
        BY <3>1, <3>3 DEF Prepare
      <3> QED
        BY <3>2, <3>3
    <2> QED
      BY <1>2, <1>3, <2>1, <2>2 DEF ServePrepare, gatewayVars, counters
  <1>4. CASE ServeCommit(m)
    <2>1. PICK done \in BOOLEAN :
              /\ IF m.role = "debit" THEN CommitDebit(BankOf[c], t, c, Amount[t], done)
                                     ELSE CommitCredit(BankOf[c], t, c, Amount[t], done)
              /\ Answer(m, done)
              /\ applied' = [applied EXCEPT ![h] = IF done THEN @ \cup {m.role} ELSE @]
      BY <1>4 DEF ServeCommit
    <2>2. PICK delta \in Int : Commit(BankOf[c], t, c, delta, done)
      <3>1. Amount[t] \in Int /\ -Amount[t] \in Int
        BY <1>1
      <3> QED
        BY <2>1, <3>1 DEF CommitDebit, CommitCredit
    <2>3. bankTx' \in [Banks -> [TxIds -> BankTxState]] /\ balances' \in [Clients -> Int]
      <3>1. CASE done
        <4>1. /\ bankTx' = [bankTx EXCEPT ![BankOf[c]][t] = "committed"]
              /\ balances' = [balances EXCEPT ![c] = @ + delta]
          BY <2>2, <3>1 DEF Commit
        <4>2. bankTx' \in [Banks -> [TxIds -> BankTxState]]
          BY <1>1, <4>1 DEF BankTxState
        <4>3. balances' \in [Clients -> Int]
          BY <1>1, <4>1
        <4> QED
          BY <4>2, <4>3
      <3>2. CASE ~done
        BY <2>2, <3>2 DEF Commit
      <3> QED
        BY <3>1, <3>2
    <2>4. applied' \in [Handlers -> SUBSET Roles]
      BY <1>1, <2>1
    <2> QED
      BY <1>2, <1>4, <2>1, <2>3, <2>4 DEF ServeCommit, gatewayVars, counters
  <1> QED
    BY <1>3, <1>4

LEMMA EnvironmentTypeOK ==
    ASSUME TypeOK,
           \/ \E h \in Handlers : Arrive(h) \/ Expire(h) \/ \E r \in Roles : CallExpires(h, r)
           \/ \E m \in wire : CommitDebitPanic(m) \/ CallLost(m)
           \/ BankRestart \/ GatewayRestart
           \/ \E t \in TxIds : Forget(t)
    PROVE  TypeOK'
  <1> USE DEF TypeOK, bankVars, handlerVars, gatewayVars, counters
  <1>1. ASSUME NEW h \in Handlers, Arrive(h)
        PROVE  TypeOK'
    BY <1>1 DEF Arrive, Goto, HandlerPc, BankTypeOK
  <1>2. ASSUME NEW h \in Handlers, Expire(h)
        PROVE  TypeOK'
    BY <1>2 DEF Expire, BankTypeOK
  <1>3. ASSUME NEW h \in Handlers, NEW r \in Roles, CallExpires(h, r)
        PROVE  TypeOK'
    BY <1>3 DEF CallExpires, BankTypeOK
  <1>4. ASSUME NEW m \in wire, CallLost(m)
        PROVE  TypeOK'
    BY <1>4 DEF CallLost, BankTypeOK
  <1>5. ASSUME NEW late, BanksGoDown(late), bankRestarts' \in Nat
        PROVE  TypeOK'
    <2>1. BankTypeOK'
      BY <1>5 DEF BanksGoDown, RestartBanks, BankTypeOK, NoTransactions, BankTxState
    <2>2. reply' \in [Handlers -> [Roles -> {"none", "yes", "no"}]]
      BY <1>5 DEF BanksGoDown
    <2> QED
      BY <1>5, <2>1, <2>2 DEF BanksGoDown
  <1>6. CASE BankRestart
    BY <1>5, <1>6 DEF BankRestart
  <1>7. ASSUME NEW m \in wire, CommitDebitPanic(m)
        PROVE  TypeOK'
    BY <1>5, <1>7 DEF CommitDebitPanic
  <1>8. CASE GatewayRestart
    BY <1>8 DEF GatewayRestart, HandlerPc, BankTypeOK
  <1>9. ASSUME NEW t \in TxIds, Forget(t)
        PROVE  TypeOK'
    BY <1>9 DEF Forget, BankTypeOK
  <1> QED
    BY <1>1, <1>2, <1>3, <1>4, <1>6, <1>7, <1>8, <1>9

LEMMA NextTypeOK == TypeOK /\ [Next]_vars => TypeOK'
  <1>1. ASSUME TypeOK, Next
        PROVE  TypeOK'
    BY <1>1, HandlerTypeOK, ServeTypeOK, EnvironmentTypeOK, StepCases
  <1>2. ASSUME TypeOK, UNCHANGED vars
        PROVE  TypeOK'
    BY <1>2 DEF vars, bankVars, handlerVars, gatewayVars, counters, TypeOK, BankTypeOK
  <1> QED
    BY <1>1, <1>2

\* Every variable keeps its type in every behaviour, faults included.
THEOREM TypeCorrect == Spec => []TypeOK
  BY InitTypeOK, NextTypeOK, PTL DEF Spec

-----------------------------------------------------------------------------
(* Success is never reported for money that did not move.                  *)

AfterCommit == {"storeDebit", "readCredit", "storeCredit", "save"}

\* A confirmation a committing handler holds comes from a commit of its own.
ConfirmedIsApplied ==
    \A h \in Handlers, r \in Roles :
        pc[h] = "committing" /\ reply[h][r] = "yes" => r \in applied[h]

\* Past the commit phase, and behind a committed record, both sides moved.
CommittedIsApplied ==
    \A h \in Handlers :
        pc[h] \in AfterCommit \/ state[h] = "committed" => applied[h] = Roles

\* The map holds a record under the id it was made for.
RecordIsForItsId ==
    \A t \in TxIds : record[t] # NoRecord => TxOf[record[t]] = t

SuccessInv ==
    /\ ConfirmedIsApplied
    /\ CommittedIsApplied
    /\ RecordIsForItsId
    /\ SuccessMeansBothMoved

LEMMA InitSuccessInv == Init => SuccessInv
  BY DEF Init, SuccessInv, ConfirmedIsApplied, CommittedIsApplied, RecordIsForItsId,
         SuccessMeansBothMoved, AfterCommit, NoReplies

\* What a bank applied stays applied, and only a served commit adds to it.
LEMMA AppliedGrows ==
    ASSUME TypeOK, Next
    PROVE  /\ \A h \in Handlers : applied[h] \subseteq applied'[h] /\ applied'[h] \subseteq Roles
           /\ applied' = applied \/ \E m \in wire : ServeCommit(m)
  <1>1. ASSUME NEW m \in wire, ServeCommit(m)
        PROVE  \A h \in Handlers : applied[h] \subseteq applied'[h]
    BY <1>1 DEF ServeCommit, TypeOK
  <1>2. ASSUME NEW h \in Handlers, HandlerStep(h)
        PROVE  applied' = applied
    BY <1>2 DEF HandlerStep, Lookup, CheckFunds, Admit, Register, Connect, Unreachable,
                PrepareDone, StartCommit, CommitDone, CommitFailed, PhaseTimeout, AbortAt,
                Cleanup, StoreDebit, ReadCredit, StoreCredit, SaveBalances
  <1>3. applied' = applied \/ \E m \in wire : ServeCommit(m)
    BY <1>2, StepCases
    DEF Arrive, Expire, CallExpires, ServePrepare, CommitDebitPanic, CallLost, BankRestart,
        BanksGoDown, GatewayRestart, Forget
  <1>4. TypeOK'
    BY NextTypeOK
  <1> QED
    BY <1>1, <1>3, <1>4 DEF TypeOK

\* A handler that goes on before the prepare phase, or is turned away there.
LEMMA TurnedAway ==
    ASSUME TypeOK, SuccessInv, NEW h \in Handlers, UNCHANGED <<applied, state, reply, record>>,
           NEW place \in {"admit", "register"},
           Return(h, "failure") \/ (Goto(h, place) /\ UNCHANGED answer)
    PROVE  SuccessInv'
  <1>1. /\ \A x \in Handlers : x # h => pc'[x] = pc[x] /\ answer'[x] = answer[x]
        /\ pc'[h] \in {"done", "admit", "register"}
        /\ answer'[h] \in {answer[h], "failure"}
    BY DEF Return, Goto, TypeOK
  <1> QED
    BY <1>1 DEF TypeOK, SuccessInv, ConfirmedIsApplied, CommittedIsApplied, RecordIsForItsId,
                SuccessMeansBothMoved, AfterCommit

\* The steps a handler takes on its own.
LEMMA HandlerSuccessInv ==
    ASSUME TypeOK, TypeOK', SuccessInv, NEW h \in Handlers, HandlerStep(h), applied' = applied
    PROVE  SuccessInv'
  <1> USE PaymentAssumption
      DEF TypeOK, SuccessInv, ConfirmedIsApplied, CommittedIsApplied, RecordIsForItsId,
          SuccessMeansBothMoved, AfterCommit, Goto, Return, gatewayVars
  <1>1. CASE Lookup(h)
    <2>1. /\ UNCHANGED <<state, reply, record>>
          /\ \A x \in Handlers : x # h => pc'[x] = pc[x] /\ answer'[x] = answer[x]
          /\ pc'[h] \in {"done", "funds"}
      BY <1>1 DEF Lookup
    <2>2. ConfirmedIsApplied' /\ CommittedIsApplied' /\ RecordIsForItsId'
      <3>1. ASSUME NEW x \in Handlers
            PROVE  /\ pc'[x] = "committing" => pc[x] = "committing"
                   /\ pc'[x] \in AfterCommit => pc[x] \in AfterCommit
        BY <2>1
      <3>2. ConfirmedIsApplied'
        BY <2>1, <3>1
      <3>3. CommittedIsApplied'
        BY <2>1, <3>1
      <3> QED
        BY <2>1, <3>2, <3>3
    <2>3. answer'[h] \in {answer[h], "failure"}
          \/ \E h2 \in Handlers : TxOf[h2] = TxOf[h] /\ applied[h2] = Roles
             /\ answer'[h] = "duplicate"
      <3>1. CASE record[TxOf[h]] # NoRecord /\ state[record[TxOf[h]]] = "committed"
        <4>1. /\ record[TxOf[h]] \in Handlers
              /\ TxOf[record[TxOf[h]]] = TxOf[h]
              /\ applied[record[TxOf[h]]] = Roles
          BY <3>1
        <4>2. answer'[h] = "duplicate"
          BY <1>1, <3>1 DEF Lookup
        <4> QED
          BY <4>1, <4>2
      <3>2. CASE record[TxOf[h]] # NoRecord /\ state[record[TxOf[h]]] = "aborted"
        BY <1>1, <3>2 DEF Lookup
      <3>3. CASE record[TxOf[h]] = NoRecord
                 \/ state[record[TxOf[h]]] \notin {"committed", "aborted"}
        BY <1>1, <3>3 DEF Lookup
      <3> QED
        BY <3>1, <3>2, <3>3
    <2>4. SuccessMeansBothMoved'
      <3>1. ASSUME NEW x \in Handlers, x # h
            PROVE  /\ answer'[x] = "success" => applied'[x] = Roles
                   /\ answer'[x] = "duplicate" =>
                          \E h2 \in Handlers : TxOf[h2] = TxOf[x] /\ applied'[h2] = Roles
        BY <2>1, <3>1
      <3>2. /\ answer'[h] = "success" => applied'[h] = Roles
            /\ answer'[h] = "duplicate" =>
                   \E h2 \in Handlers : TxOf[h2] = TxOf[h] /\ applied'[h2] = Roles
        BY <2>3
      <3> QED
        BY <3>1, <3>2
    <2> QED
      BY <2>2, <2>4
  <1>2. CASE CheckFunds(h)
    BY <1>2, TurnedAway DEF CheckFunds
  <1>3. CASE Admit(h)
    BY <1>3, TurnedAway DEF Admit
  <1>4. CASE Register(h)
    BY <1>4 DEF Register
  <1>5. CASE Unreachable(h)
    BY <1>5 DEF Unreachable, BeginAbort
  <1>6. CASE PrepareDone(h)
    BY <1>6 DEF PrepareDone, BeginAbort
  <1>7. CASE StartCommit(h)
    BY <1>7 DEF StartCommit, StartPhase
  <1>8. CASE CommitDone(h)
    <2>1. applied[h] = Roles
      <3>1. applied[h] \subseteq Roles
        OBVIOUS
      <3>2. ASSUME NEW r \in Roles
            PROVE  r \in applied[h]
        <4>1. pc[h] = "committing" /\ reply[h][r] = "yes"
          BY <1>8 DEF CommitDone, AllAgreed
        <4> QED
          BY <4>1
      <3> QED
        BY <3>1, <3>2
    <2>2. /\ UNCHANGED <<answer, reply, record>>
          /\ \A x \in Handlers : x # h => pc'[x] = pc[x] /\ state'[x] = state[x]
          /\ pc'[h] = "storeDebit"
      BY <1>8 DEF CommitDone
    <2>3. ConfirmedIsApplied' /\ RecordIsForItsId' /\ SuccessMeansBothMoved'
      <3>1. \A x \in Handlers : pc'[x] = "committing" => pc[x] = "committing"
        BY <2>2
      <3>2. ConfirmedIsApplied'
        BY <2>2, <3>1
      <3>3. RecordIsForItsId'
        BY <2>2
      <3>4. SuccessMeansBothMoved'
        BY <2>2
      <3> QED
        BY <3>2, <3>3, <3>4
    <2>4. CommittedIsApplied'
      BY <2>1, <2>2
    <2> QED
      BY <2>3, <2>4
  <1>9. CASE CommitFailed(h)
    BY <1>9 DEF CommitFailed
  <1>10. CASE PhaseTimeout(h)
    BY <1>10 DEF PhaseTimeout, BeginAbort
  <1>11. ASSUME NEW role \in Roles, AbortAt(h, role)
         PROVE  SuccessInv'
    BY <1>11 DEF AbortAt
  <1>12. CASE Cleanup(h)
    BY <1>12 DEF Cleanup
  <1>13. CASE StoreDebit(h)
    BY <1>13 DEF StoreDebit
  <1>14. CASE ReadCredit(h)
    BY <1>14 DEF ReadCredit
  <1>15. CASE StoreCredit(h)
    BY <1>15 DEF StoreCredit
  <1>16. CASE SaveBalances(h)
    BY <1>16 DEF SaveBalances
  <1>17. CASE Connect(h)
    BY <1>17 DEF Connect, StartPhase
  <1> QED
    BY <1>1, <1>2, <1>3, <1>4, <1>5, <1>6, <1>7, <1>8, <1>9, <1>10, <1>11, <1>12, <1>13,
       <1>14, <1>15, <1>16, <1>17 DEF HandlerStep

LEMMA ServeCommitSuccessInv ==
    ASSUME TypeOK, TypeOK', SuccessInv, NEW m \in wire, ServeCommit(m),
           \A h \in Handlers : applied[h] \subseteq applied'[h] /\ applied'[h] \subseteq Roles
    PROVE  SuccessInv'
  <1>1. m.handler \in Handlers /\ m.role \in Roles /\ m.phase = "commit"
    BY DEF TypeOK, Calls, ServeCommit
  <1>2. PICK done \in BOOLEAN :
            /\ Answer(m, done)
            /\ applied' = [applied EXCEPT ![m.handler] = IF done THEN @ \cup {m.role} ELSE @]
    BY DEF ServeCommit
  <1>3. ConfirmedIsApplied'
    <2>1. CASE UNCHANGED reply
      BY <2>1 DEF ServeCommit, SuccessInv, ConfirmedIsApplied
    <2>2. CASE reply' = [reply EXCEPT ![m.handler][m.role] = IF done THEN "yes" ELSE "no"]
      BY <1>1, <1>2, <2>2 DEF ServeCommit, SuccessInv, ConfirmedIsApplied, TypeOK
    <2> QED
      BY <1>2, <2>1, <2>2 DEF Answer
  <1>4. CommittedIsApplied'
    BY DEF ServeCommit, SuccessInv, CommittedIsApplied, TypeOK
  <1>5. RecordIsForItsId' /\ SuccessMeansBothMoved'
    <2>1. \A h \in Handlers : applied[h] = Roles => applied'[h] = Roles
      OBVIOUS
    <2>2. UNCHANGED <<answer, record>>
      BY DEF ServeCommit, gatewayVars
    <2>3. ASSUME NEW h \in Handlers
          PROVE  /\ answer'[h] = "success" => applied'[h] = Roles
                 /\ answer'[h] = "duplicate" =>
                        \E h2 \in Handlers : TxOf[h2] = TxOf[h] /\ applied'[h2] = Roles
      BY <2>1, <2>2 DEF SuccessInv, SuccessMeansBothMoved
    <2> QED
      BY <2>2, <2>3 DEF SuccessInv, RecordIsForItsId, SuccessMeansBothMoved
  <1> QED
    BY <1>3, <1>4, <1>5 DEF SuccessInv

LEMMA EnvironmentSuccessInv ==
    ASSUME TypeOK, SuccessInv, applied' = applied,
           \/ \E h \in Handlers : Arrive(h) \/ Expire(h) \/ \E r \in Roles : CallExpires(h, r)
           \/ \E m \in wire : ServePrepare(m) \/ CommitDebitPanic(m) \/ CallLost(m)
           \/ BankRestart \/ GatewayRestart
           \/ \E t \in TxIds : Forget(t)
    PROVE  SuccessInv'
  <1> USE DEF TypeOK, SuccessInv, ConfirmedIsApplied, CommittedIsApplied, RecordIsForItsId,
              SuccessMeansBothMoved, AfterCommit, handlerVars, gatewayVars
  <1>1. ASSUME NEW h \in Handlers, Arrive(h)
        PROVE  SuccessInv'
    BY <1>1 DEF Arrive, Goto
  <1>2. ASSUME NEW h \in Handlers, Expire(h)
        PROVE  SuccessInv'
    BY <1>2 DEF Expire
  <1>3. ASSUME NEW h \in Handlers, NEW r \in Roles, CallExpires(h, r)
        PROVE  SuccessInv'
    BY <1>3 DEF CallExpires
  <1>4. ASSUME NEW m \in wire, ServePrepare(m)
        PROVE  SuccessInv'
    <2>1. m.handler \in Handlers /\ m.role \in Roles
      BY DEF Calls
    <2>2. reply' = reply \/ \E ok \in {"yes", "no"} :
              pc[m.handler] = "preparing" /\ reply' = [reply EXCEPT ![m.handler][m.role] = ok]
      BY <1>4 DEF ServePrepare, Answer, Awaited
    <2>3. ConfirmedIsApplied'
      BY <1>4, <2>1, <2>2 DEF ServePrepare
    <2> QED
      BY <1>4, <2>3 DEF ServePrepare
  <1>5. ASSUME NEW m \in wire, CallLost(m)
        PROVE  SuccessInv'
    BY <1>5 DEF CallLost
  <1>6. ASSUME NEW late, BanksGoDown(late)
        PROVE  SuccessInv'
    BY <1>6 DEF BanksGoDown
  <1>7. CASE BankRestart
    BY <1>6, <1>7 DEF BankRestart
  <1>8. ASSUME NEW m \in wire, CommitDebitPanic(m)
        PROVE  SuccessInv'
    BY <1>6, <1>8 DEF CommitDebitPanic
  <1>9. CASE GatewayRestart
    BY <1>9 DEF GatewayRestart
  <1>10. ASSUME NEW t \in TxIds, Forget(t)
         PROVE  SuccessInv'
    BY <1>10 DEF Forget
  <1> QED
    BY <1>1, <1>2, <1>3, <1>4, <1>5, <1>7, <1>8, <1>9, <1>10

LEMMA NextSuccessInv == TypeOK /\ SuccessInv /\ [Next]_vars => SuccessInv'
  <1>1. ASSUME TypeOK, SuccessInv, Next
        PROVE  SuccessInv'
    <2>1. TypeOK'
      BY <1>1, NextTypeOK
    <2>2. CASE \E m \in wire : ServeCommit(m)
      BY <1>1, <2>1, <2>2, AppliedGrows, ServeCommitSuccessInv
    <2>3. CASE ~(\E m \in wire : ServeCommit(m))
      <3>1. applied' = applied
        BY <1>1, <2>3, AppliedGrows
      <3> QED
        BY <1>1, <2>1, <2>3, <3>1, StepCases, HandlerSuccessInv, EnvironmentSuccessInv
    <2> QED
      BY <2>2, <2>3
  <1>2. ASSUME SuccessInv, UNCHANGED vars
        PROVE  SuccessInv'
    BY <1>2 DEF vars, handlerVars, gatewayVars, SuccessInv, ConfirmedIsApplied,
                CommittedIsApplied, RecordIsForItsId, SuccessMeansBothMoved
  <1> QED
    BY <1>1, <1>2

\* A payment the client is told succeeded was debited and credited, whatever
\* expired, was lost, was repeated or was restarted on the way.
THEOREM SuccessIsTrue == Spec => []SuccessMeansBothMoved
  <1>1. SuccessInv => SuccessMeansBothMoved
    BY DEF SuccessInv
  <1> QED
    BY <1>1, InitSuccessInv, NextSuccessInv, TypeCorrect, PTL DEF Spec

(* What the gateway tells a monitor of a committed transaction is true,    *)
(* whatever fails (GetTransactionStatus, ListActiveTransactions).          *)
THEOREM StatusIsAlwaysTrue == Spec => []StatusIsTrue
  <1>1. TypeOK /\ SuccessInv => StatusIsTrue
    <2>1. SUFFICES ASSUME TypeOK, SuccessInv, NEW t \in TxIds,
                          GetTransactionStatus(t) = "committed"
                   PROVE  \E h \in Handlers : TxOf[h] = t /\ applied[h] = Roles
      BY DEF StatusIsTrue, ListActiveTransactions
    <2>2. record[t] # NoRecord /\ state[record[t]] = "committed"
      BY <2>1 DEF GetTransactionStatus
    <2>3. record[t] \in Handlers
      BY <2>1, <2>2 DEF TypeOK
    <2>4. TxOf[record[t]] = t /\ applied[record[t]] = Roles
      BY <2>1, <2>2, <2>3 DEF SuccessInv, CommittedIsApplied, RecordIsForItsId
    <2> QED
      BY <2>3, <2>4
  <1> QED
    BY <1>1, InitSuccessInv, NextSuccessInv, TypeCorrect, PTL DEF Spec

-----------------------------------------------------------------------------
(* When nothing goes wrong.                                                *)

CalmRun ==
    /\ ~MayExpire /\ ~Overlap /\ ~MayForget
    /\ MaxBankRestarts = 0 /\ MaxGatewayRestarts = 0
    /\ \A t \in TxIds : BankOf[Sender[t]] # BankOf[Receiver[t]]

-----------------------------------------------------------------------------
(* The inductive invariant.                                                *)

\* The handler has looked the payment up and has yet to make a record of it.
Undecided == {"funds", "admit", "register"}

\* The handler owns the record of its transaction.
Owning == {"connecting", "preparing", "prepared", "committing",
           "abortDebit", "abortCredit", "cleanup"} \cup AfterCommit

Succeeded(h) ==
    /\ pc[h] = "done" /\ answer[h] = "success"
    /\ state[h] = "committed" /\ applied[h] = Roles

NoFaults == expired = {} /\ \A h \in Handlers : pc[h] # "dead"

\* Of the handlers of one transaction, one is at work.
OneAtATime ==
    \A g, h \in Handlers :
        TxOf[g] = TxOf[h] /\ pc[g] \notin {"idle", "done"} /\ pc[h] \notin {"idle", "done"}
            => g = h

\* The record of a transaction is that of the handler at work on it, or of the
\* one that succeeded.
RecordFollows ==
    /\ \A h \in Handlers : /\ pc[h] \in Owning => record[TxOf[h]] = h
                           /\ pc[h] \in Undecided => record[TxOf[h]] = NoRecord
                           /\ Moved(h) => record[TxOf[h]] = h
    /\ \A t \in TxIds : record[t] # NoRecord =>
           /\ TxOf[record[t]] = t
           /\ pc[record[t]] \in Owning \/ Succeeded(record[t])

AnswersMatch ==
    \A h \in Handlers : /\ answer[h] # "none" <=> pc[h] = "done"
                        /\ answer[h] = "success" => Succeeded(h)

\* Nobody has given a call up.
CallsAwaited == \A m \in wire : Awaited(m)

\* How far each side of a transfer is, at the bank and in the handler.
SideFollows(h, r) ==
    LET there == bankTx[BankFor(h, r)][TxOf[h]] IN
    /\ pc[h] \in {"preparing", "prepared", "committing"} =>
           BankFor(h, r) \in Banks \cap connected
    /\ pc[h] = "preparing" /\ reply[h][r] = "yes" => there = "prepared"
    /\ pc[h] = "prepared" => there = "prepared"
    /\ pc[h] = "committing" =>
           \/ reply[h][r] = "none" /\ there = "prepared" /\ r \notin applied[h]
           \/ reply[h][r] = "yes" /\ there = "committed" /\ r \in applied[h]
    /\ r \in applied[h] => pc[h] \in {"committing"} \cup AfterCommit \/ Succeeded(h)
    /\ pc[h] \in AfterCommit => state[h] = "committed" /\ r \in applied[h]

SidesFollow == \A h \in Handlers, r \in Roles : SideFollows(h, r)

\* A prepared record is that of a handler that will commit it or abort it.
Pending(h, b) ==
    \/ /\ pc[h] \in {"preparing", "prepared", "committing", "abortDebit"}
       /\ \E r \in Roles : b = BankFor(h, r)
    \/ pc[h] = "abortCredit" /\ b = BankFor(h, "credit")

PreparedIsPending ==
    \A b \in Banks, t \in TxIds : bankTx[b][t] = "prepared" =>
        b \in connected /\ \E h \in Handlers : TxOf[h] = t /\ Pending(h, b)

CalmInv ==
    /\ NoFaults /\ OneAtATime /\ RecordFollows /\ AnswersMatch
    /\ CallsAwaited /\ SidesFollow /\ PreparedIsPending

-----------------------------------------------------------------------------
(* The steps a calm run takes.                                             *)

CalmStep ==
    \/ \E h \in Handlers :
          \/ Arrive(h) \/ Lookup(h) \/ CheckFunds(h) \/ Admit(h) \/ Register(h)
          \/ Connect(h) \/ Unreachable(h) \/ PrepareDone(h) \/ StartCommit(h)
          \/ CommitDone(h) \/ (\E role \in Roles : AbortAt(h, role)) \/ Cleanup(h)
          \/ StoreDebit(h) \/ ReadCredit(h) \/ StoreCredit(h) \/ SaveBalances(h)
    \/ \E m \in wire : ServePrepare(m) \/ ServeCommit(m)

\* A call on its way is one its handler waits for, at a bank that exists.
LEMMA CallsMade ==
    ASSUME TypeOK, CalmInv, NEW m \in wire
    PROVE  /\ m \in Calls /\ m.handler \in Handlers /\ m.role \in Roles /\ m.phase \in Phases
           /\ pc[m.handler] = IF m.phase = "prepare" THEN "preparing" ELSE "committing"
           /\ reply[m.handler][m.role] = "none"
           /\ BankFor(m.handler, m.role) \in Banks
           /\ m.phase = "commit" =>
                  bankTx[BankFor(m.handler, m.role)][TxOf[m.handler]] = "prepared"
  <1>1. m \in Calls /\ m.handler \in Handlers /\ m.role \in Roles /\ m.phase \in Phases
    BY DEF TypeOK, Calls
  <1>2. Awaited(m)
    BY DEF CalmInv, CallsAwaited
  <1>3. SideFollows(m.handler, m.role)
    BY <1>1 DEF CalmInv, SidesFollow
  <1> QED
    BY <1>1, <1>2, <1>3 DEF Awaited, SideFollows, Phases

\* A commit that was asked for is carried out, so that nobody gives up.
LEMMA CalmNext ==
    ASSUME TypeOK, CalmRun, CalmInv, Next
    PROVE  CalmStep
  <1>1. \A h \in Handlers : h \notin expired
    BY DEF CalmInv, NoFaults
  <1>2. ~BankRestart /\ ~GatewayRestart /\ \A t \in TxIds : ~Forget(t)
    BY DEF CalmRun, BankRestart, GatewayRestart, Forget, TypeOK
  <1>3. \A m \in wire : ~CommitDebitPanic(m) /\ ~CallLost(m)
    BY <1>1, CallsMade DEF CommitDebitPanic, CallLost
  <1>4. ASSUME NEW h \in Handlers
        PROVE  /\ ~Expire(h) /\ ~PhaseTimeout(h) /\ ~CommitFailed(h)
               /\ \A r \in Roles : ~CallExpires(h, r)
    <2>1. ~Expire(h) /\ ~PhaseTimeout(h) /\ \A r \in Roles : ~CallExpires(h, r)
      BY <1>1 DEF CalmRun, Expire, PhaseTimeout, CallExpires
    <2>2. ~CommitFailed(h)
      BY DEF CalmInv, SidesFollow, SideFollows, CommitFailed, AllReplied, AllAgreed
    <2> QED
      BY <2>1, <2>2
  <1> QED
    BY <1>2, <1>3, <1>4, StepCases DEF HandlerStep, CalmStep

\* A bank's answer always reaches the handler.
LEMMA AnswerTaken ==
    ASSUME TypeOK, CalmInv, NEW m \in wire, NEW ok \in BOOLEAN, Answer(m, ok)
    PROVE  reply' = [reply EXCEPT ![m.handler][m.role] = IF ok THEN "yes" ELSE "no"]
  <1>1. Awaited(m) /\ m.handler \notin expired
    BY DEF CalmInv, CallsAwaited, NoFaults
  <1> QED
    BY <1>1 DEF Answer

LEMMA PrepareServed ==
    ASSUME TypeOK, CalmInv, NEW m \in wire, ServePrepare(m)
    PROVE  /\ pc[m.handler] = "preparing"
           /\ wire' = wire \ {m}
           /\ \/ /\ bankTx' = [bankTx EXCEPT ![BankFor(m.handler, m.role)][TxOf[m.handler]]
                                                 = "prepared"]
                 /\ reply' = [reply EXCEPT ![m.handler][m.role] = "yes"]
              \/ /\ bankTx' = bankTx
                 /\ reply' = [reply EXCEPT ![m.handler][m.role] = "no"]
           /\ UNCHANGED <<pc, expired, answer, state, record, connected, applied>>
  <1>1. PICK vote \in BOOLEAN :
            Prepare(BankFor(m.handler, m.role), TxOf[m.handler], vote) /\ Answer(m, vote)
    BY DEF ServePrepare, PrepareDebit, PrepareCredit, BankFor
  <1>2. reply' = [reply EXCEPT ![m.handler][m.role] = IF vote THEN "yes" ELSE "no"]
    BY <1>1, AnswerTaken
  <1>3. pc[m.handler] = "preparing"
    BY CallsMade DEF ServePrepare
  <1> QED
    BY <1>1, <1>2, <1>3 DEF ServePrepare, Prepare, gatewayVars

LEMMA CommitServed ==
    ASSUME TypeOK, CalmInv, NEW m \in wire, ServeCommit(m)
    PROVE  /\ pc[m.handler] = "committing"
           /\ wire' = wire \ {m}
           /\ bankTx' = [bankTx EXCEPT ![BankFor(m.handler, m.role)][TxOf[m.handler]]
                                           = "committed"]
           /\ reply' = [reply EXCEPT ![m.handler][m.role] = "yes"]
           /\ applied' = [applied EXCEPT ![m.handler] = @ \cup {m.role}]
           /\ UNCHANGED <<pc, expired, answer, state, record, connected>>
  <1>1. PICK done \in BOOLEAN :
            /\ \E delta : Commit(BankFor(m.handler, m.role), TxOf[m.handler],
                                 Party(m.handler, m.role), delta, done)
            /\ Answer(m, done)
            /\ applied' = [applied EXCEPT ![m.handler] = IF done THEN @ \cup {m.role} ELSE @]
    BY DEF ServeCommit, CommitDebit, CommitCredit, BankFor
  <1>2. m.phase = "commit"
    BY DEF ServeCommit
  <1>3. pc[m.handler] = "committing"
        /\ bankTx[BankFor(m.handler, m.role)][TxOf[m.handler]] = "prepared"
    BY <1>2, CallsMade
  <1>4. done = TRUE
    BY <1>1, <1>3 DEF Commit
  <1>5. reply' = [reply EXCEPT ![m.handler][m.role] = "yes"]
    BY <1>1, <1>4, AnswerTaken
  <1> QED
    BY <1>1, <1>3, <1>4, <1>5 DEF ServeCommit, Commit, gatewayVars

LEMMA PartyOK ==
    ASSUME NEW h \in Handlers, NEW r \in Roles
    PROVE  BankFor(h, r) \in Banks \cup {NoBank} /\ TxOf[h] \in TxIds
  BY PaymentAssumption, BankAssumption DEF BankFor, Party, Roles

LEMMA BothApplied ==
    ASSUME TypeOK, CalmInv, NEW h \in Handlers, pc[h] \in AfterCommit
    PROVE  state[h] = "committed" /\ applied[h] = Roles
  <1>1. \A r \in Roles : state[h] = "committed" /\ r \in applied[h]
    BY DEF CalmInv, SidesFollow, SideFollows
  <1>2. applied[h] \subseteq Roles /\ "debit" \in Roles
    BY DEF TypeOK, Roles
  <1> QED
    BY <1>1, <1>2

-----------------------------------------------------------------------------
(* Each conjunct is kept.                                                   *)

LEMMA KeepsNoFaults ==
    ASSUME TypeOK, CalmRun, CalmInv, CalmStep
    PROVE  NoFaults'
  <1> USE PaymentAssumption DEF TypeOK, CalmInv, NoFaults, Goto, bankVars, gatewayVars
  <1>1. ASSUME NEW h \in Handlers, Arrive(h)
        PROVE  NoFaults'
    BY <1>1 DEF Arrive
  <1>2. ASSUME NEW h \in Handlers, Lookup(h)
        PROVE  NoFaults'
    BY <1>2 DEF Lookup, Return
  <1>3. ASSUME NEW h \in Handlers, CheckFunds(h)
        PROVE  NoFaults'
    BY <1>3 DEF CheckFunds, Return
  <1>4. ASSUME NEW h \in Handlers, Admit(h)
        PROVE  NoFaults'
    BY <1>4 DEF Admit, Return
  <1>5. ASSUME NEW h \in Handlers, Register(h)
        PROVE  NoFaults'
    BY <1>5 DEF Register
  <1>6. ASSUME NEW h \in Handlers, Connect(h)
        PROVE  NoFaults'
    BY <1>6 DEF Connect, StartPhase
  <1>7. ASSUME NEW h \in Handlers, Unreachable(h)
        PROVE  NoFaults'
    BY <1>7 DEF Unreachable, BeginAbort
  <1>8. ASSUME NEW h \in Handlers, PrepareDone(h)
        PROVE  NoFaults'
    BY <1>8 DEF PrepareDone, BeginAbort, AllReplied, AllAgreed
  <1>9. ASSUME NEW h \in Handlers, StartCommit(h)
        PROVE  NoFaults'
    BY <1>9 DEF StartCommit, StartPhase
  <1>10. ASSUME NEW h \in Handlers, CommitDone(h)
         PROVE  NoFaults'
    BY <1>10 DEF CommitDone, AllAgreed
  <1>11. ASSUME NEW h \in Handlers, NEW role \in Roles, AbortAt(h, role)
         PROVE  NoFaults'
    BY <1>11 DEF AbortAt, Abort
  <1>12. ASSUME NEW h \in Handlers, Cleanup(h)
         PROVE  NoFaults'
    BY <1>12 DEF Cleanup, Return
  <1>13. ASSUME NEW h \in Handlers, StoreDebit(h)
         PROVE  NoFaults'
    BY <1>13 DEF StoreDebit
  <1>14. ASSUME NEW h \in Handlers, ReadCredit(h)
         PROVE  NoFaults'
    BY <1>14 DEF ReadCredit
  <1>15. ASSUME NEW h \in Handlers, StoreCredit(h)
         PROVE  NoFaults'
    BY <1>15 DEF StoreCredit
  <1>16. ASSUME NEW h \in Handlers, SaveBalances(h)
         PROVE  NoFaults'
    BY <1>16 DEF SaveBalances, Return
  <1>17. ASSUME NEW m \in wire, ServePrepare(m)
         PROVE  NoFaults'
    BY <1>17, PrepareServed
  <1>18. ASSUME NEW m \in wire, ServeCommit(m)
         PROVE  NoFaults'
    BY <1>18, CommitServed
  <1> QED
    BY <1>1, <1>2, <1>3, <1>4, <1>5, <1>6, <1>7, <1>8, <1>9, <1>10,
       <1>11, <1>12, <1>13, <1>14, <1>15, <1>16, <1>17, <1>18 DEF CalmStep

LEMMA KeepsOneAtATime ==
    ASSUME TypeOK, CalmRun, CalmInv, CalmStep
    PROVE  OneAtATime'
  <1> USE PaymentAssumption
      DEF TypeOK, CalmInv, NoFaults, OneAtATime, Goto, bankVars, gatewayVars
  <1>1. ASSUME NEW h \in Handlers, Arrive(h)
        PROVE  OneAtATime'
    BY <1>1 DEF Arrive, CalmRun
  <1>2. ASSUME NEW h \in Handlers, Lookup(h)
        PROVE  OneAtATime'
    BY <1>2 DEF Lookup, Return
  <1>3. ASSUME NEW h \in Handlers, CheckFunds(h)
        PROVE  OneAtATime'
    BY <1>3 DEF CheckFunds, Return
  <1>4. ASSUME NEW h \in Handlers, Admit(h)
        PROVE  OneAtATime'
    BY <1>4 DEF Admit, Return
  <1>5. ASSUME NEW h \in Handlers, Register(h)
        PROVE  OneAtATime'
    BY <1>5 DEF Register
  <1>6. ASSUME NEW h \in Handlers, Connect(h)
        PROVE  OneAtATime'
    BY <1>6 DEF Connect, StartPhase
  <1>7. ASSUME NEW h \in Handlers, Unreachable(h)
        PROVE  OneAtATime'
    BY <1>7 DEF Unreachable, BeginAbort
  <1>8. ASSUME NEW h \in Handlers, PrepareDone(h)
        PROVE  OneAtATime'
    BY <1>8 DEF PrepareDone, BeginAbort, AllReplied, AllAgreed
  <1>9. ASSUME NEW h \in Handlers, StartCommit(h)
        PROVE  OneAtATime'
    BY <1>9 DEF StartCommit, StartPhase
  <1>10. ASSUME NEW h \in Handlers, CommitDone(h)
         PROVE  OneAtATime'
    BY <1>10 DEF CommitDone, AllAgreed
  <1>11. ASSUME NEW h \in Handlers, NEW role \in Roles, AbortAt(h, role)
         PROVE  OneAtATime'
    BY <1>11 DEF AbortAt, Abort
  <1>12. ASSUME NEW h \in Handlers, Cleanup(h)
         PROVE  OneAtATime'
    BY <1>12 DEF Cleanup, Return
  <1>13. ASSUME NEW h \in Handlers, StoreDebit(h)
         PROVE  OneAtATime'
    BY <1>13 DEF StoreDebit
  <1>14. ASSUME NEW h \in Handlers, ReadCredit(h)
         PROVE  OneAtATime'
    BY <1>14 DEF ReadCredit
  <1>15. ASSUME NEW h \in Handlers, StoreCredit(h)
         PROVE  OneAtATime'
    BY <1>15 DEF StoreCredit
  <1>16. ASSUME NEW h \in Handlers, SaveBalances(h)
         PROVE  OneAtATime'
    BY <1>16 DEF SaveBalances, Return
  <1>17. ASSUME NEW m \in wire, ServePrepare(m)
         PROVE  OneAtATime'
    BY <1>17, PrepareServed
  <1>18. ASSUME NEW m \in wire, ServeCommit(m)
         PROVE  OneAtATime'
    BY <1>18, CommitServed
  <1> QED
    BY <1>1, <1>2, <1>3, <1>4, <1>5, <1>6, <1>7, <1>8, <1>9, <1>10,
       <1>11, <1>12, <1>13, <1>14, <1>15, <1>16, <1>17, <1>18 DEF CalmStep

LEMMA KeepsAnswersMatch ==
    ASSUME TypeOK, CalmRun, CalmInv, CalmStep
    PROVE  AnswersMatch'
  <1> USE PaymentAssumption
      DEF TypeOK, CalmInv, AnswersMatch, Succeeded, Goto, bankVars, gatewayVars
  <1>1. ASSUME NEW h \in Handlers, Arrive(h)
        PROVE  AnswersMatch'
    BY <1>1 DEF Arrive
  <1>2. ASSUME NEW h \in Handlers, Lookup(h)
        PROVE  AnswersMatch'
    BY <1>2 DEF Lookup, Return
  <1>3. ASSUME NEW h \in Handlers, CheckFunds(h)
        PROVE  AnswersMatch'
    BY <1>3 DEF CheckFunds, Return
  <1>4. ASSUME NEW h \in Handlers, Admit(h)
        PROVE  AnswersMatch'
    BY <1>4 DEF Admit, Return
  <1>5. ASSUME NEW h \in Handlers, Register(h)
        PROVE  AnswersMatch'
    BY <1>5 DEF Register
  <1>6. ASSUME NEW h \in Handlers, Connect(h)
        PROVE  AnswersMatch'
    BY <1>6 DEF Connect, StartPhase
  <1>7. ASSUME NEW h \in Handlers, Unreachable(h)
        PROVE  AnswersMatch'
    BY <1>7 DEF Unreachable, BeginAbort
  <1>8. ASSUME NEW h \in Handlers, PrepareDone(h)
        PROVE  AnswersMatch'
    BY <1>8 DEF PrepareDone, BeginAbort, AllReplied, AllAgreed
  <1>9. ASSUME NEW h \in Handlers, StartCommit(h)
        PROVE  AnswersMatch'
    BY <1>9 DEF StartCommit, StartPhase
  <1>10. ASSUME NEW h \in Handlers, CommitDone(h)
         PROVE  AnswersMatch'
    BY <1>10 DEF CommitDone, AllAgreed
  <1>11. ASSUME NEW h \in Handlers, NEW role \in Roles, AbortAt(h, role)
         PROVE  AnswersMatch'
    BY <1>11 DEF AbortAt, Abort
  <1>12. ASSUME NEW h \in Handlers, Cleanup(h)
         PROVE  AnswersMatch'
    BY <1>12 DEF Cleanup, Return
  <1>13. ASSUME NEW h \in Handlers, StoreDebit(h)
         PROVE  AnswersMatch'
    BY <1>13 DEF StoreDebit
  <1>14. ASSUME NEW h \in Handlers, ReadCredit(h)
         PROVE  AnswersMatch'
    BY <1>14 DEF ReadCredit
  <1>15. ASSUME NEW h \in Handlers, StoreCredit(h)
         PROVE  AnswersMatch'
    BY <1>15 DEF StoreCredit
  <1>16. ASSUME NEW h \in Handlers, SaveBalances(h)
         PROVE  AnswersMatch'
    <2>1. state[h] = "committed" /\ applied[h] = Roles
      BY <1>16, BothApplied DEF SaveBalances, AfterCommit
    <2> QED
      BY <1>16, <2>1 DEF SaveBalances, Return
  <1>17. ASSUME NEW m \in wire, ServePrepare(m)
         PROVE  AnswersMatch'
    BY <1>17, PrepareServed
  <1>18. ASSUME NEW m \in wire, ServeCommit(m)
         PROVE  AnswersMatch'
    BY <1>18, CommitServed
  <1> QED
    BY <1>1, <1>2, <1>3, <1>4, <1>5, <1>6, <1>7, <1>8, <1>9, <1>10,
       <1>11, <1>12, <1>13, <1>14, <1>15, <1>16, <1>17, <1>18 DEF CalmStep

\* One record of one bank is set.
LEMMA BankTxSet ==
    ASSUME TypeOK, NEW b \in Banks, NEW h \in Handlers, NEW v,
           bankTx' = [bankTx EXCEPT ![b][TxOf[h]] = v],
           NEW c \in Banks, NEW t \in TxIds
    PROVE  bankTx'[c][t] = IF c = b /\ t = TxOf[h] THEN v ELSE bankTx[c][t]
  BY PaymentAssumption DEF TypeOK, BankTypeOK

\* A handler waits for one call per role.
LEMMA OneCallPerRole ==
    ASSUME TypeOK, CalmInv, NEW m \in wire, NEW n \in wire, m # n
    PROVE  m.handler # n.handler \/ m.role # n.role
  <1>1. m \in Calls /\ n \in Calls
    BY DEF TypeOK
  <1>2. m.handler = n.handler => m.phase = n.phase
    BY CallsMade DEF Phases
  <1> QED
    BY <1>1, <1>2 DEF Calls

\* So an answer to one call leaves the others awaited.
LEMMA OthersAwaited ==
    ASSUME TypeOK, CalmInv, NEW m \in wire, UNCHANGED pc, wire' = wire \ {m},
           NEW v, reply' = [reply EXCEPT ![m.handler][m.role] = v]
    PROVE  CallsAwaited'
  <1> SUFFICES ASSUME NEW n \in wire, n # m
               PROVE  Awaited(n)'
    BY DEF CallsAwaited
  <1>1. n.handler # m.handler \/ n.role # m.role
    BY OneCallPerRole
  <1>2. /\ m.handler \in Handlers /\ m.role \in Roles
        /\ n.handler \in Handlers /\ n.role \in Roles
    BY CallsMade
  <1>3. reply'[n.handler][n.role] = reply[n.handler][n.role]
    BY <1>1, <1>2 DEF TypeOK
  <1> QED
    BY <1>3 DEF CalmInv, CallsAwaited, Awaited

LEMMA KeepsCallsAwaited ==
    ASSUME TypeOK, CalmRun, CalmInv, CalmStep
    PROVE  CallsAwaited'
  <1> USE PaymentAssumption
      DEF TypeOK, CalmInv, CallsAwaited, Awaited, Goto, Calls, bankVars, gatewayVars
  <1>1. ASSUME NEW h \in Handlers, Arrive(h)
        PROVE  CallsAwaited'
    BY <1>1 DEF Arrive
  <1>2. ASSUME NEW h \in Handlers, Lookup(h)
        PROVE  CallsAwaited'
    BY <1>2 DEF Lookup, Return
  <1>3. ASSUME NEW h \in Handlers, CheckFunds(h)
        PROVE  CallsAwaited'
    BY <1>3 DEF CheckFunds, Return
  <1>4. ASSUME NEW h \in Handlers, Admit(h)
        PROVE  CallsAwaited'
    BY <1>4 DEF Admit, Return
  <1>5. ASSUME NEW h \in Handlers, Register(h)
        PROVE  CallsAwaited'
    BY <1>5 DEF Register
  <1>6. ASSUME NEW h \in Handlers, Connect(h)
        PROVE  CallsAwaited'
    BY <1>6 DEF Connect, StartPhase
  <1>7. ASSUME NEW h \in Handlers, Unreachable(h)
        PROVE  CallsAwaited'
    BY <1>7 DEF Unreachable, BeginAbort
  <1>8. ASSUME NEW h \in Handlers, PrepareDone(h)
        PROVE  CallsAwaited'
    BY <1>8 DEF PrepareDone, BeginAbort, AllReplied, AllAgreed
  <1>9. ASSUME NEW h \in Handlers, StartCommit(h)
        PROVE  CallsAwaited'
    BY <1>9 DEF StartCommit, StartPhase
  <1>10. ASSUME NEW h \in Handlers, CommitDone(h)
         PROVE  CallsAwaited'
    BY <1>10 DEF CommitDone, AllAgreed
  <1>11. ASSUME NEW h \in Handlers, NEW role \in Roles, AbortAt(h, role)
         PROVE  CallsAwaited'
    BY <1>11 DEF AbortAt, Abort
  <1>12. ASSUME NEW h \in Handlers, Cleanup(h)
         PROVE  CallsAwaited'
    BY <1>12 DEF Cleanup, Return
  <1>13. ASSUME NEW h \in Handlers, StoreDebit(h)
         PROVE  CallsAwaited'
    BY <1>13 DEF StoreDebit
  <1>14. ASSUME NEW h \in Handlers, ReadCredit(h)
         PROVE  CallsAwaited'
    BY <1>14 DEF ReadCredit
  <1>15. ASSUME NEW h \in Handlers, StoreCredit(h)
         PROVE  CallsAwaited'
    BY <1>15 DEF StoreCredit
  <1>16. ASSUME NEW h \in Handlers, SaveBalances(h)
         PROVE  CallsAwaited'
    BY <1>16 DEF SaveBalances, Return
  <1>17. ASSUME NEW m \in wire, ServePrepare(m)
         PROVE  CallsAwaited'
    BY <1>17, PrepareServed, OthersAwaited
  <1>18. ASSUME NEW m \in wire, ServeCommit(m)
         PROVE  CallsAwaited'
    BY <1>18, CommitServed, OthersAwaited
  <1> QED
    BY <1>1, <1>2, <1>3, <1>4, <1>5, <1>6, <1>7, <1>8, <1>9, <1>10,
       <1>11, <1>12, <1>13, <1>14, <1>15, <1>16, <1>17, <1>18 DEF CalmStep

\* A step that leaves the records alone.
LEMMA RecordKept ==
    ASSUME TypeOK, RecordFollows, UNCHANGED record,
           \A x \in Handlers :
               /\ pc'[x] \in Owning => pc[x] \in Owning
               /\ pc'[x] \in Undecided => pc[x] \in Undecided \/ record[TxOf[x]] = NoRecord
               /\ Moved(x)' => Moved(x) \/ pc[x] \in Owning
               /\ pc[x] \in Owning => pc'[x] \in Owning \/ Succeeded(x)'
               /\ Succeeded(x) => Succeeded(x)'
    PROVE  RecordFollows'
  <1>1. \A t \in TxIds : record[t] # NoRecord => record[t] \in Handlers
    BY DEF TypeOK
  <1> QED
    BY <1>1 DEF RecordFollows

LEMMA KeepsRecordFollows ==
    ASSUME TypeOK, CalmRun, CalmInv, CalmStep
    PROVE  RecordFollows'
  <1> USE PaymentAssumption
      DEF TypeOK, CalmInv, Succeeded, Undecided, Owning, AfterCommit, Moved, Goto,
          bankVars, gatewayVars
  <1>1. ASSUME NEW h \in Handlers, Arrive(h)
        PROVE  RecordFollows'
    BY <1>1, RecordKept DEF Arrive
  <1>2. ASSUME NEW h \in Handlers, Lookup(h)
        PROVE  RecordFollows'
    <2>1. pc'[h] = "funds" => record[TxOf[h]] = NoRecord
      BY <1>2 DEF Lookup, Return, RecordFollows, OneAtATime
    <2>2. /\ \A x \in Handlers : x # h => pc'[x] = pc[x] /\ answer'[x] = answer[x]
          /\ pc[h] = "lookup" /\ pc'[h] \in {"done", "funds"}
          /\ UNCHANGED <<record, state, applied>>
      BY <1>2 DEF Lookup, Return
    <2> QED
      BY <2>1, <2>2, RecordKept
  <1>3. ASSUME NEW h \in Handlers, CheckFunds(h)
        PROVE  RecordFollows'
    BY <1>3, RecordKept DEF CheckFunds, Return
  <1>4. ASSUME NEW h \in Handlers, Admit(h)
        PROVE  RecordFollows'
    BY <1>4, RecordKept DEF Admit, Return
  <1>5. ASSUME NEW h \in Handlers, Register(h)
        PROVE  RecordFollows'
    <2>1. \A x \in Handlers : TxOf[x] = TxOf[h] => ~Moved(x) /\ (pc[x] \in Owning => x = h)
      BY <1>5 DEF Register, RecordFollows, OneAtATime
    <2>2. /\ record' = [record EXCEPT ![TxOf[h]] = h]
          /\ \A x \in Handlers : x # h => pc'[x] = pc[x] /\ state'[x] = state[x]
          /\ pc[h] = "register" /\ pc'[h] = "connecting"
          /\ UNCHANGED <<applied, answer>>
      BY <1>5 DEF Register
    <2>3. ASSUME NEW x \in Handlers
          PROVE  /\ pc'[x] \in Owning => record'[TxOf[x]] = x
                 /\ pc'[x] \in Undecided => record'[TxOf[x]] = NoRecord
                 /\ Moved(x)' => record'[TxOf[x]] = x
      <3>1. CASE x = h
        BY <2>2, <3>1
      <3>2. CASE x # h /\ TxOf[x] = TxOf[h]
        <4>1. pc'[x] \notin Undecided
          BY <2>2, <3>2 DEF OneAtATime
        <4>2. pc'[x] \notin Owning /\ ~Moved(x)'
          BY <2>1, <2>2, <3>2
        <4> QED
          BY <4>1, <4>2
      <3>3. CASE TxOf[x] # TxOf[h]
        BY <2>2, <3>3 DEF RecordFollows
      <3> QED
        BY <3>1, <3>2, <3>3
    <2>4. ASSUME NEW t \in TxIds, record'[t] # NoRecord
          PROVE  /\ TxOf[record'[t]] = t
                 /\ (pc[record[t]] \in Owning \/ Succeeded(record[t]))'
      <3>1. CASE t = TxOf[h]
        BY <2>2, <3>1
      <3>2. CASE t # TxOf[h]
        <4>1. record'[t] = record[t] /\ record[t] \in Handlers
          BY <2>2, <2>4, <3>2
        <4>2. TxOf[record[t]] = t /\ (pc[record[t]] \in Owning \/ Succeeded(record[t]))
          BY <2>4, <4>1 DEF RecordFollows
        <4>3. record[t] # h
          BY <3>2, <4>2
        <4> QED
          BY <2>2, <4>1, <4>2, <4>3
      <3> QED
        BY <3>1, <3>2
    <2> QED
      BY <2>3, <2>4 DEF RecordFollows
  <1>6. ASSUME NEW h \in Handlers, Connect(h)
        PROVE  RecordFollows'
    BY <1>6, RecordKept DEF Connect, StartPhase
  <1>7. ASSUME NEW h \in Handlers, Unreachable(h)
        PROVE  RecordFollows'
    BY <1>7, RecordKept DEF Unreachable, BeginAbort
  <1>8. ASSUME NEW h \in Handlers, PrepareDone(h)
        PROVE  RecordFollows'
    BY <1>8, RecordKept DEF PrepareDone, BeginAbort, AllReplied, AllAgreed
  <1>9. ASSUME NEW h \in Handlers, StartCommit(h)
        PROVE  RecordFollows'
    BY <1>9, RecordKept DEF StartCommit, StartPhase
  <1>10. ASSUME NEW h \in Handlers, CommitDone(h)
         PROVE  RecordFollows'
    BY <1>10, RecordKept DEF CommitDone, AllAgreed
  <1>11. ASSUME NEW h \in Handlers, NEW role \in Roles, AbortAt(h, role)
         PROVE  RecordFollows'
    BY <1>11, RecordKept DEF AbortAt, Abort
  <1>12. ASSUME NEW h \in Handlers, Cleanup(h)
         PROVE  RecordFollows'
    <2>1. ~Moved(h)
      <3>1. \A r \in Roles : r \notin applied[h]
        BY <1>12 DEF Cleanup, SidesFollow, SideFollows
      <3> QED
        BY <3>1
    <2> QED
      BY <1>12, <2>1 DEF Cleanup, Return, RecordFollows
  <1>13. ASSUME NEW h \in Handlers, StoreDebit(h)
         PROVE  RecordFollows'
    BY <1>13, RecordKept DEF StoreDebit
  <1>14. ASSUME NEW h \in Handlers, ReadCredit(h)
         PROVE  RecordFollows'
    BY <1>14, RecordKept DEF ReadCredit
  <1>15. ASSUME NEW h \in Handlers, StoreCredit(h)
         PROVE  RecordFollows'
    BY <1>15, RecordKept DEF StoreCredit
  <1>16. ASSUME NEW h \in Handlers, SaveBalances(h)
         PROVE  RecordFollows'
    <2>1. state[h] = "committed" /\ applied[h] = Roles
      BY <1>16, BothApplied DEF SaveBalances
    <2> QED
      BY <1>16, <2>1, RecordKept DEF SaveBalances, Return
  <1>17. ASSUME NEW m \in wire, ServePrepare(m)
         PROVE  RecordFollows'
    BY <1>17, PrepareServed, RecordKept
  <1>18. ASSUME NEW m \in wire, ServeCommit(m)
         PROVE  RecordFollows'
    <2>1. m.handler \in Handlers /\ m.role \in Roles
      BY CallsMade
    <2>2. \A x \in Handlers : x # m.handler => applied'[x] = applied[x]
      BY <1>18, <2>1, CommitServed
    <2>3. applied[m.handler] = Roles => applied'[m.handler] = Roles
      <3>1. applied'[m.handler] = applied[m.handler] \cup {m.role}
        BY <1>18, <2>1, CommitServed
      <3> QED
        BY <2>1, <3>1
    <2> QED
      BY <1>18, <2>2, <2>3, CommitServed, RecordKept
  <1> QED
    BY <1>1, <1>2, <1>3, <1>4, <1>5, <1>6, <1>7, <1>8, <1>9, <1>10,
       <1>11, <1>12, <1>13, <1>14, <1>15, <1>16, <1>17, <1>18 DEF CalmStep

\* A step that leaves the banks alone, and no handler that has to see to a
\* prepared record.
LEMMA PendingKept ==
    ASSUME PreparedIsPending, UNCHANGED bankTx, connected \subseteq connected',
           \A x \in Handlers, b \in Banks : Pending(x, b) => Pending(x, b)'
    PROVE  PreparedIsPending'
  BY DEF PreparedIsPending

LEMMA KeepsPreparedIsPending ==
    ASSUME TypeOK, CalmRun, CalmInv, CalmStep
    PROVE  PreparedIsPending'
  <1> USE PaymentAssumption DEF TypeOK, CalmInv, Pending, Goto, bankVars, gatewayVars
  <1>1. ASSUME NEW h \in Handlers, Arrive(h)
        PROVE  PreparedIsPending'
    BY <1>1, PendingKept DEF Arrive
  <1>2. ASSUME NEW h \in Handlers, Lookup(h)
        PROVE  PreparedIsPending'
    BY <1>2, PendingKept DEF Lookup, Return
  <1>3. ASSUME NEW h \in Handlers, CheckFunds(h)
        PROVE  PreparedIsPending'
    BY <1>3, PendingKept DEF CheckFunds, Return
  <1>4. ASSUME NEW h \in Handlers, Admit(h)
        PROVE  PreparedIsPending'
    BY <1>4, PendingKept DEF Admit, Return
  <1>5. ASSUME NEW h \in Handlers, Register(h)
        PROVE  PreparedIsPending'
    BY <1>5, PendingKept DEF Register
  <1>6. ASSUME NEW h \in Handlers, Connect(h)
        PROVE  PreparedIsPending'
    BY <1>6, PendingKept DEF Connect, StartPhase
  <1>7. ASSUME NEW h \in Handlers, Unreachable(h)
        PROVE  PreparedIsPending'
    BY <1>7, PendingKept DEF Unreachable, BeginAbort
  <1>8. ASSUME NEW h \in Handlers, PrepareDone(h)
        PROVE  PreparedIsPending'
    BY <1>8, PendingKept DEF PrepareDone, BeginAbort, AllReplied, AllAgreed
  <1>9. ASSUME NEW h \in Handlers, StartCommit(h)
        PROVE  PreparedIsPending'
    BY <1>9, PendingKept DEF StartCommit, StartPhase
  <1>10. ASSUME NEW h \in Handlers, CommitDone(h)
         PROVE  PreparedIsPending'
    <2>1. \A r \in Roles : bankTx[BankFor(h, r)][TxOf[h]] = "committed"
      BY <1>10 DEF CommitDone, AllAgreed, SidesFollow, SideFollows
    <2> SUFFICES ASSUME NEW b \in Banks, NEW t \in TxIds, bankTx[b][t] = "prepared"
                 PROVE  b \in connected /\ \E x \in Handlers : TxOf[x] = t /\ Pending(x, b)'
      BY <1>10 DEF CommitDone, PreparedIsPending
    <2>2. PICK x \in Handlers : b \in connected /\ TxOf[x] = t /\ Pending(x, b)
      BY DEF PreparedIsPending
    <2>3. x # h
      BY <1>10, <2>1, <2>2 DEF CommitDone
    <2> QED
      BY <1>10, <2>2, <2>3 DEF CommitDone
  <1>11. ASSUME NEW h \in Handlers, NEW role \in Roles, AbortAt(h, role)
         PROVE  PreparedIsPending'
    <2>1. /\ \A b \in Banks, t \in TxIds :
                bankTx'[b][t] = "prepared" => bankTx[b][t] = "prepared"
          /\ BankFor(h, role) \in connected => bankTx'[BankFor(h, role)][TxOf[h]] # "prepared"
      <3>1. CASE /\ BankFor(h, role) # NoBank
                 /\ bankTx[BankFor(h, role)][TxOf[h]] # "unknown"
                 /\ bankTx' = [bankTx EXCEPT ![BankFor(h, role)][TxOf[h]] = "aborted"]
        <4>1. BankFor(h, role) \in Banks /\ TxOf[h] \in TxIds
          BY <3>1, PartyOK
        <4>2. \A b \in Banks, t \in TxIds :
                  bankTx'[b][t] = IF b = BankFor(h, role) /\ t = TxOf[h]
                                  THEN "aborted" ELSE bankTx[b][t]
          BY <3>1, <4>1 DEF BankTypeOK
        <4> QED
          BY <4>1, <4>2
      <3>2. CASE UNCHANGED bankTx /\ BankFor(h, role) \notin connected
        BY <3>2
      <3>3. CASE /\ BankFor(h, role) # NoBank
                 /\ bankTx[BankFor(h, role)][TxOf[h]] = "unknown"
                 /\ UNCHANGED bankTx
        BY <3>3
      <3> QED
        BY <1>11, <3>1, <3>2, <3>3 DEF AbortAt, Abort
    <2>2. connected \subseteq connected' /\ \A x \in Handlers : x # h => pc'[x] = pc[x]
      BY <1>11 DEF AbortAt, Abort
    <2> SUFFICES ASSUME NEW b \in Banks, NEW t \in TxIds, bankTx'[b][t] = "prepared"
                 PROVE  b \in connected' /\ \E x \in Handlers : TxOf[x] = t /\ Pending(x, b)'
      BY DEF PreparedIsPending
    <2>3. PICK x \in Handlers : b \in connected /\ TxOf[x] = t /\ Pending(x, b)
      BY <2>1 DEF PreparedIsPending
    <2>4. CASE x # h
      BY <2>2, <2>3, <2>4
    <2>5. CASE x = h
      <3>1. b # BankFor(h, role)
        BY <2>1, <2>3, <2>5
      <3>2. role = "debit" /\ b = BankFor(h, "credit") /\ pc'[h] = "abortCredit"
        BY <1>11, <2>3, <2>5, <3>1 DEF AbortAt, Roles
      <3> QED
        BY <2>2, <2>3, <2>5, <3>2
    <2> QED
      BY <2>4, <2>5
  <1>12. ASSUME NEW h \in Handlers, Cleanup(h)
         PROVE  PreparedIsPending'
    BY <1>12, PendingKept DEF Cleanup, Return
  <1>13. ASSUME NEW h \in Handlers, StoreDebit(h)
         PROVE  PreparedIsPending'
    BY <1>13, PendingKept DEF StoreDebit
  <1>14. ASSUME NEW h \in Handlers, ReadCredit(h)
         PROVE  PreparedIsPending'
    BY <1>14, PendingKept DEF ReadCredit
  <1>15. ASSUME NEW h \in Handlers, StoreCredit(h)
         PROVE  PreparedIsPending'
    BY <1>15, PendingKept DEF StoreCredit
  <1>16. ASSUME NEW h \in Handlers, SaveBalances(h)
         PROVE  PreparedIsPending'
    BY <1>16, PendingKept DEF SaveBalances, Return
  <1>17. ASSUME NEW m \in wire, ServePrepare(m)
         PROVE  PreparedIsPending'
    <2>1. /\ m.handler \in Handlers /\ m.role \in Roles
          /\ BankFor(m.handler, m.role) \in Banks \cap connected
      BY <1>17, PrepareServed, CallsMade DEF SidesFollow, SideFollows
    <2>2. Pending(m.handler, BankFor(m.handler, m.role))
      BY <1>17, <2>1, PrepareServed
    <2>3. \A x \in Handlers, b \in Banks : Pending(x, b)' <=> Pending(x, b)
      BY <1>17, PrepareServed
    <2>4. \A b \in Banks, t \in TxIds : bankTx'[b][t] = "prepared" =>
              \/ bankTx[b][t] = "prepared"
              \/ b = BankFor(m.handler, m.role) /\ t = TxOf[m.handler]
      <3>1. CASE bankTx' = bankTx
        BY <3>1
      <3>2. CASE bankTx' = [bankTx EXCEPT ![BankFor(m.handler, m.role)][TxOf[m.handler]]
                                              = "prepared"]
        BY <2>1, <3>2, BankTxSet
      <3> QED
        BY <1>17, <3>1, <3>2, PrepareServed
    <2>5. UNCHANGED connected
      BY <1>17, PrepareServed
    <2> QED
      BY <2>1, <2>2, <2>3, <2>4, <2>5 DEF PreparedIsPending
  <1>18. ASSUME NEW m \in wire, ServeCommit(m)
         PROVE  PreparedIsPending'
    <2>1. m.handler \in Handlers /\ BankFor(m.handler, m.role) \in Banks
      BY CallsMade
    <2>2. \A x \in Handlers, b \in Banks : Pending(x, b)' <=> Pending(x, b)
      BY <1>18, CommitServed
    <2>3. /\ bankTx' = [bankTx EXCEPT ![BankFor(m.handler, m.role)][TxOf[m.handler]]
                                           = "committed"]
          /\ UNCHANGED connected
      BY <1>18, CommitServed
    <2>4. \A b \in Banks, t \in TxIds : bankTx'[b][t] = "prepared" => bankTx[b][t] = "prepared"
      BY <2>1, <2>3, BankTxSet
    <2> QED
      BY <2>2, <2>3, <2>4 DEF PreparedIsPending
  <1> QED
    BY <1>1, <1>2, <1>3, <1>4, <1>5, <1>6, <1>7, <1>8, <1>9, <1>10,
       <1>11, <1>12, <1>13, <1>14, <1>15, <1>16, <1>17, <1>18 DEF CalmStep

\* A side that neither its handler nor its bank has moved on.
LEMMA SideStays ==
    ASSUME NEW x \in Handlers, NEW r \in Roles, SideFollows(x, r),
           pc'[x] = pc[x], reply'[x][r] = reply[x][r], state'[x] = state[x],
           answer'[x] = answer[x], connected \subseteq connected',
           r \in applied'[x] <=> r \in applied[x],
           Succeeded(x) => Succeeded(x)',
           pc[x] \in {"preparing", "prepared", "committing"} =>
               bankTx'[BankFor(x, r)][TxOf[x]] = bankTx[BankFor(x, r)][TxOf[x]]
    PROVE  SideFollows(x, r)'
  BY DEF SideFollows, Succeeded, AfterCommit, BankFor, Party

LEMMA SideKept ==
    ASSUME NEW x \in Handlers, NEW r \in Roles, SideFollows(x, r),
           pc'[x] = pc[x], reply'[x][r] = reply[x][r], state'[x] = state[x],
           answer'[x] = answer[x], applied'[x] = applied[x], connected \subseteq connected',
           pc[x] \in {"preparing", "prepared", "committing"} =>
               bankTx'[BankFor(x, r)][TxOf[x]] = bankTx[BankFor(x, r)][TxOf[x]]
    PROVE  SideFollows(x, r)'
  BY SideStays DEF Succeeded

\* A handler that is in neither phase and moved nothing.
LEMMA NothingClaimed ==
    ASSUME NEW h \in Handlers, NEW r \in Roles, r \notin applied'[h],
           pc'[h] \notin {"preparing", "prepared", "committing"} \cup AfterCommit
    PROVE  SideFollows(h, r)'
  BY DEF SideFollows

\* A transaction has its two sides at two banks, and a bank's record of another
\* transaction is another record.
LEMMA OtherSide ==
    ASSUME TypeOK, CalmRun, CalmInv, NEW h \in Handlers, NEW role \in Roles,
           pc[h] \notin {"idle", "done"},
           \A b \in Banks, t \in TxIds :
               b # BankFor(h, role) \/ t # TxOf[h] => bankTx'[b][t] = bankTx[b][t],
           NEW x \in Handlers, NEW r \in Roles, x # h \/ r # role,
           pc[x] \in {"preparing", "prepared", "committing"}
    PROVE  bankTx'[BankFor(x, r)][TxOf[x]] = bankTx[BankFor(x, r)][TxOf[x]]
  <1>1. BankFor(x, r) \in Banks /\ TxOf[x] \in TxIds
    BY PartyOK DEF CalmInv, SidesFollow, SideFollows
  <1>2. BankFor(x, r) # BankFor(h, role) \/ TxOf[x] # TxOf[h]
    <2>1. CASE x = h
      <3>1. r # role
        BY <2>1
      <3>2. BankFor(h, "debit") # BankFor(h, "credit")
        BY PaymentAssumption DEF CalmRun, BankFor, Party
      <3> QED
        BY <2>1, <3>1, <3>2 DEF Roles
    <2>2. CASE x # h
      BY <2>2 DEF CalmInv, OneAtATime
    <2> QED
      BY <2>1, <2>2
  <1> QED
    BY <1>1, <1>2

\* What an abort leaves as it was.
LEMMA AbortOthers ==
    ASSUME TypeOK, CalmRun, CalmInv, NEW h \in Handlers, NEW role \in Roles, AbortAt(h, role),
           NEW x \in Handlers, NEW r \in Roles, x # h
    PROVE  pc[x] \in {"preparing", "prepared", "committing"} =>
               bankTx'[BankFor(x, r)][TxOf[x]] = bankTx[BankFor(x, r)][TxOf[x]]
  <1>1. CASE UNCHANGED bankTx
    BY <1>1 DEF BankFor, Party
  <1>2. CASE /\ BankFor(h, role) # NoBank
             /\ bankTx' = [bankTx EXCEPT ![BankFor(h, role)][TxOf[h]] = "aborted"]
    <2>1. BankFor(h, role) \in Banks /\ pc[h] \notin {"idle", "done"}
      BY <1>2, PartyOK DEF AbortAt
    <2>2. \A b \in Banks, t \in TxIds :
              b # BankFor(h, role) \/ t # TxOf[h] => bankTx'[b][t] = bankTx[b][t]
      BY <1>2, <2>1 DEF TypeOK, BankTypeOK
    <2> QED
      BY <2>1, <2>2, OtherSide
  <1> QED
    BY <1>1, <1>2 DEF AbortAt, Abort, bankVars

\* What an answer to one call leaves as it was.
LEMMA ServedOthers ==
    ASSUME TypeOK, CalmRun, CalmInv, NEW m \in wire, NEW v, NEW w,
           \/ bankTx' = bankTx
           \/ bankTx' = [bankTx EXCEPT ![BankFor(m.handler, m.role)][TxOf[m.handler]] = v],
           reply' = [reply EXCEPT ![m.handler][m.role] = w],
           NEW x \in Handlers, NEW r \in Roles, x # m.handler \/ r # m.role
    PROVE  /\ reply'[x][r] = reply[x][r]
           /\ pc[x] \in {"preparing", "prepared", "committing"} =>
                  bankTx'[BankFor(x, r)][TxOf[x]] = bankTx[BankFor(x, r)][TxOf[x]]
  <1>1. /\ m.handler \in Handlers /\ m.role \in Roles
        /\ BankFor(m.handler, m.role) \in Banks
        /\ pc[m.handler] \notin {"idle", "done"}
    BY CallsMade
  <1>2. reply'[x][r] = reply[x][r]
    BY <1>1 DEF TypeOK
  <1>3. CASE bankTx' = bankTx
    BY <1>2, <1>3
  <1>4. CASE bankTx' = [bankTx EXCEPT ![BankFor(m.handler, m.role)][TxOf[m.handler]] = v]
    <2>1. \A b \in Banks, t \in TxIds :
              b # BankFor(m.handler, m.role) \/ t # TxOf[m.handler] =>
                  bankTx'[b][t] = bankTx[b][t]
      BY <1>1, <1>4 DEF TypeOK, BankTypeOK
    <2> QED
      BY <1>1, <1>2, <2>1, OtherSide
  <1> QED
    BY <1>3, <1>4

LEMMA PrepareServedSides ==
    ASSUME TypeOK, CalmRun, CalmInv, NEW m \in wire, ServePrepare(m)
    PROVE  SidesFollow'
  <1>1. /\ m.handler \in Handlers /\ m.role \in Roles
        /\ BankFor(m.handler, m.role) \in Banks
    BY CallsMade
  <1>2. /\ pc[m.handler] = "preparing"
        /\ UNCHANGED <<pc, state, answer, applied, connected>>
    BY PrepareServed
  <1>3. ASSUME NEW x \in Handlers, NEW r \in Roles, x # m.handler \/ r # m.role
        PROVE  SideFollows(x, r)'
    <2>1. /\ reply'[x][r] = reply[x][r]
          /\ pc[x] \in {"preparing", "prepared", "committing"} =>
                 bankTx'[BankFor(x, r)][TxOf[x]] = bankTx[BankFor(x, r)][TxOf[x]]
      <3>1. PICK w : /\ reply' = [reply EXCEPT ![m.handler][m.role] = w]
                     /\ \/ bankTx' = bankTx
                        \/ bankTx' = [bankTx EXCEPT ![BankFor(m.handler, m.role)][TxOf[m.handler]]
                                                        = "prepared"]
        BY PrepareServed
      <3> QED
        BY <1>3, <3>1, ServedOthers
    <2>2. SideFollows(x, r)
      BY DEF CalmInv, SidesFollow
    <2> QED
      BY <1>2, <2>1, <2>2, SideKept
  <1>4. SideFollows(m.handler, m.role)'
    <2>1. SideFollows(m.handler, m.role)
      BY <1>1 DEF CalmInv, SidesFollow
    <2>2. m.role \notin applied[m.handler]
      BY <1>2, <2>1 DEF SideFollows, Succeeded, AfterCommit
    <2>3. CASE bankTx' = [bankTx EXCEPT ![BankFor(m.handler, m.role)][TxOf[m.handler]]
                                            = "prepared"]
      <3>1. bankTx'[BankFor(m.handler, m.role)][TxOf[m.handler]] = "prepared"
        BY <1>1, <2>3, PartyOK DEF TypeOK, BankTypeOK
      <3> QED
        BY <1>2, <2>1, <2>2, <3>1 DEF SideFollows, AfterCommit, BankFor, Party
    <2>4. CASE reply' = [reply EXCEPT ![m.handler][m.role] = "no"]
      <3>1. reply'[m.handler][m.role] = "no"
        BY <1>1, <2>4 DEF TypeOK
      <3> QED
        BY <1>2, <2>1, <2>2, <3>1 DEF SideFollows, AfterCommit, BankFor, Party
    <2> QED
      BY <2>3, <2>4, PrepareServed
  <1> QED
    BY <1>3, <1>4 DEF SidesFollow

LEMMA CommitServedSides ==
    ASSUME TypeOK, CalmRun, CalmInv, NEW m \in wire, ServeCommit(m)
    PROVE  SidesFollow'
  <1>1. /\ m.handler \in Handlers /\ m.role \in Roles
        /\ BankFor(m.handler, m.role) \in Banks
    BY CallsMade
  <1>2. /\ pc[m.handler] = "committing"
        /\ UNCHANGED <<pc, state, answer, connected>>
        /\ bankTx' = [bankTx EXCEPT ![BankFor(m.handler, m.role)][TxOf[m.handler]] = "committed"]
        /\ reply' = [reply EXCEPT ![m.handler][m.role] = "yes"]
        /\ applied' = [applied EXCEPT ![m.handler] = @ \cup {m.role}]
    BY CommitServed
  <1>3. /\ applied'[m.handler] = applied[m.handler] \cup {m.role}
        /\ \A x \in Handlers : x # m.handler => applied'[x] = applied[x]
    BY <1>1, <1>2 DEF TypeOK
  <1>4. ASSUME NEW x \in Handlers, NEW r \in Roles, x # m.handler \/ r # m.role
        PROVE  SideFollows(x, r)'
    <2>1. /\ reply'[x][r] = reply[x][r]
          /\ pc[x] \in {"preparing", "prepared", "committing"} =>
                 bankTx'[BankFor(x, r)][TxOf[x]] = bankTx[BankFor(x, r)][TxOf[x]]
      BY <1>2, <1>4, ServedOthers
    <2>2. SideFollows(x, r)
      BY DEF CalmInv, SidesFollow
    <2>3. r \in applied'[x] <=> r \in applied[x]
      BY <1>3, <1>4
    <2>4. Succeeded(x) => Succeeded(x)'
      BY <1>2, <1>3 DEF Succeeded
    <2> QED
      BY <1>2, <2>1, <2>2, <2>3, <2>4, SideStays
  <1>5. SideFollows(m.handler, m.role)'
    <2>1. reply'[m.handler][m.role] = "yes"
      BY <1>1, <1>2 DEF TypeOK
    <2>2. bankTx'[BankFor(m.handler, m.role)][TxOf[m.handler]] = "committed"
      BY <1>1, <1>2, PartyOK DEF TypeOK, BankTypeOK
    <2>3. SideFollows(m.handler, m.role)
      BY <1>1 DEF CalmInv, SidesFollow
    <2> QED
      BY <1>2, <1>3, <2>1, <2>2, <2>3 DEF SideFollows, AfterCommit, BankFor, Party
  <1> QED
    BY <1>4, <1>5 DEF SidesFollow

LEMMA KeepsSidesFollow ==
    ASSUME TypeOK, CalmRun, CalmInv, CalmStep
    PROVE  SidesFollow'
  <1> USE PaymentAssumption DEF TypeOK, CalmInv, Goto, bankVars, gatewayVars
  <1>1. ASSUME NEW h \in Handlers, Arrive(h)
        PROVE  SidesFollow'
    <2>1. ASSUME NEW x \in Handlers, NEW r \in Roles, x # h
          PROVE  SideFollows(x, r)'
      BY <1>1, <2>1, SideKept DEF Arrive, SidesFollow
    <2>2. ASSUME NEW r \in Roles
          PROVE  SideFollows(h, r)'
      <3>1. r \notin applied'[h]
        BY <1>1 DEF Arrive, SidesFollow, SideFollows, Succeeded, AfterCommit
      <3>2. pc'[h] \notin {"preparing", "prepared", "committing"} \cup AfterCommit
        BY <1>1 DEF Arrive, AfterCommit
      <3> QED
        BY <3>1, <3>2, NothingClaimed
    <2> QED
      BY <2>1, <2>2 DEF SidesFollow
  <1>2. ASSUME NEW h \in Handlers, Lookup(h)
        PROVE  SidesFollow'
    <2>1. ASSUME NEW x \in Handlers, NEW r \in Roles, x # h
          PROVE  SideFollows(x, r)'
      BY <1>2, <2>1, SideKept DEF Lookup, Return, SidesFollow
    <2>2. ASSUME NEW r \in Roles
          PROVE  SideFollows(h, r)'
      BY <1>2, <2>2 DEF Lookup, Return, SidesFollow, SideFollows, Succeeded, AfterCommit
    <2> QED
      BY <2>1, <2>2 DEF SidesFollow
  <1>3. ASSUME NEW h \in Handlers, CheckFunds(h)
        PROVE  SidesFollow'
    <2>1. ASSUME NEW x \in Handlers, NEW r \in Roles, x # h
          PROVE  SideFollows(x, r)'
      BY <1>3, <2>1, SideKept DEF CheckFunds, Return, SidesFollow
    <2>2. ASSUME NEW r \in Roles
          PROVE  SideFollows(h, r)'
      BY <1>3, <2>2 DEF CheckFunds, Return, SidesFollow, SideFollows, Succeeded, AfterCommit
    <2> QED
      BY <2>1, <2>2 DEF SidesFollow
  <1>4. ASSUME NEW h \in Handlers, Admit(h)
        PROVE  SidesFollow'
    <2>1. ASSUME NEW x \in Handlers, NEW r \in Roles, x # h
          PROVE  SideFollows(x, r)'
      BY <1>4, <2>1, SideKept DEF Admit, Return, SidesFollow
    <2>2. ASSUME NEW r \in Roles
          PROVE  SideFollows(h, r)'
      BY <1>4, <2>2 DEF Admit, Return, SidesFollow, SideFollows, Succeeded, AfterCommit
    <2> QED
      BY <2>1, <2>2 DEF SidesFollow
  <1>5. ASSUME NEW h \in Handlers, Register(h)
        PROVE  SidesFollow'
    <2>1. ASSUME NEW x \in Handlers, NEW r \in Roles, x # h
          PROVE  SideFollows(x, r)'
      BY <1>5, <2>1, SideKept DEF Register, SidesFollow
    <2>2. ASSUME NEW r \in Roles
          PROVE  SideFollows(h, r)'
      <3>1. r \notin applied'[h]
        BY <1>5 DEF Register, SidesFollow, SideFollows, Succeeded, AfterCommit
      <3>2. pc'[h] \notin {"preparing", "prepared", "committing"} \cup AfterCommit
        BY <1>5 DEF Register, AfterCommit
      <3> QED
        BY <3>1, <3>2, NothingClaimed
    <2> QED
      BY <2>1, <2>2 DEF SidesFollow
  <1>6. ASSUME NEW h \in Handlers, Connect(h)
        PROVE  SidesFollow'
    <2>1. ASSUME NEW x \in Handlers, NEW r \in Roles, x # h
          PROVE  SideFollows(x, r)'
      BY <1>6, <2>1, SideKept DEF Connect, StartPhase, SidesFollow
    <2>2. ASSUME NEW r \in Roles
          PROVE  SideFollows(h, r)'
      <3>1. SideFollows(h, r) /\ h \notin expired
        BY DEF SidesFollow, NoFaults
      <3>2. reply'[h][r] = "none" /\ pc[h] = "connecting" /\ pc'[h] = "preparing"
        BY <1>6, <3>1 DEF Connect, StartPhase
      <3>3. UNCHANGED <<bankTx, applied, answer>>
        BY <1>6 DEF Connect
      <3>4. BankFor(h, r) \in Banks \cap connected'
        BY <1>6, PartyOK DEF Connect
      <3> QED
        BY <3>1, <3>2, <3>3, <3>4 DEF SideFollows, Succeeded, AfterCommit, BankFor, Party
    <2> QED
      BY <2>1, <2>2 DEF SidesFollow
  <1>7. ASSUME NEW h \in Handlers, Unreachable(h)
        PROVE  SidesFollow'
    <2>1. ASSUME NEW x \in Handlers, NEW r \in Roles, x # h
          PROVE  SideFollows(x, r)'
      BY <1>7, <2>1, SideKept DEF Unreachable, BeginAbort, SidesFollow
    <2>2. ASSUME NEW r \in Roles
          PROVE  SideFollows(h, r)'
      BY <1>7, <2>2 DEF Unreachable, BeginAbort, SidesFollow, SideFollows, Succeeded, AfterCommit
    <2> QED
      BY <2>1, <2>2 DEF SidesFollow
  <1>8. ASSUME NEW h \in Handlers, PrepareDone(h)
        PROVE  SidesFollow'
    <2>1. ASSUME NEW x \in Handlers, NEW r \in Roles, x # h
          PROVE  SideFollows(x, r)'
      BY <1>8, <2>1, SideKept DEF PrepareDone, BeginAbort, SidesFollow
    <2>2. ASSUME NEW r \in Roles
          PROVE  SideFollows(h, r)'
      <3>1. /\ SideFollows(h, r) /\ pc[h] = "preparing"
            /\ UNCHANGED <<bankTx, applied, connected, reply>>
        BY <1>8 DEF SidesFollow, PrepareDone
      <3>2. r \notin applied'[h]
        BY <3>1 DEF SideFollows, Succeeded, AfterCommit
      <3>3. CASE AllAgreed(h)
        <4>1. reply[h][r] = "yes" /\ pc'[h] = "prepared"
          BY <1>8, <3>3 DEF PrepareDone, AllAgreed
        <4> QED
          BY <3>1, <3>2, <4>1 DEF SideFollows, AfterCommit, BankFor, Party
      <3>4. CASE ~AllAgreed(h)
        <4>1. pc'[h] = "abortDebit"
          BY <1>8, <3>4 DEF PrepareDone, BeginAbort
        <4> QED
          BY <3>2, <4>1, NothingClaimed DEF AfterCommit
      <3> QED
        BY <3>3, <3>4
    <2> QED
      BY <2>1, <2>2 DEF SidesFollow
  <1>9. ASSUME NEW h \in Handlers, StartCommit(h)
        PROVE  SidesFollow'
    <2>1. ASSUME NEW x \in Handlers, NEW r \in Roles, x # h
          PROVE  SideFollows(x, r)'
      BY <1>9, <2>1, SideKept DEF StartCommit, StartPhase, SidesFollow
    <2>2. ASSUME NEW r \in Roles
          PROVE  SideFollows(h, r)'
      <3>1. SideFollows(h, r) /\ h \notin expired
        BY DEF SidesFollow, NoFaults
      <3>2. reply'[h][r] = "none" /\ pc[h] = "prepared" /\ pc'[h] = "committing"
        BY <1>9, <3>1 DEF StartCommit, StartPhase
      <3>3. UNCHANGED <<bankTx, applied, connected, answer>>
        BY <1>9 DEF StartCommit
      <3> QED
        BY <3>1, <3>2, <3>3 DEF SideFollows, Succeeded, AfterCommit, BankFor, Party
    <2> QED
      BY <2>1, <2>2 DEF SidesFollow
  <1>10. ASSUME NEW h \in Handlers, CommitDone(h)
         PROVE  SidesFollow'
    <2>1. ASSUME NEW x \in Handlers, NEW r \in Roles, x # h
          PROVE  SideFollows(x, r)'
      BY <1>10, <2>1, SideKept DEF CommitDone, AllAgreed, SidesFollow
    <2>2. ASSUME NEW r \in Roles
          PROVE  SideFollows(h, r)'
      BY <1>10, <2>2 DEF CommitDone, AllAgreed, SidesFollow, SideFollows, Succeeded, AfterCommit
    <2> QED
      BY <2>1, <2>2 DEF SidesFollow
  <1>11. ASSUME NEW h \in Handlers, NEW role \in Roles, AbortAt(h, role)
         PROVE  SidesFollow'
    <2>1. ASSUME NEW x \in Handlers, NEW r \in Roles, x # h
          PROVE  SideFollows(x, r)'
      <3>1. pc[x] \in {"preparing", "prepared", "committing"} =>
                bankTx'[BankFor(x, r)][TxOf[x]] = bankTx[BankFor(x, r)][TxOf[x]]
        BY <1>11, <2>1, AbortOthers
      <3>2. /\ pc'[x] = pc[x] /\ state'[x] = state[x] /\ connected \subseteq connected'
            /\ UNCHANGED <<reply, answer, applied>>
        BY <1>11, <2>1 DEF AbortAt
      <3> QED
        BY <3>1, <3>2, SideKept DEF SidesFollow
    <2>2. ASSUME NEW r \in Roles
          PROVE  SideFollows(h, r)'
      <3>1. r \notin applied'[h]
        BY <1>11 DEF AbortAt, SidesFollow, SideFollows, Succeeded, AfterCommit
      <3>2. pc'[h] \notin {"preparing", "prepared", "committing"} \cup AfterCommit
        BY <1>11 DEF AbortAt, AfterCommit
      <3> QED
        BY <3>1, <3>2, NothingClaimed
    <2> QED
      BY <2>1, <2>2 DEF SidesFollow
  <1>12. ASSUME NEW h \in Handlers, Cleanup(h)
         PROVE  SidesFollow'
    <2>1. ASSUME NEW x \in Handlers, NEW r \in Roles, x # h
          PROVE  SideFollows(x, r)'
      BY <1>12, <2>1, SideKept DEF Cleanup, Return, SidesFollow
    <2>2. ASSUME NEW r \in Roles
          PROVE  SideFollows(h, r)'
      <3>1. r \notin applied'[h]
        BY <1>12 DEF Cleanup, Return, SidesFollow, SideFollows, Succeeded, AfterCommit
      <3>2. pc'[h] \notin {"preparing", "prepared", "committing"} \cup AfterCommit
        BY <1>12 DEF Cleanup, Return, AfterCommit
      <3> QED
        BY <3>1, <3>2, NothingClaimed
    <2> QED
      BY <2>1, <2>2 DEF SidesFollow
  <1>13. ASSUME NEW h \in Handlers, StoreDebit(h)
         PROVE  SidesFollow'
    <2>1. ASSUME NEW x \in Handlers, NEW r \in Roles, x # h
          PROVE  SideFollows(x, r)'
      BY <1>13, <2>1, SideKept DEF StoreDebit, SidesFollow
    <2>2. ASSUME NEW r \in Roles
          PROVE  SideFollows(h, r)'
      BY <1>13, <2>2 DEF StoreDebit, SidesFollow, SideFollows, Succeeded, AfterCommit
    <2> QED
      BY <2>1, <2>2 DEF SidesFollow
  <1>14. ASSUME NEW h \in Handlers, ReadCredit(h)
         PROVE  SidesFollow'
    <2>1. ASSUME NEW x \in Handlers, NEW r \in Roles, x # h
          PROVE  SideFollows(x, r)'
      BY <1>14, <2>1, SideKept DEF ReadCredit, SidesFollow
    <2>2. ASSUME NEW r \in Roles
          PROVE  SideFollows(h, r)'
      BY <1>14, <2>2 DEF ReadCredit, SidesFollow, SideFollows, Succeeded, AfterCommit
    <2> QED
      BY <2>1, <2>2 DEF SidesFollow
  <1>15. ASSUME NEW h \in Handlers, StoreCredit(h)
         PROVE  SidesFollow'
    <2>1. ASSUME NEW x \in Handlers, NEW r \in Roles, x # h
          PROVE  SideFollows(x, r)'
      BY <1>15, <2>1, SideKept DEF StoreCredit, SidesFollow
    <2>2. ASSUME NEW r \in Roles
          PROVE  SideFollows(h, r)'
      BY <1>15, <2>2 DEF StoreCredit, SidesFollow, SideFollows, Succeeded, AfterCommit
    <2> QED
      BY <2>1, <2>2 DEF SidesFollow
  <1>16. ASSUME NEW h \in Handlers, SaveBalances(h)
         PROVE  SidesFollow'
    <2>1. ASSUME NEW x \in Handlers, NEW r \in Roles, x # h
          PROVE  SideFollows(x, r)'
      BY <1>16, <2>1, SideKept DEF SaveBalances, Return, SidesFollow
    <2>2. ASSUME NEW r \in Roles
          PROVE  SideFollows(h, r)'
      <3>1. Succeeded(h)'
        BY <1>16, BothApplied DEF SaveBalances, Return, Succeeded, AfterCommit
      <3>2. pc'[h] = "done"
        BY <1>16 DEF SaveBalances, Return
      <3> QED
        BY <3>1, <3>2 DEF SideFollows, AfterCommit
    <2> QED
      BY <2>1, <2>2 DEF SidesFollow
  <1>17. ASSUME NEW m \in wire, ServePrepare(m)
         PROVE  SidesFollow'
    BY <1>17, PrepareServedSides
  <1>18. ASSUME NEW m \in wire, ServeCommit(m)
         PROVE  SidesFollow'
    BY <1>18, CommitServedSides
  <1> QED
    BY <1>1, <1>2, <1>3, <1>4, <1>5, <1>6, <1>7, <1>8, <1>9, <1>10,
       <1>11, <1>12, <1>13, <1>14, <1>15, <1>16, <1>17, <1>18 DEF CalmStep

-----------------------------------------------------------------------------
(* The invariant, and what follows from it.                                *)

LEMMA InitCalmInv == Init => CalmInv
  <1> SUFFICES ASSUME Init PROVE CalmInv
    OBVIOUS
  <1> USE PaymentAssumption, BankAssumption DEF Init
  <1>1. NoFaults /\ OneAtATime /\ AnswersMatch /\ CallsAwaited
    BY DEF NoFaults, OneAtATime, AnswersMatch, CallsAwaited
  <1>2. RecordFollows
    BY DEF RecordFollows, Owning, Undecided, AfterCommit, Moved
  <1>3. SidesFollow
    BY DEF SidesFollow, SideFollows, AfterCommit
  <1>4. PreparedIsPending
    BY DEF PreparedIsPending, BankInit, NoTransactions
  <1> QED
    BY <1>1, <1>2, <1>3, <1>4 DEF CalmInv

LEMMA NextCalmInv ==
    ASSUME CalmRun
    PROVE  TypeOK /\ CalmInv /\ [Next]_vars => CalmInv'
  <1>1. ASSUME TypeOK, CalmInv, Next
        PROVE  CalmInv'
    <2>1. CalmStep
      BY <1>1, CalmNext
    <2> QED
      BY <1>1, <2>1, KeepsNoFaults, KeepsOneAtATime, KeepsRecordFollows, KeepsAnswersMatch,
         KeepsCallsAwaited, KeepsSidesFollow, KeepsPreparedIsPending DEF CalmInv
  <1>2. ASSUME CalmInv, UNCHANGED vars
        PROVE  CalmInv'
    <2> USE <1>2 DEF vars, bankVars, handlerVars, gatewayVars, CalmInv
    <2>1. NoFaults' /\ OneAtATime'
      BY DEF NoFaults, OneAtATime
    <2>2. RecordFollows' /\ AnswersMatch'
      BY DEF RecordFollows, AnswersMatch, Succeeded, Moved
    <2>3. CallsAwaited'
      BY DEF CallsAwaited, Awaited
    <2>4. SidesFollow'
      BY DEF SidesFollow, SideFollows, Succeeded, BankFor, Party
    <2>5. PreparedIsPending'
      BY DEF PreparedIsPending, Pending, BankFor, Party
    <2> QED
      BY <2>1, <2>2, <2>3, <2>4, <2>5
  <1> QED
    BY <1>1, <1>2

(* The invariant: of the handlers of a payment one is at work, the record in *)
(* the gateway's map is its own, each bank is exactly as far as the handler  *)
(* believes it is, and a prepared record has a handler that will settle it   *)
(* (ProcessPayment, preparePhase, commitPhase, abortTransaction).            *)
THEOREM CalmInvariant ==
    ASSUME CalmRun
    PROVE  Spec => []CalmInv
  BY InitCalmInv, NextCalmInv, TypeCorrect, PTL DEF Spec

(* A bank that voted for a transfer finds its record prepared when it is     *)
(* asked to commit: no other call has touched it (PrepareDebit and           *)
(* CommitDebit of the bank servers keep the vote under the transaction id).  *)
THEOREM CalmVotesBind ==
    ASSUME CalmRun
    PROVE  Spec => []VoteBindsBank
  <1>1. TypeOK /\ CalmInv => VoteBindsBank
    BY CallsMade DEF VoteBindsBank
  <1> QED
    BY <1>1, CalmInvariant, TypeCorrect, PTL

(* However often a payment is sent, each side moves once: a handler that     *)
(* moved money keeps the record, and the record turns away the next          *)
(* (ProcessPayment's look-up of the committed transaction).                  *)
THEOREM CalmAtMostOnce ==
    ASSUME CalmRun
    PROVE  Spec => []AtMostOnce
  <1>1. CalmInv => AtMostOnce
    <2>1. ASSUME CalmInv, NEW g \in Handlers, NEW h \in Handlers, g # h, TxOf[g] = TxOf[h]
          PROVE  applied[g] = {} \/ applied[h] = {}
      BY <2>1 DEF CalmInv, RecordFollows, Moved
    <2> QED
      BY <2>1 DEF AtMostOnce
  <1> QED
    BY <1>1, CalmInvariant, PTL

(* A payment reported as failed moved nothing and will not.                  *)
THEOREM CalmFailures ==
    ASSUME CalmRun
    PROVE  Spec => []FailureMeansNothingMoved
  <1>1. TypeOK /\ CalmInv => FailureMeansNothingMoved
    <2> SUFFICES ASSUME TypeOK, CalmInv, NEW h \in Handlers, answer[h] = "failure"
                 PROVE  ~Moved(h) /\ \A m \in wire : m.handler # h
      BY DEF FailureMeansNothingMoved
    <2>1. pc[h] = "done" /\ ~Succeeded(h)
      BY DEF CalmInv, AnswersMatch, Succeeded
    <2>2. \A r \in Roles : r \notin applied[h]
      BY <2>1 DEF CalmInv, SidesFollow, SideFollows, AfterCommit
    <2>3. applied[h] = {}
      BY <2>2 DEF TypeOK
    <2>4. \A m \in wire : pc[m.handler] # "done"
      BY CallsMade
    <2> QED
      BY <2>1, <2>3, <2>4 DEF Moved
  <1> QED
    BY <1>1, CalmInvariant, TypeCorrect, PTL

(* Once no call is being handled no bank is left with a prepared record: the *)
(* gateway committed or aborted every one (abortTransaction).                *)
THEOREM CalmNothingPrepared ==
    ASSUME CalmRun
    PROVE  Spec => []NothingLeftPrepared
  <1>1. CalmInv => NothingLeftPrepared
    BY DEF CalmInv, PreparedIsPending, Pending, NothingLeftPrepared, Quiet
  <1> QED
    BY <1>1, CalmInvariant, PTL

-----------------------------------------------------------------------------
(* The answers, and the promise of AtomicPayment.                          *)

\* What an answer that is given says of the transfer.
AnswerIsTrue(h) ==
    /\ answer[h] = "none"
    /\ \/ /\ answer' = [answer EXCEPT ![h] = "duplicate"]
          /\ \E x \in Handlers : TxOf[x] = TxOf[h] /\ applied[x] = Roles
       \/ /\ answer' = [answer EXCEPT ![h] = "success"]
          /\ applied[h] = Roles
       \/ /\ answer' = [answer EXCEPT ![h] = "failure"]
          /\ \A x \in Handlers : TxOf[x] = TxOf[h] => ~Moved(x)

\* A transaction without a record, or with that of a handler that moved
\* nothing, has not been executed by anyone.
LEMMA NobodyMoved ==
    ASSUME TypeOK, CalmInv, NEW h \in Handlers,
           record[TxOf[h]] = NoRecord \/ (record[TxOf[h]] = h /\ pc[h] = "cleanup")
    PROVE  \A x \in Handlers : TxOf[x] = TxOf[h] => ~Moved(x)
  <1> SUFFICES ASSUME NEW x \in Handlers, TxOf[x] = TxOf[h], Moved(x)
               PROVE  FALSE
    OBVIOUS
  <1>1. record[TxOf[h]] = x
    BY DEF CalmInv, RecordFollows
  <1>2. x = h /\ pc[x] = "cleanup"
    BY <1>1, PaymentAssumption
  <1>3. PICK r \in Roles : r \in applied[x]
    BY DEF Moved, TypeOK
  <1> QED
    BY <1>2, <1>3 DEF CalmInv, SidesFollow, SideFollows, Succeeded, AfterCommit

LEMMA AnswerStep ==
    ASSUME TypeOK, CalmRun, CalmInv, CalmStep
    PROVE  \/ UNCHANGED answer
           \/ UNCHANGED applied /\ \E h \in Handlers : AnswerIsTrue(h)
  <1> USE PaymentAssumption DEF TypeOK
  <1>1. ASSUME NEW h \in Handlers, Lookup(h)
        PROVE  UNCHANGED answer \/ (UNCHANGED applied /\ AnswerIsTrue(h))
    <2>1. answer[h] = "none" /\ UNCHANGED applied
      BY <1>1 DEF Lookup, CalmInv, AnswersMatch
    <2>2. CASE record[TxOf[h]] = NoRecord
      BY <1>1, <2>2 DEF Lookup
    <2>3. CASE record[TxOf[h]] # NoRecord
      <3> DEFINE g == record[TxOf[h]]
      <3>1. g \in Handlers /\ TxOf[g] = TxOf[h] /\ Succeeded(g)
        <4>1. /\ g \in Handlers /\ TxOf[g] = TxOf[h] /\ pc[h] = "lookup"
              /\ pc[g] \in Owning \/ Succeeded(g)
          BY <1>1, <2>3 DEF CalmInv, RecordFollows, Lookup
        <4>2. CASE pc[g] \in Owning
          BY <4>1, <4>2 DEF CalmInv, OneAtATime, Owning, AfterCommit
        <4> QED
          BY <4>1, <4>2
      <3>2. answer' = [answer EXCEPT ![h] = "duplicate"]
        BY <1>1, <2>3, <3>1 DEF Lookup, Return, Succeeded
      <3> QED
        BY <2>1, <3>1, <3>2 DEF AnswerIsTrue, Succeeded
    <2> QED
      BY <2>2, <2>3
  <1>2. ASSUME NEW h \in Handlers, CheckFunds(h) \/ Admit(h)
        PROVE  UNCHANGED answer \/ (UNCHANGED applied /\ AnswerIsTrue(h))
    <2>1. answer[h] = "none" /\ record[TxOf[h]] = NoRecord /\ UNCHANGED applied
      BY <1>2 DEF CheckFunds, Admit, CalmInv, AnswersMatch, RecordFollows, Undecided
    <2>2. UNCHANGED answer \/ answer' = [answer EXCEPT ![h] = "failure"]
      BY <1>2 DEF CheckFunds, Admit, Return
    <2> QED
      BY <2>1, <2>2, NobodyMoved DEF AnswerIsTrue
  <1>3. ASSUME NEW h \in Handlers, Cleanup(h)
        PROVE  UNCHANGED applied /\ AnswerIsTrue(h)
    <2>1. answer[h] = "none" /\ record[TxOf[h]] = h /\ pc[h] = "cleanup" /\ UNCHANGED applied
      BY <1>3 DEF Cleanup, CalmInv, AnswersMatch, RecordFollows, Owning
    <2>2. answer' = [answer EXCEPT ![h] = "failure"]
      BY <1>3 DEF Cleanup, Return
    <2> QED
      BY <2>1, <2>2, NobodyMoved DEF AnswerIsTrue
  <1>4. ASSUME NEW h \in Handlers, SaveBalances(h)
        PROVE  UNCHANGED applied /\ AnswerIsTrue(h)
    <2>1. answer[h] = "none" /\ UNCHANGED applied
      BY <1>4 DEF SaveBalances, CalmInv, AnswersMatch
    <2>2. applied[h] = Roles
      BY <1>4, BothApplied DEF SaveBalances, AfterCommit
    <2>3. answer' = [answer EXCEPT ![h] = "success"]
      BY <1>4 DEF SaveBalances, Return
    <2> QED
      BY <2>1, <2>2, <2>3 DEF AnswerIsTrue
  <1>5. ASSUME NEW h \in Handlers,
               \/ Arrive(h) \/ Register(h) \/ Connect(h) \/ Unreachable(h) \/ PrepareDone(h)
               \/ StartCommit(h) \/ CommitDone(h) \/ (\E role \in Roles : AbortAt(h, role))
               \/ StoreDebit(h) \/ ReadCredit(h) \/ StoreCredit(h)
        PROVE  UNCHANGED answer
    BY <1>5 DEF Arrive, Register, Connect, Unreachable, PrepareDone, StartCommit, CommitDone,
                AbortAt, StoreDebit, ReadCredit, StoreCredit
  <1>6. ASSUME NEW m \in wire, ServePrepare(m) \/ ServeCommit(m)
        PROVE  UNCHANGED answer
    BY <1>6 DEF ServePrepare, ServeCommit
  <1> QED
    BY <1>1, <1>2, <1>3, <1>4, <1>5, <1>6 DEF CalmStep

(* A payment that succeeded is answered as a duplicate ever after, and never *)
(* reported as failed (the look-up at the start of ProcessPayment).          *)
THEOREM CalmSuccessIsRemembered ==
    ASSUME CalmRun
    PROVE  Spec => SuccessIsRemembered
  <1> DEFINE Remembered ==
        \A h \in Handlers :
            (/\ answer'[h] # answer[h]
             /\ \E h2 \in Handlers : TxOf[h2] = TxOf[h] /\ answer[h2] = "success")
            => answer'[h] = "duplicate"
  <1>1. ASSUME TypeOK, CalmInv, Next
        PROVE  Remembered
    <2> SUFFICES ASSUME NEW h \in Handlers, answer'[h] # answer[h],
                        NEW x \in Handlers, TxOf[x] = TxOf[h], answer[x] = "success"
                 PROVE  answer'[h] = "duplicate"
      OBVIOUS
    <2>1. PICK g \in Handlers : AnswerIsTrue(g)
      BY <1>1, CalmNext, AnswerStep
    <2>2. g = h /\ answer[h] = "none"
      BY <1>1, <2>1 DEF AnswerIsTrue, TypeOK
    <2>3. Succeeded(x) /\ Moved(x)
      BY <1>1 DEF CalmInv, AnswersMatch, Succeeded, Moved, Roles
    <2>4. record[TxOf[h]] = x
      BY <1>1, <2>3 DEF CalmInv, RecordFollows
    <2>5. answer'[h] # "success"
      <3>1. SUFFICES ASSUME applied[h] = Roles
                     PROVE  FALSE
        BY <1>1, <2>1, <2>2, <2>3 DEF AnswerIsTrue, TypeOK
      <3>2. record[TxOf[h]] = h
        BY <1>1, <3>1 DEF CalmInv, RecordFollows, Moved, Roles
      <3> QED
        BY <2>2, <2>4, <3>2
    <2>6. answer'[h] # "failure"
      BY <1>1, <2>1, <2>2, <2>3 DEF AnswerIsTrue, TypeOK
    <2> QED
      BY <1>1, <2>1, <2>2, <2>5, <2>6 DEF AnswerIsTrue, TypeOK
  <1>2. TypeOK /\ CalmInv /\ [Next]_vars => [Remembered]_vars
    BY <1>1
  <1>3. [][Remembered]_vars => SuccessIsRemembered
    BY PTL DEF SuccessIsRemembered
  <1> QED
    BY <1>2, <1>3, CalmInvariant, TypeCorrect, PTL DEF Spec

MovedTx == {TxOf[h] : h \in {x \in Handlers : Moved(x)}}

LEMMA PromiseStep ==
    ASSUME TypeOK, CalmRun, CalmInv, Next
    PROVE  Promise!Next \/ UNCHANGED <<MovedTx, answer>>
  <1>1. CalmStep
    BY CalmNext
  <1>2. ASSUME NEW m \in wire, ServeCommit(m)
        PROVE  Promise!Transfer(m.handler) \/ UNCHANGED <<MovedTx, answer>>
    <2> DEFINE h == m.handler
    <2>1. h \in Handlers /\ m.role \in Roles /\ pc[h] = "committing" /\ UNCHANGED answer
      BY <1>2, CallsMade, CommitServed
    <2>2. /\ applied'[h] = applied[h] \cup {m.role}
          /\ \A x \in Handlers : x # h => applied'[x] = applied[x]
      BY <1>2, <2>1, CommitServed DEF TypeOK
    <2>3. \A x \in Handlers : Moved(x)' <=> Moved(x) \/ x = h
      BY <2>1, <2>2 DEF Moved
    <2>4. CASE Moved(h)
      BY <2>1, <2>3, <2>4 DEF MovedTx
    <2>5. CASE ~Moved(h)
      <3>1. answer[h] = "none"
        BY <2>1 DEF CalmInv, AnswersMatch
      <3>2. \A x \in Handlers : TxOf[x] = TxOf[h] => ~Moved(x)
        BY <2>1, <2>5 DEF CalmInv, RecordFollows, Owning
      <3>3. TxOf[h] \notin MovedTx
        BY <3>2 DEF MovedTx
      <3>4. MovedTx' = MovedTx \cup {TxOf[h]}
        BY <2>1, <2>3 DEF MovedTx
      <3> QED
        BY <2>1, <3>1, <3>3, <3>4 DEF Promise!Transfer, MovedTx
    <2> QED
      BY <2>4, <2>5
  <1>3. ASSUME NEW h \in Handlers, AnswerIsTrue(h), UNCHANGED applied
        PROVE  Promise!Confirm(h) \/ Promise!Refuse(h)
    <2>1. UNCHANGED MovedTx
      BY <1>3 DEF MovedTx, Moved
    <2>2. ASSUME NEW x \in Handlers, TxOf[x] = TxOf[h], applied[x] = Roles
          PROVE  TxOf[h] \in MovedTx
      BY <2>2 DEF MovedTx, Moved, Roles
    <2>3. (\A x \in Handlers : TxOf[x] = TxOf[h] => ~Moved(x)) => TxOf[h] \notin MovedTx
      BY DEF MovedTx
    <2> QED
      BY <1>3, <2>1, <2>2, <2>3 DEF AnswerIsTrue, Promise!Confirm, Promise!Refuse, MovedTx
  <1>4. ASSUME UNCHANGED answer, \A m \in wire : ~ServeCommit(m)
        PROVE  UNCHANGED <<MovedTx, answer>>
    <2>1. UNCHANGED applied
      BY <1>4, AppliedGrows
    <2> QED
      BY <1>4, <2>1 DEF MovedTx, Moved
  <1> QED
    BY <1>1, <1>2, <1>3, <1>4, CallsMade, AnswerStep DEF Promise!Next

(* Two-phase commit implements the promise a client is made: a transfer      *)
(* happens at one instant or not at all, at most once, and every answer is   *)
(* true of it.                                                               *)
THEOREM CalmImplementsPromise ==
    ASSUME CalmRun
    PROVE  Spec => ImplementsAtomicPayment
  <1>1. Init => Promise!Init
    BY DEF Init, Promise!Init, Moved
  <1>2. TypeOK /\ CalmInv /\ [Next]_vars => [Promise!Next]_<<MovedTx, answer>>
    <2>1. ASSUME UNCHANGED vars
          PROVE  UNCHANGED <<MovedTx, answer>>
      BY <2>1 DEF vars, handlerVars, MovedTx, Moved
    <2> QED
      BY <2>1, PromiseStep
  <1> QED
    BY <1>1, <1>2, CalmInvariant, TypeCorrect, PTL
    DEF Spec, ImplementsAtomicPayment, Promise!Spec, MovedTx

-----------------------------------------------------------------------------
(* The ledgers.                                                            *)

\* The amounts of some payments, unit by unit.
Units(h) == {h} \X (1 .. Amount[TxOf[h]])
Money(H) == UNION {Units(h) : h \in H}

\* A side of a transfer that the bank has executed and the gateway's copy of
\* the balances has yet to follow.
DebitDue(h)  == "debit" \in applied[h] /\ pc[h] \in {"committing", "storeDebit"}
CreditDue(h) == "credit" \in applied[h]
                /\ pc[h] \in {"committing", "storeDebit", "readCredit", "storeCredit"}

Leaving(c) == {h \in Handlers : Sender[TxOf[h]] = c /\ DebitDue(h)}
Coming(c)  == {h \in Handlers : Receiver[TxOf[h]] = c /\ CreditDue(h)}

\* The bank and the gateway differ by what is on its way.
CopyFollows(c) ==
    /\ IsFiniteSet(Money(Leaving(c))) /\ IsFiniteSet(Money(Coming(c)))
    /\ balances[c] = gwBalance[c] - Cardinality(Money(Leaving(c)))
                                  + Cardinality(Money(Coming(c)))

LedgerInv ==
    /\ ~raced => \A c \in Clients : CopyFollows(c)
    /\ (\A h \in Handlers : pc[h] \notin {"readCredit", "storeCredit", "save"}) =>
           file = gwBalance

LEMMA AmountCounted ==
    ASSUME NEW h \in Handlers
    PROVE  /\ Amount[TxOf[h]] \in Nat
           /\ IsFiniteSet(Units(h)) /\ Cardinality(Units(h)) = Amount[TxOf[h]]
  <1>1. Amount[TxOf[h]] \in Nat
    BY PaymentAssumption
  <1>2. /\ IsFiniteSet(1 .. Amount[TxOf[h]])
        /\ Cardinality(1 .. Amount[TxOf[h]]) = Amount[TxOf[h]]
    BY <1>1, FS_Interval
  <1>3. IsFiniteSet({h}) /\ Cardinality({h}) = 1
    BY FS_Singleton
  <1>4. /\ IsFiniteSet(Units(h))
        /\ Cardinality(Units(h)) = Cardinality({h}) * Cardinality(1 .. Amount[TxOf[h]])
    BY <1>2, <1>3, FS_Product DEF Units
  <1>5. Cardinality(Units(h)) = 1 * Amount[TxOf[h]]
    BY <1>2, <1>3, <1>4
  <1> QED
    BY <1>1, <1>4, <1>5

\* One more payment on its way, or one less.
LEMMA MoneyAdded ==
    ASSUME NEW H \in SUBSET Handlers, NEW h \in Handlers \ H, IsFiniteSet(Money(H))
    PROVE  /\ IsFiniteSet(Money(H \cup {h}))
           /\ Cardinality(Money(H)) \in Nat
           /\ Cardinality(Money(H \cup {h})) = Cardinality(Money(H)) + Amount[TxOf[h]]
  <1>1. Money(H \cup {h}) = Money(H) \cup Units(h)
    BY DEF Money
  <1>2. Money(H) \cap Units(h) = {}
    BY DEF Money, Units
  <1>3. Cardinality({}) = 0
    BY FS_EmptySet
  <1>4. Cardinality(Money(H)) \in Nat
    BY FS_CardinalityType
  <1>5. /\ IsFiniteSet(Money(H) \cup Units(h))
        /\ Cardinality(Money(H) \cup Units(h))
               = Cardinality(Money(H)) + Cardinality(Units(h)) - Cardinality(Money(H) \cap Units(h))
    BY AmountCounted, FS_Union
  <1>6. Cardinality(Money(H) \cup Units(h)) = Cardinality(Money(H)) + Amount[TxOf[h]] - 0
    BY <1>2, <1>3, <1>5, AmountCounted
  <1>7. Amount[TxOf[h]] \in Nat
    BY AmountCounted
  <1>8. Cardinality(Money(H)) + Amount[TxOf[h]] - 0 = Cardinality(Money(H)) + Amount[TxOf[h]]
    BY <1>4, <1>7
  <1>9. Cardinality(Money(H \cup {h})) = Cardinality(Money(H)) + Amount[TxOf[h]]
    BY <1>1, <1>6, <1>8
  <1> QED
    BY <1>1, <1>4, <1>5, <1>9

LEMMA MoneyRemoved ==
    ASSUME NEW H \in SUBSET Handlers, NEW h \in H, IsFiniteSet(Money(H))
    PROVE  /\ IsFiniteSet(Money(H \ {h}))
           /\ Cardinality(Money(H \ {h})) \in Nat
           /\ Cardinality(Money(H)) = Cardinality(Money(H \ {h})) + Amount[TxOf[h]]
  <1>1. IsFiniteSet(Money(H \ {h}))
    <2>1. Money(H \ {h}) \subseteq Money(H)
      BY DEF Money
    <2> QED
      BY <2>1, FS_Subset
  <1>2. (H \ {h}) \cup {h} = H /\ h \in Handlers \ (H \ {h}) /\ H \ {h} \in SUBSET Handlers
    OBVIOUS
  <1> QED
    BY <1>1, <1>2, MoneyAdded

\* The steps that neither move money at a bank nor store a balance.
LEMMA OtherSteps ==
    ASSUME TypeOK, CalmRun, CalmInv, CalmStep, Next,
           \A m \in wire : ~ServeCommit(m),
           \A h \in Handlers : ~StoreDebit(h) /\ ~StoreCredit(h)
    PROVE  /\ \A x \in Handlers : (DebitDue(x)' <=> DebitDue(x)) /\ (CreditDue(x)' <=> CreditDue(x))
           /\ UNCHANGED <<balances, gwBalance, raced>>
  <1> DEFINE Same == /\ \A x \in Handlers : /\ DebitDue(x)' <=> DebitDue(x)
                                            /\ CreditDue(x)' <=> CreditDue(x)
                     /\ UNCHANGED <<balances, gwBalance, raced>>
  <1>0. UNCHANGED applied
    BY AppliedGrows
  <1> USE <1>0 DEF TypeOK, Goto, Return, DebitDue, CreditDue, bankVars, gatewayVars, counters
  <1>1. ASSUME NEW h \in Handlers,
               Arrive(h) \/ Lookup(h) \/ CheckFunds(h) \/ Admit(h) \/ Register(h)
        PROVE  Same
    BY <1>1 DEF Arrive, Lookup, CheckFunds, Admit, Register
  <1>2. ASSUME NEW h \in Handlers, Connect(h) \/ Unreachable(h) \/ PrepareDone(h)
        PROVE  Same
    BY <1>2 DEF Connect, Unreachable, PrepareDone, BeginAbort
  <1>3. ASSUME NEW h \in Handlers, StartCommit(h)
        PROVE  Same
    <2>1. \A r \in Roles : r \notin applied[h]
      BY <1>3 DEF StartCommit, CalmInv, SidesFollow, SideFollows, AfterCommit, Succeeded
    <2> QED
      BY <1>3, <2>1 DEF StartCommit, Roles
  <1>4. ASSUME NEW h \in Handlers, CommitDone(h) \/ ReadCredit(h)
        PROVE  Same
    BY <1>4 DEF CommitDone, ReadCredit
  <1>5. ASSUME NEW h \in Handlers, NEW role \in Roles, AbortAt(h, role)
        PROVE  Same
    BY <1>5 DEF AbortAt, Abort
  <1>6. ASSUME NEW h \in Handlers, Cleanup(h) \/ SaveBalances(h)
        PROVE  Same
    BY <1>6 DEF Cleanup, SaveBalances
  <1>7. ASSUME NEW m \in wire, ServePrepare(m)
        PROVE  Same
    <2>1. UNCHANGED balances
      BY <1>7 DEF ServePrepare, PrepareDebit, PrepareCredit, Prepare
    <2> QED
      BY <1>7, <2>1 DEF ServePrepare
  <1> QED
    BY <1>1, <1>2, <1>3, <1>4, <1>5, <1>6, <1>7 DEF CalmStep

\* A side that becomes due, at the account it is due from.
LEMMA CommitMoves ==
    ASSUME TypeOK, CalmInv, NEW m \in wire, ServeCommit(m)
    PROVE  /\ m.role = "debit" => balances' =
                  [balances EXCEPT ![Sender[TxOf[m.handler]]] = @ - Amount[TxOf[m.handler]]]
           /\ m.role = "credit" => balances' =
                  [balances EXCEPT ![Receiver[TxOf[m.handler]]] = @ + Amount[TxOf[m.handler]]]
           /\ m.role \notin applied[m.handler]
           /\ UNCHANGED <<gwBalance, file, raced>>
  <1>1. /\ m.handler \in Handlers /\ m.role \in Roles
        /\ pc[m.handler] = "committing" /\ reply[m.handler][m.role] = "none"
        /\ bankTx[BankFor(m.handler, m.role)][TxOf[m.handler]] = "prepared"
    BY CallsMade, CommitServed DEF ServeCommit
  <1>2. m.role \notin applied[m.handler]
    BY <1>1 DEF CalmInv, SidesFollow, SideFollows
  <1>3. UNCHANGED <<gwBalance, file, raced>>
    BY DEF ServeCommit, gatewayVars, counters
  <1>4. CASE m.role = "debit"
    <2>1. balances' = [balances EXCEPT ![Sender[TxOf[m.handler]]] = @ + (-Amount[TxOf[m.handler]])]
      BY <1>1, <1>4 DEF ServeCommit, CommitDebit, Commit, BankFor, Party
    <2>2. /\ balances \in [Clients -> Int] /\ Sender[TxOf[m.handler]] \in Clients
          /\ Amount[TxOf[m.handler]] \in Int
      BY <1>1, PaymentAssumption DEF TypeOK, BankTypeOK
    <2>3. balances[Sender[TxOf[m.handler]]] + (-Amount[TxOf[m.handler]])
              = balances[Sender[TxOf[m.handler]]] - Amount[TxOf[m.handler]]
      BY <2>2
    <2> QED
      BY <1>2, <1>3, <1>4, <2>1, <2>3
  <1>5. CASE m.role = "credit"
    BY <1>1, <1>2, <1>3, <1>5 DEF ServeCommit, CommitCredit, Commit, BankFor, Party
  <1> QED
    BY <1>1, <1>4, <1>5 DEF Roles

\* What becomes of the balances and of what is on its way, for one account.
CopyStep(c) ==
    \/ /\ Leaving(c)' = Leaving(c) /\ Coming(c)' = Coming(c)
       /\ balances'[c] = balances[c] /\ gwBalance'[c] = gwBalance[c]
    \/ \E h \in Handlers \ Leaving(c) :
          /\ Leaving(c)' = Leaving(c) \cup {h} /\ Coming(c)' = Coming(c)
          /\ balances'[c] = balances[c] - Amount[TxOf[h]] /\ gwBalance'[c] = gwBalance[c]
    \/ \E h \in Handlers \ Coming(c) :
          /\ Leaving(c)' = Leaving(c) /\ Coming(c)' = Coming(c) \cup {h}
          /\ balances'[c] = balances[c] + Amount[TxOf[h]] /\ gwBalance'[c] = gwBalance[c]
    \/ \E h \in Leaving(c) :
          /\ Leaving(c)' = Leaving(c) \ {h} /\ Coming(c)' = Coming(c)
          /\ balances'[c] = balances[c] /\ gwBalance'[c] = gwBalance[c] - Amount[TxOf[h]]
    \/ \E h \in Coming(c) :
          /\ Leaving(c)' = Leaving(c) /\ Coming(c)' = Coming(c) \ {h}
          /\ balances'[c] = balances[c] /\ gwBalance'[c] = gwBalance[c] + Amount[TxOf[h]]

LEMMA EveryCopyStep ==
    ASSUME TypeOK, CalmRun, CalmInv, CalmStep, Next, ~raced', NEW c \in Clients
    PROVE  ~raced /\ CopyStep(c)
  <1>1. /\ balances \in [Clients -> Int] /\ gwBalance \in [Clients -> Int]
        /\ \A h \in Handlers : /\ Sender[TxOf[h]] \in Clients /\ Receiver[TxOf[h]] \in Clients
                               /\ Amount[TxOf[h]] \in Nat
    BY PaymentAssumption DEF TypeOK, BankTypeOK
  <1>2. ASSUME NEW m \in wire, ServeCommit(m)
        PROVE  ~raced /\ CopyStep(c)
    <2> DEFINE h == m.handler
    <2>1. /\ h \in Handlers /\ m.role \in Roles /\ pc[h] = "committing" /\ m.role \notin applied[h]
          /\ pc' = pc /\ applied' = [applied EXCEPT ![h] = @ \cup {m.role}]
          /\ UNCHANGED <<gwBalance, raced>>
      BY <1>2, CallsMade, CommitServed, CommitMoves
    <2>2. /\ applied'[h] = applied[h] \cup {m.role}
          /\ \A x \in Handlers : x # h => applied'[x] = applied[x]
      BY <2>1 DEF TypeOK
    <2>3. CASE m.role = "debit"
      <3>1. /\ ~DebitDue(h) /\ DebitDue(h)' /\ (CreditDue(h)' <=> CreditDue(h))
            /\ \A x \in Handlers \ {h} :
                  (DebitDue(x)' <=> DebitDue(x)) /\ (CreditDue(x)' <=> CreditDue(x))
        BY <2>1, <2>2, <2>3 DEF DebitDue, CreditDue
      <3>2. Coming(c)' = Coming(c)
        BY <3>1 DEF Coming
      <3>3. CASE c = Sender[TxOf[h]]
        <4>1. h \in Handlers \ Leaving(c) /\ Leaving(c)' = Leaving(c) \cup {h}
          BY <2>1, <3>1, <3>3 DEF Leaving
        <4>2. balances'[c] = balances[c] - Amount[TxOf[h]]
          BY <1>1, <1>2, <2>3, <3>3, CommitMoves
        <4> QED
          BY <2>1, <3>2, <4>1, <4>2 DEF CopyStep
      <3>4. CASE c # Sender[TxOf[h]]
        <4>1. Leaving(c)' = Leaving(c)
          BY <3>1, <3>4 DEF Leaving
        <4>2. balances'[c] = balances[c]
          BY <1>1, <1>2, <2>3, <3>4, CommitMoves
        <4> QED
          BY <2>1, <3>2, <4>1, <4>2 DEF CopyStep
      <3> QED
        BY <3>3, <3>4
    <2>4. CASE m.role = "credit"
      <3>1. /\ ~CreditDue(h) /\ CreditDue(h)' /\ (DebitDue(h)' <=> DebitDue(h))
            /\ \A x \in Handlers \ {h} :
                  (DebitDue(x)' <=> DebitDue(x)) /\ (CreditDue(x)' <=> CreditDue(x))
        BY <2>1, <2>2, <2>4 DEF DebitDue, CreditDue
      <3>2. Leaving(c)' = Leaving(c)
        BY <3>1 DEF Leaving
      <3>3. CASE c = Receiver[TxOf[h]]
        <4>1. h \in Handlers \ Coming(c) /\ Coming(c)' = Coming(c) \cup {h}
          BY <2>1, <3>1, <3>3 DEF Coming
        <4>2. balances'[c] = balances[c] + Amount[TxOf[h]]
          BY <1>1, <1>2, <2>4, <3>3, CommitMoves
        <4> QED
          BY <2>1, <3>2, <4>1, <4>2 DEF CopyStep
      <3>4. CASE c # Receiver[TxOf[h]]
        <4>1. Coming(c)' = Coming(c)
          BY <3>1, <3>4 DEF Coming
        <4>2. balances'[c] = balances[c]
          BY <1>1, <1>2, <2>4, <3>4, CommitMoves
        <4> QED
          BY <2>1, <3>2, <4>1, <4>2 DEF CopyStep
      <3> QED
        BY <3>3, <3>4
    <2> QED
      BY <2>1, <2>3, <2>4 DEF Roles
  <1>3. ASSUME NEW h \in Handlers, StoreDebit(h)
        PROVE  ~raced /\ CopyStep(c)
    <2>1. ~raced /\ read[h] = gwBalance[Sender[TxOf[h]]] /\ "debit" \in applied[h]
      BY <1>3, BothApplied DEF StoreDebit, AfterCommit, Roles
    <2>2. /\ UNCHANGED <<balances, applied>>
          /\ gwBalance' = [gwBalance EXCEPT ![Sender[TxOf[h]]] = @ - Amount[TxOf[h]]]
      BY <1>3, <2>1 DEF StoreDebit, UpdateBalance, bankVars
    <2>3. /\ DebitDue(h) /\ ~DebitDue(h)' /\ (CreditDue(h)' <=> CreditDue(h))
          /\ \A x \in Handlers \ {h} :
                (DebitDue(x)' <=> DebitDue(x)) /\ (CreditDue(x)' <=> CreditDue(x))
      BY <1>3, <2>1, <2>2 DEF StoreDebit, Goto, TypeOK, DebitDue, CreditDue
    <2>4. Coming(c)' = Coming(c)
      BY <2>3 DEF Coming
    <2>5. CASE c = Sender[TxOf[h]]
      <3>1. h \in Leaving(c) /\ Leaving(c)' = Leaving(c) \ {h}
        BY <2>3, <2>5 DEF Leaving
      <3>2. gwBalance'[c] = gwBalance[c] - Amount[TxOf[h]]
        BY <1>1, <2>2, <2>5
      <3> QED
        BY <2>1, <2>2, <2>4, <3>1, <3>2 DEF CopyStep
    <2>6. CASE c # Sender[TxOf[h]]
      <3>1. Leaving(c)' = Leaving(c)
        BY <2>3, <2>6 DEF Leaving
      <3>2. gwBalance'[c] = gwBalance[c]
        BY <1>1, <2>2, <2>6
      <3> QED
        BY <2>1, <2>2, <2>4, <3>1, <3>2 DEF CopyStep
    <2> QED
      BY <2>5, <2>6
  <1>4. ASSUME NEW h \in Handlers, StoreCredit(h)
        PROVE  ~raced /\ CopyStep(c)
    <2>1. ~raced /\ read[h] = gwBalance[Receiver[TxOf[h]]] /\ "credit" \in applied[h]
      BY <1>4, BothApplied DEF StoreCredit, AfterCommit, Roles
    <2>2. /\ UNCHANGED <<balances, applied>>
          /\ gwBalance' = [gwBalance EXCEPT ![Receiver[TxOf[h]]] = @ + Amount[TxOf[h]]]
      BY <1>4, <2>1 DEF StoreCredit, UpdateBalance, bankVars
    <2>3. /\ CreditDue(h) /\ ~CreditDue(h)' /\ (DebitDue(h)' <=> DebitDue(h))
          /\ \A x \in Handlers \ {h} :
                (DebitDue(x)' <=> DebitDue(x)) /\ (CreditDue(x)' <=> CreditDue(x))
      BY <1>4, <2>1, <2>2 DEF StoreCredit, Goto, TypeOK, DebitDue, CreditDue
    <2>4. Leaving(c)' = Leaving(c)
      BY <2>3 DEF Leaving
    <2>5. CASE c = Receiver[TxOf[h]]
      <3>1. h \in Coming(c) /\ Coming(c)' = Coming(c) \ {h}
        BY <2>3, <2>5 DEF Coming
      <3>2. gwBalance'[c] = gwBalance[c] + Amount[TxOf[h]]
        BY <1>1, <2>2, <2>5
      <3> QED
        BY <2>1, <2>2, <2>4, <3>1, <3>2 DEF CopyStep
    <2>6. CASE c # Receiver[TxOf[h]]
      <3>1. Coming(c)' = Coming(c)
        BY <2>3, <2>6 DEF Coming
      <3>2. gwBalance'[c] = gwBalance[c]
        BY <1>1, <2>2, <2>6
      <3> QED
        BY <2>1, <2>2, <2>4, <3>1, <3>2 DEF CopyStep
    <2> QED
      BY <2>5, <2>6
  <1>5. ASSUME \A m \in wire : ~ServeCommit(m),
               \A h \in Handlers : ~StoreDebit(h) /\ ~StoreCredit(h)
        PROVE  ~raced /\ CopyStep(c)
    <2>1. /\ \A x \in Handlers : (DebitDue(x)' <=> DebitDue(x)) /\ (CreditDue(x)' <=> CreditDue(x))
          /\ UNCHANGED <<balances, gwBalance, raced>>
      BY <1>5, OtherSteps
    <2>2. Leaving(c)' = Leaving(c) /\ Coming(c)' = Coming(c)
      BY <2>1 DEF Leaving, Coming
    <2> QED
      BY <2>1, <2>2 DEF CopyStep
  <1> QED
    BY <1>2, <1>3, <1>4, <1>5

LEMMA KeepsCopy ==
    ASSUME TypeOK, NEW c \in Clients, CopyFollows(c), CopyStep(c)
    PROVE  CopyFollows(c)'
  <1> DEFINE L == Leaving(c)
             K == Coming(c)
  <1>1. /\ balances[c] \in Int /\ gwBalance[c] \in Int
        /\ L \in SUBSET Handlers /\ K \in SUBSET Handlers
        /\ \A h \in Handlers : Amount[TxOf[h]] \in Nat
        /\ IsFiniteSet(Money(L)) /\ IsFiniteSet(Money(K))
        /\ balances[c] = gwBalance[c] - Cardinality(Money(L)) + Cardinality(Money(K))
    BY PaymentAssumption DEF TypeOK, BankTypeOK, Leaving, Coming, CopyFollows
  <1>2. Cardinality(Money(L)) \in Nat /\ Cardinality(Money(K)) \in Nat
    BY <1>1, FS_CardinalityType
  <1>3. SUFFICES /\ IsFiniteSet(Money(L')) /\ IsFiniteSet(Money(K'))
                 /\ balances'[c] = gwBalance'[c] - Cardinality(Money(L')) + Cardinality(Money(K'))
    BY DEF CopyFollows, Money, Units
  <1> HIDE DEF L, K
  <1>4. CASE /\ L' = L /\ K' = K
             /\ balances'[c] = balances[c] /\ gwBalance'[c] = gwBalance[c]
    BY <1>1, <1>4
  <1>5. ASSUME NEW h \in Handlers \ L,
               L' = L \cup {h} /\ K' = K,
               balances'[c] = balances[c] - Amount[TxOf[h]] /\ gwBalance'[c] = gwBalance[c]
        PROVE  /\ IsFiniteSet(Money(L')) /\ IsFiniteSet(Money(K'))
               /\ balances'[c] = gwBalance'[c] - Cardinality(Money(L')) + Cardinality(Money(K'))
    <2>1. /\ IsFiniteSet(Money(L \cup {h}))
          /\ Cardinality(Money(L \cup {h})) = Cardinality(Money(L)) + Amount[TxOf[h]]
      BY <1>1, <1>5, MoneyAdded
    <2> QED
      BY <1>1, <1>2, <1>5, <2>1
  <1>6. ASSUME NEW h \in Handlers \ K,
               L' = L /\ K' = K \cup {h},
               balances'[c] = balances[c] + Amount[TxOf[h]] /\ gwBalance'[c] = gwBalance[c]
        PROVE  /\ IsFiniteSet(Money(L')) /\ IsFiniteSet(Money(K'))
               /\ balances'[c] = gwBalance'[c] - Cardinality(Money(L')) + Cardinality(Money(K'))
    <2>1. /\ IsFiniteSet(Money(K \cup {h}))
          /\ Cardinality(Money(K \cup {h})) = Cardinality(Money(K)) + Amount[TxOf[h]]
      BY <1>1, <1>6, MoneyAdded
    <2> QED
      BY <1>1, <1>2, <1>6, <2>1
  <1>7. ASSUME NEW h \in L,
               L' = L \ {h} /\ K' = K,
               balances'[c] = balances[c] /\ gwBalance'[c] = gwBalance[c] - Amount[TxOf[h]]
        PROVE  /\ IsFiniteSet(Money(L')) /\ IsFiniteSet(Money(K'))
               /\ balances'[c] = gwBalance'[c] - Cardinality(Money(L')) + Cardinality(Money(K'))
    <2>1. /\ IsFiniteSet(Money(L \ {h})) /\ Cardinality(Money(L \ {h})) \in Nat
          /\ Cardinality(Money(L)) = Cardinality(Money(L \ {h})) + Amount[TxOf[h]]
      BY <1>1, <1>7, MoneyRemoved
    <2>2. h \in Handlers
      BY <1>1, <1>7
    <2> QED
      BY <1>1, <1>2, <1>7, <2>1, <2>2
  <1>8. ASSUME NEW h \in K,
               L' = L /\ K' = K \ {h},
               balances'[c] = balances[c] /\ gwBalance'[c] = gwBalance[c] + Amount[TxOf[h]]
        PROVE  /\ IsFiniteSet(Money(L')) /\ IsFiniteSet(Money(K'))
               /\ balances'[c] = gwBalance'[c] - Cardinality(Money(L')) + Cardinality(Money(K'))
    <2>1. /\ IsFiniteSet(Money(K \ {h})) /\ Cardinality(Money(K \ {h})) \in Nat
          /\ Cardinality(Money(K)) = Cardinality(Money(K \ {h})) + Amount[TxOf[h]]
      BY <1>1, <1>8, MoneyRemoved
    <2>2. h \in Handlers
      BY <1>1, <1>8
    <2> QED
      BY <1>1, <1>2, <1>8, <2>1, <2>2
  <1> QED
    BY <1>4, <1>5, <1>6, <1>7, <1>8 DEF CopyStep, L, K

\* The file is the gateway's copy unless somebody has yet to save it.
LEMMA KeepsFile ==
    ASSUME TypeOK, CalmInv, CalmStep, LedgerInv,
           \A h \in Handlers : pc'[h] \notin {"readCredit", "storeCredit", "save"}
    PROVE  file' = gwBalance'
  <1> USE DEF TypeOK, Goto, Return, gatewayVars, counters
  <1>1. ASSUME NEW h \in Handlers, StoreDebit(h) \/ ReadCredit(h) \/ StoreCredit(h)
        PROVE  FALSE
    BY <1>1 DEF StoreDebit, ReadCredit, StoreCredit
  <1>2. ASSUME NEW h \in Handlers, SaveBalances(h)
        PROVE  file' = gwBalance'
    BY <1>2 DEF SaveBalances, WriteBalances
  <1>3. ASSUME NEW h \in Handlers,
               \/ Arrive(h) \/ Lookup(h) \/ CheckFunds(h) \/ Admit(h) \/ Register(h)
               \/ Connect(h) \/ Unreachable(h) \/ PrepareDone(h) \/ StartCommit(h)
               \/ CommitDone(h) \/ (\E role \in Roles : AbortAt(h, role)) \/ Cleanup(h)
        PROVE  /\ UNCHANGED <<file, gwBalance>>
               /\ \A x \in Handlers : pc[x] \notin {"readCredit", "storeCredit", "save"}
    BY <1>3 DEF Arrive, Lookup, CheckFunds, Admit, Register, Connect, Unreachable, PrepareDone,
                BeginAbort, StartCommit, CommitDone, AbortAt, Cleanup
  <1>4. ASSUME NEW m \in wire, ServePrepare(m) \/ ServeCommit(m)
        PROVE  UNCHANGED <<file, gwBalance, pc>>
    BY <1>4 DEF ServePrepare, ServeCommit
  <1> QED
    BY <1>1, <1>2, <1>3, <1>4 DEF CalmStep, LedgerInv

(* The gateway's copy of a balance is the bank's but for the transfers it    *)
(* has yet to follow, and the file is the copy but for one that is being     *)
(* stored (updateTwoPhaseBalances, balances.go).                             *)
THEOREM CalmLedgers ==
    ASSUME CalmRun
    PROVE  Spec => []LedgerInv
  <1>1. Init => LedgerInv
    <2> SUFFICES ASSUME Init
                 PROVE  LedgerInv
      OBVIOUS
    <2>1. ASSUME NEW c \in Clients
          PROVE  CopyFollows(c)
      <3>1. Money(Leaving(c)) = {} /\ Money(Coming(c)) = {}
        BY DEF Init, Money, Leaving, Coming, DebitDue, CreditDue
      <3>2. balances[c] = gwBalance[c] /\ gwBalance[c] \in Int
        BY BankAssumption DEF Init, BankInit
      <3>3. IsFiniteSet({}) /\ Cardinality({}) = 0
        BY FS_EmptySet
      <3> QED
        BY <3>1, <3>2, <3>3 DEF CopyFollows
    <2> QED
      BY <2>1 DEF LedgerInv, Init
  <1>2. TypeOK /\ CalmInv /\ LedgerInv /\ [Next]_vars => LedgerInv'
    <2>1. ASSUME TypeOK, CalmInv, LedgerInv, Next
          PROVE  LedgerInv'
      <3>1. CalmStep
        BY <2>1, CalmNext
      <3>2. ASSUME ~raced', NEW c \in Clients
            PROVE  CopyFollows(c)'
        BY <2>1, <3>1, <3>2, EveryCopyStep, KeepsCopy DEF LedgerInv
      <3> QED
        BY <2>1, <3>1, <3>2, KeepsFile DEF LedgerInv
    <2>2. ASSUME LedgerInv, UNCHANGED vars
          PROVE  LedgerInv'
      BY <2>2 DEF vars, bankVars, handlerVars, gatewayVars, counters, LedgerInv, CopyFollows,
                  Money, Units, Leaving, Coming, DebitDue, CreditDue
    <2> QED
      BY <2>1, <2>2
  <1> QED
    BY <1>1, <1>2, CalmInvariant, TypeCorrect, PTL DEF Spec

(* At rest the gateway's copy of the balances, the file it saves and the     *)
(* banks agree on every account, unless two handlers wrote a balance at once *)
(* (updateTwoPhaseBalances).                                                 *)
THEOREM CalmLedgersAgree ==
    ASSUME CalmRun
    PROVE  Spec => []LedgersAgree
  <1>1. TypeOK /\ LedgerInv => LedgersAgree
    <2> SUFFICES ASSUME TypeOK, LedgerInv, Quiet, ~raced
                 PROVE  gwBalance = balances /\ file = balances
      BY DEF LedgersAgree
    <2>1. ASSUME NEW c \in Clients
          PROVE  gwBalance[c] = balances[c]
      <3>1. Money(Leaving(c)) = {} /\ Money(Coming(c)) = {}
        BY DEF Quiet, Money, Leaving, Coming, DebitDue, CreditDue
      <3>2. balances[c] = gwBalance[c] - Cardinality({}) + Cardinality({}) /\ gwBalance[c] \in Int
        BY <3>1 DEF LedgerInv, CopyFollows, TypeOK
      <3>3. Cardinality({}) = 0
        BY FS_EmptySet
      <3> QED
        BY <3>2, <3>3
    <2>2. gwBalance = balances
      BY <2>1 DEF TypeOK, BankTypeOK
    <2>3. file = gwBalance
      BY DEF LedgerInv, Quiet
    <2> QED
      BY <2>2, <2>3
  <1> QED
    BY <1>1, CalmLedgers, TypeCorrect, PTL

=============================================================================
