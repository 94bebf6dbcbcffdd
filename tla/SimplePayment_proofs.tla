------------------------ MODULE SimplePayment_proofs ------------------------
(***************************************************************************)
(* Theorems about SimplePayment, for any number of calls and ids, any      *)
(* amounts and any deposit, with every fault the module has: timeouts,     *)
(* lost requests, expiring records and crashes of either side.             *)
(*                                                                         *)
(* Each property has an inductive strengthening of its own over a common   *)
(* one, CallsOK, that says which calls the bank can still answer.          *)
(***************************************************************************)
EXTENDS SimplePayment, TLAPS

\* The gateway is still on its way to the bank, or waits for its answer.
BeforeBank(k) == call[k].pc \in {"funds", "connect", "waiting"}
AtBank(k)     == call[k].pc \in {"connect", "waiting"}

CallPc == {"new", "look", "funds", "connect", "waiting", "record", "paid", "refused", "failed"}

\* What a call is made of, and which calls the bank has still to answer.
CallsOK ==
    /\ call \in [Calls -> [pc : CallPc, id : Ids \cup {NoId}, balance : Int]]
    /\ replies \in [Calls -> {"none", "yes", "no"}]
    /\ orders \subseteq Calls
    /\ \A k \in Calls : /\ IF call[k].pc = "new" THEN call[k] = New ELSE call[k].id \in Ids
                        /\ replies[k] # "none" => call[k].pc = "waiting"
                        /\ k \in orders => /\ call[k].pc \in {"waiting", "failed"}
                                           /\ replies[k] = "none"

\* No write takes a balance below nothing: what was read covers the amount, and
\* the bank says yes to positive amounts only.
ReadsCover ==
    \A k \in Calls : /\ call[k].balance \in 0 .. Deposit
                     /\ AtBank(k) => call[k].balance >= Amount[call[k].id]
                     /\ replies[k] = "yes" => Amount[call[k].id] > 0

\* Whatever the gateway may yet write is no less than what the bank has.
ReadsNotBelowBank ==
    ~reloaded =>
        \A k \in Calls : AtBank(k) =>
            /\ replies[k] # "yes" => call[k].balance >= bank
            /\ replies[k] = "yes" => call[k].balance - Amount[call[k].id] >= bank

\* Before the first payment every copy of the balance is the deposit, so that a
\* restart of the bank loses nothing.
Untouched ==
    (\A i \in Ids : paid[i] = 0) =>
        /\ gateway = Deposit /\ file = Deposit /\ bank = Deposit
        /\ \A k \in Calls : AtBank(k) => call[k].balance = Deposit

\* The calls and records that say an id has been paid are right.
Charged ==
    \A k \in Calls : replies[k] = "yes" \/ call[k].pc \in {"record", "paid"}
                        => paid[call[k].id] > 0

\* An id nothing has disturbed: one call is under way, and it has yet to reach
\* the bank, or the one charge is known to a call or to the record.
CalmId(i) ==
    /\ \A k, l \in Calls : Running(k) /\ Running(l) /\ call[k].id = i /\ call[l].id = i => k = l
    /\ \A k \in orders : call[k].id = i => call[k].pc = "waiting"
    /\ \A k \in Calls : BeforeBank(k) /\ call[k].id = i /\ replies[k] # "yes" => paid[i] = 0
    /\ paid[i] <= 1
    /\ paid[i] = 1 => \/ i \in records
                      \/ \E k \in Calls : /\ call[k].id = i
                                          /\ replies[k] = "yes" \/ call[k].pc = "record"

Calm == ~usesTwoPhase => \A i \in Ids \ disturbed : CalmId(i)

-----------------------------------------------------------------------------
(* What every step keeps of the calls.                                       *)

LEMMA CallsInit == Init => CallsOK
  BY SimplePaymentAssumption DEF Init, CallsOK, CallPc, New

LEMMA CallsStep == TypeOK /\ CallsOK /\ [Next]_vars => CallsOK'
  <1> SUFFICES ASSUME TypeOK, CallsOK, [Next]_vars PROVE CallsOK'
    OBVIOUS
  <1> USE SimplePaymentAssumption DEF CallsOK, CallPc, Running, config, storage, bankVars
  <1>1. ASSUME NEW k \in Calls, NEW i \in Ids, Arrive(k, i)
        PROVE  CallsOK'
    BY <1>1 DEF Arrive, Unary, New
  <1>2. ASSUME NEW k \in Calls, LookUp(k)
        PROVE  CallsOK'
    BY <1>2 DEF LookUp, Goto
  <1>3. ASSUME NEW k \in Calls, CheckFunds(k)
        PROVE  CallsOK'
    BY <1>3 DEF CheckFunds, Goto, TypeOK
  <1>4. ASSUME NEW k \in Calls, SendToBank(k)
        PROVE  CallsOK'
    BY <1>4 DEF SendToBank, Goto
  <1>5. ASSUME NEW k \in Calls, CallFails(k)
        PROVE  CallsOK'
    BY <1>5 DEF CallFails, Take
  <1>6. ASSUME NEW k \in Calls, Refused(k)
        PROVE  CallsOK'
    BY <1>6 DEF Refused, Take
  <1>7. ASSUME NEW k \in Calls, UpdateBalance(k)
        PROVE  CallsOK'
    BY <1>7 DEF UpdateBalance, Take
  <1>8. ASSUME NEW k \in Calls, StoreSimpleTransaction(k)
        PROVE  CallsOK'
    BY <1>8 DEF StoreSimpleTransaction, Goto
  <1>9. ASSUME NEW k \in Calls, ProcessPayment(k)
        PROVE  CallsOK'
    BY <1>9 DEF ProcessPayment, Covered
  <1>10. ASSUME NEW k \in Calls, Drop(k)
        PROVE  CallsOK'
    BY <1>10 DEF Drop
  <1>11. ASSUME NEW i \in Ids, Expire(i)
        PROVE  CallsOK'
    BY <1>11 DEF Expire
  <1>12. CASE SaveBalances
    BY <1>12 DEF SaveBalances
  <1>13. CASE RestartGateway
    BY <1>13 DEF RestartGateway
  <1>14. CASE StopBank
    BY <1>14 DEF StopBank
  <1>15. CASE StartBank
    BY <1>15 DEF StartBank
  <1>16. CASE UNCHANGED vars
    BY <1>16 DEF vars
  <1> QED
    BY <1>1, <1>2, <1>3, <1>4, <1>5, <1>6, <1>7, <1>8,
       <1>9, <1>10, <1>11, <1>12, <1>13, <1>14, <1>15, <1>16 DEF Next

-----------------------------------------------------------------------------
(* The type invariant: no balance is overdrawn.                              *)

LEMMA TypeInit == Init => TypeOK /\ ReadsCover
  <1> SUFFICES ASSUME Init PROVE TypeOK /\ ReadsCover
    OBVIOUS
  <1>1. \A k \in Calls : call[k] = New /\ replies[k] = "none"
    BY DEF Init
  <1>2. \A k \in Calls : call[k].balance = 0 /\ ~AtBank(k)
    BY <1>1 DEF AtBank, New
  <1>3. ReadsCover
    BY <1>1, <1>2, SimplePaymentAssumption DEF ReadsCover
  <1>4. roles \subseteq MethodPermissions
    BY DEF Init, MethodPermissions
  <1>5. connected \in BOOLEAN /\ bankUp \in BOOLEAN /\ reloaded \in BOOLEAN
    BY Zenon DEF Init
  <1>6. /\ usesTwoPhase \in BOOLEAN /\ served \in BOOLEAN
        /\ gateway = Deposit /\ file = Deposit /\ bank = Deposit
        /\ saves = 0 /\ records = {} /\ orders = {} /\ crashes = 0
        /\ paid = [i \in Ids |-> 0] /\ disturbed = {}
    BY Zenon DEF Init
  <1>7. \A k \in Calls : /\ call[k].id \in Ids \/ call[k] = New
                        /\ call[k].balance \in 0 .. Deposit
                        /\ replies[k] \in {"none", "yes", "no"}
    BY <1>1, <1>2, SimplePaymentAssumption
  <1>8. /\ gateway \in 0 .. Deposit /\ file \in 0 .. Deposit /\ bank \in 0 .. Deposit
        /\ saves \in Nat /\ crashes \in 0 .. MaxCrashes /\ paid \in [Ids -> Nat]
    BY <1>6, SimplePaymentAssumption
  <1>9. records \subseteq Ids /\ orders \subseteq Calls /\ disturbed \subseteq Ids
    BY <1>6
  <1>10. TypeOK
    BY <1>4, <1>5, <1>6, <1>7, <1>8, <1>9, Zenon DEF TypeOK
  <1> QED
    BY <1>3, <1>10

LEMMA TypeStep == TypeOK /\ CallsOK /\ ReadsCover /\ [Next]_vars => TypeOK' /\ ReadsCover'
  <1> SUFFICES ASSUME TypeOK, CallsOK, ReadsCover, [Next]_vars PROVE TypeOK' /\ ReadsCover'
    OBVIOUS
  <1> USE SimplePaymentAssumption
      DEF TypeOK, CallsOK, CallPc, ReadsCover, AtBank, Running, config, storage, bankVars
  <1>1. ASSUME NEW k \in Calls, NEW i \in Ids, Arrive(k, i)
        PROVE  (TypeOK /\ ReadsCover)'
    BY <1>1 DEF Arrive, Unary, New
  <1>2. ASSUME NEW k \in Calls, LookUp(k)
        PROVE  (TypeOK /\ ReadsCover)'
    BY <1>2 DEF LookUp, Goto
  <1>3. ASSUME NEW k \in Calls, CheckFunds(k)
        PROVE  (TypeOK /\ ReadsCover)'
    BY <1>3 DEF CheckFunds, Goto
  <1>4. ASSUME NEW k \in Calls, SendToBank(k)
        PROVE  (TypeOK /\ ReadsCover)'
    <2>1. /\ connected' \in BOOLEAN
          /\ UNCHANGED <<config, storage, records, bankVars, crashes, disturbed>>
      BY <1>4 DEF SendToBank
    <2>2. /\ call' = [call EXCEPT ![k].pc = call'[k].pc]
          /\ orders' \subseteq orders \cup {k} /\ UNCHANGED replies
      BY <1>4 DEF SendToBank, Goto
    <2>3. TypeOK'
      BY <1>4, <2>1, <2>2 DEF SendToBank
    <2>4. ReadsCover'
      BY <1>4 DEF SendToBank, Goto
    <2> QED
      BY <2>3, <2>4
  <1>5. ASSUME NEW k \in Calls, CallFails(k)
        PROVE  (TypeOK /\ ReadsCover)'
    BY <1>5 DEF CallFails, Take
  <1>6. ASSUME NEW k \in Calls, Refused(k)
        PROVE  (TypeOK /\ ReadsCover)'
    BY <1>6 DEF Refused, Take
  <1>7. ASSUME NEW k \in Calls, UpdateBalance(k)
        PROVE  (TypeOK /\ ReadsCover)'
    BY <1>7 DEF UpdateBalance, Take
  <1>8. ASSUME NEW k \in Calls, StoreSimpleTransaction(k)
        PROVE  (TypeOK /\ ReadsCover)'
    BY <1>8 DEF StoreSimpleTransaction, Goto
  <1>9. ASSUME NEW k \in Calls, ProcessPayment(k)
        PROVE  (TypeOK /\ ReadsCover)'
    BY <1>9 DEF ProcessPayment, Covered
  <1>10. ASSUME NEW k \in Calls, Drop(k)
        PROVE  (TypeOK /\ ReadsCover)'
    BY <1>10 DEF Drop
  <1>11. ASSUME NEW i \in Ids, Expire(i)
        PROVE  (TypeOK /\ ReadsCover)'
    BY <1>11 DEF Expire
  <1>12. CASE SaveBalances
    BY <1>12 DEF SaveBalances
  <1>13. CASE RestartGateway
    <2>1. connected' \in BOOLEAN /\ UNCHANGED <<config, file, bankVars>>
      BY <1>13 DEF RestartGateway
    <2>2. \A k \in Calls : /\ call'[k].id = call[k].id /\ call'[k].balance \in 0 .. Deposit
                           /\ call[k] = New => call'[k] = New
      BY <1>13 DEF RestartGateway, New
    <2>3. /\ gateway' = file /\ saves' = 0 /\ records' = {} /\ orders' \subseteq orders
          /\ replies' = [k \in Calls |-> "none"] /\ disturbed' = Ids
          /\ crashes < MaxCrashes /\ crashes' = crashes + 1
      BY <1>13 DEF RestartGateway
    <2>4. \A k \in Calls : call'[k].id \in Ids \/ call'[k] = New
      BY <2>2
    <2>5. \A k \in Calls : replies'[k] = "none"
      BY <2>3
    <2>6. gateway' \in 0 .. Deposit /\ saves' \in Nat /\ crashes' \in 0 .. MaxCrashes
      BY <2>3
    <2>7. orders' \subseteq Calls /\ records' \subseteq Ids /\ disturbed' \subseteq Ids
      BY <2>3
    <2>8. TypeOK'
      BY <2>1, <2>2, <2>4, <2>5, <2>6, <2>7
    <2>9. ReadsCover'
      BY <1>13 DEF RestartGateway
    <2> QED
      BY <2>8, <2>9
  <1>14. CASE StopBank
    <2>1. bankUp' \in BOOLEAN /\ orders' = {} /\ crashes < MaxCrashes /\ crashes' = crashes + 1
      BY <1>14 DEF StopBank
    <2>2. UNCHANGED <<config, storage, records, connected, bank, paid, reloaded, call, replies,
                      disturbed>>
      BY <1>14 DEF StopBank
    <2> QED
      BY <2>1, <2>2
  <1>15. CASE StartBank
    BY <1>15 DEF StartBank
  <1>16. CASE UNCHANGED vars
    BY <1>16 DEF vars
  <1> QED
    BY <1>1, <1>2, <1>3, <1>4, <1>5, <1>6, <1>7, <1>8,
       <1>9, <1>10, <1>11, <1>12, <1>13, <1>14, <1>15, <1>16 DEF Next

-----------------------------------------------------------------------------
(* A payment that is reported was charged.                                   *)

LEMMA ChargedInit == Init => Charged
  BY DEF Init, Charged, New

LEMMA ChargedStep ==
    TypeOK /\ CallsOK /\ Charged /\ SuccessMeansCharged /\ [Next]_vars
        => Charged' /\ SuccessMeansCharged'
  <1> SUFFICES ASSUME TypeOK, CallsOK, Charged, SuccessMeansCharged, [Next]_vars
               PROVE  Charged' /\ SuccessMeansCharged'
    OBVIOUS
  <1> USE SimplePaymentAssumption
      DEF TypeOK, CallsOK, CallPc, Charged, SuccessMeansCharged, Status, Running,
          config, storage, bankVars
  <1>1. ASSUME NEW k \in Calls, NEW i \in Ids, Arrive(k, i)
        PROVE  (Charged /\ SuccessMeansCharged)'
    BY <1>1 DEF Arrive, Unary
  <1>2. ASSUME NEW k \in Calls, LookUp(k)
        PROVE  (Charged /\ SuccessMeansCharged)'
    BY <1>2 DEF LookUp, Goto
  <1>3. ASSUME NEW k \in Calls, CheckFunds(k)
        PROVE  (Charged /\ SuccessMeansCharged)'
    BY <1>3 DEF CheckFunds, Goto
  <1>4. ASSUME NEW k \in Calls, SendToBank(k)
        PROVE  (Charged /\ SuccessMeansCharged)'
    BY <1>4 DEF SendToBank, Goto
  <1>5. ASSUME NEW k \in Calls, CallFails(k)
        PROVE  (Charged /\ SuccessMeansCharged)'
    BY <1>5 DEF CallFails, Take
  <1>6. ASSUME NEW k \in Calls, Refused(k)
        PROVE  (Charged /\ SuccessMeansCharged)'
    BY <1>6 DEF Refused, Take
  <1>7. ASSUME NEW k \in Calls, UpdateBalance(k)
        PROVE  (Charged /\ SuccessMeansCharged)'
    BY <1>7 DEF UpdateBalance, Take
  <1>8. ASSUME NEW k \in Calls, StoreSimpleTransaction(k)
        PROVE  (Charged /\ SuccessMeansCharged)'
    BY <1>8 DEF StoreSimpleTransaction, Goto
  <1>9. ASSUME NEW k \in Calls, ProcessPayment(k)
        PROVE  (Charged /\ SuccessMeansCharged)'
    BY <1>9 DEF ProcessPayment, Covered
  <1>10. ASSUME NEW k \in Calls, Drop(k)
        PROVE  (Charged /\ SuccessMeansCharged)'
    BY <1>10 DEF Drop
  <1>11. ASSUME NEW i \in Ids, Expire(i)
        PROVE  (Charged /\ SuccessMeansCharged)'
    BY <1>11 DEF Expire
  <1>12. CASE SaveBalances
    BY <1>12 DEF SaveBalances
  <1>13. CASE RestartGateway
    BY <1>13 DEF RestartGateway
  <1>14. CASE StopBank
    BY <1>14 DEF StopBank
  <1>15. CASE StartBank
    BY <1>15 DEF StartBank
  <1>16. CASE UNCHANGED vars
    BY <1>16 DEF vars
  <1> QED
    BY <1>1, <1>2, <1>3, <1>4, <1>5, <1>6, <1>7, <1>8,
       <1>9, <1>10, <1>11, <1>12, <1>13, <1>14, <1>15, <1>16 DEF Next

-----------------------------------------------------------------------------
(* The gateway is never below the bank.                                      *)

LEMMA UntouchedInit == Init => Untouched /\ ReadsNotBelowBank /\ GatewayNeverBelowBank
  BY SimplePaymentAssumption
  DEF Init, Untouched, ReadsNotBelowBank, GatewayNeverBelowBank, GetBalance, AtBank, New

LEMMA UntouchedStep ==
    TypeOK /\ CallsOK /\ Charged /\ Untouched /\ [Next]_vars => Untouched'
  <1> SUFFICES ASSUME TypeOK, CallsOK, Charged, Untouched, [Next]_vars
               PROVE  Untouched'
    OBVIOUS
  <1> USE SimplePaymentAssumption
      DEF TypeOK, CallsOK, CallPc, Charged, Untouched, AtBank, Running, config, storage, bankVars
  <1>1. ASSUME NEW k \in Calls, NEW i \in Ids, Arrive(k, i)
        PROVE  Untouched'
    BY <1>1 DEF Arrive, Unary
  <1>2. ASSUME NEW k \in Calls, LookUp(k)
        PROVE  Untouched'
    BY <1>2 DEF LookUp, Goto
  <1>3. ASSUME NEW k \in Calls, CheckFunds(k)
        PROVE  Untouched'
    BY <1>3 DEF CheckFunds, Goto
  <1>4. ASSUME NEW k \in Calls, SendToBank(k)
        PROVE  Untouched'
    BY <1>4 DEF SendToBank, Goto
  <1>5. ASSUME NEW k \in Calls, CallFails(k)
        PROVE  Untouched'
    BY <1>5 DEF CallFails, Take
  <1>6. ASSUME NEW k \in Calls, Refused(k)
        PROVE  Untouched'
    BY <1>6 DEF Refused, Take
  <1>7. ASSUME NEW k \in Calls, UpdateBalance(k)
        PROVE  Untouched'
    BY <1>7 DEF UpdateBalance, Take
  <1>8. ASSUME NEW k \in Calls, StoreSimpleTransaction(k)
        PROVE  Untouched'
    BY <1>8 DEF StoreSimpleTransaction, Goto
  <1>9. ASSUME NEW k \in Calls, ProcessPayment(k)
        PROVE  Untouched'
    BY <1>9 DEF ProcessPayment, Covered
  <1>10. ASSUME NEW k \in Calls, Drop(k)
        PROVE  Untouched'
    BY <1>10 DEF Drop
  <1>11. ASSUME NEW i \in Ids, Expire(i)
        PROVE  Untouched'
    BY <1>11 DEF Expire
  <1>12. CASE SaveBalances
    BY <1>12 DEF SaveBalances
  <1>13. CASE RestartGateway
    BY <1>13 DEF RestartGateway
  <1>14. CASE StopBank
    BY <1>14 DEF StopBank
  <1>15. CASE StartBank
    BY <1>15 DEF StartBank
  <1>16. CASE UNCHANGED vars
    BY <1>16 DEF vars
  <1> QED
    BY <1>1, <1>2, <1>3, <1>4, <1>5, <1>6, <1>7, <1>8,
       <1>9, <1>10, <1>11, <1>12, <1>13, <1>14, <1>15, <1>16 DEF Next

LEMMA BelowBankStep ==
    TypeOK /\ CallsOK /\ Charged /\ Untouched /\ ReadsNotBelowBank /\ GatewayNeverBelowBank
    /\ [Next]_vars
        => ReadsNotBelowBank' /\ GatewayNeverBelowBank'
  <1> SUFFICES ASSUME TypeOK, CallsOK, Charged, Untouched,
                      ReadsNotBelowBank, GatewayNeverBelowBank, [Next]_vars
               PROVE  ReadsNotBelowBank' /\ GatewayNeverBelowBank'
    OBVIOUS
  <1> USE SimplePaymentAssumption
      DEF TypeOK, CallsOK, CallPc, ReadsNotBelowBank, GatewayNeverBelowBank, GetBalance, AtBank,
          Running, config, storage, bankVars
  <1>1. ASSUME NEW k \in Calls, NEW i \in Ids, Arrive(k, i)
        PROVE  (ReadsNotBelowBank /\ GatewayNeverBelowBank)'
    BY <1>1 DEF Arrive, Unary
  <1>2. ASSUME NEW k \in Calls, LookUp(k)
        PROVE  (ReadsNotBelowBank /\ GatewayNeverBelowBank)'
    BY <1>2 DEF LookUp, Goto
  <1>3. ASSUME NEW k \in Calls, CheckFunds(k)
        PROVE  (ReadsNotBelowBank /\ GatewayNeverBelowBank)'
    BY <1>3 DEF CheckFunds, Goto
  <1>4. ASSUME NEW k \in Calls, SendToBank(k)
        PROVE  (ReadsNotBelowBank /\ GatewayNeverBelowBank)'
    BY <1>4 DEF SendToBank, Goto
  <1>5. ASSUME NEW k \in Calls, CallFails(k)
        PROVE  (ReadsNotBelowBank /\ GatewayNeverBelowBank)'
    BY <1>5 DEF CallFails, Take
  <1>6. ASSUME NEW k \in Calls, Refused(k)
        PROVE  (ReadsNotBelowBank /\ GatewayNeverBelowBank)'
    BY <1>6 DEF Refused, Take
  <1>7. ASSUME NEW k \in Calls, UpdateBalance(k)
        PROVE  (ReadsNotBelowBank /\ GatewayNeverBelowBank)'
    BY <1>7 DEF UpdateBalance, Take
  <1>8. ASSUME NEW k \in Calls, StoreSimpleTransaction(k)
        PROVE  (ReadsNotBelowBank /\ GatewayNeverBelowBank)'
    BY <1>8 DEF StoreSimpleTransaction, Goto
  <1>9. ASSUME NEW k \in Calls, ProcessPayment(k)
        PROVE  (ReadsNotBelowBank /\ GatewayNeverBelowBank)'
    BY <1>9 DEF ProcessPayment, Covered
  <1>10. ASSUME NEW k \in Calls, Drop(k)
        PROVE  (ReadsNotBelowBank /\ GatewayNeverBelowBank)'
    BY <1>10 DEF Drop
  <1>11. ASSUME NEW i \in Ids, Expire(i)
        PROVE  (ReadsNotBelowBank /\ GatewayNeverBelowBank)'
    BY <1>11 DEF Expire
  <1>12. CASE SaveBalances
    BY <1>12 DEF SaveBalances
  <1>13. CASE RestartGateway
    BY <1>13 DEF RestartGateway
  <1>14. CASE StopBank
    BY <1>14 DEF StopBank
  <1>15. CASE StartBank
    <2> SUFFICES ASSUME ~reloaded'
                 PROVE  ReadsNotBelowBank' /\ GatewayNeverBelowBank'
      OBVIOUS
    <2>1. \A i \in Ids : paid[i] = 0
      <3>1. \A i \in Ids : ~ (paid[i] > 0)
        BY <1>15, Zenon DEF StartBank
      <3> QED
        BY <3>1
    <2>2. bank' = Deposit /\ gateway = Deposit /\ file = Deposit
      BY <1>15, <2>1 DEF StartBank, Untouched
    <2>3. \A k \in Calls : replies[k] # "yes" /\ (AtBank(k) => call[k].balance = Deposit)
      BY <2>1 DEF Untouched, Charged
    <2>4. UNCHANGED <<gateway, file, call, replies>>
      BY <1>15 DEF StartBank
    <2> QED
      BY <2>2, <2>3, <2>4
  <1>16. CASE UNCHANGED vars
    BY <1>16 DEF vars
  <1> QED
    BY <1>1, <1>2, <1>3, <1>4, <1>5, <1>6, <1>7, <1>8,
       <1>9, <1>10, <1>11, <1>12, <1>13, <1>14, <1>15, <1>16 DEF Next

-----------------------------------------------------------------------------
(* A calm payment is charged once.                                           *)

LEMMA CalmInit == Init => Calm
  BY SimplePaymentAssumption DEF Init, Calm, CalmId, New, Running, BeforeBank

LEMMA CalmStep == TypeOK /\ CallsOK /\ Calm /\ [Next]_vars => Calm'
  <1> SUFFICES ASSUME TypeOK, CallsOK, Calm, [Next]_vars, ~usesTwoPhase',
                      NEW c \in Ids, c \notin disturbed'
               PROVE  CalmId(c)'
    BY DEF Calm
  <1> USE SimplePaymentAssumption
      DEF TypeOK, CallsOK, CallPc, Running, BeforeBank, config, storage, bankVars
  <1>0. CalmId(c)
    <2>1. ~usesTwoPhase
      BY DEF Next, Arrive, LookUp, CheckFunds, SendToBank, CallFails, Refused, UpdateBalance,
             StoreSimpleTransaction, ProcessPayment, Drop, Expire, SaveBalances,
             RestartGateway, StopBank, StartBank, vars
    <2>2. c \notin disturbed
      BY DEF Next, Arrive, LookUp, CheckFunds, SendToBank, CallFails, Refused, UpdateBalance,
             StoreSimpleTransaction, ProcessPayment, Drop, Expire, SaveBalances,
             RestartGateway, StopBank, StartBank, vars
    <2> QED
      BY <2>1, <2>2 DEF Calm
  <1> USE <1>0 DEF CalmId
  <1>1. ASSUME NEW k \in Calls, NEW i \in Ids, Arrive(k, i)
        PROVE  CalmId(c)'
    BY <1>1 DEF Arrive, Unary
  <1>2. ASSUME NEW k \in Calls, LookUp(k)
        PROVE  CalmId(c)'
    BY <1>2 DEF LookUp, Goto
  <1>3. ASSUME NEW k \in Calls, CheckFunds(k)
        PROVE  CalmId(c)'
    BY <1>3 DEF CheckFunds, Goto
  <1>4. ASSUME NEW k \in Calls, SendToBank(k)
        PROVE  CalmId(c)'
    BY <1>4 DEF SendToBank, Goto
  <1>5. ASSUME NEW k \in Calls, CallFails(k)
        PROVE  CalmId(c)'
    BY <1>5 DEF CallFails, Take
  <1>6. ASSUME NEW k \in Calls, Refused(k)
        PROVE  CalmId(c)'
    BY <1>6 DEF Refused, Take
  <1>7. ASSUME NEW k \in Calls, UpdateBalance(k)
        PROVE  CalmId(c)'
    BY <1>7 DEF UpdateBalance, Take
  <1>8. ASSUME NEW k \in Calls, StoreSimpleTransaction(k)
        PROVE  CalmId(c)'
    BY <1>8 DEF StoreSimpleTransaction, Goto
  <1>9. ASSUME NEW k \in Calls, ProcessPayment(k)
        PROVE  CalmId(c)'
    BY <1>9 DEF ProcessPayment, Covered
  <1>10. ASSUME NEW k \in Calls, Drop(k)
        PROVE  CalmId(c)'
    BY <1>10 DEF Drop
  <1>11. ASSUME NEW i \in Ids, Expire(i)
        PROVE  CalmId(c)'
    BY <1>11 DEF Expire
  <1>12. CASE SaveBalances
    BY <1>12 DEF SaveBalances
  <1>13. CASE RestartGateway
    BY <1>13 DEF RestartGateway
  <1>14. CASE StopBank
    BY <1>14 DEF StopBank
  <1>15. CASE StartBank
    BY <1>15 DEF StartBank
  <1>16. CASE UNCHANGED vars
    BY <1>16 DEF vars
  <1> QED
    BY <1>1, <1>2, <1>3, <1>4, <1>5, <1>6, <1>7, <1>8,
       <1>9, <1>10, <1>11, <1>12, <1>13, <1>14, <1>15, <1>16 DEF Next

-----------------------------------------------------------------------------
(* Every state is well-typed, and neither the balance of the gateway, nor    *)
(* the one in its file, nor the one of the bank is ever overdrawn or more    *)
(* than the deposit: CheckFunds compares a balance that may be old by the    *)
(* time it is lowered (processor.go, ProcessPayment and                      *)
(* processSimplePayment).                                                    *)
THEOREM TypeCorrect == Spec => [](TypeOK /\ CallsOK /\ ReadsCover)
  <1>1. Init => TypeOK /\ CallsOK /\ ReadsCover
    BY CallsInit, TypeInit
  <1>2. TypeOK /\ CallsOK /\ ReadsCover /\ [Next]_vars => (TypeOK /\ CallsOK /\ ReadsCover)'
    BY CallsStep, TypeStep
  <1> QED
    BY <1>1, <1>2, PTL DEF Spec

(* A payment the gateway reports as made, in its answer or as a status, has  *)
(* been charged by the bank, whatever timed out, expired or crashed.         *)
THEOREM NoFalseSuccess == Spec => []SuccessMeansCharged
  <1>1. Init => Charged /\ SuccessMeansCharged
    BY ChargedInit DEF Init, SuccessMeansCharged, Status, New
  <1>2. /\ TypeOK /\ CallsOK /\ Charged /\ SuccessMeansCharged
        /\ [Next]_vars
        => (Charged /\ SuccessMeansCharged)'
    BY ChargedStep
  <1> QED
    BY <1>1, <1>2, TypeCorrect, PTL DEF Spec

(* Until the bank has restarted after a payment, the gateway and its file    *)
(* never have less than the bank: an update may be lost to a concurrent one, *)
(* to a timeout or to a save that did not run, but no payment is taken off   *)
(* the gateway's balance that the bank has not taken.                        *)
THEOREM NeverBelowBank == Spec => []GatewayNeverBelowBank
  <1> DEFINE IInv == Charged /\ Untouched /\ ReadsNotBelowBank /\ GatewayNeverBelowBank
  <1>1. Init => IInv
    BY ChargedInit, UntouchedInit
  <1>2. TypeOK /\ CallsOK /\ SuccessMeansCharged /\ IInv /\ [Next]_vars => IInv'
    BY ChargedStep, UntouchedStep, BelowBankStep
  <1> QED
    BY <1>1, <1>2, TypeCorrect, NoFalseSuccess, PTL DEF Spec

(* With two-phase payments off, an id whose calls did not overlap, were all  *)
(* answered, and whose record was kept, is charged at most once: the record  *)
(* stops the retry (processor.go, the look-up of ProcessPayment).            *)
THEOREM ChargedOnceWhenCalm == Spec => []OnceWhenCalm
  <1>1. Init => Calm
    BY CalmInit
  <1>2. TypeOK /\ CallsOK /\ Calm /\ [Next]_vars => Calm'
    BY CalmStep
  <1>3. Calm => OnceWhenCalm
    BY DEF Calm, CalmId, OnceWhenCalm
  <1> QED
    BY <1>1, <1>2, <1>3, TypeCorrect, PTL DEF Spec

=============================================================================
