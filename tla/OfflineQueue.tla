---------------------------- MODULE OfflineQueue ----------------------------
(***************************************************************************)
(* The client of P3-Strife: a user who logs in and makes payments          *)
(* (client/client.go, client/auth/auth.go), the queue of payments that     *)
(* could not be sent (client/payment/manager.go), what the user is told of *)
(* them later (client/payment/notification.go), and the transaction ids    *)
(* the calls carry (client/interceptors/transaction.go).  One user.        *)
(*                                                                         *)
(* The queue is processed by the connection checker, when the gateway is   *)
(* reachable again, and by a goroutine started for a payment that is       *)
(* queued while it is reachable.  The gateway is taken at its promise (see *)
(* AtomicPayment): it executes a transaction id at most once.              *)
(***************************************************************************)
EXTENDS Integers, Sequences

CONSTANTS
    Payments,        \* what the user sets out to pay
    Kind,            \* Kind[p]: amount and receiver of p
    Checker,         \* the connection checker's thread
    Spawned,         \* goroutines started by QueuePayment
    User,            \* the thread of the console
    MaxOutages,      \* bound on times the gateway becomes unreachable
    MaxRestarts      \* bound on restarts of the client

ASSUME OfflineQueueAssumption ==
    /\ Checker \notin Spawned /\ User \notin Spawned /\ User # Checker
    /\ \A p \in Payments : p \in DOMAIN Kind
    /\ MaxOutages \in Nat /\ MaxRestarts \in Nat

VARIABLES
    online,          \* whether the gateway can be reached
    isConnected,     \* whether the client thinks so
    pendingPayments, \* the queue
    queueFile,       \* data/pending_payments.json
    counter,         \* request counter, saved with every change
    epoch,           \* how often the client was restarted: names the transactionCache
    loggedIn,        \* authenticatedUsers has the user
    notice,          \* notifications: all have the key "", so there is one
    told,            \* what the user was told of each payment
    pc,              \* what each thread does
    paying,          \* the entry a thread sends
    copied,          \* the rest of the queue as a thread copied it
    calls,           \* calls the gateway has yet to handle
    answer,          \* the answer to a thread's call
    processed,       \* transaction ids the gateway has executed
    moved,           \* history: how often each payment was executed
    accepted,        \* history: entries that were put into the queue
    announced,       \* history: requests announced as succeeded
    overlapped,      \* history: two threads processed the queue at once
    outages

queue       == <<pendingPayments, queueFile>>
session     == <<counter, epoch, loggedIn>>
clientVars  == <<isConnected, queue, session, notice, told, pc, paying, copied, answer>>
gatewayVars == <<processed, moved>>
history     == <<accepted, announced, overlapped>>
vars        == <<online, clientVars, calls, gatewayVars, history, outages>>

Threads  == Spawned \cup {Checker}
Requests == [kind : {Kind[p] : p \in Payments}, number : Nat]
Entry    == [payment : Payments, request : Requests, status : {"pending", "processing", "completed"}]
TransactionId == [request : Requests, epoch : Nat]

NoEntry == [payment |-> "none"]

\* Every variable keeps to its type (models.go); no entry is ever given up.
TypeOK ==
    /\ online \in BOOLEAN /\ isConnected \in BOOLEAN
    /\ pendingPayments \in Seq(Entry) /\ queueFile \in Seq(Entry)
    /\ counter \in Nat /\ epoch \in Nat
    /\ loggedIn \in BOOLEAN
    /\ notice \in Entry \cup {NoEntry}
    /\ told \in [Payments -> {"nothing", "calling", "success", "failure", "queued"}]
    /\ pc \in [Threads \cup {User} -> {"idle", "copy", "next", "calling", "cleanup"}]
    /\ \A s \in Threads \cup {User} : pc[s] = "calling" => paying[s] \in Entry
    /\ copied \in [Threads -> Seq(Entry)]
    /\ calls \in SUBSET [caller : Threads \cup {User}, id : TransactionId, payment : Payments]
    /\ answer \in [Threads \cup {User} -> {"none", "success", "failure", "error"}]
    /\ processed \in SUBSET TransactionId
    /\ moved \in [Payments -> Nat]
    /\ accepted \in SUBSET [payment : Payments, request : Requests]
    /\ announced \in SUBSET Requests
    /\ overlapped \in BOOLEAN
    /\ outages \in Nat

Init ==
    /\ online = TRUE
    /\ isConnected = FALSE
    /\ pendingPayments = <<>>
    /\ queueFile = <<>>
    /\ counter = 0
    /\ epoch = 0
    /\ loggedIn = FALSE
    /\ notice = NoEntry
    /\ told = [p \in Payments |-> "nothing"]
    /\ pc = [s \in Threads \cup {User} |-> "idle"]
    /\ paying = [s \in Threads \cup {User} |-> NoEntry]
    /\ copied = [s \in Threads |-> <<>>]
    /\ calls = {}
    /\ answer = [s \in Threads \cup {User} |-> "none"]
    /\ processed = {}
    /\ moved = [p \in Payments |-> 0]
    /\ accepted = {}
    /\ announced = {}
    /\ overlapped = FALSE
    /\ outages = 0

-----------------------------------------------------------------------------
Pending(entry) == entry.status = "pending"

Goto(s, place) == pc' = [pc EXCEPT ![s] = place]

\* Every change of the queue is written to its file under the same lock.
SetQueue(entries) == pendingPayments' = entries /\ queueFile' = entries

\* Mutant of IdFor: every thread makes ids of its own.
IdPerThread(s, request) ==
    [request |-> request, epoch |-> IF s = User THEN epoch ELSE MaxRestarts + 1]
\* ensureTransactionID: the id cached for client, receiver, amount and request
\* id; the cache begins empty with every start of the client.
IdFor(s, request) == [request |-> request, epoch |-> epoch]

\* A call is refused by the network at once while the gateway is out of reach.
Call(s, entry) ==
    /\ paying' = [paying EXCEPT ![s] = entry]
    /\ IF online
       THEN /\ calls' = calls \cup {[caller |-> s, id |-> IdFor(s, entry.request),
                                      payment |-> entry.payment]}
            /\ answer' = [answer EXCEPT ![s] = "none"]
       ELSE answer' = [answer EXCEPT ![s] = "error"] /\ UNCHANGED calls

\* Back from a call, with nothing left to remember of it.
Return(s, place) ==
    /\ Goto(s, place)
    /\ paying' = [paying EXCEPT ![s] = NoEntry]
    /\ answer' = [answer EXCEPT ![s] = "none"]

-----------------------------------------------------------------------------
(* Notifications.                                                          *)

AddNotification(entry) == notice' = entry

\* Mutant of UpdateNotification: whatever is settled is shown as completed.
AlwaysCompleted(status) ==
    notice' = IF notice = NoEntry THEN NoEntry ELSE [notice EXCEPT !.status = "completed"]
UpdateNotification(status) ==
    notice' = IF notice = NoEntry THEN NoEntry ELSE [notice EXCEPT !.status = status]

\* A notification is shown once; only a completed one says that money moved.
Show ==
    /\ notice # NoEntry
    /\ notice' = NoEntry
    /\ announced' = IF notice.status = "completed" THEN announced \cup {notice.request}
                    ELSE announced
    /\ UNCHANGED <<online, isConnected, queue, session, told, pc, paying, copied, answer,
                   calls, gatewayVars, accepted, overlapped, outages>>

\* Every five seconds.
CheckNotifications == Show

\* At the user's wish.
DisplayNotifications == pc[User] = "idle" /\ loggedIn /\ Show

\* The user asks for one transaction id and has only the empty one to ask for.
DisplayTransactionStatus == pc[User] = "idle" /\ loggedIn /\ Show

-----------------------------------------------------------------------------
(* The console.                                                            *)

\* A gateway that does not answer is taken for a yes.
AuthenticateUsers(correct) ==
    \/ online /\ loggedIn' = correct
    \/ loggedIn' = TRUE

\* handleClientOperations, authenticateUser.  The password that is stored is of
\* no consequence: sendPayment goes on whatever comes of it.
LogIn(correct) ==
    /\ pc[User] = "idle"
    /\ ~loggedIn
    /\ AuthenticateUsers(correct)
    /\ UNCHANGED <<online, isConnected, queue, counter, epoch, notice, told, pc, paying,
                   copied, answer, calls, gatewayVars, history, outages>>

\* GetNextRequestID; a request id is used up by IncrementCounter.
NextRequest(p) == [kind |-> Kind[p], number |-> counter]
IncrementCounter == counter' = counter + 1

\* handleMakePayment asks for a request id; it does not use it up.
MakePayment(p) ==
    /\ pc[User] = "idle"
    /\ loggedIn
    /\ told[p] = "nothing"
    /\ told' = [told EXCEPT ![p] = "calling"]
    /\ Call(User, [payment |-> p, request |-> NextRequest(p), status |-> "pending"])
    /\ Goto(User, "calling")
    /\ UNCHANGED <<online, isConnected, queue, session, notice, copied, gatewayVars, history,
                   outages>>

\* Only a payment that succeeds at once uses up its request id.
PaymentAnswered ==
    LET p == paying[User].payment
    IN /\ pc[User] = "calling"
       /\ answer[User] \in {"success", "failure"}
       /\ told' = [told EXCEPT ![p] = answer[User]]
       /\ IF answer[User] = "success" THEN IncrementCounter ELSE UNCHANGED counter
       /\ Return(User, "idle")
       /\ UNCHANGED <<online, isConnected, queue, epoch, loggedIn, notice, copied, calls,
                      gatewayVars, history, outages>>

\* An entry with the same transaction id is not queued again.  The ids read
\* back from the context of the call are all empty, so that any entry in the
\* queue is "the same"; the user is told that the payment was queued.
QueuePayment ==
    LET entry == paying[User]
    IN /\ pc[User] = "calling"
       /\ answer[User] = "error"
       /\ told' = [told EXCEPT ![entry.payment] = "queued"]
       /\ paying' = [paying EXCEPT ![User] = NoEntry]
       /\ answer' = [answer EXCEPT ![User] = "none"]
       /\ IF pendingPayments # <<>>
          THEN Goto(User, "idle") /\ UNCHANGED <<queue, notice, accepted>>
          ELSE /\ SetQueue(<<entry>>)
               /\ AddNotification(entry)
               /\ accepted' = accepted \cup {[payment |-> entry.payment, request |-> entry.request]}
               /\ IF isConnected
                  THEN \E s \in Spawned : /\ pc[s] = "idle"
                                          /\ pc' = [pc EXCEPT ![User] = "idle", ![s] = "copy"]
                  ELSE Goto(User, "idle")
       /\ UNCHANGED <<online, isConnected, session, copied, calls, gatewayVars, announced,
                      overlapped, outages>>

-----------------------------------------------------------------------------
(* Processing the queue.                                                   *)

\* Each tick of the connection checker, which waits for the processing it
\* starts before it notes that the gateway is back.
CheckConnection ==
    /\ pc[Checker] = "idle"
    /\ IF online /\ ~isConnected
       THEN Goto(Checker, "copy") /\ UNCHANGED isConnected
       ELSE isConnected' = online /\ UNCHANGED pc
    /\ UNCHANGED <<online, queue, session, notice, told, paying, copied, calls, answer,
                   gatewayVars, history, outages>>

\* Mutant of Stop: the gateway counts as reached only when the queue is empty.
StopIfEmpty(s) ==
    /\ Goto(s, "idle")
    /\ isConnected' = ((s = Checker /\ pendingPayments = <<>>) \/ isConnected)

\* processPayments is over.
Stop(s) ==
    /\ Goto(s, "idle")
    /\ isConnected' = (s = Checker \/ isConnected)

CopyQueue(s) ==
    /\ pc[s] = "copy"
    /\ copied' = [copied EXCEPT ![s] = pendingPayments]
    /\ IF pendingPayments = <<>> THEN Stop(s) ELSE Goto(s, "next") /\ UNCHANGED isConnected
    /\ overlapped' = (overlapped \/ \E r \in Threads \ {s} : pc[r] \notin {"idle", "copy"})
    /\ UNCHANGED <<online, queue, session, notice, told, paying, calls, answer, gatewayVars,
                   accepted, announced, outages>>

\* updatePaymentStatus finds an entry by its transaction id: the first.
Mark(status) ==
    IF pendingPayments = <<>> THEN UNCHANGED queue
    ELSE SetQueue([pendingPayments EXCEPT ![1].status = status])

\* Only an entry that was pending when the queue was copied is sent.
SendNext(s) ==
    LET entry == Head(copied[s])
    IN /\ pc[s] = "next"
       /\ copied[s] # <<>>
       /\ copied' = [copied EXCEPT ![s] = Tail(@)]
       /\ IF Pending(entry)
          THEN Mark("processing") /\ Call(s, entry) /\ Goto(s, "calling")
          ELSE UNCHANGED <<queue, paying, answer, calls, pc>>
       /\ UNCHANGED <<online, isConnected, session, notice, told, gatewayVars, history, outages>>

Outcome(s) == IF answer[s] = "success" THEN "completed" ELSE "pending"

\* A payment the gateway refused is pending again, like one it never got.  On
\* a connection error the rest of the queue is left alone; not every such
\* error is recognised as one.
Settle(s) ==
    /\ s \in Threads
    /\ pc[s] = "calling"
    /\ answer[s] # "none"
    /\ Mark(Outcome(s))
    /\ \/ Return(s, "next") /\ UpdateNotification(Outcome(s))
       \/ answer[s] = "error" /\ Return(s, "cleanup") /\ UNCHANGED notice
    /\ UNCHANGED <<online, isConnected, session, told, copied, calls, gatewayVars,
                   history, outages>>

Completed(entry) == entry.status = "completed"
\* Mutant of Active: an entry that is being sent is dropped as well.
OnlyPending(entry) == Pending(entry)
Active(entry) == ~Completed(entry)

\* cleanupCompletedPayments copies what is still active, in its order.
ActiveOf(entries) ==
    LET kept[i \in 0 .. Len(entries)] ==
            IF i = 0 THEN <<>>
            ELSE IF Active(entries[i]) THEN Append(kept[i - 1], entries[i])
            ELSE kept[i - 1]
    IN kept[Len(entries)]

Cleanup(s) ==
    /\ pc[s] = "cleanup" \/ (pc[s] = "next" /\ copied[s] = <<>>)
    /\ SetQueue(ActiveOf(pendingPayments))
    /\ copied' = [copied EXCEPT ![s] = <<>>]
    /\ Stop(s)
    /\ UNCHANGED <<online, session, notice, told, paying, calls, answer, gatewayVars, history,
                   outages>>

-----------------------------------------------------------------------------
(* The gateway and the network.                                            *)

\* The answer reaches the caller if it still waits for it.
Answer(c, a) ==
    answer' = IF pc[c.caller] = "calling" /\ answer[c.caller] = "none"
                 /\ paying[c.caller].payment = c.payment /\ c.id.epoch = epoch
              THEN [answer EXCEPT ![c.caller] = a] ELSE answer

\* An id that was executed is answered from the record.
GatewayServes(c) ==
    /\ c \in calls
    /\ calls' = calls \ {c}
    /\ \/ c.id \in processed /\ Answer(c, "success") /\ UNCHANGED gatewayVars
       \/ /\ c.id \notin processed
          /\ processed' = processed \cup {c.id}
          /\ moved' = [moved EXCEPT ![c.payment] = @ + 1]
          /\ Answer(c, "success")
       \/ c.id \notin processed /\ Answer(c, "failure") /\ UNCHANGED gatewayVars
    /\ UNCHANGED <<online, isConnected, queue, session, notice, told, pc, paying,
                   copied, history, outages>>

\* After PaymentTimeout the call fails; the gateway may handle it all the same.
CallTimesOut(s) ==
    /\ pc[s] = "calling"
    /\ answer[s] = "none"
    /\ answer' = [answer EXCEPT ![s] = "error"]
    /\ UNCHANGED <<online, isConnected, queue, session, notice, told, pc, paying,
                   copied, calls, gatewayVars, history, outages>>

CallLost(c) ==
    /\ c \in calls
    /\ calls' = calls \ {c}
    /\ UNCHANGED <<online, clientVars, gatewayVars, history, outages>>

GoOffline ==
    /\ online
    /\ outages < MaxOutages
    /\ online' = FALSE
    /\ outages' = outages + 1
    /\ UNCHANGED <<clientVars, calls, gatewayVars, history>>

GoOnline ==
    /\ ~online
    /\ online' = TRUE
    /\ UNCHANGED <<clientVars, calls, gatewayVars, history, outages>>

\* A file that is missing or empty is an empty queue.
LoadPendingPayments == pendingPayments' = queueFile

\* The client dies, or the user leaves, and it is started again: what is left
\* is the queue's file, the counter's file, and what the gateway does.  An
\* entry that was being sent is not announced, nor sent again.
Restart ==
    /\ epoch < MaxRestarts
    /\ epoch' = epoch + 1
    /\ LoadPendingPayments
    /\ notice' = LET open == {i \in DOMAIN queueFile : Pending(queueFile[i])}
                 IN IF open = {} THEN NoEntry
                    ELSE queueFile[CHOOSE i \in open : \A j \in open : j <= i]
    /\ isConnected' = FALSE
    /\ loggedIn' = FALSE
    /\ pc' = [s \in Threads \cup {User} |-> "idle"]
    /\ paying' = [s \in Threads \cup {User} |-> NoEntry]
    /\ copied' = [s \in Threads |-> <<>>]
    /\ answer' = [s \in Threads \cup {User} |-> "none"]
    /\ UNCHANGED <<online, queueFile, counter, told, calls, gatewayVars, history, outages>>

Next ==
    \/ \E correct \in BOOLEAN : LogIn(correct)
    \/ \E p \in Payments : MakePayment(p)
    \/ CheckNotifications \/ DisplayNotifications \/ DisplayTransactionStatus
    \/ PaymentAnswered \/ QueuePayment \/ CheckConnection
    \/ \E s \in Threads : CopyQueue(s) \/ SendNext(s) \/ Settle(s) \/ Cleanup(s)
    \/ \E c \in calls : GatewayServes(c) \/ CallLost(c)
    \/ \E s \in Threads \cup {User} : CallTimesOut(s)
    \/ GoOffline \/ GoOnline \/ Restart

\* The checker's ticker ticks, a thread goes on, and a call's context ends.
Fairness ==
    /\ WF_vars(CheckConnection)
    /\ \A s \in Threads : /\ WF_vars(CopyQueue(s)) /\ WF_vars(SendNext(s)) /\ WF_vars(Settle(s))
                          /\ WF_vars(Cleanup(s)) /\ WF_vars(CallTimesOut(s))

Spec == Init /\ [][Next]_vars /\ Fairness

-----------------------------------------------------------------------------
(* Properties.                                                             *)

\* However often a payment is retried by the user's call, the queue and the
\* network, it is executed at most once in every life of the client: the ids
\* are cached in memory (transactionCache).
OncePerCache == \A p \in Payments : moved[p] <= epoch + 1

\* A payment that was put into the queue stays there until its request has
\* been executed, crashes included, as long as no two threads process the
\* queue at once (cleanupCompletedPayments).
AcceptedIsKept ==
    ~overlapped =>
        \A a \in accepted :
            \/ \E i \in DOMAIN pendingPayments : pendingPayments[i].payment = a.payment
            \/ \E id \in processed : id.request = a.request

\* A queued payment that is announced as succeeded had its request executed, as
\* long as no two threads process the queue at once: the announcement of one
\* payment is not taken for that of another, though all have the same key
\* (UpdateNotification, checkNotifications).
AnnouncementIsTrue ==
    ~overlapped => \A request \in announced : \E id \in processed : id.request = request

\* When the gateway stays reachable the client comes to know it for good,
\* however the payments in the queue fare: processing ends, and a payment that
\* is refused, or never answered, does not hold up the checker
\* (startConnectionChecker, processPayments).
ConnectionIsNoticed == <>[]online => <>[]isConnected

\* A payment the user was told has succeeded was executed (request ids).
SuccessMeansPaid == \A p \in Payments : told[p] = "success" => moved[p] > 0
=============================================================================
