------------------------ MODULE OfflineQueue_proofs ------------------------
(***************************************************************************)
(* What the user of the Strife client may rely on, proved for every set    *)
(* of payments and goroutines and every number of outages and restarts.    *)
(* The promises are about executions and announcements, which the queue,   *)
(* the notification and the calls only refer to; the invariant therefore   *)
(* ties every copy of an entry, wherever it is, to one request per payment *)
(* and ties what a thread works on to what is in the queue.                *)
(***************************************************************************)
EXTENDS OfflineQueue, FiniteSetTheorems, SequenceTheorems, TLAPS

Callers == Threads \cup {User}

-----------------------------------------------------------------------------
(* The invariant: types first, as the proof needs them.                    *)

\* A queue of at most one entry: only an empty queue takes one.
Short(q) == q = <<>> \/ \E e \in Entry : q = <<e>>

QueueShape ==
    /\ Short(pendingPayments) /\ queueFile = pendingPayments
    /\ notice \in Entry \cup {NoEntry}

Numbers == counter \in Nat /\ epoch \in Nat /\ outages \in Nat

ThreadShape ==
    /\ pc \in [Callers -> {"idle", "copy", "next", "calling", "cleanup"}]
    /\ paying \in [Callers -> Entry \cup {NoEntry}]
    /\ \A s \in Callers : pc[s] = "calling" => paying[s] \in Entry
    /\ answer \in [Callers -> {"none", "success", "failure", "error"}]
    /\ copied \in [Threads -> Seq(Entry)]
    /\ \A s \in Threads : Short(copied[s])
    /\ \A s \in Threads : pc[s] \in {"idle", "copy", "calling"} => copied[s] = <<>>
    /\ pc[User] \in {"idle", "calling"}

Records ==
    /\ told \in [Payments -> {"nothing", "calling", "success", "failure", "queued"}]
    /\ calls \in SUBSET [caller : Callers, id : TransactionId, payment : Payments]
    /\ processed \in SUBSET TransactionId
    /\ moved \in [Payments -> Nat]
    /\ accepted \in SUBSET [payment : Payments, request : Requests]
    /\ announced \in SUBSET Requests

Fields == QueueShape /\ Numbers /\ ThreadShape /\ Records

Holds(e, p, r) == e.payment = p /\ e.request = r

\* Somewhere there is still a trace of a request r for payment p.
Uses(p, r) ==
    \/ \E c \in calls : c.payment = p /\ c.id.request = r
    \/ \E s \in Callers : pc[s] = "calling" /\ Holds(paying[s], p, r)
    \/ pendingPayments # <<>> /\ Holds(pendingPayments[1], p, r)
    \/ \E s \in Threads : copied[s] # <<>> /\ Holds(copied[s][1], p, r)
    \/ \E a \in accepted : Holds(a, p, r)

\* The lives of the client in which request r was executed.
Epochs(r) == {e \in 0 .. epoch : [request |-> r, epoch |-> e] \in processed}

\* A payment is made under one request, whoever sends it; each of its
\* executions has an id of a life of its own.
OneRequest ==
    \A p \in Payments : \E r \in Requests :
        /\ \A q \in Requests : Uses(p, q) => q = r
        /\ moved[p] <= Cardinality(Epochs(r))

CallsAreOfNow == \A c \in calls : c.id.epoch <= epoch

Untouched ==
    \A p \in Payments :
        told[p] = "nothing" => moved[p] = 0 /\ \A r \in Requests : ~Uses(p, r)

Done(r) == \E id \in processed : id.request = r

\* Whoever holds a success holds that of the payment it sent.
SuccessIsDone ==
    \A s \in Callers : pc[s] = "calling" /\ answer[s] = "success" => Done(paying[s].request)

UserPaysPending == pc[User] = "calling" => paying[User].status = "pending"

\* As long as no two threads processed the queue at once, one at most does.
OneAtWork ==
    ~overlapped =>
        \A s, r \in Threads :
            pc[s] \notin {"idle", "copy"} /\ pc[r] \notin {"idle", "copy"} => s = r

Same(e, q) == q # <<>> /\ q[1].payment = e.payment /\ q[1].request = e.request

\* What a thread works on is what is in the queue.
WorkIsQueued ==
    ~overlapped =>
        \A s \in Threads :
            /\ pc[s] = "next" /\ copied[s] # <<>> => Same(copied[s][1], pendingPayments)
            /\ pc[s] = "calling" => Same(paying[s], pendingPayments)

\* The one notification is that of the entry in the queue, if there is one.
NoticeIsQueued ==
    notice # NoEntry /\ pendingPayments # <<>> =>
        notice.request = pendingPayments[1].request

CompletedIsDone ==
    ~overlapped =>
        /\ pendingPayments # <<>> /\ pendingPayments[1].status = "completed"
               => Done(pendingPayments[1].request)
        /\ notice # NoEntry /\ notice.status = "completed" => Done(notice.request)

QueueInv ==
    /\ Fields /\ OneRequest /\ CallsAreOfNow /\ Untouched /\ SuccessIsDone
    /\ UserPaysPending /\ OneAtWork /\ WorkIsQueued /\ NoticeIsQueued /\ CompletedIsDone
    /\ AcceptedIsKept /\ AnnouncementIsTrue

-----------------------------------------------------------------------------
(* Queues of at most one entry.                                            *)

LEMMA ShortQueue ==
    ASSUME NEW q, Short(q), q # <<>>
    PROVE  /\ q \in Seq(Entry) /\ q[1] \in Entry /\ DOMAIN q = {1} /\ Len(q) = 1
           /\ Head(q) = q[1] /\ Tail(q) = <<>> /\ q = <<q[1]>>
<1>1. PICK e \in Entry : q = <<e>>
  BY DEF Short
<1>2. q \in Seq(Entry) /\ Len(q) = 1 /\ q[1] = e
  BY <1>1
<1>3. Tail(q) \in Seq(Entry) /\ Len(Tail(q)) = 0
  BY <1>2
<1>4. Tail(q) = <<>>
  BY <1>3, EmptySeq
<1>5. DOMAIN q = {1} /\ Head(q) = q[1]
  BY <1>1, <1>2
<1>6. QED
  BY <1>1, <1>2, <1>4, <1>5

LEMMA EmptyQueue == Short(<<>>) /\ DOMAIN <<>> = {} /\ <<>> \in Seq(Entry)
BY DEF Short

LEMMA EntryMarked ==
    ASSUME NEW e \in Entry, NEW status \in {"pending", "processing", "completed"}
    PROVE  LET m == [e EXCEPT !.status = status]
           IN /\ m \in Entry /\ m.payment = e.payment /\ m.request = e.request
              /\ m.status = status
BY DEF Entry

LEMMA QueueMarked ==
    ASSUME NEW q, Short(q), q # <<>>, NEW status \in {"pending", "processing", "completed"}
    PROVE  LET m == [q EXCEPT ![1].status = status]
           IN /\ Short(m) /\ m # <<>> /\ m[1].payment = q[1].payment
              /\ m[1].request = q[1].request /\ m[1].status = status
<1> DEFINE e == [q[1] EXCEPT !.status = status]
           m == [q EXCEPT ![1].status = status]
<1>1. q \in Seq(Entry) /\ DOMAIN q = {1} /\ q[1] \in Entry /\ q = <<q[1]>>
  BY ShortQueue
<1>2. m = [q EXCEPT ![1] = e]
  OBVIOUS
<1>3. e \in Entry /\ e.payment = q[1].payment /\ e.request = q[1].request /\ e.status = status
  BY <1>1, EntryMarked
<1> HIDE DEF e, m
<1>4. m = <<e>>
  BY <1>1, <1>2
<1>5. QED
  BY <1>3, <1>4 DEF Short, m

\* The loop of cleanupCompletedPayments, over a queue of at most one entry.
LEMMA ActiveOfShort ==
    ASSUME NEW q, Short(q)
    PROVE  ActiveOf(q) = IF q # <<>> /\ q[1].status = "completed" THEN <<>> ELSE q
<1> DEFINE Kept(k) == [i \in 0 .. Len(q) |->
                IF i = 0 THEN <<>>
                ELSE IF Active(q[i]) THEN Append(k[i - 1], q[i]) ELSE k[i - 1]]
           f == [i \in 0 .. Len(q) |->
                IF i = 0 THEN <<>> ELSE IF Active(q[i]) THEN <<q[i]>> ELSE <<>>]
           g == CHOOSE k : k = Kept(k)
<1>1. Len(q) \in {0, 1}
  BY DEF Short
<1>2. f = Kept(f)
  <2> SUFFICES ASSUME NEW i \in 0 .. Len(q) PROVE f[i] = Kept(f)[i]
    OBVIOUS
  <2>1. CASE i = 0
    BY <2>1
  <2>2. CASE i = 1
    <3>1. f[0] = <<>>
      BY <1>1
    <3>2. Kept(f)[i] = IF Active(q[1]) THEN Append(f[0], q[1]) ELSE f[0]
      BY <2>2
    <3>3. f[i] = IF Active(q[1]) THEN <<q[1]>> ELSE <<>>
      BY <2>2
    <3>4. Append(<<>>, q[1]) = <<q[1]>>
      OBVIOUS
    <3> QED BY <3>1, <3>2, <3>3, <3>4
  <2> QED BY <1>1, <2>1, <2>2
<1>3. g = Kept(g)
  BY <1>2
<1> HIDE DEF g
<1>4. g[Len(q)] = IF q # <<>> /\ q[1].status = "completed" THEN <<>> ELSE q
  <2>1. g[0] = <<>>
    BY <1>1, <1>3
  <2>2. CASE q = <<>>
    BY <2>1, <2>2
  <2>3. CASE q # <<>>
    <3>1. Len(q) = 1 /\ q = <<q[1]>>
      BY <2>3, ShortQueue
    <3>2. g[1] = IF Active(q[1]) THEN Append(g[0], q[1]) ELSE g[0]
      BY <1>3, <3>1
    <3> QED BY <2>1, <2>3, <3>1, <3>2 DEF Active, Completed
  <2> QED BY <2>2, <2>3
<1>5. QED
  BY <1>4 DEF ActiveOf, g
-----------------------------------------------------------------------------
(* Types are kept.                                                         *)

LEMMA UserApart ==
    /\ User \notin Threads /\ User \in Callers /\ Threads \subseteq Callers
    /\ Checker \in Threads /\ Spawned \subseteq Threads
BY OfflineQueueAssumption DEF Threads, Callers

LEMMA NewEntry ==
    ASSUME Fields, NEW p \in Payments
    PROVE  /\ NextRequest(p) \in Requests
           /\ [payment |-> p, request |-> NextRequest(p), status |-> "pending"] \in Entry
BY DEF Fields, Numbers, NextRequest, Requests, Entry

LEMMA EntryFields ==
    ASSUME NEW e \in Entry
    PROVE  e.payment \in Payments /\ e.request \in Requests
           /\ e.status \in {"pending", "processing", "completed"}
BY DEF Entry

LEMMA CallIsTyped ==
    ASSUME Fields, NEW s \in Callers, NEW e \in Entry
    PROVE  [caller |-> s, id |-> IdFor(s, e.request), payment |-> e.payment]
               \in [caller : Callers, id : TransactionId, payment : Payments]
BY EntryFields DEF Fields, Numbers, IdFor, TransactionId

\* All that a call changes, on line or off.
LEMMA CallMade ==
    ASSUME Fields, NEW s \in Callers, NEW e \in Entry, Call(s, e)
    PROVE  /\ calls' \in SUBSET [caller : Callers, id : TransactionId, payment : Payments]
           /\ answer' \in [Callers -> {"none", "success", "failure", "error"}]
           /\ paying' \in [Callers -> Entry \cup {NoEntry}]
           /\ paying'[s] = e
           /\ \A r \in Callers \ {s} : paying'[r] = paying[r]
           /\ answer'[s] \in {"none", "error"}
           /\ \A r \in Callers \ {s} : answer'[r] = answer[r]
           /\ \A c \in calls' : \/ c \in calls
                              \/ /\ c.payment = e.payment
                                 /\ c.id = [request |-> e.request, epoch |-> epoch]
<1>1. [caller |-> s, id |-> IdFor(s, e.request), payment |-> e.payment]
          \in [caller : Callers, id : TransactionId, payment : Payments]
  BY CallIsTyped
<1>2. \A c \in calls' : c \in calls \/ c = [caller |-> s, id |-> IdFor(s, e.request),
                                             payment |-> e.payment]
  BY DEF Call
<1>3. calls' \in SUBSET [caller : Callers, id : TransactionId, payment : Payments]
  BY <1>1, <1>2 DEF Fields, Records
<1>4. \A c \in calls' : \/ c \in calls
                     \/ /\ c.payment = e.payment
                        /\ c.id = [request |-> e.request, epoch |-> epoch]
  BY <1>2 DEF IdFor
<1>5. /\ answer' \in [Callers -> {"none", "success", "failure", "error"}]
      /\ answer'[s] \in {"none", "error"}
      /\ \A r \in Callers \ {s} : answer'[r] = answer[r]
  <2>1. CASE online
    BY <2>1 DEF Call, Fields, ThreadShape
  <2>2. CASE ~online
    BY <2>2 DEF Call, Fields, ThreadShape
  <2> QED BY <2>1, <2>2
<1>6. /\ paying' \in [Callers -> Entry \cup {NoEntry}] /\ paying'[s] = e
      /\ \A r \in Callers \ {s} : paying'[r] = paying[r]
  BY DEF Call, Fields, ThreadShape
<1> QED BY <1>3, <1>4, <1>5, <1>6

LEMMA MarkKeepsShape ==
    ASSUME QueueShape, NEW status \in {"pending", "processing", "completed"}, Mark(status)
    PROVE  Short(pendingPayments') /\ queueFile' = pendingPayments'
<1>1. CASE pendingPayments = <<>>
  BY <1>1 DEF QueueShape, Mark, queue
<1>2. CASE pendingPayments # <<>>
  <2>1. Short([pendingPayments EXCEPT ![1].status = status])
    BY <1>2, QueueMarked DEF QueueShape
  <2> QED BY <1>2, <2>1 DEF Mark, SetQueue
<1> QED BY <1>1, <1>2

LEMMA FieldsStep ==
    ASSUME Fields, [Next]_vars
    PROVE  Fields'
<1> USE DEF Fields
<1>1. ASSUME Show PROVE Fields'
  <2>1. QueueShape'
    BY <1>1 DEF Show, QueueShape, queue, session, gatewayVars
  <2>2. Numbers'
    BY <1>1 DEF Show, Numbers, queue, session, gatewayVars
  <2>3. ThreadShape'
    BY <1>1 DEF Show, ThreadShape, queue, session, gatewayVars
  <2>4. Records'
    BY <1>1, EntryFields DEF Show, QueueShape, Records, queue, session, gatewayVars
  <2> QED BY <2>1, <2>2, <2>3, <2>4
<1>2. ASSUME NEW correct \in BOOLEAN, LogIn(correct) PROVE Fields'
  <2>1. QueueShape'
    BY <1>2 DEF LogIn, QueueShape, queue, gatewayVars, history
  <2>2. Numbers'
    BY <1>2 DEF LogIn, Numbers, queue, gatewayVars, history
  <2>3. ThreadShape'
    BY <1>2 DEF LogIn, ThreadShape, queue, gatewayVars, history
  <2>4. Records'
    BY <1>2 DEF LogIn, Records, queue, gatewayVars, history
  <2> QED BY <2>1, <2>2, <2>3, <2>4
<1>3. ASSUME NEW p \in Payments, MakePayment(p) PROVE Fields'
  <2>1. QueueShape'
    BY <1>3, UserApart, NewEntry, CallIsTyped DEF MakePayment, Call, Goto, QueueShape, queue,
       session, gatewayVars, history
  <2>2. Numbers'
    BY <1>3, UserApart, NewEntry, CallIsTyped DEF MakePayment, Call, Goto, Numbers, queue,
       session, gatewayVars, history
  <2>3. ThreadShape'
    BY <1>3, UserApart, NewEntry, CallIsTyped DEF MakePayment, Call, Goto, ThreadShape, queue,
       session, gatewayVars, history
  <2>4. Records'
    <3>1. \A c \in calls' : c \in [caller : Callers, id : TransactionId, payment : Payments]
      BY <1>3, UserApart, NewEntry, CallMade DEF MakePayment
    <3>2. told' \in [Payments -> {"nothing", "calling", "success", "failure", "queued"}]
      BY <1>3 DEF MakePayment, Records
    <3> QED BY <1>3, <3>1, <3>2 DEF MakePayment, Records, history, gatewayVars
  <2> QED BY <2>1, <2>2, <2>3, <2>4
<1>4. ASSUME PaymentAnswered PROVE Fields'
  <2>1. QueueShape'
    BY <1>4, UserApart, EntryFields DEF PaymentAnswered, Return, Goto, IncrementCounter,
       QueueShape, queue, gatewayVars, history
  <2>2. Numbers'
    BY <1>4, UserApart, EntryFields DEF PaymentAnswered, Return, Goto, IncrementCounter, Numbers,
       queue, gatewayVars, history
  <2>3. ThreadShape'
    BY <1>4, UserApart, EntryFields DEF PaymentAnswered, Return, Goto, IncrementCounter,
       ThreadShape, queue, gatewayVars, history
  <2>4. Records'
    BY <1>4, UserApart, EntryFields DEF PaymentAnswered, Return, Goto, IncrementCounter, Records,
       queue, gatewayVars, history
  <2> QED BY <2>1, <2>2, <2>3, <2>4
<1>5. ASSUME QueuePayment PROVE Fields'
  <2>1. QueueShape'
    BY <1>5, UserApart, EntryFields, EmptyQueue, ShortQueue DEF QueuePayment, Goto, SetQueue,
       AddNotification, ThreadShape, Short, QueueShape, queue, session, gatewayVars
  <2>2. Numbers'
    BY <1>5, UserApart, EntryFields, EmptyQueue DEF QueuePayment, Goto, SetQueue,
       AddNotification, Numbers, queue, session, gatewayVars
  <2>3. ThreadShape'
    BY <1>5, UserApart, EntryFields, EmptyQueue DEF QueuePayment, Goto, SetQueue,
       AddNotification, ThreadShape, queue, session, gatewayVars
  <2>4. Records'
    BY <1>5, UserApart, EntryFields, EmptyQueue, SMTT(30) DEF QueuePayment, Goto, SetQueue,
       AddNotification, ThreadShape, Records, queue, session, gatewayVars
  <2> QED BY <2>1, <2>2, <2>3, <2>4
<1>6. ASSUME CheckConnection PROVE Fields'
  <2>1. QueueShape'
    BY <1>6, UserApart DEF CheckConnection, Goto, QueueShape, queue, session, gatewayVars,
       history
  <2>2. Numbers'
    BY <1>6, UserApart DEF CheckConnection, Goto, Numbers, queue, session, gatewayVars, history
  <2>3. ThreadShape'
    BY <1>6, UserApart DEF CheckConnection, Goto, ThreadShape, queue, session, gatewayVars,
       history
  <2>4. Records'
    BY <1>6, UserApart DEF CheckConnection, Goto, Records, queue, session, gatewayVars, history
  <2> QED BY <2>1, <2>2, <2>3, <2>4
<1>7. ASSUME NEW s \in Threads, CopyQueue(s) PROVE Fields'
  <2>1. QueueShape'
    BY <1>7, UserApart DEF CopyQueue, Goto, Stop, QueueShape, queue, session, gatewayVars
  <2>2. Numbers'
    BY <1>7, UserApart DEF CopyQueue, Goto, Stop, Numbers, queue, session, gatewayVars
  <2>3. ThreadShape'
    BY <1>7, UserApart, ShortQueue, EmptyQueue DEF CopyQueue, Goto, Stop, QueueShape,
       ThreadShape, queue, session, gatewayVars
  <2>4. Records'
    BY <1>7, UserApart DEF CopyQueue, Goto, Stop, Records, queue, session, gatewayVars
  <2> QED BY <2>1, <2>2, <2>3, <2>4
<1>8. ASSUME NEW s \in Threads, SendNext(s) PROVE Fields'
  <2> DEFINE e == Head(copied[s])
  <2>1. /\ copied[s] # <<>> /\ copied' = [copied EXCEPT ![s] = Tail(@)] /\ pc[s] = "next"
        /\ s \in Callers
    BY <1>8, UserApart DEF SendNext
  <2>2. e = copied[s][1] /\ e \in Entry /\ Tail(copied[s]) = <<>>
    BY <2>1, ShortQueue DEF ThreadShape
  <2>3. /\ copied' \in [Threads -> Seq(Entry)] /\ copied'[s] = <<>>
        /\ \A r \in Threads \ {s} : copied'[r] = copied[r]
    BY <2>1, <2>2, EmptyQueue DEF ThreadShape
  <2>4. CASE Pending(e)
    <3>1. Mark("processing") /\ Call(s, e) /\ Goto(s, "calling")
      BY <1>8, <2>4 DEF SendNext
    <3>2. QueueShape'
      BY <1>8, <3>1, MarkKeepsShape DEF QueueShape, SendNext
    <3>3. ThreadShape'
      <4>1. /\ answer' \in [Callers -> {"none", "success", "failure", "error"}]
            /\ paying' \in [Callers -> Entry \cup {NoEntry}]
            /\ paying'[s] = e
            /\ \A r \in Callers \ {s} : paying'[r] = paying[r]
        BY <2>1, <2>2, <3>1, CallMade
      <4>2. /\ pc' \in [Callers -> {"idle", "copy", "next", "calling", "cleanup"}]
            /\ pc'[s] = "calling" /\ pc'[User] = pc[User]
            /\ \A r \in Callers \ {s} : pc'[r] = pc[r]
        BY <2>1, <3>1, UserApart DEF ThreadShape, Goto
      <4>3. \A r \in Callers : pc'[r] = "calling" => paying'[r] \in Entry
        BY <2>2, <4>1, <4>2 DEF ThreadShape
      <4>4. \A r \in Threads : Short(copied'[r])
        BY <2>3, EmptyQueue DEF ThreadShape
      <4>5. \A r \in Threads : pc'[r] \in {"idle", "copy", "calling"} => copied'[r] = <<>>
        BY <2>3, <4>2, UserApart DEF ThreadShape
      <4> QED BY <2>3, <4>1, <4>2, <4>3, <4>4, <4>5 DEF ThreadShape
    <3>4. Numbers' /\ Records'
      BY <1>8, <2>1, <2>2, <3>1, CallMade DEF Records, Numbers, SendNext, history, gatewayVars,
         session
    <3> QED BY <3>2, <3>3, <3>4
  <2>5. CASE ~Pending(e)
    <3>1. UNCHANGED <<queue, paying, answer, calls, pc>>
      BY <1>8, <2>5 DEF SendNext
    <3>2. QueueShape'
      BY <1>8, <3>1 DEF QueueShape, SendNext, queue
    <3>3. ThreadShape'
      BY <2>1, <2>2, <2>3, <3>1, UserApart, EmptyQueue DEF ThreadShape
    <3>4. Numbers' /\ Records'
      BY <1>8, <3>1 DEF Records, Numbers, SendNext, history, gatewayVars, session
    <3> QED BY <3>2, <3>3, <3>4
  <2> QED BY <2>4, <2>5
<1>9. ASSUME NEW s \in Threads, Settle(s) PROVE Fields'
  <2>1. QueueShape'
    BY <1>9, UserApart, MarkKeepsShape, EntryMarked DEF Settle, Return, Goto, UpdateNotification,
       Outcome, QueueShape, queue, session, gatewayVars, history
  <2>2. Numbers'
    BY <1>9, UserApart, MarkKeepsShape DEF Settle, Return, Goto, UpdateNotification, Outcome,
       Numbers, queue, session, gatewayVars, history
  <2>3. ThreadShape'
    BY <1>9, UserApart, MarkKeepsShape DEF Settle, Return, Goto, UpdateNotification, Outcome,
       ThreadShape, queue, session, gatewayVars, history
  <2>4. Records'
    BY <1>9, UserApart, MarkKeepsShape DEF Settle, Return, Goto, UpdateNotification, Outcome,
       Records, queue, session, gatewayVars, history
  <2> QED BY <2>1, <2>2, <2>3, <2>4
<1>10. ASSUME NEW s \in Threads, Cleanup(s) PROVE Fields'
  <2>1. QueueShape'
    BY <1>10, UserApart, ActiveOfShort, EmptyQueue DEF Cleanup, SetQueue, Stop, Goto, QueueShape,
       queue, session, gatewayVars, history
  <2>2. Numbers'
    BY <1>10, UserApart, ActiveOfShort, EmptyQueue DEF Cleanup, SetQueue, Stop, Goto, Numbers,
       queue, session, gatewayVars, history
  <2>3. ThreadShape'
    BY <1>10, UserApart, ActiveOfShort, EmptyQueue DEF Cleanup, SetQueue, Stop, Goto,
       ThreadShape, queue, session, gatewayVars, history
  <2>4. Records'
    BY <1>10, UserApart, ActiveOfShort, EmptyQueue DEF Cleanup, SetQueue, Stop, Goto, Records,
       queue, session, gatewayVars, history
  <2> QED BY <2>1, <2>2, <2>3, <2>4
<1>11. ASSUME NEW c \in calls, GatewayServes(c) PROVE Fields'
  <2>1. QueueShape'
    BY <1>11, UserApart DEF GatewayServes, Answer, QueueShape, queue, session, gatewayVars,
       history
  <2>2. Numbers'
    BY <1>11, UserApart DEF GatewayServes, Answer, Numbers, queue, session, gatewayVars, history
  <2>3. ThreadShape'
    BY <1>11, UserApart DEF GatewayServes, Answer, ThreadShape, queue, session, gatewayVars,
       history
  <2>4. Records'
    BY <1>11, UserApart DEF GatewayServes, Answer, Records, queue, session, gatewayVars, history
  <2> QED BY <2>1, <2>2, <2>3, <2>4
<1>12. ASSUME NEW c \in calls, CallLost(c) PROVE Fields'
  <2>1. QueueShape'
    BY <1>12 DEF CallLost, QueueShape, clientVars, queue, session, gatewayVars, history
  <2>2. Numbers'
    BY <1>12 DEF CallLost, Numbers, clientVars, queue, session, gatewayVars, history
  <2>3. ThreadShape'
    BY <1>12 DEF CallLost, ThreadShape, clientVars, queue, session, gatewayVars, history
  <2>4. Records'
    BY <1>12 DEF CallLost, Records, clientVars, queue, session, gatewayVars, history
  <2> QED BY <2>1, <2>2, <2>3, <2>4
<1>13. ASSUME NEW s \in Callers, CallTimesOut(s) PROVE Fields'
  <2>1. QueueShape'
    BY <1>13, UserApart DEF CallTimesOut, QueueShape, queue, session, gatewayVars, history
  <2>2. Numbers'
    BY <1>13, UserApart DEF CallTimesOut, Numbers, queue, session, gatewayVars, history
  <2>3. ThreadShape'
    BY <1>13, UserApart DEF CallTimesOut, ThreadShape, queue, session, gatewayVars, history
  <2>4. Records'
    BY <1>13, UserApart DEF CallTimesOut, Records, queue, session, gatewayVars, history
  <2> QED BY <2>1, <2>2, <2>3, <2>4
<1>14. ASSUME GoOffline PROVE Fields'
  <2>1. QueueShape'
    BY <1>14 DEF GoOffline, QueueShape, clientVars, queue, session, gatewayVars, history
  <2>2. Numbers'
    BY <1>14 DEF GoOffline, Numbers, clientVars, queue, session, gatewayVars, history
  <2>3. ThreadShape'
    BY <1>14 DEF GoOffline, ThreadShape, clientVars, queue, session, gatewayVars, history
  <2>4. Records'
    BY <1>14 DEF GoOffline, Records, clientVars, queue, session, gatewayVars, history
  <2> QED BY <2>1, <2>2, <2>3, <2>4
<1>15. ASSUME GoOnline PROVE Fields'
  <2>1. QueueShape'
    BY <1>15 DEF GoOnline, QueueShape, clientVars, queue, session, gatewayVars, history
  <2>2. Numbers'
    BY <1>15 DEF GoOnline, Numbers, clientVars, queue, session, gatewayVars, history
  <2>3. ThreadShape'
    BY <1>15 DEF GoOnline, ThreadShape, clientVars, queue, session, gatewayVars, history
  <2>4. Records'
    BY <1>15 DEF GoOnline, Records, clientVars, queue, session, gatewayVars, history
  <2> QED BY <2>1, <2>2, <2>3, <2>4
<1>16. ASSUME Restart PROVE Fields'
  <2>1. QueueShape'
    BY <1>16, UserApart, ShortQueue, EmptyQueue DEF Restart, LoadPendingPayments, QueueShape,
       queue, gatewayVars, history
  <2>2. Numbers'
    BY <1>16, UserApart, ShortQueue, EmptyQueue DEF Restart, LoadPendingPayments, Numbers, queue,
       gatewayVars, history
  <2>3. ThreadShape'
    BY <1>16, UserApart, ShortQueue, EmptyQueue DEF Restart, LoadPendingPayments, Callers,
       ThreadShape, queue, gatewayVars, history
  <2>4. Records'
    BY <1>16, UserApart, ShortQueue, EmptyQueue DEF Restart, LoadPendingPayments, Records, queue,
       gatewayVars, history
  <2> QED BY <2>1, <2>2, <2>3, <2>4
<1>17. CASE UNCHANGED vars
  BY <1>17 DEF QueueShape, Numbers, ThreadShape, Records, vars, clientVars, queue, session,
     gatewayVars, history, Uses
<1> QED
  BY <1>1, <1>2, <1>3, <1>4, <1>5, <1>6, <1>7, <1>8, <1>9, <1>10, <1>11, <1>12, <1>13, <1>14,
     <1>15, <1>16, <1>17 DEF Next, CheckNotifications, DisplayNotifications,
     DisplayTransactionStatus, Callers
-----------------------------------------------------------------------------
(* What a step may do to the traces of a payment.                          *)

LEMMA MarkKeepsEntry ==
    ASSUME QueueShape, NEW status \in {"pending", "processing", "completed"}, Mark(status)
    PROVE  /\ pendingPayments' # <<>> <=> pendingPayments # <<>>
           /\ pendingPayments # <<>> =>
                 /\ pendingPayments'[1].payment = pendingPayments[1].payment
                 /\ pendingPayments'[1].request = pendingPayments[1].request
                 /\ pendingPayments'[1].status = status
<1>1. CASE pendingPayments = <<>>
  BY <1>1 DEF QueueShape, Mark, queue
<1>2. CASE pendingPayments # <<>>
  <2>1. LET m == [pendingPayments EXCEPT ![1].status = status]
        IN /\ m # <<>> /\ m[1].payment = pendingPayments[1].payment
           /\ m[1].request = pendingPayments[1].request /\ m[1].status = status
    BY <1>2, QueueMarked DEF QueueShape
  <2> QED BY <1>2, <2>1 DEF Mark, SetQueue
<1> QED BY <1>1, <1>2

LEMMA SendNextSends ==
    ASSUME Fields, NEW s \in Threads, SendNext(s)
    PROVE  /\ copied'[s] = <<>> /\ \A t \in Threads \ {s} : copied'[t] = copied[t]
           /\ pc[s] = "next" /\ copied[s] # <<>> /\ copied[s][1] \in Entry
           /\ \/ /\ Mark("processing") /\ Call(s, copied[s][1]) /\ Goto(s, "calling")
              \/ UNCHANGED <<queue, paying, answer, calls, pc>>
           /\ UNCHANGED <<online, isConnected, session, notice, told, gatewayVars, history,
                          outages>>
<1>1. /\ pc[s] = "next" /\ copied[s] # <<>> /\ copied' = [copied EXCEPT ![s] = Tail(@)]
      /\ copied \in [Threads -> Seq(Entry)] /\ Short(copied[s])
  BY DEF SendNext, Fields, ThreadShape
<1>2. Head(copied[s]) = copied[s][1] /\ Tail(copied[s]) = <<>> /\ copied[s][1] \in Entry
  BY <1>1, ShortQueue
<1>3. copied'[s] = <<>> /\ \A t \in Threads \ {s} : copied'[t] = copied[t]
  BY <1>1, <1>2
<1> QED
  BY <1>1, <1>2, <1>3 DEF SendNext

LEMMA MakePaymentCalls ==
    ASSUME Fields, NEW p \in Payments, MakePayment(p)
    PROVE  /\ paying'[User].payment = p /\ paying'[User].status = "pending"
           /\ answer'[User] # "success"
           /\ \A r \in Callers \ {User} :
                 pc'[r] = pc[r] /\ answer'[r] = answer[r] /\ paying'[r] = paying[r]
<1> DEFINE e == [payment |-> p, request |-> NextRequest(p), status |-> "pending"]
<1>1. Call(User, e) /\ Goto(User, "calling")
  BY DEF MakePayment
<1>2. e \in Entry /\ User \in Callers
  BY NewEntry, UserApart
<1> HIDE DEF e
<1>3. /\ paying'[User] = e /\ answer'[User] # "success"
      /\ \A r \in Callers \ {User} : answer'[r] = answer[r] /\ paying'[r] = paying[r]
  BY <1>1, <1>2, CallMade
<1>4. \A r \in Callers \ {User} : pc'[r] = pc[r]
  BY <1>1 DEF Goto, Fields, ThreadShape
<1>5. e.payment = p /\ e.status = "pending"
  BY DEF e
<1> QED BY <1>3, <1>4, <1>5

\* Only MakePayment brings a request into the world, for a payment not made yet.
LEMMA NoNewUse ==
    ASSUME Fields, [Next]_vars, NEW p \in Payments, NEW r \in Requests, Uses(p, r)'
    PROVE  \/ Uses(p, r)
           \/ told[p] = "nothing" /\ told'[p] = "calling" /\ r = NextRequest(p) /\ moved' = moved
<1> DEFINE goal == \/ Uses(p, r)
                   \/ /\ told[p] = "nothing" /\ told'[p] = "calling" /\ r = NextRequest(p)
                      /\ moved' = moved
<1>1. ASSUME Show PROVE goal
  BY <1>1, UserApart DEF Show, Fields, QueueShape, ThreadShape, Records, Uses, Holds, queue,
     session, gatewayVars
<1>2. ASSUME NEW correct \in BOOLEAN, LogIn(correct) PROVE goal
  BY <1>2, UserApart DEF LogIn, AuthenticateUsers, Fields, QueueShape, ThreadShape, Records,
     Uses, Holds, queue, gatewayVars, history
<1>3. ASSUME NEW q \in Payments, MakePayment(q) PROVE goal
  <2> DEFINE e == [payment |-> q, request |-> NextRequest(q), status |-> "pending"]
  <2>1. e \in Entry /\ e.payment = q /\ e.request = NextRequest(q) /\ User \in Callers
    BY NewEntry, UserApart
  <2>2. Call(User, e) /\ Goto(User, "calling")
    BY <1>3 DEF MakePayment
  <2>3. /\ paying'[User] = e
        /\ \A t \in Callers \ {User} : paying'[t] = paying[t]
        /\ \A c \in calls' : \/ c \in calls
                           \/ /\ c.payment = e.payment
                              /\ c.id = [request |-> e.request, epoch |-> epoch]
    BY <2>1, <2>2, CallMade
  <2>4. /\ told[q] = "nothing" /\ told' = [told EXCEPT ![q] = "calling"]
        /\ UNCHANGED <<pendingPayments, copied, accepted, moved>>
    BY <1>3 DEF MakePayment, queue, gatewayVars, history
  <2>5. told'[q] = "calling"
    BY <2>4 DEF Fields, Records
  <2>6. \A t \in Callers \ {User} : pc'[t] = pc[t]
    BY <2>2 DEF Goto, Fields, ThreadShape
  <2> HIDE DEF e
  <2>7. CASE p = q /\ r = NextRequest(q)
    BY <2>4, <2>5, <2>7
  <2>8. CASE ~(p = q /\ r = NextRequest(q))
    <3>1. \A c \in calls' : c.payment = p /\ c.id.request = r => c \in calls
      BY <2>1, <2>3, <2>8
    <3>2. \A t \in Callers : pc'[t] = "calling" /\ Holds(paying'[t], p, r) =>
                             pc[t] = "calling" /\ Holds(paying[t], p, r)
      BY <2>1, <2>3, <2>6, <2>8 DEF Holds
    <3> QED BY <2>4, <3>1, <3>2 DEF Uses
  <2> QED BY <2>7, <2>8
<1>4. ASSUME PaymentAnswered PROVE goal
  BY <1>4, UserApart DEF PaymentAnswered, Return, Goto, IncrementCounter, Fields, QueueShape,
     ThreadShape, Records, Uses, Holds, queue, gatewayVars, history
<1>5. ASSUME QueuePayment PROVE goal
  BY <1>5, ShortQueue, UserApart DEF QueuePayment, Goto, SetQueue, AddNotification, Fields,
     QueueShape, ThreadShape, Records, Uses, Holds, queue, session, gatewayVars
<1>6. ASSUME CheckConnection PROVE goal
  BY <1>6, UserApart DEF CheckConnection, Goto, Fields, QueueShape, ThreadShape, Records, Uses,
     Holds, queue, session, gatewayVars, history
<1>7. ASSUME NEW s \in Threads, CopyQueue(s) PROVE goal
  BY <1>7, UserApart DEF CopyQueue, Goto, Stop, Fields, QueueShape, ThreadShape, Records, Uses,
     Holds, queue, session, gatewayVars
<1>8. ASSUME NEW s \in Threads, SendNext(s) PROVE goal
  <2>1. /\ copied'[s] = <<>> /\ \A t \in Threads \ {s} : copied'[t] = copied[t]
        /\ copied[s] # <<>> /\ copied[s][1] \in Entry /\ s \in Callers
        /\ UNCHANGED accepted
    BY <1>8, SendNextSends, UserApart DEF history
  <2>2. CASE Mark("processing") /\ Call(s, copied[s][1]) /\ Goto(s, "calling")
    <3>1. /\ paying'[s] = copied[s][1]
          /\ \A t \in Callers \ {s} : paying'[t] = paying[t]
          /\ \A c \in calls' : \/ c \in calls
                             \/ /\ c.payment = copied[s][1].payment
                                /\ c.id = [request |-> copied[s][1].request, epoch |-> epoch]
      BY <2>1, <2>2, CallMade
    <3>2. \A t \in Callers \ {s} : pc'[t] = pc[t]
      BY <2>2 DEF Goto, Fields, ThreadShape
    <3>3. pendingPayments' # <<>> /\ Holds(pendingPayments'[1], p, r) =>
              pendingPayments # <<>> /\ Holds(pendingPayments[1], p, r)
      BY <2>2, MarkKeepsEntry DEF Fields, Holds
    <3> QED BY <2>1, <3>1, <3>2, <3>3 DEF Uses, Holds
  <2>3. CASE UNCHANGED <<queue, paying, answer, calls, pc>>
    BY <2>1, <2>3 DEF Uses, queue
  <2> QED BY <1>8, <2>2, <2>3, SendNextSends
<1>9. ASSUME NEW s \in Threads, Settle(s) PROVE goal
  BY <1>9, MarkKeepsEntry, UserApart DEF Settle, Return, Goto, UpdateNotification, Outcome,
     Fields, QueueShape, ThreadShape, Records, Uses, Holds, queue, session, gatewayVars, history
<1>10. ASSUME NEW s \in Threads, Cleanup(s) PROVE goal
  BY <1>10, ActiveOfShort, UserApart DEF Cleanup, SetQueue, Stop, Goto, Fields, QueueShape,
     ThreadShape, Records, Uses, Holds, queue, session, gatewayVars, history
<1>11. ASSUME NEW c \in calls, GatewayServes(c) PROVE goal
  BY <1>11, UserApart DEF GatewayServes, Answer, Fields, QueueShape, ThreadShape, Records, Uses,
     Holds, queue, session, gatewayVars, history
<1>12. ASSUME NEW c \in calls, CallLost(c) PROVE goal
  BY <1>12, UserApart DEF CallLost, Fields, QueueShape, ThreadShape, Records, Uses, Holds,
     clientVars, queue, session, gatewayVars, history
<1>13. ASSUME NEW s \in Callers, CallTimesOut(s) PROVE goal
  BY <1>13, UserApart DEF CallTimesOut, Fields, QueueShape, ThreadShape, Records, Uses, Holds,
     queue, session, gatewayVars, history
<1>14. ASSUME GoOffline PROVE goal
  BY <1>14, UserApart DEF GoOffline, Fields, QueueShape, ThreadShape, Records, Uses, Holds,
     clientVars, queue, session, gatewayVars, history
<1>15. ASSUME GoOnline PROVE goal
  BY <1>15, UserApart DEF GoOnline, Fields, QueueShape, ThreadShape, Records, Uses, Holds,
     clientVars, queue, session, gatewayVars, history
<1>16. ASSUME Restart PROVE goal
  BY <1>16, UserApart DEF Restart, LoadPendingPayments, Fields, QueueShape, ThreadShape, Records,
     Uses, Holds, queue, gatewayVars, history, Callers
<1>17. ASSUME UNCHANGED vars PROVE goal
  BY <1>17, UserApart DEF Fields, QueueShape, ThreadShape, Records, Uses, Holds, vars,
     clientVars, queue, session, gatewayVars, history
<1> QED
  BY <1>1, <1>2, <1>3, <1>4, <1>5, <1>6, <1>7, <1>8, <1>9, <1>10, <1>11, <1>12, <1>13, <1>14,
     <1>15, <1>16, <1>17 DEF Next, CheckNotifications, DisplayNotifications,
     DisplayTransactionStatus, Callers

LEMMA ToldStays ==
    ASSUME Fields, [Next]_vars, NEW p \in Payments, told'[p] = "nothing"
    PROVE  told[p] = "nothing"
<1> DEFINE goal == told[p] = "nothing"
<1>1. ASSUME Show PROVE goal
  BY <1>1, UserApart DEF Show, Fields, ThreadShape, Records, queue, session, gatewayVars
<1>2. ASSUME NEW correct \in BOOLEAN, LogIn(correct) PROVE goal
  BY <1>2, UserApart DEF LogIn, AuthenticateUsers, Fields, ThreadShape, Records, queue,
     gatewayVars, history
<1>3. ASSUME NEW q \in Payments, MakePayment(q) PROVE goal
  BY <1>3, UserApart DEF MakePayment, Goto, Fields, ThreadShape, Records, queue, session,
     gatewayVars, history
<1>4. ASSUME PaymentAnswered PROVE goal
  BY <1>4, UserApart DEF PaymentAnswered, Return, Goto, IncrementCounter, Fields, ThreadShape,
     Records, queue, gatewayVars, history
<1>5. ASSUME QueuePayment PROVE goal
  BY <1>5, UserApart DEF QueuePayment, Goto, SetQueue, AddNotification, Fields, ThreadShape,
     Records, queue, session, gatewayVars
<1>6. ASSUME CheckConnection PROVE goal
  BY <1>6, UserApart DEF CheckConnection, Goto, Fields, ThreadShape, Records, queue, session,
     gatewayVars, history
<1>7. ASSUME NEW s \in Threads, CopyQueue(s) PROVE goal
  BY <1>7, UserApart DEF CopyQueue, Goto, Stop, Fields, ThreadShape, Records, queue, session,
     gatewayVars
<1>8. ASSUME NEW s \in Threads, SendNext(s) PROVE goal
  BY <1>8, UserApart DEF SendNext, Goto, Fields, ThreadShape, Records, queue, session,
     gatewayVars, history
<1>9. ASSUME NEW s \in Threads, Settle(s) PROVE goal
  BY <1>9, UserApart DEF Settle, Return, Goto, UpdateNotification, Outcome, Fields, ThreadShape,
     Records, queue, session, gatewayVars, history
<1>10. ASSUME NEW s \in Threads, Cleanup(s) PROVE goal
  BY <1>10, UserApart DEF Cleanup, SetQueue, Stop, Goto, Fields, ThreadShape, Records, queue,
     session, gatewayVars, history
<1>11. ASSUME NEW c \in calls, GatewayServes(c) PROVE goal
  BY <1>11, UserApart DEF GatewayServes, Answer, Fields, ThreadShape, Records, queue, session,
     gatewayVars, history
<1>12. ASSUME NEW c \in calls, CallLost(c) PROVE goal
  BY <1>12, UserApart DEF CallLost, Fields, ThreadShape, Records, clientVars, queue, session,
     gatewayVars, history
<1>13. ASSUME NEW s \in Callers, CallTimesOut(s) PROVE goal
  BY <1>13, UserApart DEF CallTimesOut, Fields, ThreadShape, Records, queue, session,
     gatewayVars, history
<1>14. ASSUME GoOffline PROVE goal
  BY <1>14, UserApart DEF GoOffline, Fields, ThreadShape, Records, clientVars, queue, session,
     gatewayVars, history
<1>15. ASSUME GoOnline PROVE goal
  BY <1>15, UserApart DEF GoOnline, Fields, ThreadShape, Records, clientVars, queue, session,
     gatewayVars, history
<1>16. ASSUME Restart PROVE goal
  BY <1>16, UserApart DEF Restart, LoadPendingPayments, Fields, ThreadShape, Records, queue,
     gatewayVars, history
<1>17. ASSUME UNCHANGED vars PROVE goal
  BY <1>17, UserApart DEF Fields, ThreadShape, Records, vars, clientVars, queue, session,
     gatewayVars, history
<1> QED
  BY <1>1, <1>2, <1>3, <1>4, <1>5, <1>6, <1>7, <1>8, <1>9, <1>10, <1>11, <1>12, <1>13, <1>14,
     <1>15, <1>16, <1>17 DEF Next, CheckNotifications, DisplayNotifications,
     DisplayTransactionStatus, Callers

\* What is executed stays executed, and the client grows older.
LEMMA DoneStays ==
    ASSUME Fields, [Next]_vars
    PROVE  processed \subseteq processed' /\ epoch <= epoch' /\ (~overlapped' => ~overlapped)
<1> DEFINE goal == /\ processed \subseteq processed' /\ epoch <= epoch'
                   /\ (~overlapped' => ~overlapped)
<1>1. ASSUME Show PROVE goal
  BY <1>1 DEF Show, Fields, Numbers, queue, session, gatewayVars
<1>2. ASSUME NEW correct \in BOOLEAN, LogIn(correct) PROVE goal
  BY <1>2 DEF LogIn, AuthenticateUsers, Fields, Numbers, queue, gatewayVars, history
<1>3. ASSUME NEW p \in Payments, MakePayment(p) PROVE goal
  BY <1>3 DEF MakePayment, Goto, Fields, Numbers, queue, session, gatewayVars, history
<1>4. ASSUME PaymentAnswered PROVE goal
  BY <1>4 DEF PaymentAnswered, Return, Goto, IncrementCounter, Fields, Numbers, queue,
     gatewayVars, history
<1>5. ASSUME QueuePayment PROVE goal
  BY <1>5 DEF QueuePayment, Goto, SetQueue, AddNotification, Fields, Numbers, queue, session,
     gatewayVars
<1>6. ASSUME CheckConnection PROVE goal
  BY <1>6 DEF CheckConnection, Goto, Fields, Numbers, queue, session, gatewayVars, history
<1>7. ASSUME NEW s \in Threads, CopyQueue(s) PROVE goal
  <2>1. ~overlapped' => ~overlapped
    BY <1>7 DEF CopyQueue
  <2>2. UNCHANGED <<processed, epoch>>
    BY <1>7 DEF CopyQueue, gatewayVars, session
  <2> QED BY <2>1, <2>2 DEF Fields, Numbers
<1>8. ASSUME NEW s \in Threads, SendNext(s) PROVE goal
  BY <1>8 DEF SendNext, Goto, Fields, Numbers, queue, session, gatewayVars, history
<1>9. ASSUME NEW s \in Threads, Settle(s) PROVE goal
  BY <1>9 DEF Settle, Return, Goto, UpdateNotification, Outcome, Fields, Numbers, queue, session,
     gatewayVars, history
<1>10. ASSUME NEW s \in Threads, Cleanup(s) PROVE goal
  BY <1>10 DEF Cleanup, SetQueue, Stop, Goto, Fields, Numbers, queue, session, gatewayVars,
     history
<1>11. ASSUME NEW c \in calls, GatewayServes(c) PROVE goal
  BY <1>11 DEF GatewayServes, Answer, Fields, Numbers, queue, session, gatewayVars, history
<1>12. ASSUME NEW c \in calls, CallLost(c) PROVE goal
  BY <1>12 DEF CallLost, Fields, Numbers, clientVars, queue, session, gatewayVars, history
<1>13. ASSUME NEW s \in Callers, CallTimesOut(s) PROVE goal
  BY <1>13 DEF CallTimesOut, Fields, Numbers, queue, session, gatewayVars, history
<1>14. ASSUME GoOffline PROVE goal
  BY <1>14 DEF GoOffline, Fields, Numbers, clientVars, queue, session, gatewayVars, history
<1>15. ASSUME GoOnline PROVE goal
  BY <1>15 DEF GoOnline, Fields, Numbers, clientVars, queue, session, gatewayVars, history
<1>16. ASSUME Restart PROVE goal
  BY <1>16 DEF Restart, LoadPendingPayments, Fields, Numbers, queue, gatewayVars, history
<1>17. ASSUME UNCHANGED vars PROVE goal
  BY <1>17 DEF Fields, Numbers, vars, clientVars, queue, session, gatewayVars, history
<1> QED
  BY <1>1, <1>2, <1>3, <1>4, <1>5, <1>6, <1>7, <1>8, <1>9, <1>10, <1>11, <1>12, <1>13, <1>14,
     <1>15, <1>16, <1>17 DEF Next, CheckNotifications, DisplayNotifications,
     DisplayTransactionStatus, Callers

\* Money moves by the execution of an id that was not executed before.
LEMMA MovedOnce ==
    ASSUME Fields, [Next]_vars, NEW p \in Payments
    PROVE  \/ moved'[p] = moved[p]
           \/ \E c \in calls : /\ c.payment = p /\ c.id \notin processed
                             /\ processed' = processed \cup {c.id}
                             /\ moved'[p] = moved[p] + 1 /\ epoch' = epoch /\ UNCHANGED told
<1> DEFINE goal == \/ moved'[p] = moved[p]
                   \/ \E c \in calls : /\ c.payment = p /\ c.id \notin processed
                                     /\ processed' = processed \cup {c.id}
                                     /\ moved'[p] = moved[p] + 1 /\ epoch' = epoch
                                     /\ UNCHANGED told
<1>1. ASSUME Show PROVE goal
  BY <1>1 DEF Show, Fields, Records, queue, session, gatewayVars
<1>2. ASSUME NEW correct \in BOOLEAN, LogIn(correct) PROVE goal
  BY <1>2 DEF LogIn, AuthenticateUsers, Fields, Records, queue, gatewayVars, history
<1>3. ASSUME NEW q \in Payments, MakePayment(q) PROVE goal
  BY <1>3 DEF MakePayment, Goto, Fields, Records, queue, session, gatewayVars, history
<1>4. ASSUME PaymentAnswered PROVE goal
  BY <1>4 DEF PaymentAnswered, Return, Goto, IncrementCounter, Fields, Records, queue,
     gatewayVars, history
<1>5. ASSUME QueuePayment PROVE goal
  BY <1>5 DEF QueuePayment, Goto, SetQueue, AddNotification, Fields, Records, queue, session,
     gatewayVars
<1>6. ASSUME CheckConnection PROVE goal
  BY <1>6 DEF CheckConnection, Goto, Fields, Records, queue, session, gatewayVars, history
<1>7. ASSUME NEW s \in Threads, CopyQueue(s) PROVE goal
  BY <1>7 DEF CopyQueue, Goto, Stop, Fields, Records, queue, session, gatewayVars
<1>8. ASSUME NEW s \in Threads, SendNext(s) PROVE goal
  BY <1>8 DEF SendNext, Goto, Fields, Records, queue, session, gatewayVars, history
<1>9. ASSUME NEW s \in Threads, Settle(s) PROVE goal
  BY <1>9 DEF Settle, Return, Goto, UpdateNotification, Outcome, Fields, Records, queue, session,
     gatewayVars, history
<1>10. ASSUME NEW s \in Threads, Cleanup(s) PROVE goal
  BY <1>10 DEF Cleanup, SetQueue, Stop, Goto, Fields, Records, queue, session, gatewayVars,
     history
<1>11. ASSUME NEW c \in calls, GatewayServes(c) PROVE goal
  BY <1>11 DEF GatewayServes, Answer, Fields, Records, queue, session, gatewayVars, history
<1>12. ASSUME NEW c \in calls, CallLost(c) PROVE goal
  BY <1>12 DEF CallLost, Fields, Records, clientVars, queue, session, gatewayVars, history
<1>13. ASSUME NEW s \in Callers, CallTimesOut(s) PROVE goal
  BY <1>13 DEF CallTimesOut, Fields, Records, queue, session, gatewayVars, history
<1>14. ASSUME GoOffline PROVE goal
  BY <1>14 DEF GoOffline, Fields, Records, clientVars, queue, session, gatewayVars, history
<1>15. ASSUME GoOnline PROVE goal
  BY <1>15 DEF GoOnline, Fields, Records, clientVars, queue, session, gatewayVars, history
<1>16. ASSUME Restart PROVE goal
  BY <1>16 DEF Restart, LoadPendingPayments, Fields, Records, queue, gatewayVars, history
<1>17. ASSUME UNCHANGED vars PROVE goal
  BY <1>17 DEF Fields, Records, vars, clientVars, queue, session, gatewayVars, history
<1> QED
  BY <1>1, <1>2, <1>3, <1>4, <1>5, <1>6, <1>7, <1>8, <1>9, <1>10, <1>11, <1>12, <1>13, <1>14,
     <1>15, <1>16, <1>17 DEF Next, CheckNotifications, DisplayNotifications,
     DisplayTransactionStatus, Callers

LEMMA CallsAreOfNowStep ==
    ASSUME Fields, [Next]_vars, CallsAreOfNow
    PROVE  CallsAreOfNow'
<1>1. ASSUME Show PROVE CallsAreOfNow'
  BY <1>1 DEF Show, CallsAreOfNow, queue, session, gatewayVars
<1>2. ASSUME NEW correct \in BOOLEAN, LogIn(correct) PROVE CallsAreOfNow'
  BY <1>2 DEF LogIn, AuthenticateUsers, CallsAreOfNow, queue, gatewayVars, history
<1>3. ASSUME NEW p \in Payments, MakePayment(p) PROVE CallsAreOfNow'
  <2>1. /\ Call(User, [payment |-> p, request |-> NextRequest(p), status |-> "pending"])
        /\ UNCHANGED epoch
    BY <1>3 DEF MakePayment, session
  <2>2. \A c \in calls' : c \in calls \/ c.id = [request |-> NextRequest(p), epoch |-> epoch]
    <3> DEFINE e == [payment |-> p, request |-> NextRequest(p), status |-> "pending"]
    <3>1. e \in Entry /\ e.request = NextRequest(p)
      BY NewEntry
    <3> HIDE DEF e
    <3>2. Call(User, e)
      BY <2>1 DEF e
    <3> QED BY <3>1, <3>2, CallMade, UserApart
  <2> QED BY <2>1, <2>2 DEF CallsAreOfNow, Fields, Numbers
<1>4. ASSUME PaymentAnswered PROVE CallsAreOfNow'
  BY <1>4 DEF PaymentAnswered, Return, Goto, IncrementCounter, CallsAreOfNow, queue, gatewayVars,
     history
<1>5. ASSUME QueuePayment PROVE CallsAreOfNow'
  BY <1>5 DEF QueuePayment, Goto, SetQueue, AddNotification, CallsAreOfNow, queue, session,
     gatewayVars
<1>6. ASSUME CheckConnection PROVE CallsAreOfNow'
  BY <1>6 DEF CheckConnection, Goto, CallsAreOfNow, queue, session, gatewayVars, history
<1>7. ASSUME NEW s \in Threads, CopyQueue(s) PROVE CallsAreOfNow'
  BY <1>7 DEF CopyQueue, Goto, Stop, CallsAreOfNow, queue, session, gatewayVars
<1>8. ASSUME NEW s \in Threads, SendNext(s) PROVE CallsAreOfNow'
  <2>1. /\ copied[s][1] \in Entry /\ UNCHANGED epoch
        /\ Call(s, copied[s][1]) \/ UNCHANGED calls
    BY <1>8, SendNextSends DEF session
  <2>2. \A c \in calls' : \/ c \in calls
                     \/ c.id = [request |-> copied[s][1].request, epoch |-> epoch]
    <3>1. CASE Call(s, copied[s][1])
      BY <2>1, <3>1, CallMade, UserApart
    <3> QED BY <2>1, <3>1
  <2> QED BY <2>1, <2>2 DEF CallsAreOfNow, Fields, Numbers
<1>9. ASSUME NEW s \in Threads, Settle(s) PROVE CallsAreOfNow'
  BY <1>9 DEF Settle, Return, Goto, UpdateNotification, Outcome, CallsAreOfNow, queue, session,
     gatewayVars, history
<1>10. ASSUME NEW s \in Threads, Cleanup(s) PROVE CallsAreOfNow'
  BY <1>10 DEF Cleanup, SetQueue, Stop, Goto, CallsAreOfNow, queue, session, gatewayVars, history
<1>11. ASSUME NEW c \in calls, GatewayServes(c) PROVE CallsAreOfNow'
  BY <1>11 DEF GatewayServes, Answer, CallsAreOfNow, queue, session, gatewayVars, history
<1>12. ASSUME NEW c \in calls, CallLost(c) PROVE CallsAreOfNow'
  BY <1>12 DEF CallLost, CallsAreOfNow, clientVars, queue, session, gatewayVars, history
<1>13. ASSUME NEW s \in Callers, CallTimesOut(s) PROVE CallsAreOfNow'
  BY <1>13 DEF CallTimesOut, CallsAreOfNow, queue, session, gatewayVars, history
<1>14. ASSUME GoOffline PROVE CallsAreOfNow'
  BY <1>14 DEF GoOffline, CallsAreOfNow, clientVars, queue, session, gatewayVars, history
<1>15. ASSUME GoOnline PROVE CallsAreOfNow'
  BY <1>15 DEF GoOnline, CallsAreOfNow, clientVars, queue, session, gatewayVars, history
<1>16. ASSUME Restart PROVE CallsAreOfNow'
  <2>1. epoch' = epoch + 1 /\ UNCHANGED calls
    BY <1>16 DEF Restart
  <2> QED BY <2>1 DEF CallsAreOfNow, Fields, Numbers, Records, TransactionId
<1>17. ASSUME UNCHANGED vars PROVE CallsAreOfNow'
  BY <1>17 DEF CallsAreOfNow, vars, clientVars, queue, session, gatewayVars, history
<1> QED
  BY <1>1, <1>2, <1>3, <1>4, <1>5, <1>6, <1>7, <1>8, <1>9, <1>10, <1>11, <1>12, <1>13, <1>14,
     <1>15, <1>16, <1>17 DEF Next, CheckNotifications, DisplayNotifications,
     DisplayTransactionStatus, Callers

LEMMA UntouchedStep ==
    ASSUME Fields, [Next]_vars, Untouched
    PROVE  Untouched'
<1> SUFFICES ASSUME NEW p \in Payments, told'[p] = "nothing"
             PROVE  moved'[p] = 0 /\ \A r \in Requests : ~Uses(p, r)'
  BY DEF Untouched
<1>1. told[p] = "nothing"
  BY ToldStays
<1>2. moved[p] = 0 /\ \A r \in Requests : ~Uses(p, r)
  BY <1>1 DEF Untouched
<1>3. \A r \in Requests : ~Uses(p, r)'
  BY <1>2, NoNewUse
<1>4. ASSUME NEW c \in calls PROVE c.payment # p
  BY <1>2, <1>4 DEF Uses, Fields, Records, TransactionId
<1> QED BY <1>2, <1>3, <1>4, MovedOnce

LEMMA SetOfEpochs ==
    ASSUME NEW n \in Nat, NEW E \in SUBSET (0 .. n)
    PROVE  IsFiniteSet(E) /\ Cardinality(E) \in Nat /\ Cardinality(E) <= n + 1
<1>1. IsFiniteSet(0 .. n) /\ Cardinality(0 .. n) = n + 1
  BY FS_Interval
<1>2. IsFiniteSet(E) /\ Cardinality(E) <= Cardinality(0 .. n)
  BY <1>1, FS_Subset
<1>3. Cardinality(E) \in Nat
  BY <1>2, FS_CardinalityType
<1> QED BY <1>1, <1>2, <1>3

LEMMA OneRequestStep ==
    ASSUME Fields, [Next]_vars, OneRequest, Untouched, CallsAreOfNow
    PROVE  OneRequest'
<1> SUFFICES ASSUME NEW p \in Payments
             PROVE  \E r \in Requests : /\ \A q \in Requests : Uses(p, q)' => q = r
                                       /\ moved'[p] <= Cardinality(Epochs(r)')
  BY DEF OneRequest
<1>0. Fields'
  BY FieldsStep
<1>1. PICK r \in Requests : /\ \A q \in Requests : Uses(p, q) => q = r
                           /\ moved[p] <= Cardinality(Epochs(r))
  BY DEF OneRequest
<1>2. \A q : /\ IsFiniteSet(Epochs(q)) /\ Cardinality(Epochs(q)) \in Nat
             /\ IsFiniteSet(Epochs(q)') /\ Cardinality(Epochs(q)') \in Nat
  <2>1. epoch \in Nat /\ epoch' \in Nat
    BY <1>0 DEF Fields, Numbers
  <2>2. \A q : Epochs(q) \in SUBSET (0 .. epoch) /\ Epochs(q)' \in SUBSET (0 .. epoch')
    BY DEF Epochs
  <2> QED BY <2>1, <2>2, SetOfEpochs
<1>3. CASE \E q \in Requests : Uses(p, q)' /\ ~Uses(p, q)
  <2>1. PICK q \in Requests : Uses(p, q)' /\ ~Uses(p, q)
    BY <1>3
  <2>2. told[p] = "nothing" /\ q = NextRequest(p) /\ moved' = moved
    BY <2>1, NoNewUse
  <2>3. moved[p] = 0 /\ \A t \in Requests : ~Uses(p, t)
    BY <2>2 DEF Untouched
  <2>4. \A t \in Requests : Uses(p, t)' => t = q
    BY <2>2, <2>3, NoNewUse
  <2>5. moved'[p] <= Cardinality(Epochs(q)')
    BY <1>2, <2>2, <2>3
  <2> QED BY <2>4, <2>5
<1>4. CASE ~\E q \in Requests : Uses(p, q)' /\ ~Uses(p, q)
  <2>1. \A q \in Requests : Uses(p, q)' => q = r
    BY <1>1, <1>4
  <2>2. Epochs(r) \subseteq Epochs(r)'
    <3>1. processed \subseteq processed' /\ epoch <= epoch' /\ epoch \in Nat /\ epoch' \in Nat
      BY <1>0, DoneStays DEF Fields, Numbers
    <3> QED BY <3>1 DEF Epochs
  <2>3. Cardinality(Epochs(r)) <= Cardinality(Epochs(r)')
    BY <1>2, <2>2, FS_Subset
  <2>4. moved'[p] <= Cardinality(Epochs(r)')
    <3>1. CASE moved'[p] = moved[p]
      BY <1>1, <1>2, <2>3, <3>1 DEF Fields, Records
    <3>2. CASE \E c \in calls : /\ c.payment = p /\ c.id \notin processed
                             /\ processed' = processed \cup {c.id}
                             /\ moved'[p] = moved[p] + 1 /\ epoch' = epoch /\ UNCHANGED told
      <4>1. PICK c \in calls : /\ c.payment = p /\ c.id \notin processed
                             /\ processed' = processed \cup {c.id}
                             /\ moved'[p] = moved[p] + 1 /\ epoch' = epoch
        BY <3>2
      <4>2. c.id \in TransactionId /\ c.id.request \in Requests /\ c.id.epoch \in Nat
            /\ c.id.epoch <= epoch /\ epoch \in Nat
            /\ c.id = [request |-> c.id.request, epoch |-> c.id.epoch]
        BY DEF Fields, Numbers, Records, TransactionId, CallsAreOfNow
      <4>3. c.id.request = r
        BY <1>1, <4>1, <4>2 DEF Uses
      <4>4. c.id.epoch \notin Epochs(r) /\ c.id.epoch \in Epochs(r)'
        BY <4>1, <4>2, <4>3 DEF Epochs
      <4>5. Cardinality(Epochs(r) \cup {c.id.epoch}) = Cardinality(Epochs(r)) + 1
        BY <1>2, <4>4, FS_AddElement
      <4>6. Epochs(r) \cup {c.id.epoch} \subseteq Epochs(r)'
        BY <2>2, <4>4
      <4>7. Cardinality(Epochs(r) \cup {c.id.epoch}) <= Cardinality(Epochs(r)')
        BY <1>2, <4>6, FS_Subset
      <4> QED BY <1>1, <1>2, <4>1, <4>5, <4>7 DEF Fields, Records
    <3> QED BY <3>1, <3>2, MovedOnce
  <2> QED BY <2>1, <2>4
<1> QED BY <1>3, <1>4

-----------------------------------------------------------------------------
(* One lemma for each part of the invariant.                               *)

LEMMA SuccessIsDoneStep ==
    ASSUME Fields, [Next]_vars, OneRequest, SuccessIsDone
    PROVE  SuccessIsDone'
<1> SUFFICES ASSUME NEW t \in Callers, pc'[t] = "calling", answer'[t] = "success"
             PROVE  \E id \in processed' : id.request = paying'[t].request
  BY DEF SuccessIsDone, Done
<1> DEFINE goal == \/ pc[t] = "calling" /\ answer[t] = "success" /\ paying'[t] = paying[t]
                   \/ /\ pc[t] = "calling" /\ paying'[t] = paying[t]
                      /\ \E c \in calls : c.payment = paying[t].payment /\ c.id \in processed'
<1>1. ASSUME Show PROVE goal
  BY <1>1, UserApart DEF Show, Fields, ThreadShape, Records, queue, session, gatewayVars
<1>2. ASSUME NEW correct \in BOOLEAN, LogIn(correct) PROVE goal
  BY <1>2, UserApart DEF LogIn, AuthenticateUsers, Fields, ThreadShape, Records, queue,
     gatewayVars, history
<1>3. ASSUME NEW p \in Payments, MakePayment(p) PROVE goal
  <2> QED BY <1>3, MakePaymentCalls
<1>4. ASSUME PaymentAnswered PROVE goal
  BY <1>4, UserApart DEF PaymentAnswered, Return, Goto, IncrementCounter, Fields, ThreadShape,
     Records, queue, gatewayVars, history
<1>5. ASSUME QueuePayment PROVE goal
  BY <1>5, UserApart DEF QueuePayment, Goto, SetQueue, AddNotification, Fields, ThreadShape,
     Records, queue, session, gatewayVars
<1>6. ASSUME CheckConnection PROVE goal
  BY <1>6, UserApart DEF CheckConnection, Goto, Fields, ThreadShape, Records, queue, session,
     gatewayVars, history
<1>7. ASSUME NEW s \in Threads, CopyQueue(s) PROVE goal
  BY <1>7, UserApart DEF CopyQueue, Goto, Stop, Fields, ThreadShape, Records, queue, session,
     gatewayVars
<1>8. ASSUME NEW s \in Threads, SendNext(s) PROVE goal
  <2>1. CASE Call(s, copied[s][1]) /\ Goto(s, "calling")
    <3>1. /\ answer'[s] # "success"
          /\ \A r \in Callers \ {s} : answer'[r] = answer[r] /\ paying'[r] = paying[r]
      BY <1>8, <2>1, SendNextSends, CallMade, UserApart
    <3>2. \A r \in Callers \ {s} : pc'[r] = pc[r]
      BY <2>1 DEF Goto, Fields, ThreadShape
    <3> QED BY <3>1, <3>2
  <2>2. CASE UNCHANGED <<paying, answer, pc>>
    BY <2>2
  <2> QED BY <1>8, <2>1, <2>2, SendNextSends
<1>9. ASSUME NEW s \in Threads, Settle(s) PROVE goal
  BY <1>9, UserApart DEF Settle, Return, Goto, UpdateNotification, Outcome, Fields, ThreadShape,
     Records, queue, session, gatewayVars, history
<1>10. ASSUME NEW s \in Threads, Cleanup(s) PROVE goal
  BY <1>10, UserApart DEF Cleanup, SetQueue, Stop, Goto, Fields, ThreadShape, Records, queue,
     session, gatewayVars, history
<1>11. ASSUME NEW c \in calls, GatewayServes(c) PROVE goal
  BY <1>11, UserApart DEF GatewayServes, Answer, Fields, ThreadShape, Records, queue, session,
     gatewayVars, history
<1>12. ASSUME NEW c \in calls, CallLost(c) PROVE goal
  BY <1>12, UserApart DEF CallLost, Fields, ThreadShape, Records, clientVars, queue, session,
     gatewayVars, history
<1>13. ASSUME NEW s \in Callers, CallTimesOut(s) PROVE goal
  BY <1>13, UserApart DEF CallTimesOut, Fields, ThreadShape, Records, queue, session,
     gatewayVars, history
<1>14. ASSUME GoOffline PROVE goal
  BY <1>14, UserApart DEF GoOffline, Fields, ThreadShape, Records, clientVars, queue, session,
     gatewayVars, history
<1>15. ASSUME GoOnline PROVE goal
  BY <1>15, UserApart DEF GoOnline, Fields, ThreadShape, Records, clientVars, queue, session,
     gatewayVars, history
<1>16. ASSUME Restart PROVE goal
  BY <1>16, UserApart DEF Restart, LoadPendingPayments, Fields, ThreadShape, Records, queue,
     gatewayVars, history, Callers
<1>17. ASSUME UNCHANGED vars PROVE goal
  BY <1>17, UserApart DEF Fields, ThreadShape, Records, vars, clientVars, queue, session,
     gatewayVars, history
<1>18. goal
  BY <1>1, <1>2, <1>3, <1>4, <1>5, <1>6, <1>7, <1>8, <1>9, <1>10, <1>11, <1>12, <1>13, <1>14,
     <1>15, <1>16, <1>17 DEF Next, CheckNotifications, DisplayNotifications,
     DisplayTransactionStatus, Callers
<1>20. CASE pc[t] = "calling" /\ answer[t] = "success" /\ paying'[t] = paying[t]
  BY <1>20, DoneStays DEF SuccessIsDone, Done
<1>21. CASE /\ pc[t] = "calling" /\ paying'[t] = paying[t]
            /\ \E c \in calls : c.payment = paying[t].payment /\ c.id \in processed'
  <2>1. PICK c \in calls : c.payment = paying[t].payment /\ c.id \in processed'
    BY <1>21
  <2>2. c.payment \in Payments /\ c.id.request \in Requests /\ paying[t] \in Entry
        /\ paying[t].request \in Requests
    BY <1>21, EntryFields DEF Fields, Records, TransactionId, ThreadShape
  <2>3. Uses(c.payment, c.id.request) /\ Uses(c.payment, paying[t].request)
    BY <1>21, <2>1 DEF Uses, Holds
  <2>4. c.id.request = paying[t].request
    BY <2>2, <2>3 DEF OneRequest
  <2> QED BY <1>21, <2>1, <2>4
<1> QED BY <1>18, <1>20, <1>21

LEMMA UserPaysPendingStep ==
    ASSUME Fields, [Next]_vars, UserPaysPending
    PROVE  UserPaysPending'
<1>1. ASSUME Show PROVE UserPaysPending'
  BY <1>1, UserApart DEF Show, UserPaysPending, Fields, ThreadShape, queue, session, gatewayVars
<1>2. ASSUME NEW correct \in BOOLEAN, LogIn(correct) PROVE UserPaysPending'
  BY <1>2, UserApart DEF LogIn, AuthenticateUsers, UserPaysPending, Fields, ThreadShape, queue,
     gatewayVars, history
<1>3. ASSUME NEW p \in Payments, MakePayment(p) PROVE UserPaysPending'
  <2> QED BY <1>3, MakePaymentCalls DEF UserPaysPending
<1>4. ASSUME PaymentAnswered PROVE UserPaysPending'
  BY <1>4, UserApart DEF PaymentAnswered, Return, Goto, IncrementCounter, UserPaysPending,
     Fields, ThreadShape, queue, gatewayVars, history
<1>5. ASSUME QueuePayment PROVE UserPaysPending'
  BY <1>5, UserApart DEF QueuePayment, Goto, SetQueue, AddNotification, UserPaysPending, Fields,
     ThreadShape, queue, session, gatewayVars
<1>6. ASSUME CheckConnection PROVE UserPaysPending'
  BY <1>6, UserApart DEF CheckConnection, Goto, UserPaysPending, Fields, ThreadShape, queue,
     session, gatewayVars, history
<1>7. ASSUME NEW s \in Threads, CopyQueue(s) PROVE UserPaysPending'
  BY <1>7, UserApart DEF CopyQueue, Goto, Stop, UserPaysPending, Fields, ThreadShape, queue,
     session, gatewayVars
<1>8. ASSUME NEW s \in Threads, SendNext(s) PROVE UserPaysPending'
  <2>1. CASE Call(s, copied[s][1]) /\ Goto(s, "calling")
    <3>1. paying'[User] = paying[User]
      <4>1. copied[s][1] \in Entry /\ s \in Callers /\ User \in Callers \ {s}
        BY <1>8, SendNextSends, UserApart
      <4> QED BY <2>1, <4>1, CallMade
    <3>2. pc'[User] = pc[User]
      BY <2>1, UserApart DEF Goto, Fields, ThreadShape
    <3> QED BY <3>1, <3>2 DEF UserPaysPending
  <2>2. CASE UNCHANGED <<paying, answer, pc>>
    BY <2>2 DEF UserPaysPending
  <2> QED BY <1>8, <2>1, <2>2, SendNextSends
<1>9. ASSUME NEW s \in Threads, Settle(s) PROVE UserPaysPending'
  BY <1>9, UserApart DEF Settle, Return, Goto, UpdateNotification, Outcome, UserPaysPending,
     Fields, ThreadShape, queue, session, gatewayVars, history
<1>10. ASSUME NEW s \in Threads, Cleanup(s) PROVE UserPaysPending'
  BY <1>10, UserApart DEF Cleanup, SetQueue, Stop, Goto, UserPaysPending, Fields, ThreadShape,
     queue, session, gatewayVars, history
<1>11. ASSUME NEW c \in calls, GatewayServes(c) PROVE UserPaysPending'
  BY <1>11, UserApart DEF GatewayServes, Answer, UserPaysPending, Fields, ThreadShape, queue,
     session, gatewayVars, history
<1>12. ASSUME NEW c \in calls, CallLost(c) PROVE UserPaysPending'
  BY <1>12, UserApart DEF CallLost, UserPaysPending, Fields, ThreadShape, clientVars, queue,
     session, gatewayVars, history
<1>13. ASSUME NEW s \in Callers, CallTimesOut(s) PROVE UserPaysPending'
  BY <1>13, UserApart DEF CallTimesOut, UserPaysPending, Fields, ThreadShape, queue, session,
     gatewayVars, history
<1>14. ASSUME GoOffline PROVE UserPaysPending'
  BY <1>14, UserApart DEF GoOffline, UserPaysPending, Fields, ThreadShape, clientVars, queue,
     session, gatewayVars, history
<1>15. ASSUME GoOnline PROVE UserPaysPending'
  BY <1>15, UserApart DEF GoOnline, UserPaysPending, Fields, ThreadShape, clientVars, queue,
     session, gatewayVars, history
<1>16. ASSUME Restart PROVE UserPaysPending'
  BY <1>16, UserApart DEF Restart, LoadPendingPayments, UserPaysPending, Fields, ThreadShape,
     queue, gatewayVars, history
<1>17. ASSUME UNCHANGED vars PROVE UserPaysPending'
  BY <1>17, UserApart DEF UserPaysPending, Fields, ThreadShape, vars, clientVars, queue, session,
     gatewayVars, history
<1> QED
  BY <1>1, <1>2, <1>3, <1>4, <1>5, <1>6, <1>7, <1>8, <1>9, <1>10, <1>11, <1>12, <1>13, <1>14,
     <1>15, <1>16, <1>17 DEF Next, CheckNotifications, DisplayNotifications,
     DisplayTransactionStatus, Callers

LEMMA OneAtWorkStep ==
    ASSUME Fields, [Next]_vars, OneAtWork
    PROVE  OneAtWork'
<1> SUFFICES ASSUME ~overlapped', NEW t \in Threads, NEW u \in Threads,
                    pc'[t] \notin {"idle", "copy"}, pc'[u] \notin {"idle", "copy"}
             PROVE  t = u
  BY DEF OneAtWork
<1>0. /\ ~overlapped
      /\ \A r, q \in Threads :
             pc[r] \notin {"idle", "copy"} /\ pc[q] \notin {"idle", "copy"} => r = q
  BY DoneStays DEF OneAtWork
<1> DEFINE goal == t = u
<1>1. ASSUME Show PROVE goal
  BY <1>1, <1>0, UserApart DEF Show, Fields, ThreadShape, queue, session, gatewayVars
<1>2. ASSUME NEW correct \in BOOLEAN, LogIn(correct) PROVE goal
  BY <1>2, <1>0, UserApart DEF LogIn, AuthenticateUsers, Fields, ThreadShape, queue, gatewayVars,
     history
<1>3. ASSUME NEW p \in Payments, MakePayment(p) PROVE goal
  BY <1>3, <1>0, UserApart DEF MakePayment, Goto, Fields, ThreadShape, queue, session,
     gatewayVars, history
<1>4. ASSUME PaymentAnswered PROVE goal
  BY <1>4, <1>0, UserApart DEF PaymentAnswered, Return, Goto, IncrementCounter, Fields,
     ThreadShape, queue, gatewayVars, history
<1>5. ASSUME QueuePayment PROVE goal
  BY <1>5, <1>0, UserApart DEF QueuePayment, Goto, SetQueue, AddNotification, Fields,
     ThreadShape, queue, session, gatewayVars
<1>6. ASSUME CheckConnection PROVE goal
  BY <1>6, <1>0, UserApart DEF CheckConnection, Goto, Fields, ThreadShape, queue, session,
     gatewayVars, history
<1>7. ASSUME NEW s \in Threads, CopyQueue(s) PROVE goal
  <2>1. \A r \in Threads \ {s} : pc[r] \in {"idle", "copy"}
    BY <1>7 DEF CopyQueue
  <2>2. \A r \in Threads \ {s} : pc'[r] = pc[r]
    <3>1. Goto(s, "idle") \/ Goto(s, "next")
      BY <1>7 DEF CopyQueue, Stop
    <3> QED BY <3>1, UserApart DEF Goto, Fields, ThreadShape
  <2> QED BY <2>1, <2>2
<1>8. ASSUME NEW s \in Threads, SendNext(s) PROVE goal
  BY <1>8, <1>0, UserApart DEF SendNext, Goto, Fields, ThreadShape, queue, session, gatewayVars,
     history
<1>9. ASSUME NEW s \in Threads, Settle(s) PROVE goal
  BY <1>9, <1>0, UserApart DEF Settle, Return, Goto, UpdateNotification, Outcome, Fields,
     ThreadShape, queue, session, gatewayVars, history
<1>10. ASSUME NEW s \in Threads, Cleanup(s) PROVE goal
  BY <1>10, <1>0, UserApart DEF Cleanup, SetQueue, Stop, Goto, Fields, ThreadShape, queue,
     session, gatewayVars, history
<1>11. ASSUME NEW c \in calls, GatewayServes(c) PROVE goal
  BY <1>11, <1>0, UserApart DEF GatewayServes, Answer, Fields, ThreadShape, queue, session,
     gatewayVars, history
<1>12. ASSUME NEW c \in calls, CallLost(c) PROVE goal
  BY <1>12, <1>0, UserApart DEF CallLost, Fields, ThreadShape, clientVars, queue, session,
     gatewayVars, history
<1>13. ASSUME NEW s \in Callers, CallTimesOut(s) PROVE goal
  BY <1>13, <1>0, UserApart DEF CallTimesOut, Fields, ThreadShape, queue, session, gatewayVars,
     history
<1>14. ASSUME GoOffline PROVE goal
  BY <1>14, <1>0, UserApart DEF GoOffline, Fields, ThreadShape, clientVars, queue, session,
     gatewayVars, history
<1>15. ASSUME GoOnline PROVE goal
  BY <1>15, <1>0, UserApart DEF GoOnline, Fields, ThreadShape, clientVars, queue, session,
     gatewayVars, history
<1>16. ASSUME Restart PROVE goal
  BY <1>16, <1>0, UserApart DEF Restart, LoadPendingPayments, Fields, ThreadShape, queue,
     gatewayVars, history, Callers
<1>17. ASSUME UNCHANGED vars PROVE goal
  BY <1>17, <1>0, UserApart DEF Fields, ThreadShape, vars, clientVars, queue, session,
     gatewayVars, history
<1> QED
  BY <1>1, <1>2, <1>3, <1>4, <1>5, <1>6, <1>7, <1>8, <1>9, <1>10, <1>11, <1>12, <1>13, <1>14,
     <1>15, <1>16, <1>17 DEF Next, CheckNotifications, DisplayNotifications,
     DisplayTransactionStatus, Callers

LEMMA WorkIsQueuedStep ==
    ASSUME Fields, [Next]_vars, OneAtWork, WorkIsQueued
    PROVE  WorkIsQueued'
<1> SUFFICES ASSUME ~overlapped', NEW t \in Threads
             PROVE  /\ pc'[t] = "next" /\ copied'[t] # <<>> => Same(copied'[t][1], pendingPayments')
                    /\ pc'[t] = "calling" => Same(paying'[t], pendingPayments')
  BY DEF WorkIsQueued, Same
<1> DEFINE goal == /\ pc'[t] = "next" /\ copied'[t] # <<>> => Same(copied'[t][1], pendingPayments')
                   /\ pc'[t] = "calling" => Same(paying'[t], pendingPayments')
<1>0. /\ pc[t] = "next" /\ copied[t] # <<>> => Same(copied[t][1], pendingPayments)
      /\ pc[t] = "calling" => Same(paying[t], pendingPayments)
      /\ \A r, q \in Threads :
             pc[r] \notin {"idle", "copy"} /\ pc[q] \notin {"idle", "copy"} => r = q
  BY DoneStays DEF OneAtWork, WorkIsQueued
<1>1. ASSUME Show PROVE goal
  BY <1>1, <1>0, UserApart DEF Show, Fields, ThreadShape, QueueShape, Same, queue, session,
     gatewayVars
<1>2. ASSUME NEW correct \in BOOLEAN, LogIn(correct) PROVE goal
  BY <1>2, <1>0, UserApart DEF LogIn, AuthenticateUsers, Fields, ThreadShape, QueueShape, Same,
     queue, gatewayVars, history
<1>3. ASSUME NEW p \in Payments, MakePayment(p) PROVE goal
  <2>1. /\ \A q \in Threads : pc'[q] = pc[q] /\ paying'[q] = paying[q]
        /\ UNCHANGED <<copied, pendingPayments>>
    BY <1>3, MakePaymentCalls, UserApart DEF MakePayment, queue
  <2> QED BY <1>0, <2>1
<1>4. ASSUME PaymentAnswered PROVE goal
  BY <1>4, <1>0, UserApart DEF PaymentAnswered, Return, Goto, IncrementCounter, Fields,
     ThreadShape, QueueShape, Same, queue, gatewayVars, history
<1>5. ASSUME QueuePayment PROVE goal
  BY <1>5, <1>0, UserApart DEF QueuePayment, Goto, SetQueue, AddNotification, Fields,
     ThreadShape, QueueShape, Same, queue, session, gatewayVars
<1>6. ASSUME CheckConnection PROVE goal
  BY <1>6, <1>0, UserApart DEF CheckConnection, Goto, Fields, ThreadShape, QueueShape, Same,
     queue, session, gatewayVars, history
<1>7. ASSUME NEW s \in Threads, CopyQueue(s) PROVE goal
  BY <1>7, <1>0, UserApart DEF CopyQueue, Goto, Stop, Fields, ThreadShape, QueueShape, Same,
     queue, session, gatewayVars
<1>8. ASSUME NEW s \in Threads, SendNext(s) PROVE goal
  <2>1. /\ copied'[s] = <<>> /\ \A q \in Threads \ {s} : copied'[q] = copied[q]
        /\ pc[s] = "next" /\ copied[s] # <<>> /\ copied[s][1] \in Entry
    BY <1>8, SendNextSends
  <2>2. CASE Mark("processing") /\ Call(s, copied[s][1]) /\ Goto(s, "calling")
    <3>1. paying'[s] = copied[s][1] /\ \A q \in Callers \ {s} : paying'[q] = paying[q]
      BY <2>1, <2>2, CallMade, UserApart
    <3>2. pc'[s] = "calling" /\ \A q \in Callers \ {s} : pc'[q] = pc[q]
      BY <2>2, UserApart DEF Goto, Fields, ThreadShape
    <3>3. \A e : Same(e, pendingPayments) => Same(e, pendingPayments')
      BY <2>2, MarkKeepsEntry DEF Fields, Same
    <3>4. CASE t = s
      BY <1>0, <2>1, <3>1, <3>2, <3>3, <3>4
    <3>5. CASE t # s
      BY <1>0, <2>1, <3>1, <3>2, <3>3, <3>5, UserApart
    <3> QED BY <3>4, <3>5
  <2>3. CASE UNCHANGED <<queue, paying, answer, calls, pc>>
    BY <1>0, <2>1, <2>3 DEF queue
  <2> QED BY <1>8, <2>2, <2>3, SendNextSends
<1>9. ASSUME NEW s \in Threads, Settle(s) PROVE goal
  <2>1. Mark(Outcome(s)) /\ Outcome(s) \in {"pending", "processing", "completed"}
    BY <1>9 DEF Settle, Outcome
  <2>2. \A e : Same(e, pendingPayments) => Same(e, pendingPayments')
    BY <2>1, MarkKeepsEntry DEF Fields, Same
  <2>3. /\ pc[s] = "calling" /\ copied' = copied /\ pc'[s] \in {"next", "cleanup"}
        /\ \A q \in Callers \ {s} : pc'[q] = pc[q] /\ paying'[q] = paying[q]
    BY <1>9, UserApart DEF Settle, Return, Goto, Fields, ThreadShape
  <2>4. copied[s] = <<>>
    BY <2>3 DEF Fields, ThreadShape
  <2>5. CASE t = s
    BY <2>3, <2>4, <2>5
  <2>6. CASE t # s
    BY <1>0, <2>2, <2>3, <2>6, UserApart
  <2> QED BY <2>5, <2>6
<1>10. ASSUME NEW s \in Threads, Cleanup(s) PROVE goal
  BY <1>10, ActiveOfShort, <1>0, UserApart DEF Cleanup, SetQueue, Stop, Goto, Fields,
     ThreadShape, QueueShape, Same, queue, session, gatewayVars, history
<1>11. ASSUME NEW c \in calls, GatewayServes(c) PROVE goal
  BY <1>11, <1>0, UserApart DEF GatewayServes, Answer, Fields, ThreadShape, QueueShape, Same,
     queue, session, gatewayVars, history
<1>12. ASSUME NEW c \in calls, CallLost(c) PROVE goal
  BY <1>12, <1>0, UserApart DEF CallLost, Fields, ThreadShape, QueueShape, Same, clientVars,
     queue, session, gatewayVars, history
<1>13. ASSUME NEW s \in Callers, CallTimesOut(s) PROVE goal
  BY <1>13, <1>0, UserApart DEF CallTimesOut, Fields, ThreadShape, QueueShape, Same, queue,
     session, gatewayVars, history
<1>14. ASSUME GoOffline PROVE goal
  BY <1>14, <1>0, UserApart DEF GoOffline, Fields, ThreadShape, QueueShape, Same, clientVars,
     queue, session, gatewayVars, history
<1>15. ASSUME GoOnline PROVE goal
  BY <1>15, <1>0, UserApart DEF GoOnline, Fields, ThreadShape, QueueShape, Same, clientVars,
     queue, session, gatewayVars, history
<1>16. ASSUME Restart PROVE goal
  BY <1>16, <1>0, UserApart DEF Restart, LoadPendingPayments, Fields, ThreadShape, QueueShape,
     Same, queue, gatewayVars, history, Callers
<1>17. ASSUME UNCHANGED vars PROVE goal
  BY <1>17, <1>0, UserApart DEF Fields, ThreadShape, QueueShape, Same, vars, clientVars, queue,
     session, gatewayVars, history
<1> QED
  BY <1>1, <1>2, <1>3, <1>4, <1>5, <1>6, <1>7, <1>8, <1>9, <1>10, <1>11, <1>12, <1>13, <1>14,
     <1>15, <1>16, <1>17 DEF Next, CheckNotifications, DisplayNotifications,
     DisplayTransactionStatus, Callers

LEMMA NoticeIsQueuedStep ==
    ASSUME Fields, [Next]_vars, NoticeIsQueued
    PROVE  NoticeIsQueued'
<1>1. ASSUME Show PROVE NoticeIsQueued'
  BY <1>1 DEF Show, NoticeIsQueued, Fields, QueueShape, queue, session, gatewayVars
<1>2. ASSUME NEW correct \in BOOLEAN, LogIn(correct) PROVE NoticeIsQueued'
  BY <1>2 DEF LogIn, AuthenticateUsers, NoticeIsQueued, Fields, QueueShape, queue, gatewayVars,
     history
<1>3. ASSUME NEW p \in Payments, MakePayment(p) PROVE NoticeIsQueued'
  BY <1>3 DEF MakePayment, Goto, NoticeIsQueued, Fields, QueueShape, queue, session, gatewayVars,
     history
<1>4. ASSUME PaymentAnswered PROVE NoticeIsQueued'
  BY <1>4 DEF PaymentAnswered, Return, Goto, IncrementCounter, NoticeIsQueued, Fields,
     QueueShape, queue, gatewayVars, history
<1>5. ASSUME QueuePayment PROVE NoticeIsQueued'
  BY <1>5 DEF QueuePayment, Goto, SetQueue, AddNotification, NoticeIsQueued, Fields, QueueShape,
     queue, session, gatewayVars
<1>6. ASSUME CheckConnection PROVE NoticeIsQueued'
  BY <1>6 DEF CheckConnection, Goto, NoticeIsQueued, Fields, QueueShape, queue, session,
     gatewayVars, history
<1>7. ASSUME NEW s \in Threads, CopyQueue(s) PROVE NoticeIsQueued'
  BY <1>7 DEF CopyQueue, Goto, Stop, NoticeIsQueued, Fields, QueueShape, queue, session,
     gatewayVars
<1>8. ASSUME NEW s \in Threads, SendNext(s) PROVE NoticeIsQueued'
  <2>1. CASE Mark("processing")
    BY <1>8, <2>1, MarkKeepsEntry, SendNextSends DEF NoticeIsQueued, Fields
  <2>2. CASE UNCHANGED queue
    BY <1>8, <2>2, SendNextSends DEF NoticeIsQueued, queue
  <2> QED BY <1>8, <2>1, <2>2, SendNextSends
<1>9. ASSUME NEW s \in Threads, Settle(s) PROVE NoticeIsQueued'
  <2>1. Mark(Outcome(s)) /\ Outcome(s) \in {"pending", "processing", "completed"}
    BY <1>9 DEF Settle, Outcome
  <2>2. notice # NoEntry => notice \in Entry
    BY DEF Fields, QueueShape
  <2>3. \/ notice' = notice
        \/ notice # NoEntry /\ notice' = [notice EXCEPT !.status = Outcome(s)]
    BY <1>9 DEF Settle, UpdateNotification
  <2>4. notice' # NoEntry => notice # NoEntry /\ notice'.request = notice.request
    <3>1. CASE notice' = notice
      BY <3>1
    <3>2. CASE notice # NoEntry /\ notice' = [notice EXCEPT !.status = Outcome(s)]
      BY <2>1, <2>2, <3>2, EntryMarked
    <3> QED BY <2>3, <3>1, <3>2
  <2> QED BY <2>1, <2>4, MarkKeepsEntry DEF NoticeIsQueued, Fields
<1>10. ASSUME NEW s \in Threads, Cleanup(s) PROVE NoticeIsQueued'
  BY <1>10, ActiveOfShort DEF Cleanup, SetQueue, Stop, Goto, NoticeIsQueued, Fields, QueueShape,
     queue, session, gatewayVars, history
<1>11. ASSUME NEW c \in calls, GatewayServes(c) PROVE NoticeIsQueued'
  BY <1>11 DEF GatewayServes, Answer, NoticeIsQueued, Fields, QueueShape, queue, session,
     gatewayVars, history
<1>12. ASSUME NEW c \in calls, CallLost(c) PROVE NoticeIsQueued'
  BY <1>12 DEF CallLost, NoticeIsQueued, Fields, QueueShape, clientVars, queue, session,
     gatewayVars, history
<1>13. ASSUME NEW s \in Callers, CallTimesOut(s) PROVE NoticeIsQueued'
  BY <1>13 DEF CallTimesOut, NoticeIsQueued, Fields, QueueShape, queue, session, gatewayVars,
     history
<1>14. ASSUME GoOffline PROVE NoticeIsQueued'
  BY <1>14 DEF GoOffline, NoticeIsQueued, Fields, QueueShape, clientVars, queue, session,
     gatewayVars, history
<1>15. ASSUME GoOnline PROVE NoticeIsQueued'
  BY <1>15 DEF GoOnline, NoticeIsQueued, Fields, QueueShape, clientVars, queue, session,
     gatewayVars, history
<1>16. ASSUME Restart PROVE NoticeIsQueued'
  <2>1. UNCHANGED pendingPayments
    BY <1>16 DEF Restart, LoadPendingPayments, Fields, QueueShape
  <2>2. CASE pendingPayments # <<>>
    <3>1. notice' # NoEntry => notice' = pendingPayments[1]
      BY <1>16, <2>2, ShortQueue DEF Restart, Fields, QueueShape
    <3> QED BY <2>1, <3>1 DEF NoticeIsQueued
  <2>3. CASE pendingPayments = <<>>
    BY <2>1, <2>3 DEF NoticeIsQueued
  <2> QED BY <2>2, <2>3
<1>17. ASSUME UNCHANGED vars PROVE NoticeIsQueued'
  BY <1>17 DEF NoticeIsQueued, Fields, QueueShape, vars, clientVars, queue, session, gatewayVars,
     history
<1> QED
  BY <1>1, <1>2, <1>3, <1>4, <1>5, <1>6, <1>7, <1>8, <1>9, <1>10, <1>11, <1>12, <1>13, <1>14,
     <1>15, <1>16, <1>17 DEF Next, CheckNotifications, DisplayNotifications,
     DisplayTransactionStatus, Callers

LEMMA RestartNotice ==
    ASSUME Fields, Restart, notice' # NoEntry
    PROVE  notice'.status = "pending"
<1>1. CASE queueFile = <<>>
  BY <1>1 DEF Restart
<1>2. CASE queueFile # <<>>
  <2>1. DOMAIN queueFile = {1}
    BY <1>2, ShortQueue DEF Fields, QueueShape
  <2> DEFINE open == {i \in DOMAIN queueFile : Pending(queueFile[i])}
  <2>2. notice' = IF open = {} THEN NoEntry
                  ELSE queueFile[CHOOSE i \in open : \A j \in open : j <= i]
    BY DEF Restart
  <2>3. open # {}
    BY <2>2
  <2>4. open = {1}
    BY <2>1, <2>3
  <2> QED BY <2>2, <2>4 DEF Pending
<1> QED BY <1>1, <1>2

LEMMA CompletedIsDoneStep ==
    ASSUME Fields, [Next]_vars, SuccessIsDone, UserPaysPending, WorkIsQueued, NoticeIsQueued,
           CompletedIsDone
    PROVE  CompletedIsDone'
<1> DEFINE now(r) == \E id \in processed' : id.request = r
<1> SUFFICES ASSUME ~overlapped'
             PROVE  /\ pendingPayments' # <<>> /\ pendingPayments'[1].status = "completed"
                           => now(pendingPayments'[1].request)
                    /\ notice' # NoEntry /\ notice'.status = "completed" => now(notice'.request)
  BY DEF CompletedIsDone, Done
<1>0. /\ ~overlapped /\ \A r : Done(r) => now(r)
      /\ pendingPayments # <<>> /\ pendingPayments[1].status = "completed"
             => Done(pendingPayments[1].request)
      /\ notice # NoEntry /\ notice.status = "completed" => Done(notice.request)
  BY DoneStays DEF CompletedIsDone, Done
<1> HIDE DEF now
<1> DEFINE goal == /\ pendingPayments' # <<>> /\ pendingPayments'[1].status = "completed"
                          => now(pendingPayments'[1].request)
                   /\ notice' # NoEntry /\ notice'.status = "completed" => now(notice'.request)
<1>1. ASSUME Show PROVE goal
  BY <1>1, <1>0 DEF Show, Fields, QueueShape, queue, session, gatewayVars
<1>2. ASSUME NEW correct \in BOOLEAN, LogIn(correct) PROVE goal
  BY <1>2, <1>0 DEF LogIn, AuthenticateUsers, Fields, QueueShape, queue, gatewayVars, history
<1>3. ASSUME NEW p \in Payments, MakePayment(p) PROVE goal
  BY <1>3, <1>0 DEF MakePayment, Goto, Fields, QueueShape, queue, session, gatewayVars, history
<1>4. ASSUME PaymentAnswered PROVE goal
  BY <1>4, <1>0 DEF PaymentAnswered, Return, Goto, IncrementCounter, Fields, QueueShape, queue,
     gatewayVars, history
<1>5. ASSUME QueuePayment PROVE goal
  <2>1. pendingPayments' # <<>> /\ pendingPayments'[1].status = "completed"
            => now(pendingPayments'[1].request)
    BY <1>5, <1>0 DEF QueuePayment, SetQueue, UserPaysPending, queue
  <2>2. notice' # NoEntry /\ notice'.status = "completed" => now(notice'.request)
    BY <1>5, <1>0 DEF QueuePayment, AddNotification, UserPaysPending
  <2> QED BY <2>1, <2>2
<1>6. ASSUME CheckConnection PROVE goal
  BY <1>6, <1>0 DEF CheckConnection, Goto, Fields, QueueShape, queue, session, gatewayVars,
     history
<1>7. ASSUME NEW s \in Threads, CopyQueue(s) PROVE goal
  BY <1>7, <1>0 DEF CopyQueue, Goto, Stop, Fields, QueueShape, queue, session, gatewayVars
<1>8. ASSUME NEW s \in Threads, SendNext(s) PROVE goal
  <2>1. CASE Mark("processing")
    BY <1>8, <1>0, <2>1, MarkKeepsEntry, SendNextSends DEF Fields
  <2>2. CASE UNCHANGED queue
    BY <1>8, <1>0, <2>2, SendNextSends DEF queue
  <2> QED BY <1>8, <2>1, <2>2, SendNextSends
<1>9. ASSUME NEW s \in Threads, Settle(s) PROVE goal
  <2>1. Mark(Outcome(s)) /\ Outcome(s) \in {"pending", "processing", "completed"}
    BY <1>9 DEF Settle, Outcome
  <2>2. notice # NoEntry => notice \in Entry
    BY DEF Fields, QueueShape
  <2>3. \/ notice' = notice
        \/ notice # NoEntry /\ notice' = [notice EXCEPT !.status = Outcome(s)]
    BY <1>9 DEF Settle, UpdateNotification
  <2>4. \/ notice' = notice
        \/ notice # NoEntry /\ notice'.request = notice.request /\ notice'.status = Outcome(s)
    <3>1. CASE notice' = notice
      BY <3>1
    <3>2. CASE notice # NoEntry /\ notice' = [notice EXCEPT !.status = Outcome(s)]
      BY <2>1, <2>2, <3>2, EntryMarked
    <3> QED BY <2>3, <3>1, <3>2
  <2>5. Same(paying[s], pendingPayments) /\ pc[s] = "calling" /\ s \in Callers
    BY <1>9, <1>0, UserApart DEF Settle, WorkIsQueued
  <2>6. Outcome(s) = "completed" => Done(pendingPayments[1].request)
    BY <2>5 DEF Outcome, SuccessIsDone, Same
  <2>7. notice # NoEntry => notice.request = pendingPayments[1].request
    BY <2>5 DEF NoticeIsQueued, Same
  <2>8. /\ pendingPayments'[1].request = pendingPayments[1].request
        /\ pendingPayments'[1].status = Outcome(s)
    BY <2>1, <2>5, MarkKeepsEntry DEF Fields, Same
  <2> QED BY <1>0, <2>4, <2>6, <2>7, <2>8
<1>10. ASSUME NEW s \in Threads, Cleanup(s) PROVE goal
  BY <1>10, ActiveOfShort, <1>0 DEF Cleanup, SetQueue, Stop, Goto, Fields, QueueShape, queue,
     session, gatewayVars, history
<1>11. ASSUME NEW c \in calls, GatewayServes(c) PROVE goal
  BY <1>11, <1>0 DEF GatewayServes, Answer, Fields, QueueShape, queue, session, gatewayVars,
     history
<1>12. ASSUME NEW c \in calls, CallLost(c) PROVE goal
  BY <1>12, <1>0 DEF CallLost, Fields, QueueShape, clientVars, queue, session, gatewayVars,
     history
<1>13. ASSUME NEW s \in Callers, CallTimesOut(s) PROVE goal
  BY <1>13, <1>0 DEF CallTimesOut, Fields, QueueShape, queue, session, gatewayVars, history
<1>14. ASSUME GoOffline PROVE goal
  BY <1>14, <1>0 DEF GoOffline, Fields, QueueShape, clientVars, queue, session, gatewayVars,
     history
<1>15. ASSUME GoOnline PROVE goal
  BY <1>15, <1>0 DEF GoOnline, Fields, QueueShape, clientVars, queue, session, gatewayVars,
     history
<1>16. ASSUME Restart PROVE goal
  <2>1. UNCHANGED pendingPayments
    BY <1>16 DEF Restart, LoadPendingPayments, Fields, QueueShape
  <2> QED BY <1>16, <1>0, <2>1, RestartNotice
<1>17. ASSUME UNCHANGED vars PROVE goal
  BY <1>17, <1>0 DEF Fields, QueueShape, vars, clientVars, queue, session, gatewayVars, history
<1> QED
  BY <1>1, <1>2, <1>3, <1>4, <1>5, <1>6, <1>7, <1>8, <1>9, <1>10, <1>11, <1>12, <1>13, <1>14,
     <1>15, <1>16, <1>17 DEF Next, CheckNotifications, DisplayNotifications,
     DisplayTransactionStatus, Callers

LEMMA AcceptedIsKeptStep ==
    ASSUME Fields, [Next]_vars, OneRequest, CompletedIsDone, AcceptedIsKept
    PROVE  AcceptedIsKept'
<1> DEFINE kept(a) == \E i \in DOMAIN pendingPayments : pendingPayments[i].payment = a.payment
<1> SUFFICES ASSUME ~overlapped', NEW a \in accepted'
             PROVE  kept(a)' \/ Done(a.request)'
  BY DEF AcceptedIsKept, Done
<1>0. /\ ~overlapped /\ \A r : Done(r) => Done(r)'
      /\ a \in accepted => kept(a) \/ Done(a.request)
  BY DoneStays DEF AcceptedIsKept, Done
<1>0a. /\ kept(a) <=> pendingPayments # <<>> /\ pendingPayments[1].payment = a.payment
       /\ kept(a)' <=> pendingPayments' # <<>> /\ pendingPayments'[1].payment = a.payment
  <2>1. Short(pendingPayments) /\ Short(pendingPayments')
    BY FieldsStep DEF Fields, QueueShape
  <2>2. kept(a) <=> pendingPayments # <<>> /\ pendingPayments[1].payment = a.payment
    BY <2>1, ShortQueue, EmptyQueue
  <2>3. kept(a)' <=> pendingPayments' # <<>> /\ pendingPayments'[1].payment = a.payment
    BY <2>1, ShortQueue, EmptyQueue
  <2> QED BY <2>2, <2>3
<1> HIDE DEF kept
<1> DEFINE goal == kept(a)' \/ Done(a.request)'
<1>1. ASSUME Show PROVE goal
  BY <1>1, <1>0, <1>0a DEF Show, Fields, QueueShape, queue, session, gatewayVars
<1>2. ASSUME NEW correct \in BOOLEAN, LogIn(correct) PROVE goal
  BY <1>2, <1>0, <1>0a DEF LogIn, AuthenticateUsers, Fields, QueueShape, queue, gatewayVars,
     history
<1>3. ASSUME NEW p \in Payments, MakePayment(p) PROVE goal
  BY <1>3, <1>0, <1>0a DEF MakePayment, Goto, Fields, QueueShape, queue, session, gatewayVars,
     history
<1>4. ASSUME PaymentAnswered PROVE goal
  BY <1>4, <1>0, <1>0a DEF PaymentAnswered, Return, Goto, IncrementCounter, Fields, QueueShape,
     queue, gatewayVars, history
<1>5. ASSUME QueuePayment PROVE goal
  <2>1. CASE pendingPayments # <<>>
    BY <1>5, <1>0, <1>0a, <2>1 DEF QueuePayment, queue
  <2>2. CASE pendingPayments = <<>>
    BY <1>5, <1>0, <1>0a, <2>2 DEF QueuePayment, SetQueue
  <2> QED BY <2>1, <2>2
<1>6. ASSUME CheckConnection PROVE goal
  BY <1>6, <1>0, <1>0a DEF CheckConnection, Goto, Fields, QueueShape, queue, session,
     gatewayVars, history
<1>7. ASSUME NEW s \in Threads, CopyQueue(s) PROVE goal
  BY <1>7, <1>0, <1>0a DEF CopyQueue, Goto, Stop, Fields, QueueShape, queue, session, gatewayVars
<1>8. ASSUME NEW s \in Threads, SendNext(s) PROVE goal
  <2>1. CASE Mark("processing")
    BY <1>8, <1>0, <1>0a, <2>1, MarkKeepsEntry, SendNextSends DEF Fields, history
  <2>2. CASE UNCHANGED queue
    BY <1>8, <1>0, <1>0a, <2>2, SendNextSends DEF queue, history
  <2> QED BY <1>8, <2>1, <2>2, SendNextSends
<1>9. ASSUME NEW s \in Threads, Settle(s) PROVE goal
  <2>1. Mark(Outcome(s)) /\ Outcome(s) \in {"pending", "processing", "completed"}
    BY <1>9 DEF Settle, Outcome
  <2> QED BY <1>9, <1>0, <1>0a, <2>1, MarkKeepsEntry DEF Fields, Settle, history
<1>10. ASSUME NEW s \in Threads, Cleanup(s) PROVE goal
  <2>1. a \in accepted
    BY <1>10 DEF Cleanup, history
  <2>2. pendingPayments' = IF pendingPayments # <<>> /\ pendingPayments[1].status = "completed"
                           THEN <<>> ELSE pendingPayments
    BY <1>10, ActiveOfShort DEF Cleanup, SetQueue, Fields, QueueShape
  <2>3. ASSUME kept(a), pendingPayments[1].status = "completed" PROVE Done(a.request)
    <3>1. Done(pendingPayments[1].request)
      BY <1>0, <1>0a, <2>3 DEF CompletedIsDone
    <3>2. a.payment \in Payments /\ a.request \in Requests /\ pendingPayments[1] \in Entry
      BY <1>0a, <2>1, <2>3, ShortQueue DEF Fields, Records, QueueShape
    <3>3. Uses(a.payment, a.request) /\ Uses(a.payment, pendingPayments[1].request)
      BY <1>0a, <2>1, <2>3 DEF Uses, Holds
    <3>4. a.request = pendingPayments[1].request
      BY <3>2, <3>3, EntryFields DEF OneRequest
    <3> QED BY <3>1, <3>4
  <2> QED BY <1>0, <1>0a, <2>1, <2>2, <2>3
<1>11. ASSUME NEW c \in calls, GatewayServes(c) PROVE goal
  BY <1>11, <1>0, <1>0a DEF GatewayServes, Answer, Fields, QueueShape, queue, session,
     gatewayVars, history
<1>12. ASSUME NEW c \in calls, CallLost(c) PROVE goal
  BY <1>12, <1>0, <1>0a DEF CallLost, Fields, QueueShape, clientVars, queue, session,
     gatewayVars, history
<1>13. ASSUME NEW s \in Callers, CallTimesOut(s) PROVE goal
  BY <1>13, <1>0, <1>0a DEF CallTimesOut, Fields, QueueShape, queue, session, gatewayVars,
     history
<1>14. ASSUME GoOffline PROVE goal
  BY <1>14, <1>0, <1>0a DEF GoOffline, Fields, QueueShape, clientVars, queue, session,
     gatewayVars, history
<1>15. ASSUME GoOnline PROVE goal
  BY <1>15, <1>0, <1>0a DEF GoOnline, Fields, QueueShape, clientVars, queue, session,
     gatewayVars, history
<1>16. ASSUME Restart PROVE goal
  BY <1>16, <1>0, <1>0a DEF Restart, LoadPendingPayments, Fields, QueueShape, queue, gatewayVars,
     history
<1>17. ASSUME UNCHANGED vars PROVE goal
  BY <1>17, <1>0, <1>0a DEF Fields, QueueShape, vars, clientVars, queue, session, gatewayVars,
     history
<1> QED
  BY <1>1, <1>2, <1>3, <1>4, <1>5, <1>6, <1>7, <1>8, <1>9, <1>10, <1>11, <1>12, <1>13, <1>14,
     <1>15, <1>16, <1>17 DEF Next, CheckNotifications, DisplayNotifications,
     DisplayTransactionStatus, Callers

LEMMA AnnouncementIsTrueStep ==
    ASSUME Fields, [Next]_vars, CompletedIsDone, AnnouncementIsTrue
    PROVE  AnnouncementIsTrue'
<1> SUFFICES ASSUME ~overlapped', NEW r \in announced'
             PROVE  Done(r)'
  BY DEF AnnouncementIsTrue, Done
<1>0. /\ ~overlapped /\ \A q : Done(q) => Done(q)'
      /\ r \in announced => Done(r)
      /\ notice # NoEntry /\ notice.status = "completed" => Done(notice.request)
  BY DoneStays DEF AnnouncementIsTrue, CompletedIsDone, Done
<1> DEFINE goal == Done(r)'
<1>1. ASSUME Show PROVE goal
  BY <1>1, <1>0 DEF Show, Fields, queue, session, gatewayVars
<1>2. ASSUME NEW correct \in BOOLEAN, LogIn(correct) PROVE goal
  BY <1>2, <1>0 DEF LogIn, AuthenticateUsers, Fields, queue, gatewayVars, history
<1>3. ASSUME NEW p \in Payments, MakePayment(p) PROVE goal
  BY <1>3, <1>0 DEF MakePayment, Goto, Fields, queue, session, gatewayVars, history
<1>4. ASSUME PaymentAnswered PROVE goal
  BY <1>4, <1>0 DEF PaymentAnswered, Return, Goto, IncrementCounter, Fields, queue, gatewayVars,
     history
<1>5. ASSUME QueuePayment PROVE goal
  BY <1>5, <1>0 DEF QueuePayment, Goto, SetQueue, AddNotification, Fields, queue, session,
     gatewayVars
<1>6. ASSUME CheckConnection PROVE goal
  BY <1>6, <1>0 DEF CheckConnection, Goto, Fields, queue, session, gatewayVars, history
<1>7. ASSUME NEW s \in Threads, CopyQueue(s) PROVE goal
  BY <1>7, <1>0 DEF CopyQueue, Goto, Stop, Fields, queue, session, gatewayVars
<1>8. ASSUME NEW s \in Threads, SendNext(s) PROVE goal
  BY <1>8, <1>0 DEF SendNext, Goto, Fields, queue, session, gatewayVars, history
<1>9. ASSUME NEW s \in Threads, Settle(s) PROVE goal
  BY <1>9, <1>0 DEF Settle, Return, Goto, UpdateNotification, Outcome, Fields, queue, session,
     gatewayVars, history
<1>10. ASSUME NEW s \in Threads, Cleanup(s) PROVE goal
  BY <1>10, <1>0 DEF Cleanup, SetQueue, Stop, Goto, Fields, queue, session, gatewayVars, history
<1>11. ASSUME NEW c \in calls, GatewayServes(c) PROVE goal
  BY <1>11, <1>0 DEF GatewayServes, Answer, Fields, queue, session, gatewayVars, history
<1>12. ASSUME NEW c \in calls, CallLost(c) PROVE goal
  BY <1>12, <1>0 DEF CallLost, Fields, clientVars, queue, session, gatewayVars, history
<1>13. ASSUME NEW s \in Callers, CallTimesOut(s) PROVE goal
  BY <1>13, <1>0 DEF CallTimesOut, Fields, queue, session, gatewayVars, history
<1>14. ASSUME GoOffline PROVE goal
  BY <1>14, <1>0 DEF GoOffline, Fields, clientVars, queue, session, gatewayVars, history
<1>15. ASSUME GoOnline PROVE goal
  BY <1>15, <1>0 DEF GoOnline, Fields, clientVars, queue, session, gatewayVars, history
<1>16. ASSUME Restart PROVE goal
  BY <1>16, <1>0 DEF Restart, LoadPendingPayments, Fields, queue, gatewayVars, history
<1>17. ASSUME UNCHANGED vars PROVE goal
  BY <1>17, <1>0 DEF Fields, vars, clientVars, queue, session, gatewayVars, history
<1> QED
  BY <1>1, <1>2, <1>3, <1>4, <1>5, <1>6, <1>7, <1>8, <1>9, <1>10, <1>11, <1>12, <1>13, <1>14,
     <1>15, <1>16, <1>17 DEF Next, CheckNotifications, DisplayNotifications,
     DisplayTransactionStatus, Callers

-----------------------------------------------------------------------------
(* The theorems.                                                           *)

LEMMA QueueInit == Init => QueueInv
<1> SUFFICES ASSUME Init PROVE QueueInv
  OBVIOUS
<1>1. Fields
  <2>1. QueueShape /\ Numbers
    BY EmptyQueue DEF Init, QueueShape, Numbers
  <2>2. ThreadShape
    BY EmptyQueue, UserApart DEF Init, ThreadShape, Callers
  <2>3. Records
    BY DEF Init, Records
  <2> QED BY <2>1, <2>2, <2>3 DEF Fields
<1>2. \A p, r : ~Uses(p, r)
  BY UserApart DEF Init, Uses, Callers
<1>3. Untouched
  BY <1>2 DEF Init, Untouched
<1>4. OneRequest
  <2> SUFFICES ASSUME NEW p \in Payments
               PROVE  \E r \in Requests : /\ \A q \in Requests : Uses(p, q) => q = r
                                         /\ moved[p] <= Cardinality(Epochs(r))
    BY DEF OneRequest
  <2>1. NextRequest(p) \in Requests
    BY <1>1, NewEntry
  <2>2. Cardinality(Epochs(NextRequest(p))) \in Nat /\ moved[p] = 0
    <3>1. Epochs(NextRequest(p)) \in SUBSET (0 .. epoch) /\ epoch \in Nat
      BY DEF Init, Epochs
    <3> QED BY <3>1, SetOfEpochs DEF Init
  <2>3. moved[p] <= Cardinality(Epochs(NextRequest(p)))
    BY <2>2
  <2> QED BY <1>2, <2>1, <2>3
<1>5. CallsAreOfNow /\ NoticeIsQueued /\ CompletedIsDone /\ AcceptedIsKept /\ AnnouncementIsTrue
  BY DEF Init, CallsAreOfNow, NoticeIsQueued, CompletedIsDone, AcceptedIsKept, AnnouncementIsTrue
<1>6. SuccessIsDone /\ UserPaysPending /\ OneAtWork /\ WorkIsQueued
  BY UserApart DEF Init, SuccessIsDone, UserPaysPending, OneAtWork, WorkIsQueued, Callers
<1> QED BY <1>1, <1>3, <1>4, <1>5, <1>6 DEF QueueInv

\* The parts of QueueInv hold together: each step of the console, of a thread
\* at the queue, of the gateway or of the network, and a restart, keeps them.
THEOREM QueueInvariant == Spec => []QueueInv
<1>1. QueueInv /\ [Next]_vars => QueueInv'
  BY FieldsStep, OneRequestStep, CallsAreOfNowStep, UntouchedStep, SuccessIsDoneStep,
     UserPaysPendingStep, OneAtWorkStep, WorkIsQueuedStep, NoticeIsQueuedStep,
     CompletedIsDoneStep, AcceptedIsKeptStep, AnnouncementIsTrueStep DEF QueueInv
<1> QED BY <1>1, QueueInit, PTL DEF Spec

\* Every variable keeps to its type, and no entry is ever given up (models.go).
THEOREM QueueTypes == Spec => []TypeOK
<1> DEFINE Flags == /\ online \in BOOLEAN /\ isConnected \in BOOLEAN
                    /\ loggedIn \in BOOLEAN /\ overlapped \in BOOLEAN
<1>1. Init => Flags
  BY DEF Init
<1>2. ASSUME Flags, [Next]_vars PROVE Flags'
  <2>1. ASSUME Show PROVE Flags'
    BY <1>2, <2>1 DEF Show, queue, session, gatewayVars
  <2>2. ASSUME NEW correct \in BOOLEAN, LogIn(correct) PROVE Flags'
    BY <1>2, <2>2 DEF LogIn, AuthenticateUsers, queue, gatewayVars, history
  <2>3. ASSUME NEW p \in Payments, MakePayment(p) PROVE Flags'
    BY <1>2, <2>3 DEF MakePayment, Goto, queue, session, gatewayVars, history
  <2>4. ASSUME PaymentAnswered PROVE Flags'
    BY <1>2, <2>4 DEF PaymentAnswered, Return, Goto, IncrementCounter, queue, gatewayVars,
       history
  <2>5. ASSUME QueuePayment PROVE Flags'
    BY <1>2, <2>5 DEF QueuePayment, Goto, SetQueue, AddNotification, queue, session, gatewayVars
  <2>6. ASSUME CheckConnection PROVE Flags'
    BY <1>2, <2>6 DEF CheckConnection, Goto, queue, session, gatewayVars, history
  <2>7. ASSUME NEW s \in Threads, CopyQueue(s) PROVE Flags'
    BY <1>2, <2>7 DEF CopyQueue, Goto, Stop, queue, session, gatewayVars
  <2>8. ASSUME NEW s \in Threads, SendNext(s) PROVE Flags'
    BY <1>2, <2>8 DEF SendNext, Goto, queue, session, gatewayVars, history
  <2>9. ASSUME NEW s \in Threads, Settle(s) PROVE Flags'
    BY <1>2, <2>9 DEF Settle, Return, Goto, UpdateNotification, Outcome, queue, session,
       gatewayVars, history
  <2>10. ASSUME NEW s \in Threads, Cleanup(s) PROVE Flags'
    BY <1>2, <2>10 DEF Cleanup, SetQueue, Stop, Goto, queue, session, gatewayVars, history
  <2>11. ASSUME NEW c \in calls, GatewayServes(c) PROVE Flags'
    BY <1>2, <2>11 DEF GatewayServes, Answer, queue, session, gatewayVars, history
  <2>12. ASSUME NEW c \in calls, CallLost(c) PROVE Flags'
    BY <1>2, <2>12 DEF CallLost, clientVars, queue, session, gatewayVars, history
  <2>13. ASSUME NEW s \in Callers, CallTimesOut(s) PROVE Flags'
    BY <1>2, <2>13 DEF CallTimesOut, queue, session, gatewayVars, history
  <2>14. ASSUME GoOffline PROVE Flags'
    BY <1>2, <2>14 DEF GoOffline, clientVars, queue, session, gatewayVars, history
  <2>15. ASSUME GoOnline PROVE Flags'
    BY <1>2, <2>15 DEF GoOnline, clientVars, queue, session, gatewayVars, history
  <2>16. ASSUME Restart PROVE Flags'
    BY <1>2, <2>16 DEF Restart, LoadPendingPayments, queue, gatewayVars, history
  <2>17. ASSUME UNCHANGED vars PROVE Flags'
    BY <1>2, <2>17 DEF vars, clientVars, queue, session, gatewayVars, history
  <2> QED
    BY <1>2, <2>1, <2>2, <2>3, <2>4, <2>5, <2>6, <2>7, <2>8, <2>9, <2>10, <2>11, <2>12, <2>13,
       <2>14, <2>15, <2>16, <2>17 DEF Next, CheckNotifications, DisplayNotifications,
       DisplayTransactionStatus, Callers
<1>3. QueueInv /\ Flags => TypeOK
  <2> SUFFICES ASSUME QueueInv, Flags PROVE TypeOK
    OBVIOUS
  <2>1. QueueShape /\ Numbers /\ ThreadShape /\ Records
    BY DEF QueueInv, Fields
  <2> HIDE DEF Flags
  <2>2. pendingPayments \in Seq(Entry) /\ queueFile \in Seq(Entry)
    BY <2>1, ShortQueue, EmptyQueue DEF QueueShape
  <2>3. Flags
    OBVIOUS
  <2> QED BY <2>1, <2>2, <2>3 DEF TypeOK, Flags, QueueShape, Numbers, ThreadShape, Records,
             Callers
<1> HIDE DEF Flags
<1> QED BY <1>1, <1>2, <1>3, QueueInvariant, PTL DEF Spec

\* However often a payment is retried by the call, the queue and the network,
\* every life of the client executes it at most once (transactionCache).
THEOREM AtMostOncePerCache == Spec => []OncePerCache
<1>1. QueueInv => OncePerCache
  <2> SUFFICES ASSUME QueueInv, NEW p \in Payments PROVE moved[p] <= epoch + 1
    BY DEF OncePerCache
  <2>1. PICK r \in Requests : moved[p] <= Cardinality(Epochs(r))
    BY DEF QueueInv, OneRequest
  <2>2. epoch \in Nat /\ moved[p] \in Nat
    BY DEF QueueInv, Fields, Numbers, Records
  <2>3. Cardinality(Epochs(r)) \in Nat /\ Cardinality(Epochs(r)) <= epoch + 1
    <3>1. Epochs(r) \in SUBSET (0 .. epoch)
      BY DEF Epochs
    <3> QED BY <2>2, <3>1, SetOfEpochs
  <2> QED BY <2>1, <2>2, <2>3
<1> QED BY <1>1, QueueInvariant, PTL

\* A payment that was put into the queue stays there until its request has been
\* executed, crashes included (cleanupCompletedPayments).
THEOREM AcceptedStays == Spec => []AcceptedIsKept
<1>1. QueueInv => AcceptedIsKept
  BY DEF QueueInv
<1> QED BY <1>1, QueueInvariant, PTL

\* What is announced as succeeded was executed, though every notification has
\* the same key (UpdateNotification).
THEOREM AnnouncementsAreTrue == Spec => []AnnouncementIsTrue
<1>1. QueueInv => AnnouncementIsTrue
  BY DEF QueueInv
<1> QED BY <1>1, QueueInvariant, PTL
=============================================================================
