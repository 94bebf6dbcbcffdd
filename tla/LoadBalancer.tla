---------------------------- MODULE LoadBalancer ----------------------------
(***************************************************************************)
(* A2/P1-LoadBalancer: backend servers register with a balancer and report *)
(* their load every five seconds; the balancer keeps one entry per server  *)
(* in etcd; the clients ask it for a server before every task and call     *)
(* that server themselves.                                                 *)
(*                                                                         *)
(* etcd (external) answers each Get and Put in one step.  The balancer     *)
(* keeps only rrIndex in memory.  An entry has no lease: it outlives the   *)
(* server that wrote it.                                                   *)
(***************************************************************************)
EXTENDS Integers, FiniteSets, Sequences

CONSTANTS
    NumServers,          \* -servers; servers are named by the order of their etcd keys
    Clients,             \* the goroutines of the client program
    MaxConcurrentTasks,  \* maxConcurrentTasks
    MaxFailures          \* bound on crashes, and on calls to the balancer that fail

ASSUME LoadBalancerAssumption ==
    /\ NumServers \in Nat \ {0}
    /\ IsFiniteSet(Clients)
    /\ MaxConcurrentTasks \in Nat \ {0}
    /\ MaxFailures \in Nat

Servers    == 1 .. NumServers
Strategies == {"PICK_FIRST", "ROUND_ROBIN", "LEAST_LOAD"}
Status     == [load : Nat, available : BOOLEAN]
NoEntry    == [load |-> -1, available |-> FALSE]

VARIABLES
    etcd,             \* the status stored for each server
    rrIndex,          \* lb.rrIndex
    concurrentTasks,  \* the counter of each server
    server,           \* where each server is: boot, reporting, sleeping, down
    measured,         \* currentLoad of a reporter between its read and its report
    strategy,         \* -strategy, the same for all clients
    client,           \* where each client is: asking, choosing, calling, computing, done
    choices,          \* availableServers of a request under way
    chosen,           \* the server a client was sent to
    expired,          \* stopTime has passed
    failures,
    turns             \* history: servers given out by the present round of round robin

vars == <<etcd, rrIndex, concurrentTasks, server, measured, strategy, client, choices,
          chosen, expired, failures, turns>>

(* What the balancer stores for a registration and for a report. *)
Registered     == [load |-> 0, available |-> TRUE]
Reported(load) == [load |-> load, available |-> load < MaxConcurrentTasks]

Available == {s \in Servers : etcd[s].available}

Init ==
    /\ etcd = [s \in Servers |-> NoEntry]
    /\ rrIndex = 0
    /\ concurrentTasks = [s \in Servers |-> 0]
    /\ server = [s \in Servers |-> "boot"]
    /\ measured = [s \in Servers |-> 0]
    /\ strategy \in Strategies
    /\ client = [c \in Clients |-> "asking"]
    /\ choices = [c \in Clients |-> <<>>]
    /\ chosen = [c \in Clients |-> 0]
    /\ expired = FALSE
    /\ failures = 0
    /\ turns = {}

-----------------------------------------------------------------------------
(* Backend servers *)

Fail == /\ failures < MaxFailures
        /\ failures' = failures + 1

(* A server registers, also when the call fails: the error is only logged.   *)
(* Its reporter and its listener start next.                                 *)
RegisterServer(s) ==
    /\ server[s] = "boot"
    /\ server' = [server EXCEPT ![s] = "sleeping"]
    /\ \/ /\ etcd' = [etcd EXCEPT ![s] = Registered]
          /\ UNCHANGED failures
       \/ Fail /\ UNCHANGED etcd
    /\ UNCHANGED <<rrIndex, concurrentTasks, measured, strategy, client, choices, chosen,
                   expired, turns>>

Measure(s) ==
    /\ server[s] = "sleeping"
    /\ server' = [server EXCEPT ![s] = "reporting"]
    /\ measured' = [measured EXCEPT ![s] = concurrentTasks[s]]
    /\ UNCHANGED <<etcd, rrIndex, concurrentTasks, strategy, client, choices, chosen,
                   expired, failures, turns>>

\* Mutant of ReportLoad: a server without load does not report.
ReportLoadIfAny(s) ==
    /\ server[s] = "reporting"
    /\ server' = [server EXCEPT ![s] = "sleeping"]
    /\ measured' = [measured EXCEPT ![s] = 0]
    /\ \/ /\ measured[s] > 0
          /\ etcd' = [etcd EXCEPT ![s] = Reported(measured[s])]
          /\ UNCHANGED failures
       \/ measured[s] = 0 /\ UNCHANGED <<etcd, failures>>
       \/ Fail /\ UNCHANGED etcd
    /\ UNCHANGED <<rrIndex, concurrentTasks, strategy, client, choices, chosen, expired, turns>>

ReportLoad(s) ==
    /\ server[s] = "reporting"
    /\ server' = [server EXCEPT ![s] = "sleeping"]
    /\ measured' = [measured EXCEPT ![s] = 0]
    /\ \/ /\ etcd' = [etcd EXCEPT ![s] = Reported(measured[s])]
          /\ UNCHANGED failures
       \/ Fail /\ UNCHANGED etcd
    /\ UNCHANGED <<rrIndex, concurrentTasks, strategy, client, choices, chosen, expired, turns>>

Compute(c) ==
    /\ client[c] = "calling"
    /\ server[chosen[c]] \in {"sleeping", "reporting"}
    /\ client' = [client EXCEPT ![c] = "computing"]
    /\ concurrentTasks' = [concurrentTasks EXCEPT ![chosen[c]] = @ + 1]
    /\ UNCHANGED <<etcd, rrIndex, server, measured, strategy, choices, chosen, expired,
                   failures, turns>>

\* Mutant of FinishCompute: a task that ends does not decrement the counter.
FinishComputeWithoutDecrement(c) ==
    /\ client[c] = "computing"
    /\ client' = [client EXCEPT ![c] = "asking"]
    /\ chosen' = [chosen EXCEPT ![c] = 0]
    /\ UNCHANGED <<etcd, rrIndex, concurrentTasks, server, measured, strategy, choices,
                   expired, failures, turns>>

FinishCompute(c) ==
    /\ client[c] = "computing"
    /\ client' = [client EXCEPT ![c] = "asking"]
    /\ concurrentTasks' = [concurrentTasks EXCEPT ![chosen[c]] = @ - 1]
    /\ chosen' = [chosen EXCEPT ![c] = 0]
    /\ UNCHANGED <<etcd, rrIndex, server, measured, strategy, choices, expired, failures, turns>>

-----------------------------------------------------------------------------
(* The balancer.  GetBestServer reads etcd, and for round robin takes its    *)
(* mutex only afterwards; the other strategies choose from what was read     *)
(* without looking at any shared state again.                                *)

InKeyOrder(S) ==
    LET n == Cardinality(S)
    IN CHOOSE f \in [1 .. n -> S] : \A i, j \in 1 .. n : i < j => f[i] < f[j]

LeastLoaded == CHOOSE s \in Available : \A t \in Available :
                  \/ etcd[s].load < etcd[t].load
                  \/ etcd[s].load = etcd[t].load /\ s <= t

Send(c, s) == /\ client' = [client EXCEPT ![c] = "calling"]
              /\ chosen' = [chosen EXCEPT ![c] = s]

GetBestServer(c) ==
    /\ client[c] = "asking" /\ ~expired
    /\ Available # {}
    /\ \/ /\ strategy = "PICK_FIRST"
          /\ Send(c, InKeyOrder(Available)[1])
          /\ UNCHANGED choices
       \/ /\ strategy = "LEAST_LOAD"
          /\ Send(c, LeastLoaded)
          /\ UNCHANGED choices
       \/ /\ strategy = "ROUND_ROBIN"
          /\ client' = [client EXCEPT ![c] = "choosing"]
          /\ choices' = [choices EXCEPT ![c] = InKeyOrder(Available)]
          /\ UNCHANGED chosen
    /\ UNCHANGED <<etcd, rrIndex, concurrentTasks, server, measured, strategy, expired,
                   failures, turns>>

\* Mutant of Index: the index may run one past the list before it is reset.
LateReset(n) == IF rrIndex > n THEN 0 ELSE rrIndex

\* Mutant of Index: the index is reset before the last server is given out.
EarlyReset(n) == IF rrIndex >= n - 1 THEN 0 ELSE rrIndex

Index(n) == IF rrIndex >= n THEN 0 ELSE rrIndex

RoundRobin(c) ==
    /\ client[c] = "choosing"
    /\ LET n == Len(choices[c])
           s == choices[c][(Index(n) % n) + 1]
       IN  /\ Send(c, s)
           /\ rrIndex' = Index(n) + 1
           /\ turns' = IF n < NumServers \/ turns \cup {s} = Servers THEN {} ELSE turns \cup {s}
    /\ choices' = [choices EXCEPT ![c] = <<>>]
    /\ UNCHANGED <<etcd, concurrentTasks, server, measured, strategy, expired, failures>>

-----------------------------------------------------------------------------
(* Clients and crashes *)

(* The call to a server that is not there fails; the client asks again.      *)
ComputeError(c) ==
    /\ client[c] = "calling"
    /\ server[chosen[c]] \in {"boot", "down"}
    /\ client' = [client EXCEPT ![c] = "asking"]
    /\ chosen' = [chosen EXCEPT ![c] = 0]
    /\ UNCHANGED <<etcd, rrIndex, concurrentTasks, server, measured, strategy, choices,
                   expired, failures, turns>>

Expire ==
    /\ ~expired
    /\ expired' = TRUE
    /\ UNCHANGED <<etcd, rrIndex, concurrentTasks, server, measured, strategy, client,
                   choices, chosen, failures, turns>>

Stop(c) ==
    /\ client[c] = "asking" /\ expired
    /\ client' = [client EXCEPT ![c] = "done"]
    /\ UNCHANGED <<etcd, rrIndex, concurrentTasks, server, measured, strategy, choices,
                   chosen, expired, failures, turns>>

(* All servers of one launch die together; their tasks end with an error,    *)
(* and their entries stay.                                                   *)
CrashServers ==
    /\ Fail
    /\ \E s \in Servers : server[s] # "down"
    /\ server' = [s \in Servers |-> "down"]
    /\ measured' = [s \in Servers |-> 0]
    /\ concurrentTasks' = [s \in Servers |-> 0]
    /\ client' = [c \in Clients |-> IF client[c] = "computing" THEN "asking" ELSE client[c]]
    /\ chosen' = [c \in Clients |-> IF client[c] = "computing" THEN 0 ELSE chosen[c]]
    /\ UNCHANGED <<etcd, rrIndex, strategy, choices, expired, turns>>

StartServer(s) ==
    /\ server[s] = "down"
    /\ server' = [server EXCEPT ![s] = "boot"]
    /\ UNCHANGED <<etcd, rrIndex, concurrentTasks, measured, strategy, client, choices,
                   chosen, expired, failures, turns>>

(* The balancer restarts with the index at 0; a request under way fails.     *)
RestartBalancer ==
    /\ Fail
    /\ rrIndex' = 0
    /\ turns' = {}
    /\ client' = [c \in Clients |-> IF client[c] = "choosing" THEN "asking" ELSE client[c]]
    /\ choices' = [c \in Clients |-> <<>>]
    /\ UNCHANGED <<etcd, concurrentTasks, server, measured, strategy, chosen, expired>>

Next ==
    \/ \E s \in Servers : RegisterServer(s) \/ Measure(s) \/ ReportLoad(s) \/ StartServer(s)
    \/ \E c \in Clients : \/ GetBestServer(c) \/ RoundRobin(c)
                          \/ Compute(c) \/ FinishCompute(c) \/ ComputeError(c)
                          \/ Stop(c)
    \/ Expire \/ CrashServers \/ RestartBalancer

(* The reporter loops forever, the balancer and the servers handle every     *)
(* call, the clients go on until stopTime, which comes.  Nobody is bound to  *)
(* start dead servers again.                                                 *)
Fairness ==
    /\ \A s \in Servers : /\ WF_vars(RegisterServer(s)) /\ WF_vars(Measure(s))
                          /\ WF_vars(ReportLoad(s))
    /\ \A c \in Clients : /\ WF_vars(RoundRobin(c)) /\ WF_vars(Compute(c))
                          /\ WF_vars(FinishCompute(c)) /\ WF_vars(ComputeError(c))
                          /\ WF_vars(Stop(c))
    /\ WF_vars(Expire)

Spec == Init /\ [][Next]_vars /\ Fairness

-----------------------------------------------------------------------------
(* Properties *)

(* Every variable keeps to its type: the index is within the list, one past  *)
(* its end included, and a request has something to choose from.             *)
TypeOK ==
    /\ etcd \in [Servers -> Status \cup {NoEntry}]
    /\ rrIndex \in 0 .. NumServers
    /\ concurrentTasks \in [Servers -> 0 .. Cardinality(Clients)]
    /\ server \in [Servers -> {"boot", "reporting", "sleeping", "down"}]
    /\ measured \in [Servers -> 0 .. Cardinality(Clients)]
    /\ strategy \in Strategies
    /\ client \in [Clients -> {"asking", "choosing", "calling", "computing", "done"}]
    /\ \A c \in Clients : /\ choices[c] \in Seq(Servers)
                          /\ client[c] = "choosing" <=> choices[c] # <<>>
                          /\ chosen[c] \in IF client[c] \in {"calling", "computing"}
                                           THEN Servers ELSE {0}
    /\ expired \in BOOLEAN
    /\ failures \in 0 .. MaxFailures
    /\ turns \in SUBSET Servers

(* The counter a server reports is the number of tasks it is computing,      *)
(* after failed calls and crashes too: a count that leaked would keep the    *)
(* server unavailable for good (Compute, server/main.go:46).                 *)
TasksAreCounted ==
    \A s \in Servers :
        concurrentTasks[s] =
            Cardinality({c \in Clients : client[c] = "computing" /\ chosen[c] = s})

(* While every request finds all servers available, round robin gives out    *)
(* each server once before it gives out any again, however the requests      *)
(* interleave between their look at etcd and the mutex (GetBestServer).      *)
RoundRobinIsFair ==
    [][\A c \in Clients : client[c] = "choosing" /\ client'[c] = "calling"
                          /\ Len(choices[c]) = NumServers => chosen'[c] \notin turns]_vars

(* When the clients' time is over, the entry of every server that is up      *)
(* comes to say that it has no load and takes tasks, also if reports were    *)
(* lost, its registration failed, or it restarted over the entry of its      *)
(* predecessor (simulateBackendServer's reporter).                           *)
LoadsDrain ==
    \A s \in Servers :
        expired ~> (server[s] # "down" => etcd[s] = Registered)

=============================================================================
