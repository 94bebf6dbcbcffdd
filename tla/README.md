# Verification of Distributed_Systems_IIITH

TLA+ models, model-checking runs and machine-checked proofs about the programs
of this repository: the two-phase payment system *Strife*, the Byzantine
generals, the MPI file system and the smaller assignments around them.
Paths below are relative to `src/`; `A1` is `Assignment1`, `A2` is
`Assignment2`.

## 1. Inventory

| Part | State it keeps | Operations | Status |
|---|---|---|---|
| Strife banks, `A2/P3-Strife/bank/bank_server.go` | per bank: client balances, map transaction id → (state, amount, client), one mutex | `PrepareDebit/Credit`, `CommitDebit/Credit`, `Abort`, `ProcessPayment`, `GetBalance` | modelled |
| Strife coordinator, `gateway/payment/processor.go` | none of its own: a goroutine per call, its context | `ProcessPayment` → `processTwoPhasePayment` → `preparePhase`, `commitPhase`, `abortTransaction`, `updateTwoPhaseBalances`; `processSimplePayment` | modelled |
| Transaction manager, `gateway/payment/transaction.go` | map id → two-phase or simple record, in memory | store, look up, list, `HasActiveTransaction`, `CleanupTransaction`, expiry every 10 s | modelled |
| Balance storage, `gateway/storage/balances.go` | copy of all balances; `data/balances.json` | load at start, `GetBalance`, `UpdateBalance`, `SaveBalances` | modelled |
| Bank connections, `gateway/banking/*.go` | map bank → client connection | look up or dial, the calls of both phases | modelled |
| Strife client: interceptors, `client/interceptors` | cache client:receiver:amount:request → transaction id, in memory | attach the id, retry a failed call | modelled with the queue, the attempts of a call as one; logging left out |
| Strife client: offline queue, `client/payment` | `pendingPayments` (memory and JSON file), `isConnected`, notifications, request counter | log-in, `QueuePayment`, `processPayments`, connection checker, clean-up, announcements, load at start | modelled |
| Strife gateway: server, auth | users, config | authenticate, check the role of a caller, give the status of transactions | status and role check modelled; certificates, configuration and the password left out |
| Strife gateway: logging, recovery and retry interceptors, `storage/transactions.go` | – | log; the last two are not used | not modelled |
| Byzantine generals, `A2/P4-ByzantineConsensus` | server: generals, their message logs, rounds; client: roles, round, the calls in flight | `RegisterGeneral`, `SendOrder`, `ExchangeMessage`, `GetConsensus`; the client's rounds | modelled |
| Distributed file system, `A1/P3-DistributedFS/3.cpp` | master: replicas and load of chunks, node status, failover; worker: chunks | upload, retrieve, search, list, failover, recover, heartbeats | modelled, but for exit |
| MapReduce, `A2/P2-MapReduce` | intermediate and output files, which outlive a job | launches, map and reduce tasks in goroutines | modelled |
| Load balancer, `A2/P1-LoadBalancer` | an entry per server in etcd, round-robin index, task counter of each server | register, report load, best server, tasks | modelled |
| Maze escape `A1/P1-MazeEscape`, bouncing balls `A1/P2-BouncingBalls` | MPI ranks with a part of the nodes or of the balls | level-synchronous BFS; simulation in steps | modelled |
| Generated protobuf code, UI, TLS, test scripts, data | – | – | not modelled: generated code and plain input/output |

### How the parts of Strife interact

    client --MakePayment(id)--> gateway --Prepare/Commit/Abort(id)--> bank A
      ^ retries after 3 s         |  one goroutine per call  \------> bank B
      |                           |  30 s context
      +------- answer ------------+--> balances.json --(start)--> banks

The gateway keeps its own copy of every balance, which it checks before and
updates after the protocol, and saves to the file the banks read when they
start.  The client stops waiting after three seconds and re-sends the payment
under the cached id while the first handler may still be at work.

### What is hard here

* **Interleaving.** Handlers for one id or one account overlap between any two
  acquisitions of a lock (`processor.go:105,137,256,286,581`).
* **Time-outs.** A context that ends cancels calls that the bank may already
  have executed, may be about to execute or will never see.
* **Crashes.** The transaction map lives in memory; the banks' balances come
  back from a file that only the gateway writes; `CommitDebit` panics on an
  unknown id.
* **Byzantine messages, lost calls and ties** in the generals' vote.
* **Node status that changes** between a check and the receive that relies on it, in the file
  system; **heartbeats** that race with fail-over.

What makes each part correct:

* *Payments*: an answer tells the truth; both sides of a transfer move or
  neither; a payment runs at most once however often it is sent; a vote is
  kept; nothing is left prepared; funds never go below zero; the copies of the
  balances agree; every payment is answered.
* *Generals*: agreement, validity, a truthful report, an end.
* *File system*: a file is returned whole from live replicas or not at all;
  replicas are distinct and balanced; an answer belongs to its request.
* *Search*: a word is found wherever the file was cut.
* *Offline queue*: an accepted payment stays until it was executed, is executed
  once, and what the user is told is true.
* *MapReduce*: the output is that of the sequential computation. *Load
  balancer*: every server gets its turn, and what is known of a server comes
  right again.  *Maze* and *balls*: whatever the order of the ranks, the result
  is that of a sequential program.  *Payments without a receiver*: a repeated
  payment is charged once, and no ledger is overdrawn.

## 2. Modules

| Module | Models |
|---|---|
| `Bank` | The state of all banks and the effect of each remote call. Each handler runs under the bank's mutex, so each is one operator. |
| `TwoPhasePayment` | Extends `Bank`: gateway handlers, the transaction map, the calls on the wire, balance copies, faults. |
| `AtomicPayment` | The promise to a client: a transfer happens at one instant or not at all, at most once, and answers are true. |
| `MCTwoPhasePayment` | Instances for TLC. |
| `TwoPhasePayment_proofs` | TLAPS proofs: what holds under every fault, what two-phase commit guarantees without faults, and that the ledgers agree. |
| `SimplePayment`, `MCSimplePayment` | A payment without a receiver: the gateway against one bank's `ProcessPayment`, with the file and the role check between them. |
| `SimplePayment_proofs` | The four invariants of `SimplePayment`, proved. |
| `OfflineQueue`, `MCOfflineQueue` | The Strife client: log-in, console, queue, announcements, request ids and transaction ids, against a gateway that keeps the promise of `AtomicPayment`. |
| `OfflineQueue_proofs` | The safety of the queue, the ids and the announcements, proved. |
| `ByzantineGenerals`, `MCByzantineGenerals` | The server and the client that plays all generals. |
| `ByzantineGenerals_proofs` | Agreement, validity and the truth of the report, proved by counting votes. |
| `DistributedFS`, `MCDistributedFS` | Master and workers of the file system, fail-over and heartbeats. |
| `DistributedFS_proofs` | The invariants of the file system, proved. |
| `WordSearch` | The search of one worker in a file that is cut into chunks. |
| `MazeEscape`, `BouncingBalls` | The two MPI programs that compute a result in rounds. |
| `MCRankPrograms` | The three modules above as alternatives of one instance: a launch runs one of them. |
| `LoadBalancer`, `MCLoadBalancer` | Servers, balancer and clients around etcd. |
| `LoadBalancer_proofs` | The counters of tasks and round robin, proved. |
| `MapReduce`, `MCMapReduce` | Client, tasks and the files they leave, over several jobs. |
| `MapReduce_proofs` | What a job computes, with and without failures, proved. |
| `RankPrograms_proofs` | Proofs about `MazeEscape`, `WordSearch` and `BouncingBalls`: their results are those of the sequential definitions, and no rank is stuck. |

### TwoPhasePayment against the code

A *handler* is one execution of `MakePayment`; `pc[h]` says which statement it
is about to execute.  Each step is one critical section or one call of the code:

| pc | Code |
|---|---|
| `lookup` | `GetTwoPhaseTransaction` and the switch on its state (`processor.go:96-134`) |
| `funds` | comparison with the gateway's copy of the balance (`:136-160`) |
| `admit` | `HasActiveTransaction` (`:255-267`) |
| `register` | `StoreTwoPhaseTransaction` of a fresh record, replacing any other (`:269-290`) |
| `connecting` | `GetBankForClient` for sender, then receiver (`:324-343`) |
| `preparing` | two goroutines call the banks; `select` on votes and context (`:345-425`) |
| `prepared`, `committing` | the same for the commit (`:427-538`) |
| `abortDebit`, `abortCredit` | the two `Abort` calls in turn (`:540-576`) |
| `cleanup` | `CleanupTransaction` and the failure (`:292-304`) |
| `storeDebit`, `readCredit`, `storeCredit`, `save` | `updateTwoPhaseBalances` and `SaveBalances` (`:578-600`) |

`record[t]` is the handler whose record the map holds for `t`: records are
pointers, so a handler whose record has been replaced goes on writing to its
own.  `state[h]` is that record's `State`.  A call is a member of `wire` from
the moment its goroutine is started; it may be executed (`ServePrepare`,
`ServeCommit`), it may fail when the context ends while it stays on its way to the bank
(`CallExpires`), or be lost (`CallLost`).  `applied[h]` is a history variable: the
sides of the transfer executed on behalf of `h`.  Faults are switched on by
constants: `MayExpire` (contexts end), `Overlap` (the client queue sends a
payment twice at once), `MayForget` (the 24 h expiry of records),
`MaxBankRestarts`, `MaxGatewayRestarts`.

Data are abstracted: amounts are positive naturals (the code's `float32`
rounding is not modelled), names and ids are model values, log lines and
messages are left out.  A bank restart is one step: a bank that is down for a
while differs only by more failing calls.  Errors of file writes are not
modelled, nor is a file cut short by a crash.

### ByzantineGenerals against the code

The client is one process; the calls of a round are a set `calls` in flight,
because it starts a goroutine for each and waits for all.  A traitor's value is
altered by the client before and by the server after the call, each at random,
which is one nondeterministic choice (`Delivered`).  The log of each general is
a set of `messages`; the commander keeps a copy of every order it sends, as the
code does.  `GetConsensus` counts messages of rounds up to the *actual* number
of traitors plus one, although the client plays rounds up to the allowed number.
Locks are abstracted to atomic handlers; the nested read lock of `makeDecision`
is reachable only for a commander without any message (see the hazards).

### DistributedFS against the code

Rank 0 runs three threads: the console, the heartbeat listener and the monitor.
The console executes a command at a time; within a command each use of
`nodeStatus` is a step of its own, because the other threads change it in
between (`3.cpp:86,241,344,369`).  A worker serves its messages one after the
other, and MPI keeps the order of messages between two ranks under one tag, so
that a worker's answer is a function of what it stores and can be computed when
the master asks for it (`UploadWorker` and `RetrieveWorker` are its part); what stays visible is the queue of search answers that
were not received.  `Heartbeat` and `Silence` stand for the clock: a worker that
is not told to be down is heard of in time, except for at most `MaxLate` times.
Chunks are numbered; their contents and the offsets in them are the matter of
`WordSearch`.  The command `exit` is left out: whether its joins return depends
on whether a worker's last heartbeat comes before or after the master lowers
`running`, which is a matter of timers.

### WordSearch against the code

A worker searches each of its chunks merged with the two neighbours it was sent
along (`3.cpp:314-325`); since offsets are collected in sets and every chunk is
on some node that answers, the model searches all chunks in order.  A step is a
round of the loop of `searchWordInChunk`.  Two limits of the code are in the
properties: a match *in the next chunk* that reaches its end is taken for a
complete word, because the chunk after it is not merged (`:297`;
`FalseHitsAreCut` says that this is the only kind of false hit), and an empty word
never leaves the loop, although `:327` means to answer it with -1
(`SearchEnds` is stated for the others).

### SimplePayment against the code

`call[k].pc` is the statement a handler is about to execute; `balance` is what
it read before it called the bank and writes back afterwards
(`processor.go:136,215`).  `orders` and `replies` are the two directions of the
call; `CallFails` may happen in either, or before the bank acts.  A record is
taken for an answer only if two-phase payments are off (`:111`), so that the
configuration is a variable chosen at the start.  `saves` counts the goroutines
that will write the file.  Who has no role is refused by `Unary`, which asks for
a role and not for a log-in.  The interceptor is one step with the arrival, as
the roles do not change.

### OfflineQueue against the code

The threads are the console (`User`), the connection checker and goroutines
that `QueuePayment` starts (`Spawned`; a payment that would need one more waits
for one to end).  A step of `processPayments` is what happens between two
acquisitions of the queue's mutex.  A transaction id is what it is made from: the request
(receiver and amount, request number) and the life of the client (`epoch`), as
the cache is in memory.  The id a *queued entry* holds is always empty, since
`handleMakePayment` reads it from a context the interceptor does not change
(`client.go:253`); therefore an entry is found only as "the first", a
payment is not queued while another is, and there is never more than one
notification (`notice`).  The gateway executes an id at most
once and remembers it, which is what `AtomicPayment` promises and what
`TwoPhasePayment` shows where it is true; its refusals are a free choice.  The
time-out, the three attempts of a call and lost answers are a call that fails at
any moment while it may or may not reach the gateway.  `Restart` covers a crash
and a log-out alike.  Displaying changes the state only where a notification is
marked or removed with it.

### LoadBalancer against the code

etcd is external: a Get or a Put is one step.  Round robin reads the list before
it takes the balancer's mutex, which are two steps; the other strategies use
what they read at once.  A server's reporter reads the counter and reports it in two
steps.  The servers of one launch live in one process and die together; nobody
need start them again, and their entries stay.  The clients' time ends at any
moment (`Expire`).

### MapReduce against the code

A task is one step: nothing another task writes is read by it, as the reducers
start when all map tasks have returned.  A failing map task has written any
number of its words.  The files are kept from job to job, so that a job meets
what others with more inputs, more reducers or another mode have left.  The
result of Go's `%` on a negative hash is modelled as Go computes it.

### MazeEscape and BouncingBalls against the code

A rank's code between two MPI collectives is one step.  A collective lets a rank
leave when all have entered; what a rank contributed is kept until the others
have read it.  The vote of `1.cpp:82` passes a `bool` of one byte as `MPI_INT`:
what the neighbouring bytes hold is a free choice, made at most `MaxGarbage`
times for a rank without work.  `BouncingBalls` includes the distribution in
chunks and the gathering in the order of the ranks, also with more ranks than
balls.  `global_collisions` adds up rank after rank what they have put in for a
key, and `global_flat_data` lays their chunks one after the other, as the loops
of `2.cpp:43` and `:167` do; both are recursive functions.

`MazeSpec`, `BallsSpec` and `SearchSpec` are one program each, for any input;
`MCRankPrograms` offers TLC the small inputs of all three.  A collective and a
receive have their conditions as operators of their own (`CanExchange`,
`CanReduce`, `CanDecide`, `CanReceive`, `CanMove`, `CanGather`), which are the
whole guards of the actions: `MazeNeverStuck` and `BallsNeverStuck` say
with them, and without `ENABLED`, that some rank can go on.

## 3. Runs

| Run | Instance | Shows |
|---|---|---|
| `Transfers` | 5 calls, 4 payments between 3 accounts at 2 banks and an unknown name; no fault | A refused payment moved nothing, votes bind, nothing stays prepared, a payment sent twice runs once, a success is remembered, the gateway's balances agree with the banks' unless two updates raced, and the protocol refines `AtomicPayment` |
| `Faults` | 2 overlapping calls for 1 payment; contexts end, calls are lost, one restart of the banks and of the gateway, the panic, expiry | types; a reported success and a status "committed" are always true |
| `Answered` | 2 calls for 1 payment, contexts end | every payment is answered (liveness) |
| `AtomicityUnderTimeout` | 1 call, contexts end | **violated** `AllOrNothing` |
| `SimplePayments` | 3 calls, 2 payments, one crash, calls lost or late, records expire, with and without roles and two-phase payments | no ledger is overdrawn, neither the gateway nor its file ever has less than the bank, a calm repetition is charged once, a reported success was charged |
| `Queue` | 2 like payments, checker and one goroutine, one outage, one restart | an accepted payment is kept and executed at most once in each life of the client, no untrue success is announced, a gateway that stays reachable is noticed (liveness) |
| `SamePaymentTwice` | the same without restart | **violated** `SuccessMeansPaid` |
| `Generals` | n = 4, t = 1, one failing call, three kinds of simulation | agreement, validity, truth of the report; deadlock is checked, so the client never hangs |
| `FileSystem` | 3 workers, 2 replicas, files of 2 and 1 chunks, 2 searches, 2 changes of node status, 1 late heartbeat | replicas are distinct and stored, what is listed is stored, the load is balanced, a read fails only if a chunk has no live replica, a search that nothing disturbs is complete; deadlock is checked |
| `RankPrograms` | 2 ranks on mazes of 4 nodes; 3 ranks, up to 4 balls, 2 steps; texts of up to 5 letters in chunks of 2 | shortest distances; the balls of a sequential program; no rank stuck in a collective; words are found across cuts, false hits need a cut, a search ends (liveness) |
| `Balancing` | 2 servers for one task each, 2 clients, 2 failures, each strategy | tasks are counted through failures, round robin is fair, entries come right when the clients are done (liveness) |
| `Jobs` | 2 jobs, 3 inputs, up to 2 reducers, 2 failures, 3 modes | a job without failures is sequential whatever is left from before, failures only lose words, every job ends (liveness) |

Both violations are the program contradicting its own README; the
quotations are in `PROJECT.json` under `findings`.

### Further divergences

Found with these models, described here and not run:

* `AtMostOnce` fails for two overlapping calls with one id (`Overlap`), which
  both pass `HasActiveTransaction` before either stores its record
  (`processor.go:256`, against `A2/P3-Strife/README.md:266`).  It fails as well
  when a context ends after one commit, since the gateway then forgets the payment,
  and when the gateway restarts; `NothingLeftPrepared` fails when a prepare
  arrives after the abort.  The properties of `Transfers` are therefore checked
  without those faults, and those that need no such restriction with all of
  them (`Faults`).
* `NoOverdraft` fails for two transfers that prepare against the same funds:
  `PrepareDebit` sets nothing aside (`bank_server.go:183`).
* `Agreement` fails for n = 4, t = 1 and a traitorous commander that orders an
  attack: the tie of two votes against two makes one lieutenant retreat
  (`P4-ByzantineConsensus/server/main.go:402`); `Generals` has the commander
  order a retreat when it is the traitor.
* `SearchIsComplete` fails when a node is marked down between the check of the
  replicas and the receiving (`3.cpp:369`); `CalmSearchIsComplete` says that
  this is the only reason.
* With two-phase payments on, a repeated payment without a receiver is charged
  again, as its record is passed over (`processor.go:111`).
* A failed map task costs the words of later, completed tasks
  (`P2-MapReduce/server/main.go:107`).
* The two limits of the search named above (`3.cpp:293,297`).
* An entry of a dead server stays in etcd for ever, and pick first sends every
  client there (`lb_server/main.go:46`).

### Hazards without a property

* `SaveBalances` rewrites its file in place; a crash half-way leaves a file that
  nobody can parse (`balances.go:126`).  The model writes it in one step.
* The votes are kept per bank name, so that both accounts at one bank share a
  vote (`processor.go:410`); no instance has it, as the README assumes two banks.
* `makeDecision` takes a read lock again that `GetConsensus` holds
  (`P4-ByzantineConsensus/server/main.go:364`); only a commander without any
  message gets there, which the shipped client does not produce.
* The join of the file system's listener at `exit` (`3.cpp:464`), see above.

### Bounds

* Two handlers for one id are enough for every race on the map, the records
  and the banks' states: each race is between a handler and one that overtakes
  it.  `Transfers` adds payments of other ids for the races over accounts.
* Funds are chosen so that both outcomes of each comparison occur: Alice can
  afford one of her two transfers, and another once Bob has paid her.
* One restart of each kind: after it, maps are empty, as after any other.
* Four generals and one traitor are the smallest instance of n > 3t with t > 0
  and the code's default.  One failing call shows that a round ends without it.
  Lieutenants are interchangeable, so `Generals` uses symmetry over them.
* Three workers with two replicas leave a choice of nodes to the placement and
  let a read meet no, one or two live replicas.  Two changes of status cover
  fail-over and recovery within one command; a second search is needed to
  receive what the first has left.
* Two payments of one kind are needed to share a request id or a queue; one
  restart empties the cache of ids; the outage makes every call fail at once.
  `Queue` does not check for deadlock: at the end there is nothing left to pay.
* `SimplePayments`: two payments of different amounts of which the deposit
  covers one of each; a third call repeats one of them or meets both.
* `RankPrograms`: in four nodes there are paths of three levels over both ranks
  and detours to choose between; four balls are needed to turn back; a torus of
  one and one of two rows have cells that are their own or twice a neighbour; five letters make three chunks with a
  shorter last one, and a word that lies in the next chunk up to its end and goes on.
* `Balancing`: two servers and two clients make every race on the index and the
  loads; two failures let a report be lost after a crash.
* `Jobs`: the first job leaves files for the second; two failures hit two tasks
  of one job; one of three words has a negative hash.
* `RankPrograms`, `Jobs`, `SimplePayments`, `Transfers`, `Faults` and `Answered`
  do not check for deadlock either, because the programs or their calls end.

### Fairness

`FairSpec` of `TwoPhasePayment` assumes weak fairness of the steps of each
handler, which is a goroutine the Go scheduler does not starve, and of the
execution of each call that is on its way to a bank, which a bank's server
executes in a goroutine of its own.  Nothing is assumed of the clients, of contexts, which
need not end, of lost calls, or of restarts.

`OfflineQueue` assumes that the checker's loop and a thread in `processPayments` go on
and that a call under its three-second context ends; nothing of the user, the
gateway or the network.  `LoadBalancer` assumes that reporters loop, that calls are handled
and that the clients' time ends; nothing of crashed servers.  `MapReduce`
assumes that a task returns or fails.  `WordSearch` assumes that a worker goes
on with its loop.  The generals and the file system state no liveness: there
the absence of deadlock says that no wait is for ever; `MazeNeverStuck` and
`BallsNeverStuck` say the same of the maze and the balls, which end.  `SimplePayment` states no liveness.

## 4. Proofs

All theorems hold for every value of the constants that the assumption named in
the component's module admits (`PaymentAssumption`, `SimplePaymentAssumption`,
`OfflineQueueAssumption`, `GeneralsAssumption`, `LoadBalancerAssumption`,
`DistributedFSAssumption`, `MapReduceAssumption`, `MazeAssumption`,
`WordSearchAssumption`, `BallsAssumption`), and under every fault of the model unless a
hypothesis is named here.  Each inductive invariant was model-checked on the
component's instance before it was proved.  Together they state every invariant
and every action property that a run checks; what is left to TLC alone is liveness.

| Module | Theorem | States | Hypothesis |
|---|---|---|---|
| `TwoPhasePayment_proofs` | `TypeCorrect` | `TypeOK` | – |
| | `SuccessIsTrue` | `SuccessMeansBothMoved` | – |
| | `StatusIsAlwaysTrue` | `StatusIsTrue` | – |
| | `CalmVotesBind` | `VoteBindsBank` | `CalmRun` |
| | `CalmAtMostOnce` | `AtMostOnce` | `CalmRun` |
| | `CalmFailures` | `FailureMeansNothingMoved` | `CalmRun` |
| | `CalmNothingPrepared` | `NothingLeftPrepared` | `CalmRun` |
| | `CalmSuccessIsRemembered` | `SuccessIsRemembered` (of steps) | `CalmRun` |
| | `CalmImplementsPromise` | `ImplementsAtomicPayment` (refinement) | `CalmRun` |
| | `CalmLedgersAgree` | `LedgersAgree` | `CalmRun` |
| `SimplePayment_proofs` | `TypeCorrect` | `TypeOK`: no ledger is overdrawn | – |
| | `NoFalseSuccess` | `SuccessMeansCharged` | – |
| | `NeverBelowBank` | `GatewayNeverBelowBank` | – |
| | `ChargedOnceWhenCalm` | `OnceWhenCalm` | – |
| `OfflineQueue_proofs` | `QueueTypes` | `TypeOK` | – |
| | `AtMostOncePerCache` | `OncePerCache` | – |
| | `AcceptedStays` | `AcceptedIsKept` | – |
| | `AnnouncementsAreTrue` | `AnnouncementIsTrue` | – |
| `ByzantineGenerals_proofs` | `GeneralsTypes` | `TypeOK` | – |
| | `ReportTrue` | `ReportIsTrue` | – |
| | `OrdersAreObeyed` | `Validity` | more than one general |
| | `LoyalGeneralsAgree` | `Agreement` | more than four generals, or traitorous commanders order a retreat |
| `LoadBalancer_proofs` | `BalancerTypes` | `TypeOK` | – |
| | `TasksCounted` | `TasksAreCounted` | – |
| | `RoundRobinGivesAll` | `RoundRobinIsFair` (of steps) | – |
| `DistributedFS_proofs` | `FileSystemTypes` | `TypeOK` | – |
| | `MetadataTrue` | `MetadataIsTrue` | – |
| | `LoadBalanced` | `LoadIsBalanced` | – |
| | `RefusedForCause` | `RetrieveFailsForCause` | – |
| | `CalmSearchComplete` | `CalmSearchIsComplete` | – |
| `MapReduce_proofs` | `JobTypes` | `TypeOK` | – |
| | `JobsAreSequential` | `JobIsSequential` | – |
| | `FailuresLose` | `FailuresOnlyLose` | – |
| `RankPrograms_proofs` | `MazeTypes` | `MazeTypeOK` | – |
| | `MazeDistances` | `DistancesAreShortest` | – |
| | `MazeGoesOn` | `MazeNeverStuck` | – |
| | `SearchOffsets` | `OffsetsAreWords` | – |
| | `BallsTypes` | `BallsTypeOK` | – |
| | `BallsOutput` | `OutputIsSequential` | – |
| | `BallsCollisions` | `CollisionsAreArrivals` | – |
| | `BallsGoOn` | `BallsNeverStuck` | – |

`CalmInvariant`, `CalmLedgers`, `QueueInvariant`, `GeneralsInvariant`,
`BalancerInvariant`, `FileSystemInvariant`, `JobInvariant`, `MazeInvariant`,
`SearchInvariant` and `BallsInvariant` state the inductive invariants these
follow from.

### Two-phase payments under faults

`SuccessMeansBothMoved` is not inductive: a handler's answer depends on the
replies it collected and on the record another handler left in the map.
`SuccessInv` strengthens it by three facts: a positive reply that a committing
handler holds is to a commit that was executed (`ConfirmedIsApplied`); a handler
past the commit phase, or whose record is marked committed, had both sides executed
(`CommittedIsApplied`); and the map holds a record only under the id it was made
for (`RecordIsForItsId`), so that "already processed" speaks of the same
payment.  The steps that matter are `ServeCommit`, which executes a side and
delivers the reply at once, `CommitDone`, which draws the conclusion from the
replies, and `Lookup`, which draws it from the map.  `AppliedGrows` says that
nothing takes back what was executed.  `StatusIsTrue` follows from the same
invariant, because a status is read from the record the map holds.

### Two-phase payments without faults

`CalmRun` says that no context ends, no process restarts, no record expires, no
payment is sent again while its call is handled, and the two accounts of a
transfer are at different banks (the README of Strife assumes the last).
Any number of payments still run at once.  Every conjunct is needed: with any
one of them dropped, TLC finds a run of one transfer and two calls in which the
refinement of `AtomicPayment` fails, and for most of them `VoteBindsBank` and
`AtMostOnce` too (see *Further divergences*).

`CalmInv` relates three places that know of a payment: the handler, the map and
the banks.  One handler of a payment is at work (`OneAtATime`), the map holds
its record (`RecordFollows`), each bank is exactly as far as the handler's `pc`
and replies say (`SidesFollow`), and a prepared record at a bank has a handler
that will commit or abort it (`PreparedIsPending`).  A calm run takes only the
steps of `CalmStep`.  For the refinement, the transfer of `AtomicPayment` happens with the
first of the two commits: from then on the second is certain, because the other
bank still has what it voted for.  All other steps stutter, start a request or
answer one.

`LedgersAgree` speaks of a gateway at rest; on the way there its copy of a
balance lags behind the bank by every side of a transfer that was executed and
not yet stored.  `LedgerInv` says by how much (`CopyFollows`): the amounts of the
handlers in `Leaving(c)` and `Coming(c)`, any number of them at once.  The sum
is the cardinality of `Money(H)`, which has as many elements for each handler of
H as its transfer has units, so that one more handler or one less is a step of
arithmetic (`MoneyAdded`) where a recursive sum would need induction over sets.
The file is the copy unless a handler is between its two updates and the
saving.  The invariant holds up to the first time a balance is written back over
somebody else's update (`raced`), as the property says.

### Payments without a receiver

What the gateway writes back was read before the call to the bank.
`NeverBelowBank` needs `ReadsNotBelowBank`: whoever is on the way to the bank
has read a balance no less than the bank's, and no less than it by the amount
once the bank has said yes.  `OnceWhenCalm` needs `CalmId`: for an id nothing
has disturbed the one charge is known to the call under way or to the record.

### Offline queue

A payment can be in the queue, in the copy of a thread, in a call that may still
be executed after everyone has given it up, and in the user's hand.
`OneRequest` says that all those traces carry one request, and that the
payment has moved no more often than there are lives of the client in which that
request has an id at the gateway; `OncePerCache` follows.  For the announcements,
`WorkIsQueued` and `NoticeIsQueued` tie what a thread works on and the one
notification to the entry in the queue, as long as no two threads process the
queue at once.

### Generals

The invariant says what a log holds: the messages of each round that has gone by
from every pair (`Arrived`, while no call failed), each once (`Once`), honest
ones with the order (`Logs`).  With k traitors who can send, the loyal
generals then have k(n-k-1) true votes against at most k², or k²+1 with a
traitorous commander's order; `GeneralsAssumption` (n > 3t and t < 4, which the
client checks) makes the first the larger, but for one case: four generals and
a traitorous commander that orders an attack come to two against two.  That tie
is real and is described among the divergences, hence the hypothesis of
`LoyalGeneralsAgree`.  A lone commander has no message to count and retreats,
hence that of `OrdersAreObeyed`.

### Load balancer

Round robin reads a list first and takes the index later, so the lists
two clients hold differ when a server fails in between.  `RoundIsArc`
says that the servers of the present round are a contiguous arc that ends at the
index, which is preserved as long as every request finds all servers
(`ListsAreOrdered`: such a list is the one list of all servers).

### File system

`MetadataIsTrue` needs that what an upload has placed so far is stored
(`Placing`), and that a stored chunk belongs to a known file or to the upload
under way (`Provenance`): so the chunk about to be stored is new to the node,
and the count equals the number of chunks.  The balance needs one more fact than
it states: within a chunk, a node that has its replica carries no less than one
that has not (`Balance`).  A read fails for cause because every replica it
passed over was down when it looked (`PassedOver`): that one is up and lacks the
chunk contradicts `MetadataIsTrue`.  A calm search is complete because each
chunk keeps a replica that is up from its check to the end, and what that worker
sent is the answer to this search (`Searching`, `Awaited`).

### MapReduce

`WrittenInv` says that a completed map task has written all of its lines for
every reducer, whatever the files held before; `FreshInv` that on a fresh
installation there is nothing else; `OutputInv` that a completed reducer's table
is that of the files it reads.  A sequential program's result is the same
operator applied to all lines (`SequentialIsValue`), and a larger set of lines
gives no smaller counts and postings (`ValueGrows`), which bounds what failures
lose from both sides.  The counts are cardinalities of sets of lines, and the
files functions of a task and a reducer, so that no sum over a sequence is needed.

### Maze

`Within[k]` are the nodes from where the exit is at most k moves away.
A recursive function is a `CHOOSE`; that there is one which satisfies the
equation (`WithinDef`) is proved by the least number up to which none would,
since a solution up to n - 1 is extended by one value.  The layers
partition the nodes that reach the exit, and an empty layer is the last
(`ShortestIs` and the lemmas before it).  `RankInv` says what a rank knows at each step of
level l: before the level, the layers up to l; after the expansion, also what it
found of its own nodes; after the exchange, all of layer l + 1 that it owns; after the
minimum, all of that layer.  `Together` says that two ranks are in one level, on
both sides of at most one collective, or that one has left a vote for the next
level that the other will leave too.  A rank is done only when no rank has
work, so layer l + 1 is empty (`DoneIsAll`).  `MazeGoesOn` looks at a rank
that could not leave its collective: the one it waits for is ahead of it, or
can go on itself.

### Search

What is found is right as every hit is compared with the text (`HitsInv`).  That
no whole word is missed (`FoundInv`) needs that the loop never jumps over one:
a whole word that begins within a match is the match itself, since the space
before it would be a letter of the word.  Each chunk is searched with its two
neighbours, so that a word no longer than a chunk that begins in it is in the
merged text (`MergedHas`).

### Bouncing balls

The simulation without ranks, `Simulated`, is the reference.  `ProcInv` gives
for a rank that has made t steps the balls it holds, `Part(r, t)`: the t-th
sequence of the simulation between `First(r)` and `First(r + 1)`; and what it
has put into each exchange, the counts of `Part(r, k - 1)` in exchange k.
The parts of all ranks are the whole sequence, so the sum of the counts of a key
is how often it occurs in all (`GlobalCounts`: a sum that satisfies the
recursion is the recursive function, by the least number at which they would
differ).  The four keys that `findPos` looks up are the balls whose next cell is
the one in question (`TargetIs`): a step forth and one back on the torus are inverse
to each other, also with one row, and since the four keys differ in the
direction nothing is counted twice (`CollisionsAre`).  So a rank moves its balls
as the simulation does (`BounceIs`), and what rank 0 gathers is the last
sequence (`GatheredIs`).  For `BallsGoOn`, of the ranks that wait in an exchange the
one that has contributed least can leave; `Handed` excludes a wait
for balls that were not sent.

### Only model-checked

Liveness – `EveryPaymentIsAnswered`, `ConnectionIsNoticed`, `LoadsDrain`,
`SearchEnds`, `JobEnds` – which rests on fairness and so on `ENABLED`,
beyond the prover.  The theorems about `MazeEscape`, `BouncingBalls` and
`WordSearch` are about one program for any input; that `MCRankPrograms` puts the
three side by side for TLC is not part of them.

## 5. Plan

1. *Done*: the modules above; a theorem for every invariant and action property that
   a run checks.
2. Left: the composition of `OfflineQueue` with `TwoPhasePayment` in place of the
   promise, on the smallest instance.

### Not modelled

Generated protobuf code; logging, recovery and certificates; the gateway's
retry interceptor and `storage/transactions.go`, which nothing uses; the text
interface; the test programs.  Passwords: `Authenticate` sets a flag that the
interceptor does not ask for (`auth/interceptor.go:64`).  The rounding of
`float32` amounts.  `exit` of the file system.

The type invariants of `MapReduce`, `OfflineQueue`, `ByzantineGenerals`,
`DistributedFS`, `MazeEscape` and `BouncingBalls` belong to no run; they are
proved.

Runs are few on purpose: one per question; a new module takes one, and the
violation runs whose divergence is described above were given up for them.
