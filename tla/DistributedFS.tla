--------------------------- MODULE DistributedFS ----------------------------
(***************************************************************************)
(* A1/P3-DistributedFS/3.cpp: a file system over MPI processes.  Rank 0,   *)
(* the master, reads commands one at a time and keeps the metadata; the    *)
(* other ranks store chunks.  Two threads of the master change the status  *)
(* of the nodes while a command runs: one receives heartbeats, the other   *)
(* marks the nodes that were not heard of for too long.                    *)
(*                                                                         *)
(* Every process takes part in every command, and MPI delivers the         *)
(* messages of one sender in order: a worker's part in a command needs no  *)
(* steps of its own.  What a worker answers to a search waits in "replies" *)
(* until the master receives it.                                           *)
(***************************************************************************)
EXTENDS Integers, FiniteSets, Sequences

CONSTANTS
    N,                  \* workers, ranks 1 to N
    Files,
    NoFile,
    ChunksOf,           \* ChunksOf[f]: into how many chunks f is partitioned
    ReplicationFactor,  \* REPLICATION_FACTOR
    MaxSearches,        \* bound on searches
    MaxSwitches,        \* bound on failover and recover commands
    MaxLate             \* bound on silences of nodes that were not failed

ASSUME DistributedFSAssumption ==
    /\ N \in Nat \ {0}
    /\ NoFile \notin Files
    /\ ChunksOf \in [Files -> Nat \ {0}]
    /\ ReplicationFactor \in Nat \ {0}
    /\ MaxSearches \in Nat /\ MaxSwitches \in Nat /\ MaxLate \in Nat

VARIABLES
    metadataServer,  \* for each file, for each chunk, its replicas; <<>>: no such file
    nodeLoad,        \* chunks sent to each worker
    nodeStatus,      \* workers the master takes to be up
    failoverState,   \* workers told to fail
    storage,         \* chunks each worker keeps
    replies,         \* answers to searches the master has yet to receive
    command,         \* the command under way
    output,          \* the result of the last command
    searches, switches, late,
    seenDown,        \* history: workers that were down at some time of the last command
    outages,         \* history: whether any worker has ever been down
    calm             \* history: the search began without old replies, and no worker went down

vars == <<metadataServer, nodeLoad, nodeStatus, failoverState, storage, replies, command,
          output, searches, switches, late, seenDown, outages, calm>>

data     == <<metadataServer, nodeLoad, storage>>
nodes    == <<nodeStatus, failoverState>>
counters == <<searches, switches, late>>

Workers == 1 .. N
Chunk   == Files \X Nat
Reply   == [search : Nat, valid : BOOLEAN, chunks : SUBSET Chunk]

Idle == [op |-> "idle", file |-> NoFile, available |-> {}, locations |-> <<>>,
         replicas |-> <<>>, chunk |-> 0, next |-> 0, search |-> 0, valid |-> TRUE,
         failed |-> FALSE, found |-> {}]
Command == [op : {"idle", "upload", "retrieve", "check", "collect"}, file : Files \cup {NoFile},
            available : SUBSET Workers, locations : Seq(Seq(Workers)),
            replicas : Seq(Workers), chunk : Nat, next : Nat, search : Nat, valid : BOOLEAN,
            failed : BOOLEAN, found : SUBSET (Nat \X Chunk)]

NoOutput == [op |-> "none", file |-> NoFile, ok |-> FALSE, search |-> 0, found |-> {}]
Output   == [op : {"none", "upload", "list", "retrieve", "search"}, file : Files \cup {NoFile},
             ok : BOOLEAN, search : Nat, found : SUBSET (Nat \X Chunk)]

TypeOK ==
    /\ metadataServer \in [Files -> Seq(Seq(Workers))]
    /\ nodeLoad \in [Workers -> Nat]
    /\ nodeStatus \in SUBSET Workers
    /\ failoverState \in SUBSET Workers
    /\ storage \in [Workers -> SUBSET Chunk]
    /\ replies \in [Workers -> Seq(Reply)]
    /\ command \in Command
    /\ output \in Output
    /\ searches \in Nat /\ switches \in Nat /\ late \in Nat
    /\ seenDown \in SUBSET Workers
    /\ outages \in BOOLEAN /\ calm \in BOOLEAN

\* main: the master takes every worker to be up before it has heard of any.
StartedNodes == Workers

Init ==
    /\ metadataServer = [f \in Files |-> <<>>]
    /\ nodeLoad = [w \in Workers |-> 0]
    /\ nodeStatus = StartedNodes
    /\ failoverState = {}
    /\ storage = [w \in Workers |-> {}]
    /\ replies = [w \in Workers |-> <<>>]
    /\ command = Idle
    /\ output = NoOutput
    /\ searches = 0
    /\ switches = 0
    /\ late = 0
    /\ seenDown = {}
    /\ outages = FALSE
    /\ calm = TRUE

-----------------------------------------------------------------------------
(* The master's main thread.                                               *)

Known(f) == metadataServer[f] # <<>>

Begin(cmd) ==
    /\ command' = cmd
    /\ output' = NoOutput
    /\ seenDown' = Workers \ nodeStatus

Finish(op, ok) ==
    /\ command' = Idle
    /\ output' = [op |-> op, file |-> command.file, ok |-> ok, search |-> command.search,
                  found |-> command.found]

\* A command answered with -1 at once.
Reject(op, f) ==
    /\ command' = Idle
    /\ output' = [NoOutput EXCEPT !.op = op, !.file = f]
    /\ seenDown' = Workers \ nodeStatus

\* The nodes that are up now are those the file is distributed to.
StartUpload(f) ==
    /\ command = Idle
    /\ IF Known(f) \/ nodeStatus = {}
       THEN Reject("upload", f)
       ELSE Begin([Idle EXCEPT !.op = "upload", !.file = f, !.available = nodeStatus])
    /\ UNCHANGED <<data, nodes, replies, counters, outages, calm>>

\* Mutant of Unused: a node may get the same chunk twice.
AllAvailable == command.available
Unused == command.available \ {command.replicas[i] : i \in DOMAIN command.replicas}

\* Mutant of LeastLoaded: the loads are not looked at.
FirstOf(S) == CHOOSE w \in S : \A v \in S : w <= v
\* handleLoadBalance: of equally loaded nodes, the first.
LeastLoaded(S) ==
    CHOOSE w \in S : \A v \in S : \/ nodeLoad[w] < nodeLoad[v]
                                  \/ nodeLoad[w] = nodeLoad[v] /\ w <= v

\* min(REPLICATION_FACTOR, availableNodesCount)
EffectiveReplicationFactor ==
    IF ReplicationFactor <= Cardinality(command.available) THEN ReplicationFactor
    ELSE Cardinality(command.available)

\* The worker keeps what it is sent.
UploadWorker(w, chunk) == storage' = [storage EXCEPT ![w] = @ \cup {<<command.file, chunk>>}]

\* One replica of the next chunk is sent, stored and counted.
PlaceReplica ==
    LET w        == LeastLoaded(Unused)
        replicas == Append(command.replicas, w)
        chunk    == Len(command.locations) + 1
    IN /\ command.op = "upload"
       /\ chunk <= ChunksOf[command.file]
       /\ nodeLoad' = [nodeLoad EXCEPT ![w] = @ + 1]
       /\ UploadWorker(w, chunk)
       /\ command' = IF Len(replicas) = EffectiveReplicationFactor
                     THEN [command EXCEPT !.locations = Append(@, replicas), !.replicas = <<>>]
                     ELSE [command EXCEPT !.replicas = replicas]
       /\ UNCHANGED <<metadataServer, nodes, replies, output, counters, seenDown, outages, calm>>

\* The replicas of f that are up, chunk by chunk, given where its chunks are.
Listing(f, locations) ==
    UNION {{<<locations[c][i], <<f, c>>>> :
                i \in {j \in DOMAIN locations[c] : locations[c][j] \in nodeStatus}} :
               c \in DOMAIN locations}

\* The answer to an upload is followed by the listing of the file.
FinishUpload ==
    /\ command.op = "upload"
    /\ Len(command.locations) = ChunksOf[command.file]
    /\ metadataServer' = [metadataServer EXCEPT ![command.file] = command.locations]
    /\ command' = Idle
    /\ output' = [op |-> "upload", file |-> command.file, ok |-> TRUE, search |-> 0,
                  found |-> Listing(command.file, command.locations)]
    /\ UNCHANGED <<nodeLoad, storage, nodes, replies, counters, seenDown, outages, calm>>

ListFile(f) ==
    /\ command = Idle
    /\ output' = [op |-> "list", file |-> f, ok |-> Known(f), search |-> 0,
                  found |-> Listing(f, metadataServer[f])]
    /\ seenDown' = Workers \ nodeStatus
    /\ UNCHANGED <<data, nodes, replies, command, counters, outages, calm>>

StartRetrieve(f) ==
    /\ command = Idle
    /\ IF Known(f)
       THEN Begin([Idle EXCEPT !.op = "retrieve", !.file = f, !.chunk = 1, !.next = 1])
       ELSE Reject("retrieve", f)
    /\ UNCHANGED <<data, nodes, replies, counters, outages, calm>>

\* The replica a command is about to look at, in the order of the metadata.
Replicas    == metadataServer[command.file][command.chunk]
Node        == Replicas[command.next]
MoreChunks  == command.chunk < Len(metadataServer[command.file])
\* Mutant of MoreReplicas: only the first replica is tried.
NoMoreReplicas == FALSE
MoreReplicas == command.next < Len(Replicas)
NextChunk   == command' = [command EXCEPT !.chunk = @ + 1, !.next = 1]
NextReplica == command' = [command EXCEPT !.next = @ + 1]

\* The worker has the chunk it is asked for.
RetrieveWorker(w) == <<command.file, command.chunk>> \in storage[w]

\* A replica that is down or does not have the chunk is passed over.
ReadReplica ==
    LET read == Node \in nodeStatus /\ RetrieveWorker(Node)
    IN /\ command.op = "retrieve"
       /\ \/ read /\ MoreChunks /\ NextChunk /\ UNCHANGED output
          \/ read /\ ~MoreChunks /\ Finish("retrieve", TRUE)
          \/ ~read /\ MoreReplicas /\ NextReplica /\ UNCHANGED output
          \/ ~read /\ ~MoreReplicas /\ Finish("retrieve", FALSE)
       /\ UNCHANGED <<data, nodes, replies, counters, seenDown, outages, calm>>

\* A word longer than a chunk is not valid; the workers say so.  (They never
\* get that far with an empty one: see WordSearch.)
StartSearch(f, valid) ==
    /\ command = Idle
    /\ searches < MaxSearches
    /\ searches' = searches + 1
    /\ IF Known(f)
       THEN Begin([Idle EXCEPT !.op = "check", !.file = f, !.chunk = 1, !.next = 1,
                               !.search = searches', !.valid = valid])
       ELSE Reject("search", f)
    /\ calm' = \A w \in Workers : replies[w] = <<>>
    /\ UNCHANGED <<data, nodes, replies, switches, late, outages>>

\* handleSearchWorker: whatever the master thinks of it, a worker answers.
Broadcast ==
    replies' = [w \in Workers |-> Append(replies[w],
                    [search |-> command.search, valid |-> command.valid,
                     chunks |-> {c \in storage[w] : c[1] = command.file}])]

\* Some replica of every chunk must be up before the workers are asked.
CheckReplica ==
    LET up == Node \in nodeStatus
    IN /\ command.op = "check"
       /\ \/ up /\ MoreChunks /\ NextChunk /\ UNCHANGED <<output, replies>>
          \/ /\ up /\ ~MoreChunks
             /\ Broadcast
             /\ command' = [command EXCEPT !.op = "collect", !.next = 1]
             /\ UNCHANGED output
          \/ ~up /\ MoreReplicas /\ NextReplica /\ UNCHANGED <<output, replies>>
          \/ ~up /\ ~MoreReplicas /\ Finish("search", FALSE) /\ UNCHANGED replies
       /\ UNCHANGED <<data, nodes, counters, seenDown, outages, calm>>

\* The workers that are up by now are received from, in the order of their
\* ranks: the oldest reply of each.
Collect ==
    LET w     == command.next
        reply == Head(replies[w])
    IN /\ command.op = "collect" /\ w <= N
       /\ IF w \in nodeStatus
          THEN /\ command' = [command EXCEPT !.next = @ + 1,
                                  !.failed = @ \/ ~reply.valid,
                                  !.found = @ \cup ({reply.search} \X reply.chunks)]
               /\ replies' = [replies EXCEPT ![w] = Tail(@)]
          ELSE NextReplica /\ UNCHANGED replies
       /\ UNCHANGED <<data, nodes, output, counters, seenDown, outages, calm>>

\* Mutant of FinishSearch: the last worker is not waited for.
FinishSearchBeforeLast ==
    /\ command.op = "collect" /\ command.next >= N
    /\ Finish("search", ~command.failed)
    /\ UNCHANGED <<data, nodes, replies, counters, seenDown, outages, calm>>

FinishSearch ==
    /\ command.op = "collect" /\ command.next > N
    /\ Finish("search", ~command.failed)
    /\ UNCHANGED <<data, nodes, replies, counters, seenDown, outages, calm>>

\* Only a node that is up can be failed; one that fails already may be again.
Failover(w) ==
    /\ command = Idle
    /\ switches < MaxSwitches
    /\ switches' = switches + 1
    /\ failoverState' = IF w \in nodeStatus THEN failoverState \cup {w} ELSE failoverState
    /\ UNCHANGED <<data, nodeStatus, replies, command, output, searches, late, seenDown, outages,
                   calm>>

\* Refused for a node that is up and was not failed; the status follows with
\* the next heartbeat.
Recover(w) ==
    /\ command = Idle
    /\ switches < MaxSwitches
    /\ switches' = switches + 1
    /\ failoverState' = failoverState \ {w}
    /\ UNCHANGED <<data, nodeStatus, replies, command, output, searches, late, seenDown, outages,
                   calm>>

-----------------------------------------------------------------------------
(* The master's other threads.                                             *)

\* A worker looks at the failoverState of its own process, where nobody is ever
\* failed, and so keeps saying that it is up.
heartbeatWorker(w) == 1

\* listenForHeartbeats: the master takes no notice of a failed worker.
Heartbeat(w) ==
    /\ w \notin failoverState
    /\ w \notin nodeStatus
    /\ nodeStatus' = IF heartbeatWorker(w) = 1 THEN nodeStatus \cup {w} ELSE nodeStatus
    /\ UNCHANGED <<data, failoverState, replies, command, output, counters, seenDown, outages,
                   calm>>

\* heartbeatMonitorMaster: nothing was heard of w for longer than
\* FAILOVER_INTERVAL, because it was failed or because its messages are late.
Silence(w) ==
    /\ w \in nodeStatus
    /\ w \in failoverState \/ late < MaxLate
    /\ late' = IF w \in failoverState THEN late ELSE late + 1
    /\ nodeStatus' = nodeStatus \ {w}
    /\ seenDown' = IF command = Idle THEN seenDown ELSE seenDown \cup {w}
    /\ outages' = TRUE
    /\ calm' = (calm /\ command = Idle)
    /\ UNCHANGED <<data, failoverState, replies, command, output, searches, switches>>

Next ==
    \/ \E f \in Files : StartUpload(f) \/ ListFile(f) \/ StartRetrieve(f)
    \/ \E f \in Files, valid \in BOOLEAN : StartSearch(f, valid)
    \/ PlaceReplica \/ FinishUpload \/ ReadReplica
    \/ CheckReplica \/ Collect \/ FinishSearch
    \/ \E w \in Workers : Failover(w) \/ Recover(w) \/ Heartbeat(w) \/ Silence(w)

Spec == Init /\ [][Next]_vars

-----------------------------------------------------------------------------
(* Properties.                                                             *)

\* What the metadata says of a file is true: every chunk has replicas, each on
\* a node of its own, and each of them stores the chunk; so does each node that
\* a listing names (distributeChunks, handlelistFile).
MetadataIsTrue ==
    /\ \A f \in Files : Known(f) =>
           /\ Len(metadataServer[f]) = ChunksOf[f]
           /\ \A c \in DOMAIN metadataServer[f] :
                  LET replicas == metadataServer[f][c] IN
                  /\ replicas # <<>>
                  /\ \A i, j \in DOMAIN replicas : i # j => replicas[i] # replicas[j]
                  /\ \A i \in DOMAIN replicas : <<f, c>> \in storage[replicas[i]]
    /\ output.op \in {"upload", "list"} => \A l \in output.found : l[2] \in storage[l[1]]

\* The master's count of a node's chunks is their number, and as long as no
\* node was ever left out the nodes carry the same load up to one chunk
\* (handleLoadBalance).
LoadIsBalanced ==
    /\ \A w \in Workers : nodeLoad[w] = Cardinality(storage[w])
    /\ ~outages => \A v, w \in Workers : nodeLoad[v] - nodeLoad[w] <= 1

\* A file that was uploaded is refused to a reader only if, while it was being
\* read, every replica of one of its chunks was down at some time
\* (handleRetrieveMaster).
RetrieveFailsForCause ==
    output.op = "retrieve" /\ ~output.ok /\ Known(output.file) =>
        \E c \in DOMAIN metadataServer[output.file] :
            \A i \in DOMAIN metadataServer[output.file][c] :
                metadataServer[output.file][c][i] \in seenDown

Complete(out) ==
    out.found = {out.search} \X ({out.file} \X DOMAIN metadataServer[out.file])

\* A search that succeeds looked for its word in every chunk of its file, and
\* nowhere else (handleSearchMaster).
SearchIsComplete ==
    output.op = "search" /\ output.ok => Complete(output)

\* The same, for a search that starts with no reply of an earlier one waiting
\* and during which no node goes down.
CalmSearchIsComplete ==
    output.op = "search" /\ output.ok /\ calm => Complete(output)
=============================================================================
