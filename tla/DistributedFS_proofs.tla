------------------------- MODULE DistributedFS_proofs -------------------------
(***************************************************************************)
(* The file system, proved for any number of workers and files: the        *)
(* metadata is true, the load is balanced, a reader is refused for cause,  *)
(* and a search that nothing disturbs finds every chunk.                   *)
(***************************************************************************)
EXTENDS DistributedFS, FiniteSetTheorems, SequenceTheorems, WellFoundedInduction, TLAPS

-----------------------------------------------------------------------------
(* The order of the natural numbers: a set of them has a least element, also *)
(* by another key.                                                           *)

Less == {ss \in Nat \X Nat : ss[1] < ss[2]}

LEMMA LessWellFounded == IsWellFoundedOn(Less, Nat)
BY NatLessThanWellFounded DEF OpToRel, Less

LEMMA LeastNatural ==
    ASSUME NEW S \in SUBSET Nat, S # {}
    PROVE  \E m \in S : \A n \in S : m <= n
<1>1. PICK m \in S : \A n \in S : ~(<<n, m>> \in Less)
  BY LessWellFounded, WFMin
<1>2. \A n \in S : ~(n < m)
  BY <1>1 DEF Less
<1> QED BY <1>2

\* Of the elements with the least key, the least.
LEMMA LeastByKey ==
    ASSUME NEW S \in SUBSET Nat, S # {}, NEW key \in [S -> Nat]
    PROVE  \E s \in S : \A t \in S : key[s] < key[t] \/ (key[s] = key[t] /\ s <= t)
<1> DEFINE keys == {key[s] : s \in S}
<1>1. PICK k \in keys : \A l \in keys : k <= l
  <2>1. keys \in SUBSET Nat /\ keys # {}
    OBVIOUS
  <2> QED BY <2>1, LeastNatural
<1> DEFINE T == {s \in S : key[s] = k}
<1>2. PICK s \in T : \A t \in T : s <= t
  <2>1. T \in SUBSET Nat /\ T # {}
    BY <1>1
  <2> QED BY <2>1, LeastNatural
<1>3. ASSUME NEW t \in S PROVE key[s] < key[t] \/ (key[s] = key[t] /\ s <= t)
  <2>1. k <= key[t] /\ key[s] = k /\ k \in Nat /\ key[t] \in Nat
    BY <1>1, <1>2
  <2>2. CASE key[t] = k
    BY <1>2, <2>1, <2>2
  <2>3. CASE key[t] # k
    BY <2>1, <2>3
  <2> QED BY <2>2, <2>3
<1> QED BY <1>2, <1>3

-----------------------------------------------------------------------------
(* The invariant.                                                          *)

Elements(s) == {s[i] : i \in DOMAIN s}

\* A list of replicas: nodes of their own.
Distinct(s) == \A i, j \in DOMAIN s : i # j => s[i] # s[j]

Busy == command # Idle

\* What the variables hold.
Shape ==
    /\ metadataServer \in [Files -> Seq(Seq(Workers))]
    /\ nodeLoad \in [Workers -> Nat]
    /\ nodeStatus \in SUBSET Workers
    /\ storage \in [Workers -> SUBSET Chunk]
    /\ replies \in [Workers -> Seq(Reply)]
    /\ command \in Command
    /\ searches \in Nat
    /\ seenDown \in SUBSET Workers

\* How far a command is, and that there is no output of the last one meanwhile.
Steps ==
    /\ Busy => output = NoOutput /\ command.file \in Files /\ command.op # "idle"
    /\ command.op \in {"retrieve", "check"} =>
          /\ command.chunk \in DOMAIN metadataServer[command.file]
          /\ command.next \in DOMAIN metadataServer[command.file][command.chunk]
    /\ command.op = "collect" => Known(command.file) /\ command.next \in 1 .. N + 1

\* The chunks and the replicas placed so far: what is placed is stored.
Placing ==
    command.op = "upload" =>
        LET chunk == Len(command.locations) + 1 IN
        /\ ~Known(command.file)
        /\ command.available # {}
        /\ Len(command.locations) <= ChunksOf[command.file]
        /\ Len(command.locations) = ChunksOf[command.file] => command.replicas = <<>>
        /\ Len(command.replicas) < EffectiveReplicationFactor
        /\ Distinct(command.replicas)
        /\ \A i \in DOMAIN command.replicas :
              /\ command.replicas[i] \in command.available
              /\ <<command.file, chunk>> \in storage[command.replicas[i]]
        /\ \A c \in DOMAIN command.locations :
              /\ command.locations[c] # <<>>
              /\ Distinct(command.locations[c])
              /\ \A i \in DOMAIN command.locations[c] :
                    <<command.file, c>> \in storage[command.locations[c][i]]

\* Every stored chunk is one of a file that is known, or placed by the upload.
Provenance ==
    \A w \in Workers : \A x \in storage[w] :
        \/ x[2] \in DOMAIN metadataServer[x[1]]
        \/ /\ command.op = "upload" /\ x[1] = command.file /\ x[2] # 0
           /\ \/ x[2] <= Len(command.locations)
              \/ x[2] = Len(command.locations) + 1 /\ w \in Elements(command.replicas)

\* The counts, and while no node was ever left out, the balance: a node that has
\* its replica of the present chunk carries no less than one that has not.
Balance ==
    /\ \A w \in Workers : IsFiniteSet(storage[w]) /\ nodeLoad[w] = Cardinality(storage[w])
    /\ ~outages =>
          /\ nodeStatus = Workers
          /\ command.op = "upload" => command.available = Workers
          /\ \A v, w \in Workers : nodeLoad[v] - nodeLoad[w] <= 1
          /\ command.op = "upload" =>
                \A u \in Elements(command.replicas), v \in Workers \ Elements(command.replicas) :
                    nodeLoad[v] <= nodeLoad[u]

\* What a reader has passed over was down; the nodes that are down were seen down.
PassedOver ==
    /\ Busy => Workers \ nodeStatus \subseteq seenDown
    /\ command.op = "retrieve" =>
          \A i \in 1 .. command.next - 1 : Replicas[i] \in seenDown

\* There is an answer from every worker that is yet to be received from, and
\* without answers to earlier searches it is the answer to this one.
Awaited ==
    command.op = "collect" =>
        \A w \in Workers : w >= command.next =>
            /\ replies[w] # <<>>
            /\ calm => /\ replies[w][1].search = command.search
                       /\ replies[w][1].chunks = {x \in storage[w] : x[1] = command.file}

\* In a calm search nothing waits before the workers are asked, every chunk that
\* was checked still has a replica that is up, and what the workers up to now
\* said of them has been noted, and nothing else.
Searching ==
    calm =>
        /\ command.op = "check" =>
              /\ command.found = {}
              /\ \A w \in Workers : replies[w] = <<>>
              /\ \A c \in DOMAIN metadataServer[command.file] : c < command.chunk =>
                    \E i \in DOMAIN metadataServer[command.file][c] :
                        metadataServer[command.file][c][i] \in nodeStatus
        /\ command.op = "collect" =>
              /\ command.found \subseteq
                    {command.search} \X ({command.file} \X DOMAIN metadataServer[command.file])
              /\ \A c \in DOMAIN metadataServer[command.file] :
                    \E i \in DOMAIN metadataServer[command.file][c] :
                        LET w == metadataServer[command.file][c][i]
                        IN /\ w \in nodeStatus
                           /\ w < command.next =>
                                 <<command.search, <<command.file, c>>>> \in command.found

FileSystemInv ==
    /\ Shape /\ Steps /\ MetadataIsTrue /\ Placing /\ Provenance /\ Balance
    /\ PassedOver /\ RetrieveFailsForCause /\ Awaited /\ Searching /\ CalmSearchIsComplete
-----------------------------------------------------------------------------
(* Lists of replicas, and the node that gets the next one.                 *)

LEMMA Sizes ==
    /\ N \in Nat /\ N >= 1 /\ ReplicationFactor \in Nat /\ ReplicationFactor >= 1
    /\ NoFile \notin Files
    /\ \A f \in Files : ChunksOf[f] \in Nat /\ ChunksOf[f] >= 1
    /\ IsFiniteSet(Workers) /\ Workers \in SUBSET Nat
<1>1. IsFiniteSet(1 .. N)
  BY DistributedFSAssumption, FS_Interval
<1> QED BY <1>1, DistributedFSAssumption DEF Workers

LEMMA FewElements ==
    ASSUME NEW S, NEW s \in Seq(S)
    PROVE  IsFiniteSet(Elements(s)) /\ Cardinality(Elements(s)) <= Len(s) /\ Len(s) \in Nat
<1>1. s \in [1 .. Len(s) -> S] /\ DOMAIN s = 1 .. Len(s) /\ Len(s) \in Nat
  BY LenProperties
<1>2. s \in Surjection(1 .. Len(s), Elements(s))
  BY <1>1 DEF Surjection, Elements
<1>3. IsFiniteSet(1 .. Len(s)) /\ Cardinality(1 .. Len(s)) = Len(s)
  <2> DEFINE n == Len(s)
  <2> HIDE DEF n
  <2>1. n \in Nat => IsFiniteSet(1 .. n) /\ Cardinality(1 .. n) = n
    BY FS_Interval
  <2> QED BY <1>1, <2>1 DEF n
<1> QED BY <1>1, <1>2, <1>3, FS_Surjection

\* A node that is not yet in the list keeps it a list of nodes of their own.
LEMMA OneMore ==
    ASSUME NEW S, NEW s \in Seq(S), NEW x \in S
    PROVE  /\ Append(s, x) \in Seq(S) /\ Append(s, x) # <<>> /\ Len(Append(s, x)) = Len(s) + 1
           /\ Elements(Append(s, x)) = Elements(s) \cup {x}
           /\ DOMAIN Append(s, x) = 1 .. Len(s) + 1 /\ DOMAIN s = 1 .. Len(s) /\ Len(s) \in Nat
           /\ \A i \in DOMAIN s : Append(s, x)[i] = s[i]
           /\ Append(s, x)[Len(s) + 1] = x
           /\ Distinct(s) /\ x \notin Elements(s) => Distinct(Append(s, x))
<1> DEFINE t == Append(s, x)
<1>1. /\ t \in Seq(S) /\ Len(t) = Len(s) + 1 /\ Len(s) \in Nat /\ t # <<>>
      /\ DOMAIN t = 1 .. Len(s) + 1 /\ DOMAIN s = 1 .. Len(s)
      /\ \A i \in DOMAIN s : t[i] = s[i]
      /\ t[Len(s) + 1] = x
  OBVIOUS
<1> HIDE DEF t
<1>2. Elements(t) = Elements(s) \cup {x}
  <2>1. ASSUME NEW y \in Elements(t) PROVE y \in Elements(s) \cup {x}
    <3>1. PICK i \in DOMAIN t : y = t[i]
      BY DEF Elements
    <3>2. i \in DOMAIN s \/ i = Len(s) + 1
      BY <1>1, <3>1
    <3> QED BY <1>1, <3>1, <3>2 DEF Elements
  <2>2. ASSUME NEW y \in Elements(s) PROVE y \in Elements(t)
    <3>1. PICK i \in DOMAIN s : y = s[i]
      BY DEF Elements
    <3>2. i \in DOMAIN t
      BY <1>1
    <3> QED BY <1>1, <3>1, <3>2 DEF Elements
  <2>3. x \in Elements(t)
    BY <1>1 DEF Elements
  <2> QED BY <2>1, <2>2, <2>3
<1>3. ASSUME Distinct(s), x \notin Elements(s) PROVE Distinct(t)
  <2> SUFFICES ASSUME NEW i \in DOMAIN t, NEW j \in DOMAIN t, i # j PROVE t[i] # t[j]
    BY DEF Distinct
  <2>1. (i \in DOMAIN s \/ i = Len(s) + 1) /\ (j \in DOMAIN s \/ j = Len(s) + 1)
    BY <1>1
  <2> QED BY <1>1, <1>3, <2>1 DEF Distinct, Elements
<1> QED BY <1>1, <1>2, <1>3 DEF t

LEMMA LeastLoadedIsLeast ==
    ASSUME Shape, NEW S \in SUBSET Workers, S # {}
    PROVE  LeastLoaded(S) \in S /\ \A v \in S : nodeLoad[LeastLoaded(S)] <= nodeLoad[v]
<1> DEFINE load == [w \in S |-> nodeLoad[w]]
<1>1. load \in [S -> Nat] /\ S \in SUBSET Nat
  BY Sizes DEF Shape
<1>2. \E w \in S : \A v \in S : load[w] < load[v] \/ (load[w] = load[v] /\ w <= v)
  BY <1>1, LeastByKey
<1>3. \E w \in S : \A v \in S : \/ nodeLoad[w] < nodeLoad[v]
                                \/ nodeLoad[w] = nodeLoad[v] /\ w <= v
  BY <1>2
<1>4. /\ LeastLoaded(S) \in S
      /\ \A v \in S : \/ nodeLoad[LeastLoaded(S)] < nodeLoad[v]
                      \/ nodeLoad[LeastLoaded(S)] = nodeLoad[v] /\ LeastLoaded(S) <= v
  BY <1>3 DEF LeastLoaded
<1>5. ASSUME NEW v \in S PROVE nodeLoad[LeastLoaded(S)] <= nodeLoad[v]
  <2>1. nodeLoad[v] \in Nat /\ nodeLoad[LeastLoaded(S)] \in Nat
    BY <1>4 DEF Shape
  <2> QED BY <1>4, <2>1
<1> QED BY <1>4, <1>5

\* There is a node left for the next replica.
LEMMA SomeUnused ==
    ASSUME Shape, Placing, command.op = "upload"
    PROVE  /\ Unused # {} /\ Unused = command.available \ Elements(command.replicas)
           /\ Unused \in SUBSET Workers
           /\ EffectiveReplicationFactor \in Nat /\ EffectiveReplicationFactor >= 1
<1>1. command.replicas \in Seq(Workers) /\ command.available \in SUBSET Workers
  BY DEF Shape, Command
<1>2. /\ IsFiniteSet(command.available) /\ Cardinality(command.available) \in Nat
      /\ Cardinality(command.available) # 0
  <2>1. IsFiniteSet(command.available)
    BY <1>1, Sizes, FS_Subset
  <2> QED BY <2>1, FS_CardinalityType, FS_EmptySet DEF Placing
<1>3. Unused = command.available \ Elements(command.replicas)
  BY DEF Unused, Elements
<1>4. /\ EffectiveReplicationFactor \in Nat /\ EffectiveReplicationFactor >= 1
      /\ EffectiveReplicationFactor <= Cardinality(command.available)
  BY <1>2, Sizes DEF EffectiveReplicationFactor
<1>5. Unused # {}
  <2> SUFFICES ASSUME command.available \subseteq Elements(command.replicas) PROVE FALSE
    BY <1>3
  <2>1. /\ IsFiniteSet(Elements(command.replicas)) /\ Len(command.replicas) \in Nat
        /\ Cardinality(Elements(command.replicas)) <= Len(command.replicas)
    BY <1>1, FewElements
  <2>2. Cardinality(command.available) <= Cardinality(Elements(command.replicas))
    BY <2>1, FS_Subset
  <2>3. Len(command.replicas) < EffectiveReplicationFactor
    BY DEF Placing
  <2>4. Cardinality(Elements(command.replicas)) \in Nat
    BY <2>1, FS_CardinalityType
  <2> QED BY <1>2, <1>4, <2>1, <2>2, <2>3, <2>4
<1> QED BY <1>1, <1>3, <1>4, <1>5

-----------------------------------------------------------------------------
(* What the steps do to the command.                                       *)

LEMMA IdleCommand == Idle \in Command /\ Idle.op = "idle"
BY DEF Idle, Command

LEMMA Uploads ==
    ASSUME Shape, NEW f \in Files, StartUpload(f)
    PROVE  /\ command = Idle
           /\ UNCHANGED <<metadataServer, storage, nodeLoad, nodeStatus, replies>>
           /\ \/ command' = Idle
              \/ /\ command' \in Command /\ command'.op = "upload" /\ command'.file = f
                 /\ command'.available = nodeStatus /\ nodeStatus # {} /\ ~Known(f)
                 /\ command'.locations = <<>> /\ command'.replicas = <<>>
                 /\ output' = NoOutput
BY DEF StartUpload, Reject, Begin, data, nodes, Shape, Idle, Command

LEMMA Retrieves ==
    ASSUME Shape, NEW f \in Files, StartRetrieve(f)
    PROVE  /\ command = Idle
           /\ UNCHANGED <<metadataServer, storage, nodeLoad, nodeStatus, replies>>
           /\ \/ command' = Idle
              \/ /\ command' \in Command /\ command'.op = "retrieve" /\ command'.file = f
                 /\ command'.chunk = 1 /\ command'.next = 1 /\ Known(f)
                 /\ output' = NoOutput
<1> DEFINE cmd == [Idle EXCEPT !.op = "retrieve", !.file = f, !.chunk = 1, !.next = 1]
<1>1. /\ cmd.op = "retrieve" /\ cmd.file = f /\ cmd.chunk = 1 /\ cmd.next = 1 /\ cmd.found = {}
  BY DEF Idle
<1>3. cmd \in Command
  BY IdleCommand DEF Command
<1> HIDE DEF cmd
<1>4. \/ command' = Idle \/ (command' = cmd /\ Known(f) /\ output' = NoOutput)
  BY DEF StartRetrieve, Reject, Begin, cmd
<1>5. command = Idle /\ UNCHANGED <<metadataServer, storage, nodeLoad, nodeStatus, replies>>
  BY DEF StartRetrieve, data, nodes
<1> QED BY <1>1, <1>3, <1>4, <1>5

LEMMA Searches ==
    ASSUME Shape, NEW f \in Files, NEW valid \in BOOLEAN, StartSearch(f, valid)
    PROVE  /\ command = Idle
           /\ UNCHANGED <<metadataServer, storage, nodeLoad, nodeStatus, replies>>
           /\ \/ command' = Idle
              \/ /\ command' \in Command /\ command'.op = "check" /\ command'.file = f
                 /\ command'.chunk = 1 /\ command'.next = 1 /\ command'.found = {} /\ Known(f)
                 /\ output' = NoOutput
<1> DEFINE cmd == [Idle EXCEPT !.op = "check", !.file = f, !.chunk = 1, !.next = 1,
                               !.search = searches', !.valid = valid]
<1>1. /\ cmd.op = "check" /\ cmd.file = f /\ cmd.chunk = 1 /\ cmd.next = 1 /\ cmd.found = {}
  BY DEF Idle
<1>2. searches' \in Nat
  BY DEF StartSearch, Shape
<1>3. cmd \in Command
  BY <1>2, IdleCommand DEF Command
<1> HIDE DEF cmd
<1>4. \/ command' = Idle \/ (command' = cmd /\ Known(f) /\ output' = NoOutput)
  BY DEF StartSearch, Reject, Begin, cmd
<1>5. command = Idle /\ UNCHANGED <<metadataServer, storage, nodeLoad, nodeStatus, replies>>
  BY DEF StartSearch, data, nodes
<1> QED BY <1>1, <1>3, <1>4, <1>5

LEMMA Places ==
    ASSUME Shape, Placing, PlaceReplica
    PROVE  LET w == LeastLoaded(Unused)
               replicas == Append(command.replicas, w)
           IN /\ UNCHANGED <<metadataServer, nodeStatus, replies, output, seenDown, outages, calm>>
              /\ w \in Unused /\ w \in Workers /\ w \notin Elements(command.replicas)
              /\ \A v \in Unused : nodeLoad[w] <= nodeLoad[v]
              /\ command.op = "upload"
              /\ Len(command.locations) + 1 <= ChunksOf[command.file]
              /\ nodeLoad' = [nodeLoad EXCEPT ![w] = @ + 1]
              /\ storage' = [storage EXCEPT ![w] =
                                @ \cup {<<command.file, Len(command.locations) + 1>>}]
              /\ command' \in Command /\ command'.op = "upload" /\ command'.file = command.file
              /\ command'.available = command.available
              /\ \/ /\ Len(replicas) = EffectiveReplicationFactor
                    /\ command'.locations = Append(command.locations, replicas)
                    /\ command'.replicas = <<>>
                 \/ /\ Len(replicas) # EffectiveReplicationFactor
                    /\ command'.locations = command.locations
                    /\ command'.replicas = replicas
<1> DEFINE w == LeastLoaded(Unused)
           replicas == Append(command.replicas, w)
<1>1. /\ w \in Unused /\ w \in Workers /\ w \notin Elements(command.replicas)
      /\ \A v \in Unused : nodeLoad[w] <= nodeLoad[v]
      /\ command.op = "upload"
  <2>1. command.op = "upload"
    BY DEF PlaceReplica
  <2> QED BY <2>1, SomeUnused, LeastLoadedIsLeast
<1>2. /\ Len(command.locations) + 1 <= ChunksOf[command.file]
      /\ nodeLoad' = [nodeLoad EXCEPT ![w] = @ + 1]
      /\ storage' = [storage EXCEPT ![w] = @ \cup {<<command.file, Len(command.locations) + 1>>}]
      /\ command' = IF Len(replicas) = EffectiveReplicationFactor
                    THEN [command EXCEPT !.locations = Append(@, replicas), !.replicas = <<>>]
                    ELSE [command EXCEPT !.replicas = replicas]
  BY DEF PlaceReplica, UploadWorker
<1>3. /\ command.replicas \in Seq(Workers) /\ command.locations \in Seq(Seq(Workers))
      /\ command \in Command
  BY DEF Shape, Command
<1>4. replicas \in Seq(Workers) /\ <<>> \in Seq(Workers)
  BY <1>1, <1>3, OneMore
<1> HIDE DEF w, replicas
<1>5. Append(command.locations, replicas) \in Seq(Seq(Workers))
  BY <1>3, <1>4, OneMore
<1>6. /\ command' \in Command /\ command'.op = "upload" /\ command'.file = command.file
      /\ command'.available = command.available
      /\ \/ /\ Len(replicas) = EffectiveReplicationFactor
            /\ command'.locations = Append(command.locations, replicas)
            /\ command'.replicas = <<>>
         \/ /\ Len(replicas) # EffectiveReplicationFactor
            /\ command'.locations = command.locations
            /\ command'.replicas = replicas
  <2>1. CASE Len(replicas) = EffectiveReplicationFactor
    BY <1>1, <1>2, <1>3, <1>4, <1>5, <2>1 DEF Command
  <2>2. CASE Len(replicas) # EffectiveReplicationFactor
    BY <1>1, <1>2, <1>3, <1>4, <2>2 DEF Command
  <2> QED BY <2>1, <2>2
<1>7. UNCHANGED <<metadataServer, nodeStatus, replies, output, seenDown, outages, calm>>
  BY DEF PlaceReplica, nodes
<1> QED BY <1>1, <1>2, <1>6, <1>7 DEF w, replicas

LEMMA Finishes ==
    ASSUME FinishUpload
    PROVE  /\ command.op = "upload" /\ Len(command.locations) = ChunksOf[command.file]
           /\ metadataServer' = [metadataServer EXCEPT ![command.file] = command.locations]
           /\ command' = Idle /\ output'.op = "upload"
           /\ output'.found = Listing(command.file, command.locations)
           /\ UNCHANGED <<storage, nodeLoad, nodeStatus, replies, seenDown, outages, calm>>
BY DEF FinishUpload, nodes

LEMMA NextIs ==
    ASSUME NEW cmd \in Command, NEW n \in Nat, NEW new, new = [cmd EXCEPT !.next = n]
    PROVE  /\ new \in Command /\ new.op = cmd.op /\ new.file = cmd.file /\ new.next = n
           /\ new.chunk = cmd.chunk /\ new.found = cmd.found /\ new.search = cmd.search
BY DEF Command

LEMMA Advances ==
    ASSUME Shape
    PROVE  /\ NextReplica =>
                 /\ command' \in Command /\ command'.op = command.op
                 /\ command'.file = command.file
                 /\ command'.chunk = command.chunk /\ command'.next = command.next + 1
                 /\ command'.found = command.found /\ command'.search = command.search
           /\ NextChunk =>
                 /\ command' \in Command /\ command'.op = command.op
                 /\ command'.file = command.file
                 /\ command'.chunk = command.chunk + 1 /\ command'.next = 1
                 /\ command'.found = command.found /\ command'.search = command.search
<1>1. command \in Command /\ command.chunk + 1 \in Nat /\ command.next + 1 \in Nat /\ 1 \in Nat
  BY DEF Shape, Command
<1>2. ASSUME NextReplica
      PROVE  /\ command' \in Command /\ command'.op = command.op /\ command'.file = command.file
             /\ command'.chunk = command.chunk /\ command'.next = command.next + 1
             /\ command'.found = command.found /\ command'.search = command.search
  <2>1. command' = [command EXCEPT !.next = command.next + 1]
    BY <1>2 DEF NextReplica
  <2> QED BY <1>1, <2>1, NextIs
<1>3. ASSUME NextChunk
      PROVE  /\ command' \in Command /\ command'.op = command.op /\ command'.file = command.file
             /\ command'.chunk = command.chunk + 1 /\ command'.next = 1
             /\ command'.found = command.found /\ command'.search = command.search
  <2> DEFINE chunk == command.chunk + 1
  <2>1. chunk \in Nat /\ command' = [command EXCEPT !.chunk = chunk, !.next = 1]
    BY <1>1, <1>3 DEF NextChunk
  <2> HIDE DEF chunk
  <2>2. /\ command' \in Command /\ command'.op = command.op /\ command'.file = command.file
        /\ command'.chunk = chunk /\ command'.next = 1
        /\ command'.found = command.found /\ command'.search = command.search
    BY <1>1, <2>1 DEF Command
  <2> QED BY <2>2 DEF chunk
<1> QED BY <1>2, <1>3

LEMMA Reads ==
    ASSUME Shape, ReadReplica
    PROVE  /\ command.op = "retrieve" /\ command' \in Command
           /\ UNCHANGED <<metadataServer, storage, nodeLoad, nodeStatus, replies, seenDown>>
           /\ \/ MoreChunks /\ NextChunk /\ UNCHANGED output
              \/ Finish("retrieve", TRUE)
              \/ /\ ~(Node \in nodeStatus /\ RetrieveWorker(Node))
                 /\ MoreReplicas /\ NextReplica /\ UNCHANGED output
              \/ /\ ~(Node \in nodeStatus /\ RetrieveWorker(Node))
                 /\ ~MoreReplicas /\ Finish("retrieve", FALSE)
           /\ command' = Idle \/ (command'.op = "retrieve" /\ command'.file = command.file)
<1>1. /\ command.op = "retrieve"
      /\ UNCHANGED <<metadataServer, storage, nodeLoad, nodeStatus, replies, seenDown>>
      /\ \/ MoreChunks /\ NextChunk /\ UNCHANGED output
         \/ Finish("retrieve", TRUE)
         \/ /\ ~(Node \in nodeStatus /\ RetrieveWorker(Node))
            /\ MoreReplicas /\ NextReplica /\ UNCHANGED output
         \/ /\ ~(Node \in nodeStatus /\ RetrieveWorker(Node))
            /\ ~MoreReplicas /\ Finish("retrieve", FALSE)
  BY DEF ReadReplica, data, nodes
<1>2. command' \in Command
      /\ (command' = Idle \/ (command'.op = "retrieve" /\ command'.file = command.file))
  BY <1>1, Advances, IdleCommand DEF Finish
<1> QED BY <1>1, <1>2

LEMMA Checks ==
    ASSUME Shape, CheckReplica
    PROVE  /\ command.op = "check" /\ command' \in Command
           /\ UNCHANGED <<metadataServer, storage, nodeLoad, nodeStatus, seenDown, calm>>
           /\ \/ Node \in nodeStatus /\ MoreChunks /\ NextChunk /\ UNCHANGED <<output, replies>>
              \/ /\ Node \in nodeStatus /\ ~MoreChunks /\ Broadcast /\ UNCHANGED output
                 /\ command'.op = "collect" /\ command'.next = 1 /\ command'.file = command.file
                 /\ command'.found = command.found /\ command'.search = command.search
              \/ /\ Node \notin nodeStatus /\ MoreReplicas /\ NextReplica
                 /\ UNCHANGED <<output, replies>>
              \/ Finish("search", FALSE) /\ UNCHANGED replies
           /\ \/ command' = Idle
              \/ command'.op \in {"check", "collect"} /\ command'.file = command.file
<1>1. /\ command.op = "check"
      /\ UNCHANGED <<metadataServer, storage, nodeLoad, nodeStatus, seenDown, calm>>
      /\ \/ Node \in nodeStatus /\ MoreChunks /\ NextChunk /\ UNCHANGED <<output, replies>>
         \/ /\ Node \in nodeStatus /\ ~MoreChunks /\ Broadcast /\ UNCHANGED output
            /\ command' = [command EXCEPT !.op = "collect", !.next = 1]
         \/ Node \notin nodeStatus /\ MoreReplicas /\ NextReplica /\ UNCHANGED <<output, replies>>
         \/ Finish("search", FALSE) /\ UNCHANGED replies
  BY DEF CheckReplica, data, nodes
<1>2. command \in Command
  BY DEF Shape
<1>3. ASSUME command' = [command EXCEPT !.op = "collect", !.next = 1]
      PROVE  /\ command' \in Command /\ command'.op = "collect" /\ command'.next = 1
             /\ command'.file = command.file
             /\ command'.found = command.found /\ command'.search = command.search
  <2> DEFINE op == "collect"
  <2>1. op = "collect" /\ command' = [command EXCEPT !.op = op, !.next = 1]
    BY <1>3
  <2> HIDE DEF op
  <2>2. command' \in Command
    BY <1>2, <2>1 DEF Command
  <2>3. command'.op = op /\ command'.next = 1 /\ command'.file = command.file
    BY <1>2, <2>1 DEF Command
  <2>4. command'.found = command.found /\ command'.search = command.search
    BY <1>2, <2>1 DEF Command
  <2> QED BY <2>1, <2>2, <2>3, <2>4
<1>4. command' \in Command
      /\ \/ command' = Idle
         \/ command'.op \in {"check", "collect"} /\ command'.file = command.file
  BY <1>1, <1>3, Advances, IdleCommand DEF Finish
<1> QED BY <1>1, <1>3, <1>4

LEMMA Collects ==
    ASSUME Shape, Steps, Awaited, Collect
    PROVE  LET w     == command.next
               reply == Head(replies[w])
           IN /\ command.op = "collect" /\ command' \in Command /\ w \in Workers
              /\ UNCHANGED <<metadataServer, storage, nodeLoad, nodeStatus, seenDown, calm,
                             output>>
              /\ command'.op = "collect" /\ command'.file = command.file
              /\ command'.search = command.search /\ command'.next = w + 1
              /\ replies[w] # <<>> /\ reply = replies[w][1] /\ reply \in Reply
              /\ \/ /\ w \in nodeStatus
                    /\ replies' = [replies EXCEPT ![w] = Tail(@)]
                    /\ command'.found = command.found \cup ({reply.search} \X reply.chunks)
                 \/ /\ w \notin nodeStatus
                    /\ UNCHANGED replies /\ command'.found = command.found
<1> DEFINE w     == command.next
           reply == Head(replies[w])
<1>1. /\ command.op = "collect" /\ w <= N
      /\ UNCHANGED <<metadataServer, storage, nodeLoad, nodeStatus, seenDown, calm, output>>
  BY DEF Collect, data, nodes
<1>2. w \in Workers /\ w \in Nat
  BY <1>1, Sizes DEF Steps, Workers
<1>3. replies[w] # <<>> /\ replies[w] \in Seq(Reply)
  BY <1>1, <1>2 DEF Awaited, Shape, Workers
<1>4. reply = replies[w][1] /\ reply \in Reply
  BY <1>3
<1>5. CASE w \in nodeStatus
  <2> DEFINE b == command.failed \/ ~reply.valid
             F == command.found \cup ({reply.search} \X reply.chunks)
  <2>1. /\ command' = [command EXCEPT !.next = w + 1, !.failed = b, !.found = F]
        /\ replies' = [replies EXCEPT ![w] = Tail(@)]
    BY <1>5 DEF Collect
  <2>2. F \in SUBSET (Nat \X Chunk)
    BY <1>4 DEF Shape, Command, Reply
  <2>3. b \in BOOLEAN /\ command \in Command /\ w + 1 \in Nat
    BY <1>2 DEF Shape
  <2> DEFINE n == w + 1
  <2> HIDE DEF b, F, n
  <2>4. /\ command' \in Command /\ command'.op = command.op /\ command'.file = command.file
        /\ command'.search = command.search /\ command'.next = n /\ command'.found = F
    <3>1. command' = [command EXCEPT !.next = n, !.failed = b, !.found = F] /\ n \in Nat
      BY <2>1, <2>3 DEF n
    <3> QED BY <2>2, <2>3, <3>1 DEF Command
  <2> QED BY <1>1, <1>2, <1>3, <1>4, <1>5, <2>1, <2>4 DEF F, n
<1>6. CASE w \notin nodeStatus
  <2>1. NextReplica /\ UNCHANGED replies
    BY <1>6 DEF Collect
  <2> QED BY <1>1, <1>2, <1>3, <1>4, <1>6, <2>1, Advances
<1> QED BY <1>5, <1>6

\* Most steps have nothing to do with an upload.
LEMMA Kinds ==
    ASSUME Shape, Steps, Awaited, [Next]_vars
    PROVE  \/ \E f \in Files : StartUpload(f)
           \/ PlaceReplica \/ FinishUpload
           \/ /\ command.op # "upload" /\ command'.op # "upload"
              /\ UNCHANGED <<metadataServer, storage, nodeLoad>>
           \/ UNCHANGED <<metadataServer, storage, nodeLoad, command>>
<1> DEFINE Other == /\ command.op # "upload" /\ command'.op # "upload"
                    /\ UNCHANGED <<metadataServer, storage, nodeLoad>>
           Still == UNCHANGED <<metadataServer, storage, nodeLoad, command>>
<1>1. ASSUME NEW f \in Files, StartRetrieve(f) PROVE Other
  BY <1>1, Retrieves, IdleCommand
<1>2. ASSUME NEW f \in Files, NEW valid \in BOOLEAN, StartSearch(f, valid) PROVE Other
  BY <1>2, Searches, IdleCommand
<1>3. ASSUME ReadReplica PROVE Other
  BY <1>3, Reads, IdleCommand
<1>4. ASSUME CheckReplica PROVE Other
  BY <1>4, Checks, IdleCommand
<1>5. ASSUME Collect PROVE Other
  BY <1>5, Collects, IdleCommand
<1>6. ASSUME FinishSearch PROVE Other
  BY <1>6, IdleCommand DEF FinishSearch, Finish, data
<1>7. ASSUME NEW f \in Files, ListFile(f) PROVE Still
  BY <1>7 DEF ListFile, data
<1>8. ASSUME NEW w \in Workers, Failover(w) \/ Recover(w) \/ Heartbeat(w) \/ Silence(w)
      PROVE  Still
  BY <1>8 DEF Failover, Recover, Heartbeat, Silence, data
<1>9. ASSUME UNCHANGED vars PROVE Still
  BY <1>9 DEF vars
<1> QED BY <1>1, <1>2, <1>3, <1>4, <1>5, <1>6, <1>7, <1>8, <1>9 DEF Next
\* The threads that follow the heartbeats change the status of the nodes, and
\* the main thread changes all else.
LEMMA NodesChange ==
    ASSUME [Next]_vars
    PROVE  \/ /\ UNCHANGED <<nodeStatus, outages>>
           \/ \E w \in Workers :
                 /\ nodeStatus' = nodeStatus \cup {w}
                 /\ UNCHANGED <<metadataServer, storage, nodeLoad, replies, command, output,
                                searches, seenDown, outages, calm>>
           \/ \E w \in Workers :
                 /\ nodeStatus' = nodeStatus \ {w}
                 /\ seenDown' = IF command = Idle THEN seenDown ELSE seenDown \cup {w}
                 /\ outages' = TRUE /\ (calm' => calm /\ command = Idle)
                 /\ UNCHANGED <<metadataServer, storage, nodeLoad, replies, command, output,
                                searches>>
<1>1. ASSUME NEW w \in Workers, Heartbeat(w)
      PROVE  /\ nodeStatus' = nodeStatus \cup {w}
             /\ UNCHANGED <<metadataServer, storage, nodeLoad, replies, command, output,
                            searches, seenDown, outages, calm>>
  BY <1>1 DEF Heartbeat, heartbeatWorker, data, counters
<1>2. ASSUME NEW w \in Workers, Silence(w)
      PROVE  /\ nodeStatus' = nodeStatus \ {w}
             /\ seenDown' = IF command = Idle THEN seenDown ELSE seenDown \cup {w}
             /\ outages' = TRUE /\ (calm' => calm /\ command = Idle)
             /\ UNCHANGED <<metadataServer, storage, nodeLoad, replies, command, output, searches>>
  BY <1>2 DEF Silence, data
<1>3. ASSUME ~\E w \in Workers : Heartbeat(w) \/ Silence(w)
      PROVE  UNCHANGED <<nodeStatus, outages>>
  BY <1>3 DEF Next, vars, nodes, StartUpload, ListFile, StartRetrieve, StartSearch, PlaceReplica,
     FinishUpload, ReadReplica, CheckReplica, Collect, FinishSearch, Failover, Recover
<1> QED BY <1>1, <1>2, <1>3

LEMMA Replica ==
    ASSUME Shape, MetadataIsTrue, NEW f \in Files, NEW c \in DOMAIN metadataServer[f]
    PROVE  /\ Known(f) /\ metadataServer[f] \in Seq(Seq(Workers)) /\ c \in Nat /\ c >= 1
           /\ Len(metadataServer[f]) \in Nat
           /\ DOMAIN metadataServer[f] = 1 .. Len(metadataServer[f])
           /\ metadataServer[f][c] \in Seq(Workers) /\ metadataServer[f][c] # <<>>
           /\ Len(metadataServer[f][c]) \in Nat
           /\ DOMAIN metadataServer[f][c] = 1 .. Len(metadataServer[f][c])
           /\ 1 \in DOMAIN metadataServer[f][c]
           /\ \A i \in DOMAIN metadataServer[f][c] :
                 /\ metadataServer[f][c][i] \in Workers
                 /\ <<f, c>> \in storage[metadataServer[f][c][i]]
<1>1. /\ metadataServer[f] \in Seq(Seq(Workers)) /\ Len(metadataServer[f]) \in Nat
      /\ DOMAIN metadataServer[f] = 1 .. Len(metadataServer[f])
  BY LenProperties DEF Shape
<1>2. c \in 1 .. Len(metadataServer[f]) /\ c \in Nat /\ c >= 1 /\ metadataServer[f] # <<>>
  BY <1>1
<1>3. metadataServer[f][c] \in Seq(Workers)
  BY <1>1, <1>2, ElementOfSeq
<1>4. /\ metadataServer[f][c] # <<>>
      /\ \A i \in DOMAIN metadataServer[f][c] : <<f, c>> \in storage[metadataServer[f][c][i]]
  BY <1>2 DEF MetadataIsTrue, Known
<1> DEFINE s == metadataServer[f][c]
<1>5. s \in Seq(Workers) /\ s # <<>>
  BY <1>3, <1>4
<1> HIDE DEF s
<1>6. /\ Len(s) \in Nat /\ DOMAIN s = 1 .. Len(s) /\ 1 \in DOMAIN s
      /\ \A i \in DOMAIN s : s[i] \in Workers
  BY <1>5
<1> QED BY <1>1, <1>2, <1>3, <1>4, <1>6 DEF Known, s

-----------------------------------------------------------------------------
(* Every step keeps the invariant.                                         *)

LEMMA ShapeStep ==
    ASSUME Shape, Steps, Placing, Awaited, [Next]_vars
    PROVE  Shape'
<1>1. /\ metadataServer' \in [Files -> Seq(Seq(Workers))]
      /\ nodeLoad' \in [Workers -> Nat]
      /\ storage' \in [Workers -> SUBSET Chunk]
  <2>1. CASE PlaceReplica
    <3>1. command.file \in Files /\ Len(command.locations) + 1 \in Nat
      <4>1. command.locations \in Seq(Seq(Workers)) /\ Busy
        BY <2>1, Places, IdleCommand DEF Shape, Command, Busy
      <4> QED BY <4>1, LenProperties DEF Steps
    <3> DEFINE x == <<command.file, Len(command.locations) + 1>>
               w == LeastLoaded(Unused)
    <3>2. /\ UNCHANGED metadataServer /\ w \in Workers
          /\ nodeLoad' = [nodeLoad EXCEPT ![w] = @ + 1]
          /\ storage' = [storage EXCEPT ![w] = @ \cup {x}]
      BY <2>1, Places
    <3>3. x \in Chunk
      BY <3>1 DEF Chunk
    <3> HIDE DEF x, w
    <3> QED BY <3>2, <3>3 DEF Shape
  <2>2. CASE FinishUpload
    <3>1. command.file \in Files /\ command.locations \in Seq(Seq(Workers))
      BY <2>2, Finishes, IdleCommand DEF Shape, Command, Steps, Busy
    <3> QED BY <2>2, <3>1, Finishes DEF Shape
  <2>3. CASE UNCHANGED <<metadataServer, nodeLoad, storage>>
    BY <2>3 DEF Shape
  <2> QED BY <2>1, <2>2, <2>3, Kinds, Uploads
<1>2. nodeStatus' \in SUBSET Workers
  BY NodesChange DEF Shape
<1>3. seenDown' \in SUBSET Workers /\ searches' \in Nat
  <2>1. ASSUME NEW w \in Workers, Silence(w)
        PROVE  seenDown' \in SUBSET Workers /\ searches' \in Nat
    BY <2>1 DEF Silence, Shape
  <2>2. ASSUME ~\E w \in Workers : Silence(w)
        PROVE  seenDown' = seenDown \/ seenDown' = Workers \ nodeStatus
    BY <2>2 DEF Next, vars, StartUpload, ListFile, StartRetrieve, StartSearch, Begin, Reject,
       PlaceReplica, FinishUpload, ReadReplica, CheckReplica, Collect, FinishSearch, Failover,
       Recover, Heartbeat
  <2>3. searches' = searches \/ searches' = searches + 1
    BY DEF Next, vars, counters, StartUpload, ListFile, StartRetrieve, StartSearch,
       PlaceReplica, FinishUpload, ReadReplica, CheckReplica, Collect, FinishSearch, Failover,
       Recover, Heartbeat, Silence
  <2>4. searches' \in Nat
    BY <2>3 DEF Shape
  <2> QED BY <2>1, <2>2, <2>4 DEF Shape
<1>4. replies' \in [Workers -> Seq(Reply)]
  <2>1. CASE CheckReplica
    <3>1. CASE Broadcast
      <4> DEFINE new(w) == [search |-> command.search, valid |-> command.valid,
                            chunks |-> {x \in storage[w] : x[1] = command.file}]
      <4>1. ASSUME NEW w \in Workers PROVE new(w) \in Reply
        BY DEF Shape, Command, Reply
      <4> HIDE DEF new
      <4>2. \A w \in Workers : Append(replies[w], new(w)) \in Seq(Reply)
        BY <4>1, OneMore DEF Shape
      <4> QED BY <3>1, <4>2 DEF Broadcast, new
    <3>2. CASE UNCHANGED replies
      BY <3>2 DEF Shape
    <3> QED BY <2>1, <3>1, <3>2, Checks
  <2>2. CASE Collect
    <3>1. \A w \in Workers : replies[w] # <<>> => Tail(replies[w]) \in Seq(Reply)
      BY DEF Shape
    <3> QED BY <2>2, <3>1, Collects DEF Shape
  <2>3. CASE UNCHANGED replies
    BY <2>3 DEF Shape
  <2>4. ASSUME ~CheckReplica, ~Collect PROVE UNCHANGED replies
    BY <2>4 DEF Next, vars, StartUpload, ListFile, StartRetrieve, StartSearch, PlaceReplica,
       FinishUpload, ReadReplica, FinishSearch, Failover, Recover, Heartbeat, Silence
  <2> QED BY <2>1, <2>2, <2>3, <2>4
<1>5. command' \in Command
  <2>1. CASE command' = Idle \/ UNCHANGED command
    BY <2>1, IdleCommand DEF Shape
  <2>2. ASSUME NEW f \in Files, NEW valid \in BOOLEAN,
               StartUpload(f) \/ StartRetrieve(f) \/ StartSearch(f, valid)
        PROVE  command' \in Command
    BY <2>2, Uploads, Retrieves, Searches, IdleCommand
  <2>3. CASE PlaceReplica \/ ReadReplica \/ CheckReplica \/ Collect
    BY <2>3, Places, Reads, Checks, Collects
  <2>4. CASE FinishUpload \/ FinishSearch \/ (\E f \in Files : ListFile(f))
             \/ (\E w \in Workers : Failover(w) \/ Recover(w) \/ Heartbeat(w) \/ Silence(w))
             \/ UNCHANGED vars
    <3>1. command' = Idle \/ UNCHANGED command
      BY <2>4 DEF FinishUpload, FinishSearch, Finish, ListFile, Failover, Recover, Heartbeat,
         Silence, vars
    <3> QED BY <2>1, <3>1
  <2> QED BY <2>1, <2>2, <2>3, <2>4 DEF Next
<1> QED BY <1>1, <1>2, <1>3, <1>4, <1>5 DEF Shape

LEMMA StepsStep ==
    ASSUME Shape, Steps, MetadataIsTrue, Placing, Awaited, [Next]_vars
    PROVE  Steps'
<1> USE IdleCommand DEF Busy
<1>1. ASSUME NEW f \in Files, StartUpload(f) PROVE Steps'
  BY <1>1, Uploads DEF Steps
<1>2. ASSUME NEW f \in Files, NEW valid \in BOOLEAN, StartRetrieve(f) \/ StartSearch(f, valid)
      PROVE  Steps'
  <2>1. Known(f) => /\ 1 \in DOMAIN metadataServer[f]
                    /\ 1 \in DOMAIN metadataServer[f][1]
    <3>1. Known(f) => 1 \in DOMAIN metadataServer[f]
      BY LenProperties, EmptySeq DEF Known, Shape
    <3> QED BY <3>1, Replica
  <2> QED BY <1>2, <2>1, Retrieves, Searches DEF Steps
<1>3. ASSUME PlaceReplica PROVE Steps'
  BY <1>3, Places DEF Steps
<1>4. ASSUME ReadReplica PROVE Steps'
  <2>1. command.op = "retrieve" /\ UNCHANGED metadataServer
        /\ command.file \in Files /\ output = NoOutput
        /\ command.chunk \in DOMAIN metadataServer[command.file]
        /\ command.next \in DOMAIN metadataServer[command.file][command.chunk]
    BY <1>4, Reads DEF Steps
  <2>2. CASE MoreChunks /\ NextChunk /\ UNCHANGED output
    <3>1. command.chunk + 1 \in DOMAIN metadataServer[command.file]
      BY <2>1, <2>2, Replica DEF MoreChunks
    <3> QED BY <2>1, <2>2, <3>1, Advances, Replica DEF Steps
  <2>3. CASE MoreReplicas /\ NextReplica /\ UNCHANGED output
    <3>1. command.next + 1 \in DOMAIN metadataServer[command.file][command.chunk]
      BY <2>1, <2>3, Replica DEF MoreReplicas, Replicas
    <3> QED BY <2>1, <2>3, <3>1, Advances DEF Steps
  <2>4. CASE command' = Idle
    BY <2>4 DEF Steps
  <2> QED BY <1>4, <2>2, <2>3, <2>4, Reads DEF Finish
<1>5. ASSUME CheckReplica PROVE Steps'
  <2>1. command.op = "check" /\ UNCHANGED metadataServer
        /\ command.file \in Files /\ output = NoOutput
        /\ command.chunk \in DOMAIN metadataServer[command.file]
        /\ command.next \in DOMAIN metadataServer[command.file][command.chunk]
    BY <1>5, Checks DEF Steps
  <2>2. CASE MoreChunks /\ NextChunk /\ UNCHANGED output
    <3>1. command.chunk + 1 \in DOMAIN metadataServer[command.file]
      BY <2>1, <2>2, Replica DEF MoreChunks
    <3> QED BY <2>1, <2>2, <3>1, Advances, Replica DEF Steps
  <2>3. CASE MoreReplicas /\ NextReplica /\ UNCHANGED output
    <3>1. command.next + 1 \in DOMAIN metadataServer[command.file][command.chunk]
      BY <2>1, <2>3, Replica DEF MoreReplicas, Replicas
    <3> QED BY <2>1, <2>3, <3>1, Advances DEF Steps
  <2>4. CASE command'.op = "collect" /\ command'.next = 1 /\ command'.file = command.file
             /\ UNCHANGED output
    <3>1. Known(command.file)
      BY <2>1, Replica
    <3>2. 1 \in 1 .. N + 1
      BY Sizes
    <3> QED BY <2>1, <2>4, <3>1, <3>2 DEF Steps, Known
  <2>5. CASE command' = Idle
    BY <2>5 DEF Steps
  <2> QED BY <1>5, <2>2, <2>3, <2>4, <2>5, Checks DEF Finish
<1>6. ASSUME Collect PROVE Steps'
  <2>1. command.next + 1 \in 1 .. N + 1
    BY <1>6, Collects, Sizes DEF Workers
  <2>2. Known(command.file)' /\ output' = NoOutput /\ command.file \in Files
    BY <1>6, Collects DEF Steps, Known
  <2> QED BY <1>6, <2>1, <2>2, Collects DEF Steps
<1>7. ASSUME FinishUpload \/ FinishSearch PROVE Steps'
  BY <1>7 DEF FinishUpload, FinishSearch, Finish, Steps
<1>8. ASSUME NEW f \in Files, ListFile(f) PROVE Steps'
  BY <1>8 DEF ListFile, Steps
<1>9. ASSUME UNCHANGED <<metadataServer, command, output>> PROVE Steps'
  BY <1>9 DEF Steps, Known
<1>10. ASSUME NEW w \in Workers, Failover(w) \/ Recover(w) \/ Heartbeat(w) \/ Silence(w)
       PROVE  UNCHANGED <<metadataServer, command, output>>
  BY <1>10 DEF Failover, Recover, Heartbeat, Silence, data
<1> QED
  BY <1>1, <1>2, <1>3, <1>4, <1>5, <1>6, <1>7, <1>8, <1>9, <1>10 DEF Next, vars

LEMMA StorageGrows ==
    ASSUME Shape, Steps, Placing, Awaited, [Next]_vars
    PROVE  \A w \in Workers : storage[w] \subseteq storage'[w]
<1>1. CASE PlaceReplica
  <2> DEFINE x == <<command.file, Len(command.locations) + 1>>
             w == LeastLoaded(Unused)
  <2>1. w \in Workers /\ storage' = [storage EXCEPT ![w] = @ \cup {x}]
    BY <1>1, Places
  <2> HIDE DEF x, w
  <2> QED BY <2>1 DEF Shape
<1>2. CASE UNCHANGED storage
  BY <1>2
<1> QED BY <1>1, <1>2, Kinds, Uploads, Finishes

LEMMA ListingIsTrue ==
    ASSUME Shape, NEW f \in Files, NEW L \in Seq(Seq(Workers)),
           \A c \in DOMAIN L : \A i \in DOMAIN L[c] : <<f, c>> \in storage[L[c][i]]
    PROVE  \A l \in Listing(f, L) : l \in Nat \X Chunk /\ l[2] \in storage[l[1]]
<1> SUFFICES ASSUME NEW l \in Listing(f, L) PROVE l \in Nat \X Chunk /\ l[2] \in storage[l[1]]
  OBVIOUS
<1>1. PICK c \in DOMAIN L : \E i \in DOMAIN L[c] : l = <<L[c][i], <<f, c>>>>
  BY DEF Listing
<1>2. PICK i \in DOMAIN L[c] : l = <<L[c][i], <<f, c>>>>
  BY <1>1
<1>3. c \in 1 .. Len(L) /\ Len(L) \in Nat /\ c \in Nat
  BY LenProperties
<1>4. L[c] \in Seq(Workers)
  BY <1>3, ElementOfSeq
<1>5. L[c][i] \in Workers /\ L[c][i] \in Nat
  <2>1. i \in 1 .. Len(L[c])
    BY <1>4, LenProperties
  <2> QED BY <1>4, <2>1, ElementOfSeq, Sizes
<1> QED BY <1>2, <1>3, <1>5 DEF Chunk

LEMMA OutputKinds ==
    ASSUME [Next]_vars
    PROVE  \/ UNCHANGED output
           \/ output'.op \notin {"upload", "list"}
           \/ output'.found = {}
           \/ FinishUpload
           \/ \E f \in Files : ListFile(f)
<1>1. ASSUME NEW op, NEW f, Reject(op, f) PROVE output'.found = {}
  BY <1>1 DEF Reject, NoOutput
<1>2. ASSUME NEW cmd, Begin(cmd) PROVE output'.found = {}
  BY <1>2 DEF Begin, NoOutput
<1>3. ASSUME NEW f \in Files, NEW valid \in BOOLEAN,
             StartUpload(f) \/ StartRetrieve(f) \/ StartSearch(f, valid)
      PROVE  output'.found = {}
  BY <1>1, <1>2, <1>3 DEF StartUpload, StartRetrieve, StartSearch
<1>4. ASSUME PlaceReplica \/ ReadReplica \/ CheckReplica \/ Collect \/ FinishSearch
      PROVE  UNCHANGED output \/ output'.op \notin {"upload", "list"}
  BY <1>4 DEF PlaceReplica, ReadReplica, CheckReplica, Collect, FinishSearch, Finish
<1>5. ASSUME NEW w \in Workers, Failover(w) \/ Recover(w) \/ Heartbeat(w) \/ Silence(w)
      PROVE  UNCHANGED output
  BY <1>5 DEF Failover, Recover, Heartbeat, Silence
<1> QED BY <1>3, <1>4, <1>5 DEF Next, vars

LEMMA MetadataStep ==
    ASSUME Shape, Steps, MetadataIsTrue, Placing, Awaited, [Next]_vars
    PROVE  MetadataIsTrue'
<1> DEFINE true(f, L) ==
               /\ Len(L) = ChunksOf[f]
               /\ \A c \in DOMAIN L :
                     /\ L[c] # <<>>
                     /\ Distinct(L[c])
                     /\ \A i \in DOMAIN L[c] : <<f, c>> \in storage[L[c][i]]
<1>1. \A f \in Files : Known(f) => true(f, metadataServer[f])
  BY DEF MetadataIsTrue, Distinct
<1>2. ASSUME FinishUpload PROVE true(command.file, command.locations)
             /\ command.file \in Files /\ command.locations \in Seq(Seq(Workers))
  BY <1>2, Finishes, IdleCommand DEF Placing, Steps, Busy, Shape, Command
<1>3. ASSUME NEW f \in Files, Known(f)' PROVE true(f, metadataServer'[f])
  <2>1. CASE FinishUpload /\ f = command.file
    BY <1>2, <2>1, Finishes DEF Shape
  <2>2. CASE metadataServer'[f] = metadataServer[f]
    BY <1>1, <1>3, <2>2 DEF Known
  <2>3. FinishUpload /\ f # command.file => metadataServer'[f] = metadataServer[f]
    BY Finishes DEF Shape
  <2>4. ~FinishUpload => UNCHANGED metadataServer
    BY Kinds, Uploads, Places
  <2> QED BY <2>1, <2>2, <2>3, <2>4
<1>4. ASSUME NEW f \in Files, Known(f)'
      PROVE  /\ Len(metadataServer'[f]) = ChunksOf[f]
             /\ \A c \in DOMAIN metadataServer'[f] :
                   /\ metadataServer'[f][c] # <<>>
                   /\ Distinct(metadataServer'[f][c])
                   /\ \A i \in DOMAIN metadataServer'[f][c] :
                         <<f, c>> \in storage'[metadataServer'[f][c][i]]
  <2>1. true(f, metadataServer'[f]) /\ metadataServer'[f] \in Seq(Seq(Workers))
    BY <1>3, <1>4, ShapeStep DEF Shape
  <2> DEFINE L == metadataServer'[f]
  <2> HIDE DEF L
  <2>2. ASSUME NEW c \in DOMAIN L, NEW i \in DOMAIN L[c] PROVE <<f, c>> \in storage'[L[c][i]]
    <3>1. L \in Seq(Seq(Workers)) /\ <<f, c>> \in storage[L[c][i]]
      BY <2>1 DEF L
    <3>2. L[c] \in Seq(Workers)
      BY <3>1
    <3>3. L[c][i] \in Workers
      BY <3>2
    <3> QED BY <3>1, <3>3, StorageGrows
  <2> QED BY <2>1, <2>2 DEF L
<1>5. ASSUME output'.op \in {"upload", "list"}, NEW l \in output'.found
      PROVE  l[2] \in storage'[l[1]]
  <2>1. CASE UNCHANGED output
    <3>1. CASE PlaceReplica
      BY <1>5, <2>1, <3>1, IdleCommand, Places DEF Steps, Busy, NoOutput
    <3>2. CASE UNCHANGED storage
      BY <1>5, <2>1, <3>2 DEF MetadataIsTrue
    <3> QED BY <3>1, <3>2, Kinds, Uploads, Finishes
  <2>2. CASE FinishUpload
    <3>1. l \in Listing(command.file, command.locations) /\ UNCHANGED storage
      BY <1>5, <2>2, Finishes
    <3> QED BY <1>2, <2>2, <3>1, ListingIsTrue
  <2>3. ASSUME NEW f \in Files, ListFile(f) PROVE l[2] \in storage'[l[1]]
    <3>1. l \in Listing(f, metadataServer[f]) /\ UNCHANGED storage
      BY <1>5, <2>3 DEF ListFile, data
    <3>2. \A c \in DOMAIN metadataServer[f] : \A i \in DOMAIN metadataServer[f][c] :
              <<f, c>> \in storage[metadataServer[f][c][i]]
      BY Replica
    <3> QED BY <3>1, <3>2, ListingIsTrue DEF Shape
  <2> QED BY <1>5, <2>1, <2>2, <2>3, OutputKinds
<1> QED BY <1>4, <1>5 DEF MetadataIsTrue, Distinct

\* An upload keeps its lists: a chunk is stored on a node before the node is listed.
LEMMA PlacingStep ==
    ASSUME Shape, Steps, Placing, Awaited, [Next]_vars
    PROVE  Placing'
<1>1. ASSUME NEW f \in Files, StartUpload(f) PROVE Placing'
  <2>1. CASE command' = Idle
    BY <2>1, IdleCommand DEF Placing
  <2>2. CASE /\ command' \in Command /\ command'.op = "upload" /\ command'.file = f
             /\ command'.available = nodeStatus /\ nodeStatus # {} /\ ~Known(f)
             /\ command'.locations = <<>> /\ command'.replicas = <<>>
    <3>1. metadataServer'[command'.file] = <<>>
      BY <1>1, <2>2, Uploads DEF Known
    <3>2. IsFiniteSet(command'.available) /\ Cardinality(command'.available) \in Nat
          /\ Cardinality(command'.available) # 0
      <4>1. IsFiniteSet(nodeStatus)
        BY Sizes, FS_Subset DEF Shape
      <4> QED BY <2>2, <4>1, FS_CardinalityType, FS_EmptySet
    <3>3. 0 < EffectiveReplicationFactor'
      BY <3>2, Sizes DEF EffectiveReplicationFactor
    <3>4. Len(command'.locations) = 0 /\ Len(command'.replicas) = 0
          /\ DOMAIN command'.locations = {} /\ DOMAIN command'.replicas = {}
      BY <2>2
    <3> QED BY <2>2, <3>1, <3>3, <3>4, Sizes DEF Placing, Known, Distinct
  <2> QED BY <1>1, <2>1, <2>2, Uploads
<1>2. ASSUME PlaceReplica PROVE Placing'
  <2> DEFINE w     == LeastLoaded(Unused)
             L     == command.locations
             R     == command.replicas
             f     == command.file
             more  == Append(R, w)
             chunk == Len(L) + 1
  <2>1. /\ w \in Unused /\ w \in Workers /\ w \notin Elements(R)
        /\ command.op = "upload" /\ chunk <= ChunksOf[f]
        /\ storage' = [storage EXCEPT ![w] = @ \cup {<<f, chunk>>}]
        /\ command'.op = "upload" /\ command'.file = f
        /\ command'.available = command.available /\ UNCHANGED metadataServer
        /\ \/ /\ Len(more) = EffectiveReplicationFactor
              /\ command'.locations = Append(L, more) /\ command'.replicas = <<>>
           \/ /\ Len(more) # EffectiveReplicationFactor
              /\ command'.locations = L /\ command'.replicas = more
    BY <1>2, Places
  <2>2. L \in Seq(Seq(Workers)) /\ R \in Seq(Workers) /\ Len(L) \in Nat /\ Len(R) \in Nat
    BY DEF Shape, Command
  <2>3. /\ ~Known(f) /\ command.available # {} /\ Distinct(R)
        /\ Len(R) < EffectiveReplicationFactor
        /\ \A i \in DOMAIN R : R[i] \in command.available /\ <<f, chunk>> \in storage[R[i]]
        /\ \A c \in DOMAIN L :
              /\ L[c] # <<>> /\ Distinct(L[c])
              /\ \A i \in DOMAIN L[c] : <<f, c>> \in storage[L[c][i]]
    BY <2>1 DEF Placing
  <2>4. f \in Files /\ ChunksOf[f] \in Nat
    BY <2>1, IdleCommand, Sizes DEF Steps, Busy
  <2>5. EffectiveReplicationFactor \in Nat /\ EffectiveReplicationFactor >= 1
    BY <2>1, SomeUnused
  <2>6. EffectiveReplicationFactor' = EffectiveReplicationFactor
    BY <2>1 DEF EffectiveReplicationFactor
  <2>7. w \in command.available
    BY <2>1 DEF Unused
  <2> HIDE DEF w, L, R, f
  <2>8. /\ more \in Seq(Workers) /\ Len(more) = Len(R) + 1 /\ more # <<>> /\ Distinct(more)
        /\ DOMAIN more = 1 .. Len(R) + 1 /\ DOMAIN R = 1 .. Len(R)
        /\ \A i \in DOMAIN R : more[i] = R[i]
        /\ more[Len(R) + 1] = w
    BY <2>1, <2>2, <2>3, OneMore DEF more
  <2>9. \A v \in Workers : storage[v] \subseteq storage'[v]
    BY StorageGrows
  <2>10. ASSUME NEW i \in DOMAIN more
         PROVE  more[i] \in command.available /\ <<f, chunk>> \in storage'[more[i]]
    <3>1. CASE i \in DOMAIN R
      <4>1. R[i] \in Workers
        BY <2>2, <2>8, <3>1
      <4> QED BY <2>3, <2>8, <2>9, <3>1, <4>1
    <3>2. CASE i = Len(R) + 1
      <4>1. <<f, chunk>> \in storage'[w]
        BY <2>1 DEF Shape
      <4> QED BY <2>7, <2>8, <3>2, <4>1
    <3> QED BY <2>2, <2>8, <3>1, <3>2
  <2>11. ASSUME NEW c \in DOMAIN L, NEW i \in DOMAIN L[c] PROVE <<f, c>> \in storage'[L[c][i]]
    <3>1. L[c] \in Seq(Workers)
      BY <2>2
    <3>2. L[c][i] \in Workers
      BY <3>1
    <3> QED BY <2>3, <2>9, <3>2
  <2> HIDE DEF more
  <2>12. CASE /\ Len(more) = EffectiveReplicationFactor
              /\ command'.locations = Append(L, more) /\ command'.replicas = <<>>
    <3> DEFINE M == Append(L, more)
    <3>1. /\ Len(M) = Len(L) + 1 /\ DOMAIN M = 1 .. Len(L) + 1 /\ DOMAIN L = 1 .. Len(L)
          /\ \A c \in DOMAIN L : M[c] = L[c]
          /\ M[Len(L) + 1] = more
      BY <2>2, <2>8, OneMore
    <3> HIDE DEF M
    <3>2. ASSUME NEW c \in DOMAIN M
          PROVE  /\ M[c] # <<>> /\ Distinct(M[c])
                 /\ \A i \in DOMAIN M[c] : <<f, c>> \in storage'[M[c][i]]
      <4>1. CASE c \in DOMAIN L
        BY <2>3, <2>11, <3>1, <4>1
      <4>2. CASE c = Len(L) + 1
        <5>1. M[c] = more /\ c = chunk
          BY <3>1, <4>2
        <5> HIDE DEF chunk
        <5> QED BY <2>8, <2>10, <5>1
      <4>3. c \in DOMAIN L \/ c = Len(L) + 1
        BY <2>2, <3>1
      <4> QED BY <4>1, <4>2, <4>3
    <3>3. Len(M) <= ChunksOf[f] /\ 0 < EffectiveReplicationFactor
      BY <2>1, <2>5, <3>1
    <3>4. command'.locations = M
      BY <2>12 DEF M
    <3>5. command'.replicas = <<>> /\ Len(command'.replicas) = 0 /\ DOMAIN command'.replicas = {}
          /\ Distinct(command'.replicas)
      BY <2>12 DEF Distinct
    <3>6. /\ command'.op = "upload" /\ command'.file = f /\ metadataServer'[f] = <<>>
          /\ command'.available # {}
      BY <2>1, <2>3 DEF Known
    <3> QED BY <2>6, <3>2, <3>3, <3>4, <3>5, <3>6 DEF Placing, Known
  <2>13. CASE /\ Len(more) # EffectiveReplicationFactor
              /\ command'.locations = L /\ command'.replicas = more
    <3>1. Len(more) < EffectiveReplicationFactor
      BY <2>2, <2>3, <2>5, <2>8, <2>13
    <3>2. Len(L) <= ChunksOf[f] /\ Len(L) # ChunksOf[f]
      BY <2>1, <2>2, <2>4
    <3>3. /\ command'.op = "upload" /\ command'.file = f /\ metadataServer'[f] = <<>>
          /\ command'.available # {} /\ command'.available = command.available
      BY <2>1, <2>3 DEF Known
    <3> QED BY <2>3, <2>6, <2>8, <2>10, <2>11, <2>13, <3>1, <3>2, <3>3 DEF Placing, Known
  <2> QED BY <2>1, <2>12, <2>13
<1>3. CASE FinishUpload
  BY <1>3, Finishes, IdleCommand DEF Placing
<1>4. CASE command'.op # "upload"
  BY <1>4 DEF Placing
<1>5. CASE UNCHANGED <<metadataServer, storage, nodeLoad, command>>
  BY <1>5 DEF Placing, Known, EffectiveReplicationFactor
<1> QED BY <1>1, <1>2, <1>3, <1>4, <1>5, Kinds

\* What an upload has not placed yet, no node stores.
LEMMA NotYetStored ==
    ASSUME Shape, Placing, Provenance, command.op = "upload",
           NEW w \in Workers \ Elements(command.replicas)
    PROVE  <<command.file, Len(command.locations) + 1>> \notin storage[w]
<1> DEFINE x == <<command.file, Len(command.locations) + 1>>
<1>1. Len(command.locations) \in Nat
  BY DEF Shape, Command
<1>2. x[1] = command.file /\ x[2] = Len(command.locations) + 1
  OBVIOUS
<1>3. DOMAIN metadataServer[x[1]] = {}
  BY <1>2 DEF Placing, Known
<1>4. ~(x[2] <= Len(command.locations))
  BY <1>1, <1>2
<1> HIDE DEF x
<1>5. x \notin storage[w]
  BY <1>3, <1>4 DEF Provenance
<1> QED BY <1>5 DEF x

LEMMA ProvenanceStep ==
    ASSUME Shape, Steps, Placing, Awaited, Provenance, [Next]_vars
    PROVE  Provenance'
<1>1. ASSUME NEW f \in Files, StartUpload(f) PROVE Provenance'
  <2>1. command.op # "upload" /\ UNCHANGED <<metadataServer, storage>>
    BY <1>1, Uploads, IdleCommand
  <2> QED BY <2>1 DEF Provenance
<1>2. ASSUME PlaceReplica PROVE Provenance'
  <2> DEFINE w     == LeastLoaded(Unused)
             more  == Append(command.replicas, w)
             L     == command.locations
             R     == command.replicas
             f     == command.file
             chunk == Len(L) + 1
  <2>1. /\ w \in Workers /\ command.op = "upload"
        /\ storage' = [storage EXCEPT ![w] = @ \cup {<<f, chunk>>}]
        /\ command'.op = "upload" /\ command'.file = f /\ UNCHANGED metadataServer
        /\ \/ command'.locations = Append(L, more) /\ command'.replicas = <<>>
           \/ command'.locations = L /\ command'.replicas = more
    BY <1>2, Places
  <2>2. L \in Seq(Seq(Workers)) /\ R \in Seq(Workers) /\ Len(L) \in Nat
    BY DEF Shape, Command
  <2>3. Elements(more) = Elements(R) \cup {w} /\ more \in Seq(Workers)
    BY <2>1, <2>2, OneMore
  <2>4. Len(Append(L, more)) = Len(L) + 1
    BY <2>2, <2>3, OneMore
  <2> HIDE DEF w, more, L, R, f
  <2> SUFFICES ASSUME NEW v \in Workers, NEW x \in storage'[v]
               PROVE  \/ x[2] \in DOMAIN metadataServer'[x[1]]
                      \/ /\ command'.op = "upload" /\ x[1] = command'.file /\ x[2] # 0
                         /\ \/ x[2] <= Len(command'.locations)
                            \/ /\ x[2] = Len(command'.locations) + 1
                               /\ v \in Elements(command'.replicas)
    BY DEF Provenance
  <2>5. CASE x \in storage[v] /\ x[2] \in DOMAIN metadataServer[x[1]]
    BY <2>1, <2>5
  <2>6. CASE /\ x[1] = f /\ x[2] # 0
             /\ x[2] \in Nat
             /\ x[2] <= Len(L) \/ (x[2] = chunk /\ v \in Elements(R) \cup {w})
    <3>1. CASE command'.locations = Append(L, more) /\ command'.replicas = <<>>
      <4>1. x[2] <= Len(Append(L, more))
        BY <2>2, <2>4, <2>6
      <4> QED BY <2>1, <2>6, <3>1, <4>1
    <3>2. CASE command'.locations = L /\ command'.replicas = more
      BY <2>1, <2>3, <2>6, <3>2
    <3> QED BY <2>1, <3>1, <3>2
  <2>7. CASE x \in storage[v] /\ x[2] \notin DOMAIN metadataServer[x[1]]
    <3>1. x \in Chunk
      BY <2>7 DEF Shape
    <3>2. x[2] \in Nat
      BY <3>1 DEF Chunk
    <3> QED BY <2>6, <2>7, <3>2 DEF Provenance, L, R, f
  <2>8. CASE x \notin storage[v]
    <3>1. v = w /\ x = <<f, chunk>>
      BY <2>1, <2>8 DEF Shape
    <3>2. x[1] = f /\ x[2] = chunk /\ x[2] \in Nat /\ x[2] # 0
      BY <2>2, <3>1
    <3> QED BY <2>6, <3>1, <3>2
  <2> QED BY <2>5, <2>7, <2>8
<1>3. ASSUME FinishUpload PROVE Provenance'
  <2>1. /\ command.op = "upload" /\ Len(command.locations) = ChunksOf[command.file]
        /\ metadataServer' = [metadataServer EXCEPT ![command.file] = command.locations]
        /\ UNCHANGED storage /\ command.file \in Files
        /\ metadataServer[command.file] = <<>> /\ command.replicas = <<>>
        /\ command.locations \in Seq(Seq(Workers))
    BY <1>3, Finishes, IdleCommand DEF Placing, Known, Steps, Busy, Shape, Command
  <2>2. DOMAIN command.locations = 1 .. Len(command.locations)
        /\ Len(command.locations) \in Nat /\ Elements(command.replicas) = {}
    BY <2>1 DEF Elements
  <2> SUFFICES ASSUME NEW v \in Workers, NEW x \in storage[v]
               PROVE  x[2] \in DOMAIN metadataServer'[x[1]]
    BY <2>1 DEF Provenance
  <2>3. x[1] \in Files /\ x[2] \in Nat
    <3>1. x \in Chunk
      BY DEF Shape
    <3> QED BY <3>1 DEF Chunk
  <2>4. CASE x[1] = command.file
    <3>1. metadataServer'[x[1]] = command.locations
      BY <2>1, <2>3, <2>4 DEF Shape
    <3>2. x[2] # 0 /\ x[2] <= Len(command.locations)
      BY <2>1, <2>2, <2>4 DEF Provenance
    <3> QED BY <2>2, <2>3, <3>1, <3>2
  <2>5. CASE x[1] # command.file
    BY <2>1, <2>3, <2>5 DEF Provenance, Shape
  <2> QED BY <2>4, <2>5
<1>4. CASE command.op # "upload" /\ UNCHANGED <<metadataServer, storage, nodeLoad>>
  BY <1>4 DEF Provenance
<1>5. CASE UNCHANGED <<metadataServer, storage, nodeLoad, command>>
  BY <1>5 DEF Provenance
<1> QED BY <1>1, <1>2, <1>3, <1>4, <1>5, Kinds

LEMMA BalanceStep ==
    ASSUME Shape, Steps, Placing, Awaited, Provenance, Balance, [Next]_vars
    PROVE  Balance'
<1> DEFINE w     == LeastLoaded(Unused)
           R     == command.replicas
           more  == Append(R, w)
           x     == <<command.file, Len(command.locations) + 1>>
<1>1. ASSUME PlaceReplica
      PROVE  /\ w \in Workers /\ w \notin Elements(R) /\ x \notin storage[w]
             /\ \A v \in command.available \ Elements(R) : nodeLoad[w] <= nodeLoad[v]
             /\ command.op = "upload" /\ command'.available = command.available
             /\ nodeLoad' = [nodeLoad EXCEPT ![w] = @ + 1]
             /\ storage' = [storage EXCEPT ![w] = @ \cup {x}]
             /\ UNCHANGED nodeStatus
             /\ Elements(command'.replicas) \in {{}, Elements(R) \cup {w}}
  <2>1. /\ w \in Workers /\ w \notin Elements(R)
        /\ \A v \in Unused : nodeLoad[w] <= nodeLoad[v]
        /\ command.op = "upload" /\ command'.available = command.available
        /\ nodeLoad' = [nodeLoad EXCEPT ![w] = @ + 1]
        /\ storage' = [storage EXCEPT ![w] = @ \cup {x}]
        /\ UNCHANGED nodeStatus
        /\ command'.replicas = <<>> \/ command'.replicas = more
    BY <1>1, Places
  <2>2. Unused = command.available \ Elements(R)
    BY <2>1, SomeUnused
  <2>3. x \notin storage[w]
    BY <2>1, NotYetStored
  <2>4. R \in Seq(Workers)
    BY DEF Shape, Command
  <2> HIDE DEF w, R
  <2>5. Elements(more) = Elements(R) \cup {w}
    BY <2>1, <2>4, OneMore
  <2>6. Elements(<<>>) = {}
    BY DEF Elements
  <2> HIDE DEF more, x
  <2> QED BY <2>1, <2>2, <2>3, <2>5, <2>6
<1> HIDE DEF w, R, more, x
<1>2. ASSUME NEW v \in Workers
      PROVE  IsFiniteSet(storage'[v]) /\ nodeLoad'[v] = Cardinality(storage'[v])
  <2>1. IsFiniteSet(storage[v]) /\ nodeLoad[v] = Cardinality(storage[v]) /\ nodeLoad[v] \in Nat
    BY DEF Balance, Shape
  <2>2. CASE PlaceReplica /\ v = w
    <3>1. /\ storage'[v] = storage[v] \cup {x} /\ nodeLoad'[v] = nodeLoad[v] + 1
          /\ x \notin storage[v]
      BY <1>1, <2>2 DEF Shape
    <3>2. IsFiniteSet(storage[v] \cup {x})
          /\ Cardinality(storage[v] \cup {x}) = Cardinality(storage[v]) + 1
      BY <2>1, <3>1, FS_AddElement
    <3> QED BY <2>1, <3>1, <3>2
  <2>3. CASE PlaceReplica /\ v # w
    <3>1. storage'[v] = storage[v] /\ nodeLoad'[v] = nodeLoad[v]
      BY <1>1, <2>3 DEF Shape
    <3> QED BY <2>1, <3>1
  <2>4. CASE UNCHANGED <<storage, nodeLoad>>
    BY <2>1, <2>4
  <2> QED BY <2>2, <2>3, <2>4, Kinds, Uploads, Finishes
<1>3. ASSUME ~outages' PROVE ~outages /\ nodeStatus' = Workers
  <2>1. ~outages
    BY <1>3, NodesChange
  <2> QED BY <1>3, <2>1, NodesChange DEF Balance
<1>4. ASSUME ~outages', command'.op = "upload" PROVE command'.available = Workers
  <2>1. ASSUME NEW f \in Files, StartUpload(f) PROVE command'.available = Workers
    BY <1>3, <1>4, <2>1, Uploads, IdleCommand DEF Balance
  <2>2. CASE PlaceReplica
    BY <1>1, <1>3, <1>4, <2>2 DEF Balance
  <2>3. CASE FinishUpload
    BY <1>4, <2>3, Finishes, IdleCommand
  <2>4. CASE UNCHANGED command
    BY <1>3, <1>4, <2>4 DEF Balance
  <2> QED BY <1>4, <2>1, <2>2, <2>3, <2>4, Kinds
<1>5. ASSUME ~outages', PlaceReplica, NEW v \in Workers PROVE nodeLoad[w] <= nodeLoad[v]
  <2>1. CASE v \in Elements(R)
    BY <1>1, <1>3, <1>5, <2>1 DEF Balance, R
  <2>2. CASE v \notin Elements(R)
    BY <1>1, <1>3, <1>5, <2>2 DEF Balance
  <2> QED BY <2>1, <2>2
<1>6. ASSUME PlaceReplica, NEW v \in Workers
      PROVE  /\ nodeLoad[v] \in Nat /\ nodeLoad'[v] \in Nat
             /\ v = w => nodeLoad'[v] = nodeLoad[v] + 1
             /\ v # w => nodeLoad'[v] = nodeLoad[v]
  BY <1>1, <1>6 DEF Shape
<1>7. ASSUME ~outages', NEW u \in Workers, NEW v \in Workers
      PROVE  nodeLoad'[u] - nodeLoad'[v] <= 1
  <2>1. nodeLoad[u] - nodeLoad[v] <= 1
    BY <1>3, <1>7 DEF Balance
  <2>2. CASE PlaceReplica
    <3>1. nodeLoad[w] <= nodeLoad[v]
      BY <1>5, <1>7, <2>2
    <3> DEFINE a == nodeLoad[u]
               b == nodeLoad[v]
               c == nodeLoad'[u]
               d == nodeLoad'[v]
    <3>2. /\ a \in Nat /\ b \in Nat /\ a - b <= 1
          /\ u = w => c = a + 1 /\ a <= b
          /\ u # w => c = a
          /\ d = b \/ (d = b + 1 /\ v = w)
      BY <1>6, <2>1, <2>2, <3>1
    <3>3. u = w /\ v = w => c = d
      OBVIOUS
    <3> HIDE DEF a, b, c, d
    <3>4. c - d <= 1
      BY <3>2, <3>3
    <3> QED BY <3>4 DEF c, d
  <2>3. CASE UNCHANGED nodeLoad
    BY <2>1, <2>3
  <2> QED BY <2>2, <2>3, Kinds, Uploads, Finishes
<1>8. ASSUME ~outages', command'.op = "upload", NEW u \in Elements(command'.replicas),
             NEW v \in Workers \ Elements(command'.replicas)
      PROVE  nodeLoad'[v] <= nodeLoad'[u]
  <2>1. ASSUME NEW f \in Files, StartUpload(f) PROVE FALSE
    <3>1. command'.replicas = <<>>
      BY <1>8, <2>1, Uploads, IdleCommand
    <3> QED BY <1>8, <3>1 DEF Elements
  <2>2. CASE PlaceReplica
    <3>1. /\ Elements(command'.replicas) = Elements(R) \cup {w}
          /\ u \in Elements(R) \/ u = w
          /\ v \in Workers /\ v \notin Elements(R) /\ v # w
      BY <1>1, <1>8, <2>2
    <3>2. nodeLoad'[v] = nodeLoad[v] /\ nodeLoad[v] \in Nat
      BY <1>6, <2>2, <3>1
    <3>3. CASE u = w
      <4>1. nodeLoad[v] - nodeLoad[w] <= 1 /\ w \in Workers
        BY <1>1, <1>3, <1>8, <2>2, <3>1 DEF Balance
      <4>2. nodeLoad'[w] = nodeLoad[w] + 1 /\ nodeLoad[w] \in Nat
        BY <1>6, <2>2, <4>1
      <4> QED BY <3>2, <3>3, <4>1, <4>2
    <3>4. CASE u \in Elements(R) /\ u # w
      <4>1. nodeLoad[v] <= nodeLoad[u]
        BY <1>1, <1>3, <1>8, <2>2, <3>1, <3>4 DEF Balance, R
      <4>2. u \in Workers
        <5>1. R \in Seq(Workers)
          BY DEF Shape, Command, R
        <5> QED BY <3>4, <5>1 DEF Elements
      <4>3. nodeLoad'[u] = nodeLoad[u]
        BY <1>6, <2>2, <3>4, <4>2
      <4> QED BY <3>2, <4>1, <4>3
    <3> QED BY <3>1, <3>3, <3>4
  <2>3. CASE FinishUpload
    BY <1>8, <2>3, Finishes, IdleCommand
  <2>4. CASE UNCHANGED <<command, nodeLoad>>
    BY <1>3, <1>8, <2>4 DEF Balance
  <2> QED BY <1>8, <2>1, <2>2, <2>3, <2>4, Kinds
<1> QED BY <1>2, <1>3, <1>4, <1>7, <1>8 DEF Balance

\* The replica that a reader passes over does not answer: it has the chunk.
LEMMA PassedOverIsDown ==
    ASSUME Shape, Steps, MetadataIsTrue, PassedOver, command.op = "retrieve",
           ~(Node \in nodeStatus /\ RetrieveWorker(Node))
    PROVE  Node \in seenDown
<1>1. command.file \in Files /\ Busy
  BY IdleCommand DEF Steps, Busy
<1>2. /\ command.chunk \in DOMAIN metadataServer[command.file]
      /\ command.next \in DOMAIN metadataServer[command.file][command.chunk]
  BY DEF Steps
<1>3. Node \in Workers /\ <<command.file, command.chunk>> \in storage[Node]
  BY <1>1, <1>2, Replica DEF Node, Replicas
<1>4. Node \notin nodeStatus
  BY <1>3 DEF RetrieveWorker
<1> QED BY <1>1, <1>3, <1>4 DEF PassedOver

LEMMA PassedOverStep ==
    ASSUME Shape, Steps, MetadataIsTrue, Placing, Awaited, PassedOver, [Next]_vars
    PROVE  PassedOver'
<1> USE IdleCommand
<1>1. CASE command' = Idle
  BY <1>1 DEF PassedOver, Busy
<1>2. ASSUME command'.op # "retrieve", Workers \ nodeStatus' \subseteq seenDown'
      PROVE  PassedOver'
  BY <1>2 DEF PassedOver
<1>3. ASSUME Busy PROVE Workers \ nodeStatus \subseteq seenDown
  BY <1>3 DEF PassedOver
<1>4. ASSUME NEW f \in Files, NEW valid \in BOOLEAN,
             StartUpload(f) \/ StartRetrieve(f) \/ StartSearch(f, valid)
      PROVE  PassedOver'
  <2>1. nodeStatus' = nodeStatus /\ seenDown' = Workers \ nodeStatus
    BY <1>4 DEF StartUpload, StartRetrieve, StartSearch, Begin, Reject, nodes
  <2>2. command' = Idle \/ command'.op # "retrieve" \/ command'.next = 1
    BY <1>4, Uploads, Retrieves, Searches
  <2>3. CASE command'.next = 1
    <3>1. 1 .. command'.next - 1 = {}
      BY <2>3
    <3> QED BY <2>1, <3>1 DEF PassedOver
  <2> QED BY <1>1, <1>2, <2>1, <2>2, <2>3
<1>5. ASSUME PlaceReplica \/ CheckReplica \/ Collect PROVE PassedOver'
  <2>1. /\ Busy /\ UNCHANGED <<nodeStatus, seenDown>>
        /\ command' = Idle \/ command'.op # "retrieve"
    BY <1>5, Places, Checks, Collects DEF Busy
  <2> QED BY <1>1, <1>2, <1>3, <2>1
<1>6. ASSUME ReadReplica PROVE PassedOver'
  <2>1. /\ Busy /\ command.op = "retrieve" /\ UNCHANGED <<nodeStatus, seenDown, metadataServer>>
    BY <1>6, Reads DEF Busy
  <2>2. CASE NextChunk
    <3>1. command'.next = 1
      BY <2>2, Advances
    <3>2. 1 .. command'.next - 1 = {}
      BY <3>1
    <3> QED BY <1>3, <2>1, <3>2 DEF PassedOver
  <2>3. CASE /\ ~(Node \in nodeStatus /\ RetrieveWorker(Node))
             /\ NextReplica
    <3>1. Node \in seenDown
      BY <2>1, <2>3, PassedOverIsDown
    <3>2. /\ command'.file = command.file /\ command'.chunk = command.chunk
          /\ command'.next = command.next + 1 /\ command.next \in Nat
      BY <2>3, Advances DEF Shape, Command
    <3>3. Replicas' = Replicas
      BY <2>1, <3>2 DEF Replicas
    <3>4. ASSUME NEW i \in 1 .. command'.next - 1 PROVE Replicas[i] \in seenDown
      <4>1. i \in 1 .. command.next - 1 \/ i = command.next
        BY <3>2
      <4> QED BY <2>1, <3>1, <4>1 DEF PassedOver, Node
    <3> QED BY <1>3, <2>1, <3>3, <3>4 DEF PassedOver
  <2> QED BY <1>1, <1>6, <2>2, <2>3, Reads DEF Finish
<1>7. ASSUME FinishUpload \/ FinishSearch PROVE PassedOver'
  BY <1>1, <1>7 DEF FinishUpload, FinishSearch, Finish
<1>8. ASSUME NEW f \in Files, ListFile(f) PROVE PassedOver'
  BY <1>1, <1>8 DEF ListFile
<1>9. ASSUME UNCHANGED <<metadataServer, command>>, UNCHANGED seenDown \/ command # Idle,
             seenDown \subseteq seenDown', Workers \ nodeStatus' \subseteq seenDown'
                 \/ command = Idle
      PROVE  PassedOver'
  <2>1. Replicas' = Replicas
    BY <1>9 DEF Replicas
  <2> QED BY <1>9, <2>1 DEF PassedOver, Busy
<1>10. ASSUME NEW w \in Workers, Failover(w) \/ Recover(w) PROVE PassedOver'
  BY <1>1, <1>10 DEF Failover, Recover
<1>11. ASSUME NEW w \in Workers, Heartbeat(w) PROVE PassedOver'
  BY <1>3, <1>9, <1>11 DEF Heartbeat, heartbeatWorker, data, Busy
<1>12. ASSUME NEW w \in Workers, Silence(w) PROVE PassedOver'
  BY <1>3, <1>9, <1>12 DEF Silence, data, Busy
<1>13. ASSUME UNCHANGED vars PROVE PassedOver'
  BY <1>3, <1>9, <1>13 DEF vars, Busy
<1> QED BY <1>4, <1>5, <1>6, <1>7, <1>8, <1>10, <1>11, <1>12, <1>13 DEF Next

\* How a step changes the result of a retrieve or of a search.
LEMMA Results ==
    ASSUME Shape, Steps, Awaited, [Next]_vars
    PROVE  \/ /\ ReadReplica /\ ~(Node \in nodeStatus /\ RetrieveWorker(Node)) /\ ~MoreReplicas
              /\ Finish("retrieve", FALSE)
           \/ FinishSearch
           \/ /\ UNCHANGED <<output, metadataServer, seenDown>> /\ (calm' => calm)
              /\ output # NoOutput
           \/ output'.op \notin {"retrieve", "search"}
           \/ output'.op = "retrieve" /\ output'.ok
           \/ output'.op = "search" /\ ~output'.ok
           \/ /\ output'.op = "retrieve" /\ UNCHANGED metadataServer
              /\ metadataServer[output'.file] = <<>>
<1> DEFINE Refused == /\ ReadReplica /\ ~(Node \in nodeStatus /\ RetrieveWorker(Node))
                      /\ ~MoreReplicas /\ Finish("retrieve", FALSE)
           Other   == \/ output'.op \notin {"retrieve", "search"}
                      \/ output'.op = "retrieve" /\ output'.ok
                      \/ output'.op = "search" /\ ~output'.ok
                      \/ /\ output'.op = "retrieve" /\ UNCHANGED metadataServer
                         /\ metadataServer[output'.file] = <<>>
           Still   == /\ UNCHANGED <<output, metadataServer, seenDown>> /\ (calm' => calm)
                      /\ output # NoOutput
<1>1. ASSUME output' = NoOutput PROVE Other
  BY <1>1 DEF NoOutput
<1>2. ASSUME Busy, UNCHANGED output PROVE Other
  BY <1>1, <1>2 DEF Steps
<1>3. ASSUME NEW f \in Files, StartUpload(f) \/ ListFile(f) PROVE Other
  <2>1. CASE StartUpload(f) /\ output' = [NoOutput EXCEPT !.op = "upload", !.file = f]
    <3>1. output'.op = "upload"
      BY <2>1 DEF NoOutput
    <3> QED BY <3>1
  <2>2. CASE ListFile(f)
    <3>1. output'.op = "list"
      BY <2>2 DEF ListFile
    <3> QED BY <3>1
  <2> QED BY <1>1, <1>3, <2>1, <2>2 DEF StartUpload, Begin, Reject
<1>4. ASSUME NEW f \in Files, StartRetrieve(f) PROVE Other
  <2>1. CASE Known(f)
    BY <1>1, <1>4, <2>1 DEF StartRetrieve, Begin
  <2>2. CASE ~Known(f)
    BY <1>4, <2>2 DEF StartRetrieve, Reject, NoOutput, Known, data
  <2> QED BY <2>1, <2>2
<1>5. ASSUME NEW f \in Files, NEW valid \in BOOLEAN, StartSearch(f, valid) PROVE Other
  BY <1>1, <1>5 DEF StartSearch, Begin, Reject, NoOutput
<1>6. ASSUME PlaceReplica \/ Collect PROVE Other
  BY <1>2, <1>6, IdleCommand DEF PlaceReplica, Collect, Busy
<1>7. ASSUME ReadReplica, ~Refused PROVE Other
  <2>1. UNCHANGED output \/ Finish("retrieve", TRUE)
    BY <1>7, Reads
  <2> QED BY <1>2, <1>7, <2>1, Reads, IdleCommand DEF Finish, Busy
<1>8. ASSUME CheckReplica PROVE Other
  <2>1. UNCHANGED output \/ Finish("search", FALSE)
    BY <1>8, Checks
  <2> QED BY <1>2, <1>8, <2>1, Checks, IdleCommand DEF Finish, Busy
<1>9. ASSUME FinishUpload PROVE Other
  BY <1>9, Finishes
<1>10. ASSUME NEW w \in Workers, Failover(w) \/ Recover(w) \/ Heartbeat(w) \/ Silence(w)
       PROVE  Other \/ Still
  <2>1. /\ UNCHANGED <<output, metadataServer>> /\ (calm' => calm)
        /\ UNCHANGED seenDown \/ Busy
    <3>1. CASE Silence(w)
      BY <3>1 DEF Silence, data, Busy
    <3>2. CASE Failover(w) \/ Recover(w) \/ Heartbeat(w)
      BY <3>2 DEF Failover, Recover, Heartbeat, data
    <3> QED BY <1>10, <3>1, <3>2
  <2> QED BY <1>1, <1>2, <2>1
<1>11. ASSUME UNCHANGED vars PROVE Other \/ Still
  BY <1>1, <1>11 DEF vars
<1> HIDE DEF Refused, Other, Still
<1>12. Other \/ FinishSearch \/ Refused \/ Still
  BY <1>3, <1>4, <1>5, <1>6, <1>7, <1>8, <1>9, <1>10, <1>11 DEF Next
<1> QED BY <1>12 DEF Refused, Other, Still

LEMMA RetrieveFailsForCauseStep ==
    ASSUME Shape, Steps, MetadataIsTrue, PassedOver, Awaited, RetrieveFailsForCause, [Next]_vars
    PROVE  RetrieveFailsForCause'
<1>1. CASE /\ ReadReplica /\ ~(Node \in nodeStatus /\ RetrieveWorker(Node)) /\ ~MoreReplicas
           /\ Finish("retrieve", FALSE)
  <2>1. /\ command.op = "retrieve" /\ UNCHANGED <<metadataServer, seenDown>>
        /\ ~(Node \in nodeStatus /\ RetrieveWorker(Node)) /\ ~MoreReplicas
        /\ output'.file = command.file
    BY <1>1, Reads DEF Finish
  <2>2. Node \in seenDown
    BY <2>1, PassedOverIsDown
  <2>3. command.file \in Files
    BY <2>1, IdleCommand DEF Steps, Busy
  <2>4. /\ command.chunk \in DOMAIN metadataServer[command.file]
        /\ command.next \in DOMAIN Replicas
    BY <2>1 DEF Steps, Replicas
  <2>5. DOMAIN Replicas = 1 .. Len(Replicas) /\ Len(Replicas) \in Nat
    BY <2>3, <2>4, Replica DEF Replicas
  <2>6. ASSUME NEW i \in DOMAIN Replicas PROVE Replicas[i] \in seenDown
    <3>1. i \in 1 .. command.next - 1 \/ i = command.next
      BY <2>1, <2>4, <2>5 DEF MoreReplicas
    <3> QED BY <2>1, <2>2, <3>1 DEF PassedOver, Node
  <2> QED BY <2>1, <2>4, <2>6 DEF RetrieveFailsForCause, Replicas
<1>2. CASE UNCHANGED <<output, metadataServer, seenDown>>
  BY <1>2 DEF RetrieveFailsForCause, Known
<1>3. CASE output'.op # "retrieve"
  BY <1>3 DEF RetrieveFailsForCause
<1>4. CASE output'.ok
  BY <1>4 DEF RetrieveFailsForCause
<1>5. CASE UNCHANGED metadataServer /\ metadataServer[output'.file] = <<>>
  BY <1>5 DEF RetrieveFailsForCause, Known
<1>6. CASE FinishSearch
  BY <1>3, <1>6 DEF FinishSearch, Finish
<1> QED BY <1>1, <1>2, <1>3, <1>4, <1>5, <1>6, Results

LEMMA AwaitedStep ==
    ASSUME Shape, Steps, Placing, Awaited, Searching, [Next]_vars
    PROVE  Awaited'
<1> USE IdleCommand
<1> DEFINE chunksOf(w) == {x \in storage[w] : x[1] = command.file}
<1>1. CASE command'.op # "collect"
  BY <1>1 DEF Awaited
<1>2. ASSUME CheckReplica, Broadcast, command'.op = "collect", command'.file = command.file,
             command'.search = command.search
      PROVE  Awaited'
  <2>1. command.op = "check" /\ UNCHANGED <<storage, calm>>
    BY <1>2, Checks
  <2> SUFFICES ASSUME NEW w \in Workers
               PROVE  /\ replies'[w] # <<>>
                      /\ calm => /\ replies'[w][1].search = command.search
                                 /\ replies'[w][1].chunks = chunksOf(w)
    BY <1>2, <2>1 DEF Awaited
  <2> DEFINE new == [search |-> command.search, valid |-> command.valid, chunks |-> chunksOf(w)]
  <2>2. replies'[w] = Append(replies[w], new)
    BY <1>2 DEF Broadcast
  <2>3. replies[w] \in Seq(Reply) /\ new \in Reply
    BY DEF Shape, Command, Reply
  <2>4. new.search = command.search /\ new.chunks = chunksOf(w)
    OBVIOUS
  <2> HIDE DEF new, chunksOf
  <2>5. replies'[w] # <<>>
    BY <2>2, <2>3, OneMore
  <2>6. ASSUME calm PROVE replies'[w][1] = new
    <3>1. replies[w] = <<>>
      BY <2>1, <2>6 DEF Searching
    <3> QED BY <2>2, <3>1
  <2> QED BY <2>4, <2>5, <2>6
<1>3. ASSUME Collect PROVE Awaited'
  <2> DEFINE v == command.next
  <2>1. /\ command.op = "collect" /\ v \in Workers /\ v \in Nat
        /\ command'.op = "collect" /\ command'.file = command.file
        /\ command'.search = command.search /\ command'.next = v + 1
        /\ UNCHANGED <<storage, calm>>
        /\ replies' = [replies EXCEPT ![v] = Tail(@)] \/ UNCHANGED replies
    BY <1>3, Collects, Sizes
  <2> HIDE DEF v
  <2>2. ASSUME NEW w \in Workers, w >= v + 1 PROVE replies'[w] = replies[w] /\ w >= v
    <3>1. w \in Nat /\ w # v /\ w >= v
      BY <2>1, <2>2, Sizes
    <3> QED BY <2>1, <3>1 DEF Shape
  <2>3. ASSUME NEW w \in Workers, w >= v
        PROVE  /\ replies[w] # <<>>
               /\ calm => /\ replies[w][1].search = command.search
                          /\ replies[w][1].chunks = chunksOf(w)
    BY <2>1, <2>3 DEF Awaited, v
  <2> QED BY <2>1, <2>2, <2>3 DEF Awaited
<1>4. ASSUME UNCHANGED <<command, replies, storage>>, calm' => calm PROVE Awaited'
  BY <1>4 DEF Awaited
<1>5. ASSUME NEW f \in Files, NEW valid \in BOOLEAN,
             StartUpload(f) \/ StartRetrieve(f) \/ StartSearch(f, valid)
      PROVE  command'.op # "collect"
  BY <1>5, Uploads, Retrieves, Searches
<1>6. ASSUME PlaceReplica \/ ReadReplica PROVE command'.op # "collect"
  BY <1>6, Places, Reads
<1>7. ASSUME CheckReplica PROVE Awaited'
  <2>1. \/ command'.op # "collect"
        \/ /\ Broadcast /\ command'.op = "collect" /\ command'.file = command.file
           /\ command'.search = command.search
    BY <1>7, Checks, Advances DEF Finish
  <2> QED BY <1>1, <1>2, <1>7, <2>1
<1>8. ASSUME FinishUpload \/ FinishSearch PROVE command'.op # "collect"
  BY <1>8 DEF FinishUpload, FinishSearch, Finish
<1>9. ASSUME NEW f \in Files, ListFile(f) PROVE command'.op # "collect"
  BY <1>9 DEF ListFile
<1>10. ASSUME NEW w \in Workers, Failover(w) \/ Recover(w) \/ Heartbeat(w) \/ Silence(w)
       PROVE  UNCHANGED <<command, replies, storage>> /\ (calm' => calm)
  <2>1. CASE Silence(w)
    BY <2>1 DEF Silence, data
  <2>2. CASE Failover(w) \/ Recover(w) \/ Heartbeat(w)
    BY <2>2 DEF Failover, Recover, Heartbeat, data
  <2> QED BY <1>10, <2>1, <2>2
<1>11. ASSUME UNCHANGED vars PROVE UNCHANGED <<command, replies, storage>> /\ (calm' => calm)
  BY <1>11 DEF vars
<1> QED BY <1>1, <1>3, <1>4, <1>5, <1>6, <1>7, <1>8, <1>9, <1>10, <1>11 DEF Next

LEMMA SearchingStep ==
    ASSUME Shape, Steps, MetadataIsTrue, Placing, Provenance, Awaited, Searching, [Next]_vars
    PROVE  Searching'
<1> USE IdleCommand
<1>1. CASE command'.op \notin {"check", "collect"}
  BY <1>1 DEF Searching
<1>2. ASSUME NEW f \in Files, NEW valid \in BOOLEAN, StartSearch(f, valid) PROVE Searching'
  <2>1. CASE /\ command'.op = "check" /\ command'.file = f /\ command'.chunk = 1
             /\ command'.found = {}
    <3>1. UNCHANGED <<metadataServer, replies>> /\ (calm' => \A w \in Workers : replies[w] = <<>>)
      BY <1>2 DEF StartSearch, data
    <3>2. \A c \in DOMAIN metadataServer[f] : ~(c < 1)
      <4>1. /\ DOMAIN metadataServer[f] = 1 .. Len(metadataServer[f])
            /\ Len(metadataServer[f]) \in Nat
        BY DEF Shape
      <4> QED BY <4>1
    <3> QED BY <2>1, <3>1, <3>2 DEF Searching
  <2> QED BY <1>1, <1>2, <2>1, Searches
<1>3. ASSUME CheckReplica PROVE Searching'
  <2> DEFINE f == command.file
             M == metadataServer[f]
             c0 == command.chunk
  <2>1. /\ command.op = "check" /\ UNCHANGED <<metadataServer, nodeStatus, calm>>
        /\ f \in Files /\ c0 \in DOMAIN M /\ command.next \in DOMAIN M[c0]
    BY <1>3, Checks DEF Steps, Busy
  <2>2. c0 \in Nat /\ DOMAIN M = 1 .. Len(M) /\ Len(M) \in Nat
    BY <2>1, Replica
  <2>3. ASSUME calm
        PROVE  /\ command.found = {}
               /\ \A w \in Workers : replies[w] = <<>>
               /\ \A c \in DOMAIN M : c < c0 => \E i \in DOMAIN M[c] : M[c][i] \in nodeStatus
    BY <2>1, <2>3 DEF Searching
  <2>4. ASSUME Node \in nodeStatus
        PROVE  \E i \in DOMAIN M[c0] : M[c0][i] \in nodeStatus
    BY <2>1, <2>4 DEF Node, Replicas
  <2> HIDE DEF f, M, c0
  <2>5. CASE Node \in nodeStatus /\ NextChunk /\ UNCHANGED replies
    <3>1. /\ command'.op = "check" /\ command'.file = f /\ command'.chunk = c0 + 1
          /\ command'.found = command.found
      BY <2>1, <2>5, Advances DEF f, c0
    <3>2. ASSUME calm, NEW c \in DOMAIN M, c < c0 + 1
          PROVE  \E i \in DOMAIN M[c] : M[c][i] \in nodeStatus
      <4>1. c < c0 \/ c = c0
        BY <2>2, <3>2
      <4> QED BY <2>3, <2>4, <2>5, <3>2, <4>1
    <3> QED BY <2>1, <2>3, <2>5, <3>1, <3>2 DEF Searching, M
  <2>6. CASE NextReplica /\ UNCHANGED replies
    <3>1. /\ command'.op = "check" /\ command'.file = f /\ command'.chunk = c0
          /\ command'.found = command.found
      BY <2>1, <2>6, Advances DEF f, c0
    <3> QED BY <2>1, <2>3, <2>6, <3>1 DEF Searching, M
  <2>7. CASE /\ Node \in nodeStatus /\ ~MoreChunks
             /\ command'.op = "collect" /\ command'.next = 1 /\ command'.file = command.file
             /\ command'.found = command.found /\ command'.search = command.search
    <3>1. ASSUME calm, NEW c \in DOMAIN M
          PROVE  \E i \in DOMAIN M[c] : M[c][i] \in nodeStatus /\ ~(M[c][i] < 1)
      <4>1. c < c0 \/ c = c0
        BY <2>1, <2>2, <2>7 DEF MoreChunks, M, f, c0
      <4>2. PICK i \in DOMAIN M[c] : M[c][i] \in nodeStatus
        BY <2>3, <2>4, <2>7, <3>1, <4>1
      <4>3. M[c][i] \in Workers
        BY <4>2 DEF Shape
      <4>4. ~(M[c][i] < 1)
        BY <4>3, Sizes DEF Workers
      <4> QED BY <4>2, <4>4
    <3> QED BY <2>1, <2>3, <2>7, <3>1 DEF Searching, M, f
  <2>8. CASE command' = Idle
    BY <1>1, <2>8
  <2> QED BY <1>3, <2>5, <2>6, <2>7, <2>8, Checks DEF Finish
<1>4. ASSUME Collect PROVE Searching'
  <2> DEFINE f == command.file
             M == metadataServer[f]
             v == command.next
             S == command.search
             answer == {x \in storage[v] : x[1] = f}
  <2>1. /\ command.op = "collect" /\ UNCHANGED <<metadataServer, nodeStatus, calm>>
        /\ f \in Files /\ v \in Workers /\ v \in Nat
        /\ command'.op = "collect" /\ command'.file = f /\ command'.search = S
        /\ command'.next = v + 1
    BY <1>4, Collects, Sizes DEF Steps, Busy
  <2> SUFFICES ASSUME calm
               PROVE  /\ command'.found \subseteq {S} \X ({f} \X DOMAIN M)
                      /\ \A c \in DOMAIN M : \E i \in DOMAIN M[c] :
                            /\ M[c][i] \in nodeStatus
                            /\ M[c][i] < v + 1 => <<S, <<f, c>>>> \in command'.found
    BY <2>1 DEF Searching
  <2>2. /\ command.found \subseteq {S} \X ({f} \X DOMAIN M)
        /\ \A c \in DOMAIN M : \E i \in DOMAIN M[c] :
              /\ M[c][i] \in nodeStatus
              /\ M[c][i] < v => <<S, <<f, c>>>> \in command.found
    BY <2>1 DEF Searching
  <2>3. \/ v \in nodeStatus /\ command'.found = command.found \cup ({S} \X answer)
        \/ v \notin nodeStatus /\ command'.found = command.found
    <3>1. replies[v][1].search = S /\ replies[v][1].chunks = answer
      <4>1. v >= v
        BY <2>1
      <4> QED BY <2>1, <4>1 DEF Awaited
    <3> HIDE DEF answer, S
    <3> QED BY <1>4, <3>1, Collects
  <2>4. answer \subseteq {f} \X DOMAIN M
    <3> SUFFICES ASSUME NEW x \in storage[v], x[1] = f PROVE x \in {f} \X DOMAIN M
      OBVIOUS
    <3>1. x \in Chunk
      BY <2>1 DEF Shape
    <3>2. x = <<x[1], x[2]>>
      BY <3>1 DEF Chunk
    <3>3. x[2] \in DOMAIN M
      BY <2>1 DEF Provenance
    <3> HIDE DEF M, f
    <3> QED BY <3>2, <3>3
  <2>5. ASSUME NEW c \in DOMAIN M, NEW i \in DOMAIN M[c], M[c][i] = v
        PROVE  <<f, c>> \in answer
    BY <2>1, <2>5, Replica
  <2>6. ASSUME NEW c \in DOMAIN M, NEW i \in DOMAIN M[c] PROVE M[c][i] \in Nat
    BY <2>1, <2>6, Replica, Sizes
  <2> HIDE DEF f, M, v, S, answer
  <2>7. command'.found \subseteq {S} \X ({f} \X DOMAIN M)
    BY <2>2, <2>3, <2>4
  <2>8. ASSUME NEW c \in DOMAIN M
        PROVE  \E i \in DOMAIN M[c] :
                  /\ M[c][i] \in nodeStatus
                  /\ M[c][i] < v + 1 => <<S, <<f, c>>>> \in command'.found
    <3>1. PICK i \in DOMAIN M[c] : /\ M[c][i] \in nodeStatus
                                   /\ M[c][i] < v => <<S, <<f, c>>>> \in command.found
      BY <2>2
    <3>2. CASE M[c][i] = v
      <4>1. v \in nodeStatus /\ <<f, c>> \in answer
        BY <2>5, <3>1, <3>2
      <4>2. <<S, <<f, c>>>> \in command'.found
        BY <2>3, <4>1
      <4> QED BY <3>1, <4>2
    <3>3. CASE M[c][i] # v
      <4>1. M[c][i] < v + 1 => M[c][i] < v
        BY <2>1, <2>6, <3>3
      <4>2. command.found \subseteq command'.found
        BY <2>3
      <4> QED BY <3>1, <4>1, <4>2
    <3> QED BY <3>2, <3>3
  <2> QED BY <2>7, <2>8
<1>5. ASSUME NEW f \in Files, StartUpload(f) \/ StartRetrieve(f) \/ ListFile(f)
      PROVE  command'.op \notin {"check", "collect"}
  BY <1>5, Uploads, Retrieves DEF ListFile
<1>6. ASSUME PlaceReplica \/ ReadReplica \/ FinishUpload \/ FinishSearch
      PROVE  command'.op \notin {"check", "collect"}
  BY <1>6, Places, Reads DEF FinishUpload, FinishSearch, Finish
<1>7. ASSUME UNCHANGED <<metadataServer, command, replies>>, calm' => calm,
             nodeStatus \subseteq nodeStatus'
      PROVE  Searching'
  BY <1>7 DEF Searching
<1>8. ASSUME NEW w \in Workers, Failover(w) \/ Recover(w) PROVE Searching'
  BY <1>1, <1>8 DEF Failover, Recover
<1>9. ASSUME NEW w \in Workers, Heartbeat(w) PROVE Searching'
  BY <1>7, <1>9 DEF Heartbeat, heartbeatWorker, data
<1>10. ASSUME NEW w \in Workers, Silence(w) PROVE Searching'
  <2>1. ~calm' \/ command' = Idle
    BY <1>10 DEF Silence
  <2> QED BY <1>1, <2>1 DEF Searching
<1>11. ASSUME UNCHANGED vars PROVE Searching'
  BY <1>7, <1>11 DEF vars
<1> QED BY <1>1, <1>2, <1>3, <1>4, <1>5, <1>6, <1>8, <1>9, <1>10, <1>11 DEF Next

LEMMA CalmSearchIsCompleteStep ==
    ASSUME Shape, Steps, MetadataIsTrue, Awaited, Searching, CalmSearchIsComplete, [Next]_vars
    PROVE  CalmSearchIsComplete'
<1>1. ASSUME FinishSearch, calm PROVE CalmSearchIsComplete'
  <2> DEFINE f == command.file
             M == metadataServer[f]
             S == command.search
             F == command.found
  <2>1. /\ command.op = "collect" /\ command.next > N /\ UNCHANGED metadataServer
        /\ output'.file = f /\ output'.search = S /\ output'.found = F
    BY <1>1 DEF FinishSearch, Finish, data
  <2>2. f \in Files /\ command.next \in Nat
    BY <2>1, IdleCommand DEF Steps, Busy, Shape, Command
  <2>3. /\ F \subseteq {S} \X ({f} \X DOMAIN M)
        /\ \A c \in DOMAIN M : \E i \in DOMAIN M[c] :
              M[c][i] < command.next => <<S, <<f, c>>>> \in F
    BY <1>1, <2>1 DEF Searching
  <2>4. ASSUME NEW c \in DOMAIN M, NEW i \in DOMAIN M[c] PROVE M[c][i] < command.next
    <3>1. M[c][i] \in 1 .. N
      BY <2>2, <2>4, Replica DEF Workers
    <3> QED BY <2>1, <2>2, <3>1, Sizes
  <2> HIDE DEF f, M, S, F
  <2>5. {S} \X ({f} \X DOMAIN M) \subseteq F
    BY <2>3, <2>4
  <2>6. F = {S} \X ({f} \X DOMAIN M)
    BY <2>3, <2>5
  <2> QED BY <2>1, <2>6 DEF CalmSearchIsComplete, Complete, f, M, S, F
<1>2. ASSUME FinishSearch, ~calm PROVE CalmSearchIsComplete'
  <2>1. ~calm'
    BY <1>2 DEF FinishSearch
  <2> QED BY <2>1 DEF CalmSearchIsComplete
<1>3. CASE UNCHANGED <<output, metadataServer>> /\ (calm' => calm)
  BY <1>3 DEF CalmSearchIsComplete, Complete
<1>4. CASE output'.op # "search" \/ ~output'.ok
  BY <1>4 DEF CalmSearchIsComplete
<1>5. CASE Finish("retrieve", FALSE)
  BY <1>4, <1>5 DEF Finish
<1> QED BY <1>1, <1>2, <1>3, <1>4, <1>5, Results

-----------------------------------------------------------------------------
(* The theorems.                                                           *)

LEMMA InitInvariant == Init => FileSystemInv
<1> SUFFICES ASSUME Init PROVE FileSystemInv
  OBVIOUS
<1> USE IdleCommand DEF Init
<1>1. Shape
  BY DEF Shape, StartedNodes
<1>2. Steps /\ Placing /\ Awaited /\ Searching
  BY DEF Steps, Busy, Placing, Awaited, Searching
<1>3. MetadataIsTrue /\ RetrieveFailsForCause /\ CalmSearchIsComplete
  BY DEF MetadataIsTrue, Known, NoOutput, RetrieveFailsForCause, CalmSearchIsComplete
<1>4. Provenance /\ PassedOver
  BY DEF Provenance, PassedOver, Busy
<1>5. Balance
  BY FS_EmptySet DEF Balance, StartedNodes
<1> QED BY <1>1, <1>2, <1>3, <1>4, <1>5 DEF FileSystemInv

\* The invariant: besides the four properties below, what a command under way
\* has placed, passed over, sent or found so far (3.cpp).
THEOREM FileSystemInvariant == Spec => []FileSystemInv
<1>1. ASSUME FileSystemInv, [Next]_vars PROVE FileSystemInv'
  <2> USE <1>1 DEF FileSystemInv
  <2>1. Shape' /\ Steps' /\ MetadataIsTrue'
    BY ShapeStep, StepsStep, MetadataStep
  <2>2. Placing' /\ Provenance' /\ Balance'
    BY PlacingStep, ProvenanceStep, BalanceStep
  <2>3. PassedOver' /\ RetrieveFailsForCause'
    BY PassedOverStep, RetrieveFailsForCauseStep
  <2>4. Awaited' /\ Searching' /\ CalmSearchIsComplete'
    BY AwaitedStep, SearchingStep, CalmSearchIsCompleteStep
  <2> QED BY <2>1, <2>2, <2>3, <2>4
<1>2. FileSystemInv /\ UNCHANGED vars => FileSystemInv'
  BY <1>1
<1> QED BY <1>1, <1>2, InitInvariant, PTL DEF Spec

\* What the metadata says of a file is true, for any number of workers, files,
\* chunks and replicas, whatever nodes go down meanwhile: an upload stores each
\* chunk before the metadata names it, and a node gets a chunk at most once.
THEOREM MetadataTrue == Spec => []MetadataIsTrue
<1>1. FileSystemInv => MetadataIsTrue
  BY DEF FileSystemInv
<1> QED BY <1>1, FileSystemInvariant, PTL

\* The counts are right, and without outages no node carries two chunks more
\* than another: while the replicas of a chunk are placed, those that have theirs
\* carry no less than those that have not, so the next one goes to a node that
\* is the least loaded of all (handleLoadBalance).
THEOREM LoadBalanced == Spec => []LoadIsBalanced
<1>1. FileSystemInv => LoadIsBalanced
  BY DEF FileSystemInv, Balance, LoadIsBalanced
<1> QED BY <1>1, FileSystemInvariant, PTL

\* A reader is refused only when all replicas of a chunk were down at some time
\* of its command: that a node is up and lacks the chunk cannot happen.
THEOREM RefusedForCause == Spec => []RetrieveFailsForCause
<1>1. FileSystemInv => RetrieveFailsForCause
  BY DEF FileSystemInv
<1> QED BY <1>1, FileSystemInvariant, PTL

\* A search that begins with no old answer waiting and meets no outage finds the
\* chunks of its file, all of them and nothing else (handleSearchMaster).
THEOREM CalmSearchComplete == Spec => []CalmSearchIsComplete
<1>1. FileSystemInv => CalmSearchIsComplete
  BY DEF FileSystemInv
<1> QED BY <1>1, FileSystemInvariant, PTL

\* The remaining variables: those of the threads, of the bounds and of the
\* history, and the result of the last command.
Rest ==
    /\ failoverState \in SUBSET Workers
    /\ output \in Output
    /\ switches \in Nat /\ late \in Nat
    /\ outages \in BOOLEAN /\ calm \in BOOLEAN

LEMMA ResultOf ==
    ASSUME NEW op \in {"none", "upload", "list", "retrieve", "search"},
           NEW f \in Files \cup {NoFile}, NEW ok \in BOOLEAN, NEW search \in Nat,
           NEW found \in SUBSET (Nat \X Chunk)
    PROVE  [op |-> op, file |-> f, ok |-> ok, search |-> search, found |-> found] \in Output
BY DEF Output

LEMMA OutputStep ==
    ASSUME Shape, Steps, MetadataIsTrue, Placing, Rest, [Next]_vars
    PROVE  output' \in Output
<1>1. NoOutput \in Output /\ {} \in SUBSET (Nat \X Chunk)
  BY DEF NoOutput, Output
<1>2. ASSUME NEW op \in {"retrieve", "search", "upload"}, NEW f \in Files, Reject(op, f)
      PROVE  output' \in Output
  <2>1. output' = [op |-> op, file |-> f, ok |-> FALSE, search |-> 0, found |-> {}]
    BY <1>2 DEF Reject, NoOutput
  <2> QED BY <1>1, <2>1, ResultOf
<1>3. ASSUME NEW op \in {"retrieve", "search"}, NEW ok \in BOOLEAN, Finish(op, ok)
      PROVE  output' \in Output
  <2>1. /\ command.file \in Files \cup {NoFile} /\ command.search \in Nat
        /\ command.found \in SUBSET (Nat \X Chunk)
    BY DEF Shape, Command
  <2>2. output' = [op |-> op, file |-> command.file, ok |-> ok, search |-> command.search,
                   found |-> command.found]
    BY <1>3 DEF Finish
  <2> QED BY <2>1, <2>2, ResultOf
<1>4. ASSUME NEW f \in Files, NEW valid \in BOOLEAN,
             StartUpload(f) \/ StartRetrieve(f) \/ StartSearch(f, valid)
      PROVE  output' \in Output
  <2>1. output' = NoOutput \/ \E op \in {"retrieve", "search", "upload"} : Reject(op, f)
    BY <1>4 DEF StartUpload, StartRetrieve, StartSearch, Begin
  <2> QED BY <1>1, <1>2, <2>1
<1>5. ASSUME NEW f \in Files, ListFile(f) PROVE output' \in Output
  <2> DEFINE ok    == Known(f)
             found == Listing(f, metadataServer[f])
  <2>1. output' = [op |-> "list", file |-> f, ok |-> ok, search |-> 0, found |-> found]
    BY <1>5 DEF ListFile
  <2>2. ok \in BOOLEAN
    BY DEF Known
  <2>3. \A c \in DOMAIN metadataServer[f] : \A i \in DOMAIN metadataServer[f][c] :
            <<f, c>> \in storage[metadataServer[f][c][i]]
    BY Replica
  <2>4. found \in SUBSET (Nat \X Chunk)
    BY <2>3, ListingIsTrue DEF Shape
  <2> HIDE DEF ok, found
  <2> QED BY <2>1, <2>2, <2>4, ResultOf
<1>6. ASSUME FinishUpload PROVE output' \in Output
  <2> DEFINE found == Listing(command.file, command.locations)
  <2>1. output' = [op |-> "upload", file |-> command.file, ok |-> TRUE, search |-> 0,
                   found |-> found]
    BY <1>6 DEF FinishUpload
  <2>2. command.op = "upload" /\ command.file \in Files
        /\ command.locations \in Seq(Seq(Workers))
    BY <1>6, Finishes, IdleCommand DEF Steps, Busy, Shape, Command
  <2>3. \A c \in DOMAIN command.locations : \A i \in DOMAIN command.locations[c] :
            <<command.file, c>> \in storage[command.locations[c][i]]
    BY <2>2 DEF Placing
  <2>4. found \in SUBSET (Nat \X Chunk)
    BY <2>2, <2>3, ListingIsTrue
  <2> HIDE DEF found
  <2> QED BY <2>1, <2>2, <2>4, ResultOf
<1>7. ASSUME FinishSearch PROVE output' \in Output
  <2>1. (~command.failed) \in BOOLEAN
    OBVIOUS
  <2>2. Finish("search", ~command.failed)
    BY <1>7 DEF FinishSearch
  <2> QED BY <1>3, <2>1, <2>2
<1>8. ASSUME ReadReplica \/ CheckReplica PROVE output' \in Output
  <2>1. \/ UNCHANGED output
        \/ \E op \in {"retrieve", "search"}, ok \in BOOLEAN : Finish(op, ok)
    BY <1>8, Reads, Checks
  <2> QED BY <1>3, <2>1 DEF Rest
<1>9. ASSUME PlaceReplica \/ Collect \/ UNCHANGED vars PROVE output' \in Output
  BY <1>9 DEF PlaceReplica, Collect, vars, Rest
<1>10. ASSUME NEW w \in Workers, Failover(w) \/ Recover(w) \/ Heartbeat(w) \/ Silence(w)
       PROVE  output' \in Output
  BY <1>10 DEF Failover, Recover, Heartbeat, Silence, Rest
<1> QED BY <1>4, <1>5, <1>6, <1>7, <1>8, <1>9, <1>10 DEF Next

LEMMA RestStep ==
    ASSUME Shape, Steps, MetadataIsTrue, Placing, Rest, [Next]_vars
    PROVE  Rest'
<1>1. output' \in Output
  BY OutputStep
<1>2. ASSUME NEW w \in Workers, Failover(w) \/ Recover(w) \/ Heartbeat(w) \/ Silence(w)
      PROVE  failoverState' \in SUBSET Workers /\ switches' \in Nat /\ late' \in Nat
  BY <1>2 DEF Failover, Recover, Heartbeat, Silence, Rest, counters
<1>3. ASSUME ~\E w \in Workers : Failover(w) \/ Recover(w) \/ Heartbeat(w) \/ Silence(w)
      PROVE  UNCHANGED <<failoverState, switches, late, outages>>
  BY <1>3 DEF Next, vars, nodes, counters, StartUpload, ListFile, StartRetrieve, StartSearch,
     PlaceReplica, FinishUpload, ReadReplica, CheckReplica, Collect, FinishSearch
<1>4. failoverState' \in SUBSET Workers /\ switches' \in Nat /\ late' \in Nat
  BY <1>2, <1>3 DEF Rest
<1>5. outages' = outages \/ outages' = TRUE
  BY NodesChange
<1>6. outages' \in BOOLEAN
  BY <1>5 DEF Rest
<1>7. UNCHANGED calm \/ calm' \in BOOLEAN
  <2>1. ASSUME NEW f \in Files, NEW valid \in BOOLEAN, StartSearch(f, valid)
        PROVE  calm' \in BOOLEAN
    BY <2>1 DEF StartSearch
  <2>2. ASSUME NEW w \in Workers, Silence(w) PROVE calm' \in BOOLEAN
    BY <2>2 DEF Silence
  <2>3. ASSUME ~\E f \in Files, valid \in BOOLEAN : StartSearch(f, valid),
               ~\E w \in Workers : Silence(w)
        PROVE  UNCHANGED calm
    BY <2>3 DEF Next, vars, StartUpload, ListFile, StartRetrieve, PlaceReplica, FinishUpload,
       ReadReplica, CheckReplica, Collect, FinishSearch, Failover, Recover, Heartbeat
  <2> QED BY <2>1, <2>2, <2>3
<1>8. calm' \in BOOLEAN
  BY <1>7 DEF Rest
<1> QED BY <1>1, <1>4, <1>6, <1>8 DEF Rest

\* Every variable keeps its type: no step reads a replica, a reply or a count
\* that is not there.
THEOREM FileSystemTypes == Spec => []TypeOK
<1>1. Init => Rest
  <2>1. NoOutput \in Output
    BY DEF NoOutput, Output
  <2>2. Init => outages \in BOOLEAN /\ calm \in BOOLEAN
    BY Zenon DEF Init
  <2>3. Init => failoverState \in SUBSET Workers /\ switches \in Nat /\ late \in Nat
    BY DEF Init
  <2>4. Init => output \in Output
    BY <2>1 DEF Init
  <2> QED BY <2>2, <2>3, <2>4 DEF Rest
<1>2. FileSystemInv /\ Rest /\ [Next]_vars => Rest'
  BY RestStep DEF FileSystemInv
<1>3. FileSystemInv /\ Rest => TypeOK
  BY DEF FileSystemInv, Shape, Rest, TypeOK
<1> QED BY <1>1, <1>2, <1>3, FileSystemInvariant, PTL DEF Spec
=============================================================================
