----------------------------- MODULE MazeEscape -----------------------------
(***************************************************************************)
(* A1/P1-MazeEscape/1.cpp: how far is every explorer from the exit R of a  *)
(* maze?  A breadth-first search from R against the direction of the       *)
(* corridors, level by level, by Size MPI processes; node v belongs to     *)
(* rank v % Size.  A level takes every rank through three collectives: the *)
(* exchange of the nodes found for others, the minimum of all distances,   *)
(* and the vote whether anybody has work left.  A rank leaves a collective *)
(* only when all have entered it, and may enter the next one before the    *)
(* others have left this one.                                              *)
(*                                                                         *)
(* The vote passes a bool where MPI reads an int: the three bytes next to  *)
(* it are whatever the stack holds, so that a rank without work may vote   *)
(* for another level.  MaxGarbage bounds how often.                        *)
(***************************************************************************)
EXTENDS Integers, FiniteSets, FiniteSetsExt

CONSTANTS
    Size,        \* number of ranks
    NumNodes,    \* N of the input
    MaxGarbage   \* bound on votes that come from the neighbouring bytes

ASSUME MazeAssumption == Size \in Nat \ {0} /\ NumNodes \in Nat \ {0} /\ MaxGarbage \in Nat

Rank     == 0 .. Size - 1
Node     == 0 .. NumNodes - 1
INF      == NumNodes            \* more than any distance
Corridor == {c \in Node \X Node \X {1, 2} : c[1] # c[2]}

VARIABLES
    corridors,     \* the corridors <<u, v, d>> of the input, both ways if d = 1
    blocked, R,
    dist,          \* of each rank, for each node
    Frontier, NextFrontier,
    SendBuf,       \* the nodes each rank found for the others
    hasWork,       \* the vote of each rank
    level,
    step,          \* where each rank is: expand, exchange, reduce, vote, done
    garbage

mazeVars == <<corridors, blocked, R, dist, Frontier, NextFrontier, SendBuf, hasWork, level,
              step, garbage>>
input    == <<corridors, blocked, R>>

Moves == {<<c[1], c[2]>> : c \in corridors}
            \cup {<<c[2], c[1]>> : c \in {k \in corridors : k[3] = 1}}

\* Mutant of graph: the search follows the corridors forward.
graphForward(u) == {v \in Node : u \notin blocked /\ <<u, v>> \in Moves}

(* The adjacency the search follows: whence u is reached, nothing if blocked. *)
graph(u) == {v \in Node : u \notin blocked /\ <<v, u>> \in Moves}

owner(v) == v % Size

(* Rank 0 reads the maze and broadcasts it; the owner of R starts.           *)
MazeStart(maze, closed, exit) ==
    /\ corridors = maze
    /\ blocked = closed
    /\ R = exit
    /\ dist = [r \in Rank |-> [v \in Node |-> IF v = exit THEN 0 ELSE INF]]
    /\ Frontier = [r \in Rank |-> IF r = owner(exit) THEN {exit} ELSE {}]
    /\ NextFrontier = [r \in Rank |-> {}]
    /\ SendBuf = [r \in Rank |-> {}]
    /\ hasWork = [r \in Rank |-> r = owner(exit)]
    /\ level = [r \in Rank |-> 0]
    /\ garbage = 0

-----------------------------------------------------------------------------
(* The search.  A collective is left once every rank has entered it.         *)

AllIn(steps) == \A q \in Rank : step[q] \in steps

Mark(r, found) == dist' = [dist EXCEPT ![r] = [v \in Node |-> IF v \in found THEN level[r] + 1
                                                              ELSE dist[r][v]]]

Fresh(r) == {v \in UNION {graph(u) : u \in Frontier[r]} : dist[r][v] = INF}

Expand(r) ==
    /\ step[r] = "expand"
    /\ LET mine == {v \in Fresh(r) : owner(v) = r}
       IN  /\ Mark(r, mine)
           /\ NextFrontier' = [NextFrontier EXCEPT ![r] = mine]
           /\ SendBuf' = [SendBuf EXCEPT ![r] = Fresh(r) \ mine]
    /\ step' = [step EXCEPT ![r] = "exchange"]
    /\ UNCHANGED <<input, Frontier, hasWork, level, garbage>>

CanExchange(r) == step[r] = "exchange" /\ AllIn({"exchange", "reduce"})

Exchange(r) ==
    /\ CanExchange(r)
    /\ LET found == {v \in UNION {SendBuf[q] : q \in Rank} : dist[r][v] = INF}
       IN  /\ Mark(r, found)
           /\ NextFrontier' = [NextFrontier EXCEPT ![r] = @ \cup {v \in found : owner(v) = r}]
    /\ step' = [step EXCEPT ![r] = "reduce"]
    /\ UNCHANGED <<input, Frontier, SendBuf, hasWork, level, garbage>>

CanReduce(r) == step[r] = "reduce" /\ AllIn({"reduce", "vote"})

(* The distances are reduced to their minimum, and the rank enters the vote. *)
Reduce(r) ==
    /\ CanReduce(r)
    /\ dist' = [dist EXCEPT ![r] = [v \in Node |-> Min({dist[q][v] : q \in Rank})]]
    /\ Frontier' = [Frontier EXCEPT ![r] = NextFrontier[r]]
    /\ NextFrontier' = [NextFrontier EXCEPT ![r] = {}]
    /\ \/ /\ hasWork' = [hasWork EXCEPT ![r] = NextFrontier[r] # {}]
          /\ UNCHANGED garbage
       \/ /\ NextFrontier[r] = {} /\ garbage < MaxGarbage
          /\ hasWork' = [hasWork EXCEPT ![r] = TRUE]
          /\ garbage' = garbage + 1
    /\ step' = [step EXCEPT ![r] = "vote"]
    /\ UNCHANGED <<input, SendBuf, level>>

\* Mutant of globalHasWork: a rank looks at its own vote only.
ownHasWork(r) == hasWork[r]

globalHasWork(r) == \E q \in Rank : hasWork[q]

(* The ranks that have left this vote already are at the next level, or done. *)
CanDecide(r) == /\ step[r] = "vote"
                /\ \A q \in Rank : step[q] \in {"vote", "done"} \/ level[q] > level[r]

Decide(r) ==
    /\ CanDecide(r)
    /\ IF globalHasWork(r)
       THEN /\ step' = [step EXCEPT ![r] = "expand"]
            /\ level' = [level EXCEPT ![r] = @ + 1]
       ELSE /\ step' = [step EXCEPT ![r] = "done"]
            /\ UNCHANGED level
    /\ UNCHANGED <<input, dist, Frontier, NextFrontier, SendBuf, hasWork, garbage>>

MazeNext == \E r \in Rank : Expand(r) \/ Exchange(r) \/ Reduce(r) \/ Decide(r)

MazeDone == AllIn({"done"})

(* Any maze, any closed nodes, any exit.                                     *)
MazeInit ==
    /\ \E maze \in SUBSET Corridor, closed \in SUBSET Node, exit \in Node :
           MazeStart(maze, closed, exit)
    /\ step = [r \in Rank |-> "expand"]

MazeSpec == MazeInit /\ [][MazeNext]_mazeVars

-----------------------------------------------------------------------------
(* Properties *)

(* Every variable keeps to its type, and a rank searches only from nodes     *)
(* that it owns (distributedBFS).                                            *)
MazeTypeOK ==
    /\ corridors \subseteq Corridor /\ blocked \subseteq Node /\ R \in Node
    /\ dist \in [Rank -> [Node -> 0 .. INF]]
    /\ Frontier \in [Rank -> SUBSET Node] /\ NextFrontier \in [Rank -> SUBSET Node]
    /\ \A r \in Rank : Frontier[r] \cup NextFrontier[r] \subseteq {v \in Node : owner(v) = r}
    /\ SendBuf \in [Rank -> SUBSET Node]
    /\ hasWork \in [Rank -> BOOLEAN]
    /\ level \in [Rank -> Nat]
    /\ step \in [Rank -> {"expand", "exchange", "reduce", "vote", "done"}]
    /\ garbage \in 0 .. MaxGarbage

(* Within[k]: from where the exit is reached in at most k moves, none of     *)
(* which enters a blocked node.                                              *)
Within[k \in 0 .. NumNodes] ==
    IF k = 0 THEN {R}
    ELSE LET closer == Within[k - 1]
         IN  closer \cup {u \in Node : \E v \in closer : <<u, v>> \in Moves /\ v \notin blocked}

Shortest == LET within == [k \in 0 .. NumNodes |-> Within[k]]
            IN  [u \in Node |-> Min({k \in 0 .. NumNodes : u \in within[k]} \cup {INF})]

(* A distance is right from the moment any rank writes it, and when the      *)
(* search ends every rank has all of them: what rank 0 prints for an         *)
(* explorer is the number of moves to the exit, or -1 if there is no way.    *)
DistancesAreShortest ==
    LET shortest == Shortest
    IN  \A r \in Rank : /\ \A v \in Node : dist[r][v] \in {INF, shortest[v]}
                         /\ step[r] = "done" => dist[r] = shortest

(* No rank waits in a collective the others never enter: until all are done  *)
(* some rank can go on, whatever the neighbouring bytes of a vote hold.      *)
MazeNeverStuck ==
    MazeDone \/ \E r \in Rank : \/ step[r] = "expand"
                               \/ CanExchange(r) \/ CanReduce(r) \/ CanDecide(r)
=============================================================================
