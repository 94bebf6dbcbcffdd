---------------------------- MODULE MCRankPrograms --------------------------
(***************************************************************************)
(* The programs of assignment 1 in which the ranks compute a result, each  *)
(* on its part of the input: the maze, the balls, and the search of the    *)
(* file system.  A launch runs one of them; the state of the others says   *)
(* that they have ended.                                                   *)
(*                                                                         *)
(* Mazes: four nodes with every choice of corridors on five of the six     *)
(* pairs, none or one closed node, and the exit at node 0; two ranks, so   *)
(* that each owns two nodes.                                               *)
(*                                                                         *)
(* Balls: up to MaxBalls balls with every choice of place and direction on *)
(* each grid; which ball comes first in the input matters only for the     *)
(* chunk it falls into, so that the balls are taken in one order; a torus  *)
(* looks the same from every cell, so that the first ball is at <<0, 0>>.  *)
(*                                                                         *)
(* Searches: every text of up to MaxText letters, two and the space, and   *)
(* every word of up to one letter more than a chunk has.                   *)
(***************************************************************************)
EXTENDS MazeEscape, BouncingBalls, WordSearch

CONSTANTS MaxText, MaxBalls

Between(u, v) == {{}, {<<u, v, 2>>}, {<<v, u, 2>>}, {<<u, v, 1>>}}

Mazes == {a \cup b \cup c \cup d \cup e :
             a \in Between(0, 1), b \in Between(0, 2), c \in Between(1, 2),
             d \in Between(1, 3), e \in Between(2, 3)}

SmallGrids == {<<1, 2>>, <<2, 2>>}

Code(b) == b[1] * 8 + b[2] * 4 + (CASE b[3] = "L" -> 0 [] b[3] = "R" -> 1
                                    [] b[3] = "U" -> 2 [] b[3] = "D" -> 3)

InOrder(g, k) == {bs \in [1 .. k -> Ball(g[1], g[2])] :
                     /\ bs[1][1] = 0 /\ bs[1][2] = 0
                     /\ \A i \in 1 .. k - 1 : Code(bs[i]) <= Code(bs[i + 1])}

Texts == UNION {[1 .. n -> Letter] : n \in 1 .. MaxText}
Words == UNION {[1 .. n -> Letter \ {Space}] : n \in 0 .. ChunkSize + 1}

NoMaze   == MazeStart({}, Node \ {0}, 0) /\ step = [r \in Rank |-> "done"]
NoBalls  == BallsStart(<<1, 2>>, <<>>) /\ at = [r \in Procs |-> "gather"]
NoSearch == SearchStart(<<>>, <<>>)

Init ==
    \/ /\ \E maze \in Mazes, closed \in {{}} \cup {{v} : v \in Node} : MazeStart(maze, closed, 0)
       /\ step = [r \in Rank |-> "expand"]
       /\ NoBalls /\ NoSearch
    \/ /\ \E g \in Grids : \E k \in 1 .. MaxBalls : \E bs \in InOrder(g, k) : BallsStart(g, bs)
       /\ at = [r \in Procs |-> "start"]
       /\ NoMaze /\ NoSearch
    \/ /\ \E t \in Texts, w \in Words : SearchStart(t, w)
       /\ NoMaze /\ NoBalls

Next == \/ MazeNext /\ UNCHANGED <<ballVars, searchVars>>
        \/ BallsNext /\ UNCHANGED <<mazeVars, searchVars>>
        \/ SearchNext /\ UNCHANGED <<mazeVars, ballVars>>

vars == <<mazeVars, ballVars, searchVars>>

Spec == Init /\ [][Next]_vars /\ WF_searchVars(SearchNext)
=============================================================================
