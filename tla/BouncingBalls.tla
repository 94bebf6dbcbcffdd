---------------------------- MODULE BouncingBalls ---------------------------
(***************************************************************************)
(* A1/P2-BouncingBalls/2.cpp: K balls move on a torus of N by M cells, one *)
(* cell per step; two balls that arrive at one cell turn right, four turn  *)
(* back, any other number goes on.  Rank 0 hands out the balls in chunks;  *)
(* in every step each rank tells the others how many of its balls stand    *)
(* where, heading whither, and moves its own; at the end rank 0 gathers    *)
(* the chunks in the order of the ranks.                                   *)
(*                                                                         *)
(* A rank leaves the exchange of step t when all ranks have entered it,    *)
(* and may be in the exchange of step t + 1 before the others have left.   *)
(***************************************************************************)
EXTENDS Integers, Sequences, FiniteSets, FiniteSetsExt

CONSTANTS
    Ranks,      \* the number of processes
    Steps,      \* T of the input
    Grids       \* the tori <<N, M>>

ASSUME BallsAssumption == /\ Ranks \in Nat \ {0} /\ Steps \in Nat
                          /\ Grids \subseteq (Nat \ {0}) \X (Nat \ {0})

Procs     == 0 .. Ranks - 1
Direction == {"L", "R", "U", "D"}

VARIABLES
    grid,        \* <<N, M>>
    balls,       \* the input: <<x, y, d>> for each ball
    inbox,       \* what rank 0 sent to each rank
    pos,         \* the balls of each rank
    shared,      \* local_collisions that each rank has contributed, step by step
    at,          \* where each rank is: start, share, move, gather
    output       \* what rank 0 writes

ballVars == <<grid, balls, inbox, pos, shared, at, output>>

Cell(N, M) == (0 .. N - 1) \X (0 .. M - 1)
Ball(N, M) == (0 .. N - 1) \X (0 .. M - 1) \X Direction

BallsStart(g, bs) ==
    /\ grid = g
    /\ balls = bs
    /\ inbox = [r \in Procs |-> <<>>]
    /\ pos = [r \in Procs |-> <<>>]
    /\ shared = [r \in Procs |-> <<>>]
    /\ output = <<>>

-----------------------------------------------------------------------------
(* One step of one ball *)

rotateBy90(d) == CASE d = "L" -> "U" [] d = "R" -> "D" [] d = "U" -> "R" [] d = "D" -> "L"

reverseDirection(d) == CASE d = "L" -> "R" [] d = "R" -> "L" [] d = "U" -> "D" [] d = "D" -> "U"

findNextPos(x, y, d) ==
    CASE d = "R" -> <<x, (y + 1) % grid[2]>>
      [] d = "L" -> <<x, (y - 1 + grid[2]) % grid[2]>>
      [] d = "D" -> <<(x + 1) % grid[1], y>>
      [] d = "U" -> <<(x - 1 + grid[1]) % grid[1], y>>

Count(bs, ball) == Cardinality({i \in DOMAIN bs : bs[i] = ball})

(* local_collisions: of each ball at hand, how many there are.               *)
local_collisions(bs) == [b \in {bs[i] : i \in DOMAIN bs} |-> Count(bs, b)]

(* recv_data of step t: what rank r has put in for one key.                  *)
Contributed(t, key, r) == IF key \in DOMAIN shared[r][t] THEN shared[r][t][key] ELSE 0

(* global_collisions of step t, for one key: rank after rank adds its own.   *)
global_collisions(t, key) ==
    LET upTo[n \in 0 .. Ranks] ==
            IF n = 0 THEN 0 ELSE upTo[n - 1] + Contributed(t, key, n - 1)
    IN  upTo[Ranks]

\* Mutant of cnt_collisions: the rows do not wrap around.
cnt_collisions_strip(t, X, Y) ==
    global_collisions(t, <<X - 1, Y, "D">>)
    + global_collisions(t, <<X + 1, Y, "U">>)
    + global_collisions(t, <<X, (Y - 1 + grid[2]) % grid[2], "R">>)
    + global_collisions(t, <<X, (Y + 1) % grid[2], "L">>)

(* From where, and heading whither, a ball arrives at <<X, Y>>.              *)
cnt_collisions(t, X, Y) ==
    global_collisions(t, <<(X - 1 + grid[1]) % grid[1], Y, "D">>)
    + global_collisions(t, <<(X + 1) % grid[1], Y, "U">>)
    + global_collisions(t, <<X, (Y - 1 + grid[2]) % grid[2], "R">>)
    + global_collisions(t, <<X, (Y + 1) % grid[2], "L">>)

(* What a ball does that arrives with n - 1 others.                          *)
Turned(d, n) == IF n = 2 THEN rotateBy90(d) ELSE IF n = 4 THEN reverseDirection(d) ELSE d

Bounce(ball, t) ==
    LET to == findNextPos(ball[1], ball[2], ball[3])
    IN  <<to[1], to[2], Turned(ball[3], cnt_collisions(t, to[1], to[2]))>>

-----------------------------------------------------------------------------
(* The processes *)

\* Mutant of chunk_size: the division rounds down.
chunk_size_floor == Len(balls) \div Ranks

chunk_size == (Len(balls) + Ranks - 1) \div Ranks

(* Balls number start to end - 1, counted from 0; none if the chunk is past  *)
(* the last ball.                                                            *)
Chunk(i) == SubSeq(balls, i * chunk_size + 1, Min({(i + 1) * chunk_size, Len(balls)}))

\* Mutant of Sent: a rank that gets no balls is sent nothing.
SentIfAny(r) == IF Chunk(r) = <<>> THEN <<>> ELSE <<Len(Chunk(r)), Chunk(r)>>

(* Rank 0 sends to each rank how many balls it gets, and the balls if any.   *)
Sent(r) == IF Chunk(r) = <<>> THEN <<0>> ELSE <<Len(Chunk(r)), Chunk(r)>>

Distribute ==
    /\ at[0] = "start"
    /\ inbox' = [r \in Procs |-> IF r = 0 THEN <<>> ELSE Sent(r)]
    /\ pos' = [pos EXCEPT ![0] = Chunk(0)]
    /\ at' = [at EXCEPT ![0] = "share"]
    /\ UNCHANGED <<grid, balls, shared, output>>

CanReceive(r) == r # 0 /\ at[r] = "start" /\ inbox[r] # <<>>

Receive(r) ==
    /\ CanReceive(r)
    /\ pos' = [pos EXCEPT ![r] = IF inbox[r][1] > 0 THEN inbox[r][2] ELSE <<>>]
    /\ inbox' = [inbox EXCEPT ![r] = <<>>]
    /\ at' = [at EXCEPT ![r] = "share"]
    /\ UNCHANGED <<grid, balls, shared, output>>

Share(r) ==
    /\ at[r] = "share" /\ Len(shared[r]) < Steps
    /\ shared' = [shared EXCEPT ![r] = Append(@, local_collisions(pos[r]))]
    /\ at' = [at EXCEPT ![r] = "move"]
    /\ UNCHANGED <<grid, balls, inbox, pos, output>>

CanMove(r) == at[r] = "move" /\ \A q \in Procs : Len(shared[q]) >= Len(shared[r])

Move(r) ==
    LET t == Len(shared[r])
    IN  /\ CanMove(r)
        /\ pos' = [pos EXCEPT ![r] = [i \in DOMAIN @ |-> Bounce(@[i], t)]]
        /\ at' = [at EXCEPT ![r] = "share"]
        /\ UNCHANGED <<grid, balls, inbox, shared, output>>

(* A rank contributes its balls to the gathering and is finished.            *)
Finish(r) ==
    /\ at[r] = "share" /\ Len(shared[r]) = Steps
    /\ at' = [at EXCEPT ![r] = "gather"]
    /\ UNCHANGED <<grid, balls, inbox, pos, shared, output>>

(* What the first n ranks contribute, at displs, one after the other.        *)
global_flat_data[n \in 0 .. Ranks] ==
    IF n = 0 THEN <<>> ELSE global_flat_data[n - 1] \o pos[n - 1]

CanGather == (\A r \in Procs : at[r] = "gather") /\ output = <<>> /\ balls # <<>>

Gather ==
    /\ CanGather
    /\ output' = global_flat_data[Ranks]
    /\ UNCHANGED <<grid, balls, inbox, pos, shared, at>>

BallsNext == \/ Distribute
             \/ \E r \in Procs : Receive(r) \/ Share(r) \/ Move(r) \/ Finish(r)
             \/ Gather

(* Any torus and balls.                                                      *)
BallsInit ==
    /\ \E g \in Grids : \E bs \in Seq(Ball(g[1], g[2])) : BallsStart(g, bs)
    /\ at = [r \in Procs |-> "start"]

BallsSpec == BallsInit /\ [][BallsNext]_ballVars

BallsDone == (\A r \in Procs : at[r] = "gather") /\ (balls = <<>> \/ output # <<>>)

-----------------------------------------------------------------------------
(* Properties *)

(* Every variable keeps to its type: no ball leaves the grid.                *)
BallsTypeOK ==
    /\ grid \in Grids
    /\ balls \in Seq(Ball(grid[1], grid[2])) /\ output \in Seq(Ball(grid[1], grid[2]))
    /\ pos \in [Procs -> Seq(Ball(grid[1], grid[2]))]
    /\ inbox \in [Procs -> {<<>>, <<0>>} \cup (Nat \X Seq(Ball(grid[1], grid[2])))]
    /\ shared \in [Procs -> Seq(UNION {[keys -> Nat] : keys \in SUBSET Ball(grid[1], grid[2])})]
    /\ at \in [Procs -> {"start", "share", "move", "gather"}]

(* The simulation without ranks: all balls are moved at once, and those that *)
(* end up in one cell turn.                                                  *)
Target(ball) == findNextPos(ball[1], ball[2], ball[3])

Arrivals(bs, cell) == Cardinality({j \in DOMAIN bs : Target(bs[j]) = cell})

Stepped(bs) ==
    [i \in DOMAIN bs |->
        LET to == Target(bs[i])
        IN  <<to[1], to[2], Turned(bs[i][3], Arrivals(bs, to))>>]

Simulated[t \in 0 .. Steps] == IF t = 0 THEN balls ELSE Stepped(Simulated[t - 1])

(* What rank 0 writes is every ball once, in the order of the input, where   *)
(* a simulation without ranks puts it: chunks lose and repeat nothing, and   *)
(* a rank that is ahead in the exchange does not disturb the others (main,   *)
(* findPos).                                                                 *)
OutputIsSequential == output # <<>> => output = Simulated[Steps]

(* The number of balls a rank finds on the neighbouring cells, heading for   *)
(* the cell its ball goes to, is the number of balls that arrive there, on   *)
(* tori of one or two rows too, where several neighbours are one cell.       *)
CollisionsAreArrivals ==
    \A r \in Procs : CanMove(r) =>
        LET t == Len(shared[r])
        IN  \A i \in DOMAIN pos[r] :
                LET to == Target(pos[r][i])
                IN  cnt_collisions(t, to[1], to[2]) = Arrivals(Simulated[t - 1], to)

(* Until the output is written some rank can go on: nobody waits for balls   *)
(* that were not sent, or in an exchange that others have left out.          *)
BallsNeverStuck ==
    \/ BallsDone \/ at[0] = "start" \/ CanGather
    \/ \E r \in Procs : \/ CanReceive(r) \/ CanMove(r)
                        \/ at[r] = "share" /\ Len(shared[r]) <= Steps
=============================================================================
