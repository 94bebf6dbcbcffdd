CONSTANTS
    Size = 2
    NumNodes = 4
    MaxGarbage = 1
    Ranks = 3
    Steps = 2
    Grids <- SmallGrids
    MaxBalls = 4
    ChunkSize = 2
    Letter = {"a", "b", "_"}
    Space = "_"
    MaxText = 5

SPECIFICATION Spec

\* The programs end.
CHECK_DEADLOCK FALSE

INVARIANTS
    DistancesAreShortest
    OutputIsSequential
    CollisionsAreArrivals
    MazeNeverStuck
    BallsNeverStuck
    

PROPERTIES
    SearchEnds
