CONSTANTS
    p1 = p1
    p2 = p2
    Payments = {p1, p2}
    Kind <- Alike
    Checker = Checker
    User = User
    g = g
    Spawned = {g}
    MaxOutages = 1
    MaxRestarts = 0

SPECIFICATION Spec

CHECK_DEADLOCK FALSE

INVARIANTS
    SuccessMeansPaid
