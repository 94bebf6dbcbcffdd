CONSTANTS
    c1 = c1
    c2 = c2
    NumServers = 2
    Clients = {c1, c2}
    MaxConcurrentTasks = 1
    MaxFailures = 2

SPECIFICATION Spec

INVARIANTS
    TypeOK
    TasksAreCounted

PROPERTIES
    RoundRobinIsFair
    LoadsDrain
