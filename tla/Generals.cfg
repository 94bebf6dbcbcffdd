CONSTANTS
    commander = commander
    l1 = l1
    l2 = l2
    l3 = l3
    Generals <- FourGenerals
    Commander = commander
    MaxTraitors = 1
    Simulations <- Agreeing
    MaxFailures = 1

SPECIFICATION Spec

SYMMETRY AnyLieutenant

INVARIANTS
    
    Validity
    
