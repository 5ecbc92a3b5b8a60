SPECIFICATION FairSpec
CONSTANTS
    c1 = c1
    c2 = c2
    c3 = c3
    Callers = {c1, c2, c3}
    Nobody = Nobody
    Cost = 3
    Burst = 1
    MaxConcurrent = 2
    MaxLate = 1
    LastCall = 5
    MaxTime = 18
CHECK_DEADLOCK FALSE
INVARIANTS
    SlotsAreConserved
    AtMostTwiceTheRate
PROPERTIES
    EveryCallerLeaves
