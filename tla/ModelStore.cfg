SPECIFICATION Spec
CONSTANTS
    t1 = t1
    t2 = t2
    old = old
    Trainers = {t1, t2, old}
    Requests = {q1}
    FeatureVersionOf <- MCFeatureVersionOf
    ServedVersion = "v2"
    None = None
    Torn = Torn
    MaxClock = 1
SYMMETRY Symmetry
INVARIANT LatestModelIsWhole
\* Every training and every request runs once.
CHECK_DEADLOCK FALSE
