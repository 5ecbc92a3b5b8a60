SPECIFICATION FairSpec
CONSTANTS
    t1 = t1
    t2 = t2
    s1 = s1
    Tasks = {t1, t2}
    NoTask = NoTask
    Scopes = {s1}
    ScopeOf <- MCScopeOf
    PlanOf <- MCPlanOf
    NumRetailers = 2
    MaxAttempts = 2
    MaxItems = 0
    Concurrency = 2
    MaxDeliveries = 2
PROPERTY CrashesAreVisible
