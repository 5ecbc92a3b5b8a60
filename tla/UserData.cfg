SPECIFICATION FairSpec
CONSTANTS
    alice = alice
    bob = bob
    p1 = p1
    p2 = p2
    q1 = q1
    q2 = q2
    q3 = q3
    mail1 = mail1
    mail2 = mail2
    Identities = {alice, bob}
    Products = {p1, p2}
    Catalogued = {p1}
    Requests = {q1, q2, q3}
    IdentityOf <- MCIdentityOf
    EmailOf <- MCEmailOf
    Old = Old
    Thresholds = {1, 2}
    None = None
    First = 1
    MaxDeaths = 1
    Asks <- MCAsks
INVARIANTS OneOfEach
PROPERTIES ImplementsStore EveryRequestEnds
\* Every request runs once.
CHECK_DEADLOCK FALSE
