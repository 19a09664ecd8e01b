SPECIFICATION MCSpec
CONSTANTS
    r1 = r1  r2 = r2  r3 = r3  q1 = q1  q2 = q2
    here = here  there = there  i1 = i1  i2 = i2  a = a  b = b
    Source = Source
    Output = Output
    Keys = {Source, Output}
    Identities = {a, b}
    Refreshers = {r1, r2, r3}
    Preparers = {q1, q2}
    Owners = {r1, r2, r3, q1, q2}
    NoOwner = NoOwner
    NoVersion = NoVersion
    Lease = 1
    Stamps = {1, 2, 3}
    MaxGen = 4
    MaxNow = 2
    Processes = {here, there}
    ProcessOf <- LastOnesHere
    Traffic <- SourceReadHere
    Reads = {i1, i2}
    NoRead = NoRead
    Content <- Reverting
    PendingLimit = 2
    MaxFailures = 2
SYMMETRY Interchangeable
CHECK_DEADLOCK FALSE
INVARIANTS TypeOK FreshnessHonest
PROPERTIES NeverRegresses LeaseExclusive
