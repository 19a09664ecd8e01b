SPECIFICATION Spec
CONSTANTS
    s1 = s1  s2 = s2  old = old  c1 = c1  w1 = w1  w2 = w2  m1 = m1
    Jobs = {s1}
    ShardJobs = {s1}
    CohortJobs = {}
    Superseded = {}
    Workers = {w1, w2}
    Migrators = {}
    NoJob = NoJob
    Owners = {1, 2, 3, 4}
    NoOwner = NoOwner
    MaxAttempts = 2
    ShardSize = 2
    CohortSize = 1
    BatchSize = 1
    MaxIssuerAttempts = 2
    MaxLate = 1
SYMMETRY Interchangeable
INVARIANTS TypeOK CheckpointsValid DoneMeansVisited
PROPERTIES LosesAtMostOne
