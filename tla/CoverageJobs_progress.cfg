SPECIFICATION FairSpec
CONSTANTS
    s1 = s1  s2 = s2  old = old  c1 = c1  w1 = w1  w2 = w2  m1 = m1
    Jobs = {s1, old}
    ShardJobs = {s1, old}
    CohortJobs = {}
    Superseded = {old}
    Workers = {w1}
    Migrators = {}
    NoJob = NoJob
    Owners = {1, 2, 3, 4, 5}
    NoOwner = NoOwner
    MaxAttempts = 2
    ShardSize = 1
    CohortSize = 1
    BatchSize = 1
    MaxIssuerAttempts = 2
    MaxLate = 1
PROPERTIES EveryShardEnds
