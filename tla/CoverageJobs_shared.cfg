SPECIFICATION Spec
CONSTANTS
    s1 = s1  s2 = s2  old = old  c1 = c1  w1 = w1  w2 = w2  m1 = m1
    Jobs = {s1, c1}
    ShardJobs = {s1}
    CohortJobs = {c1}
    Superseded = {}
    Workers = {w1}
    Migrators = {m1}
    NoJob = NoJob
    Owners = {1, 2, 3, 4}
    NoOwner = NoOwner
    MaxAttempts = 2
    ShardSize = 3
    CohortSize = 2
    BatchSize = 1
    MaxIssuerAttempts = 1
    MaxLate = 0
INVARIANTS CohortComplete
