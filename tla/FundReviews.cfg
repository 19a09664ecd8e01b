SPECIFICATION Spec
CONSTANTS
    j1 = j1  j2 = j2  j3 = j3  a = a  b = b  h1 = h1  h2 = h2  w1 = w1
    Jobs = {j1, j2, j3}
    Reports = {a, b}
    NoReport = NoReport
    Holdings = {h1, h2}
    HoldingsOf <- Listed
    MaxStamp = 3
    Content <- Reverting
    Workers = {w1}
    Owners = {1, 2}
    NoOwner = NoOwner
    NoJob = NoJob
    Lease = 2
    DayCap = 2
    AttemptCap = 2
    MaxAttempts = 2
    Capacity = 2
    MaxJobs = 2
    Concurrency = 2
    MaxWire = 1
CONSTRAINT Small
SYMMETRY Interchangeable
INVARIANTS TypeOK ResultsOfReport CountersMatchRows CompleteMeansReviewed Metered
PROPERTIES EvidenceKept
