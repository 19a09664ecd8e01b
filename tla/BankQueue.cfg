SPECIFICATION Spec
CONSTANTS
    b = b  w1 = w1  w2 = w2
    Banks = {b}
    Periods = {1}
    Form031 = {b}
    Windows <- Rolling
    MaxVersion = 2
    Verdicts <- Read
    Workers = {w1, w2}
    Owners = {1, 2, 3}
    NoOwner = NoOwner
    NoQuarter = NoQuarter
    MaxAttempts = 2
    MaxTries = 2
    MaxPending = 1
    MaxRefresh = 1
    MaxFaults = 1
    MaxWire = 1
INVARIANTS TypeOK ReadyMeansShown
PROPERTIES EveryQuarterSettles
