SPECIFICATION FairSpec
CONSTANTS
    r1 = r1  r2 = r2  r3 = r3  p1 = p1  p2 = p2
    Requests = {r1, r2, r3}
    Processes = {p1, p2}
    ProcessOf <- LastElsewhere
    Uuids = {1}
    NoOwner = NoOwner
    Spacing = 1
    Lease = 2
    Margin = 1
    GateWait = 1
    Handoff = 0
    MaxQueue = 1
    Cooldowns = {2}
    MaxWire = 1
INVARIANTS TypeOK PermitBacked TurnPassedOn
PROPERTIES KeepsLimit EveryRequestEnds
