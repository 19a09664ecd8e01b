SPECIFICATION HeadSpec
CONSTANTS
    k1 = k1  o1 = o1  o2 = o2  a = a  b = b  c = c
    Keys = {k1}
    Identities = {a, b, c}
    Owners = {o1, o2}
    NoOwner = NoOwner
    NoVersion = NoVersion
    Lease = 1
    Stamps = {1, 2}
    MaxGen = 3
    MaxNow = 2
SYMMETRY InterchangeableIds
CHECK_DEADLOCK FALSE
INVARIANTS HeadTypeOK PointersUsable
PROPERTIES FencedPublication
