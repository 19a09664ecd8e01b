SPECIFICATION LedgerSpec
CONSTANTS
    p1 = p1  p2 = p2  r1 = r1  r2 = r2  t1 = t1  t2 = t2  x1 = x1  x2 = x2
    Payments = {p1, p2}
    Requests = {r1, r2}
    Tokens = {t1, t2}
    Txs = {x1, x2}
    NoRequest = NoRequest
    NoToken = NoToken
    NoTx = NoTx
    Retention = 2
    DeliveryLife = 1
    MaxNow = 4
SYMMETRY InterchangeableTxs
CHECK_DEADLOCK FALSE
INVARIANTS LedgerTypeOK OnePurchasePerToken
PROPERTIES OutcomeImmutable TransactionKept SettledBytesFrozen
