\* Replays of one payment and a second payment after the first has expired.
SPECIFICATION Spec
CONSTANTS
    p1 = p1  p2 = p2
    r1 = r1  r2 = r2  r3 = r3
    t1 = t1  x1 = x1  x2 = x2
    Payments = {p1, p2}
    Requests = {r1, r2, r3}
    Tokens = {t1}
    Txs = {x1, x2}
    NoRequest = NoRequest
    NoToken = NoToken
    NoTx = NoTx
    PayOf <- ReplayPay
    TokenOf <- ReplayToken
    TxOf <- PaymentTx
    SignedAt <- LaterSigned
    AuthLife = 1
    RequestLife = 1
    Retention = 3
    DeliveryLife = 2
    MaxNow = 5
CHECK_DEADLOCK FALSE
INVARIANTS TypeOK OneSettler PaidBeforeDelivered UnchargedMeansUncharged BroadcastOnRecord
