\* Two requests race for one payment, under fair scheduling of the processes.
SPECIFICATION FairSpec
CONSTANTS
    p1 = p1  p2 = p2
    r1 = r1  r2 = r2  r3 = r3
    t1 = t1  x1 = x1  x2 = x2
    Payments = {p1}
    Requests = {r1, r2}
    Tokens = {t1}
    Txs = {x1}
    NoRequest = NoRequest
    NoToken = NoToken
    NoTx = NoTx
    PayOf <- RacePay
    TokenOf <- RaceToken
    TxOf <- RaceTx
    SignedAt <- RaceSigned
    AuthLife = 1
    RequestLife = 1
    Retention = 3
    DeliveryLife = 2
    MaxNow = 4
CHECK_DEADLOCK FALSE
PROPERTIES KeepsPromise RequestEnds
