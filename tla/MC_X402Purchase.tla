--------------------------- MODULE MC_X402Purchase ---------------------------
(* Small instances of X402Purchase.                                          *)
EXTENDS X402Purchase, TLC
CONSTANTS p1, p2, r1, r2, r3, t1, x1, x2

\* One payment replayed by a request with a recovery token and one without,
\* while a second payment offers the same token.
ReplayPay == r1 :> p1 @@ r2 :> p1 @@ r3 :> p2
ReplayToken == r1 :> t1 @@ r2 :> NoToken @@ r3 :> t1
PaymentTx == p1 :> x1 @@ p2 :> x2
\* One payment carried by two requests, one of them with a recovery token.
RacePay == r1 :> p1 @@ r2 :> p1
RaceToken == r1 :> t1 @@ r2 :> NoToken
RaceTx == p1 :> x1
RaceSigned == p1 :> 0
\* The second payment is signed when the first one's receipt may have expired.
LaterSigned == p1 :> 0 @@ p2 :> 3
===============================================================================
