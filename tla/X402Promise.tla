------------------------------ MODULE X402Promise ------------------------------
(***************************************************************************)
(* What a paid route promises, without ledger, messages or processes: one  *)
(* request at most gets authority to charge a payment, the payment is      *)
(* charged only under that authority, and content is given only to that    *)
(* request and only once the payment is charged.                           *)
(***************************************************************************)
CONSTANTS Payments, Requests, NoRequest, PayOf

VARIABLES
    buyer,   \* buyer[p]: the request that holds authority over p, or NoRequest
    paid,    \* payments that were charged
    given    \* requests that were given the content

promiseVars == <<buyer, paid, given>>

Init ==
    /\ buyer = [p \in Payments |-> NoRequest]
    /\ paid = {} /\ given = {}

Authorize(r) ==
    /\ buyer[PayOf[r]] = NoRequest
    /\ buyer' = [buyer EXCEPT ![PayOf[r]] = r]
    /\ UNCHANGED <<paid, given>>

Charge(p) ==
    /\ buyer[p] # NoRequest
    /\ paid' = paid \cup {p}
    /\ UNCHANGED <<buyer, given>>

Give(r) ==
    /\ buyer[PayOf[r]] = r /\ PayOf[r] \in paid
    /\ given' = given \cup {r}
    /\ UNCHANGED <<buyer, paid>>

Next ==
    \/ \E r \in Requests : Authorize(r) \/ Give(r)
    \/ \E p \in Payments : Charge(p)

Spec == Init /\ [][Next]_promiseVars
===============================================================================
