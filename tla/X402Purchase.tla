----------------------------- MODULE X402Purchase -----------------------------
(***************************************************************************)
(* Paid requests (createPaidHandler) that replay signed payments against   *)
(* the ledger and the facilitator.  A request runs in a serverless process *)
(* that may be killed at any await; a ledger call may be lost, may reach   *)
(* the database after its caller gave up on it, and its reply may be lost; *)
(* a settlement call may take effect although its caller learns nothing.   *)
(*                                                                         *)
(* The facilitator and the chain are external: a signed message can reach  *)
(* the chain only during its life AuthLife (its recent blockhash).         *)
(***************************************************************************)
EXTENDS X402Ledger

CONSTANTS
    PayOf,        \* the payment each request carries
    TokenOf,      \* the recovery token each request carries, or NoToken
    TxOf,         \* the transaction a payment becomes when broadcast
    SignedAt,     \* when the payer signed the payment
    AuthLife,     \* how long a signed message stays valid on the chain
    RequestLife   \* the platform's limit on the life of a request

ASSUME PurchaseAssumption ==
    /\ PayOf \in [Requests -> Payments]
    /\ TokenOf \in [Requests -> Tokens \cup {NoToken}]
    /\ TxOf \in [Payments -> Txs]
    /\ SignedAt \in [Payments -> Nat]
    /\ AuthLife \in Nat /\ RequestLife \in Nat
    /\ Retention > AuthLife + RequestLife

VARIABLES
    pc,        \* where each request stands
    started,   \* when its payment was verified
    wire,      \* ledger calls under way, each from one request
    reply,     \* the ledger's reply to the call the request awaits
    kept,      \* the transaction preserveSettlementOutcome keeps for the retry
    answer,    \* what the buyer is told, if the request lives to answer
    open,      \* settlement calls the facilitator may still act on
    settlers,  \* requests that have ever asked for settlement
    sent,      \* payments the facilitator has broadcast
    charged    \* payments that have landed on the chain

callVars == <<pc, started, wire, reply, kept, answer>>
chainVars == <<open, settlers, sent, charged>>
vars == <<ledgerVars, callVars, chainVars>>

Phases == {"new", "claiming", "handling", "staging", "settling", "finishing",
           "answered", "crashed"}
Active == {"claiming", "handling", "staging", "settling", "finishing"}
Answers == {"none", "refused", "ledger_unavailable", "already_used",
            "handler_failed", "not_charged", "declined", "unresolved", "delivered"}
Call == [op: {"claim", "stage", "finish"}, req: Requests,
         status: {"pending"} \cup FinalStatus, tx: Txs \cup {NoTx}]
WellFormedCall(m) ==
    /\ m.op = "stage" => TokenOf[m.req] # NoToken
    /\ m.op = "finish" => WellFormedOutcome(m.status, m.tx)

ClaimCall(r) == [op |-> "claim", req |-> r, status |-> "pending", tx |-> NoTx]
StageCall(r) == [op |-> "stage", req |-> r, status |-> "pending", tx |-> NoTx]
FinishCall(r, st, tx) == [op |-> "finish", req |-> r, status |-> st, tx |-> tx]

TypeOK ==
    /\ LedgerTypeOK
    /\ pc \in [Requests -> Phases]
    /\ started \in [Requests -> Nat]
    /\ wire \subseteq Call
    /\ \A m \in wire : WellFormedCall(m)
    /\ reply \in [Requests -> {"none", "yes", "no"}]
    /\ kept \in [Requests -> Txs \cup {NoTx}]
    /\ answer \in [Requests -> Answers]
    /\ open \subseteq Requests
    /\ settlers \subseteq Requests
    /\ sent \subseteq Payments
    /\ charged \subseteq Payments

Init ==
    /\ LedgerInit
    /\ pc = [r \in Requests |-> "new"]
    /\ started = [r \in Requests |-> 0]
    /\ wire = {}
    /\ reply = [r \in Requests |-> "none"]
    /\ kept = [r \in Requests |-> NoTx]
    /\ answer = [r \in Requests |-> "none"]
    /\ open = {} /\ settlers = {} /\ sent = {} /\ charged = {}

\* The chain still accepts the payment's message.
Live(p) == SignedAt[p] <= now /\ now <= SignedAt[p] + AuthLife

\* The request ends with answer a and no further call.
End(r, a) ==
    /\ pc' = [pc EXCEPT ![r] = "answered"]
    /\ answer' = [answer EXCEPT ![r] = a]
    /\ reply' = [reply EXCEPT ![r] = "none"]
    /\ UNCHANGED <<started, wire, kept>>

\* The request records its outcome, and will answer a whatever comes of that.
Finish(r, st, tx, a) ==
    /\ pc' = [pc EXCEPT ![r] = "finishing"]
    /\ answer' = [answer EXCEPT ![r] = a]
    /\ wire' = wire \cup {FinishCall(r, st, tx)}
    /\ reply' = [reply EXCEPT ![r] = "none"]
    /\ kept' = [kept EXCEPT ![r] = NoTx]
    /\ UNCHANGED started

\* The request asks the facilitator to settle.
AskSettlement(r) ==
    /\ pc' = [pc EXCEPT ![r] = "settling"]
    /\ open' = open \cup {r}
    /\ settlers' = settlers \cup {r}
    /\ UNCHANGED <<started, kept, answer, sent, charged>>

-------------------------------------------------------------------------------
(* The request.                                                              *)

\* Verification by the facilitator succeeds while the message is live.
Verified(r) ==
    /\ pc[r] = "new"
    /\ Live(PayOf[r])
    /\ pc' = [pc EXCEPT ![r] = "claiming"]
    /\ started' = [started EXCEPT ![r] = now]
    /\ wire' = wire \cup {ClaimCall(r)}
    /\ UNCHANGED <<ledgerVars, chainVars, reply, kept, answer>>

\* Any refusal before the claim: not ready, attempt limit, proof invalid.
Refused(r) == pc[r] = "new" /\ End(r, "refused") /\ UNCHANGED <<ledgerVars, chainVars>>

ClaimReply(r) ==
    /\ pc[r] = "claiming"
    /\ \/ /\ reply[r] = "yes"
          /\ pc' = [pc EXCEPT ![r] = "handling"]
          /\ reply' = [reply EXCEPT ![r] = "none"]
          /\ UNCHANGED <<started, wire, kept, answer>>
       \/ reply[r] = "no" /\ End(r, "already_used")
    /\ UNCHANGED <<ledgerVars, chainVars>>

\* Mutant: the claim is awaited without a timeout.
ClaimNeverFails(r) == FALSE

\* Timeout, transport failure or ledger error: the handler is not run.
ClaimFailed(r) ==
    /\ pc[r] = "claiming"
    /\ End(r, "ledger_unavailable")
    /\ UNCHANGED <<ledgerVars, chainVars>>

HandlerFailed(r) ==
    /\ pc[r] = "handling"
    /\ Finish(r, "handler_failed", NoTx, "handler_failed")
    /\ UNCHANGED <<ledgerVars, chainVars>>

HandlerDone(r) ==
    /\ pc[r] = "handling"
    /\ IF TokenOf[r] = NoToken
         THEN AskSettlement(r) /\ UNCHANGED <<wire, reply>>
         ELSE /\ pc' = [pc EXCEPT ![r] = "staging"]
              /\ wire' = wire \cup {StageCall(r)}
              /\ UNCHANGED <<chainVars, started, reply, kept, answer>>
    /\ UNCHANGED ledgerVars

Staged(r) ==
    /\ pc[r] = "staging" /\ reply[r] = "yes"
    /\ AskSettlement(r)
    /\ reply' = [reply EXCEPT ![r] = "none"]
    /\ UNCHANGED <<ledgerVars, wire>>

\* The staging call failed or its outcome is unknown: give up before settling.
StageFailed(r) ==
    /\ pc[r] = "staging"
    /\ Finish(r, "handler_failed", NoTx, "not_charged")
    /\ UNCHANGED <<ledgerVars, chainVars>>

\* The finish call returned or failed: its outcome is swallowed either way.
Answer(r) ==
    /\ pc[r] = "finishing"
    /\ pc' = [pc EXCEPT ![r] = "answered"]
    /\ UNCHANGED <<ledgerVars, chainVars, started, wire, reply, kept, answer>>

\* The platform kills the process: the buyer hears nothing.
Crash(r) ==
    /\ pc[r] \in Active
    /\ pc' = [pc EXCEPT ![r] = "crashed"]
    /\ reply' = [reply EXCEPT ![r] = "none"]
    /\ kept' = [kept EXCEPT ![r] = NoTx]
    /\ UNCHANGED <<ledgerVars, chainVars, started, wire, answer>>

-------------------------------------------------------------------------------
(* The outcome of the settlement call, as preserveSettlementOutcome and the  *)
(* SDK's one retry of settlement_pending report it.                          *)

Settling(r) == pc[r] = "settling" /\ UNCHANGED <<ledgerVars, settlers, sent, charged>>

\* Mutant: the outcome is recorded without its transaction.
SettleSuccessBare(r) ==
    /\ Settling(r) /\ r \in open /\ PayOf[r] \in charged
    /\ Finish(r, "settled", NoTx, "delivered")
    /\ open' = open \ {r}

SettleSuccess(r) ==
    /\ Settling(r)
    /\ r \in open /\ PayOf[r] \in charged
    /\ kept[r] \in {NoTx, TxOf[PayOf[r]]}
    /\ Finish(r, "settled", TxOf[PayOf[r]], "delivered")
    /\ open' = open \ {r}

\* settlement_pending with a transaction: kept, and the SDK calls once more.
SettlePendingRetry(r) ==
    /\ Settling(r)
    /\ r \in open /\ PayOf[r] \in sent /\ kept[r] = NoTx
    /\ kept' = [kept EXCEPT ![r] = TxOf[PayOf[r]]]
    /\ UNCHANGED <<pc, started, wire, reply, answer, open>>

\* Mutant: a rejection is definitive whatever came before it.
SettleRejectOutright(r) ==
    /\ Settling(r) /\ r \in open
    /\ kept[r] = NoTx => PayOf[r] \notin sent
    /\ Finish(r, "failed", NoTx, "declined")
    /\ open' = open \ {r}

\* A structured rejection.  It is definitive unless an earlier attempt already
\* returned a transaction.  (The facilitator rejects a first call only if it
\* has not broadcast the payment.)
SettleReject(r) ==
    /\ Settling(r)
    /\ r \in open
    /\ kept[r] = NoTx => PayOf[r] \notin sent
    /\ IF kept[r] = NoTx THEN Finish(r, "failed", NoTx, "declined")
                         ELSE Finish(r, "pending", kept[r], "unresolved")
    /\ open' = open \ {r}

\* Mutants: an unknown outcome counts as a failure, or as a success.
SettleUnknownFails(r) ==
    Settling(r) /\ Finish(r, "failed", NoTx, "declined") /\ open' = open
SettleUnknownDelivers(r) ==
    Settling(r) /\ Finish(r, "pending", kept[r], "delivered") /\ open' = open

\* A lost or malformed reply, a server error, an unresolved reason, a receipt
\* that does not match: the transaction is recorded if one is known.  The call
\* may still take effect.
SettleUnknown(r) ==
    /\ Settling(r)
    /\ \E tx \in {NoTx} \cup {TxOf[p] : p \in {PayOf[r]} \cap sent} :
         Finish(r, "pending", IF kept[r] # NoTx THEN kept[r] ELSE tx, "unresolved")
    /\ open' = open

(* The facilitator and the chain (external).                                 *)

Broadcast(r) ==
    /\ r \in open /\ Live(PayOf[r]) /\ PayOf[r] \notin sent
    /\ sent' = sent \cup {PayOf[r]}
    /\ UNCHANGED <<ledgerVars, callVars, open, settlers, charged>>

Land(p) ==
    /\ p \in sent \ charged /\ Live(p)
    /\ charged' = charged \cup {p}
    /\ UNCHANGED <<ledgerVars, callVars, open, settlers, sent>>

-------------------------------------------------------------------------------
(* The database serves a call; the caller hears of it only while it waits.   *)

Served(m, awaiting, ok) ==
    /\ wire' = wire \ {m}
    /\ reply' = IF pc[m.req] = awaiting
                  THEN [reply EXCEPT ![m.req] = IF ok THEN "yes" ELSE "no"]
                  ELSE reply
    /\ UNCHANGED <<chainVars, pc, started, kept, answer>>

ServeClaim(m) ==
    /\ m \in wire /\ m.op = "claim"
    /\ \E gone \in SUBSET Payments :
         /\ LedgerClaim(PayOf[m.req], m.req, gone)
         /\ Served(m, "claiming", ClaimGranted(PayOf[m.req], gone))

ServeStage(m) ==
    /\ m \in wire /\ m.op = "stage"
    /\ \/ \E gone \in SUBSET Payments :
            /\ LedgerStage(PayOf[m.req], m.req, TokenOf[m.req], m.req, gone)
            /\ Served(m, "staging", TRUE)
       \/ /\ \E gone \in SUBSET ExpiredDeliveries :
               ~StageAllowed(PayOf[m.req], m.req, TokenOf[m.req], m.req, gone)
          /\ UNCHANGED ledgerVars
          /\ Served(m, "staging", FALSE)

ServeFinish(m) ==
    /\ m \in wire /\ m.op = "finish"
    /\ \/ LedgerFinish(PayOf[m.req], m.req, m.status, m.tx)
       \/ /\ ~FinishAllowed(PayOf[m.req], m.req, m.status, m.tx)
          /\ UNCHANGED ledgerVars
    /\ Served(m, "none", TRUE)

\* A call that never reaches the database.
Lose(m) ==
    /\ m \in wire
    /\ wire' = wire \ {m}
    /\ UNCHANGED <<ledgerVars, chainVars, pc, started, reply, kept, answer>>

\* Time passes, but not beyond the life of a request or of its ledger calls.
Tick ==
    /\ \A r \in Requests : pc[r] \in Active => now < started[r] + RequestLife
    /\ \A m \in wire : now < started[m.req] + RequestLife
    /\ LedgerTick
    /\ UNCHANGED <<callVars, chainVars>>

-------------------------------------------------------------------------------
RequestStep(r) ==
    \/ ClaimReply(r) \/ ClaimFailed(r)
    \/ HandlerFailed(r) \/ HandlerDone(r)
    \/ Staged(r) \/ StageFailed(r)
    \/ SettleSuccess(r) \/ SettlePendingRetry(r) \/ SettleReject(r) \/ SettleUnknown(r)
    \/ Answer(r)

Next ==
    \/ \E r \in Requests : Verified(r) \/ Refused(r) \/ RequestStep(r) \/ Crash(r) \/ Broadcast(r)
    \/ \E p \in Payments : Land(p)
    \/ \E m \in wire : ServeClaim(m) \/ ServeStage(m) \/ ServeFinish(m) \/ Lose(m)
    \/ Tick

Spec == Init /\ [][Next]_vars

\* A running process is scheduled: every await ends, if only by its timeout.
FairSpec == Spec /\ \A r \in Requests : WF_vars(RequestStep(r))

-------------------------------------------------------------------------------
(* What the paid routes promise.                                             *)

\* However often a signed payment is replayed, and across the cleanup of its
\* receipt, at most one request ever asks the facilitator to settle it: the
\* atomic claim and the retention that outlives the message (docs
\* x402-pay-per-crawl.md: claims "prevent duplicate or concurrent settlement").
OneSettler ==
    \A r, s \in settlers : PayOf[r] = PayOf[s] => r = s

\* Content leaves the server, by the response or by recovery, only for a
\* payment that has landed; and a token recovers exactly the bytes that the
\* purchase which was opened with it prepared.
PaidBeforeDelivered ==
    /\ \A r \in Requests : answer[r] = "delivered" => PayOf[r] \in charged
    /\ \A t \in Tokens : \A r \in Disclosed(t) :
         r \in settlers /\ TokenOf[r] = t /\ PayOf[r] \in charged

\* A buyer told that it was not charged (handler failure, staging failure,
\* definitive rejection) is not charged, then or later, although the ledger
\* and the facilitator may act on calls whose replies were lost.
UnchargedMeansUncharged ==
    \A r \in Requests :
      answer[r] \in {"handler_failed", "not_charged", "declined"} =>
        PayOf[r] \notin sent

\* A broadcast payment stays on record as pending or settled until its message
\* is dead, so that it cannot be claimed anew; a receipt says settled only of a
\* payment that landed, and names its transaction.
BroadcastOnRecord ==
    \A p \in Payments :
      /\ p \in sent /\ now <= SignedAt[p] + AuthLife =>
           receipts[p].status \in {"pending", "settled"}
      /\ receipts[p].status \in Uncharged => p \notin sent
      /\ receipts[p].status = "settled" => p \in charged
      /\ receipts[p].tx # NoTx => p \in sent /\ receipts[p].tx = TxOf[p]

\* A request that has begun ends with an answer or with its process: no await
\* is without a bound.
RequestEnds ==
    \A r \in Requests : pc[r] = "claiming" ~> pc[r] \in {"answered", "crashed"}

\* The abstract promise: authority is the request that asked for settlement,
\* a charge is a landing, and content is given by the answer "delivered".
Buyer ==
    [p \in Payments |->
       IF \E r \in settlers : PayOf[r] = p
         THEN CHOOSE r \in settlers : PayOf[r] = p ELSE NoRequest]
Given == {r \in Requests : answer[r] = "delivered"}
Promise == INSTANCE X402Promise WITH buyer <- Buyer, paid <- charged, given <- Given

\* Paid requests implement the promise: no interleaving of replays, crashes,
\* lost calls and settlements charges a payment without authority, gives
\* authority twice, or gives content before or without the charge.
KeepsPromise == Promise!Spec
===============================================================================
