-------------------------- MODULE X402Purchase_proofs --------------------------
(* Theorems about paid requests, for any number of payments, requests and    *)
(* tokens and any times that satisfy PurchaseAssumption.                     *)
EXTENDS X402Purchase, X402Ledger_proofs

(***************************************************************************)
(* The inductive invariant.  OneSettler is not inductive by itself: why no *)
(* second request can settle a payment is that its receipt names the first *)
(* one for as long as any request can still act on the payment (Owned),    *)
(* which rests on the order of the three lifetimes (Timely).               *)
(***************************************************************************)

\* No request that carries the payment can be running any more.
Dead(p) == now > SignedAt[p] + AuthLife + RequestLife

\* The request has got hold of its payment.
Held(r) ==
    \/ pc[r] \in {"handling", "staging", "settling"}
    \/ pc[r] = "claiming" /\ reply[r] = "yes"
    \/ r \in settlers
    \/ answer[r] \in {"handler_failed", "not_charged"}

Within(r) ==
    /\ SignedAt[PayOf[r]] <= started[r]
    /\ started[r] <= now
    /\ now <= started[r] + RequestLife

Timely ==
    /\ \A r \in Requests : started[r] <= SignedAt[PayOf[r]] + AuthLife
    /\ \A r \in Requests : pc[r] \in Active => Within(r)
    /\ \A m \in wire : Within(m.req) /\ pc[m.req] # "new"
    /\ \A p \in Payments :
         receipts[p].status # "absent" => SignedAt[p] + Retention <= receipts[p].expires

Owned ==
    \A r \in Requests :
      Held(r) => receipts[PayOf[r]].owner = r \/ Dead(PayOf[r])

Progress ==
    /\ \A r \in Requests :
         /\ pc[r] = "new" => reply[r] = "none"
         /\ pc[r] \in {"new", "claiming", "handling", "staging", "settling"} =>
              answer[r] = "none"
         /\ pc[r] \in {"new", "claiming", "handling", "staging"} => r \notin settlers
         /\ pc[r] = "settling" => r \in settlers
         /\ kept[r] # NoTx => kept[r] = TxOf[PayOf[r]] /\ PayOf[r] \in sent
    /\ open \subseteq settlers
    /\ \A p \in sent : \E r \in settlers : PayOf[r] = p
    /\ charged \subseteq sent

\* What an answer says of the payment.
Truthful ==
    \A r \in Requests :
      /\ answer[r] \in {"handler_failed", "not_charged"} =>
           \A s \in settlers : PayOf[s] # PayOf[r]
      /\ answer[r] = "declined" =>
           r \in settlers /\ r \notin open /\ PayOf[r] \notin sent
      /\ answer[r] = "delivered" => r \in settlers /\ PayOf[r] \in charged

\* What an outcome of request r says, on the wire or in its receipt.
OutcomeTrue(r, st, tx) ==
    /\ st = "handler_failed" => answer[r] \in {"handler_failed", "not_charged"}
    /\ st = "failed" => answer[r] = "declined"
    /\ st = "settled" => r \in settlers /\ PayOf[r] \in charged
    /\ tx # NoTx => tx = TxOf[PayOf[r]] /\ PayOf[r] \in sent

Messages == \A m \in wire : OutcomeTrue(m.req, m.status, m.tx)

Rows ==
    \A p \in Payments :
      /\ receipts[p].status # "absent" =>
           /\ PayOf[receipts[p].owner] = p
           /\ OutcomeTrue(receipts[p].owner, receipts[p].status, receipts[p].tx)
      /\ deliveries[p] # NoDelivery =>
           /\ receipts[p].status # "absent"
           /\ deliveries[p].body = receipts[p].owner
           /\ deliveries[p].token = TokenOf[receipts[p].owner]

IInv == /\ TypeOK /\ Timely /\ Owned /\ Progress /\ Truthful /\ Messages /\ Rows
        /\ OneSettler

-------------------------------------------------------------------------------
\* Whatever a request or the database does, the ledger takes a step of its own
\* specification or none.
LEMMA StepIsLedgerStep ==
    ASSUME TypeOK, [Next]_vars
    PROVE  [LedgerNext]_ledgerVars
<1> USE LedgerAssumption, PurchaseAssumption
<1>1. ASSUME NEW m \in wire, ServeClaim(m) PROVE LedgerNext
  BY <1>1 DEF ServeClaim, LedgerNext, TypeOK, Call
<1>2. ASSUME NEW m \in wire, ServeStage(m) PROVE [LedgerNext]_ledgerVars
  <2>1. PayOf[m.req] \in Payments /\ m.req \in Requests /\ TokenOf[m.req] \in Tokens
    BY <1>2 DEF ServeStage, TypeOK, Call, WellFormedCall
  <2>2. CASE UNCHANGED ledgerVars
    BY <2>2
  <2>3. CASE \E gone \in SUBSET Payments :
               LedgerStage(PayOf[m.req], m.req, TokenOf[m.req], m.req, gone)
    BY <2>1, <2>3 DEF LedgerNext
  <2>4. QED
    BY <1>2, <2>2, <2>3 DEF ServeStage
<1>3. ASSUME NEW m \in wire, ServeFinish(m) PROVE [LedgerNext]_ledgerVars
  BY <1>3 DEF ServeFinish, LedgerNext, TypeOK, Call, WellFormedCall, ledgerVars
<1>4. Tick => LedgerNext
  BY DEF Tick, LedgerNext
<1>5. ASSUME NEW r \in Requests, RequestStep(r) PROVE UNCHANGED ledgerVars
  BY <1>5 DEF RequestStep, ClaimReply, ClaimFailed, HandlerFailed, HandlerDone,
              Staged, StageFailed, SettleSuccess, SettlePendingRetry, SettleReject,
              SettleUnknown, Settling, Answer
<1>6. ASSUME NEW r \in Requests, Verified(r) \/ Refused(r) \/ Crash(r) \/ Broadcast(r)
      PROVE  UNCHANGED ledgerVars
  BY <1>6 DEF Verified, Refused, Crash, Broadcast
<1>7. (\E p \in Payments : Land(p)) \/ (\E m \in wire : Lose(m)) \/ UNCHANGED vars
        => UNCHANGED ledgerVars
  BY DEF Land, Lose, vars
<1>8. QED
  BY <1>1, <1>2, <1>3, <1>4, <1>5, <1>6, <1>7 DEF Next

-------------------------------------------------------------------------------
\* What any step of a running request leaves alone.
OwnStep(r) == RequestStep(r) \/ Refused(r) \/ Crash(r)

LEMMA OwnStepFrame ==
    ASSUME TypeOK, NEW r \in Requests, OwnStep(r)
    PROVE  /\ UNCHANGED <<ledgerVars, started, sent, charged>>
           /\ \A q \in Requests \ {r} :
                /\ pc'[q] = pc[q] /\ answer'[q] = answer[q]
                /\ reply'[q] = reply[q] /\ kept'[q] = kept[q]
           /\ pc'[r] \notin {"new", "claiming"}
           /\ pc'[r] \in Active => pc[r] \in Active
           /\ wire \subseteq wire'
           /\ \A m \in wire' \ wire : m.req = r /\ pc[r] \in Active
<1> USE DEF TypeOK, Phases, Active, vars, ledgerVars, callVars, chainVars
<1>1. CASE ClaimReply(r) \/ ClaimFailed(r) \/ Refused(r)
  BY <1>1 DEF ClaimReply, ClaimFailed, Refused, End
<1>2. CASE HandlerFailed(r) \/ StageFailed(r)
  BY <1>2 DEF HandlerFailed, StageFailed, Finish, FinishCall
<1>3. CASE HandlerDone(r)
  BY <1>3 DEF HandlerDone, AskSettlement, StageCall
<1>4. CASE Staged(r)
  BY <1>4 DEF Staged, AskSettlement
<1>5. CASE SettleSuccess(r) \/ SettlePendingRetry(r) \/ SettleUnknown(r)
  BY <1>5 DEF SettleSuccess, SettlePendingRetry, SettleUnknown, Settling, Finish, FinishCall
<1>6. CASE SettleReject(r)
  BY <1>6 DEF SettleReject, Settling, Finish, FinishCall
<1>7. CASE Answer(r) \/ Crash(r)
  BY <1>7 DEF Answer, Crash
<1>8. QED
  BY <1>1, <1>2, <1>3, <1>4, <1>5, <1>6, <1>7 DEF OwnStep, RequestStep

\* What the database serving or losing a call leaves alone.
ServeStep(m) == ServeClaim(m) \/ ServeStage(m) \/ ServeFinish(m) \/ Lose(m)

LEMMA ServeStepFrame ==
    ASSUME TypeOK, NEW m \in wire, ServeStep(m)
    PROVE  /\ UNCHANGED <<now, pc, started, kept, answer, chainVars>>
           /\ wire' \subseteq wire
<1>1. CASE ServeClaim(m)
  BY <1>1 DEF ServeClaim, LedgerClaim, Served
<1>2. CASE ServeStage(m)
  BY <1>2 DEF ServeStage, LedgerStage, Served, ledgerVars
<1>3. CASE ServeFinish(m) \/ Lose(m)
  BY <1>3 DEF ServeFinish, LedgerFinish, Lose, Served, ledgerVars
<1>4. QED
  BY <1>1, <1>2, <1>3 DEF ServeStep

\* The steps of the system, by who takes them.
LEMMA StepKinds ==
    ASSUME [Next]_vars
    PROVE  \/ \E r \in Requests : Verified(r) \/ OwnStep(r) \/ Broadcast(r)
           \/ \E p \in Payments : Land(p)
           \/ \E m \in wire : ServeStep(m)
           \/ Tick
           \/ UNCHANGED vars
BY DEF Next, OwnStep, ServeStep

-------------------------------------------------------------------------------
LEMMA TypeStep ==
    ASSUME TypeOK, [Next]_vars
    PROVE  TypeOK'
<1> USE LedgerAssumption, PurchaseAssumption
    DEF TypeOK, Phases, Answers, ledgerVars, callVars, chainVars
<1>1. LedgerTypeOK'
  BY StepIsLedgerStep, LedgerStepTypes
<1>2. ASSUME NEW r \in Requests, Verified(r) PROVE TypeOK'
  BY <1>1, <1>2 DEF Verified, ClaimCall, Call, WellFormedCall, LedgerTypeOK, FinalStatus
<1>3. ASSUME NEW r \in Requests, OwnStep(r) PROVE TypeOK'
  <2>1. CASE ClaimFailed(r) \/ Refused(r) \/ Answer(r) \/ Crash(r)
    BY <1>1, <2>1 DEF ClaimFailed, Refused, End, Answer, Crash
  <2>2. CASE ClaimReply(r)
    <3>1. CASE reply[r] = "no" /\ End(r, "already_used")
      BY <1>1, <2>2, <3>1 DEF ClaimReply, End
    <3>2. CASE ~(reply[r] = "no" /\ End(r, "already_used"))
      BY <1>1, <2>2, <3>2 DEF ClaimReply
    <3>3. QED
      BY <3>1, <3>2
  <2>3. CASE HandlerDone(r)
    <3>1. CASE TokenOf[r] = NoToken
      BY <1>1, <2>3, <3>1 DEF HandlerDone, AskSettlement
    <3>2. CASE TokenOf[r] # NoToken
      BY <1>1, <2>3, <3>2 DEF HandlerDone, StageCall, Call, WellFormedCall
    <3>3. QED
      BY <3>1, <3>2
  <2>4. CASE Staged(r) \/ SettlePendingRetry(r)
    BY <1>1, <2>4 DEF Staged, AskSettlement, SettlePendingRetry, Settling
  <2>5. ASSUME NEW st \in {"pending"} \cup FinalStatus, NEW tx \in Txs \cup {NoTx},
               NEW a \in Answers, WellFormedOutcome(st, tx), Finish(r, st, tx, a),
               UNCHANGED <<ledgerVars, settlers, sent, charged>>, open' \subseteq Requests
        PROVE  TypeOK'
    BY <1>1, <2>5 DEF Finish, FinishCall, Call, WellFormedCall
  <2>6. CASE HandlerFailed(r) \/ StageFailed(r)
    BY <2>5, <2>6 DEF HandlerFailed, StageFailed, WellFormedOutcome, FinalStatus, Uncharged
  <2>7. CASE SettleSuccess(r)
    BY <2>5, <2>7 DEF SettleSuccess, Settling, WellFormedOutcome, FinalStatus, Uncharged
  <2>8. CASE SettleReject(r)
    BY <2>5, <2>8 DEF SettleReject, Settling, WellFormedOutcome, FinalStatus, Uncharged
  <2>9. CASE SettleUnknown(r)
    BY <2>5, <2>9 DEF SettleUnknown, Settling, WellFormedOutcome, FinalStatus, Uncharged
  <2>10. QED
    BY <1>3, <2>1, <2>2, <2>3, <2>4, <2>6, <2>7, <2>8, <2>9 DEF OwnStep, RequestStep
<1>4. ASSUME NEW m \in wire, ServeStep(m) PROVE TypeOK'
  <2>1. reply' \in [Requests -> {"none", "yes", "no"}]
    BY <1>4 DEF ServeStep, ServeClaim, ServeStage, ServeFinish, Lose, Served, Call
  <2>2. QED
    BY <1>1, <1>4, <2>1, ServeStepFrame
<1>5. ASSUME NEW r \in Requests, Broadcast(r) PROVE TypeOK'
  BY <1>1, <1>5 DEF Broadcast
<1>6. (\E p \in Payments : Land(p)) \/ Tick \/ UNCHANGED vars => TypeOK'
  BY <1>1 DEF Land, Tick, vars
<1>7. QED
  BY <1>2, <1>3, <1>4, <1>5, <1>6, StepKinds

-------------------------------------------------------------------------------
\* The lifetimes: no request acts outside its own, and no receipt expires
\* while a request for its payment may act.
LEMMA TimelyStep ==
    ASSUME TypeOK, TypeOK', Timely, [Next]_vars
    PROVE  Timely'
<1> USE PurchaseAssumption, LedgerAssumption
<1>1. ASSUME NEW r \in Requests, Verified(r) PROVE Timely'
  <2>1. now \in Nat /\ Live(PayOf[r]) /\ pc[r] = "new"
    BY <1>1 DEF Verified, TypeOK, LedgerTypeOK
  <2>2. \A m \in wire : m.req \in Requests /\ m.req # r
    BY <2>1 DEF Timely, TypeOK, Call
  <2>3. wire' = wire \cup {ClaimCall(r)} /\ UNCHANGED <<now, receipts>>
        /\ pc' = [pc EXCEPT ![r] = "claiming"] /\ started' = [started EXCEPT ![r] = now]
    BY <1>1 DEF Verified, ledgerVars
  <2>4. \A q \in Requests : started'[q] <= SignedAt[PayOf[q]] + AuthLife
    BY <2>1, <2>3 DEF Timely, Live, TypeOK
  <2>5. Within(r)'
    BY <2>1, <2>3 DEF Within, Live, TypeOK
  <2>6. \A q \in Requests \ {r} : (Within(q) => Within(q)') /\ pc'[q] = pc[q]
    BY <2>3 DEF Within, TypeOK
  <2>7. pc'[r] = "claiming"
    BY <2>3 DEF TypeOK
  <2>8. QED
    BY <2>2, <2>3, <2>4, <2>5, <2>6, <2>7 DEF Timely, ClaimCall
<1>2. ASSUME NEW r \in Requests, OwnStep(r) PROVE Timely'
  <2>1. UNCHANGED <<now, receipts, started>>
    BY <1>2, OwnStepFrame DEF ledgerVars
  <2>2. \A q \in Requests : Within(q) => Within(q)'
    BY <2>1 DEF Within
  <2>3. \A q \in Requests : /\ pc'[q] \in Active => pc[q] \in Active
                            /\ pc'[q] = "new" => pc[q] = "new"
    BY <1>2, OwnStepFrame
  <2>4. \A m \in wire' : m.req \in Requests /\ Within(m.req) /\ pc[m.req] # "new"
    BY <1>2, OwnStepFrame DEF Timely, Call, Active, TypeOK
  <2>5. \A p \in Payments :
          receipts'[p].status # "absent" => SignedAt[p] + Retention <= receipts'[p].expires
    BY <2>1 DEF Timely
  <2>6. QED
    BY <2>1, <2>2, <2>3, <2>4, <2>5 DEF Timely
<1>3. ASSUME NEW m \in wire, ServeStep(m) PROVE Timely'
  <2>1. \A p \in Payments :
          receipts'[p].status # "absent" => SignedAt[p] + Retention <= receipts'[p].expires
    <3>1. CASE ServeClaim(m)
      <4>1. Within(m.req) /\ m.req \in Requests
        BY DEF Timely, Call, TypeOK
      <4>2. SignedAt[PayOf[m.req]] <= now
        BY <4>1 DEF Within, LedgerTypeOK, TypeOK
      <4>3. QED
        BY <3>1, <4>2 DEF ServeClaim, LedgerClaim, Absent, Timely, LedgerTypeOK, TypeOK
    <3>2. CASE ServeFinish(m)
      <4>1. CASE UNCHANGED ledgerVars
        BY <4>1 DEF ledgerVars, Timely
      <4>2. CASE LedgerFinish(PayOf[m.req], m.req, m.status, m.tx)
        <5>1. PayOf[m.req] \in Payments /\ LedgerTypeOK
          BY DEF TypeOK, Call
        <5>2. /\ receipts[PayOf[m.req]].status # "absent"
              /\ \A p \in Payments : /\ receipts'[p].expires = receipts[p].expires
                                     /\ p # PayOf[m.req] => receipts'[p] = receipts[p]
          BY <4>2, <5>1, FinishRows
        <5>3. ASSUME NEW p \in Payments, receipts'[p].status # "absent"
              PROVE  SignedAt[p] + Retention <= receipts'[p].expires
          <6>1. receipts[p].status # "absent" /\ receipts'[p].expires = receipts[p].expires
            BY <5>2, <5>3
          <6>2. QED
            BY <6>1 DEF Timely
        <5>4. QED
          BY <5>3
      <4>3. QED
        BY <3>2, <4>1, <4>2 DEF ServeFinish
    <3>3. CASE ServeStage(m) \/ Lose(m)
      BY <3>3 DEF ServeStage, LedgerStage, Lose, Timely, ledgerVars
    <3>4. QED
      BY <1>3, <3>1, <3>2, <3>3 DEF ServeStep
  <2>2. QED
    BY <1>3, <2>1, ServeStepFrame DEF Timely, Within
<1>4. CASE Tick
  <2>1. \A r \in Requests : pc[r] \in Active => now + 1 <= started[r] + RequestLife
    BY <1>4 DEF Tick, LedgerTypeOK, TypeOK
  <2>2. \A m \in wire : m.req \in Requests /\ now + 1 <= started[m.req] + RequestLife
    BY <1>4 DEF Tick, LedgerTypeOK, Call, TypeOK
  <2>3. now' = now + 1 /\ UNCHANGED <<receipts, pc, started, wire>>
    BY <1>4 DEF Tick, LedgerTick, callVars
  <2>4. QED
    BY <2>1, <2>2, <2>3 DEF Timely, Within, LedgerTypeOK, TypeOK
<1>5. ASSUME UNCHANGED <<ledgerVars, callVars>> PROVE Timely'
  BY <1>5 DEF Timely, Within, ledgerVars, callVars
<1>6. QED
  BY <1>1, <1>2, <1>3, <1>4, <1>5, StepKinds DEF Broadcast, Land, vars

\* While a request acts, its payment is not dead; a receipt is cleaned up only
\* once its payment is.
LEMMA ActingIsAlive ==
    ASSUME TypeOK, Timely, NEW r \in Requests, Within(r)
    PROVE  ~Dead(PayOf[r])
BY PurchaseAssumption DEF TypeOK, LedgerTypeOK, Timely, Within, Dead

LEMMA ExpiredIsDead ==
    ASSUME TypeOK, Timely, NEW p \in ExpiredReceipts
    PROVE  Dead(p)
BY PurchaseAssumption, LedgerAssumption
   DEF TypeOK, LedgerTypeOK, Receipt, Timely, ExpiredReceipts, Dead

LEMMA SoleHolder ==
    ASSUME TypeOK, Timely, Owned, NEW r \in Requests, NEW s \in Requests,
           PayOf[r] = PayOf[s], Held(r), Held(s), pc[r] \in Active
    PROVE  r = s
BY ActingIsAlive DEF Owned, Timely

-------------------------------------------------------------------------------
\* What a request's own step does to its answer and to the settlements.
OwnEffect(r) ==
    \/ /\ answer'[r] = answer[r] \/ pc[r] \in {"new", "claiming"}
       /\ answer'[r] \in {"handler_failed", "not_charged", "declined", "delivered"} =>
            answer'[r] = answer[r]
       /\ UNCHANGED <<open, settlers>>
    \/ /\ pc[r] \in {"handling", "staging"} /\ pc'[r] = "settling"
       /\ answer' = answer
       /\ open' = open \cup {r} /\ settlers' = settlers \cup {r}
    \/ /\ pc[r] \in {"handling", "staging"}
       /\ answer'[r] \in {"handler_failed", "not_charged"}
       /\ UNCHANGED <<open, settlers>>
    \/ /\ pc[r] = "settling" /\ settlers' = settlers /\ open' \subseteq open
       /\ \/ answer'[r] = "unresolved"
          \/ answer'[r] = "delivered" /\ PayOf[r] \in charged
          \/ answer'[r] = "declined" /\ PayOf[r] \notin sent /\ r \notin open'

LEMMA OwnStepEffect ==
    ASSUME TypeOK, NEW r \in Requests, OwnStep(r)
    PROVE  OwnEffect(r)
<1> USE DEF TypeOK, OwnEffect, chainVars, End, Finish
<1>1. CASE ClaimReply(r) \/ ClaimFailed(r) \/ Refused(r)
  BY <1>1 DEF ClaimReply, ClaimFailed, Refused
<1>2. CASE HandlerFailed(r) \/ StageFailed(r)
  BY <1>2 DEF HandlerFailed, StageFailed
<1>3. CASE HandlerDone(r)
  BY <1>3 DEF HandlerDone, AskSettlement
<1>4. CASE Staged(r)
  BY <1>4 DEF Staged, AskSettlement
<1>5. CASE SettleSuccess(r) \/ SettlePendingRetry(r) \/ SettleUnknown(r)
  BY <1>5 DEF SettleSuccess, SettlePendingRetry, SettleUnknown, Settling
<1>6. CASE SettleReject(r)
  BY <1>6 DEF SettleReject, Settling
<1>7. CASE Answer(r) \/ Crash(r)
  BY <1>7 DEF Answer, Crash
<1>8. QED
  BY <1>1, <1>2, <1>3, <1>4, <1>5, <1>6, <1>7 DEF OwnStep, RequestStep

\* Settlements, broadcasts, charges and answers are never taken back.
LEMMA Monotone ==
    ASSUME TypeOK, Progress, [Next]_vars
    PROVE  /\ settlers \subseteq settlers' /\ sent \subseteq sent' /\ charged \subseteq charged'
           /\ \A r \in Requests : answer[r] # "none" => answer'[r] = answer[r]
<1>1. ASSUME NEW r \in Requests, OwnStep(r)
      PROVE  /\ settlers \subseteq settlers' /\ UNCHANGED <<sent, charged>>
             /\ \A q \in Requests : answer[q] # "none" => answer'[q] = answer[q]
  <2>1. answer[r] # "none" => answer'[r] = answer[r]
    BY <1>1, OwnStepEffect DEF OwnEffect, Progress
  <2>2. settlers \subseteq settlers'
    BY <1>1, OwnStepEffect DEF OwnEffect
  <2>3. QED
    BY <1>1, <2>1, <2>2, OwnStepFrame
<1>2. ASSUME NEW m \in wire, ServeStep(m) PROVE UNCHANGED <<answer, chainVars>>
  BY <1>2, ServeStepFrame
<1>3. ASSUME NEW r \in Requests, Verified(r) \/ Broadcast(r)
      PROVE  UNCHANGED <<answer, settlers, charged>> /\ sent \subseteq sent'
  BY <1>3 DEF Verified, Broadcast, callVars, chainVars
<1>4. (\E p \in Payments : Land(p)) \/ Tick \/ UNCHANGED vars =>
        UNCHANGED <<answer, settlers, sent>> /\ charged \subseteq charged'
  BY DEF Land, Tick, vars, callVars, chainVars
<1>5. QED
  BY <1>1, <1>2, <1>3, <1>4, StepKinds DEF chainVars

LEMMA OutcomeStaysTrue ==
    ASSUME TypeOK, Progress, [Next]_vars, NEW r \in Requests, NEW st, NEW tx,
           OutcomeTrue(r, st, tx)
    PROVE  OutcomeTrue(r, st, tx)'
BY Monotone DEF OutcomeTrue

-------------------------------------------------------------------------------
\* A request that holds its payment keeps its receipt while the payment lives.
LEMMA OwnStepHeld ==
    ASSUME TypeOK, NEW r \in Requests, OwnStep(r)
    PROVE  \A q \in Requests : Held(q)' => Held(q)
<1>1. \A q \in Requests \ {r} : Held(q)' => Held(q)
  BY OwnStepFrame, OwnStepEffect DEF Held, OwnEffect
<1>2. Held(r)' => Held(r)
  <2> USE DEF TypeOK, Held, End, Finish, chainVars
  <2>1. CASE ClaimReply(r) \/ ClaimFailed(r) \/ Refused(r)
    BY <2>1 DEF ClaimReply, ClaimFailed, Refused
  <2>2. CASE pc[r] \in {"handling", "staging", "settling"}
    BY <2>2
  <2>3. CASE Answer(r) \/ Crash(r)
    BY <2>3 DEF Answer, Crash
  <2>4. QED
    BY <2>1, <2>2, <2>3
       DEF OwnStep, RequestStep, HandlerFailed, HandlerDone, Staged, StageFailed,
           SettleSuccess, SettlePendingRetry, SettleReject, SettleUnknown, Settling
<1>3. QED
  BY <1>1, <1>2

LEMMA OwnedStep ==
    ASSUME TypeOK, TypeOK', Timely, Owned, Progress, [Next]_vars
    PROVE  Owned'
<1> USE PurchaseAssumption, LedgerAssumption
<1>1. ASSUME \A q \in Requests : Held(q)' => Held(q),
             \A p \in Payments : receipts'[p].owner = receipts[p].owner,
             now' \in {now, now + 1}
      PROVE  Owned'
  <2>1. \A p \in Payments : Dead(p) => Dead(p)'
    BY <1>1 DEF Dead, TypeOK, LedgerTypeOK
  <2>2. QED
    BY <1>1, <2>1 DEF Owned
<1>2. ASSUME NEW r \in Requests, Verified(r) PROVE Owned'
  <2>1. \A q \in Requests : Held(q)' => Held(q)
    BY <1>2 DEF Verified, Held, Progress, TypeOK, chainVars
  <2>2. QED
    BY <1>1, <1>2, <2>1 DEF Verified, ledgerVars
<1>3. ASSUME NEW r \in Requests, OwnStep(r) PROVE Owned'
  <2>1. \A q \in Requests : Held(q)' => Held(q)
    BY <1>3, OwnStepHeld
  <2>2. UNCHANGED ledgerVars
    BY <1>3, OwnStepFrame
  <2>3. QED
    BY <1>1, <2>1, <2>2 DEF ledgerVars
<1>4. ASSUME NEW m \in wire, ServeClaim(m) PROVE Owned'
  <2>1. m.req \in Requests /\ PayOf[m.req] \in Payments /\ ~Dead(PayOf[m.req])
    BY ActingIsAlive DEF Timely, TypeOK, Call
  <2>2. PICK gone \in SUBSET Payments :
          /\ LedgerClaim(PayOf[m.req], m.req, gone)
          /\ Served(m, "claiming", ClaimGranted(PayOf[m.req], gone))
    BY <1>4 DEF ServeClaim
  <2>3. \A p \in gone : Dead(p)
    BY <2>2, ExpiredIsDead DEF LedgerClaim
  <2>4. \A p \in Payments : Dead(p)' <=> Dead(p)
    BY <2>2 DEF LedgerClaim, Dead
  <2>5. \A q \in Requests : Held(q)' => Held(q) \/ (q = m.req /\ receipts'[PayOf[q]].owner = q)
    BY <2>1, <2>2 DEF Served, Held, LedgerClaim, TypeOK, chainVars
  <2>6. ASSUME NEW q \in Requests, Held(q), ~Dead(PayOf[q])
        PROVE  receipts'[PayOf[q]].owner = q
    <3>1. receipts[PayOf[q]].owner = q /\ receipts[PayOf[q]].status # "absent"
      BY <2>6 DEF Owned, TypeOK, LedgerTypeOK, RowOK, Absent
    <3>2. PayOf[q] \notin gone
      BY <2>3, <2>6
    <3>3. QED
      BY <2>2, <3>1, <3>2 DEF LedgerClaim, ClaimGranted
  <2>7. QED
    BY <2>4, <2>5, <2>6 DEF Owned
<1>5. ASSUME NEW m \in wire, ServeStage(m) \/ ServeFinish(m) \/ Lose(m) PROVE Owned'
  <2>1. PayOf[m.req] \in Payments /\ LedgerTypeOK
    BY DEF TypeOK, Call
  <2>2. \A q \in Requests : Held(q)' => Held(q)
    BY <1>5 DEF ServeStage, ServeFinish, Lose, Served, Held, TypeOK, Phases, chainVars
  <2>3. \A p \in Payments : receipts'[p].owner = receipts[p].owner
    <3>1. LedgerFinish(PayOf[m.req], m.req, m.status, m.tx) =>
            \A p \in Payments : receipts'[p].owner = receipts[p].owner
      BY <2>1, FinishRows
    <3>2. QED
      BY <1>5, <3>1 DEF ServeStage, LedgerStage, ServeFinish, Lose, ledgerVars
  <2>4. now' = now
    BY <1>5 DEF ServeStage, LedgerStage, ServeFinish, LedgerFinish, Lose, ledgerVars
  <2>5. QED
    BY <1>1, <2>2, <2>3, <2>4
<1>6. CASE Tick
  BY <1>1, <1>6 DEF Tick, LedgerTick, Held, callVars, chainVars
<1>7. ASSUME UNCHANGED <<ledgerVars, callVars, settlers>> PROVE Owned'
  BY <1>1, <1>7 DEF Held, ledgerVars, callVars
<1>8. QED
  BY <1>2, <1>3, <1>4, <1>5, <1>6, <1>7, StepKinds
     DEF ServeStep, Broadcast, Land, vars, chainVars

LEMMA OneSettlerStep ==
    ASSUME TypeOK, Timely, Owned, Progress, OneSettler, [Next]_vars
    PROVE  OneSettler'
<1>1. ASSUME NEW r \in Requests, OwnStep(r) PROVE OneSettler'
  <2>1. CASE settlers' = settlers
    BY <2>1 DEF OneSettler
  <2>2. CASE pc[r] \in {"handling", "staging"} /\ settlers' = settlers \cup {r}
    <3>1. \A s \in settlers : PayOf[r] = PayOf[s] => r = s
      BY <2>2, SoleHolder DEF Held, Active, TypeOK
    <3>2. QED
      BY <2>2, <3>1 DEF OneSettler
  <2>3. QED
    BY <1>1, <2>1, <2>2, OwnStepEffect DEF OwnEffect
<1>2. ASSUME NEW m \in wire, ServeStep(m) PROVE UNCHANGED settlers
  BY <1>2, ServeStepFrame DEF chainVars
<1>3. QED
  BY <1>1, <1>2, StepKinds
     DEF OneSettler, Verified, Broadcast, Land, Tick, vars, chainVars

LEMMA ProgressStep ==
    ASSUME TypeOK, TypeOK', Progress, [Next]_vars
    PROVE  Progress'
<1>1. ASSUME NEW r \in Requests, OwnStep(r) PROVE Progress'
  <2>1. \A q \in Requests \ {r} :
          /\ q \in settlers' <=> q \in settlers
          /\ UNCHANGED <<pc[q], answer[q], reply[q], kept[q]>>
    BY <1>1, OwnStepFrame, OwnStepEffect DEF OwnEffect
  <2>2. kept'[r] # NoTx => kept'[r] = TxOf[PayOf[r]] /\ PayOf[r] \in sent
    BY <1>1 DEF OwnStep, RequestStep, Progress, TypeOK, End, Finish, ClaimReply,
         ClaimFailed, Refused, HandlerFailed, HandlerDone, AskSettlement, Staged,
         StageFailed, SettleSuccess, SettlePendingRetry, SettleReject, SettleUnknown,
         Settling, Answer, Crash
  <2>3. /\ pc'[r] \in {"handling", "staging"} => answer'[r] = "none" /\ r \notin settlers'
        /\ pc'[r] = "settling" => answer'[r] = "none" /\ r \in settlers'
    BY <1>1 DEF OwnStep, RequestStep, Progress, TypeOK, End, Finish, ClaimReply,
         ClaimFailed, Refused, HandlerFailed, HandlerDone, AskSettlement, Staged,
         StageFailed, SettleSuccess, SettlePendingRetry, SettleReject, SettleUnknown,
         Settling, Answer, Crash, chainVars
  <2>4. open' \subseteq settlers' /\ settlers \subseteq settlers'
    BY <1>1, OwnStepEffect DEF OwnEffect, Progress
  <2>5. UNCHANGED <<sent, charged>> /\ pc'[r] \notin {"new", "claiming"}
    BY <1>1, OwnStepFrame
  <2>6. QED
    BY <2>1, <2>2, <2>3, <2>4, <2>5 DEF Progress
<1>2. ASSUME NEW r \in Requests, Verified(r) PROVE Progress'
  BY <1>2 DEF Verified, Progress, TypeOK, chainVars
<1>3. ASSUME NEW m \in wire, ServeStep(m) PROVE Progress'
  <2>1. \A r \in Requests : pc[r] = "new" => reply'[r] = reply[r]
    BY <1>3 DEF ServeStep, ServeClaim, ServeStage, ServeFinish, Lose, Served, TypeOK, Call
  <2>2. QED
    BY <1>3, <2>1, ServeStepFrame DEF Progress, chainVars
<1>4. ASSUME NEW r \in Requests, Broadcast(r) PROVE Progress'
  BY <1>4 DEF Broadcast, Progress, TypeOK, callVars
<1>5. ASSUME NEW p \in Payments, Land(p) PROVE Progress'
  BY <1>5 DEF Land, Progress, callVars
<1>6. Tick \/ UNCHANGED vars => Progress'
  BY DEF Tick, Progress, vars, callVars, chainVars
<1>7. QED
  BY <1>1, <1>2, <1>3, <1>4, <1>5, <1>6, StepKinds

\* An answer stays true of its payment whatever happens afterwards.
LEMMA TruthfulStep ==
    ASSUME TypeOK, Timely, Owned, Progress, Truthful, OneSettler, [Next]_vars
    PROVE  Truthful'
<1>1. ASSUME NEW r \in Requests, OwnStep(r) PROVE Truthful'
  <2> SUFFICES ASSUME NEW q \in Requests
               PROVE  /\ answer'[q] \in {"handler_failed", "not_charged"} =>
                           \A s \in settlers' : PayOf[s] # PayOf[q]
                      /\ answer'[q] = "declined" =>
                           q \in settlers' /\ q \notin open' /\ PayOf[q] \notin sent'
                      /\ answer'[q] = "delivered" => q \in settlers' /\ PayOf[q] \in charged'
    BY DEF Truthful
  <2>1. UNCHANGED <<sent, charged>> /\ settlers \subseteq settlers'
    BY <1>1, OwnStepFrame, OwnStepEffect DEF OwnEffect
  <2>2. CASE answer'[q] = answer[q] /\ UNCHANGED <<open, settlers>>
    BY <2>1, <2>2 DEF Truthful
  <2>3. CASE /\ pc[r] \in {"handling", "staging"} /\ answer' = answer
             /\ open' = open \cup {r} /\ settlers' = settlers \cup {r}
    <3>1. answer[q] \in {"handler_failed", "not_charged"} => PayOf[r] # PayOf[q]
      BY <2>3, SoleHolder DEF Held, Active, Progress
    <3>2. answer[q] = "declined" => q # r
      BY <2>3 DEF Progress
    <3>3. QED
      BY <2>1, <2>3, <3>1, <3>2 DEF Truthful
  <2>4. CASE /\ pc[r] \in {"handling", "staging"} /\ q = r
             /\ answer'[r] \in {"handler_failed", "not_charged"}
             /\ UNCHANGED <<open, settlers>>
    <3>1. \A s \in settlers : PayOf[s] # PayOf[r]
      BY <2>4, SoleHolder DEF Held, Active, Progress, TypeOK
    <3>2. QED
      BY <2>4, <3>1
  <2>5. CASE pc[r] = "settling" /\ settlers' = settlers /\ open' \subseteq open
    <3>1. CASE q = r
      BY <1>1, <2>1, <2>5, <3>1, OwnStepEffect DEF OwnEffect, Progress, Truthful
    <3>2. CASE q # r
      BY <1>1, <2>1, <2>5, <3>2, OwnStepFrame DEF Truthful
    <3>3. QED
      BY <3>1, <3>2
  <2>6. QED
    BY <1>1, <2>1, <2>2, <2>3, <2>4, <2>5, OwnStepFrame, OwnStepEffect
       DEF OwnEffect, Truthful
<1>2. ASSUME NEW r \in Requests, Broadcast(r) PROVE Truthful'
  <2>1. \A q \in Requests : answer[q] = "declined" => PayOf[q] # PayOf[r]
    BY <1>2 DEF Broadcast, Truthful, Progress, OneSettler
  <2>2. QED
    BY <1>2, <2>1 DEF Broadcast, Truthful, callVars
<1>3. ASSUME NEW m \in wire, ServeStep(m) PROVE Truthful'
  BY <1>3, ServeStepFrame DEF Truthful, chainVars
<1>4. ASSUME NEW r \in Requests, Verified(r) PROVE Truthful'
  BY <1>4 DEF Verified, Truthful, chainVars
<1>5. (\E p \in Payments : Land(p)) \/ Tick \/ UNCHANGED vars => Truthful'
  BY DEF Land, Tick, Truthful, vars, callVars, chainVars
<1>6. QED
  BY <1>1, <1>2, <1>3, <1>4, <1>5, StepKinds

-------------------------------------------------------------------------------
\* A request sends only outcomes that are true when it sends them.
LEMMA OwnMessages ==
    ASSUME TypeOK, Timely, Owned, Progress, NEW r \in Requests, OwnStep(r),
           NEW m \in wire' \ wire
    PROVE  OutcomeTrue(m.req, m.status, m.tx)'
<1> USE DEF OutcomeTrue, TypeOK, chainVars
<1>1. CASE HandlerFailed(r) \/ StageFailed(r)
  BY <1>1 DEF HandlerFailed, StageFailed, Finish, FinishCall
<1>2. CASE HandlerDone(r)
  BY <1>2 DEF HandlerDone, AskSettlement, StageCall
<1>3. CASE SettleSuccess(r)
  <2>1. r \in settlers /\ PayOf[r] \in charged /\ PayOf[r] \in sent
    BY <1>3 DEF SettleSuccess, Settling, Progress
  <2>2. m = FinishCall(r, "settled", TxOf[PayOf[r]]) /\ UNCHANGED <<settlers, sent, charged>>
    BY <1>3 DEF SettleSuccess, Settling, Finish
  <2>3. QED
    BY <2>1, <2>2 DEF FinishCall
<1>4. CASE SettleReject(r)
  <2>1. CASE kept[r] = NoTx
    BY <1>4, <2>1 DEF SettleReject, Settling, Finish, FinishCall
  <2>2. CASE kept[r] # NoTx
    BY <1>4, <2>2 DEF SettleReject, Settling, Finish, FinishCall, Progress
  <2>3. QED
    BY <2>1, <2>2
<1>5. CASE SettleUnknown(r)
  BY <1>5 DEF SettleUnknown, Settling, Finish, FinishCall, Progress
<1>6. CASE wire' = wire
  BY <1>6
<1>7. QED
  BY <1>1, <1>2, <1>3, <1>4, <1>5, <1>6
     DEF OwnStep, RequestStep, Refused, ClaimReply, ClaimFailed, End, Staged,
         SettlePendingRetry, Settling, Answer, Crash

LEMMA MessagesStep ==
    ASSUME TypeOK, Timely, Owned, Progress, Messages, [Next]_vars
    PROVE  Messages'
<1>1. ASSUME wire' \subseteq wire PROVE Messages'
  BY <1>1, OutcomeStaysTrue DEF Messages, TypeOK, Call
<1>2. ASSUME NEW r \in Requests, OwnStep(r) PROVE Messages'
  <2>1. \A m \in wire : OutcomeTrue(m.req, m.status, m.tx)'
    BY OutcomeStaysTrue DEF Messages, TypeOK, Call
  <2>2. QED
    BY <1>2, <2>1, OwnMessages DEF Messages
<1>3. ASSUME NEW r \in Requests, Verified(r) PROVE Messages'
  <2>1. \A m \in wire : OutcomeTrue(m.req, m.status, m.tx)'
    BY OutcomeStaysTrue DEF Messages, TypeOK, Call
  <2>2. wire' = wire \cup {ClaimCall(r)}
    BY <1>3 DEF Verified
  <2>3. QED
    BY <2>1, <2>2 DEF Messages, ClaimCall, OutcomeTrue
<1>4. ASSUME NEW m \in wire, ServeStep(m) PROVE wire' \subseteq wire
  BY <1>4, ServeStepFrame
<1>5. QED
  BY <1>1, <1>2, <1>3, <1>4, StepKinds DEF Broadcast, Land, Tick, vars, callVars

\* Receipts and deliveries tell the truth about their owner.
RowTrue(p) ==
    /\ receipts[p].status # "absent" =>
         /\ PayOf[receipts[p].owner] = p
         /\ OutcomeTrue(receipts[p].owner, receipts[p].status, receipts[p].tx)
    /\ deliveries[p] # NoDelivery =>
         /\ receipts[p].status # "absent"
         /\ deliveries[p].body = receipts[p].owner
         /\ deliveries[p].token = TokenOf[receipts[p].owner]

LEMMA RowsStep ==
    ASSUME TypeOK, Progress, Messages, Rows, [Next]_vars
    PROVE  Rows'
<1> SUFFICES ASSUME NEW p \in Payments PROVE RowTrue(p)'
  BY DEF Rows, RowTrue
<1>1. RowTrue(p)
  BY DEF Rows, RowTrue
<1>2. receipts[p].status # "absent" => receipts[p].owner \in Requests
  BY DEF TypeOK, LedgerTypeOK, RowOK
<1>3. CASE receipts'[p] = receipts[p] /\ deliveries'[p] \in {NoDelivery, deliveries[p]}
  BY <1>1, <1>2, <1>3, Monotone DEF RowTrue, OutcomeTrue
<1>4. ASSUME NEW m \in wire, ServeClaim(m) PROVE RowTrue(p)'
  <2>1. PICK gone \in SUBSET Payments : LedgerClaim(PayOf[m.req], m.req, gone)
    BY <1>4 DEF ServeClaim
  <2>2. CASE p = PayOf[m.req] /\ ClaimGranted(p, gone)
    <3>1. receipts'[p].owner = m.req /\ receipts'[p].status = "pending"
          /\ receipts'[p].tx = NoTx /\ deliveries'[p] = NoDelivery
      BY <1>1, <2>1, <2>2 DEF LedgerClaim, ClaimGranted, RowTrue
    <3>2. QED
      BY <2>2, <3>1 DEF RowTrue, OutcomeTrue
  <2>3. CASE p \in gone /\ ~(p = PayOf[m.req])
    BY <2>1, <2>3 DEF LedgerClaim, RowTrue, Absent
  <2>4. CASE p \notin gone /\ ~(p = PayOf[m.req] /\ ClaimGranted(p, gone))
    BY <1>3, <2>1, <2>4 DEF LedgerClaim
  <2>5. QED
    BY <2>2, <2>3, <2>4 DEF ClaimGranted
<1>5. ASSUME NEW m \in wire, ServeStage(m) PROVE RowTrue(p)'
  <2>1. receipts' = receipts
    BY <1>5 DEF ServeStage, LedgerStage, ledgerVars
  <2>2. CASE UNCHANGED ledgerVars
    BY <1>3, <2>2 DEF ledgerVars
  <2>3. ASSUME NEW gone \in SUBSET Payments,
               LedgerStage(PayOf[m.req], m.req, TokenOf[m.req], m.req, gone)
        PROVE  RowTrue(p)'
    <3>1. CASE p = PayOf[m.req] /\ StageInserts(p, TokenOf[m.req], gone)
      <4>1. receipts[p].owner = m.req /\ receipts[p].status = "pending"
            /\ deliveries'[p].body = m.req /\ deliveries'[p].token = TokenOf[m.req]
        BY <2>3, <3>1 DEF LedgerStage, StageAllowed
      <4>2. QED
        BY <1>1, <1>2, <2>1, <4>1, Monotone DEF RowTrue, OutcomeTrue
    <3>2. CASE ~(p = PayOf[m.req] /\ StageInserts(p, TokenOf[m.req], gone))
      BY <1>3, <2>1, <2>3, <3>2 DEF LedgerStage
    <3>3. QED
      BY <3>1, <3>2
  <2>4. QED
    BY <1>5, <2>2, <2>3 DEF ServeStage
<1>6. ASSUME NEW m \in wire, ServeFinish(m) PROVE RowTrue(p)'
  <2>1. PayOf[m.req] \in Payments /\ m.req \in Requests
    BY PurchaseAssumption DEF TypeOK, Call
  <2>2. LedgerTypeOK
    BY DEF TypeOK
  <2>3. CASE UNCHANGED ledgerVars
    BY <1>3, <2>3 DEF ledgerVars
  <2>4. CASE LedgerFinish(PayOf[m.req], m.req, m.status, m.tx)
    <3>1. deliveries' = deliveries
      BY <2>4 DEF LedgerFinish
    <3>2. CASE p # PayOf[m.req] \/ receipts[PayOf[m.req]].status # "pending"
      <4>1. receipts'[p] = receipts[p]
        BY <2>1, <2>2, <2>4, <3>2, FinishRows
      <4>2. QED
        BY <1>3, <3>1, <4>1
    <3>3. CASE p = PayOf[m.req] /\ receipts[p].status = "pending"
      <4>1. /\ receipts[p].owner = m.req /\ receipts'[p].owner = m.req
            /\ receipts'[p].status = m.status
            /\ receipts'[p].tx = IF m.tx = NoTx THEN receipts[p].tx ELSE m.tx
        BY <2>1, <2>2, <2>4, <3>3, FinishRows
      <4>2. OutcomeTrue(m.req, m.status, m.tx)'
        BY <2>1, OutcomeStaysTrue DEF Messages
      <4>3. OutcomeTrue(m.req, receipts[p].status, receipts[p].tx)'
        BY <1>1, <3>3, <4>1, <4>2, Monotone DEF RowTrue, OutcomeTrue
      <4>4. m.status # "absent"
        BY DEF TypeOK, Call, FinalStatus
      <4>5. QED
        BY <1>1, <3>1, <3>3, <4>1, <4>3, <4>4 DEF RowTrue, OutcomeTrue
    <3>4. QED
      BY <3>2, <3>3
  <2>5. QED
    BY <1>6, <2>3, <2>4 DEF ServeFinish
<1>7. ASSUME NEW r \in Requests, OwnStep(r) PROVE RowTrue(p)'
  BY <1>3, <1>7, OwnStepFrame DEF ledgerVars
<1>8. QED
  BY <1>3, <1>4, <1>5, <1>6, <1>7, StepKinds
     DEF ServeStep, Lose, Verified, Broadcast, Land, Tick, LedgerTick, vars, ledgerVars

-------------------------------------------------------------------------------
LEMMA InitInvariant == Init => IInv
<1> SUFFICES ASSUME Init PROVE IInv
  OBVIOUS
<1> USE LedgerAssumption, PurchaseAssumption DEF Init
<1>1. LedgerTypeOK /\ \A p \in Payments : receipts[p] = Absent /\ deliveries[p] = NoDelivery
  BY LedgerInitTypes DEF LedgerInit
<1>2. TypeOK
  BY <1>1 DEF TypeOK, Phases, Answers
<1>3. Timely
  BY <1>1 DEF Timely, Active, Absent
<1>4. Owned /\ Progress /\ Truthful /\ Messages /\ OneSettler
  BY DEF Owned, Held, Progress, Truthful, Messages, OneSettler
<1>5. Rows
  BY <1>1 DEF Rows, Absent
<1>6. QED
  BY <1>2, <1>3, <1>4, <1>5 DEF IInv

LEMMA StepInvariant == IInv /\ [Next]_vars => IInv'
BY TypeStep, TimelyStep, OwnedStep, ProgressStep, TruthfulStep, MessagesStep,
   RowsStep, OneSettlerStep
   DEF IInv

THEOREM PurchaseInvariant == Spec => []IInv
BY InitInvariant, StepInvariant, PTL DEF Spec

\* Variables keep their types and ledger rows their constraints.
THEOREM PurchaseTypes == Spec => []TypeOK
<1>1. IInv => TypeOK
  BY DEF IInv
<1>2. QED
  BY <1>1, PurchaseInvariant, PTL

\* One request at most ever asks for the settlement of a payment.
THEOREM PaymentsHaveOneSettler == Spec => []OneSettler
<1>1. IInv => OneSettler
  BY DEF IInv
<1>2. QED
  BY <1>1, PurchaseInvariant, PTL

\* A buyer told that nothing was charged is not charged, then or later.
THEOREM UnchargedIsUncharged == Spec => []UnchargedMeansUncharged
<1>1. IInv => UnchargedMeansUncharged
  BY DEF IInv, Truthful, Progress, UnchargedMeansUncharged
<1>2. QED
  BY <1>1, PurchaseInvariant, PTL

\* Content leaves the server only for a payment that has landed.
THEOREM PaymentPrecedesDelivery == Spec => []PaidBeforeDelivered
<1>1. ASSUME IInv, NEW t \in Tokens, NEW r \in Disclosed(t)
      PROVE  r \in settlers /\ TokenOf[r] = t /\ PayOf[r] \in charged
  <2>1. PICK p \in Payments : /\ deliveries[p].token = t /\ deliveries[p].body = r
                              /\ receipts[p].status = "settled"
    BY <1>1 DEF Disclosed, Recoverable
  <2>2. deliveries[p] # NoDelivery
    BY <2>1, LedgerAssumption DEF NoDelivery
  <2>3. QED
    BY <1>1, <2>1, <2>2 DEF IInv, Rows, OutcomeTrue
<1>2. IInv => PaidBeforeDelivered
  BY <1>1 DEF PaidBeforeDelivered, IInv, Truthful
<1>3. QED
  BY <1>2, PurchaseInvariant, PTL

\* A broadcast payment stays on record while its message lives, and a receipt
\* never contradicts the chain.
THEOREM BroadcastsAreOnRecord == Spec => []BroadcastOnRecord
<1>1. ASSUME IInv, NEW p \in Payments, receipts[p].status \in Uncharged
      PROVE  p \notin sent
  <2>1. receipts[p].owner \in Requests /\ PayOf[receipts[p].owner] = p
        /\ OutcomeTrue(receipts[p].owner, receipts[p].status, receipts[p].tx)
    BY <1>1 DEF IInv, Rows, TypeOK, LedgerTypeOK, RowOK, Uncharged
  <2>2. answer[receipts[p].owner] \in {"handler_failed", "not_charged", "declined"}
    BY <1>1, <2>1 DEF OutcomeTrue, Uncharged
  <2>3. QED
    BY <1>1, <2>1, <2>2 DEF IInv, Truthful, Progress
<1>2. ASSUME IInv, NEW p \in sent, now <= SignedAt[p] + AuthLife
      PROVE  receipts[p].status # "absent"
  <2>1. PICK r \in settlers : PayOf[r] = p
    BY <1>2 DEF IInv, Progress
  <2>2. ~Dead(p) /\ r \in Requests /\ p \in Payments
    BY <1>2, PurchaseAssumption DEF Dead, IInv, TypeOK, LedgerTypeOK
  <2>3. receipts[p].owner = r
    BY <1>2, <2>1, <2>2 DEF IInv, Owned, Held
  <2>4. QED
    BY <1>2, <2>2, <2>3, LedgerAssumption DEF IInv, TypeOK, LedgerTypeOK, RowOK, Absent
<1>3. ASSUME IInv, NEW p \in Payments
      PROVE  /\ receipts[p].status = "settled" => p \in charged
             /\ receipts[p].tx # NoTx => p \in sent /\ receipts[p].tx = TxOf[p]
  BY <1>3 DEF IInv, Rows, OutcomeTrue, TypeOK, LedgerTypeOK, RowOK
<1>4. ASSUME IInv, NEW p \in Payments
      PROVE  receipts[p].status \in {"absent", "pending", "settled"} \cup Uncharged
  BY <1>4 DEF IInv, TypeOK, LedgerTypeOK, Receipt, FinalStatus, Uncharged
<1>5. IInv => BroadcastOnRecord
  BY <1>1, <1>2, <1>3, <1>4 DEF BroadcastOnRecord, IInv, TypeOK
<1>6. QED
  BY <1>5, PurchaseInvariant, PTL

\* Whatever requests do, the ledger sees only a run of its own specification:
\* the theorems about LedgerSpec hold of the composed system.
THEOREM PurchaseUsesLedger == Spec => LedgerSpec
<1>1. Init => LedgerInit
  BY DEF Init
<1>2. TypeOK /\ [Next]_vars => [LedgerNext]_ledgerVars
  BY StepIsLedgerStep
<1>3. QED
  BY <1>1, <1>2, PurchaseTypes, PTL DEF Spec, LedgerSpec

-------------------------------------------------------------------------------
\* The promise: every step of the system is one of its steps or changes nothing
\* that it speaks of.
LEMMA BuyerIsSettler ==
    ASSUME TypeOK, OneSettler, NEW r \in settlers
    PROVE  Buyer[PayOf[r]] = r
<1>1. r \in Requests /\ PayOf[r] \in Payments
  BY PurchaseAssumption DEF TypeOK
<1> DEFINE s == CHOOSE s \in settlers : PayOf[s] = PayOf[r]
<1>2. s \in settlers /\ PayOf[s] = PayOf[r]
  OBVIOUS
<1>3. s = r
  BY <1>2 DEF OneSettler
<1>4. Buyer[PayOf[r]] = s
  BY <1>1 DEF Buyer
<1>5. QED
  BY <1>3, <1>4

LEMMA AuthorityStep ==
    ASSUME TypeOK, OneSettler, OneSettler', NEW r \in Requests, r \notin settlers,
           settlers' = settlers \cup {r}, UNCHANGED <<charged, answer>>
    PROVE  Promise!Authorize(r)
<1>1. PayOf[r] \in Payments
  BY PurchaseAssumption
<1>2. \A s \in settlers : PayOf[s] # PayOf[r]
  BY DEF OneSettler
<1>3. Buyer[PayOf[r]] = NoRequest
  BY <1>1, <1>2 DEF Buyer
<1>4. ASSUME NEW p \in Payments
      PROVE  Buyer'[p] = IF p = PayOf[r] THEN r ELSE Buyer[p]
  <2>1. CASE p = PayOf[r]
    <3>1. \A s : s \in settlers' /\ PayOf[s] = p <=> s = r
      BY <1>2, <2>1
    <3>2. (CHOOSE s \in settlers' : PayOf[s] = p) = r
      BY <3>1
    <3>3. QED
      BY <2>1, <3>1, <3>2 DEF Buyer
  <2>2. CASE p # PayOf[r]
    <3>1. \A s : s \in settlers' /\ PayOf[s] = p <=> s \in settlers /\ PayOf[s] = p
      BY <2>2
    <3>2. (CHOOSE s \in settlers' : PayOf[s] = p) = (CHOOSE s \in settlers : PayOf[s] = p)
      BY <3>1
    <3>3. QED
      BY <2>2, <3>1, <3>2 DEF Buyer
  <2>3. QED
    BY <2>1, <2>2
<1>5. Buyer' = [Buyer EXCEPT ![PayOf[r]] = r]
  BY <1>4 DEF Buyer
<1>6. QED
  BY <1>3, <1>5 DEF Promise!Authorize, Given

LEMMA PromiseStep ==
    ASSUME IInv, IInv', [Next]_vars
    PROVE  [Promise!Next]_Promise!promiseVars
<1> USE DEF Promise!promiseVars
<1>1. ASSUME UNCHANGED <<settlers, charged>>, \A q \in Requests : (answer'[q] = "delivered") <=> (answer[q] = "delivered")
      PROVE  UNCHANGED Promise!promiseVars
  BY <1>1 DEF Buyer, Given
<1>2. ASSUME NEW r \in Requests, OwnStep(r) PROVE [Promise!Next]_Promise!promiseVars
  <2>1. UNCHANGED charged /\ \A q \in Requests \ {r} : answer'[q] = answer[q]
    BY <1>2, OwnStepFrame DEF IInv
  <2>2. answer[r] = "delivered" => answer'[r] = "delivered"
    BY Monotone DEF IInv
  <2>3. CASE pc[r] \in {"handling", "staging"} /\ answer' = answer
             /\ settlers' = settlers \cup {r}
    <3>1. r \notin settlers
      BY <2>3 DEF IInv, Progress
    <3>2. Promise!Authorize(r)
      BY <2>1, <2>3, <3>1, AuthorityStep DEF IInv
    <3>3. QED
      BY <3>2 DEF Promise!Next
  <2>4. CASE pc[r] = "settling" /\ settlers' = settlers /\ answer'[r] = "delivered"
             /\ PayOf[r] \in charged
    <3>1. Buyer[PayOf[r]] = r
      BY <2>4, BuyerIsSettler DEF IInv, Progress
    <3>2. Given' = Given \cup {r}
      BY <2>1, <2>4 DEF Given
    <3>3. Buyer' = Buyer
      BY <2>4 DEF Buyer
    <3>4. Promise!Give(r)
      BY <2>1, <2>4, <3>1, <3>2, <3>3 DEF Promise!Give
    <3>5. QED
      BY <3>4 DEF Promise!Next
  <2>5. CASE settlers' = settlers /\ answer'[r] # "delivered"
    BY <1>1, <2>1, <2>2, <2>5
  <2>6. CASE UNCHANGED settlers /\ answer'[r] = answer[r]
    BY <1>1, <2>1, <2>6
  <2>7. QED
    BY <1>2, <2>2, <2>3, <2>4, <2>5, <2>6, OwnStepEffect DEF OwnEffect, IInv
<1>3. ASSUME NEW p \in Payments, Land(p) PROVE [Promise!Next]_Promise!promiseVars
  <2>1. PICK r \in settlers : PayOf[r] = p
    BY <1>3 DEF Land, IInv, Progress
  <2>2. Buyer[p] # NoRequest
    BY <2>1, BuyerIsSettler, LedgerAssumption DEF IInv, TypeOK
  <2>3. Promise!Charge(p)
    BY <1>3, <2>2 DEF Land, Promise!Charge, Buyer, Given, callVars
  <2>4. QED
    BY <2>3 DEF Promise!Next
<1>4. ASSUME NEW m \in wire, ServeStep(m) PROVE UNCHANGED Promise!promiseVars
  BY <1>1, <1>4, ServeStepFrame DEF IInv, chainVars
<1>5. ASSUME UNCHANGED <<settlers, charged, answer>> PROVE UNCHANGED Promise!promiseVars
  BY <1>1, <1>5
<1>6. QED
  BY <1>2, <1>3, <1>4, <1>5, StepKinds
     DEF Verified, Broadcast, Tick, vars, callVars, chainVars

\* Authority to charge is given once, a charge rests on it, and content follows
\* the charge.
THEOREM PurchaseKeepsPromise == Spec => KeepsPromise
<1>1. Init => Promise!Init
  BY DEF Init, Promise!Init, Buyer, Given
<1>2. IInv /\ IInv' /\ [Next]_vars => [Promise!Next]_Promise!promiseVars
  BY PromiseStep
<1>3. QED
  BY <1>1, <1>2, PurchaseInvariant, PTL DEF Spec, KeepsPromise, Promise!Spec
===============================================================================
