--------------------------- MODULE X402Ledger_proofs ---------------------------
(* Theorems about the ledger, for any number of payments, callers, tokens    *)
(* and transactions and any retention times.                                 *)
EXTENDS X402Ledger, TLAPS

LEMMA LedgerInitTypes == LedgerInit => LedgerTypeOK
BY LedgerAssumption
   DEF LedgerInit, LedgerTypeOK, Receipt, Absent, RowOK, Delivery, NoDelivery

LEMMA LedgerStepTypes ==
    ASSUME LedgerTypeOK, [LedgerNext]_ledgerVars
    PROVE  LedgerTypeOK'
<1> USE LedgerAssumption DEF LedgerTypeOK
<1>1. ASSUME NEW p \in Payments, NEW o \in Requests, NEW gone \in SUBSET Payments,
             LedgerClaim(p, o, gone)
      PROVE  LedgerTypeOK'
  BY <1>1 DEF LedgerClaim, ClaimGranted, Receipt, Absent, RowOK, Delivery, NoDelivery
<1>2. ASSUME NEW p \in Payments, NEW o \in Requests,
             NEW st \in {"pending"} \cup FinalStatus, NEW tx \in Txs \cup {NoTx},
             WellFormedOutcome(st, tx), LedgerFinish(p, o, st, tx)
      PROVE  LedgerTypeOK'
  <2>1. CASE receipts[p].status # "pending"
    BY <1>2, <2>1 DEF LedgerFinish
  <2>2. CASE receipts[p].status = "pending"
    <3> DEFINE row == [receipts[p] EXCEPT !.status = st,
                                          !.tx = IF tx = NoTx THEN @ ELSE tx]
    <3>1. receipts' = [receipts EXCEPT ![p] = row]
      BY <1>2, <2>2 DEF LedgerFinish
    <3>2. row \in Receipt /\ row.status = st /\ row.owner = receipts[p].owner
          /\ row.tx = IF tx = NoTx THEN receipts[p].tx ELSE tx
      BY DEF Receipt
    <3>3. RowOK(row)
      BY <3>2, <1>2, <2>2 DEF LedgerFinish, FinishAllowed, WellFormedOutcome, Receipt, Absent, RowOK,
              FinalStatus, Uncharged
    <3> HIDE DEF row
    <3>4. QED
      BY <3>1, <3>2, <3>3, <1>2 DEF LedgerFinish
  <2>3. QED
    BY <2>1, <2>2
<1>3. ASSUME NEW p \in Payments, NEW o \in Requests, NEW t \in Tokens,
             NEW b \in Requests, NEW gone \in SUBSET Payments,
             LedgerStage(p, o, t, b, gone)
      PROVE  LedgerTypeOK'
  BY <1>3 DEF LedgerStage, Delivery, NoDelivery
<1>4. CASE LedgerTick
  BY <1>4 DEF LedgerTick
<1>5. CASE UNCHANGED ledgerVars
  BY <1>5 DEF ledgerVars
<1>6. QED
  BY <1>1, <1>2, <1>3, <1>4, <1>5 DEF LedgerNext

\* What recording an outcome does to the rows.
LEMMA FinishRows ==
    ASSUME LedgerTypeOK, NEW p \in Payments, NEW o, NEW st, NEW tx,
           LedgerFinish(p, o, st, tx)
    PROVE  /\ receipts[p].owner = o /\ receipts[p].status # "absent"
           /\ \A q \in Payments : /\ receipts'[q].owner = receipts[q].owner
                                  /\ receipts'[q].expires = receipts[q].expires
                                  /\ q # p => receipts'[q] = receipts[q]
           /\ receipts[p].status # "pending" => receipts'[p] = receipts[p]
           /\ receipts[p].status = "pending" =>
                /\ receipts'[p].status = st
                /\ receipts'[p].tx = IF tx = NoTx THEN receipts[p].tx ELSE tx
<1>1. CASE receipts[p].status # "pending"
  BY <1>1 DEF LedgerFinish, FinishAllowed
<1>2. CASE receipts[p].status = "pending"
  <2> DEFINE row == [receipts[p] EXCEPT !.status = st,
                                        !.tx = IF tx = NoTx THEN @ ELSE tx]
  <2>1. receipts' = [receipts EXCEPT ![p] = row]
    BY <1>2 DEF LedgerFinish
  <2>2. row.status = st /\ row.owner = receipts[p].owner /\ row.expires = receipts[p].expires
        /\ row.tx = IF tx = NoTx THEN receipts[p].tx ELSE tx
    BY DEF LedgerTypeOK, Receipt
  <2> HIDE DEF row
  <2>3. QED
    BY <1>2, <2>1, <2>2 DEF LedgerFinish, FinishAllowed, LedgerTypeOK
<1>3. QED
  BY <1>1, <1>2

\* Every row that the procedures write satisfies the table's constraints.
THEOREM LedgerTypes == LedgerSpec => []LedgerTypeOK
BY LedgerInitTypes, LedgerStepTypes, PTL DEF LedgerSpec

-------------------------------------------------------------------------------
\* The three claims a single call makes about the rows of one payment.
RowStep(p) ==
    /\ receipts[p].status \in FinalStatus =>
         receipts'[p] = receipts[p] \/ receipts[p].expires < now
    /\ receipts[p].tx # NoTx =>
         \/ /\ receipts'[p].tx = receipts[p].tx
            /\ receipts'[p].status \in {"pending", "settled"}
         \/ receipts[p].expires < now
    /\ receipts[p].status = "settled" =>
         \/ deliveries'[p] = deliveries[p]
         \/ deliveries'[p] = NoDelivery
              /\ (deliveries[p].expires < now \/ receipts[p].expires < now)

LEMMA ClaimRowStep ==
    ASSUME LedgerTypeOK, NEW p \in Payments, NEW o \in Requests,
           NEW gone \in SUBSET Payments, LedgerClaim(p, o, gone), NEW q \in Payments
    PROVE  RowStep(q)
<1>1. CASE q \in gone
  BY <1>1 DEF RowStep, LedgerClaim, ExpiredReceipts, ClaimGranted, FinalStatus,
              LedgerTypeOK, RowOK, Absent
<1>2. CASE q \notin gone
  <2>1. deliveries'[q] = deliveries[q]
    BY <1>2 DEF LedgerClaim
  <2>2. receipts[q].status # "absent" => receipts'[q] = receipts[q]
    BY <1>2 DEF LedgerClaim, ClaimGranted
  <2>3. receipts[q].tx # NoTx => receipts[q].status \in {"pending", "settled"}
    BY DEF LedgerTypeOK, RowOK
  <2>4. QED
    BY <2>1, <2>2, <2>3 DEF RowStep, FinalStatus
<1>3. QED
  BY <1>1, <1>2

LEMMA FinishRowStep ==
    ASSUME LedgerTypeOK, NEW p \in Payments, NEW o \in Requests,
           NEW st \in {"pending"} \cup FinalStatus, NEW tx \in Txs \cup {NoTx},
           WellFormedOutcome(st, tx), LedgerFinish(p, o, st, tx), NEW q \in Payments
    PROVE  RowStep(q)
<1>1. deliveries' = deliveries
  BY DEF LedgerFinish
<1>2. receipts[q].tx # NoTx => receipts[q].status \in {"pending", "settled"}
  BY DEF LedgerTypeOK, RowOK
<1>3. CASE receipts[p].status # "pending" \/ q # p
  <2>1. receipts'[q] = receipts[q]
    BY <1>3 DEF LedgerFinish, LedgerTypeOK
  <2>2. QED
    BY <1>1, <1>2, <2>1 DEF RowStep
<1>4. CASE receipts[p].status = "pending" /\ q = p
  <2>1. /\ receipts'[q].status = st
        /\ receipts'[q].tx = IF tx = NoTx THEN receipts[q].tx ELSE tx
    BY <1>4 DEF LedgerFinish, LedgerTypeOK, Receipt
  <2>2. receipts[q].tx # NoTx => st \in {"pending", "settled"} /\ tx \in {NoTx, receipts[q].tx}
    BY <1>4 DEF LedgerFinish, FinishAllowed, FinalStatus, Uncharged
  <2>3. QED
    BY <1>1, <1>4, <2>1, <2>2 DEF RowStep, FinalStatus
<1>5. QED
  BY <1>3, <1>4

LEMMA StageRowStep ==
    ASSUME LedgerTypeOK, NEW p \in Payments, NEW o \in Requests, NEW t \in Tokens,
           NEW b \in Requests, NEW gone \in SUBSET Payments,
           LedgerStage(p, o, t, b, gone), NEW q \in Payments
    PROVE  RowStep(q)
<1>1. receipts' = receipts
  BY DEF LedgerStage
<1>2. receipts[q].tx # NoTx => receipts[q].status \in {"pending", "settled"}
  BY DEF LedgerTypeOK, RowOK
<1>3. receipts[q].status = "settled" =>
        \/ deliveries'[q] = deliveries[q]
        \/ deliveries'[q] = NoDelivery /\ deliveries[q].expires < now
  BY DEF LedgerStage, StageAllowed, ExpiredDeliveries
<1>4. QED
  BY <1>1, <1>2, <1>3 DEF RowStep

LEMMA EveryRowStep ==
    ASSUME LedgerTypeOK, [LedgerNext]_ledgerVars
    PROVE  \A p \in Payments : RowStep(p)
<1> SUFFICES ASSUME NEW p \in Payments PROVE RowStep(p)
  OBVIOUS
<1>1. receipts' = receipts /\ deliveries' = deliveries => RowStep(p)
  BY DEF RowStep, LedgerTypeOK, RowOK
<1>2. LedgerTick \/ UNCHANGED ledgerVars => RowStep(p)
  BY <1>1 DEF LedgerTick, ledgerVars
<1>3. QED
  BY <1>2, ClaimRowStep, FinishRowStep, StageRowStep DEF LedgerNext

\* A final outcome never changes while its receipt is retained.
THEOREM OutcomesAreImmutable == LedgerSpec => OutcomeImmutable
<1>1. LedgerTypeOK /\ [LedgerNext]_ledgerVars =>
        [\A p \in Payments :
           receipts[p].status \in FinalStatus =>
             \/ receipts'[p] = receipts[p]
             \/ receipts[p].expires < now]_ledgerVars
  BY EveryRowStep DEF RowStep
<1>2. QED
  BY <1>1, LedgerTypes, PTL DEF LedgerSpec, OutcomeImmutable

\* A recorded transaction is kept, and its receipt never called failed.
THEOREM TransactionsAreKept == LedgerSpec => TransactionKept
<1>1. LedgerTypeOK /\ [LedgerNext]_ledgerVars =>
        [\A p \in Payments :
           receipts[p].tx # NoTx =>
             \/ /\ receipts'[p].tx = receipts[p].tx
                /\ receipts'[p].status \in {"pending", "settled"}
             \/ receipts[p].expires < now]_ledgerVars
  BY EveryRowStep DEF RowStep
<1>2. QED
  BY <1>1, LedgerTypes, PTL DEF LedgerSpec, TransactionKept

\* The bytes behind a settled receipt are never replaced or added later.
THEOREM SettledBytesAreFrozen == LedgerSpec => SettledBytesFrozen
<1>1. LedgerTypeOK /\ [LedgerNext]_ledgerVars =>
        [\A p \in Payments :
           receipts[p].status = "settled" =>
             \/ deliveries'[p] = deliveries[p]
             \/ deliveries'[p] = NoDelivery
                  /\ (deliveries[p].expires < now \/ receipts[p].expires < now)]_ledgerVars
  BY EveryRowStep DEF RowStep
<1>2. QED
  BY <1>1, LedgerTypes, PTL DEF LedgerSpec, SettledBytesFrozen

-------------------------------------------------------------------------------
\* A token opens one purchase, and no delivery outlives its receipt.
THEOREM TokensOpenOnePurchase == LedgerSpec => []OnePurchasePerToken
<1> DEFINE TokenRows == \A p \in Payments :
               deliveries[p] # NoDelivery => deliveries[p].token # NoToken
           Inv == LedgerTypeOK /\ OnePurchasePerToken /\ TokenRows
<1> USE LedgerAssumption
<1>1. LedgerInit => OnePurchasePerToken /\ TokenRows
  BY DEF LedgerInit, OnePurchasePerToken
<1>2. Inv /\ [LedgerNext]_ledgerVars => (OnePurchasePerToken /\ TokenRows)'
  <2> SUFFICES ASSUME Inv, [LedgerNext]_ledgerVars
               PROVE  (OnePurchasePerToken /\ TokenRows)'
    OBVIOUS
  <2>1. ASSUME NEW p \in Payments, NEW o \in Requests, NEW gone \in SUBSET Payments,
               LedgerClaim(p, o, gone)
        PROVE  (OnePurchasePerToken /\ TokenRows)'
    BY <2>1 DEF LedgerClaim, ClaimGranted, OnePurchasePerToken, Absent, NoDelivery
  <2>2. ASSUME NEW p \in Payments, NEW o \in Requests,
               NEW st \in {"pending"} \cup FinalStatus, NEW tx \in Txs \cup {NoTx},
               LedgerFinish(p, o, st, tx)
        PROVE  (OnePurchasePerToken /\ TokenRows)'
    <3>1. \A q \in Payments : receipts[q].status # "absent" => receipts'[q].status # "absent"
      BY <2>2 DEF LedgerFinish, LedgerTypeOK, Receipt, FinalStatus
    <3>2. QED
      BY <2>2, <3>1 DEF LedgerFinish, OnePurchasePerToken
  <2>3. ASSUME NEW p \in Payments, NEW o \in Requests, NEW t \in Tokens,
               NEW b \in Requests, NEW gone \in SUBSET Payments,
               LedgerStage(p, o, t, b, gone)
        PROVE  (OnePurchasePerToken /\ TokenRows)'
    BY <2>3 DEF LedgerStage, StageAllowed, StageInserts, OnePurchasePerToken, NoDelivery
  <2>4. CASE LedgerTick
    BY <2>4 DEF LedgerTick, OnePurchasePerToken
  <2>5. CASE UNCHANGED ledgerVars
    BY <2>5 DEF ledgerVars, OnePurchasePerToken
  <2>6. QED
    BY <2>1, <2>2, <2>3, <2>4, <2>5 DEF LedgerNext
<1>3. QED
  BY <1>1, <1>2, LedgerTypes, PTL DEF LedgerSpec
===============================================================================
