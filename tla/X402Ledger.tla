------------------------------ MODULE X402Ledger ------------------------------
(***************************************************************************)
(* The payment ledger of the x402 paid routes: the two tables              *)
(* x402_receipts and x402_deliveries and the four stored procedures that   *)
(* touch them.  Each procedure runs in one database transaction, so it is  *)
(* one step; a procedure that raises leaves the tables as they were.       *)
(*                                                                         *)
(* Time is counted in abstract units; MaxNow bounds it for model checking. *)
(***************************************************************************)
EXTENDS Naturals, FiniteSets

CONSTANTS
    Payments,      \* signed payment messages (the primary key payment_hash)
    Requests,      \* request ids: a receipt's owner, and the bytes it prepared
    Tokens,        \* recovery capabilities (recovery_hash)
    Txs,           \* transaction identifiers on the chain
    NoRequest, NoToken, NoTx,
    Retention,     \* life of a receipt, from its claim
    DeliveryLife,  \* life of a staged delivery, from its staging
    MaxNow

ASSUME LedgerAssumption ==
    /\ NoRequest \notin Requests
    /\ NoToken \notin Tokens
    /\ NoTx \notin Txs
    /\ Retention \in Nat /\ DeliveryLife \in Nat /\ MaxNow \in Nat

VARIABLES now, receipts, deliveries

ledgerVars == <<now, receipts, deliveries>>

FinalStatus == {"settled", "failed", "handler_failed"}
Uncharged == {"failed", "handler_failed"}

Receipt == [status: {"absent", "pending"} \cup FinalStatus,
            owner: Requests \cup {NoRequest},
            tx: Txs \cup {NoTx},
            expires: Nat]
Absent == [status |-> "absent", owner |-> NoRequest, tx |-> NoTx, expires |-> 0]

Delivery == [token: Tokens \cup {NoToken},
             body: Requests \cup {NoRequest},
             expires: Nat]
NoDelivery == [token |-> NoToken, body |-> NoRequest, expires |-> 0]

\* The CHECK constraints of the receipts table.
RowOK(row) ==
    /\ row.status = "absent" => row = Absent
    /\ row.status # "absent" => row.owner \in Requests
    /\ row.status = "settled" => row.tx # NoTx
    /\ row.tx # NoTx => row.status \in {"pending", "settled"}

\* The tables hold rows of their types, and no sequence of calls brings a row
\* to the point where a CHECK constraint would have to reject it.
LedgerTypeOK ==
    /\ now \in Nat
    /\ receipts \in [Payments -> Receipt]
    /\ \A p \in Payments : RowOK(receipts[p])
    /\ deliveries \in [Payments -> Delivery]

LedgerInit ==
    /\ now = 0
    /\ receipts = [p \in Payments |-> Absent]
    /\ deliveries = [p \in Payments |-> NoDelivery]

-------------------------------------------------------------------------------
(* edgar_x402_claim: a bounded cleanup of expired receipts (limit 200, skip  *)
(* locked: any subset of them), whose deliveries go with them by the cascade *)
(* of the foreign key, then an insert that yields to a row already there.    *)

ExpiredReceipts ==
    {p \in Payments : receipts[p].status # "absent" /\ receipts[p].expires < now}

\* Mutant: a claim that is still pending is granted again.
ClaimRegranted(p, gone) == receipts[p].status \in {"absent", "pending"} \/ p \in gone

ClaimGranted(p, gone) == receipts[p].status = "absent" \/ p \in gone

LedgerClaim(p, o, gone) ==
    /\ gone \subseteq ExpiredReceipts
    /\ receipts' =
         [q \in Payments |->
            IF q = p /\ ClaimGranted(p, gone)
              THEN [status |-> "pending", owner |-> o, tx |-> NoTx,
                    expires |-> now + Retention]
              ELSE IF q \in gone THEN Absent ELSE receipts[q]]
    /\ deliveries' =
         [q \in Payments |-> IF q \in gone THEN NoDelivery ELSE deliveries[q]]
    /\ now' = now

-------------------------------------------------------------------------------
(* edgar_x402_finish: the owner records an outcome.  A receipt that has a    *)
(* transaction keeps it and cannot be called failed; a finished receipt only *)
(* answers a repetition of its own outcome.                                  *)

WellFormedOutcome(st, tx) ==
    /\ st \in {"pending"} \cup FinalStatus
    /\ tx \in Txs \cup {NoTx}
    /\ st = "settled" => tx # NoTx
    /\ st \in Uncharged => tx = NoTx

\* Mutant: a receipt with a transaction may be called failed.
FinishAllowedTxForgotten(p, o, st, tx) ==
    /\ receipts[p].status # "absent" /\ receipts[p].owner = o
    /\ receipts[p].status # "pending" => st = receipts[p].status

FinishAllowed(p, o, st, tx) ==
    LET row == receipts[p] IN
    /\ row.status # "absent"
    /\ row.owner = o
    /\ row.tx # NoTx => st \notin Uncharged /\ tx \in {NoTx, row.tx}
    /\ row.status # "pending" => st = row.status

\* Mutants: a final outcome is overwritten; a call without a transaction
\* erases the one on record.
LedgerFinishAgain(p, o, st, tx) ==
    /\ receipts[p].status # "absent" /\ receipts[p].owner = o
    /\ receipts' = [receipts EXCEPT ![p].status = st]
    /\ UNCHANGED <<now, deliveries>>
LedgerFinishErasing(p, o, st, tx) ==
    /\ FinishAllowed(p, o, st, tx)
    /\ receipts' = [receipts EXCEPT ![p].status = st, ![p].tx = tx]
    /\ UNCHANGED <<now, deliveries>>

LedgerFinish(p, o, st, tx) ==
    /\ FinishAllowed(p, o, st, tx)
    /\ receipts' =
         IF receipts[p].status # "pending" THEN receipts
         ELSE [receipts EXCEPT ![p].status = st,
                               ![p].tx = IF tx = NoTx THEN @ ELSE tx]
    /\ UNCHANGED <<now, deliveries>>

-------------------------------------------------------------------------------
(* edgar_x402_stage_delivery: only the owner of a receipt that is pending    *)
(* and without a transaction; expired deliveries are cleaned up; an existing *)
(* row, or one of another payment with the same token, must already hold     *)
(* exactly these bytes, else the procedure raises.                           *)

ExpiredDeliveries ==
    {p \in Payments : deliveries[p] # NoDelivery /\ deliveries[p].expires < now}

\* Mutant: the token's uniqueness is not asked for.
StageInsertsAnyToken(p, t, gone) == deliveries[p] = NoDelivery \/ p \in gone

StageInserts(p, t, gone) ==
    /\ deliveries[p] = NoDelivery \/ p \in gone
    /\ \A q \in Payments : deliveries[q].token = t => q \in gone

\* Mutant: whatever the status of the receipt.
StageAllowedLate(p, o, t, body, gone) ==
    /\ receipts[p].owner = o
    /\ gone \subseteq ExpiredDeliveries
    /\ StageInserts(p, t, gone) \/ deliveries[p].token = t

StageAllowed(p, o, t, body, gone) ==
    /\ receipts[p].status = "pending"
    /\ receipts[p].owner = o
    /\ receipts[p].tx = NoTx
    /\ gone \subseteq ExpiredDeliveries
    /\ \/ StageInserts(p, t, gone)
       \/ /\ p \notin gone
          /\ deliveries[p].token = t
          /\ deliveries[p].body = body

LedgerStage(p, o, t, body, gone) ==
    /\ StageAllowed(p, o, t, body, gone)
    /\ deliveries' =
         [q \in Payments |->
            IF q = p /\ StageInserts(p, t, gone)
              THEN [token |-> t, body |-> body, expires |-> now + DeliveryLife]
              ELSE IF q \in gone THEN NoDelivery ELSE deliveries[q]]
    /\ UNCHANGED <<now, receipts>>

(* edgar_x402_recover_delivery: the payments an unexpired token finds, and   *)
(* the bytes it discloses, which a receipt that is not settled withholds.    *)

Recoverable(t) ==
    {p \in Payments : /\ deliveries[p].token = t
                      /\ deliveries[p].expires > now
                      /\ receipts[p].status # "absent"}
\* Mutant: an unsettled receipt does not withhold them.
DisclosedUnsettled(t) == {deliveries[p].body : p \in Recoverable(t)}
Disclosed(t) ==
    {deliveries[p].body : p \in {q \in Recoverable(t) : receipts[q].status = "settled"}}

LedgerTick == now < MaxNow /\ now' = now + 1 /\ UNCHANGED <<receipts, deliveries>>

-------------------------------------------------------------------------------
(* The ledger on its own: any caller, holding any request id, makes any      *)
(* well-formed call at any time.                                             *)

LedgerNext ==
    \/ \E p \in Payments, o \in Requests, gone \in SUBSET Payments :
         LedgerClaim(p, o, gone)
    \/ \E p \in Payments, o \in Requests, st \in {"pending"} \cup FinalStatus,
          tx \in Txs \cup {NoTx} :
         WellFormedOutcome(st, tx) /\ LedgerFinish(p, o, st, tx)
    \/ \E p \in Payments, o \in Requests, t \in Tokens, b \in Requests,
          gone \in SUBSET Payments :
         LedgerStage(p, o, t, b, gone)
    \/ LedgerTick

LedgerSpec == LedgerInit /\ [][LedgerNext]_ledgerVars

-------------------------------------------------------------------------------
(* Properties of the ledger, whoever calls it.                               *)

\* A receipt whose outcome is final keeps its status, owner and transaction
\* until it has outlived its retention, whatever late, repeated or
\* contradictory calls arrive (edgar_x402_finish, edgar_x402_claim).
OutcomeImmutable ==
    [][\A p \in Payments :
         receipts[p].status \in FinalStatus =>
           \/ receipts'[p] = receipts[p]
           \/ receipts[p].expires < now]_ledgerVars

\* A recorded transaction is never replaced or forgotten and its receipt is
\* never called failed: a payment that may have been charged stays on record
\* as pending or settled (edgar_x402_finish lines 137-140).
TransactionKept ==
    [][\A p \in Payments :
         receipts[p].tx # NoTx =>
           \/ /\ receipts'[p].tx = receipts[p].tx
              /\ receipts'[p].status \in {"pending", "settled"}
           \/ receipts[p].expires < now]_ledgerVars

\* What a token discloses is fixed once its purchase is settled: no later call
\* can swap the bytes behind a settled receipt or attach bytes to it
\* (edgar_x402_stage_delivery refuses a receipt that is not pending).
SettledBytesFrozen ==
    [][\A p \in Payments :
         receipts[p].status = "settled" =>
           \/ deliveries'[p] = deliveries[p]
           \/ deliveries'[p] = NoDelivery
                /\ (deliveries[p].expires < now \/ receipts[p].expires < now)]_ledgerVars

\* A token opens one purchase at most, and a delivery never outlives the
\* receipt that decides whether it may be disclosed (the unique constraint on
\* recovery_hash and the cascade of the foreign key).
OnePurchasePerToken ==
    \A p, q \in Payments :
      deliveries[p] # NoDelivery =>
        /\ receipts[p].status # "absent"
        /\ deliveries[p].token = deliveries[q].token => p = q
===============================================================================
