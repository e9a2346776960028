----------------------------- MODULE WrapRequest -----------------------------
(***************************************************************************)
(* Wrap requests and native deposits of the Kasane gateway canister        *)
(* (crates/ic-evm-gateway/src/lib.rs).  For a wrap, a caller pays a fee,   *)
(* the worker pulls the tokens with icrc2_transfer_from, reads the token's *)
(* decimals and submits an EVM transaction that mints the wrapped token;   *)
(* the receipt settles the request, and a failed mint can be refunded with *)
(* icrc1_transfer.  A native deposit pays its fee, pulls and credits the   *)
(* EVM balance within its own submission.  Its record lives in the same    *)
(* table, marked by gas_limit = 0, and the repair hands one that seems     *)
(* stuck to the wrap worker.                                               *)
(*                                                                         *)
(* An action is the code between two awaits.  Submissions, worker runs and *)
(* refunds wait in slots; an upgrade loses what waits there while calls    *)
(* already sent still reach the ledger.  The EVM is seen through the nonce *)
(* of the canister's own address, from which every mint is sent, and the   *)
(* one transaction that can be pending at that nonce.                      *)
(***************************************************************************)
EXTENDS Integers, Sequences, FiniteSets

CONSTANTS
    Req,            \* request ids
    Kinds,          \* requests that users make: "wrap", "deposit" or both
    Payload,        \* what a mint transaction carries of its request: asset,
                    \* amount, recipient and gas limit
    PayloadOf,      \* the payload of each request, not necessarily its own
    Prices,         \* effective gas prices a mint may be submitted at
    Slot,           \* bound: continuations waiting at a time
    NoCall,         \* a slot without one
    NoMint,         \* absent mint_tx_id
    Credit,         \* mint_tx_id of a credited deposit: its own request id
    StaleAfter,     \* STALE_OPERATION_NANOS
    DedupWindow,    \* external: how long the ledger remembers a transfer
    LateReplies,    \* may a call stay unanswered for longer than StaleAfter?
    MaxTime,        \* bound: clock
    MaxNonce,       \* bound: nonces of the canister's EVM address
    MaxUpgrades     \* bound: canister upgrades

None == -1
Phases == {"Fee", "Pull", "PullOk", "PullErr", "Metadata",
           "DepositPull", "DepositPullOk", "DepositPullErr",
           "Refund", "RefundOk", "RefundErr", "LostPull", "LostRefund"}
Mint == [payload : Payload, nonce : 0..MaxNonce, price : Prices]
Call == [req : Req, phase : Phases, stamp : 0..MaxTime,
         nonce : 0..MaxNonce \cup {None}]

ASSUME WrapAssumption ==
    /\ IsFiniteSet(Req)
    /\ PayloadOf \in [Req -> Payload]
    /\ Prices \subseteq Nat
    /\ {StaleAfter, DedupWindow, MaxTime, MaxNonce, MaxUpgrades} \subseteq Nat
    /\ MaxTime > 0 /\ StaleAfter > 0
    /\ LateReplies \in BOOLEAN
    /\ Kinds \subseteq {"wrap", "deposit"}
    /\ NoMint \notin Mint
    /\ Credit \notin Mint \cup {NoMint}
    /\ NoCall \notin Call

VARIABLES
    req,        \* wrap_requests: the fields that later steps depend on
    pending,    \* wrap_pending_submissions
    queue,      \* wrap_queue between the meta's head and tail
    scheduled,  \* WRAP_WORKER_SCHEDULED: the worker's timer is armed
    call,       \* what waits for a ledger's answer
    ledger,     \* external: token transfers executed
    evm_nonce,  \* expected nonce of the canister's EVM address
    pool,       \* the mint transaction pending at that nonce
    seen,       \* mint transactions the chain knows
    receipt,    \* receipts of the mints that were executed
    credited,   \* native_credit_records: deposits added to an EVM balance
    now, upgrades

evm == <<evm_nonce, pool, seen, receipt, credited>>
vars == <<req, pending, queue, scheduled, call, ledger, evm, now, upgrades>>

Statuses == {"None", "Queued", "Running", "Succeeded", "Failed"}
Transfer == [kind : {"Pull", "Refund"}, req : Req, stamp : 1..MaxTime]
WrapStoredRequest ==
    [status : Statuses,
     deposit : BOOLEAN,             \* gas_limit = 0
     fee : BOOLEAN,                 \* fee_ledger_tx_id is present
     created_at : 0..MaxTime,       \* pull_created_at_time
     pulled : BOOLEAN,              \* pull_ledger_tx_id is present
     mint : Mint \cup {NoMint, Credit},    \* mint_tx_id
     nonce : 0..MaxNonce \cup {None},
     submit : {"NotSubmitted", "Submitting", "Submitted"},
     recoverable : BOOLEAN,         \* mint_failed_recoverable
     withdrawing : BOOLEAN,         \* withdraw_in_progress
     withdraw_at : 0..MaxTime,      \* withdraw_created_at_time
     withdrawn : BOOLEAN,
     updated_at : 0..MaxTime]

Members(q) == {q[i] : i \in 1..Len(q)}

TypeOK ==
    /\ req \in [Req -> WrapStoredRequest]
    /\ pending \subseteq Req
    /\ queue \in Seq(Req)
    /\ scheduled \in BOOLEAN
    /\ call \in [Slot -> Call \cup {NoCall}]
    /\ ledger \subseteq Transfer
    /\ evm_nonce \in 0..MaxNonce
    /\ pool \in Mint \cup {NoMint}
    /\ seen \subseteq Mint
    /\ receipt \in [seen -> {"none", "ok", "reverted"}]
    /\ credited \subseteq Req
    /\ now \in 1..MaxTime
    /\ upgrades \in 0..MaxUpgrades

\* No record, and the record ensure_wrap_request_before_fee starts from.
Blank == [status |-> "None", deposit |-> FALSE, fee |-> FALSE, created_at |-> 0, pulled |-> FALSE,
          mint |-> NoMint, nonce |-> None, submit |-> "NotSubmitted",
          recoverable |-> FALSE, withdrawing |-> FALSE, withdraw_at |-> 0,
          withdrawn |-> FALSE, updated_at |-> 0]

Init ==
    /\ req = [r \in Req |-> Blank]
    /\ pending = {}
    /\ queue = <<>>
    /\ scheduled = FALSE
    /\ call = [s \in Slot |-> NoCall]
    /\ ledger = {}
    /\ evm_nonce = 0
    /\ pool = NoMint
    /\ seen = {}
    /\ receipt = [m \in {} |-> "none"]
    /\ credited = {}
    /\ now = 1
    /\ upgrades = 0

-----------------------------------------------------------------------------
(***************************************************************************)
(* Helpers of the handlers.                                                *)
(***************************************************************************)
Enqueued(q, r) == IF r \in Members(q) THEN q ELSE Append(q, r)

Waiting(s, r, phase, stamp) ==
    [call EXCEPT ![s] = [req |-> r, phase |-> phase, stamp |-> stamp,
                         nonce |-> req[r].nonce]]

Released(s) == [call EXCEPT ![s] = NoCall]
AtPhase(s, phase) == call[s] # NoCall /\ call[s].phase = phase
Live(s) == call[s] # NoCall /\ call[s].phase \notin {"LostPull", "LostRefund"}

\* The pull keeps the time stored when the request was created.
PullStamp(r) == req[r].created_at

\* Mutant: each refund is stamped with the present time.
FreshRefundStamp(r) == now
\* recover_failed_wrap stores the time of the first refund attempt.
RefundStamp(r) == IF req[r].withdraw_at = 0 THEN now ELSE req[r].withdraw_at

\* Mutant: every failure can be refunded.
RecoverableAnyFailure(r) == req[r].status = "Failed"
\* Mutant: a deposit can be refunded like a wrap.
RecoverableDeposits(r) ==
    /\ req[r].status = "Failed"
    /\ req[r].recoverable
    /\ req[r].pulled
\* recover_failed_wrap: what a refund requires.
RecoverAllowed(r) ==
    /\ ~req[r].deposit
    /\ req[r].status = "Failed"
    /\ req[r].recoverable
    /\ req[r].pulled

\* Mutant: a request whose tokens were pulled is not started again.
RestartableUnpulled(q) == q.mint = NoMint /\ ~q.pulled
\* Repair and upgrade start a request again only without a submitted mint.
Restartable(q) == q.mint = NoMint /\ q.submit # "Submitted"

\* Mutant: the repair leaves deposits with pulled tokens alone.
RepairableUnpulled(q) == Restartable(q) /\ ~(q.deposit /\ q.pulled)
\* repair_stale_operations does not ask whether the request is a deposit.
Repairable(q) == Restartable(q)

\* The ids pushed again, in the order of their keys (any order here).
Orders(S) ==
    {q \in [1..Cardinality(S) -> S] :
        \A r \in S : \E i \in 1..Cardinality(S) : q[i] = r}

\* Mutant: nothing is pushed.
NothingRequeued(S) == {}
\* Only ids that are not in the queue are pushed.
ToRequeue(S) == S \ Members(queue)

\* Mutant: only the submission arms the timer.
NeverRearmed(q) == scheduled
\* A queue that is not empty arms the timer, unless it is armed.
Rearmed(q) == scheduled \/ q # <<>>

-----------------------------------------------------------------------------
(***************************************************************************)
(* submit_wrap_request: reserve, store the request, collect the fee.       *)
(***************************************************************************)

\* A request with a collected fee is answered from the record, and one with
\* a reserved submission is refused; neither changes anything.
Submit(s, r) ==
    /\ call[s] = NoCall
    /\ "wrap" \in Kinds /\ ~req[r].deposit
    /\ ~req[r].fee
    /\ r \notin pending
    /\ pending' = pending \cup {r}
    /\ req' = IF req[r].status # "None" THEN req
              ELSE [req EXCEPT ![r].status = "Queued",
                               ![r].created_at = now,
                               ![r].updated_at = now]
    /\ call' = Waiting(s, r, "Fee", 0)
    /\ UNCHANGED <<queue, scheduled, ledger, evm, now, upgrades>>

FeeCollected(s) ==
    LET r == call[s].req IN
    /\ AtPhase(s, "Fee")
    /\ ~req[r].deposit
    /\ req' = [req EXCEPT ![r].fee = TRUE, ![r].updated_at = now]
    /\ queue' = Enqueued(queue, r)
    /\ pending' = pending \ {r}
    /\ scheduled' = TRUE
    /\ call' = Released(s)
    /\ UNCHANGED <<ledger, evm, now, upgrades>>

\* The same for both kinds of request.
FeeRefused(s) ==
    LET r == call[s].req IN
    /\ AtPhase(s, "Fee")
    /\ req' = [req EXCEPT ![r].status = "Failed", ![r].recoverable = FALSE,
                          ![r].updated_at = now]
    /\ pending' = pending \ {r}
    /\ call' = Released(s)
    /\ UNCHANGED <<queue, scheduled, ledger, evm, now, upgrades>>

-----------------------------------------------------------------------------
(***************************************************************************)
(* wrap_worker_tick and execute_wrap_request.                              *)
(***************************************************************************)

\* The worker takes a request, whatever its status, and goes on where its
\* record says: pull, or mint.  The timer is armed only when the queue is not
\* empty and each firing disarms it, so a tick always finds a request.
WorkerTake(s) ==
    LET r == Head(queue) IN
    /\ scheduled
    /\ queue # <<>>
    /\ call[s] = NoCall
    /\ req[r].mint = NoMint
    /\ req' = [req EXCEPT ![r].status = "Running", ![r].updated_at = now]
    /\ call' = IF req[r].pulled THEN Waiting(s, r, "Metadata", 0)
               ELSE Waiting(s, r, "Pull", PullStamp(r))
    /\ queue' = Tail(queue)
    /\ scheduled' = FALSE
    /\ UNCHANGED <<pending, ledger, evm, now, upgrades>>

\* The record has a mint already: the worker ends without an await.
WorkerTakeMinted ==
    LET r == Head(queue) IN
    /\ scheduled
    /\ queue # <<>>
    /\ req[r].mint # NoMint
    /\ req' = [req EXCEPT ![r].status = "Running", ![r].updated_at = now,
                          ![r].recoverable = FALSE]
    /\ queue' = Tail(queue)
    /\ scheduled' = (Tail(queue) # <<>>)
    /\ UNCHANGED <<pending, call, ledger, evm, now, upgrades>>

\* record_wrap_pull_success; the decimals are read next.
PullDone(s) ==
    /\ AtPhase(s, "PullOk")
    /\ req' = [req EXCEPT ![call[s].req].pulled = TRUE,
                          ![call[s].req].updated_at = now]
    /\ call' = [call EXCEPT ![s].phase = "Metadata"]
    /\ UNCHANGED <<pending, queue, scheduled, ledger, evm, now, upgrades>>

\* apply_wrap_execution_outcome and the end of the tick.
EndOfRun(s) ==
    /\ call' = Released(s)
    /\ scheduled' = Rearmed(queue)
    /\ UNCHANGED <<pending, queue, ledger, now, upgrades>>

\* wrap_failed without a refund: the pull was refused.
PullFailed(s) ==
    /\ AtPhase(s, "PullErr")
    /\ req' = [req EXCEPT ![call[s].req].status = "Failed",
                          ![call[s].req].recoverable = FALSE,
                          ![call[s].req].updated_at = now]
    /\ EndOfRun(s)
    /\ UNCHANGED evm

\* wrap_failed with a refund: the decimals could not be read.
MetadataFailed(s) ==
    /\ AtPhase(s, "Metadata")
    /\ req' = [req EXCEPT ![call[s].req].status = "Failed",
                          ![call[s].req].recoverable = TRUE,
                          ![call[s].req].pulled = TRUE,
                          ![call[s].req].updated_at = now]
    /\ EndOfRun(s)
    /\ UNCHANGED evm

\* The transaction's id is the hash of these fields: requests with the same
\* payload have the same mint at the same nonce and price.
\* The nonce is the one of the copy the worker took, else the expected one.
MintOf(s, price) ==
    [payload |-> PayloadOf[call[s].req], price |-> price,
     nonce |-> IF call[s].nonce = None THEN evm_nonce ELSE call[s].nonce]

\* Mutant: neither the nonce nor the transaction of the mint is kept.
MintForgotten(r, m, submitted) ==
    req' = [req EXCEPT ![r].status = IF submitted THEN "Running" ELSE "Failed",
                       ![r].recoverable = ~submitted,
                       ![r].pulled = TRUE,
                       ![r].updated_at = now]
\* record_wrap_mint_submitting and the outcome that follows at once.
MintRecorded(r, m, submitted) ==
    req' = [req EXCEPT
        ![r].nonce = m.nonce,
        ![r].submit = IF submitted THEN "Submitted" ELSE "Submitting",
        ![r].mint = IF submitted THEN m ELSE @,
        ![r].status = IF submitted THEN "Running" ELSE "Failed",
        ![r].recoverable = ~submitted,
        ![r].pulled = TRUE,
        ![r].updated_at = now]

\* submit_ic_tx takes the mint: the place at the nonce is free or held by a
\* transaction at a lower price, which is dropped.
MintAccepted(s, price) ==
    LET m == MintOf(s, price) IN
    /\ AtPhase(s, "Metadata")
    /\ ~req[call[s].req].deposit
    /\ m \notin seen
    /\ m.nonce = evm_nonce
    /\ pool # NoMint => pool.price < price
    /\ pool' = m
    /\ seen' = seen \cup {m}
    /\ receipt' = [x \in seen \cup {m} |-> IF x = m THEN "none" ELSE receipt[x]]
    /\ MintRecorded(call[s].req, m, TRUE)
    /\ EndOfRun(s)
    /\ UNCHANGED <<evm_nonce, credited>>

\* tx_already_seen for the very same transaction counts as submitted.
MintSeen(s, price) ==
    LET m == MintOf(s, price) IN
    /\ AtPhase(s, "Metadata")
    /\ ~req[call[s].req].deposit
    /\ m \in seen
    /\ MintRecorded(call[s].req, m, TRUE)
    /\ EndOfRun(s)
    /\ UNCHANGED evm

\* The nonce is taken or past, the mempool refuses for reasons of its own, or
\* the transaction is known but its location is no longer kept.  The mint of
\* a deposit has gas limit and price zero and is always refused.
MintRefused(s, price) ==
    LET m == MintOf(s, price) IN
    /\ AtPhase(s, "Metadata")
    /\ MintRecorded(call[s].req, m, FALSE)
    /\ EndOfRun(s)
    /\ UNCHANGED evm

-----------------------------------------------------------------------------
(***************************************************************************)
(* The EVM and the receipts: mining_tick with                              *)
(* settle_submitted_wrap_mint_receipts.                                    *)
(***************************************************************************)

\* Mutant: any receipt counts as success.
SettledByAnyReceipt(rc) ==
    [r \in Req |->
        IF /\ ~req[r].deposit
           /\ req[r].status = "Running"
           /\ req[r].submit = "Submitted"
           /\ req[r].mint \in DOMAIN rc
           /\ rc[req[r].mint] # "none"
        THEN [req[r] EXCEPT !.status = "Succeeded", !.recoverable = FALSE,
                            !.updated_at = now]
        ELSE req[r]]

\* What settling makes of the records, given the receipts rc.
SettledBy(rc) ==
    [r \in Req |->
        IF /\ ~req[r].deposit
           /\ req[r].status = "Running"
           /\ req[r].submit = "Submitted"
           /\ req[r].mint \in DOMAIN rc
           /\ rc[req[r].mint] # "none"
        THEN [req[r] EXCEPT
                !.status = IF rc[req[r].mint] = "ok" THEN "Succeeded" ELSE "Failed",
                !.recoverable = rc[req[r].mint] # "ok",
                !.updated_at = now]
        ELSE req[r]]

MintExecuted(outcome) ==
    /\ pool # NoMint
    /\ evm_nonce < MaxNonce
    /\ receipt' = [receipt EXCEPT ![pool] = outcome]
    /\ evm_nonce' = evm_nonce + 1
    /\ pool' = NoMint
    /\ req' = SettledBy(receipt')
    /\ UNCHANGED <<seen, credited, pending, queue, scheduled, call, ledger,
                   now, upgrades>>

\* The mempool drops the transaction (its price fell below the base fee, or
\* it was evicted): it will never have a receipt.
MintDropped ==
    /\ pool # NoMint
    /\ pool' = NoMint
    /\ UNCHANGED <<evm_nonce, seen, receipt, credited, req, pending, queue, scheduled,
                   call, ledger, now, upgrades>>

-----------------------------------------------------------------------------
(***************************************************************************)
(* recover_failed_wrap: the refund.                                        *)
(***************************************************************************)
Recover(s, r) ==
    /\ call[s] = NoCall
    /\ RecoverAllowed(r)
    /\ ~req[r].withdrawing
    /\ ~req[r].withdrawn
    /\ req' = [req EXCEPT ![r].withdraw_at = RefundStamp(r),
                          ![r].withdrawing = TRUE,
                          ![r].updated_at = now]
    /\ call' = Waiting(s, r, "Refund", RefundStamp(r))
    /\ UNCHANGED <<pending, queue, scheduled, ledger, evm, now, upgrades>>

RefundReply(s) ==
    /\ \E phase \in {"RefundOk", "RefundErr"} :
          /\ AtPhase(s, phase)
          /\ req' = [req EXCEPT
                ![call[s].req].withdrawing = FALSE,
                ![call[s].req].withdrawn = @ \/ phase = "RefundOk",
                ![call[s].req].updated_at = now]
    /\ call' = Released(s)
    /\ UNCHANGED <<pending, queue, scheduled, ledger, evm, now, upgrades>>

-----------------------------------------------------------------------------
(***************************************************************************)
(* submit_native_deposit: fee, pull and credit in one submission, and      *)
(* retry_native_deposit, which repeats the credit.                         *)
(***************************************************************************)

\* What may come of credit_native_deposit: a deposit credited before is
\* answered with success and not credited again.
CreditOutcomes(r) == IF r \in credited THEN {TRUE} ELSE BOOLEAN

\* finalize_native_deposit_credit: the record after the credit.
Finalized(q, ok) ==
    IF ok THEN [q EXCEPT !.status = "Succeeded", !.mint = Credit,
                         !.recoverable = FALSE, !.updated_at = now]
    ELSE [q EXCEPT !.status = "Failed", !.recoverable = TRUE, !.updated_at = now]

\* The end of a submission whose tokens are pulled, given its record q: credit,
\* unless the record says that it was done, and release the reservation.
DepositEnds(r, q) ==
    /\ IF q.mint # NoMint /\ q.status = "Succeeded"
       THEN /\ req' = [req EXCEPT ![r] = q]
            /\ credited' = credited
       ELSE \E ok \in CreditOutcomes(r) :
              /\ req' = [req EXCEPT ![r] = Finalized(q, ok)]
              /\ credited' = IF ok THEN credited \cup {r} ELSE credited
    /\ pending' = pending \ {r}
    /\ UNCHANGED <<queue, scheduled, ledger, evm_nonce, pool, seen, receipt,
                   now, upgrades>>

\* A deposit that Succeeded with a collected fee is answered from its record.
DepositOpen(s, r) ==
    /\ call[s] = NoCall
    /\ "deposit" \in Kinds /\ (req[r].deposit \/ req[r].status = "None")
    /\ ~(req[r].status = "Succeeded" /\ req[r].fee)
    /\ r \notin pending

\* ensure_native_deposit_request_before_fee: a new record is Running at once;
\* the first step that the record lacks comes next.
SubmitDeposit(s, r) ==
    /\ DepositOpen(s, r)
    /\ ~(req[r].fee /\ req[r].pulled)
    /\ pending' = pending \cup {r}
    /\ req' = IF req[r].status # "None" THEN req
              ELSE [req EXCEPT ![r].status = "Running", ![r].deposit = TRUE,
                               ![r].created_at = now, ![r].updated_at = now]
    /\ call' = IF ~req[r].fee THEN Waiting(s, r, "Fee", 0)
               ELSE Waiting(s, r, "DepositPull", PullStamp(r))
    /\ UNCHANGED <<queue, scheduled, ledger, evm, now, upgrades>>

\* A repeated submission with fee and tokens taken goes on to the credit.
ResubmitDeposit(s, r) ==
    /\ DepositOpen(s, r)
    /\ req[r].fee /\ req[r].pulled
    /\ DepositEnds(r, req[r])
    /\ UNCHANGED call

\* record_native_deposit_fee_collected, and on to the pull or the credit.
DepositFeeCollected(s) ==
    LET r == call[s].req
        q == [req[r] EXCEPT !.fee = TRUE, !.updated_at = now]
    IN
    /\ AtPhase(s, "Fee")
    /\ req[r].deposit
    /\ IF q.pulled
       THEN DepositEnds(r, q) /\ call' = Released(s)
       ELSE /\ req' = [req EXCEPT ![r] = q]
            /\ call' = Waiting(s, r, "DepositPull", PullStamp(r))
            /\ UNCHANGED <<pending, queue, scheduled, ledger, evm, now, upgrades>>

\* record_native_deposit_pulled and the credit.
DepositPulled(s) ==
    LET r == call[s].req IN
    /\ AtPhase(s, "DepositPullOk")
    /\ DepositEnds(r, [req[r] EXCEPT !.pulled = TRUE, !.updated_at = now])
    /\ call' = Released(s)

DepositPullFailed(s) ==
    LET r == call[s].req IN
    /\ AtPhase(s, "DepositPullErr")
    /\ req' = [req EXCEPT ![r].status = "Failed", ![r].recoverable = FALSE,
                          ![r].updated_at = now]
    /\ pending' = pending \ {r}
    /\ call' = Released(s)
    /\ UNCHANGED <<queue, scheduled, ledger, evm, now, upgrades>>

\* Mutant: any failed deposit may be credited again.
RetriableAnyFailure(r) == req[r].deposit /\ req[r].status = "Failed"
\* retry_native_deposit: what a repeated credit requires.
RetryAllowed(r) ==
    /\ req[r].deposit
    /\ req[r].recoverable
    /\ req[r].status # "Running"
    /\ req[r].pulled

RetryDeposit(r) ==
    /\ RetryAllowed(r)
    /\ \E ok \in CreditOutcomes(r) :
          /\ req' = [req EXCEPT ![r] =
                [Finalized(req[r], ok) EXCEPT !.updated_at = req[r].updated_at]]
          /\ credited' = IF ok THEN credited \cup {r} ELSE credited
    /\ UNCHANGED <<pending, queue, scheduled, call, ledger, evm_nonce, pool,
                   seen, receipt, now, upgrades>>

-----------------------------------------------------------------------------
(***************************************************************************)
(* The token ledger (external): one transfer per memo, amount and          *)
(* created_at_time; Duplicate inside the window, TooOld outside.           *)
(***************************************************************************)
InFlight(s) == call[s] # NoCall
               /\ call[s].phase \in {"Pull", "DepositPull", "Refund",
                                    "LostPull", "LostRefund"}

KindOf(s) == IF call[s].phase \in {"Refund", "LostRefund"} THEN "Refund" ELSE "Pull"

Answered(s, ok) ==
    call' = [call EXCEPT ![s] =
        CASE @.phase = "Pull" ->
               [@ EXCEPT !.phase = IF ok THEN "PullOk" ELSE "PullErr"]
          [] @.phase = "DepositPull" ->
               [@ EXCEPT !.phase = IF ok THEN "DepositPullOk" ELSE "DepositPullErr"]
          [] @.phase = "Refund" ->
               [@ EXCEPT !.phase = IF ok THEN "RefundOk" ELSE "RefundErr"]
          [] OTHER -> NoCall]

LedgerExecutes(s) ==
    /\ InFlight(s)
    /\ now <= call[s].stamp + DedupWindow
    /\ ledger' = ledger \cup {[kind |-> KindOf(s), req |-> call[s].req,
                               stamp |-> call[s].stamp]}
    /\ Answered(s, TRUE)
    /\ UNCHANGED <<req, pending, queue, scheduled, evm, now, upgrades>>

LedgerRefuses(s) ==
    /\ InFlight(s)
    /\ Answered(s, FALSE)
    /\ UNCHANGED <<req, pending, queue, scheduled, ledger, evm, now, upgrades>>

-----------------------------------------------------------------------------
(***************************************************************************)
(* Repair, upgrade and time.                                               *)
(***************************************************************************)
Stale(q) == q.updated_at <= now - StaleAfter

\* repair_stale_operations after settle_submitted_wrap_mint_receipts: a
\* refund that seems lost may be tried again, a run that seems lost is
\* queued again, be it a wrap or a deposit.
Repair ==
    LET settled == SettledBy(receipt)
        refunds == {r \in Req : settled[r].withdrawing /\ Stale(settled[r])}
        runs == {r \in Req \ refunds : /\ settled[r].status = "Running"
                                       /\ Stale(settled[r])
                                       /\ Repairable(settled[r])}
    IN
    /\ req' = [r \in Req |->
                 CASE r \in refunds -> [settled[r] EXCEPT !.withdrawing = FALSE,
                                                          !.updated_at = now]
                   [] r \in runs -> [settled[r] EXCEPT !.status = "Queued",
                                                       !.updated_at = now]
                   [] OTHER -> settled[r]]
    /\ \E q \in Orders(ToRequeue(runs)) :
          /\ queue' = queue \o q
          /\ scheduled' = Rearmed(queue \o q)
    /\ UNCHANGED <<pending, call, ledger, evm, now, upgrades>>

\* The waiting continuations and the timer are lost.
\* recover_wrap_worker_state_after_upgrade queues every wrap that is Queued,
\* or Running without a submitted mint, and no deposit.
Upgrade(data_plane_enabled) ==
    LET runs == {r \in Req :
                   /\ ~req[r].deposit
                   /\ \/ req[r].status = "Queued"
                      \/ req[r].status = "Running" /\ Restartable(req[r])}
    IN
    /\ upgrades < MaxUpgrades
    /\ upgrades' = upgrades + 1
    /\ call' = [s \in Slot |->
                  IF ~InFlight(s) THEN NoCall
                  ELSE [call[s] EXCEPT !.phase =
                          IF KindOf(s) = "Pull" THEN "LostPull" ELSE "LostRefund"]]
    /\ req' = [r \in Req |-> IF r \in runs THEN [req[r] EXCEPT !.status = "Queued"]
                             ELSE req[r]]
    /\ \E q \in Orders(ToRequeue(runs)) :
          /\ queue' = queue \o q
          /\ scheduled' = (data_plane_enabled /\ queue \o q # <<>>)
    /\ UNCHANGED <<pending, ledger, evm, now>>

\* external: time passes, and unless LateReplies a call is answered before
\* its request counts as stale.
Advance ==
    /\ now < MaxTime
    /\ \/ LateReplies
       \/ \A s \in Slot : Live(s) =>
             now + 1 < req[call[s].req].updated_at + StaleAfter
    /\ now' = now + 1
    /\ UNCHANGED <<req, pending, queue, scheduled, call, ledger, evm, upgrades>>

-----------------------------------------------------------------------------
Next ==
    \/ \E s \in Slot, r \in Req : \/ Submit(s, r)
                                 \/ Recover(s, r)
                                 \/ SubmitDeposit(s, r)
                                 \/ ResubmitDeposit(s, r)
    \/ \E r \in Req : RetryDeposit(r)
    \/ \E s \in Slot : \/ FeeCollected(s)
                       \/ FeeRefused(s)
                       \/ WorkerTake(s)
                       \/ PullDone(s)
                       \/ PullFailed(s)
                       \/ MetadataFailed(s)
                       \/ RefundReply(s)
                       \/ DepositFeeCollected(s)
                       \/ DepositPulled(s)
                       \/ DepositPullFailed(s)
                       \/ LedgerExecutes(s)
                       \/ LedgerRefuses(s)
    \/ \E s \in Slot, price \in Prices :
          MintAccepted(s, price) \/ MintSeen(s, price) \/ MintRefused(s, price)
    \/ WorkerTakeMinted
    \/ \E outcome \in {"ok", "reverted"} : MintExecuted(outcome)
    \/ MintDropped
    \/ Repair
    \/ \E enabled \in BOOLEAN : Upgrade(enabled)
    \/ Advance

Spec == Init /\ [][Next]_vars

\* The timers fire, every inter-canister call is answered, and the cycle
\* observer runs its repair.  A free slot is a bound of the model, so taking
\* a request is strongly fair.  Users, blocks and time are not fair.
Fairness ==
    /\ SF_vars(WorkerTakeMinted \/ \E s \in Slot : WorkerTake(s))
    /\ \A s \in Slot :
          /\ WF_vars(FeeCollected(s) \/ DepositFeeCollected(s) \/ FeeRefused(s))
          /\ WF_vars(DepositPulled(s) \/ DepositPullFailed(s))
          /\ WF_vars(PullDone(s) \/ PullFailed(s))
          /\ WF_vars(MetadataFailed(s) \/ \E price \in Prices :
                MintAccepted(s, price) \/ MintSeen(s, price) \/ MintRefused(s, price))
          /\ WF_vars(RefundReply(s))
          /\ WF_vars(LedgerExecutes(s) \/ LedgerRefuses(s))
    /\ WF_vars(Repair)

FairSpec == Spec /\ Fairness

-----------------------------------------------------------------------------
(***************************************************************************)
(* Properties.                                                             *)
(***************************************************************************)
Minted(p) == {m \in seen : m.payload = p /\ receipt[m] = "ok"}
Mintable(p) == {m \in {pool} \ {NoMint} : m.payload = p}
Transfers(kind, p) == {x \in ledger : x.kind = kind /\ PayloadOf[x.req] = p}

\* The tokens of a request are pulled at most once and refunded at most
\* once, over all attempts, repairs and upgrades: memo and stored time make
\* every attempt the same transfer to the ledger.
TransferredOnce ==
    \A x, y \in ledger : x.kind = y.kind /\ x.req = y.req => x = y

\* The wrapped token is backed: what was minted, what the pending mint may
\* still mint and what was refunded never exceed what was pulled.  For one
\* request: it never mints twice, nor mints and is refunded.
MintsAreBacked ==
    \A p \in Payload :
        Cardinality(Minted(p)) + Cardinality(Mintable(p))
            + Cardinality(Transfers("Refund", p))
        <= Cardinality(Transfers("Pull", p))

\* Tokens leave the canister in a refund only after the same request's came in.
RefundFollowsPull ==
    \A x \in ledger : x.kind = "Refund" =>
        \E y \in ledger : y.kind = "Pull" /\ y.req = x.req

\* Every wrap reported Succeeded has a successful mint of its own, and every
\* deposit reported Succeeded was credited.
SucceededIsMinted ==
    /\ \A p \in Payload :
          Cardinality({r \in Req : /\ PayloadOf[r] = p
                                  /\ ~req[r].deposit
                                  /\ req[r].status = "Succeeded"})
              <= Cardinality(Minted(p))
    /\ \A r \in Req :
          req[r].deposit /\ req[r].status = "Succeeded" => r \in credited

\* Native deposits are backed: an EVM balance is credited only for tokens
\* that were pulled for the same deposit, and what was credited is never
\* refunded, although the worker may run the deposit as if it were a wrap.
CreditsAreBacked ==
    \A r \in credited :
        /\ \E x \in ledger : x.kind = "Pull" /\ x.req = r
        /\ \A x \in ledger : x.kind = "Refund" => x.req # r

\* A deposit whose tokens are known to be pulled and not yet credited can
\* always go on: something waits for it or will take it, its caller may
\* submit again, or retry_native_deposit accepts it.
PulledDepositGoesOn ==
    \A r \in Req : req[r].deposit /\ req[r].pulled /\ r \notin credited =>
        \/ \E s \in Slot : Live(s) /\ call[s].req = r
        \/ r \in Members(queue)
        \/ req[r].status = "Running" /\ Repairable(req[r])
        \/ r \notin pending
        \/ RetryAllowed(r)

\* A Running wrap has a continuation that goes on with it or a submitted
\* mint whose receipt settles it.
RunningIsAttended ==
    \A r \in Req : req[r].status = "Running" /\ ~req[r].deposit =>
        \/ req[r].submit = "Submitted" /\ req[r].mint # NoMint
        \/ \E s \in Slot : Live(s) /\ call[s].req = r

\* What leaves the ledger's account in a refund or enters an EVM balance in a
\* credit was pulled for the same request before.
PaidOutIsPulled == RefundFollowsPull /\ CreditsAreBacked

\* No request stops with its tokens inside and nobody to go on with it.
NothingIsStuck == RunningIsAttended /\ PulledDepositGoesOn

\* Every paid request that is Queued is taken by the worker in the end: it is
\* in the queue, and the timer is armed again also after an upgrade that did
\* not arm it.
QueuedEventuallyTaken ==
    \A r \in Req : req[r].status = "Queued" /\ req[r].fee ~> req[r].status # "Queued"
=============================================================================
