--------------------------- MODULE UnwrapDispatch ---------------------------
(***************************************************************************)
(* The unwrap dispatcher of the Kasane gateway canister                    *)
(* (crates/ic-evm-gateway/src/lib.rs): requests recorded from block logs   *)
(* or sent by the wrap canister are queued, a timer takes one at a time,   *)
(* pays it with icrc1_transfer on the ledger of its asset and records the  *)
(* outcome.  A native withdrawal first asks the ledger for its fee and     *)
(* pays the rest.                                                          *)
(*                                                                         *)
(* A canister message runs without interleaving up to its next await, so   *)
(* an action is the code between two awaits.  The timer's flag is cleared  *)
(* before the first await: several dispatch attempts may be in flight at   *)
(* once, and replies, retries, the repair of stale requests and upgrades   *)
(* meet in any order.                                                      *)
(***************************************************************************)
EXTENDS Integers, Sequences, FiniteSets

CONSTANTS
    Req,            \* request ids (derived from the transaction and log index)
    Native,         \* the requests that carry NATIVE_WITHDRAW_ASSET_MARKER
    Gross,          \* amount of a request
    Fees,           \* fees the native ledger may answer to icrc1_fee
    Slot,           \* bound: dispatch attempts in flight at a time
    NoCall,         \* a slot without an attempt
    StaleAfter,     \* STALE_OPERATION_NANOS
    DedupWindow,    \* external: how long the ledger remembers a transfer
    MaxTime,        \* bound: clock
    MaxQueue,       \* bound: entries of the dispatch queue
    MaxUpgrades     \* bound: canister upgrades

\* A tick waits for the fee, for the transfer, or its reply has arrived.
\* After an upgrade the transfer is still on its way and nobody waits for it.
Phases == {"Fee", "Transfer", "ReplyOk", "ReplyErr", "Orphan"}
Attempt == [req : Req, phase : Phases, amount : 1..Gross, created : 1..MaxTime]

ASSUME UnwrapAssumption ==
    /\ IsFiniteSet(Req)
    /\ Native \subseteq Req
    /\ Gross \in Nat \ {0}
    /\ Fees \subseteq Nat
    /\ {StaleAfter, DedupWindow, MaxTime, MaxQueue, MaxUpgrades} \subseteq Nat
    /\ MaxTime > 0
    /\ NoCall \notin Attempt

VARIABLES
    status,         \* UnwrapDispatchRequest.status, "None" without a record
    created_at,     \* .transfer_created_at_time, 0 while unset
    updated_at,     \* .updated_at
    queue,          \* unwrap_dispatch_queue between the meta's head and tail
    scheduled,      \* UNWRAP_DISPATCH_SCHEDULED: the timer is armed
    call,           \* the attempts in flight: continuations of the tick
    ledger,         \* external: transfers the ledgers executed
    now,            \* ic0.time
    upgrades

vars == <<status, created_at, updated_at, queue, scheduled, call, ledger,
          now, upgrades>>
requests == <<status, created_at, updated_at, queue>>

Statuses == {"None", "Queued", "Dispatching", "Dispatched", "DispatchFailed"}
Settled == {"Dispatched", "DispatchFailed"}

Transfer == [memo : Req, amount : 1..Gross, created : 1..MaxTime]

Members(q) == {q[i] : i \in 1..Len(q)}

TypeOK ==
    /\ status \in [Req -> Statuses]
    /\ created_at \in [Req -> 0..MaxTime]
    /\ updated_at \in [Req -> 0..MaxTime]
    /\ queue \in Seq(Req)
    /\ scheduled \in BOOLEAN
    /\ call \in [Slot -> Attempt \cup {NoCall}]
    /\ ledger \subseteq Transfer
    /\ now \in 1..MaxTime
    /\ upgrades \in 0..MaxUpgrades

Init ==
    /\ status = [r \in Req |-> "None"]
    /\ created_at = [r \in Req |-> 0]
    /\ updated_at = [r \in Req |-> 0]
    /\ queue = <<>>
    /\ scheduled = FALSE
    /\ call = [s \in Slot |-> NoCall]
    /\ ledger = {}
    /\ now = 1
    /\ upgrades = 0

-----------------------------------------------------------------------------
(***************************************************************************)
(* Decisions of the handlers.                                              *)
(***************************************************************************)

\* Mutant: nobody arms the timer again.
NotRearmed(flag, q) == flag
\* schedule_unwrap_dispatch is called when the queue has work and changes
\* nothing when the timer is armed already.
Rearmed(flag, q) == flag \/ q # <<>>

\* Mutant: every attempt takes a new time.
FreshStamp(r) == now
\* The transfer keeps the time of the first attempt for all later ones.
Stamp(r) == IF created_at[r] = 0 THEN now ELSE created_at[r]

\* gross_transfer_receive_amount: something is left after the fee.
Receivable(fee) == Gross > fee

\* Mutant: an error is taken for an earlier payment.
ErrorsTakenForPaid(phase) ==
    IF phase = "ReplyOk" THEN Settled ELSE {"Dispatched"}
\* How a reply settles the request: a ledger error, a rejected call and a
\* reply that does not decode are all DispatchFailed.
Outcomes(phase) ==
    IF phase = "ReplyOk" THEN Settled ELSE {"DispatchFailed"}

\* The ids to push again, in the order of their keys (any order here).
Orders(S) ==
    {q \in [1..Cardinality(S) -> S] :
        \A r \in S : \E i \in 1..Cardinality(S) : q[i] = r}

\* repair_stale_operations: attempts older than the cutoff.
StaleRequests ==
    {r \in Req : /\ status[r] = "Dispatching"
                 /\ StaleAfter <= now
                 /\ updated_at[r] <= now - StaleAfter}

\* Mutant: nothing is pushed.
NothingRequeued(S) == {}
\* Repair pushes the ids that are not in the queue.
ToRequeue(S) == S \ Members(queue)

\* Mutant: interrupted attempts are forgotten.
RecoveredQueuedOnly == {r \in Req : status[r] = "Queued"}
\* recover_unwrap_dispatch_state_after_upgrade: what becomes Queued again.
Recovered == {r \in Req : status[r] \in {"Queued", "Dispatching"}}

-----------------------------------------------------------------------------
(***************************************************************************)
(* Requests.                                                               *)
(***************************************************************************)

\* record_unwrap_requests_from_block in mining_tick, dispatch_unwrap_request
\* and dispatch_native_withdrawal_request: a new record is queued.
Record(r) ==
    /\ status[r] = "None"
    /\ Len(queue) < MaxQueue
    /\ status' = [status EXCEPT ![r] = "Queued"]
    /\ updated_at' = [updated_at EXCEPT ![r] = now]
    /\ queue' = Append(queue, r)
    /\ scheduled' = TRUE
    /\ UNCHANGED <<created_at, call, ledger, now, upgrades>>

\* A request id that exists, or a block without unwrap logs: the handler
\* only arms the timer.
RecordNothing ==
    /\ scheduled' = TRUE
    /\ UNCHANGED <<requests, call, ledger, now, upgrades>>

\* retry_request and retry_native_withdrawal.
Retry(r) ==
    /\ status[r] = "DispatchFailed"
    /\ Len(queue) < MaxQueue
    /\ status' = [status EXCEPT ![r] = "Queued"]
    /\ updated_at' = [updated_at EXCEPT ![r] = now]
    /\ queue' = Append(queue, r)
    /\ scheduled' = TRUE
    /\ UNCHANGED <<created_at, call, ledger, now, upgrades>>

-----------------------------------------------------------------------------
(***************************************************************************)
(* The timer: unwrap_dispatch_tick.                                        *)
(***************************************************************************)

\* pop_next_dispatch_request finds nothing.
TickIdle ==
    /\ scheduled
    /\ queue = <<>>
    /\ scheduled' = FALSE
    /\ UNCHANGED <<requests, call, ledger, now, upgrades>>

\* The record the tick takes; its status is not looked at.
Pop(outcome) ==
    LET r == Head(queue) IN
    /\ queue' = Tail(queue)
    /\ status' = [status EXCEPT ![r] = outcome]
    /\ updated_at' = [updated_at EXCEPT ![r] = now]
    /\ created_at' = [created_at EXCEPT ![r] = Stamp(r)]

\* The tick takes a request and waits for the ledger's answer.
Tick(s) ==
    /\ scheduled
    /\ queue # <<>>
    /\ call[s] = NoCall
    /\ Pop("Dispatching")
    /\ call' = [call EXCEPT ![s] =
                  [req |-> Head(queue),
                   phase |-> IF Head(queue) \in Native THEN "Fee" ELSE "Transfer",
                   amount |-> Gross,
                   created |-> Stamp(Head(queue))]]
    /\ scheduled' = FALSE
    /\ UNCHANGED <<ledger, now, upgrades>>

\* The native ledger is not configured: the tick ends without an await.
TickUnconfigured ==
    /\ scheduled
    /\ queue # <<>>
    /\ Head(queue) \in Native
    /\ Pop("DispatchFailed")
    /\ scheduled' = Rearmed(FALSE, Tail(queue))
    /\ UNCHANGED <<call, ledger, now, upgrades>>

\* finalize_unwrap_dispatch_attempt and the end of the tick.
Finalize(s, outcome) ==
    /\ status' = [status EXCEPT ![call[s].req] = outcome]
    /\ updated_at' = [updated_at EXCEPT ![call[s].req] = now]
    /\ call' = [call EXCEPT ![s] = NoCall]
    /\ scheduled' = Rearmed(scheduled, queue)
    /\ UNCHANGED <<created_at, queue, ledger, now, upgrades>>

\* The ledger's fee arrives and leaves something to pay.
FeeReply(s, fee) ==
    /\ call[s] # NoCall
    /\ call[s].phase = "Fee"
    /\ Receivable(fee)
    /\ call' = [call EXCEPT ![s] =
                  [@ EXCEPT !.phase = "Transfer", !.amount = Gross - fee]]
    /\ UNCHANGED <<requests, scheduled, ledger, now, upgrades>>

\* The fee call fails, or the fee takes everything.
FeeFailed(s) ==
    /\ call[s] # NoCall
    /\ call[s].phase = "Fee"
    /\ Finalize(s, "DispatchFailed")

TransferReply(s) ==
    /\ call[s] # NoCall
    /\ call[s].phase \in {"ReplyOk", "ReplyErr"}
    /\ \E outcome \in Outcomes(call[s].phase) : Finalize(s, outcome)

-----------------------------------------------------------------------------
(***************************************************************************)
(* The ledger (external): an ICRC-1 ledger executes a transfer once per    *)
(* memo, amount and created_at_time.  It answers Duplicate inside its      *)
(* window and TooOld outside, and may refuse for its own reasons.          *)
(***************************************************************************)
Sent(s) == [memo |-> call[s].req, amount |-> call[s].amount,
            created |-> call[s].created]

InWindow(s) == now <= call[s].created + DedupWindow

\* The answer reaches the attempt that waits for it, if one does.
Answered(s, phase) ==
    call' = [call EXCEPT ![s] = IF call[s].phase = "Orphan" THEN NoCall
                                ELSE [call[s] EXCEPT !.phase = phase]]

InFlight(s) == call[s] # NoCall /\ call[s].phase \in {"Transfer", "Orphan"}

LedgerExecutes(s) ==
    /\ InFlight(s)
    /\ InWindow(s)
    /\ ledger' = ledger \cup {Sent(s)}
    /\ Answered(s, "ReplyOk")
    /\ UNCHANGED <<requests, scheduled, now, upgrades>>

\* TooOld, any other error, or the call was never delivered.
LedgerRefuses(s) ==
    /\ InFlight(s)
    /\ Answered(s, "ReplyErr")
    /\ UNCHANGED <<requests, scheduled, ledger, now, upgrades>>

-----------------------------------------------------------------------------
(***************************************************************************)
(* Repair, upgrade and time.                                               *)
(***************************************************************************)

\* repair_stale_operations, from the cycle observer or a controller.
Repair ==
    LET S == StaleRequests IN
    /\ Len(queue) + Cardinality(S) <= MaxQueue
    /\ status' = [r \in Req |-> IF r \in S THEN "Queued" ELSE status[r]]
    /\ updated_at' = [r \in Req |-> IF r \in S THEN now ELSE updated_at[r]]
    /\ created_at' = [r \in Req |-> IF r \in S THEN Stamp(r) ELSE created_at[r]]
    /\ \E q \in Orders(ToRequeue(S)) :
          /\ queue' = queue \o q
          /\ scheduled' = Rearmed(scheduled, queue \o q)
    /\ UNCHANGED <<call, ledger, now, upgrades>>

\* An upgrade ends the waiting continuations and the timer, then
\* post_upgrade restores the queue.  The timer is armed again only if the
\* data plane accepts writes.
Upgrade(data_plane_enabled) ==
    /\ upgrades < MaxUpgrades
    /\ Len(queue) + Cardinality(Recovered) <= MaxQueue
    /\ upgrades' = upgrades + 1
    /\ call' = [s \in Slot |->
                  IF InFlight(s) THEN [call[s] EXCEPT !.phase = "Orphan"]
                  ELSE NoCall]
    /\ status' = [r \in Req |-> IF r \in Recovered THEN "Queued" ELSE status[r]]
    /\ updated_at' = [r \in Req |->
                        IF r \in Recovered /\ status[r] = "Dispatching"
                        THEN now ELSE updated_at[r]]
    /\ \E q \in Orders(ToRequeue(Recovered)) :
          /\ queue' = queue \o q
          /\ scheduled' = (data_plane_enabled /\ queue \o q # <<>>)
    /\ UNCHANGED <<created_at, ledger, now>>

\* external: time passes.
Advance ==
    /\ now < MaxTime
    /\ now' = now + 1
    /\ UNCHANGED <<requests, scheduled, call, ledger, upgrades>>

-----------------------------------------------------------------------------
Next ==
    \/ \E r \in Req : Record(r) \/ Retry(r)
    \/ RecordNothing
    \/ TickIdle
    \/ TickUnconfigured
    \/ \E s \in Slot : \/ Tick(s)
                       \/ FeeFailed(s)
                       \/ TransferReply(s)
                       \/ LedgerExecutes(s)
                       \/ LedgerRefuses(s)
                       \/ \E fee \in Fees : FeeReply(s, fee)
    \/ Repair
    \/ \E enabled \in BOOLEAN : Upgrade(enabled)
    \/ Advance

Spec == Init /\ [][Next]_vars

\* The timer fires, every inter-canister call is answered, and the cycle
\* observer runs.  Users, controllers and time are not fair.
Fairness ==
    /\ WF_vars(TickIdle \/ \E s \in Slot : Tick(s))
    /\ \A s \in Slot :
          /\ WF_vars(FeeFailed(s) \/ \E fee \in Fees : FeeReply(s, fee))
          /\ WF_vars(LedgerExecutes(s) \/ LedgerRefuses(s))
          /\ WF_vars(TransferReply(s))
    /\ WF_vars(Repair)

FairSpec == Spec /\ Fairness

-----------------------------------------------------------------------------
(***************************************************************************)
(* Properties.                                                             *)
(***************************************************************************)

\* A request for a ledger token is paid at most once, over all retries,
\* repairs, late replies and upgrades: the memo and the persisted
\* created_at_time make every attempt the same transfer to the ledger.
PaidOnce ==
    \A x, y \in ledger : x.memo = y.memo /\ x.memo \notin Native => x = y

\* A request is reported Dispatched only when the ledger has paid it,
\* whichever attempt's reply came last.
DispatchedIsPaid ==
    \A r \in Req : status[r] = "Dispatched" => \E x \in ledger : x.memo = r

\* A Queued request is in the dispatch queue: no order of repairs, retries,
\* replies and upgrades leaves one that the timer will never take.
QueuedIsInQueue ==
    \A r \in Req : status[r] = "Queued" => r \in Members(queue)

\* A Dispatching request has an attempt whose continuation will settle it.
DispatchingIsAttempted ==
    \A r \in Req : status[r] = "Dispatching" =>
        \E s \in Slot : /\ call[s] # NoCall
                        /\ call[s].req = r
                        /\ call[s].phase # "Orphan"

\* No request is lost between its status, the queue and the attempts.
NothingLost == QueuedIsInQueue /\ DispatchingIsAttempted

\* A queued request is settled eventually.
QueuedEventuallySettles ==
    \A r \in Req : status[r] = "Queued" ~> status[r] \in Settled
=============================================================================
