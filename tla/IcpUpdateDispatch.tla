------------------------- MODULE IcpUpdateDispatch -------------------------
(***************************************************************************)
(* The dispatcher of ICP update intents in the Kasane gateway canister     *)
(* (crates/ic-evm-gateway/src/lib.rs).  A block's logs leave requests; a   *)
(* timer takes one at a time and sends an update call with a bounded wait  *)
(* to the canister the request names.  Such a call is not idempotent, so   *)
(* the dispatcher never sends one twice: an attempt whose outcome is not   *)
(* known is settled as DispatchUncertain.                                  *)
(*                                                                         *)
(* A canister message runs without interleaving up to its next await, so   *)
(* an action is the code between two awaits.  Unlike the unwrap            *)
(* dispatcher, the flag of the timer stays set while a call is in flight.  *)
(***************************************************************************)
EXTENDS Integers, Sequences, FiniteSets

CONSTANTS
    Req,            \* request ids (derived from the transaction and log index)
    Method,         \* pairs of target canister and method name
    MethodOf,       \* the pair a request asks for
    Hole,           \* a queue position whose entry was removed
    Slot,           \* bound: continuations of the tick that can wait at once
    NoCall,         \* a slot without a continuation
    MaxRecords,     \* MAX_ICP_UPDATE_REQUESTS
    StaleAfter,     \* STALE_OPERATION_NANOS
    MaxTime,        \* bound: clock
    MaxQueue,       \* bound: positions between head and tail
    MaxFaults,      \* bound: stable records that become unreadable
    MaxUpgrades     \* bound: canister upgrades

Statuses == {"None", "Queued", "Dispatching", "Dispatched", "DispatchFailed",
             "DispatchUncertain"}
Settled == {"Dispatched", "DispatchFailed", "DispatchUncertain"}

\* The target has not taken the call yet, or it has and its reply is coming.
Phases == {"Sent", "Executed"}
Attempt == [req : Req, phase : Phases]

ASSUME IcpUpdateAssumption ==
    /\ IsFiniteSet(Req)
    /\ MethodOf \in [Req -> Method]
    /\ Hole \notin Req
    /\ NoCall \notin Attempt
    /\ {MaxRecords, StaleAfter, MaxTime, MaxQueue, MaxFaults, MaxUpgrades}
          \subseteq Nat
    /\ MaxTime > 0

VARIABLES
    status,         \* IcpUpdateDispatchRequest.status, "None" without a record
    updated_at,     \* .updated_at
    unreadable,     \* records whose bytes no longer decode
    queue,          \* icp_update_dispatch_queue from the meta's head to tail
    scheduled,      \* ICP_UPDATE_DISPATCH_SCHEDULED
    timers,         \* armed timers that will run icp_update_dispatch_tick
    call,           \* continuations of the tick that wait for a reply
    allowlist,      \* icp_update_precompile_allowlist
    wire,           \* external: calls on their way to the target
    effects,        \* external: how often the target executed a request
    issued,         \* history: requests for which a call was sent
    recorded,       \* history: requests a block has recorded
    now,            \* ic0.time
    faults, upgrades

records == <<status, updated_at, unreadable>>
target == <<wire, effects>>
history == <<issued, recorded>>
bounds == <<now, faults, upgrades>>
vars == <<records, queue, scheduled, timers, call, allowlist, target, history,
          bounds>>

Members(q) == {q[i] : i \in 1..Len(q)} \ {Hole}

Init ==
    /\ status = [r \in Req |-> "None"]
    /\ updated_at = [r \in Req |-> 0]
    /\ unreadable = {}
    /\ queue = <<>>
    /\ scheduled = FALSE
    /\ timers = 0
    /\ call = [s \in Slot |-> NoCall]
    /\ allowlist = Method
    /\ wire = {}
    /\ effects = [r \in Req |-> 0]
    /\ issued = {}
    /\ recorded = {}
    /\ now = 1
    /\ faults = 0
    /\ upgrades = 0

-----------------------------------------------------------------------------
(***************************************************************************)
(* Records.                                                                *)
(***************************************************************************)

\* A record that does not decode reads as decode_failure_placeholder.
Read(r) ==
    IF r \in unreadable THEN [status |-> "DispatchFailed", updated_at |-> 0]
    ELSE [status |-> status[r], updated_at |-> updated_at[r]]

Present == {r \in Req : status[r] # "None"}

\* Every write of a record encodes it anew.
Write(S, st) ==
    /\ status' = [r \in Req |-> IF r \in S THEN st ELSE status[r]]
    /\ updated_at' = [r \in Req |-> IF r \in S THEN now ELSE updated_at[r]]
    /\ unreadable' = unreadable \ S

\* Mutant: every caller arms a timer.
ScheduleAlways == scheduled' = TRUE /\ timers' = timers + 1
\* schedule_icp_update_dispatch: only the caller that sets the flag arms.
Schedule == /\ scheduled' = TRUE
            /\ timers' = IF scheduled THEN timers ELSE timers + 1

\* Mutant: the repair does not look at the queue.
ScheduleNever(work) == UNCHANGED <<scheduled, timers>>
ScheduleIf(work) ==
    IF work THEN Schedule ELSE UNCHANGED <<scheduled, timers>>

-----------------------------------------------------------------------------
(***************************************************************************)
(* Recording, from mining_tick.                                            *)
(***************************************************************************)

\* Mutant: the newest answers go first.
NewestFirst(a, b) == a >= b
\* trim_icp_update_requests sorts by updated_at.
OldestFirst(a, b) == a <= b

\* What trim_icp_update_requests may remove.
Completed(S) == {r \in S : Read(r).status \in Settled}

\* The records to remove when r is added: the oldest completed ones, as many
\* as exceed the limit.  Equal times are ordered by id, any order here.
Trimmed(r) ==
    LET done == Completed(Present)
        excess == Cardinality(Present \cup {r}) - MaxRecords
        few == Cardinality(done) <= excess
    IN  {T \in SUBSET done :
            /\ IF few THEN T = done
               ELSE Cardinality(T) = IF excess > 0 THEN excess ELSE 0
            /\ \A x \in T : \A y \in done \ T :
                  OldestFirst(Read(x).updated_at, Read(y).updated_at)}

\* remove_icp_update_queue_entries: the positions stay between head and tail.
RemoveEntries(q, T) ==
    [i \in 1..Len(q) |-> IF q[i] \in T THEN Hole ELSE q[i]]

\* record_icp_update_requests_from_block for one log, with the trim; a
\* transaction is included once, so a request is recorded once.
Record(r) ==
    /\ r \notin recorded
    /\ Len(queue) < MaxQueue
    /\ recorded' = recorded \cup {r}
    /\ \E T \in Trimmed(r) :
          /\ status' = [x \in Req |-> IF x \in T THEN "None"
                                      ELSE IF x = r THEN "Queued" ELSE status[x]]
          /\ updated_at' = [x \in Req |-> IF x \in T THEN 0
                                          ELSE IF x = r THEN now ELSE updated_at[x]]
          /\ unreadable' = unreadable \ T
          /\ queue' = RemoveEntries(Append(queue, r), T)
    /\ Schedule
    /\ UNCHANGED <<call, allowlist, target, issued, bounds>>

\* A block without new update logs.
RecordNothing ==
    /\ Schedule
    /\ UNCHANGED <<records, queue, call, allowlist, target, history, bounds>>

-----------------------------------------------------------------------------
(***************************************************************************)
(* The timer: icp_update_dispatch_tick.                                    *)
(***************************************************************************)

\* pop_next_icp_update_request takes an entry with a record that decodes.
Takeable(r) == r # Hole /\ status[r] # "None" /\ r \notin unreadable

\* Entries of the loop's earlier rounds: holes and missing records are
\* skipped, unreadable records are quarantined as DispatchFailed.
Quarantined(i) == {r \in unreadable : \E j \in 1..(i - 1) : queue[j] = r}

\* The records after the loop took position i and gave its record the
\* status st.
Popped(i, st) ==
    LET Q == Quarantined(i) IN
    /\ status' = [r \in Req |-> IF r = queue[i] THEN st
                                ELSE IF r \in Q THEN "DispatchFailed" ELSE status[r]]
    /\ updated_at' = [r \in Req |-> IF r \in Q \cup {queue[i]} THEN now
                                    ELSE updated_at[r]]
    /\ unreadable' = unreadable \ (Q \cup {queue[i]})
    /\ queue' = SubSeq(queue, i + 1, Len(queue))

First(i) == Takeable(queue[i]) /\ \A j \in 1..(i - 1) : ~Takeable(queue[j])

\* The loop runs out of entries: finish_icp_update_dispatch_tick.
TickIdle ==
    /\ timers > 0
    /\ \A i \in 1..Len(queue) : ~Takeable(queue[i])
    /\ Write(Quarantined(Len(queue) + 1), "DispatchFailed")
    /\ queue' = <<>>
    /\ scheduled' = FALSE
    /\ timers' = timers - 1
    /\ UNCHANGED <<call, allowlist, target, history, bounds>>

\* dispatch_icp_update_request_internal checks the list again: the method
\* may have been removed since the block.
Allowed(r) == MethodOf[r] \in allowlist

\* complete_icp_update_dispatch_tick: with work left the timer is armed
\* again and the flag stays set, otherwise the flag is cleared.
CompleteTick(q, left) ==
    IF Members(q) # {} THEN timers' = left + 1 /\ UNCHANGED scheduled
    ELSE timers' = left /\ scheduled' = FALSE

\* The tick takes a request, sends its call and waits.
Tick(s) ==
    /\ timers > 0
    /\ call[s] = NoCall
    /\ \E i \in 1..Len(queue) :
          LET r == queue[i] IN
          /\ First(i)
          /\ Allowed(r)
          /\ Popped(i, "Dispatching")
          /\ call' = [call EXCEPT ![s] = [req |-> r, phase |-> "Sent"]]
          /\ wire' = wire \cup {r}
          /\ issued' = issued \cup {r}
    /\ timers' = timers - 1
    /\ UNCHANGED <<scheduled, allowlist, effects, recorded, bounds>>

\* The method is no longer allowed: the tick settles it without a call.
TickRefused ==
    /\ timers > 0
    /\ \E i \in 1..Len(queue) :
          /\ First(i)
          /\ ~Allowed(queue[i])
          /\ Popped(i, "DispatchFailed")
          /\ CompleteTick(SubSeq(queue, i + 1, Len(queue)), timers - 1)
    /\ UNCHANGED <<call, allowlist, target, history, bounds>>

\* finalize_icp_update_dispatch_attempt, then the end of the tick.  A record
\* that was trimmed meanwhile is not brought back.
Finalize(s, st) ==
    /\ Write({call[s].req} \cap Present, st)
    /\ call' = [call EXCEPT ![s] = NoCall]
    /\ CompleteTick(queue, timers)
    /\ UNCHANGED <<queue, allowlist, history, bounds>>

\* The call returned: icp_update_success_outcome.
Reply(s) ==
    /\ call[s] # NoCall
    /\ call[s].phase = "Executed"
    /\ Finalize(s, "Dispatched")
    /\ UNCHANGED target

\* The call was refused, or was never enqueued.
Rejected(s) ==
    /\ call[s] # NoCall
    /\ call[s].phase = "Sent"
    /\ Finalize(s, "DispatchFailed")
    /\ wire' = wire \ {call[s].req}
    /\ UNCHANGED effects

\* Mutant: a timeout is taken for a refusal.
TimeoutIsFailure == "DispatchFailed"
\* is_icp_update_uncertain_call_error: the bounded wait ended as SysUnknown.
TimeoutStatus == "DispatchUncertain"

\* The wait ends before the reply; the call may still be delivered.
TimedOut(s) ==
    /\ call[s] # NoCall
    /\ Finalize(s, TimeoutStatus)
    /\ UNCHANGED target

\* external: the target executes a call it was sent.
Execute(r) ==
    /\ r \in wire
    /\ wire' = wire \ {r}
    /\ effects' = [effects EXCEPT ![r] = @ + 1]
    /\ call' = [s \in Slot |->
                  IF call[s] = [req |-> r, phase |-> "Sent"]
                  THEN [req |-> r, phase |-> "Executed"] ELSE call[s]]
    /\ UNCHANGED <<records, queue, scheduled, timers, allowlist, history, bounds>>

-----------------------------------------------------------------------------
(***************************************************************************)
(* Control plane, repair, upgrade, faults and time.                        *)
(***************************************************************************)

\* add_update_precompile_allowed_method.
Allow(m) ==
    /\ allowlist' = allowlist \cup {m}
    /\ UNCHANGED <<records, queue, scheduled, timers, call, target, history,
                   bounds>>

\* remove_update_precompile_allowed_method.
Disallow(m) ==
    /\ allowlist' = allowlist \ {m}
    /\ UNCHANGED <<records, queue, scheduled, timers, call, target, history,
                   bounds>>

Dispatching == {r \in Req : Read(r).status = "Dispatching"}

\* repair_stale_operations: attempts not touched for StaleAfter.
Stale == {r \in Dispatching : /\ StaleAfter <= now
                              /\ updated_at[r] <= now - StaleAfter}

Repair ==
    /\ Write(Stale, "DispatchUncertain")
    /\ ScheduleIf(Members(queue) # {})
    /\ UNCHANGED <<queue, call, allowlist, target, history, bounds>>

\* recover_icp_update_dispatch_state_after_upgrade: Queued requests that the
\* queue does not hold.
ToRequeue == {r \in Req : Read(r).status = "Queued"} \ Members(queue)

\* The ids to push, in the order of their keys (any order here).
Orders(S) ==
    {q \in [1..Cardinality(S) -> S] :
        \A r \in S : \E i \in 1..Cardinality(S) : q[i] = r}

\* An upgrade ends the waiting continuations, the timers and the flag.
\* post_upgrade restores the queue and arms the timer if the data plane
\* accepts writes.
Upgrade(schedule_workers) ==
    /\ upgrades < MaxUpgrades
    /\ Len(queue) + Cardinality(ToRequeue) <= MaxQueue
    /\ upgrades' = upgrades + 1
    /\ Write(Dispatching, "DispatchUncertain")
    /\ call' = [s \in Slot |-> NoCall]
    /\ \E q \in Orders(ToRequeue) :
          LET work == schedule_workers /\ Members(queue \o q) # {} IN
          /\ queue' = queue \o q
          /\ scheduled' = work
          /\ timers' = IF work THEN 1 ELSE 0
    /\ UNCHANGED <<allowlist, target, history, now, faults>>

\* external: the bytes of a record no longer decode.
Corrupt(r) ==
    /\ faults < MaxFaults
    /\ status[r] # "None"
    /\ unreadable' = unreadable \cup {r}
    /\ faults' = faults + 1
    /\ UNCHANGED <<status, updated_at, queue, scheduled, timers, call,
                   allowlist, target, history, now, upgrades>>

\* external: time passes.
Advance ==
    /\ now < MaxTime
    /\ now' = now + 1
    /\ UNCHANGED <<records, queue, scheduled, timers, call, allowlist, target,
                   history, faults, upgrades>>

-----------------------------------------------------------------------------
Next ==
    \/ \E r \in Req : Record(r) \/ Execute(r) \/ Corrupt(r)
    \/ RecordNothing
    \/ TickIdle
    \/ TickRefused
    \/ \E s \in Slot : Tick(s) \/ Reply(s) \/ Rejected(s) \/ TimedOut(s)
    \/ \E m \in Method : Allow(m) \/ Disallow(m)
    \/ Repair
    \/ \E schedule_workers \in BOOLEAN : Upgrade(schedule_workers)
    \/ Advance

Spec == Init /\ [][Next]_vars

\* The timers fire, a bounded wait ends, and the cycle observer repairs.
\* Users, controllers, the target canister, faults and time are not fair.
Fairness ==
    /\ WF_vars(TickIdle \/ TickRefused \/ \E s \in Slot : Tick(s))
    /\ \A s \in Slot : WF_vars(Reply(s) \/ Rejected(s) \/ TimedOut(s))
    /\ WF_vars(Repair)

FairSpec == Spec /\ Fairness

-----------------------------------------------------------------------------
(***************************************************************************)
(* Properties.                                                             *)
(***************************************************************************)

TypeOK ==
    /\ status \in [Req -> Statuses]
    /\ updated_at \in [Req -> 0..MaxTime]
    /\ unreadable \subseteq Present
    /\ queue \in Seq(Req \cup {Hole})
    /\ scheduled \in BOOLEAN
    /\ timers \in Nat
    /\ call \in [Slot -> Attempt \cup {NoCall}]
    /\ allowlist \subseteq Method
    /\ wire \subseteq Req
    /\ effects \in [Req -> Nat]
    /\ issued \subseteq Req
    /\ recorded \subseteq Req
    /\ now \in 1..MaxTime
    /\ faults \in 0..MaxFaults
    /\ upgrades \in 0..MaxUpgrades

\* The dispatcher keeps the promise of CallOnce: through timeouts, late
\* deliveries, upgrades, repairs, trimming and unreadable records no update
\* call is sent twice, and what get_icp_update_request answers is true.
Answer(r) ==
    IF r \in unreadable THEN "None"
    ELSE CASE status[r] = "Dispatched" -> "Ok"
           [] status[r] = "DispatchFailed" -> "Fail"
           [] status[r] = "DispatchUncertain" -> "Unknown"
           [] OTHER -> "None"

Promise == INSTANCE CallOnce WITH
    life <- [r \in Req |-> [issued |-> r \in issued, pending |-> r \in wire,
                            effects |-> effects[r], answer |-> Answer(r)]]

ImplementsCallOnce == Promise!Spec

\* One worker at a time: the flag stands for exactly one armed timer or one
\* waiting continuation, whatever blocks, repairs and upgrades schedule.
SingleFlight ==
    timers + Cardinality({s \in Slot : call[s] # NoCall})
        = IF scheduled THEN 1 ELSE 0

\* Trimming and upgrades never lose a request that waits: a readable Queued
\* request is in the queue, exactly once.
QueuedIsInQueue ==
    \A r \in Req : status[r] = "Queued" =>
        Cardinality({i \in 1..Len(queue) : queue[i] = r}) = 1

\* A request that was never answered is not forgotten: trimming removes a
\* record only after it was settled, and keeps the answers that are younger.
TrimsOldestAnswers ==
    [][\A r \in Req : status[r] # "None" /\ status'[r] = "None" =>
          /\ Read(r).status \in Settled
          /\ \A x \in Req : status'[x] # "None" /\ Read(x).status \in Settled =>
                Read(r).updated_at <= Read(x).updated_at]_vars

\* A queued request is settled (or found unreadable) in the end, also after
\* an upgrade that did not arm the timer.
QueuedEventuallySettles ==
    \A r \in Req : status[r] = "Queued" ~> status[r] # "Queued"
=============================================================================
