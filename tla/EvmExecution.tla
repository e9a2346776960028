---------------------------- MODULE EvmExecution ----------------------------
(***************************************************************************)
(* What a block's transactions do through Kasane's precompiles             *)
(* (crates/evm-core/src/kasane_precompiles.rs, revm_exec.rs, revm_db.rs),  *)
(* how the results are staged and committed (produce_block in chain.rs),   *)
(* and how the logs become requests (mining_tick in the gateway).  Beside  *)
(* the blocks runs eth_call_object_async, whose query precompile waits for *)
(* another canister between two executions.                                *)
(*                                                                         *)
(* A transaction is any program of nested calls, returns and reverts: its  *)
(* code is revm's business.  One wrapped token is deployed.  Precompiles   *)
(* are reached by CALL and STATICCALL.  A length stands for a byte string. *)
(***************************************************************************)
EXTENDS Integers, SequencesExt

CONSTANTS
    Account,            \* externally owned accounts and contracts
    Withdrawal,         \* NATIVE_WITHDRAW_PRECOMPILE_ADDRESS
    FeeRecipient,       \* FEE_RECIPIENT
    Ether, Token,       \* wei and wrapped tokens of each account at first
    Allowance,          \* allowance of each account for the factory at first
    DeployedAssets,     \* assets whose token the factory has deployed (one)
    Unlimited,          \* U256::MAX as an allowance
    WEI_PER_E8S,
    BaseFee,            \* base fee of the gas a transaction uses
    UnwrapInputs,       \* inputs of the unwrap precompile
    WithdrawInputs,     \* inputs and values of the withdrawal precompile
    UpdateInputs,       \* inputs of the update-intent precompile
    UpdateAllowlist,    \* icp_update_precompile_allowlist: lengths of targets
    Watched,            \* the account whose balance the query call reads
    Oversized,          \* transactions whose result may break a size limit
    MAX_INTERNAL_TRACES_PER_TX,
    NoTx, NoCall,
    MaxTx, MaxBlockTxs, MaxOps, MaxDepth, MaxCredits   \* bounds

\* internal_trace.rs keeps a number of traces.
ASSUME EvmAssumption == MAX_INTERNAL_TRACES_PER_TX \in Nat

\* Balances, amounts and fees are U256 and u64 numbers; the precompile and the
\* fee recipient have addresses of their own, which no key and no contract has.
ASSUME WorldAssumption ==
    /\ IsFiniteSet(Account)
    /\ Withdrawal \notin Account
    /\ FeeRecipient \notin Account
    /\ Withdrawal # FeeRecipient
    /\ Ether \in [Account -> Nat]
    /\ Token \in [Account -> Nat]
    /\ Allowance \in [Account -> Nat \cup {Unlimited}]
    /\ WEI_PER_E8S \in Nat \ {0}
    /\ BaseFee \in Nat
    /\ \A in \in UnwrapInputs : in.amount \in Nat
    /\ \A in \in WithdrawInputs : in.value \in Nat

MAX_FIELD_LEN == 120
MAX_PRINCIPAL_LEN == 29
MAX_QUERY_METHOD_LEN == 64
MAX_ICP_UPDATE_ARG_LEN == 3997

Holder == Account \cup {Withdrawal, FeeRecipient}
Sum(f) == FoldFunction(+, 0, f)

VARIABLES
    db,         \* the stable accounts and storage, RevmStableDb
    cache,      \* exec_db of the block under execution
    staged,     \* staged_state_diffs and outcomes of the included ones
    tx,         \* the transaction under execution
    producing,  \* a block is under execution
    started,    \* transactions executed so far
    requests,   \* unwrap_requests and icp_update_requests
    epoch,      \* EVM_STATE_EPOCH
    head,       \* head.number
    credited,   \* wei credited by deposits
    query_allowed,  \* query_precompile_allowlist holds the call's method
    qcall       \* eth_call_object_async waiting for the query's reply

block == <<cache, staged, tx, producing, started>>
vars == <<db, block, requests, epoch, head, credited, query_allowed, qcall>>

Init ==
    /\ db = [ether |-> [a \in Holder |-> IF a \in Account THEN Ether[a] ELSE 0],
             bal |-> Token, allow |-> Allowance, supply |-> Sum(Token)]
    /\ cache = db
    /\ staged = <<>>
    /\ tx = NoTx
    /\ producing = FALSE
    /\ started = 0
    /\ requests = {}
    /\ epoch = 0
    /\ head = 0
    /\ credited = 0
    /\ query_allowed = TRUE
    /\ qcall = NoCall

-----------------------------------------------------------------------------
(***************************************************************************)
(* The precompiles.  Each takes the journal j = [w, logs], the world and   *)
(* the logs so far, and gives its result and the journal it leaves: revm   *)
(* takes the changes back when the result is not Return.                   *)
(***************************************************************************)
Result(r, j) == [result |-> r, j |-> j]
Failed(j) == Result("PrecompileError", j)

IsPrincipalLen(n) == n \in 1..MAX_PRINCIPAL_LEN

\* parse_compact_input, read_compact_principal.
ParsesUnwrap(in) ==
    /\ in.exact
    /\ in.version = 1
    /\ IsPrincipalLen(in.asset)
    /\ IsPrincipalLen(in.recipient)
    /\ in.padded

\* parse_native_withdraw_input.
ParsesWithdraw(in) ==
    /\ in.exact
    /\ in.version = 1
    /\ IsPrincipalLen(in.recipient)
    /\ in.padded
    /\ ~in.anonymous

\* parse_icp_update_intent_input, read_ic_update_principal.
ParsesUpdate(in) ==
    /\ in.version = 1
    /\ in.kind = 1
    /\ IsPrincipalLen(in.target)
    /\ in.method \in 1..MAX_QUERY_METHOD_LEN
    /\ in.ascii
    /\ in.arg <= MAX_ICP_UPDATE_ARG_LEN
    /\ in.exact

Log(address, data) == [address |-> address, data |-> data]

\* What an allowance is after a burn.
Spent(allowance, amount) ==
    IF allowance = Unlimited THEN Unlimited ELSE allowance - amount

\* Mutant: the supply is left as it is.
SupplyKept(supply, amount) == supply
SupplyAfter(supply, amount) == supply - amount

\* load_factory_token_address: the factory's slot of the asset is not zero.
Deployed(asset) == asset \in DeployedAssets

\* burn_wrapped_asset.  The allowance is written before the supply is
\* looked at.
Burn(j, owner, asset, amount) ==
    LET w == j.w
        spent == Spent(w.allow[owner], amount)
        approved == [j EXCEPT !.w.allow[owner] = spent,
                              !.logs = IF w.allow[owner] = Unlimited THEN @
                                       ELSE Append(@, Log("Token", spent))]
    IN  IF ~Deployed(asset) THEN Failed(j)
        ELSE IF w.bal[owner] < amount THEN Failed(j)
        ELSE IF w.allow[owner] # Unlimited /\ w.allow[owner] < amount THEN Failed(j)
        ELSE IF w.supply < amount THEN Failed(approved)
        ELSE Result("Return",
               [approved EXCEPT !.w.bal[owner] = @ - amount,
                                !.w.supply = SupplyAfter(@, amount),
                                !.logs = Append(@, Log("Token", amount))])

\* The gas is charged last, when everything else has been done:
\* estimate_wrap_precompile_gas and extra_gas_for_precompile.
Charge(r, gas) ==
    IF r.result = "Return" /\ ~gas THEN Result("PrecompileOOG", r.j) ELSE r

\* run_wrap_precompile.
Unwrap(j, owner, static, in, gas) ==
    IF static \/ ~ParsesUnwrap(in) THEN Failed(j)
    ELSE LET burnt == Burn(j, owner, in.asset, in.amount) IN
         IF burnt.result # "Return" THEN burnt
         ELSE Charge([burnt EXCEPT !.j.logs = Append(@, Log("Unwrap", in))], gas)

\* Mutant: a value that is not a multiple is rounded down.
ValueRounded(value) == value > 0
\* native_value_to_e8s: the value is a multiple of the unit and not zero.
ValueAccepted(value) == value % WEI_PER_E8S = 0 /\ value > 0

\* run_native_withdraw_precompile; the value was moved by the call.
Withdraw(j, static, in, gas) ==
    IF static \/ ~ParsesWithdraw(in) \/ ~ValueAccepted(in.value) THEN Failed(j)
    ELSE LET e8s == in.value \div WEI_PER_E8S
             data == [amount |-> e8s, recipient |-> in.recipient]
         IN  Charge(Result("Return", [j EXCEPT !.logs = Append(@, Log("Withdraw", data))]),
                    gas)

\* run_icp_update_intent_precompile.
Update(j, static, in, gas) ==
    IF static \/ ~ParsesUpdate(in) \/ in.target \notin UpdateAllowlist THEN Failed(j)
    ELSE Charge(Result("Return", [j EXCEPT !.logs = Append(@, Log("Update", in))]), gas)

-----------------------------------------------------------------------------
(***************************************************************************)
(* Call frames and their traces.                                           *)
(***************************************************************************)
Top == tx.frames[Len(tx.frames)]
Journal == [w |-> tx.w, logs |-> tx.logs]

Frame(acct, static) ==
    [acct |-> acct, static |-> static, w |-> tx.w, logs |-> tx.logs]

\* The frame on top has one child more, which has none yet.
WithChild(c) == Append([c EXCEPT ![Len(c)] = @ + 1], 0)

\* allocate_trace_id and start_action: the next child of the frame on top.
\* A call of the transaction itself has no trace.
TraceStart(t) ==
    LET id == Append(IF t.paths = <<>> THEN <<>> ELSE t.paths[Len(t.paths)],
                     t.children[Len(t.children)])
        internal == t.paths # <<>>
        kept == internal /\ Len(t.traces) < MAX_INTERNAL_TRACES_PER_TX
    IN  [t EXCEPT !.children = WithChild(@),
                  !.paths = Append(@, IF internal THEN id ELSE <<>>),
                  !.total = IF internal THEN @ + 1 ELSE @,
                  !.traces = IF kept THEN Append(@, [id |-> id, end |-> "pending"])
                             ELSE @]

\* Mutant: the frame's child counter stays.
ChildrenKept(c) == c
ChildrenAfter(c) == Front(c)

\* finish_action: the trace with the path of the frame that ends.
TraceEnd(t, end) ==
    LET path == t.paths[Len(t.paths)] IN
    [t EXCEPT !.paths = Front(@),
              !.children = ChildrenAfter(@),
              !.traces = [i \in 1..Len(@) |->
                            IF path # <<>> /\ @[i].id = path
                            THEN [@[i] EXCEPT !.end = end] ELSE @[i]]]

\* The first call of a transaction, from sender to contract c.
StartTx(sender, c) ==
    /\ producing
    /\ tx = NoTx
    /\ started < MaxTx
    /\ Len(staged) < MaxBlockTxs
    /\ cache.ether[sender] >= BaseFee
    /\ started' = started + 1
    /\ tx' = TraceStart(
               [id |-> started + 1, sender |-> sender, w |-> cache, logs |-> <<>>,
                loaded |-> {sender, c, FeeRecipient}, ops |-> 0,
                frames |-> <<[acct |-> c, static |-> FALSE, w |-> cache,
                              logs |-> <<>>]>>,
                children |-> <<0>>, paths |-> <<>>, traces |-> <<>>, total |-> 0])
    /\ UNCHANGED <<db, cache, staged, producing, requests, epoch, head, credited,
                   query_allowed, qcall>>

InTx ==
    /\ tx # NoTx
    /\ UNCHANGED <<db, cache, staged, producing, started, requests, epoch, head,
                   credited, query_allowed, qcall>>

Step == InTx /\ tx.ops < MaxOps

\* A contract calls another one, by CALL or STATICCALL.
Enter(c, static) ==
    /\ Step
    /\ Len(tx.frames) < MaxDepth
    /\ tx' = TraceStart([tx EXCEPT !.ops = @ + 1,
                                   !.loaded = @ \cup {c},
                                   !.frames = Append(@, Frame(c, static \/ Top.static))])

\* A frame ends; revm takes its changes and logs back if it failed.
Leave(ok) ==
    /\ InTx
    /\ Len(tx.frames) > 1
    /\ tx' = TraceEnd([tx EXCEPT !.frames = Front(@),
                                 !.w = IF ok THEN @ ELSE Top.w,
                                 !.logs = IF ok THEN @ ELSE Top.logs],
                      IF ok THEN "success" ELSE "failure")

\* A call of a precompile: the result decides, as for any other frame.
CallPrecompile(r) ==
    LET ok == r.result = "Return" IN
    tx' = TraceEnd(TraceStart(
            [tx EXCEPT !.ops = @ + 1,
                       !.w = IF ok THEN r.j.w ELSE @,
                       !.logs = IF ok THEN r.j.logs ELSE @]),
            IF ok THEN "success" ELSE "failure")

CallUnwrap(in, gas) ==
    /\ Step
    /\ CallPrecompile(Unwrap(Journal, Top.acct, Top.static, in, gas))

\* The value of a call moves to the precompile's address.
Paid(f, from, value) == [f EXCEPT ![from] = @ - value, ![Withdrawal] = @ + value]
Locked(w, from, value) == [w EXCEPT !.ether = Paid(@, from, value)]

\* The call moves its value to the precompile's address first.
CallWithdraw(in, gas) ==
    /\ Step
    /\ in.value <= tx.w.ether[Top.acct]
    /\ Top.static => in.value = 0
    /\ LET paid == [Journal EXCEPT !.w = Locked(@, Top.acct, in.value)]
           r == Withdraw(paid, Top.static, in, gas)
           t == [tx EXCEPT !.loaded = @ \cup {Withdrawal}, !.ops = @ + 1,
                           !.w = IF r.result = "Return" THEN r.j.w ELSE @,
                           !.logs = IF r.result = "Return" THEN r.j.logs ELSE @]
       IN  tx' = TraceEnd(TraceStart(t), IF r.result = "Return" THEN "success" ELSE "failure")

CallUpdate(in, gas) ==
    /\ Step
    /\ CallPrecompile(Update(Journal, Top.static, in, gas))

\* The query precompile is not open to transactions (PrecompileAccess).
CallQuery ==
    /\ Step
    /\ CallPrecompile(Failed(Journal))
-----------------------------------------------------------------------------
(***************************************************************************)
(* The end of a transaction: execute_tx_on and produce_block.              *)
(***************************************************************************)

\* Mutant: revm burns the base fee and nobody gets it.
BaseFeeBurnt(w) == w
\* add_base_fee_portion_to_recipient.
BaseFeePaid(w) == [w EXCEPT !.ether[FeeRecipient] = @ + BaseFee]

\* The world after a transaction: a failed one pays for its gas only.
Outcome(ok) ==
    LET w == IF ok THEN tx.w ELSE tx.frames[1].w IN
    BaseFeePaid([w EXCEPT !.ether[tx.sender] = @ - BaseFee])

\* The state diff: the accounts the transaction loaded and the storage slots
\* it changed.
Diff(before, after) == [loaded |-> tx.loaded, before |-> before, after |-> after]

\* RevmStableDb::commit.
Commit(w, d) ==
    [ether |-> [a \in Holder |-> IF a \in d.loaded THEN d.after.ether[a] ELSE w.ether[a]],
     bal |-> [a \in Account |-> IF d.after.bal[a] # d.before.bal[a]
                                THEN d.after.bal[a] ELSE w.bal[a]],
     allow |-> [a \in Account |-> IF d.after.allow[a] # d.before.allow[a]
                                  THEN d.after.allow[a] ELSE w.allow[a]],
     supply |-> IF d.after.supply # d.before.supply THEN d.after.supply ELSE w.supply]

\* Success, or Revert and Halt, whose logs are empty.
EndTx(ok) ==
    /\ tx # NoTx
    /\ Len(tx.frames) = 1
    /\ ok => tx.w.ether[tx.sender] >= BaseFee
    /\ LET d == Diff(cache, Outcome(ok)) IN
       /\ cache' = Commit(cache, d)
       /\ staged' = Append(staged, [id |-> tx.id, diff |-> d,
                                    logs |-> IF ok THEN tx.logs ELSE <<>>])
    /\ tx' = NoTx
    /\ UNCHANGED <<db, producing, started, requests, epoch, head, credited,
                   query_allowed, qcall>>

\* validate_execution_result_sizes comes after the commit to exec_db: the
\* transaction is dropped, its changes stay in exec_db.
EndTxTooLarge ==
    /\ tx # NoTx
    /\ Len(tx.frames) = 1
    /\ tx.id \in Oversized
    /\ tx.w.ether[tx.sender] >= BaseFee
    /\ cache' = Commit(cache, Diff(cache, Outcome(TRUE)))
    /\ tx' = NoTx
    /\ UNCHANGED <<db, staged, producing, started, requests, epoch, head, credited,
                   query_allowed, qcall>>

\* The instruction budget ends a transaction at any step; it is dropped
\* before anything is committed.
DropTx ==
    /\ tx # NoTx
    /\ tx' = NoTx
    /\ UNCHANGED <<db, cache, staged, producing, started, requests, epoch, head,
                   credited, query_allowed, qcall>>

-----------------------------------------------------------------------------
(***************************************************************************)
(* The block: produce_block and the end of mining_tick.                    *)
(***************************************************************************)
BeginBlock ==
    /\ ~producing
    /\ started < MaxTx
    /\ producing' = TRUE
    /\ cache' = db
    /\ UNCHANGED <<db, staged, tx, started, requests, epoch, head, credited,
                   query_allowed, qcall>>

\* read_len_prefixed.
IsFieldLen(n) == n \in 1..MAX_FIELD_LEN

\* unwrap_intent_from_log, native_withdraw_intent_from_log and
\* icp_update_intent_from_log.
Decodes(log) ==
    \/ log.address = "Unwrap" /\ IsFieldLen(log.data.asset) /\ IsFieldLen(log.data.recipient)
    \/ log.address = "Withdraw" /\ IsFieldLen(log.data.recipient)
    \/ /\ log.address = "Update"
       /\ IsFieldLen(log.data.target) /\ log.data.target <= MAX_PRINCIPAL_LEN
       /\ IsFieldLen(log.data.method) /\ log.data.method <= MAX_QUERY_METHOD_LEN
       /\ log.data.ascii
       /\ log.data.arg <= MAX_ICP_UPDATE_ARG_LEN

\* record_unwrap_requests_from_block, record_icp_update_requests_from_block:
\* a request per log, named by derive_log_request_id.
Recorded(receipts) ==
    UNION {{[id |-> <<receipts[i].id, k>>, kind |-> receipts[i].logs[k].address,
             amount |-> IF receipts[i].logs[k].address = "Update" THEN 0
                        ELSE receipts[i].logs[k].data.amount] :
              k \in {k \in 1..Len(receipts[i].logs) : Decodes(receipts[i].logs[k])}} :
           i \in 1..Len(receipts)}

\* Without an included transaction there is no block.
SealBlock ==
    /\ producing
    /\ tx = NoTx
    /\ producing' = FALSE
    /\ staged' = <<>>
    /\ IF staged = <<>> THEN UNCHANGED <<db, requests, epoch, head>>
       ELSE /\ db' = FoldLeft(Commit, db, [i \in 1..Len(staged) |-> staged[i].diff])
            /\ requests' = requests \cup Recorded(staged)
            /\ epoch' = epoch + Len(staged)
            /\ head' = head + 1
    /\ UNCHANGED <<cache, tx, started, credited, query_allowed, qcall>>

\* Mutant: the counter of changes is not advanced.
SameEpoch(e) == e
NextEpoch(e) == e + 1

\* credit_native_deposit and credit_balance, between blocks.
CreditDeposit(a) ==
    /\ ~producing
    /\ credited < MaxCredits
    /\ credited' = credited + 1
    /\ db' = [db EXCEPT !.ether[a] = @ + 1]
    /\ epoch' = NextEpoch(epoch)
    /\ UNCHANGED <<block, requests, head, query_allowed, qcall>>

-----------------------------------------------------------------------------
(***************************************************************************)
(* The query precompile: eth_call_object_async runs the call until it asks *)
(* for a query, waits for the reply and runs it again with the reply.  The *)
(* call reads the balance of an account, asks the query for that value k   *)
(* times and goes on when the precompile fails.                            *)
(***************************************************************************)
Context(mode, expected) == [mode |-> mode, expected |-> expected, calls |-> 0, pending |-> NoCall]

CallLimit(ctx) == ctx.calls # 0

\* resolve_icp_query_reply: the context after a query and its result.
Resolve(ctx, request) ==
    IF CallLimit(ctx) THEN [ctx |-> ctx, result |-> "call_limit"]
    ELSE IF ctx.mode = "Detect"
    THEN [ctx |-> [ctx EXCEPT !.calls = @ + 1, !.pending = request], result |-> "pending"]
    ELSE [ctx |-> [ctx EXCEPT !.calls = @ + 1],
          result |-> IF request = ctx.expected THEN "reply" ELSE "request_mismatch"]

\* The run of a call that queries once, or a second time for another value.
Run(ctx, seen, again) ==
    LET one == Resolve(ctx, seen)
        two == Resolve(one.ctx, seen + 1)
    IN  IF again THEN [ctx |-> two.ctx, results |-> <<one.result, two.result>>]
        ELSE [ctx |-> one.ctx, results |-> <<one.result>>]

\* QueryCallSnapshot::capture.
Snapshot == [head |-> head, allowlist |-> query_allowed, epoch |-> epoch]

\* The first run finds a query; resolve_icp_query_precompile sends it, or
\* refuses a method that is not listed.
CallAsync(again) ==
    /\ ~producing
    /\ qcall = NoCall
    /\ LET first == Run(Context("Detect", NoCall), db.ether[Watched], again) IN
       qcall' = [again |-> again, seen |-> db.ether[Watched],
                 request |-> first.ctx.pending, sent |-> query_allowed,
                 snapshot |-> Snapshot]
    /\ UNCHANGED <<db, block, requests, epoch, head, credited, query_allowed>>

\* The reply comes: validate_after_resolve, then the second run on the
\* values the first one read.
Answer ==
    IF Snapshot # qcall.snapshot THEN <<"snapshot_changed">>
    ELSE Run(Context("Reply", qcall.request), qcall.seen, qcall.again).results

CallResumes ==
    /\ ~producing
    /\ qcall # NoCall
    /\ qcall' = NoCall
    /\ UNCHANGED <<db, block, requests, epoch, head, credited, query_allowed>>

\* add_ and remove_query_precompile_allowed_method.
SetQueryAllowed(b) ==
    /\ ~producing
    /\ query_allowed' = b
    /\ UNCHANGED <<db, block, requests, epoch, head, credited, qcall>>

-----------------------------------------------------------------------------
Next ==
    \/ BeginBlock
    \/ \E a, c \in Account : StartTx(a, c)
    \/ \E c \in Account, static \in BOOLEAN : Enter(c, static)
    \/ \E ok \in BOOLEAN : Leave(ok) \/ EndTx(ok)
    \/ \E gas \in BOOLEAN : \/ \E in \in UnwrapInputs : CallUnwrap(in, gas)
                            \/ \E in \in WithdrawInputs : CallWithdraw(in, gas)
                            \/ \E in \in UpdateInputs : CallUpdate(in, gas)
    \/ CallQuery
    \/ CallResumes
    \/ EndTxTooLarge
    \/ DropTx
    \/ SealBlock
    \/ \E a \in Account : CreditDeposit(a)
    \/ \E b \in BOOLEAN : CallAsync(b) \/ SetQueryAllowed(b)

Spec == Init /\ [][Next]_vars

-----------------------------------------------------------------------------
(***************************************************************************)
(* Properties.                                                             *)
(***************************************************************************)
Requested(kind) == {r \in requests : r.kind = kind}
Total(R) == Sum([r \in R |-> r.amount])

\* Wrapped tokens are burnt exactly for the unwrap requests on record:
\* no order of nested frames, reverts, gas shortage and dropped transactions
\* burns without a request or requests without a burn.
BurnsMatchRequests ==
    /\ Sum(Token) - db.supply = Total(Requested("Unwrap"))
    /\ Sum(db.bal) = db.supply

\* The wei at the withdrawal precompile are exactly what the native
\* withdrawal requests pay out.
WithdrawalsMatchRequests ==
    db.ether[Withdrawal] = WEI_PER_E8S * Total(Requested("Withdraw"))

\* What the gateway will pay out is what the EVM burnt or locked.
RequestsMatchBurns == BurnsMatchRequests /\ WithdrawalsMatchRequests

\* Blocks create and lose no wei: what all accounts hold is what they held
\* at first plus the deposits, the base fee of every transaction included.
WeiConserved == Sum(db.ether) = Sum(Ether) + credited

\* Every trace stored with a receipt has an id of its own, hangs under a
\* stored parent and was given its frame's outcome.
TracesAreComplete ==
    [][tx # NoTx /\ staged' # staged =>
         LET ts == TraceEnd(tx, "success").traces IN
         /\ \A j \in 1..Len(ts) :
               /\ ts[j].end # "pending"
               /\ \A k \in 1..Len(ts) : ts[j].id = ts[k].id => j = k
               /\ Len(ts[j].id) > 1 => \E k \in 1..(j - 1) : ts[k].id = Front(ts[j].id)
         /\ Len(ts) = IF tx.total < MAX_INTERNAL_TRACES_PER_TX
                      THEN tx.total ELSE MAX_INTERNAL_TRACES_PER_TX]_vars

\* A call that waited for a query answers from one state: when it returns a
\* reply, the value it read and the allowlist are still current, the reply
\* is to the request it made, and there is one.
QueryAnswersOneState ==
    [][qcall # NoCall /\ qcall' = NoCall /\ Answer # <<"snapshot_changed">> =>
         /\ db.ether[Watched] = qcall.seen
         /\ query_allowed = qcall.sent
         /\ Answer[1] = "reply"
         /\ \A i \in 2..Len(Answer) : Answer[i] # "reply"]_vars
=============================================================================
