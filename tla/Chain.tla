------------------------------- MODULE Chain -------------------------------
(***************************************************************************)
(* The transaction pipeline of the Kasane EVM canister                     *)
(* (crates/evm-core/src/chain.rs, tx_submit.rs, base_fee.rs and the        *)
(* decisions of crates/verified-core): submission into the mempool,        *)
(* replacement and eviction, block production, the dropped ring and block  *)
(* pruning.  Every action is one canister message: the Internet Computer   *)
(* runs a message without interleaving, so the whole handler is atomic.    *)
(*                                                                         *)
(* The stable maps of the code are variables of the same name.  A map from *)
(* transactions is a total function whose value for an absent key is a     *)
(* "none" value (NoTx, NoPrincipal, None); a map whose value is a function *)
(* of its key is the set of its keys.                                      *)
(***************************************************************************)
EXTENDS Integers, FiniteSets, FiniteSetsExt

CONSTANTS
    Tx,                     \* transaction ids (content hashes of payloads)
    Senders,                \* EVM sender addresses
    Principals,             \* Internet Computer principals that submit
    NoTx, NoPrincipal,      \* "absent" values
    Sender, Nonce,          \* decoded fields of a payload, functions on Tx
    MaxFee, PriorityFee,
    GasLimit,
    Dynamic,                \* payloads with a priority fee (not legacy)
    EthSigned,              \* payloads of kind EthSigned (the rest IcSynthetic)
    Submitters,             \* Submitters[t]: principals that may submit t
    MaxNonce,               \* bound: every nonce of a payload is below it
    MaxPendingGlobal,       \* MAX_PENDING_GLOBAL
    MaxPendingPerSender,    \* MAX_PENDING_PER_SENDER
    MaxPendingPerPrincipal, \* MAX_PENDING_PER_PRINCIPAL
    ReadyCandidateLimit,    \* READY_CANDIDATE_LIMIT
    DroppedRingCapacity,    \* DROPPED_RING_CAPACITY
    MaxTxsPerBlock,         \* MAX_TXS_PER_BLOCK
    MaxBlockGas,            \* bound: gas a block may use
    BlockGasLimit, MinPriorityFee, MinGasPrice, InitialBaseFee,
    SoftLimit,              \* update_instruction_soft_limit, 0 disables it
    DecodeCost, ExecCost,   \* instructions to prepare and to execute one tx
    Retains                 \* retain values prune calls use ({}: no pruning)

None == -1
SatSub(a, b) == IF a > b THEN a - b ELSE 0      \* u64::saturating_sub
Nonces == 0..MaxNonce

ASSUME TxAssumption ==
    /\ IsFiniteSet(Tx)
    /\ NoTx \notin Tx
    /\ NoPrincipal \notin Principals
    /\ Dynamic \subseteq Tx
    /\ EthSigned \subseteq Tx
    /\ Submitters \in [Tx -> SUBSET Principals]

ASSUME FieldAssumption ==
    /\ MaxNonce \in Nat
    /\ Sender \in [Tx -> Senders]
    /\ Nonce \in [Tx -> 0..(MaxNonce - 1)]
    /\ MaxFee \in [Tx -> Nat]
    /\ PriorityFee \in [Tx -> Nat]
    /\ GasLimit \in [Tx -> Nat \ {0}]
    /\ \A t \in Tx \ Dynamic : PriorityFee[t] = 0

ASSUME LimitAssumption ==
    /\ MaxPendingGlobal \in Nat \ {0}
    /\ MaxPendingPerSender \in Nat \ {0}
    /\ MaxPendingPerPrincipal \in Nat \ {0}
    /\ ReadyCandidateLimit \in Nat \ {0}
    /\ DroppedRingCapacity \in Nat \ {0}
    /\ MaxTxsPerBlock \in Nat \ {0}
    /\ {MaxBlockGas, BlockGasLimit, MinPriorityFee, MinGasPrice,
        InitialBaseFee, SoftLimit, DecodeCost, ExecCost} \subseteq Nat
    /\ Retains \subseteq Nat \ {0}

VARIABLES
    seen_tx,                   \* ids ever accepted and not yet pruned
    tx_store,                  \* [Tx -> submitting principal]: stored payloads
    eth_tx_hash_index,         \* EthSigned ids reachable by their eth hash
    tx_locs,                   \* [Tx -> location record]
    pending_by_sender_nonce,   \* [Senders \X Nonces -> tx]
    pending_meta_by_tx_id,     \* ids with a pending key
    pending_current_by_sender, \* [Senders -> tx]
    pending_min_nonce,         \* [Senders -> nonce]
    pending_fee_index,         \* [Tx -> effective gas price]
    principal_pending_count,   \* [Principals -> count]
    ready_queue,               \* [Tx -> queue seq]: executable transactions
    sender_expected_nonce,     \* [Senders -> nonce]: cached expected nonces
    next_queue_seq,            \* queue_meta.tail
    dropped_ring,              \* [Tx -> ring seq]: remembered drops
    dropped_next,              \* dropped_ring_state.next_seq
    accounts,                  \* [Senders -> account nonce] of the EVM state
    blocks,                    \* [stored block numbers -> included ids]
    tx_index, receipts,        \* [Tx -> block and index] of included ids
    head,                      \* number of the last block
    base_fee,
    next_prune_block           \* prune_state cursor

poolVars == << seen_tx, tx_store, eth_tx_hash_index, pending_by_sender_nonce,
               pending_meta_by_tx_id, pending_current_by_sender,
               pending_min_nonce, pending_fee_index, principal_pending_count,
               ready_queue, sender_expected_nonce, next_queue_seq >>
locVars == << tx_locs, dropped_ring, dropped_next >>
chainVars == << accounts, blocks, tx_index, receipts, head, base_fee >>
vars == << poolVars, locVars, chainVars, next_prune_block >>

-----------------------------------------------------------------------------
(* Locations (TxLoc) and keys.                                             *)

Loc(kind, seq, block, index) ==
    [kind |-> kind, seq |-> seq, block |-> block, index |-> index]
NoLoc == Loc("none", 0, 0, 0)
Queued(seq) == Loc("queued", seq, 0, 0)
Dropped == Loc("dropped", 0, 0, 0)
Included(block, index) == Loc("included", 0, block, index)

\* Where an included transaction is found (TxIndexEntry, and the same two
\* fields of its receipt); block 0 is the genesis head and holds none.
Entry(block, index) == [block |-> block, index |-> index]
NoEntry == Entry(0, 0)

PendingKey(t) == << Sender[t], Nonce[t] >>

-----------------------------------------------------------------------------
(* Fees (verified-core/src/fee.rs, base_fee.rs).  A price that the code    *)
(* computes as an absent Option is None.                                   *)

effective_gas_price(t, fee) ==
    IF PriorityFee[t] > MaxFee[t] \/ MaxFee[t] < fee THEN None
    ELSE IF fee + PriorityFee[t] < MaxFee[t] THEN fee + PriorityFee[t]
    ELSE MaxFee[t]

min_fee_satisfied(t, fee) ==
    IF t \in Dynamic
    THEN PriorityFee[t] >= MinPriorityFee /\ MaxFee[t] >= fee + MinPriorityFee
    ELSE MaxFee[t] >= MinGasPrice

FeeAdmissible(t, fee) ==
    min_fee_satisfied(t, fee) /\ effective_gas_price(t, fee) # None

\* The price kept by the fee index after a base-fee change: absent is 0.
IndexedPrice(t, fee) ==
    IF effective_gas_price(t, fee) = None THEN 0
    ELSE effective_gas_price(t, fee)

compute_next_base_fee(fee, gasUsed) ==
    LET target == BlockGasLimit \div 2
        change(delta) == ((fee * delta) \div target) \div 8
    IN  CASE target = 0 \/ gasUsed = target -> fee
          [] target # 0 /\ gasUsed > target ->
               fee + (IF change(gasUsed - target) = 0 THEN 1
                      ELSE change(gasUsed - target))
          [] target # 0 /\ gasUsed < target ->
               SatSub(fee, change(target - gasUsed))

-----------------------------------------------------------------------------
(* Leaving the mempool: advance_sender_after_tx for every transaction of D,*)
(* then mark_dropped_and_purge_payload for the dropped ones.  D may hold   *)
(* the several drops and inclusions of one block.                          *)

PendingAfter(D) ==
    [k \in Senders \X Nonces |->
        IF \E d \in D : PendingKey(d) = k THEN NoTx
        ELSE pending_by_sender_nonce[k]]

CurrentAfter(D) ==
    [s \in Senders |-> IF pending_current_by_sender[s] \in D THEN NoTx
                       ELSE pending_current_by_sender[s]]

\* next_pending_for_sender: the sender's pending nonces above n.
LaterNonces(s, n, D) ==
    {m \in Nonces : m > n /\ PendingAfter(D)[<< s, m >>] # NoTx}

\* should_refresh_pending_min: the sender's lowest pending nonce leaves.
Refreshed(s, D) ==
    \E d \in D : Sender[d] = s /\ pending_min_nonce[s] = Nonce[d]

MinOrNone(S) == IF S = {} THEN None ELSE Min(S)

MissingMinRefresh(D) == pending_min_nonce      \* mutant of MinNonceAfter
MinNonceAfter(D) ==
    [s \in Senders |-> IF Refreshed(s, D)
                       THEN MinOrNone(LaterNonces(s, pending_min_nonce[s], D))
                       ELSE pending_min_nonce[s]]

\* The sender's next pending transaction becomes executable in its place.
Promoted(t, D) ==
    /\ PendingAfter(D)[PendingKey(t)] = t
    /\ Refreshed(Sender[t], D)
    /\ MinNonceAfter(D)[Sender[t]] = Nonce[t]

ReadyAfter(D) ==
    [t \in Tx |-> IF t \in D THEN None
                  ELSE IF Promoted(t, D) THEN tx_locs[t].seq
                  ELSE ready_queue[t]]

StaleFeeIndex(D) == pending_fee_index          \* mutant of FeeIndexAfter
FeeIndexAfter(D) ==
    [t \in Tx |-> IF t \in D THEN None ELSE pending_fee_index[t]]

\* decrement_principal_pending_count_for_tx, which reads the payload.
MissingDecrement(D) == principal_pending_count \* mutant of CountAfter
CountAfter(D) ==
    [p \in Principals |->
        SatSub(principal_pending_count[p],
               Cardinality({d \in D : tx_store[d] = p}))]

\* push_dropped_ring for D in the order given by rank: the ring keeps the
\* last DroppedRingCapacity drops and forgets the location of older ones.
RingAfter(D, rank) ==
    LET oldest == dropped_next + Cardinality(D) - DroppedRingCapacity
        at(t) == IF t \in D THEN dropped_next + rank[t] ELSE dropped_ring[t]
    IN  [t \in Tx |-> IF at(t) < oldest THEN None ELSE at(t)]

ForgottenRingEviction(D, ring) ==              \* mutant of LocsAfter
    [t \in Tx |-> IF t \in D THEN Dropped ELSE tx_locs[t]]
LocsAfter(D, ring) ==
    [t \in Tx |->
        IF t \in D
        THEN IF ring[t] = None THEN NoLoc ELSE Dropped
        ELSE IF /\ dropped_ring[t] # None
                /\ ring[t] = None
                /\ tx_locs[t].kind = "dropped"
             THEN NoLoc ELSE tx_locs[t]]

StoreAfter(D) ==
    [t \in Tx |-> IF t \in D THEN NoPrincipal ELSE tx_store[t]]

-----------------------------------------------------------------------------
(* Submission: submit_tx and submit_ic_tx_input.                           *)

expected_nonce_for_sender(s) ==
    IF sender_expected_nonce[s] # None THEN sender_expected_nonce[s]
    ELSE accounts[s]

PendingForSender(s) ==
    {n \in Nonces : pending_by_sender_nonce[<< s, n >>] # NoTx}

PendingKeys ==
    {k \in Senders \X Nonces : pending_by_sender_nonce[k] # NoTx}

\* The checks before the nonce rule: not seen, decodable, fee high enough.
WithoutSeenCheck(t, p) ==                      \* mutant of Submittable
    p \in Submitters[t] /\ FeeAdmissible(t, base_fee)
Submittable(t, p) ==
    /\ t \notin seen_tx
    /\ p \in Submitters[t]
    /\ FeeAdmissible(t, base_fee)

NonceExpected(t) == Nonce[t] = expected_nonce_for_sender(Sender[t])

HasCurrent(s) == pending_current_by_sender[s] # NoTx

\* NonceDecision::Replace: the sender's pending transaction still has a
\* price at the current base fee, and t outbids it.
Outbids(t, old) ==
    /\ tx_store[old] # NoPrincipal
    /\ effective_gas_price(old, base_fee) # None
    /\ effective_gas_price(t, base_fee) > effective_gas_price(old, base_fee)

UnderCaps(t, p) ==
    /\ Cardinality(PendingForSender(Sender[t])) < MaxPendingPerSender
    /\ principal_pending_count[p] < MaxPendingPerPrincipal

GlobalRoom == Cardinality(PendingKeys) < MaxPendingGlobal

\* The fee index's first entries: an eviction takes one of them (the code
\* breaks ties by transaction hash).
LowestFee ==
    {d \in Tx : /\ pending_fee_index[d] # None
                /\ \A u \in Tx : pending_fee_index[u] # None =>
                       pending_fee_index[d] <= pending_fee_index[u]}

Evictable(t, d) ==
    d \in LowestFee /\ effective_gas_price(t, base_fee) > pending_fee_index[d]

\* promote_if_next_nonce: the submission becomes the sender's executable one.
classify_promote(n, minNonce) == minNonce = None \/ n < minNonce

\* The writes of an accepted submission, after the transactions of D left.
Enqueue(t, p, D, minNonce, ready) ==
    LET s == Sender[t]
        seq == next_queue_seq
        promoted == classify_promote(Nonce[t], minNonce[s])
        demoted == IF promoted /\ minNonce[s] # None
                   THEN {PendingAfter(D)[<< s, minNonce[s] >>]} ELSE {}
        ring == RingAfter(D, [d \in D |-> 0])
    IN  /\ seen_tx' = seen_tx \cup {t}
        /\ tx_store' = [StoreAfter(D) EXCEPT ![t] = p]
        /\ eth_tx_hash_index' =
             (eth_tx_hash_index \ D) \cup ({t} \cap EthSigned)
        /\ pending_current_by_sender' = [CurrentAfter(D) EXCEPT ![s] = t]
        /\ next_queue_seq' = next_queue_seq + 1
        /\ tx_locs' = [LocsAfter(D, ring) EXCEPT ![t] = Queued(seq)]
        /\ dropped_ring' = ring
        /\ dropped_next' = dropped_next + Cardinality(D)
        /\ pending_by_sender_nonce' =
             [PendingAfter(D) EXCEPT ![PendingKey(t)] = t]
        /\ pending_meta_by_tx_id' = (pending_meta_by_tx_id \ D) \cup {t}
        /\ principal_pending_count' = [CountAfter(D) EXCEPT ![p] = @ + 1]
        /\ pending_fee_index' =
             [FeeIndexAfter(D) EXCEPT ![t] = effective_gas_price(t, base_fee)]
        /\ pending_min_nonce' =
             IF promoted THEN [minNonce EXCEPT ![s] = Nonce[t]] ELSE minNonce
        /\ ready_queue' =
             [x \in Tx |-> IF x = t /\ promoted THEN seq
                           ELSE IF x \in demoted THEN None ELSE ready[x]]
        /\ sender_expected_nonce' = [sender_expected_nonce EXCEPT
                                       ![s] = expected_nonce_for_sender(s)]
        /\ UNCHANGED << chainVars, next_prune_block >>

\* Accepted with room in the queue.
SubmitAccept(t, p) ==
    /\ Submittable(t, p) /\ NonceExpected(t) /\ ~HasCurrent(Sender[t])
    /\ UnderCaps(t, p) /\ GlobalRoom
    /\ PendingAfter({})[PendingKey(t)] = NoTx
    /\ Enqueue(t, p, {}, pending_min_nonce, ready_queue)

\* Accepted into a full queue: evict_lowest_fee_pending makes room.
SubmitEvict(t, p, d) ==
    /\ Submittable(t, p) /\ NonceExpected(t) /\ ~HasCurrent(Sender[t])
    /\ UnderCaps(t, p) /\ ~GlobalRoom
    /\ Evictable(t, d)
    /\ PendingAfter({d})[PendingKey(t)] = NoTx
    /\ Enqueue(t, p, {d}, MinNonceAfter({d}), ReadyAfter({d}))

\* A better price for the same nonce: replace_pending_for_sender, then the
\* submission; no cap is enforced on this path.
SubmitReplace(t, p) ==
    LET s == Sender[t]
        old == pending_current_by_sender[s]
    IN  /\ Submittable(t, p) /\ NonceExpected(t) /\ HasCurrent(s)
        /\ Outbids(t, old)
        /\ PendingAfter({old})[PendingKey(t)] = NoTx
        /\ Enqueue(t, p, {old}, [pending_min_nonce EXCEPT ![s] = None],
                   [ready_queue EXCEPT ![old] = None])

\* Refused after the fee checks (nonce too low, gap, conflict, or a cap):
\* expected_nonce_for_sender has cached the account nonce by then.
SubmitRefused(t, p) ==
    LET s == Sender[t]
    IN  /\ Submittable(t, p)
        /\ \/ ~NonceExpected(t)
           \/ NonceExpected(t) /\ HasCurrent(s)
              /\ ~Outbids(t, pending_current_by_sender[s])
           \/ NonceExpected(t) /\ ~HasCurrent(s) /\ ~UnderCaps(t, p)
           \/ NonceExpected(t) /\ ~HasCurrent(s) /\ UnderCaps(t, p)
              /\ ~GlobalRoom /\ ~(\E d \in Tx : Evictable(t, d))
        /\ sender_expected_nonce[s] = None
        /\ sender_expected_nonce' =
             [sender_expected_nonce EXCEPT ![s] = expected_nonce_for_sender(s)]
        /\ UNCHANGED << seen_tx, tx_store, eth_tx_hash_index,
             pending_by_sender_nonce, pending_meta_by_tx_id,
             pending_current_by_sender, pending_min_nonce, pending_fee_index,
             principal_pending_count, ready_queue, next_queue_seq,
             locVars, chainVars, next_prune_block >>

-----------------------------------------------------------------------------
(* Block production.                                                       *)

ReadyTxs == {t \in Tx : ready_queue[t] # None}

\* Order of the keys of ready_queue (ReadyKey).
ReadyBefore(t, u) ==
    \/ MaxFee[t] > MaxFee[u]
    \/ MaxFee[t] = MaxFee[u] /\ PriorityFee[t] > PriorityFee[u]
    \/ /\ MaxFee[t] = MaxFee[u] /\ PriorityFee[t] = PriorityFee[u]
       /\ ready_queue[t] < ready_queue[u]

\* Order of the block (ReadyCandidate::cmp_priority).
CandidatePrice(t) ==
    IF tx_store[t] = NoPrincipal THEN 0 ELSE IndexedPrice(t, base_fee)

Before(t, u) ==
    \/ CandidatePrice(t) > CandidatePrice(u)
    \/ CandidatePrice(t) = CandidatePrice(u) /\ ready_queue[t] < ready_queue[u]

RankIn(S, t) == Cardinality({u \in S : Before(u, t)})

Window ==
    {t \in ReadyTxs :
        Cardinality({u \in ReadyTxs : ReadyBefore(u, t)}) < ReadyCandidateLimit}

select_ready_candidates(W) == {t \in W : RankIn(W, t) < MaxTxsPerBlock}

\* The first loop of produce_block: candidates looked at before the
\* instruction soft limit, split into the executable ones and the drops.
Prepared(C) ==
    {t \in C : SoftLimit = 0 \/ RankIn(C, t) * DecodeCost < SoftLimit}

Staged(P) ==
    {t \in P : tx_store[t] # NoPrincipal /\ FeeAdmissible(t, base_fee)}

\* should_stop_execution and remaining_instruction_budget, seen just before
\* t is executed, when n candidates were prepared and S of them staged.
BudgetOffByOne(n, S, t) ==                     \* mutant of BudgetLeft
    SoftLimit = 0 \/ n * DecodeCost + RankIn(S, t) * ExecCost + 1 < SoftLimit
BudgetLeft(n, S, t) ==
    SoftLimit = 0 \/ n * DecodeCost + RankIn(S, t) * ExecCost < SoftLimit

\* The gas outcome of a block that executes ok is the block_gas_used that
\* each of them leaves behind; earlier ones decide whether t is reached and
\* whether its gas limit still fits.
GasLeft(ok, used, t) ==
    BlockGasLimit = 0
    \/ \A u \in ok : Before(u, t) => used[u] < BlockGasLimit

tx_fits_block_gas(ok, used, t) ==
    \/ BlockGasLimit = 0
    \/ /\ GasLimit[t] <= BlockGasLimit
       /\ \A u \in ok : Before(u, t) => used[u] + GasLimit[t] <= BlockGasLimit

\* t itself used some gas, at most its gas limit.
GasOfOne(ok, used, t) ==
    /\ \A u \in ok : Before(u, t) => used[u] < used[t]
    /\ \/ used[t] <= GasLimit[t]
       \/ \E u \in ok : Before(u, t) /\ used[t] <= used[u] + GasLimit[t]

\* The second loop reaches these of the n prepared transactions, S of which
\* are staged: each one is included (those of ok) or dropped.
Handled(n, S, ok, used) ==
    {t \in S : BudgetLeft(n, S, t) /\ GasLeft(ok, used, t)}

\* Outcomes of the EVM for the block: ok is executed (with any status).  The
\* EVM executes a transaction only at its account's nonce.
ExecOutcome(ok, used) ==
    \A t \in ok : /\ Nonce[t] = accounts[Sender[t]]
                  /\ tx_fits_block_gas(ok, used, t)
                  /\ GasOfOne(ok, used, t)

\* Drops are applied in order: those of the first loop, then of the second.
DropRank(early, late) ==
    [d \in early \cup late |->
        IF d \in early THEN RankIn(early, d)
        ELSE Cardinality(early) + RankIn(late, d)]

\* What both outcomes of produce_block do to the mempool: the drops D and the
\* included transactions ok leave it, the payloads of D are purged.
LeaveMempool(D, ok, rank) ==
    LET gone == D \cup ok
        ring == RingAfter(D, rank)
        locs == LocsAfter(D, ring)
    IN  /\ pending_by_sender_nonce' = PendingAfter(gone)
        /\ pending_meta_by_tx_id' = pending_meta_by_tx_id \ gone
        /\ pending_current_by_sender' = CurrentAfter(gone)
        /\ pending_min_nonce' = MinNonceAfter(gone)
        /\ ready_queue' = ReadyAfter(gone)
        /\ principal_pending_count' = CountAfter(gone)
        /\ tx_store' = StoreAfter(D)
        /\ eth_tx_hash_index' = eth_tx_hash_index \ D
        /\ dropped_ring' = ring
        /\ dropped_next' = dropped_next + Cardinality(D)
        /\ tx_locs' = [t \in Tx |-> IF t \in ok
                                    THEN Included(head + 1, RankIn(ok, t))
                                    ELSE locs[t]]
        /\ UNCHANGED << seen_tx, next_queue_seq, next_prune_block >>

\* commit_state_diff_to_db: every executed transaction moves its sender's
\* nonce by one.
Bump(ok, s) == Cardinality({t \in ok : Sender[t] = s})

LostStateDiff(ok) == accounts                  \* mutant of AccountsAfter
AccountsAfter(ok) == [s \in Senders |-> accounts[s] + Bump(ok, s)]

\* bump_expected_nonce_on_included: an absent entry is read from the account,
\* which the state diff has already moved.
MissingNonceBump(ok) == sender_expected_nonce  \* mutant of ExpectedNonceAfter
ExpectedNonceAfter(ok) ==
    [s \in Senders |-> IF Bump(ok, s) = 0 THEN sender_expected_nonce[s]
                       ELSE IF sender_expected_nonce[s] # None
                       THEN sender_expected_nonce[s] + Bump(ok, s)
                       ELSE accounts[s] + 2 * Bump(ok, s)]

\* rebuild_pending_fee_index_for_base_fee, after D was dropped and ok
\* included, at the next block's base fee.
MissingRebuild(D, ok, fee) ==                  \* mutant of RebuiltFeeIndex
    [t \in Tx |-> IF t \in D \cup ok THEN None ELSE pending_fee_index[t]]
RebuiltFeeIndex(D, ok, fee) ==
    [t \in Tx |-> IF /\ PendingAfter(D \cup ok)[PendingKey(t)] = t
                     /\ StoreAfter(D)[t] # NoPrincipal
                  THEN IndexedPrice(t, fee) ELSE None]

\* produce_block with at least one executed transaction: early and late are
\* the drops of its two loops.
ProduceBlock(early, late, ok, gasUsed) ==
    LET D == early \cup late
        fee == compute_next_base_fee(base_fee, gasUsed)
    IN  /\ LeaveMempool(D, ok, DropRank(early, late))
        /\ accounts' = AccountsAfter(ok)
        /\ sender_expected_nonce' = ExpectedNonceAfter(ok)
        /\ head' = head + 1
        /\ blocks' = [n \in DOMAIN blocks \cup {head + 1} |->
                        IF n = head + 1 THEN ok ELSE blocks[n]]
        /\ tx_index' = [t \in Tx |-> IF t \in ok
                                     THEN Entry(head + 1, RankIn(ok, t))
                                     ELSE tx_index[t]]
        /\ receipts' = [t \in Tx |-> IF t \in ok
                                     THEN Entry(head + 1, RankIn(ok, t))
                                     ELSE receipts[t]]
        /\ base_fee' = fee
        /\ pending_fee_index' = RebuiltFeeIndex(D, ok, fee)

\* produce_block without one (NoExecutableTx): only the drops are applied.
DropOnly(early, late) ==
    LET D == early \cup late
    IN  /\ D # {}
        /\ LeaveMempool(D, {}, DropRank(early, late))
        /\ pending_fee_index' = FeeIndexAfter(D)
        /\ UNCHANGED << sender_expected_nonce, chainVars >>

\* The second loop, over the staged transactions S of the prepared P, for
\* every outcome of the EVM.
Execute(P, S) ==
    \E ok \in SUBSET S : \E used \in [ok -> 1..MaxBlockGas] :
        LET handled == Handled(Cardinality(P), S, ok, used)
        IN  /\ ok \subseteq handled
            /\ ExecOutcome(ok, used)
            /\ \/ ok = {} /\ DropOnly(P \ S, handled)
               \/ \E last \in ok :
                     /\ \A t \in ok : used[t] <= used[last]
                     /\ ProduceBlock(P \ S, handled \ ok, ok, used[last])

\* mining_tick's call of produce_block.
Produce ==
    \E P \in {Prepared(select_ready_candidates(Window))} :
        \E S \in {Staged(P)} : Execute(P, S)

-----------------------------------------------------------------------------
(* Pruning: one iteration of the loop of prune_blocks.  A call may stop    *)
(* after any iteration (max_ops), so a call is a run of these steps.       *)

PruneIgnoresRetain(retain) ==                  \* mutant of PruneDue
    head > retain /\ next_prune_block <= head
PruneDue(retain) ==
    head > retain /\ next_prune_block <= head - retain

\* The cursor skips a block number with no stored block (the genesis).
PruneSkip(retain) ==
    /\ PruneDue(retain)
    /\ next_prune_block \notin DOMAIN blocks
    /\ next_prune_block' = next_prune_block + 1
    /\ UNCHANGED << poolVars, locVars, chainVars >>

\* The pointer maps lose the pruned block's transactions.
KeptEntries(P, entries) == entries             \* mutant of Without
Without(P, entries) ==
    [t \in Tx |-> IF t \in P THEN NoEntry ELSE entries[t]]

PruneBlock(retain) ==
    LET P == blocks[next_prune_block]
    IN  /\ PruneDue(retain)
        /\ next_prune_block \in DOMAIN blocks
        /\ next_prune_block' = next_prune_block + 1
        /\ blocks' = [n \in DOMAIN blocks \ {next_prune_block} |-> blocks[n]]
        /\ pending_fee_index' = FeeIndexAfter(P)
        /\ principal_pending_count' = CountAfter(P)
        /\ tx_index' = Without(P, tx_index)
        /\ receipts' = Without(P, receipts)
        /\ tx_locs' = [t \in Tx |-> IF t \in P THEN NoLoc ELSE tx_locs[t]]
        /\ eth_tx_hash_index' = eth_tx_hash_index \ P
        /\ tx_store' = StoreAfter(P)
        /\ seen_tx' = seen_tx \ P
        /\ UNCHANGED << pending_by_sender_nonce, pending_meta_by_tx_id,
             pending_current_by_sender, pending_min_nonce, ready_queue,
             sender_expected_nonce, next_queue_seq, dropped_ring,
             dropped_next, accounts, head, base_fee >>

-----------------------------------------------------------------------------
Init ==
    /\ seen_tx = {} /\ eth_tx_hash_index = {} /\ pending_meta_by_tx_id = {}
    /\ tx_store = [t \in Tx |-> NoPrincipal]
    /\ tx_locs = [t \in Tx |-> NoLoc]
    /\ pending_by_sender_nonce = [k \in Senders \X Nonces |-> NoTx]
    /\ pending_current_by_sender = [s \in Senders |-> NoTx]
    /\ pending_min_nonce = [s \in Senders |-> None]
    /\ pending_fee_index = [t \in Tx |-> None]
    /\ principal_pending_count = [p \in Principals |-> 0]
    /\ ready_queue = [t \in Tx |-> None]
    /\ sender_expected_nonce = [s \in Senders |-> None]
    /\ next_queue_seq = 0 /\ dropped_next = 0
    /\ dropped_ring = [t \in Tx |-> None]
    /\ accounts = [s \in Senders |-> 0]
    /\ blocks = [n \in {} |-> {}]
    /\ tx_index = [t \in Tx |-> NoEntry]
    /\ receipts = [t \in Tx |-> NoEntry]
    /\ head = 0 /\ next_prune_block = 0
    /\ base_fee = InitialBaseFee

Submit ==
    \E t \in Tx : \E p \in Principals :
        \/ SubmitAccept(t, p)
        \/ \E d \in Tx : SubmitEvict(t, p, d)
        \/ SubmitReplace(t, p)
        \/ SubmitRefused(t, p)

Prune == \E retain \in Retains : PruneSkip(retain) \/ PruneBlock(retain)

Next == Submit \/ Produce \/ Prune

Spec == Init /\ [][Next]_vars

\* The mining timer fires again while a transaction is ready.
FairSpec == Spec /\ WF_vars(Produce)

-----------------------------------------------------------------------------
(* Properties.                                                             *)

LocKinds == {"none", "queued", "included", "dropped"}

\* The shape of every stable map of the pipeline.
TypeOK ==
    /\ seen_tx \subseteq Tx
    /\ tx_store \in [Tx -> Principals \cup {NoPrincipal}]
    /\ eth_tx_hash_index \subseteq Tx
    /\ tx_locs \in [Tx -> [kind : LocKinds, seq : Nat, block : Nat, index : Nat]]
    /\ pending_by_sender_nonce \in [Senders \X Nonces -> Tx \cup {NoTx}]
    /\ pending_meta_by_tx_id \subseteq Tx
    /\ pending_current_by_sender \in [Senders -> Tx \cup {NoTx}]
    /\ pending_min_nonce \in [Senders -> Nonces \cup {None}]
    /\ pending_fee_index \in [Tx -> Nat \cup {None}]
    /\ principal_pending_count \in [Principals -> Nat]
    /\ ready_queue \in [Tx -> Nat \cup {None}]
    /\ sender_expected_nonce \in [Senders -> Nat \cup {None}]
    /\ next_queue_seq \in Nat
    /\ dropped_ring \in [Tx -> Nat \cup {None}]
    /\ dropped_next \in Nat
    /\ accounts \in [Senders -> Nat]
    /\ DOMAIN blocks \subseteq 1..head
    /\ \A n \in DOMAIN blocks : blocks[n] \subseteq Tx
    /\ tx_index \in [Tx -> [block : Nat, index : Nat]]
    /\ receipts \in [Tx -> [block : Nat, index : Nat]]
    /\ head \in Nat
    /\ base_fee \in Nat
    /\ next_prune_block \in Nat

\* The mempool's redundant indexes describe one set of transactions: what one
\* map calls pending every map calls pending, under the same key, with its
\* payload kept (debug_assert_queued_adapter_effects and the tests'
\* assert_runtime_indexes_match_pending).  A handler that forgets one map on
\* one of its paths strands a transaction or leaves a dangling entry.
PendingIndexesAgree ==
    /\ \A t \in Tx :
         LET pending == t \in pending_meta_by_tx_id
         IN  /\ pending <=> pending_by_sender_nonce[PendingKey(t)] = t
             /\ pending <=> pending_current_by_sender[Sender[t]] = t
             /\ pending <=> pending_fee_index[t] # None
             /\ pending <=> tx_locs[t].kind = "queued"
             /\ pending => tx_store[t] # NoPrincipal /\ t \in seen_tx
    /\ \A k \in Senders \X Nonces :
         pending_by_sender_nonce[k] # NoTx =>
             PendingKey(pending_by_sender_nonce[k]) = k
    /\ \A s \in Senders :
         HasCurrent(s) => Sender[pending_current_by_sender[s]] = s

\* No pending transaction is stranded: each one is in the ready queue under
\* the sequence number its location records, and is its sender's lowest
\* pending nonce (promote_if_next_nonce, advance_sender_after_tx).
NothingStranded ==
    /\ \A t \in Tx :
         ready_queue[t] = IF t \in pending_meta_by_tx_id
                          THEN tx_locs[t].seq ELSE None
    /\ \A s \in Senders :
         pending_min_nonce[s] = IF HasCurrent(s)
                                THEN Nonce[pending_current_by_sender[s]]
                                ELSE None

\* A cached expected nonce is the account's nonce, and a pending transaction
\* carries it: the mempool never holds a transaction the EVM would refuse for
\* its nonce, over any mix of inclusions, drops, replacements and refusals.
ExpectedNonceIsAccountNonce ==
    /\ \A s \in Senders :
         sender_expected_nonce[s] # None => sender_expected_nonce[s] = accounts[s]
    /\ \A t \in pending_meta_by_tx_id : Nonce[t] = accounts[Sender[t]]

\* A transaction's location, receipt and index entry name the stored block
\* that lists it, and no two transactions share a position
\* (assert_block_persist_invariants of the tests), also while older blocks
\* are being pruned.
IncludedIffInStoredBlock ==
    /\ \A t \in Tx :
         /\ tx_locs[t].kind = "included" <=>
              \E n \in DOMAIN blocks : t \in blocks[n]
         /\ tx_locs[t].kind # "included" => tx_index[t] = NoEntry
         /\ receipts[t] = tx_index[t]
    /\ \A n \in DOMAIN blocks : \A t \in blocks[n] :
         /\ tx_locs[t].kind = "included" /\ tx_locs[t].block = n
         /\ tx_index[t] = Entry(n, tx_locs[t].index)
         /\ tx_index[t].index < Cardinality(blocks[n])
         /\ \A u \in blocks[n] : tx_index[u] = tx_index[t] => u = t

\* A payload is kept exactly for queued and included transactions, a drop is
\* remembered exactly while the ring holds it, and the eth-hash index covers
\* exactly the stored EthSigned payloads (verify_eth_tx_hash_index).
PayloadFollowsLocation ==
    /\ \A t \in Tx :
         /\ tx_store[t] # NoPrincipal <=>
              tx_locs[t].kind \in {"queued", "included"}
         /\ tx_locs[t].kind = "dropped" <=> dropped_ring[t] # None
         /\ tx_locs[t].kind # "none" => t \in seen_tx
         /\ t \in eth_tx_hash_index <=> t \in EthSigned /\ tx_store[t] # NoPrincipal
    /\ Cardinality({t \in Tx : dropped_ring[t] # None}) <= DroppedRingCapacity

\* What is stored about a transaction follows the blocks that are stored.
StoredFollowsBlocks == IncludedIffInStoredBlock /\ PayloadFollowsLocation

\* The fee index holds the price each pending transaction would pay at the
\* current base fee, so that eviction compares fresh prices after a base-fee
\* change (rebuild_pending_fee_index_for_base_fee).
FeeIndexIsFresh ==
    \A t \in pending_meta_by_tx_id :
        pending_fee_index[t] = IndexedPrice(t, base_fee)

\* What the mempool caches of the chain is never stale: the nonces and the
\* prices are those of the accounts and of the base fee after every block.
CachesAreFresh == ExpectedNonceIsAccountNonce /\ FeeIndexIsFresh

PendingOf(p) == {t \in pending_meta_by_tx_id : tx_store[t] = p}

\* A principal's counter is the number of its pending transactions
\* (assert_runtime_indexes_match_pending): it is what the per-principal cap
\* reads, and every path in and out of the queue must keep it.
PrincipalCountExact ==
    \A p \in Principals : principal_pending_count[p] = Cardinality(PendingOf(p))

\* Even when blocks are pruned the counter never exceeds the true number: no
\* principal is refused for transactions it does not have.
PrincipalCountNeverOver ==
    \A p \in Principals : principal_pending_count[p] <= Cardinality(PendingOf(p))

\* A step that includes a transaction finds the account at its nonce and
\* leaves it one above: with nonces never decreasing, a transaction is
\* executed at most once, even after pruning has forgotten that it was seen.
InclusionConsumesNonce ==
    [][ /\ \A s \in Senders : accounts'[s] >= accounts[s]
        /\ \A t \in Tx :
             tx_locs'[t].kind = "included" /\ tx_locs[t].kind # "included" =>
               /\ Nonce[t] = accounts[Sender[t]]
               /\ accounts'[Sender[t]] = Nonce[t] + 1 ]_vars

\* The location of a transaction only moves forward: queued, then included or
\* dropped, then forgotten; an included one is forgotten only by pruning its
\* block, and a forgotten one never comes back as included without a new
\* submission.
LocationMovesForward ==
    [][ \A t \in Tx :
          LET from == tx_locs[t].kind
              to == tx_locs'[t].kind
          IN  from # to =>
                \/ from = "none" /\ to = "queued"
                \/ from = "queued" /\ to \in {"included", "dropped", "none"}
                \/ from = "included" /\ to = "none"
                     /\ tx_locs[t].block \notin DOMAIN blocks'
                \/ from = "dropped" /\ to = "none" ]_vars

\* Stored blocks are immutable, the head advances by one, and blocks are
\* forgotten oldest first, never the head.
HistoryIsAppendOnly ==
    [][ /\ head' \in {head, head + 1}
        /\ \A n \in DOMAIN blocks \cap DOMAIN blocks' : blocks'[n] = blocks[n]
        /\ \A n \in DOMAIN blocks \ DOMAIN blocks' :
             n < head /\ \A m \in DOMAIN blocks' : n < m ]_vars

\* No block, prune or submission rewrites what was said of a transaction or
\* of a block.
HistoryMovesForward == LocationMovesForward /\ HistoryIsAppendOnly

\* Every queued transaction is eventually included, dropped, replaced or
\* evicted, provided the mining timer keeps firing.
QueuedEventuallyLeaves ==
    \A t \in Tx : tx_locs[t].kind = "queued" ~> tx_locs[t].kind # "queued"
=============================================================================
