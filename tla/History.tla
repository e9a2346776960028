------------------------------ MODULE History ------------------------------
(***************************************************************************)
(* The stored history: the blob store the blocks, receipts, indexes and    *)
(* traces live in (crates/evm-db/src/blob_store.rs), the pruning of old    *)
(* blocks with its journal (crates/evm-core/src/chain.rs), and the readers *)
(* of the history: the export to the indexer (crates/evm-core/src/         *)
(* export.rs) and the JSON-RPC lookups (crates/ic-evm-rpc/src/lib.rs).     *)
(*                                                                         *)
(* Block n is the n-th one produced, transaction <<n, i>> the i-th of its  *)
(* transactions.  A prune is one message: nothing else happens while job   *)
(* is set.  No caller quarantines a blob or frees it but reclaim_for_prune,*)
(* so Quarantine and the free list are left out.                           *)
(***************************************************************************)
EXTENDS Integers, FiniteSets, SequencesExt, FiniteSetsExt, Functions

CONSTANTS
    Shapes,             \* a block: per transaction its logs (does the log
                        \* match the filter?), its trace and receipt class
    Gaps,               \* seconds between two blocks
    Policies,           \* the policies an operator sets
    Manual,             \* <<retain, max_ops>> of prune_blocks calls
    EventInterval,      \* PRUNE_EVENT_BLOCK_INTERVAL
    NonBlobBytes,       \* the pages of the maps, in units of the class size
    OtherRows,          \* rows of a transaction in seen_tx and the indexes
    StopPoints,         \* where a prune may stop before its next write
    ExportBytes,        \* max_bytes of the indexer
    MaxExportBlocks,
    LogLimit, MaxScannedReceipts, MaxHashScan,
    MaxBlocks, MaxPolicies      \* bounds

(* Sizes, classes, times and limits are numbers of the code's unsigned     *)
(* types; the smallest class is not empty (size_class.rs).                 *)
ASSUME HistoryAssumption ==
    /\ Shapes \subseteq Seq([logs : Seq(BOOLEAN), traced : BOOLEAN, class : Nat \ {0}])
    /\ Gaps \subseteq Nat
    /\ Policies \subseteq [target : Nat, retain_days : Nat, retain_blocks : Nat, max_ops : Nat]
    /\ Manual \subseteq Nat \X Nat
    /\ NonBlobBytes \in Nat /\ MaxHashScan \in Nat

None == -1              \* u64::MAX: pruned_before, journal block, oldest
Idle == [pc |-> "idle"]
Nowhere == [block |-> None, segment |-> 0, offset |-> 0]    \* cursor None

VARIABLES
    made,               \* the blocks as they were produced
    blob,               \* alloc_table, the arena, arena_end and usage_totals
    blocks, receipts, tx_index, internal_traces, tx_locs, tx_store,
    prune_state,        \* next_prune_block, pruned_before, journal_block
    prune_journal,
    config,             \* prune_config
    job,                \* the prune message that runs
    reader,             \* "export" or "logs": the reader of this behaviour
    indexer,            \* the indexer's cursor and its last answer
    pager,              \* the cursor of eth_getLogs pages, what they held
    changes             \* policies set so far

tables == <<blocks, receipts, tx_index, internal_traces, tx_locs, tx_store>>
readers == <<reader, indexer, pager>>
vars == <<made, blob, tables, prune_state, prune_journal, config, job,
          readers, changes>>

head == Len(made)
HeadTime == IF made = <<>> THEN 0 ELSE made[head].time

Empty == [x \in {} |-> 0]
Drop(f, S) == [x \in DOMAIN f \ S |-> f[x]]
With(f, x, y) == [z \in DOMAIN f \cup {x} |-> IF z = x THEN y ELSE f[z]]

NoPolicy == [target |-> 0, retain_days |-> 0, retain_blocks |-> 0, max_ops |-> 5000]

Init ==
    /\ made = <<>>
    /\ blob = [alloc |-> Empty, arena |-> Empty, end |-> 0,
               totals |-> [used |-> 0, free |-> 0]]
    /\ blocks = Empty /\ receipts = Empty /\ tx_index = Empty
    /\ internal_traces = Empty /\ tx_locs = Empty /\ tx_store = {}
    /\ prune_state = [next |-> 0, before |-> None, journal |-> None]
    /\ prune_journal = Empty
    /\ config = [enabled |-> FALSE, running |-> FALSE, policy |-> NoPolicy,
                 oldest |-> None, oldest_time |-> None]
    /\ job = Idle
    /\ reader \in {"export", "logs"}
    /\ indexer = [cursor |-> Nowhere, answer |-> "none"]
    /\ pager = [state |-> "new", from |-> 0, to |-> 0, items |-> <<>>,
                cursor |-> [block |-> 0, tx |-> 1, log |-> 0]]
    /\ changes = 0

-----------------------------------------------------------------------------
(* The blob store. *)

FreeKeys(b, class) == {k \in DOMAIN b.alloc : k[1] = class /\ b.alloc[k].state = "Free"}

(* pop_free, allocate and write: the first free blob of the class, under a *)
(* new generation, else the end of the arena.                              *)
allocate(b, class) ==
    LET free == FreeKeys(b, class)
    IN  IF free # {}
        THEN LET key == CHOOSE k \in free : \A j \in free : k[2] <= j[2]
             IN  [key |-> key, gen |-> b.alloc[key].gen + 1]
        ELSE [key |-> <<class, b.end>>, gen |-> 1]

store_bytes(b, class, data) ==
    LET ptr == allocate(b, class)
        reused == ptr.key \in DOMAIN b.alloc
    IN  [alloc |-> With(b.alloc, ptr.key, [gen |-> ptr.gen, state |-> "Used"]),
         arena |-> With(b.arena, ptr.key, data),
         end |-> IF reused THEN b.end ELSE b.end + class,
         totals |-> [used |-> b.totals.used + class,
                     free |-> b.totals.free - (IF reused THEN class ELSE 0)]]

read(ptr) ==
    IF /\ ptr.key \in DOMAIN blob.alloc
       /\ blob.alloc[ptr.key].gen = ptr.gen
       /\ blob.alloc[ptr.key].state # "Free"
    THEN blob.arena[ptr.key]
    ELSE [kind |-> "error", id |-> <<None, 0>>]

Size(keys) == SumFunctionOnSet([k \in keys |-> k[1]], keys)

(* reclaim_for_prune of every pointer; one that is Free already is left.   *)
reclaim_for_prune(b, ptrs) ==
    LET live == {k \in {p.key : p \in ptrs} : b.alloc[k].state = "Used"}
    IN  [b EXCEPT
            !.alloc = [k \in DOMAIN b.alloc |->
                IF k \in live THEN [gen |-> b.alloc[k].gen, state |-> "Free"] ELSE b.alloc[k]],
            !.totals = [used |-> @.used - Size(live), free |-> @.free + Size(live)]]

-----------------------------------------------------------------------------
(* A block and what is stored of it. *)

TxIds(n) == {<<n, i>> : i \in 1..Len(made[n].txs)}
Tx(t) == made[t[1]].txs[t[2]]

load_block(n) == n \in DOMAIN blocks /\ read(blocks[n]) = [kind |-> "block", id |-> <<n, 0>>]
load_receipt(t) == t \in DOMAIN receipts /\ read(receipts[t]) = [kind |-> "receipt", id |-> t]

(* One blob more: acc is the store and the pointers so far. *)
Stored(acc, class, kind, id) ==
    [blob |-> store_bytes(acc.blob, class, [kind |-> kind, id |-> id]),
     ptrs |-> With(acc.ptrs, <<kind, id>>, allocate(acc.blob, class))]

StoredTx(acc, t, tx) ==
    LET both == Stored(Stored(acc, 1, "index", t), tx.class, "receipt", t)
    IN  IF tx.traced THEN Stored(both, 1, "traces", t) ELSE both

(* What produce_block stores, in order: each transaction's index entry,    *)
(* receipt and traces, and then the block.                                 *)
StoreAll(n, txs) ==
    LET after[i \in 0..Len(txs)] ==
            IF i = 0 THEN [blob |-> blob, ptrs |-> Empty]
            ELSE StoredTx(after[i - 1], <<n, i>>, txs[i])
    IN  Stored(after[Len(txs)], 1, "block", <<n, 0>>)

(* produce_block's persistence, and the prune of mining_tick after it: the *)
(* message goes on with prune_tick when the block number is due.           *)
Produce(txs, gap) ==
    LET n == head + 1
        out == StoreAll(n, txs)
        new == {<<n, i>> : i \in 1..Len(txs)}
        traced == {t \in new : txs[t[2]].traced}
        P(kind, t) == out.ptrs[<<kind, t>>]
    IN  /\ job = Idle
        /\ head < MaxBlocks
        /\ made' = Append(made, [txs |-> txs, time |-> HeadTime + gap])
        /\ blob' = out.blob
        /\ blocks' = With(blocks, n, P("block", <<n, 0>>))
        /\ receipts' = [t \in DOMAIN receipts \cup new |->
                            IF t \in new THEN P("receipt", t) ELSE receipts[t]]
        /\ tx_index' = [t \in DOMAIN tx_index \cup new |->
                            IF t \in new THEN P("index", t) ELSE tx_index[t]]
        /\ internal_traces' = [t \in DOMAIN internal_traces \cup traced |->
                            IF t \in traced THEN P("traces", t) ELSE internal_traces[t]]
        /\ tx_locs' = [t \in DOMAIN tx_locs \cup new |-> t[1]]
        /\ tx_store' = tx_store \cup new
        /\ config' = IF config.oldest = None
                     THEN [config EXCEPT !.oldest = n, !.oldest_time = HeadTime + gap]
                     ELSE config
        /\ job' = IF n % EventInterval = 0 THEN [pc |-> "tick"] ELSE Idle
        /\ UNCHANGED <<prune_state, prune_journal, readers, changes>>

-----------------------------------------------------------------------------
(* When and how far to prune. *)

ratio_bytes(target, bps) == (target * bps) \div 10000
high_water(p) == ratio_bytes(p.target, 9000)        \* headroom_ratio_bps = 2000
EstimatedKept == NonBlobBytes + blob.totals.used
CapTrigger == config.policy.target > 0 /\ EstimatedKept > high_water(config.policy)

Minus(x, y) == IF x > y THEN x - y ELSE 0           \* saturating_sub
Cutoff == Minus(HeadTime, config.policy.retain_days)

need_prune ==
    \/ /\ config.policy.retain_days > 0
       /\ config.oldest_time # None
       /\ config.oldest_time < Cutoff
    \/ CapTrigger

(* find_block_at_timestamp: a binary search from the oldest kept block.    *)
Middle(lo, hi) == lo + ((hi - lo) \div 2)
(* A turn of its loop; a block that is missing ends it. *)
Narrowed(s) ==
    LET mid == Middle(s.lo, s.hi)
    IN  IF s.lo > s.hi \/ ~load_block(mid) THEN s
        ELSE IF made[mid].time <= Cutoff THEN [lo |-> mid + 1, hi |-> s.hi, best |-> mid]
        ELSE IF mid = 0 THEN s
        ELSE [lo |-> s.lo, hi |-> mid - 1, best |-> s.best]
find_block_at_timestamp ==
    LET turn[i \in 0..(head + 1)] ==
            IF i = 0 THEN [lo |-> IF config.oldest = None THEN 0 ELSE config.oldest,
                           hi |-> head, best |-> None]
            ELSE Narrowed(turn[i - 1])
    IN  turn[head + 1].best

RetainFromNext(p, cutoff) == Max({1, head - Max({0, cutoff + 1})})  \* mutant of retain_count

retain_count(p, cutoff) ==
    LET byBlocks == IF p.retain_blocks > 0 THEN Minus(head, p.retain_blocks - 1) ELSE 0
        byDays == IF p.retain_days > 0 /\ cutoff # None THEN cutoff ELSE 0
    IN  IF CapTrigger THEN 1
        ELSE Minus(head, Max({byBlocks, byDays})) + 1

normalize(next, before) == IF before # None /\ next <= before THEN before + 1 ELSE next

(* by_size: the number of blocks to retain was chosen by the size target.  *)
Started(retain, max_ops, tick, by_size) ==
    [pc |-> "enter", retain |-> retain, max_ops |-> max_ops, tick |-> tick, by_size |-> by_size]

find_next_existing_block(before) ==
    LET kept == {n \in DOMAIN blocks : n > before /\ load_block(n)}
    IN  IF kept = {} THEN None ELSE Min(kept)
RefreshesNothing(c, before) == c                    \* mutant of Refreshed
Refreshed(c, before) ==                             \* refresh_oldest
    LET n == find_next_existing_block(before)
    IN  IF n = None THEN c ELSE [c EXCEPT !.oldest = n, !.oldest_time = made[n].time]

(* prune_tick up to its call of prune_blocks. *)
prune_tick ==
    /\ job.pc = "tick"
    /\ LET c == IF config.oldest = None THEN Refreshed(config, prune_state.before) ELSE config
       IN  IF c.enabled /\ ~c.running /\ need_prune
           THEN /\ config' = [c EXCEPT !.running = TRUE]
                /\ job' = Started(retain_count(config.policy, find_block_at_timestamp),
                                  config.policy.max_ops, TRUE, CapTrigger)
           ELSE config' = c /\ job' = Idle
    /\ UNCHANGED <<made, blob, tables, prune_state, prune_journal, readers, changes>>

(* The update call prune_blocks of an operator. *)
PruneCall(retain, max_ops) ==
    /\ job = Idle
    /\ retain > 0 /\ max_ops > 0
    /\ job' = Started(retain, max_ops, FALSE, FALSE)
    /\ UNCHANGED <<made, blob, tables, prune_state, prune_journal, config, readers, changes>>

set_prune_policy(p) ==
    /\ job = Idle
    /\ changes < MaxPolicies /\ p # config.policy
    /\ config' = [config EXCEPT !.policy = p]
    /\ changes' = changes + 1
    /\ UNCHANGED <<made, blob, tables, prune_state, prune_journal, job, readers>>

set_pruning_enabled(on) ==
    /\ job = Idle
    /\ changes < MaxPolicies /\ on # config.enabled
    /\ config' = [config EXCEPT !.enabled = on]
    /\ changes' = changes + 1
    /\ UNCHANGED <<made, blob, tables, prune_state, prune_journal, job, readers>>

-----------------------------------------------------------------------------
(* prune_blocks. *)

prune_ops_needed_for_tx(t) ==
    OtherRows + Cardinality({k \in {"receipt", "index", "traces", "loc", "store"} :
        \/ k = "receipt" /\ t \in DOMAIN receipts
        \/ k = "index" /\ t \in DOMAIN tx_index
        \/ k = "traces" /\ t \in DOMAIN internal_traces
        \/ k = "loc" /\ t \in DOMAIN tx_locs
        \/ k = "store" /\ t \in tx_store})
prune_ops_needed_for_block(n) == 1 + MapThenSumSet(prune_ops_needed_for_tx, TxIds(n))

CollectSkipsTraces(n) ==                    \* mutant of collect_ptrs_for_block
    {blocks[n]} \cup {receipts[t] : t \in TxIds(n) \cap DOMAIN receipts}
                \cup {tx_index[t] : t \in TxIds(n) \cap DOMAIN tx_index}

collect_ptrs_for_block(n) ==
    {blocks[n]} \cup {receipts[t] : t \in TxIds(n) \cap DOMAIN receipts}
                \cup {tx_index[t] : t \in TxIds(n) \cap DOMAIN tx_index}
                \cup {internal_traces[t] : t \in TxIds(n) \cap DOMAIN internal_traces}

DeleteKeepsTraces(n) ==                             \* mutant of Delete
    /\ blocks' = Drop(blocks, {n})
    /\ receipts' = Drop(receipts, TxIds(n))
    /\ tx_index' = Drop(tx_index, TxIds(n))
    /\ UNCHANGED internal_traces
    /\ tx_locs' = Drop(tx_locs, TxIds(n))
    /\ tx_store' = tx_store \ TxIds(n)

(* Block n and every row of its transactions leave the tables. *)
Delete(n) ==
    /\ blocks' = Drop(blocks, {n})
    /\ receipts' = Drop(receipts, TxIds(n))
    /\ tx_index' = Drop(tx_index, TxIds(n))
    /\ internal_traces' = Drop(internal_traces, TxIds(n))
    /\ tx_locs' = Drop(tx_locs, TxIds(n))
    /\ tx_store' = tx_store \ TxIds(n)

(* The block recover_prune_journal goes on with: the one of the cursor, or *)
(* without a cursor the oldest entry of the journal.                       *)
JournalBlock ==
    IF prune_state.journal # None THEN prune_state.journal
    ELSE IF DOMAIN prune_journal # {} THEN Min(DOMAIN prune_journal)
    ELSE None

RecoverForgetsBoundary(n) == prune_state.before      \* mutant of RecoveredBefore
RecoveredBefore(n) == IF load_block(n) THEN Max({prune_state.before, n}) ELSE prune_state.before

RecoverNothing ==
    /\ JournalBlock = None
    /\ prune_state' = [prune_state EXCEPT !.next = normalize(@, prune_state.before)]
    /\ UNCHANGED <<blob, tables, prune_journal, config>>

RecoverBlock ==
    LET n == JournalBlock
        before == IF n \in DOMAIN prune_journal THEN RecoveredBefore(n) ELSE prune_state.before
    IN  /\ n # None
        /\ IF n \in DOMAIN prune_journal
           THEN /\ IF load_block(n) THEN Delete(n) ELSE UNCHANGED tables
                /\ blob' = reclaim_for_prune(blob, prune_journal[n])
                /\ prune_journal' = Drop(prune_journal, {n})
           ELSE UNCHANGED <<tables, blob, prune_journal>>
        /\ prune_state' = [next |-> normalize(prune_state.next, before),
                           before |-> before, journal |-> None]
        /\ config' = Refreshed(config, before)

(* recover_prune_journal, then the boundary of this prune; with nothing to *)
(* prune the message ends.  ps is the code's own copy of prune_state.      *)
PruneEnter ==
    /\ job.pc = "enter"
    /\ RecoverNothing \/ RecoverBlock
    /\ job' = IF head <= job.retain THEN [job EXCEPT !.pc = "end"]
              ELSE [pc |-> "loop", upto |-> head - job.retain, ops |-> 0,
                    max_ops |-> job.max_ops, tick |-> job.tick, by_size |-> job.by_size,
                    next |-> normalize(prune_state'.next, prune_state'.before),
                    ps |-> prune_state']
    /\ UNCHANGED <<made, readers, changes>>

(* A block that is not there is passed over. *)
PruneAbsent ==
    /\ job.pc = "loop" /\ job.next <= job.upto /\ ~load_block(job.next)
    /\ job' = [job EXCEPT !.next = @ + 1, !.ps.before = job.next]
    /\ UNCHANGED <<made, blob, tables, prune_state, prune_journal, config, readers, changes>>

PruneJournal ==
    LET n == job.next
    IN  /\ job.pc = "loop" /\ n <= job.upto /\ load_block(n)
        /\ job.ops + prune_ops_needed_for_block(n) <= job.max_ops
        /\ prune_journal' = With(prune_journal, n, collect_ptrs_for_block(n))
        /\ job' = [job EXCEPT !.pc = "journaled", !.ps.journal = n,
                              !.ops = @ + prune_ops_needed_for_block(n)]
        /\ UNCHANGED <<made, blob, tables, prune_state, config, readers, changes>>

PruneCursor ==
    /\ job.pc = "journaled"
    /\ prune_state' = job.ps
    /\ job' = [job EXCEPT !.pc = "cursor"]
    /\ UNCHANGED <<made, blob, tables, prune_journal, config, readers, changes>>

PruneDelete ==
    /\ job.pc = "cursor"
    /\ Delete(job.next)
    /\ job' = [job EXCEPT !.pc = "deleted", !.ps.before = job.next]
    /\ UNCHANGED <<made, blob, prune_state, prune_journal, config, readers, changes>>

PruneReclaim ==
    LET n == job.next
        ps == [job.ps EXCEPT !.journal = None]
    IN  /\ job.pc = "deleted"
        /\ blob' = reclaim_for_prune(blob, prune_journal[n])
        /\ prune_journal' = Drop(prune_journal, {n})
        /\ prune_state' = ps
        /\ job' = [job EXCEPT !.pc = "loop", !.next = n + 1, !.ps = ps]
        /\ UNCHANGED <<made, tables, config, readers, changes>>

OutOfBudget == load_block(job.next)
               /\ job.ops + prune_ops_needed_for_block(job.next) > job.max_ops

(* The loop is over: the cursor is saved, and prune_tick ends its run. *)
PruneFinish ==
    LET ps == [job.ps EXCEPT !.next = job.next]
        c == Refreshed(config, ps.before)
    IN  /\ job.pc = "loop" /\ (job.next > job.upto \/ OutOfBudget)
        /\ prune_state' = ps
        /\ config' = [c EXCEPT !.running = @ /\ ~job.tick]
        /\ job' = Idle
        /\ UNCHANGED <<made, blob, tables, prune_journal, readers, changes>>

PruneEnd ==
    /\ job.pc = "end"
    /\ config' = [config EXCEPT !.running = @ /\ ~job.tick]
    /\ job' = Idle
    /\ UNCHANGED <<made, blob, tables, prune_state, prune_journal, readers, changes>>

(* The fault the journal is there for: the prune stops after a write. *)
Stop ==
    /\ job.pc \in StopPoints
    /\ job' = Idle
    /\ UNCHANGED <<made, blob, tables, prune_state, prune_journal, config, readers, changes>>

-----------------------------------------------------------------------------
(* export_blocks. *)

SegmentLen(n, segment) ==
    CASE segment = 0 -> 1
      [] segment \in {1, 2} -> Len(made[n].txs)
      [] segment = 3 -> Cardinality(TxIds(n) \cap DOMAIN internal_traces)

SegmentReadable(n, segment) ==
    \A t \in TxIds(n) :
        CASE segment = 0 -> TRUE
          [] segment = 1 -> load_receipt(t)
          [] segment = 2 -> /\ t \in DOMAIN tx_index /\ t \in tx_store
                            /\ read(tx_index[t]) = [kind |-> "index", id |-> t]
          [] segment = 3 -> t \in DOMAIN internal_traces =>
                                read(internal_traces[t]) = [kind |-> "traces", id |-> t]

Chunk(n, segment, start, len) == [block |-> n, segment |-> segment, start |-> start, len |-> len]

OffsetCarriedOver(w) == [w EXCEPT !.segment = @ + 1]    \* mutant of SegmentDone
(* The step to the next segment, which begins at its first byte. *)
SegmentDone(w) == [w EXCEPT !.segment = @ + 1, !.offset = 0]

(* The chunk of a segment: w holds the position, the bytes left and the    *)
(* chunks so far.  A block entered at the end of a segment gives an empty  *)
(* chunk.                                                                  *)
SegmentChunk(w, first) ==
    LET len == SegmentLen(w.block, w.segment)
        take == Min({len - w.offset, w.left})
        taken == [w EXCEPT !.offset = @ + take, !.left = @ - take,
                    !.chunks = IF take > 0 \/ first
                               THEN Append(@, Chunk(w.block, w.segment, w.offset, take)) ELSE @]
    IN  IF w.left = 0 THEN w
        ELSE IF ~SegmentReadable(w.block, w.segment) THEN [w EXCEPT !.err = "MissingData"]
        ELSE IF taken.offset < len \/ w.segment = 3 THEN taken
        ELSE SegmentDone(taken)

(* Four segments: once the bytes are used up, an error is met or the last  *)
(* segment is through, a further turn changes nothing.                     *)
BlockChunks(w) ==
    LET turn[i \in 0..4] == IF i = 0 THEN w ELSE SegmentChunk(turn[i - 1], i = 1)
    IN  turn[4]

NextBlock(w) == [w EXCEPT !.block = @ + 1, !.segment = 0, !.offset = 0]

BlockExported(w) ==
    IF w.err # "none" \/ w.left = 0 \/ w.block > head THEN w
    ELSE IF ~load_block(w.block) THEN [w EXCEPT !.err = "MissingData"]
    ELSE LET out == BlockChunks(w)
         IN  IF \/ out.err # "none" \/ out.left = 0 \/ out.segment < 3
                \/ out.offset < SegmentLen(out.block, 3)
             THEN out ELSE NextBlock(out)

ExportFrom(w) ==
    LET turn[i \in 0..MaxExportBlocks] == IF i = 0 THEN w ELSE BlockExported(turn[i - 1])
    IN  turn[MaxExportBlocks]

EmittedBytes(chunks) == FoldLeft(LAMBDA sum, c : sum + c.len, 0, chunks)

export_blocks(cursor, max_bytes) ==
    LET start == IF cursor = Nowhere THEN [cursor EXCEPT !.block = prune_state.before + 1] ELSE cursor
        w == ExportFrom([block |-> start.block, segment |-> start.segment,
                         offset |-> start.offset, left |-> max_bytes,
                         chunks |-> <<>>, err |-> "none"])
        At(x) == [block |-> x.block, segment |-> x.segment, offset |-> x.offset]
    IN  IF start.block <= prune_state.before
        THEN [answer |-> "Pruned", chunks |-> <<>>, cursor |-> start]
        ELSE IF start.block > head
        THEN [answer |-> "CaughtUp", chunks |-> <<>>, cursor |-> start]
        ELSE IF w.err # "none"
        THEN [answer |-> w.err, chunks |-> <<>>, cursor |-> start]
        ELSE IF EmittedBytes(w.chunks) = 0
        THEN [answer |-> "Limit", chunks |-> <<>>, cursor |-> start]
        ELSE [answer |-> "Ok", chunks |-> w.chunks, cursor |-> At(w)]

BlockStart(n) == [block |-> n, segment |-> 0, offset |-> 0]

(* One poll of the indexer: a pruned cursor and the missing block 0 move   *)
(* it to the first block that is left; any other error ends the process,   *)
(* which begins again at the start of the block.                           *)
Poll ==
    LET out == export_blocks(indexer.cursor, ExportBytes)
        first == BlockStart(Min({Max({1, prune_state.before + 1}), head}))
    IN  /\ job = Idle /\ reader = "export"
        /\ indexer' = [answer |-> out.answer, cursor |->
                        CASE out.answer = "Pruned" -> IF head = 0 THEN indexer.cursor ELSE first
                          [] out.answer = "MissingData" /\ indexer.cursor = Nowhere ->
                                IF head = 0 THEN indexer.cursor ELSE first
                          [] out.answer \in {"MissingData", "Limit"} -> BlockStart(out.cursor.block)
                          [] OTHER -> out.cursor]
        /\ UNCHANGED <<made, blob, tables, prune_state, prune_journal, config, job, reader, pager, changes>>

-----------------------------------------------------------------------------
(* rpc_eth_get_logs_paged, with no bound on the blocks, until the last page. *)

PrunedFrom == prune_state.before + 1
LogCount(t) == IF load_receipt(t) THEN Len(Tx(t).logs) ELSE 0
LogOffset(t) == MapThenSumSet(LogCount, {u \in TxIds(t[1]) : u[2] < t[2]})

TxsFrom(cursor) ==
    LET Of(n) == SelectSeq([i \in 1..Len(made[n].txs) |-> <<n, i>>],
                    LAMBDA t : load_receipt(t) /\ (n > cursor.block \/ t[2] >= cursor.tx))
        lo == Max({1, cursor.block})
    IN  FlattenSeq([k \in 1..(head - lo + 1) |-> IF load_block(lo + k - 1) THEN Of(lo + k - 1) ELSE <<>>])

LogsOf(t) == [j \in 1..Len(Tx(t).logs) |-> [tx |-> t, log |-> j, index |-> LogOffset(t) + j - 1]]

Skipped(item, cursor) == item.tx = <<cursor.block, cursor.tx>> /\ item.log <= cursor.log
SkipsNothing(item, cursor) == FALSE                     \* mutant of Unread
Unread(item, cursor) == ~Skipped(item, cursor)

LogPage(cursor) ==
    LET all == TxsFrom(cursor)
        scanned == SubSeq(all, 1, Min({Len(all), MaxScannedReceipts}))
        found == SelectSeq(FlattenSeq([k \in 1..Len(scanned) |-> LogsOf(scanned[k])]),
                           LAMBDA it : Unread(it, cursor) /\ Tx(it.tx).logs[it.log])
        last == found[LogLimit]
    IN  IF Len(found) >= LogLimit
        THEN [items |-> SubSeq(found, 1, LogLimit), more |-> TRUE,
              cursor |-> [block |-> last.tx[1], tx |-> last.tx[2], log |-> last.log]]
        ELSE IF Len(all) > Len(scanned)
        THEN [items |-> found, more |-> TRUE,
              cursor |-> [block |-> all[Len(scanned) + 1][1], tx |-> all[Len(scanned) + 1][2], log |-> 0]]
        ELSE [items |-> found, more |-> FALSE, cursor |-> cursor]

(* The next page; a cursor the prune has passed is out of range, and the   *)
(* reader gives up.                                                        *)
Page ==
    LET fresh == pager.state = "new"
        cursor == IF fresh THEN [block |-> PrunedFrom, tx |-> 1, log |-> 0] ELSE pager.cursor
        out == LogPage(cursor)
    IN  /\ job = Idle /\ reader = "logs" /\ pager.state \in {"new", "reading"}
        /\ pager' = IF cursor.block < PrunedFrom THEN [pager EXCEPT !.state = "out of range"]
                    ELSE [state |-> IF out.more THEN "reading" ELSE "done",
                          from |-> IF fresh THEN PrunedFrom ELSE pager.from,
                          to |-> head, items |-> pager.items \o out.items,
                          cursor |-> out.cursor]
        /\ UNCHANGED <<made, blob, tables, prune_state, prune_journal, config, job, reader, indexer, changes>>

-----------------------------------------------------------------------------
(* Lookups. *)

rpc_eth_get_block_by_number(n) ==
    IF n <= prune_state.before THEN "Pruned"
    ELSE IF load_block(n) THEN "Found" ELSE "NotFound"

receipt_lookup_status(t) ==
    IF load_receipt(t) THEN "Found"
    ELSE IF t \in DOMAIN tx_locs
    THEN IF tx_locs[t] <= prune_state.before THEN "Pruned" ELSE "NotFound"
    ELSE IF prune_state.before # None THEN "Pruned" ELSE "NotFound"     \* PossiblyPruned

rpc_eth_get_block_number_by_hash(n) ==
    LET scanned == {m \in Max({0, head - MaxHashScan + 1})..head : load_block(m)}
    IN  IF n \in scanned THEN n ELSE None

Next ==
    \/ \E txs \in Shapes, gap \in Gaps : Produce(txs, gap)
    \/ \E p \in Policies : set_prune_policy(p)
    \/ \E on \in BOOLEAN : set_pruning_enabled(on)
    \/ prune_tick
    \/ \E m \in Manual : PruneCall(m[1], m[2])
    \/ PruneEnter \/ PruneAbsent \/ PruneJournal \/ PruneCursor
    \/ PruneDelete \/ PruneReclaim \/ PruneFinish \/ PruneEnd \/ Stop
    \/ Poll \/ Page

Spec == Init /\ [][Next]_vars

-----------------------------------------------------------------------------
(* Properties *)

Pointers ==
    Range(blocks) \cup Range(receipts) \cup Range(tx_index) \cup Range(internal_traces)
Rows == Cardinality(DOMAIN blocks) + Cardinality(DOMAIN receipts)
        + Cardinality(DOMAIN tx_index) + Cardinality(DOMAIN internal_traces)
Settled == job = Idle /\ prune_journal = Empty

(* Whatever blobs were freed and used again, a pointer in a table reads    *)
(* what was stored for that row, and a journaled pointer still names the   *)
(* generation it was written for: reclaim_for_prune never meets another    *)
(* block's blob (BlobStore::read, reclaim_for_prune).                      *)
PointersReadTheirRows ==
    /\ \A n \in DOMAIN blocks : load_block(n)
    /\ \A t \in DOMAIN receipts : load_receipt(t)
    /\ \A t \in DOMAIN tx_index : read(tx_index[t]) = [kind |-> "index", id |-> t]
    /\ \A t \in DOMAIN internal_traces : read(internal_traces[t]) = [kind |-> "traces", id |-> t]
    /\ \A n \in DOMAIN prune_journal : \A p \in prune_journal[n] : blob.alloc[p.key].gen = p.gen

(* Between messages the blobs in use are those of the tables, one for each *)
(* row, and the totals kept beside the table are its totals: neither a     *)
(* prune nor a recovery leaks a blob or counts one twice (usage_totals,    *)
(* scan_usage_totals).                                                     *)
UsedBlobsAreRows ==
    LET used == {k \in DOMAIN blob.alloc : blob.alloc[k].state = "Used"}
        free == DOMAIN blob.alloc \ used
    IN  Settled =>
            /\ used = {p.key : p \in Pointers}
            /\ Cardinality(used) = Rows
            /\ blob.totals = [used |-> Size(used), free |-> Size(free)]

(* A lookup between messages says Pruned of the pruned blocks only, finds  *)
(* every block and receipt above the boundary, the head among them, and    *)
(* never says of a transaction that was pruned that it was not found       *)
(* (rpc_eth_get_block_by_number_with_status, receipt_lookup_status,        *)
(* rpc_eth_get_block_number_by_hash, rpc_eth_history_window).              *)
LookupsTellPruned ==
    Settled =>
        /\ prune_state.before < Max({1, head})
        /\ \A n \in 1..head :
            LET seen == IF n <= prune_state.before THEN "Pruned" ELSE "Found"
            IN  /\ rpc_eth_get_block_by_number(n) = seen
                /\ \A t \in TxIds(n) : receipt_lookup_status(t) = seen
                /\ n > head - MaxHashScan /\ seen = "Found" =>
                        rpc_eth_get_block_number_by_hash(n) = n

(* The oldest block in the configuration is the oldest one stored, with    *)
(* its time: the age trigger and the search for the cutoff begin from it   *)
(* (refresh_oldest, ensure_oldest, store_block).                           *)
OldestIsOldest ==
    Settled /\ head > 0 =>
        config.oldest = Min(DOMAIN blocks) /\ config.oldest_time = made[config.oldest].time

(* Blobs and tables describe one another. *)
BlobsFollowRows == PointersReadTheirRows /\ UsedBlobsAreRows

(* What is said of old blocks, to callers and to the next prune, is true.  *)
AnswersMatchHistory == LookupsTellPruned /\ OldestIsOldest

(* A prune by age deletes only blocks that are older than the retained     *)
(* days, or below the retained number of blocks, and never the head        *)
(* (compute_retain_count, find_block_at_timestamp).                        *)
PrunesOnlyOldBlocks ==
    [][\A n \in DOMAIN blocks \ DOMAIN blocks' :
            /\ n < head
            /\ job.pc = "cursor" /\ job.tick /\ ~job.by_size =>
                \/ made[n].time <= Cutoff
                \/ config.policy.retain_blocks > 0 /\ n <= head - config.policy.retain_blocks]_vars

(* An answer to the indexer holds exactly the bytes between its cursor and *)
(* the next one, in order and each once, whatever was produced or pruned   *)
(* since the cursor was given out; a cursor the indexer holds is never     *)
(* answered with missing data (export_blocks).                             *)
Before(x, y) ==
    \/ x.block < y.block
    \/ x.block = y.block /\ x.segment < y.segment
    \/ x.block = y.block /\ x.segment = y.segment /\ x.offset < y.offset
BytesFrom(x, y) ==
    {b \in [block : x.block..y.block, segment : 0..3, offset : 0..2] :
        /\ b.block <= head /\ b.offset < SegmentLen(b.block, b.segment)
        /\ ~Before(b, x) /\ Before(b, y)}
BytesIn(chunk) ==
    {[block |-> chunk.block, segment |-> chunk.segment, offset |-> chunk.start + i] :
        i \in 0..(chunk.len - 1)}
ExportsEveryByte ==
    [][Poll =>
        /\ indexer.cursor # Nowhere => indexer'.answer # "MissingData"
        /\ indexer'.answer = "Ok" =>
            LET chunks == export_blocks(indexer.cursor, ExportBytes).chunks
                start == IF indexer.cursor = Nowhere THEN BlockStart(PrunedFrom) ELSE indexer.cursor
                all == UNION {BytesIn(chunks[i]) : i \in DOMAIN chunks}
            IN  /\ all = BytesFrom(start, indexer'.cursor)
                /\ EmittedBytes(chunks) = Cardinality(all)
                /\ \A i, j \in DOMAIN chunks : i < j =>
                    \A b \in BytesIn(chunks[i]), c \in BytesIn(chunks[j]) : Before(b, c)]_vars

(* The pages of eth_getLogs hold every matching log from the first block   *)
(* asked for up to the cursor, once and in order, and number them by their *)
(* place in the block, though blocks come and go between two pages         *)
(* (rpc_eth_get_logs_paged).                                               *)
AllLogs(from, to) ==
    LET Of(n) == FlattenSeq([i \in 1..Len(made[n].txs) |->
                    [j \in 1..Len(made[n].txs[i].logs) |-> [tx |-> <<n, i>>, log |-> j]]])
        Numbered(n) == [k \in 1..Len(Of(n)) |->
                            [tx |-> Of(n)[k].tx, log |-> Of(n)[k].log, index |-> k - 1]]
    IN  SelectSeq(FlattenSeq([k \in 1..(to - Max({1, from}) + 1) |-> Numbered(Max({1, from}) + k - 1)]),
                  LAMBDA it : Tx(it.tx).logs[it.log])
PagesHoldEveryLog ==
    LET c == pager.cursor
        Passed(it) == \/ it.tx[1] < c.block
                      \/ it.tx[1] = c.block /\ it.tx[2] < c.tx
                      \/ it.tx = <<c.block, c.tx>> /\ it.log <= c.log
    IN  CASE pager.state = "reading" -> pager.items = SelectSeq(AllLogs(pager.from, head), Passed)
          [] pager.state = "done" -> pager.items = AllLogs(pager.from, pager.to)
          [] OTHER -> TRUE

=============================================================================
