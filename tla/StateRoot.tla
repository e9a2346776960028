----------------------------- MODULE StateRoot -----------------------------
(***************************************************************************)
(* The state root: the Merkle-Patricia trie that a block's state diffs     *)
(* update in place, the reference-counted node database with its garbage   *)
(* collection, and the migration that rebuilds both (crates/evm-core/src/  *)
(* state_root.rs, state_root/trie_update.rs, state_root/node_store.rs).    *)
(*                                                                         *)
(* keccak256 is injective, so a node stands for its own hash, and a key is *)
(* its sequence of nibbles.  Every node is stored under its hash: a node   *)
(* short enough to be kept inside its parent lies eight levels deep.  A    *)
(* value is a tuple: <<v>> for a slot, <<info, root>> for an account.      *)
(***************************************************************************)
EXTENDS Integers, FiniteSets, SequencesExt

CONSTANTS
    Addr,           \* accounts, numbered in the order of the stable map
    Slot,           \* storage slots, numbered likewise
    AddrKey,        \* the nibbles of an address's hash
    SlotKey,        \* the nibbles of a slot's hash
    Stores,         \* <<a, s, v>>: slot s of account a can have the value v
    GcSteps,        \* limit of run_gc_tick
    ScanSteps,      \* limit of a migration tick
    MaxTouches, MaxBlocks, MaxCredits, MaxUpgrades     \* bounds

Gone == <<>>                            \* the value None
Empty == [kind |-> "empty", key |-> <<>>]   \* EMPTY_ROOT_HASH, a null pointer
Leaf(key, value) == [kind |-> "leaf", key |-> key, value |-> value]
Ext(key, child) == [kind |-> "ext", key |-> key, child |-> child]
Branch(children) == [kind |-> "branch", children |-> children]

VARIABLES
    accounts,       \* accounts: 0 is no account, else nonce and balance
    storage,        \* storage: 0 is no entry
    roots,          \* state_storage_roots: Empty is no entry
    root,           \* state_root_meta.state_root
    node_db,        \* state_root_node_db: the refcnt of each record
    gc_queue,       \* state_root_gc_queue
    migration,      \* state_root_migration
    rooted,         \* the accounts as the last block or migration saw them
    blocks, credits, upgrades

tries == <<roots, root, node_db, gc_queue>>
vars == <<accounts, storage, tries, migration, rooted, blocks, credits, upgrades>>

NoNodes == [n \in {} |-> 0]

Init ==
    /\ accounts = [a \in Addr |-> 0]
    /\ storage = [a \in Addr |-> [s \in Slot |-> 0]]
    /\ roots = [a \in Addr |-> Empty]
    /\ root = Empty
    /\ node_db = NoNodes
    /\ gc_queue = <<>>
    /\ migration = [phase |-> "Done", cursor |-> 0]
    /\ rooted = accounts
    /\ blocks = 0
    /\ credits = 0
    /\ upgrades = 0

-----------------------------------------------------------------------------
(***************************************************************************)
(* The reference: the trie of a set of keys and values, as alloy_trie      *)
(* builds it in state_root_unhashed and storage_root_unhashed.             *)
(***************************************************************************)
CommonPrefixLen(k, l) ==
    LET shared == {n \in 0..Len(k) : n <= Len(l) /\ SubSeq(k, 1, n) = SubSeq(l, 1, n)}
    IN  CHOOSE n \in shared : \A m \in shared : m <= n

RECURSIVE Build(_)
Build(kvs) ==
    IF kvs = {} THEN Empty
    ELSE LET some == CHOOSE e \in kvs : TRUE IN
         IF kvs = {some} THEN Leaf(some[1], some[2])
         ELSE LET lens == {CommonPrefixLen(some[1], e[1]) : e \in kvs}
                  p == CHOOSE n \in lens : \A m \in lens : n <= m
                  cut(n, S) == {<<SubSeq(e[1], n + 1, Len(e[1])), e[2]>> : e \in S}
                  from(i) == {e \in kvs : e[1][p + 1] = i}
                  branch == Branch([i \in {e[1][p + 1] : e \in kvs} |->
                                      Build(cut(p + 1, from(i)))])
              IN  IF p = 0 THEN branch ELSE Ext(SubSeq(some[1], 1, p), branch)

\* The keys and values below a node.
RECURSIVE Contents(_)
Contents(n) ==
    CASE n.kind = "empty" -> {}
      [] n.kind = "leaf" -> {<<n.key, n.value>>}
      [] n.kind = "ext" -> {<<n.key \o e[1], e[2]>> : e \in Contents(n.child)}
      [] n.kind = "branch" ->
            UNION {{<<<<i>> \o e[1], e[2]>> : e \in Contents(n.children[i])} :
                     i \in DOMAIN n.children}

\* The nodes that a walk down from a node meets.
RECURSIVE Nodes(_)
Nodes(n) ==
    CASE n.kind = "empty" -> {}
      [] n.kind = "leaf" -> {n}
      [] n.kind = "ext" -> {n} \cup Nodes(n.child)
      [] n.kind = "branch" -> {n} \cup UNION {Nodes(n.children[i]) : i \in DOMAIN n.children}

\* is_empty_trie_account.
AccountValue(info, r) == IF info = 0 /\ r = Empty THEN Gone ELSE <<info, r>>

SlotEntries(slots) ==
    {<<SlotKey[s], <<slots[s]>>>> : s \in {s \in Slot : slots[s] # 0}}
AccountEntries(infos, rs) ==
    {<<AddrKey[a], AccountValue(infos[a], rs[a])>> :
        a \in {a \in Addr : AccountValue(infos[a], rs[a]) # Gone}}

\* compute_storage_root_for_address and compute_state_root_from_cache.
ComputeStorageRoot(a) == Build(SlotEntries(storage[a]))
ComputeStateRoot == Build(AccountEntries(accounts, roots))

-----------------------------------------------------------------------------
(***************************************************************************)
(* JournalBuilder: b holds the stored nodes, the records of new ones and   *)
(* the changes of reference counts.                                        *)
(***************************************************************************)
NewBuilder(db) == [db |-> DOMAIN db, recs |-> {}, deltas |-> NoNodes]

AddDelta(deltas, h, n) ==
    LET v == n + IF h \in DOMAIN deltas THEN deltas[h] ELSE 0 IN
    IF v = 0 THEN [x \in DOMAIN deltas \ {h} |-> deltas[x]]
    ELSE [x \in DOMAIN deltas \cup {h} |-> IF x = h THEN v ELSE deltas[x]]

\* resolve_ptr finds the node.
Resolves(b, p) == p \in b.recs \/ p \in b.db

\* What an operation gives: the pointer and the journal.
Gives(p, b) == [p |-> p, b |-> b]

\* emit_node.
EmitNode(b, n) == Gives(n, [b EXCEPT !.recs = @ \cup {n}])

\* replace_ptr.
ReplacePtr(b, old, new) ==
    LET less == IF old = Empty THEN b.deltas ELSE AddDelta(b.deltas, old, -1)
        more == IF new = Empty THEN less ELSE AddDelta(less, new, 1)
    IN  IF old = new THEN b ELSE [b EXCEPT !.deltas = more]

\* The end of most operations: r takes the place of the node old.
InPlaceOf(old, r) == Gives(r.p, ReplacePtr(r.b, old, r.p))

\* collapse_children.
Collapse(b, children) ==
    LET i == CHOOSE i \in DOMAIN children : TRUE
        only == children[i]
    IN  IF DOMAIN children = {} THEN Gives(Empty, b)
        ELSE IF Cardinality(DOMAIN children) > 1 THEN EmitNode(b, Branch(children))
        ELSE IF ~Resolves(b, only) \/ only.kind = "branch" THEN EmitNode(b, Ext(<<i>>, only))
        ELSE IF only.kind = "leaf" THEN EmitNode(b, Leaf(<<i>> \o only.key, only.value))
        ELSE EmitNode(b, Ext(<<i>> \o only.key, only.child))

\* An extension with this key above what r gives, if there is a key and r gives
\* a node.
Under(key, r) ==
    IF r.p = Empty \/ key = <<>> THEN r ELSE EmitNode(r.b, Ext(key, r.p))

\* The part that update_leaf and update_extension share: the old node's key
\* and the rest of the new key part after their common prefix.  tail is what
\* is left of the old node; a value None adds no second child.
Fork(b, old, tail, rest, v) ==
    LET common == CommonPrefixLen(old.key, rest)
        i == old.key[common + 1]
        j == rest[common + 1]
        leaf == EmitNode(tail.b, Leaf(SubSeq(rest, common + 2, Len(rest)), v))
        collapsed ==
            IF v = Gone THEN Collapse(tail.b, [x \in {i} |-> tail.p])
            ELSE Collapse(leaf.b, [x \in {i, j} |-> IF x = j THEN leaf.p ELSE tail.p])
    IN  InPlaceOf(old, Under(SubSeq(rest, 1, common), collapsed))

\* update_leaf.
UpdateLeaf(b, old, rest, v) ==
    IF old.key = rest THEN
        IF v = Gone THEN InPlaceOf(old, Gives(Empty, b))
        ELSE InPlaceOf(old, EmitNode(b, Leaf(rest, v)))
    ELSE LET common == CommonPrefixLen(old.key, rest)
             tail == SubSeq(old.key, common + 2, Len(old.key))
         IN  Fork(b, old, EmitNode(b, Leaf(tail, old.value)), rest, v)

\* update_branch: the child at i is now next.
ChildReplaced(children, i, next) ==
    [x \in (DOMAIN children \ {i}) \cup (IF next = Empty THEN {} ELSE {i}) |->
        IF x = i THEN next ELSE children[x]]

\* The rest of update_branch: next takes the place of the child at i.
UpdateBranch(old, i, next) ==
    InPlaceOf(old, Collapse(next.b, ChildReplaced(old.children, i, next.p)))

\* update_at, update_extension and update_branch.
RECURSIVE UpdateAt(_, _, _, _)
UpdateAt(b, p, rest, v) ==
    IF p = Empty THEN
        IF v = Gone THEN Gives(Empty, b) ELSE EmitNode(b, Leaf(rest, v))
    ELSE IF ~Resolves(b, p) THEN Gives(p, b)
    ELSE CASE p.kind = "leaf" -> UpdateLeaf(b, p, rest, v)
           [] p.kind = "ext" ->
                LET n == Len(p.key) IN
                IF CommonPrefixLen(p.key, rest) = n THEN
                    InPlaceOf(p, Under(p.key, UpdateAt(b, p.child,
                                                SubSeq(rest, n + 1, Len(rest)), v)))
                ELSE LET m == CommonPrefixLen(p.key, rest)
                         tail == SubSeq(p.key, m + 2, n)
                     IN  Fork(b, p, IF tail = <<>> THEN Gives(p.child, b)
                                    ELSE EmitNode(b, Ext(tail, p.child)), rest, v)
           [] p.kind = "branch" ->
                LET i == Head(rest)
                    child == IF i \in DOMAIN p.children THEN p.children[i] ELSE Empty
                IN  UpdateBranch(p, i, UpdateAt(b, child, Tail(rest), v))

\* apply_op: the root counts once more than any other node.
ApplyOp(r, op) == InPlaceOf(r.p, UpdateAt(r.b, r.p, op[1], op[2]))

\* The order of the keys: Nibbles compares lexicographically.
KeyLess(k, l) ==
    LET n == CommonPrefixLen(k, l) IN
    IF n = Len(k) THEN n < Len(l) ELSE n < Len(l) /\ k[n + 1] < l[n + 1]

\* apply_ops, the operations in the order of their keys.
ApplyOps(b, p, ops) ==
    FoldLeft(ApplyOp, Gives(p, b), SetToSortSeq(ops, LAMBDA x, y : KeyLess(x[1], y[1])))

-----------------------------------------------------------------------------
(***************************************************************************)
(* node_store.rs.                                                          *)
(***************************************************************************)

\* enqueue_gc_hash comes after records whose count falls to zero.
Freed(db, deltas) ==
    {h \in DOMAIN db \cap DOMAIN deltas : db[h] > 0 /\ db[h] + deltas[h] <= 0}

\* The new counts; they do not go below zero.
Counted(db, deltas) ==
    [h \in DOMAIN db |-> LET n == IF h \in DOMAIN deltas THEN db[h] + deltas[h] ELSE db[h]
                         IN  IF n > 0 THEN n ELSE 0]

\* Mutant: a queued node goes although it is in use again.
CollectsAny(db, h) == h \in DOMAIN db
\* run_gc_tick removes a queued node only if its count is still zero.
Collects(db, h) == h \in DOMAIN db /\ db[h] = 0

\* run_gc_tick on the database and the queue.
GcTick(db, queue) ==
    LET n == IF Len(queue) < GcSteps THEN Len(queue) ELSE GcSteps
        dead == {h \in ToSet(SubSeq(queue, 1, n)) : Collects(db, h)}
    IN  [db |-> [h \in DOMAIN db \ dead |-> db[h]],
         queue |-> SubSeq(queue, n + 1, Len(queue))]

\* apply_journal, with the anchors merged into the deltas.
ApplyJournal(db, queue, b) ==
    LET stored == [h \in DOMAIN db \cup b.recs |-> IF h \in DOMAIN db THEN db[h] ELSE 0]
    IN  GcTick(Counted(stored, b.deltas), queue \o SetToSeq(Freed(stored, b.deltas)))

\* merge_anchor_delta for one root.
Anchor(b, old, new) == ReplacePtr(b, old, new)

\* The storage trie of account a is done: t gives its root, rs has the others.
WithRoot(rs, a, t) == [b |-> t.b, rs |-> [rs EXCEPT ![a] = t.p]]

\* build_state_update_journal_full: every trie anew from an empty one, without
\* anchors.
FullBuildTop(st) == ApplyOps(st.b, Empty, AccountEntries(accounts, st.rs))
FullBuild ==
    FullBuildTop(FoldLeft(
        LAMBDA r, a : WithRoot(r.rs, a, ApplyOps(r.b, Empty, SlotEntries(storage[a]))),
        [b |-> NewBuilder(NoNodes), rs |-> roots],
        SetToSortSeq({a \in Addr : SlotEntries(storage[a]) # {}}, <)))

-----------------------------------------------------------------------------
(***************************************************************************)
(* A block.  Its transactions touch accounts, each in one of these ways:   *)
(* read it, pay it, change a slot of it, or leave it empty (which deletes  *)
(* what EIP-161 calls a touched empty account).  An account that is        *)
(* destroyed in the transaction that made it is one left empty.            *)
(***************************************************************************)
Touch == [a : Addr, op : {"read", "pay", "empty"}]
             \cup {[a |-> x[1], op |-> "store", s |-> x[2], v |-> v] :
                     x \in Stores, v \in {0} \cup {y[3] : y \in Stores}}

\* The transactions' view of the state after a touch.
After(w, t) ==
    CASE t.op = "pay" -> [w EXCEPT !.accounts[t.a] = IF @ = 1 THEN 2 ELSE 1]
      [] t.op = "store" -> [w EXCEPT !.storage[t.a][t.s] = t.v]
      [] OTHER -> w

Possible(w, t) ==
    CASE t.op = "store" -> /\ w.accounts[t.a] # 0
                           /\ t.v # w.storage[t.a][t.s]
                           /\ t.v # 0 => <<t.a, t.s, t.v>> \in Stores
      [] t.op = "empty" -> w.accounts[t.a] = 0
      [] OTHER -> TRUE

\* build_trie_delta: the accounts of the diffs and, for each, the slots that
\* some diff changed, with their last values.
Delta(touches, w) ==
    [a \in {touches[i].a : i \in DOMAIN touches} |->
        [s \in {touches[i].s : i \in {i \in DOMAIN touches :
                                        touches[i].a = a /\ touches[i].op = "store"}} |->
            w.storage[a][s]]]

\* The storage root of a touched account: its changed slots are applied to
\* the old trie; with none changed the trie is built anew.
StorageRoot(b, a, changed) ==
    LET anew == DOMAIN changed = {}
        ops == {<<SlotKey[s], IF changed[s] = 0 THEN Gone ELSE <<changed[s]>>>> :
                  s \in DOMAIN changed}
    IN  ApplyOps(b, IF anew THEN Empty ELSE roots[a],
                 IF anew THEN SlotEntries(storage[a]) ELSE ops)

\* The journal of the storage tries, account after account.
StorageTries(b, delta) ==
    FoldLeft(LAMBDA r, a : WithRoot(r.rs, a, StorageRoot(r.b, a, delta[a])),
             [b |-> b, rs |-> roots], SetToSortSeq(DOMAIN delta, <))

\* Mutant: the account's leaf takes the storage root from the cache.
CachedRoot(r, a) == roots[a]
\* account_after looks in storage_root_after first.
RootAfter(r, a) == r.rs[a]

\* build_state_update_journal: the storage tries, the account trie above them,
\* and the anchors of the roots that changed.
AccountTrie(st, delta, w) ==
    ApplyOps(st.b, root, {<<AddrKey[a], AccountValue(w.accounts[a], RootAfter(st, a))>> :
                            a \in DOMAIN delta})
Anchored(top, rs, delta) ==
    [root |-> top.p, rs |-> rs,
     b |-> FoldLeft(LAMBDA b, a : Anchor(b, roots[a], rs[a]),
                    Anchor(top.b, root, top.p), SetToSeq(DOMAIN delta))]
StateUpdateAbove(st, delta, w) == Anchored(AccountTrie(st, delta, w), st.rs, delta)
StateUpdate(db, delta, w) ==
    StateUpdateAbove(StorageTries(NewBuilder(db), delta), delta, w)

\* ensure_node_db_bootstrapped: a root without a record has the database
\* built again.
Bootstrapped ==
    IF root = Empty \/ root \in DOMAIN node_db THEN [db |-> node_db, queue |-> gc_queue]
    ELSE ApplyJournal(NoNodes, <<>>, FullBuild.b)

Migrated == migration.phase = "Done"

\* The database after a journal.
StoreNodes(applied) ==
    /\ node_db' = applied.db
    /\ gc_queue' = applied.queue

\* produce_block: prepare_state_root_commit, the diffs to the stable maps,
\* apply_state_root_commit.
Block(touches) ==
    /\ Migrated
    /\ blocks < MaxBlocks
    /\ blocks' = blocks + 1
    /\ \E w \in {FoldLeft(After, [accounts |-> accounts, storage |-> storage], touches)},
          start \in {Bootstrapped} :
          \E built \in {StateUpdate(start.db, Delta(touches, w), w)} :
             /\ accounts' = w.accounts
             /\ storage' = w.storage
             /\ roots' = built.rs
             /\ root' = built.root
             /\ StoreNodes(ApplyJournal(start.db, start.queue, built.b))
             /\ rooted' = [a \in Addr |-> IF \E i \in DOMAIN touches : touches[i].a = a
                                          THEN w.accounts[a] ELSE rooted[a]]
    /\ UNCHANGED <<migration, credits, upgrades>>

\* credit_native_deposit writes the account and no trie; writes are refused
\* while a migration is pending.
Credit(a) ==
    /\ Migrated
    /\ credits < MaxCredits
    /\ credits' = credits + 1
    /\ accounts' = [accounts EXCEPT ![a] = IF @ = 1 THEN 2 ELSE 1]
    /\ UNCHANGED <<storage, tries, migration, rooted, blocks, upgrades>>

-----------------------------------------------------------------------------
(***************************************************************************)
(* run_migration_tick.                                                     *)
(***************************************************************************)

\* apply_post_upgrade_migrations, for a new schema version.
Upgrade ==
    /\ upgrades < MaxUpgrades
    /\ Migrated
    /\ upgrades' = upgrades + 1
    /\ migration' = [phase |-> "Init", cursor |-> 0]
    /\ UNCHANGED <<accounts, storage, tries, rooted, blocks, credits>>

StartBuild ==
    /\ migration.phase = "Init"
    /\ migration' = [phase |-> "BuildTrie", cursor |-> 0]
    /\ UNCHANGED <<accounts, storage, tries, rooted, blocks, credits, upgrades>>

\* The keys of the stable map of slots, in order.
StorageKeys ==
    SetToSortSeq({<<a, s>> \in Addr \X Slot : storage[a][s] # 0},
                 LAMBDA x, y : x[1] < y[1] \/ (x[1] = y[1] /\ x[2] < y[2]))

\* Mutant: a tick starts one key too late.
ScannedLate(cursor, end) == (cursor + 2)..end
\* The positions in the storage map that a tick looks at.
Scanned(cursor, end) == (cursor + 1)..end

\* A tick takes the next ScanSteps keys and computes the whole root of each
\* account it meets.
BuildTrie ==
    LET last == migration.cursor + ScanSteps
        end == IF last < Len(StorageKeys) THEN last ELSE Len(StorageKeys)
        met == {StorageKeys[i][1] : i \in Scanned(migration.cursor, end)}
        before == IF migration.cursor = 0 THEN [a \in Addr |-> Empty] ELSE roots
    IN  /\ migration.phase = "BuildTrie"
        /\ roots' = [a \in Addr |-> IF a \in met THEN ComputeStorageRoot(a) ELSE before[a]]
        /\ migration' = IF last > Len(StorageKeys)
                        THEN [phase |-> "BuildRefcnt", cursor |-> 0]
                        ELSE [migration EXCEPT !.cursor = last]
        /\ UNCHANGED <<accounts, storage, root, node_db, gc_queue, rooted, blocks,
                       credits, upgrades>>

BuildRefcnt ==
    /\ migration.phase = "BuildRefcnt"
    /\ StoreNodes(ApplyJournal(NoNodes, <<>>, FullBuild.b))
    /\ migration' = [phase |-> "Verify", cursor |-> 0]
    /\ UNCHANGED <<accounts, storage, roots, root, rooted, blocks, credits, upgrades>>

Verify ==
    /\ migration.phase = "Verify"
    /\ root' = ComputeStateRoot
    /\ rooted' = accounts
    /\ migration' = [phase |-> "Done", cursor |-> 0]
    /\ UNCHANGED <<accounts, storage, roots, node_db, gc_queue, blocks, credits, upgrades>>

-----------------------------------------------------------------------------
\* The touches of a block.  The diffs are merged account by account, so the
\* order matters only among the touches of one account, and there a read adds
\* nothing.
Touches ==
    {<<t>> : t \in Touch} \cup
    IF MaxTouches = 1 THEN {}
    ELSE {<<t, u>> \in Touch \X Touch :
            \/ t.a < u.a
            \/ t.a = u.a /\ "read" \notin {t.op, u.op}}

\* Each touch is one the transactions before it allow.
Realizable(touches) ==
    \A i \in DOMAIN touches :
        Possible(FoldLeft(After, [accounts |-> accounts, storage |-> storage],
                          SubSeq(touches, 1, i - 1)), touches[i])

Next ==
    \/ \E touches \in Touches : Realizable(touches) /\ Block(touches)
    \/ \E a \in Addr : Credit(a)
    \/ Upgrade
    \/ StartBuild
    \/ BuildTrie
    \/ BuildRefcnt
    \/ Verify

Spec == Init /\ [][Next]_vars

-----------------------------------------------------------------------------
(***************************************************************************)
(* Properties.                                                             *)
(***************************************************************************)

\* Between migrations the trie under the state root holds every account, with
\* the storage root kept for it, and that root's trie holds its slots: no
\* order of updates, deletions and rebuilds loses a change.  An account
\* credited by a deposit is as the last block that touched it saw it.
TrieHoldsState ==
    Migrated => /\ Contents(root) = AccountEntries(rooted, roots)
                /\ \A a \in Addr : Contents(roots[a]) = SlotEntries(storage[a])

\* The garbage collector never takes a node that a current root reaches.
LiveNodesKept ==
    Migrated => /\ Nodes(root) \subseteq DOMAIN node_db
                /\ \A a \in Addr : Nodes(roots[a]) \subseteq DOMAIN node_db

\* Whichever way the ticks of a migration cut the storage map, also in the
\* middle of an account, once it is scanned every account has the storage root
\* that its slots determine (run_migration_tick, BuildTrie).
MigrationFindsEveryRoot ==
    migration.phase \in {"BuildRefcnt", "Verify"} =>
        roots = [a \in Addr |-> ComputeStorageRoot(a)]

\* A migration of an unchanged state leaves the state root as it was.
MigrationKeepsRoot ==
    [][~Migrated /\ Migrated' /\ accounts = rooted => root' = root]_vars
=============================================================================
