----------------------------- MODULE Lifecycle -----------------------------
(***************************************************************************)
(* The life of the canister around the chain: install and upgrade, the     *)
(* schema and state-root migrations that the cycle observer drives, the    *)
(* operating mode that follows the cycle balance, and the timer that mines *)
(* blocks (crates/ic-evm-gateway/src/lib.rs, crates/ic-evm-ops,            *)
(* crates/evm-db/src/meta.rs).                                             *)
(*                                                                         *)
(* A timer fires once.  A tick is one message: a trap in it undoes what it *)
(* wrote, but the timer that started it is gone.                           *)
(***************************************************************************)
EXTENDS Integers, FiniteSets

CONSTANTS
    Tx,                 \* transactions, numbered in the order of tx_store
    Signed,             \* those signed by an Ethereum key
    Schemas,            \* schema versions of the memory an upgrade may find
    Current,            \* CURRENT_SCHEMA_VERSION
    IndexedSince,       \* the version that brought eth_tx_hash_index
    LocsSince,          \* the version that brought tx_locs_v3
    Batch,              \* keys of a batch of the index rebuild
    Sample,             \* entries that verify_eth_tx_hash_index looks at
    Scans,              \* ticks that the scan of the storage map takes
    Balances, Critical, Low,
    MaxUpgrades, MaxTraps, MaxErrors        \* bounds

ASSUME LifecycleAssumption ==
    /\ Balances \subseteq Nat /\ Critical \in Nat /\ Low \in Nat
    /\ IsFiniteSet(Tx)
    /\ Schemas \subseteq Nat /\ Current \in Nat
    /\ IndexedSince \in 0..Current

VARIABLES
    stage,              \* "new", "old" (not yet upgraded to this code), "up"
    meta,               \* schema_version, needs_migration, active_tx_locs_v3
    schema,             \* SchemaMigrationState; key 0 is no cursor key
    root,               \* state_root_meta.initialized, state_root_migration
    tx_store, ready_queue, eth_tx_hash_index, tx_locs, tx_locs_v3,
    mining_scheduled,   \* chain_state.mining_scheduled
    timers,             \* the timers that are armed
    trapped,            \* the timers lost in a trap since the last upgrade
    balance, ops,       \* cycles; ops_state: mode and safe_stop_latched
    upgrades, traps, errors

txs == <<tx_store, ready_queue, tx_locs, tx_locs_v3>>
migrating == <<meta, schema, root, eth_tx_hash_index>>
bounds == <<upgrades, traps, errors>>
vars == <<stage, migrating, txs, mining_scheduled, timers, trapped, balance,
          ops, bounds>>

SchemaDone == [phase |-> "Done", from |-> Current, key |-> 0]

(* A canister to be installed, or the stable memory of an older version:   *)
(* the versions before the index have none, those before tx_locs_v3 use    *)
(* the old map of locations.                                               *)
Init ==
    /\ \/ /\ stage = "new"
          /\ tx_store = {}
          /\ meta = [version |-> Current, needs |-> FALSE, v3 |-> FALSE]
          /\ root = [initialized |-> FALSE, phase |-> "Done", scans |-> 0]
       \/ /\ stage = "old"
          /\ tx_store \in SUBSET Tx
          /\ meta \in [version : Schemas, needs : {FALSE}, v3 : BOOLEAN]
          /\ meta.v3 => meta.version >= LocsSince
          /\ root = [initialized |-> TRUE, phase |-> "Done", scans |-> 0]
    /\ schema = SchemaDone
    /\ ready_queue = tx_store
    /\ eth_tx_hash_index = IF meta.version < IndexedSince THEN {} ELSE tx_store \cap Signed
    /\ tx_locs = IF meta.v3 THEN {} ELSE tx_store
    /\ tx_locs_v3 = IF meta.v3 THEN tx_store ELSE {}
    /\ mining_scheduled \in {FALSE, stage = "old"}
    /\ timers = {} /\ trapped = {}
    /\ balance = Low
    /\ ops = [mode |-> "Normal", latched |-> FALSE]
    /\ upgrades = 0 /\ traps = 0 /\ errors = 0

-----------------------------------------------------------------------------
(* Migrations.  d holds what they read and write. *)

Durable == [meta |-> meta, schema |-> schema, root |-> root, index |-> eth_tx_hash_index]

migration_pending(d) ==
    \/ d.meta.needs
    \/ d.meta.version < Current
    \/ ~d.root.initialized
    \/ d.root.phase # "Done"

RebuildsLater(from) == from < IndexedSince - 1         \* mutant of RebuildsIndex
RebuildsIndex(from) == from < IndexedSince

(* rebuild_eth_tx_hash_index_batch: the next keys after the cursor. *)
NextKeys(key) ==
    {t \in tx_store : t > key /\ Cardinality({u \in tx_store : key < u /\ u <= t}) <= Batch}
Last(keys, otherwise) ==
    IF keys = {} THEN otherwise ELSE CHOOSE t \in keys : \A u \in keys : u <= t

(* verify_eth_tx_hash_index: as many entries as signed transactions, and   *)
(* the first ones are right.                                               *)
IndexVerified(index) ==
    LET signed == tx_store \cap Signed
    IN  /\ Cardinality(index) = Cardinality(signed)
        /\ \A t \in signed :
            Cardinality({u \in signed : u <= t}) <= Sample => t \in index

(* schema_migration_tick: Init and Scan do not end a tick, a batch that is *)
(* not the last one does, and so does Verify.                              *)
SchemaTick(d) ==
    LET rebuild == RebuildsIndex(d.schema.from)
        fresh == d.schema.phase = "Init" /\ rebuild
        key == IF fresh THEN 0 ELSE d.schema.key
        keys == NextKeys(key)
        index == (IF fresh THEN {} ELSE d.index) \cup
                 (IF rebuild THEN keys \cap Signed ELSE {})
        To(phase, k) == [d EXCEPT !.schema.phase = phase, !.schema.key = k, !.index = index]
    IN  IF d.schema.phase \in {"Done", "Error"} THEN d
        ELSE IF rebuild /\ Cardinality(keys) = Batch THEN To("Rewrite", Last(keys, key))
        ELSE IF ~d.meta.v3 \/ (rebuild /\ ~IndexVerified(index)) THEN To("Error", 0)
        ELSE [To("Done", 0) EXCEPT !.meta.version = Current, !.meta.needs = FALSE]

(* run_migration_tick, of which module StateRoot has the detail: the scan  *)
(* of the storage map takes its ticks, every other phase takes one.        *)
RootTick(r) ==
    CASE r.phase = "Done" -> IF r.initialized THEN r ELSE [r EXCEPT !.phase = "Init"]
      [] r.phase = "Init" -> [r EXCEPT !.phase = "BuildTrie", !.scans = Scans]
      [] r.phase = "BuildTrie" -> IF r.scans > 1 THEN [r EXCEPT !.scans = @ - 1]
                                  ELSE [r EXCEPT !.phase = "BuildRefcnt", !.scans = 0]
      [] r.phase = "BuildRefcnt" -> [r EXCEPT !.phase = "Verify"]
      [] r.phase = "Verify" -> [r EXCEPT !.phase = "Done", !.initialized = TRUE]

drive_migrations_tick(d) == [SchemaTick(d) EXCEPT !.root = RootTick(d.root)]

MigrationsKept(d) == [d EXCEPT !.meta.needs = TRUE]    \* mutant of MigrationsBegun
MigrationsBegun(d) ==
    [d EXCEPT !.meta.needs = TRUE,
              !.schema = [phase |-> "Init", from |-> d.meta.version, key |-> 0],
              !.root = IF @.phase = "Done" THEN [@ EXCEPT !.phase = "Init"] ELSE @]

(* Memory of a newer version is left as it is, and writes are refused. *)
apply_post_upgrade_migrations(d) ==
    LET located == IF d.meta.version >= LocsSince THEN [d EXCEPT !.meta.v3 = TRUE] ELSE d
    IN  IF d.meta.version > Current THEN [d EXCEPT !.meta.needs = TRUE]
        ELSE drive_migrations_tick(
                IF migration_pending(located) THEN MigrationsBegun(located) ELSE located)

SetDurable(d) ==
    /\ meta' = d.meta
    /\ schema' = d.schema
    /\ root' = d.root
    /\ eth_tx_hash_index' = d.index

-----------------------------------------------------------------------------
(* Cycles and the operating mode; freeze_on_critical is set. *)

observe_cycles ==
    LET low == balance < Low
        critical == balance < Critical \/ (ops.latched /\ low)
    IN  [mode |-> IF critical THEN "Critical" ELSE IF low THEN "Low" ELSE "Normal",
         latched |-> critical]

ModeLastSeen(d) == ~migration_pending(d) /\ ops.mode # "Critical"     \* mutant of Accepts
(* reject_write_reason is none. *)
Accepts(d) == ~migration_pending(d) /\ observe_cycles.mode # "Critical"
Checked(d) == IF migration_pending(d) THEN ops ELSE observe_cycles

(* schedule_mining, for the flag and the timers as they are at that point. *)
Scheduled(d, flag) == flag \/ Accepts(d)
Armed(d, flag, armed) == armed \cup (IF ~flag /\ Accepts(d) THEN {"mining"} ELSE {})

-----------------------------------------------------------------------------
(* Install and upgrade. *)

(* init drives the migrations at most eight times. *)
Installed ==
    LET run[i \in 0..8] == IF i = 0 THEN Durable
                           ELSE IF i > 1 /\ ~migration_pending(run[i - 1]) THEN run[i - 1]
                           ELSE drive_migrations_tick(run[i - 1])
    IN  run[8]

install ==
    LET d == Installed
    IN  /\ stage = "new"
        /\ stage' = "up"
        /\ SetDurable(d)
        /\ ops' = observe_cycles
        /\ mining_scheduled' = Scheduled(d, mining_scheduled)
        /\ timers' = Armed(d, mining_scheduled, {"observer"})
        /\ UNCHANGED <<txs, trapped, balance, bounds>>

FlagKept == mining_scheduled                    \* mutant of FlagAfterUpgrade
FlagAfterUpgrade == FALSE                       \* reset_mining_schedule_after_upgrade

(* An upgrade stops every timer; post_upgrade starts them again. *)
post_upgrade ==
    LET d == apply_post_upgrade_migrations(Durable)
    IN  /\ stage = "old" \/ (stage = "up" /\ upgrades < MaxUpgrades)
        /\ stage' = "up"
        /\ upgrades' = upgrades + 1
        /\ SetDurable(d)
        /\ ops' = observe_cycles
        /\ mining_scheduled' = Scheduled(d, FlagAfterUpgrade)
        /\ timers' = Armed(d, FlagAfterUpgrade, {"observer"})
        /\ trapped' = {}
        /\ UNCHANGED <<txs, balance, traps, errors>>

-----------------------------------------------------------------------------
(* The cycle observer and the mining tick. *)

ObserverOnlyLooks(d) == FALSE                   \* mutant of ObserverSchedules
ObserverSchedules(d) == Accepts(d)

(* run_cycle_observer_once; its repair of stale requests is in the modules *)
(* of the requests.                                                        *)
run_cycle_observer_once ==
    LET d == IF migration_pending(Durable) THEN drive_migrations_tick(Durable) ELSE Durable
    IN  /\ "observer" \in timers
        /\ SetDurable(d)
        /\ ops' = observe_cycles
        /\ IF ObserverSchedules(d)
           THEN /\ mining_scheduled' = TRUE
                /\ timers' = Armed(d, mining_scheduled, timers)
           ELSE UNCHANGED <<mining_scheduled, timers>>
        /\ UNCHANGED <<stage, txs, trapped, balance, bounds>>

(* A mining tick that does not produce. *)
MiningIdle ==
    /\ "mining" \in timers
    /\ ~Accepts(Durable) \/ ready_queue = {}
    /\ mining_scheduled' = FALSE
    /\ timers' = timers \ {"mining"}
    /\ ops' = Checked(Durable)
    /\ UNCHANGED <<stage, migrating, txs, trapped, balance, bounds>>

(* The flag and the timer after production: mining goes on with a queue.   *)
MiningGoesOn(left) ==
    /\ ops' = observe_cycles
    /\ mining_scheduled' = (left # {})
    /\ timers' = IF left # {} THEN timers ELSE timers \ {"mining"}

(* produce_block takes transactions off the queue; those it drops lose     *)
(* payload and index entry and keep a location (module Chain).             *)
MiningProduces(done, dropped) ==
    LET Moved(locs) == locs \cup done
    IN  /\ "mining" \in timers
        /\ Accepts(Durable)
        /\ done # {}
        /\ ready_queue' = ready_queue \ done
        /\ tx_store' = tx_store \ dropped
        /\ eth_tx_hash_index' = eth_tx_hash_index \ dropped
        /\ tx_locs' = IF meta.v3 THEN tx_locs ELSE Moved(tx_locs)
        /\ tx_locs_v3' = IF meta.v3 THEN Moved(tx_locs_v3) ELSE tx_locs_v3
        /\ MiningGoesOn(ready_queue \ done)
        /\ UNCHANGED <<stage, meta, schema, root, trapped, balance, bounds>>

(* produce_block fails and leaves the queue as it is. *)
MiningFails ==
    /\ "mining" \in timers
    /\ Accepts(Durable)
    /\ ready_queue # {}
    /\ errors < MaxErrors
    /\ errors' = errors + 1
    /\ MiningGoesOn(ready_queue)
    /\ UNCHANGED <<stage, migrating, txs, trapped, balance, upgrades, traps>>

(* A tick traps, at the instruction limit or in trap_store_err. *)
Trap(timer) ==
    /\ timer \in timers
    /\ timer = "mining" => Accepts(Durable) /\ ready_queue # {}
    /\ traps < MaxTraps
    /\ traps' = traps + 1
    /\ timers' = timers \ {timer}
    /\ trapped' = trapped \cup {timer}
    /\ UNCHANGED <<stage, migrating, txs, mining_scheduled, balance, ops, upgrades, errors>>

-----------------------------------------------------------------------------
(* rpc_eth_send_raw_transaction and submit_ic_tx. *)

critical_corrupt_state == meta.needs \/ schema.phase = "Error"

Submit(t) ==
    LET accepted == ~critical_corrupt_state /\ Accepts(Durable)
    IN  /\ stage = "up"
        /\ t \notin tx_store \cup tx_locs \cup tx_locs_v3
        /\ ops' = IF critical_corrupt_state THEN ops ELSE Checked(Durable)
        /\ IF accepted
           THEN /\ tx_store' = tx_store \cup {t}
                /\ ready_queue' = ready_queue \cup {t}
                /\ eth_tx_hash_index' = eth_tx_hash_index \cup ({t} \cap Signed)
                /\ tx_locs' = IF meta.v3 THEN tx_locs ELSE tx_locs \cup {t}
                /\ tx_locs_v3' = IF meta.v3 THEN tx_locs_v3 \cup {t} ELSE tx_locs_v3
                /\ mining_scheduled' = Scheduled(Durable, mining_scheduled)
                /\ timers' = Armed(Durable, mining_scheduled, timers)
           ELSE UNCHANGED <<txs, eth_tx_hash_index, mining_scheduled, timers>>
        /\ UNCHANGED <<stage, meta, schema, root, trapped, balance, bounds>>

(* Cycles are burnt and topped up. *)
SetBalance(b) ==
    /\ stage = "up"
    /\ b # balance
    /\ balance' = b
    /\ UNCHANGED <<stage, migrating, txs, mining_scheduled, timers, trapped, ops, bounds>>

Mine == \/ MiningIdle
        \/ \E done \in SUBSET ready_queue : \E dropped \in SUBSET done : MiningProduces(done, dropped)
        \/ MiningFails

Next ==
    \/ install \/ post_upgrade
    \/ run_cycle_observer_once
    \/ Mine
    \/ \E timer \in {"mining", "observer"} : Trap(timer)
    \/ \E t \in Tx : Submit(t)
    \/ \E b \in Balances : SetBalance(b)

Spec == Init /\ [][Next]_vars

(* An armed timer fires. *)
FairSpec == Spec /\ WF_vars(Mine) /\ WF_vars(run_cycle_observer_once)

-----------------------------------------------------------------------------
(* Properties *)

(* The stable flag mining_scheduled never says that a timer is armed when  *)
(* none is, which would stop mining for good, nor hides one, which would   *)
(* start a second: only a trap separates them, until the next upgrade. The *)
(* observer is lost in no other way either (schedule_mining_with_timer,    *)
(* mining_tick_with_timer, reset_mining_schedule_after_upgrade).           *)
FlagFollowsTimer ==
    stage = "up" =>
        /\ mining_scheduled = ("mining" \in timers \cup trapped)
        /\ "observer" \in timers \cup trapped
        /\ timers \cap trapped = {}

(* When writes are accepted the index of Ethereum hashes holds exactly the *)
(* signed transactions, whatever version the memory came from, however the *)
(* batches cut it and wherever an upgrade interrupted the rebuild.         *)
IndexCompleteWhenServing ==
    stage = "up" /\ ~migration_pending(Durable) => eth_tx_hash_index = tx_store \cap Signed

(* A transaction is taken, and a block made, only with the cycles there at *)
(* that moment, not when the mode was last observed, and never behind a    *)
(* migration (reject_write_reason).                                        *)
WritesSeeTheBalance ==
    [][<<tx_store, ready_queue>>' # <<tx_store, ready_queue>> =>
            balance >= Critical /\ ~migration_pending(Durable)]_vars

(* A migration ends, also one that an upgrade interrupted, unless it meets *)
(* an error, finds memory of a newer version, or the observer is lost in a *)
(* trap (run_cycle_observer_once, apply_post_upgrade_migrations).          *)
MigrationsEnd ==
    (stage = "up" /\ migration_pending(Durable)) ~>
        \/ ~migration_pending(Durable)
        \/ schema.phase = "Error"
        \/ meta.version > Current
        \/ "observer" \in trapped

(* Queued transactions are mined as long as writes are accepted, though a  *)
(* mining tick that met a low balance or a migration has armed no timer    *)
(* (mining_tick_with_timer, run_cycle_observer_once).                      *)
QueueDrains ==
    []<>(stage # "up" \/ ready_queue = {} \/ ~Accepts(Durable) \/ trapped # {})

(* An upgrade keeps the location of every transaction that has one.        *)
Located == IF meta.v3 THEN tx_locs_v3 ELSE tx_locs
UpgradeKeepsLocations ==
    [][stage = "up" /\ upgrades' # upgrades => Located \subseteq Located']_vars
=============================================================================
