-------------------------- MODULE LifecycleProofs --------------------------
(***************************************************************************)
(* The stable flag of the mining timer and the timers themselves agree,    *)
(* for every history of installs, upgrades, migrations, traps and cycle    *)
(* balances, nothing is written on a stale view of the cycles, and the     *)
(* index of Ethereum hashes is complete whenever writes are served.  The   *)
(* balances and versions are assumed to be numbers and the transactions to *)
(* be finitely many.                                                       *)
(***************************************************************************)
EXTENDS Lifecycle, FiniteSetTheorems, TLAPS

Timer == {"mining", "observer"}

TimerTypes ==
    /\ stage \in {"new", "old", "up"}
    /\ mining_scheduled \in BOOLEAN
    /\ timers \in SUBSET Timer
    /\ trapped \in SUBSET Timer

(* Only the running code has timers: before it is installed or upgraded to *)
(* there are none, and none to be missed.                                  *)
TimersOnlyUp ==
    /\ stage # "up" => timers = {} /\ trapped = {}
    /\ stage = "new" => mining_scheduled = FALSE

IInv == TimerTypes /\ TimersOnlyUp /\ FlagFollowsTimer

-----------------------------------------------------------------------------
(* The steps, as far as the flag and the timers can see them. *)

(* schedule_mining arms the timer exactly when it sets the flag. *)
Schedules(arm) ==
    /\ mining_scheduled' = (mining_scheduled \/ arm)
    /\ timers' = timers \cup (IF ~mining_scheduled /\ arm THEN {"mining"} ELSE {})
    /\ UNCHANGED <<stage, trapped>>

(* The mining tick re-arms the timer exactly when it leaves the flag set. *)
Ticks(again) ==
    /\ "mining" \in timers
    /\ mining_scheduled' = again
    /\ timers' = IF again THEN timers ELSE timers \ {"mining"}
    /\ UNCHANGED <<stage, trapped>>

(* The code starts afresh with the observer and perhaps the mining timer. *)
Starts(arm) ==
    /\ stage' = "up"
    /\ mining_scheduled' = arm
    /\ timers' = {"observer"} \cup (IF arm THEN {"mining"} ELSE {})
    /\ trapped' = {}

(* A cleared flag equals a membership that does not hold. *)
LEMMA FlagEquals ==
    ASSUME NEW flag \in BOOLEAN, NEW x, NEW S, flag <=> x \in S
    PROVE  flag = (x \in S)
BY Zenon

(* schedule_mining keeps the flag and the timer together, also when the    *)
(* timer was lost in a trap and the flag still says that it is armed.      *)
LEMMA SchedulingKeeps ==
    ASSUME IInv, stage = "up", NEW arm \in BOOLEAN, Schedules(arm)
    PROVE  IInv'
<1> USE DEF IInv, TimerTypes, TimersOnlyUp, FlagFollowsTimer, Timer
<1>1. stage' = "up" /\ trapped' = trapped
  BY DEF Schedules
<1>2. CASE ~mining_scheduled /\ arm
  <2>1. mining_scheduled' = TRUE /\ timers' = timers \cup {"mining"}
    BY <1>2 DEF Schedules
  <2>2. "mining" \notin timers \cup trapped
    BY <1>2
  <2> QED BY <1>1, <2>1, <2>2
<1>3. CASE ~(~mining_scheduled /\ arm)
  <2>1. timers' = timers
    BY <1>3 DEF Schedules
  <2>2. mining_scheduled' = mining_scheduled
    BY <1>3, Zenon DEF Schedules
  <2> QED BY <1>1, <2>1, <2>2
<1> QED BY <1>2, <1>3

(* A mining tick runs on an armed timer, which no trap has taken: whether  *)
(* it goes on or stops, the flag says which.                               *)
LEMMA TickKeeps ==
    ASSUME IInv, NEW again \in BOOLEAN, Ticks(again)
    PROVE  IInv'
<1> USE DEF IInv, TimerTypes, TimersOnlyUp, FlagFollowsTimer, Timer
<1>1. stage' = "up" /\ stage = "up" /\ trapped' = trapped /\ "mining" \in timers
  BY DEF Ticks
<1>2. "mining" \notin trapped
  BY <1>1
<1>3. CASE again
  <2>1. mining_scheduled' = TRUE /\ timers' = timers
    BY <1>3 DEF Ticks
  <2> QED BY <1>1, <1>2, <2>1
<1>4. CASE ~again
  <2>1. mining_scheduled' = FALSE /\ timers' = timers \ {"mining"}
    BY <1>4 DEF Ticks
  <2>2. "mining" \notin timers' \cup trapped'
    BY <1>1, <1>2, <2>1
  <2>3. mining_scheduled' \in BOOLEAN /\ ~mining_scheduled'
    BY <2>1
  <2>4. mining_scheduled' = ("mining" \in timers' \cup trapped')
    BY <2>2, <2>3, FlagEquals
  <2> QED BY <1>1, <1>2, <2>1, <2>4
<1> QED BY <1>3, <1>4

(* init and post_upgrade, whatever state they find. *)
LEMMA StartKeeps ==
    ASSUME NEW arm \in BOOLEAN, Starts(arm)
    PROVE  IInv'
<1> USE DEF IInv, TimerTypes, TimersOnlyUp, FlagFollowsTimer, Timer
<1>1. CASE arm
  <2>1. stage' = "up" /\ mining_scheduled' = TRUE
        /\ timers' = {"observer", "mining"} /\ trapped' = {}
    BY <1>1 DEF Starts
  <2> QED BY <2>1
<1>2. CASE ~arm
  <2>1. stage' = "up" /\ mining_scheduled' = FALSE
        /\ timers' = {"observer"} /\ trapped' = {}
    BY <1>2 DEF Starts
  <2>2. "mining" \notin timers' \cup trapped'
    BY <2>1
  <2>3. mining_scheduled' \in BOOLEAN /\ ~mining_scheduled'
    BY <2>1
  <2>4. mining_scheduled' = ("mining" \in timers' \cup trapped')
    BY <2>2, <2>3, FlagEquals, Zenon
  <2> QED BY <2>1, <2>4
<1> QED BY <1>1, <1>2

(* A trap takes the timer and leaves the flag. *)
LEMMA TrapKeeps ==
    ASSUME IInv, NEW timer \in Timer, Trap(timer)
    PROVE  IInv'
<1> USE DEF IInv, TimerTypes, TimersOnlyUp, FlagFollowsTimer, Timer
<1>1. /\ timer \in timers
      /\ timers' = timers \ {timer} /\ trapped' = trapped \cup {timer}
      /\ stage' = stage /\ mining_scheduled' = mining_scheduled
  BY DEF Trap
<1>2. timers' \cup trapped' = timers \cup trapped
  BY <1>1
<1>3. stage = "up"
  BY <1>1
<1>4. timers' \cap trapped' = {}
  BY <1>1, <1>3
<1> QED BY <1>1, <1>2, <1>3, <1>4

-----------------------------------------------------------------------------
(* Every action of the specification is one of these steps. *)

LEMMA InitialTimers == Init => IInv
<1> SUFFICES ASSUME Init PROVE IInv
  OBVIOUS
<1>1. stage \in {"new", "old"} /\ timers = {} /\ trapped = {}
  BY DEF Init
<1>2. mining_scheduled = FALSE \/ mining_scheduled = (stage = "old")
  BY Zenon DEF Init
<1>3. mining_scheduled \in BOOLEAN
  BY <1>2, Zenon
<1>4. stage = "new" => mining_scheduled = FALSE
  BY <1>2
<1> QED BY <1>1, <1>3, <1>4 DEF IInv, TimerTypes, TimersOnlyUp, FlagFollowsTimer

(* Whether writes are accepted is a yes or a no, whatever was migrated. *)
LEMMA AcceptsIsBoolean == \A d : Accepts(d) \in BOOLEAN
BY Zenon DEF Accepts

LEMMA InstallStarts ==
    ASSUME IInv, install
    PROVE  \E arm \in BOOLEAN : Starts(arm)
<1>1. stage = "new"
  BY DEF install
<1>2. PICK d : /\ stage' = "up"
               /\ mining_scheduled' = Scheduled(d, mining_scheduled)
               /\ timers' = Armed(d, mining_scheduled, {"observer"})
               /\ trapped' = trapped
  BY Zenon DEF install
<1>3. mining_scheduled = FALSE /\ trapped = {}
  BY <1>1 DEF IInv, TimersOnlyUp
<1>4. mining_scheduled' = Accepts(d)
  BY <1>2, <1>3, AcceptsIsBoolean, Zenon DEF Scheduled
<1>5. timers' = {"observer"} \cup (IF Accepts(d) THEN {"mining"} ELSE {})
  BY <1>2, <1>3 DEF Armed
<1>6. Starts(Accepts(d))
  BY <1>2, <1>3, <1>4, <1>5, Zenon DEF Starts
<1> QED BY <1>6, AcceptsIsBoolean, Zenon

LEMMA UpgradeStarts ==
    ASSUME post_upgrade
    PROVE  \E arm \in BOOLEAN : Starts(arm)
<1> DEFINE d == apply_post_upgrade_migrations(Durable)
<1>1. /\ stage' = "up"
      /\ mining_scheduled' = Scheduled(d, FALSE)
      /\ timers' = Armed(d, FALSE, {"observer"})
      /\ trapped' = {}
  BY Zenon DEF post_upgrade, FlagAfterUpgrade
<1>2. mining_scheduled' = Accepts(d)
  BY <1>1, AcceptsIsBoolean, Zenon DEF Scheduled
<1>3. timers' = {"observer"} \cup (IF Accepts(d) THEN {"mining"} ELSE {})
  BY <1>1 DEF Armed
<1>4. Starts(Accepts(d))
  BY <1>1, <1>2, <1>3, Zenon DEF Starts
<1> QED BY <1>4, AcceptsIsBoolean, Zenon

(* The observer and a submission schedule mining, or leave it alone. *)
LEMMA ObserverSchedulesMining ==
    ASSUME IInv, run_cycle_observer_once
    PROVE  stage = "up" /\ \E arm \in BOOLEAN : Schedules(arm)
<1>1. stage = "up"
  BY DEF run_cycle_observer_once, IInv, TimersOnlyUp
<1>2. mining_scheduled \in BOOLEAN
  BY DEF IInv, TimerTypes
<1>3. PICK d : /\ IF Accepts(d)
                  THEN /\ mining_scheduled' = TRUE
                       /\ timers' = Armed(d, mining_scheduled, timers)
                  ELSE mining_scheduled' = mining_scheduled /\ timers' = timers
               /\ stage' = stage /\ trapped' = trapped
  BY Zenon DEF run_cycle_observer_once, ObserverSchedules
<1>4. CASE Accepts(d)
  <2>1. timers' = timers \cup (IF ~mining_scheduled /\ TRUE THEN {"mining"} ELSE {})
    BY <1>3, <1>4 DEF Armed
  <2>2. Schedules(TRUE)
    BY <1>3, <1>4, <2>1, Zenon DEF Schedules
  <2> QED BY <1>1, <2>2
<1>5. CASE ~Accepts(d)
  <2>1. timers' = timers \cup (IF ~mining_scheduled /\ FALSE THEN {"mining"} ELSE {})
    BY <1>3, <1>5
  <2>2. mining_scheduled' = (mining_scheduled \/ FALSE)
    BY <1>2, <1>3, <1>5, Zenon
  <2>3. Schedules(FALSE)
    BY <1>3, <2>1, <2>2, Zenon DEF Schedules
  <2> QED BY <1>1, <2>3
<1> QED BY <1>4, <1>5

LEMMA SubmitSchedulesMining ==
    ASSUME IInv, NEW t, Submit(t)
    PROVE  stage = "up" /\ \E arm \in BOOLEAN : Schedules(arm)
<1> DEFINE accepted == ~critical_corrupt_state /\ Accepts(Durable)
<1>1. /\ stage = "up" /\ stage' = stage /\ trapped' = trapped
      /\ accepted => /\ mining_scheduled' = Scheduled(Durable, mining_scheduled)
                     /\ timers' = Armed(Durable, mining_scheduled, timers)
      /\ ~accepted => mining_scheduled' = mining_scheduled /\ timers' = timers
  BY Zenon DEF Submit
<1>2. mining_scheduled \in BOOLEAN
  BY DEF IInv, TimerTypes
<1>3. CASE accepted
  <2>1. mining_scheduled' = (mining_scheduled \/ TRUE)
    BY <1>1, <1>3, Zenon DEF Scheduled
  <2>2. timers' = timers \cup (IF ~mining_scheduled /\ TRUE THEN {"mining"} ELSE {})
    BY <1>1, <1>3 DEF Armed
  <2>3. Schedules(TRUE)
    BY <1>1, <2>1, <2>2, Zenon DEF Schedules
  <2> QED BY <1>1, <2>3
<1>4. CASE ~accepted
  <2>1. timers' = timers \cup (IF ~mining_scheduled /\ FALSE THEN {"mining"} ELSE {})
    BY <1>1, <1>4
  <2>2. mining_scheduled' = (mining_scheduled \/ FALSE)
    BY <1>1, <1>2, <1>4, Zenon
  <2>3. Schedules(FALSE)
    BY <1>1, <2>1, <2>2, Zenon DEF Schedules
  <2> QED BY <1>1, <2>3
<1> QED BY <1>3, <1>4

(* A tick that mines goes on while the queue is not empty; any other stops. *)
LEMMA MineTicks ==
    ASSUME Mine
    PROVE  \E again \in BOOLEAN : Ticks(again)
<1>1. CASE MiningIdle
  <2>1. Ticks(FALSE)
    BY <1>1, Zenon DEF MiningIdle, Ticks
  <2> QED BY <2>1
<1>2. ASSUME NEW left, MiningGoesOn(left), "mining" \in timers,
             stage' = stage, trapped' = trapped
      PROVE  \E again \in BOOLEAN : Ticks(again)
  <2>1. Ticks(left # {})
    BY <1>2, Zenon DEF MiningGoesOn, Ticks
  <2> QED BY <2>1, Zenon
<1>3. CASE \E done \in SUBSET ready_queue : \E dropped \in SUBSET done :
                MiningProduces(done, dropped)
  <2>1. PICK done, dropped : MiningProduces(done, dropped)
    BY <1>3
  <2>2. /\ MiningGoesOn(ready_queue \ done) /\ "mining" \in timers
        /\ stage' = stage /\ trapped' = trapped
    BY <2>1, Zenon DEF MiningProduces
  <2> QED BY <1>2, <2>2, Zenon
<1>4. CASE MiningFails
  <2>1. /\ MiningGoesOn(ready_queue) /\ "mining" \in timers
        /\ stage' = stage /\ trapped' = trapped
    BY <1>4, Zenon DEF MiningFails
  <2> QED BY <1>2, <2>1, Zenon
<1> QED BY <1>1, <1>3, <1>4 DEF Mine

LEMMA StepKeeps == IInv /\ [Next]_vars => IInv'
<1> SUFFICES ASSUME IInv, [Next]_vars PROVE IInv'
  OBVIOUS
<1>1. CASE install
  BY <1>1, InstallStarts, StartKeeps, Zenon
<1>2. CASE post_upgrade
  BY <1>2, UpgradeStarts, StartKeeps, Zenon
<1>3. CASE run_cycle_observer_once
  BY <1>3, ObserverSchedulesMining, SchedulingKeeps, Zenon
<1>4. CASE Mine
  BY <1>4, MineTicks, TickKeeps, Zenon
<1>5. CASE \E timer \in {"mining", "observer"} : Trap(timer)
  BY <1>5, TrapKeeps, Zenon DEF Timer
<1>6. CASE \E t \in Tx : Submit(t)
  BY <1>6, SubmitSchedulesMining, SchedulingKeeps, Zenon
<1>7. CASE \E b \in Balances : SetBalance(b)
  <2>1. UNCHANGED <<stage, mining_scheduled, timers, trapped>>
    BY <1>7 DEF SetBalance
  <2> QED BY <2>1 DEF IInv, TimerTypes, TimersOnlyUp, FlagFollowsTimer
<1>8. CASE UNCHANGED vars
  <2>1. UNCHANGED <<stage, mining_scheduled, timers, trapped>>
    BY <1>8 DEF vars
  <2> QED BY <2>1 DEF IInv, TimerTypes, TimersOnlyUp, FlagFollowsTimer
<1> QED BY <1>1, <1>2, <1>3, <1>4, <1>5, <1>6, <1>7, <1>8 DEF Next

(* The flag mining_scheduled of the stable memory says that a mining timer *)
(* is armed exactly when one is, or when a trap has taken it since the     *)
(* last upgrade, and the cycle observer is lost only in a trap             *)
(* (schedule_mining_with_timer, mining_tick_with_timer,                    *)
(* reset_mining_schedule_after_upgrade): for every number of upgrades,     *)
(* traps and failed blocks.                                                *)
THEOREM FlagAlwaysFollowsTimer == Spec => []FlagFollowsTimer
<1>1. Init => IInv
  BY InitialTimers
<1>2. IInv /\ [Next]_vars => IInv'
  BY StepKeeps
<1>3. IInv => FlagFollowsTimer
  BY DEF IInv
<1> QED BY <1>1, <1>2, <1>3, PTL DEF Spec

-----------------------------------------------------------------------------
(* Writes and the cycles there are. *)

BalanceIsNumber == balance \in Nat

LEMMA AcceptedIsAfforded ==
    ASSUME BalanceIsNumber, Accepts(Durable)
    PROVE  balance >= Critical /\ ~migration_pending(Durable)
<1>1. observe_cycles.mode # "Critical" /\ ~migration_pending(Durable)
  BY Zenon DEF Accepts
<1>2. ~(balance < Critical)
  BY <1>1 DEF observe_cycles
<1>3. balance \in Nat /\ Critical \in Nat
  BY LifecycleAssumption DEF BalanceIsNumber
<1> QED BY <1>1, <1>2, <1>3

LEMMA BalanceStaysNumber == BalanceIsNumber /\ [Next]_vars => BalanceIsNumber'
<1> SUFFICES ASSUME BalanceIsNumber, [Next]_vars PROVE BalanceIsNumber'
  OBVIOUS
<1>1. CASE \E b \in Balances : SetBalance(b)
  BY <1>1, LifecycleAssumption DEF SetBalance, BalanceIsNumber
<1>2. ASSUME balance' = balance PROVE BalanceIsNumber'
  BY <1>2 DEF BalanceIsNumber
<1>3. CASE install
  BY <1>2, <1>3, Zenon DEF install
<1>4. CASE post_upgrade
  BY <1>2, <1>4, Zenon DEF post_upgrade
<1>5. CASE run_cycle_observer_once
  BY <1>2, <1>5, Zenon DEF run_cycle_observer_once
<1>6. CASE Mine
  BY <1>2, <1>6, Zenon DEF Mine, MiningIdle, MiningProduces, MiningFails
<1>7. CASE \E timer \in {"mining", "observer"} : Trap(timer)
  BY <1>2, <1>7, Zenon DEF Trap
<1>8. CASE \E t \in Tx : Submit(t)
  BY <1>2, <1>8, Zenon DEF Submit
<1>9. CASE UNCHANGED vars
  BY <1>2, <1>9, Zenon DEF vars
<1> QED BY <1>1, <1>3, <1>4, <1>5, <1>6, <1>7, <1>8, <1>9 DEF Next

(* A step that changes the transactions or the queue was accepted. *)
LEMMA WriteIsAccepted ==
    ASSUME [Next]_vars, <<tx_store, ready_queue>>' # <<tx_store, ready_queue>>
    PROVE  Accepts(Durable)
<1>1. ~(tx_store' = tx_store /\ ready_queue' = ready_queue)
  OBVIOUS
<1> USE <1>1
<1>2. ~install
  BY Zenon DEF install, txs
<1>3. ~post_upgrade
  BY Zenon DEF post_upgrade, txs
<1>4. ~run_cycle_observer_once
  BY Zenon DEF run_cycle_observer_once, txs
<1>5. Mine => Accepts(Durable)
  BY Zenon DEF Mine, MiningIdle, MiningProduces, MiningFails, txs
<1>6. ~\E timer \in {"mining", "observer"} : Trap(timer)
  BY Zenon DEF Trap, txs
<1>7. (\E t \in Tx : Submit(t)) => Accepts(Durable)
  BY Zenon DEF Submit, txs
<1>8. ~\E b \in Balances : SetBalance(b)
  BY Zenon DEF SetBalance, txs
<1>9. ~UNCHANGED vars
  BY Zenon DEF vars, txs
<1> QED BY <1>2, <1>3, <1>4, <1>5, <1>6, <1>7, <1>8, <1>9 DEF Next

(* A transaction is taken and a block made only with the cycles there are  *)
(* in that message and behind no migration, whatever mode was observed     *)
(* before (reject_write_reason): for every history of balances.            *)
THEOREM WritesAlwaysSeeTheBalance == Spec => WritesSeeTheBalance
<1>1. Init => BalanceIsNumber
  BY LifecycleAssumption DEF Init, BalanceIsNumber
<1>2. BalanceIsNumber /\ [Next]_vars => BalanceIsNumber'
  BY BalanceStaysNumber
<1>3. BalanceIsNumber /\ [Next]_vars =>
        [<<tx_store, ready_queue>>' # <<tx_store, ready_queue>> =>
            balance >= Critical /\ ~migration_pending(Durable)]_vars
  BY WriteIsAccepted, AcceptedIsAfforded, Zenon
<1> QED BY <1>1, <1>2, <1>3, PTL DEF Spec, WritesSeeTheBalance

-----------------------------------------------------------------------------
(* The index of Ethereum hashes.  d stands for what the migrations write.  *)

(* The fields of d, those that do not matter here with values in a set X.  *)
MigrationData(X) ==
    [meta : [version : Nat, needs : BOOLEAN, v3 : BOOLEAN],
     schema : [phase : X, from : Nat, key : X],
     root : X,
     index : X]

Shaped(d) == \E X : d \in MigrationData(X)

(* An index that is not complete belongs to memory from before the index,  *)
(* and only such memory is under a rebuild.                                *)
IndexFits(d) ==
    /\ Shaped(d)
    /\ d.index \subseteq tx_store \cap Signed
    /\ d.meta.version >= IndexedSince => d.index = tx_store \cap Signed
    /\ d.schema.phase \notin {"Done", "Error"} => d.schema.from = d.meta.version

IndexInv == tx_store \subseteq Tx /\ IndexFits(Durable)

(* What verify_eth_tx_hash_index counts is enough: an index of signed      *)
(* transactions only, as many as there are, has them all.                  *)
LEMMA VerifiedIsComplete ==
    ASSUME tx_store \subseteq Tx, NEW index, index \subseteq tx_store \cap Signed,
           IndexVerified(index)
    PROVE  index = tx_store \cap Signed
<1>1. Cardinality(index) = Cardinality(tx_store \cap Signed)
  BY DEF IndexVerified
<1>2. IsFiniteSet(tx_store \cap Signed)
  BY FS_Subset, LifecycleAssumption
<1> QED BY <1>1, <1>2, FS_Subset

LEMMA SchemaTickFits ==
    ASSUME tx_store \subseteq Tx, NEW d, IndexFits(d)
    PROVE  IndexFits(SchemaTick(d))
<1> DEFINE rebuild == RebuildsIndex(d.schema.from)
           fresh == d.schema.phase = "Init" /\ rebuild
           key == IF fresh THEN 0 ELSE d.schema.key
           keys == NextKeys(key)
           index == (IF fresh THEN {} ELSE d.index) \cup
                    (IF rebuild THEN keys \cap Signed ELSE {})
           To(phase, k) == [d EXCEPT !.schema.phase = phase, !.schema.key = k, !.index = index]
           Finished == [To("Done", 0) EXCEPT !.meta.version = Current, !.meta.needs = FALSE]
<1>1. CASE d.schema.phase \in {"Done", "Error"}
  BY <1>1 DEF SchemaTick
<1>2. CASE d.schema.phase \notin {"Done", "Error"}
  <2>1. Shaped(d) /\ d.schema.from = d.meta.version
    BY <1>2 DEF IndexFits
  <2>2. index \subseteq tx_store \cap Signed
    <3>1. keys \subseteq tx_store
      BY DEF NextKeys
    <3>2. d.index \subseteq tx_store \cap Signed
      BY DEF IndexFits
    <3> QED BY <3>1, <3>2
  <2>3. d.meta.version >= IndexedSince => ~rebuild /\ index = tx_store \cap Signed
    BY <2>1, LifecycleAssumption DEF IndexFits, RebuildsIndex, Shaped, MigrationData
  <2> PICK X : d \in MigrationData(X)
    BY <2>1 DEF Shaped
  <2>4. ASSUME NEW phase, NEW k PROVE IndexFits(To(phase, k))
    <3> HIDE DEF index
    <3> DEFINE Y == X \cup {phase, k, index}
    <3>1. d \in MigrationData(Y)
      BY DEF MigrationData
    <3>2. /\ To(phase, k) \in MigrationData(Y)
          /\ To(phase, k).meta = d.meta
          /\ To(phase, k).index = index
          /\ To(phase, k).schema.from = d.schema.from
      <4>1. phase \in Y /\ k \in Y /\ index \in Y
        OBVIOUS
      <4> HIDE DEF Y
      <4> QED BY <3>1, <4>1 DEF MigrationData
    <3> HIDE DEF To
    <3> QED BY <2>1, <2>2, <2>3, <3>2 DEF IndexFits, Shaped
  <2>5. ASSUME ~(rebuild /\ ~IndexVerified(index)) PROVE IndexFits(Finished)
    <3>1. index = tx_store \cap Signed
      <4>1. CASE rebuild
        BY <2>2, <2>5, <4>1, VerifiedIsComplete
      <4>2. CASE ~rebuild
        BY <2>1, <2>3, <4>2, LifecycleAssumption DEF RebuildsIndex, MigrationData
      <4> QED BY <4>1, <4>2
    <3> HIDE DEF index
    <3>2. IndexFits(To("Done", 0))
      BY <2>4
    <3>3. To("Done", 0).index = index /\ To("Done", 0).schema.phase = "Done"
      BY DEF MigrationData
    <3> HIDE DEF To
    <3>4. PICK Y : To("Done", 0) \in MigrationData(Y)
      BY <3>2 DEF IndexFits, Shaped
    <3>5. /\ Finished \in MigrationData(Y)
          /\ Finished.index = index
          /\ Finished.schema.phase = "Done"
      BY <3>3, <3>4, LifecycleAssumption DEF MigrationData
    <3> HIDE DEF Finished
    <3> QED BY <3>1, <3>5 DEF IndexFits, Shaped
  <2>6. \/ \E phase, k : SchemaTick(d) = To(phase, k)
        \/ ~(rebuild /\ ~IndexVerified(index)) /\ SchemaTick(d) = Finished
    BY <1>2, Zenon DEF SchemaTick
  <2> HIDE DEF index, To, Finished, rebuild
  <2> QED BY <2>4, <2>5, <2>6, Zenon
<1> QED BY <1>1, <1>2

(* Replacing root, or the record of the migration by one of this version. *)
LEMMA RootFits ==
    ASSUME NEW d, IndexFits(d), NEW root_
    PROVE  IndexFits([d EXCEPT !.root = root_])
<1>1. PICK X : d \in MigrationData(X)
  BY DEF IndexFits, Shaped
<1> DEFINE Y == X \cup {root_}
<1>2. d \in MigrationData(Y) /\ root_ \in Y
  BY <1>1 DEF MigrationData
<1> HIDE DEF Y
<1> DEFINE e == [d EXCEPT !.root = root_]
<1>3. e \in MigrationData(Y) /\ e.meta = d.meta /\ e.index = d.index /\ e.schema = d.schema
  BY <1>2 DEF MigrationData
<1> HIDE DEF e
<1>4. IndexFits(e)
  BY <1>3 DEF IndexFits, Shaped
<1> QED BY <1>4 DEF e

LEMMA BegunFits ==
    ASSUME NEW d, IndexFits(d)
    PROVE  IndexFits(MigrationsBegun(d))
<1>1. PICK X : d \in MigrationData(X)
  BY DEF IndexFits, Shaped
<1> DEFINE begun == [phase |-> "Init", from |-> d.meta.version, key |-> 0]
           root_ == IF d.root.phase = "Done" THEN [d.root EXCEPT !.phase = "Init"] ELSE d.root
           Y == X \cup {root_, "Init", 0}
           e == MigrationsBegun(d)
<1>2. d \in MigrationData(Y) /\ root_ \in Y /\ begun \in [phase : Y, from : Nat, key : Y]
  BY <1>1 DEF MigrationData
<1>3. e = [d EXCEPT !.meta.needs = TRUE, !.schema = begun, !.root = root_]
  BY <1>1 DEF MigrationsBegun, MigrationData
<1>4. begun.from = d.meta.version
  OBVIOUS
<1> HIDE DEF Y, begun, root_, e
<1>5. /\ e \in MigrationData(Y)
      /\ e.meta.version = d.meta.version /\ e.index = d.index /\ e.schema = begun
  BY <1>2, <1>3 DEF MigrationData
<1>6. IndexFits(e)
  BY <1>4, <1>5 DEF IndexFits, Shaped
<1> QED BY <1>6 DEF e

(* The flags of meta do not matter to the index. *)
LEMMA FlagsFit ==
    ASSUME NEW d, IndexFits(d)
    PROVE  /\ IndexFits([d EXCEPT !.meta.needs = TRUE])
           /\ IndexFits([d EXCEPT !.meta.v3 = TRUE])
<1>1. PICK X : d \in MigrationData(X)
  BY DEF IndexFits, Shaped
<1> DEFINE e == [d EXCEPT !.meta.needs = TRUE]
           f == [d EXCEPT !.meta.v3 = TRUE]
<1>2. /\ e \in MigrationData(X) /\ e.meta.version = d.meta.version
      /\ e.index = d.index /\ e.schema = d.schema
  BY <1>1 DEF MigrationData
<1>3. /\ f \in MigrationData(X) /\ f.meta.version = d.meta.version
      /\ f.index = d.index /\ f.schema = d.schema
  BY <1>1 DEF MigrationData
<1> HIDE DEF e, f
<1>4. IndexFits(e) /\ IndexFits(f)
  BY <1>2, <1>3 DEF IndexFits, Shaped
<1> QED BY <1>4 DEF e, f

LEMMA DriveFits ==
    ASSUME tx_store \subseteq Tx, NEW d, IndexFits(d)
    PROVE  IndexFits(drive_migrations_tick(d))
BY SchemaTickFits, RootFits, Zenon DEF drive_migrations_tick

LEMMA UpgradedFits ==
    ASSUME tx_store \subseteq Tx, NEW d, IndexFits(d)
    PROVE  IndexFits(apply_post_upgrade_migrations(d))
<1> DEFINE located == IF d.meta.version >= LocsSince THEN [d EXCEPT !.meta.v3 = TRUE] ELSE d
           begun == IF migration_pending(located) THEN MigrationsBegun(located) ELSE located
<1>1. IndexFits(located)
  BY FlagsFit
<1> HIDE DEF located
<1>2. IndexFits(begun)
  BY <1>1, BegunFits
<1> HIDE DEF begun
<1>3. IndexFits(drive_migrations_tick(begun))
  BY <1>2, DriveFits
<1>4. IndexFits([d EXCEPT !.meta.needs = TRUE])
  BY FlagsFit
<1> QED BY <1>3, <1>4 DEF apply_post_upgrade_migrations, located, begun

(* init: the ticks it drives, one after the other. *)
LEMMA InstalledFits ==
    ASSUME tx_store \subseteq Tx, IndexFits(Durable)
    PROVE  IndexFits(Installed)
<1> DEFINE T(d) == IF ~migration_pending(d) THEN d ELSE drive_migrations_tick(d)
           F(f) == [i \in 0..8 |-> IF i = 0 THEN Durable
                        ELSE IF i > 1 /\ ~migration_pending(f[i - 1]) THEN f[i - 1]
                        ELSE drive_migrations_tick(f[i - 1])]
           d0 == Durable
           d1 == drive_migrations_tick(d0)
           d2 == T(d1)
           d3 == T(d2)
           d4 == T(d3)
           d5 == T(d4)
           d6 == T(d5)
           d7 == T(d6)
           d8 == T(d7)
<1>1. ASSUME NEW d, IndexFits(d) PROVE IndexFits(T(d))
  BY <1>1, DriveFits
<1>2. IndexFits(d1)
  BY DriveFits
<1> HIDE DEF T
<1>3. IndexFits(d8)
  <2> HIDE DEF d1
  <2>1. IndexFits(d2) BY <1>1, <1>2
  <2> HIDE DEF d2
  <2>2. IndexFits(d3) BY <1>1, <2>1
  <2> HIDE DEF d3
  <2>3. IndexFits(d4) BY <1>1, <2>2
  <2> HIDE DEF d4
  <2>4. IndexFits(d5) BY <1>1, <2>3
  <2> HIDE DEF d5
  <2>5. IndexFits(d6) BY <1>1, <2>4
  <2> HIDE DEF d6
  <2>6. IndexFits(d7) BY <1>1, <2>5
  <2> HIDE DEF d7
  <2> QED BY <1>1, <2>6
<1>4. ASSUME NEW f, f = F(f) PROVE f[8] = d8
  <2>1. \A i \in 0..8 : f[i] = IF i = 0 THEN Durable
                        ELSE IF i > 1 /\ ~migration_pending(f[i - 1]) THEN f[i - 1]
                        ELSE drive_migrations_tick(f[i - 1])
    BY <1>4
  <2>2. f[0] = d0 BY <2>1
  <2>3. f[1] = d1 BY <2>1, <2>2
  <2>4. \A i \in 2..8 : f[i] = T(f[i - 1])
    <3> TAKE i \in 2..8
    <3>1. i \in 0..8 /\ i # 0 /\ i > 1
      OBVIOUS
    <3> QED BY <2>1, <3>1 DEF T
  <2> HIDE DEF d0, d1
  <2>5. f[2] = d2 BY <2>3, <2>4
  <2>6. f[3] = d3 BY <2>4, <2>5
  <2>7. f[4] = d4 BY <2>4, <2>6
  <2>8. f[5] = d5 BY <2>4, <2>7
  <2>9. f[6] = d6 BY <2>4, <2>8
  <2>10. f[7] = d7 BY <2>4, <2>9
  <2> QED BY <2>4, <2>10
<1>5. \E f : f = F(f)
  <2> DEFINE g == [i \in 0..8 |-> IF i = 0 THEN d0 ELSE IF i = 1 THEN d1
                    ELSE IF i = 2 THEN d2 ELSE IF i = 3 THEN d3 ELSE IF i = 4 THEN d4
                    ELSE IF i = 5 THEN d5 ELSE IF i = 6 THEN d6 ELSE IF i = 7 THEN d7
                    ELSE d8]
  <2>1. /\ g[0] = d0 /\ g[1] = d1 /\ g[2] = d2 /\ g[3] = d3 /\ g[4] = d4
        /\ g[5] = d5 /\ g[6] = d6 /\ g[7] = d7 /\ g[8] = d8
    <3> HIDE DEF d0, d1, d2, d3, d4, d5, d6, d7, d8
    <3> QED OBVIOUS
  <2>2. \A i \in 0..8 : i = 0 \/ i = 1 \/ i = 2 \/ i = 3 \/ i = 4 \/ i = 5
                        \/ i = 6 \/ i = 7 \/ i = 8
    OBVIOUS
  <2>3. g = [i \in 0..8 |-> g[i]]
    OBVIOUS
  <2>4. \A i \in 2..8 : g[i] = T(g[i - 1])
    <3> HIDE DEF g, d0, d1
    <3>1. /\ g[2] = T(g[1]) /\ g[3] = T(g[2]) /\ g[4] = T(g[3]) /\ g[5] = T(g[4])
          /\ g[6] = T(g[5]) /\ g[7] = T(g[6]) /\ g[8] = T(g[7])
      BY <2>1
    <3> HIDE DEF d2, d3, d4, d5, d6, d7, d8
    <3> TAKE i \in 2..8
    <3>2. i = 2 \/ i = 3 \/ i = 4 \/ i = 5 \/ i = 6 \/ i = 7 \/ i = 8
      OBVIOUS
    <3> QED BY <3>1, <3>2
  <2>5. \A i \in 0..8 : g[i] = IF i = 0 THEN Durable
                        ELSE IF i > 1 /\ ~migration_pending(g[i - 1]) THEN g[i - 1]
                        ELSE drive_migrations_tick(g[i - 1])
    <3> TAKE i \in 0..8
    <3>1. CASE i = 0 BY <2>1, <3>1
    <3>2. CASE i = 1 BY <2>1, <3>2
    <3>3. CASE i \in 2..8
      <4>1. g[i] = T(g[i - 1]) BY <2>4, <3>3
      <4> HIDE DEF g
      <4> QED BY <3>3, <4>1 DEF T
    <3> QED BY <3>1, <3>2, <3>3
  <2> HIDE DEF g
  <2>6. g = F(g)
    BY <2>3, <2>5
  <2> QED BY <2>6
<1>6. Installed = (CHOOSE f : f = F(f))[8]
  BY DEF Installed
<1>7. (CHOOSE f : f = F(f)) = F(CHOOSE f : f = F(f))
  BY <1>5
<1>8. Installed = d8
  BY <1>4, <1>6, <1>7
<1> QED BY <1>3, <1>8

LEMMA SetDurableFits ==
    ASSUME tx_store \subseteq Tx, NEW d, IndexFits(d), SetDurable(d), tx_store' = tx_store
    PROVE  IndexInv'
<1>1. PICK X : d \in MigrationData(X)
  BY DEF IndexFits, Shaped
<1>2. d = [meta |-> d.meta, schema |-> d.schema, root |-> d.root, index |-> d.index]
  BY <1>1 DEF MigrationData
<1>3. Durable' = d
  BY <1>2 DEF Durable, SetDurable
<1>4. IndexFits(Durable)'
  BY <1>3 DEF IndexFits
<1> QED BY <1>4 DEF IndexInv

LEMMA InitialIndex == Init => IndexInv
<1> SUFFICES ASSUME Init PROVE IndexInv
  OBVIOUS
<1> DEFINE X == {root, eth_tx_hash_index, "Done", 0}
<1>1. tx_store \subseteq Tx
  BY DEF Init
<1>2. meta \in [version : Nat, needs : BOOLEAN, v3 : BOOLEAN]
  <2>1. CASE stage = "new"
    <3>1. meta = [version |-> Current, needs |-> FALSE, v3 |-> FALSE]
      BY <2>1 DEF Init
    <3> QED BY <3>1, LifecycleAssumption
  <2>2. CASE stage = "old"
    <3>1. meta \in [version : Schemas, needs : {FALSE}, v3 : BOOLEAN]
      BY <2>2 DEF Init
    <3> QED BY <3>1, LifecycleAssumption
  <2> QED BY <2>1, <2>2 DEF Init
<1>3. schema \in [phase : X, from : Nat, key : X] /\ schema.phase = "Done"
  BY LifecycleAssumption DEF Init, SchemaDone
<1>4. Durable \in MigrationData(X)
  <2>1. root \in X /\ eth_tx_hash_index \in X
    OBVIOUS
  <2> HIDE DEF X
  <2> QED BY <1>2, <1>3, <2>1 DEF Durable, MigrationData
<1>5. eth_tx_hash_index = IF meta.version < IndexedSince THEN {} ELSE tx_store \cap Signed
  BY DEF Init
<1>6. /\ Durable.meta = meta /\ Durable.schema = schema /\ Durable.index = eth_tx_hash_index
  BY DEF Durable
<1> HIDE DEF X
<1>7. IndexFits(Durable)
  BY <1>2, <1>3, <1>4, <1>5, <1>6, LifecycleAssumption DEF IndexFits, Shaped
<1> QED BY <1>1, <1>7 DEF IndexInv

(* A write finds the index complete, and takes the transaction and its     *)
(* entry together.                                                         *)
LEMMA WriteFits ==
    ASSUME IndexInv, Accepts(Durable), UNCHANGED <<meta, schema, root>>,
           tx_store' \subseteq Tx,
           eth_tx_hash_index = tx_store \cap Signed => eth_tx_hash_index' = tx_store' \cap Signed
    PROVE  IndexInv'
<1>1. PICK X : Durable \in MigrationData(X)
  BY DEF IndexInv, IndexFits, Shaped
<1>2. /\ Durable.meta = meta /\ Durable.schema = schema /\ Durable.root = root
      /\ Durable.index = eth_tx_hash_index
  BY DEF Durable
<1>3. ~migration_pending(Durable)
  BY Zenon DEF Accepts
<1>4. meta.version >= IndexedSince
  BY <1>1, <1>2, <1>3, LifecycleAssumption DEF migration_pending, MigrationData
<1>5. eth_tx_hash_index' = tx_store' \cap Signed
  BY <1>2, <1>4 DEF IndexInv, IndexFits
<1> DEFINE Y == X \cup {eth_tx_hash_index'}
<1>6. Durable' \in MigrationData(Y)
  <2>1. Durable' = [meta |-> meta, schema |-> schema, root |-> root,
                    index |-> eth_tx_hash_index']
    BY DEF Durable
  <2> QED BY <1>1, <1>2, <2>1 DEF MigrationData
<1>7. /\ Durable'.meta = meta /\ Durable'.schema = schema
      /\ Durable'.index = eth_tx_hash_index'
  BY DEF Durable
<1>8. schema.phase \notin {"Done", "Error"} => schema.from = meta.version
  BY <1>2 DEF IndexInv, IndexFits
<1> HIDE DEF Y
<1>9. IndexFits(Durable)'
  BY <1>5, <1>6, <1>7, <1>8 DEF IndexFits, Shaped
<1> QED BY <1>9 DEF IndexInv

LEMMA IndexStep == IndexInv /\ [Next]_vars => IndexInv'
<1> SUFFICES ASSUME IndexInv, [Next]_vars PROVE IndexInv'
  OBVIOUS
<1>1. tx_store \subseteq Tx /\ IndexFits(Durable)
  BY DEF IndexInv
<1>2. CASE install
  <2>1. SetDurable(Installed) /\ tx_store' = tx_store
    BY <1>2, Zenon DEF install, txs
  <2> QED BY <1>1, <2>1, InstalledFits, SetDurableFits, Zenon
<1>3. CASE post_upgrade
  <2>1. SetDurable(apply_post_upgrade_migrations(Durable)) /\ tx_store' = tx_store
    BY <1>3, Zenon DEF post_upgrade, txs
  <2> QED BY <1>1, <2>1, UpgradedFits, SetDurableFits, Zenon
<1>4. CASE run_cycle_observer_once
  <2>1. /\ \/ SetDurable(drive_migrations_tick(Durable))
           \/ SetDurable(Durable)
        /\ tx_store' = tx_store
    BY <1>4, Zenon DEF run_cycle_observer_once, txs
  <2> QED BY <1>1, <2>1, DriveFits, SetDurableFits, Zenon
<1>5. CASE \E done \in SUBSET ready_queue : \E dropped \in SUBSET done :
                MiningProduces(done, dropped)
  <2>1. PICK done, dropped : MiningProduces(done, dropped)
    BY <1>5
  <2>2. /\ Accepts(Durable)
        /\ tx_store' = tx_store \ dropped
        /\ eth_tx_hash_index' = eth_tx_hash_index \ dropped
        /\ UNCHANGED <<meta, schema, root>>
    BY <2>1, Zenon DEF MiningProduces
  <2>3. tx_store' \subseteq Tx
    BY <1>1, <2>2
  <2>4. eth_tx_hash_index = tx_store \cap Signed =>
            eth_tx_hash_index' = tx_store' \cap Signed
    BY <2>2
  <2> QED BY <2>2, <2>3, <2>4, WriteFits, Zenon
<1>6. ASSUME UNCHANGED <<meta, schema, root, eth_tx_hash_index, tx_store>>
      PROVE  IndexInv'
  <2>1. Durable' = Durable /\ tx_store' = tx_store
    BY <1>6 DEF Durable
  <2>2. IndexFits(Durable)'
    BY <1>1, <2>1 DEF IndexFits
  <2> QED BY <1>1, <2>1, <2>2 DEF IndexInv
<1>7. CASE MiningIdle \/ MiningFails
  BY <1>6, <1>7, Zenon DEF MiningIdle, MiningFails, migrating, txs
<1>8. CASE \E timer \in {"mining", "observer"} : Trap(timer)
  BY <1>6, <1>8, Zenon DEF Trap, migrating, txs
<1>9. CASE \E t \in Tx : Submit(t)
  <2>1. PICK t \in Tx : Submit(t)
    BY <1>9
  <2>2. UNCHANGED <<meta, schema, root>>
    BY <2>1, Zenon DEF Submit
  <2>3. CASE ~critical_corrupt_state /\ Accepts(Durable)
    <3>1. /\ tx_store' = tx_store \cup {t}
          /\ eth_tx_hash_index' = eth_tx_hash_index \cup ({t} \cap Signed)
      BY <2>1, <2>3, Zenon DEF Submit
    <3>2. tx_store' \subseteq Tx
      BY <1>1, <3>1
    <3>3. eth_tx_hash_index = tx_store \cap Signed =>
              eth_tx_hash_index' = tx_store' \cap Signed
      BY <3>1
    <3> QED BY <2>2, <2>3, <3>2, <3>3, WriteFits, Zenon
  <2>4. CASE ~(~critical_corrupt_state /\ Accepts(Durable))
    <3>1. UNCHANGED <<tx_store, eth_tx_hash_index>>
      BY <2>1, <2>4, Zenon DEF Submit, txs
    <3> QED BY <1>6, <2>2, <3>1
  <2> QED BY <2>3, <2>4
<1>10. CASE \E b \in Balances : SetBalance(b)
  BY <1>6, <1>10, Zenon DEF SetBalance, migrating, txs
<1>11. CASE UNCHANGED vars
  BY <1>6, <1>11, Zenon DEF vars, migrating, txs
<1> QED BY <1>2, <1>3, <1>4, <1>5, <1>7, <1>8, <1>9, <1>10, <1>11 DEF Next, Mine

(* Once writes are accepted after an upgrade, the index of Ethereum hashes *)
(* holds every signed transaction and no other (schema_migration_tick,     *)
(* rebuild_eth_tx_hash_index_batch, verify_eth_tx_hash_index): for every   *)
(* version that the memory came from, every size of a batch and of the     *)
(* sample, and wherever upgrades interrupted the rebuild.                  *)
THEOREM IndexAlwaysComplete == Spec => []IndexCompleteWhenServing
<1>1. Init => IndexInv
  BY InitialIndex
<1>2. IndexInv /\ [Next]_vars => IndexInv'
  BY IndexStep
<1>3. IndexInv => IndexCompleteWhenServing
  <2> SUFFICES ASSUME IndexInv, ~migration_pending(Durable)
               PROVE  eth_tx_hash_index = tx_store \cap Signed
    BY Zenon DEF IndexCompleteWhenServing
  <2>1. PICK X : Durable \in MigrationData(X)
    BY DEF IndexInv, IndexFits, Shaped
  <2>2. Durable.meta = meta /\ Durable.index = eth_tx_hash_index
    BY DEF Durable
  <2>3. meta.version >= IndexedSince
    BY <2>1, <2>2, LifecycleAssumption DEF migration_pending, MigrationData
  <2> QED BY <2>2, <2>3 DEF IndexInv, IndexFits
<1> QED BY <1>1, <1>2, <1>3, PTL DEF Spec
=============================================================================
