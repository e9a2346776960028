--------------------------- MODULE HistoryProofs ---------------------------
(***************************************************************************)
(* Proofs about the stored history, for every sequence of blocks and every *)
(* policy: the blobs in use are the rows of the tables whatever was freed, *)
(* reused, journaled or recovered, what is said of pruned blocks is true,  *)
(* and a prune deletes only what the policy allows.                        *)
(*                                                                         *)
(* The argument keeps one pointer for each row that has a blob: a row of a *)
(* table, or a row of the journaled block whose tables are already gone.   *)
(* A blob names its row, so no two rows share one; storing adds a row,     *)
(* reclaiming the journaled pointers takes the rows of one block away.     *)
(***************************************************************************)
EXTENDS History, FoldProofs

Number == Nat \cup {None}
Policy == [target : Nat, retain_days : Nat, retain_blocks : Nat, max_ops : Nat]
TxData == [logs : Seq(BOOLEAN), traced : BOOLEAN, class : Nat \ {0}]
BlockData == [txs : Seq(TxData), time : Nat]
Ptr == [key : Nat \X Nat, gen : Nat]
RowId == {"block", "index", "receipt", "traces"} \X (Nat \X Nat)

\* The transactions and the rows of block n, and the transactions of the
\* blocks in S, when the blocks m were made.
TxsIn(m, n) == {<<n, i>> : i \in 1..Len(m[n].txs)}
TracedIn(m, n) == {t \in TxsIn(m, n) : m[t[1]].txs[t[2]].traced}
RowsOf(m, n) ==
    {<<"block", <<n, 0>>>>}
        \cup {<<"index", t>> : t \in TxsIn(m, n)}
        \cup {<<"receipt", t>> : t \in TxsIn(m, n)}
        \cup {<<"traces", t>> : t \in TracedIn(m, n)}
TxsOf(m, S) == UNION {TxsIn(m, n) : n \in S}
TracedOf(m, S) == UNION {TracedIn(m, n) : n \in S}

UsedKeys(b) == {k \in DOMAIN b.alloc : b.alloc[k].state = "Used"}

\* A row and its blob: in use, of the generation of the pointer, and with the
\* data of the row.
RowOK(b, rows, r) ==
    /\ r \in RowId
    /\ rows[r] \in Ptr
    /\ rows[r].key \in UsedKeys(b)
    /\ b.alloc[rows[r].key].gen = rows[r].gen
    /\ b.arena[rows[r].key] = [kind |-> r[1], id |-> r[2]]

KeyOK(b, k) ==
    /\ k \in (Nat \ {0}) \X Nat
    /\ k[2] < b.end
    /\ b.alloc[k] \in [gen : Nat, state : {"Used", "Free"}]

\* The store holds the blobs of rows, and no other is in use.
StoreOK(b, rows) ==
    /\ b = [alloc |-> b.alloc, arena |-> b.arena, end |-> b.end, totals |-> b.totals]
    /\ b.end \in Nat
    /\ IsFiniteSet(DOMAIN b.alloc)
    /\ DOMAIN b.arena = DOMAIN b.alloc
    /\ \A k \in DOMAIN b.alloc : KeyOK(b, k)
    /\ \A r \in DOMAIN rows : RowOK(b, rows, r)
    /\ \A k \in UsedKeys(b) : \E r \in DOMAIN rows : rows[r].key = k
    /\ b.totals = [used |-> Size(UsedKeys(b)), free |-> Size(DOMAIN b.alloc \ UsedKeys(b))]

\* The table f of a kind holds the pointers of rows, for the keys in S.
Holds(f, kind, S, rows) == DOMAIN f = S /\ \A t \in S : f[t] = rows[<<kind, t>>]

\* The tables and the journal hold the pointers of rows.
Follows(rows, m, bl, re, ix, tr, pj) ==
    /\ DOMAIN bl \subseteq 1..Len(m) /\ DOMAIN pj \subseteq 1..Len(m)
    /\ DOMAIN rows = UNION {RowsOf(m, n) : n \in DOMAIN bl \cup DOMAIN pj}
    /\ \A n \in DOMAIN bl : bl[n] = rows[<<"block", <<n, 0>>>>]
    /\ Holds(re, "receipt", TxsOf(m, DOMAIN bl), rows)
    /\ Holds(ix, "index", TxsOf(m, DOMAIN bl), rows)
    /\ Holds(tr, "traces", TracedOf(m, DOMAIN bl), rows)
    /\ \A n \in DOMAIN pj : pj[n] = {rows[r] : r \in RowsOf(m, n)}

TablesFollow(rows) ==
    Follows(rows, made, blocks, receipts, tx_index, internal_traces, prune_journal)
RowsInv == \E rows : StoreOK(blob, rows) /\ TablesFollow(rows)

MadeInv == made \in Seq(BlockData)

\* The states of a prune message.
Working == {"journaled", "cursor", "deleted"}
PruneStateOK(ps) ==
    /\ ps = [next |-> ps.next, before |-> ps.before, journal |-> ps.journal]
    /\ ps.next \in Nat /\ ps.before \in Number /\ ps.journal \in Number
    /\ ps.next <= ps.before + 1
JobOK(j, h) ==
    \/ j = Idle
    \/ j = [pc |-> "tick"]
    \/ /\ j.pc \in {"enter", "end"}
       /\ j = [pc |-> j.pc, retain |-> j.retain, max_ops |-> j.max_ops, tick |-> j.tick,
               by_size |-> j.by_size]
       /\ j.retain \in Nat \ {0}
    \/ /\ j.pc \in {"loop"} \cup Working
       /\ j = [pc |-> j.pc, upto |-> j.upto, ops |-> j.ops, max_ops |-> j.max_ops,
               tick |-> j.tick, by_size |-> j.by_size, next |-> j.next, ps |-> j.ps]
       /\ j.upto \in Nat /\ j.upto < h
       /\ PruneStateOK(j.ps) /\ j.next \in Nat
       /\ j.next = IF j.pc = "deleted" THEN j.ps.before ELSE j.ps.before + 1
       /\ j.pc \in Working => j.next <= j.upto
ConfigOK(c) ==
    /\ c = [enabled |-> c.enabled, running |-> c.running, policy |-> c.policy,
            oldest |-> c.oldest, oldest_time |-> c.oldest_time]
    /\ c.policy \in Policy /\ c.oldest \in Number
TypeInv == PruneStateOK(prune_state) /\ JobOK(job, head) /\ ConfigOK(config)

\* The journal holds the block the prune works on, or the one it stopped at.
JournalInv ==
    /\ \A m, n \in DOMAIN prune_journal : m = n
    /\ prune_state.journal # None => DOMAIN prune_journal = {prune_state.journal}
    /\ job.pc \in {"loop", "end"} => DOMAIN prune_journal = {} /\ prune_state.journal = None
    /\ job.pc = "loop" => job.ps.journal = None
    /\ job.pc \in Working => DOMAIN prune_journal = {job.next} /\ job.ps.journal = job.next
    /\ job.pc \in {"journaled", "cursor"} => job.next \in DOMAIN blocks
    /\ job.pc = "deleted" => job.next \notin DOMAIN blocks

\* The tables of the readers.
LocsInv ==
    /\ DOMAIN tx_locs = TxsOf(made, DOMAIN blocks)
    /\ \A t \in DOMAIN tx_locs : tx_locs[t] = t[1]

\* The blocks above n, up to the head.
Above(n) == {m \in 1..head : m > n}

\* The blocks that are left are the ones above the boundary; a journaled block
\* that is still there is the lowest one, and below the head.
BoundaryInv ==
    /\ job.pc # "deleted" => DOMAIN blocks = Above(prune_state.before)
    /\ job.pc \in {"loop"} \cup Working => DOMAIN blocks = Above(job.ps.before)
    /\ prune_state.before < head \/ prune_state.before <= 0
    /\ job.pc = "loop" => job.ps.before < head
    /\ \A n \in DOMAIN prune_journal : n < head
    /\ job.pc # "deleted" => \A n \in DOMAIN prune_journal : DOMAIN blocks = Above(n - 1)

\* c names the oldest of the blocks S.
NamesOldest(c, S) ==
    c.oldest \in S /\ (\A k \in S : c.oldest <= k) /\ c.oldest_time = made[c.oldest].time

\* Outside the loop, with nothing left to recover, the configuration names
\* the oldest block.
OldestInv ==
    /\ head = 0 => config.oldest = None
    /\ job.pc \in {"idle", "tick", "enter", "end"} /\ DOMAIN prune_journal = {} /\ head > 0 =>
            NamesOldest(config, DOMAIN blocks)

\* The blocks a prune by age may delete, and how far a prune goes.
Old(n) ==
    \/ made[n].time <= Cutoff
    \/ config.policy.retain_blocks > 0 /\ n <= head - config.policy.retain_blocks
RetainInv ==
    /\ \A m, n \in 1..head : m <= n => made[m].time <= made[n].time
    /\ job.pc = "enter" /\ job.tick /\ ~job.by_size =>
            \A n \in 1..head : n <= head - job.retain => Old(n)
    /\ job.pc \in {"loop"} \cup Working /\ job.tick /\ ~job.by_size =>
            \A n \in 1..head : n <= job.upto => Old(n)

-----------------------------------------------------------------------------
(* The blob store.                                                         *)

\* The size of a set of blobs is a number, and that of none is 0.
LEMMA SizeInt ==
    ASSUME NEW K, IsFiniteSet(K), \A k \in K : k[1] \in Int
    PROVE  Size(K) \in Int
<1> DEFINE f == [k \in K |-> k[1]]
<1>1. \A k \in K : f[k] \in Int
  OBVIOUS
<1> HIDE DEF f
<1>2. SumFunctionOnSet(f, K) \in Int
  BY <1>1, SumInt
<1> QED
  BY <1>2 DEF Size, f

LEMMA SizeEmpty == Size({}) = 0
<1>1. \A f : SumFunctionOnSet(f, {}) = 0
  BY SumEmpty
<1> QED
  BY <1>1 DEF Size

\* It is the size of a part and of the rest.
LEMMA SizeSplit ==
    ASSUME NEW K, IsFiniteSet(K), \A k \in K : k[1] \in Int, NEW T, T \subseteq K
    PROVE  Size(K) = Size(T) + Size(K \ T)
<1> DEFINE f == [k \in K |-> k[1]]
           g == [k \in T |-> k[1]]
           h == [k \in K \ T |-> k[1]]
<1>1. \A k \in K : f[k] \in Int
  OBVIOUS
<1>2. \A k \in T : f[k] \in Int /\ g[k] = f[k]
  OBVIOUS
<1>3. \A k \in K \ T : f[k] \in Int /\ h[k] = f[k]
  OBVIOUS
<1>4. IsFiniteSet(T) /\ IsFiniteSet(K \ T)
  BY FS_Subset
<1> HIDE DEF f, g, h
<1>5. SumFunctionOnSet(f, K) = SumFunctionOnSet(f, T) + SumFunctionOnSet(f, K \ T)
  BY <1>1, SumSplit
<1>6. SumFunctionOnSet(g, T) = SumFunctionOnSet(f, T)
  BY <1>2, <1>4, SumSame
<1>7. SumFunctionOnSet(h, K \ T) = SumFunctionOnSet(f, K \ T)
  BY <1>3, <1>4, SumSame
<1>8. SumFunctionOnSet(f, K) = SumFunctionOnSet(g, T) + SumFunctionOnSet(h, K \ T)
  BY <1>5, <1>6, <1>7
<1> QED
  BY <1>8 DEF Size, f, g, h

\* One blob more adds its class.
LEMMA SizeOne ==
    ASSUME NEW k, k[1] \in Int
    PROVE  Size({k}) = k[1]
<1> DEFINE f == [j \in {k} |-> j[1]]
<1>1. \A j \in {k} : f[j] \in Int
  OBVIOUS
<1>2. IsFiniteSet({k}) /\ k \in {k} /\ {k} \ {k} = {}
  BY FS_Singleton
<1>3. f[k] = k[1]
  OBVIOUS
<1> HIDE DEF f
<1>4. SumFunctionOnSet(f, {k}) = f[k] + SumFunctionOnSet(f, {k} \ {k})
  BY <1>1, <1>2, SumOut
<1>5. SumFunctionOnSet(f, {}) = 0
  BY SumEmpty
<1>6. SumFunctionOnSet(f, {k} \ {k}) = 0
  BY <1>2, <1>5, Zenon
<1>7. SumFunctionOnSet(f, {k}) = k[1]
  BY <1>3, <1>4, <1>6
<1> QED
  BY <1>7 DEF Size, f

LEMMA SizeMore ==
    ASSUME NEW K, IsFiniteSet(K), \A k \in K : k[1] \in Int, NEW x, x \notin K, x[1] \in Int
    PROVE  Size(K \cup {x}) = Size(K) + x[1]
<1>1. PICK M : M = K \cup {x}
  OBVIOUS
<1>2. IsFiniteSet(M)
  BY <1>1, FS_AddElement
<1>3. K \subseteq M /\ M \ K = {x} /\ \A k \in M : k[1] \in Int
  BY <1>1
<1>4. Size(M) = Size(K) + Size(M \ K)
  BY <1>2, <1>3, SizeSplit
<1>5. Size({x}) = x[1]
  BY SizeOne
<1> QED
  BY <1>1, <1>3, <1>4, <1>5

\* allocate gives a free blob of the class under a new generation, or a new
\* blob behind the last one.
LEMMA AllocateGives ==
    ASSUME NEW b, NEW rows, StoreOK(b, rows), NEW class \in Nat \ {0}
    PROVE  \E key, gen :
            /\ allocate(b, class) = [key |-> key, gen |-> gen]
            /\ gen \in Nat /\ key \in (Nat \ {0}) \X Nat /\ key[1] = class
            /\ \/ key \in DOMAIN b.alloc /\ b.alloc[key].state = "Free"
               \/ key \notin DOMAIN b.alloc /\ key[2] = b.end
<1> DEFINE F == FreeKeys(b, class)
<1>0. \A k \in DOMAIN b.alloc : KeyOK(b, k)
  BY DEF StoreOK
<1>1. CASE F # {}
  <2>1. PICK S : S = {k[2] : k \in F}
    OBVIOUS
  <2>2. S \in SUBSET Nat /\ S # {}
    BY <1>0, <1>1, <2>1 DEF FreeKeys, KeyOK
  <2>3. PICK x \in S : \A y \in S : x <= y
    BY <2>2, NatLeast
  <2>4. \E k \in F : \A j \in F : k[2] <= j[2]
    BY <2>1, <2>3
  <2>5. PICK key : key = CHOOSE k \in F : \A j \in F : k[2] <= j[2]
    OBVIOUS
  <2>6. key \in F
    BY <2>4, <2>5
  <2>7. allocate(b, class) = [key |-> key, gen |-> b.alloc[key].gen + 1]
    BY <1>1, <2>5 DEF allocate
  <2>8. key \in DOMAIN b.alloc /\ b.alloc[key].state = "Free" /\ key[1] = class
    BY <2>6 DEF FreeKeys
  <2>9. key \in (Nat \ {0}) \X Nat /\ b.alloc[key].gen + 1 \in Nat
    BY <1>0, <2>8 DEF KeyOK
  <2> QED
    BY <2>7, <2>8, <2>9
<1>2. CASE F = {}
  <2>1. PICK key : key = <<class, b.end>>
    OBVIOUS
  <2>2. allocate(b, class) = [key |-> key, gen |-> 1]
    BY <1>2, <2>1 DEF allocate
  <2>3. b.end \in Nat
    BY DEF StoreOK
  <2>4. key \in (Nat \ {0}) \X Nat /\ key[1] = class /\ key[2] = b.end
    BY <2>1, <2>3
  <2>5. key \notin DOMAIN b.alloc
    BY <1>0, <2>3, <2>4 DEF KeyOK
  <2> QED
    BY <2>2, <2>4, <2>5
<1> QED
  BY <1>1, <1>2

\* Two rows do not share a blob: the blob names its row.
LEMMA RowsApart ==
    ASSUME NEW b, NEW rows, StoreOK(b, rows),
           NEW r \in DOMAIN rows, NEW s \in DOMAIN rows, rows[r].key = rows[s].key
    PROVE  r = s
<1>1. RowOK(b, rows, r) /\ RowOK(b, rows, s)
  BY DEF StoreOK
<1>2. [kind |-> r[1], id |-> r[2]] = [kind |-> s[1], id |-> s[2]]
  BY <1>1 DEF RowOK
<1>3. r[1] = s[1] /\ r[2] = s[2]
  <2>1. [kind |-> r[1], id |-> r[2]].kind = [kind |-> s[1], id |-> s[2]].kind
    BY <1>2
  <2>2. [kind |-> r[1], id |-> r[2]].id = [kind |-> s[1], id |-> s[2]].id
    BY <1>2
  <2> QED
    BY <2>1, <2>2
<1> QED
  BY <1>1, <1>3 DEF RowOK, RowId

\* Storing the data of a new row gives a store with one row more.
LEMMA StoreKeeps ==
    ASSUME NEW b, NEW rows, StoreOK(b, rows), NEW class \in Nat \ {0},
           NEW r \in RowId, r \notin DOMAIN rows
    PROVE  StoreOK(store_bytes(b, class, [kind |-> r[1], id |-> r[2]]),
                   With(rows, r, allocate(b, class)))
<1>1. PICK key, gen :
        /\ allocate(b, class) = [key |-> key, gen |-> gen]
        /\ gen \in Nat /\ key \in (Nat \ {0}) \X Nat /\ key[1] = class
        /\ \/ key \in DOMAIN b.alloc /\ b.alloc[key].state = "Free"
           \/ key \notin DOMAIN b.alloc /\ key[2] = b.end
  BY AllocateGives
<1>2. PICK data : data = [kind |-> r[1], id |-> r[2]]
  OBVIOUS
<1>3. PICK c : c = store_bytes(b, class, data)
  OBVIOUS
<1>4. PICK entry : entry = [gen |-> gen, state |-> "Used"]
  OBVIOUS
<1>5. PICK rest : rest = IF key \in DOMAIN b.alloc THEN b.end ELSE b.end + class
  OBVIOUS
<1>6. PICK freed : freed = IF key \in DOMAIN b.alloc THEN class ELSE 0
  OBVIOUS
<1>7. c = [alloc |-> With(b.alloc, key, entry), arena |-> With(b.arena, key, data), end |-> rest,
           totals |-> [used |-> b.totals.used + class, free |-> b.totals.free - freed]]
  BY <1>1, <1>3, <1>4, <1>5, <1>6 DEF store_bytes
<1>8. PICK q : q = With(rows, r, allocate(b, class))
  OBVIOUS
<1>9. /\ c.alloc = With(b.alloc, key, entry) /\ c.arena = With(b.arena, key, data)
      /\ c.end = rest
      /\ c.totals = [used |-> b.totals.used + class, free |-> b.totals.free - freed]
  BY <1>7
<1>10. /\ DOMAIN c.alloc = DOMAIN b.alloc \cup {key}
       /\ c.alloc[key] = entry
       /\ \A k \in DOMAIN b.alloc : k # key => c.alloc[k] = b.alloc[k]
  BY <1>9 DEF With
<1>11. /\ DOMAIN c.arena = DOMAIN b.arena \cup {key}
       /\ c.arena[key] = data
       /\ \A k \in DOMAIN b.arena : k # key => c.arena[k] = b.arena[k]
  BY <1>9 DEF With
<1>12. /\ DOMAIN q = DOMAIN rows \cup {r}
       /\ q[r] = [key |-> key, gen |-> gen]
       /\ \A s \in DOMAIN rows : q[s] = rows[s]
  BY <1>1, <1>8 DEF With
<1>13. b.end \in Nat /\ rest \in Nat /\ b.end <= rest /\ (key \notin DOMAIN b.alloc => key[2] < rest)
  BY <1>1, <1>5 DEF StoreOK
<1>14. key \notin UsedKeys(b)
  BY <1>1 DEF UsedKeys
<1>15. UsedKeys(c) = UsedKeys(b) \cup {key}
  BY <1>4, <1>10 DEF UsedKeys
<1>16. ASSUME NEW k \in DOMAIN c.alloc PROVE KeyOK(c, k)
  <2>1. CASE k # key
    <3>1. KeyOK(b, k) /\ c.alloc[k] = b.alloc[k]
      BY <1>10, <2>1 DEF StoreOK
    <3> QED
      BY <1>9, <1>13, <3>1 DEF KeyOK
  <2>2. CASE k = key
    <3>1. key[2] < rest
      <4>1. CASE key \in DOMAIN b.alloc
        <5>1. KeyOK(b, key)
          BY <4>1 DEF StoreOK
        <5> QED
          BY <1>1, <1>13, <5>1 DEF KeyOK
      <4> QED
        BY <1>13, <4>1
    <3>2. c.alloc[k] \in [gen : Nat, state : {"Used", "Free"}]
      BY <1>1, <1>4, <1>10, <2>2
    <3> QED
      BY <1>1, <1>9, <2>2, <3>1, <3>2 DEF KeyOK
  <2> QED
    BY <2>1, <2>2
<1>17. ASSUME NEW s \in DOMAIN q PROVE RowOK(c, q, s)
  <2>1. CASE s = r
    <3>1. q[s] \in Ptr /\ q[s].key = key /\ q[s].gen = gen
      BY <1>1, <1>12, <2>1 DEF Ptr
    <3> QED
      BY <1>2, <1>4, <1>10, <1>11, <1>15, <2>1, <3>1 DEF RowOK
  <2>2. CASE s # r
    <3>1. s \in DOMAIN rows /\ q[s] = rows[s]
      BY <1>12, <2>2
    <3>2. RowOK(b, rows, s)
      BY <3>1 DEF StoreOK
    <3>3. q[s].key # key /\ q[s].key \in DOMAIN b.alloc /\ q[s].key \in DOMAIN b.arena
      BY <1>14, <3>1, <3>2 DEF RowOK, UsedKeys, StoreOK
    <3> QED
      BY <1>10, <1>11, <1>15, <3>1, <3>2, <3>3 DEF RowOK
  <2> QED
    BY <2>1, <2>2
<1>18. ASSUME NEW k \in UsedKeys(c) PROVE \E s \in DOMAIN q : q[s].key = k
  <2>1. CASE k = key
    BY <1>12, <2>1
  <2>2. CASE k # key
    <3>1. k \in UsedKeys(b)
      BY <1>15, <2>2
    <3>2. PICK s \in DOMAIN rows : rows[s].key = k
      BY <3>1 DEF StoreOK
    <3> QED
      BY <1>12, <3>2
  <2> QED
    BY <2>1, <2>2
<1>19. IsFiniteSet(DOMAIN c.alloc)
  BY <1>10, FS_AddElement DEF StoreOK
<1>20. c.totals = [used |-> Size(UsedKeys(c)), free |-> Size(DOMAIN c.alloc \ UsedKeys(c))]
  <2>1. PICK U : U = UsedKeys(b)
    OBVIOUS
  <2>2. PICK F : F = DOMAIN b.alloc \ U
    OBVIOUS
  <2>3. /\ IsFiniteSet(U) /\ IsFiniteSet(F)
        /\ \A k \in U : k[1] \in Int
        /\ \A k \in F : k[1] \in Int
    <3>1. U \subseteq DOMAIN b.alloc /\ F \subseteq DOMAIN b.alloc
      BY <2>1, <2>2 DEF UsedKeys
    <3>2. IsFiniteSet(U) /\ IsFiniteSet(F)
      BY <3>1, FS_Subset DEF StoreOK
    <3>3. \A k \in DOMAIN b.alloc : k[1] \in Int
      BY DEF StoreOK, KeyOK
    <3> QED
      BY <3>1, <3>2, <3>3
  <2>4. b.totals.used = Size(U) /\ b.totals.free = Size(F)
    BY <2>1, <2>2 DEF StoreOK
  <2>5. Size(U \cup {key}) = Size(U) + class
    <3>1. key \notin U /\ key[1] \in Int
      BY <1>1, <1>14, <2>1
    <3>2. Size(U \cup {key}) = Size(U) + key[1]
      BY <2>3, <3>1, SizeMore
    <3> QED
      BY <1>1, <3>2
  <2>6. Size(F \ {key}) = Size(F) - freed
    <3>1. CASE key \in DOMAIN b.alloc
      <4>1. key \in F /\ {key} \subseteq F /\ key[1] \in Int
        BY <1>1, <1>14, <2>1, <2>2, <3>1
      <4>2. Size(F) = Size({key}) + Size(F \ {key})
        BY <2>3, <4>1, SizeSplit
      <4>3. Size({key}) = key[1]
        BY <4>1, SizeOne
      <4>4. Size(F \ {key}) \in Int
        <5>1. IsFiniteSet(F \ {key}) /\ \A k \in F \ {key} : k[1] \in Int
          BY <2>3, FS_Subset
        <5> QED
          BY <5>1, SizeInt
      <4> QED
        BY <1>1, <1>6, <3>1, <4>1, <4>2, <4>3, <4>4
    <3>2. CASE key \notin DOMAIN b.alloc
      <4>1. F \ {key} = F
        BY <2>2, <3>2
      <4>2. Size(F) \in Int
        BY <2>3, SizeInt
      <4>3. Size(F \ {key}) = Size(F)
        BY <4>1
      <4> QED
        BY <1>6, <3>2, <4>2, <4>3
    <3> QED
      BY <3>1, <3>2
  <2>7. DOMAIN c.alloc \ UsedKeys(c) = F \ {key}
    BY <1>10, <1>15, <2>1, <2>2
  <2>8. UsedKeys(c) = U \cup {key}
    BY <1>15, <2>1
  <2> QED
    BY <1>9, <2>4, <2>5, <2>6, <2>7, <2>8
<1>21. StoreOK(c, q)
  <2>1. c = [alloc |-> c.alloc, arena |-> c.arena, end |-> c.end, totals |-> c.totals]
    BY <1>7
  <2>2. c.end \in Nat
    BY <1>9, <1>13
  <2>3. DOMAIN c.arena = DOMAIN c.alloc
    BY <1>10, <1>11 DEF StoreOK
  <2> QED
    BY <1>16, <1>17, <1>18, <1>19, <1>20, <2>1, <2>2, <2>3 DEF StoreOK
<1> QED
  BY <1>2, <1>3, <1>8, <1>21

\* Reclaiming the pointers of some rows gives a store without these rows.
LEMMA ReclaimKeeps ==
    ASSUME NEW b, NEW rows, StoreOK(b, rows), NEW R, R \subseteq DOMAIN rows
    PROVE  StoreOK(reclaim_for_prune(b, {rows[r] : r \in R}), Drop(rows, R))
<1>1. PICK L : L = {rows[r].key : r \in R}
  OBVIOUS
<1>2. \A r \in DOMAIN rows : RowOK(b, rows, r)
  BY DEF StoreOK
<1>3. L \subseteq UsedKeys(b)
  BY <1>1, <1>2 DEF RowOK
<1>4. {k \in {p.key : p \in {rows[r] : r \in R}} : b.alloc[k].state = "Used"} = L
  <2>1. {p.key : p \in {rows[r] : r \in R}} = L
    BY <1>1
  <2> QED
    BY <1>3, <2>1 DEF UsedKeys
<1>5. PICK c : c = reclaim_for_prune(b, {rows[r] : r \in R})
  OBVIOUS
<1>6. PICK A : A = [k \in DOMAIN b.alloc |->
                        IF k \in L THEN [gen |-> b.alloc[k].gen, state |-> "Free"] ELSE b.alloc[k]]
  OBVIOUS
<1>7. PICK T : T = [used |-> b.totals.used - Size(L), free |-> b.totals.free + Size(L)]
  OBVIOUS
<1>8. c = [b EXCEPT !.alloc = A, !.totals = T]
  BY <1>4, <1>5, <1>6, <1>7, Zenon DEF reclaim_for_prune
<1>9. b = [alloc |-> b.alloc, arena |-> b.arena, end |-> b.end, totals |-> b.totals]
  BY DEF StoreOK
<1>10. DOMAIN b = {"alloc", "arena", "end", "totals"}
  BY <1>9
<1>11. c.alloc = A /\ c.arena = b.arena /\ c.end = b.end /\ c.totals = T
  BY <1>8, <1>10
<1>12. c = [alloc |-> c.alloc, arena |-> c.arena, end |-> c.end, totals |-> c.totals]
  BY <1>8, <1>10
<1>13. DOMAIN A = DOMAIN b.alloc
  BY <1>6
<1>14. /\ \A k \in DOMAIN b.alloc \ L : c.alloc[k] = b.alloc[k]
       /\ \A k \in L : c.alloc[k].state = "Free" /\ c.alloc[k].gen = b.alloc[k].gen
  BY <1>3, <1>6, <1>11 DEF UsedKeys
<1>15. UsedKeys(c) = UsedKeys(b) \ L
  <2>1. \A k \in L : k \notin UsedKeys(c)
    BY <1>14 DEF UsedKeys
  <2>2. \A k \in DOMAIN b.alloc \ L : k \in UsedKeys(c) <=> k \in UsedKeys(b)
    BY <1>11, <1>13, <1>14 DEF UsedKeys
  <2>3. UsedKeys(c) \subseteq DOMAIN b.alloc /\ UsedKeys(b) \subseteq DOMAIN b.alloc
    BY <1>11, <1>13 DEF UsedKeys
  <2> QED
    BY <2>1, <2>2, <2>3
<1>16. PICK q : q = Drop(rows, R)
  OBVIOUS
<1>17. DOMAIN q = DOMAIN rows \ R /\ \A s \in DOMAIN q : q[s] = rows[s]
  BY <1>16 DEF Drop
<1>18. ASSUME NEW s \in DOMAIN q PROVE RowOK(c, q, s)
  <2>1. s \in DOMAIN rows /\ s \notin R /\ q[s] = rows[s] /\ RowOK(b, rows, s)
    BY <1>2, <1>17
  <2>2. rows[s].key \notin L
    <3>1. SUFFICES ASSUME NEW r \in R, rows[r].key = rows[s].key PROVE FALSE
      BY <1>1
    <3>2. r = s
      BY <2>1, <3>1, RowsApart
    <3> QED
      BY <2>1, <3>2
  <2>3. rows[s].key \in DOMAIN b.alloc \ L
    BY <2>1, <2>2 DEF RowOK, UsedKeys
  <2>4. c.alloc[rows[s].key] = b.alloc[rows[s].key] /\ rows[s].key \in UsedKeys(c)
    BY <1>14, <1>15, <2>1, <2>2, <2>3 DEF RowOK
  <2> QED
    BY <1>11, <2>1, <2>4 DEF RowOK
<1>19. ASSUME NEW k \in UsedKeys(c) PROVE \E s \in DOMAIN q : q[s].key = k
  <2>1. k \in UsedKeys(b) /\ k \notin L
    BY <1>15
  <2>2. PICK s \in DOMAIN rows : rows[s].key = k
    BY <2>1 DEF StoreOK
  <2>3. s \notin R
    BY <1>1, <2>1, <2>2
  <2> QED
    BY <1>17, <2>2, <2>3
<1>20. ASSUME NEW k \in DOMAIN c.alloc PROVE KeyOK(c, k)
  <2>1. KeyOK(b, k)
    BY <1>11, <1>13 DEF StoreOK
  <2>2. CASE k \in L
    <3>1. c.alloc[k] = [gen |-> b.alloc[k].gen, state |-> "Free"]
      BY <1>6, <1>11, <1>13, <2>2
    <3> QED
      BY <1>11, <2>1, <3>1 DEF KeyOK
  <2>3. CASE k \notin L
    <3>1. c.alloc[k] = b.alloc[k]
      BY <1>11, <1>13, <1>14, <2>3
    <3> QED
      BY <1>11, <2>1, <3>1 DEF KeyOK
  <2> QED
    BY <2>2, <2>3
<1>21. T = [used |-> Size(UsedKeys(c)), free |-> Size(DOMAIN c.alloc \ UsedKeys(c))]
  <2>1. PICK D : D = DOMAIN b.alloc
    OBVIOUS
  <2>2. PICK U : U = UsedKeys(b)
    OBVIOUS
  <2>3. U \subseteq D /\ L \subseteq U
    BY <1>3, <2>1, <2>2 DEF UsedKeys
  <2>4. IsFiniteSet(D) /\ \A k \in D : k[1] \in Int
    BY <2>1 DEF StoreOK, KeyOK
  <2>5. PICK F : F = D \ U
    OBVIOUS
  <2>6. PICK G : G = F \cup L
    OBVIOUS
  <2>7. IsFiniteSet(U) /\ IsFiniteSet(L) /\ IsFiniteSet(F) /\ IsFiniteSet(G) /\ IsFiniteSet(U \ L)
    <3>1. L \subseteq D /\ F \subseteq D /\ G \subseteq D /\ U \ L \subseteq D
      BY <2>3, <2>5, <2>6
    <3> QED
      BY <2>3, <2>4, <3>1, FS_Subset
  <2>8. /\ \A k \in U : k[1] \in Int
        /\ \A k \in L : k[1] \in Int
        /\ \A k \in F : k[1] \in Int
        /\ \A k \in G : k[1] \in Int
        /\ \A k \in U \ L : k[1] \in Int
    BY <2>3, <2>4, <2>5, <2>6
  <2>9. Size(U) = Size(L) + Size(U \ L)
    BY <2>3, <2>7, <2>8, SizeSplit
  <2>10. Size(G) = Size(L) + Size(G \ L)
    BY <2>6, <2>7, <2>8, SizeSplit
  <2>11. G \ L = F
    BY <2>3, <2>5, <2>6
  <2>12. Size(L) \in Int /\ Size(F) \in Int /\ Size(U \ L) \in Int
    BY <2>7, <2>8, SizeInt
  <2>13. b.totals.used = Size(U) /\ b.totals.free = Size(F)
    BY <2>1, <2>2, <2>5 DEF StoreOK
  <2>14. DOMAIN c.alloc \ UsedKeys(c) = G
    BY <1>11, <1>13, <1>15, <2>1, <2>2, <2>3, <2>5, <2>6
  <2>15. b.totals.used - Size(L) = Size(U \ L)
    BY <2>9, <2>12, <2>13
  <2>16. b.totals.free + Size(L) = Size(G)
    <3>1. Size(G \ L) = Size(F)
      BY <2>11
    <3> QED
      BY <2>10, <2>12, <2>13, <3>1
  <2>17. UsedKeys(c) = U \ L
    BY <1>15, <2>2
  <2> QED
    BY <1>7, <2>14, <2>15, <2>16, <2>17
<1>22. StoreOK(c, q)
  <2>1. c.end \in Nat /\ IsFiniteSet(DOMAIN c.alloc) /\ DOMAIN c.arena = DOMAIN c.alloc
    BY <1>11, <1>13 DEF StoreOK
  <2>2. c.totals = [used |-> Size(UsedKeys(c)), free |-> Size(DOMAIN c.alloc \ UsedKeys(c))]
    BY <1>11, <1>21
  <2> QED
    BY <1>12, <1>18, <1>19, <1>20, <2>1, <2>2 DEF StoreOK
<1> QED
  BY <1>5, <1>16, <1>22

-----------------------------------------------------------------------------
(* What a block stores.                                                    *)

\* The rows of f and of g, with g's pointers where both have one.
Join(f, g) == [r \in DOMAIN f \cup DOMAIN g |-> IF r \in DOMAIN g THEN g[r] ELSE f[r]]

\* While a block is stored: the store holds the old rows and the new rows S.
AccOK(acc, rows, S) == DOMAIN acc.ptrs = S /\ StoreOK(acc.blob, Join(rows, acc.ptrs))

LEMMA StoredKeeps ==
    ASSUME NEW acc, NEW rows, NEW S, AccOK(acc, rows, S), NEW class \in Nat \ {0},
           NEW kind, NEW id, <<kind, id>> \in RowId,
           <<kind, id>> \notin DOMAIN rows, <<kind, id>> \notin S
    PROVE  AccOK(Stored(acc, class, kind, id), rows, S \cup {<<kind, id>>})
<1>1. PICK r : r = <<kind, id>>
  OBVIOUS
<1>2. r \in RowId /\ r \notin DOMAIN rows /\ r \notin S /\ r[1] = kind /\ r[2] = id
  BY <1>1
<1>3. PICK all : all = Join(rows, acc.ptrs)
  OBVIOUS
<1>4. PICK p : p = allocate(acc.blob, class)
  OBVIOUS
<1>5. PICK out : out = Stored(acc, class, kind, id)
  OBVIOUS
<1>6. out.ptrs = With(acc.ptrs, r, p)
  BY <1>1, <1>4, <1>5 DEF Stored
<1>7. out.blob = store_bytes(acc.blob, class, [kind |-> r[1], id |-> r[2]])
  BY <1>2, <1>5 DEF Stored
<1>8. DOMAIN acc.ptrs = S /\ StoreOK(acc.blob, all)
  BY <1>3 DEF AccOK
<1>9. DOMAIN all = DOMAIN rows \cup S
  BY <1>3, <1>8 DEF Join
<1>10. r \notin DOMAIN all
  BY <1>2, <1>9
<1>11. StoreOK(store_bytes(acc.blob, class, [kind |-> r[1], id |-> r[2]]),
               With(all, r, allocate(acc.blob, class)))
  BY <1>2, <1>8, <1>10, StoreKeeps
<1>12. DOMAIN out.ptrs = S \cup {r}
  BY <1>6, <1>8 DEF With
<1>13. Join(rows, out.ptrs) = With(all, r, p)
  <2>1. PICK q : q = out.ptrs
    OBVIOUS
  <2>2. DOMAIN q = S \cup {r} /\ q[r] = p /\ \A s \in S : q[s] = acc.ptrs[s]
    BY <1>2, <1>6, <1>8, <2>1 DEF With
  <2>3. DOMAIN Join(rows, q) = DOMAIN all \cup {r}
    BY <1>9, <2>2 DEF Join
  <2>4. ASSUME NEW s \in DOMAIN all \cup {r} PROVE Join(rows, q)[s] = With(all, r, p)[s]
    <3>1. CASE s = r
      BY <2>2, <3>1 DEF Join, With
    <3>2. CASE s # r /\ s \in S
      <4>1. Join(rows, q)[s] = acc.ptrs[s]
        BY <2>2, <3>2 DEF Join
      <4>2. With(all, r, p)[s] = all[s]
        BY <3>2 DEF With
      <4>3. all[s] = acc.ptrs[s]
        BY <1>3, <1>8, <3>2 DEF Join
      <4> QED
        BY <4>1, <4>2, <4>3
    <3>3. CASE s # r /\ s \notin S
      <4>1. s \in DOMAIN rows
        BY <1>9, <3>3
      <4>2. Join(rows, q)[s] = rows[s]
        BY <2>2, <3>3, <4>1 DEF Join
      <4>3. With(all, r, p)[s] = all[s]
        BY <3>3 DEF With
      <4>4. all[s] = rows[s]
        BY <1>3, <1>8, <3>3, <4>1 DEF Join
      <4> QED
        BY <4>2, <4>3, <4>4
    <3> QED
      BY <3>1, <3>2, <3>3
  <2>5. Join(rows, q) = [s \in DOMAIN all \cup {r} |-> Join(rows, q)[s]]
    BY <2>3 DEF Join
  <2>6. With(all, r, p) = [s \in DOMAIN all \cup {r} |-> With(all, r, p)[s]]
    BY DEF With
  <2> HIDE DEF Join, With
  <2>7. Join(rows, q) = With(all, r, p)
    BY <2>4, <2>5, <2>6
  <2> QED
    BY <2>1, <2>7
<1>14. StoreOK(out.blob, Join(rows, out.ptrs))
  BY <1>4, <1>7, <1>11, <1>13
<1> QED
  BY <1>1, <1>5, <1>12, <1>14 DEF AccOK

\* The rows of the transactions 1..i of block n.
TxRows(n, txs, i) ==
    {<<"index", <<n, j>>>> : j \in 1..i}
        \cup {<<"receipt", <<n, j>>>> : j \in 1..i}
        \cup {<<"traces", <<n, j>>>> : j \in {k \in 1..i : txs[k].traced}}

LEMMA StoredTxKeeps ==
    ASSUME NEW acc, NEW rows, NEW n \in Nat, NEW txs \in Seq(TxData), NEW i \in 1..Len(txs),
           AccOK(acc, rows, TxRows(n, txs, i - 1)), \A r \in DOMAIN rows : r[2][1] # n
    PROVE  AccOK(StoredTx(acc, <<n, i>>, txs[i]), rows, TxRows(n, txs, i))
<1>1. PICK t : t = <<n, i>>
  OBVIOUS
<1>2. PICK tx : tx = txs[i]
  OBVIOUS
<1>3. tx \in TxData /\ i \in Nat
  BY <1>2
<1>4. tx.class \in Nat \ {0} /\ 1 \in Nat \ {0}
  BY <1>3 DEF TxData
<1>5. PICK S0 : S0 = TxRows(n, txs, i - 1)
  OBVIOUS
<1>6. PICK S1 : S1 = S0 \cup {<<"index", t>>}
  OBVIOUS
<1>7. PICK S2 : S2 = S1 \cup {<<"receipt", t>>}
  OBVIOUS
<1>8. PICK S3 : S3 = S2 \cup {<<"traces", t>>}
  OBVIOUS
<1>9. <<"index", t>> \in RowId /\ <<"receipt", t>> \in RowId /\ <<"traces", t>> \in RowId
  BY <1>1, <1>3 DEF RowId
<1>10. <<"index", t>> \notin DOMAIN rows /\ <<"receipt", t>> \notin DOMAIN rows
       /\ <<"traces", t>> \notin DOMAIN rows
  BY <1>1
<1>11. \A k \in {"index", "receipt", "traces"} : <<k, t>> \notin S0
  <2>1. \A j \in 1..(i - 1) : <<n, j>> # t
    BY <1>1, <1>3
  <2> QED
    BY <1>5, <2>1 DEF TxRows
<1>12. <<"receipt", t>> \notin S1 /\ <<"traces", t>> \notin S2
  BY <1>6, <1>7, <1>11
<1>13. PICK a1 : a1 = Stored(acc, 1, "index", t)
  OBVIOUS
<1>14. AccOK(a1, rows, S1)
  BY <1>4, <1>5, <1>6, <1>9, <1>10, <1>11, <1>13, StoredKeeps
<1>15. PICK a2 : a2 = Stored(a1, tx.class, "receipt", t)
  OBVIOUS
<1>16. AccOK(a2, rows, S2)
  BY <1>4, <1>7, <1>9, <1>10, <1>12, <1>14, <1>15, StoredKeeps
<1>17. PICK a3 : a3 = Stored(a2, 1, "traces", t)
  OBVIOUS
<1>18. AccOK(a3, rows, S3)
  BY <1>4, <1>8, <1>9, <1>10, <1>12, <1>16, <1>17, StoredKeeps
<1>19. StoredTx(acc, t, tx) = IF tx.traced THEN a3 ELSE a2
  BY <1>13, <1>15, <1>17 DEF StoredTx
<1>20. 1..i = 1..(i - 1) \cup {i}
  BY <1>3
<1>21. CASE tx.traced
  <2>1. {k \in 1..i : txs[k].traced} = {k \in 1..(i - 1) : txs[k].traced} \cup {i}
    BY <1>2, <1>20, <1>21
  <2>2. TxRows(n, txs, i) = S3
    BY <1>1, <1>5, <1>6, <1>7, <1>8, <1>20, <2>1 DEF TxRows
  <2> QED
    BY <1>1, <1>2, <1>18, <1>19, <1>21, <2>2
<1>22. CASE ~tx.traced
  <2>1. {k \in 1..i : txs[k].traced} = {k \in 1..(i - 1) : txs[k].traced}
    BY <1>2, <1>20, <1>22
  <2>2. TxRows(n, txs, i) = S2
    BY <1>1, <1>5, <1>6, <1>7, <1>20, <2>1 DEF TxRows
  <2> QED
    BY <1>1, <1>2, <1>16, <1>19, <1>22, <2>2
<1> QED
  BY <1>21, <1>22

\* The recursion of StoreAll up to transaction m, which has a solution.
StoresTo(f, n, txs, m) ==
    f = [i \in 0..m |-> IF i = 0 THEN [blob |-> blob, ptrs |-> Empty]
                        ELSE StoredTx(f[i - 1], <<n, i>>, txs[i])]

LEMMA StoresToExists ==
    ASSUME NEW n, NEW txs, NEW m \in Nat
    PROVE  \E f : StoresTo(f, n, txs, m)
<1> DEFINE C == {k \in Nat : \E f : StoresTo(f, n, txs, k)}
<1>1. 0 \in C
  <2>1. PICK f : f = [i \in 0..0 |-> [blob |-> blob, ptrs |-> Empty]]
    OBVIOUS
  <2>2. \A i \in 0..0 : i = 0
    OBVIOUS
  <2>3. StoresTo(f, n, txs, 0)
    BY <2>1, <2>2 DEF StoresTo
  <2> QED
    BY <2>3
<1>2. ASSUME NEW k \in C PROVE k + 1 \in C
  <2>1. k \in Nat /\ k + 1 \in Nat
    OBVIOUS
  <2>2. PICK f : StoresTo(f, n, txs, k)
    OBVIOUS
  <2>3. PICK g : g = [i \in 0..(k + 1) |-> IF i = 0 THEN [blob |-> blob, ptrs |-> Empty]
                                           ELSE StoredTx(f[i - 1], <<n, i>>, txs[i])]
    OBVIOUS
  <2>4. \A i \in 0..k : g[i] = f[i]
    <3>1. ASSUME NEW i \in 0..k PROVE g[i] = f[i]
      <4>1. i \in 0..(k + 1)
        BY <2>1
      <4> QED
        BY <2>2, <2>3, <4>1 DEF StoresTo
    <3> QED
      BY <3>1
  <2>5. \A i \in 0..(k + 1) : i # 0 => i - 1 \in 0..k
    BY <2>1
  <2>6. StoresTo(g, n, txs, k + 1)
    BY <2>3, <2>4, <2>5 DEF StoresTo
  <2> QED
    BY <2>1, <2>6
<1>3. C \in SUBSET Nat
  OBVIOUS
<1>4. m \in C
  <2> HIDE DEF C
  <2> QED
    BY <1>1, <1>2, <1>3, NatSetInduction
<1> QED
  BY <1>4

\* The rows a block adds.
NewRows(n, txs) == TxRows(n, txs, Len(txs)) \cup {<<"block", <<n, 0>>>>}

\* After a block is stored the store holds its rows too.
LEMMA StoreAllKeeps ==
    ASSUME NEW rows, StoreOK(blob, rows), NEW n \in Nat, NEW txs \in Seq(TxData),
           \A r \in DOMAIN rows : r[2][1] # n
    PROVE  AccOK(StoreAll(n, txs), rows, NewRows(n, txs))
<1>1. Len(txs) \in Nat
  OBVIOUS
<1>2. PICK f : f = CHOOSE g : StoresTo(g, n, txs, Len(txs))
  OBVIOUS
<1>3. StoresTo(f, n, txs, Len(txs))
  BY <1>1, <1>2, StoresToExists
<1>4. StoreAll(n, txs) = Stored(f[Len(txs)], 1, "block", <<n, 0>>)
  BY <1>2 DEF StoreAll, StoresTo
<1> DEFINE C == {i \in Nat : i <= Len(txs) => AccOK(f[i], rows, TxRows(n, txs, i))}
<1>5. 0 \in C
  <2>1. f[0] = [blob |-> blob, ptrs |-> Empty]
    BY <1>1, <1>3 DEF StoresTo
  <2>2. f[0].blob = blob /\ f[0].ptrs = Empty
    BY <2>1
  <2>3. TxRows(n, txs, 0) = {}
    BY DEF TxRows
  <2>4. DOMAIN Empty = {}
    BY DEF Empty
  <2>5. PICK q : q = Join(rows, Empty)
    OBVIOUS
  <2>6. DOMAIN q = DOMAIN rows /\ \A r \in DOMAIN rows : q[r] = rows[r]
    BY <2>4, <2>5 DEF Join
  <2>7. \A r \in DOMAIN rows : RowOK(blob, q, r)
    BY <2>6 DEF StoreOK, RowOK
  <2>8. \A k \in UsedKeys(blob) : \E r \in DOMAIN q : q[r].key = k
    BY <2>6 DEF StoreOK
  <2>9. StoreOK(blob, q)
    BY <2>6, <2>7, <2>8 DEF StoreOK
  <2>10. AccOK(f[0], rows, TxRows(n, txs, 0))
    BY <2>2, <2>3, <2>4, <2>5, <2>9 DEF AccOK
  <2> QED
    BY <2>10
<1>6. ASSUME NEW i \in C PROVE i + 1 \in C
  <2>1. i \in Nat /\ i + 1 \in Nat /\ (i <= Len(txs) => AccOK(f[i], rows, TxRows(n, txs, i)))
    OBVIOUS
  <2>2. SUFFICES ASSUME i + 1 <= Len(txs) PROVE AccOK(f[i + 1], rows, TxRows(n, txs, i + 1))
    BY <2>1
  <2>3. PICK k : k = i + 1
    OBVIOUS
  <2>4. k \in 1..Len(txs) /\ k - 1 = i /\ k \in 0..Len(txs) /\ k # 0
    BY <1>1, <2>1, <2>2, <2>3
  <2>5. f[k] = StoredTx(f[i], <<n, k>>, txs[k])
    BY <1>3, <2>4 DEF StoresTo
  <2>6. AccOK(f[i], rows, TxRows(n, txs, k - 1))
    BY <1>1, <2>1, <2>2, <2>4
  <2>7. AccOK(StoredTx(f[i], <<n, k>>, txs[k]), rows, TxRows(n, txs, k))
    BY <2>4, <2>6, StoredTxKeeps
  <2> QED
    BY <2>3, <2>5, <2>7
<1>7. Len(txs) \in C
  <2>1. C \in SUBSET Nat
    OBVIOUS
  <2> HIDE DEF C
  <2> QED
    BY <1>1, <1>5, <1>6, <2>1, NatSetInduction
<1>8. AccOK(f[Len(txs)], rows, TxRows(n, txs, Len(txs)))
  BY <1>1, <1>7
<1>9. <<"block", <<n, 0>>>> \in RowId
  BY DEF RowId
<1>10. <<"block", <<n, 0>>>> \notin DOMAIN rows
  OBVIOUS
<1>11. <<"block", <<n, 0>>>> \notin TxRows(n, txs, Len(txs))
  BY DEF TxRows
<1>12. 1 \in Nat \ {0}
  OBVIOUS
<1>13. AccOK(Stored(f[Len(txs)], 1, "block", <<n, 0>>), rows,
             TxRows(n, txs, Len(txs)) \cup {<<"block", <<n, 0>>>>})
  BY <1>8, <1>9, <1>10, <1>11, <1>12, StoredKeeps
<1> QED
  BY <1>4, <1>13 DEF NewRows

-----------------------------------------------------------------------------
(* The tables.                                                             *)

\* A row and a transaction name their block.
LEMMA RowNamesBlock ==
    ASSUME NEW m, NEW n, NEW r \in RowsOf(m, n)
    PROVE  r[2][1] = n
BY DEF RowsOf, TxsIn, TracedIn

LEMMA TxNamesBlock ==
    ASSUME NEW m, NEW S
    PROVE  /\ \A t \in TxsOf(m, S) : t[1] \in S /\ t \in TxsIn(m, t[1])
           /\ \A t \in TracedOf(m, S) : t[1] \in S /\ t \in TracedIn(m, t[1])
BY DEF TxsOf, TracedOf, TxsIn, TracedIn

\* The rows of a block and of the tables are those of the store.
LEMMA RowsThere ==
    ASSUME NEW rows, NEW m, NEW bl, NEW re, NEW ix, NEW tr, NEW pj,
           Follows(rows, m, bl, re, ix, tr, pj)
    PROVE  /\ \A n \in DOMAIN bl \cup DOMAIN pj : RowsOf(m, n) \subseteq DOMAIN rows
           /\ \A n \in DOMAIN bl : <<"block", <<n, 0>>>> \in DOMAIN rows
           /\ \A t \in TxsOf(m, DOMAIN bl) :
                <<"receipt", t>> \in DOMAIN rows /\ <<"index", t>> \in DOMAIN rows
           /\ \A t \in TracedOf(m, DOMAIN bl) : <<"traces", t>> \in DOMAIN rows
<1>1. DOMAIN rows = UNION {RowsOf(m, n) : n \in DOMAIN bl \cup DOMAIN pj}
  BY DEF Follows
<1>2. \A n \in DOMAIN bl \cup DOMAIN pj : RowsOf(m, n) \subseteq DOMAIN rows
  BY <1>1
<1>3. ASSUME NEW t \in TxsOf(m, DOMAIN bl)
      PROVE  <<"receipt", t>> \in DOMAIN rows /\ <<"index", t>> \in DOMAIN rows
  <2>1. t[1] \in DOMAIN bl /\ t \in TxsIn(m, t[1])
    BY TxNamesBlock
  <2>2. <<"receipt", t>> \in RowsOf(m, t[1]) /\ <<"index", t>> \in RowsOf(m, t[1])
    BY <2>1 DEF RowsOf
  <2> QED
    BY <1>2, <2>1, <2>2
<1>4. ASSUME NEW t \in TracedOf(m, DOMAIN bl) PROVE <<"traces", t>> \in DOMAIN rows
  <2>1. t[1] \in DOMAIN bl /\ t \in TracedIn(m, t[1])
    BY TxNamesBlock
  <2>2. <<"traces", t>> \in RowsOf(m, t[1])
    BY <2>1 DEF RowsOf
  <2> QED
    BY <1>2, <2>1, <2>2
<1>5. ASSUME NEW n \in DOMAIN bl PROVE <<"block", <<n, 0>>>> \in DOMAIN rows
  <2>1. <<"block", <<n, 0>>>> \in RowsOf(m, n)
    BY DEF RowsOf
  <2> QED
    BY <1>2, <2>1
<1> QED
  BY <1>2, <1>3, <1>4, <1>5

\* A table without the keys of a block.
LEMMA HoldsLess ==
    ASSUME NEW f, NEW kind, NEW S, NEW rows, Holds(f, kind, S, rows), NEW T
    PROVE  Holds(Drop(f, T), kind, S \ T, rows)
BY DEF Holds, Drop

LEMMA TxsOfLess ==
    ASSUME NEW m, NEW S, NEW n
    PROVE  /\ TxsOf(m, S \ {n}) = TxsOf(m, S) \ TxsIn(m, n)
           /\ TracedOf(m, S \ {n}) = TracedOf(m, S) \ TxsIn(m, n)
<1>1. ASSUME NEW t PROVE t \in TxsOf(m, S \ {n}) <=> t \in TxsOf(m, S) \ TxsIn(m, n)
  <2>1. \A k : t \in TxsIn(m, k) => t[1] = k
    BY DEF TxsIn
  <2> QED
    BY <2>1 DEF TxsOf
<1>2. ASSUME NEW t PROVE t \in TracedOf(m, S \ {n}) <=> t \in TracedOf(m, S) \ TxsIn(m, n)
  <2>1. \A k : t \in TxsIn(m, k) => t[1] = k
    BY DEF TxsIn
  <2>2. \A k : t \in TracedIn(m, k) => t \in TxsIn(m, k)
    BY DEF TracedIn
  <2>3. t \in TracedOf(m, S) <=> \E k \in S : t \in TracedIn(m, k)
    BY DEF TracedOf
  <2>4. t \in TracedOf(m, S \ {n}) <=> \E k \in S \ {n} : t \in TracedIn(m, k)
    BY DEF TracedOf
  <2> QED
    BY <2>1, <2>2, <2>3, <2>4
<1> QED
  BY <1>1, <1>2

\* Deleting the rows of a journaled block leaves their blobs to the journal.
LEMMA FollowsDeleted ==
    ASSUME NEW rows, NEW m, NEW bl, NEW re, NEW ix, NEW tr, NEW pj,
           Follows(rows, m, bl, re, ix, tr, pj), NEW n \in DOMAIN pj
    PROVE  Follows(rows, m, Drop(bl, {n}), Drop(re, TxsIn(m, n)), Drop(ix, TxsIn(m, n)),
                   Drop(tr, TxsIn(m, n)), pj)
<1>1. PICK B : B = DOMAIN bl
  OBVIOUS
<1>2. DOMAIN Drop(bl, {n}) = B \ {n} /\ \A k \in B \ {n} : Drop(bl, {n})[k] = bl[k]
  BY <1>1 DEF Drop
<1>3. (B \ {n}) \cup DOMAIN pj = B \cup DOMAIN pj
  OBVIOUS
<1>4. /\ TxsOf(m, B \ {n}) = TxsOf(m, B) \ TxsIn(m, n)
      /\ TracedOf(m, B \ {n}) = TracedOf(m, B) \ TxsIn(m, n)
  BY TxsOfLess
<1>5. /\ Holds(re, "receipt", TxsOf(m, B), rows)
      /\ Holds(ix, "index", TxsOf(m, B), rows)
      /\ Holds(tr, "traces", TracedOf(m, B), rows)
  BY <1>1 DEF Follows
<1>6. Holds(Drop(re, TxsIn(m, n)), "receipt", TxsOf(m, B \ {n}), rows)
  <2>1. Holds(Drop(re, TxsIn(m, n)), "receipt", TxsOf(m, B) \ TxsIn(m, n), rows)
    BY <1>5, HoldsLess
  <2> QED
    BY <1>4, <2>1
<1>7. Holds(Drop(ix, TxsIn(m, n)), "index", TxsOf(m, B \ {n}), rows)
  <2>1. Holds(Drop(ix, TxsIn(m, n)), "index", TxsOf(m, B) \ TxsIn(m, n), rows)
    BY <1>5, HoldsLess
  <2> QED
    BY <1>4, <2>1
<1>8. Holds(Drop(tr, TxsIn(m, n)), "traces", TracedOf(m, B \ {n}), rows)
  <2>1. Holds(Drop(tr, TxsIn(m, n)), "traces", TracedOf(m, B) \ TxsIn(m, n), rows)
    BY <1>5, HoldsLess
  <2> QED
    BY <1>4, <2>1
<1>9. DOMAIN rows = UNION {RowsOf(m, k) : k \in (B \ {n}) \cup DOMAIN pj}
  BY <1>1, <1>3 DEF Follows
<1>10. /\ B \ {n} \subseteq 1..Len(m) /\ DOMAIN pj \subseteq 1..Len(m)
       /\ \A k \in B \ {n} : Drop(bl, {n})[k] = rows[<<"block", <<k, 0>>>>]
       /\ \A k \in DOMAIN pj : pj[k] = {rows[r] : r \in RowsOf(m, k)}
  BY <1>1, <1>2 DEF Follows
<1> QED
  BY <1>2, <1>6, <1>7, <1>8, <1>9, <1>10 DEF Follows

\* Dropping the journal entry of a deleted block drops its rows.
LEMMA FollowsReclaimed ==
    ASSUME NEW rows, NEW m, NEW bl, NEW re, NEW ix, NEW tr, NEW pj,
           Follows(rows, m, bl, re, ix, tr, pj), NEW n \in DOMAIN pj, n \notin DOMAIN bl
    PROVE  Follows(Drop(rows, RowsOf(m, n)), m, bl, re, ix, tr, Drop(pj, {n}))
<1>1. PICK q : q = Drop(rows, RowsOf(m, n))
  OBVIOUS
<1>2. DOMAIN q = DOMAIN rows \ RowsOf(m, n) /\ \A r \in DOMAIN q : q[r] = rows[r]
  BY <1>1 DEF Drop
<1>3. PICK j : j = Drop(pj, {n})
  OBVIOUS
<1>4. DOMAIN j = DOMAIN pj \ {n} /\ \A k \in DOMAIN j : j[k] = pj[k]
  BY <1>3 DEF Drop
<1>5. \A k : \A r \in RowsOf(m, k) : r[2][1] = k
  BY RowNamesBlock
<1>6. DOMAIN q = UNION {RowsOf(m, k) : k \in DOMAIN bl \cup DOMAIN j}
  <2>1. DOMAIN rows = UNION {RowsOf(m, k) : k \in DOMAIN bl \cup DOMAIN pj}
    BY DEF Follows
  <2>2. DOMAIN bl \cup DOMAIN j = (DOMAIN bl \cup DOMAIN pj) \ {n}
    BY <1>4
  <2> QED
    BY <1>2, <1>5, <2>1, <2>2
<1>7. /\ \A k \in DOMAIN bl : <<"block", <<k, 0>>>> \in DOMAIN q
      /\ \A t \in TxsOf(m, DOMAIN bl) : <<"receipt", t>> \in DOMAIN q /\ <<"index", t>> \in DOMAIN q
      /\ \A t \in TracedOf(m, DOMAIN bl) : <<"traces", t>> \in DOMAIN q
  <2>1. /\ \A k \in DOMAIN bl : <<"block", <<k, 0>>>> \in DOMAIN rows
        /\ \A t \in TxsOf(m, DOMAIN bl) :
                <<"receipt", t>> \in DOMAIN rows /\ <<"index", t>> \in DOMAIN rows
        /\ \A t \in TracedOf(m, DOMAIN bl) : <<"traces", t>> \in DOMAIN rows
    BY RowsThere
  <2>2. \A k \in DOMAIN bl : <<"block", <<k, 0>>>> \notin RowsOf(m, n)
    BY <1>5
  <2>3. \A t \in TxsOf(m, DOMAIN bl) :
            <<"receipt", t>> \notin RowsOf(m, n) /\ <<"index", t>> \notin RowsOf(m, n)
    BY <1>5, TxNamesBlock
  <2>4. \A t \in TracedOf(m, DOMAIN bl) : <<"traces", t>> \notin RowsOf(m, n)
    BY <1>5, TxNamesBlock
  <2> QED
    BY <1>2, <2>1, <2>2, <2>3, <2>4
<1>8. /\ Holds(re, "receipt", TxsOf(m, DOMAIN bl), q)
      /\ Holds(ix, "index", TxsOf(m, DOMAIN bl), q)
      /\ Holds(tr, "traces", TracedOf(m, DOMAIN bl), q)
  BY <1>2, <1>7 DEF Follows, Holds
<1>9. \A k \in DOMAIN bl : bl[k] = q[<<"block", <<k, 0>>>>]
  BY <1>2, <1>7 DEF Follows
<1>10. ASSUME NEW k \in DOMAIN j PROVE j[k] = {q[r] : r \in RowsOf(m, k)}
  <2>1. j[k] = {rows[r] : r \in RowsOf(m, k)} /\ k \in DOMAIN pj
    BY <1>4 DEF Follows
  <2>2. \A r \in RowsOf(m, k) : r \in DOMAIN q
    BY <1>6
  <2> QED
    BY <1>2, <2>1, <2>2
<1>11. DOMAIN bl \subseteq 1..Len(m) /\ DOMAIN j \subseteq 1..Len(m)
  BY <1>4 DEF Follows
<1>12. Follows(q, m, bl, re, ix, tr, j)
  BY <1>6, <1>8, <1>9, <1>10, <1>11 DEF Follows
<1> QED
  BY <1>1, <1>3, <1>12

\* The pointers collected for a block are those of its rows.
LEMMA FollowsJournaled ==
    ASSUME NEW rows, NEW m, NEW bl, NEW re, NEW ix, NEW tr, NEW pj,
           Follows(rows, m, bl, re, ix, tr, pj), NEW n \in DOMAIN bl,
           NEW ptrs,
           ptrs = {bl[n]} \cup {re[t] : t \in TxsIn(m, n) \cap DOMAIN re}
                          \cup {ix[t] : t \in TxsIn(m, n) \cap DOMAIN ix}
                          \cup {tr[t] : t \in TxsIn(m, n) \cap DOMAIN tr}
    PROVE  Follows(rows, m, bl, re, ix, tr, With(pj, n, ptrs))
<1>1. PICK T : T = TxsIn(m, n)
  OBVIOUS
<1>2. PICK R : R = TracedIn(m, n)
  OBVIOUS
<1>3. T \subseteq TxsOf(m, DOMAIN bl)
  BY <1>1 DEF TxsOf
<1>4. R \subseteq TracedOf(m, DOMAIN bl) /\ R \subseteq T
  BY <1>1, <1>2 DEF TracedOf, TracedIn
<1>5. ASSUME NEW t \in T, t \in TracedOf(m, DOMAIN bl) PROVE t \in R
  <2>1. t \in TracedIn(m, t[1])
    BY <1>5, TxNamesBlock
  <2>2. t[1] = n
    BY <1>1 DEF TxsIn
  <2> QED
    BY <1>2, <2>1, <2>2
<1>6. /\ DOMAIN re = TxsOf(m, DOMAIN bl) /\ \A t \in DOMAIN re : re[t] = rows[<<"receipt", t>>]
      /\ DOMAIN ix = TxsOf(m, DOMAIN bl) /\ \A t \in DOMAIN ix : ix[t] = rows[<<"index", t>>]
      /\ DOMAIN tr = TracedOf(m, DOMAIN bl) /\ \A t \in DOMAIN tr : tr[t] = rows[<<"traces", t>>]
  BY DEF Follows, Holds
<1>7. {re[t] : t \in T \cap DOMAIN re} = {rows[<<"receipt", t>>] : t \in T}
  <2>1. T \cap DOMAIN re = T /\ \A t \in T : re[t] = rows[<<"receipt", t>>]
    BY <1>3, <1>6
  <2>2. {re[t] : t \in T} = {rows[<<"receipt", t>>] : t \in T}
    BY <2>1
  <2> QED
    BY <2>1, <2>2
<1>8. {ix[t] : t \in T \cap DOMAIN ix} = {rows[<<"index", t>>] : t \in T}
  <2>1. T \cap DOMAIN ix = T /\ \A t \in T : ix[t] = rows[<<"index", t>>]
    BY <1>3, <1>6
  <2>2. {ix[t] : t \in T} = {rows[<<"index", t>>] : t \in T}
    BY <2>1
  <2> QED
    BY <2>1, <2>2
<1>9. T \cap DOMAIN tr = R
  BY <1>4, <1>5, <1>6
<1>10. {tr[t] : t \in T \cap DOMAIN tr} = {rows[<<"traces", t>>] : t \in R}
  <2>1. T \cap DOMAIN tr = R /\ \A t \in R : tr[t] = rows[<<"traces", t>>]
    BY <1>4, <1>6, <1>9
  <2>2. {tr[t] : t \in R} = {rows[<<"traces", t>>] : t \in R}
    BY <2>1
  <2> QED
    BY <2>1, <2>2
<1>11. bl[n] = rows[<<"block", <<n, 0>>>>]
  BY DEF Follows
<1>12. {rows[r] : r \in RowsOf(m, n)}
        = {rows[<<"block", <<n, 0>>>>]} \cup {rows[<<"receipt", t>>] : t \in T}
            \cup {rows[<<"index", t>>] : t \in T} \cup {rows[<<"traces", t>>] : t \in R}
  BY <1>1, <1>2 DEF RowsOf
<1>13. ptrs = {rows[r] : r \in RowsOf(m, n)}
  BY <1>1, <1>7, <1>8, <1>10, <1>11, <1>12
<1>14. PICK j : j = With(pj, n, ptrs)
  OBVIOUS
<1>15. DOMAIN j = DOMAIN pj \cup {n} /\ \A k \in DOMAIN j : j[k] = IF k = n THEN ptrs ELSE pj[k]
  BY <1>14 DEF With
<1>16. \A k \in DOMAIN j : j[k] = {rows[r] : r \in RowsOf(m, k)}
  BY <1>13, <1>15 DEF Follows
<1>17. DOMAIN bl \cup DOMAIN j = DOMAIN bl \cup DOMAIN pj
  BY <1>15
<1>18. DOMAIN rows = UNION {RowsOf(m, k) : k \in DOMAIN bl \cup DOMAIN j}
  BY <1>17 DEF Follows
<1>19. DOMAIN j \subseteq 1..Len(m)
  BY <1>15 DEF Follows
<1>20. Follows(rows, m, bl, re, ix, tr, j)
  BY <1>16, <1>18, <1>19 DEF Follows
<1> QED
  BY <1>14, <1>20

\* w is m with the block n of txs behind it, which leaves the transactions and
\* the rows of the others as they are.
OneMore(m, w, n, txs) ==
    /\ w \in Seq(BlockData) /\ Len(w) = n /\ n \in Nat /\ n = Len(m) + 1
    /\ \A k \in 1..Len(m) :
            /\ w[k] = m[k] /\ TxsIn(w, k) = TxsIn(m, k) /\ TracedIn(w, k) = TracedIn(m, k)
            /\ RowsOf(w, k) = RowsOf(m, k)
    /\ TxsIn(w, n) = {<<n, i>> : i \in 1..Len(txs)}
    /\ TracedIn(w, n) = {t \in TxsIn(w, n) : txs[t[2]].traced}
    /\ RowsOf(w, n) = NewRows(n, txs)

LEMMA MadeMore ==
    ASSUME NEW m \in Seq(BlockData), NEW txs \in Seq(TxData), NEW time \in Nat,
           NEW w, w = Append(m, [txs |-> txs, time |-> time]), NEW n, n = Len(m) + 1
    PROVE  OneMore(m, w, n, txs)
<1>1. Len(m) \in Nat /\ n \in Nat /\ Len(txs) \in Nat
  OBVIOUS
<1>2. [txs |-> txs, time |-> time] \in BlockData
  BY DEF BlockData
<1>3. w \in Seq(BlockData) /\ Len(w) = n
  BY <1>2
<1>4. w[n] = [txs |-> txs, time |-> time] /\ w[n].txs = txs
  <2>1. w[n] = [txs |-> txs, time |-> time]
    BY <1>1
  <2> QED
    BY <2>1
<1>5. ASSUME NEW k \in 1..Len(m)
      PROVE  /\ w[k] = m[k] /\ TxsIn(w, k) = TxsIn(m, k) /\ TracedIn(w, k) = TracedIn(m, k)
             /\ RowsOf(w, k) = RowsOf(m, k)
  <2>1. w[k] = m[k]
    BY <1>1
  <2>2. TxsIn(w, k) = TxsIn(m, k)
    BY <2>1 DEF TxsIn
  <2>3. \A t \in TxsIn(m, k) : t[1] = k
    BY DEF TxsIn
  <2>4. TracedIn(w, k) = TracedIn(m, k)
    BY <2>1, <2>2, <2>3 DEF TracedIn
  <2>5. RowsOf(w, k) = RowsOf(m, k)
    BY <2>2, <2>4 DEF RowsOf
  <2> QED
    BY <2>1, <2>2, <2>4, <2>5
<1>6. TxsIn(w, n) = {<<n, i>> : i \in 1..Len(txs)}
  BY <1>4 DEF TxsIn
<1>7. TracedIn(w, n) = {t \in TxsIn(w, n) : txs[t[2]].traced}
  <2>1. \A t \in TxsIn(w, n) : t[1] = n
    BY DEF TxsIn
  <2> QED
    BY <1>4, <2>1 DEF TracedIn
<1>8. RowsOf(w, n) = NewRows(n, txs)
  <2>1. {<<"index", t>> : t \in TxsIn(w, n)} = {<<"index", <<n, j>>>> : j \in 1..Len(txs)}
    BY <1>6
  <2>2. {<<"receipt", t>> : t \in TxsIn(w, n)} = {<<"receipt", <<n, j>>>> : j \in 1..Len(txs)}
    BY <1>6
  <2>3. TracedIn(w, n) = {<<n, j>> : j \in {k \in 1..Len(txs) : txs[k].traced}}
    BY <1>6, <1>7
  <2>4. {<<"traces", t>> : t \in TracedIn(w, n)}
            = {<<"traces", <<n, j>>>> : j \in {k \in 1..Len(txs) : txs[k].traced}}
    BY <2>3
  <2> QED
    BY <2>1, <2>2, <2>4 DEF RowsOf, NewRows, TxRows
<1> QED
  BY <1>1, <1>3, <1>5, <1>6, <1>7, <1>8 DEF OneMore

TxsGrow(m, w, S, n) ==
    /\ TxsOf(w, S \cup {n}) = TxsOf(m, S) \cup TxsIn(w, n)
    /\ TracedOf(w, S \cup {n}) = TracedOf(m, S) \cup TracedIn(w, n)

LEMMA TxsOfMore ==
    ASSUME NEW m, NEW w, NEW n, NEW txs, OneMore(m, w, n, txs), NEW S, \A k \in S : k \in 1..Len(m)
    PROVE  TxsGrow(m, w, S, n)
<1>0. \A k \in S : TxsIn(w, k) = TxsIn(m, k) /\ TracedIn(w, k) = TracedIn(m, k)
  BY DEF OneMore
<1>1. TxsOf(w, S \cup {n}) = TxsOf(m, S) \cup TxsIn(w, n)
  BY <1>0 DEF TxsOf
<1>2. TracedOf(w, S \cup {n}) = TracedOf(m, S) \cup TracedIn(w, n)
  BY <1>0 DEF TracedOf
<1> QED
  BY <1>1, <1>2 DEF TxsGrow

\* The table g is f with new rows for the keys in N.
Grows(f, g, kind, N, ptrs) ==
    /\ DOMAIN g = DOMAIN f \cup N
    /\ \A t \in DOMAIN g : g[t] = IF t \in N THEN ptrs[<<kind, t>>] ELSE f[t]

LEMMA HoldsMore ==
    ASSUME NEW f, NEW kind, NEW S, NEW rows, Holds(f, kind, S, rows),
           NEW ptrs, NEW N, NEW g, Grows(f, g, kind, N, ptrs),
           \A t \in N : <<kind, t>> \in DOMAIN ptrs,
           \A t \in S : <<kind, t>> \in DOMAIN rows /\ <<kind, t>> \notin DOMAIN ptrs
    PROVE  Holds(g, kind, S \cup N, Join(rows, ptrs))
<1>0. DOMAIN g = S \cup N /\ \A t \in S \cup N : g[t] = IF t \in N THEN ptrs[<<kind, t>>] ELSE f[t]
  BY DEF Grows, Holds
<1>1. ASSUME NEW t \in S \cup N PROVE g[t] = Join(rows, ptrs)[<<kind, t>>]
  <2>1. CASE t \in N
    BY <1>0, <2>1 DEF Join
  <2>2. CASE t \notin N
    <3>1. t \in S /\ g[t] = rows[<<kind, t>>]
      BY <1>0, <2>2 DEF Holds
    <3> QED
      BY <3>1 DEF Join
  <2> QED
    BY <2>1, <2>2
<1> QED
  BY <1>0, <1>1 DEF Holds

\* The tables after a block, when its rows have the pointers ptrs.
LEMMA FollowsProduced ==
    ASSUME NEW rows, NEW m \in Seq(BlockData),
           NEW bl, NEW re, NEW ix, NEW tr, NEW pj,
           Follows(rows, m, bl, re, ix, tr, pj), NEW txs,
           NEW w, NEW n, OneMore(m, w, n, txs),
           NEW ptrs, DOMAIN ptrs = NewRows(n, txs),
           NEW bl2, DOMAIN bl2 = DOMAIN bl \cup {n},
           \A k \in DOMAIN bl2 : bl2[k] = IF k = n THEN ptrs[<<"block", <<n, 0>>>>] ELSE bl[k],
           NEW re2, Grows(re, re2, "receipt", TxsIn(w, n), ptrs),
           NEW ix2, Grows(ix, ix2, "index", TxsIn(w, n), ptrs),
           NEW tr2, Grows(tr, tr2, "traces", TracedIn(w, n), ptrs)
    PROVE  Follows(Join(rows, ptrs), w, bl2, re2, ix2, tr2, pj)
<1>1. PICK B : B = DOMAIN bl
  OBVIOUS
<1>2. /\ Len(w) = n /\ n \in Nat /\ n = Len(m) + 1
      /\ \A k \in 1..Len(m) : RowsOf(w, k) = RowsOf(m, k)
      /\ RowsOf(w, n) = NewRows(n, txs)
  BY DEF OneMore
<1>3. B \subseteq 1..Len(m) /\ DOMAIN pj \subseteq 1..Len(m) /\ n \notin 1..Len(m)
  BY <1>1, <1>2 DEF Follows
<1>4. PICK q : q = Join(rows, ptrs)
  OBVIOUS
<1>5. /\ DOMAIN q = DOMAIN rows \cup RowsOf(w, n)
      /\ \A r \in RowsOf(w, n) : q[r] = ptrs[r]
      /\ \A r \in DOMAIN rows \ RowsOf(w, n) : q[r] = rows[r]
  BY <1>2, <1>4 DEF Join
<1>6. DOMAIN rows = UNION {RowsOf(m, k) : k \in B \cup DOMAIN pj}
  BY <1>1 DEF Follows
<1>7. \A r \in DOMAIN rows : r \notin RowsOf(w, n)
  <2>1. \A k : \A r \in RowsOf(m, k) : r[2][1] = k
    BY RowNamesBlock
  <2>2. \A r \in RowsOf(w, n) : r[2][1] = n
    BY RowNamesBlock
  <2>3. ASSUME NEW r \in DOMAIN rows, r \in RowsOf(w, n) PROVE FALSE
    <3>1. PICK k \in B \cup DOMAIN pj : r \in RowsOf(m, k)
      BY <1>6
    <3>2. k = n
      BY <2>1, <2>2, <2>3, <3>1
    <3> QED
      BY <1>3, <3>1, <3>2
  <2> QED
    BY <2>3
<1>8. DOMAIN q = UNION {RowsOf(w, k) : k \in (B \cup {n}) \cup DOMAIN pj}
  <2>1. \A k \in B \cup DOMAIN pj : RowsOf(w, k) = RowsOf(m, k)
    BY <1>2, <1>3
  <2>2. UNION {RowsOf(w, k) : k \in (B \cup {n}) \cup DOMAIN pj}
          = (UNION {RowsOf(m, k) : k \in B \cup DOMAIN pj}) \cup RowsOf(w, n)
    BY <2>1
  <2> QED
    BY <1>5, <1>6, <2>2
<1>9. /\ TxsOf(w, B \cup {n}) = TxsOf(m, B) \cup TxsIn(w, n)
      /\ TracedOf(w, B \cup {n}) = TracedOf(m, B) \cup TracedIn(w, n)
  <2>1. \A k \in B : k \in 1..Len(m)
    BY <1>3
  <2>2. TxsGrow(m, w, B, n)
    BY <2>1, TxsOfMore
  <2> QED
    BY <2>2 DEF TxsGrow
<1>10. /\ \A k \in B : <<"block", <<k, 0>>>> \in DOMAIN rows
       /\ \A t \in TxsOf(m, B) : <<"receipt", t>> \in DOMAIN rows /\ <<"index", t>> \in DOMAIN rows
       /\ \A t \in TracedOf(m, B) : <<"traces", t>> \in DOMAIN rows
  BY <1>1, RowsThere
<1>11. /\ <<"block", <<n, 0>>>> \in RowsOf(w, n)
       /\ \A t \in TxsIn(w, n) : <<"receipt", t>> \in RowsOf(w, n) /\ <<"index", t>> \in RowsOf(w, n)
       /\ \A t \in TracedIn(w, n) : <<"traces", t>> \in RowsOf(w, n)
  BY DEF RowsOf
<1>12. DOMAIN ptrs = RowsOf(w, n)
  BY <1>2
<1>13. /\ Holds(re, "receipt", TxsOf(m, B), rows)
       /\ Holds(ix, "index", TxsOf(m, B), rows)
       /\ Holds(tr, "traces", TracedOf(m, B), rows)
  BY <1>1 DEF Follows
<1>14. Holds(re2, "receipt", TxsOf(w, B \cup {n}), q)
  <2>2. PICK S : S = TxsOf(m, B)
    OBVIOUS
  <2>3. PICK N : N = TxsIn(w, n)
    OBVIOUS
  <2>4. Grows(re, re2, "receipt", N, ptrs)
    BY <2>3
  <2>5. \A t \in N : <<"receipt", t>> \in DOMAIN ptrs
    BY <1>11, <1>12, <2>3
  <2>6. \A t \in S : <<"receipt", t>> \in DOMAIN rows /\ <<"receipt", t>> \notin DOMAIN ptrs
    BY <1>7, <1>10, <1>12, <2>2
  <2>7. Holds(re, "receipt", S, rows)
    BY <1>13, <2>2
  <2>8. Holds(re2, "receipt", S \cup N, Join(rows, ptrs))
    BY <2>4, <2>5, <2>6, <2>7, HoldsMore
  <2> QED
    BY <1>4, <1>9, <2>2, <2>3, <2>8
<1>15. Holds(ix2, "index", TxsOf(w, B \cup {n}), q)
  <2>2. PICK S : S = TxsOf(m, B)
    OBVIOUS
  <2>3. PICK N : N = TxsIn(w, n)
    OBVIOUS
  <2>4. Grows(ix, ix2, "index", N, ptrs)
    BY <2>3
  <2>5. \A t \in N : <<"index", t>> \in DOMAIN ptrs
    BY <1>11, <1>12, <2>3
  <2>6. \A t \in S : <<"index", t>> \in DOMAIN rows /\ <<"index", t>> \notin DOMAIN ptrs
    BY <1>7, <1>10, <1>12, <2>2
  <2>7. Holds(ix, "index", S, rows)
    BY <1>13, <2>2
  <2>8. Holds(ix2, "index", S \cup N, Join(rows, ptrs))
    BY <2>4, <2>5, <2>6, <2>7, HoldsMore
  <2> QED
    BY <1>4, <1>9, <2>2, <2>3, <2>8
<1>16. Holds(tr2, "traces", TracedOf(w, B \cup {n}), q)
  <2>2. PICK S : S = TracedOf(m, B)
    OBVIOUS
  <2>3. PICK N : N = TracedIn(w, n)
    OBVIOUS
  <2>4. Grows(tr, tr2, "traces", N, ptrs)
    BY <2>3
  <2>5. \A t \in N : <<"traces", t>> \in DOMAIN ptrs
    BY <1>11, <1>12, <2>3
  <2>6. \A t \in S : <<"traces", t>> \in DOMAIN rows /\ <<"traces", t>> \notin DOMAIN ptrs
    BY <1>7, <1>10, <1>12, <2>2
  <2>7. Holds(tr, "traces", S, rows)
    BY <1>13, <2>2
  <2>8. Holds(tr2, "traces", S \cup N, Join(rows, ptrs))
    BY <2>4, <2>5, <2>6, <2>7, HoldsMore
  <2> QED
    BY <1>4, <1>9, <2>2, <2>3, <2>8
<1>17. ASSUME NEW k \in DOMAIN bl2 PROVE bl2[k] = q[<<"block", <<k, 0>>>>]
  <2>1. CASE k = n
    BY <1>5, <1>11, <2>1
  <2>2. CASE k # n
    <3>1. k \in B /\ bl2[k] = bl[k]
      BY <1>1, <2>2
    <3>2. bl[k] = rows[<<"block", <<k, 0>>>>]
      BY <1>1, <3>1 DEF Follows
    <3> QED
      BY <1>5, <1>7, <1>10, <3>1, <3>2
  <2> QED
    BY <2>1, <2>2
<1>18. ASSUME NEW k \in DOMAIN pj PROVE pj[k] = {q[r] : r \in RowsOf(w, k)}
  <2>1. RowsOf(w, k) = RowsOf(m, k) /\ RowsOf(m, k) \subseteq DOMAIN rows
    BY <1>2, <1>3, <1>6
  <2>2. \A r \in RowsOf(m, k) : q[r] = rows[r]
    BY <1>5, <1>7, <2>1
  <2>3. pj[k] = {rows[r] : r \in RowsOf(m, k)}
    BY DEF Follows
  <2>4. {q[r] : r \in RowsOf(m, k)} = {rows[r] : r \in RowsOf(m, k)}
    BY <2>2
  <2> QED
    BY <2>1, <2>3, <2>4
<1>19. DOMAIN bl2 \subseteq 1..Len(w) /\ DOMAIN pj \subseteq 1..Len(w)
  BY <1>1, <1>2, <1>3
<1>20. DOMAIN bl2 = B \cup {n}
  BY <1>1
<1>21. Follows(q, w, bl2, re2, ix2, tr2, pj)
  BY <1>8, <1>14, <1>15, <1>16, <1>17, <1>18, <1>19, <1>20 DEF Follows
<1> QED
  BY <1>4, <1>21

-----------------------------------------------------------------------------
(* Reading, and the search for the cutoff.                                 *)

LEMMA ReadsRow ==
    ASSUME NEW rows, StoreOK(blob, rows), NEW r \in DOMAIN rows
    PROVE  read(rows[r]) = [kind |-> r[1], id |-> r[2]]
<1>1. RowOK(blob, rows, r)
  BY DEF StoreOK
<1>2. PICK p : p = rows[r]
  OBVIOUS
<1>3. /\ p.key \in DOMAIN blob.alloc /\ blob.alloc[p.key].gen = p.gen
      /\ blob.alloc[p.key].state = "Used" /\ blob.arena[p.key] = [kind |-> r[1], id |-> r[2]]
  BY <1>1, <1>2 DEF RowOK, UsedKeys
<1>4. read(p) = blob.arena[p.key]
  BY <1>3 DEF read
<1> QED
  BY <1>2, <1>3, <1>4

\* What the tables hold can be read.
Readable ==
    /\ \A n \in DOMAIN blocks : load_block(n)
    /\ \A t \in DOMAIN receipts : load_receipt(t)
    /\ \A t \in DOMAIN tx_index : read(tx_index[t]) = [kind |-> "index", id |-> t]
    /\ \A t \in DOMAIN internal_traces : read(internal_traces[t]) = [kind |-> "traces", id |-> t]

LEMMA TablesRead ==
    ASSUME RowsInv
    PROVE  Readable
<1>1. PICK rows : StoreOK(blob, rows) /\ TablesFollow(rows)
  BY DEF RowsInv
<1>2. Follows(rows, made, blocks, receipts, tx_index, internal_traces, prune_journal)
  BY <1>1 DEF TablesFollow
<1>3. /\ \A n \in DOMAIN blocks : <<"block", <<n, 0>>>> \in DOMAIN rows
      /\ \A t \in TxsOf(made, DOMAIN blocks) :
                <<"receipt", t>> \in DOMAIN rows /\ <<"index", t>> \in DOMAIN rows
      /\ \A t \in TracedOf(made, DOMAIN blocks) : <<"traces", t>> \in DOMAIN rows
  BY <1>2, RowsThere
<1>4. /\ \A n \in DOMAIN blocks : blocks[n] = rows[<<"block", <<n, 0>>>>]
      /\ DOMAIN receipts = TxsOf(made, DOMAIN blocks)
      /\ \A t \in DOMAIN receipts : receipts[t] = rows[<<"receipt", t>>]
      /\ DOMAIN tx_index = TxsOf(made, DOMAIN blocks)
      /\ \A t \in DOMAIN tx_index : tx_index[t] = rows[<<"index", t>>]
      /\ DOMAIN internal_traces = TracedOf(made, DOMAIN blocks)
      /\ \A t \in DOMAIN internal_traces : internal_traces[t] = rows[<<"traces", t>>]
  BY <1>2 DEF Follows, Holds
<1>5. \A r \in DOMAIN rows : read(rows[r]) = [kind |-> r[1], id |-> r[2]]
  BY <1>1, ReadsRow
<1>6. ASSUME NEW n \in DOMAIN blocks PROVE load_block(n)
  <2>1. PICK r : r = <<"block", <<n, 0>>>>
    OBVIOUS
  <2>2. r \in DOMAIN rows /\ blocks[n] = rows[r] /\ r[1] = "block" /\ r[2] = <<n, 0>>
    BY <1>3, <1>4, <2>1
  <2>3. read(rows[r]) = [kind |-> "block", id |-> <<n, 0>>]
    BY <1>5, <2>2
  <2> QED
    BY <2>2, <2>3 DEF load_block
<1>7. ASSUME NEW t \in DOMAIN receipts PROVE load_receipt(t)
  <2>1. PICK r : r = <<"receipt", t>>
    OBVIOUS
  <2>2. r \in DOMAIN rows /\ receipts[t] = rows[r] /\ r[1] = "receipt" /\ r[2] = t
    BY <1>3, <1>4, <2>1
  <2>3. read(rows[r]) = [kind |-> "receipt", id |-> t]
    BY <1>5, <2>2
  <2> QED
    BY <2>2, <2>3 DEF load_receipt
<1>8. ASSUME NEW t \in DOMAIN tx_index PROVE read(tx_index[t]) = [kind |-> "index", id |-> t]
  <2>1. PICK r : r = <<"index", t>>
    OBVIOUS
  <2>2. r \in DOMAIN rows /\ tx_index[t] = rows[r] /\ r[1] = "index" /\ r[2] = t
    BY <1>3, <1>4, <2>1
  <2> QED
    BY <1>5, <2>2
<1>9. ASSUME NEW t \in DOMAIN internal_traces
      PROVE  read(internal_traces[t]) = [kind |-> "traces", id |-> t]
  <2>1. PICK r : r = <<"traces", t>>
    OBVIOUS
  <2>2. r \in DOMAIN rows /\ internal_traces[t] = rows[r] /\ r[1] = "traces" /\ r[2] = t
    BY <1>3, <1>4, <2>1
  <2> QED
    BY <1>5, <2>2
<1> QED
  BY <1>6, <1>7, <1>8, <1>9 DEF Readable

\* A block can be loaded exactly when the table has it.
LEMMA LoadsWhatIsThere ==
    ASSUME RowsInv
    PROVE  /\ \A n : load_block(n) <=> n \in DOMAIN blocks
           /\ \A t : load_receipt(t) <=> t \in DOMAIN receipts
           /\ DOMAIN blocks \subseteq 1..head /\ DOMAIN prune_journal \subseteq 1..head
<1>1. Readable
  BY TablesRead
<1>2. \A n : load_block(n) <=> n \in DOMAIN blocks
  BY <1>1 DEF Readable, load_block
<1>3. \A t : load_receipt(t) <=> t \in DOMAIN receipts
  BY <1>1 DEF Readable, load_receipt
<1>4. DOMAIN blocks \subseteq 1..head /\ DOMAIN prune_journal \subseteq 1..head
  BY DEF RowsInv, TablesFollow, Follows, head
<1> QED
  BY <1>2, <1>3, <1>4

\* The recursion of find_block_at_timestamp up to turn m, which has a solution.
TurnsTo(f, m) ==
    f = [i \in 0..m |->
            IF i = 0 THEN [lo |-> IF config.oldest = None THEN 0 ELSE config.oldest,
                           hi |-> head, best |-> None]
            ELSE Narrowed(f[i - 1])]

LEMMA TurnsToExists ==
    ASSUME NEW m \in Nat
    PROVE  \E f : TurnsTo(f, m)
<1>0. PICK s : s = [lo |-> IF config.oldest = None THEN 0 ELSE config.oldest,
                    hi |-> head, best |-> None]
  OBVIOUS
<1> DEFINE Turns(f, k) == f = [i \in 0..k |-> IF i = 0 THEN s ELSE Narrowed(f[i - 1])]
           C == {k \in Nat : \E f : Turns(f, k)}
<1>1. 0 \in C
  <2>1. PICK f : f = [i \in 0..0 |-> s]
    OBVIOUS
  <2>2. \A i \in 0..0 : i = 0
    OBVIOUS
  <2>3. Turns(f, 0)
    BY <2>1, <2>2
  <2> QED
    BY <2>3
<1>2. ASSUME NEW k \in C PROVE k + 1 \in C
  <2>1. k \in Nat /\ k + 1 \in Nat
    OBVIOUS
  <2>2. PICK f : Turns(f, k)
    OBVIOUS
  <2>3. PICK g : g = [i \in 0..(k + 1) |-> IF i = 0 THEN s ELSE Narrowed(f[i - 1])]
    OBVIOUS
  <2>4. ASSUME NEW i \in 0..k PROVE g[i] = f[i]
    <3>1. i \in 0..(k + 1)
      BY <2>1
    <3> QED
      BY <2>2, <2>3, <3>1
  <2>5. \A i \in 0..(k + 1) : i # 0 => i - 1 \in 0..k
    BY <2>1
  <2>6. Turns(g, k + 1)
    BY <2>3, <2>4, <2>5
  <2> QED
    BY <2>1, <2>6
<1>3. C \in SUBSET Nat
  OBVIOUS
<1>4. m \in C
  <2> HIDE DEF C
  <2> QED
    BY <1>1, <1>2, <1>3, NatSetInduction
<1> QED
  BY <1>0, <1>4 DEF TurnsTo

\* The search finds a block that is not younger than the cutoff, or none.
LEMMA SearchFinds ==
    ASSUME RowsInv, MadeInv
    PROVE  LET found == find_block_at_timestamp
           IN  found = None \/ (found \in 1..head /\ made[found].time <= Cutoff)
<1>1. head \in Nat /\ head + 1 \in Nat
  BY DEF MadeInv, head
<1>2. PICK f : f = CHOOSE g : TurnsTo(g, head + 1)
  OBVIOUS
<1>3. TurnsTo(f, head + 1)
  BY <1>1, <1>2, TurnsToExists
<1>4. find_block_at_timestamp = f[head + 1].best
  BY <1>2 DEF find_block_at_timestamp, TurnsTo
<1> DEFINE Right(b) == b = None \/ (b \in 1..head /\ made[b].time <= Cutoff)
           C == {i \in Nat : i <= head + 1 => Right(f[i].best)}
<1>5. 0 \in C
  <2>1. 0 \in 0..(head + 1)
    BY <1>1
  <2>2. f[0].best = None
    BY <1>3, <2>1 DEF TurnsTo
  <2>3. Right(f[0].best)
    BY <2>2
  <2> HIDE DEF Right
  <2> QED
    BY <2>3
<1>6. ASSUME NEW i \in C PROVE i + 1 \in C
  <2>1. i \in Nat /\ i + 1 \in Nat /\ (i <= head + 1 => Right(f[i].best))
    OBVIOUS
  <2>2. SUFFICES ASSUME i + 1 <= head + 1 PROVE Right(f[i + 1].best)
    BY <2>1
  <2>3. i + 1 \in 0..(head + 1) /\ i + 1 # 0 /\ (i + 1) - 1 = i
    BY <1>1, <2>1, <2>2
  <2>4. f[i + 1] = Narrowed(f[i])
    BY <1>3, <2>3 DEF TurnsTo
  <2>5. PICK s : s = f[i]
    OBVIOUS
  <2>6. Right(s.best)
    BY <1>1, <2>1, <2>2, <2>5
  <2>7. PICK mid : mid = Middle(s.lo, s.hi)
    OBVIOUS
  <2>8. load_block(mid) => mid \in 1..head
    BY LoadsWhatIsThere
  <2>9. Right(Narrowed(s).best)
    <3>1. CASE s.lo > s.hi \/ ~load_block(mid)
      <4>1. Narrowed(s) = s
        BY <2>7, <3>1 DEF Narrowed
      <4> QED
        BY <2>6, <4>1
    <3>2. CASE ~(s.lo > s.hi \/ ~load_block(mid)) /\ made[mid].time <= Cutoff
      <4>1. Narrowed(s) = [lo |-> mid + 1, hi |-> s.hi, best |-> mid]
        BY <2>7, <3>2 DEF Narrowed
      <4>2. Narrowed(s).best = mid
        BY <4>1
      <4> QED
        BY <2>8, <3>2, <4>2
    <3>3. CASE ~(s.lo > s.hi \/ ~load_block(mid)) /\ ~(made[mid].time <= Cutoff)
      <4>1. CASE mid = 0
        <5>1. Narrowed(s) = s
          BY <2>7, <3>3, <4>1 DEF Narrowed
        <5> QED
          BY <2>6, <5>1
      <4>2. CASE mid # 0
        <5>1. Narrowed(s) = [lo |-> s.lo, hi |-> mid - 1, best |-> s.best]
          BY <2>7, <3>3, <4>2 DEF Narrowed
        <5>2. Narrowed(s).best = s.best
          BY <5>1
        <5> QED
          BY <2>6, <5>2
      <4> QED
        BY <4>1, <4>2
    <3> QED
      BY <3>1, <3>2, <3>3
  <2> QED
    BY <2>4, <2>5, <2>9
<1>7. head + 1 \in C
  <2>1. C \in SUBSET Nat
    OBVIOUS
  <2> HIDE DEF C
  <2> QED
    BY <1>1, <1>5, <1>6, <2>1, NatSetInduction
<1>8. Right(f[head + 1].best)
  BY <1>1, <1>7
<1> QED
  BY <1>4, <1>8

LEMMA MaxOfTwo ==
    ASSUME NEW a \in Int, NEW b \in Int
    PROVE  Max({a, b}) \in {a, b} /\ Max({a, b}) >= a /\ Max({a, b}) >= b
<1>1. \E x \in {a, b} : \A y \in {a, b} : x >= y
  <2>1. CASE a >= b
    BY <2>1
  <2>2. CASE ~(a >= b)
    BY <2>2
  <2> QED
    BY <2>1, <2>2
<1> QED
  BY <1>1 DEF Max

LEMMA MinIs ==
    ASSUME NEW S, NEW x \in S, \A y \in S : y \in Int /\ x <= y
    PROVE  Min(S) = x
<1>1. Min(S) \in S /\ \A y \in S : Min(S) <= y
  BY DEF Min
<1> QED
  BY <1>1

\* At least one block is retained; without the size target, the blocks that are
\* not retained are below the retained number or below the cutoff.
LEMMA RetainCount ==
    ASSUME head \in Nat, NEW p \in Policy, NEW cutoff \in Number
    PROVE  /\ retain_count(p, cutoff) \in Nat \ {0}
           /\ ~CapTrigger => \A n \in 1..head : n <= head - retain_count(p, cutoff) =>
                    \/ p.retain_blocks > 0 /\ n <= head - p.retain_blocks
                    \/ cutoff # None /\ n <= cutoff
<1>1. PICK h : h = head
  OBVIOUS
<1>2. PICK rb : rb = p.retain_blocks
  OBVIOUS
<1>3. h \in Nat /\ rb \in Nat /\ cutoff \in Int
  BY <1>1, <1>2 DEF Policy, Number, None
<1>4. PICK x : x = IF rb > 0 THEN Minus(h, rb - 1) ELSE 0
  OBVIOUS
<1>5. PICK y : y = IF p.retain_days > 0 /\ cutoff # None THEN cutoff ELSE 0
  OBVIOUS
<1>6. x \in Nat /\ (x > 0 => rb > 0 /\ x = h - (rb - 1))
  BY <1>3, <1>4 DEF Minus
<1>7. y \in Nat /\ (y > 0 => cutoff # None /\ y = cutoff)
  BY <1>5 DEF Number, None
<1>8. PICK z : z = Max({x, y})
  OBVIOUS
<1>9. z \in {x, y} /\ z \in Nat
  <2>1. x \in Int /\ y \in Int
    BY <1>6, <1>7
  <2>2. Max({x, y}) \in {x, y}
    BY <2>1, MaxOfTwo
  <2> QED
    BY <1>6, <1>7, <1>8, <2>2
<1>10. retain_count(p, cutoff) = IF CapTrigger THEN 1 ELSE Minus(h, z) + 1
  BY <1>1, <1>2, <1>4, <1>5, <1>8 DEF retain_count
<1>11. Minus(h, z) + 1 \in Nat \ {0}
  BY <1>3, <1>9 DEF Minus
<1>12. ASSUME ~CapTrigger, NEW n \in 1..head, n <= head - retain_count(p, cutoff)
       PROVE  \/ p.retain_blocks > 0 /\ n <= head - p.retain_blocks
              \/ cutoff # None /\ n <= cutoff
  <2>1. n \in 1..h /\ n <= h - (Minus(h, z) + 1)
    BY <1>1, <1>10, <1>12
  <2>2. n < z
    BY <1>3, <1>9, <2>1 DEF Minus
  <2>3. CASE z = x
    BY <1>1, <1>2, <1>3, <1>6, <2>1, <2>2, <2>3
  <2>4. CASE z = y
    BY <1>3, <1>7, <2>1, <2>2, <2>4
  <2> QED
    BY <1>9, <2>3, <2>4
<1> QED
  BY <1>10, <1>11, <1>12

LEMMA HeadNat ==
    ASSUME MadeInv
    PROVE  head \in Nat /\ HeadTime \in Nat /\ \A n \in 1..head : made[n].time \in Nat
<1>1. head \in Nat /\ \A n \in 1..head : made[n].time \in Nat
  <2>1. head \in Nat
    BY DEF MadeInv, head
  <2>2. ASSUME NEW n \in 1..head PROVE made[n].time \in Nat
    <3>1. made[n] \in BlockData
      BY DEF MadeInv, head
    <3> QED
      BY <3>1 DEF BlockData
  <2> QED
    BY <2>1, <2>2
<1>2. made # <<>> => head \in 1..head
  BY <1>1 DEF MadeInv, head
<1> QED
  BY <1>1, <1>2 DEF HeadTime

\* The prune of a tick retains what the policy says.
LEMMA TickRetains ==
    ASSUME MadeInv, RowsInv, ConfigOK(config)
    PROVE  LET r == retain_count(config.policy, find_block_at_timestamp)
           IN  /\ r \in Nat \ {0}
               /\ /\ ~CapTrigger
                  /\ \A m, n \in 1..head : m <= n => made[m].time <= made[n].time
                  => \A n \in 1..head : n <= head - r => Old(n)
<1>1. head \in Nat /\ HeadTime \in Nat /\ \A n \in 1..head : made[n].time \in Nat
  BY HeadNat
<1>2. config.policy \in Policy
  BY DEF ConfigOK
<1>3. PICK c : c = find_block_at_timestamp
  OBVIOUS
<1>4. c = None \/ (c \in 1..head /\ made[c].time <= Cutoff)
  BY <1>3, SearchFinds
<1>5. c \in Number
  BY <1>1, <1>4 DEF Number
<1>6. PICK r : r = retain_count(config.policy, c)
  OBVIOUS
<1>7. /\ r \in Nat \ {0}
      /\ ~CapTrigger => \A n \in 1..head : n <= head - r =>
                    \/ config.policy.retain_blocks > 0 /\ n <= head - config.policy.retain_blocks
                    \/ c # None /\ n <= c
  BY <1>1, <1>2, <1>5, <1>6, RetainCount
<1>8. Cutoff \in Int
  BY <1>1, <1>2 DEF Cutoff, Minus, Policy
<1>9. ASSUME ~CapTrigger, \A m, n \in 1..head : m <= n => made[m].time <= made[n].time,
             NEW n \in 1..head, n <= head - r
      PROVE  Old(n)
  <2>1. CASE config.policy.retain_blocks > 0 /\ n <= head - config.policy.retain_blocks
    BY <2>1 DEF Old
  <2>2. CASE c # None /\ n <= c
    <3>1. c \in 1..head /\ made[c].time <= Cutoff
      BY <1>4, <2>2
    <3>2. made[n].time <= made[c].time
      BY <1>9, <2>2, <3>1
    <3>3. made[n].time \in Int /\ made[c].time \in Int
      BY <1>1, <3>1
    <3>4. made[n].time <= Cutoff
      BY <1>8, <3>1, <3>2, <3>3
    <3> QED
      BY <3>4 DEF Old
  <2> QED
    BY <1>7, <1>9, <2>1, <2>2
<1> QED
  BY <1>3, <1>6, <1>7, <1>9

-----------------------------------------------------------------------------
(* The rows, action by action.                                             *)

LEMMA RowsProduce ==
    ASSUME RowsInv, MadeInv, NEW txs \in Shapes, NEW gap \in Gaps, Produce(txs, gap)
    PROVE  RowsInv' /\ MadeInv'
<1>1. PICK rows : StoreOK(blob, rows) /\ TablesFollow(rows)
  BY DEF RowsInv
<1>2. Follows(rows, made, blocks, receipts, tx_index, internal_traces, prune_journal)
  BY <1>1 DEF TablesFollow
<1>3. PICK n : n = Len(made) + 1
  OBVIOUS
<1>4. PICK out : out = StoreAll(n, txs)
  OBVIOUS
<1>5. PICK ptrs : ptrs = out.ptrs
  OBVIOUS
<1>6. PICK time : time = HeadTime + gap
  OBVIOUS
<1>7. made \in Seq(BlockData) /\ txs \in Seq(TxData) /\ time \in Nat /\ n \in Nat
  <2>1. HeadTime \in Nat
    BY HeadNat
  <2>2. gap \in Nat /\ txs \in Seq(TxData)
    BY HistoryAssumption DEF TxData
  <2> QED
    BY <1>3, <1>6, <2>1, <2>2 DEF MadeInv
<1>8. /\ made' = Append(made, [txs |-> txs, time |-> time])
      /\ blob' = out.blob
      /\ blocks' = With(blocks, n, ptrs[<<"block", <<n, 0>>>>])
      /\ prune_journal' = prune_journal
  BY <1>3, <1>4, <1>5, <1>6 DEF Produce, head
<1>9. OneMore(made, made', n, txs)
  BY <1>3, <1>7, <1>8, MadeMore
<1>10. AccOK(out, rows, NewRows(n, txs))
  <2>1. ASSUME NEW r \in DOMAIN rows PROVE r[2][1] # n
    <3>1. PICK k \in 1..Len(made) : r \in RowsOf(made, k)
      BY <1>2 DEF Follows
    <3>2. r[2][1] = k
      BY <3>1, RowNamesBlock
    <3> QED
      BY <1>3, <1>7, <3>2
  <2> QED
    BY <1>1, <1>4, <1>7, <2>1, StoreAllKeeps
<1>11. DOMAIN ptrs = NewRows(n, txs) /\ StoreOK(blob', Join(rows, ptrs))
  BY <1>5, <1>8, <1>10 DEF AccOK
<1>12. PICK new : new = TxsIn(made', n)
  OBVIOUS
<1>13. PICK traced : traced = TracedIn(made', n)
  OBVIOUS
<1>14. /\ new = {<<n, i>> : i \in 1..Len(txs)}
       /\ traced = {t \in new : txs[t[2]].traced}
  BY <1>9, <1>12, <1>13 DEF OneMore
<1>15. Grows(receipts, receipts', "receipt", new, ptrs)
  BY <1>3, <1>4, <1>5, <1>14 DEF Produce, head, Grows
<1>16. Grows(tx_index, tx_index', "index", new, ptrs)
  BY <1>3, <1>4, <1>5, <1>14 DEF Produce, head, Grows
<1>17. Grows(internal_traces, internal_traces', "traces", traced, ptrs)
  BY <1>3, <1>4, <1>5, <1>14 DEF Produce, head, Grows
<1>18. /\ DOMAIN blocks' = DOMAIN blocks \cup {n}
       /\ \A k \in DOMAIN blocks' : blocks'[k] = IF k = n THEN ptrs[<<"block", <<n, 0>>>>] ELSE blocks[k]
  BY <1>8 DEF With
<1>19. Follows(Join(rows, ptrs), made', blocks', receipts', tx_index', internal_traces', prune_journal)
  BY <1>2, <1>7, <1>9, <1>11, <1>12, <1>13, <1>15, <1>16, <1>17, <1>18, FollowsProduced
<1>20. RowsInv'
  BY <1>8, <1>11, <1>19 DEF RowsInv, TablesFollow
<1>21. MadeInv'
  BY <1>9 DEF OneMore, MadeInv
<1> QED
  BY <1>20, <1>21

LEMMA RowsSame ==
    ASSUME RowsInv, MadeInv, UNCHANGED <<made, blob, tables, prune_journal>>
    PROVE  RowsInv' /\ MadeInv'
<1>1. PICK rows : StoreOK(blob, rows) /\ TablesFollow(rows)
  BY DEF RowsInv
<1>2. Follows(rows, made, blocks, receipts, tx_index, internal_traces, prune_journal)
  BY <1>1 DEF TablesFollow
<1>3. /\ made' = made /\ blob' = blob /\ blocks' = blocks /\ receipts' = receipts
      /\ tx_index' = tx_index /\ internal_traces' = internal_traces
      /\ prune_journal' = prune_journal
  BY DEF tables
<1> QED
  BY <1>1, <1>2, <1>3 DEF RowsInv, TablesFollow, MadeInv

LEMMA RowsJournal ==
    ASSUME RowsInv, MadeInv, PruneJournal
    PROVE  RowsInv' /\ MadeInv'
<1>1. PICK rows : StoreOK(blob, rows) /\ TablesFollow(rows)
  BY DEF RowsInv
<1>2. Follows(rows, made, blocks, receipts, tx_index, internal_traces, prune_journal)
  BY <1>1 DEF TablesFollow
<1>3. PICK n : n = job.next
  OBVIOUS
<1>4. PICK ptrs : ptrs = collect_ptrs_for_block(n)
  OBVIOUS
<1>5. n \in DOMAIN blocks
  BY <1>3 DEF PruneJournal, load_block
<1>6. TxIds(n) = TxsIn(made, n)
  BY DEF TxIds, TxsIn
<1>7. ptrs = {blocks[n]} \cup {receipts[t] : t \in TxsIn(made, n) \cap DOMAIN receipts}
                \cup {tx_index[t] : t \in TxsIn(made, n) \cap DOMAIN tx_index}
                \cup {internal_traces[t] : t \in TxsIn(made, n) \cap DOMAIN internal_traces}
  BY <1>4, <1>6 DEF collect_ptrs_for_block
<1>8. Follows(rows, made, blocks, receipts, tx_index, internal_traces, With(prune_journal, n, ptrs))
  BY <1>2, <1>5, <1>7, FollowsJournaled
<1>9. /\ made' = made /\ blob' = blob /\ blocks' = blocks /\ receipts' = receipts
      /\ tx_index' = tx_index /\ internal_traces' = internal_traces
      /\ prune_journal' = With(prune_journal, n, ptrs)
  BY <1>3, <1>4 DEF PruneJournal, tables
<1> QED
  BY <1>1, <1>8, <1>9 DEF RowsInv, TablesFollow, MadeInv

\* Deleting a journaled block, with and without the reclaim of its blobs.
LEMMA RowsDelete ==
    ASSUME RowsInv, MadeInv, NEW n \in DOMAIN prune_journal, Delete(n),
           UNCHANGED <<made, blob, prune_journal>>
    PROVE  RowsInv' /\ MadeInv'
<1>1. PICK rows : StoreOK(blob, rows) /\ TablesFollow(rows)
  BY DEF RowsInv
<1>2. Follows(rows, made, blocks, receipts, tx_index, internal_traces, prune_journal)
  BY <1>1 DEF TablesFollow
<1>3. TxIds(n) = TxsIn(made, n)
  BY DEF TxIds, TxsIn
<1>4. /\ blocks' = Drop(blocks, {n}) /\ receipts' = Drop(receipts, TxsIn(made, n))
      /\ tx_index' = Drop(tx_index, TxsIn(made, n))
      /\ internal_traces' = Drop(internal_traces, TxsIn(made, n))
  BY <1>3 DEF Delete
<1>5. Follows(rows, made, blocks', receipts', tx_index', internal_traces', prune_journal)
  <2>1. Follows(rows, made, Drop(blocks, {n}), Drop(receipts, TxsIn(made, n)),
                Drop(tx_index, TxsIn(made, n)), Drop(internal_traces, TxsIn(made, n)), prune_journal)
    BY <1>2, FollowsDeleted
  <2> QED
    BY <1>4, <2>1
<1> QED
  BY <1>1, <1>5 DEF RowsInv, TablesFollow, MadeInv

LEMMA RowsReclaim ==
    ASSUME MadeInv, NEW n \in DOMAIN prune_journal,
           NEW rows, StoreOK(blob, rows),
           Follows(rows, made, blocks', receipts', tx_index', internal_traces', prune_journal),
           n \notin DOMAIN blocks', made' = made,
           blob' = reclaim_for_prune(blob, prune_journal[n]),
           prune_journal' = Drop(prune_journal, {n})
    PROVE  RowsInv' /\ MadeInv'
<1>1. PICK R : R = RowsOf(made, n)
  OBVIOUS
<1>2. R \subseteq DOMAIN rows /\ prune_journal[n] = {rows[r] : r \in R}
  BY <1>1 DEF Follows
<1>3. StoreOK(blob', Drop(rows, R))
  BY <1>2, ReclaimKeeps
<1>4. Follows(Drop(rows, R), made, blocks', receipts', tx_index', internal_traces', Drop(prune_journal, {n}))
  BY <1>1, FollowsReclaimed
<1> QED
  BY <1>3, <1>4 DEF RowsInv, TablesFollow, MadeInv

\* A prune reclaims the blobs of the block it has deleted.
LEMMA RowsFree ==
    ASSUME RowsInv, MadeInv, NEW n \in DOMAIN prune_journal, n \notin DOMAIN blocks,
           UNCHANGED <<made, tables>>,
           blob' = reclaim_for_prune(blob, prune_journal[n]),
           prune_journal' = Drop(prune_journal, {n})
    PROVE  RowsInv' /\ MadeInv'
<1>1. PICK rows : StoreOK(blob, rows) /\ TablesFollow(rows)
  BY DEF RowsInv
<1>2. Follows(rows, made, blocks, receipts, tx_index, internal_traces, prune_journal)
  BY <1>1 DEF TablesFollow
<1>3. /\ made' = made /\ blocks' = blocks /\ receipts' = receipts
      /\ tx_index' = tx_index /\ internal_traces' = internal_traces
  BY DEF tables
<1>4. Follows(rows, made, blocks', receipts', tx_index', internal_traces', prune_journal)
  BY <1>2, <1>3
<1> QED
  BY <1>1, <1>3, <1>4, RowsReclaim

\* A recovery deletes the block when it is still there, and reclaims its blobs.
LEMMA RowsRecover ==
    ASSUME RowsInv, MadeInv, NEW n \in DOMAIN prune_journal, made' = made,
           IF load_block(n) THEN Delete(n) ELSE UNCHANGED tables,
           blob' = reclaim_for_prune(blob, prune_journal[n]),
           prune_journal' = Drop(prune_journal, {n})
    PROVE  RowsInv' /\ MadeInv'
<1>0. load_block(n) <=> n \in DOMAIN blocks
  BY LoadsWhatIsThere
<1>1. CASE load_block(n)
  <2>1. PICK rows : StoreOK(blob, rows) /\ TablesFollow(rows)
    BY DEF RowsInv
  <2>2. Follows(rows, made, blocks, receipts, tx_index, internal_traces, prune_journal)
    BY <2>1 DEF TablesFollow
  <2>3. TxIds(n) = TxsIn(made, n)
    BY DEF TxIds, TxsIn
  <2>4. /\ blocks' = Drop(blocks, {n}) /\ receipts' = Drop(receipts, TxsIn(made, n))
        /\ tx_index' = Drop(tx_index, TxsIn(made, n))
        /\ internal_traces' = Drop(internal_traces, TxsIn(made, n))
    BY <1>1, <2>3 DEF Delete
  <2>5. Follows(rows, made, Drop(blocks, {n}), Drop(receipts, TxsIn(made, n)),
                Drop(tx_index, TxsIn(made, n)), Drop(internal_traces, TxsIn(made, n)), prune_journal)
    BY <2>2, FollowsDeleted
  <2>6. Follows(rows, made, blocks', receipts', tx_index', internal_traces', prune_journal)
    BY <2>4, <2>5
  <2>7. n \notin DOMAIN blocks'
    BY <2>4 DEF Drop
  <2> QED
    BY <2>1, <2>6, <2>7, RowsReclaim
<1>2. CASE ~load_block(n)
  <2>1. UNCHANGED <<made, tables>> /\ n \notin DOMAIN blocks
    BY <1>0, <1>2
  <2> QED
    BY <2>1, RowsFree
<1> QED
  BY <1>1, <1>2

-----------------------------------------------------------------------------
(* The state of a prune, action by action.                                 *)

BaseInv == MadeInv /\ TypeInv /\ JournalInv /\ RowsInv

LEMMA NormalizeGives ==
    ASSUME NEW next \in Nat, NEW before \in Number, next <= before + 1
    PROVE  normalize(next, before) = before + 1
BY DEF normalize, Number, None

LEMMA JournalBlockIs ==
    ASSUME TypeInv, JournalInv, RowsInv
    PROVE  /\ JournalBlock = None => DOMAIN prune_journal = {} /\ prune_state.journal = None
           /\ JournalBlock # None => JournalBlock \in Nat /\ DOMAIN prune_journal = {JournalBlock}
<1>1. DOMAIN prune_journal \subseteq 1..head
  BY LoadsWhatIsThere
<1>2. CASE prune_state.journal # None
  <2>1. JournalBlock = prune_state.journal /\ prune_state.journal \in Nat
    BY <1>2 DEF JournalBlock, TypeInv, PruneStateOK, Number
  <2> QED
    BY <1>2, <2>1 DEF JournalInv
<1>3. CASE prune_state.journal = None /\ DOMAIN prune_journal # {}
  <2>1. PICK n : n \in DOMAIN prune_journal
    BY <1>3
  <2>2. DOMAIN prune_journal = {n}
    BY <2>1 DEF JournalInv
  <2>3. n \in Int /\ n \in Nat /\ n # None
    BY <1>1, <2>1 DEF None
  <2>4. Min(DOMAIN prune_journal) = n
    <3>1. \A y \in DOMAIN prune_journal : y \in Int /\ n <= y
      BY <2>2, <2>3
    <3> QED
      BY <2>1, <3>1, MinIs
  <2>5. JournalBlock = n
    BY <1>3, <2>4 DEF JournalBlock
  <2> QED
    BY <2>2, <2>3, <2>5
<1>4. CASE prune_state.journal = None /\ DOMAIN prune_journal = {}
  BY <1>4 DEF JournalBlock
<1> QED
  BY <1>2, <1>3, <1>4

\* refresh_oldest names the first block above the boundary, if there is one.
LEMMA NextExisting ==
    ASSUME RowsInv, MadeInv, NEW before \in Int
    PROVE  LET n == find_next_existing_block(before)
               kept == {k \in DOMAIN blocks : k > before}
           IN  /\ kept = {} => n = None
               /\ kept # {} => n \in kept /\ n \in 1..head /\ \A k \in kept : n <= k
<1>1. PICK kept : kept = {k \in DOMAIN blocks : k > before}
  OBVIOUS
<1>2. kept = {k \in DOMAIN blocks : k > before /\ load_block(k)}
  BY <1>1, LoadsWhatIsThere
<1>3. kept \subseteq 1..head /\ head \in Nat
  BY <1>1, LoadsWhatIsThere, HeadNat
<1>4. find_next_existing_block(before) = IF kept = {} THEN None ELSE Min(kept)
  BY <1>2 DEF find_next_existing_block
<1>5. ASSUME kept # {} PROVE Min(kept) \in kept /\ \A k \in kept : Min(kept) <= k
  <2>1. kept \in SUBSET Nat
    BY <1>3
  <2>2. PICK x \in kept : \A y \in kept : x <= y
    BY <1>5, <2>1, NatLeast
  <2>3. \A y \in kept : y \in Int /\ x <= y
    BY <2>1, <2>2
  <2>4. Min(kept) = x
    BY <2>3, MinIs
  <2> QED
    BY <2>2, <2>4
<1> QED
  BY <1>1, <1>3, <1>4, <1>5

Keeps(c, d) ==
    ConfigOK(d) /\ d.policy = c.policy /\ d.running = c.running /\ d.enabled = c.enabled

LEMMA RefreshedKeeps ==
    ASSUME RowsInv, MadeInv, NEW before \in Int, NEW c, ConfigOK(c)
    PROVE  Keeps(c, Refreshed(c, before))
<1>1. PICK n : n = find_next_existing_block(before)
  OBVIOUS
<1>2. n \in Number
  <2>1. n = None \/ n \in 1..head
    BY <1>1, NextExisting
  <2> QED
    BY <2>1 DEF Number
<1>3. Refreshed(c, before) = IF n = None THEN c ELSE [c EXCEPT !.oldest = n, !.oldest_time = made[n].time]
  BY <1>1 DEF Refreshed
<1>4. PICK a, b, p, o, q : c = [enabled |-> a, running |-> b, policy |-> p, oldest |-> o, oldest_time |-> q]
  BY DEF ConfigOK
<1>5. CASE n # None
  <2>1. PICK w : w = made[n].time
    OBVIOUS
  <2>2. Refreshed(c, before) = [enabled |-> a, running |-> b, policy |-> p, oldest |-> n, oldest_time |-> w]
    BY <1>3, <1>4, <1>5, <2>1
  <2> QED
    BY <1>2, <1>4, <2>2 DEF Keeps, ConfigOK
<1>6. CASE n = None
  BY <1>3, <1>6 DEF Keeps
<1> QED
  BY <1>5, <1>6

LEMMA ConfigSet ==
    ASSUME NEW c, ConfigOK(c)
    PROVE  /\ \A p \in Policy : ConfigOK([c EXCEPT !.policy = p])
           /\ \A v : ConfigOK([c EXCEPT !.enabled = v])
           /\ \A v : ConfigOK([c EXCEPT !.running = v])
           /\ \A n \in Nat : \A t : ConfigOK([c EXCEPT !.oldest = n, !.oldest_time = t])
<1>1. PICK a, b, p, o, q : c = [enabled |-> a, running |-> b, policy |-> p, oldest |-> o, oldest_time |-> q]
  BY DEF ConfigOK
<1>2. ASSUME NEW w \in Policy PROVE ConfigOK([c EXCEPT !.policy = w])
  BY <1>1 DEF ConfigOK
<1>3. ASSUME NEW v PROVE ConfigOK([c EXCEPT !.enabled = v])
  BY <1>1 DEF ConfigOK
<1>4. ASSUME NEW v PROVE ConfigOK([c EXCEPT !.running = v])
  BY <1>1 DEF ConfigOK
<1>5. ASSUME NEW n \in Nat, NEW t PROVE ConfigOK([c EXCEPT !.oldest = n, !.oldest_time = t])
  <2>0. PICK d : d = [c EXCEPT !.oldest = n, !.oldest_time = t]
    OBVIOUS
  <2>1. d = [enabled |-> a, running |-> b, policy |-> p, oldest |-> n, oldest_time |-> t]
    BY <1>1, <2>0
  <2>2. p \in Policy /\ n \in Number
    BY <1>1 DEF ConfigOK, Number
  <2> QED
    BY <2>0, <2>1, <2>2 DEF ConfigOK
<1> QED
  BY <1>2, <1>3, <1>4, <1>5

\* A prune in its loop.
Loop(pc, u, o, x, t, z, n, s) ==
    [pc |-> pc, upto |-> u, ops |-> o, max_ops |-> x, tick |-> t, by_size |-> z, next |-> n, ps |-> s]
Cursor(a, b, c) == [next |-> a, before |-> b, journal |-> c]
LoopOK(pc, u, n, a, b, c, h) ==
    /\ u \in Nat /\ u < h /\ n \in Nat
    /\ a \in Nat /\ b \in Number /\ c \in Number /\ a <= b + 1
    /\ n = IF pc = "deleted" THEN b ELSE b + 1
    /\ pc \in Working => n <= u

LEMMA JobIsLoop ==
    ASSUME NEW j, NEW h, JobOK(j, h), j.pc \in {"loop"} \cup Working
    PROVE  \E u, o, x, t, z, n, a, b, c :
                j = Loop(j.pc, u, o, x, t, z, n, Cursor(a, b, c)) /\ LoopOK(j.pc, u, n, a, b, c, h)
<1>1. /\ j = [pc |-> j.pc, upto |-> j.upto, ops |-> j.ops, max_ops |-> j.max_ops,
               tick |-> j.tick, by_size |-> j.by_size, next |-> j.next, ps |-> j.ps]
      /\ j.upto \in Nat /\ j.upto < h
      /\ PruneStateOK(j.ps) /\ j.next \in Nat
      /\ j.next = IF j.pc = "deleted" THEN j.ps.before ELSE j.ps.before + 1
      /\ j.pc \in Working => j.next <= j.upto
  <2>1. j # Idle /\ j # [pc |-> "tick"] /\ j.pc \notin {"enter", "end"}
    BY DEF Idle, Working
  <2> QED
    BY <2>1 DEF JobOK
<1>2. j.ps = Cursor(j.ps.next, j.ps.before, j.ps.journal)
  BY <1>1 DEF PruneStateOK, Cursor
<1>3. j = Loop(j.pc, j.upto, j.ops, j.max_ops, j.tick, j.by_size, j.next,
               Cursor(j.ps.next, j.ps.before, j.ps.journal))
  BY <1>1, <1>2 DEF Loop
<1>4. LoopOK(j.pc, j.upto, j.next, j.ps.next, j.ps.before, j.ps.journal, h)
  BY <1>1 DEF LoopOK, PruneStateOK
<1> QED
  BY <1>3, <1>4

LEMMA LoopIsJob ==
    ASSUME NEW pc \in {"loop"} \cup Working, NEW u, NEW o, NEW x, NEW t, NEW z, NEW n,
           NEW a, NEW b, NEW c, NEW h, LoopOK(pc, u, n, a, b, c, h)
    PROVE  JobOK(Loop(pc, u, o, x, t, z, n, Cursor(a, b, c)), h)
<1>1. PICK s : s = Cursor(a, b, c)
  OBVIOUS
<1>2. PruneStateOK(s) /\ s.before = b
  BY <1>1 DEF Cursor, PruneStateOK, LoopOK
<1>3. PICK j : j = Loop(pc, u, o, x, t, z, n, s)
  OBVIOUS
<1>4. /\ j.pc = pc /\ j.upto = u /\ j.ops = o /\ j.max_ops = x /\ j.tick = t /\ j.by_size = z
      /\ j.next = n /\ j.ps = s
      /\ j = [pc |-> j.pc, upto |-> j.upto, ops |-> j.ops, max_ops |-> j.max_ops,
               tick |-> j.tick, by_size |-> j.by_size, next |-> j.next, ps |-> j.ps]
  BY <1>3 DEF Loop
<1>5. JobOK(j, h)
  BY <1>2, <1>4 DEF JobOK, LoopOK
<1> QED
  BY <1>1, <1>3, <1>5

LEMMA InitBase ==
    ASSUME Init
    PROVE  BaseInv
<1>1. MadeInv /\ head = 0
  BY DEF Init, MadeInv, head
<1>2. TypeInv
  <2>1. PruneStateOK(prune_state)
    BY DEF Init, PruneStateOK, Number, None
  <2>2. JobOK(job, head)
    BY DEF Init, JobOK
  <2>3. ConfigOK(config)
    BY DEF Init, ConfigOK, NoPolicy, Policy, Number
  <2> QED
    BY <2>1, <2>2, <2>3 DEF TypeInv
<1>3. JournalInv
  BY DEF Init, JournalInv, Empty, Idle, Working
<1>4. RowsInv
  <2>1. DOMAIN Empty = {}
    BY DEF Empty
  <2>2. StoreOK(blob, Empty)
    <3>1. blob = [alloc |-> Empty, arena |-> Empty, end |-> 0, totals |-> [used |-> 0, free |-> 0]]
      BY DEF Init
    <3>2. UsedKeys(blob) = {} /\ DOMAIN blob.alloc = {}
      BY <2>1, <3>1 DEF UsedKeys
    <3>3. IsFiniteSet({})
      BY FS_EmptySet
    <3>4. blob.totals = [used |-> Size(UsedKeys(blob)), free |-> Size(DOMAIN blob.alloc \ UsedKeys(blob))]
      <4>1. DOMAIN blob.alloc \ UsedKeys(blob) = {}
        BY <3>2
      <4>2. Size(UsedKeys(blob)) = 0 /\ Size(DOMAIN blob.alloc \ UsedKeys(blob)) = 0
        BY <3>2, <4>1, SizeEmpty
      <4>3. blob.totals = [used |-> 0, free |-> 0]
        BY <3>1
      <4> QED
        BY <4>2, <4>3
    <3> QED
      BY <2>1, <3>1, <3>2, <3>3, <3>4 DEF StoreOK
  <2>3. Follows(Empty, made, blocks, receipts, tx_index, internal_traces, prune_journal)
    <3>1. /\ blocks = Empty /\ receipts = Empty /\ tx_index = Empty
          /\ internal_traces = Empty /\ prune_journal = Empty
      BY DEF Init
    <3> QED
      BY <2>1, <3>1 DEF Follows, Holds, TxsOf, TracedOf
  <2> QED
    BY <2>2, <2>3 DEF RowsInv, TablesFollow
<1> QED
  BY <1>1, <1>2, <1>3, <1>4 DEF BaseInv

\* Between messages, and before a prune enters, the journal may hold a block.
LEMMA JournalQuiet ==
    ASSUME JournalInv, UNCHANGED <<prune_journal, prune_state>>, job'.pc \in {"idle", "tick", "enter"}
    PROVE  JournalInv'
BY DEF JournalInv, Working

LEMMA JournalSame ==
    ASSUME JournalInv, UNCHANGED <<prune_journal, prune_state, job, blocks>>
    PROVE  JournalInv'
BY DEF JournalInv

LEMMA QuietJob ==
    ASSUME NEW h
    PROVE  /\ JobOK(Idle, h) /\ JobOK([pc |-> "tick"], h)
           /\ \A r \in Nat \ {0} : \A m, t, z : JobOK(Started(r, m, t, z), h)
BY DEF JobOK, Started

LEMMA QuietPc ==
    /\ Idle.pc = "idle" /\ [pc |-> "tick"].pc = "tick"
    /\ \A r, m, t, z : Started(r, m, t, z).pc = "enter"
BY DEF Idle, Started

LEMMA ProduceBase ==
    ASSUME BaseInv, NEW txs \in Shapes, NEW gap \in Gaps, Produce(txs, gap)
    PROVE  BaseInv'
<1>1. RowsInv' /\ MadeInv'
  BY RowsProduce DEF BaseInv
<1>2. job' \in {Idle, [pc |-> "tick"]} /\ UNCHANGED <<prune_state, prune_journal>>
  BY DEF Produce
<1>3. JournalInv'
  <2>1. job'.pc \in {"idle", "tick"}
    BY <1>2, QuietPc
  <2> QED
    BY <1>2, <2>1, JournalQuiet DEF BaseInv
<1>4. ConfigOK(config')
  <2>1. head + 1 \in Nat
    BY HeadNat DEF BaseInv
  <2>2. ConfigOK(config)
    BY DEF BaseInv, TypeInv
  <2>3. PICK n : n = head + 1
    OBVIOUS
  <2>4. PICK d : d = [config EXCEPT !.oldest = n, !.oldest_time = HeadTime + gap]
    OBVIOUS
  <2>5. ConfigOK(d)
    BY <2>1, <2>2, <2>3, <2>4, ConfigSet
  <2>6. config' = IF config.oldest = None THEN d ELSE config
    BY <2>3, <2>4 DEF Produce
  <2> QED
    BY <2>2, <2>5, <2>6
<1>5. JobOK(job', head') /\ PruneStateOK(prune_state')
  BY <1>2, QuietJob DEF BaseInv, TypeInv
<1> QED
  BY <1>1, <1>3, <1>4, <1>5 DEF BaseInv, TypeInv

\* A step that starts or ends a message, or changes the configuration.
LEMMA QuietBase ==
    ASSUME BaseInv, UNCHANGED <<made, blob, tables, prune_state, prune_journal>>,
           JobOK(job', head), job'.pc \in {"idle", "tick", "enter"}, ConfigOK(config')
    PROVE  BaseInv'
<1>1. RowsInv' /\ MadeInv'
  BY RowsSame DEF BaseInv
<1>2. JournalInv'
  BY JournalQuiet DEF BaseInv
<1>3. head' = head
  BY DEF head
<1> QED
  BY <1>1, <1>2, <1>3 DEF BaseInv, TypeInv

LEMMA PolicyBase ==
    ASSUME BaseInv, NEW p \in Policies, set_prune_policy(p)
    PROVE  BaseInv'
<1>1. p \in Policy /\ ConfigOK(config)
  BY HistoryAssumption DEF Policy, BaseInv, TypeInv
<1>2. ConfigOK(config')
  BY <1>1, ConfigSet DEF set_prune_policy
<1>3. UNCHANGED <<made, blob, tables, prune_state, prune_journal>> /\ job' = Idle
  BY DEF set_prune_policy
<1> QED
  BY <1>2, <1>3, QuietJob, QuietPc, QuietBase

LEMMA EnabledBase ==
    ASSUME BaseInv, NEW on, set_pruning_enabled(on)
    PROVE  BaseInv'
<1>1. ConfigOK(config)
  BY DEF BaseInv, TypeInv
<1>2. ConfigOK(config')
  BY <1>1, ConfigSet DEF set_pruning_enabled
<1>3. UNCHANGED <<made, blob, tables, prune_state, prune_journal>> /\ job' = Idle
  BY DEF set_pruning_enabled
<1> QED
  BY <1>2, <1>3, QuietJob, QuietPc, QuietBase

LEMMA TickBase ==
    ASSUME BaseInv, prune_tick
    PROVE  BaseInv'
<1>1. ConfigOK(config) /\ prune_state.before \in Int
  BY DEF BaseInv, TypeInv, PruneStateOK, Number, None
<1>2. PICK d : d = Refreshed(config, prune_state.before)
  OBVIOUS
<1>3. ConfigOK(d)
  BY <1>1, <1>2, RefreshedKeeps DEF BaseInv, Keeps
<1>4. PICK c : c = IF config.oldest = None THEN d ELSE config
  OBVIOUS
<1>5. ConfigOK(c)
  BY <1>1, <1>3, <1>4
<1>6. PICK r : r = retain_count(config.policy, find_block_at_timestamp)
  OBVIOUS
<1>7. r \in Nat \ {0}
  BY <1>1, <1>6, TickRetains DEF BaseInv
<1>8. \/ config' = [c EXCEPT !.running = TRUE] /\ job' = Started(r, config.policy.max_ops, TRUE, CapTrigger)
      \/ config' = c /\ job' = Idle
  BY <1>2, <1>4, <1>6 DEF prune_tick
<1>9. ConfigOK([c EXCEPT !.running = TRUE])
  BY <1>5, ConfigSet
<1>10. /\ ConfigOK(config')
       /\ JobOK(job', head) /\ job'.pc \in {"idle", "enter"}
  <2>1. CASE config' = c /\ job' = Idle
    BY <1>5, <2>1, QuietJob, QuietPc
  <2>2. CASE /\ config' = [c EXCEPT !.running = TRUE]
             /\ job' = Started(r, config.policy.max_ops, TRUE, CapTrigger)
    <3>1. PICK x, z : job' = Started(r, x, TRUE, z)
      BY <2>2
    <3>2. JobOK(Started(r, x, TRUE, z), head)
      BY <1>7, QuietJob
    <3>3. Started(r, x, TRUE, z).pc = "enter"
      BY QuietPc
    <3> QED
      BY <1>9, <2>2, <3>1, <3>2, <3>3
  <2> QED
    BY <1>8, <2>1, <2>2
<1>11. UNCHANGED <<made, blob, tables, prune_state, prune_journal>>
  BY DEF prune_tick
<1> QED
  BY <1>10, <1>11, QuietBase

LEMMA CallBase ==
    ASSUME BaseInv, NEW m \in Manual, PruneCall(m[1], m[2])
    PROVE  BaseInv'
<1>1. ConfigOK(config)
  BY DEF BaseInv, TypeInv
<1>2. m[1] \in Nat \ {0}
  BY HistoryAssumption DEF PruneCall
<1>3. UNCHANGED <<made, blob, tables, prune_state, prune_journal>> /\ config' = config
      /\ job' = Started(m[1], m[2], FALSE, FALSE)
  BY DEF PruneCall
<1> QED
  BY <1>1, <1>2, <1>3, QuietJob, QuietPc, QuietBase

LEMMA EndBase ==
    ASSUME BaseInv, PruneEnd
    PROVE  BaseInv'
<1>1. ConfigOK(config)
  BY DEF BaseInv, TypeInv
<1>2. ConfigOK(config')
  BY <1>1, ConfigSet DEF PruneEnd
<1>3. UNCHANGED <<made, blob, tables, prune_state, prune_journal>> /\ job' = Idle
  BY DEF PruneEnd
<1> QED
  BY <1>2, <1>3, QuietJob, QuietPc, QuietBase

LEMMA StopBase ==
    ASSUME BaseInv, Stop
    PROVE  BaseInv'
<1>1. ConfigOK(config)
  BY DEF BaseInv, TypeInv
<1>2. UNCHANGED <<made, blob, tables, prune_state, prune_journal, config>> /\ job' = Idle
  BY DEF Stop
<1> QED
  BY <1>1, <1>2, QuietJob, QuietPc, QuietBase

LEMMA SameBase ==
    ASSUME BaseInv, UNCHANGED <<made, blob, tables, prune_state, prune_journal, config, job>>
    PROVE  BaseInv'
<1>1. RowsInv' /\ MadeInv'
  BY RowsSame DEF BaseInv
<1>2. JournalInv'
  <2>1. blocks' = blocks
    BY DEF tables
  <2> QED
    BY <2>1, JournalSame DEF BaseInv
<1>3. head' = head
  BY DEF head
<1> QED
  BY <1>1, <1>2, <1>3 DEF BaseInv, TypeInv

\* What a recovery leaves: no journal, a cursor behind the boundary.
LEMMA RecoverBase ==
    ASSUME BaseInv, made' = made, RecoverNothing \/ RecoverBlock
    PROVE  /\ RowsInv' /\ MadeInv' /\ ConfigOK(config')
           /\ DOMAIN prune_journal' = {}
           /\ \E b \in Number : prune_state' = Cursor(b + 1, b, None)
<1>1. /\ prune_state = Cursor(prune_state.next, prune_state.before, prune_state.journal)
      /\ prune_state.next \in Nat /\ prune_state.before \in Number
      /\ prune_state.next <= prune_state.before + 1
  BY DEF BaseInv, TypeInv, PruneStateOK, Cursor
<1>2. ConfigOK(config)
  BY DEF BaseInv, TypeInv
<1>3. CASE RecoverNothing
  <2>1. UNCHANGED <<made, blob, tables, prune_journal>> /\ config' = config
    BY <1>3 DEF RecoverNothing
  <2>2. RowsInv' /\ MadeInv'
    BY <2>1, RowsSame DEF BaseInv
  <2>3. DOMAIN prune_journal = {} /\ prune_state.journal = None
    BY <1>3, JournalBlockIs DEF RecoverNothing, BaseInv
  <2>4. prune_state' = Cursor(prune_state.before + 1, prune_state.before, None)
    <3>1. normalize(prune_state.next, prune_state.before) = prune_state.before + 1
      BY <1>1, NormalizeGives
    <3>2. PICK v : v = prune_state.before + 1
      OBVIOUS
    <3>3. prune_state' = [prune_state EXCEPT !.next = v]
      BY <1>3, <3>1, <3>2 DEF RecoverNothing
    <3>4. prune_state' = Cursor(v, prune_state.before, prune_state.journal)
      BY <1>1, <3>3 DEF Cursor
    <3> QED
      BY <2>3, <3>2, <3>4
  <2> QED
    BY <1>1, <1>2, <2>1, <2>2, <2>3, <2>4
<1>4. CASE RecoverBlock
  <2>1. PICK n : n = JournalBlock
    OBVIOUS
  <2>2. n # None /\ n \in Nat /\ DOMAIN prune_journal = {n}
    BY <1>4, <2>1, JournalBlockIs DEF RecoverBlock, BaseInv
  <2>3. PICK b : b = RecoveredBefore(n)
    OBVIOUS
  <2>4. b \in Number /\ b >= prune_state.before
    <3>1. prune_state.before \in Int /\ n \in Int
      BY <1>1, <2>2 DEF Number, None
    <3>2. PICK x : x = Max({prune_state.before, n})
      OBVIOUS
    <3>3. x \in {prune_state.before, n} /\ x >= prune_state.before
      BY <3>1, <3>2, MaxOfTwo
    <3> QED
      BY <1>1, <2>2, <2>3, <3>1, <3>2, <3>3 DEF RecoveredBefore, Number
  <2>5. /\ IF load_block(n) THEN Delete(n) ELSE UNCHANGED tables
        /\ blob' = reclaim_for_prune(blob, prune_journal[n])
        /\ prune_journal' = Drop(prune_journal, {n})
        /\ prune_state' = [next |-> normalize(prune_state.next, b), before |-> b, journal |-> None]
        /\ config' = Refreshed(config, b)
    BY <1>4, <2>1, <2>2, <2>3 DEF RecoverBlock
  <2>6. RowsInv' /\ MadeInv'
    BY <2>2, <2>5, RowsRecover DEF BaseInv
  <2>7. ConfigOK(config')
    <3>1. b \in Int
      BY <2>4 DEF Number, None
    <3> QED
      BY <1>2, <2>5, <3>1, RefreshedKeeps DEF BaseInv, Keeps
  <2>8. DOMAIN prune_journal' = {}
    BY <2>2, <2>5 DEF Drop
  <2>9. prune_state' = Cursor(b + 1, b, None)
    <3>1. prune_state.next <= b + 1
      BY <1>1, <2>4 DEF Number, None
    <3>2. normalize(prune_state.next, b) = b + 1
      BY <1>1, <2>4, <3>1, NormalizeGives
    <3> QED
      BY <2>5, <3>2 DEF Cursor
  <2> QED
    BY <2>4, <2>6, <2>7, <2>8, <2>9
<1> QED
  BY <1>3, <1>4

LEMMA CursorOK ==
    ASSUME NEW a \in Nat, NEW b \in Number, NEW c \in Number, a <= b + 1
    PROVE  PruneStateOK(Cursor(a, b, c))
BY DEF PruneStateOK, Cursor

LEMMA EntersJob ==
    ASSUME BaseInv, job.pc = "enter"
    PROVE  /\ job.retain \in Nat \ {0}
           /\ JobOK([job EXCEPT !.pc = "end"], head)
           /\ [job EXCEPT !.pc = "end"].pc = "end"
<1>1. JobOK(job, head)
  BY DEF BaseInv, TypeInv
<1>2. job # Idle /\ job # [pc |-> "tick"] /\ job.pc \notin {"loop"} \cup Working
  BY DEF Idle, Working
<1>3. job = [pc |-> job.pc, retain |-> job.retain, max_ops |-> job.max_ops, tick |-> job.tick,
             by_size |-> job.by_size] /\ job.retain \in Nat \ {0}
  BY <1>1, <1>2 DEF JobOK
<1>4. PICK j : j = [job EXCEPT !.pc = "end"]
  OBVIOUS
<1>5. j = [pc |-> "end", retain |-> job.retain, max_ops |-> job.max_ops, tick |-> job.tick,
           by_size |-> job.by_size]
  BY <1>3, <1>4
<1>6. JobOK(j, head) /\ j.pc = "end"
  BY <1>3, <1>5 DEF JobOK
<1> QED
  BY <1>3, <1>4, <1>6

LEMMA EnterBase ==
    ASSUME BaseInv, PruneEnter
    PROVE  BaseInv'
<1>1. made' = made /\ (RecoverNothing \/ RecoverBlock) /\ job.pc = "enter" /\ head' = head
  BY DEF PruneEnter, head
<1>2. RowsInv' /\ MadeInv' /\ ConfigOK(config') /\ DOMAIN prune_journal' = {}
  BY <1>1, RecoverBase
<1>3. PICK b \in Number : prune_state' = Cursor(b + 1, b, None)
  BY <1>1, RecoverBase
<1>4. b + 1 \in Nat /\ None \in Number
  BY DEF Number, None
<1>5. PruneStateOK(prune_state') /\ prune_state'.journal = None
      /\ prune_state'.next = b + 1 /\ prune_state'.before = b
  BY <1>3, <1>4, CursorOK DEF Cursor
<1>6. head \in Nat
  BY HeadNat DEF BaseInv
<1>7. CASE head <= job.retain
  <2>1. job' = [job EXCEPT !.pc = "end"]
    BY <1>7 DEF PruneEnter
  <2>2. JobOK(job', head) /\ job'.pc = "end"
    BY <1>1, <2>1, EntersJob
  <2>3. JournalInv'
    BY <1>2, <1>5, <2>2 DEF JournalInv, Working
  <2> QED
    BY <1>1, <1>2, <1>5, <2>2, <2>3 DEF BaseInv, TypeInv
<1>8. CASE ~(head <= job.retain)
  <2>1. normalize(b + 1, b) = b + 1
    BY <1>4, NormalizeGives
  <2>2. normalize(prune_state'.next, prune_state'.before) = b + 1
    BY <1>5, <2>1
  <2>3. PICK u : u = head - job.retain
    OBVIOUS
  <2>4. u \in Nat /\ u < head
    BY <1>1, <1>6, <1>8, <2>3, EntersJob
  <2>5. PICK x, t, z : job' = Loop("loop", u, 0, x, t, z, b + 1, prune_state')
    BY <1>8, <2>2, <2>3 DEF PruneEnter, Loop
  <2>6. LoopOK("loop", u, b + 1, b + 1, b, None, head)
    BY <1>4, <2>4 DEF LoopOK, Working, Number, None
  <2>7. JobOK(job', head)
    BY <1>3, <2>5, <2>6, LoopIsJob
  <2>8. job'.pc = "loop" /\ job'.ps = prune_state'
    BY <2>5 DEF Loop
  <2>9. JournalInv'
    BY <1>2, <1>5, <2>8 DEF JournalInv, Working
  <2> QED
    BY <1>1, <1>2, <1>5, <2>7, <2>9 DEF BaseInv, TypeInv
<1> QED
  BY <1>7, <1>8

\* The fields of a prune in its loop.
LEMMA LoopFields ==
    ASSUME NEW pc, NEW u, NEW o, NEW x, NEW t, NEW z, NEW n, NEW a, NEW b, NEW c
    PROVE  LET j == Loop(pc, u, o, x, t, z, n, Cursor(a, b, c))
           IN  /\ j.pc = pc /\ j.upto = u /\ j.ops = o /\ j.max_ops = x /\ j.tick = t /\ j.by_size = z
               /\ j.next = n /\ j.ps = Cursor(a, b, c)
               /\ j.ps.next = a /\ j.ps.before = b /\ j.ps.journal = c
BY DEF Loop, Cursor

LEMMA LoopJob ==
    ASSUME BaseInv, job.pc \in {"loop"} \cup Working
    PROVE  \E u, o, x, t, z, n, a, b, c :
                /\ job = Loop(job.pc, u, o, x, t, z, n, Cursor(a, b, c))
                /\ LoopOK(job.pc, u, n, a, b, c, head)
<1>1. JobOK(job, head)
  BY DEF BaseInv, TypeInv
<1> QED
  BY <1>1, JobIsLoop

LEMMA AbsentBase ==
    ASSUME BaseInv, PruneAbsent
    PROVE  BaseInv'
<1>1. job.pc = "loop" /\ job.next <= job.upto
      /\ UNCHANGED <<made, blob, tables, prune_state, prune_journal, config>>
  BY DEF PruneAbsent
<1>2. PICK u, o, x, t, z, n, a, b, c :
            job = Loop("loop", u, o, x, t, z, n, Cursor(a, b, c)) /\ LoopOK("loop", u, n, a, b, c, head)
  BY <1>1, LoopJob
<1>3. job.next = n /\ job.ps.journal = c
  BY <1>2, LoopFields
<1>4. PICK k : k = n + 1
  OBVIOUS
<1>5. job' = [job EXCEPT !.next = k, !.ps.before = n]
  BY <1>3, <1>4 DEF PruneAbsent
<1>6. job' = Loop("loop", u, o, x, t, z, k, Cursor(a, n, c))
  BY <1>2, <1>5 DEF Loop, Cursor
<1>7. LoopOK("loop", u, k, a, n, c, head)
  BY <1>2, <1>4 DEF LoopOK, Working, Number, None
<1>8. JobOK(job', head)
  BY <1>6, <1>7, LoopIsJob
<1>9. job'.pc = "loop" /\ job'.ps.journal = c
  BY <1>6, LoopFields
<1>10. JournalInv'
  BY <1>1, <1>3, <1>9 DEF BaseInv, JournalInv, Working
<1>11. RowsInv' /\ MadeInv'
  BY <1>1, RowsSame DEF BaseInv
<1>12. head' = head
  BY <1>1 DEF head
<1> QED
  BY <1>1, <1>8, <1>10, <1>11, <1>12 DEF BaseInv, TypeInv

LEMMA JournalBase ==
    ASSUME BaseInv, PruneJournal
    PROVE  BaseInv'
<1>1. /\ job.pc = "loop" /\ job.next <= job.upto /\ load_block(job.next)
      /\ prune_journal' = With(prune_journal, job.next, collect_ptrs_for_block(job.next))
      /\ made' = made /\ tables' = tables /\ prune_state' = prune_state /\ config' = config
  BY DEF PruneJournal
<1>2. PICK u, o, x, t, z, n, a, b, c :
            job = Loop("loop", u, o, x, t, z, n, Cursor(a, b, c)) /\ LoopOK("loop", u, n, a, b, c, head)
  BY <1>1, LoopJob
<1>3. job.next = n /\ job.upto = u
  BY <1>2, LoopFields
<1>4. PICK k : k = job.ops + prune_ops_needed_for_block(n)
  OBVIOUS
<1>5. job' = [job EXCEPT !.pc = "journaled", !.ps.journal = n, !.ops = k]
  BY <1>3, <1>4 DEF PruneJournal
<1>6. job' = Loop("journaled", u, k, x, t, z, n, Cursor(a, b, n))
  BY <1>2, <1>5 DEF Loop, Cursor
<1>7. LoopOK("journaled", u, n, a, b, n, head)
  BY <1>1, <1>2, <1>3 DEF LoopOK, Working, Number, None
<1>8. JobOK(job', head)
  BY <1>6, <1>7, LoopIsJob DEF Working
<1>9. job'.pc = "journaled" /\ job'.ps.journal = n /\ job'.next = n
  BY <1>6, LoopFields
<1>10. DOMAIN prune_journal' = {n}
  <2>1. DOMAIN prune_journal = {}
    BY <1>1 DEF BaseInv, JournalInv
  <2> QED
    BY <1>1, <1>3, <2>1 DEF With
<1>11. n \in DOMAIN blocks /\ blocks' = blocks
  BY <1>1, <1>3 DEF load_block, tables
<1>12. prune_state'.journal = None
  BY <1>1 DEF BaseInv, JournalInv
<1>13. JournalInv'
  BY <1>9, <1>10, <1>11, <1>12 DEF JournalInv, Working
<1>14. RowsInv' /\ MadeInv'
  BY RowsJournal DEF BaseInv
<1>15. head' = head
  BY <1>1 DEF head
<1> QED
  BY <1>1, <1>8, <1>13, <1>14, <1>15 DEF BaseInv, TypeInv

LEMMA CursorBase ==
    ASSUME BaseInv, PruneCursor
    PROVE  BaseInv'
<1>1. /\ job.pc = "journaled" /\ prune_state' = job.ps /\ job' = [job EXCEPT !.pc = "cursor"]
      /\ UNCHANGED <<made, blob, tables, prune_journal, config>>
  BY DEF PruneCursor
<1>2. PICK u, o, x, t, z, n, a, b, c :
            job = Loop("journaled", u, o, x, t, z, n, Cursor(a, b, c)) /\ LoopOK("journaled", u, n, a, b, c, head)
  BY <1>1, LoopJob DEF Working
<1>3. job' = Loop("cursor", u, o, x, t, z, n, Cursor(a, b, c))
  BY <1>1, <1>2 DEF Loop
<1>4. LoopOK("cursor", u, n, a, b, c, head)
  BY <1>2 DEF LoopOK, Working
<1>5. JobOK(job', head)
  BY <1>3, <1>4, LoopIsJob DEF Working
<1>6. /\ job'.pc = "cursor" /\ job'.ps.journal = c /\ job'.next = n
      /\ job.ps.journal = c /\ job.next = n /\ job.ps = Cursor(a, b, c)
  BY <1>2, <1>3, LoopFields
<1>7. PruneStateOK(prune_state') /\ prune_state'.journal = c
  <2>1. PruneStateOK(Cursor(a, b, c))
    BY <1>2, CursorOK DEF LoopOK
  <2> QED
    BY <1>1, <1>6, <2>1
<1>8. DOMAIN prune_journal = {n} /\ c = n /\ n \in DOMAIN blocks
  BY <1>1, <1>6 DEF BaseInv, JournalInv, Working
<1>9. DOMAIN prune_journal' = {n} /\ n \in DOMAIN blocks'
  BY <1>1, <1>8 DEF tables
<1>10. JournalInv'
  BY <1>6, <1>7, <1>8, <1>9 DEF JournalInv, Working
<1>11. RowsInv' /\ MadeInv'
  BY <1>1, RowsSame DEF BaseInv
<1>12. head' = head
  BY <1>1 DEF head
<1> QED
  BY <1>1, <1>5, <1>7, <1>10, <1>11, <1>12 DEF BaseInv, TypeInv

LEMMA DeleteBase ==
    ASSUME BaseInv, PruneDelete
    PROVE  BaseInv'
<1>1. /\ job.pc = "cursor" /\ Delete(job.next) /\ job' = [job EXCEPT !.pc = "deleted", !.ps.before = job.next]
      /\ UNCHANGED <<made, blob, prune_state, prune_journal, config>>
  BY DEF PruneDelete
<1>2. PICK u, o, x, t, z, n, a, b, c :
            job = Loop("cursor", u, o, x, t, z, n, Cursor(a, b, c)) /\ LoopOK("cursor", u, n, a, b, c, head)
  BY <1>1, LoopJob DEF Working
<1>3. job.next = n /\ job.ps.journal = c
  BY <1>2, LoopFields
<1>4. job' = [job EXCEPT !.pc = "deleted", !.ps.before = n]
  BY <1>1, <1>3
<1>5. job' = Loop("deleted", u, o, x, t, z, n, Cursor(a, n, c))
  BY <1>2, <1>4 DEF Loop, Cursor
<1>6. LoopOK("deleted", u, n, a, n, c, head)
  BY <1>2 DEF LoopOK, Working, Number, None
<1>7. JobOK(job', head)
  BY <1>5, <1>6, LoopIsJob DEF Working
<1>8. job'.pc = "deleted" /\ job'.ps.journal = c /\ job'.next = n
  BY <1>5, LoopFields
<1>9. DOMAIN prune_journal = {n} /\ c = n
  BY <1>1, <1>3 DEF BaseInv, JournalInv, Working
<1>10. n \notin DOMAIN blocks'
  BY <1>1, <1>3 DEF Delete, Drop
<1>11. JournalInv'
  <2>1. prune_state'.journal # None => DOMAIN prune_journal' = {prune_state'.journal}
    BY <1>1 DEF BaseInv, JournalInv
  <2> QED
    BY <1>1, <1>8, <1>9, <1>10, <2>1 DEF JournalInv, Working
<1>12. RowsInv' /\ MadeInv'
  BY <1>1, <1>3, <1>9, RowsDelete DEF BaseInv
<1>13. head' = head
  BY <1>1 DEF head
<1> QED
  BY <1>1, <1>7, <1>11, <1>12, <1>13 DEF BaseInv, TypeInv

LEMMA ReclaimBase ==
    ASSUME BaseInv, PruneReclaim
    PROVE  BaseInv'
<1>1. /\ job.pc = "deleted" /\ blob' = reclaim_for_prune(blob, prune_journal[job.next])
      /\ prune_journal' = Drop(prune_journal, {job.next})
      /\ UNCHANGED <<made, tables, config>>
  BY DEF PruneReclaim
<1>2. PICK u, o, x, t, z, n, a, b, c :
            job = Loop("deleted", u, o, x, t, z, n, Cursor(a, b, c)) /\ LoopOK("deleted", u, n, a, b, c, head)
  BY <1>1, LoopJob DEF Working
<1>3. job.next = n /\ job.ps = Cursor(a, b, c)
  BY <1>2, LoopFields
<1>4. PICK ps : ps = Cursor(a, b, None)
  OBVIOUS
<1>5. [job.ps EXCEPT !.journal = None] = ps
  BY <1>3, <1>4 DEF Cursor
<1>6. PICK k : k = n + 1
  OBVIOUS
<1>7. prune_state' = ps /\ job' = [job EXCEPT !.pc = "loop", !.next = k, !.ps = ps]
  BY <1>3, <1>5, <1>6 DEF PruneReclaim
<1>8. job' = Loop("loop", u, o, x, t, z, k, ps)
  BY <1>2, <1>7 DEF Loop
<1>9. LoopOK("loop", u, k, a, b, None, head)
  BY <1>2, <1>6 DEF LoopOK, Working, Number, None
<1>10. JobOK(job', head)
  BY <1>4, <1>8, <1>9, LoopIsJob
<1>11. job'.pc = "loop" /\ job'.ps.journal = None
  BY <1>4, <1>8, LoopFields
<1>12. PruneStateOK(prune_state') /\ prune_state'.journal = None
  <2>1. PruneStateOK(Cursor(a, b, None))
    BY <1>9, CursorOK DEF LoopOK
  <2> QED
    BY <1>4, <1>7, <2>1 DEF Cursor
<1>13. DOMAIN prune_journal = {n} /\ n \notin DOMAIN blocks
  BY <1>1, <1>3 DEF BaseInv, JournalInv, Working
<1>14. DOMAIN prune_journal' = {}
  BY <1>1, <1>3, <1>13 DEF Drop
<1>15. JournalInv'
  BY <1>11, <1>12, <1>14 DEF JournalInv, Working
<1>16. RowsInv' /\ MadeInv'
  BY <1>1, <1>3, <1>13, RowsFree DEF BaseInv
<1>17. head' = head
  BY <1>1 DEF head
<1> QED
  BY <1>1, <1>10, <1>12, <1>15, <1>16, <1>17 DEF BaseInv, TypeInv

LEMMA FinishBase ==
    ASSUME BaseInv, PruneFinish
    PROVE  BaseInv'
<1>1. /\ job.pc = "loop" /\ prune_state' = [job.ps EXCEPT !.next = job.next] /\ job' = Idle
      /\ UNCHANGED <<made, blob, tables, prune_journal>>
  BY DEF PruneFinish
<1>2. PICK u, o, x, t, z, n, a, b, c :
            job = Loop("loop", u, o, x, t, z, n, Cursor(a, b, c)) /\ LoopOK("loop", u, n, a, b, c, head)
  BY <1>1, LoopJob
<1>3. job.next = n /\ job.ps = Cursor(a, b, c) /\ job.ps.journal = c
  BY <1>2, LoopFields
<1>4. [job.ps EXCEPT !.next = job.next] = Cursor(n, b, c)
  BY <1>3 DEF Cursor
<1>5. prune_state' = Cursor(n, b, c)
  BY <1>1, <1>4
<1>6. PruneStateOK(prune_state') /\ prune_state'.journal = c
  <2>1. PruneStateOK(Cursor(n, b, c))
    BY <1>2, CursorOK DEF LoopOK, Number, None
  <2> QED
    BY <1>5, <2>1 DEF Cursor
<1>7. ConfigOK(config')
  <2>1. ConfigOK(config)
    BY DEF BaseInv, TypeInv
  <2>2. b \in Int
    BY <1>2 DEF LoopOK, Number, None
  <2>3. PICK d : d = Refreshed(config, b)
    OBVIOUS
  <2>4. ConfigOK(d)
    BY <2>1, <2>2, <2>3, RefreshedKeeps DEF BaseInv, Keeps
  <2>5. Cursor(n, b, c).before = b
    BY DEF Cursor
  <2>6. PICK v : config' = [d EXCEPT !.running = v]
    BY <1>4, <2>3, <2>5 DEF PruneFinish
  <2> QED
    BY <2>4, <2>6, ConfigSet
<1>8. c = None /\ DOMAIN prune_journal' = {}
  BY <1>1, <1>3 DEF BaseInv, JournalInv
<1>9. JobOK(job', head) /\ job'.pc = "idle"
  BY <1>1, QuietJob, QuietPc
<1>10. JournalInv'
  BY <1>6, <1>8, <1>9 DEF JournalInv, Working
<1>11. RowsInv' /\ MadeInv'
  BY <1>1, RowsSame DEF BaseInv
<1>12. head' = head
  BY <1>1 DEF head
<1> QED
  BY <1>1, <1>6, <1>7, <1>9, <1>10, <1>11, <1>12 DEF BaseInv, TypeInv

LEMMA NextBase ==
    ASSUME BaseInv, [Next]_vars
    PROVE  BaseInv'
<1>1. CASE \E txs \in Shapes, gap \in Gaps : Produce(txs, gap)
  BY <1>1, ProduceBase
<1>2. CASE \E p \in Policies : set_prune_policy(p)
  BY <1>2, PolicyBase
<1>3. CASE \E on \in BOOLEAN : set_pruning_enabled(on)
  BY <1>3, EnabledBase
<1>4. CASE prune_tick
  BY <1>4, TickBase
<1>5. CASE \E m \in Manual : PruneCall(m[1], m[2])
  BY <1>5, CallBase
<1>6. CASE PruneEnter
  BY <1>6, EnterBase
<1>7. CASE PruneAbsent
  BY <1>7, AbsentBase
<1>8. CASE PruneJournal
  BY <1>8, JournalBase
<1>9. CASE PruneCursor
  BY <1>9, CursorBase
<1>10. CASE PruneDelete
  BY <1>10, DeleteBase
<1>11. CASE PruneReclaim
  BY <1>11, ReclaimBase
<1>12. CASE PruneFinish
  BY <1>12, FinishBase
<1>13. CASE PruneEnd
  BY <1>13, EndBase
<1>14. CASE Stop
  BY <1>14, StopBase
<1>15. CASE Poll \/ Page \/ UNCHANGED vars
  <2>1. UNCHANGED <<made, blob, tables, prune_state, prune_journal, config, job>>
    BY <1>15 DEF Poll, Page, vars
  <2> QED
    BY <2>1, SameBase
<1> QED
  BY <1>1, <1>2, <1>3, <1>4, <1>5, <1>6, <1>7, <1>8, <1>9, <1>10, <1>11, <1>12, <1>13, <1>14, <1>15
     DEF Next

-----------------------------------------------------------------------------
(* The blobs in use are the rows.                                          *)

LEMMA KeysCount ==
    ASSUME NEW f, NEW K, K = {f[x].key : x \in DOMAIN f}, IsFiniteSet(K),
           \A x, y \in DOMAIN f : f[x].key = f[y].key => x = y
    PROVE  Cardinality(K) = Cardinality(DOMAIN f)
<1>1. PICK S : S = DOMAIN f
  OBVIOUS
<1>2. PICK g : g = [x \in S |-> f[x].key]
  OBVIOUS
<1>3. g \in Injection(S, K)
  BY <1>1, <1>2 DEF Injection, IsInjective
<1>4. g \in Surjection(S, K)
  BY <1>1, <1>2 DEF Surjection
<1>5. Cardinality(S) = Cardinality(K)
  BY <1>3, <1>4, FS_Injection
<1> QED
  BY <1>1, <1>5

LEMMA DisjointSum ==
    ASSUME NEW S, NEW T, IsFiniteSet(S), IsFiniteSet(T), \A x \in S : x \notin T
    PROVE  IsFiniteSet(S \cup T) /\ Cardinality(S \cup T) = Cardinality(S) + Cardinality(T)
<1>1. S \cap T = {}
  OBVIOUS
<1>2. Cardinality(S \cap T) = 0
  BY <1>1, FS_EmptySet
<1>3. /\ IsFiniteSet(S \cup T)
      /\ Cardinality(S \cup T) = Cardinality(S) + Cardinality(T) - Cardinality(S \cap T)
  BY FS_Union
<1>4. Cardinality(S) \in Nat /\ Cardinality(T) \in Nat
  BY FS_CardinalityType
<1> QED
  BY <1>2, <1>3, <1>4

\* Keys of two rows of different tables, or of two rows of one, differ.
Kind(f, kind, rows) == \A x \in DOMAIN f : <<kind, x>> \in DOMAIN rows /\ f[x] = rows[<<kind, x>>]
OfKind(K, kind, rows) == \A k \in K : \E r \in DOMAIN rows : r[1] = kind /\ rows[r].key = k

LEMMA KindKeys ==
    ASSUME NEW f, NEW kind, NEW rows, Kind(f, kind, rows), NEW K, K = {f[x].key : x \in DOMAIN f}
    PROVE  OfKind(K, kind, rows)
<1>1. ASSUME NEW k \in K PROVE \E r \in DOMAIN rows : r[1] = kind /\ rows[r].key = k
  <2>1. PICK x \in DOMAIN f : k = f[x].key
    OBVIOUS
  <2>2. PICK r : r = <<kind, x>>
    OBVIOUS
  <2>3. r \in DOMAIN rows /\ f[x] = rows[r] /\ r[1] = kind
    BY <2>2 DEF Kind
  <2> QED
    BY <2>1, <2>3
<1> QED
  BY <1>1 DEF OfKind

LEMMA KindsApart ==
    ASSUME NEW rows, \A r, s \in DOMAIN rows : rows[r].key = rows[s].key => r = s,
           NEW K, NEW kind, OfKind(K, kind, rows), NEW L, NEW other, OfKind(L, other, rows), kind # other
    PROVE  \A k \in K : k \notin L
BY DEF OfKind

LEMMA UsedAreRows ==
    ASSUME BaseInv, Settled
    PROVE  /\ UsedKeys(blob) = {p.key : p \in Pointers}
           /\ Cardinality(UsedKeys(blob)) = Rows
<1>1. PICK rows : StoreOK(blob, rows) /\ TablesFollow(rows)
  BY DEF BaseInv, RowsInv
<1>2. Follows(rows, made, blocks, receipts, tx_index, internal_traces, prune_journal)
  BY <1>1 DEF TablesFollow
<1>3. DOMAIN prune_journal = {}
  BY DEF Settled, Empty
<1>4. PICK KB : KB = {blocks[x].key : x \in DOMAIN blocks}
  OBVIOUS
<1>5. PICK KR : KR = {receipts[x].key : x \in DOMAIN receipts}
  OBVIOUS
<1>6. PICK KI : KI = {tx_index[x].key : x \in DOMAIN tx_index}
  OBVIOUS
<1>7. PICK KT : KT = {internal_traces[x].key : x \in DOMAIN internal_traces}
  OBVIOUS
<1>8. /\ \A n \in DOMAIN blocks : <<"block", <<n, 0>>>> \in DOMAIN rows
      /\ \A t \in TxsOf(made, DOMAIN blocks) :
                <<"receipt", t>> \in DOMAIN rows /\ <<"index", t>> \in DOMAIN rows
      /\ \A t \in TracedOf(made, DOMAIN blocks) : <<"traces", t>> \in DOMAIN rows
  BY <1>2, RowsThere
<1>9. /\ DOMAIN receipts = TxsOf(made, DOMAIN blocks)
      /\ DOMAIN tx_index = TxsOf(made, DOMAIN blocks)
      /\ DOMAIN internal_traces = TracedOf(made, DOMAIN blocks)
  BY <1>2 DEF Follows, Holds
<1>10. /\ \A n \in DOMAIN blocks :
            <<"block", <<n, 0>>>> \in DOMAIN rows /\ blocks[n] = rows[<<"block", <<n, 0>>>>]
       /\ Kind(receipts, "receipt", rows) /\ Kind(tx_index, "index", rows)
       /\ Kind(internal_traces, "traces", rows)
  BY <1>2, <1>8, <1>9 DEF Follows, Holds, Kind
<1>11. \A r, s \in DOMAIN rows : rows[r].key = rows[s].key => r = s
  BY <1>1, RowsApart
<1>12. UsedKeys(blob) = {rows[r].key : r \in DOMAIN rows}
  <2>1. \A r \in DOMAIN rows : rows[r].key \in UsedKeys(blob)
    BY <1>1 DEF StoreOK, RowOK
  <2>2. \A k \in UsedKeys(blob) : \E r \in DOMAIN rows : rows[r].key = k
    BY <1>1 DEF StoreOK
  <2> QED
    BY <2>1, <2>2
<1>13. /\ OfKind(KB, "block", rows) /\ OfKind(KR, "receipt", rows)
       /\ OfKind(KI, "index", rows) /\ OfKind(KT, "traces", rows)
  <2>1. ASSUME NEW k \in KB PROVE \E r \in DOMAIN rows : r[1] = "block" /\ rows[r].key = k
    <3>1. PICK n \in DOMAIN blocks : k = blocks[n].key
      BY <1>4
    <3>2. PICK r : r = <<"block", <<n, 0>>>>
      OBVIOUS
    <3>3. r \in DOMAIN rows /\ blocks[n] = rows[r] /\ r[1] = "block"
      BY <1>10, <3>2
    <3> QED
      BY <3>1, <3>3
  <2>2. OfKind(KB, "block", rows)
    BY <2>1 DEF OfKind
  <2> QED
    BY <1>5, <1>6, <1>7, <1>10, <2>2, KindKeys
<1>14. ASSUME NEW r \in DOMAIN rows PROVE rows[r].key \in KB \cup KR \cup KI \cup KT
  <2>1. PICK n \in DOMAIN blocks : r \in RowsOf(made, n)
    BY <1>2, <1>3 DEF Follows
  <2>2. \A t \in TxsIn(made, n) : t \in TxsOf(made, DOMAIN blocks)
    BY DEF TxsOf
  <2>3. \A t \in TracedIn(made, n) : t \in TracedOf(made, DOMAIN blocks)
    BY DEF TracedOf
  <2>4. CASE r = <<"block", <<n, 0>>>>
    BY <1>4, <1>10, <2>4
  <2>5. CASE \E t \in TxsIn(made, n) : r = <<"index", t>>
    BY <1>6, <1>9, <1>10, <2>2, <2>5 DEF Kind
  <2>6. CASE \E t \in TxsIn(made, n) : r = <<"receipt", t>>
    BY <1>5, <1>9, <1>10, <2>2, <2>6 DEF Kind
  <2>7. CASE \E t \in TracedIn(made, n) : r = <<"traces", t>>
    BY <1>7, <1>9, <1>10, <2>3, <2>7 DEF Kind
  <2> QED
    BY <2>1, <2>4, <2>5, <2>6, <2>7 DEF RowsOf
<1>15. UsedKeys(blob) = KB \cup KR \cup KI \cup KT
  <2>1. \A k \in KB \cup KR \cup KI \cup KT : \E r \in DOMAIN rows : rows[r].key = k
    BY <1>13 DEF OfKind
  <2> QED
    BY <1>12, <1>14, <2>1
<1>16. UsedKeys(blob) = {p.key : p \in Pointers}
  BY <1>4, <1>5, <1>6, <1>7, <1>15 DEF Pointers, Range
<1>17. /\ IsFiniteSet(KB) /\ IsFiniteSet(KR) /\ IsFiniteSet(KI) /\ IsFiniteSet(KT)
  <2>1. IsFiniteSet(DOMAIN blob.alloc) /\ UsedKeys(blob) \subseteq DOMAIN blob.alloc
    BY <1>1 DEF StoreOK, UsedKeys
  <2>2. KB \subseteq DOMAIN blob.alloc /\ KR \subseteq DOMAIN blob.alloc
        /\ KI \subseteq DOMAIN blob.alloc /\ KT \subseteq DOMAIN blob.alloc
    BY <1>15, <2>1
  <2> QED
    BY <2>1, <2>2, FS_Subset
<1>18. Cardinality(KB) = Cardinality(DOMAIN blocks)
  <2>1. ASSUME NEW x \in DOMAIN blocks, NEW y \in DOMAIN blocks, blocks[x].key = blocks[y].key
        PROVE  x = y
    <3>1. <<"block", <<x, 0>>>> = <<"block", <<y, 0>>>>
      BY <1>10, <1>11, <2>1
    <3> QED
      BY <3>1
  <2> QED
    BY <1>4, <1>17, <2>1, KeysCount
<1>19. ASSUME NEW f, NEW kind, Kind(f, kind, rows), NEW K, K = {f[x].key : x \in DOMAIN f}, IsFiniteSet(K)
       PROVE  Cardinality(K) = Cardinality(DOMAIN f)
  <2>1. ASSUME NEW x \in DOMAIN f, NEW y \in DOMAIN f, f[x].key = f[y].key
        PROVE  x = y
    <3>1. <<kind, x>> = <<kind, y>>
      BY <1>11, <1>19, <2>1 DEF Kind
    <3> QED
      BY <3>1
  <2> QED
    BY <1>19, <2>1, KeysCount
<1>20. /\ Cardinality(KR) = Cardinality(DOMAIN receipts)
       /\ Cardinality(KI) = Cardinality(DOMAIN tx_index)
       /\ Cardinality(KT) = Cardinality(DOMAIN internal_traces)
  BY <1>5, <1>6, <1>7, <1>10, <1>17, <1>19
<1>21. /\ \A k \in KB : k \notin KR /\ k \notin KI /\ k \notin KT
       /\ \A k \in KR : k \notin KI /\ k \notin KT
       /\ \A k \in KI : k \notin KT
  <2>1. \A k \in KB : k \notin KR
    BY <1>11, <1>13, KindsApart
  <2>2. \A k \in KB : k \notin KI
    BY <1>11, <1>13, KindsApart
  <2>3. \A k \in KB : k \notin KT
    BY <1>11, <1>13, KindsApart
  <2>4. \A k \in KR : k \notin KI
    BY <1>11, <1>13, KindsApart
  <2>5. \A k \in KR : k \notin KT
    BY <1>11, <1>13, KindsApart
  <2>6. \A k \in KI : k \notin KT
    BY <1>11, <1>13, KindsApart
  <2> QED
    BY <2>1, <2>2, <2>3, <2>4, <2>5, <2>6
<1>22. Cardinality(KB \cup KR \cup KI \cup KT)
            = Cardinality(KB) + Cardinality(KR) + Cardinality(KI) + Cardinality(KT)
  <2>1. PICK A : A = KB \cup KR
    OBVIOUS
  <2>2. IsFiniteSet(A) /\ Cardinality(A) = Cardinality(KB) + Cardinality(KR)
    BY <1>17, <1>21, <2>1, DisjointSum
  <2>3. PICK C : C = A \cup KI
    OBVIOUS
  <2>4. IsFiniteSet(C) /\ Cardinality(C) = Cardinality(A) + Cardinality(KI)
    BY <1>17, <1>21, <2>1, <2>2, <2>3, DisjointSum
  <2>5. Cardinality(C \cup KT) = Cardinality(C) + Cardinality(KT)
    BY <1>17, <1>21, <2>1, <2>3, <2>4, DisjointSum
  <2>6. KB \cup KR \cup KI \cup KT = C \cup KT
    BY <2>1, <2>3
  <2> QED
    BY <2>2, <2>4, <2>5, <2>6
<1> QED
  BY <1>15, <1>16, <1>18, <1>20, <1>22 DEF Rows

LEMMA BaseBlobs ==
    ASSUME BaseInv
    PROVE  BlobsFollowRows
<1>1. Readable
  BY TablesRead DEF BaseInv
<1>2. PICK rows : StoreOK(blob, rows) /\ TablesFollow(rows)
  BY DEF BaseInv, RowsInv
<1>3. Follows(rows, made, blocks, receipts, tx_index, internal_traces, prune_journal)
  BY <1>2 DEF TablesFollow
<1>4. ASSUME NEW n \in DOMAIN prune_journal, NEW p \in prune_journal[n]
      PROVE  blob.alloc[p.key].gen = p.gen
  <2>1. prune_journal[n] = {rows[r] : r \in RowsOf(made, n)} /\ RowsOf(made, n) \subseteq DOMAIN rows
    BY <1>3 DEF Follows
  <2>2. PICK r \in DOMAIN rows : p = rows[r]
    BY <2>1
  <2>3. RowOK(blob, rows, r)
    BY <1>2 DEF StoreOK
  <2> QED
    BY <2>2, <2>3 DEF RowOK
<1>5. PointersReadTheirRows
  BY <1>1, <1>4 DEF PointersReadTheirRows, Readable
<1>6. blob.totals = [used |-> Size(UsedKeys(blob)), free |-> Size(DOMAIN blob.alloc \ UsedKeys(blob))]
  BY <1>2 DEF StoreOK
<1>7. UsedBlobsAreRows
  BY <1>6, UsedAreRows DEF UsedBlobsAreRows, UsedKeys
<1> QED
  BY <1>5, <1>7 DEF BlobsFollowRows

(* Wherever a prune stops - between any two of its writes - and whatever   *)
(* is freed, reused and recovered after it: every pointer in a table reads *)
(* its own row, a journaled pointer still names the generation it was      *)
(* written for, and between messages the blobs in use are those of the     *)
(* rows, one for each, with the totals to match (BlobStore, prune_blocks,  *)
(* recover_prune_journal).                                                 *)
THEOREM BlobsAlwaysFollowRows == Spec => []BlobsFollowRows
<1>1. Init => BaseInv
  BY InitBase
<1>2. BaseInv /\ [Next]_vars => BaseInv'
  BY NextBase
<1>3. BaseInv => BlobsFollowRows
  BY BaseBlobs
<1> QED
  BY <1>1, <1>2, <1>3, PTL DEF Spec

-----------------------------------------------------------------------------
(* The boundary of the pruned blocks.  recover_prune_journal moves it only *)
(* past a block that is still there, so a stop after the deletion of a     *)
(* block ("deleted") may leave readers without the boundary even when the  *)
(* journal is worked off; a stop between two blocks ("loop") leaves a      *)
(* block that is gone named as the oldest.  From here on a prune does not  *)
(* stop at these two points.                                               *)

StopsRecoverable == "deleted" \notin StopPoints /\ "loop" \notin StopPoints

LEMMA LocsProduce ==
    ASSUME BaseInv, LocsInv, NEW txs \in Shapes, NEW gap \in Gaps, Produce(txs, gap)
    PROVE  LocsInv'
<1>1. PICK n : n = Len(made) + 1
  OBVIOUS
<1>2. PICK time : time = HeadTime + gap
  OBVIOUS
<1>3. made \in Seq(BlockData) /\ txs \in Seq(TxData) /\ time \in Nat
  <2>1. HeadTime \in Nat
    BY HeadNat DEF BaseInv
  <2>2. gap \in Nat /\ txs \in Seq(TxData)
    BY HistoryAssumption DEF TxData
  <2> QED
    BY <1>2, <2>1, <2>2 DEF BaseInv, MadeInv
<1>4. made' = Append(made, [txs |-> txs, time |-> time]) /\ DOMAIN blocks' = DOMAIN blocks \cup {n}
  BY <1>1, <1>2 DEF Produce, head, With
<1>5. OneMore(made, made', n, txs)
  BY <1>1, <1>3, <1>4, MadeMore
<1>6. PICK B : B = DOMAIN blocks
  OBVIOUS
<1>7. TxsGrow(made, made', B, n)
  <2>1. \A k \in B : k \in 1..Len(made)
    BY <1>6, LoadsWhatIsThere DEF BaseInv, head
  <2> QED
    BY <1>5, <2>1, TxsOfMore
<1>8. TxsIn(made', n) = {<<n, i>> : i \in 1..Len(txs)}
  BY <1>5 DEF OneMore
<1>9. tx_locs' = [t \in DOMAIN tx_locs \cup TxsIn(made', n) |-> t[1]]
  BY <1>1, <1>8 DEF Produce, head
<1>10. DOMAIN tx_locs' = TxsOf(made', DOMAIN blocks')
  BY <1>4, <1>6, <1>7, <1>9 DEF LocsInv, TxsGrow
<1> QED
  BY <1>9, <1>10 DEF LocsInv

LEMMA LocsDelete ==
    ASSUME LocsInv, NEW n, Delete(n), made' = made
    PROVE  LocsInv'
<1>1. TxIds(n) = TxsIn(made, n)
  BY DEF TxIds, TxsIn
<1>2. tx_locs' = Drop(tx_locs, TxsIn(made, n)) /\ DOMAIN blocks' = DOMAIN blocks \ {n}
  BY <1>1 DEF Delete, Drop
<1>3. PICK B : B = DOMAIN blocks
  OBVIOUS
<1>4. TxsOf(made, B \ {n}) = TxsOf(made, B) \ TxsIn(made, n)
  BY TxsOfLess
<1>5. DOMAIN tx_locs' = TxsOf(made', DOMAIN blocks')
  BY <1>2, <1>3, <1>4 DEF LocsInv, Drop
<1>6. \A t \in DOMAIN tx_locs' : tx_locs'[t] = t[1]
  BY <1>2 DEF LocsInv, Drop
<1> QED
  BY <1>5, <1>6 DEF LocsInv

LEMMA LocsSame ==
    ASSUME LocsInv, UNCHANGED <<made, blocks, tx_locs>>
    PROVE  LocsInv'
BY DEF LocsInv

LEMMA NextLocs ==
    ASSUME BaseInv, LocsInv, [Next]_vars
    PROVE  LocsInv'
<1>1. CASE \E txs \in Shapes, gap \in Gaps : Produce(txs, gap)
  BY <1>1, LocsProduce
<1>2. CASE PruneDelete
  BY <1>2, LocsDelete DEF PruneDelete
<1>3. CASE PruneEnter
  <2>1. made' = made
    BY <1>3 DEF PruneEnter
  <2>2. (\E n : Delete(n)) \/ UNCHANGED tables
    BY <1>3 DEF PruneEnter, RecoverNothing, RecoverBlock, tables
  <2> QED
    BY <2>1, <2>2, LocsDelete, LocsSame DEF tables
<1>4. CASE UNCHANGED <<made, tables>>
  <2>1. UNCHANGED <<made, blocks, tx_locs>>
    BY <1>4 DEF tables
  <2> QED
    BY <2>1, LocsSame
<1>5. CASE (\E p \in Policies : set_prune_policy(p)) \/ (\E on \in BOOLEAN : set_pruning_enabled(on))
           \/ prune_tick \/ (\E m \in Manual : PruneCall(m[1], m[2])) \/ Stop \/ PruneEnd
  <2>1. UNCHANGED <<made, tables>>
    BY <1>5 DEF set_prune_policy, set_pruning_enabled, prune_tick, PruneCall, Stop, PruneEnd
  <2> QED
    BY <1>4, <2>1
<1>6. CASE PruneAbsent \/ PruneJournal \/ PruneCursor \/ PruneReclaim \/ PruneFinish
           \/ Poll \/ Page \/ UNCHANGED vars
  <2>1. UNCHANGED <<made, tables>>
    BY <1>6 DEF PruneAbsent, PruneJournal, PruneCursor, PruneReclaim, PruneFinish, Poll, Page, vars
  <2> QED
    BY <1>4, <2>1
<1> QED
  BY <1>1, <1>2, <1>3, <1>5, <1>6 DEF Next

-----------------------------------------------------------------------------

\* The boundary, where a step leaves the blocks and the cursor alone.
LEMMA BoundaryQuiet ==
    ASSUME BoundaryInv, UNCHANGED <<made, blocks, prune_state, prune_journal>>,
           job.pc # "deleted", job'.pc \notin {"loop"} \cup Working
    PROVE  BoundaryInv'
<1>1. head' = head
  BY DEF head
<1>2. \A n : Above(n)' = Above(n)
  BY <1>1 DEF Above
<1>3. job'.pc # "deleted" /\ job'.pc # "loop"
  BY DEF Working
<1>4. DOMAIN blocks' = DOMAIN blocks /\ prune_state'.before = prune_state.before /\ DOMAIN prune_journal' = DOMAIN prune_journal
  OBVIOUS
<1> QED
  BY <1>1, <1>2, <1>3, <1>4 DEF BoundaryInv, Above

LEMMA BoundaryProduce ==
    ASSUME BaseInv, BoundaryInv, NEW txs \in Shapes, NEW gap \in Gaps, Produce(txs, gap)
    PROVE  BoundaryInv'
<1>1. PICK h : h = head
  OBVIOUS
<1>2. h \in Nat /\ head' = h + 1
  <2>1. head' = Len(made')
    BY DEF head
  <2>2. PICK e : made' = Append(made, e)
    BY DEF Produce
  <2> QED
    BY <1>1, <2>1, <2>2, HeadNat DEF BaseInv, MadeInv, head
<1>3. /\ DOMAIN blocks' = DOMAIN blocks \cup {h + 1} /\ prune_state' = prune_state
      /\ prune_journal' = prune_journal /\ job = Idle /\ job' \in {Idle, [pc |-> "tick"]}
  BY <1>1 DEF Produce, With
<1>4. job.pc = "idle" /\ job'.pc \in {"idle", "tick"}
  BY <1>3, QuietPc
<1>5. PICK b : b = prune_state.before
  OBVIOUS
<1>6. b \in Int /\ (b < h \/ b <= 0)
  BY <1>1, <1>5 DEF BoundaryInv, BaseInv, TypeInv, PruneStateOK, Number, None
<1>7. ASSUME NEW n \in Int, DOMAIN blocks = Above(n), n < h + 1 PROVE DOMAIN blocks' = Above(n)'
  <2>1. Above(n) = {m \in 1..h : m > n} /\ Above(n)' = {m \in 1..(h + 1) : m > n}
    BY <1>1, <1>2 DEF Above
  <2> QED
    BY <1>2, <1>3, <1>7, <2>1
<1>8. DOMAIN blocks' = Above(b)'
  <2>1. DOMAIN blocks = Above(b)
    BY <1>4, <1>5 DEF BoundaryInv
  <2> QED
    BY <1>2, <1>6, <1>7, <2>1
<1>9. ASSUME NEW n \in DOMAIN prune_journal PROVE n < h + 1 /\ DOMAIN blocks' = Above(n - 1)'
  <2>1. n \in 1..h /\ n < h /\ DOMAIN blocks = Above(n - 1)
    BY <1>1, <1>4, LoadsWhatIsThere DEF BoundaryInv, BaseInv
  <2>2. PICK k : k = n - 1
    OBVIOUS
  <2>3. k \in Int /\ k < h + 1 /\ DOMAIN blocks = Above(k)
    BY <1>2, <2>1, <2>2
  <2>4. DOMAIN blocks' = Above(k)'
    BY <1>7, <2>3
  <2> QED
    BY <1>2, <2>1, <2>2, <2>4 DEF Above
<1>10. b < head' \/ b <= 0
  BY <1>2, <1>6
<1> QED
  BY <1>2, <1>3, <1>4, <1>5, <1>8, <1>9, <1>10 DEF BoundaryInv, Working

\* The journaled block that is still there is the first one above the boundary.
LEMMA JournaledIsLowest ==
    ASSUME BaseInv, BoundaryInv, job.pc # "deleted", NEW n \in DOMAIN prune_journal
    PROVE  /\ n \in 1..head /\ n < head /\ n \in DOMAIN blocks /\ prune_state.before < n
           /\ DOMAIN blocks = Above(n - 1) /\ DOMAIN blocks \ {n} = Above(n)
<1>1. n \in 1..head /\ head \in Nat
  BY LoadsWhatIsThere, HeadNat DEF BaseInv
<1>2. n < head /\ DOMAIN blocks = Above(n - 1) /\ DOMAIN blocks = Above(prune_state.before)
  BY DEF BoundaryInv
<1>3. PICK b : b = prune_state.before
  OBVIOUS
<1>4. b \in Int
  BY <1>3 DEF BaseInv, TypeInv, PruneStateOK, Number, None
<1>5. n \in DOMAIN blocks
  BY <1>1, <1>2 DEF Above
<1>6. b < n
  <2>1. n \in Above(b)
    BY <1>2, <1>3, <1>5
  <2> QED
    BY <1>1, <1>4, <2>1 DEF Above
<1>7. DOMAIN blocks \ {n} = Above(n)
  <2>1. \A m \in 1..head : m > n - 1 /\ m # n <=> m > n
    BY <1>1
  <2> QED
    BY <1>2, <2>1 DEF Above
<1> QED
  BY <1>1, <1>2, <1>3, <1>5, <1>6, <1>7

\* After a recovery the blocks are those above the boundary, and a block that
\* was recovered is the new boundary.
LEMMA RecoverMoves ==
    ASSUME BaseInv, BoundaryInv, made' = made, job.pc = "enter", RecoverNothing \/ RecoverBlock
    PROVE  /\ DOMAIN blocks' = Above(prune_state'.before)
           /\ prune_state'.before < head \/ prune_state'.before <= 0
           /\ RecoverBlock => config' = Refreshed(config, prune_state'.before) /\ prune_state'.before < head
           /\ RecoverNothing => config' = config /\ blocks' = blocks /\ DOMAIN prune_journal = {}
<1>1. PICK b \in Number : prune_state' = Cursor(b + 1, b, None)
  BY RecoverBase
<1>2. prune_state'.before = b
  BY <1>1 DEF Cursor
<1>3. CASE RecoverNothing
  <2>1. blocks' = blocks /\ config' = config /\ prune_state' = [prune_state EXCEPT !.next = normalize(@, prune_state.before)]
    BY <1>3 DEF RecoverNothing, tables
  <2>2. prune_state'.before = prune_state.before
    <3>1. prune_state = [next |-> prune_state.next, before |-> prune_state.before, journal |-> prune_state.journal]
      BY DEF BaseInv, TypeInv, PruneStateOK
    <3>2. PICK v : v = normalize(prune_state.next, prune_state.before)
      OBVIOUS
    <3>3. prune_state' = [prune_state EXCEPT !.next = v]
      BY <2>1, <3>2
    <3> QED
      BY <3>1, <3>3
  <2>3. DOMAIN prune_journal = {} /\ ~RecoverBlock
    BY <1>3, JournalBlockIs DEF RecoverNothing, RecoverBlock, BaseInv
  <2> QED
    BY <2>1, <2>2, <2>3 DEF BoundaryInv
<1>4. CASE RecoverBlock
  <2>1. PICK n : n = JournalBlock
    OBVIOUS
  <2>2. n \in DOMAIN prune_journal /\ n # None
    BY <1>4, <2>1, JournalBlockIs DEF RecoverBlock, BaseInv
  <2>3. n \in 1..head /\ n < head /\ n \in DOMAIN blocks /\ prune_state.before < n /\ DOMAIN blocks \ {n} = Above(n)
    BY <2>2, JournaledIsLowest
  <2>4. load_block(n)
    BY <2>3, LoadsWhatIsThere DEF BaseInv
  <2>5. RecoveredBefore(n) = n
    <3>1. prune_state.before \in Int /\ n \in Int
      BY <2>3 DEF BaseInv, TypeInv, PruneStateOK, Number, None
    <3>2. Max({prune_state.before, n}) \in {prune_state.before, n} /\ Max({prune_state.before, n}) >= n
      BY <3>1, MaxOfTwo
    <3>3. Max({prune_state.before, n}) = n
      BY <2>3, <3>1, <3>2
    <3> QED
      BY <2>4, <3>3 DEF RecoveredBefore
  <2>6. /\ Delete(n) /\ config' = Refreshed(config, n)
        /\ prune_state' = [next |-> normalize(prune_state.next, n), before |-> n, journal |-> None]
    BY <1>4, <2>1, <2>2, <2>4, <2>5 DEF RecoverBlock
  <2>7. prune_state'.before = n
    BY <2>6
  <2>8. DOMAIN blocks' = Above(n)
    BY <2>3, <2>6 DEF Delete, Drop
  <2>9. ~RecoverNothing
    BY <1>4 DEF RecoverNothing, RecoverBlock
  <2> QED
    BY <2>3, <2>6, <2>7, <2>8, <2>9
<1> QED
  BY <1>3, <1>4

LEMMA BoundaryEnter ==
    ASSUME BaseInv, BoundaryInv, PruneEnter
    PROVE  BoundaryInv'
<1>1. made' = made /\ (RecoverNothing \/ RecoverBlock) /\ job.pc = "enter" /\ head' = head
  BY DEF PruneEnter, head
<1>2. /\ DOMAIN blocks' = Above(prune_state'.before)
      /\ prune_state'.before < head \/ prune_state'.before <= 0
  BY <1>1, RecoverMoves
<1>3. DOMAIN prune_journal' = {}
  BY <1>1, RecoverBase
<1>4. Above(prune_state'.before) = Above(prune_state.before)'
  BY <1>1 DEF Above
<1>5. CASE head <= job.retain
  <2>1. job' = [job EXCEPT !.pc = "end"]
    BY <1>5 DEF PruneEnter
  <2>2. job'.pc = "end"
    BY <1>1, <2>1, EntersJob
  <2> QED
    BY <1>1, <1>2, <1>3, <1>4, <2>2 DEF BoundaryInv, Working
<1>6. CASE ~(head <= job.retain)
  <2>1. job'.pc = "loop" /\ job'.ps = prune_state'
    BY <1>6 DEF PruneEnter
  <2>2. head \in Nat /\ job.retain \in Nat \ {0}
    BY <1>1, HeadNat, EntersJob DEF BaseInv
  <2>3. prune_state'.before \in Int
    BY EnterBase DEF BaseInv, TypeInv, PruneStateOK, Number, None
  <2>4. prune_state'.before < head
    BY <1>2, <1>6, <2>2, <2>3
  <2>5. Above(job.ps.before)' = Above(prune_state.before)'
    BY <2>1 DEF Above
  <2> QED
    BY <1>1, <1>2, <1>3, <1>4, <2>1, <2>4, <2>5 DEF BoundaryInv, Working
<1> QED
  BY <1>5, <1>6

\* The steps of the loop, by what they do to the boundary.
Moved(pc, s, b) ==
    /\ made' = made
    /\ job'.pc = pc /\ prune_state'.before = s /\ job'.ps.before = b

LEMMA BoundaryMoved ==
    ASSUME BaseInv, NEW pc, NEW s, NEW b, Moved(pc, s, b), pc \in {"loop"} \cup Working,
           pc # "deleted" => DOMAIN blocks' = Above(s),
           DOMAIN blocks' = Above(b),
           s < head \/ s <= 0, pc = "loop" => b < head,
           \A n \in DOMAIN prune_journal' : n < head,
           pc # "deleted" => \A n \in DOMAIN prune_journal' : DOMAIN blocks' = Above(n - 1)
    PROVE  BoundaryInv'
<1>1. head' = head
  BY DEF Moved, head
<1>2. job'.pc = pc /\ prune_state'.before = s /\ job'.ps.before = b
  BY DEF Moved
<1>3. Above(prune_state.before)' = Above(s) /\ Above(job.ps.before)' = Above(b)
  BY <1>1, <1>2 DEF Above
<1>4. ASSUME NEW n PROVE Above(n - 1)' = Above(n - 1)
  BY <1>1 DEF Above
<1> QED
  BY <1>1, <1>2, <1>3, <1>4 DEF BoundaryInv

LEMMA BoundaryAbsent ==
    ASSUME BaseInv, BoundaryInv, PruneAbsent
    PROVE  BoundaryInv'
<1>1. /\ job.pc = "loop" /\ job.next <= job.upto /\ ~load_block(job.next)
      /\ made' = made /\ blocks' = blocks /\ prune_state' = prune_state /\ prune_journal' = prune_journal
  BY DEF PruneAbsent, tables
<1>2. PICK u, o, x, t, z, n, a, b, c :
            job = Loop("loop", u, o, x, t, z, n, Cursor(a, b, c)) /\ LoopOK("loop", u, n, a, b, c, head)
  BY <1>1, LoopJob
<1>3. job.next = n /\ job.upto = u /\ job.ps.before = b
  BY <1>2, LoopFields
<1>4. u \in Nat /\ u < head /\ n \in Nat /\ b \in Int /\ n = b + 1 /\ n <= u /\ head \in Nat
  BY <1>1, <1>2, <1>3, HeadNat DEF LoopOK, Number, None, BaseInv
<1>5. DOMAIN blocks = Above(b) /\ n \notin DOMAIN blocks
  BY <1>1, <1>3, LoadsWhatIsThere DEF BoundaryInv, BaseInv
<1>6. n = 0
  <2>1. n \notin 1..head
    BY <1>4, <1>5 DEF Above
  <2> QED
    BY <1>4, <2>1
<1>7. Above(b) = Above(n)
  BY <1>4, <1>6 DEF Above
<1>8. Moved("loop", prune_state.before, n)
  <2>1. PICK k : k = n + 1
    OBVIOUS
  <2>2. job' = [job EXCEPT !.next = k, !.ps.before = n]
    BY <1>3, <2>1 DEF PruneAbsent
  <2>3. job' = Loop("loop", u, o, x, t, z, k, Cursor(a, n, c))
    BY <1>2, <2>2 DEF Loop, Cursor
  <2>4. job'.pc = "loop" /\ job'.ps.before = n
    BY <2>3, LoopFields
  <2> QED
    BY <1>1, <2>4 DEF Moved
<1>9. DOMAIN prune_journal' = {}
  BY <1>1 DEF BaseInv, JournalInv
<1>10. DOMAIN blocks' = Above(prune_state.before) /\ (prune_state.before < head \/ prune_state.before <= 0)
  BY <1>1 DEF BoundaryInv
<1>11. DOMAIN blocks' = Above(n) /\ n < head
  BY <1>1, <1>4, <1>5, <1>7
<1> QED
  BY <1>8, <1>9, <1>10, <1>11, BoundaryMoved

LEMMA BoundaryJournal ==
    ASSUME BaseInv, BoundaryInv, PruneJournal
    PROVE  BoundaryInv'
<1>1. /\ job.pc = "loop" /\ job.next <= job.upto /\ load_block(job.next)
      /\ prune_journal' = With(prune_journal, job.next, collect_ptrs_for_block(job.next))
      /\ made' = made /\ blocks' = blocks /\ prune_state' = prune_state
  BY DEF PruneJournal, tables
<1>2. PICK u, o, x, t, z, n, a, b, c :
            job = Loop("loop", u, o, x, t, z, n, Cursor(a, b, c)) /\ LoopOK("loop", u, n, a, b, c, head)
  BY <1>1, LoopJob
<1>3. job.next = n /\ job.upto = u /\ job.ps.before = b
  BY <1>2, LoopFields
<1>4. n < head /\ n - 1 = b
  BY <1>1, <1>2, <1>3, HeadNat DEF LoopOK, Number, None, BaseInv
<1>5. DOMAIN blocks' = Above(b)
  BY <1>1, <1>3 DEF BoundaryInv
<1>6. Moved("journaled", prune_state.before, b)
  <2>1. PICK k : k = job.ops + prune_ops_needed_for_block(n)
    OBVIOUS
  <2>2. job' = [job EXCEPT !.pc = "journaled", !.ps.journal = n, !.ops = k]
    BY <1>3, <2>1 DEF PruneJournal
  <2>3. job' = Loop("journaled", u, k, x, t, z, n, Cursor(a, b, n))
    BY <1>2, <2>2 DEF Loop, Cursor
  <2>4. job'.pc = "journaled" /\ job'.ps.before = b
    BY <2>3, LoopFields
  <2> QED
    BY <1>1, <2>4 DEF Moved
<1>7. DOMAIN prune_journal' = {n}
  <2>1. DOMAIN prune_journal = {}
    BY <1>1 DEF BaseInv, JournalInv
  <2> QED
    BY <1>1, <1>3, <2>1 DEF With
<1>8. DOMAIN blocks' = Above(prune_state.before) /\ (prune_state.before < head \/ prune_state.before <= 0)
  BY <1>1 DEF BoundaryInv
<1>9. \A k \in DOMAIN prune_journal' : k < head /\ DOMAIN blocks' = Above(k - 1)
  BY <1>4, <1>5, <1>7
<1> QED
  BY <1>5, <1>6, <1>8, <1>9, BoundaryMoved DEF Working

LEMMA BoundaryCursor ==
    ASSUME BaseInv, BoundaryInv, PruneCursor
    PROVE  BoundaryInv'
<1>1. /\ job.pc = "journaled" /\ prune_state' = job.ps /\ job' = [job EXCEPT !.pc = "cursor"]
      /\ made' = made /\ blocks' = blocks /\ prune_journal' = prune_journal
  BY DEF PruneCursor, tables
<1>2. PICK u, o, x, t, z, n, a, b, c :
            job = Loop("journaled", u, o, x, t, z, n, Cursor(a, b, c)) /\ LoopOK("journaled", u, n, a, b, c, head)
  BY <1>1, LoopJob DEF Working
<1>3. job.ps.before = b
  BY <1>2, LoopFields
<1>4. b < head
  BY <1>2, HeadNat DEF LoopOK, Working, Number, None, BaseInv
<1>5. DOMAIN blocks' = Above(b)
  BY <1>1, <1>3 DEF BoundaryInv, Working
<1>6. Moved("cursor", b, b)
  <2>1. job' = Loop("cursor", u, o, x, t, z, n, Cursor(a, b, c))
    BY <1>1, <1>2 DEF Loop
  <2>2. job'.pc = "cursor" /\ job'.ps.before = b
    BY <2>1, LoopFields
  <2> QED
    BY <1>1, <1>3, <2>2 DEF Moved
<1>7. \A k \in DOMAIN prune_journal' : k < head /\ DOMAIN blocks' = Above(k - 1)
  BY <1>1 DEF BoundaryInv
<1> QED
  BY <1>4, <1>5, <1>6, <1>7, BoundaryMoved DEF Working

LEMMA BoundaryDelete ==
    ASSUME BaseInv, BoundaryInv, PruneDelete
    PROVE  BoundaryInv'
<1>1. /\ job.pc = "cursor" /\ Delete(job.next) /\ job' = [job EXCEPT !.pc = "deleted", !.ps.before = job.next]
      /\ made' = made /\ prune_state' = prune_state /\ prune_journal' = prune_journal
  BY DEF PruneDelete
<1>2. PICK u, o, x, t, z, n, a, b, c :
            job = Loop("cursor", u, o, x, t, z, n, Cursor(a, b, c)) /\ LoopOK("cursor", u, n, a, b, c, head)
  BY <1>1, LoopJob DEF Working
<1>3. job.next = n
  BY <1>2, LoopFields
<1>4. n \in DOMAIN prune_journal
  BY <1>1, <1>3 DEF BaseInv, JournalInv, Working
<1>5. DOMAIN blocks \ {n} = Above(n)
  BY <1>1, <1>4, JournaledIsLowest
<1>6. DOMAIN blocks' = Above(n)
  BY <1>1, <1>3, <1>5 DEF Delete, Drop
<1>7. Moved("deleted", prune_state.before, n)
  <2>1. job' = [job EXCEPT !.pc = "deleted", !.ps.before = n]
    BY <1>1, <1>3
  <2>2. job' = Loop("deleted", u, o, x, t, z, n, Cursor(a, n, c))
    BY <1>2, <2>1 DEF Loop, Cursor
  <2>3. job'.pc = "deleted" /\ job'.ps.before = n
    BY <2>2, LoopFields
  <2> QED
    BY <1>1, <2>3 DEF Moved
<1>8. /\ \A k \in DOMAIN prune_journal' : k < head
      /\ prune_state.before < head \/ prune_state.before <= 0
  BY <1>1 DEF BoundaryInv
<1> QED
  BY <1>6, <1>7, <1>8, BoundaryMoved DEF Working

LEMMA BoundaryReclaim ==
    ASSUME BaseInv, BoundaryInv, PruneReclaim
    PROVE  BoundaryInv'
<1>1. /\ job.pc = "deleted" /\ prune_journal' = Drop(prune_journal, {job.next})
      /\ made' = made /\ blocks' = blocks
  BY DEF PruneReclaim, tables
<1>2. PICK u, o, x, t, z, n, a, b, c :
            job = Loop("deleted", u, o, x, t, z, n, Cursor(a, b, c)) /\ LoopOK("deleted", u, n, a, b, c, head)
  BY <1>1, LoopJob DEF Working
<1>3. job.next = n /\ job.ps = Cursor(a, b, c) /\ job.ps.before = b
  BY <1>2, LoopFields
<1>4. b < head
  BY <1>2, HeadNat DEF LoopOK, Working, Number, None, BaseInv
<1>5. DOMAIN blocks' = Above(b)
  BY <1>1, <1>3 DEF BoundaryInv, Working
<1>6. Moved("loop", b, b)
  <2>1. PICK ps : ps = Cursor(a, b, None)
    OBVIOUS
  <2>2. [job.ps EXCEPT !.journal = None] = ps
    BY <1>3, <2>1 DEF Cursor
  <2>3. PICK k : k = n + 1
    OBVIOUS
  <2>4. prune_state' = ps /\ job' = [job EXCEPT !.pc = "loop", !.next = k, !.ps = ps]
    BY <1>3, <2>2, <2>3 DEF PruneReclaim
  <2>5. job' = Loop("loop", u, o, x, t, z, k, ps)
    BY <1>2, <2>4 DEF Loop
  <2>6. job'.pc = "loop" /\ job'.ps.before = b
    BY <2>1, <2>5, LoopFields
  <2>7. prune_state'.before = b
    BY <2>1, <2>4 DEF Cursor
  <2> QED
    BY <1>1, <2>6, <2>7 DEF Moved
<1>7. DOMAIN prune_journal' = {}
  <2>1. DOMAIN prune_journal = {n}
    BY <1>1, <1>3 DEF BaseInv, JournalInv, Working
  <2> QED
    BY <1>1, <1>3, <2>1 DEF Drop
<1> QED
  BY <1>4, <1>5, <1>6, <1>7, BoundaryMoved

LEMMA BoundaryFinish ==
    ASSUME BaseInv, BoundaryInv, PruneFinish
    PROVE  /\ BoundaryInv'
           /\ blocks' = blocks /\ made' = made
           /\ DOMAIN blocks = Above(job.ps.before) /\ job.ps.before \in Int /\ job.ps.before < head
           /\ head > 0
           /\ \E v : config' = [Refreshed(config, job.ps.before) EXCEPT !.running = v]
<1>1. /\ job.pc = "loop" /\ prune_state' = [job.ps EXCEPT !.next = job.next] /\ job' = Idle
      /\ made' = made /\ blocks' = blocks /\ prune_journal' = prune_journal
  BY DEF PruneFinish, tables
<1>2. PICK u, o, x, t, z, n, a, b, c :
            job = Loop("loop", u, o, x, t, z, n, Cursor(a, b, c)) /\ LoopOK("loop", u, n, a, b, c, head)
  BY <1>1, LoopJob
<1>3. job.next = n /\ job.ps = Cursor(a, b, c) /\ job.ps.before = b
  BY <1>2, LoopFields
<1>4. [job.ps EXCEPT !.next = job.next] = Cursor(n, b, c)
  BY <1>3 DEF Cursor
<1>5. prune_state'.before = b /\ Cursor(n, b, c).before = b
  BY <1>1, <1>4 DEF Cursor
<1>6. b \in Int /\ b < head /\ DOMAIN blocks = Above(b) /\ head > 0
  <2>1. head \in Nat
    BY HeadNat DEF BaseInv
  <2> QED
    BY <1>1, <1>2, <1>3, <2>1 DEF BoundaryInv, LoopOK, Number, None
<1>7. \E v : config' = [Refreshed(config, b) EXCEPT !.running = v]
  BY <1>4, <1>5 DEF PruneFinish
<1>8. DOMAIN prune_journal' = {} /\ job'.pc = "idle" /\ head' = head
  BY <1>1, QuietPc DEF BaseInv, JournalInv, head
<1>9. Above(prune_state.before)' = Above(b)
  BY <1>5, <1>8 DEF Above
<1>10. BoundaryInv'
  BY <1>1, <1>5, <1>6, <1>8, <1>9 DEF BoundaryInv, Working
<1> QED
  BY <1>1, <1>3, <1>6, <1>7, <1>10

LEMMA BoundarySame ==
    ASSUME BoundaryInv, UNCHANGED <<made, blocks, prune_state, prune_journal, job>>
    PROVE  BoundaryInv'
BY DEF BoundaryInv, Above, head

LEMMA NextBoundary ==
    ASSUME StopsRecoverable, BaseInv, BoundaryInv, [Next]_vars
    PROVE  BoundaryInv'
<1>1. CASE \E txs \in Shapes, gap \in Gaps : Produce(txs, gap)
  BY <1>1, BoundaryProduce
<1>2. CASE \/ \E p \in Policies : set_prune_policy(p)
           \/ \E on \in BOOLEAN : set_pruning_enabled(on)
  <2>1. UNCHANGED <<made, blocks, prune_state, prune_journal, job>>
    BY <1>2 DEF set_prune_policy, set_pruning_enabled, tables
  <2> QED
    BY <2>1, BoundarySame
<1>3. CASE prune_tick
  <2>1. UNCHANGED <<made, blocks, prune_state, prune_journal>> /\ job.pc = "tick"
    BY <1>3 DEF prune_tick, tables
  <2>2. PICK r, x, z : job' = Idle \/ job' = Started(r, x, TRUE, z)
    BY <1>3 DEF prune_tick
  <2>3. job'.pc \notin {"loop"} \cup Working
    BY <2>2, QuietPc DEF Working
  <2> QED
    BY <2>1, <2>3, BoundaryQuiet
<1>4. CASE \E m \in Manual : PruneCall(m[1], m[2])
  <2>1. PICK r, x : PruneCall(r, x)
    BY <1>4
  <2>2. UNCHANGED <<made, blocks, prune_state, prune_journal>> /\ job = Idle /\ job' = Started(r, x, FALSE, FALSE)
    BY <2>1 DEF PruneCall, tables
  <2>3. job.pc # "deleted" /\ job'.pc \notin {"loop"} \cup Working
    BY <2>2, QuietPc DEF Working
  <2> QED
    BY <2>2, <2>3, BoundaryQuiet
<1>5. CASE PruneEnter
  BY <1>5, BoundaryEnter
<1>6. CASE PruneAbsent
  BY <1>6, BoundaryAbsent
<1>7. CASE PruneJournal
  BY <1>7, BoundaryJournal
<1>8. CASE PruneCursor
  BY <1>8, BoundaryCursor
<1>9. CASE PruneDelete
  BY <1>9, BoundaryDelete
<1>10. CASE PruneReclaim
  BY <1>10, BoundaryReclaim
<1>11. CASE PruneFinish
  BY <1>11, BoundaryFinish
<1>12. CASE PruneEnd \/ Stop
  <2>1. UNCHANGED <<made, blocks, prune_state, prune_journal>> /\ job' = Idle
    BY <1>12 DEF PruneEnd, Stop, tables
  <2>2. job.pc # "deleted"
    BY <1>12 DEF PruneEnd, Stop, StopsRecoverable
  <2>3. job'.pc \notin {"loop"} \cup Working
    BY <2>1, QuietPc DEF Working
  <2> QED
    BY <2>1, <2>2, <2>3, BoundaryQuiet
<1>13. CASE Poll \/ Page \/ UNCHANGED vars
  <2>1. UNCHANGED <<made, blocks, prune_state, prune_journal, job>>
    BY <1>13 DEF Poll, Page, vars, tables
  <2> QED
    BY <2>1, BoundarySame
<1> QED
  BY <1>1, <1>2, <1>3, <1>4, <1>5, <1>6, <1>7, <1>8, <1>9, <1>10, <1>11, <1>12, <1>13 DEF Next

-----------------------------------------------------------------------------
(* The oldest block of the configuration.                                  *)

LEMMA RefreshedNames ==
    ASSUME BaseInv, NEW b \in Int, NEW c, ConfigOK(c), b < head, head > 0, NEW S, S = Above(b), S \subseteq DOMAIN blocks,
           \A k \in DOMAIN blocks : k > b => k \in S
    PROVE  NamesOldest(Refreshed(c, b), S)
<1>1. PICK n : n = find_next_existing_block(b)
  OBVIOUS
<1>2. S = {k \in DOMAIN blocks : k > b} /\ S # {}
  <2>1. head \in Nat
    BY HeadNat DEF BaseInv
  <2>2. \A k \in S : k > b
    BY DEF Above
  <2>3. head \in S
    BY <2>1 DEF Above
  <2> QED
    BY <2>2, <2>3
<1>3. n \in S /\ n \in 1..head /\ \A k \in S : n <= k
  BY <1>1, <1>2, NextExisting DEF BaseInv
<1>4. Refreshed(c, b) = [c EXCEPT !.oldest = n, !.oldest_time = made[n].time]
  <2>1. n # None
    BY <1>3 DEF None
  <2> QED
    BY <1>1, <2>1 DEF Refreshed
<1>5. PICK w : w = made[n].time
  OBVIOUS
<1>6. PICK d : d = Refreshed(c, b)
  OBVIOUS
<1>7. PICK p, q, r, o, y : c = [enabled |-> p, running |-> q, policy |-> r, oldest |-> o, oldest_time |-> y]
  BY DEF ConfigOK
<1>8. d = [enabled |-> p, running |-> q, policy |-> r, oldest |-> n, oldest_time |-> w]
  BY <1>4, <1>5, <1>6, <1>7
<1>9. d.oldest = n /\ d.oldest_time = w
  BY <1>8
<1>10. NamesOldest(d, S)
  BY <1>3, <1>5, <1>9 DEF NamesOldest
<1> QED
  BY <1>6, <1>10

\* What OldestInv says where it says something.
LEMMA NamesMin ==
    ASSUME RowsInv, MadeInv, NEW c, NEW S, S \subseteq 1..head, S # {}
    PROVE  NamesOldest(c, S) <=> c.oldest = Min(S) /\ c.oldest_time = made[c.oldest].time
<1>1. S \in SUBSET Nat
  BY HeadNat
<1>2. PICK x \in S : \A y \in S : x <= y
  BY <1>1, NatLeast
<1>3. Min(S) = x
  <2>1. \A y \in S : y \in Int /\ x <= y
    BY <1>1, <1>2
  <2> QED
    BY <1>2, <2>1, MinIs
<1>4. x \in Int /\ \A k \in S : k \in Int
  BY <1>1
<1>5. ASSUME NamesOldest(c, S) PROVE c.oldest = x
  <2>1. PICK v : v = c.oldest
    OBVIOUS
  <2>2. v \in S /\ v \in Int /\ v <= x /\ x <= v
    BY <1>2, <1>4, <1>5, <2>1 DEF NamesOldest
  <2> QED
    BY <1>4, <2>1, <2>2
<1> QED
  BY <1>2, <1>3, <1>5 DEF NamesOldest

SameOldest(c, d) == d.oldest = c.oldest /\ d.oldest_time = c.oldest_time

LEMMA OldestSame ==
    ASSUME OldestInv, UNCHANGED <<made, blocks, prune_journal>>, SameOldest(config, config'),
           \/ job.pc \in {"idle", "tick", "enter", "end"}
           \/ DOMAIN prune_journal # {}
    PROVE  OldestInv'
<1>1. head' = head /\ DOMAIN blocks' = DOMAIN blocks /\ DOMAIN prune_journal' = DOMAIN prune_journal
  BY DEF head
<1>2. config'.oldest = config.oldest /\ config'.oldest_time = config.oldest_time
  BY DEF SameOldest
<1>3. NamesOldest(config, DOMAIN blocks) => NamesOldest(config, DOMAIN blocks)'
  BY <1>2 DEF NamesOldest
<1> QED
  BY <1>1, <1>2, <1>3 DEF OldestInv

LEMMA OldestLoop ==
    ASSUME OldestInv, made' = made, config' = config, job'.pc \in {"loop"} \cup Working
    PROVE  OldestInv'
<1>1. head' = head /\ job'.pc \notin {"idle", "tick", "enter", "end"}
  BY DEF head, Working
<1> QED
  BY <1>1 DEF OldestInv

LEMMA SetsOldest ==
    ASSUME NEW c, ConfigOK(c)
    PROVE  /\ \A v : SameOldest(c, [c EXCEPT !.policy = v])
           /\ \A v : SameOldest(c, [c EXCEPT !.enabled = v])
           /\ \A v : SameOldest(c, [c EXCEPT !.running = v])
<1>1. PICK a, b, p, o, q : c = [enabled |-> a, running |-> b, policy |-> p, oldest |-> o, oldest_time |-> q]
  BY DEF ConfigOK
<1>2. ASSUME NEW v PROVE SameOldest(c, [c EXCEPT !.policy = v])
  BY <1>1 DEF SameOldest
<1>3. ASSUME NEW v PROVE SameOldest(c, [c EXCEPT !.enabled = v])
  BY <1>1 DEF SameOldest
<1>4. ASSUME NEW v PROVE SameOldest(c, [c EXCEPT !.running = v])
  BY <1>1 DEF SameOldest
<1> QED
  BY <1>2, <1>3, <1>4

LEMMA OldestProduce ==
    ASSUME BaseInv, BoundaryInv, OldestInv, NEW txs \in Shapes, NEW gap \in Gaps, Produce(txs, gap)
    PROVE  OldestInv'
<1>1. PICK h : h = head
  OBVIOUS
<1>2. PICK n : n = h + 1
  OBVIOUS
<1>3. PICK w : w = HeadTime + gap
  OBVIOUS
<1>4. made' = Append(made, [txs |-> txs, time |-> w])
  BY <1>3 DEF Produce
<1>5. /\ h \in Nat /\ head' = n
      /\ \A k \in 1..h : made'[k] = made[k]
      /\ made'[n] = [txs |-> txs, time |-> w]
  <2>1. made \in Seq(BlockData) /\ Len(made) = h /\ h \in Nat
    BY <1>1, HeadNat DEF BaseInv, MadeInv, head
  <2> QED
    BY <1>2, <1>4, <2>1 DEF head
<1>6. /\ DOMAIN blocks' = DOMAIN blocks \cup {n} /\ job = Idle
      /\ DOMAIN prune_journal' = DOMAIN prune_journal
  BY <1>1, <1>2 DEF Produce, With
<1>7. DOMAIN blocks \subseteq 1..h
  BY <1>1, LoadsWhatIsThere DEF BaseInv
<1>8. ASSUME DOMAIN prune_journal = {} PROVE NamesOldest(config, DOMAIN blocks)'
  <2>1. CASE h = 0
    <3>1. config.oldest = None
      BY <1>1, <2>1 DEF OldestInv
    <3>2. PICK d : d = [config EXCEPT !.oldest = n, !.oldest_time = w]
      OBVIOUS
    <3>3. config' = d
      BY <1>1, <1>2, <1>3, <3>1, <3>2 DEF Produce
    <3>4. PICK p, q, r, o, y : config = [enabled |-> p, running |-> q, policy |-> r, oldest |-> o, oldest_time |-> y]
      BY DEF ConfigOK, BaseInv, TypeInv
    <3>5. d = [enabled |-> p, running |-> q, policy |-> r, oldest |-> n, oldest_time |-> w]
      BY <3>2, <3>4
    <3>6. d.oldest = n /\ d.oldest_time = w
      BY <3>5
    <3>7. DOMAIN blocks' = {n} /\ n \in Int
      BY <1>2, <1>5, <1>6, <1>7, <2>1
    <3>8. made'[n].time = w
      BY <1>5
    <3> QED
      BY <3>3, <3>6, <3>7, <3>8 DEF NamesOldest
  <2>2. CASE h > 0
    <3>1. NamesOldest(config, DOMAIN blocks)
      BY <1>1, <1>6, <1>8, <2>2, QuietPc DEF OldestInv
    <3>2. PICK o : o = config.oldest
      OBVIOUS
    <3>3. o \in DOMAIN blocks /\ o \in 1..h /\ \A k \in DOMAIN blocks : o <= k
      BY <1>7, <3>1, <3>2 DEF NamesOldest
    <3>4. config' = config
      <4>1. config.oldest # None
        BY <3>2, <3>3 DEF None
      <4> QED
        BY <4>1 DEF Produce
    <3>5. made'[o] = made[o]
      BY <1>5, <3>3
    <3>6. \A k \in DOMAIN blocks' : o <= k
      BY <1>2, <1>5, <1>6, <3>3
    <3> QED
      BY <1>6, <3>1, <3>2, <3>3, <3>4, <3>5, <3>6 DEF NamesOldest
  <2> QED
    BY <1>5, <2>1, <2>2
<1>9. head' # 0
  BY <1>2, <1>5
<1> QED
  BY <1>6, <1>8, <1>9 DEF OldestInv

LEMMA OldestTick ==
    ASSUME BaseInv, BoundaryInv, OldestInv, prune_tick
    PROVE  OldestInv'
<1>1. UNCHANGED <<made, blocks, prune_journal>> /\ job.pc = "tick" /\ head' = head
  BY DEF prune_tick, tables, head
<1>2. PICK d : d = Refreshed(config, prune_state.before)
  OBVIOUS
<1>3. PICK c : c = IF config.oldest = None THEN d ELSE config
  OBVIOUS
<1>4. config' = [c EXCEPT !.running = TRUE] \/ config' = c
  BY <1>2, <1>3 DEF prune_tick
<1>5. ConfigOK(config) /\ prune_state.before \in Int
  BY DEF BaseInv, TypeInv, PruneStateOK, Number, None
<1>6. ConfigOK(c)
  <2>1. ConfigOK(d)
    BY <1>2, <1>5, RefreshedKeeps DEF BaseInv, Keeps
  <2> QED
    BY <1>3, <1>5, <2>1
<1>7. SameOldest(c, config')
  <2>1. CASE config' = c
    BY <2>1 DEF SameOldest
  <2>2. CASE config' = [c EXCEPT !.running = TRUE]
    BY <1>6, <2>2, SetsOldest
  <2> QED
    BY <1>4, <2>1, <2>2
<1>8. CASE c = config
  BY <1>1, <1>7, <1>8, OldestSame
<1>9. CASE c # config
  <2>1. config.oldest = None /\ d # config
    BY <1>3, <1>9
  <2>2. DOMAIN blocks # {}
    <3>1. find_next_existing_block(prune_state.before) # None
      BY <1>2, <2>1 DEF Refreshed
    <3>2. DOMAIN blocks = {} => {k \in DOMAIN blocks : k > prune_state.before} = {}
      OBVIOUS
    <3> QED
      BY <1>5, <3>1, <3>2, NextExisting DEF BaseInv
  <2>3. DOMAIN blocks \subseteq 1..head /\ head \in Nat
    BY LoadsWhatIsThere, HeadNat DEF BaseInv
  <2>4. head > 0
    BY <2>2, <2>3
  <2>5. DOMAIN prune_journal # {}
    <3>1. ~NamesOldest(config, DOMAIN blocks)
      BY <2>1, <2>3 DEF NamesOldest, None
    <3> QED
      BY <1>1, <2>4, <3>1 DEF OldestInv
  <2> QED
    BY <1>1, <2>4, <2>5 DEF OldestInv
<1> QED
  BY <1>8, <1>9

LEMMA OldestEnter ==
    ASSUME BaseInv, BoundaryInv, OldestInv, PruneEnter
    PROVE  OldestInv'
<1>1. made' = made /\ (RecoverNothing \/ RecoverBlock) /\ job.pc = "enter" /\ head' = head
  BY DEF PruneEnter, head
<1>2. CASE RecoverNothing
  <2>1. config' = config /\ blocks' = blocks
    BY <1>1, <1>2, RecoverMoves
  <2>2. prune_journal' = prune_journal
    BY <1>2 DEF RecoverNothing
  <2>3. SameOldest(config, config')
    BY <2>1 DEF SameOldest
  <2> QED
    BY <1>1, <2>1, <2>2, <2>3, OldestSame
<1>3. CASE RecoverBlock
  <2>1. PICK b : b = prune_state'.before
    OBVIOUS
  <2>2. DOMAIN blocks' = Above(b) /\ config' = Refreshed(config, b) /\ b < head
    BY <1>1, <1>3, <2>1, RecoverMoves
  <2>3. b \in Int
    BY <2>1, EnterBase DEF BaseInv, TypeInv, PruneStateOK, Number, None
  <2>4. DOMAIN blocks \subseteq 1..head /\ head \in Nat /\ DOMAIN prune_journal \subseteq 1..head
    BY LoadsWhatIsThere, HeadNat DEF BaseInv
  <2>5. DOMAIN prune_journal # {}
    BY <1>3, JournalBlockIs DEF RecoverBlock, BaseInv
  <2>6. head > 0
    BY <2>4, <2>5
  <2>7. DOMAIN blocks' \subseteq DOMAIN blocks
    <3>1. (\E n : Delete(n)) \/ UNCHANGED tables
      BY <1>3 DEF RecoverBlock, tables
    <3> QED
      BY <3>1 DEF Delete, Drop, tables
  <2>8. \A k \in DOMAIN blocks : k > b => k \in DOMAIN blocks'
    BY <2>2, <2>4 DEF Above
  <2>9. NamesOldest(Refreshed(config, b), DOMAIN blocks')
    <3>1. ConfigOK(config)
      BY DEF BaseInv, TypeInv
    <3> QED
      BY <2>2, <2>3, <2>6, <2>7, <2>8, <3>1, RefreshedNames
  <2>10. NamesOldest(config, DOMAIN blocks)'
    BY <1>1, <2>2, <2>9 DEF NamesOldest
  <2> QED
    BY <1>1, <2>6, <2>10 DEF OldestInv
<1> QED
  BY <1>1, <1>2, <1>3

LEMMA OldestFinish ==
    ASSUME BaseInv, BoundaryInv, PruneFinish
    PROVE  OldestInv'
<1>1. PICK b : b = job.ps.before
  OBVIOUS
<1>2. /\ blocks' = blocks /\ made' = made /\ DOMAIN blocks = Above(b)
      /\ b \in Int /\ b < head /\ head > 0
      /\ \E v : config' = [Refreshed(config, b) EXCEPT !.running = v]
  BY <1>1, BoundaryFinish
<1>3. PICK d : d = Refreshed(config, b)
  OBVIOUS
<1>4. ConfigOK(config)
  BY DEF BaseInv, TypeInv
<1>5. DOMAIN blocks \subseteq 1..head
  BY LoadsWhatIsThere DEF BaseInv
<1>6. NamesOldest(d, DOMAIN blocks)
  BY <1>2, <1>3, <1>4, <1>5, RefreshedNames DEF Above
<1>7. ConfigOK(d)
  BY <1>2, <1>3, <1>4, RefreshedKeeps DEF BaseInv, Keeps
<1>8. SameOldest(d, config')
  BY <1>2, <1>3, <1>7, SetsOldest
<1>9. NamesOldest(config, DOMAIN blocks)'
  BY <1>2, <1>6, <1>8 DEF NamesOldest, SameOldest
<1> QED
  BY <1>2, <1>9 DEF OldestInv, head

\* A step of the loop leaves the limit of the prune and the configuration alone.
LEMMA LoopStep ==
    ASSUME BaseInv, PruneAbsent \/ PruneJournal \/ PruneCursor \/ PruneDelete \/ PruneReclaim
    PROVE  /\ made' = made /\ config' = config
           /\ job.pc \in {"loop"} \cup Working /\ job'.pc \in {"loop"} \cup Working
           /\ job'.upto = job.upto /\ job'.tick = job.tick /\ job'.by_size = job.by_size
<1>1. made' = made /\ config' = config
  BY DEF PruneAbsent, PruneJournal, PruneCursor, PruneDelete, PruneReclaim
<1>2. job.pc \in {"loop"} \cup Working
  BY DEF PruneAbsent, PruneJournal, PruneCursor, PruneDelete, PruneReclaim, Working
<1>3. PICK u, o, x, t, z, n, s : job = Loop(job.pc, u, o, x, t, z, n, s)
  BY <1>2, LoopJob
<1> DEFINE Same == /\ job'.pc \in {"loop"} \cup Working /\ job'.upto = job.upto
                   /\ job'.tick = job.tick /\ job'.by_size = job.by_size
<1>4. ASSUME PruneAbsent PROVE Same
  BY <1>3, <1>4 DEF PruneAbsent, Loop
<1>5. ASSUME PruneJournal PROVE Same
  BY <1>3, <1>5 DEF PruneJournal, Loop, Working
<1>6. ASSUME PruneCursor PROVE Same
  BY <1>3, <1>6 DEF PruneCursor, Loop, Working
<1>7. ASSUME PruneDelete PROVE Same
  BY <1>3, <1>7 DEF PruneDelete, Loop, Working
<1>8. ASSUME PruneReclaim PROVE Same
  BY <1>3, <1>8 DEF PruneReclaim, Loop, Working
<1> QED
  BY <1>1, <1>2, <1>4, <1>5, <1>6, <1>7, <1>8

LEMMA NextOldest ==
    ASSUME StopsRecoverable, BaseInv, BoundaryInv, OldestInv, [Next]_vars
    PROVE  OldestInv'
<1>0. ConfigOK(config) /\ JobOK(job, head)
  BY DEF BaseInv, TypeInv
<1>1. CASE \E txs \in Shapes, gap \in Gaps : Produce(txs, gap)
  BY <1>1, OldestProduce
<1>2. CASE \E p \in Policies : set_prune_policy(p)
  <2>1. PICK p : set_prune_policy(p)
    BY <1>2
  <2>2. UNCHANGED <<made, blocks, prune_journal>> /\ job.pc = "idle" /\ config' = [config EXCEPT !.policy = p]
    BY <2>1, QuietPc DEF set_prune_policy, tables
  <2>3. SameOldest(config, config')
    BY <1>0, <2>2, SetsOldest
  <2> QED
    BY <2>2, <2>3, OldestSame
<1>3. CASE \E on \in BOOLEAN : set_pruning_enabled(on)
  <2>1. PICK on : set_pruning_enabled(on)
    BY <1>3
  <2>2. UNCHANGED <<made, blocks, prune_journal>> /\ job.pc = "idle" /\ config' = [config EXCEPT !.enabled = on]
    BY <2>1, QuietPc DEF set_pruning_enabled, tables
  <2>3. SameOldest(config, config')
    BY <1>0, <2>2, SetsOldest
  <2> QED
    BY <2>2, <2>3, OldestSame
<1>4. CASE prune_tick
  BY <1>4, OldestTick
<1>5. CASE \E m \in Manual : PruneCall(m[1], m[2])
  <2>1. UNCHANGED <<made, blocks, prune_journal, config>> /\ job.pc = "idle"
    BY <1>5, QuietPc DEF PruneCall, tables
  <2>2. SameOldest(config, config')
    BY <2>1 DEF SameOldest
  <2> QED
    BY <2>1, <2>2, OldestSame
<1>6. CASE PruneEnter
  BY <1>6, OldestEnter
<1>7. CASE PruneAbsent \/ PruneJournal \/ PruneCursor \/ PruneDelete \/ PruneReclaim
  BY <1>7, LoopStep, OldestLoop
<1>8. CASE PruneFinish
  BY <1>8, OldestFinish
<1>9. CASE PruneEnd
  <2>1. PICK v : config' = [config EXCEPT !.running = v]
    BY <1>9 DEF PruneEnd
  <2>2. UNCHANGED <<made, blocks, prune_journal>> /\ job.pc = "end"
    BY <1>9 DEF PruneEnd, tables
  <2>3. SameOldest(config, config')
    BY <1>0, <2>1, SetsOldest
  <2> QED
    BY <2>2, <2>3, OldestSame
<1>10. CASE Stop
  <2>1. UNCHANGED <<made, blocks, prune_journal, config>> /\ job.pc \notin {"loop", "deleted"}
    BY <1>10 DEF Stop, tables, StopsRecoverable
  <2>2. SameOldest(config, config')
    BY <2>1 DEF SameOldest
  <2>3. job.pc \in {"idle", "tick", "enter", "end"} \/ job.pc \in {"journaled", "cursor"}
    BY <1>0, <2>1 DEF JobOK, Idle, Working
  <2>4. job.pc \in {"journaled", "cursor"} => DOMAIN prune_journal # {}
    BY DEF BaseInv, JournalInv, Working
  <2> QED
    BY <2>1, <2>2, <2>3, <2>4, OldestSame
<1>11. CASE Poll \/ Page \/ UNCHANGED vars
  <2>1. UNCHANGED <<made, blocks, prune_journal, config, job>>
    BY <1>11 DEF Poll, Page, vars, tables
  <2> QED
    BY <2>1 DEF OldestInv, NamesOldest, head
<1> QED
  BY <1>1, <1>2, <1>3, <1>4, <1>5, <1>6, <1>7, <1>8, <1>9, <1>10, <1>11 DEF Next

AnswerInv == BaseInv /\ LocsInv /\ BoundaryInv /\ OldestInv

LEMMA InitAnswer ==
    ASSUME Init
    PROVE  AnswerInv
<1>1. BaseInv
  BY InitBase
<1>2. /\ made = <<>> /\ head = 0 /\ DOMAIN blocks = {} /\ DOMAIN tx_locs = {} /\ DOMAIN prune_journal = {}
      /\ job.pc = "idle" /\ prune_state.before = -1 /\ config.oldest = None
  BY QuietPc DEF Init, head, Empty, None
<1>3. LocsInv
  BY <1>2 DEF LocsInv, TxsOf
<1>4. BoundaryInv
  BY <1>2 DEF BoundaryInv, Above, Working
<1>5. OldestInv
  BY <1>2 DEF OldestInv
<1> QED
  BY <1>1, <1>3, <1>4, <1>5 DEF AnswerInv

LEMMA NextAnswer ==
    ASSUME StopsRecoverable, AnswerInv, [Next]_vars
    PROVE  AnswerInv'
<1>1. BaseInv /\ LocsInv /\ BoundaryInv /\ OldestInv
  BY DEF AnswerInv
<1>2. BaseInv'
  BY <1>1, NextBase
<1>3. LocsInv'
  BY <1>1, NextLocs
<1>4. BoundaryInv'
  BY <1>1, NextBoundary
<1>5. OldestInv'
  BY <1>1, NextOldest
<1> QED
  BY <1>2, <1>3, <1>4, <1>5 DEF AnswerInv

LEMMA AnswersTrue ==
    ASSUME AnswerInv
    PROVE  AnswersMatchHistory
<1>0. BaseInv /\ LocsInv /\ BoundaryInv /\ OldestInv
  BY DEF AnswerInv
<1>1. head \in Nat /\ DOMAIN blocks \subseteq 1..head
  BY <1>0, HeadNat, LoadsWhatIsThere DEF BaseInv
<1>2. PICK b : b = prune_state.before
  OBVIOUS
<1>3. b \in Int /\ (b < head \/ b <= 0)
  BY <1>0, <1>2 DEF BoundaryInv, BaseInv, TypeInv, PruneStateOK, Number, None
<1>4. ASSUME Settled PROVE job.pc = "idle" /\ DOMAIN prune_journal = {} /\ DOMAIN blocks = Above(b)
  BY <1>0, <1>2, <1>4, QuietPc DEF Settled, Empty, BoundaryInv
<1>5. DOMAIN receipts = TxsOf(made, DOMAIN blocks) /\ DOMAIN tx_locs = TxsOf(made, DOMAIN blocks)
  BY <1>0 DEF BaseInv, RowsInv, TablesFollow, Follows, Holds, LocsInv
<1>6. /\ \A n : load_block(n) <=> n \in DOMAIN blocks
      /\ \A t : load_receipt(t) <=> t \in DOMAIN receipts
  BY <1>0, LoadsWhatIsThere DEF BaseInv
<1>7. b < Max({1, head})
  <2>1. PICK m : m = Max({1, head})
    OBVIOUS
  <2>2. m \in Int /\ m >= 1 /\ m >= head
    <3>1. 1 \in Int /\ head \in Int
      BY <1>1
    <3>2. Max({1, head}) \in {1, head} /\ Max({1, head}) >= 1 /\ Max({1, head}) >= head
      BY <3>1, MaxOfTwo
    <3> QED
      BY <2>1, <3>1, <3>2
  <2> QED
    BY <1>1, <1>3, <2>1, <2>2
<1>8. ASSUME Settled, NEW n \in 1..head, n <= b
      PROVE  /\ rpc_eth_get_block_by_number(n) = "Pruned"
             /\ \A t \in TxIds(n) : receipt_lookup_status(t) = "Pruned"
  <2>1. rpc_eth_get_block_by_number(n) = "Pruned"
    BY <1>2, <1>8 DEF rpc_eth_get_block_by_number
  <2>2. ASSUME NEW t \in TxIds(n) PROVE receipt_lookup_status(t) = "Pruned"
    <3>1. t[1] = n
      BY DEF TxIds
    <3>2. n \notin DOMAIN blocks
      BY <1>3, <1>4, <1>8 DEF Above
    <3>3. t \notin TxsOf(made, DOMAIN blocks)
      BY <3>1, <3>2, TxNamesBlock
    <3>4. prune_state.before # None
      BY <1>2, <1>3, <1>8 DEF None
    <3> QED
      BY <1>5, <1>6, <3>3, <3>4 DEF receipt_lookup_status
  <2> QED
    BY <2>1, <2>2
<1>9. ASSUME Settled, NEW n \in 1..head, ~(n <= b)
      PROVE  /\ rpc_eth_get_block_by_number(n) = "Found"
             /\ \A t \in TxIds(n) : receipt_lookup_status(t) = "Found"
             /\ n > head - MaxHashScan => rpc_eth_get_block_number_by_hash(n) = n
  <2>1. n \in DOMAIN blocks /\ load_block(n)
    BY <1>1, <1>3, <1>4, <1>6, <1>9 DEF Above
  <2>2. rpc_eth_get_block_by_number(n) = "Found"
    BY <1>2, <1>9, <2>1 DEF rpc_eth_get_block_by_number
  <2>3. ASSUME NEW t \in TxIds(n) PROVE receipt_lookup_status(t) = "Found"
    <3>1. t \in TxsIn(made, n)
      BY DEF TxIds, TxsIn
    <3>2. t \in TxsOf(made, DOMAIN blocks)
      BY <2>1, <3>1 DEF TxsOf
    <3> QED
      BY <1>5, <1>6, <3>2 DEF receipt_lookup_status
  <2>4. ASSUME n > head - MaxHashScan PROVE rpc_eth_get_block_number_by_hash(n) = n
    <3>1. MaxHashScan \in Nat
      BY HistoryAssumption
    <3>2. PICK x : x = head - MaxHashScan + 1
      OBVIOUS
    <3>3. x \in Int /\ x <= n
      BY <1>1, <2>4, <3>1, <3>2
    <3>4. PICK y : y = Max({0, x})
      OBVIOUS
    <3>5. y \in Int /\ y <= n
      <4>1. Max({0, x}) \in {0, x}
        BY <3>3, MaxOfTwo
      <4> QED
        BY <3>3, <3>4, <4>1
    <3>6. n \in y..head
      BY <1>1, <3>5
    <3> QED
      BY <2>1, <3>2, <3>4, <3>6 DEF rpc_eth_get_block_number_by_hash
  <2> QED
    BY <2>2, <2>3, <2>4
<1>10. LookupsTellPruned
  BY <1>2, <1>7, <1>8, <1>9 DEF LookupsTellPruned
<1>11. OldestIsOldest
  <2>1. SUFFICES ASSUME Settled, head > 0
                 PROVE  config.oldest = Min(DOMAIN blocks) /\ config.oldest_time = made[config.oldest].time
    BY DEF OldestIsOldest
  <2>2. NamesOldest(config, DOMAIN blocks)
    BY <1>0, <1>4, <2>1 DEF OldestInv
  <2>3. DOMAIN blocks # {}
    BY <2>2 DEF NamesOldest
  <2> QED
    BY <1>0, <1>1, <2>2, <2>3, NamesMin DEF BaseInv
<1> QED
  BY <1>10, <1>11 DEF AnswersMatchHistory

(* As long as a prune does not stop between the deletion of a block and    *)
(* the save of its boundary or before refresh_oldest, what is said of old  *)
(* blocks is true, for every policy, through stops around the journal and  *)
(* the recovery from it: lookups say Pruned of the pruned blocks and their *)
(* transactions only and find all the others, and the configuration names  *)
(* the oldest block with its time                                          *)
(* (prune_blocks, recover_prune_journal, refresh_oldest,                   *)
(* receipt_lookup_status).                                                 *)
THEOREM AnswersAlwaysMatchHistory ==
    ASSUME StopsRecoverable
    PROVE  Spec => []AnswersMatchHistory
<1>1. Init => AnswerInv
  BY InitAnswer
<1>2. AnswerInv /\ [Next]_vars => AnswerInv'
  BY NextAnswer
<1>3. AnswerInv => AnswersMatchHistory
  BY AnswersTrue
<1> QED
  BY <1>1, <1>2, <1>3, PTL DEF Spec

-----------------------------------------------------------------------------
(* Which blocks a prune deletes.                                           *)

\* The journaled block is below the head, wherever a prune stops.
BelowInv == \A n \in DOMAIN prune_journal : n < head

LEMMA NextBelow ==
    ASSUME BaseInv, BelowInv, [Next]_vars
    PROVE  BelowInv'
<1>0. head \in Nat /\ DOMAIN prune_journal \subseteq 1..head
  BY HeadNat, LoadsWhatIsThere DEF BaseInv
<1>1. CASE \E txs \in Shapes, gap \in Gaps : Produce(txs, gap)
  <2>1. prune_journal' = prune_journal /\ \E e : made' = Append(made, e)
    BY <1>1 DEF Produce
  <2>2. head' = head + 1
    BY <2>1 DEF BaseInv, MadeInv, head
  <2> QED
    BY <1>0, <2>1, <2>2 DEF BelowInv
<1>2. CASE PruneJournal
  <2>1. /\ job.pc = "loop" /\ job.next <= job.upto /\ made' = made
        /\ prune_journal' = With(prune_journal, job.next, collect_ptrs_for_block(job.next))
    BY <1>2 DEF PruneJournal
  <2>2. PICK u, o, x, t, z, n, a, b, c :
            job = Loop("loop", u, o, x, t, z, n, Cursor(a, b, c)) /\ LoopOK("loop", u, n, a, b, c, head)
    BY <2>1, LoopJob
  <2>3. job.next = n /\ n < head
    <3>1. job.next = n /\ job.upto = u
      BY <2>2, LoopFields
    <3> QED
      BY <1>0, <2>1, <2>2, <3>1 DEF LoopOK
  <2>4. head' = head /\ DOMAIN prune_journal' = DOMAIN prune_journal \cup {n}
    BY <2>1, <2>3 DEF head, With
  <2> QED
    BY <2>3, <2>4 DEF BelowInv
<1>3. CASE PruneEnter
  <2>1. DOMAIN prune_journal' = {}
    BY <1>3, RecoverBase DEF PruneEnter
  <2> QED
    BY <2>1 DEF BelowInv
<1>4. CASE PruneReclaim
  <2>1. DOMAIN prune_journal' \subseteq DOMAIN prune_journal /\ head' = head
    BY <1>4 DEF PruneReclaim, Drop, head
  <2> QED
    BY <2>1 DEF BelowInv
<1>5. CASE UNCHANGED <<made, prune_journal>>
  BY <1>5 DEF BelowInv, head
<1>6. CASE (\E p \in Policies : set_prune_policy(p)) \/ (\E on \in BOOLEAN : set_pruning_enabled(on))
           \/ prune_tick \/ (\E m \in Manual : PruneCall(m[1], m[2])) \/ Stop \/ PruneEnd
  <2>1. UNCHANGED <<made, prune_journal>>
    BY <1>6 DEF set_prune_policy, set_pruning_enabled, prune_tick, PruneCall, Stop, PruneEnd
  <2> QED
    BY <1>5, <2>1
<1>7. CASE PruneAbsent \/ PruneCursor \/ PruneDelete \/ PruneFinish \/ Poll \/ Page \/ UNCHANGED vars
  <2>1. UNCHANGED <<made, prune_journal>>
    BY <1>7 DEF PruneAbsent, PruneCursor, PruneDelete, PruneFinish, Poll, Page, vars
  <2> QED
    BY <1>5, <2>1
<1> QED
  BY <1>1, <1>2, <1>3, <1>4, <1>6, <1>7 DEF Next

\* What is old stays so while neither the blocks nor the policy change.
LEMMA OldSame ==
    ASSUME made' = made, config'.policy = config.policy
    PROVE  \A n : Old(n) => Old(n)'
BY DEF Old, Cutoff, HeadTime, head

LEMMA RetainQuiet ==
    ASSUME RetainInv, made' = made, job'.pc \in {"idle", "tick", "end"}
    PROVE  RetainInv'
BY DEF RetainInv, Working, head

LEMMA RetainProduce ==
    ASSUME BaseInv, RetainInv, NEW txs \in Shapes, NEW gap \in Gaps, Produce(txs, gap)
    PROVE  RetainInv'
<1>1. PICK h : h = head
  OBVIOUS
<1>2. PICK w : w = HeadTime + gap
  OBVIOUS
<1>3. made' = Append(made, [txs |-> txs, time |-> w]) /\ job' \in {Idle, [pc |-> "tick"]}
  BY <1>2 DEF Produce
<1>4. /\ h \in Nat /\ head' = h + 1
      /\ \A k \in 1..h : made'[k].time = made[k].time
      /\ made'[h + 1].time = w
  <2>1. made \in Seq(BlockData) /\ Len(made) = h /\ h \in Nat
    BY <1>1, HeadNat DEF BaseInv, MadeInv, head
  <2>2. made'[h + 1] = [txs |-> txs, time |-> w] /\ \A k \in 1..h : made'[k] = made[k]
    BY <1>3, <2>1
  <2> QED
    BY <1>3, <2>1, <2>2 DEF head
<1>5. \A k \in 1..h : made[k].time \in Int /\ made[k].time <= w
  <2>1. gap \in Nat
    BY HistoryAssumption
  <2>2. HeadTime \in Nat /\ \A k \in 1..h : made[k].time \in Nat
    BY <1>1, HeadNat DEF BaseInv
  <2>3. ASSUME NEW k \in 1..h PROVE made[k].time <= HeadTime
    <3>1. made # <<>> /\ h \in 1..h
      BY <1>1, <1>4 DEF head
    <3>2. HeadTime = made[h].time
      BY <1>1, <3>1 DEF HeadTime
    <3>3. made[k].time <= made[h].time
      BY <1>1, <1>4, <3>1 DEF RetainInv
    <3> QED
      BY <3>2, <3>3
  <2> QED
    BY <1>2, <2>1, <2>2, <2>3
<1>6. ASSUME NEW m \in 1..(h + 1), NEW n \in 1..(h + 1), m <= n
      PROVE  made'[m].time <= made'[n].time
  <2>1. CASE n \in 1..h
    <3>1. m \in 1..h
      BY <1>4, <1>6, <2>1
    <3>2. made[m].time <= made[n].time
      BY <1>1, <1>6, <2>1, <3>1 DEF RetainInv
    <3> QED
      BY <1>4, <2>1, <3>1, <3>2
  <2>2. CASE n = h + 1 /\ m \in 1..h
    BY <1>4, <1>5, <2>2
  <2>3. CASE n = h + 1 /\ m = h + 1
    <3>1. w \in Int
      BY <1>2, HeadNat, HistoryAssumption DEF BaseInv
    <3> QED
      BY <1>4, <2>3, <3>1
  <2> QED
    BY <1>4, <2>1, <2>2, <2>3
<1>7. job'.pc \in {"idle", "tick"}
  BY <1>3, QuietPc
<1> QED
  BY <1>4, <1>6, <1>7 DEF RetainInv, Working

LEMMA RetainTick ==
    ASSUME BaseInv, RetainInv, prune_tick
    PROVE  RetainInv'
<1>1. made' = made /\ head' = head
  BY DEF prune_tick, head
<1>2. PICK r : r = retain_count(config.policy, find_block_at_timestamp)
  OBVIOUS
<1>3. ConfigOK(config) /\ prune_state.before \in Int
  BY DEF BaseInv, TypeInv, PruneStateOK, Number, None
<1>4. ~CapTrigger => \A n \in 1..head : n <= head - r => Old(n)
  BY <1>2, <1>3, TickRetains DEF BaseInv, RetainInv
<1>5. config'.policy = config.policy
  <2>1. PICK d : d = Refreshed(config, prune_state.before)
    OBVIOUS
  <2>2. Keeps(config, d)
    BY <1>3, <2>1, RefreshedKeeps DEF BaseInv
  <2>3. PICK c : c = IF config.oldest = None THEN d ELSE config
    OBVIOUS
  <2>4. ConfigOK(c) /\ c.policy = config.policy
    BY <1>3, <2>2, <2>3 DEF Keeps
  <2>5. config' = [c EXCEPT !.running = TRUE] \/ config' = c
    BY <2>1, <2>3 DEF prune_tick
  <2>6. PICK a, b, p, o, q : c = [enabled |-> a, running |-> b, policy |-> p, oldest |-> o, oldest_time |-> q]
    BY <2>4 DEF ConfigOK
  <2>7. CASE config' = [c EXCEPT !.running = TRUE]
    BY <2>4, <2>6, <2>7
  <2> QED
    BY <2>4, <2>5, <2>7
<1>6. CASE job' = Idle
  BY <1>1, <1>6, QuietPc, RetainQuiet
<1>7. CASE job' # Idle
  <2>1. job' = Started(r, config.policy.max_ops, TRUE, CapTrigger)
    BY <1>2, <1>7 DEF prune_tick
  <2>2. job'.pc = "enter" /\ job'.retain = r /\ (job'.by_size <=> CapTrigger)
    BY <2>1 DEF Started
  <2>3. ~job'.by_size => \A n \in 1..head : n <= head - r => Old(n)'
    BY <1>1, <1>4, <1>5, <2>2, OldSame
  <2> QED
    BY <1>1, <2>2, <2>3 DEF RetainInv, Working
<1> QED
  BY <1>6, <1>7

LEMMA RetainEnter ==
    ASSUME BaseInv, RetainInv, PruneEnter
    PROVE  RetainInv'
<1>1. made' = made /\ head' = head /\ job.pc = "enter" /\ (RecoverNothing \/ RecoverBlock)
  BY DEF PruneEnter, head
<1>2. config'.policy = config.policy
  <2>1. ConfigOK(config)
    BY DEF BaseInv, TypeInv
  <2>2. prune_state'.before \in Int
    BY EnterBase DEF BaseInv, TypeInv, PruneStateOK, Number, None
  <2>3. config' = config \/ \E b : prune_state'.before = b /\ config' = Refreshed(config, b)
    BY <1>1 DEF RecoverNothing, RecoverBlock
  <2> QED
    BY <2>1, <2>2, <2>3, RefreshedKeeps DEF BaseInv, Keeps
<1>3. CASE head <= job.retain
  <2>1. job' = [job EXCEPT !.pc = "end"]
    BY <1>3 DEF PruneEnter
  <2>2. job'.pc = "end"
    BY <1>1, <2>1, EntersJob
  <2> QED
    BY <1>1, <2>2, RetainQuiet
<1>4. CASE ~(head <= job.retain)
  <2>1. /\ job'.pc = "loop" /\ job'.upto = head - job.retain
        /\ job'.tick = job.tick /\ job'.by_size = job.by_size
    BY <1>4 DEF PruneEnter
  <2>2. job.tick /\ ~job.by_size => \A n \in 1..head : n <= head - job.retain => Old(n)'
    BY <1>1, <1>2, OldSame DEF RetainInv
  <2> QED
    BY <1>1, <2>1, <2>2 DEF RetainInv, Working
<1> QED
  BY <1>3, <1>4

\* A step of the loop leaves the limit and the policy alone.
LEMMA RetainLoop ==
    ASSUME RetainInv, made' = made, config' = config,
           job.pc \in {"loop"} \cup Working, job'.pc \in {"loop"} \cup Working,
           job'.upto = job.upto, job'.tick = job.tick, job'.by_size = job.by_size
    PROVE  RetainInv'
<1>1. head' = head /\ job'.pc # "enter"
  BY DEF head, Working
<1>2. job.tick /\ ~job.by_size => \A n \in 1..head : n <= job.upto => Old(n)'
  BY OldSame DEF RetainInv
<1> QED
  BY <1>1, <1>2 DEF RetainInv

LEMMA NextRetain ==
    ASSUME BaseInv, RetainInv, [Next]_vars
    PROVE  RetainInv'
<1>1. CASE \E txs \in Shapes, gap \in Gaps : Produce(txs, gap)
  BY <1>1, RetainProduce
<1>2. CASE (\E p \in Policies : set_prune_policy(p)) \/ (\E on \in BOOLEAN : set_pruning_enabled(on))
  <2>1. made' = made /\ job' = Idle
    BY <1>2 DEF set_prune_policy, set_pruning_enabled
  <2> QED
    BY <2>1, QuietPc, RetainQuiet
<1>3. CASE prune_tick
  BY <1>3, RetainTick
<1>4. CASE \E m \in Manual : PruneCall(m[1], m[2])
  <2>1. made' = made /\ \E r, x : job' = Started(r, x, FALSE, FALSE)
    BY <1>4 DEF PruneCall
  <2>2. job'.pc = "enter" /\ job'.tick = FALSE
    BY <2>1 DEF Started
  <2> QED
    BY <2>1, <2>2 DEF RetainInv, Working, head
<1>5. CASE PruneEnter
  BY <1>5, RetainEnter
<1>6. CASE PruneAbsent \/ PruneJournal \/ PruneCursor \/ PruneDelete \/ PruneReclaim
  BY <1>6, LoopStep, RetainLoop
<1>7. CASE PruneFinish \/ PruneEnd \/ Stop
  <2>1. made' = made /\ job' = Idle
    BY <1>7 DEF PruneFinish, PruneEnd, Stop
  <2> QED
    BY <2>1, QuietPc, RetainQuiet
<1>8. CASE Poll \/ Page \/ UNCHANGED vars
  <2>1. UNCHANGED <<made, config, job>>
    BY <1>8 DEF Poll, Page, vars
  <2> QED
    BY <2>1 DEF RetainInv, Old, Cutoff, HeadTime, head
<1> QED
  BY <1>1, <1>2, <1>3, <1>4, <1>5, <1>6, <1>7, <1>8 DEF Next

\* A step deletes blocks only when a prune or a recovery deletes the journaled one.
LEMMA OnlyDeletes ==
    ASSUME BaseInv, [Next]_vars, NEW n \in DOMAIN blocks, n \notin DOMAIN blocks'
    PROVE  (PruneDelete /\ n = job.next) \/ (PruneEnter /\ n \in DOMAIN prune_journal)
<1>1. blocks' # blocks
  OBVIOUS
<1>2. CASE \E txs \in Shapes, gap \in Gaps : Produce(txs, gap)
  BY <1>2 DEF Produce, With
<1>3. CASE PruneDelete
  BY <1>3 DEF PruneDelete, Delete, Drop
<1>4. CASE PruneEnter
  <2>1. n = JournalBlock /\ JournalBlock \in DOMAIN prune_journal
    BY <1>1, <1>4 DEF PruneEnter, RecoverNothing, RecoverBlock, Delete, Drop, tables
  <2> QED
    BY <1>4, <2>1
<1>5. CASE (\E p \in Policies : set_prune_policy(p)) \/ (\E on \in BOOLEAN : set_pruning_enabled(on))
           \/ prune_tick \/ (\E m \in Manual : PruneCall(m[1], m[2])) \/ Stop \/ PruneEnd
  BY <1>1, <1>5 DEF set_prune_policy, set_pruning_enabled, prune_tick, PruneCall, Stop, PruneEnd, tables
<1>6. CASE PruneAbsent \/ PruneJournal \/ PruneCursor \/ PruneReclaim \/ PruneFinish
           \/ Poll \/ Page \/ UNCHANGED vars
  BY <1>1, <1>6 DEF PruneAbsent, PruneJournal, PruneCursor, PruneReclaim, PruneFinish, Poll, Page, vars, tables
<1> QED
  BY <1>2, <1>3, <1>4, <1>5, <1>6 DEF Next

\* What PrunesOnlyOldBlocks says of a step.
DeletesOld ==
    \A n \in DOMAIN blocks \ DOMAIN blocks' :
        /\ n < head
        /\ job.pc = "cursor" /\ job.tick /\ ~job.by_size =>
            \/ made[n].time <= Cutoff
            \/ config.policy.retain_blocks > 0 /\ n <= head - config.policy.retain_blocks

LEMMA StepDeletesOld ==
    ASSUME BaseInv, BelowInv, RetainInv, [Next]_vars
    PROVE  DeletesOld
<1>1. ASSUME NEW n \in DOMAIN blocks \ DOMAIN blocks'
      PROVE  /\ n < head
             /\ job.pc = "cursor" /\ job.tick /\ ~job.by_size => Old(n)
  <2>1. n \in 1..head
    BY LoadsWhatIsThere DEF BaseInv
  <2>2. CASE PruneDelete /\ n = job.next
    <3>1. job.pc = "cursor"
      BY <2>2 DEF PruneDelete
    <3>2. n \in DOMAIN prune_journal
      BY <2>2, <3>1 DEF BaseInv, JournalInv, Working
    <3>3. PICK u, o, x, t, z, k, a, b, c :
            job = Loop("cursor", u, o, x, t, z, k, Cursor(a, b, c)) /\ LoopOK("cursor", u, k, a, b, c, head)
      BY <3>1, LoopJob DEF Working
    <3>4. n <= job.upto
      BY <2>2, <3>3, LoopFields DEF LoopOK, Working
    <3>5. job.tick /\ ~job.by_size => Old(n)
      BY <2>1, <3>1, <3>4 DEF RetainInv, Working
    <3> QED
      BY <3>2, <3>5 DEF BelowInv
  <2>3. CASE PruneEnter /\ n \in DOMAIN prune_journal
    <3>1. job.pc = "enter"
      BY <2>3 DEF PruneEnter
    <3> QED
      BY <2>3, <3>1 DEF BelowInv
  <2> QED
    BY <2>2, <2>3, OnlyDeletes
<1> QED
  BY <1>1 DEF DeletesOld, Old

OldBlocksInv == BaseInv /\ BelowInv /\ RetainInv

(* Whatever the policy is changed to and wherever a prune stops, a step    *)
(* never deletes the head, and a prune by age deletes only blocks older    *)
(* than the retained days or below the retained number of blocks: the      *)
(* search for the cutoff never ends on a younger block (prune_tick,        *)
(* compute_retain_count, find_block_at_timestamp, prune_blocks).           *)
THEOREM PrunesOnlyOld == Spec => PrunesOnlyOldBlocks
<1>1. Init => OldBlocksInv
  <2>1. ASSUME Init PROVE OldBlocksInv
    <3>1. BaseInv
      BY <2>1, InitBase
    <3>2. head = 0 /\ job.pc = "idle" /\ DOMAIN prune_journal = {}
      BY <2>1, QuietPc DEF Init, head, Empty
    <3>3. RetainInv
      BY <3>2 DEF RetainInv, Working
    <3> QED
      BY <3>1, <3>2, <3>3 DEF OldBlocksInv, BelowInv
  <2> QED
    BY <2>1
<1>2. OldBlocksInv /\ [Next]_vars => OldBlocksInv'
  BY NextBase, NextBelow, NextRetain DEF OldBlocksInv
<1>3. OldBlocksInv /\ [Next]_vars => DeletesOld
  BY StepDeletesOld DEF OldBlocksInv
<1> QED
  BY <1>1, <1>2, <1>3, PTL DEF Spec, PrunesOnlyOldBlocks, DeletesOld

=============================================================================
