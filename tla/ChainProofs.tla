---------------------------- MODULE ChainProofs ----------------------------
(***************************************************************************)
(* Proofs about Chain, for every set of transactions, senders and          *)
(* principals and every value of the limits.                               *)
(*                                                                         *)
(* The indexes of the mempool agree only because a sender has at most one  *)
(* pending transaction, every pending transaction is in the ready queue,   *)
(* and a transaction of a stored block is not pending any more: PoolInv    *)
(* adds these facts to the two properties and is inductive.  The second    *)
(* half, on what the pipeline remembers (the caches of the mempool, the    *)
(* principals' counters, the dropped ring, the stored blocks and what is   *)
(* said of their transactions), rests on it.                               *)
(***************************************************************************)
EXTENDS Chain, FiniteSetTheorems, TLAPS

LocType == [kind : LocKinds, seq : Nat, block : Nat, index : Nat]

SeenCoversLocations == \A t \in Tx : tx_locs[t].kind # "none" => t \in seen_tx

BlocksHoldIncluded ==
    \A n \in DOMAIN blocks : \A t \in blocks[n] :
        tx_locs[t].kind = "included" /\ tx_locs[t].block = n

PoolInv ==
    /\ TypeOK
    /\ PendingIndexesAgree
    /\ NothingStranded
    /\ SeenCoversLocations
    /\ BlocksHoldIncluded

-----------------------------------------------------------------------------
(* What leaves the mempool and what stays.                                 *)

\* A sender has one pending transaction at most, and it is the one under
\* pending_current_by_sender.
LEMMA OnePerSender ==
    ASSUME PoolInv, NEW t \in pending_meta_by_tx_id
    PROVE  /\ t \in Tx
           /\ pending_current_by_sender[Sender[t]] = t
           /\ pending_by_sender_nonce[PendingKey(t)] = t
           /\ pending_min_nonce[Sender[t]] = Nonce[t]
           /\ tx_locs[t].kind = "queued"
BY TxAssumption, FieldAssumption
   DEF PoolInv, TypeOK, PendingIndexesAgree, NothingStranded, HasCurrent

\* A key of pending_by_sender_nonce holds a pending transaction with this key.
LEMMA KeyHoldsPending ==
    ASSUME PoolInv, NEW k \in Senders \X Nonces,
           pending_by_sender_nonce[k] # NoTx
    PROVE  /\ pending_by_sender_nonce[k] \in pending_meta_by_tx_id
           /\ PendingKey(pending_by_sender_nonce[k]) = k
BY DEF PoolInv, TypeOK, PendingIndexesAgree

\* The ready queue holds pending transactions only.
LEMMA ReadyIsPending ==
    ASSUME PoolInv PROVE ReadyTxs \subseteq pending_meta_by_tx_id
BY DEF PoolInv, NothingStranded, ReadyTxs

LEMMA KeyType ==
    ASSUME NEW t \in Tx
    PROVE  PendingKey(t) \in Senders \X Nonces /\ Nonce[t] \in Nat
BY FieldAssumption DEF PendingKey, Nonces

\* PendingAfter and CurrentAfter forget exactly the leaving transactions.
LEMMA PendingLeaves ==
    ASSUME PoolInv, NEW D \in SUBSET pending_meta_by_tx_id
    PROVE  /\ PendingAfter(D) \in [Senders \X Nonces -> Tx \cup {NoTx}]
           /\ CurrentAfter(D) \in [Senders -> Tx \cup {NoTx}]
           /\ \A t \in Tx : PendingAfter(D)[PendingKey(t)] = t
                              <=> t \in pending_meta_by_tx_id \ D
           /\ \A t \in Tx : CurrentAfter(D)[Sender[t]] = t
                              <=> t \in pending_meta_by_tx_id \ D
           /\ \A k \in Senders \X Nonces : PendingAfter(D)[k] # NoTx =>
                  PendingKey(PendingAfter(D)[k]) = k
           /\ \A s \in Senders : CurrentAfter(D)[s] # NoTx =>
                  Sender[CurrentAfter(D)[s]] = s
<1>1. D \subseteq Tx
  BY DEF PoolInv, TypeOK
<1>2. PendingAfter(D) \in [Senders \X Nonces -> Tx \cup {NoTx}]
  BY DEF PoolInv, TypeOK, PendingAfter
<1>3. CurrentAfter(D) \in [Senders -> Tx \cup {NoTx}]
  BY DEF PoolInv, TypeOK, CurrentAfter
<1>4. ASSUME NEW t \in Tx
      PROVE  PendingAfter(D)[PendingKey(t)] = t
               <=> t \in pending_meta_by_tx_id \ D
  <2>1. PendingKey(t) \in Senders \X Nonces
    BY KeyType
  <2>2. t \in pending_meta_by_tx_id
          <=> pending_by_sender_nonce[PendingKey(t)] = t
    BY DEF PoolInv, PendingIndexesAgree
  <2>3. \A d \in D : pending_by_sender_nonce[PendingKey(d)] = d
    BY OnePerSender
  <2>4. t # NoTx
    BY TxAssumption
  <2>. QED
    BY <2>1, <2>2, <2>3, <2>4 DEF PendingAfter
<1>5. ASSUME NEW t \in Tx
      PROVE  CurrentAfter(D)[Sender[t]] = t
               <=> t \in pending_meta_by_tx_id \ D
  <2>1. Sender[t] \in Senders /\ t # NoTx
    BY FieldAssumption, TxAssumption
  <2>2. t \in pending_meta_by_tx_id
          <=> pending_current_by_sender[Sender[t]] = t
    BY DEF PoolInv, PendingIndexesAgree
  <2>. QED
    BY <2>1, <2>2 DEF CurrentAfter
<1>6. ASSUME NEW k \in Senders \X Nonces, PendingAfter(D)[k] # NoTx
      PROVE  PendingKey(PendingAfter(D)[k]) = k
  BY <1>6, KeyHoldsPending DEF PendingAfter
<1>7. ASSUME NEW s \in Senders, CurrentAfter(D)[s] # NoTx
      PROVE  Sender[CurrentAfter(D)[s]] = s
  BY <1>7 DEF CurrentAfter, PoolInv, PendingIndexesAgree, HasCurrent
<1>. QED
  BY <1>2, <1>3, <1>4, <1>5, <1>6, <1>7

\* MinNonceAfter and ReadyAfter follow: a sender whose transaction leaves has
\* nothing left to promote.
LEMMA QueueLeaves ==
    ASSUME PoolInv, NEW D \in SUBSET pending_meta_by_tx_id
    PROVE  /\ \A s \in Senders :
                MinNonceAfter(D)[s] = IF CurrentAfter(D)[s] # NoTx
                                      THEN Nonce[CurrentAfter(D)[s]] ELSE None
           /\ \A t \in Tx :
                ReadyAfter(D)[t] = IF t \in pending_meta_by_tx_id \ D
                                   THEN tx_locs[t].seq ELSE None
           /\ ReadyAfter(D) \in [Tx -> Nat \cup {None}]
           /\ MinNonceAfter(D) \in [Senders -> Nonces \cup {None}]
<1>1. \A d \in D : d \in Tx /\ pending_current_by_sender[Sender[d]] = d
                   /\ pending_min_nonce[Sender[d]] = Nonce[d]
  BY OnePerSender
<1>2. \A s \in Senders : Refreshed(s, D) <=> pending_current_by_sender[s] \in D
  <2>1. ASSUME NEW s \in Senders, Refreshed(s, D)
        PROVE  pending_current_by_sender[s] \in D
    BY <2>1, <1>1 DEF Refreshed
  <2>2. ASSUME NEW s \in Senders, pending_current_by_sender[s] \in D
        PROVE  Refreshed(s, D)
    <3>1. Sender[pending_current_by_sender[s]] = s
      BY <2>2, <1>1, TxAssumption
         DEF PoolInv, PendingIndexesAgree, HasCurrent
    <3>. QED
      BY <2>2, <3>1, <1>1 DEF Refreshed
  <2>. QED
    BY <2>1, <2>2
<1>3. ASSUME NEW s \in Senders, pending_current_by_sender[s] \in D
      PROVE  LaterNonces(s, pending_min_nonce[s], D) = {}
  <2>. SUFFICES ASSUME NEW m \in Nonces, PendingAfter(D)[<< s, m >>] # NoTx
                PROVE  FALSE
    BY DEF LaterNonces
  <2>. DEFINE u == pending_by_sender_nonce[<< s, m >>]
  <2>1. << s, m >> \in Senders \X Nonces
    OBVIOUS
  <2>2. u # NoTx /\ ~ \E d \in D : PendingKey(d) = << s, m >>
    BY <2>1 DEF PendingAfter
  <2>3. u \in pending_meta_by_tx_id /\ PendingKey(u) = << s, m >>
    BY <2>1, <2>2, KeyHoldsPending
  <2>4. Sender[u] = s
    BY <2>3 DEF PendingKey
  <2>5. u = pending_current_by_sender[s]
    BY <2>3, <2>4, OnePerSender
  <2>. QED
    BY <2>2, <2>3, <2>5, <1>3
<1>4. ASSUME NEW s \in Senders
      PROVE  /\ MinNonceAfter(D)[s] = IF CurrentAfter(D)[s] # NoTx
                                      THEN Nonce[CurrentAfter(D)[s]] ELSE None
             /\ MinNonceAfter(D)[s] \in Nonces \cup {None}
  <2>1. CASE pending_current_by_sender[s] \in D
    <3>1. MinNonceAfter(D)[s] = None
      BY <2>1, <1>2, <1>3 DEF MinNonceAfter, MinOrNone
    <3>. QED
      BY <2>1, <3>1 DEF CurrentAfter
  <2>2. CASE pending_current_by_sender[s] \notin D
    <3>1. MinNonceAfter(D)[s] = pending_min_nonce[s]
      BY <2>2, <1>2 DEF MinNonceAfter
    <3>. QED
      BY <2>2, <3>1 DEF CurrentAfter, PoolInv, TypeOK, NothingStranded,
                        HasCurrent
  <2>. QED
    BY <2>1, <2>2
<1>5. ASSUME NEW t \in Tx
      PROVE  /\ ReadyAfter(D)[t] = IF t \in pending_meta_by_tx_id \ D
                                   THEN tx_locs[t].seq ELSE None
             /\ ReadyAfter(D)[t] \in Nat \cup {None}
  <2>1. ready_queue[t] = IF t \in pending_meta_by_tx_id
                         THEN tx_locs[t].seq ELSE None
    BY DEF PoolInv, NothingStranded
  <2>2. tx_locs[t].seq \in Nat
    BY DEF PoolInv, TypeOK
  <2>3. Promoted(t, D) => t \in pending_meta_by_tx_id \ D
    BY PendingLeaves DEF Promoted
  <2>. QED
    BY <2>1, <2>2, <2>3 DEF ReadyAfter
<1>6. MinNonceAfter(D) \in [Senders -> Nonces \cup {None}]
  <2>1. MinNonceAfter(D) = [s \in Senders |-> MinNonceAfter(D)[s]]
    BY DEF MinNonceAfter
  <2>. QED
    BY <2>1, <1>4
<1>7. ReadyAfter(D) \in [Tx -> Nat \cup {None}]
  <2>1. ReadyAfter(D) = [t \in Tx |-> ReadyAfter(D)[t]]
    BY DEF ReadyAfter
  <2>. QED
    BY <2>1, <1>5
<1>. QED
  BY <1>4, <1>5, <1>6, <1>7

\* The locations after a set of drops: the dropped ones are no longer queued,
\* the ring forgets old drops only, everything else stays.
LEMMA LocsLeave ==
    ASSUME PoolInv, NEW D \in SUBSET Tx, NEW ring
    PROVE  /\ LocsAfter(D, ring) \in [Tx -> LocType]
           /\ \A t \in D : LocsAfter(D, ring)[t].kind \in {"dropped", "none"}
           /\ \A t \in Tx \ D :
                \/ LocsAfter(D, ring)[t] = tx_locs[t]
                \/ /\ LocsAfter(D, ring)[t] = NoLoc
                   /\ tx_locs[t].kind = "dropped"
<1>1. tx_locs \in [Tx -> LocType]
  BY DEF PoolInv, TypeOK, LocType
<1>2. NoLoc \in LocType /\ Dropped \in LocType
      /\ NoLoc.kind = "none" /\ Dropped.kind = "dropped"
  BY DEF NoLoc, Dropped, Loc, LocType, LocKinds
<1>. QED
  BY <1>1, <1>2 DEF LocsAfter

\* The ring keeps natural sequence numbers.
LEMMA RingType ==
    ASSUME TypeOK, NEW D \in SUBSET Tx, NEW rank \in [D -> Nat]
    PROVE  /\ RingAfter(D, rank) \in [Tx -> Nat \cup {None}]
           /\ Cardinality(D) \in Nat
<1>1. IsFiniteSet(D) /\ Cardinality(D) \in Nat
  BY FS_Subset, FS_CardinalityType, TxAssumption
<1>. QED
  BY <1>1, LimitAssumption DEF RingAfter, TypeOK, None

\* Counters stay natural numbers.
LEMMA CountType ==
    ASSUME TypeOK, NEW D \in SUBSET Tx
    PROVE  CountAfter(D) \in [Principals -> Nat]
<1>1. ASSUME NEW p \in Principals
      PROVE  Cardinality({d \in D : tx_store[d] = p}) \in Nat
  <2>1. IsFiniteSet({d \in D : tx_store[d] = p})
    BY FS_Subset, TxAssumption
  <2>. QED
    BY <2>1, FS_CardinalityType
<1>. QED
  BY <1>1 DEF CountAfter, SatSub, TypeOK

-----------------------------------------------------------------------------
(* Submission.                                                             *)

\* A price that exists is a natural number.
LEMMA PriceType ==
    ASSUME NEW t \in Tx, NEW fee \in Nat
    PROVE  /\ effective_gas_price(t, fee) \in Nat \cup {None}
           /\ IndexedPrice(t, fee) \in Nat
BY FieldAssumption DEF effective_gas_price, IndexedPrice, None

\* Accepting t once the pending transactions of D left: whatever the path,
\* Enqueue needs t's sender to have no pending transaction, and a minimum
\* nonce and a ready queue that already forgot D.
LEMMA EnqueuePreserves ==
    ASSUME PoolInv,
           NEW t \in Tx, NEW p \in Principals,
           NEW D \in SUBSET pending_meta_by_tx_id,
           NEW minNonce, NEW ready,
           t \notin seen_tx,
           effective_gas_price(t, base_fee) # None,
           CurrentAfter(D)[Sender[t]] = NoTx,
           minNonce \in [Senders -> Nonces \cup {None}],
           minNonce[Sender[t]] = None,
           \A s \in Senders \ {Sender[t]} :
               minNonce[s] = IF CurrentAfter(D)[s] # NoTx
                             THEN Nonce[CurrentAfter(D)[s]] ELSE None,
           \A x \in Tx \ {t} :
               ready[x] = IF x \in pending_meta_by_tx_id \ D
                          THEN tx_locs[x].seq ELSE None,
           Enqueue(t, p, D, minNonce, ready)
    PROVE  PoolInv'
<1>. DEFINE s == Sender[t]
            ring == RingAfter(D, [d \in D |-> 0])
            locs == LocsAfter(D, ring)
<1>1. /\ D \subseteq Tx
      /\ s \in Senders /\ Nonce[t] \in Nonces /\ Nonce[t] \in Nat
      /\ t # NoTx /\ p # NoPrincipal
  BY FieldAssumption, TxAssumption DEF PoolInv, TypeOK, Nonces
<1>2. t \notin pending_meta_by_tx_id /\ t \notin D
  BY DEF PoolInv, PendingIndexesAgree
<1>3. tx_locs[t].kind = "none"
  BY DEF PoolInv, SeenCoversLocations
<1>4. ring \in [Tx -> Nat \cup {None}] /\ Cardinality(D) \in Nat
  BY <1>1, RingType DEF PoolInv
<1>5. CountAfter(D) \in [Principals -> Nat]
  BY <1>1, CountType DEF PoolInv
<1>6. effective_gas_price(t, base_fee) \in Nat
  BY PriceType DEF PoolInv, TypeOK
<1>7. /\ Queued(next_queue_seq) \in LocType
      /\ Queued(next_queue_seq).kind = "queued"
      /\ Queued(next_queue_seq).seq = next_queue_seq
  BY DEF Queued, Loc, LocType, LocKinds, PoolInv, TypeOK
<1>8. /\ seen_tx' = seen_tx \cup {t}
      /\ tx_store' = [StoreAfter(D) EXCEPT ![t] = p]
      /\ eth_tx_hash_index' = (eth_tx_hash_index \ D) \cup ({t} \cap EthSigned)
      /\ pending_current_by_sender' = [CurrentAfter(D) EXCEPT ![s] = t]
      /\ next_queue_seq' = next_queue_seq + 1
      /\ tx_locs' = [locs EXCEPT ![t] = Queued(next_queue_seq)]
      /\ dropped_ring' = ring
      /\ dropped_next' = dropped_next + Cardinality(D)
      /\ pending_by_sender_nonce' = [PendingAfter(D) EXCEPT ![PendingKey(t)] = t]
      /\ pending_meta_by_tx_id' = (pending_meta_by_tx_id \ D) \cup {t}
      /\ principal_pending_count' = [CountAfter(D) EXCEPT ![p] = @ + 1]
      /\ pending_fee_index' =
           [FeeIndexAfter(D) EXCEPT ![t] = effective_gas_price(t, base_fee)]
      /\ pending_min_nonce' = [minNonce EXCEPT ![s] = Nonce[t]]
      /\ ready_queue' = [x \in Tx |-> IF x = t THEN next_queue_seq ELSE ready[x]]
      /\ sender_expected_nonce' = [sender_expected_nonce EXCEPT
                                     ![s] = expected_nonce_for_sender(s)]
      /\ UNCHANGED << accounts, blocks, tx_index, receipts, head, base_fee,
                      next_prune_block >>
  BY DEF Enqueue, chainVars, classify_promote
<1>9. expected_nonce_for_sender(s) \in Nat
  BY <1>1 DEF expected_nonce_for_sender, PoolInv, TypeOK, None
<1>10. /\ locs \in [Tx -> LocType]
       /\ \A x \in D : locs[x].kind \in {"dropped", "none"}
       /\ \A x \in Tx \ D : \/ locs[x] = tx_locs[x]
                            \/ locs[x] = NoLoc /\ tx_locs[x].kind = "dropped"
  BY <1>1, LocsLeave
<1>11. NoLoc.kind = "none"
  BY DEF NoLoc, Loc
<1>12. TypeOK'
  <2>1. /\ PendingAfter(D) \in [Senders \X Nonces -> Tx \cup {NoTx}]
        /\ CurrentAfter(D) \in [Senders -> Tx \cup {NoTx}]
        /\ PendingKey(t) \in Senders \X Nonces
    BY PendingLeaves, KeyType
  <2>2. ready_queue' \in [Tx -> Nat \cup {None}]
    BY <1>8 DEF PoolInv, TypeOK
  <2>3. FeeIndexAfter(D) \in [Tx -> Nat \cup {None}]
    BY DEF FeeIndexAfter, PoolInv, TypeOK
  <2>4. StoreAfter(D) \in [Tx -> Principals \cup {NoPrincipal}]
    BY DEF StoreAfter, PoolInv, TypeOK
  <2>5. tx_locs' \in [Tx -> LocType]
    BY <1>7, <1>8, <1>10
  <2>6. /\ pending_by_sender_nonce' \in [Senders \X Nonces -> Tx \cup {NoTx}]
        /\ pending_current_by_sender' \in [Senders -> Tx \cup {NoTx}]
        /\ pending_min_nonce' \in [Senders -> Nonces \cup {None}]
        /\ pending_fee_index' \in [Tx -> Nat \cup {None}]
        /\ tx_store' \in [Tx -> Principals \cup {NoPrincipal}]
    BY <1>1, <1>6, <1>8, <2>1, <2>3, <2>4
  <2>7. /\ principal_pending_count' \in [Principals -> Nat]
        /\ sender_expected_nonce' \in [Senders -> Nat \cup {None}]
        /\ next_queue_seq' \in Nat /\ dropped_next' \in Nat
        /\ dropped_ring' \in [Tx -> Nat \cup {None}]
    <3>1. /\ sender_expected_nonce \in [Senders -> Nat \cup {None}]
          /\ next_queue_seq \in Nat /\ dropped_next \in Nat
      BY DEF PoolInv, TypeOK
    <3>2. principal_pending_count' \in [Principals -> Nat]
      BY <1>5, <1>8
    <3>3. sender_expected_nonce' \in [Senders -> Nat \cup {None}]
      BY <1>8, <1>9, <3>1
    <3>. QED
      BY <1>4, <1>8, <3>1, <3>2, <3>3
  <2>8. /\ seen_tx' \subseteq Tx /\ eth_tx_hash_index' \subseteq Tx
        /\ pending_meta_by_tx_id' \subseteq Tx
    BY <1>8 DEF PoolInv, TypeOK
  <2>. QED
    BY <1>8, <2>2, <2>5, <2>6, <2>7, <2>8 DEF PoolInv, TypeOK, LocType
<1>13. PendingIndexesAgree'
  <2>1. ASSUME NEW x \in Tx
        PROVE  /\ x \in pending_meta_by_tx_id'
                    <=> pending_by_sender_nonce'[PendingKey(x)] = x
               /\ x \in pending_meta_by_tx_id'
                    <=> pending_current_by_sender'[Sender[x]] = x
    <3>1. /\ PendingKey(x) \in Senders \X Nonces /\ Sender[x] \in Senders
          /\ PendingKey(t) = PendingKey(x) => Sender[t] = Sender[x]
      BY KeyType, FieldAssumption DEF PendingKey
    <3>2. x # t /\ Sender[x] = s => x \notin pending_meta_by_tx_id \ D
      BY <1>1, PendingLeaves
    <3>. QED
      BY <1>1, <1>8, <3>1, <3>2, PendingLeaves
  <2>2. ASSUME NEW x \in Tx
        PROVE  /\ x \in pending_meta_by_tx_id' <=> pending_fee_index'[x] # None
               /\ x \in pending_meta_by_tx_id' =>
                    tx_store'[x] # NoPrincipal /\ x \in seen_tx'
    <3>1. /\ x \in pending_meta_by_tx_id <=> pending_fee_index[x] # None
          /\ x \in pending_meta_by_tx_id =>
               tx_store[x] # NoPrincipal /\ x \in seen_tx
      BY DEF PoolInv, PendingIndexesAgree
    <3>. QED
      BY <1>1, <1>6, <1>8, <3>1 DEF FeeIndexAfter, StoreAfter, None
  <2>3. ASSUME NEW x \in Tx
        PROVE  x \in pending_meta_by_tx_id' <=> tx_locs'[x].kind = "queued"
    <3>1. x \in pending_meta_by_tx_id <=> tx_locs[x].kind = "queued"
      BY DEF PoolInv, PendingIndexesAgree
    <3>. QED
      BY <1>7, <1>8, <1>10, <1>11, <3>1
  <2>4. ASSUME NEW k \in Senders \X Nonces, pending_by_sender_nonce'[k] # NoTx
        PROVE  PendingKey(pending_by_sender_nonce'[k]) = k
    BY <1>8, <2>4, PendingLeaves, KeyType
  <2>5. ASSUME NEW r \in Senders, pending_current_by_sender'[r] # NoTx
        PROVE  Sender[pending_current_by_sender'[r]] = r
    BY <1>1, <1>8, <2>5, PendingLeaves
  <2>. QED
    BY <2>1, <2>2, <2>3, <2>4, <2>5 DEF PendingIndexesAgree, HasCurrent,
                                        PendingKey
<1>14. NothingStranded'
  <2>1. ASSUME NEW x \in Tx
        PROVE  ready_queue'[x] = IF x \in pending_meta_by_tx_id'
                                 THEN tx_locs'[x].seq ELSE None
    <3>1. x \in pending_meta_by_tx_id \ D => locs[x] = tx_locs[x]
      BY <1>1, <1>10, OnePerSender
    <3>. QED
      BY <1>2, <1>7, <1>8, <1>10, <3>1
  <2>2. ASSUME NEW r \in Senders
        PROVE  pending_min_nonce'[r] = IF HasCurrent(r)'
                                       THEN Nonce[pending_current_by_sender'[r]]
                                       ELSE None
    BY <1>1, <1>8, PendingLeaves DEF HasCurrent
  <2>. QED
    BY <2>1, <2>2 DEF NothingStranded, HasCurrent
<1>15. SeenCoversLocations'
  <2>1. \A x \in D : x \in seen_tx
    BY <1>1 DEF PoolInv, PendingIndexesAgree
  <2>. QED
    BY <1>8, <1>10, <1>11, <2>1 DEF PoolInv, SeenCoversLocations
<1>16. BlocksHoldIncluded'
  <2>. SUFFICES ASSUME NEW n \in DOMAIN blocks, NEW x \in blocks[n]
                PROVE  tx_locs'[x].kind = "included" /\ tx_locs'[x].block = n
    BY <1>8 DEF BlocksHoldIncluded
  <2>1. x \in Tx /\ tx_locs[x].kind = "included" /\ tx_locs[x].block = n
    BY DEF PoolInv, TypeOK, BlocksHoldIncluded
  <2>2. x # t /\ x \notin D
    BY <1>3, <2>1, OnePerSender
  <2>. QED
    BY <1>8, <1>10, <2>1, <2>2
<1>. QED
  BY <1>12, <1>13, <1>14, <1>15, <1>16 DEF PoolInv

LEMMA AcceptPreserves ==
    ASSUME PoolInv, NEW t \in Tx, NEW p \in Principals, SubmitAccept(t, p)
    PROVE  PoolInv'
<1>1. /\ t \notin seen_tx
      /\ effective_gas_price(t, base_fee) # None
      /\ pending_current_by_sender[Sender[t]] = NoTx
      /\ Enqueue(t, p, {}, pending_min_nonce, ready_queue)
  BY DEF SubmitAccept, Submittable, FeeAdmissible, HasCurrent
<1>2. \A s \in Senders : CurrentAfter({})[s] = pending_current_by_sender[s]
  BY DEF CurrentAfter
<1>3. Sender[t] \in Senders
  BY FieldAssumption
<1>4. /\ pending_min_nonce \in [Senders -> Nonces \cup {None}]
      /\ \A s \in Senders :
           pending_min_nonce[s] = IF pending_current_by_sender[s] # NoTx
                                  THEN Nonce[pending_current_by_sender[s]]
                                  ELSE None
      /\ \A x \in Tx : ready_queue[x] = IF x \in pending_meta_by_tx_id
                                        THEN tx_locs[x].seq ELSE None
  BY DEF PoolInv, TypeOK, NothingStranded, HasCurrent
<1>. QED
  BY <1>1, <1>2, <1>3, <1>4, EnqueuePreserves

LEMMA EvictPreserves ==
    ASSUME PoolInv, NEW t \in Tx, NEW p \in Principals, NEW d \in Tx,
           SubmitEvict(t, p, d)
    PROVE  PoolInv'
<1>1. /\ t \notin seen_tx
      /\ effective_gas_price(t, base_fee) # None
      /\ pending_current_by_sender[Sender[t]] = NoTx
      /\ pending_fee_index[d] # None
      /\ Enqueue(t, p, {d}, MinNonceAfter({d}), ReadyAfter({d}))
  BY DEF SubmitEvict, Submittable, FeeAdmissible, HasCurrent, Evictable,
         LowestFee
<1>2. {d} \in SUBSET pending_meta_by_tx_id
  BY <1>1 DEF PoolInv, PendingIndexesAgree
<1>3. Sender[t] \in Senders
  BY FieldAssumption
<1>4. CurrentAfter({d})[Sender[t]] = NoTx
  BY <1>1, <1>3 DEF CurrentAfter
<1>5. MinNonceAfter({d})[Sender[t]] = None
  BY <1>2, <1>3, <1>4, QueueLeaves
<1>. QED
  BY <1>1, <1>2, <1>4, <1>5, QueueLeaves, EnqueuePreserves

LEMMA ReplacePreserves ==
    ASSUME PoolInv, NEW t \in Tx, NEW p \in Principals, SubmitReplace(t, p)
    PROVE  PoolInv'
<1>. DEFINE s == Sender[t]
            old == pending_current_by_sender[s]
            minNonce == [pending_min_nonce EXCEPT ![s] = None]
            ready == [ready_queue EXCEPT ![old] = None]
<1>1. /\ t \notin seen_tx
      /\ effective_gas_price(t, base_fee) # None
      /\ old # NoTx
      /\ Enqueue(t, p, {old}, minNonce, ready)
  BY DEF SubmitReplace, Submittable, FeeAdmissible, HasCurrent
<1>2. s \in Senders
  BY FieldAssumption
<1>3. old \in Tx /\ Sender[old] = s /\ {old} \in SUBSET pending_meta_by_tx_id
  <2>1. old \in Tx
    BY <1>1, <1>2 DEF PoolInv, TypeOK
  <2>2. Sender[old] = s
    BY <1>1, <1>2 DEF PoolInv, PendingIndexesAgree, HasCurrent
  <2>. QED
    BY <2>1, <2>2 DEF PoolInv, PendingIndexesAgree
<1>4. CurrentAfter({old})[s] = NoTx
  BY <1>2 DEF CurrentAfter
<1>5. \A r \in Senders \ {s} :
        CurrentAfter({old})[r] = pending_current_by_sender[r]
  <2>. SUFFICES ASSUME NEW r \in Senders \ {s}
                PROVE  pending_current_by_sender[r] # old
    BY DEF CurrentAfter
  <2>. QED
    BY <1>1, <1>3 DEF PoolInv, PendingIndexesAgree, HasCurrent
<1>6. /\ minNonce \in [Senders -> Nonces \cup {None}]
      /\ minNonce[s] = None
      /\ \A r \in Senders \ {s} :
           minNonce[r] = IF CurrentAfter({old})[r] # NoTx
                         THEN Nonce[CurrentAfter({old})[r]] ELSE None
  BY <1>2, <1>5 DEF PoolInv, TypeOK, NothingStranded, HasCurrent
<1>7. \A x \in Tx \ {t} :
        ready[x] = IF x \in pending_meta_by_tx_id \ {old}
                   THEN tx_locs[x].seq ELSE None
  BY <1>3 DEF PoolInv, TypeOK, NothingStranded
<1>. HIDE DEF minNonce, ready, old
<1>. QED
  BY <1>1, <1>3, <1>4, <1>6, <1>7, EnqueuePreserves

LEMMA RefusedPreserves ==
    ASSUME PoolInv, NEW t \in Tx, NEW p \in Principals, SubmitRefused(t, p)
    PROVE  PoolInv'
<1>1. expected_nonce_for_sender(Sender[t]) \in Nat /\ Sender[t] \in Senders
  BY FieldAssumption DEF expected_nonce_for_sender, PoolInv, TypeOK, None
<1>2. sender_expected_nonce' \in [Senders -> Nat \cup {None}]
  BY <1>1 DEF SubmitRefused, PoolInv, TypeOK
<1>3. UNCHANGED << seen_tx, tx_store, eth_tx_hash_index, tx_locs,
        pending_by_sender_nonce, pending_meta_by_tx_id,
        pending_current_by_sender, pending_min_nonce, pending_fee_index,
        principal_pending_count, ready_queue, next_queue_seq, dropped_ring,
        dropped_next, accounts, blocks, tx_index, receipts, head, base_fee,
        next_prune_block >>
  BY DEF SubmitRefused, locVars, chainVars
<1>. QED
  BY <1>2, <1>3 DEF PoolInv, TypeOK, PendingIndexesAgree, NothingStranded,
                    SeenCoversLocations, BlocksHoldIncluded, HasCurrent,
                    PendingKey

-----------------------------------------------------------------------------
(* Block production.                                                       *)

LEMMA RankType ==
    ASSUME NEW S \in SUBSET Tx, NEW t
    PROVE  RankIn(S, t) \in Nat /\ Cardinality(S) \in Nat
<1>1. IsFiniteSet(S) /\ IsFiniteSet({u \in S : Before(u, t)})
  BY FS_Subset, TxAssumption
<1>. QED
  BY <1>1, FS_CardinalityType DEF RankIn

\* The transactions of D (dropped) and ok (included) leave a coherent pool,
\* provided the fee index loses exactly them.
LEMMA LeavePreserves ==
    ASSUME PoolInv,
           NEW D \in SUBSET pending_meta_by_tx_id,
           NEW ok \in SUBSET (pending_meta_by_tx_id \ D),
           NEW rank \in [D -> Nat],
           LeaveMempool(D, ok, rank),
           pending_fee_index' \in [Tx -> Nat \cup {None}],
           \A t \in Tx : pending_fee_index'[t] # None
                           <=> t \in pending_meta_by_tx_id \ (D \cup ok),
           sender_expected_nonce' \in [Senders -> Nat \cup {None}],
           accounts' \in [Senders -> Nat],
           DOMAIN blocks' \subseteq 1..head',
           \A n \in DOMAIN blocks' :
               \/ n \in DOMAIN blocks /\ blocks'[n] = blocks[n]
               \/ n = head + 1 /\ blocks'[n] = ok,
           tx_index' \in [Tx -> [block : Nat, index : Nat]],
           receipts' \in [Tx -> [block : Nat, index : Nat]],
           head' \in Nat, base_fee' \in Nat
    PROVE  PoolInv'
<1>. DEFINE gone == D \cup ok
            ring == RingAfter(D, rank)
            locs == LocsAfter(D, ring)
            after == [t \in Tx |-> IF t \in ok
                                   THEN Included(head + 1, RankIn(ok, t))
                                   ELSE locs[t]]
<1>1. /\ gone \in SUBSET pending_meta_by_tx_id
      /\ gone \subseteq Tx /\ D \subseteq Tx /\ ok \subseteq Tx
  BY DEF PoolInv, TypeOK
<1>2. /\ pending_by_sender_nonce' = PendingAfter(gone)
      /\ pending_meta_by_tx_id' = pending_meta_by_tx_id \ gone
      /\ pending_current_by_sender' = CurrentAfter(gone)
      /\ pending_min_nonce' = MinNonceAfter(gone)
      /\ ready_queue' = ReadyAfter(gone)
      /\ principal_pending_count' = CountAfter(gone)
      /\ tx_store' = StoreAfter(D)
      /\ eth_tx_hash_index' = eth_tx_hash_index \ D
      /\ dropped_ring' = ring
      /\ dropped_next' = dropped_next + Cardinality(D)
      /\ tx_locs' = after
      /\ UNCHANGED << seen_tx, next_queue_seq, next_prune_block >>
  BY DEF LeaveMempool
<1>3. ring \in [Tx -> Nat \cup {None}] /\ Cardinality(D) \in Nat
  BY <1>1, RingType DEF PoolInv
<1>4. /\ locs \in [Tx -> LocType]
      /\ \A x \in D : locs[x].kind \in {"dropped", "none"}
      /\ \A x \in Tx \ D : \/ locs[x] = tx_locs[x]
                           \/ locs[x] = NoLoc /\ tx_locs[x].kind = "dropped"
  BY <1>1, LocsLeave
<1>5. NoLoc.kind = "none"
  BY DEF NoLoc, Loc
<1>6. \A t \in Tx : LET loc == Included(head + 1, RankIn(ok, t))
                    IN  /\ loc \in LocType
                        /\ loc.kind = "included" /\ loc.block = head + 1
  <2>1. head + 1 \in Nat
    BY DEF PoolInv, TypeOK
  <2>2. \A t \in Tx : RankIn(ok, t) \in Nat
    BY <1>1, RankType
  <2>. QED
    BY <2>1, <2>2 DEF Included, Loc, LocType, LocKinds
<1>7. after \in [Tx -> LocType]
  BY <1>4, <1>6
<1>. HIDE DEF gone, ring, locs
<1>8. TypeOK'
  <2>1. CountAfter(gone) \in [Principals -> Nat]
    BY <1>1, CountType DEF PoolInv
  <2>2. StoreAfter(D) \in [Tx -> Principals \cup {NoPrincipal}]
    BY DEF StoreAfter, PoolInv, TypeOK
  <2>3. /\ PendingAfter(gone) \in [Senders \X Nonces -> Tx \cup {NoTx}]
        /\ CurrentAfter(gone) \in [Senders -> Tx \cup {NoTx}]
        /\ ReadyAfter(gone) \in [Tx -> Nat \cup {None}]
        /\ MinNonceAfter(gone) \in [Senders -> Nonces \cup {None}]
    BY <1>1, PendingLeaves, QueueLeaves
  <2>4. tx_locs' \in [Tx -> LocType]
    BY <1>2, <1>7
  <2>5. /\ seen_tx' \subseteq Tx /\ eth_tx_hash_index' \subseteq Tx
        /\ pending_meta_by_tx_id' \subseteq Tx
        /\ next_queue_seq' \in Nat /\ dropped_next' \in Nat
        /\ next_prune_block' \in Nat
    BY <1>2, <1>3 DEF PoolInv, TypeOK
  <2>6. \A n \in DOMAIN blocks' : blocks'[n] \subseteq Tx
    BY <1>1 DEF PoolInv, TypeOK
  <2>. QED
    BY <1>2, <1>3, <2>1, <2>2, <2>3, <2>4, <2>5, <2>6 DEF TypeOK, LocType
<1>9. PendingIndexesAgree'
  <2>1. ASSUME NEW x \in Tx
        PROVE  /\ x \in pending_meta_by_tx_id'
                    <=> pending_by_sender_nonce'[PendingKey(x)] = x
               /\ x \in pending_meta_by_tx_id'
                    <=> pending_current_by_sender'[Sender[x]] = x
    BY <1>1, <1>2, PendingLeaves
  <2>2. ASSUME NEW x \in Tx
        PROVE  /\ x \in pending_meta_by_tx_id' <=> pending_fee_index'[x] # None
               /\ x \in pending_meta_by_tx_id' =>
                    tx_store'[x] # NoPrincipal /\ x \in seen_tx'
    BY <1>2 DEF gone, StoreAfter, PoolInv, PendingIndexesAgree
  <2>3. ASSUME NEW x \in Tx
        PROVE  x \in pending_meta_by_tx_id' <=> tx_locs'[x].kind = "queued"
    <3>1. x \in pending_meta_by_tx_id <=> tx_locs[x].kind = "queued"
      BY DEF PoolInv, PendingIndexesAgree
    <3>. QED
      BY <1>2, <1>4, <1>5, <1>6, <3>1 DEF gone
  <2>4. ASSUME NEW k \in Senders \X Nonces, pending_by_sender_nonce'[k] # NoTx
        PROVE  PendingKey(pending_by_sender_nonce'[k]) = k
    BY <1>1, <1>2, <2>4, PendingLeaves
  <2>5. ASSUME NEW r \in Senders, pending_current_by_sender'[r] # NoTx
        PROVE  Sender[pending_current_by_sender'[r]] = r
    BY <1>1, <1>2, <2>5, PendingLeaves
  <2>. QED
    BY <2>1, <2>2, <2>3, <2>4, <2>5 DEF PendingIndexesAgree, HasCurrent,
                                        PendingKey
<1>10. NothingStranded'
  <2>1. ASSUME NEW x \in Tx
        PROVE  ready_queue'[x] = IF x \in pending_meta_by_tx_id'
                                 THEN tx_locs'[x].seq ELSE None
    <3>1. x \in pending_meta_by_tx_id \ gone => tx_locs'[x] = tx_locs[x]
      BY <1>2, <1>4, OnePerSender DEF gone
    <3>2. ready_queue'[x] = IF x \in pending_meta_by_tx_id \ gone
                            THEN tx_locs[x].seq ELSE None
      BY <1>1, <1>2, QueueLeaves
    <3>. QED
      BY <1>2, <3>1, <3>2
  <2>2. ASSUME NEW r \in Senders
        PROVE  pending_min_nonce'[r] =
                 IF pending_current_by_sender'[r] # NoTx
                 THEN Nonce[pending_current_by_sender'[r]] ELSE None
    BY <1>1, <1>2, QueueLeaves
  <2>. QED
    BY <2>1, <2>2 DEF NothingStranded, HasCurrent
<1>11. SeenCoversLocations'
  <2>1. \A x \in gone : x \in seen_tx
    BY <1>1 DEF PoolInv, PendingIndexesAgree
  <2>. QED
    BY <1>2, <1>4, <1>5, <2>1 DEF gone, PoolInv, SeenCoversLocations
<1>12. BlocksHoldIncluded'
  <2>. SUFFICES ASSUME NEW n \in DOMAIN blocks', NEW x \in blocks'[n]
                PROVE  tx_locs'[x].kind = "included" /\ tx_locs'[x].block = n
    BY DEF BlocksHoldIncluded
  <2>1. CASE n = head + 1 /\ blocks'[n] = ok
    BY <1>1, <1>2, <1>6, <2>1
  <2>2. CASE n \in DOMAIN blocks /\ blocks'[n] = blocks[n]
    <3>1. x \in Tx /\ tx_locs[x].kind = "included" /\ tx_locs[x].block = n
      BY <2>2 DEF PoolInv, TypeOK, BlocksHoldIncluded
    <3>2. x \notin D /\ x \notin ok
      BY <3>1, OnePerSender
    <3>. QED
      BY <1>2, <1>4, <3>1, <3>2
  <2>. QED
    BY <2>1, <2>2
<1>. QED
  BY <1>8, <1>9, <1>10, <1>11, <1>12 DEF PoolInv

\* Base fees stay natural numbers.
LEMMA BaseFeeType ==
    ASSUME NEW fee \in Nat, NEW gasUsed \in Nat
    PROVE  compute_next_base_fee(fee, gasUsed) \in Nat
<1>. DEFINE target == BlockGasLimit \div 2
            change(delta) == ((fee * delta) \div target) \div 8
<1>1. target \in Nat
  BY LimitAssumption
<1>2. ASSUME NEW delta \in Nat, target # 0
      PROVE  change(delta) \in Nat
  <2>1. fee * delta \in Nat
    OBVIOUS
  <2>2. ASSUME NEW a \in Nat, NEW b \in Nat, b # 0
        PROVE  a \div b \in Nat
    BY <2>2
  <2>3. (fee * delta) \div target \in Nat
    BY <1>1, <1>2, <2>1, <2>2
  <2>. QED
    BY <2>2, <2>3
<1>3. target # 0 /\ gasUsed > target =>
        gasUsed - target \in Nat /\ change(gasUsed - target) \in Nat
  BY <1>1, <1>2
<1>4. target # 0 /\ gasUsed < target =>
        target - gasUsed \in Nat /\ change(target - gasUsed) \in Nat
  BY <1>1, <1>2
<1>5. compute_next_base_fee(fee, gasUsed) =
        CASE target = 0 \/ gasUsed = target -> fee
          [] target # 0 /\ gasUsed > target ->
               fee + (IF change(gasUsed - target) = 0 THEN 1
                      ELSE change(gasUsed - target))
          [] target # 0 /\ gasUsed < target ->
               SatSub(fee, change(target - gasUsed))
  BY DEF compute_next_base_fee
<1>. HIDE DEF target, change
<1>. QED
  BY <1>1, <1>3, <1>4, <1>5 DEF SatSub

LEMMA DropRankType ==
    ASSUME NEW early \in SUBSET Tx, NEW late \in SUBSET Tx
    PROVE  DropRank(early, late) \in [early \cup late -> Nat]
<1>1. /\ Cardinality(early) \in Nat
      /\ \A d : RankIn(early, d) \in Nat /\ RankIn(late, d) \in Nat
  BY RankType
<1>. QED
  BY <1>1 DEF DropRank

LEMMA ProduceBlockPreserves ==
    ASSUME PoolInv,
           NEW early \in SUBSET pending_meta_by_tx_id,
           NEW late \in SUBSET pending_meta_by_tx_id,
           NEW ok \in SUBSET pending_meta_by_tx_id,
           ok \cap (early \cup late) = {},
           NEW gasUsed \in Nat,
           ProduceBlock(early, late, ok, gasUsed)
    PROVE  PoolInv'
<1>. DEFINE D == early \cup late
            rank == DropRank(early, late)
            fee == compute_next_base_fee(base_fee, gasUsed)
<1>1. /\ D \in SUBSET pending_meta_by_tx_id
      /\ ok \in SUBSET (pending_meta_by_tx_id \ D)
      /\ (D \cup ok) \in SUBSET pending_meta_by_tx_id
      /\ early \subseteq Tx /\ late \subseteq Tx /\ ok \subseteq Tx
  BY DEF PoolInv, TypeOK
<1>2. rank \in [D -> Nat]
  BY <1>1, DropRankType
<1>3. fee \in Nat
  BY BaseFeeType DEF PoolInv, TypeOK
<1>4. /\ LeaveMempool(D, ok, rank)
      /\ accounts' = AccountsAfter(ok)
      /\ sender_expected_nonce' = ExpectedNonceAfter(ok)
      /\ head' = head + 1
      /\ blocks' = [n \in DOMAIN blocks \cup {head + 1} |->
                      IF n = head + 1 THEN ok ELSE blocks[n]]
      /\ tx_index' = [t \in Tx |-> IF t \in ok
                                   THEN Entry(head + 1, RankIn(ok, t))
                                   ELSE tx_index[t]]
      /\ receipts' = [t \in Tx |-> IF t \in ok
                                   THEN Entry(head + 1, RankIn(ok, t))
                                   ELSE receipts[t]]
      /\ base_fee' = fee
      /\ pending_fee_index' = RebuiltFeeIndex(D, ok, fee)
  BY DEF ProduceBlock
<1>5. \A s \in Senders : Bump(ok, s) \in Nat
  <2>1. \A s \in Senders : IsFiniteSet({t \in ok : Sender[t] = s})
    BY <1>1, FS_Subset, TxAssumption
  <2>. QED
    BY <2>1, FS_CardinalityType DEF Bump
<1>6. /\ accounts' \in [Senders -> Nat]
      /\ sender_expected_nonce' \in [Senders -> Nat \cup {None}]
  BY <1>4, <1>5 DEF AccountsAfter, ExpectedNonceAfter, PoolInv, TypeOK, None
<1>7. /\ head' \in Nat /\ base_fee' \in Nat
      /\ DOMAIN blocks' \subseteq 1..head'
  BY <1>3, <1>4 DEF PoolInv, TypeOK
<1>8. \A n \in DOMAIN blocks' :
        \/ n \in DOMAIN blocks /\ blocks'[n] = blocks[n]
        \/ n = head + 1 /\ blocks'[n] = ok
  BY <1>4
<1>9. \A t \in Tx : Entry(head + 1, RankIn(ok, t)) \in [block : Nat, index : Nat]
  <2>1. \A t \in Tx : RankIn(ok, t) \in Nat
    BY <1>1, RankType
  <2>2. head + 1 \in Nat
    BY DEF PoolInv, TypeOK
  <2>. QED
    BY <2>1, <2>2 DEF Entry
<1>10. /\ tx_index' \in [Tx -> [block : Nat, index : Nat]]
       /\ receipts' \in [Tx -> [block : Nat, index : Nat]]
  BY <1>4, <1>9 DEF PoolInv, TypeOK
<1>11. /\ pending_fee_index' \in [Tx -> Nat \cup {None}]
       /\ \A t \in Tx : pending_fee_index'[t] # None
                          <=> t \in pending_meta_by_tx_id \ (D \cup ok)
  <2>1. \A t \in Tx : IndexedPrice(t, fee) \in Nat /\ IndexedPrice(t, fee) # None
    BY <1>3, PriceType DEF None
  <2>2. \A t \in Tx : PendingAfter(D \cup ok)[PendingKey(t)] = t
                        <=> t \in pending_meta_by_tx_id \ (D \cup ok)
    BY <1>1, PendingLeaves
  <2>3. \A t \in pending_meta_by_tx_id \ D : StoreAfter(D)[t] # NoPrincipal
    BY DEF StoreAfter, PoolInv, TypeOK, PendingIndexesAgree
  <2>. HIDE DEF D, fee
  <2>. QED
    BY <1>4, <2>1, <2>2, <2>3 DEF RebuiltFeeIndex
<1>. HIDE DEF D, rank, fee
<1>. QED
  BY <1>1, <1>2, <1>4, <1>6, <1>7, <1>8, <1>10, <1>11, LeavePreserves

LEMMA DropOnlyPreserves ==
    ASSUME PoolInv,
           NEW early \in SUBSET pending_meta_by_tx_id,
           NEW late \in SUBSET pending_meta_by_tx_id,
           DropOnly(early, late)
    PROVE  PoolInv'
<1>. DEFINE D == early \cup late
            rank == DropRank(early, late)
<1>1. /\ D \in SUBSET pending_meta_by_tx_id
      /\ early \subseteq Tx /\ late \subseteq Tx
  BY DEF PoolInv, TypeOK
<1>2. rank \in [D -> Nat]
  BY <1>1, DropRankType
<1>3. /\ LeaveMempool(D, {}, rank)
      /\ pending_fee_index' = FeeIndexAfter(D)
      /\ UNCHANGED << sender_expected_nonce, accounts, blocks, tx_index,
                      receipts, head, base_fee >>
  BY DEF DropOnly, chainVars
<1>4. /\ pending_fee_index' \in [Tx -> Nat \cup {None}]
      /\ \A t \in Tx : pending_fee_index'[t] # None
                         <=> t \in pending_meta_by_tx_id \ (D \cup {})
  BY <1>3 DEF FeeIndexAfter, PoolInv, TypeOK, PendingIndexesAgree
<1>5. /\ sender_expected_nonce' \in [Senders -> Nat \cup {None}]
      /\ accounts' \in [Senders -> Nat]
      /\ DOMAIN blocks' \subseteq 1..head'
      /\ \A n \in DOMAIN blocks' : n \in DOMAIN blocks /\ blocks'[n] = blocks[n]
      /\ tx_index' \in [Tx -> [block : Nat, index : Nat]]
      /\ receipts' \in [Tx -> [block : Nat, index : Nat]]
      /\ head' \in Nat /\ base_fee' \in Nat
  BY <1>3 DEF PoolInv, TypeOK
<1>6. {} \in SUBSET (pending_meta_by_tx_id \ D)
  OBVIOUS
<1>. HIDE DEF D, rank
<1>. QED
  BY <1>1, <1>2, <1>3, <1>4, <1>5, <1>6, LeavePreserves

LEMMA ProducePreserves == ASSUME PoolInv, Produce PROVE PoolInv'
<1>. DEFINE P == Prepared(select_ready_candidates(Window))
            S == Staged(P)
<1>1. PICK ok \in SUBSET S : \E used \in [ok -> 1..MaxBlockGas] :
        LET handled == Handled(Cardinality(P), S, ok, used)
        IN  \/ ok = {} /\ DropOnly(P \ S, handled)
            \/ \E last \in ok : ProduceBlock(P \ S, handled \ ok, ok, used[last])
  <2>1. Execute(P, S)
    BY DEF Produce
  <2>. HIDE DEF P, S
  <2>. QED
    BY <2>1 DEF Execute
<1>2. PICK used \in [ok -> 1..MaxBlockGas] :
        LET handled == Handled(Cardinality(P), S, ok, used)
        IN  \/ ok = {} /\ DropOnly(P \ S, handled)
            \/ \E last \in ok : ProduceBlock(P \ S, handled \ ok, ok, used[last])
  BY <1>1
<1>. DEFINE handled == Handled(Cardinality(P), S, ok, used)
<1>3. P \subseteq pending_meta_by_tx_id
  BY ReadyIsPending DEF Prepared, select_ready_candidates, Window
<1>4. S \subseteq P /\ handled \subseteq S /\ ok \subseteq S
  BY DEF Staged, Handled
<1>5. CASE ok = {} /\ DropOnly(P \ S, handled)
  BY <1>3, <1>4, <1>5, DropOnlyPreserves
<1>6. CASE \E last \in ok : ProduceBlock(P \ S, handled \ ok, ok, used[last])
  <2>1. PICK last \in ok : ProduceBlock(P \ S, handled \ ok, ok, used[last])
    BY <1>6
  <2>2. used[last] \in Nat
    BY LimitAssumption
  <2>3. /\ P \ S \in SUBSET pending_meta_by_tx_id
        /\ handled \ ok \in SUBSET pending_meta_by_tx_id
        /\ ok \in SUBSET pending_meta_by_tx_id
        /\ ok \cap ((P \ S) \cup (handled \ ok)) = {}
    BY <1>3, <1>4
  <2>. HIDE DEF handled
  <2>. QED
    BY <2>1, <2>2, <2>3, ProduceBlockPreserves
<1>. QED
  BY <1>2, <1>5, <1>6

-----------------------------------------------------------------------------
(* Pruning: the transactions of a stored block are not pending, so nothing *)
(* of the mempool moves but the principals' counters.                      *)

LEMMA PruneBlockPreserves ==
    ASSUME PoolInv, NEW retain \in Retains, PruneBlock(retain)
    PROVE  PoolInv'
<1>. DEFINE b == next_prune_block
            P == blocks[b]
<1>1. /\ b \in DOMAIN blocks
      /\ next_prune_block' = b + 1
      /\ blocks' = [n \in DOMAIN blocks \ {b} |-> blocks[n]]
      /\ pending_fee_index' = FeeIndexAfter(P)
      /\ principal_pending_count' = CountAfter(P)
      /\ tx_index' = Without(P, tx_index)
      /\ receipts' = Without(P, receipts)
      /\ tx_locs' = [t \in Tx |-> IF t \in P THEN NoLoc ELSE tx_locs[t]]
      /\ eth_tx_hash_index' = eth_tx_hash_index \ P
      /\ tx_store' = StoreAfter(P)
      /\ seen_tx' = seen_tx \ P
      /\ UNCHANGED << pending_by_sender_nonce, pending_meta_by_tx_id,
           pending_current_by_sender, pending_min_nonce, ready_queue,
           sender_expected_nonce, next_queue_seq, dropped_ring,
           dropped_next, accounts, head, base_fee >>
  BY DEF PruneBlock
<1>2. P \subseteq Tx /\ P \cap pending_meta_by_tx_id = {}
  <2>1. P \subseteq Tx
    BY <1>1 DEF PoolInv, TypeOK
  <2>2. \A t \in P : tx_locs[t].kind = "included"
    BY <1>1 DEF PoolInv, BlocksHoldIncluded
  <2>. QED
    BY <2>1, <2>2, OnePerSender
<1>. HIDE DEF P
<1>3. NoLoc \in LocType /\ NoLoc.kind = "none"
  BY DEF NoLoc, Loc, LocType, LocKinds
<1>4. TypeOK'
  <2>1. CountAfter(P) \in [Principals -> Nat]
    BY <1>2, CountType DEF PoolInv
  <2>2. /\ tx_locs' \in [Tx -> LocType]
        /\ tx_store' \in [Tx -> Principals \cup {NoPrincipal}]
        /\ pending_fee_index' \in [Tx -> Nat \cup {None}]
    BY <1>1, <1>3 DEF PoolInv, TypeOK, LocType, StoreAfter, FeeIndexAfter
  <2>3. NoEntry \in [block : Nat, index : Nat]
    BY DEF NoEntry, Entry
  <2>4. /\ tx_index' \in [Tx -> [block : Nat, index : Nat]]
        /\ receipts' \in [Tx -> [block : Nat, index : Nat]]
    BY <1>1, <2>3 DEF Without, PoolInv, TypeOK
  <2>5. /\ DOMAIN blocks' \subseteq 1..head'
        /\ \A n \in DOMAIN blocks' : blocks'[n] \subseteq Tx
        /\ next_prune_block' \in Nat
        /\ seen_tx' \subseteq Tx /\ eth_tx_hash_index' \subseteq Tx
    BY <1>1 DEF PoolInv, TypeOK
  <2>. QED
    BY <1>1, <2>1, <2>2, <2>4, <2>5 DEF PoolInv, TypeOK, LocType
<1>5. PendingIndexesAgree' /\ NothingStranded'
  <2>1. ASSUME NEW t \in Tx
        PROVE  /\ pending_fee_index'[t] # None <=> pending_fee_index[t] # None
               /\ tx_locs'[t].kind = "queued" <=> tx_locs[t].kind = "queued"
               /\ t \in pending_meta_by_tx_id =>
                    /\ tx_locs'[t] = tx_locs[t]
                    /\ tx_store'[t] = tx_store[t]
                    /\ t \in seen_tx => t \in seen_tx'
    <3>1. t \in P => pending_fee_index[t] = None /\ tx_locs[t].kind # "queued"
      BY <1>2 DEF PoolInv, PendingIndexesAgree
    <3>. QED
      BY <1>1, <1>2, <1>3, <3>1 DEF FeeIndexAfter, StoreAfter
  <2>2. PendingIndexesAgree'
    BY <1>1, <2>1 DEF PoolInv, PendingIndexesAgree, HasCurrent, PendingKey
  <2>3. NothingStranded'
    BY <1>1, <2>1 DEF PoolInv, NothingStranded, HasCurrent
  <2>. QED
    BY <2>2, <2>3
<1>6. SeenCoversLocations'
  BY <1>1, <1>3 DEF PoolInv, SeenCoversLocations
<1>7. BlocksHoldIncluded'
  <2>. SUFFICES ASSUME NEW n \in DOMAIN blocks \ {b}, NEW t \in blocks[n]
                PROVE  tx_locs'[t].kind = "included" /\ tx_locs'[t].block = n
    BY <1>1 DEF BlocksHoldIncluded
  <2>1. t \in Tx /\ tx_locs[t].kind = "included" /\ tx_locs[t].block = n
    BY DEF PoolInv, TypeOK, BlocksHoldIncluded
  <2>2. t \notin P
    BY <1>1, <2>1 DEF P, PoolInv, BlocksHoldIncluded
  <2>. QED
    BY <1>1, <2>1, <2>2
<1>. QED
  BY <1>4, <1>5, <1>6, <1>7 DEF PoolInv

\* A step that leaves every variable of PoolInv but the prune cursor alone.
LEMMA CursorPreserves ==
    ASSUME PoolInv, UNCHANGED << poolVars, locVars, chainVars >>,
           next_prune_block' \in Nat
    PROVE  PoolInv'
BY DEF PoolInv, poolVars, locVars, chainVars, TypeOK, PendingIndexesAgree,
       NothingStranded, SeenCoversLocations, BlocksHoldIncluded, HasCurrent,
       PendingKey

-----------------------------------------------------------------------------
(* The invariant and what follows from it.                                 *)

LEMMA InitPoolInv == Init => PoolInv
<1>. SUFFICES ASSUME Init PROVE PoolInv
  OBVIOUS
<1>1. NoLoc \in LocType /\ NoLoc.kind = "none" /\ NoLoc.seq = 0
  BY DEF NoLoc, Loc, LocType, LocKinds
<1>2. NoEntry \in [block : Nat, index : Nat]
  BY DEF NoEntry, Entry
<1>3. TypeOK
  BY <1>1, <1>2, LimitAssumption DEF Init, TypeOK, LocType
<1>4. PendingIndexesAgree
  BY <1>1, TxAssumption, KeyType, FieldAssumption
     DEF Init, PendingIndexesAgree, HasCurrent
<1>5. NothingStranded
  BY DEF Init, NothingStranded, HasCurrent
<1>6. SeenCoversLocations /\ BlocksHoldIncluded
  BY <1>1 DEF Init, SeenCoversLocations, BlocksHoldIncluded
<1>. QED
  BY <1>3, <1>4, <1>5, <1>6 DEF PoolInv

LEMMA NextPoolInv == PoolInv /\ [Next]_vars => PoolInv'
<1>. SUFFICES ASSUME PoolInv, [Next]_vars PROVE PoolInv'
  OBVIOUS
<1>1. CASE Submit
  <2>1. PICK t \in Tx, p \in Principals :
          \/ SubmitAccept(t, p)
          \/ \E d \in Tx : SubmitEvict(t, p, d)
          \/ SubmitReplace(t, p)
          \/ SubmitRefused(t, p)
    BY <1>1 DEF Submit
  <2>. QED
    BY <2>1, AcceptPreserves, EvictPreserves, ReplacePreserves,
       RefusedPreserves
<1>2. CASE Produce
  BY <1>2, ProducePreserves
<1>3. CASE Prune
  <2>1. PICK retain \in Retains : PruneSkip(retain) \/ PruneBlock(retain)
    BY <1>3 DEF Prune
  <2>2. CASE PruneSkip(retain)
    <3>1. /\ UNCHANGED << poolVars, locVars, chainVars >>
          /\ next_prune_block' \in Nat
      BY <2>2 DEF PruneSkip, PoolInv, TypeOK
    <3>. QED
      BY <3>1, CursorPreserves
  <2>. QED
    BY <2>1, <2>2, PruneBlockPreserves
<1>4. CASE UNCHANGED vars
  <2>1. /\ UNCHANGED << poolVars, locVars, chainVars >>
        /\ next_prune_block' \in Nat
    BY <1>4 DEF vars, PoolInv, TypeOK
  <2>. QED
    BY <2>1, CursorPreserves
<1>. QED
  BY <1>1, <1>2, <1>3, <1>4 DEF Next

\* PoolInv holds in every reachable state, for every size of the instance.
THEOREM PoolInvariant == Spec => []PoolInv
BY InitPoolInv, NextPoolInv, PTL DEF Spec

\* Every stable map of the pipeline keeps its shape: no handler of chain.rs
\* stores a value of the wrong kind, whatever the limits.
THEOREM TypeCorrect == Spec => []TypeOK
<1>1. PoolInv => TypeOK
  BY DEF PoolInv
<1>. QED
  BY <1>1, PoolInvariant, PTL

\* The redundant indexes of the mempool describe one set of transactions
\* after every submit, replacement, eviction, block, drop and prune.
THEOREM IndexesAlwaysAgree == Spec => []PendingIndexesAgree
<1>1. PoolInv => PendingIndexesAgree
  BY DEF PoolInv
<1>. QED
  BY <1>1, PoolInvariant, PTL

\* No pending transaction is ever missing from the ready queue, and each
\* sender's minimum pending nonce is the one of its pending transaction.
THEOREM NeverStranded == Spec => []NothingStranded
<1>1. PoolInv => NothingStranded
  BY DEF PoolInv
<1>. QED
  BY <1>1, PoolInvariant, PTL

-----------------------------------------------------------------------------
(* The steps of the pipeline, by what they write.                          *)

\* Submission t of principal p is accepted and the pending transactions of D,
\* at most one, leave for it.
Accepts(t, p, D) ==
    /\ t \notin seen_tx /\ t \notin pending_meta_by_tx_id
    /\ NonceExpected(t)
    /\ effective_gas_price(t, base_fee) # None
    /\ D = {} \/ \E d \in pending_meta_by_tx_id : D = {d}
    /\ seen_tx' = seen_tx \cup {t}
    /\ tx_store' = [StoreAfter(D) EXCEPT ![t] = p]
    /\ eth_tx_hash_index' = (eth_tx_hash_index \ D) \cup ({t} \cap EthSigned)
    /\ next_queue_seq' = next_queue_seq + 1
    /\ dropped_ring' = RingAfter(D, [d \in D |-> 0])
    /\ tx_locs' = [LocsAfter(D, dropped_ring') EXCEPT ![t] = Queued(next_queue_seq)]
    /\ dropped_next' = dropped_next + Cardinality(D)
    /\ pending_meta_by_tx_id' = (pending_meta_by_tx_id \ D) \cup {t}
    /\ principal_pending_count' = [CountAfter(D) EXCEPT ![p] = @ + 1]
    /\ pending_fee_index' =
         [FeeIndexAfter(D) EXCEPT ![t] = effective_gas_price(t, base_fee)]
    /\ sender_expected_nonce' = [sender_expected_nonce EXCEPT
                                   ![Sender[t]] = expected_nonce_for_sender(Sender[t])]
    /\ UNCHANGED << accounts, blocks, tx_index, receipts, head, base_fee,
                    next_prune_block >>

\* A refused submission caches the nonce of its sender.
Refuses(t) ==
    /\ sender_expected_nonce' = [sender_expected_nonce EXCEPT
                                   ![Sender[t]] = expected_nonce_for_sender(Sender[t])]
    /\ UNCHANGED << seen_tx, tx_store, eth_tx_hash_index, pending_meta_by_tx_id,
                    pending_fee_index, principal_pending_count, next_queue_seq,
                    tx_locs, dropped_ring, dropped_next, accounts, blocks,
                    tx_index, receipts, head, base_fee, next_prune_block >>

\* produce_block drops early and late and includes ok, which may be empty.
Split(early, late, ok) ==
    /\ early \subseteq pending_meta_by_tx_id
    /\ late \subseteq pending_meta_by_tx_id
    /\ ok \subseteq pending_meta_by_tx_id
    /\ early \cap late = {} /\ ok \cap (early \cup late) = {}
    /\ LeaveMempool(early \cup late, ok, DropRank(early, late))

Includes(early, late, ok, gasUsed) ==
    /\ Split(early, late, ok)
    /\ \A t \in ok : Nonce[t] = accounts[Sender[t]]
    /\ ProduceBlock(early, late, ok, gasUsed)

DropsOnly(early, late) ==
    /\ Split(early, late, {})
    /\ DropOnly(early, late)

\* Nothing but the prune cursor moves.
Rests ==
    /\ UNCHANGED << poolVars, locVars, chainVars >>
    /\ \/ next_prune_block' = next_prune_block
       \/ \E retain \in Retains : /\ PruneDue(retain)
                                  /\ next_prune_block \notin DOMAIN blocks
                                  /\ next_prune_block' = next_prune_block + 1

\* The writes of Enqueue that the proofs of this module use.
LEMMA EnqueueAccepts ==
    ASSUME PoolInv, NEW t \in Tx, NEW p \in Principals, NEW D, NEW minNonce, NEW ready,
           D = {} \/ \E d \in pending_meta_by_tx_id : D = {d},
           Submittable(t, p), NonceExpected(t), Enqueue(t, p, D, minNonce, ready)
    PROVE  Accepts(t, p, D)
<1>1. t \notin seen_tx /\ effective_gas_price(t, base_fee) # None
  BY DEF Submittable, FeeAdmissible
<1>2. t \notin pending_meta_by_tx_id
  BY <1>1 DEF PoolInv, PendingIndexesAgree
<1>. QED
  BY <1>1, <1>2 DEF Accepts, Enqueue, chainVars

\* Every step of the pipeline is one of these.
LEMMA StepCases ==
    ASSUME PoolInv, [Next]_vars
    PROVE  \/ \E t \in Tx, p \in Principals, D \in SUBSET Tx : Accepts(t, p, D)
           \/ \E t \in Tx : Refuses(t)
           \/ \E early, late, ok \in SUBSET Tx : \E gasUsed \in Nat :
                 Includes(early, late, ok, gasUsed)
           \/ \E early, late \in SUBSET Tx : DropsOnly(early, late)
           \/ \E retain \in Retains : PruneBlock(retain)
           \/ Rests
<1>1. ASSUME NEW t \in Tx, NEW p \in Principals, SubmitAccept(t, p)
      PROVE  Accepts(t, p, {})
  BY <1>1, EnqueueAccepts DEF SubmitAccept
<1>2. ASSUME NEW t \in Tx, NEW p \in Principals, NEW d \in Tx, SubmitEvict(t, p, d)
      PROVE  Accepts(t, p, {d})
  <2>1. d \in pending_meta_by_tx_id
    BY <1>2 DEF SubmitEvict, Evictable, LowestFee, PoolInv, PendingIndexesAgree
  <2>. QED
    BY <1>2, <2>1, EnqueueAccepts DEF SubmitEvict
<1>3. ASSUME NEW t \in Tx, NEW p \in Principals, SubmitReplace(t, p)
      PROVE  \E d \in Tx : Accepts(t, p, {d})
  <2>1. PICK old : old = pending_current_by_sender[Sender[t]]
    OBVIOUS
  <2>2. old \in pending_meta_by_tx_id /\ old \in Tx
    <3>1. Sender[t] \in Senders /\ HasCurrent(Sender[t])
      BY <1>3, FieldAssumption DEF SubmitReplace
    <3>2. old \in Tx /\ Sender[old] = Sender[t]
      BY <2>1, <3>1 DEF HasCurrent, PoolInv, TypeOK, PendingIndexesAgree
    <3>. QED
      BY <2>1, <3>2 DEF PoolInv, PendingIndexesAgree
  <2>3. \E ready, minNonce : Enqueue(t, p, {old}, minNonce, ready)
    BY <1>3, <2>1 DEF SubmitReplace
  <2>. QED
    BY <1>3, <2>2, <2>3, EnqueueAccepts DEF SubmitReplace
<1>4. ASSUME NEW t \in Tx, NEW p \in Principals, SubmitRefused(t, p)
      PROVE  Refuses(t)
  BY <1>4 DEF SubmitRefused, Refuses, locVars, chainVars
<1>5. ASSUME Produce
      PROVE  \/ \E early, late, ok \in SUBSET Tx : \E gasUsed \in Nat :
                   Includes(early, late, ok, gasUsed)
             \/ \E early, late \in SUBSET Tx : DropsOnly(early, late)
  <2>1. PICK P : P = Prepared(select_ready_candidates(Window))
    OBVIOUS
  <2>2. PICK S : S = Staged(P)
    OBVIOUS
  <2>3. Execute(P, S)
    BY <1>5, <2>1, <2>2 DEF Produce
  <2>4. PICK ok \in SUBSET S : \E used \in [ok -> 1..MaxBlockGas] :
          /\ ExecOutcome(ok, used)
          /\ \/ ok = {} /\ DropOnly(P \ S, Handled(Cardinality(P), S, ok, used))
             \/ \E last \in ok :
                  ProduceBlock(P \ S, Handled(Cardinality(P), S, ok, used) \ ok, ok,
                               used[last])
    BY <2>3 DEF Execute
  <2>5. PICK used \in [ok -> 1..MaxBlockGas] :
          /\ ExecOutcome(ok, used)
          /\ \/ ok = {} /\ DropOnly(P \ S, Handled(Cardinality(P), S, ok, used))
             \/ \E last \in ok :
                  ProduceBlock(P \ S, Handled(Cardinality(P), S, ok, used) \ ok, ok,
                               used[last])
    BY <2>4
  <2>6. PICK H : H = Handled(Cardinality(P), S, ok, used)
    OBVIOUS
  <2>7. P \subseteq pending_meta_by_tx_id /\ pending_meta_by_tx_id \subseteq Tx
    BY <2>1, ReadyIsPending
       DEF Prepared, select_ready_candidates, Window, PoolInv, TypeOK
  <2>8. S \subseteq P /\ H \subseteq S
    BY <2>2, <2>6 DEF Staged, Handled
  <2>9. CASE ok = {} /\ DropOnly(P \ S, H)
    <3>1. Split(P \ S, H, {})
      BY <2>7, <2>8, <2>9 DEF Split, DropOnly
    <3>. QED
      BY <2>7, <2>8, <2>9, <3>1 DEF DropsOnly
  <2>10. CASE \E last \in ok : ProduceBlock(P \ S, H \ ok, ok, used[last])
    <3>1. PICK last \in ok : ProduceBlock(P \ S, H \ ok, ok, used[last])
      BY <2>10
    <3>2. used[last] \in Nat
      BY LimitAssumption
    <3>3. Split(P \ S, H \ ok, ok)
      BY <2>5, <2>7, <2>8, <3>1 DEF Split, ProduceBlock
    <3>4. \A t \in ok : Nonce[t] = accounts[Sender[t]]
      BY <2>5 DEF ExecOutcome
    <3>5. Includes(P \ S, H \ ok, ok, used[last])
      BY <3>1, <3>3, <3>4 DEF Includes
    <3>. QED
      BY <2>5, <2>7, <2>8, <3>2, <3>5
  <2>. QED
    BY <2>5, <2>6, <2>9, <2>10
<1>6. ASSUME NEW retain \in Retains, PruneSkip(retain)
      PROVE  Rests
  BY <1>6 DEF PruneSkip, Rests
<1>7. ASSUME UNCHANGED vars PROVE Rests
  BY <1>7 DEF vars, Rests
<1>8. ASSUME Submit
      PROVE  \/ \E t \in Tx, p \in Principals, D \in SUBSET Tx : Accepts(t, p, D)
             \/ \E t \in Tx : Refuses(t)
  <2>1. PICK t \in Tx, p \in Principals :
          \/ SubmitAccept(t, p)
          \/ \E d \in Tx : SubmitEvict(t, p, d)
          \/ SubmitReplace(t, p)
          \/ SubmitRefused(t, p)
    BY <1>8 DEF Submit
  <2>2. {} \in SUBSET Tx /\ \A d \in Tx : {d} \in SUBSET Tx
    OBVIOUS
  <2>. QED
    BY <1>1, <1>2, <1>3, <1>4, <2>1, <2>2
<1>. QED
  BY <1>5, <1>6, <1>7, <1>8 DEF Next, Prune

-----------------------------------------------------------------------------
(* The caches.                                                             *)

\* The sender of a pending transaction has a cached expected nonce; an absent
\* one would be read from the account after the block moved it.
PendingIsCached ==
    \A t \in pending_meta_by_tx_id : sender_expected_nonce[Sender[t]] # None

FreshInv == CachesAreFresh /\ PendingIsCached

\* A block executes at most one transaction of a sender.
LEMMA BumpOne ==
    ASSUME PoolInv, NEW ok \in SUBSET pending_meta_by_tx_id, NEW s
    PROVE  Bump(ok, s) = IF \E t \in ok : Sender[t] = s THEN 1 ELSE 0
<1>1. \A t, u \in ok : Sender[t] = Sender[u] => t = u
  BY OnePerSender
<1>2. CASE \E t \in ok : Sender[t] = s
  <2>1. PICK t \in ok : Sender[t] = s
    BY <1>2
  <2>2. {u \in ok : Sender[u] = s} = {t}
    BY <1>1, <2>1
  <2>. QED
    BY <1>2, <2>2, FS_Singleton DEF Bump
<1>3. CASE ~ \E t \in ok : Sender[t] = s
  <2>1. {u \in ok : Sender[u] = s} = {}
    BY <1>3
  <2>. QED
    BY <1>3, <2>1, FS_EmptySet DEF Bump
<1>. QED
  BY <1>2, <1>3

\* submit_tx caches the account's nonce and indexes the price it pays now.
LEMMA AcceptsFresh ==
    ASSUME PoolInv, FreshInv, NEW t \in Tx, NEW p \in Principals,
           NEW D \in SUBSET Tx, Accepts(t, p, D)
    PROVE  FreshInv'
<1>1. PICK s : s = Sender[t] /\ s \in Senders
  BY FieldAssumption
<1>2. expected_nonce_for_sender(s) = accounts[s] /\ accounts[s] \in Nat
  BY <1>1 DEF expected_nonce_for_sender, FreshInv, CachesAreFresh,
              ExpectedNonceIsAccountNonce, PoolInv, TypeOK
<1>3. /\ sender_expected_nonce' = [sender_expected_nonce EXCEPT ![s] = accounts[s]]
      /\ sender_expected_nonce \in [Senders -> Nat \cup {None}]
      /\ Nonce[t] = accounts[s]
      /\ accounts' = accounts /\ base_fee' = base_fee
      /\ pending_meta_by_tx_id' = (pending_meta_by_tx_id \ D) \cup {t}
      /\ pending_meta_by_tx_id \subseteq Tx
  BY <1>1, <1>2 DEF Accepts, NonceExpected, PoolInv, TypeOK
<1>4. \A x \in pending_meta_by_tx_id' : x \in Tx /\ Sender[x] \in Senders
  BY <1>3, FieldAssumption
<1>5. ExpectedNonceIsAccountNonce'
  BY <1>1, <1>2, <1>3, <1>4 DEF FreshInv, CachesAreFresh, ExpectedNonceIsAccountNonce
<1>6. PendingIsCached'
  BY <1>1, <1>2, <1>3, <1>4 DEF FreshInv, PendingIsCached, None
<1>7. FeeIndexIsFresh'
  <2>1. /\ pending_fee_index' = [FeeIndexAfter(D) EXCEPT ![t] = effective_gas_price(t, base_fee)]
        /\ effective_gas_price(t, base_fee) # None
    BY DEF Accepts
  <2>2. \A x \in Tx : pending_fee_index'[x] =
          IF x = t THEN IndexedPrice(t, base_fee)
          ELSE IF x \in D THEN None ELSE pending_fee_index[x]
    BY <2>1 DEF FeeIndexAfter, IndexedPrice
  <2>3. \A x : IndexedPrice(x, base_fee)' = IndexedPrice(x, base_fee)
    BY <1>3 DEF IndexedPrice, effective_gas_price
  <2>. QED
    BY <1>3, <2>2, <2>3 DEF FreshInv, CachesAreFresh, FeeIndexIsFresh
<1>. QED
  BY <1>5, <1>6, <1>7 DEF FreshInv, CachesAreFresh

\* A refused submission caches the account's nonce.
LEMMA RefusesFresh ==
    ASSUME PoolInv, FreshInv, NEW t \in Tx, Refuses(t)
    PROVE  FreshInv'
<1>1. PICK s : s = Sender[t] /\ s \in Senders
  BY FieldAssumption
<1>2. expected_nonce_for_sender(s) = accounts[s] /\ accounts[s] \in Nat
  BY <1>1 DEF expected_nonce_for_sender, FreshInv, CachesAreFresh,
              ExpectedNonceIsAccountNonce, PoolInv, TypeOK
<1>3. /\ sender_expected_nonce' = [sender_expected_nonce EXCEPT ![s] = accounts[s]]
      /\ sender_expected_nonce \in [Senders -> Nat \cup {None}]
      /\ accounts' = accounts /\ base_fee' = base_fee
      /\ pending_meta_by_tx_id' = pending_meta_by_tx_id
      /\ pending_fee_index' = pending_fee_index
      /\ pending_meta_by_tx_id \subseteq Tx
  BY <1>1, <1>2 DEF Refuses, PoolInv, TypeOK
<1>4. \A x \in pending_meta_by_tx_id : x \in Tx /\ Sender[x] \in Senders
  BY <1>3, FieldAssumption
<1>5. ExpectedNonceIsAccountNonce' /\ PendingIsCached'
  BY <1>2, <1>3, <1>4
     DEF FreshInv, CachesAreFresh, ExpectedNonceIsAccountNonce, PendingIsCached, None
<1>6. FeeIndexIsFresh'
  BY <1>3 DEF FreshInv, CachesAreFresh, FeeIndexIsFresh, IndexedPrice, effective_gas_price
<1>. QED
  BY <1>5, <1>6 DEF FreshInv, CachesAreFresh

\* A block moves accounts and caches of the senders it executes by one, and
\* prices what stays pending at the next base fee.
LEMMA IncludesFresh ==
    ASSUME PoolInv, FreshInv, NEW early \in SUBSET Tx, NEW late \in SUBSET Tx,
           NEW ok \in SUBSET Tx, NEW gasUsed \in Nat, Includes(early, late, ok, gasUsed)
    PROVE  FreshInv'
<1>1. PICK D, fee : D = early \cup late /\ fee = compute_next_base_fee(base_fee, gasUsed)
  OBVIOUS
<1>2. /\ D \subseteq pending_meta_by_tx_id /\ ok \subseteq pending_meta_by_tx_id
      /\ pending_meta_by_tx_id \subseteq Tx
      /\ D \cup ok \in SUBSET pending_meta_by_tx_id
  BY <1>1 DEF Includes, Split, PoolInv, TypeOK
<1>3. /\ pending_meta_by_tx_id' = pending_meta_by_tx_id \ (D \cup ok)
      /\ accounts' = AccountsAfter(ok)
      /\ sender_expected_nonce' = ExpectedNonceAfter(ok)
      /\ base_fee' = fee
      /\ pending_fee_index' = RebuiltFeeIndex(D, ok, fee)
  BY <1>1 DEF Includes, Split, ProduceBlock, LeaveMempool
<1>4. \A s \in Senders : Bump(ok, s) = IF \E t \in ok : Sender[t] = s THEN 1 ELSE 0
  BY <1>2, BumpOne
<1>5. \A t \in pending_meta_by_tx_id : Sender[t] \in Senders
  BY <1>2, FieldAssumption
<1>6. ASSUME NEW s \in Senders
      PROVE  /\ accounts'[s] = accounts[s] + Bump(ok, s)
             /\ sender_expected_nonce[s] # None =>
                  sender_expected_nonce'[s] = sender_expected_nonce[s] + Bump(ok, s)
             /\ sender_expected_nonce[s] = None => sender_expected_nonce'[s] = None
             /\ sender_expected_nonce[s] # None => sender_expected_nonce'[s] # None
             /\ accounts[s] \in Nat
  <2>1. sender_expected_nonce[s] \in Nat \cup {None} /\ accounts[s] \in Nat
    BY DEF PoolInv, TypeOK
  <2>2. Bump(ok, s) # 0 => sender_expected_nonce[s] # None
    BY <1>2, <1>4 DEF FreshInv, PendingIsCached
  <2>3. accounts'[s] = accounts[s] + Bump(ok, s)
    BY <1>3 DEF AccountsAfter
  <2>4. sender_expected_nonce'[s] =
          IF Bump(ok, s) = 0 THEN sender_expected_nonce[s]
          ELSE IF sender_expected_nonce[s] # None
          THEN sender_expected_nonce[s] + Bump(ok, s)
          ELSE accounts[s] + 2 * Bump(ok, s)
    BY <1>3 DEF ExpectedNonceAfter
  <2>5. Bump(ok, s) \in Nat
    BY <1>4
  <2>. QED
    BY <2>1, <2>2, <2>3, <2>4, <2>5 DEF None
<1>7. \A t \in pending_meta_by_tx_id' : Bump(ok, Sender[t]) = 0
  <2>1. \A t, u \in pending_meta_by_tx_id : Sender[t] = Sender[u] => t = u
    BY OnePerSender
  <2>. QED
    BY <1>2, <1>3, <1>4, <1>5, <2>1
<1>8. ExpectedNonceIsAccountNonce'
  <2>1. \A s \in Senders :
          sender_expected_nonce'[s] # None => sender_expected_nonce'[s] = accounts'[s]
    BY <1>6 DEF FreshInv, CachesAreFresh, ExpectedNonceIsAccountNonce
  <2>2. \A t \in pending_meta_by_tx_id' : Nonce[t] = accounts'[Sender[t]]
    BY <1>3, <1>5, <1>6, <1>7 DEF FreshInv, CachesAreFresh, ExpectedNonceIsAccountNonce
  <2>. QED
    BY <2>1, <2>2 DEF ExpectedNonceIsAccountNonce
<1>9. PendingIsCached'
  <2>1. \A t \in pending_meta_by_tx_id' : sender_expected_nonce'[Sender[t]] # None
    BY <1>3, <1>5, <1>6 DEF FreshInv, PendingIsCached
  <2>. QED
    BY <2>1 DEF PendingIsCached
<1>10. FeeIndexIsFresh'
  <2>1. \A t \in Tx : PendingAfter(D \cup ok)[PendingKey(t)] = t
                        <=> t \in pending_meta_by_tx_id \ (D \cup ok)
    BY <1>2, PendingLeaves
  <2>2. \A t \in pending_meta_by_tx_id \ D : StoreAfter(D)[t] # NoPrincipal
    BY <1>2 DEF StoreAfter, PoolInv, TypeOK, PendingIndexesAgree
  <2>3. \A t \in pending_meta_by_tx_id' : pending_fee_index'[t] = IndexedPrice(t, fee)
    BY <1>2, <1>3, <2>1, <2>2 DEF RebuiltFeeIndex
  <2>4. \A t : IndexedPrice(t, base_fee)' = IndexedPrice(t, fee)
    BY <1>3 DEF IndexedPrice, effective_gas_price
  <2>. QED
    BY <2>3, <2>4 DEF FeeIndexIsFresh
<1>. QED
  BY <1>8, <1>9, <1>10 DEF FreshInv, CachesAreFresh

\* Transactions may leave the mempool; nothing else that the caches are about
\* moves.
OnlyLeaves ==
    /\ sender_expected_nonce' = sender_expected_nonce
    /\ accounts' = accounts
    /\ base_fee' = base_fee
    /\ pending_meta_by_tx_id' \subseteq pending_meta_by_tx_id
    /\ \A t \in pending_meta_by_tx_id' : pending_fee_index'[t] = pending_fee_index[t]

\* Steps that only take transactions out of the mempool, or move nothing.
LEMMA OthersFresh ==
    ASSUME PoolInv, FreshInv,
           \/ \E early, late \in SUBSET Tx : DropsOnly(early, late)
           \/ \E retain \in Retains : PruneBlock(retain)
           \/ Rests
    PROVE  FreshInv'
<1>1. OnlyLeaves
  <2>0. pending_meta_by_tx_id \subseteq Tx
    BY DEF PoolInv, TypeOK
  <2>1. ASSUME NEW early \in SUBSET Tx, NEW late \in SUBSET Tx, DropsOnly(early, late)
        PROVE  OnlyLeaves
    <3>1. PICK D : D = early \cup late
      OBVIOUS
    <3>2. /\ sender_expected_nonce' = sender_expected_nonce /\ accounts' = accounts
          /\ base_fee' = base_fee
          /\ pending_meta_by_tx_id' = pending_meta_by_tx_id \ (D \cup {})
          /\ pending_fee_index' = FeeIndexAfter(D)
      BY <2>1, <3>1 DEF DropsOnly, DropOnly, LeaveMempool, chainVars
    <3>. QED
      BY <2>0, <3>2 DEF OnlyLeaves, FeeIndexAfter
  <2>2. ASSUME NEW retain \in Retains, PruneBlock(retain)
        PROVE  OnlyLeaves
    <3>1. PICK P : P = blocks[next_prune_block]
      OBVIOUS
    <3>2. /\ sender_expected_nonce' = sender_expected_nonce /\ accounts' = accounts
          /\ base_fee' = base_fee
          /\ pending_meta_by_tx_id' = pending_meta_by_tx_id
          /\ pending_fee_index' = FeeIndexAfter(P)
          /\ next_prune_block \in DOMAIN blocks
      BY <2>2, <3>1 DEF PruneBlock
    <3>3. P \cap pending_meta_by_tx_id = {}
      BY <3>1, <3>2, OnePerSender DEF PoolInv, BlocksHoldIncluded
    <3>. QED
      BY <2>0, <3>2, <3>3 DEF OnlyLeaves, FeeIndexAfter
  <2>3. ASSUME Rests PROVE OnlyLeaves
    BY <2>0, <2>3 DEF OnlyLeaves, Rests, poolVars, chainVars
  <2>. QED
    BY <2>1, <2>2, <2>3
<1>2. \A t : IndexedPrice(t, base_fee)' = IndexedPrice(t, base_fee)
  BY <1>1 DEF OnlyLeaves, IndexedPrice, effective_gas_price
<1>. QED
  BY <1>1, <1>2 DEF OnlyLeaves, FreshInv, CachesAreFresh, ExpectedNonceIsAccountNonce,
                    FeeIndexIsFresh, PendingIsCached

-----------------------------------------------------------------------------
(* The principals' counters.                                               *)

\* Taking pending transactions out counts down by as many as leave.
LEMMA CountLeaves ==
    ASSUME PoolInv, NEW D \in SUBSET pending_meta_by_tx_id, NEW q \in Principals
    PROVE  LET rest == {t \in pending_meta_by_tx_id \ D : tx_store[t] = q}
           IN  /\ IsFiniteSet(rest) /\ Cardinality(rest) \in Nat
               /\ CountAfter(D)[q] \in Nat
               /\ principal_pending_count[q] <= Cardinality(PendingOf(q)) =>
                    CountAfter(D)[q] <= Cardinality(rest)
               /\ principal_pending_count[q] = Cardinality(PendingOf(q)) =>
                    CountAfter(D)[q] = Cardinality(rest)
<1>. DEFINE gone == {d \in D : tx_store[d] = q}
            rest == {t \in pending_meta_by_tx_id \ D : tx_store[t] = q}
<1>1. IsFiniteSet(pending_meta_by_tx_id)
  BY FS_Subset, TxAssumption DEF PoolInv, TypeOK
<1>2. /\ IsFiniteSet(PendingOf(q)) /\ IsFiniteSet(gone) /\ IsFiniteSet(rest)
      /\ gone \subseteq PendingOf(q)
  <2>1. /\ PendingOf(q) \subseteq pending_meta_by_tx_id
        /\ gone \subseteq pending_meta_by_tx_id
        /\ rest \subseteq pending_meta_by_tx_id
        /\ gone \subseteq PendingOf(q)
    BY DEF PendingOf
  <2>. QED
    BY <1>1, <2>1, FS_Subset
<1>3. rest = PendingOf(q) \ gone /\ PendingOf(q) \cap gone = gone
  BY <1>2 DEF PendingOf
<1>4. /\ Cardinality(rest) = Cardinality(PendingOf(q)) - Cardinality(gone)
      /\ Cardinality(rest) \in Nat /\ Cardinality(gone) \in Nat
      /\ Cardinality(PendingOf(q)) \in Nat
  <2>1. /\ Cardinality(rest) \in Nat /\ Cardinality(gone) \in Nat
        /\ Cardinality(PendingOf(q)) \in Nat
    BY <1>2, FS_CardinalityType
  <2>. HIDE DEF rest, gone
  <2>2. Cardinality(PendingOf(q) \ gone)
          = Cardinality(PendingOf(q)) - Cardinality(PendingOf(q) \cap gone)
    BY <1>2, FS_Difference
  <2>. QED
    BY <1>3, <2>1, <2>2
<1>5. CountAfter(D)[q] = SatSub(principal_pending_count[q], Cardinality(gone))
  BY DEF CountAfter
<1>6. principal_pending_count[q] \in Nat
  BY DEF PoolInv, TypeOK
<1>. HIDE DEF gone
<1>. QED
  BY <1>2, <1>4, <1>5, <1>6 DEF SatSub

\* An accepted submission is counted for the principal it is stored for.
LEMMA AcceptsCounts ==
    ASSUME PoolInv, NEW t \in Tx, NEW p \in Principals, NEW D \in SUBSET Tx,
           Accepts(t, p, D), NEW q \in Principals
    PROVE  /\ principal_pending_count[q] <= Cardinality(PendingOf(q)) =>
                principal_pending_count'[q] <= Cardinality(PendingOf(q)')
           /\ principal_pending_count[q] = Cardinality(PendingOf(q)) =>
                principal_pending_count'[q] = Cardinality(PendingOf(q)')
<1>1. PICK rest : rest = {x \in pending_meta_by_tx_id \ D : tx_store[x] = q}
  OBVIOUS
<1>2. /\ D \in SUBSET pending_meta_by_tx_id /\ t \notin pending_meta_by_tx_id
      /\ tx_store' = [StoreAfter(D) EXCEPT ![t] = p]
      /\ pending_meta_by_tx_id' = (pending_meta_by_tx_id \ D) \cup {t}
      /\ principal_pending_count' = [CountAfter(D) EXCEPT ![p] = @ + 1]
      /\ pending_meta_by_tx_id \subseteq Tx
  BY DEF Accepts, PoolInv, TypeOK
<1>3. /\ IsFiniteSet(rest) /\ Cardinality(rest) \in Nat
      /\ CountAfter(D)[q] \in Nat
      /\ principal_pending_count[q] <= Cardinality(PendingOf(q)) =>
           CountAfter(D)[q] <= Cardinality(rest)
      /\ principal_pending_count[q] = Cardinality(PendingOf(q)) =>
           CountAfter(D)[q] = Cardinality(rest)
  BY <1>1, <1>2, CountLeaves
<1>4. PendingOf(q)' = IF q = p THEN rest \cup {t} ELSE rest
  <2>1. PendingOf(q)' = {x \in pending_meta_by_tx_id' : tx_store'[x] = q}
    BY DEF PendingOf
  <2>2. tx_store'[t] = p
    BY <1>2 DEF StoreAfter
  <2>3. \A x \in pending_meta_by_tx_id \ D : x # t /\ tx_store'[x] = tx_store[x]
    BY <1>2 DEF StoreAfter
  <2>. QED
    BY <1>1, <1>2, <2>1, <2>2, <2>3
<1>5. t \notin rest
  BY <1>1, <1>2
<1>6. Cardinality(PendingOf(q)') = IF q = p THEN Cardinality(rest) + 1 ELSE Cardinality(rest)
  BY <1>3, <1>4, <1>5, FS_AddElement
<1>7. principal_pending_count'[q] = IF q = p THEN CountAfter(D)[q] + 1 ELSE CountAfter(D)[q]
  BY <1>2 DEF CountAfter
<1>. QED
  BY <1>3, <1>6, <1>7

\* produce_block counts down for what it includes and what it drops.
LEMMA LeavesCounts ==
    ASSUME PoolInv, NEW early \in SUBSET Tx, NEW late \in SUBSET Tx,
           NEW ok \in SUBSET Tx, Split(early, late, ok), NEW q \in Principals
    PROVE  /\ principal_pending_count[q] <= Cardinality(PendingOf(q)) =>
                principal_pending_count'[q] <= Cardinality(PendingOf(q)')
           /\ principal_pending_count[q] = Cardinality(PendingOf(q)) =>
                principal_pending_count'[q] = Cardinality(PendingOf(q)')
<1>1. PICK D, gone : D = early \cup late /\ gone = D \cup ok
  OBVIOUS
<1>2. /\ gone \in SUBSET pending_meta_by_tx_id
      /\ tx_store' = StoreAfter(D)
      /\ pending_meta_by_tx_id' = pending_meta_by_tx_id \ gone
      /\ principal_pending_count' = CountAfter(gone)
      /\ pending_meta_by_tx_id \subseteq Tx
  BY <1>1 DEF Split, LeaveMempool, PoolInv, TypeOK
<1>3. PendingOf(q)' = {x \in pending_meta_by_tx_id \ gone : tx_store[x] = q}
  <2>1. PendingOf(q)' = {x \in pending_meta_by_tx_id' : tx_store'[x] = q}
    BY DEF PendingOf
  <2>2. \A x \in pending_meta_by_tx_id \ gone : tx_store'[x] = tx_store[x]
    BY <1>1, <1>2 DEF StoreAfter
  <2>. QED
    BY <1>2, <2>1, <2>2
<1>. QED
  BY <1>2, <1>3, CountLeaves

\* Pruning counts down for transactions that left the queue before, and moves
\* no pending one.
LEMMA PruneCounts ==
    ASSUME PoolInv, NEW retain \in Retains, PruneBlock(retain), NEW q \in Principals
    PROVE  /\ principal_pending_count'[q] <= principal_pending_count[q]
           /\ PendingOf(q)' = PendingOf(q)
<1>1. PICK P : P = blocks[next_prune_block]
  OBVIOUS
<1>2. /\ pending_meta_by_tx_id' = pending_meta_by_tx_id
      /\ principal_pending_count' = CountAfter(P)
      /\ tx_store' = StoreAfter(P)
      /\ next_prune_block \in DOMAIN blocks
      /\ pending_meta_by_tx_id \subseteq Tx
      /\ P \subseteq Tx
  BY <1>1 DEF PruneBlock, PoolInv, TypeOK
<1>3. P \cap pending_meta_by_tx_id = {}
  BY <1>1, <1>2, OnePerSender DEF PoolInv, BlocksHoldIncluded
<1>4. \A x \in pending_meta_by_tx_id : tx_store'[x] = tx_store[x]
  BY <1>2, <1>3 DEF StoreAfter
<1>5. PendingOf(q)' = PendingOf(q)
  BY <1>2, <1>4 DEF PendingOf
<1>6. Cardinality({d \in P : tx_store[d] = q}) \in Nat
  BY <1>2, FS_Subset, FS_CardinalityType, TxAssumption
<1>7. CountAfter(P)[q] <= principal_pending_count[q]
  <2>1. CountAfter(P)[q] =
          SatSub(principal_pending_count[q], Cardinality({d \in P : tx_store[d] = q}))
    BY DEF CountAfter
  <2>2. principal_pending_count[q] \in Nat
    BY DEF PoolInv, TypeOK
  <2>. QED
    BY <1>6, <2>1, <2>2 DEF SatSub
<1>. QED
  BY <1>2, <1>5, <1>7

\* Every other step leaves counters, payloads and pending transactions alone.
LEMMA RestCounts ==
    ASSUME (\E t \in Tx : Refuses(t)) \/ Rests
    PROVE  /\ principal_pending_count' = principal_pending_count
           /\ \A q : PendingOf(q)' = PendingOf(q)
BY DEF Refuses, Rests, poolVars, PendingOf

-----------------------------------------------------------------------------
(* Positions in a block and in the dropped ring.                           *)

\* Pending transactions carry different queue numbers, all of them used up.
SeqOK ==
    /\ \A t \in pending_meta_by_tx_id : tx_locs[t].seq < next_queue_seq
    /\ \A t, u \in pending_meta_by_tx_id : tx_locs[t].seq = tx_locs[u].seq => t = u

\* A ring with the drops before number next holds the last ones, one for each
\* number.
RingOK(ring, next) ==
    /\ \A t \in Tx : ring[t] # None =>
          next - DroppedRingCapacity <= ring[t] /\ ring[t] < next
    /\ \A t, u \in Tx : ring[t] # None /\ ring[t] = ring[u] => t = u

\* cmp_priority orders pending transactions: irreflexive, transitive, total.
LEMMA BeforeOrder ==
    ASSUME PoolInv, SeqOK
    PROVE  \A t, u, v \in pending_meta_by_tx_id :
              /\ ~Before(t, t)
              /\ Before(t, u) /\ Before(u, v) => Before(t, v)
              /\ t # u => Before(t, u) \/ Before(u, t)
<1>1. ASSUME NEW t \in pending_meta_by_tx_id
      PROVE  CandidatePrice(t) \in Nat /\ ready_queue[t] \in Nat
             /\ ready_queue[t] = tx_locs[t].seq
  <2>1. t \in Tx /\ base_fee \in Nat /\ tx_locs[t].seq \in Nat
    BY DEF PoolInv, TypeOK
  <2>2. IndexedPrice(t, base_fee) \in Nat
    BY <2>1, PriceType
  <2>. QED
    BY <2>1, <2>2 DEF CandidatePrice, PoolInv, NothingStranded
<1>2. \A t, u \in pending_meta_by_tx_id : t # u => ready_queue[t] # ready_queue[u]
  BY <1>1 DEF SeqOK
<1>. QED
  BY <1>1, <1>2 DEF Before

\* Ranks number the members of a set from 0.
LEMMA RanksNumber ==
    ASSUME PoolInv, SeqOK, NEW S \in SUBSET pending_meta_by_tx_id
    PROVE  /\ Cardinality(S) \in Nat
           /\ \A t \in S : RankIn(S, t) \in Nat /\ RankIn(S, t) < Cardinality(S)
           /\ \A t, u \in S : RankIn(S, t) = RankIn(S, u) => t = u
<1>. DEFINE Below(t) == {x \in S : Before(x, t)}
<1>1. IsFiniteSet(S) /\ Cardinality(S) \in Nat
  BY FS_Subset, FS_CardinalityType, TxAssumption DEF PoolInv, TypeOK
<1>2. \A t \in S : IsFiniteSet(Below(t)) /\ Cardinality(Below(t)) \in Nat
  <2>1. \A t \in S : Below(t) \in SUBSET S
    OBVIOUS
  <2>. QED
    BY <1>1, <2>1, FS_Subset, FS_CardinalityType
<1>3. \A t, u, v \in S :
        /\ ~Before(t, t)
        /\ Before(t, u) /\ Before(u, v) => Before(t, v)
        /\ t # u => Before(t, u) \/ Before(u, t)
  BY BeforeOrder
<1>4. ASSUME NEW t \in S PROVE Cardinality(Below(t)) < Cardinality(S)
  <2>1. Below(t) \in SUBSET S /\ Below(t) # S
    BY <1>3
  <2>. HIDE DEF Below
  <2>2. Cardinality(Below(t)) <= Cardinality(S) /\ Cardinality(S) # Cardinality(Below(t))
    BY <1>1, <2>1, FS_Subset
  <2>. QED
    BY <1>1, <1>2, <2>2
<1>5. ASSUME NEW t \in S, NEW u \in S, Before(u, t)
      PROVE  Cardinality(Below(u)) < Cardinality(Below(t))
  <2>1. Below(u) \in SUBSET Below(t) /\ u \in Below(t) /\ u \notin Below(u)
    BY <1>3, <1>5
  <2>. HIDE DEF Below
  <2>2. Cardinality(Below(u)) <= Cardinality(Below(t))
        /\ Cardinality(Below(t)) # Cardinality(Below(u))
    BY <1>2, <2>1, FS_Subset
  <2>. QED
    BY <1>2, <2>2
<1>6. \A t : RankIn(S, t) = Cardinality(Below(t))
  BY DEF RankIn
<1>. HIDE DEF Below
<1>7. ASSUME NEW t \in S, NEW u \in S, RankIn(S, t) = RankIn(S, u) PROVE t = u
  <2>1. ~Before(t, u) /\ ~Before(u, t)
    BY <1>2, <1>5, <1>6, <1>7
  <2>. QED
    BY <1>3, <2>1
<1>. QED
  BY <1>1, <1>2, <1>4, <1>6, <1>7

\* The drops of the two loops of produce_block are numbered from 0.
LEMMA DropRanksNumber ==
    ASSUME PoolInv, SeqOK, NEW early \in SUBSET pending_meta_by_tx_id,
           NEW late \in SUBSET pending_meta_by_tx_id, early \cap late = {}
    PROVE  LET D == early \cup late
               rank == DropRank(early, late)
           IN  /\ rank \in [D -> Nat] /\ Cardinality(D) \in Nat
               /\ \A d \in D : rank[d] < Cardinality(D)
               /\ \A d, e \in D : rank[d] = rank[e] => d = e
<1>. DEFINE D == early \cup late
            rank == DropRank(early, late)
<1>1. /\ Cardinality(early) \in Nat /\ Cardinality(late) \in Nat
      /\ \A t \in early : RankIn(early, t) \in Nat /\ RankIn(early, t) < Cardinality(early)
      /\ \A t, u \in early : RankIn(early, t) = RankIn(early, u) => t = u
      /\ \A t \in late : RankIn(late, t) \in Nat /\ RankIn(late, t) < Cardinality(late)
      /\ \A t, u \in late : RankIn(late, t) = RankIn(late, u) => t = u
  BY RanksNumber
<1>2. Cardinality(D) = Cardinality(early) + Cardinality(late)
  <2>1. IsFiniteSet(early) /\ IsFiniteSet(late)
    BY FS_Subset, TxAssumption DEF PoolInv, TypeOK
  <2>2. Cardinality(early \cap late) = 0
    BY FS_EmptySet
  <2>3. Cardinality(early \cup late)
          = Cardinality(early) + Cardinality(late) - Cardinality(early \cap late)
    BY <2>1, FS_Union
  <2>. QED
    BY <1>1, <2>2, <2>3
<1>3. \A d \in D : rank[d] = IF d \in early THEN RankIn(early, d)
                             ELSE Cardinality(early) + RankIn(late, d)
  BY DEF DropRank
<1>4. rank \in [D -> Nat]
  BY <1>1, <1>3 DEF DropRank
<1>. HIDE DEF D, rank
<1>5. D = early \cup late
  BY DEF D
<1>6. (\A d \in D : rank[d] < Cardinality(D)) /\ Cardinality(D) \in Nat
  BY <1>1, <1>2, <1>3, <1>5
<1>7. \A d, e \in D : rank[d] = rank[e] => d = e
  BY <1>1, <1>3, <1>5
<1>. QED
  BY <1>4, <1>6, <1>7 DEF D, rank

\* The same for a split of the queue, with names for drops and ranks.
LEMMA SplitRanks ==
    ASSUME PoolInv, SeqOK, NEW early, NEW late, NEW ok, Split(early, late, ok),
           NEW D, NEW rank, D = early \cup late, rank = DropRank(early, late)
    PROVE  /\ rank \in [D -> Nat] /\ Cardinality(D) \in Nat
           /\ \A d \in D : rank[d] < Cardinality(D)
           /\ \A d, e \in D : rank[d] = rank[e] => d = e
<1>1. /\ early \cap late = {}
      /\ early \in SUBSET pending_meta_by_tx_id
      /\ late \in SUBSET pending_meta_by_tx_id
  BY DEF Split
<1>2. /\ DropRank(early, late) \in [early \cup late -> Nat]
      /\ Cardinality(early \cup late) \in Nat
      /\ \A d \in early \cup late : DropRank(early, late)[d] < Cardinality(early \cup late)
      /\ \A d, e \in early \cup late :
           DropRank(early, late)[d] = DropRank(early, late)[e] => d = e
  BY <1>1, DropRanksNumber
<1>. QED
  BY <1>2, Zenon

\* push_dropped_ring keeps the last drops under different numbers.
LEMMA RingPush ==
    ASSUME PoolInv, RingOK(dropped_ring, dropped_next),
           NEW D \in SUBSET Tx, NEW rank \in [D -> Nat], Cardinality(D) \in Nat,
           \A d \in D : rank[d] < Cardinality(D),
           \A d, e \in D : rank[d] = rank[e] => d = e
    PROVE  /\ RingOK(RingAfter(D, rank), dropped_next + Cardinality(D))
           /\ \A t \in Tx \ D : RingAfter(D, rank)[t] \in {None, dropped_ring[t]}
<1>. DEFINE oldest == dropped_next + Cardinality(D) - DroppedRingCapacity
            at(t) == IF t \in D THEN dropped_next + rank[t] ELSE dropped_ring[t]
            ring == RingAfter(D, rank)
<1>1. /\ dropped_ring \in [Tx -> Nat \cup {None}] /\ dropped_next \in Nat
      /\ DroppedRingCapacity \in Nat
  BY LimitAssumption DEF PoolInv, TypeOK
<1>2. \A t \in Tx : ring[t] = IF at(t) < oldest THEN None ELSE at(t)
  BY DEF RingAfter
<1>3. \A t \in Tx : at(t) \in Nat \cup {None}
  BY <1>1 DEF None
<1>4. \A t \in Tx : at(t) # None => at(t) < dropped_next + Cardinality(D)
  BY <1>1 DEF None, RingOK
<1>5. ASSUME NEW t \in Tx, NEW u \in Tx, at(t) # None, at(t) = at(u) PROVE t = u
  <2>1. CASE t \in D /\ u \in D
    BY <1>1, <1>5, <2>1
  <2>2. CASE t \notin D /\ u \notin D
    BY <1>5, <2>2 DEF RingOK
  <2>3. CASE t \in D /\ u \notin D
    <3>1. dropped_ring[u] = dropped_next + rank[t] /\ rank[t] \in Nat
      BY <1>5, <2>3
    <3>2. dropped_ring[u] # None
      BY <1>5, <2>3
    <3>3. dropped_ring[u] < dropped_next
      BY <3>2 DEF RingOK
    <3>. QED
      BY <1>1, <3>1, <3>3
  <2>4. CASE t \notin D /\ u \in D
    <3>1. dropped_ring[t] = dropped_next + rank[u] /\ rank[u] \in Nat
      BY <1>5, <2>4
    <3>2. dropped_ring[t] < dropped_next
      BY <1>5, <2>4 DEF RingOK
    <3>. QED
      BY <1>1, <3>1, <3>2
  <2>. QED
    BY <2>1, <2>2, <2>3, <2>4
<1>. HIDE DEF at, ring
<1>6. oldest \in Int
  BY <1>1
<1>7. \A t \in Tx : ring[t] # None => ring[t] = at(t) /\ oldest <= ring[t]
  BY <1>2, <1>3, <1>6 DEF None
<1>. HIDE DEF oldest
<1>8. RingOK(ring, dropped_next + Cardinality(D))
  <2>1. ASSUME NEW t \in Tx, ring[t] # None
        PROVE  /\ dropped_next + Cardinality(D) - DroppedRingCapacity <= ring[t]
               /\ ring[t] < dropped_next + Cardinality(D)
    BY <1>4, <1>7, <2>1 DEF oldest
  <2>2. ASSUME NEW t \in Tx, NEW u \in Tx, ring[t] # None, ring[t] = ring[u]
        PROVE  t = u
    BY <1>5, <1>7, <2>2
  <2>. QED
    BY <1>1, <2>1, <2>2 DEF RingOK
<1>9. \A t \in Tx \ D : ring[t] \in {None, dropped_ring[t]}
  BY <1>2 DEF at
<1>. QED
  BY <1>8, <1>9 DEF ring

\* The ring never holds more than its capacity.
LEMMA RingBound ==
    ASSUME TypeOK, RingOK(dropped_ring, dropped_next)
    PROVE  Cardinality({t \in Tx : dropped_ring[t] # None}) <= DroppedRingCapacity
<1>. DEFINE S == {t \in Tx : dropped_ring[t] # None}
            T == (dropped_next - DroppedRingCapacity)..(dropped_next - 1)
            f == [t \in S |-> dropped_ring[t]]
<1>1. dropped_next \in Nat /\ DroppedRingCapacity \in Nat
      /\ dropped_ring \in [Tx -> Nat \cup {None}]
  BY LimitAssumption DEF TypeOK
<1>2. IsFiniteSet(T) /\ Cardinality(T) = DroppedRingCapacity
  BY <1>1, FS_Interval
<1>3. \A t \in S : dropped_ring[t] \in T
  BY <1>1 DEF RingOK, None
<1>4. f \in [S -> T]
  BY <1>3
<1>5. \A t, u \in S : f[t] = f[u] => t = u
  BY DEF RingOK
<1>6. f \in Injection(S, T)
  BY <1>4, <1>5 DEF Injection, IsInjective
<1>. QED
  BY <1>2, <1>6, FS_Injection

-----------------------------------------------------------------------------
(* Queue numbers, ring and prune cursor over the steps.                    *)

\* The cursor is not above the head, and what is below it is pruned.
CursorOK ==
    /\ next_prune_block <= head
    /\ \A n \in DOMAIN blocks : next_prune_block <= n

NumberInv == SeqOK /\ RingOK(dropped_ring, dropped_next) /\ CursorOK

\* What leaves for an accepted submission is numbered too.
LEMMA OneDrop ==
    ASSUME PoolInv, NEW D, D = {} \/ \E d \in pending_meta_by_tx_id : D = {d},
           NEW rank, rank = [d \in D |-> 0]
    PROVE  /\ D \in SUBSET pending_meta_by_tx_id /\ D \in SUBSET Tx
           /\ rank \in [D -> Nat] /\ Cardinality(D) \in Nat
           /\ \A d \in D : rank[d] < Cardinality(D)
           /\ \A d, e \in D : rank[d] = rank[e] => d = e
<1>1. CASE D = {}
  BY <1>1, FS_EmptySet
<1>2. ASSUME NEW d \in pending_meta_by_tx_id, D = {d}
      PROVE  /\ D \in SUBSET pending_meta_by_tx_id /\ D \in SUBSET Tx
             /\ rank \in [D -> Nat] /\ Cardinality(D) \in Nat
             /\ \A e \in D : rank[e] < Cardinality(D)
             /\ \A e, g \in D : rank[e] = rank[g] => e = g
  <2>1. Cardinality(D) = 1 /\ d \in Tx
    BY <1>2, FS_Singleton DEF PoolInv, TypeOK
  <2>. QED
    BY <1>2, <2>1
<1>. QED
  BY <1>1, <1>2

\* A pending transaction that does not leave keeps its location, and so does
\* an included one.
LEMMA LocsStay ==
    ASSUME PoolInv, NEW D \in SUBSET pending_meta_by_tx_id, NEW ring, NEW x \in Tx,
           x \notin D, tx_locs[x].kind # "dropped"
    PROVE  LocsAfter(D, ring)[x] = tx_locs[x]
<1>1. D \in SUBSET Tx
  BY DEF PoolInv, TypeOK
<1>. QED
  BY <1>1, LocsLeave

\* An accepted submission takes the next queue number and pushes what it evicts.
LEMMA AcceptsNumbers ==
    ASSUME PoolInv, NumberInv, NEW t \in Tx, NEW p \in Principals, NEW D \in SUBSET Tx,
           Accepts(t, p, D)
    PROVE  NumberInv'
<1>1. PICK rank : rank = [d \in D |-> 0]
  OBVIOUS
<1>2. /\ D \in SUBSET pending_meta_by_tx_id /\ D \in SUBSET Tx
      /\ rank \in [D -> Nat] /\ Cardinality(D) \in Nat
      /\ \A d \in D : rank[d] < Cardinality(D)
      /\ \A d, e \in D : rank[d] = rank[e] => d = e
  BY <1>1, OneDrop DEF Accepts
<1>3. RingOK(dropped_ring', dropped_next')
  BY <1>1, <1>2, RingPush DEF Accepts, NumberInv
<1>4. SeqOK'
  <2>1. /\ pending_meta_by_tx_id' = (pending_meta_by_tx_id \ D) \cup {t}
        /\ next_queue_seq' = next_queue_seq + 1 /\ next_queue_seq \in Nat
        /\ pending_meta_by_tx_id \subseteq Tx
        /\ tx_locs' = [LocsAfter(D, dropped_ring') EXCEPT ![t] = Queued(next_queue_seq)]
        /\ t \notin pending_meta_by_tx_id
    BY DEF Accepts, PoolInv, TypeOK
  <2>2. tx_locs'[t].seq = next_queue_seq
    BY <2>1 DEF LocsAfter, Queued, Loc
  <2>3. \A x \in pending_meta_by_tx_id \ D :
          tx_locs'[x] = tx_locs[x] /\ tx_locs[x].seq \in Nat /\ tx_locs[x].seq < next_queue_seq
    <3>. TAKE x \in pending_meta_by_tx_id \ D
    <3>1. x \in Tx /\ tx_locs[x].kind = "queued" /\ tx_locs[x].seq \in Nat
      BY OnePerSender DEF PoolInv, TypeOK
    <3>2. LocsAfter(D, dropped_ring')[x] = tx_locs[x]
      BY <1>2, <3>1, LocsStay
    <3>3. tx_locs'[x] = LocsAfter(D, dropped_ring')[x]
      BY <2>1, <3>1 DEF LocsAfter
    <3>. QED
      BY <3>1, <3>2, <3>3 DEF NumberInv, SeqOK
  <2>4. \A x \in pending_meta_by_tx_id' : tx_locs'[x].seq < next_queue_seq'
    BY <2>1, <2>2, <2>3
  <2>5. \A x, y \in pending_meta_by_tx_id' : tx_locs'[x].seq = tx_locs'[y].seq => x = y
    BY <2>1, <2>2, <2>3 DEF NumberInv, SeqOK
  <2>. QED
    BY <2>4, <2>5 DEF SeqOK
<1>5. CursorOK'
  BY DEF Accepts, NumberInv, CursorOK
<1>6. RingOK(dropped_ring, dropped_next)'
  BY <1>3 DEF RingOK
<1>. QED
  BY <1>4, <1>5, <1>6 DEF NumberInv

\* produce_block numbers its drops.
LEMMA SplitNumbers ==
    ASSUME PoolInv, NumberInv, NEW early \in SUBSET Tx, NEW late \in SUBSET Tx,
           NEW ok \in SUBSET Tx, Split(early, late, ok)
    PROVE  SeqOK' /\ RingOK(dropped_ring, dropped_next)'
<1>1. PICK D, rank : D = early \cup late /\ rank = DropRank(early, late)
  OBVIOUS
<1>2. /\ D \in SUBSET pending_meta_by_tx_id /\ D \in SUBSET Tx
      /\ early \in SUBSET pending_meta_by_tx_id /\ late \in SUBSET pending_meta_by_tx_id
      /\ pending_meta_by_tx_id' = pending_meta_by_tx_id \ (D \cup ok)
      /\ next_queue_seq' = next_queue_seq
      /\ dropped_ring' = RingAfter(D, rank)
      /\ dropped_next' = dropped_next + Cardinality(D)
      /\ tx_locs' = [t \in Tx |-> IF t \in ok
                                  THEN Included(head + 1, RankIn(ok, t))
                                  ELSE LocsAfter(D, dropped_ring')[t]]
      /\ pending_meta_by_tx_id \subseteq Tx
  BY <1>1 DEF Split, LeaveMempool, PoolInv, TypeOK
<1>3. /\ rank \in [D -> Nat] /\ Cardinality(D) \in Nat
      /\ \A d \in D : rank[d] < Cardinality(D)
      /\ \A d, e \in D : rank[d] = rank[e] => d = e
  BY <1>1, SplitRanks DEF NumberInv
<1>4. RingOK(dropped_ring', dropped_next')
  BY <1>2, <1>3, RingPush DEF NumberInv
<1>5. \A x \in pending_meta_by_tx_id' : tx_locs'[x] = tx_locs[x]
  <2>. TAKE x \in pending_meta_by_tx_id'
  <2>1. x \in Tx /\ x \notin D /\ x \notin ok /\ tx_locs[x].kind = "queued"
    BY <1>2, OnePerSender
  <2>2. LocsAfter(D, dropped_ring')[x] = tx_locs[x]
    BY <1>2, <2>1, LocsStay
  <2>. QED
    BY <1>2, <2>1, <2>2
<1>6. SeqOK'
  BY <1>2, <1>5 DEF NumberInv, SeqOK
<1>7. RingOK(dropped_ring, dropped_next)'
  BY <1>4 DEF RingOK
<1>. QED
  BY <1>6, <1>7

\* Pruning moves the cursor past what it takes.
LEMMA PruneNumbers ==
    ASSUME PoolInv, NumberInv, NEW retain \in Retains, PruneBlock(retain)
    PROVE  NumberInv'
<1>1. PICK b : b = next_prune_block
  OBVIOUS
<1>2. /\ b \in DOMAIN blocks /\ next_prune_block' = b + 1
      /\ blocks' = [n \in DOMAIN blocks \ {b} |-> blocks[n]]
      /\ pending_meta_by_tx_id' = pending_meta_by_tx_id
      /\ next_queue_seq' = next_queue_seq /\ dropped_ring' = dropped_ring
      /\ dropped_next' = dropped_next /\ head' = head
      /\ tx_locs' = [t \in Tx |-> IF t \in blocks[b] THEN NoLoc ELSE tx_locs[t]]
      /\ pending_meta_by_tx_id \subseteq Tx
  BY <1>1 DEF PruneBlock, PoolInv, TypeOK
<1>3. \A x \in pending_meta_by_tx_id : tx_locs'[x] = tx_locs[x]
  <2>1. \A x \in pending_meta_by_tx_id : x \notin blocks[b]
    BY <1>2, OnePerSender DEF PoolInv, BlocksHoldIncluded
  <2>. QED
    BY <1>2, <2>1
<1>4. SeqOK'
  BY <1>2, <1>3 DEF NumberInv, SeqOK
<1>5. RingOK(dropped_ring, dropped_next)'
  BY <1>2 DEF NumberInv, RingOK
<1>6. CursorOK'
  <2>1. /\ b \in Nat /\ head \in Nat /\ retain \in Nat \ {0}
        /\ DOMAIN blocks \subseteq 1..head
    BY <1>1, LimitAssumption DEF PoolInv, TypeOK
  <2>2. head > retain /\ b <= head - retain
    BY <1>1 DEF PruneBlock, PruneDue
  <2>3. DOMAIN blocks' = DOMAIN blocks \ {b}
    BY <1>2
  <2>4. \A n \in DOMAIN blocks' : n \in Nat /\ b <= n /\ n # b
    BY <1>1, <2>1, <2>3 DEF NumberInv, CursorOK
  <2>5. b + 1 <= head
    BY <2>1, <2>2
  <2>6. \A n \in DOMAIN blocks' : b + 1 <= n
    BY <2>1, <2>4
  <2>. QED
    BY <1>2, <2>5, <2>6 DEF CursorOK
<1>. QED
  BY <1>4, <1>5, <1>6 DEF NumberInv

\* Every step keeps the numbers.
LEMMA NumberStep ==
    ASSUME PoolInv, NumberInv, [Next]_vars
    PROVE  NumberInv'
<1>1. ASSUME NEW t \in Tx, Refuses(t) PROVE NumberInv'
  BY <1>1 DEF Refuses, NumberInv, SeqOK, RingOK, CursorOK
<1>2. ASSUME NEW early \in SUBSET Tx, NEW late \in SUBSET Tx, NEW ok \in SUBSET Tx,
             NEW gasUsed \in Nat, Includes(early, late, ok, gasUsed)
      PROVE  NumberInv'
  <2>1. /\ head' = head + 1 /\ DOMAIN blocks' = DOMAIN blocks \cup {head + 1}
        /\ next_prune_block' = next_prune_block
    BY <1>2 DEF Includes, Split, LeaveMempool, ProduceBlock
  <2>2. head \in Nat /\ next_prune_block \in Nat
    BY DEF PoolInv, TypeOK
  <2>3. CursorOK'
    BY <2>1, <2>2 DEF NumberInv, CursorOK
  <2>. QED
    BY <1>2, <2>3, SplitNumbers DEF Includes, NumberInv
<1>3. ASSUME NEW early \in SUBSET Tx, NEW late \in SUBSET Tx, DropsOnly(early, late)
      PROVE  NumberInv'
  <2>1. head' = head /\ blocks' = blocks /\ next_prune_block' = next_prune_block
    BY <1>3 DEF DropsOnly, Split, LeaveMempool, DropOnly, chainVars
  <2>2. CursorOK'
    BY <2>1 DEF NumberInv, CursorOK
  <2>3. {} \in SUBSET Tx
    OBVIOUS
  <2>. QED
    BY <1>3, <2>2, <2>3, SplitNumbers DEF DropsOnly, NumberInv
<1>4. ASSUME Rests PROVE NumberInv'
  <2>1. /\ UNCHANGED << pending_meta_by_tx_id, next_queue_seq, tx_locs, dropped_ring,
                        dropped_next, head, blocks >>
    BY <1>4 DEF Rests, poolVars, locVars, chainVars
  <2>2. CursorOK'
    <3>1. CASE next_prune_block' = next_prune_block
      BY <2>1, <3>1 DEF NumberInv, CursorOK
    <3>2. ASSUME NEW retain \in Retains, PruneDue(retain),
                 next_prune_block \notin DOMAIN blocks,
                 next_prune_block' = next_prune_block + 1
          PROVE  CursorOK'
      <4>1. /\ next_prune_block \in Nat /\ head \in Nat /\ retain \in Nat \ {0}
            /\ DOMAIN blocks \subseteq 1..head
        BY LimitAssumption DEF PoolInv, TypeOK
      <4>2. next_prune_block + 1 <= head
        BY <3>2, <4>1 DEF PruneDue
      <4>3. \A n \in DOMAIN blocks : next_prune_block + 1 <= n
        BY <3>2, <4>1 DEF NumberInv, CursorOK
      <4>. QED
        BY <2>1, <3>2, <4>2, <4>3 DEF CursorOK
    <3>. QED
      BY <1>4, <3>1, <3>2 DEF Rests
  <2>. QED
    BY <2>1, <2>2 DEF NumberInv, SeqOK, RingOK
<1>. QED
  BY <1>1, <1>2, <1>3, <1>4, StepCases, AcceptsNumbers, PruneNumbers

-----------------------------------------------------------------------------
(* Payloads follow locations.                                              *)

\* PayloadFollowsLocation of one transaction.
PayloadOK(t) ==
    /\ tx_store[t] # NoPrincipal <=> tx_locs[t].kind \in {"queued", "included"}
    /\ tx_locs[t].kind = "dropped" <=> dropped_ring[t] # None
    /\ tx_locs[t].kind # "none" => t \in seen_tx
    /\ t \in eth_tx_hash_index <=> t \in EthSigned /\ tx_store[t] # NoPrincipal

Payloads == \A t \in Tx : PayloadOK(t)

\* With the ring's numbers this is the property.
LEMMA PayloadsSuffice ==
    ASSUME TypeOK, RingOK(dropped_ring, dropped_next), Payloads
    PROVE  PayloadFollowsLocation
BY RingBound DEF Payloads, PayloadOK, PayloadFollowsLocation

\* What leaves the queue is purged and remembered as long as the ring does,
\* and what the ring forgets is forgotten.
LEMMA DropsPurge ==
    ASSUME PoolInv, Payloads, NEW D \in SUBSET pending_meta_by_tx_id, NEW ring,
           \A t \in Tx \ D : ring[t] \in {None, dropped_ring[t]},
           NEW x \in Tx, NEW loc, loc = LocsAfter(D, ring)[x],
           NEW store, store = StoreAfter(D)[x]
    PROVE  /\ store # NoPrincipal <=> loc.kind \in {"queued", "included"}
           /\ loc.kind = "dropped" <=> ring[x] # None
           /\ loc.kind # "none" => x \in seen_tx
           /\ x \in eth_tx_hash_index \ D <=> x \in EthSigned /\ store # NoPrincipal
<1>1. NoLoc.kind = "none" /\ Dropped.kind = "dropped"
  BY DEF NoLoc, Dropped, Loc
<1>2. loc = IF x \in D THEN IF ring[x] = None THEN NoLoc ELSE Dropped
            ELSE IF dropped_ring[x] # None /\ ring[x] = None /\ tx_locs[x].kind = "dropped"
            THEN NoLoc ELSE tx_locs[x]
  BY DEF LocsAfter
<1>3. store = IF x \in D THEN NoPrincipal ELSE tx_store[x]
  BY DEF StoreAfter
<1>4. PayloadOK(x)
  BY DEF Payloads
<1>5. CASE x \in D
  <2>1. x \in seen_tx
    BY <1>5 DEF PoolInv, PendingIndexesAgree
  <2>. QED
    BY <1>1, <1>2, <1>3, <1>5, <2>1
<1>6. CASE x \notin D
  BY <1>1, <1>2, <1>3, <1>4, <1>6 DEF PayloadOK
<1>. QED
  BY <1>5, <1>6

\* An accepted submission stores its payload and purges what it evicts.
LEMMA AcceptsPayloads ==
    ASSUME PoolInv, NumberInv, Payloads, NEW t \in Tx, NEW p \in Principals,
           NEW D \in SUBSET Tx, Accepts(t, p, D)
    PROVE  Payloads'
<1>1. PICK rank, ring : rank = [d \in D |-> 0] /\ ring = RingAfter(D, rank)
  OBVIOUS
<1>2. /\ D \in SUBSET pending_meta_by_tx_id
      /\ rank \in [D -> Nat] /\ Cardinality(D) \in Nat
      /\ \A d \in D : rank[d] < Cardinality(D)
      /\ \A d, e \in D : rank[d] = rank[e] => d = e
  BY <1>1, OneDrop DEF Accepts
<1>3. \A x \in Tx \ D : ring[x] \in {None, dropped_ring[x]}
  BY <1>1, <1>2, RingPush DEF NumberInv
<1>4. /\ seen_tx' = seen_tx \cup {t}
      /\ tx_store' = [StoreAfter(D) EXCEPT ![t] = p]
      /\ eth_tx_hash_index' = (eth_tx_hash_index \ D) \cup ({t} \cap EthSigned)
      /\ dropped_ring' = ring
      /\ tx_locs' = [LocsAfter(D, ring) EXCEPT ![t] = Queued(next_queue_seq)]
      /\ t \notin seen_tx /\ t \notin pending_meta_by_tx_id
  BY <1>1 DEF Accepts
<1>5. ASSUME NEW x \in Tx, x # t PROVE PayloadOK(x)'
  <2>1. tx_locs'[x] = LocsAfter(D, ring)[x] /\ tx_store'[x] = StoreAfter(D)[x]
    BY <1>4, <1>5 DEF LocsAfter, StoreAfter
  <2>2. PICK loc, store : loc = LocsAfter(D, ring)[x] /\ store = StoreAfter(D)[x]
    OBVIOUS
  <2>3. /\ store # NoPrincipal <=> loc.kind \in {"queued", "included"}
        /\ loc.kind = "dropped" <=> ring[x] # None
        /\ loc.kind # "none" => x \in seen_tx
        /\ x \in eth_tx_hash_index \ D <=> x \in EthSigned /\ store # NoPrincipal
    BY <1>2, <1>3, <2>2, DropsPurge
  <2>4. /\ x \in seen_tx' <=> x \in seen_tx
        /\ x \in eth_tx_hash_index' <=> x \in eth_tx_hash_index \ D
        /\ dropped_ring'[x] = ring[x]
    BY <1>4, <1>5
  <2>. QED
    BY <2>1, <2>2, <2>3, <2>4 DEF PayloadOK
<1>6. PayloadOK(t)'
  <2>1. /\ tx_locs'[t] = Queued(next_queue_seq) /\ tx_store'[t] = p
        /\ t \in seen_tx'
    BY <1>4 DEF LocsAfter, StoreAfter
  <2>2. Queued(next_queue_seq).kind = "queued"
    BY DEF Queued, Loc
  <2>3. p # NoPrincipal
    BY TxAssumption
  <2>4. t \notin D
    BY <1>2, <1>4
  <2>5. dropped_ring[t] = None
    <3>1. PayloadOK(t)
      BY DEF Payloads
    <3>2. tx_locs[t].kind = "none"
      BY <1>4 DEF PoolInv, SeenCoversLocations
    <3>. QED
      BY <3>1, <3>2 DEF PayloadOK
  <2>6. dropped_ring'[t] = None
    BY <1>3, <1>4, <2>4, <2>5
  <2>7. t \in eth_tx_hash_index' <=> t \in EthSigned
    <3>1. tx_store[t] = NoPrincipal
      <4>1. tx_locs[t].kind = "none"
        BY <1>4 DEF PoolInv, SeenCoversLocations
      <4>. QED
        BY <4>1 DEF Payloads, PayloadOK
    <3>2. t \notin eth_tx_hash_index
      BY <3>1 DEF Payloads, PayloadOK
    <3>. QED
      BY <1>4, <3>2
  <2>. QED
    BY <2>1, <2>2, <2>3, <2>6, <2>7 DEF PayloadOK
<1>. QED
  BY <1>5, <1>6 DEF Payloads

\* produce_block keeps the payloads of what it includes and purges its drops.
LEMMA SplitPayloads ==
    ASSUME PoolInv, NumberInv, Payloads, NEW early \in SUBSET Tx, NEW late \in SUBSET Tx,
           NEW ok \in SUBSET Tx, Split(early, late, ok)
    PROVE  Payloads'
<1>1. PICK D, rank, ring : /\ D = early \cup late /\ rank = DropRank(early, late)
                           /\ ring = RingAfter(D, rank)
  OBVIOUS
<1>2. /\ D \in SUBSET pending_meta_by_tx_id /\ D \in SUBSET Tx
      /\ ok \subseteq pending_meta_by_tx_id /\ ok \cap D = {}
      /\ dropped_ring' = ring
      /\ seen_tx' = seen_tx
      /\ tx_store' = StoreAfter(D)
      /\ eth_tx_hash_index' = eth_tx_hash_index \ D
      /\ tx_locs' = [t \in Tx |-> IF t \in ok
                                  THEN Included(head + 1, RankIn(ok, t))
                                  ELSE LocsAfter(D, ring)[t]]
  BY <1>1 DEF Split, LeaveMempool, PoolInv, TypeOK
<1>3. /\ rank \in [D -> Nat] /\ Cardinality(D) \in Nat
      /\ \A d \in D : rank[d] < Cardinality(D)
      /\ \A d, e \in D : rank[d] = rank[e] => d = e
  BY <1>1, SplitRanks DEF NumberInv
<1>4. \A x \in Tx \ D : ring[x] \in {None, dropped_ring[x]}
  <2>1. RingOK(dropped_ring, dropped_next)
    BY DEF NumberInv
  <2>. QED
    BY <1>1, <1>2, <1>3, <2>1, RingPush
<1>5. ASSUME NEW x \in Tx PROVE PayloadOK(x)'
  <2>1. PICK loc, store : loc = LocsAfter(D, ring)[x] /\ store = StoreAfter(D)[x]
    OBVIOUS
  <2>2. /\ store # NoPrincipal <=> loc.kind \in {"queued", "included"}
        /\ loc.kind = "dropped" <=> ring[x] # None
        /\ loc.kind # "none" => x \in seen_tx
        /\ x \in eth_tx_hash_index \ D <=> x \in EthSigned /\ store # NoPrincipal
    BY <1>2, <1>4, <2>1, DropsPurge
  <2>3. CASE x \notin ok
    BY <1>2, <2>1, <2>2, <2>3 DEF PayloadOK
  <2>4. CASE x \in ok
    <3>1. x \notin D /\ tx_locs[x].kind = "queued"
      BY <1>2, <2>4, OnePerSender
    <3>2. loc = tx_locs[x]
      BY <1>2, <2>1, <3>1, LocsStay
    <3>3. tx_locs'[x].kind = "included"
      BY <1>2, <2>4 DEF Included, Loc
    <3>. QED
      BY <1>2, <2>1, <2>2, <3>1, <3>2, <3>3 DEF PayloadOK
  <2>. QED
    BY <2>3, <2>4
<1>. QED
  BY <1>5 DEF Payloads

\* Pruning takes payload, location and index entry of a transaction together.
LEMMA PrunePayloads ==
    ASSUME PoolInv, Payloads, NEW retain \in Retains, PruneBlock(retain)
    PROVE  Payloads'
<1>1. PICK P : P = blocks[next_prune_block]
  OBVIOUS
<1>2. /\ next_prune_block \in DOMAIN blocks
      /\ tx_locs' = [t \in Tx |-> IF t \in P THEN NoLoc ELSE tx_locs[t]]
      /\ eth_tx_hash_index' = eth_tx_hash_index \ P
      /\ tx_store' = StoreAfter(P)
      /\ seen_tx' = seen_tx \ P
      /\ dropped_ring' = dropped_ring
  BY <1>1 DEF PruneBlock
<1>3. \A x \in P : tx_locs[x].kind = "included"
  BY <1>1, <1>2 DEF PoolInv, BlocksHoldIncluded
<1>4. NoLoc.kind = "none"
  BY DEF NoLoc, Loc
<1>5. ASSUME NEW x \in Tx PROVE PayloadOK(x)'
  <2>1. PayloadOK(x)
    BY DEF Payloads
  <2>2. CASE x \in P
    <3>1. dropped_ring[x] = None
      BY <1>3, <2>1, <2>2 DEF PayloadOK
    <3>2. tx_store'[x] = NoPrincipal /\ tx_locs'[x] = NoLoc
      BY <1>2, <2>2 DEF StoreAfter
    <3>. QED
      BY <1>2, <1>4, <2>2, <3>1, <3>2 DEF PayloadOK
  <2>3. CASE x \notin P
    <3>1. tx_store'[x] = tx_store[x] /\ tx_locs'[x] = tx_locs[x]
      BY <1>2, <2>3 DEF StoreAfter
    <3>. QED
      BY <1>2, <2>1, <2>3, <3>1 DEF PayloadOK
  <2>. QED
    BY <2>2, <2>3
<1>. QED
  BY <1>5 DEF Payloads

\* Every step keeps payloads and locations together.
LEMMA PayloadStep ==
    ASSUME PoolInv, NumberInv, Payloads, [Next]_vars
    PROVE  Payloads'
<1>1. ASSUME (\E t \in Tx : Refuses(t)) \/ Rests PROVE Payloads'
  <2>1. UNCHANGED << tx_store, tx_locs, dropped_ring, seen_tx, eth_tx_hash_index >>
    BY <1>1 DEF Refuses, Rests, poolVars, locVars
  <2>. QED
    BY <2>1 DEF Payloads, PayloadOK
<1>2. {} \in SUBSET Tx
  OBVIOUS
<1>. QED
  BY <1>1, <1>2, StepCases, AcceptsPayloads, SplitPayloads, PrunePayloads
     DEF Includes, DropsOnly

-----------------------------------------------------------------------------
(* Locations, receipts and index entries name the stored blocks.           *)

\* A step that leaves the blocks, the index and every included transaction
\* alone.
LEMMA IncludedKept ==
    ASSUME IncludedIffInStoredBlock,
           blocks' = blocks, tx_index' = tx_index, receipts' = receipts,
           \A n \in DOMAIN blocks : blocks[n] \subseteq Tx,
           \A x \in Tx : tx_locs[x].kind = "included" \/ tx_locs'[x].kind = "included" =>
               tx_locs'[x] = tx_locs[x]
    PROVE  IncludedIffInStoredBlock'
<1>1. ASSUME NEW x \in Tx
      PROVE  /\ tx_locs'[x].kind = "included" <=> \E n \in DOMAIN blocks : x \in blocks[n]
             /\ tx_locs'[x].kind # "included" => tx_index[x] = NoEntry
             /\ receipts[x] = tx_index[x]
  BY DEF IncludedIffInStoredBlock
<1>2. ASSUME NEW n \in DOMAIN blocks, NEW x \in blocks[n]
      PROVE  /\ tx_locs'[x].kind = "included" /\ tx_locs'[x].block = n
             /\ tx_index[x] = Entry(n, tx_locs'[x].index)
             /\ tx_index[x].index < Cardinality(blocks[n])
             /\ \A u \in blocks[n] : tx_index[u] = tx_index[x] => u = x
  <2>1. x \in Tx /\ tx_locs'[x] = tx_locs[x]
    BY DEF IncludedIffInStoredBlock
  <2>. QED
    BY <2>1 DEF IncludedIffInStoredBlock
<1>. QED
  BY <1>1, <1>2 DEF IncludedIffInStoredBlock

\* Drops and evictions never touch an included transaction.
LEMMA DropsKeepIncluded ==
    ASSUME PoolInv, NEW D \in SUBSET pending_meta_by_tx_id, NEW ring, NEW x \in Tx,
           NEW loc, loc = LocsAfter(D, ring)[x],
           tx_locs[x].kind = "included" \/ loc.kind = "included"
    PROVE  loc = tx_locs[x]
<1>1. D \in SUBSET Tx
  BY DEF PoolInv, TypeOK
<1>2. NoLoc.kind = "none"
  BY DEF NoLoc, Loc
<1>3. x \in D => tx_locs[x].kind = "queued"
  BY OnePerSender
<1>. QED
  BY <1>1, <1>2, <1>3, LocsLeave

\* A submission touches no included transaction.
LEMMA AcceptsIncluded ==
    ASSUME PoolInv, IncludedIffInStoredBlock, NEW t \in Tx, NEW p \in Principals,
           NEW D \in SUBSET Tx, Accepts(t, p, D)
    PROVE  IncludedIffInStoredBlock'
<1>1. PICK ring : ring = dropped_ring'
  OBVIOUS
<1>2. /\ D \in SUBSET pending_meta_by_tx_id
      /\ tx_locs' = [LocsAfter(D, ring) EXCEPT ![t] = Queued(next_queue_seq)]
      /\ t \notin seen_tx
      /\ blocks' = blocks /\ tx_index' = tx_index /\ receipts' = receipts
      /\ \A n \in DOMAIN blocks : blocks[n] \subseteq Tx
  BY <1>1 DEF Accepts, PoolInv, TypeOK
<1>3. ASSUME NEW x \in Tx, tx_locs[x].kind = "included" \/ tx_locs'[x].kind = "included"
      PROVE  tx_locs'[x] = tx_locs[x]
  <2>1. Queued(next_queue_seq).kind = "queued"
    BY DEF Queued, Loc
  <2>2. tx_locs[t].kind = "none" /\ tx_locs'[t] = Queued(next_queue_seq)
    BY <1>2 DEF PoolInv, SeenCoversLocations, LocsAfter
  <2>3. x # t
    BY <1>3, <2>1, <2>2
  <2>4. tx_locs'[x] = LocsAfter(D, ring)[x]
    BY <1>2, <2>3 DEF LocsAfter
  <2>5. PICK loc : loc = LocsAfter(D, ring)[x]
    OBVIOUS
  <2>. QED
    BY <1>2, <1>3, <2>4, <2>5, DropsKeepIncluded
<1>. QED
  BY <1>2, <1>3, IncludedKept

\* Dropping touches no included transaction.
LEMMA DropsIncluded ==
    ASSUME PoolInv, IncludedIffInStoredBlock, NEW early \in SUBSET Tx,
           NEW late \in SUBSET Tx, DropsOnly(early, late)
    PROVE  IncludedIffInStoredBlock'
<1>1. PICK D, ring : D = early \cup late /\ ring = dropped_ring'
  OBVIOUS
<1>2. /\ D \in SUBSET pending_meta_by_tx_id
      /\ \A x \in Tx : tx_locs'[x] = LocsAfter(D, ring)[x]
      /\ blocks' = blocks /\ tx_index' = tx_index /\ receipts' = receipts
      /\ \A n \in DOMAIN blocks : blocks[n] \subseteq Tx
  BY <1>1 DEF DropsOnly, Split, DropOnly, LeaveMempool, chainVars, PoolInv, TypeOK
<1>3. ASSUME NEW x \in Tx, tx_locs[x].kind = "included" \/ tx_locs'[x].kind = "included"
      PROVE  tx_locs'[x] = tx_locs[x]
  <2>1. PICK loc : loc = LocsAfter(D, ring)[x]
    OBVIOUS
  <2>. QED
    BY <1>2, <1>3, <2>1, DropsKeepIncluded
<1>. QED
  BY <1>2, <1>3, IncludedKept

\* The new block's transactions get the block's number and their own rank.
LEMMA BlockIncluded ==
    ASSUME PoolInv, SeqOK, IncludedIffInStoredBlock, NEW early \in SUBSET Tx,
           NEW late \in SUBSET Tx, NEW ok \in SUBSET Tx, NEW gasUsed \in Nat,
           Includes(early, late, ok, gasUsed)
    PROVE  IncludedIffInStoredBlock'
<1>1. PICK D, ring, h : D = early \cup late /\ ring = dropped_ring' /\ h = head + 1
  OBVIOUS
<1>2. /\ D \in SUBSET pending_meta_by_tx_id /\ ok \in SUBSET pending_meta_by_tx_id
      /\ ok \cap D = {}
  BY <1>1 DEF Includes, Split
<1>3. /\ tx_locs' = [t \in Tx |-> IF t \in ok THEN Included(h, RankIn(ok, t))
                                  ELSE LocsAfter(D, ring)[t]]
      /\ blocks' = [n \in DOMAIN blocks \cup {h} |-> IF n = h THEN ok ELSE blocks[n]]
      /\ tx_index' = [t \in Tx |-> IF t \in ok THEN Entry(h, RankIn(ok, t))
                                   ELSE tx_index[t]]
      /\ receipts' = [t \in Tx |-> IF t \in ok THEN Entry(h, RankIn(ok, t))
                                   ELSE receipts[t]]
  BY <1>1 DEF Includes, Split, ProduceBlock, LeaveMempool
<1>4. /\ h \notin DOMAIN blocks
      /\ \A n \in DOMAIN blocks : blocks[n] \subseteq Tx
  BY <1>1 DEF PoolInv, TypeOK
<1>5. \A x \in ok : x \in Tx /\ tx_locs[x].kind = "queued"
  BY <1>2, OnePerSender
<1>6. \A n \in DOMAIN blocks : \A x \in blocks[n] :
        x \in Tx /\ tx_locs[x].kind = "included" /\ x \notin ok
  BY <1>4, <1>5 DEF IncludedIffInStoredBlock
<1>7. ASSUME NEW x \in Tx, x \notin ok
      PROVE  /\ tx_locs'[x].kind = "included" <=> tx_locs[x].kind = "included"
             /\ tx_locs[x].kind = "included" => tx_locs'[x] = tx_locs[x]
             /\ tx_index'[x] = tx_index[x] /\ receipts'[x] = receipts[x]
  <2>1. PICK loc : loc = LocsAfter(D, ring)[x]
    OBVIOUS
  <2>2. tx_locs[x].kind = "included" \/ loc.kind = "included" => loc = tx_locs[x]
    BY <1>2, <2>1, DropsKeepIncluded
  <2>. QED
    BY <1>3, <1>7, <2>1, <2>2
<1>8. /\ \A x \in ok : RankIn(ok, x) \in Nat /\ RankIn(ok, x) < Cardinality(ok)
      /\ \A x, u \in ok : RankIn(ok, x) = RankIn(ok, u) => x = u
  BY <1>2, RanksNumber
<1>9. ASSUME NEW x \in ok
      PROVE  /\ tx_locs'[x].kind = "included" /\ tx_locs'[x].block = h
             /\ tx_locs'[x].index = RankIn(ok, x)
             /\ tx_index'[x] = Entry(h, RankIn(ok, x)) /\ receipts'[x] = tx_index'[x]
             /\ tx_index'[x].index = RankIn(ok, x)
  BY <1>3 DEF Included, Loc, Entry
<1>10. /\ DOMAIN blocks' = DOMAIN blocks \cup {h} /\ blocks'[h] = ok
       /\ \A n \in DOMAIN blocks : blocks'[n] = blocks[n]
  BY <1>3, <1>4
<1>11. ASSUME NEW x \in Tx
       PROVE  /\ tx_locs'[x].kind = "included" <=>
                   \E n \in DOMAIN blocks' : x \in blocks'[n]
              /\ tx_locs'[x].kind # "included" => tx_index'[x] = NoEntry
              /\ receipts'[x] = tx_index'[x]
  <2>1. CASE x \in ok
    BY <1>9, <1>10, <2>1
  <2>2. CASE x \notin ok
    <3>1. (\E n \in DOMAIN blocks' : x \in blocks'[n])
            <=> \E n \in DOMAIN blocks : x \in blocks[n]
      BY <1>10, <2>2
    <3>. QED
      BY <1>7, <2>2, <3>1 DEF IncludedIffInStoredBlock
  <2>. QED
    BY <2>1, <2>2
<1>12. ASSUME NEW n \in DOMAIN blocks', NEW x \in blocks'[n]
       PROVE  /\ tx_locs'[x].kind = "included" /\ tx_locs'[x].block = n
              /\ tx_index'[x] = Entry(n, tx_locs'[x].index)
              /\ tx_index'[x].index < Cardinality(blocks'[n])
              /\ \A u \in blocks'[n] : tx_index'[u] = tx_index'[x] => u = x
  <2>1. CASE n = h
    <3>1. x \in ok /\ blocks'[n] = ok
      BY <1>10, <2>1
    <3>2. \A u \in ok : tx_index'[u] = tx_index'[x] => u = x
      BY <1>8, <1>9, <3>1
    <3>. QED
      BY <1>8, <1>9, <2>1, <3>1, <3>2
  <2>2. CASE n \in DOMAIN blocks
    <3>1. /\ blocks'[n] = blocks[n]
          /\ \A u \in blocks[n] : /\ u \in Tx /\ u \notin ok
                                  /\ tx_locs'[u] = tx_locs[u] /\ tx_index'[u] = tx_index[u]
      BY <1>6, <1>7, <1>10, <2>2
    <3>. QED
      BY <2>2, <3>1 DEF IncludedIffInStoredBlock
  <2>. QED
    BY <1>10, <2>1, <2>2
<1>. QED
  BY <1>11, <1>12 DEF IncludedIffInStoredBlock

\* Pruning a block forgets its transactions and no others.
LEMMA PruneIncluded ==
    ASSUME PoolInv, IncludedIffInStoredBlock, NEW retain \in Retains, PruneBlock(retain)
    PROVE  IncludedIffInStoredBlock'
<1>1. PICK b, P : b = next_prune_block /\ P = blocks[b]
  OBVIOUS
<1>2. /\ b \in DOMAIN blocks
      /\ blocks' = [n \in DOMAIN blocks \ {b} |-> blocks[n]]
      /\ tx_index' = [t \in Tx |-> IF t \in P THEN NoEntry ELSE tx_index[t]]
      /\ receipts' = [t \in Tx |-> IF t \in P THEN NoEntry ELSE receipts[t]]
      /\ tx_locs' = [t \in Tx |-> IF t \in P THEN NoLoc ELSE tx_locs[t]]
      /\ \A n \in DOMAIN blocks : blocks[n] \subseteq Tx
  BY <1>1 DEF PruneBlock, Without, PoolInv, TypeOK
<1>3. NoLoc.kind = "none"
  BY DEF NoLoc, Loc
<1>4. \A n \in DOMAIN blocks : \A x \in blocks[n] : tx_locs[x].block = n /\ x \in Tx
  BY <1>2 DEF IncludedIffInStoredBlock
<1>5. \A n \in DOMAIN blocks \ {b} : \A x \in blocks[n] : x \notin P
  BY <1>1, <1>2, <1>4
<1>6. /\ DOMAIN blocks' = DOMAIN blocks \ {b}
      /\ \A n \in DOMAIN blocks' : blocks'[n] = blocks[n]
  BY <1>2
<1>7. ASSUME NEW x \in Tx
      PROVE  /\ tx_locs'[x].kind = "included" <=>
                  \E n \in DOMAIN blocks' : x \in blocks'[n]
             /\ tx_locs'[x].kind # "included" => tx_index'[x] = NoEntry
             /\ receipts'[x] = tx_index'[x]
  <2>1. CASE x \in P
    BY <1>2, <1>3, <1>5, <1>6, <2>1
  <2>2. CASE x \notin P
    <3>1. (\E n \in DOMAIN blocks' : x \in blocks'[n])
            <=> \E n \in DOMAIN blocks : x \in blocks[n]
      BY <1>1, <1>6, <2>2
    <3>2. /\ tx_locs'[x] = tx_locs[x] /\ tx_index'[x] = tx_index[x]
          /\ receipts'[x] = receipts[x]
      BY <1>2, <2>2
    <3>. QED
      BY <3>1, <3>2 DEF IncludedIffInStoredBlock
  <2>. QED
    BY <2>1, <2>2
<1>8. ASSUME NEW n \in DOMAIN blocks', NEW x \in blocks'[n]
      PROVE  /\ tx_locs'[x].kind = "included" /\ tx_locs'[x].block = n
             /\ tx_index'[x] = Entry(n, tx_locs'[x].index)
             /\ tx_index'[x].index < Cardinality(blocks'[n])
             /\ \A u \in blocks'[n] : tx_index'[u] = tx_index'[x] => u = x
  <2>1. n \in DOMAIN blocks /\ blocks'[n] = blocks[n]
    BY <1>6
  <2>2. \A u \in blocks[n] : /\ tx_locs'[u] = tx_locs[u] /\ tx_index'[u] = tx_index[u]
    BY <1>2, <1>4, <1>5, <1>6
  <2>. QED
    BY <2>1, <2>2 DEF IncludedIffInStoredBlock
<1>. QED
  BY <1>7, <1>8 DEF IncludedIffInStoredBlock

\* Every step keeps blocks, locations, receipts and index together.
LEMMA IncludedStep ==
    ASSUME PoolInv, SeqOK, IncludedIffInStoredBlock, [Next]_vars
    PROVE  IncludedIffInStoredBlock'
<1>1. ASSUME (\E t \in Tx : Refuses(t)) \/ Rests PROVE IncludedIffInStoredBlock'
  <2>1. UNCHANGED << tx_locs, blocks, tx_index, receipts >>
    BY <1>1 DEF Refuses, Rests, locVars, chainVars
  <2>2. \A n \in DOMAIN blocks : blocks[n] \subseteq Tx
    BY DEF PoolInv, TypeOK
  <2>. QED
    BY <2>1, <2>2, IncludedKept
<1>. QED
  BY <1>1, StepCases, AcceptsIncluded, DropsIncluded, BlockIncluded, PruneIncluded

-----------------------------------------------------------------------------
(* What follows.                                                           *)

\* The nonces and prices that the mempool caches are those of the accounts
\* and of the base fee after every submission, replacement, eviction, block,
\* drop and prune: submit_tx accepts exactly the nonce the EVM will accept,
\* and evict_lowest_fee_pending compares present prices.
THEOREM CachesAlwaysFresh == Spec => []CachesAreFresh
<1>1. Init => FreshInv
  BY DEF Init, FreshInv, CachesAreFresh, ExpectedNonceIsAccountNonce,
         FeeIndexIsFresh, PendingIsCached
<1>2. PoolInv /\ FreshInv /\ [Next]_vars => FreshInv'
  BY StepCases, AcceptsFresh, RefusesFresh, IncludesFresh, OthersFresh
<1>3. FreshInv => CachesAreFresh
  BY DEF FreshInv
<1>. QED
  BY <1>1, <1>2, <1>3, PoolInvariant, PTL DEF Spec

\* A principal's pending counter never exceeds the number of its pending
\* transactions, although prune_blocks decrements it a second time for
\* included ones: the cap of submit_tx refuses nobody for transactions that
\* left the queue.
THEOREM CountNeverOver == Spec => []PrincipalCountNeverOver
<1>1. Init => PrincipalCountNeverOver
  <2>. SUFFICES ASSUME Init, NEW p \in Principals
                PROVE  principal_pending_count[p] <= Cardinality(PendingOf(p))
    BY DEF PrincipalCountNeverOver
  <2>1. PendingOf(p) = {} /\ principal_pending_count[p] = 0
    BY DEF Init, PendingOf
  <2>. QED
    BY <2>1, FS_EmptySet
<1>2. ASSUME PoolInv, PrincipalCountNeverOver, [Next]_vars
      PROVE  PrincipalCountNeverOver'
  <2>. SUFFICES ASSUME NEW q \in Principals
                PROVE  principal_pending_count'[q] <= Cardinality(PendingOf(q)')
    BY DEF PrincipalCountNeverOver
  <2>1. principal_pending_count[q] <= Cardinality(PendingOf(q))
    BY <1>2 DEF PrincipalCountNeverOver
  <2>2. ASSUME NEW t \in Tx, NEW p \in Principals, NEW D \in SUBSET Tx, Accepts(t, p, D)
        PROVE  principal_pending_count'[q] <= Cardinality(PendingOf(q)')
    BY <1>2, <2>1, <2>2, AcceptsCounts
  <2>3. ASSUME NEW early \in SUBSET Tx, NEW late \in SUBSET Tx, NEW ok \in SUBSET Tx,
               Split(early, late, ok)
        PROVE  principal_pending_count'[q] <= Cardinality(PendingOf(q)')
    BY <1>2, <2>1, <2>3, LeavesCounts
  <2>4. ASSUME NEW retain \in Retains, PruneBlock(retain)
        PROVE  principal_pending_count'[q] <= Cardinality(PendingOf(q)')
    <3>1. /\ principal_pending_count'[q] <= principal_pending_count[q]
          /\ PendingOf(q)' = PendingOf(q)
      BY <1>2, <2>4, PruneCounts
    <3>2. Cardinality(PendingOf(q)) \in Nat
      <4>1. PendingOf(q) \in SUBSET Tx
        BY <1>2 DEF PendingOf, PoolInv, TypeOK
      <4>. QED
        BY <4>1, FS_Subset, FS_CardinalityType, TxAssumption
    <3>3. principal_pending_count[q] \in Nat /\ principal_pending_count'[q] \in Nat
      BY <1>2, NextPoolInv DEF PoolInv, TypeOK
    <3>. QED
      BY <2>1, <3>1, <3>2, <3>3
  <2>5. ASSUME (\E t \in Tx : Refuses(t)) \/ Rests
        PROVE  principal_pending_count'[q] <= Cardinality(PendingOf(q)')
    BY <2>1, <2>5, RestCounts
  <2>6. {} \in SUBSET Tx
    OBVIOUS
  <2>. QED
    BY <1>2, <2>2, <2>3, <2>4, <2>5, <2>6, StepCases DEF Includes, DropsOnly
<1>. QED
  BY <1>1, <1>2, PoolInvariant, PTL DEF Spec

\* While no block is pruned the counter is the exact number: every path of
\* submit_tx and produce_block into and out of the queue counts.
THEOREM CountExactUnpruned ==
    ASSUME Retains = {} PROVE Spec => []PrincipalCountExact
<1>1. Init => PrincipalCountExact
  <2>. SUFFICES ASSUME Init, NEW p \in Principals
                PROVE  principal_pending_count[p] = Cardinality(PendingOf(p))
    BY DEF PrincipalCountExact
  <2>1. PendingOf(p) = {} /\ principal_pending_count[p] = 0
    BY DEF Init, PendingOf
  <2>. QED
    BY <2>1, FS_EmptySet
<1>2. ASSUME PoolInv, PrincipalCountExact, [Next]_vars
      PROVE  PrincipalCountExact'
  <2>. SUFFICES ASSUME NEW q \in Principals
                PROVE  principal_pending_count'[q] = Cardinality(PendingOf(q)')
    BY DEF PrincipalCountExact
  <2>1. principal_pending_count[q] = Cardinality(PendingOf(q))
    BY <1>2 DEF PrincipalCountExact
  <2>2. ASSUME NEW t \in Tx, NEW p \in Principals, NEW D \in SUBSET Tx, Accepts(t, p, D)
        PROVE  principal_pending_count'[q] = Cardinality(PendingOf(q)')
    BY <1>2, <2>1, <2>2, AcceptsCounts
  <2>3. ASSUME NEW early \in SUBSET Tx, NEW late \in SUBSET Tx, NEW ok \in SUBSET Tx,
               Split(early, late, ok)
        PROVE  principal_pending_count'[q] = Cardinality(PendingOf(q)')
    BY <1>2, <2>1, <2>3, LeavesCounts
  <2>4. ASSUME (\E t \in Tx : Refuses(t)) \/ Rests
        PROVE  principal_pending_count'[q] = Cardinality(PendingOf(q)')
    BY <2>1, <2>4, RestCounts
  <2>5. {} \in SUBSET Tx
    OBVIOUS
  <2>. QED
    BY <1>2, <2>2, <2>3, <2>4, <2>5, StepCases DEF Includes, DropsOnly
<1>. QED
  BY <1>1, <1>2, PoolInvariant, PTL DEF Spec

\* The numbers hold in every reachable state.
LEMMA NumbersAlwaysHold == Spec => []NumberInv
<1>1. Init => NumberInv
  <2>. SUFFICES ASSUME Init PROVE NumberInv
    OBVIOUS
  <2>1. SeqOK /\ CursorOK
    BY DEF Init, SeqOK, CursorOK
  <2>2. RingOK(dropped_ring, dropped_next)
    BY DEF Init, RingOK
  <2>. QED
    BY <2>1, <2>2 DEF NumberInv
<1>2. PoolInv /\ NumberInv /\ [Next]_vars => NumberInv'
  BY NumberStep
<1>. QED
  BY <1>1, <1>2, PoolInvariant, PTL DEF Spec

\* Location, receipt, index entry, payload, eth-hash index and dropped ring
\* agree with the stored blocks, and no two transactions share a position of
\* a block, after every step of produce_block, submit_tx and prune_blocks.
THEOREM AlwaysStoredFollowsBlocks == Spec => []StoredFollowsBlocks
<1>1. Init => Payloads /\ IncludedIffInStoredBlock
  <2>. SUFFICES ASSUME Init PROVE Payloads /\ IncludedIffInStoredBlock
    OBVIOUS
  <2>1. NoLoc.kind = "none"
    BY DEF NoLoc, Loc
  <2>. QED
    BY <2>1 DEF Init, Payloads, PayloadOK, IncludedIffInStoredBlock
<1>2. PoolInv /\ NumberInv /\ Payloads /\ IncludedIffInStoredBlock /\ [Next]_vars
        => Payloads' /\ IncludedIffInStoredBlock'
  BY PayloadStep, IncludedStep DEF NumberInv
<1>3. PoolInv /\ NumberInv /\ Payloads /\ IncludedIffInStoredBlock => StoredFollowsBlocks
  BY PayloadsSuffice DEF StoredFollowsBlocks, PoolInv, NumberInv
<1>. QED
  BY <1>1, <1>2, <1>3, PoolInvariant, NumbersAlwaysHold, PTL DEF Spec

\* What InclusionConsumesNonce says of a step.
NonceStep ==
    /\ \A s \in Senders : accounts'[s] >= accounts[s]
    /\ \A t \in Tx :
         tx_locs'[t].kind = "included" /\ tx_locs[t].kind # "included" =>
           /\ Nonce[t] = accounts[Sender[t]]
           /\ accounts'[Sender[t]] = Nonce[t] + 1

\* commit_state_diff_to_db consumes the nonce of every included transaction
\* exactly once: a transaction is never executed twice, even after pruning
\* has forgotten that it was seen.
THEOREM AlwaysConsumesNonce == Spec => InclusionConsumesNonce
<1>1. ASSUME PoolInv, [Next]_vars
      PROVE  NonceStep
  <2>1. accounts \in [Senders -> Nat] /\ NoLoc.kind = "none"
    BY <1>1 DEF PoolInv, TypeOK, NoLoc, Loc
  <2>2. ASSUME NEW t \in Tx, NEW p \in Principals, NEW D \in SUBSET Tx, Accepts(t, p, D),
               NEW x \in Tx, tx_locs'[x].kind = "included"
        PROVE  tx_locs[x].kind = "included"
    <3>1. PICK ring : ring = dropped_ring'
      OBVIOUS
    <3>2. /\ D \in SUBSET pending_meta_by_tx_id
          /\ tx_locs' = [LocsAfter(D, ring) EXCEPT ![t] = Queued(next_queue_seq)]
      BY <2>2, <3>1 DEF Accepts
    <3>3. Queued(next_queue_seq).kind = "queued"
      BY DEF Queued, Loc
    <3>4. tx_locs'[x] = LocsAfter(D, ring)[x]
      BY <2>2, <3>2, <3>3 DEF LocsAfter
    <3>5. PICK loc : loc = LocsAfter(D, ring)[x]
      OBVIOUS
    <3>. QED
      BY <1>1, <2>2, <3>2, <3>4, <3>5, DropsKeepIncluded
  <2>3. ASSUME NEW early \in SUBSET Tx, NEW late \in SUBSET Tx, NEW ok \in SUBSET Tx,
               Split(early, late, ok), NEW x \in Tx, tx_locs'[x].kind = "included"
        PROVE  tx_locs[x].kind = "included" \/ x \in ok
    <3>1. PICK D, ring : D = early \cup late /\ ring = dropped_ring'
      OBVIOUS
    <3>2. /\ D \in SUBSET pending_meta_by_tx_id
          /\ tx_locs' = [t \in Tx |-> IF t \in ok THEN Included(head + 1, RankIn(ok, t))
                                      ELSE LocsAfter(D, ring)[t]]
      BY <2>3, <3>1 DEF Split, LeaveMempool
    <3>3. x \notin ok => tx_locs'[x] = LocsAfter(D, ring)[x]
      BY <3>2
    <3>4. PICK loc : loc = LocsAfter(D, ring)[x]
      OBVIOUS
    <3>. QED
      BY <1>1, <2>3, <3>2, <3>3, <3>4, DropsKeepIncluded
  <2>4. ASSUME NEW early \in SUBSET Tx, NEW late \in SUBSET Tx, NEW ok \in SUBSET Tx,
               NEW gasUsed \in Nat, Includes(early, late, ok, gasUsed)
        PROVE  NonceStep
    <3>1. /\ ok \in SUBSET pending_meta_by_tx_id /\ Split(early, late, ok)
          /\ accounts' = AccountsAfter(ok)
          /\ \A t \in ok : Nonce[t] = accounts[Sender[t]]
      BY <2>4 DEF Includes, Split, ProduceBlock
    <3>2. \A s \in Senders : accounts'[s] = accounts[s]
            + (IF \E t \in ok : Sender[t] = s THEN 1 ELSE 0)
      BY <1>1, <3>1, BumpOne DEF AccountsAfter
    <3>3. \A s \in Senders : accounts'[s] >= accounts[s]
      BY <2>1, <3>2
    <3>4. \A t \in ok : Sender[t] \in Senders /\ accounts'[Sender[t]] = Nonce[t] + 1
      BY <3>1, <3>2, FieldAssumption
    <3>. QED
      BY <2>3, <3>1, <3>3, <3>4 DEF NonceStep
  <2>5. ASSUME accounts' = accounts,
               \A x \in Tx : tx_locs'[x].kind = "included" => tx_locs[x].kind = "included"
        PROVE  NonceStep
    BY <2>1, <2>5 DEF NonceStep
  <2>6. ASSUME NEW t \in Tx, NEW p \in Principals, NEW D \in SUBSET Tx, Accepts(t, p, D)
        PROVE  NonceStep
    <3>1. accounts' = accounts
      BY <2>6 DEF Accepts
    <3>. QED
      BY <2>2, <2>5, <2>6, <3>1
  <2>7. ASSUME NEW early \in SUBSET Tx, NEW late \in SUBSET Tx, DropsOnly(early, late)
        PROVE  NonceStep
    <3>1. accounts' = accounts /\ Split(early, late, {}) /\ {} \in SUBSET Tx
      BY <2>7 DEF DropsOnly, DropOnly, chainVars
    <3>. QED
      BY <2>3, <2>5, <3>1
  <2>8. ASSUME \/ \E t \in Tx : Refuses(t)
               \/ \E retain \in Retains : PruneBlock(retain)
               \/ Rests
        PROVE  NonceStep
    <3>1. /\ accounts' = accounts
          /\ \/ tx_locs' = tx_locs
             \/ \E P : tx_locs' = [t \in Tx |-> IF t \in P THEN NoLoc ELSE tx_locs[t]]
      BY <2>8 DEF Refuses, PruneBlock, Rests, locVars, chainVars
    <3>. QED
      BY <2>1, <2>5, <3>1
  <2>. QED
    BY <1>1, <2>4, <2>6, <2>7, <2>8, StepCases
<1>. QED
  BY <1>1, PoolInvariant, PTL DEF Spec, InclusionConsumesNonce, NonceStep

\* What LocationMovesForward says of a step.
LocationStep ==
    \A t \in Tx :
      LET from == tx_locs[t].kind
          to == tx_locs'[t].kind
      IN  from # to =>
            \/ from = "none" /\ to = "queued"
            \/ from = "queued" /\ to \in {"included", "dropped", "none"}
            \/ from = "included" /\ to = "none"
                 /\ tx_locs[t].block \notin DOMAIN blocks'
            \/ from = "dropped" /\ to = "none"

\* What HistoryIsAppendOnly says of a step.
BlockStep ==
    /\ head' \in {head, head + 1}
    /\ \A n \in DOMAIN blocks \cap DOMAIN blocks' : blocks'[n] = blocks[n]
    /\ \A n \in DOMAIN blocks \ DOMAIN blocks' :
         n < head /\ \A m \in DOMAIN blocks' : n < m

\* A drop or an eviction moves queued transactions and forgets dropped ones.
LEMMA DropsMove ==
    ASSUME PoolInv, NEW D \in SUBSET pending_meta_by_tx_id, NEW ring, NEW x \in Tx,
           NEW loc, loc = LocsAfter(D, ring)[x]
    PROVE  \/ loc = tx_locs[x]
           \/ tx_locs[x].kind = "queued" /\ loc.kind \in {"dropped", "none"}
           \/ tx_locs[x].kind = "dropped" /\ loc.kind = "none"
<1>1. D \in SUBSET Tx
  BY DEF PoolInv, TypeOK
<1>2. NoLoc.kind = "none"
  BY DEF NoLoc, Loc
<1>3. x \in D => tx_locs[x].kind = "queued"
  BY OnePerSender
<1>. QED
  BY <1>1, <1>2, <1>3, LocsLeave

\* Every step moves locations forward.
LEMMA LocationsMove ==
    ASSUME PoolInv, [Next]_vars
    PROVE  LocationStep
<1>1. ASSUME NEW t \in Tx, NEW p \in Principals, NEW D \in SUBSET Tx, Accepts(t, p, D)
      PROVE  LocationStep
  <2>1. PICK ring : ring = dropped_ring'
    OBVIOUS
  <2>2. /\ D \in SUBSET pending_meta_by_tx_id
        /\ tx_locs' = [LocsAfter(D, ring) EXCEPT ![t] = Queued(next_queue_seq)]
        /\ t \notin seen_tx
    BY <1>1, <2>1 DEF Accepts
  <2>3. tx_locs[t].kind = "none" /\ tx_locs'[t].kind = "queued"
    BY <2>2 DEF PoolInv, SeenCoversLocations, LocsAfter, Queued, Loc
  <2>4. ASSUME NEW x \in Tx, x # t
        PROVE  \/ tx_locs'[x] = tx_locs[x]
               \/ tx_locs[x].kind = "queued" /\ tx_locs'[x].kind \in {"dropped", "none"}
               \/ tx_locs[x].kind = "dropped" /\ tx_locs'[x].kind = "none"
    <3>1. PICK loc : loc = LocsAfter(D, ring)[x]
      OBVIOUS
    <3>2. tx_locs'[x] = loc
      BY <2>2, <2>4, <3>1 DEF LocsAfter
    <3>. QED
      BY <2>2, <3>1, <3>2, DropsMove
  <2>. QED
    BY <2>3, <2>4 DEF LocationStep
<1>2. ASSUME NEW early \in SUBSET Tx, NEW late \in SUBSET Tx, NEW ok \in SUBSET Tx,
             Split(early, late, ok)
      PROVE  LocationStep
  <2>1. PICK D, ring : D = early \cup late /\ ring = dropped_ring'
    OBVIOUS
  <2>2. /\ D \in SUBSET pending_meta_by_tx_id /\ ok \in SUBSET pending_meta_by_tx_id
        /\ tx_locs' = [t \in Tx |-> IF t \in ok THEN Included(head + 1, RankIn(ok, t))
                                    ELSE LocsAfter(D, ring)[t]]
    BY <1>2, <2>1 DEF Split, LeaveMempool
  <2>3. \A x \in ok : tx_locs[x].kind = "queued" /\ tx_locs'[x].kind = "included"
    BY <2>2, OnePerSender DEF Included, Loc
  <2>4. ASSUME NEW x \in Tx, x \notin ok
        PROVE  \/ tx_locs'[x] = tx_locs[x]
               \/ tx_locs[x].kind = "queued" /\ tx_locs'[x].kind \in {"dropped", "none"}
               \/ tx_locs[x].kind = "dropped" /\ tx_locs'[x].kind = "none"
    <3>1. PICK loc : loc = LocsAfter(D, ring)[x]
      OBVIOUS
    <3>2. tx_locs'[x] = loc
      BY <2>2, <2>4, <3>1
    <3>. QED
      BY <2>2, <3>1, <3>2, DropsMove
  <2>. QED
    BY <2>3, <2>4 DEF LocationStep
<1>3. ASSUME NEW retain \in Retains, PruneBlock(retain)
      PROVE  LocationStep
  <2>1. PICK b : b = next_prune_block
    OBVIOUS
  <2>2. /\ b \in DOMAIN blocks /\ DOMAIN blocks' = DOMAIN blocks \ {b}
        /\ tx_locs' = [t \in Tx |-> IF t \in blocks[b] THEN NoLoc ELSE tx_locs[t]]
    BY <1>3, <2>1 DEF PruneBlock
  <2>3. \A x \in blocks[b] : tx_locs[x].kind = "included" /\ tx_locs[x].block = b
    BY <2>2 DEF PoolInv, BlocksHoldIncluded
  <2>4. NoLoc.kind = "none"
    BY DEF NoLoc, Loc
  <2>. QED
    BY <2>2, <2>3, <2>4 DEF LocationStep
<1>4. ASSUME (\E t \in Tx : Refuses(t)) \/ Rests PROVE LocationStep
  <2>1. tx_locs' = tx_locs
    BY <1>4 DEF Refuses, Rests, locVars
  <2>. QED
    BY <2>1 DEF LocationStep
<1>5. {} \in SUBSET Tx
  OBVIOUS
<1>. QED
  BY <1>1, <1>2, <1>3, <1>4, <1>5, StepCases DEF Includes, DropsOnly

\* Every step appends one block, prunes the oldest or leaves them alone.
LEMMA BlocksMove ==
    ASSUME PoolInv, NumberInv, [Next]_vars
    PROVE  BlockStep
<1>1. head \in Nat /\ DOMAIN blocks \subseteq 1..head
  BY DEF PoolInv, TypeOK
<1>2. ASSUME blocks' = blocks, head' = head PROVE BlockStep
  BY <1>2 DEF BlockStep
<1>3. ASSUME NEW early \in SUBSET Tx, NEW late \in SUBSET Tx, NEW ok \in SUBSET Tx,
             NEW gasUsed \in Nat, Includes(early, late, ok, gasUsed)
      PROVE  BlockStep
  <2>1. /\ head' = head + 1
        /\ blocks' = [n \in DOMAIN blocks \cup {head + 1} |->
                        IF n = head + 1 THEN ok ELSE blocks[n]]
    BY <1>3 DEF Includes, ProduceBlock
  <2>2. head + 1 \notin DOMAIN blocks
    BY <1>1
  <2>. QED
    BY <2>1, <2>2 DEF BlockStep
<1>4. ASSUME NEW retain \in Retains, PruneBlock(retain)
      PROVE  BlockStep
  <2>1. PICK b : b = next_prune_block
    OBVIOUS
  <2>2. /\ b \in DOMAIN blocks /\ head' = head
        /\ blocks' = [n \in DOMAIN blocks \ {b} |-> blocks[n]]
        /\ head > retain /\ b <= head - retain
    BY <1>4, <2>1 DEF PruneBlock, PruneDue
  <2>3. retain \in Nat /\ retain # 0 /\ b \in Nat
    BY <2>1, LimitAssumption DEF PoolInv, TypeOK
  <2>4. b < head
    BY <1>1, <2>2, <2>3
  <2>5. \A m \in DOMAIN blocks \ {b} : b < m
    BY <1>1, <2>1, <2>3 DEF NumberInv, CursorOK
  <2>. QED
    BY <2>2, <2>4, <2>5 DEF BlockStep
<1>5. ASSUME NEW t \in Tx, NEW p \in Principals, NEW D \in SUBSET Tx, Accepts(t, p, D)
      PROVE  BlockStep
  BY <1>2, <1>5 DEF Accepts
<1>6. ASSUME \/ \E t \in Tx : Refuses(t)
             \/ \E early, late \in SUBSET Tx : DropsOnly(early, late)
             \/ Rests
      PROVE  BlockStep
  <2>1. blocks' = blocks /\ head' = head
    BY <1>6 DEF Refuses, DropsOnly, DropOnly, Rests, chainVars
  <2>. QED
    BY <1>2, <2>1
<1>. QED
  BY <1>3, <1>4, <1>5, <1>6, StepCases

\* produce_block appends to the history and prune_blocks forgets its oldest
\* block: stored blocks never change, the head is never pruned, and the
\* location of a transaction never goes back.
THEOREM HistoryAlwaysForward == Spec => HistoryMovesForward
<1>1. PoolInv /\ NumberInv /\ [Next]_vars => LocationStep /\ BlockStep
  BY LocationsMove, BlocksMove
<1>. QED
  BY <1>1, PoolInvariant, NumbersAlwaysHold, PTL
     DEF Spec, HistoryMovesForward, LocationMovesForward, HistoryIsAppendOnly,
         LocationStep, BlockStep

=============================================================================
