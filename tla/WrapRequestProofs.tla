------------------------- MODULE WrapRequestProofs -------------------------
(***************************************************************************)
(* Proofs about wrap requests and native deposits for every set of         *)
(* requests, prices and slots and every bound.                             *)
(*                                                                         *)
(* The first part assumes nothing of time, of replies or of the order in   *)
(* which they come: the times stored with a request make all its transfers *)
(* of a kind the same transfer, and a record says that tokens were pulled  *)
(* only if the ledger pulled them.  The lemmas called Effect say what each *)
(* handler does to the records and to the slots; the second part, about    *)
(* runs, uses them too.                                                    *)
(***************************************************************************)
EXTENDS WrapRequest, FiniteSetTheorems, TLAPS

-----------------------------------------------------------------------------
(* The stamps.                                                             *)

Known(r) == req[r].status # "None"
Pulled(r) == \E x \in ledger : x.kind = "Pull" /\ x.req = r

\* What a record promises: without a status it is blank, it has the time of
\* its pull, it says "pulled" only of tokens that came in, and a deposit is
\* never refunded.
RecordOK(r) ==
    /\ ~Known(r) => req[r] = Blank
    /\ Known(r) => req[r].created_at # 0
    /\ req[r].pulled => Pulled(r)
    /\ req[r].deposit => req[r].withdraw_at = 0

\* What a waiting call promises: it carries the stored time of its request.
CallOK(c) ==
    /\ Known(c.req)
    /\ c.phase \in {"Pull", "DepositPull", "LostPull"} =>
          c.stamp = req[c.req].created_at
    /\ c.phase \in {"Refund", "LostRefund"} =>
          /\ c.stamp = req[c.req].withdraw_at
          /\ c.stamp # 0
          /\ Pulled(c.req)
    /\ c.phase \in {"PullOk", "DepositPullOk", "Metadata"} => Pulled(c.req)
    /\ c.phase \in {"DepositPull", "DepositPullOk", "DepositPullErr"} =>
          req[c.req].deposit

\* What an executed transfer promises.
TransferOK(x) ==
    /\ Known(x.req)
    /\ x.kind = "Pull" => x.stamp = req[x.req].created_at
    /\ x.kind = "Refund" => /\ x.stamp = req[x.req].withdraw_at
                            /\ x.stamp # 0
                            /\ Pulled(x.req)

StampInv ==
    /\ TypeOK
    /\ \A r \in Req : RecordOK(r)
    /\ \A s \in Slot : call[s] # NoCall => CallOK(call[s])
    /\ \A x \in ledger : TransferOK(x)
    /\ \A r \in Members(queue) : Known(r)
    /\ \A r \in credited : req[r].deposit /\ Pulled(r)

-----------------------------------------------------------------------------
(* Sequences as sets of members.                                           *)

\* Appending to a sequence adds one member.
LEMMA AppendMembers ==
    ASSUME NEW q \in Seq(Req), NEW r \in Req
    PROVE  /\ Append(q, r) \in Seq(Req)
           /\ Members(Append(q, r)) = Members(q) \cup {r}
<1>1. Append(q, r) \in Seq(Req) /\ Len(Append(q, r)) = Len(q) + 1 /\ Len(q) \in Nat
    OBVIOUS
<1>2. \A i \in 1..Len(q) : Append(q, r)[i] = q[i]
    OBVIOUS
<1>3. Append(q, r)[Len(q) + 1] = r
    OBVIOUS
<1>4. 1..(Len(q) + 1) = (1..Len(q)) \cup {Len(q) + 1}
    BY <1>1
<1> QED BY <1>1, <1>2, <1>3, <1>4 DEF Members

\* enqueue_wrap_request_if_needed leaves the id in the queue and loses none.
LEMMA EnqueuedMembers ==
    ASSUME NEW q \in Seq(Req), NEW r \in Req
    PROVE  /\ Enqueued(q, r) \in Seq(Req)
           /\ Members(Enqueued(q, r)) = Members(q) \cup {r}
BY AppendMembers DEF Enqueued

\* The head of a queue is a member, and the tail holds no new one.
LEMMA HeadMember ==
    ASSUME NEW q \in Seq(Req), q # <<>>
    PROVE  /\ Head(q) \in Members(q) /\ Head(q) \in Req
           /\ Tail(q) \in Seq(Req)
           /\ Len(q) \in Nat /\ Len(Tail(q)) = Len(q) - 1
           /\ \A i \in 1..(Len(q) - 1) : Tail(q)[i] = q[i + 1]
           /\ Members(q) = {Head(q)} \cup Members(Tail(q))
<1>1. Head(q) = q[1] /\ Head(q) \in Req /\ Tail(q) \in Seq(Req)
    OBVIOUS
<1>2. Len(Tail(q)) = Len(q) - 1 /\ Len(q) \in Nat /\ Len(q) > 0
    OBVIOUS
<1>3. \A i \in 1..(Len(q) - 1) : Tail(q)[i] = q[i + 1]
    OBVIOUS
<1>4. 1 \in 1..Len(q)
    BY <1>2
<1>5. ASSUME NEW i \in 1..Len(q), i # 1
      PROVE  q[i] \in Members(Tail(q))
    <2>1. i - 1 \in 1..(Len(q) - 1) BY <1>5, <1>2
    <2>2. Tail(q)[i - 1] = q[i] BY <2>1, <1>3, <1>2
    <2> QED BY <2>1, <2>2, <1>2 DEF Members
<1>6. ASSUME NEW i \in 1..Len(Tail(q))
      PROVE  Tail(q)[i] \in Members(q)
    <2>1. i + 1 \in 1..Len(q) BY <1>2
    <2> QED BY <2>1, <1>2, <1>3 DEF Members
<1>7. Members(q) = {Head(q)} \cup Members(Tail(q))
    BY <1>1, <1>4, <1>5, <1>6 DEF Members
<1> QED BY <1>1, <1>2, <1>3, <1>7

\* Pushing ids behind a queue joins the members.
LEMMA ConcatMembers ==
    ASSUME NEW q \in Seq(Req), NEW S \in SUBSET Req, NEW p \in Orders(S)
    PROVE  /\ p \in Seq(Req) /\ Len(p) = Cardinality(S) /\ Cardinality(S) \in Nat
           /\ q \o p \in Seq(Req)
           /\ Len(q) \in Nat /\ Len(q \o p) = Len(q) + Len(p)
           /\ \A i \in 1..Len(q) : (q \o p)[i] = q[i]
           /\ \A i \in 1..Len(p) : (q \o p)[Len(q) + i] = p[i]
           /\ Members(p) = S
           /\ Members(q \o p) = Members(q) \cup S
<1>1. Cardinality(S) \in Nat
    BY WrapAssumption, FS_Subset, FS_CardinalityType
<1>2. p \in [1..Cardinality(S) -> S]
    BY DEF Orders
<1>3. p \in Seq(Req) /\ Len(p) = Cardinality(S)
    <2>1. p \in [1..Cardinality(S) -> Req] BY <1>2
    <2> QED BY <2>1, <1>1, SMT
<1>4. Members(p) = S
    BY <1>2, <1>3 DEF Orders, Members
<1>5. q \o p \in Seq(Req) /\ Len(q \o p) = Len(q) + Len(p) /\ Len(q) \in Nat
    BY <1>3
<1>6. \A i \in 1..Len(q) : (q \o p)[i] = q[i]
    BY <1>3
<1>7. \A i \in 1..Len(p) : (q \o p)[Len(q) + i] = p[i]
    BY <1>3
<1>8. Members(q) \cup S \subseteq Members(q \o p)
    <2>1. ASSUME NEW i \in 1..Len(q) PROVE q[i] \in Members(q \o p)
        <3>1. i \in 1..Len(q \o p) BY <1>5, <1>3, <1>1
        <3> QED BY <3>1, <1>6 DEF Members
    <2>2. ASSUME NEW i \in 1..Len(p) PROVE p[i] \in Members(q \o p)
        <3>1. Len(q) + i \in 1..Len(q \o p) BY <1>5, <1>3, <1>1
        <3> QED BY <3>1, <1>7 DEF Members
    <2> QED BY <2>1, <2>2, <1>4 DEF Members
<1>9. Members(q \o p) \subseteq Members(q) \cup S
    <2>1. ASSUME NEW i \in 1..Len(q \o p)
          PROVE  (q \o p)[i] \in Members(q) \cup Members(p)
        <3>1. CASE i \in 1..Len(q) BY <3>1, <1>6 DEF Members
        <3>2. CASE i \notin 1..Len(q)
            <4>1. i - Len(q) \in 1..Len(p) BY <3>2, <1>5, <1>3, <1>1
            <4>2. (q \o p)[i] = p[i - Len(q)] BY <4>1, <1>7, <1>3, <1>5
            <4> QED BY <4>1, <4>2 DEF Members
        <3> QED BY <3>1, <3>2
    <2> QED BY <2>1, <1>4 DEF Members
<1> QED BY <1>1, <1>3, <1>4, <1>5, <1>6, <1>7, <1>8, <1>9

-----------------------------------------------------------------------------
(* How a step may change a record, and what follows.                       *)

\* A known record keeps its kind and its times, and learns that tokens were
\* pulled only when they were.
RecordStep(r) ==
    /\ Known(r) =>
          /\ Known(r)'
          /\ req'[r].deposit = req[r].deposit
          /\ req'[r].created_at = req[r].created_at
          /\ \/ req'[r].withdraw_at = req[r].withdraw_at
             \/ req[r].withdraw_at = 0 /\ ~req[r].deposit
          /\ req'[r].pulled => req[r].pulled \/ Pulled(r)
    /\ ~Known(r) =>
          \/ req'[r] = req[r]
          \/ /\ Known(r)'
             /\ req'[r].created_at # 0
             /\ ~req'[r].pulled
             /\ req'[r].withdraw_at = 0

\* The frame: if records keep what they promise, new calls and transfers
\* are stamped and the queue holds known requests, the stamps are kept.
LEMMA StampFrame ==
    ASSUME StampInv, TypeOK',
           \A r \in Req : RecordStep(r),
           ledger \subseteq ledger',
           \A s \in Slot : call'[s] # NoCall /\ call'[s] # call[s] => CallOK(call[s])',
           \A x \in ledger' : x \notin ledger => TransferOK(x)',
           \A r \in Members(queue') : r \in Members(queue) \/ Known(r)',
           \A r \in credited' : r \in credited \/ (req'[r].deposit /\ Pulled(r)')
    PROVE  StampInv'
<1>1. \A r : Pulled(r) => Pulled(r)'
    BY DEF Pulled
<1>2. ASSUME NEW r \in Req, Known(r)
      PROVE  /\ Known(r)'
             /\ req'[r].deposit = req[r].deposit
             /\ req'[r].created_at = req[r].created_at
             /\ req[r].withdraw_at # 0 => req'[r].withdraw_at = req[r].withdraw_at
    BY <1>2 DEF RecordStep
<1>3. ASSUME NEW r \in Req PROVE RecordOK(r)'
    <2>1. RecordStep(r) /\ RecordOK(r) BY DEF StampInv
    <2>2. CASE Known(r)
        BY <1>1, <2>1, <2>2 DEF RecordStep, RecordOK
    <2>3. CASE ~Known(r)
        <3>1. req[r] = Blank BY <2>1, <2>3 DEF RecordOK
        <3>2. CASE req'[r] = req[r]
            <4>1. /\ req'[r] = Blank /\ ~Known(r)'
                  /\ req'[r].pulled = FALSE /\ req'[r].deposit = FALSE
                BY <2>3, <3>1, <3>2 DEF Known, Blank
            <4> QED BY <4>1 DEF RecordOK
        <3>3. CASE req'[r] # req[r]
            BY <2>1, <2>3, <3>3 DEF RecordStep, RecordOK
        <3> QED BY <3>2, <3>3
    <2> QED BY <2>2, <2>3
<1>4. ASSUME NEW s \in Slot, call'[s] # NoCall PROVE CallOK(call[s])'
    <2>1. CASE call'[s] = call[s]
        <3>1. CallOK(call[s]) BY <1>4, <2>1 DEF StampInv
        <3>2. call[s].req \in Req
            BY <1>4, <2>1 DEF StampInv, TypeOK, Call
        <3> QED BY <1>1, <1>2, <2>1, <3>1, <3>2 DEF CallOK
    <2> QED BY <1>4, <2>1
<1>5. ASSUME NEW x \in ledger' PROVE TransferOK(x)'
    <2>1. CASE x \in ledger
        <3>1. TransferOK(x) /\ x.req \in Req
            BY <2>1 DEF StampInv, TypeOK, Transfer
        <3> QED BY <1>1, <1>2, <3>1 DEF TransferOK
    <2> QED BY <2>1
<1>6. ASSUME NEW r \in Members(queue') PROVE Known(r)'
    <2>1. CASE r \in Members(queue)
        <3>1. Known(r) BY <2>1 DEF StampInv
        <3>2. r \in Req BY <2>1 DEF StampInv, TypeOK, Members
        <3> QED BY <1>2, <3>1, <3>2
    <2> QED BY <1>6, <2>1
<1>7. ASSUME NEW r \in credited' PROVE req'[r].deposit /\ Pulled(r)'
    <2>1. CASE r \in credited
        <3>1. r \in Req /\ req[r].deposit /\ Pulled(r)
            BY <2>1 DEF StampInv, TypeOK
        <3>2. Known(r)
            BY <3>1 DEF StampInv, RecordOK, Blank
        <3> QED BY <1>1, <1>2, <3>1, <3>2
    <2> QED BY <1>7, <2>1
<1>8. Members(queue)' = Members(queue')
    BY DEF Members
<1> QED BY <1>3, <1>4, <1>5, <1>6, <1>7, <1>8 DEF StampInv

\* Blank records, no call and no transfer.
LEMMA StampInit == Init => StampInv
<1> SUFFICES ASSUME Init PROVE StampInv
    OBVIOUS
<1>1. Blank \in WrapStoredRequest
    BY WrapAssumption DEF Blank, WrapStoredRequest, Statuses
<1>2. TypeOK
    <2>1. req \in [Req -> WrapStoredRequest] BY <1>1 DEF Init
    <2>2. queue \in Seq(Req) BY DEF Init
    <2>3. pending \subseteq Req /\ scheduled \in BOOLEAN /\ ledger \subseteq Transfer
          /\ seen \subseteq Mint /\ credited \subseteq Req
        BY Zenon DEF Init
    <2>4. call \in [Slot -> Call \cup {NoCall}] BY DEF Init
    <2>5. receipt \in [seen -> {"none", "ok", "reverted"}] BY DEF Init
    <2>6. evm_nonce \in 0..MaxNonce /\ now \in 1..MaxTime /\ upgrades \in 0..MaxUpgrades
        BY WrapAssumption DEF Init
    <2> QED BY <2>1, <2>2, <2>3, <2>4, <2>5, <2>6 DEF Init, TypeOK
<1>3. \A r \in Req : RecordOK(r)
    <2> TAKE r \in Req
    <2>1. req[r] = Blank BY DEF Init
    <2>2. Blank.status = "None" /\ Blank.pulled = FALSE /\ Blank.deposit = FALSE
        BY DEF Blank
    <2> QED BY <2>1, <2>2 DEF RecordOK, Known
<1>4. Members(queue) = {} BY DEF Init, Members
<1> QED BY <1>2, <1>3, <1>4 DEF StampInv, Init

-----------------------------------------------------------------------------
(* What the handlers do to a record and to a slot.                         *)

\* Record r becomes q and no other record changes.
Becomes(r, q) ==
    /\ r \in Req
    /\ q \in WrapStoredRequest
    /\ req'[r] = q
    /\ \A x \in Req : x # r => req'[x] = req[x]
    /\ req' \in [Req -> WrapStoredRequest]

\* Slot s holds c afterwards, and no other slot changes.
Fills(s, c) ==
    /\ call'[s] = c
    /\ \A t \in Slot : t # s => call'[t] = call[t]
    /\ call' \in [Slot -> Call \cup {NoCall}]

CallFor(r, phase, stamp) ==
    [req |-> r, phase |-> phase, stamp |-> stamp, nonce |-> req[r].nonce]

\* Replacing one record leaves the others.
LEMMA OneRecord ==
    ASSUME TypeOK, NEW r \in Req, NEW q \in WrapStoredRequest,
           req' = [req EXCEPT ![r] = q]
    PROVE  Becomes(r, q)
BY DEF Becomes, TypeOK

\* A step that leaves the table alone leaves each record.
LEMMA NoRecord ==
    ASSUME TypeOK, NEW r \in Req, req' = req
    PROVE  Becomes(r, req[r])
BY DEF Becomes, TypeOK

\* A continuation that ends frees its slot.
LEMMA SlotFreed ==
    ASSUME TypeOK, NEW s \in Slot, call' = Released(s)
    PROVE  Fills(s, NoCall)
BY DEF Fills, Released, TypeOK

\* A new continuation fills a slot.
LEMMA SlotTaken ==
    ASSUME TypeOK, NEW s \in Slot, NEW r \in Req, NEW phase \in Phases,
           NEW stamp \in 0..MaxTime, call' = Waiting(s, r, phase, stamp)
    PROVE  /\ CallFor(r, phase, stamp) \in Call
           /\ CallFor(r, phase, stamp) # NoCall
           /\ Fills(s, CallFor(r, phase, stamp))
<1>1. req[r].nonce \in 0..MaxNonce \cup {None}
    BY DEF TypeOK, WrapStoredRequest
<1>2. CallFor(r, phase, stamp) \in Call
    BY <1>1 DEF CallFor, Call
<1>3. call' = [call EXCEPT ![s] = CallFor(r, phase, stamp)]
    BY DEF Waiting, CallFor
<1> QED BY <1>2, <1>3, WrapAssumption DEF Fills, TypeOK

\* The request a slot waits for, and the time.
LEMMA SlotTypes ==
    ASSUME TypeOK
    PROVE  /\ \A s \in Slot : call[s] # NoCall =>
                 /\ call[s] \in Call
                 /\ call[s].req \in Req
                 /\ call[s].phase \in Phases
                 /\ call[s].stamp \in 0..MaxTime
                 /\ req[call[s].req] \in WrapStoredRequest
           /\ now \in 1..MaxTime /\ now \in 0..MaxTime /\ now # 0
           /\ \A r \in Req : req[r] \in WrapStoredRequest
<1>1. now \in 1..MaxTime /\ now \in 0..MaxTime /\ now # 0
    BY WrapAssumption DEF TypeOK
<1>2. ASSUME NEW s \in Slot, call[s] # NoCall
      PROVE  call[s] \in Call /\ call[s].req \in Req /\ call[s].phase \in Phases
             /\ call[s].stamp \in 0..MaxTime
    BY <1>2 DEF TypeOK, Call
<1>3. \A r \in Req : req[r] \in WrapStoredRequest
    BY DEF TypeOK
<1> QED BY <1>1, <1>2, <1>3

\* A record that does not change takes an allowed step.
LEMMA SameRecord ==
    ASSUME NEW r, req'[r] = req[r]
    PROVE  RecordStep(r)
BY DEF RecordStep, Known

\* StampFrame for a step that changes one record and executes no transfer.
LEMMA StampOne ==
    ASSUME StampInv, TypeOK', NEW r, NEW q, Becomes(r, q), RecordStep(r),
           ledger' = ledger,
           \A s \in Slot : call'[s] # NoCall /\ call'[s] # call[s] => CallOK(call[s])',
           \A x \in Members(queue') : x \in Members(queue) \/ Known(x)',
           \A x \in credited' : x \in credited \/ (req'[x].deposit /\ Pulled(x)')
    PROVE  StampInv'
<1>1. \A x \in Req : RecordStep(x)
    BY SameRecord DEF Becomes
<1> QED BY <1>1, StampFrame

\* The fee is refused: the record fails and its reservation is released.
LEMMA FeeRefusedEffect ==
    ASSUME TypeOK, NEW s \in Slot, FeeRefused(s), NEW r, r = call[s].req
    PROVE  /\ Becomes(r, [req[r] EXCEPT !.status = "Failed", !.recoverable = FALSE,
                                        !.updated_at = now])
           /\ Fills(s, NoCall)
           /\ TypeOK'
<1> DEFINE q == [req[r] EXCEPT !.status = "Failed", !.recoverable = FALSE,
                                        !.updated_at = now]
<1>1. r \in Req /\ req[r] \in WrapStoredRequest /\ now \in 0..MaxTime
    BY SlotTypes DEF FeeRefused, AtPhase
<1>2. q \in WrapStoredRequest
    BY <1>1 DEF WrapStoredRequest, Statuses
<1>3. req' = [req EXCEPT ![r] = q]
    BY DEF FeeRefused
<1>4. Becomes(r, q) BY <1>1, <1>2, <1>3, OneRecord
<1>5. Fills(s, NoCall) BY SlotFreed DEF FeeRefused
<1>6. TypeOK'
    BY <1>4, <1>5 DEF TypeOK, Becomes, Fills, FeeRefused, evm
<1> QED BY <1>4, <1>5, <1>6

\* The fee is in: the wrap is queued.
LEMMA FeeCollectedEffect ==
    ASSUME TypeOK, NEW s \in Slot, FeeCollected(s), NEW r, r = call[s].req
    PROVE  /\ Becomes(r, [req[r] EXCEPT !.fee = TRUE, !.updated_at = now])
           /\ Fills(s, NoCall)
           /\ TypeOK'
<1> DEFINE q == [req[r] EXCEPT !.fee = TRUE, !.updated_at = now]
<1>1. r \in Req /\ req[r] \in WrapStoredRequest /\ now \in 0..MaxTime
    BY SlotTypes DEF FeeCollected, AtPhase
<1>2. q \in WrapStoredRequest
    BY <1>1 DEF WrapStoredRequest, Statuses
<1>3. req' = [req EXCEPT ![r] = q]
    BY DEF FeeCollected
<1>4. Becomes(r, q) BY <1>1, <1>2, <1>3, OneRecord
<1>5. Fills(s, NoCall) BY SlotFreed DEF FeeCollected
<1>6. TypeOK'
    BY <1>4, <1>5, EnqueuedMembers DEF TypeOK, Becomes, Fills, FeeCollected, evm
<1> QED BY <1>4, <1>5, <1>6

\* The ledger refused the pull: the run ends without a refund to offer.
LEMMA PullFailedEffect ==
    ASSUME TypeOK, NEW s \in Slot, PullFailed(s), NEW r, r = call[s].req
    PROVE  /\ Becomes(r, [req[r] EXCEPT !.status = "Failed", !.recoverable = FALSE,
                                        !.updated_at = now])
           /\ Fills(s, NoCall)
           /\ TypeOK'
<1> DEFINE q == [req[r] EXCEPT !.status = "Failed", !.recoverable = FALSE,
                                        !.updated_at = now]
<1>1. r \in Req /\ req[r] \in WrapStoredRequest /\ now \in 0..MaxTime
    BY SlotTypes DEF PullFailed, AtPhase
<1>2. q \in WrapStoredRequest
    BY <1>1 DEF WrapStoredRequest, Statuses
<1>3. req' = [req EXCEPT ![r] = q]
    BY DEF PullFailed
<1>4. Becomes(r, q) BY <1>1, <1>2, <1>3, OneRecord
<1>5. Fills(s, NoCall) BY SlotFreed DEF PullFailed, EndOfRun
<1>6. TypeOK'
    BY <1>4, <1>5 DEF TypeOK, Becomes, Fills, PullFailed, EndOfRun, Rearmed, evm
<1> QED BY <1>4, <1>5, <1>6

\* The decimals could not be read: the run ends and offers a refund.
LEMMA MetadataFailedEffect ==
    ASSUME TypeOK, NEW s \in Slot, MetadataFailed(s), NEW r, r = call[s].req
    PROVE  /\ Becomes(r, [req[r] EXCEPT !.status = "Failed", !.recoverable = TRUE,
                                        !.pulled = TRUE, !.updated_at = now])
           /\ Fills(s, NoCall)
           /\ TypeOK'
<1> DEFINE q == [req[r] EXCEPT !.status = "Failed", !.recoverable = TRUE,
                                        !.pulled = TRUE, !.updated_at = now]
<1>1. r \in Req /\ req[r] \in WrapStoredRequest /\ now \in 0..MaxTime
    BY SlotTypes DEF MetadataFailed, AtPhase
<1>2. q \in WrapStoredRequest
    BY <1>1 DEF WrapStoredRequest, Statuses
<1>3. req' = [req EXCEPT ![r] = q]
    BY DEF MetadataFailed
<1>4. Becomes(r, q) BY <1>1, <1>2, <1>3, OneRecord
<1>5. Fills(s, NoCall) BY SlotFreed DEF MetadataFailed, EndOfRun
<1>6. TypeOK'
    BY <1>4, <1>5 DEF TypeOK, Becomes, Fills, MetadataFailed, EndOfRun, Rearmed, evm
<1> QED BY <1>4, <1>5, <1>6

\* The ledger refused the pull of a deposit: its submission ends.
LEMMA DepositPullFailedEffect ==
    ASSUME TypeOK, NEW s \in Slot, DepositPullFailed(s), NEW r, r = call[s].req
    PROVE  /\ Becomes(r, [req[r] EXCEPT !.status = "Failed", !.recoverable = FALSE,
                                        !.updated_at = now])
           /\ Fills(s, NoCall)
           /\ TypeOK'
<1> DEFINE q == [req[r] EXCEPT !.status = "Failed", !.recoverable = FALSE,
                                        !.updated_at = now]
<1>1. r \in Req /\ req[r] \in WrapStoredRequest /\ now \in 0..MaxTime
    BY SlotTypes DEF DepositPullFailed, AtPhase
<1>2. q \in WrapStoredRequest
    BY <1>1 DEF WrapStoredRequest, Statuses
<1>3. req' = [req EXCEPT ![r] = q]
    BY DEF DepositPullFailed
<1>4. Becomes(r, q) BY <1>1, <1>2, <1>3, OneRecord
<1>5. Fills(s, NoCall) BY SlotFreed DEF DepositPullFailed
<1>6. TypeOK'
    BY <1>4, <1>5 DEF TypeOK, Becomes, Fills, DepositPullFailed, evm
<1> QED BY <1>4, <1>5, <1>6

\* A wrap is submitted: its record is created, unless there is one, and the
\* fee is asked for.
LEMMA SubmitEffect ==
    ASSUME TypeOK, NEW s \in Slot, NEW r \in Req, Submit(s, r)
    PROVE  /\ Becomes(r, IF Known(r) THEN req[r]
                         ELSE [req[r] EXCEPT !.status = "Queued", !.created_at = now,
                                             !.updated_at = now])
           /\ Fills(s, CallFor(r, "Fee", 0)) /\ CallFor(r, "Fee", 0) # NoCall
           /\ TypeOK'
<1> DEFINE q == [req[r] EXCEPT !.status = "Queued", !.created_at = now, !.updated_at = now]
<1>1. req[r] \in WrapStoredRequest /\ now \in 0..MaxTime
    BY SlotTypes
<1>2. q \in WrapStoredRequest
    BY <1>1 DEF WrapStoredRequest, Statuses
<1>3. Becomes(r, IF Known(r) THEN req[r] ELSE q)
    <2>1. CASE Known(r) BY <2>1, NoRecord DEF Submit, Known
    <2>2. CASE ~Known(r)
        <3>1. req' = [req EXCEPT ![r] = q] BY <2>2 DEF Submit, Known
        <3> QED BY <2>2, <3>1, <1>2, OneRecord
    <2> QED BY <2>1, <2>2
<1>4. Fills(s, CallFor(r, "Fee", 0)) /\ CallFor(r, "Fee", 0) # NoCall
    <2>1. "Fee" \in Phases /\ 0 \in 0..MaxTime BY WrapAssumption DEF Phases
    <2> QED BY <2>1, SlotTaken DEF Submit
<1>5. TypeOK'
    BY <1>3, <1>4 DEF TypeOK, Becomes, Fills, Submit, evm
<1> QED BY <1>3, <1>4, <1>5

\* The worker takes the first of the queue: the record is Running, and a run
\* waits for the pull or for the decimals.
LEMMA WorkerTakeEffect ==
    ASSUME TypeOK, NEW s \in Slot, WorkerTake(s), NEW r, r = Head(queue),
           NEW c, c = IF req[r].pulled THEN CallFor(r, "Metadata", 0)
                      ELSE CallFor(r, "Pull", req[r].created_at)
    PROVE  /\ Becomes(r, [req[r] EXCEPT !.status = "Running", !.updated_at = now])
           /\ Fills(s, c) /\ c # NoCall
           /\ TypeOK'
<1> DEFINE q == [req[r] EXCEPT !.status = "Running", !.updated_at = now]
<1>1. r \in Req /\ queue \in Seq(Req) /\ Tail(queue) \in Seq(Req)
    BY HeadMember DEF WorkerTake, TypeOK
<1>2. req[r] \in WrapStoredRequest /\ now \in 0..MaxTime
    BY <1>1, SlotTypes
<1>3. q \in WrapStoredRequest /\ req[r].created_at \in 0..MaxTime
    BY <1>2 DEF WrapStoredRequest, Statuses
<1>4. Becomes(r, q)
    <2>1. req' = [req EXCEPT ![r] = q] BY DEF WorkerTake
    <2> QED BY <2>1, <1>1, <1>3, OneRecord
<1>5. Fills(s, c) /\ c # NoCall
    <2>1. "Metadata" \in Phases /\ "Pull" \in Phases /\ 0 \in 0..MaxTime
        BY WrapAssumption DEF Phases
    <2>2. CASE req[r].pulled
        <3>1. call' = Waiting(s, r, "Metadata", 0) BY <2>2 DEF WorkerTake
        <3> QED BY <2>1, <2>2, <3>1, <1>1, SlotTaken
    <2>3. CASE ~req[r].pulled
        <3>1. call' = Waiting(s, r, "Pull", req[r].created_at)
            BY <2>3 DEF WorkerTake, PullStamp
        <3> QED BY <2>1, <2>3, <3>1, <1>1, <1>3, SlotTaken
    <2> QED BY <2>2, <2>3
<1>6. TypeOK'
    BY <1>1, <1>4, <1>5 DEF TypeOK, Becomes, Fills, WorkerTake, evm
<1> QED BY <1>4, <1>5, <1>6

\* The worker takes a record that has a mint and ends at once.
LEMMA WorkerTakeMintedEffect ==
    ASSUME TypeOK, WorkerTakeMinted, NEW r, r = Head(queue)
    PROVE  /\ Becomes(r, [req[r] EXCEPT !.status = "Running", !.updated_at = now,
                                        !.recoverable = FALSE])
           /\ TypeOK'
<1> DEFINE q == [req[r] EXCEPT !.status = "Running", !.updated_at = now,
                               !.recoverable = FALSE]
<1>1. r \in Req /\ queue \in Seq(Req) /\ Tail(queue) \in Seq(Req)
    BY HeadMember DEF WorkerTakeMinted, TypeOK
<1>2. req[r] \in WrapStoredRequest /\ now \in 0..MaxTime
    BY <1>1, SlotTypes
<1>3. q \in WrapStoredRequest
    BY <1>2 DEF WrapStoredRequest, Statuses
<1>4. Becomes(r, q)
    <2>1. req' = [req EXCEPT ![r] = q] BY DEF WorkerTakeMinted
    <2> QED BY <2>1, <1>1, <1>3, OneRecord
<1>5. TypeOK'
    BY <1>1, <1>4 DEF TypeOK, Becomes, WorkerTakeMinted, evm
<1> QED BY <1>4, <1>5

\* The tokens are in: the record says so and the run reads the decimals.
LEMMA PullDoneEffect ==
    ASSUME TypeOK, NEW s \in Slot, PullDone(s), NEW r, r = call[s].req
    PROVE  /\ Becomes(r, [req[r] EXCEPT !.pulled = TRUE, !.updated_at = now])
           /\ \E c : Fills(s, c) /\ c # NoCall /\ c.req = r /\ c.phase = "Metadata"
           /\ TypeOK'
<1> DEFINE q == [req[r] EXCEPT !.pulled = TRUE, !.updated_at = now]
           c == [call[s] EXCEPT !.phase = "Metadata"]
<1>1. r \in Req /\ req[r] \in WrapStoredRequest /\ now \in 0..MaxTime /\ call[s] \in Call
    BY SlotTypes DEF PullDone, AtPhase
<1>2. q \in WrapStoredRequest
    BY <1>1 DEF WrapStoredRequest
<1>3. Becomes(r, q)
    <2>1. req' = [req EXCEPT ![r] = q] BY DEF PullDone
    <2> QED BY <2>1, <1>1, <1>2, OneRecord
<1>4. c \in Call /\ c.req = r /\ c.phase = "Metadata"
    BY <1>1 DEF Call, Phases
<1>5. Fills(s, c) /\ c # NoCall
    <2>1. call' = [call EXCEPT ![s] = c] BY DEF PullDone
    <2> QED BY <2>1, <1>4, WrapAssumption DEF Fills, TypeOK
<1>6. TypeOK'
    BY <1>3, <1>5 DEF TypeOK, Becomes, Fills, PullDone, evm
<1> HIDE DEF c
<1> QED BY <1>3, <1>4, <1>5, <1>6

\* The mint of a run.
LEMMA MintType ==
    ASSUME TypeOK, NEW s \in Slot, NEW price \in Prices, AtPhase(s, "Metadata"),
           NEW m, m = MintOf(s, price)
    PROVE  m \in Mint /\ m.payload = PayloadOf[call[s].req]
<1>1. call[s] \in Call /\ call[s].req \in Req
    BY SlotTypes DEF AtPhase
<1>2. call[s].nonce \in 0..MaxNonce \cup {None} /\ PayloadOf[call[s].req] \in Payload
    BY <1>1, WrapAssumption DEF Call
<1>3. evm_nonce \in 0..MaxNonce
    BY DEF TypeOK
<1> QED BY <1>2, <1>3 DEF MintOf, Mint, None

MintStored(q, m) ==
    [q EXCEPT !.nonce = m.nonce, !.submit = "Submitted", !.mint = m,
              !.status = "Running", !.recoverable = FALSE, !.pulled = TRUE,
              !.updated_at = now]

RefusalStored(q, m) ==
    [q EXCEPT !.nonce = m.nonce, !.submit = "Submitting", !.status = "Failed",
              !.recoverable = TRUE, !.pulled = TRUE, !.updated_at = now]

\* The fields that record_mint_submission stores.
LEMMA MintRecordedEffect ==
    ASSUME TypeOK, NEW r \in Req, NEW m \in Mint, NEW submitted \in BOOLEAN,
           MintRecorded(r, m, submitted)
    PROVE  Becomes(r, IF submitted THEN MintStored(req[r], m) ELSE RefusalStored(req[r], m))
<1>1. req[r] \in WrapStoredRequest /\ now \in 0..MaxTime
    BY SlotTypes
<1>2. m.nonce \in 0..MaxNonce
    BY DEF Mint
<1>3. MintStored(req[r], m) \in WrapStoredRequest
    BY <1>1, <1>2 DEF WrapStoredRequest, Statuses, MintStored
<1>4. RefusalStored(req[r], m) \in WrapStoredRequest
    BY <1>1, <1>2 DEF WrapStoredRequest, Statuses, RefusalStored
<1>5. CASE submitted
    <2>1. req' = [req EXCEPT ![r] = MintStored(req[r], m)]
        BY <1>5 DEF MintRecorded, MintStored
    <2> QED BY <1>3, <1>5, <2>1, OneRecord
<1>6. CASE ~submitted
    <2>1. req'[r] = RefusalStored(req[r], m)
        BY <1>1, <1>6 DEF MintRecorded, RefusalStored, TypeOK, WrapStoredRequest
    <2>2. /\ \A x \in Req : x # r => req'[x] = req[x]
          /\ DOMAIN req' = Req /\ req' = [x \in Req |-> req'[x]]
        BY DEF MintRecorded, TypeOK
    <2>3. req' \in [Req -> WrapStoredRequest]
        <3>1. \A x \in Req : req'[x] \in WrapStoredRequest
            BY <1>4, <2>1, <2>2 DEF TypeOK
        <3> QED BY <3>1, <2>2
    <2> QED BY <1>4, <1>6, <2>1, <2>2, <2>3 DEF Becomes
<1> QED BY <1>5, <1>6

\* The mempool accepts the mint, which is pending from now on.
LEMMA MintAcceptedEffect ==
    ASSUME TypeOK, NEW s \in Slot, NEW price \in Prices, MintAccepted(s, price),
           NEW r, r = call[s].req, NEW m, m = MintOf(s, price)
    PROVE  /\ m \in Mint /\ m.payload = PayloadOf[r]
           /\ Becomes(r, MintStored(req[r], m))
           /\ Fills(s, NoCall)
           /\ TypeOK'
<1>1. m \in Mint /\ m.payload = PayloadOf[r] /\ r \in Req
    BY MintType, SlotTypes DEF MintAccepted, AtPhase
<1>2. Becomes(r, MintStored(req[r], m))
    <2>1. MintRecorded(r, m, TRUE) BY DEF MintAccepted
    <2> QED BY <2>1, <1>1, MintRecordedEffect
<1>3. Fills(s, NoCall) BY SlotFreed DEF MintAccepted, EndOfRun
<1>4. receipt' \in [seen' -> {"none", "ok", "reverted"}]
    BY DEF MintAccepted, TypeOK
<1>5. pool' = m /\ seen' = seen \cup {m}
    BY DEF MintAccepted
<1>6. TypeOK'
    BY <1>1, <1>2, <1>3, <1>4, <1>5 DEF TypeOK, Becomes, Fills, MintAccepted, EndOfRun, Rearmed
<1> QED BY <1>1, <1>2, <1>3, <1>6

\* The chain knows the very same transaction already.
LEMMA MintSeenEffect ==
    ASSUME TypeOK, NEW s \in Slot, NEW price \in Prices, MintSeen(s, price),
           NEW r, r = call[s].req, NEW m, m = MintOf(s, price)
    PROVE  /\ m \in Mint /\ m.payload = PayloadOf[r]
           /\ Becomes(r, MintStored(req[r], m))
           /\ Fills(s, NoCall)
           /\ TypeOK'
<1>1. m \in Mint /\ m.payload = PayloadOf[r] /\ r \in Req
    BY MintType, SlotTypes DEF MintSeen, AtPhase
<1>2. Becomes(r, MintStored(req[r], m))
    <2>1. MintRecorded(r, m, TRUE) BY DEF MintSeen
    <2> QED BY <2>1, <1>1, MintRecordedEffect
<1>3. Fills(s, NoCall) BY SlotFreed DEF MintSeen, EndOfRun
<1>4. TypeOK'
    BY <1>2, <1>3 DEF TypeOK, Becomes, Fills, MintSeen, EndOfRun, Rearmed, evm
<1> QED BY <1>1, <1>2, <1>3, <1>4

\* The mint is refused, and the run ends with a refund to offer.
LEMMA MintRefusedEffect ==
    ASSUME TypeOK, NEW s \in Slot, NEW price \in Prices, MintRefused(s, price),
           NEW r, r = call[s].req, NEW m, m = MintOf(s, price)
    PROVE  /\ m \in Mint
           /\ Becomes(r, RefusalStored(req[r], m))
           /\ Fills(s, NoCall)
           /\ TypeOK'
<1>1. m \in Mint /\ r \in Req
    BY MintType, SlotTypes DEF MintRefused, AtPhase
<1>2. Becomes(r, RefusalStored(req[r], m))
    <2>1. MintRecorded(r, m, FALSE) BY DEF MintRefused
    <2> QED BY <2>1, <1>1, MintRecordedEffect
<1>3. Fills(s, NoCall) BY SlotFreed DEF MintRefused, EndOfRun
<1>4. TypeOK'
    BY <1>2, <1>3 DEF TypeOK, Becomes, Fills, MintRefused, EndOfRun, Rearmed, evm
<1> QED BY <1>1, <1>2, <1>3, <1>4

\* A refund is asked for, stamped with the time of its first attempt.
LEMMA RecoverEffect ==
    ASSUME TypeOK, NEW s \in Slot, NEW r \in Req, Recover(s, r)
    PROVE  /\ RefundStamp(r) \in 1..MaxTime
           /\ req[r].withdraw_at # 0 => RefundStamp(r) = req[r].withdraw_at
           /\ Becomes(r, [req[r] EXCEPT !.withdraw_at = RefundStamp(r),
                                        !.withdrawing = TRUE, !.updated_at = now])
           /\ Fills(s, CallFor(r, "Refund", RefundStamp(r)))
           /\ CallFor(r, "Refund", RefundStamp(r)) # NoCall
           /\ TypeOK'
<1> DEFINE q == [req[r] EXCEPT !.withdraw_at = RefundStamp(r), !.withdrawing = TRUE,
                               !.updated_at = now]
<1>1. req[r] \in WrapStoredRequest /\ now \in 1..MaxTime /\ now \in 0..MaxTime
    BY SlotTypes
<1>2. req[r].withdraw_at \in 0..MaxTime
    BY <1>1 DEF WrapStoredRequest
<1>3. /\ RefundStamp(r) \in 1..MaxTime /\ RefundStamp(r) \in 0..MaxTime
      /\ req[r].withdraw_at # 0 => RefundStamp(r) = req[r].withdraw_at
    BY <1>1, <1>2, WrapAssumption DEF RefundStamp
<1>4. q \in WrapStoredRequest
    BY <1>1, <1>3 DEF WrapStoredRequest
<1>5. Becomes(r, q)
    <2>1. req' = [req EXCEPT ![r] = q] BY DEF Recover
    <2> QED BY <2>1, <1>4, OneRecord
<1>6. Fills(s, CallFor(r, "Refund", RefundStamp(r)))
      /\ CallFor(r, "Refund", RefundStamp(r)) # NoCall
    <2>1. "Refund" \in Phases BY DEF Phases
    <2> QED BY <2>1, <1>3, SlotTaken DEF Recover
<1>7. TypeOK'
    BY <1>5, <1>6 DEF TypeOK, Becomes, Fills, Recover, evm
<1> QED BY <1>3, <1>5, <1>6, <1>7

\* A refund is answered.
LEMMA RefundReplyEffect ==
    ASSUME TypeOK, NEW s \in Slot, RefundReply(s), NEW r, r = call[s].req
    PROVE  /\ call[s] # NoCall /\ call[s].phase \in {"RefundOk", "RefundErr"}
           /\ \E w \in BOOLEAN :
                 Becomes(r, [req[r] EXCEPT !.withdrawing = FALSE, !.withdrawn = w,
                                           !.updated_at = now])
           /\ Fills(s, NoCall)
           /\ TypeOK'
<1>1. PICK phase \in {"RefundOk", "RefundErr"} :
          /\ AtPhase(s, phase)
          /\ req' = [req EXCEPT ![call[s].req].withdrawing = FALSE,
                                ![call[s].req].withdrawn = @ \/ phase = "RefundOk",
                                ![call[s].req].updated_at = now]
    BY DEF RefundReply
<1> DEFINE w == req[r].withdrawn \/ phase = "RefundOk"
           q == [req[r] EXCEPT !.withdrawing = FALSE, !.withdrawn = w,
                               !.updated_at = now]
<1>2. r \in Req /\ req[r] \in WrapStoredRequest /\ now \in 0..MaxTime
    BY <1>1, SlotTypes DEF AtPhase
<1>3. q \in WrapStoredRequest
    BY <1>2 DEF WrapStoredRequest
<1>4. req'[r] = q
    BY <1>1, <1>2 DEF TypeOK, WrapStoredRequest
<1>5. /\ \A x \in Req : x # r => req'[x] = req[x]
      /\ DOMAIN req' = Req /\ req' = [x \in Req |-> req'[x]]
    BY <1>1 DEF TypeOK
<1>6. req' \in [Req -> WrapStoredRequest]
    <2>1. \A x \in Req : req'[x] \in WrapStoredRequest
        BY <1>3, <1>4, <1>5 DEF TypeOK
    <2> QED BY <2>1, <1>5
<1>7. Becomes(r, q) BY <1>2, <1>3, <1>4, <1>5, <1>6 DEF Becomes
<1>8. Fills(s, NoCall) BY SlotFreed DEF RefundReply
<1>9. TypeOK'
    BY <1>7, <1>8 DEF TypeOK, Becomes, Fills, RefundReply, evm
<1> HIDE DEF q
<1>10. w \in BOOLEAN OBVIOUS
<1> QED BY <1>1, <1>7, <1>8, <1>9, <1>10 DEF AtPhase, q

\* The fields of a deposit after its credit succeeded or failed.
LEMMA FinalizedFields ==
    ASSUME TypeOK, NEW q \in WrapStoredRequest, NEW ok \in BOOLEAN, NEW p, p = Finalized(q, ok)
    PROVE  /\ p \in WrapStoredRequest
           /\ p.status = IF ok THEN "Succeeded" ELSE "Failed"
           /\ p.mint = IF ok THEN Credit ELSE q.mint
           /\ p.recoverable = ~ok
           /\ p.deposit = q.deposit /\ p.fee = q.fee /\ p.created_at = q.created_at
           /\ p.pulled = q.pulled /\ p.submit = q.submit /\ p.withdraw_at = q.withdraw_at
<1>1. now \in 0..MaxTime BY SlotTypes
<1>2. CASE ok
    <2>1. p = [q EXCEPT !.status = "Succeeded", !.mint = Credit,
                        !.recoverable = FALSE, !.updated_at = now]
        BY <1>2 DEF Finalized
    <2>2. p \in WrapStoredRequest
        BY <1>1, <2>1 DEF WrapStoredRequest, Statuses
    <2> QED BY <1>2, <2>1, <2>2 DEF WrapStoredRequest
<1>3. CASE ~ok
    <2>1. p = [q EXCEPT !.status = "Failed", !.recoverable = TRUE, !.updated_at = now]
        BY <1>3 DEF Finalized
    <2>2. p \in WrapStoredRequest
        BY <1>1, <2>1 DEF WrapStoredRequest, Statuses
    <2> QED BY <1>3, <2>1, <2>2 DEF WrapStoredRequest
<1> QED BY <1>2, <1>3

\* How a deposit whose tokens are in may end: it was credited before, it is
\* credited now, or the credit is refused and offered for a retry.
CreditTried(r, q, p) ==
    /\ p \in WrapStoredRequest
    /\ p.deposit = q.deposit /\ p.fee = q.fee /\ p.created_at = q.created_at
    /\ p.pulled = q.pulled /\ p.submit = q.submit /\ p.withdraw_at = q.withdraw_at
    /\ \/ p = q /\ q.status = "Succeeded" /\ q.mint # NoMint /\ credited' = credited
       \/ /\ p.status = "Succeeded" /\ p.mint = Credit /\ ~p.recoverable
          /\ credited' = credited \cup {r}
       \/ /\ p.status = "Failed" /\ p.mint = q.mint /\ p.recoverable
          /\ r \notin credited /\ credited' = credited

\* Every outcome of credit_native_deposit ends as CreditTried says.
LEMMA OutcomeTried ==
    ASSUME TypeOK, NEW r \in Req, NEW q \in WrapStoredRequest, NEW ok \in CreditOutcomes(r),
           NEW p, p = Finalized(q, ok),
           credited' = IF ok THEN credited \cup {r} ELSE credited
    PROVE  CreditTried(r, q, p)
<1>1. ok \in BOOLEAN /\ (~ok => r \notin credited)
    BY DEF CreditOutcomes
<1>2. /\ p \in WrapStoredRequest
      /\ p.status = IF ok THEN "Succeeded" ELSE "Failed"
      /\ p.mint = IF ok THEN Credit ELSE q.mint
      /\ p.recoverable = ~ok
      /\ p.deposit = q.deposit /\ p.fee = q.fee /\ p.created_at = q.created_at
      /\ p.pulled = q.pulled /\ p.submit = q.submit /\ p.withdraw_at = q.withdraw_at
    BY <1>1, FinalizedFields
<1>3. CASE ok BY <1>3, <1>2 DEF CreditTried
<1>4. CASE ~ok
    <2>1. credited' = credited BY <1>4
    <2> QED BY <1>1, <1>4, <1>2, <2>1 DEF CreditTried
<1> QED BY <1>3, <1>4

\* A deposit ends as a success that was stored before, or as a credit tried now.
LEMMA DepositEndsEffect ==
    ASSUME TypeOK, NEW r \in Req, NEW q \in WrapStoredRequest, DepositEnds(r, q)
    PROVE  \E p : Becomes(r, p) /\ CreditTried(r, q, p)
<1>1. CASE q.mint # NoMint /\ q.status = "Succeeded"
    <2>1. req' = [req EXCEPT ![r] = q] /\ credited' = credited
        BY <1>1 DEF DepositEnds
    <2>2. CreditTried(r, q, q) BY <1>1, <2>1 DEF CreditTried
    <2> QED BY <2>1, <2>2, OneRecord
<1>2. CASE ~(q.mint # NoMint /\ q.status = "Succeeded")
    <2>1. PICK ok \in CreditOutcomes(r) :
              /\ req' = [req EXCEPT ![r] = Finalized(q, ok)]
              /\ credited' = IF ok THEN credited \cup {r} ELSE credited
        BY <1>2 DEF DepositEnds
    <2>2. CreditTried(r, q, Finalized(q, ok)) BY <2>1, OutcomeTried
    <2>3. Becomes(r, Finalized(q, ok)) BY <2>1, <2>2, OneRecord DEF CreditTried
    <2> QED BY <2>2, <2>3
<1> QED BY <1>1, <1>2

\* The rest of the state at the end of a deposit.
LEMMA DepositEndsType ==
    ASSUME TypeOK, NEW r \in Req, NEW q, DepositEnds(r, q), NEW p, Becomes(r, p),
           CreditTried(r, q, p), call' \in [Slot -> Call \cup {NoCall}]
    PROVE  TypeOK'
<1>1. credited' \subseteq Req BY DEF CreditTried, TypeOK
<1> QED BY <1>1 DEF TypeOK, DepositEnds, Becomes

\* A deposit is submitted and waits for its fee, or for its pull when an
\* earlier submission paid the fee.
LEMMA SubmitDepositEffect ==
    ASSUME TypeOK, NEW s \in Slot, NEW r \in Req, SubmitDeposit(s, r),
           NEW c, c = IF ~req[r].fee THEN CallFor(r, "Fee", 0)
                      ELSE CallFor(r, "DepositPull", req[r].created_at)
    PROVE  /\ Becomes(r, IF Known(r) THEN req[r]
                         ELSE [req[r] EXCEPT !.status = "Running", !.deposit = TRUE,
                                             !.created_at = now, !.updated_at = now])
           /\ Fills(s, c) /\ c # NoCall
           /\ TypeOK'
<1> DEFINE q == [req[r] EXCEPT !.status = "Running", !.deposit = TRUE,
                               !.created_at = now, !.updated_at = now]
<1>1. req[r] \in WrapStoredRequest /\ now \in 0..MaxTime
    BY SlotTypes
<1>2. q \in WrapStoredRequest /\ req[r].created_at \in 0..MaxTime
    BY <1>1 DEF WrapStoredRequest, Statuses
<1>3. Becomes(r, IF Known(r) THEN req[r] ELSE q)
    <2>1. CASE Known(r) BY <2>1, NoRecord DEF SubmitDeposit, Known
    <2>2. CASE ~Known(r)
        <3>1. req' = [req EXCEPT ![r] = q] BY <2>2 DEF SubmitDeposit, Known
        <3> QED BY <2>2, <3>1, <1>2, OneRecord
    <2> QED BY <2>1, <2>2
<1>4. Fills(s, c) /\ c # NoCall
    <2>1. "Fee" \in Phases /\ "DepositPull" \in Phases /\ 0 \in 0..MaxTime
        BY WrapAssumption DEF Phases
    <2>2. CASE ~req[r].fee
        <3>1. call' = Waiting(s, r, "Fee", 0) BY <2>2 DEF SubmitDeposit
        <3> QED BY <2>1, <2>2, <3>1, SlotTaken
    <2>3. CASE req[r].fee
        <3>1. call' = Waiting(s, r, "DepositPull", req[r].created_at)
            BY <2>3 DEF SubmitDeposit, PullStamp
        <3> QED BY <2>1, <2>3, <3>1, <1>2, SlotTaken
    <2> QED BY <2>2, <2>3
<1>5. TypeOK'
    BY <1>3, <1>4 DEF TypeOK, Becomes, Fills, SubmitDeposit, evm
<1> QED BY <1>3, <1>4, <1>5

\* A submission repeated with fee and tokens in goes on to the credit.
LEMMA ResubmitDepositEffect ==
    ASSUME TypeOK, NEW s \in Slot, NEW r \in Req, ResubmitDeposit(s, r)
    PROVE  /\ \E p : Becomes(r, p) /\ CreditTried(r, req[r], p)
           /\ TypeOK'
<1>1. req[r] \in WrapStoredRequest BY SlotTypes
<1>2. DepositEnds(r, req[r]) /\ call' = call BY DEF ResubmitDeposit
<1>3. PICK p : Becomes(r, p) /\ CreditTried(r, req[r], p)
    BY <1>1, <1>2, DepositEndsEffect
<1>4. TypeOK'
    <2>1. call' \in [Slot -> Call \cup {NoCall}] BY <1>2 DEF TypeOK
    <2> QED BY <2>1, <1>2, <1>3, DepositEndsType
<1> QED BY <1>3, <1>4

\* The fee of a deposit is in: it goes on to the pull or to the credit.
LEMMA DepositFeeCollectedEffect ==
    ASSUME TypeOK, NEW s \in Slot, DepositFeeCollected(s), NEW r, r = call[s].req,
           NEW q, q = [req[r] EXCEPT !.fee = TRUE, !.updated_at = now],
           NEW c, c = CallFor(r, "DepositPull", req[r].created_at)
    PROVE  /\ r \in Req /\ q \in WrapStoredRequest
           /\ \/ /\ ~req[r].pulled /\ Becomes(r, q) /\ Fills(s, c) /\ c # NoCall
                 /\ pending' = pending /\ credited' = credited
              \/ /\ req[r].pulled /\ Fills(s, NoCall) /\ pending' = pending \ {r}
                 /\ \E p : Becomes(r, p) /\ CreditTried(r, q, p)
           /\ UNCHANGED <<queue, scheduled, ledger, evm_nonce, pool, seen, receipt,
                          now, upgrades>>
           /\ TypeOK'
<1>1. r \in Req /\ req[r] \in WrapStoredRequest /\ now \in 0..MaxTime
    BY SlotTypes DEF DepositFeeCollected, AtPhase
<1>2. q \in WrapStoredRequest /\ q.pulled = req[r].pulled /\ req[r].created_at \in 0..MaxTime
    BY <1>1 DEF WrapStoredRequest
<1>3. CASE req[r].pulled
    <2>1. DepositEnds(r, q) /\ call' = Released(s)
        BY <1>2, <1>3 DEF DepositFeeCollected
    <2>2. PICK p : Becomes(r, p) /\ CreditTried(r, q, p)
        BY <1>1, <1>2, <2>1, DepositEndsEffect
    <2>3. Fills(s, NoCall) BY <2>1, SlotFreed
    <2>4. TypeOK'
        <3>1. call' \in [Slot -> Call \cup {NoCall}] BY <2>3 DEF Fills
        <3> QED BY <3>1, <1>1, <2>1, <2>2, DepositEndsType
    <2> QED BY <1>1, <1>2, <1>3, <2>1, <2>2, <2>3, <2>4 DEF DepositEnds
<1>4. CASE ~req[r].pulled
    <2>1. /\ req' = [req EXCEPT ![r] = q]
          /\ call' = Waiting(s, r, "DepositPull", req[r].created_at)
          /\ UNCHANGED <<pending, queue, scheduled, ledger, evm, now, upgrades>>
        BY <1>2, <1>4 DEF DepositFeeCollected, PullStamp
    <2>2. Becomes(r, q) BY <1>1, <1>2, <2>1, OneRecord
    <2>3. Fills(s, c) /\ c # NoCall
        <3>1. "DepositPull" \in Phases BY DEF Phases
        <3> QED BY <3>1, <1>1, <1>2, <2>1, SlotTaken
    <2>4. TypeOK'
        BY <2>1, <2>2, <2>3 DEF TypeOK, Becomes, Fills, evm
    <2> QED BY <1>1, <1>2, <1>4, <2>1, <2>2, <2>3, <2>4 DEF evm
<1> QED BY <1>3, <1>4

\* The tokens of a deposit are in: it is credited.
LEMMA DepositPulledEffect ==
    ASSUME TypeOK, NEW s \in Slot, DepositPulled(s), NEW r, r = call[s].req,
           NEW q, q = [req[r] EXCEPT !.pulled = TRUE, !.updated_at = now]
    PROVE  /\ q \in WrapStoredRequest
           /\ Fills(s, NoCall) /\ pending' = pending \ {r}
           /\ \E p : Becomes(r, p) /\ CreditTried(r, q, p)
           /\ UNCHANGED <<queue, scheduled, ledger, evm_nonce, pool, seen, receipt,
                          now, upgrades>>
           /\ TypeOK'
<1>1. r \in Req /\ req[r] \in WrapStoredRequest /\ now \in 0..MaxTime
    BY SlotTypes DEF DepositPulled, AtPhase
<1>2. q \in WrapStoredRequest
    BY <1>1 DEF WrapStoredRequest
<1>3. DepositEnds(r, q) /\ call' = Released(s)
    BY DEF DepositPulled
<1>4. PICK p : Becomes(r, p) /\ CreditTried(r, q, p)
    BY <1>1, <1>2, <1>3, DepositEndsEffect
<1>5. Fills(s, NoCall) BY <1>3, SlotFreed
<1>6. TypeOK'
    <2>1. call' \in [Slot -> Call \cup {NoCall}] BY <1>5 DEF Fills
    <2> QED BY <2>1, <1>1, <1>3, <1>4, DepositEndsType
<1> QED BY <1>2, <1>3, <1>4, <1>5, <1>6 DEF DepositEnds

\* The credit is tried again on request.
LEMMA RetryDepositEffect ==
    ASSUME TypeOK, NEW r \in Req, RetryDeposit(r)
    PROVE  /\ \E p : Becomes(r, p) /\ CreditTried(r, req[r], p)
           /\ TypeOK'
<1>1. req[r] \in WrapStoredRequest BY SlotTypes
<1>2. PICK ok \in CreditOutcomes(r) :
          /\ req' = [req EXCEPT ![r] =
                [Finalized(req[r], ok) EXCEPT !.updated_at = req[r].updated_at]]
          /\ credited' = IF ok THEN credited \cup {r} ELSE credited
    BY DEF RetryDeposit
<1> DEFINE f == Finalized(req[r], ok)
           p == [f EXCEPT !.updated_at = req[r].updated_at]
<1>3. ok \in BOOLEAN /\ (~ok => r \notin credited)
    BY DEF CreditOutcomes
<1>4. /\ f \in WrapStoredRequest
      /\ f.status = IF ok THEN "Succeeded" ELSE "Failed"
      /\ f.mint = IF ok THEN Credit ELSE req[r].mint
      /\ f.recoverable = ~ok
      /\ f.deposit = req[r].deposit /\ f.fee = req[r].fee
      /\ f.created_at = req[r].created_at
      /\ f.pulled = req[r].pulled /\ f.submit = req[r].submit
      /\ f.withdraw_at = req[r].withdraw_at
    BY <1>1, <1>3, FinalizedFields
<1> HIDE DEF f
<1>5. /\ p \in WrapStoredRequest /\ p.status = f.status /\ p.mint = f.mint
      /\ p.recoverable = f.recoverable /\ p.deposit = f.deposit /\ p.fee = f.fee
      /\ p.created_at = f.created_at /\ p.pulled = f.pulled /\ p.submit = f.submit
      /\ p.withdraw_at = f.withdraw_at
    BY <1>1, <1>4 DEF WrapStoredRequest
<1>6. req' = [req EXCEPT ![r] = p] BY <1>2 DEF f
<1> HIDE DEF p
<1>7. Becomes(r, p) BY <1>5, <1>6, OneRecord
<1>8. CreditTried(r, req[r], p)
    <2>1. CASE ok BY <2>1, <1>2, <1>4, <1>5 DEF CreditTried
    <2>2. CASE ~ok
        <3>1. credited' = credited BY <2>2, <1>2
        <3> QED BY <2>2, <3>1, <1>3, <1>4, <1>5 DEF CreditTried
    <2> QED BY <2>1, <2>2
<1>9. TypeOK'
    <2>1. credited' \subseteq Req BY <1>8 DEF CreditTried, TypeOK
    <2> QED BY <2>1, <1>7 DEF TypeOK, RetryDeposit, Becomes
<1> QED BY <1>7, <1>8, <1>9

\* How the answer of the ledger changes a waiting call.
AnswerTo(c, d, ok) ==
    /\ c.phase \in {"Pull", "DepositPull", "Refund", "LostPull", "LostRefund"}
    /\ c.phase \in {"LostPull", "LostRefund"} <=> d = NoCall
    /\ d # NoCall =>
          /\ d \in Call /\ d.req = c.req /\ d.stamp = c.stamp
          /\ c.phase = "Pull" => d.phase = IF ok THEN "PullOk" ELSE "PullErr"
          /\ c.phase = "DepositPull" =>
                d.phase = IF ok THEN "DepositPullOk" ELSE "DepositPullErr"
          /\ c.phase = "Refund" => d.phase = IF ok THEN "RefundOk" ELSE "RefundErr"

\* What an answer of the ledger does to the slot that waits for it.
LEMMA AnsweredEffect ==
    ASSUME TypeOK, NEW s \in Slot, NEW ok \in BOOLEAN, InFlight(s), Answered(s, ok)
    PROVE  \E d : Fills(s, d) /\ AnswerTo(call[s], d, ok)
<1> DEFINE c == call[s]
           To(a, b) == [c EXCEPT !.phase = IF ok THEN a ELSE b]
           d == CASE c.phase = "Pull" -> To("PullOk", "PullErr")
                  [] c.phase = "DepositPull" -> To("DepositPullOk", "DepositPullErr")
                  [] c.phase = "Refund" -> To("RefundOk", "RefundErr")
                  [] OTHER -> NoCall
<1>1. /\ c \in Call
      /\ c.phase \in {"Pull", "DepositPull", "Refund", "LostPull", "LostRefund"}
    BY SlotTypes DEF InFlight
<1>2. ASSUME NEW a \in Phases, NEW b \in Phases
      PROVE  /\ To(a, b) \in Call /\ To(a, b) # NoCall
             /\ To(a, b).req = c.req /\ To(a, b).stamp = c.stamp
             /\ To(a, b).phase = IF ok THEN a ELSE b
    <2>1. To(a, b) \in Call /\ To(a, b).req = c.req /\ To(a, b).stamp = c.stamp
          /\ To(a, b).phase = IF ok THEN a ELSE b
        BY <1>1 DEF Call
    <2> QED BY <2>1, WrapAssumption
<1>3. /\ {"PullOk", "PullErr", "DepositPullOk", "DepositPullErr", "RefundOk", "RefundErr"}
            \subseteq Phases
    BY DEF Phases
<1>4. call' = [call EXCEPT ![s] = d] BY DEF Answered
<1>5. AnswerTo(c, d, ok)
    <2>1. CASE c.phase = "Pull"
        <3>1. d = To("PullOk", "PullErr") BY <2>1
        <3> HIDE DEF d, To
        <3> QED BY <2>1, <3>1, <1>2, <1>3 DEF AnswerTo
    <2>2. CASE c.phase = "DepositPull"
        <3>1. d = To("DepositPullOk", "DepositPullErr") BY <2>2
        <3> HIDE DEF d, To
        <3> QED BY <2>2, <3>1, <1>2, <1>3 DEF AnswerTo
    <2>3. CASE c.phase = "Refund"
        <3>1. d = To("RefundOk", "RefundErr") BY <2>3
        <3> HIDE DEF d, To
        <3> QED BY <2>3, <3>1, <1>2, <1>3 DEF AnswerTo
    <2>4. CASE c.phase \in {"LostPull", "LostRefund"}
        <3>1. d = NoCall BY <2>4
        <3> HIDE DEF d
        <3> QED BY <2>4, <3>1 DEF AnswerTo
    <2> HIDE DEF d, c
    <2> QED BY <1>1, <2>1, <2>2, <2>3, <2>4
<1> HIDE DEF d
<1>6. Fills(s, d)
    <2>1. d \in Call \cup {NoCall} BY <1>5 DEF AnswerTo
    <2> QED BY <1>4, <2>1 DEF Fills, TypeOK
<1> QED BY <1>5, <1>6

\* What settling makes of a record, given the receipts rc.
Settles(r, rc) ==
    /\ ~req[r].deposit
    /\ req[r].status = "Running"
    /\ req[r].submit = "Submitted"
    /\ req[r].mint \in DOMAIN rc
    /\ rc[req[r].mint] # "none"

\* What settling by receipts keeps of a record.
LEMMA SettledFields ==
    ASSUME TypeOK, NEW rc, NEW r \in Req, NEW q, q = SettledBy(rc)[r]
    PROVE  /\ q \in WrapStoredRequest
           /\ q.deposit = req[r].deposit /\ q.fee = req[r].fee
           /\ q.created_at = req[r].created_at /\ q.pulled = req[r].pulled
           /\ q.mint = req[r].mint /\ q.submit = req[r].submit
           /\ q.withdraw_at = req[r].withdraw_at
           /\ q.withdrawing = req[r].withdrawing
           /\ Settles(r, rc) =>
                 /\ q.status = IF rc[req[r].mint] = "ok" THEN "Succeeded" ELSE "Failed"
                 /\ q.recoverable = (rc[req[r].mint] # "ok")
           /\ ~Settles(r, rc) => q = req[r]
<1>1. req[r] \in WrapStoredRequest /\ now \in 0..MaxTime BY SlotTypes
<1>2. CASE Settles(r, rc)
    <2> DEFINE st == IF rc[req[r].mint] = "ok" THEN "Succeeded" ELSE "Failed"
               rv == rc[req[r].mint] # "ok"
    <2>1. q = [req[r] EXCEPT !.status = st, !.recoverable = rv, !.updated_at = now]
        BY <1>2 DEF SettledBy, Settles
    <2>2. st \in Statuses /\ rv \in BOOLEAN BY DEF Statuses
    <2> HIDE DEF st, rv
    <2>3. q \in WrapStoredRequest BY <1>1, <2>1, <2>2 DEF WrapStoredRequest
    <2>4. /\ q.deposit = req[r].deposit /\ q.fee = req[r].fee
          /\ q.created_at = req[r].created_at /\ q.pulled = req[r].pulled
          /\ q.mint = req[r].mint /\ q.submit = req[r].submit
          /\ q.withdraw_at = req[r].withdraw_at
          /\ q.withdrawing = req[r].withdrawing
          /\ q.status = st /\ q.recoverable = rv
        BY <1>1, <2>1 DEF WrapStoredRequest
    <2> QED BY <1>2, <2>3, <2>4 DEF st, rv
<1>3. CASE ~Settles(r, rc)
    <2>1. q = req[r] BY <1>3 DEF SettledBy, Settles
    <2> QED BY <1>1, <1>3, <2>1
<1> QED BY <1>2, <1>3

\* What a pass over all records leaves alone.
SameFields(p, q) ==
    /\ p \in WrapStoredRequest
    /\ p.deposit = q.deposit /\ p.fee = q.fee /\ p.created_at = q.created_at
    /\ p.pulled = q.pulled /\ p.mint = q.mint /\ p.submit = q.submit
    /\ p.withdraw_at = q.withdraw_at

\* The status of a record after settling.
SettledAs(r, rc, p) ==
    /\ Settles(r, rc) =>
          /\ p.status = IF rc[req[r].mint] = "ok" THEN "Succeeded" ELSE "Failed"
          /\ p.recoverable = (rc[req[r].mint] # "ok")
    /\ ~Settles(r, rc) =>
          /\ p.status = req[r].status /\ p.recoverable = req[r].recoverable
          /\ p.updated_at \in {req[r].updated_at, now}

\* What the repair does to record r when it starts the requests of runs again.
Repaired(r, runs) ==
    /\ SameFields(req'[r], req[r])
    /\ r \in runs =>
          /\ req[r].status = "Running" /\ Restartable(req[r]) /\ Stale(req[r])
          /\ req'[r].status = "Queued" /\ req'[r].recoverable = req[r].recoverable
    /\ r \notin runs => SettledAs(r, receipt, req'[r])

\* The repair and the upgrade push exactly the ids that are not queued.
LEMMA RequeueMembers ==
    ASSUME TypeOK, NEW runs \in SUBSET Req, NEW p \in Orders(ToRequeue(runs)),
           queue' = queue \o p
    PROVE  queue' \in Seq(Req) /\ Members(queue') = Members(queue) \cup runs
<1>1. ToRequeue(runs) \in SUBSET Req /\ Members(queue) \cup ToRequeue(runs) = Members(queue) \cup runs
    BY DEF ToRequeue
<1>2. queue \in Seq(Req) BY DEF TypeOK
<1> QED BY <1>1, <1>2, ConcatMembers

\* repair_stale_operations record by record.
LEMMA RepairEffect ==
    ASSUME TypeOK, Repair
    PROVE  /\ \E runs \in SUBSET Req :
                 /\ \A r \in Req : Repaired(r, runs)
                 /\ Members(queue') = Members(queue) \cup runs
                 /\ \E p \in Orders(ToRequeue(runs)) : queue' = queue \o p
           /\ TypeOK'
<1> DEFINE settled == SettledBy(receipt)
           refunds == {r \in Req : settled[r].withdrawing /\ Stale(settled[r])}
           runs == {r \in Req \ refunds : /\ settled[r].status = "Running"
                                          /\ Stale(settled[r])
                                          /\ Repairable(settled[r])}
           New(r) == CASE r \in refunds -> [settled[r] EXCEPT !.withdrawing = FALSE,
                                                              !.updated_at = now]
                       [] r \in runs -> [settled[r] EXCEPT !.status = "Queued",
                                                           !.updated_at = now]
                       [] OTHER -> settled[r]
<1>1. req' = [r \in Req |-> New(r)] BY DEF Repair
<1>2. PICK p \in Orders(ToRequeue(runs)) : queue' = queue \o p
    BY DEF Repair
<1>3. runs \in SUBSET Req OBVIOUS
<1>4. ASSUME NEW r \in Req
      PROVE  Repaired(r, runs)
    <2> DEFINE q == settled[r]
    <2>1. /\ q \in WrapStoredRequest
          /\ q.deposit = req[r].deposit /\ q.fee = req[r].fee
          /\ q.created_at = req[r].created_at /\ q.pulled = req[r].pulled
          /\ q.mint = req[r].mint /\ q.submit = req[r].submit
          /\ q.withdraw_at = req[r].withdraw_at
          /\ Settles(r, receipt) =>
                /\ q.status = IF receipt[req[r].mint] = "ok" THEN "Succeeded" ELSE "Failed"
                /\ q.recoverable = (receipt[req[r].mint] # "ok")
          /\ ~Settles(r, receipt) => q = req[r]
        BY SettledFields
    <2>2. now \in 0..MaxTime /\ req'[r] = New(r)
        BY <1>1, SlotTypes
    <2>3. CASE r \in refunds
        <3>1. r \notin runs /\ req'[r] = [q EXCEPT !.withdrawing = FALSE, !.updated_at = now]
            BY <2>2, <2>3
        <3> HIDE DEF settled, refunds, runs, q
        <3>2. /\ req'[r] \in WrapStoredRequest
              /\ req'[r].deposit = q.deposit /\ req'[r].fee = q.fee
              /\ req'[r].created_at = q.created_at /\ req'[r].pulled = q.pulled
              /\ req'[r].mint = q.mint /\ req'[r].submit = q.submit
              /\ req'[r].withdraw_at = q.withdraw_at
              /\ req'[r].status = q.status /\ req'[r].recoverable = q.recoverable
              /\ req'[r].updated_at = now
            BY <2>1, <2>2, <3>1 DEF WrapStoredRequest
        <3> QED BY <2>1, <3>1, <3>2 DEF Repaired, SameFields, SettledAs
    <2>4. CASE r \in runs
        <3>1. /\ req'[r] = [q EXCEPT !.status = "Queued", !.updated_at = now]
              /\ q.status = "Running" /\ Stale(q) /\ Restartable(q)
            BY <2>2, <2>4 DEF Repairable
        <3> HIDE DEF settled, refunds, runs, q
        <3>2. q = req[r] BY <2>1, <3>1 DEF Settles, Restartable
        <3>3. /\ req'[r] \in WrapStoredRequest
              /\ req'[r].deposit = q.deposit /\ req'[r].fee = q.fee
              /\ req'[r].created_at = q.created_at /\ req'[r].pulled = q.pulled
              /\ req'[r].mint = q.mint /\ req'[r].submit = q.submit
              /\ req'[r].withdraw_at = q.withdraw_at
              /\ req'[r].status = "Queued" /\ req'[r].recoverable = q.recoverable
            BY <2>1, <2>2, <3>1 DEF WrapStoredRequest, Statuses
        <3> QED BY <2>1, <2>4, <3>1, <3>2, <3>3 DEF Repaired, SameFields
    <2>5. CASE r \notin refunds /\ r \notin runs
        <3>1. req'[r] = q BY <2>2, <2>5
        <3> HIDE DEF settled, refunds, runs, q
        <3> QED BY <2>1, <2>5, <3>1 DEF Repaired, SameFields, SettledAs
    <2> HIDE DEF settled, refunds, runs
    <2> QED BY <2>3, <2>4, <2>5
<1> HIDE DEF settled, refunds, runs, New
<1>5. queue' \in Seq(Req) /\ Members(queue') = Members(queue) \cup runs
    BY <1>2, <1>3, RequeueMembers
<1>6. TypeOK'
    <2>1. req' \in [Req -> WrapStoredRequest]
        <3>1. \A r \in Req : req'[r] \in WrapStoredRequest
            BY <1>4 DEF Repaired, SameFields
        <3>2. req' = [r \in Req |-> req'[r]] BY <1>1
        <3> QED BY <3>1, <3>2
    <2>2. scheduled' \in BOOLEAN BY DEF Repair, Rearmed, TypeOK
    <2> QED BY <1>5, <2>1, <2>2 DEF TypeOK, Repair, evm
<1> QED BY <1>2, <1>3, <1>4, <1>5, <1>6

\* What an upgrade does to a slot: calls in flight are lost, the rest forgotten.
LostAs(c, d) ==
    IF c # NoCall /\ c.phase \in {"Pull", "DepositPull", "Refund", "LostPull", "LostRefund"}
    THEN /\ d \in Call /\ d # NoCall /\ d.req = c.req /\ d.stamp = c.stamp
         /\ d.phase = IF c.phase \in {"Refund", "LostRefund"} THEN "LostRefund"
                      ELSE "LostPull"
    ELSE d = NoCall

\* What an upgrade does to record r when it starts the requests of runs again.
Reloaded(r, runs) ==
    /\ req'[r] \in WrapStoredRequest
    /\ r \in runs =>
          /\ ~req[r].deposit
          /\ \/ req[r].status = "Queued"
             \/ req[r].status = "Running" /\ Restartable(req[r])
          /\ SameFields(req'[r], req[r])
          /\ req'[r].status = "Queued" /\ req'[r].recoverable = req[r].recoverable
    /\ r \notin runs =>
          /\ req'[r] = req[r]
          /\ ~req[r].deposit => ~(req[r].status = "Running" /\ Restartable(req[r]))

\* post_upgrade record by record and slot by slot.
LEMMA UpgradeEffect ==
    ASSUME TypeOK, NEW enabled \in BOOLEAN, Upgrade(enabled)
    PROVE  /\ \E runs \in SUBSET Req :
                 /\ \A r \in Req : Reloaded(r, runs)
                 /\ Members(queue') = Members(queue) \cup runs
                 /\ \E p \in Orders(ToRequeue(runs)) : queue' = queue \o p
           /\ \A s \in Slot : LostAs(call[s], call'[s])
           /\ TypeOK'
<1> DEFINE runs == {r \in Req :
                      /\ ~req[r].deposit
                      /\ \/ req[r].status = "Queued"
                         \/ req[r].status = "Running" /\ Restartable(req[r])}
           Lost(s) == IF ~InFlight(s) THEN NoCall
                      ELSE [call[s] EXCEPT !.phase =
                              IF KindOf(s) = "Pull" THEN "LostPull" ELSE "LostRefund"]
<1>1. /\ req' = [r \in Req |-> IF r \in runs THEN [req[r] EXCEPT !.status = "Queued"]
                               ELSE req[r]]
      /\ call' = [s \in Slot |-> Lost(s)]
    BY DEF Upgrade
<1>2. PICK p \in Orders(ToRequeue(runs)) : queue' = queue \o p
    BY DEF Upgrade
<1>3. runs \in SUBSET Req OBVIOUS
<1>4. ASSUME NEW r \in Req
      PROVE  Reloaded(r, runs)
    <2>1. req[r] \in WrapStoredRequest BY SlotTypes
    <2>2. CASE r \in runs
        <3>1. /\ req'[r] = [req[r] EXCEPT !.status = "Queued"]
              /\ ~req[r].deposit
              /\ \/ req[r].status = "Queued"
                 \/ req[r].status = "Running" /\ Restartable(req[r])
            BY <1>1, <2>2
        <3> HIDE DEF runs
        <3>2. req'[r] \in WrapStoredRequest /\ req'[r].status = "Queued"
              /\ req'[r].recoverable = req[r].recoverable
            BY <2>1, <3>1 DEF WrapStoredRequest, Statuses
        <3>3. SameFields(req'[r], req[r])
            BY <2>1, <3>1, <3>2 DEF SameFields, WrapStoredRequest
        <3> QED BY <2>2, <3>1, <3>2, <3>3 DEF Reloaded
    <2>3. CASE r \notin runs
        <3>1. req'[r] = req[r] BY <1>1, <2>3
        <3>2. ~req[r].deposit => ~(req[r].status = "Running" /\ Restartable(req[r]))
            BY <2>3
        <3> HIDE DEF runs
        <3> QED BY <2>1, <2>3, <3>1, <3>2 DEF Reloaded
    <2> QED BY <2>2, <2>3
<1>5. ASSUME NEW s \in Slot
      PROVE  LostAs(call[s], call'[s]) /\ call'[s] \in Call \cup {NoCall}
    <2>1. call'[s] = Lost(s) BY <1>1
    <2>2. CASE InFlight(s)
        <3>1. call[s] \in Call /\ call[s] # NoCall
            BY <2>2, SlotTypes DEF InFlight
        <3> DEFINE ph == IF KindOf(s) = "Pull" THEN "LostPull" ELSE "LostRefund"
        <3>2. call'[s] = [call[s] EXCEPT !.phase = ph] BY <2>1, <2>2
        <3>3. ph \in Phases BY DEF Phases
        <3>4. ph = IF call[s].phase \in {"Refund", "LostRefund"} THEN "LostRefund"
                   ELSE "LostPull"
            BY DEF KindOf
        <3> HIDE DEF ph
        <3>5. /\ call'[s] \in Call /\ call'[s].req = call[s].req
              /\ call'[s].stamp = call[s].stamp /\ call'[s].phase = ph
            BY <3>1, <3>2, <3>3 DEF Call
        <3>6. call'[s] # NoCall BY <3>5, WrapAssumption
        <3> QED BY <2>2, <3>1, <3>4, <3>5, <3>6 DEF LostAs, InFlight
    <2>3. CASE ~InFlight(s)
        <3>1. call'[s] = NoCall BY <2>1, <2>3
        <3> QED BY <3>1, <2>3 DEF LostAs, InFlight
    <2> QED BY <2>2, <2>3
<1> HIDE DEF runs, Lost
<1>6. queue' \in Seq(Req) /\ Members(queue') = Members(queue) \cup runs
    BY <1>2, <1>3, RequeueMembers
<1>7. TypeOK'
    <2>1. req' \in [Req -> WrapStoredRequest]
        <3>1. \A r \in Req : req'[r] \in WrapStoredRequest
            BY <1>4 DEF Reloaded
        <3>2. req' = [r \in Req |-> req'[r]] BY <1>1
        <3> QED BY <3>1, <3>2
    <2>2. call' \in [Slot -> Call \cup {NoCall}] BY <1>1, <1>5
    <2>3. scheduled' \in BOOLEAN BY DEF Upgrade
    <2>4. upgrades' \in 0..MaxUpgrades BY WrapAssumption DEF Upgrade, TypeOK
    <2> QED BY <1>6, <2>1, <2>2, <2>3, <2>4 DEF TypeOK, Upgrade, evm
<1> QED BY <1>2, <1>3, <1>4, <1>5, <1>6, <1>7

\* The pending mint is executed and its record settled.
LEMMA MintExecutedEffect ==
    ASSUME TypeOK, NEW outcome \in {"ok", "reverted"}, MintExecuted(outcome)
    PROVE  /\ \A r \in Req : /\ SameFields(req'[r], req[r])
                             /\ SettledAs(r, receipt', req'[r])
           /\ pool \in Mint
           /\ TypeOK'
<1>1. receipt' = [receipt EXCEPT ![pool] = outcome] /\ req' = SettledBy(receipt')
    BY DEF MintExecuted
<1>2. receipt' \in [seen -> {"none", "ok", "reverted"}]
    BY <1>1 DEF TypeOK
<1>3. ASSUME NEW r \in Req
      PROVE  SameFields(req'[r], req[r]) /\ SettledAs(r, receipt', req'[r])
    <2>1. req'[r] = SettledBy(receipt')[r] BY <1>1
    <2>2. /\ req'[r] \in WrapStoredRequest
          /\ req'[r].deposit = req[r].deposit /\ req'[r].fee = req[r].fee
          /\ req'[r].created_at = req[r].created_at /\ req'[r].pulled = req[r].pulled
          /\ req'[r].mint = req[r].mint /\ req'[r].submit = req[r].submit
          /\ req'[r].withdraw_at = req[r].withdraw_at
          /\ Settles(r, receipt') =>
                /\ req'[r].status = IF receipt'[req[r].mint] = "ok" THEN "Succeeded"
                                    ELSE "Failed"
                /\ req'[r].recoverable = (receipt'[req[r].mint] # "ok")
          /\ ~Settles(r, receipt') => req'[r] = req[r]
        BY <2>1, SettledFields
    <2> QED BY <2>2 DEF SameFields, SettledAs
<1>4. req' \in [Req -> WrapStoredRequest]
    <2>1. \A r \in Req : req'[r] \in WrapStoredRequest
        BY <1>3 DEF SameFields
    <2>2. req' = [r \in Req |-> req'[r]] BY <1>1 DEF SettledBy
    <2> QED BY <2>1, <2>2
<1>5. pool \in Mint /\ evm_nonce' \in 0..MaxNonce
    BY WrapAssumption DEF MintExecuted, TypeOK
<1>6. TypeOK'
    BY <1>2, <1>4, <1>5 DEF TypeOK, MintExecuted
<1> QED BY <1>3, <1>5, <1>6

-----------------------------------------------------------------------------
(* Every action preserves the stamps.                                      *)

\* A record that keeps the fields SameFields names takes an allowed step.
LEMMA FieldsStep ==
    ASSUME NEW r \in Req, SameFields(req'[r], req[r]), Known(r) <=> Known(r)',
           ~Known(r) => req'[r] = req[r]
    PROVE  RecordStep(r)
BY DEF RecordStep, SameFields

\* A known record that stays known and keeps its kind and its times.
Keeps(q, p, pulled) ==
    /\ q.status # "None" /\ q.deposit = p.deposit /\ q.created_at = p.created_at
    /\ q.withdraw_at = p.withdraw_at
    /\ q.pulled => p.pulled \/ pulled

\* A record that stays known and keeps its kind and times takes an allowed step.
LEMMA KeptStep ==
    ASSUME NEW r, Known(r), NEW q, Becomes(r, q), Keeps(q, req[r], Pulled(r))
    PROVE  RecordStep(r)
BY DEF RecordStep, Becomes, Keeps, Known

\* StampOne for a step that frees a slot.
LEMMA StampFree ==
    ASSUME StampInv, TypeOK', NEW r, NEW q, Becomes(r, q), RecordStep(r),
           NEW s \in Slot, Fills(s, NoCall), ledger' = ledger,
           \A x \in Members(queue') : x \in Members(queue) \/ x = r,
           Known(r), credited' = credited
    PROVE  StampInv'
<1>1. Known(r)' BY DEF RecordStep
<1>2. \A t \in Slot : call'[t] # NoCall /\ call'[t] # call[t] => CallOK(call[t])'
    BY DEF Fills
<1> QED BY <1>1, <1>2, StampOne

\* The request of a call is known.
LEMMA CallKnown ==
    ASSUME StampInv, NEW s \in Slot, call[s] # NoCall
    PROVE  call[s].req \in Req /\ Known(call[s].req) /\ CallOK(call[s])
           /\ RecordOK(call[s].req) /\ req[call[s].req] \in WrapStoredRequest
BY SlotTypes DEF StampInv, CallOK

\* The answer to the fee keeps the stamps.
LEMMA FeeStamps ==
    ASSUME StampInv, NEW s \in Slot, FeeRefused(s) \/ FeeCollected(s)
    PROVE  StampInv'
<1> DEFINE r == call[s].req
<1>1. r \in Req /\ Known(r) /\ req[r] \in WrapStoredRequest
    BY CallKnown DEF FeeRefused, FeeCollected, AtPhase
<1>2. CASE FeeRefused(s)
    <2> DEFINE q == [req[r] EXCEPT !.status = "Failed", !.recoverable = FALSE,
                                   !.updated_at = now]
    <2>1. Becomes(r, q) /\ Fills(s, NoCall) /\ TypeOK'
        BY <1>2, FeeRefusedEffect DEF StampInv
    <2>2. RecordStep(r)
        <3>1. q.status = "Failed" BY <1>1 DEF WrapStoredRequest
        <3>2. Keeps(q, req[r], Pulled(r)) BY <1>1, <3>1 DEF Keeps, WrapStoredRequest
        <3> HIDE DEF q, r
        <3> QED BY <1>1, <2>1, <3>2, KeptStep
    <2>3. ledger' = ledger /\ queue' = queue /\ credited' = credited
        BY <1>2 DEF FeeRefused, evm
    <2> HIDE DEF q, r
    <2> QED BY <1>1, <2>1, <2>2, <2>3, StampFree
<1>3. CASE FeeCollected(s)
    <2> DEFINE q == [req[r] EXCEPT !.fee = TRUE, !.updated_at = now]
    <2>1. Becomes(r, q) /\ Fills(s, NoCall) /\ TypeOK'
        BY <1>3, FeeCollectedEffect DEF StampInv
    <2>2. RecordStep(r)
        <3>1. Keeps(q, req[r], Pulled(r)) BY <1>1 DEF Keeps, WrapStoredRequest, Known
        <3> HIDE DEF q, r
        <3> QED BY <1>1, <2>1, <3>1, KeptStep
    <2>3. ledger' = ledger /\ credited' = credited
        BY <1>3 DEF FeeCollected, evm
    <2>4. Members(queue') = Members(queue) \cup {r}
        BY <1>1, <1>3, EnqueuedMembers DEF FeeCollected, StampInv, TypeOK
    <2> HIDE DEF q, r
    <2> QED BY <1>1, <2>1, <2>2, <2>3, <2>4, StampFree
<1> QED BY <1>2, <1>3

\* StampOne for a step that lets a slot wait.
LEMMA StampFill ==
    ASSUME StampInv, TypeOK', NEW r, NEW q, Becomes(r, q), RecordStep(r),
           NEW s \in Slot, NEW c, Fills(s, c), CallOK(call[s])', ledger' = ledger,
           Members(queue') \subseteq Members(queue), credited' = credited
    PROVE  StampInv'
<1>1. \A t \in Slot : call'[t] # NoCall /\ call'[t] # call[t] => CallOK(call[t])'
    BY DEF Fills
<1> QED BY <1>1, StampOne

\* A call waiting for request r carries its id, phase and stamp.
LEMMA CallForFields ==
    ASSUME NEW r, NEW phase, NEW stamp
    PROVE  /\ CallFor(r, phase, stamp).req = r
           /\ CallFor(r, phase, stamp).phase = phase
           /\ CallFor(r, phase, stamp).stamp = stamp
BY DEF CallFor

\* The blank record of an unknown request.
LEMMA BlankRecord ==
    ASSUME StampInv, NEW r \in Req, ~Known(r)
    PROVE  /\ req[r] = Blank /\ req[r].status = "None" /\ ~req[r].deposit /\ ~req[r].fee
           /\ ~req[r].pulled /\ req[r].mint = NoMint /\ req[r].submit = "NotSubmitted"
           /\ ~req[r].recoverable /\ req[r].withdraw_at = 0
<1>1. req[r] = Blank BY DEF StampInv, RecordOK
<1> QED BY <1>1 DEF Blank

\* submit_wrap stamps the pull when it stores the request.
LEMMA SubmitStamps ==
    ASSUME StampInv, NEW s \in Slot, NEW r \in Req, Submit(s, r)
    PROVE  StampInv'
<1> DEFINE q == [req[r] EXCEPT !.status = "Queued", !.created_at = now,
                               !.updated_at = now]
           p == IF Known(r) THEN req[r] ELSE q
           c == CallFor(r, "Fee", 0)
<1>1. Becomes(r, p) /\ Fills(s, c) /\ TypeOK'
    BY SubmitEffect DEF StampInv
<1>2. req[r] \in WrapStoredRequest /\ now # 0
    BY SlotTypes DEF StampInv
<1>3. RecordStep(r) /\ Known(r)'
    <2>1. CASE Known(r)
        <3>1. req'[r] = req[r] BY <1>1, <2>1 DEF Becomes
        <3> QED BY <2>1, <3>1, SameRecord DEF Known
    <2>2. CASE ~Known(r)
        <3>1. req'[r] = q BY <1>1, <2>2 DEF Becomes
        <3>2. /\ q.status = "Queued" /\ q.created_at = now
              /\ q.pulled = req[r].pulled /\ q.withdraw_at = req[r].withdraw_at
            BY <1>2 DEF WrapStoredRequest
        <3> HIDE DEF q
        <3> QED BY <1>2, <2>2, <3>1, <3>2, BlankRecord DEF RecordStep, Known
    <2> QED BY <2>1, <2>2
<1>4. CallOK(call[s])'
    <2>1. call'[s] = c BY <1>1 DEF Fills
    <2>2. c.req = r /\ c.phase = "Fee" BY CallForFields
    <2> HIDE DEF c
    <2> QED BY <1>3, <2>1, <2>2 DEF CallOK
<1>5. ledger' = ledger /\ queue' = queue /\ credited' = credited
    BY DEF Submit, evm
<1> HIDE DEF p, c
<1> QED BY <1>1, <1>3, <1>4, <1>5, StampFill

\* submit_native_deposit stamps the pull when it stores the request.
LEMMA SubmitDepositStamps ==
    ASSUME StampInv, NEW s \in Slot, NEW r \in Req, SubmitDeposit(s, r)
    PROVE  StampInv'
<1> DEFINE q == [req[r] EXCEPT !.status = "Running", !.deposit = TRUE,
                               !.created_at = now, !.updated_at = now]
           p == IF Known(r) THEN req[r] ELSE q
           c == IF ~req[r].fee THEN CallFor(r, "Fee", 0)
                ELSE CallFor(r, "DepositPull", req[r].created_at)
<1>1. Becomes(r, p) /\ Fills(s, c) /\ TypeOK'
    BY SubmitDepositEffect DEF StampInv
<1>2. req[r] \in WrapStoredRequest /\ now # 0
    BY SlotTypes DEF StampInv
<1>3. RecordStep(r) /\ Known(r)'
    <2>1. CASE Known(r)
        <3>1. req'[r] = req[r] BY <1>1, <2>1 DEF Becomes
        <3> QED BY <2>1, <3>1, SameRecord DEF Known
    <2>2. CASE ~Known(r)
        <3>1. req'[r] = q BY <1>1, <2>2 DEF Becomes
        <3>2. /\ q.status = "Running" /\ q.created_at = now
              /\ q.pulled = req[r].pulled /\ q.withdraw_at = req[r].withdraw_at
            BY <1>2 DEF WrapStoredRequest
        <3> HIDE DEF q
        <3> QED BY <1>2, <2>2, <3>1, <3>2, BlankRecord DEF RecordStep, Known
    <2> QED BY <2>1, <2>2
<1>4. CallOK(call[s])'
    <2>1. call'[s] = c BY <1>1 DEF Fills
    <2>2. CASE ~req[r].fee
        <3>1. c.req = r /\ c.phase = "Fee" BY <2>2, CallForFields
        <3> HIDE DEF c
        <3> QED BY <1>3, <2>1, <3>1 DEF CallOK
    <2>3. CASE req[r].fee
        <3>1. c.req = r /\ c.phase = "DepositPull" /\ c.stamp = req[r].created_at
            BY <2>3, CallForFields
        <3>2. Known(r) BY <2>3, BlankRecord
        <3>3. req'[r] = req[r] BY <1>1, <3>2 DEF Becomes
        <3>4. req[r].deposit BY <3>2 DEF SubmitDeposit, DepositOpen, Known
        <3> HIDE DEF c
        <3> QED BY <1>3, <2>1, <3>1, <3>3, <3>4 DEF CallOK
    <2> QED BY <2>2, <2>3
<1>5. ledger' = ledger /\ queue' = queue /\ credited' = credited
    BY DEF SubmitDeposit, evm
<1> HIDE DEF p, c
<1> QED BY <1>1, <1>3, <1>4, <1>5, StampFill

\* recover_failed_wrap stores the time of the refund before it sends it.
LEMMA RecoverStamps ==
    ASSUME StampInv, NEW s \in Slot, NEW r \in Req, Recover(s, r)
    PROVE  StampInv'
<1> DEFINE w == RefundStamp(r)
           q == [req[r] EXCEPT !.withdraw_at = w, !.withdrawing = TRUE,
                               !.updated_at = now]
           c == CallFor(r, "Refund", w)
<1>1. /\ Becomes(r, q) /\ Fills(s, c) /\ TypeOK'
      /\ w \in 1..MaxTime /\ (req[r].withdraw_at # 0 => w = req[r].withdraw_at)
    BY RecoverEffect DEF StampInv
<1>2. req[r] \in WrapStoredRequest
    BY SlotTypes DEF StampInv
<1>3. Known(r) /\ req[r].pulled /\ ~req[r].deposit /\ Pulled(r)
    BY DEF Recover, RecoverAllowed, Known, StampInv, RecordOK
<1>4. /\ req'[r] = q /\ q.status = req[r].status /\ q.created_at = req[r].created_at
      /\ q.pulled = req[r].pulled /\ q.withdraw_at = w /\ q.deposit = req[r].deposit
    BY <1>1, <1>2 DEF Becomes, WrapStoredRequest
<1>5. w # 0 BY <1>1, WrapAssumption
<1>6. ledger' = ledger /\ queue' = queue /\ credited' = credited
    BY DEF Recover, evm
<1> HIDE DEF q, w
<1>7. RecordStep(r) /\ Known(r)'
    BY <1>1, <1>3, <1>4 DEF RecordStep, Known
<1>8. CallOK(call[s])'
    <2>1. call'[s] = c BY <1>1 DEF Fills
    <2>2. c.req = r /\ c.phase = "Refund" /\ c.stamp = w BY CallForFields
    <2>3. Pulled(r)' BY <1>3, <1>6 DEF Pulled
    <2> HIDE DEF c
    <2> QED BY <1>4, <1>5, <1>7, <2>1, <2>2, <2>3 DEF CallOK
<1> HIDE DEF c
<1> QED BY <1>1, <1>6, <1>7, <1>8, StampFill

\* The worker sends the pull with the stored time.
LEMMA TakeStamps ==
    ASSUME StampInv, NEW s \in Slot, WorkerTake(s)
    PROVE  StampInv'
<1>0. PICK r : r = Head(queue) OBVIOUS
<1> DEFINE q == [req[r] EXCEPT !.status = "Running", !.updated_at = now]
           c == IF req[r].pulled THEN CallFor(r, "Metadata", 0)
                ELSE CallFor(r, "Pull", req[r].created_at)
<1>1. Becomes(r, q) /\ Fills(s, c) /\ TypeOK'
    BY <1>0, WorkerTakeEffect DEF StampInv
<1>2. /\ r \in Req /\ r \in Members(queue)
      /\ Members(Tail(queue)) \subseteq Members(queue)
    BY <1>0, HeadMember DEF StampInv, TypeOK, WorkerTake
<1>3. Known(r) /\ req[r] \in WrapStoredRequest /\ RecordOK(r)
    BY <1>2, SlotTypes DEF StampInv
<1>4. q.status = "Running" /\ q.created_at = req[r].created_at
    BY <1>3 DEF WrapStoredRequest
<1>5. Keeps(q, req[r], Pulled(r))
    BY <1>3, <1>4 DEF Keeps, WrapStoredRequest
<1>6. ledger' = ledger /\ queue' = Tail(queue) /\ credited' = credited
    BY DEF WorkerTake, evm
<1>7. /\ req[r].pulled => c.req = r /\ c.phase = "Metadata"
      /\ ~req[r].pulled => c.req = r /\ c.phase = "Pull" /\ c.stamp = req[r].created_at
    BY CallForFields
<1> HIDE DEF q, c
<1>8. RecordStep(r) /\ Known(r)'
    BY <1>1, <1>3, <1>5, KeptStep DEF RecordStep
<1>9. CallOK(call[s])'
    <2>1. call'[s] = c /\ req'[r] = q BY <1>1 DEF Fills, Becomes
    <2>2. req[r].pulled => Pulled(r)' BY <1>3, <1>6 DEF RecordOK, Pulled
    <2> QED BY <1>4, <1>7, <1>8, <2>1, <2>2 DEF CallOK
<1> QED BY <1>1, <1>2, <1>6, <1>8, <1>9, StampFill

\* A queued request with a mint goes back to Running and nothing is sent.
LEMMA TakeMintedStamps ==
    ASSUME StampInv, WorkerTakeMinted
    PROVE  StampInv'
<1>0. PICK r : r = Head(queue) OBVIOUS
<1> DEFINE q == [req[r] EXCEPT !.status = "Running", !.updated_at = now,
                               !.recoverable = FALSE]
<1>1. Becomes(r, q) /\ TypeOK'
    BY <1>0, WorkerTakeMintedEffect DEF StampInv
<1>2. /\ r \in Req /\ r \in Members(queue)
      /\ Members(Tail(queue)) \subseteq Members(queue)
    BY <1>0, HeadMember DEF StampInv, TypeOK, WorkerTakeMinted
<1>3. Known(r) /\ req[r] \in WrapStoredRequest
    BY <1>2, SlotTypes DEF StampInv
<1>4. q.status = "Running" BY <1>3 DEF WrapStoredRequest
<1>5. Keeps(q, req[r], Pulled(r))
    BY <1>3, <1>4 DEF Keeps, WrapStoredRequest
<1>6. ledger' = ledger /\ queue' = Tail(queue) /\ credited' = credited /\ call' = call
    BY DEF WorkerTakeMinted, evm
<1> HIDE DEF q
<1>7. RecordStep(r) BY <1>1, <1>3, <1>5, KeptStep
<1> QED BY <1>1, <1>2, <1>6, <1>7, StampOne

\* The runs that end without a mint, and a deposit whose pull is refused.
LEMMA FailStamps ==
    ASSUME StampInv, NEW s \in Slot,
           PullFailed(s) \/ MetadataFailed(s) \/ DepositPullFailed(s)
    PROVE  StampInv'
<1>1. PICK r : r = call[s].req OBVIOUS
<1>2. r \in Req /\ Known(r) /\ req[r] \in WrapStoredRequest
    BY <1>1, CallKnown DEF PullFailed, MetadataFailed, DepositPullFailed, AtPhase
<1>3. ledger' = ledger /\ queue' = queue /\ credited' = credited
    BY DEF PullFailed, MetadataFailed, DepositPullFailed, EndOfRun, evm
<1>4. CASE PullFailed(s) \/ DepositPullFailed(s)
    <2> DEFINE q == [req[r] EXCEPT !.status = "Failed", !.recoverable = FALSE,
                                   !.updated_at = now]
    <2>1. Becomes(r, q) /\ Fills(s, NoCall) /\ TypeOK'
        BY <1>1, <1>4, PullFailedEffect, DepositPullFailedEffect DEF StampInv
    <2>2. q.status = "Failed" BY <1>2 DEF WrapStoredRequest
    <2>3. Keeps(q, req[r], Pulled(r)) BY <1>2, <2>2 DEF Keeps, WrapStoredRequest
    <2> HIDE DEF q
    <2>4. RecordStep(r) BY <1>2, <2>1, <2>3, KeptStep
    <2> QED BY <1>2, <1>3, <2>1, <2>4, StampFree
<1>5. CASE MetadataFailed(s)
    <2> DEFINE q == [req[r] EXCEPT !.status = "Failed", !.recoverable = TRUE,
                                   !.pulled = TRUE, !.updated_at = now]
    <2>1. Becomes(r, q) /\ Fills(s, NoCall) /\ TypeOK'
        BY <1>1, <1>5, MetadataFailedEffect DEF StampInv
    <2>2. q.status = "Failed" BY <1>2 DEF WrapStoredRequest
    <2>3. Pulled(r) BY <1>1, <1>5, CallKnown DEF MetadataFailed, AtPhase, CallOK
    <2>4. Keeps(q, req[r], Pulled(r)) BY <1>2, <2>2, <2>3 DEF Keeps, WrapStoredRequest
    <2> HIDE DEF q
    <2>5. RecordStep(r) BY <1>2, <2>1, <2>4, KeptStep
    <2> QED BY <1>2, <1>3, <2>1, <2>5, StampFree
<1> QED BY <1>4, <1>5

\* The answers to a mint submission keep the stamps.
LEMMA MintStamps ==
    ASSUME StampInv, NEW s \in Slot, NEW price \in Prices,
           MintAccepted(s, price) \/ MintSeen(s, price) \/ MintRefused(s, price)
    PROVE  StampInv'
<1>1. PICK r, m : r = call[s].req /\ m = MintOf(s, price) OBVIOUS
<1>2. AtPhase(s, "Metadata")
    BY DEF MintAccepted, MintSeen, MintRefused
<1>3. r \in Req /\ Known(r) /\ req[r] \in WrapStoredRequest /\ Pulled(r)
    BY <1>1, <1>2, CallKnown DEF AtPhase, CallOK
<1>4. ledger' = ledger /\ queue' = queue /\ credited' = credited
    BY DEF MintAccepted, MintSeen, MintRefused, EndOfRun, evm
<1>5. CASE MintAccepted(s, price) \/ MintSeen(s, price)
    <2>1. Becomes(r, MintStored(req[r], m)) /\ Fills(s, NoCall) /\ TypeOK'
        BY <1>1, <1>5, MintAcceptedEffect, MintSeenEffect DEF StampInv
    <2>2. MintStored(req[r], m).status = "Running"
        BY <1>3 DEF MintStored, WrapStoredRequest
    <2>3. Keeps(MintStored(req[r], m), req[r], Pulled(r))
        BY <1>3, <2>2 DEF Keeps, MintStored, WrapStoredRequest
    <2>4. RecordStep(r) BY <1>3, <2>1, <2>3, KeptStep
    <2> QED BY <1>3, <1>4, <2>1, <2>4, StampFree
<1>6. CASE MintRefused(s, price)
    <2>1. Becomes(r, RefusalStored(req[r], m)) /\ Fills(s, NoCall) /\ TypeOK'
        BY <1>1, <1>6, MintRefusedEffect DEF StampInv
    <2>2. RefusalStored(req[r], m).status = "Failed"
        BY <1>3 DEF RefusalStored, WrapStoredRequest
    <2>3. Keeps(RefusalStored(req[r], m), req[r], Pulled(r))
        BY <1>3, <2>2 DEF Keeps, RefusalStored, WrapStoredRequest
    <2>4. RecordStep(r) BY <1>3, <2>1, <2>3, KeptStep
    <2> QED BY <1>3, <1>4, <2>1, <2>4, StampFree
<1> QED BY <1>5, <1>6

\* The record says "pulled" after the ledger did.
LEMMA PullDoneStamps ==
    ASSUME StampInv, NEW s \in Slot, PullDone(s)
    PROVE  StampInv'
<1>1. PICK r : r = call[s].req OBVIOUS
<1>8. PICK c : Fills(s, c) /\ c # NoCall /\ c.req = r /\ c.phase = "Metadata"
    BY <1>1, PullDoneEffect DEF StampInv
<1> DEFINE q == [req[r] EXCEPT !.pulled = TRUE, !.updated_at = now]
<1>2. Becomes(r, q) /\ Fills(s, c) /\ TypeOK' /\ c.req = r /\ c.phase = "Metadata"
    BY <1>1, <1>8, PullDoneEffect DEF StampInv
<1>3. r \in Req /\ Known(r) /\ req[r] \in WrapStoredRequest /\ Pulled(r)
    BY <1>1, CallKnown DEF PullDone, AtPhase, CallOK
<1>4. Keeps(q, req[r], Pulled(r)) BY <1>3 DEF Keeps, WrapStoredRequest, Known
<1> HIDE DEF q
<1>5. RecordStep(r) /\ Known(r)' BY <1>2, <1>3, <1>4, KeptStep DEF RecordStep
<1>6. ledger' = ledger /\ queue' = queue /\ credited' = credited
    BY DEF PullDone, evm
<1>7. CallOK(call[s])'
    <2>1. call'[s] = c BY <1>2 DEF Fills
    <2>2. Pulled(r)' BY <1>3, <1>6 DEF Pulled
    <2> QED BY <1>2, <1>5, <2>1, <2>2 DEF CallOK
<1> QED BY <1>2, <1>5, <1>6, <1>7, StampFill

\* The answer to a refund keeps its stored time.
LEMMA RefundReplyStamps ==
    ASSUME StampInv, NEW s \in Slot, RefundReply(s)
    PROVE  StampInv'
<1>1. PICK r : r = call[s].req OBVIOUS
<1>2. PICK w \in BOOLEAN : Becomes(r, [req[r] EXCEPT !.withdrawing = FALSE, !.withdrawn = w,
                                                     !.updated_at = now])
    BY <1>1, RefundReplyEffect DEF StampInv
<1> DEFINE q == [req[r] EXCEPT !.withdrawing = FALSE, !.withdrawn = w, !.updated_at = now]
<1>3. Fills(s, NoCall) /\ TypeOK' /\ call[s] # NoCall
    BY <1>1, RefundReplyEffect DEF StampInv
<1>4. r \in Req /\ Known(r) /\ req[r] \in WrapStoredRequest
    BY <1>1, <1>3, CallKnown
<1>5. Keeps(q, req[r], Pulled(r)) BY <1>4 DEF Keeps, WrapStoredRequest, Known
<1>6. RecordStep(r) BY <1>2, <1>4, <1>5, KeptStep
<1>7. ledger' = ledger /\ queue' = queue /\ credited' = credited
    BY DEF RefundReply, evm
<1> HIDE DEF q
<1> QED BY <1>2, <1>3, <1>4, <1>6, <1>7, StampFree DEF q

\* A step that tries to credit a deposit whose tokens are in.
LEMMA CreditStamps ==
    ASSUME StampInv, TypeOK', NEW r \in Req, Known(r), NEW q, NEW p, Becomes(r, p),
           CreditTried(r, q, p), Keeps(q, req[r], Pulled(r)), q.deposit, Pulled(r),
           ledger' = ledger, queue' = queue,
           \A s \in Slot : call'[s] # NoCall => call'[s] = call[s]
    PROVE  StampInv'
<1>1. Keeps(p, req[r], Pulled(r))
    BY DEF CreditTried, Keeps
<1>2. RecordStep(r) BY <1>1, KeptStep
<1>3. credited' \subseteq credited \cup {r} BY DEF CreditTried
<1>4. req'[r].deposit /\ Pulled(r)'
    BY DEF Becomes, CreditTried, Pulled
<1> QED BY <1>2, <1>3, <1>4, StampOne

\* Resubmitting and retrying credit only what was pulled.
LEMMA DepositStamps ==
    ASSUME StampInv, NEW r \in Req,
           (\E s \in Slot : ResubmitDeposit(s, r)) \/ RetryDeposit(r)
    PROVE  StampInv'
<1>1. TypeOK' /\ \E p : Becomes(r, p) /\ CreditTried(r, req[r], p)
    BY ResubmitDepositEffect, RetryDepositEffect DEF StampInv
<1>2. PICK p : Becomes(r, p) /\ CreditTried(r, req[r], p)
    BY <1>1
<1>3. req[r].pulled
    BY DEF ResubmitDeposit, RetryDeposit, RetryAllowed
<1>4. Known(r) BY <1>3, BlankRecord
<1>5. req[r].deposit
    BY <1>4 DEF ResubmitDeposit, DepositOpen, RetryDeposit, RetryAllowed, Known
<1>6. Pulled(r) BY <1>3 DEF StampInv, RecordOK
<1>7. Keeps(req[r], req[r], Pulled(r)) BY <1>4 DEF Keeps, Known
<1>8. ledger' = ledger /\ queue' = queue /\ call' = call
    BY DEF ResubmitDeposit, DepositEnds, RetryDeposit
<1> QED BY <1>1, <1>2, <1>4, <1>5, <1>6, <1>7, <1>8, CreditStamps

\* A deposit is credited after its pull.
LEMMA DepositPulledStamps ==
    ASSUME StampInv, NEW s \in Slot, DepositPulled(s)
    PROVE  StampInv'
<1>1. PICK r : r = call[s].req OBVIOUS
<1> DEFINE q == [req[r] EXCEPT !.pulled = TRUE, !.updated_at = now]
<1>2. /\ Fills(s, NoCall) /\ TypeOK' /\ ledger' = ledger /\ queue' = queue
      /\ \E p : Becomes(r, p) /\ CreditTried(r, q, p)
    BY <1>1, DepositPulledEffect DEF StampInv
<1>3. PICK p : Becomes(r, p) /\ CreditTried(r, q, p) BY <1>2
<1>4. /\ r \in Req /\ Known(r) /\ req[r] \in WrapStoredRequest /\ Pulled(r)
      /\ req[r].deposit
    BY <1>1, CallKnown DEF DepositPulled, AtPhase, CallOK
<1>5. Keeps(q, req[r], Pulled(r)) /\ q.deposit
    BY <1>4 DEF Keeps, WrapStoredRequest, Known
<1>6. \A t \in Slot : call'[t] # NoCall => call'[t] = call[t]
    BY <1>2 DEF Fills
<1> HIDE DEF q
<1> QED BY <1>2, <1>3, <1>4, <1>5, <1>6, CreditStamps

\* A paid deposit sends its pull with the stored time.
LEMMA DepositFeeStamps ==
    ASSUME StampInv, NEW s \in Slot, DepositFeeCollected(s)
    PROVE  StampInv'
<1>1. PICK r, c : r = call[s].req /\ c = CallFor(r, "DepositPull", req[r].created_at)
    OBVIOUS
<1> DEFINE q == [req[r] EXCEPT !.fee = TRUE, !.updated_at = now]
<1>2. /\ TypeOK' /\ ledger' = ledger /\ queue' = queue
      /\ \/ /\ ~req[r].pulled /\ Becomes(r, q) /\ Fills(s, c) /\ credited' = credited
         \/ /\ req[r].pulled /\ Fills(s, NoCall)
            /\ \E p : Becomes(r, p) /\ CreditTried(r, q, p)
    BY <1>1, DepositFeeCollectedEffect DEF StampInv
<1>3. /\ r \in Req /\ Known(r) /\ req[r] \in WrapStoredRequest /\ RecordOK(r)
      /\ req[r].deposit
    BY <1>1, CallKnown DEF DepositFeeCollected, AtPhase
<1>4. Keeps(q, req[r], Pulled(r)) /\ q.deposit /\ q.created_at = req[r].created_at
    BY <1>3 DEF Keeps, WrapStoredRequest, Known
<1> HIDE DEF q
<1>5. CASE req[r].pulled
    <2>1. PICK p : Becomes(r, p) /\ CreditTried(r, q, p) BY <1>2, <1>5
    <2>2. \A t \in Slot : call'[t] # NoCall => call'[t] = call[t]
        BY <1>2, <1>5 DEF Fills
    <2>3. Pulled(r) BY <1>3, <1>5 DEF RecordOK
    <2> QED BY <1>2, <1>3, <1>4, <2>1, <2>2, <2>3, CreditStamps
<1>6. CASE ~req[r].pulled
    <2>1. Becomes(r, q) /\ Fills(s, c) /\ credited' = credited BY <1>2, <1>6
    <2>2. RecordStep(r) /\ Known(r)' BY <1>3, <1>4, <2>1, KeptStep DEF RecordStep
    <2>3. CallOK(call[s])'
        <3>1. call'[s] = c /\ req'[r] = q BY <2>1 DEF Fills, Becomes
        <3>2. c.req = r /\ c.phase = "DepositPull" /\ c.stamp = req[r].created_at
            BY <1>1, CallForFields
        <3> QED BY <1>4, <2>2, <3>1, <3>2 DEF CallOK
    <2> QED BY <1>2, <2>1, <2>2, <2>3, StampFill
<1> QED BY <1>5, <1>6

\* The ledger executes what the call carries, or what it executed before.
LEMMA LedgerStamps ==
    ASSUME StampInv, NEW s \in Slot, LedgerExecutes(s) \/ LedgerRefuses(s)
    PROVE  StampInv'
<1>1. PICK ok \in BOOLEAN : Answered(s, ok) /\ (ok <=> LedgerExecutes(s))
    BY DEF LedgerExecutes, LedgerRefuses
<1>2. InFlight(s) BY DEF LedgerExecutes, LedgerRefuses
<1>3. PICK d : Fills(s, d) /\ AnswerTo(call[s], d, ok)
    BY <1>1, <1>2, AnsweredEffect DEF StampInv
<1>4. PICK c : c = call[s] OBVIOUS
<1>5. c # NoCall /\ c.req \in Req /\ Known(c.req) /\ CallOK(c) /\ RecordOK(c.req)
    BY <1>2, <1>4, CallKnown DEF InFlight
<1>6. c.stamp \in 0..MaxTime /\ c \in Call
    BY <1>4, <1>5, SlotTypes DEF StampInv
<1>7. c.stamp \in 1..MaxTime
    <2>1. c.stamp # 0
        BY <1>3, <1>4, <1>5 DEF AnswerTo, CallOK, RecordOK
    <2> QED BY <1>6, <2>1, WrapAssumption
<1>8. /\ req' = req /\ pending' = pending /\ queue' = queue /\ scheduled' = scheduled
      /\ evm' = evm /\ now' = now /\ upgrades' = upgrades
    BY DEF LedgerExecutes, LedgerRefuses
<1> DEFINE x == [kind |-> KindOf(s), req |-> c.req, stamp |-> c.stamp]
<1>9. /\ x \in Transfer /\ x.req = c.req /\ x.stamp = c.stamp
      /\ x.kind = IF c.phase \in {"Refund", "LostRefund"} THEN "Refund" ELSE "Pull"
    BY <1>4, <1>5, <1>7 DEF Transfer, KindOf
<1>10. ledger' = IF ok THEN ledger \cup {x} ELSE ledger
    BY <1>1, <1>4 DEF LedgerExecutes, LedgerRefuses
<1>11. PICK y : y = x OBVIOUS
<1> HIDE DEF x
<1>12. ledger \subseteq ledger' /\ ledger' \subseteq ledger \cup {y}
    BY <1>10, <1>11
<1>13. TypeOK'
    <2>1. ledger' \subseteq Transfer BY <1>9, <1>11, <1>12 DEF StampInv, TypeOK
    <2> QED BY <1>3, <1>8, <2>1 DEF StampInv, TypeOK, Fills, evm
<1>14. \A r \in Req : RecordStep(r) BY <1>8, SameRecord
<1>15. ok => (x \in ledger' /\ (x.kind = "Pull" => Pulled(c.req)'))
    BY <1>9, <1>10 DEF Pulled
<1>16. \A r : Pulled(r) => Pulled(r)' BY <1>12 DEF Pulled
<1>17. Known(c.req)' BY <1>5, <1>8 DEF Known
<1>18. \A z \in ledger' : z \notin ledger => TransferOK(z)'
    <2>1. SUFFICES ASSUME y \in ledger', y \notin ledger PROVE TransferOK(y)'
        BY <1>12
    <2>2. y.req = c.req /\ y.stamp = c.stamp
          /\ y.kind = IF c.phase \in {"Refund", "LostRefund"} THEN "Refund" ELSE "Pull"
        BY <1>9, <1>11
    <2>3. CASE c.phase \in {"Refund", "LostRefund"}
        <3>1. y.kind = "Refund" BY <2>2, <2>3
        <3>2. c.stamp = req[c.req].withdraw_at /\ c.stamp # 0 /\ Pulled(c.req)
            BY <1>5, <2>3 DEF CallOK
        <3> QED BY <1>8, <1>16, <1>17, <2>2, <3>1, <3>2 DEF TransferOK
    <2>4. CASE c.phase \notin {"Refund", "LostRefund"}
        <3>1. y.kind = "Pull" BY <2>2, <2>4
        <3>2. c.stamp = req[c.req].created_at
            BY <1>3, <1>4, <1>5, <2>4 DEF CallOK, AnswerTo
        <3> QED BY <1>8, <1>17, <2>2, <3>1, <3>2 DEF TransferOK
    <2> QED BY <2>3, <2>4
<1>19. \A t \in Slot : call'[t] # NoCall /\ call'[t] # call[t] => CallOK(call[t])'
    <2>1. SUFFICES ASSUME d # NoCall PROVE CallOK(call[s])'
        BY <1>3 DEF Fills
    <2>2. call'[s] = d BY <1>3 DEF Fills
    <2>3. d.req = c.req BY <1>3, <1>4, <2>1 DEF AnswerTo
    <2>4. CASE c.phase = "Pull"
        <3>1. d.phase = IF ok THEN "PullOk" ELSE "PullErr"
            BY <1>3, <1>4, <2>1, <2>4 DEF AnswerTo
        <3>2. ok => Pulled(c.req)' BY <1>9, <1>15, <2>4
        <3> QED BY <1>17, <2>2, <2>3, <3>1, <3>2 DEF CallOK
    <2>5. CASE c.phase = "DepositPull"
        <3>1. d.phase = IF ok THEN "DepositPullOk" ELSE "DepositPullErr"
            BY <1>3, <1>4, <2>1, <2>5 DEF AnswerTo
        <3>2. ok => Pulled(c.req)' BY <1>9, <1>15, <2>5
        <3>3. req'[c.req].deposit BY <1>5, <1>8, <2>5 DEF CallOK
        <3> QED BY <1>17, <2>2, <2>3, <3>1, <3>2, <3>3 DEF CallOK
    <2>6. CASE c.phase = "Refund"
        <3>1. d.phase = IF ok THEN "RefundOk" ELSE "RefundErr"
            BY <1>3, <1>4, <2>1, <2>6 DEF AnswerTo
        <3> QED BY <1>17, <2>2, <2>3, <3>1 DEF CallOK
    <2> QED BY <1>3, <1>4, <2>1, <2>4, <2>5, <2>6 DEF AnswerTo
<1>20. credited' = credited BY <1>8 DEF evm
<1> QED BY <1>8, <1>12, <1>13, <1>14, <1>18, <1>19, <1>20, StampFrame

\* A block with the mint settles records and leaves the stamps.
LEMMA ExecutedStamps ==
    ASSUME StampInv, NEW outcome \in {"ok", "reverted"}, MintExecuted(outcome)
    PROVE  StampInv'
<1>1. /\ TypeOK'
      /\ \A r \in Req : SameFields(req'[r], req[r]) /\ SettledAs(r, receipt', req'[r])
    BY MintExecutedEffect DEF StampInv
<1>2. ASSUME NEW r \in Req PROVE RecordStep(r)
    <2>1. CASE Settles(r, receipt')
        <3>1. Known(r) /\ Known(r)' BY <1>1, <2>1 DEF Settles, SettledAs, Known
        <3> QED BY <1>1, <3>1, FieldsStep
    <2>2. CASE ~Settles(r, receipt')
        <3>1. req'[r] = req[r]
            BY <2>2 DEF MintExecuted, SettledBy, Settles
        <3> QED BY <3>1, SameRecord
    <2> QED BY <2>1, <2>2
<1>3. ledger' = ledger /\ queue' = queue /\ call' = call /\ credited' = credited
    BY DEF MintExecuted
<1> QED BY <1>1, <1>2, <1>3, StampFrame

\* The repair never stamps anew.
LEMMA RepairStamps ==
    ASSUME StampInv, Repair
    PROVE  StampInv'
<1>1. TypeOK' BY RepairEffect DEF StampInv
<1>2. PICK runs \in SUBSET Req : /\ \A r \in Req : Repaired(r, runs)
                                 /\ Members(queue') = Members(queue) \cup runs
    BY RepairEffect DEF StampInv
<1>3. ASSUME NEW r \in Req
      PROVE  RecordStep(r) /\ (r \in runs => Known(r)')
    <2>1. Repaired(r, runs) BY <1>2
    <2>2. SameFields(req'[r], req[r]) BY <2>1 DEF Repaired
    <2>3. CASE Known(r)
        <3>1. Known(r)'
            BY <2>1, <2>3 DEF Repaired, SettledAs, Known
        <3> QED BY <2>2, <2>3, <3>1, FieldsStep
    <2>4. CASE ~Known(r)
        <3>1. r \notin runs /\ ~Settles(r, receipt)
            BY <2>1, <2>4 DEF Repaired, Settles, Known
        <3>2. req'[r].status = "None"
            BY <2>1, <2>4, <3>1 DEF Repaired, SettledAs, Known
        <3>3. req'[r].pulled = req[r].pulled /\ req'[r].deposit = req[r].deposit
              /\ req'[r].created_at = req[r].created_at
            BY <2>2 DEF SameFields
        <3>4. req'[r] = req[r]
            <4>1. SettledBy(receipt)[r] = req[r]
                BY <3>1 DEF SettledBy, Settles
            <4>2. ~req[r].withdrawing
                <5>1. req[r] = Blank BY <2>4, BlankRecord
                <5> QED BY <5>1 DEF Blank
            <4>3. req[r].status # "Running" BY <2>4 DEF Known
            <4> QED BY <4>1, <4>2, <4>3 DEF Repair
        <3> QED BY <3>1, <3>4, SameRecord
    <2> QED BY <2>3, <2>4
<1>4. ledger' = ledger /\ call' = call /\ credited' = credited
    BY DEF Repair, evm
<1> QED BY <1>1, <1>2, <1>3, <1>4, StampFrame

\* Calls lost by an upgrade still carry the stored times.
LEMMA UpgradeStamps ==
    ASSUME StampInv, NEW enabled \in BOOLEAN, Upgrade(enabled)
    PROVE  StampInv'
<1>1. TypeOK' /\ \A s \in Slot : LostAs(call[s], call'[s])
    BY UpgradeEffect DEF StampInv
<1>2. PICK runs \in SUBSET Req : /\ \A r \in Req : Reloaded(r, runs)
                                 /\ Members(queue') = Members(queue) \cup runs
    BY UpgradeEffect DEF StampInv
<1>3. ASSUME NEW r \in Req
      PROVE  RecordStep(r) /\ (r \in runs => Known(r)')
    <2>1. Reloaded(r, runs) BY <1>2
    <2>2. CASE r \in runs
        <3>1. SameFields(req'[r], req[r]) /\ Known(r) /\ Known(r)'
            BY <2>1, <2>2 DEF Reloaded, Known
        <3> QED BY <3>1, FieldsStep
    <2>3. CASE r \notin runs
        BY <2>1, <2>3, SameRecord DEF Reloaded
    <2> QED BY <2>2, <2>3
<1>4. ledger' = ledger /\ credited' = credited
    BY DEF Upgrade, evm
<1>5. ASSUME NEW s \in Slot, call'[s] # NoCall PROVE CallOK(call[s])'
    <2>1. PICK c, d : c = call[s] /\ d = call'[s] OBVIOUS
    <2>2. /\ c # NoCall /\ d.req = c.req /\ d.stamp = c.stamp
          /\ c.phase \in {"Pull", "DepositPull", "Refund", "LostPull", "LostRefund"}
          /\ d.phase = IF c.phase \in {"Refund", "LostRefund"} THEN "LostRefund"
                       ELSE "LostPull"
        BY <1>1, <1>5, <2>1 DEF LostAs
    <2>3. CallOK(c) /\ c.req \in Req /\ Known(c.req)
        BY <2>1, <2>2, CallKnown
    <2>4. /\ Known(c.req)' /\ req'[c.req].created_at = req[c.req].created_at
          /\ c.stamp # 0 => (c.stamp = req[c.req].withdraw_at =>
                               c.stamp = req'[c.req].withdraw_at)
        BY <1>3, <2>3 DEF RecordStep
    <2>5. Pulled(c.req) => Pulled(c.req)' BY <1>4 DEF Pulled
    <2>6. CASE c.phase \in {"Refund", "LostRefund"}
        <3>1. d.phase = "LostRefund" BY <2>2, <2>6
        <3> QED BY <2>1, <2>2, <2>3, <2>4, <2>5, <2>6, <3>1 DEF CallOK
    <2>7. CASE c.phase \notin {"Refund", "LostRefund"}
        <3>1. d.phase = "LostPull" BY <2>2, <2>7
        <3> QED BY <2>1, <2>2, <2>3, <2>4, <2>7, <3>1 DEF CallOK
    <2> QED BY <2>6, <2>7
<1> QED BY <1>1, <1>2, <1>3, <1>4, <1>5, StampFrame

\* Time and a dropped mint touch no record.
LEMMA QuietStamps ==
    ASSUME StampInv, MintDropped \/ Advance \/ UNCHANGED vars
    PROVE  StampInv'
<1>1. /\ req' = req /\ ledger' = ledger /\ call' = call /\ queue' = queue
      /\ credited' = credited
    BY DEF MintDropped, Advance, vars, evm
<1>2. TypeOK'
    <2>1. CASE MintDropped BY <2>1 DEF MintDropped, StampInv, TypeOK
    <2>2. CASE Advance BY <2>2, WrapAssumption DEF Advance, StampInv, TypeOK, evm
    <2>3. CASE UNCHANGED vars BY <2>3 DEF vars, evm, StampInv, TypeOK
    <2> QED BY <2>1, <2>2, <2>3
<1>3. \A r \in Req : RecordStep(r) BY <1>1, SameRecord
<1> QED BY <1>1, <1>2, <1>3, StampFrame

\* Every step keeps the stamps.
LEMMA StampStep ==
    ASSUME StampInv, [Next]_vars
    PROVE  StampInv'
<1>1. ASSUME NEW s \in Slot, NEW r \in Req,
             \/ Submit(s, r) \/ Recover(s, r) \/ SubmitDeposit(s, r)
             \/ ResubmitDeposit(s, r)
      PROVE  StampInv'
    BY <1>1, SubmitStamps, RecoverStamps, SubmitDepositStamps, DepositStamps
<1>2. ASSUME NEW r \in Req, RetryDeposit(r) PROVE StampInv'
    BY <1>2, DepositStamps
<1>3. ASSUME NEW s \in Slot,
             \/ FeeCollected(s) \/ FeeRefused(s) \/ WorkerTake(s) \/ PullDone(s)
             \/ PullFailed(s) \/ MetadataFailed(s) \/ RefundReply(s)
             \/ DepositFeeCollected(s) \/ DepositPulled(s) \/ DepositPullFailed(s)
             \/ LedgerExecutes(s) \/ LedgerRefuses(s)
      PROVE  StampInv'
    BY <1>3, FeeStamps, TakeStamps, PullDoneStamps, FailStamps, RefundReplyStamps,
       DepositFeeStamps, DepositPulledStamps, LedgerStamps
<1>4. ASSUME NEW s \in Slot, NEW price \in Prices,
             MintAccepted(s, price) \/ MintSeen(s, price) \/ MintRefused(s, price)
      PROVE  StampInv'
    BY <1>4, MintStamps
<1>5. ASSUME NEW outcome \in {"ok", "reverted"}, MintExecuted(outcome) PROVE StampInv'
    BY <1>5, ExecutedStamps
<1>6. ASSUME NEW enabled \in BOOLEAN, Upgrade(enabled) PROVE StampInv'
    BY <1>6, UpgradeStamps
<1> QED BY <1>1, <1>2, <1>3, <1>4, <1>5, <1>6, TakeMintedStamps, RepairStamps,
           QuietStamps DEF Next

\* The stamps hold in every reachable state, whatever the order of replies,
\* repairs and upgrades.
THEOREM StampsAlwaysHold == Spec => []StampInv
<1>1. Init => StampInv BY StampInit
<1>2. StampInv /\ [Next]_vars => StampInv' BY StampStep
<1> QED BY <1>1, <1>2, PTL DEF Spec

\* execute_wrap_request, submit_native_deposit and recover_failed_wrap repeat a
\* transfer after a lost reply, a repair or an upgrade, and always with the
\* stored pull_created_at_time or withdraw_created_at_time: the ledger
\* executes at most one pull and one refund for each request.
THEOREM AlwaysTransferredOnce == Spec => []TransferredOnce
<1>1. StampInv => TransferredOnce
    <2> SUFFICES ASSUME StampInv, NEW x \in ledger, NEW y \in ledger,
                        x.kind = y.kind, x.req = y.req
                 PROVE  x = y
        BY DEF TransferredOnce
    <2>1. x \in Transfer /\ y \in Transfer BY DEF StampInv, TypeOK
    <2>2. x.kind \in {"Pull", "Refund"} BY <2>1 DEF Transfer
    <2>3. x.stamp = y.stamp BY <2>2 DEF StampInv, TransferOK
    <2> QED BY <2>1, <2>3 DEF Transfer
<1> QED BY <1>1, StampsAlwaysHold, PTL

\* recover_failed_wrap refunds, and credit_native_deposit credits, only what
\* the ledger pulled for the same request before, and a credited deposit is
\* never refunded, also when the repair made the wrap worker run it.
THEOREM AlwaysPaidOutIsPulled == Spec => []PaidOutIsPulled
<1>1. StampInv => PaidOutIsPulled
    <2> SUFFICES ASSUME StampInv PROVE PaidOutIsPulled
        OBVIOUS
    <2>1. RefundFollowsPull
        BY DEF StampInv, TransferOK, RefundFollowsPull, Pulled
    <2>2. ASSUME NEW r \in credited, NEW x \in ledger, x.kind = "Refund"
          PROVE  x.req # r
        <3>1. r \in Req /\ req[r].deposit BY DEF StampInv, TypeOK
        <3>2. req[r].withdraw_at = 0 BY <3>1 DEF StampInv, RecordOK
        <3>3. x.stamp = req[x.req].withdraw_at /\ x.stamp # 0
            BY <2>2 DEF StampInv, TransferOK
        <3> QED BY <3>2, <3>3
    <2>3. CreditsAreBacked
        BY <2>2 DEF StampInv, CreditsAreBacked, Pulled
    <2> QED BY <2>1, <2>3 DEF PaidOutIsPulled
<1> QED BY <1>1, StampsAlwaysHold, PTL

-----------------------------------------------------------------------------
(* The runs of wrap requests and native deposits, under the two conditions *)
(* that the code relies on and does not enforce: a call is answered before *)
(* its request counts as stale (repair_stale_operations takes a stale      *)
(* Running request for a lost one), and no two requests carry the same     *)
(* mint (the chain tells mints apart by their contents).  Then a request   *)
(* is in one place at a time, mints at most once, and what was minted, may *)
(* still be minted or was refunded is backed by a pull.                    *)

Work == {"Pull", "PullOk", "PullErr", "Metadata"}
Own == {"Fee", "DepositPull", "DepositPullOk", "DepositPullErr"}
Places == Work \cup Own \cup {"queue", "idle"}

\* A waiting call holds request r: the worker's run or the submission of r.
HoldsIn(c, r) == c # NoCall /\ c.req = r /\ c.phase \in Work \cup Own
InQueue(r) == r \in Members(queue)

\* Request r is in one place: at most one call holds it, and then it is not in
\* the queue.
Where(r, w) ==
    \/ w = "idle" /\ ~InQueue(r) /\ \A s \in Slot : ~HoldsIn(call[s], r)
    \/ w = "queue" /\ InQueue(r) /\ \A s \in Slot : ~HoldsIn(call[s], r)
    \/ /\ w \in Work \cup Own /\ ~InQueue(r)
       /\ \E s \in Slot : /\ HoldsIn(call[s], r) /\ call[s].phase = w
                          /\ \A t \in Slot : t # s => ~HoldsIn(call[t], r)

\* Nothing was minted, refunded or offered for a refund.
Open(q) == q.mint = NoMint /\ q.submit # "Submitted" /\ ~q.recoverable /\ q.withdraw_at = 0

\* A run works on an open Running record that is not stale, and pulls once.
RunOK(q, w, pend) ==
    /\ w \in Work => q.status = "Running"
    /\ w \in {"Pull", "PullOk", "PullErr"} => ~q.pulled
    /\ w \in Work \cup Own /\ q.status = "Running" => now < q.updated_at + StaleAfter
    /\ w \in Own => pend
    /\ w = "Fee" => ~q.fee
    /\ w \in Own \ {"Fee"} => q.fee
    /\ w \in Work \cup {"queue"} => Open(q)
    /\ q.status = "Queued" => Open(q)
    /\ q.status = "Running" => ~q.recoverable

\* A wrap is worked on without a fee only while its submission is reserved;
\* one that is Running has a submitted mint or a run.
WrapOK(q, w, pend) ==
    ~q.deposit =>
        /\ q.status # "None" /\ ~q.fee /\ ~pend =>
              w = "idle" /\ Open(q) /\ q.status = "Failed"
        /\ w \in Own => Open(q)
        /\ q.status = "Running" =>
              \/ q.submit = "Submitted" /\ q.mint # NoMint
              \/ w \in Work

\* A deposit is worked on only after an upgrade lost its submission.
DepositOK(q, w, pend, cred) ==
    q.deposit =>
        /\ ~pend => w = "idle" /\ q.status \in {"Failed", "Succeeded"}
        /\ ~pend /\ q.pulled => q.fee
        /\ w \in Own => ~q.pulled
        /\ q.status = "Queued" => w = "queue"
        /\ q.status = "Succeeded" => cred
        /\ ~cred => q.mint = NoMint /\ q.submit # "Submitted"
        /\ pend /\ q.pulled /\ ~cred /\ q.status = "Failed" => q.recoverable

\* The mint of a wrap is its own, and its receipt decides how it ends.
MintOK(r, q) ==
    ~q.deposit =>
        /\ q.mint # Credit
        /\ q.mint # NoMint =>
              /\ q.mint \in seen
              /\ q.mint.payload = PayloadOf[r]
              /\ q.submit = "Submitted"
              /\ q.pulled
              /\ q.status \in {"Running", "Succeeded", "Failed"}
        /\ q.status = "Succeeded" => q.mint # NoMint /\ receipt[q.mint] = "ok"
        /\ q.mint # NoMint /\ (q.status = "Failed" \/ q.withdraw_at # 0) =>
              receipt[q.mint] = "reverted"

View(r, q, w) ==
    /\ RunOK(q, w, r \in pending)
    /\ WrapOK(q, w, r \in pending)
    /\ DepositOK(q, w, r \in pending, r \in credited)
    /\ MintOK(r, q)

RequestOK(r) == \E w \in Places : Where(r, w) /\ View(r, req[r], w)

Unique(q) == \A i, j \in 1..Len(q) : q[i] = q[j] => i = j

\* Every mint belongs to a wrap, and the pending one has no receipt yet.
ChainOK ==
    /\ \A m \in seen : \E r \in Req : ~req[r].deposit /\ req[r].mint = m
    /\ pool # NoMint => pool \in seen /\ receipt[pool] = "none"

RunInv == Unique(queue) /\ ChainOK /\ \A r \in Req : RequestOK(r)

\* What this part assumes.
Timely == ~LateReplies
OwnMints == \A r, x \in Req : PayloadOf[r] = PayloadOf[x] => r = x

-----------------------------------------------------------------------------
(* The queue holds a request at most once.                                 *)

\* enqueue_wrap_request_if_needed appends only what is not in the queue.
LEMMA EnqueuedUnique ==
    ASSUME NEW q \in Seq(Req), NEW r \in Req, Unique(q)
    PROVE  Unique(Enqueued(q, r))
<1>1. CASE r \in Members(q) BY <1>1 DEF Enqueued
<1>2. CASE r \notin Members(q)
    <2> DEFINE p == Append(q, r)
    <2>1. Enqueued(q, r) = p BY <1>2 DEF Enqueued
    <2>2. Len(p) = Len(q) + 1 /\ Len(q) \in Nat /\ p[Len(q) + 1] = r
        OBVIOUS
    <2>3. \A i \in 1..Len(q) : p[i] = q[i] OBVIOUS
    <2>4. \A i \in 1..Len(q) : q[i] # r BY <1>2 DEF Members
    <2> HIDE DEF p
    <2>5. \A i \in 1..Len(p) : i \in 1..Len(q) \/ i = Len(q) + 1
        BY <2>2
    <2> QED BY <2>1, <2>2, <2>3, <2>4, <2>5 DEF Unique
<1> QED BY <1>1, <1>2

\* What the worker takes is not in the rest of the queue.
LEMMA TailUnique ==
    ASSUME NEW q \in Seq(Req), q # <<>>, Unique(q)
    PROVE  /\ Unique(Tail(q))
           /\ Head(q) \notin Members(Tail(q))
           /\ \A r : r # Head(q) => (r \in Members(Tail(q)) <=> r \in Members(q))
<1>1. /\ Len(q) \in Nat /\ Len(Tail(q)) = Len(q) - 1
      /\ \A i \in 1..(Len(q) - 1) : Tail(q)[i] = q[i + 1]
      /\ Members(q) = {Head(q)} \cup Members(Tail(q))
    BY HeadMember
<1>2. Head(q) = q[1] /\ Len(q) > 0 OBVIOUS
<1>3. Unique(Tail(q))
    <2>1. ASSUME NEW i \in 1..Len(Tail(q)), NEW j \in 1..Len(Tail(q)), Tail(q)[i] = Tail(q)[j]
          PROVE  i = j
        <3>1. i + 1 \in 1..Len(q) /\ j + 1 \in 1..Len(q) BY <1>1
        <3>2. q[i + 1] = q[j + 1] BY <1>1, <2>1
        <3>3. i + 1 = j + 1 BY <3>1, <3>2 DEF Unique
        <3> QED BY <3>3
    <2> QED BY <2>1 DEF Unique
<1>4. Head(q) \notin Members(Tail(q))
    <2>1. ASSUME NEW i \in 1..Len(Tail(q)), Tail(q)[i] = Head(q) PROVE FALSE
        <3>1. i + 1 \in 1..Len(q) /\ 1 \in 1..Len(q) /\ i + 1 # 1 BY <1>1, <1>2
        <3>2. q[i + 1] = q[1] BY <1>1, <1>2, <2>1
        <3> QED BY <3>1, <3>2 DEF Unique
    <2> QED BY <2>1 DEF Members
<1> QED BY <1>1, <1>3, <1>4

\* The ids pushed again are different and were not in the queue.
LEMMA ConcatUnique ==
    ASSUME NEW q \in Seq(Req), NEW S \in SUBSET Req, NEW p \in Orders(S),
           Unique(q), S \cap Members(q) = {}
    PROVE  Unique(q \o p)
<1>1. /\ p \in Seq(Req) /\ Len(p) = Cardinality(S) /\ Cardinality(S) \in Nat
      /\ Len(q) \in Nat /\ Len(q \o p) = Len(q) + Len(p)
      /\ \A i \in 1..Len(q) : (q \o p)[i] = q[i]
      /\ \A i \in 1..Len(p) : (q \o p)[Len(q) + i] = p[i]
      /\ Members(p) = S
    BY ConcatMembers
<1>2. Unique(p)
    <2> DEFINE n == Cardinality(S)
    <2>1. p \in Surjection(1..n, S) BY DEF Orders, Surjection
    <2>2. IsFiniteSet(1..n) /\ Cardinality(1..n) = n
        BY <1>1, FS_Interval
    <2>3. p \in Injection(1..n, S)
        BY <2>1, <2>2, FS_SurjSameCardinalityImpliesInj
    <2> QED BY <1>1, <2>3 DEF Unique, Injection, IsInjective
<1>3. \A i \in 1..Len(q), j \in 1..Len(p) : q[i] # p[j]
    BY <1>1 DEF Members
<1> DEFINE u == q \o p
<1>4. \A i \in 1..Len(u) : \/ i \in 1..Len(q) /\ u[i] = q[i]
                           \/ i - Len(q) \in 1..Len(p) /\ u[i] = p[i - Len(q)]
    <2> TAKE i \in 1..Len(u)
    <2>1. CASE i \in 1..Len(q) BY <1>1, <2>1
    <2>2. CASE i \notin 1..Len(q)
        <3>1. i - Len(q) \in 1..Len(p) /\ Len(q) + (i - Len(q)) = i BY <1>1, <2>2
        <3> QED BY <1>1, <3>1
    <2> QED BY <2>1, <2>2
<1> HIDE DEF u
<1>5. ASSUME NEW i \in 1..Len(u), NEW j \in 1..Len(u), u[i] = u[j] PROVE i = j
    <2>1. Len(q) \in Int /\ i \in Int /\ j \in Int BY <1>1
    <2>2. CASE i \in 1..Len(q) /\ u[i] = q[i]
        <3>1. j \in 1..Len(q) /\ u[j] = q[j] BY <1>3, <1>4, <1>5, <2>2
        <3> QED BY <1>5, <2>2, <3>1 DEF Unique
    <2>3. CASE i - Len(q) \in 1..Len(p) /\ u[i] = p[i - Len(q)]
        <3>1. j - Len(q) \in 1..Len(p) /\ u[j] = p[j - Len(q)] BY <1>3, <1>4, <1>5, <2>3
        <3>2. i - Len(q) = j - Len(q) BY <1>5, <2>3, <3>1, <1>2 DEF Unique
        <3> QED BY <2>1, <3>2
    <2> QED BY <1>4, <2>2, <2>3
<1> QED BY <1>5 DEF Unique, u

\* The repair and the upgrade push an id once.
LEMMA RequeueUnique ==
    ASSUME TypeOK, Unique(queue), NEW runs \in SUBSET Req,
           NEW p \in Orders(ToRequeue(runs)), queue' = queue \o p
    PROVE  Unique(queue')
<1>1. ToRequeue(runs) \in SUBSET Req /\ ToRequeue(runs) \cap Members(queue) = {}
    BY DEF ToRequeue
<1>2. queue \in Seq(Req) BY DEF TypeOK
<1> QED BY <1>1, <1>2, ConcatUnique

-----------------------------------------------------------------------------
(* Where a request is, before and after a step.                            *)

\* A request that a call holds is nowhere else.
LEMMA WhereHeld ==
    ASSUME NEW r, NEW w, Where(r, w), NEW s \in Slot, HoldsIn(call[s], r)
    PROVE  /\ w = call[s].phase /\ w \in Work \cup Own /\ ~InQueue(r)
           /\ \A t \in Slot : t # s => ~HoldsIn(call[t], r)
<1>1. PICK u \in Slot : /\ HoldsIn(call[u], r) /\ call[u].phase = w
                        /\ \A t \in Slot : t # u => ~HoldsIn(call[t], r)
    BY DEF Where
<1>2. u = s BY <1>1
<1> QED BY <1>1, <1>2 DEF Where, HoldsIn, Work, Own

\* A queued request is held by no call.
LEMMA WhereQueued ==
    ASSUME NEW r, NEW w, Where(r, w), InQueue(r)
    PROVE  w = "queue" /\ \A s \in Slot : ~HoldsIn(call[s], r)
BY DEF Where

\* A request in neither queue nor slot.
LEMMA WhereIdle ==
    ASSUME NEW r, NEW w, Where(r, w), w \notin Work \cup Own \cup {"queue"}
    PROVE  w = "idle" /\ ~InQueue(r) /\ \A s \in Slot : ~HoldsIn(call[s], r)
BY DEF Where

\* The place that is left when no call holds the request.
LEMMA WhereLoose ==
    ASSUME NEW r, \A s \in Slot : ~HoldsIn(call'[s], r),
           NEW w, w = IF r \in Members(queue') THEN "queue" ELSE "idle"
    PROVE  Where(r, w)'
<1>1. InQueue(r)' <=> r \in Members(queue') BY DEF InQueue, Members
<1>2. (\A s \in Slot : ~HoldsIn(call[s], r))' BY DEF HoldsIn
<1> QED BY <1>1, <1>2 DEF Where

\* When the holding call ends, the request is in the queue or idle.
LEMMA WhereFreed ==
    ASSUME NEW r, NEW w, Where(r, w), NEW s \in Slot, HoldsIn(call[s], r),
           Fills(s, NoCall), NEW v, v = IF r \in Members(queue') THEN "queue" ELSE "idle"
    PROVE  Where(r, v)'
<1>1. \A t \in Slot : ~HoldsIn(call'[t], r)
    BY WhereHeld DEF Fills, HoldsIn
<1> QED BY <1>1, WhereLoose

\* A new call is the one place of its request.
LEMMA WhereFilled ==
    ASSUME NEW r, NEW s \in Slot, NEW c, Fills(s, c), HoldsIn(c, r),
           \A t \in Slot : t # s => ~HoldsIn(call[t], r),
           r \notin Members(queue')
    PROVE  Where(r, c.phase)'
<1>1. ~InQueue(r)' BY DEF InQueue, Members
<1>2. call'[s] = c /\ \A t \in Slot : t # s => call'[t] = call[t] BY DEF Fills
<1>3. HoldsIn(call[s], r)' /\ call'[s].phase = c.phase
    BY <1>2 DEF HoldsIn
<1>4. (\A t \in Slot : t # s => ~HoldsIn(call[t], r))'
    BY <1>2 DEF HoldsIn
<1>5. c.phase \in Work \cup Own BY DEF HoldsIn
<1> QED BY <1>1, <1>3, <1>4, <1>5 DEF Where

\* A request keeps its place if its queue membership and calls stay.
LEMMA WhereKept ==
    ASSUME NEW r, NEW w, Where(r, w), r \in Members(queue') <=> r \in Members(queue),
           \A t \in Slot : HoldsIn(call[t], r) \/ HoldsIn(call'[t], r) => call'[t] = call[t]
    PROVE  Where(r, w)'
<1>1. InQueue(r)' <=> InQueue(r) BY DEF InQueue, Members
<1>2. \A t \in Slot : /\ HoldsIn(call'[t], r) <=> HoldsIn(call[t], r)
                      /\ HoldsIn(call[t], r) => call'[t] = call[t]
    OBVIOUS
<1>3. CASE w = "idle"
    <2>1. ~InQueue(r) /\ \A s \in Slot : ~HoldsIn(call[s], r)
        BY <1>3 DEF Where, Work, Own
    <2> QED BY <1>1, <1>2, <1>3, <2>1 DEF Where, HoldsIn
<1>4. CASE w = "queue"
    <2>1. InQueue(r) /\ \A s \in Slot : ~HoldsIn(call[s], r)
        BY <1>4 DEF Where, Work, Own
    <2> QED BY <1>1, <1>2, <1>4, <2>1 DEF Where, HoldsIn
<1>5. CASE w \in Work \cup Own
    <2>1. PICK s \in Slot : /\ HoldsIn(call[s], r) /\ call[s].phase = w
                            /\ \A t \in Slot : t # s => ~HoldsIn(call[t], r)
        BY <1>5 DEF Where, Work, Own
    <2>2. ~InQueue(r) BY <1>5 DEF Where, Work, Own
    <2>3. call'[s] = call[s] /\ \A t \in Slot : t # s => ~HoldsIn(call'[t], r)
        BY <1>2, <2>1
    <2> QED BY <1>1, <1>5, <2>1, <2>2, <2>3 DEF Where, HoldsIn
<1> QED BY <1>3, <1>4, <1>5 DEF Where

\* What else of the state a request's view depends on.
Kept(x) ==
    /\ req'[x] = req[x]
    /\ x \in pending' <=> x \in pending
    /\ x \in credited' <=> x \in credited
    /\ x \in Members(queue') <=> x \in Members(queue)
    /\ \A t \in Slot : HoldsIn(call[t], x) \/ HoldsIn(call'[t], x) => call'[t] = call[t]

ChainKept ==
    /\ now' = now
    /\ seen \subseteq seen'
    /\ \A m \in seen : receipt'[m] = receipt[m]

\* A record that stays keeps what it says.
LEMMA ViewKept ==
    ASSUME NEW x, NEW w, View(x, req[x], w), ChainKept, req'[x] = req[x],
           x \in pending' <=> x \in pending, x \in credited' <=> x \in credited
    PROVE  View(x, req[x], w)'
<1>1. RunOK(req[x], w, x \in pending)'
    BY DEF View, RunOK, Open, ChainKept
<1>2. WrapOK(req[x], w, x \in pending)'
    BY DEF View, WrapOK, Open
<1>3. DepositOK(req[x], w, x \in pending, x \in credited)'
    BY DEF View, DepositOK
<1>4. MintOK(x, req[x])'
    BY DEF View, MintOK, ChainKept
<1> QED BY <1>1, <1>2, <1>3, <1>4 DEF View

\* A step of other requests does not disturb a request.
LEMMA RequestKept ==
    ASSUME NEW x, RequestOK(x), Kept(x), ChainKept
    PROVE  RequestOK(x)'
<1>1. PICK w \in Places : Where(x, w) /\ View(x, req[x], w) BY DEF RequestOK
<1>2. Where(x, w)' BY <1>1, WhereKept DEF Kept
<1>3. View(x, req[x], w)' BY <1>1, ViewKept DEF Kept
<1> QED BY <1>2, <1>3 DEF RequestOK

\* A slot that holds no request but r, if any.
ForOnly(c, r) == \A x : x # r => ~HoldsIn(c, x)

\* A free slot, an own call or a lost call holds no other request.
LEMMA ForOnlyOwn ==
    ASSUME NEW c, NEW r, c = NoCall \/ c.req = r \/ c.phase \notin Work \cup Own
    PROVE  ForOnly(c, r)
BY DEF ForOnly, HoldsIn

\* Where requests other than r are is left alone.
OthersStay(r) ==
    \A x \in Req : x # r => /\ x \in pending' <=> x \in pending
                            /\ x \in credited' <=> x \in credited
                            /\ x \in Members(queue') <=> x \in Members(queue)

\* A step on one record and one slot that submits no mint.
LEMMA RunOne ==
    ASSUME RunInv, NEW r \in Req, NEW q, Becomes(r, q), RequestOK(r)',
           \E s \in Slot : \E c : Fills(s, c) /\ ForOnly(call[s], r) /\ ForOnly(c, r),
           OthersStay(r), Unique(queue'), ChainKept, seen' = seen, pool' = pool,
           req[r].mint \in seen /\ ~req[r].deposit =>
              ~q.deposit /\ q.mint = req[r].mint
    PROVE  RunInv'
<1>1. ASSUME NEW x \in Req, x # r PROVE RequestOK(x)'
    <2>1. req'[x] = req[x] BY <1>1 DEF Becomes
    <2>s. PICK s \in Slot : \E c : Fills(s, c) /\ ForOnly(call[s], r) /\ ForOnly(c, r)
        OBVIOUS
    <2>2. PICK c : Fills(s, c) /\ ForOnly(call[s], r) /\ ForOnly(c, r)
        BY <2>s
    <2>3. \A t \in Slot : HoldsIn(call[t], x) \/ HoldsIn(call'[t], x) => call'[t] = call[t]
        BY <1>1, <2>2 DEF Fills, ForOnly
    <2>4. Kept(x) BY <1>1, <2>1, <2>3 DEF Kept, OthersStay
    <2> QED BY <2>4, RequestKept DEF RunInv
<1>2. ChainOK'
    <2>1. ASSUME NEW m \in seen PROVE \E x \in Req : ~req'[x].deposit /\ req'[x].mint = m
        <3>1. PICK x \in Req : ~req[x].deposit /\ req[x].mint = m BY DEF RunInv, ChainOK
        <3>2. CASE x = r BY <3>1, <3>2 DEF Becomes
        <3>3. CASE x # r BY <3>1, <3>3 DEF Becomes
        <3> QED BY <3>2, <3>3
    <2>2. pool' # NoMint => pool' \in seen' /\ receipt'[pool'] = "none"
        BY DEF RunInv, ChainOK, ChainKept
    <2> QED BY <2>1, <2>2 DEF ChainOK
<1>3. Unique(queue)' BY DEF Unique
<1> QED BY <1>1, <1>2, <1>3 DEF RunInv

\* The request of a held slot, and its view.
LEMMA HeldView ==
    ASSUME StampInv, RunInv, NEW s \in Slot, call[s] # NoCall,
           call[s].phase \in Work \cup Own, NEW r, r = call[s].req
    PROVE  /\ r \in Req /\ req[r] \in WrapStoredRequest /\ Known(r)
           /\ HoldsIn(call[s], r) /\ Where(r, call[s].phase)
           /\ View(r, req[r], call[s].phase)
           /\ ~InQueue(r) /\ r \notin Members(queue)
           /\ \A t \in Slot : t # s => ~HoldsIn(call[t], r)
<1>1. r \in Req /\ Known(r) /\ req[r] \in WrapStoredRequest
    BY CallKnown
<1>2. HoldsIn(call[s], r) BY DEF HoldsIn
<1>3. PICK w \in Places : Where(r, w) /\ View(r, req[r], w)
    BY <1>1 DEF RunInv, RequestOK
<1>4. /\ w = call[s].phase /\ ~InQueue(r)
      /\ \A t \in Slot : t # s => ~HoldsIn(call[t], r)
    BY <1>2, <1>3, WhereHeld
<1> QED BY <1>1, <1>2, <1>3, <1>4 DEF InQueue

\* The fee of a wrap is in: it moves from its submission to the queue.
LEMMA FeeCollectedRun ==
    ASSUME StampInv, RunInv, NEW s \in Slot, FeeCollected(s)
    PROVE  RunInv'
<1>1. PICK r : r = call[s].req OBVIOUS
<1>2. call[s] # NoCall /\ call[s].phase = "Fee" /\ ~req[r].deposit
    BY <1>1 DEF FeeCollected, AtPhase
<1>3. /\ r \in Req /\ req[r] \in WrapStoredRequest /\ Known(r)
      /\ Where(r, "Fee") /\ View(r, req[r], "Fee") /\ HoldsIn(call[s], r)
    BY <1>1, <1>2, HeldView DEF Own
<1> DEFINE q == [req[r] EXCEPT !.fee = TRUE, !.updated_at = now]
<1>4. Becomes(r, q) /\ Fills(s, NoCall) /\ TypeOK'
    BY <1>1, FeeCollectedEffect DEF StampInv
<1>5. /\ req'[r].status = req[r].status /\ req'[r].deposit = req[r].deposit
      /\ req'[r].fee = TRUE /\ req'[r].pulled = req[r].pulled
      /\ req'[r].mint = req[r].mint /\ req'[r].submit = req[r].submit
      /\ req'[r].recoverable = req[r].recoverable
      /\ req'[r].withdraw_at = req[r].withdraw_at
      /\ req'[r].updated_at = now
    BY <1>3, <1>4 DEF Becomes, WrapStoredRequest
<1>6. /\ pending' = pending \ {r} /\ queue' = Enqueued(queue, r) /\ pool' = pool
      /\ now' = now /\ seen' = seen /\ receipt' = receipt /\ credited' = credited
    BY <1>1 DEF FeeCollected, evm
<1>7. Members(queue') = Members(queue) \cup {r} /\ Unique(queue')
    BY <1>3, <1>6, EnqueuedMembers, EnqueuedUnique DEF StampInv, TypeOK, RunInv
<1>8. Where(r, "queue")'
    BY <1>3, <1>4, <1>7, WhereFreed
<1> HIDE DEF q
<1>9. View(r, req[r], "queue")'
    <2>1. Open(req[r]) /\ req[r].status # "Running" /\ req[r].status # "Succeeded"
        BY <1>2, <1>3 DEF View, WrapOK, MintOK, Open, Own, Work
    <2>2. RunOK(req[r], "queue", r \in pending)'
        BY <1>5, <2>1 DEF RunOK, Open, Own, Work
    <2>3. WrapOK(req[r], "queue", r \in pending)'
        BY <1>5, <2>1 DEF WrapOK, Open, Own, Work
    <2>4. DepositOK(req[r], "queue", r \in pending, r \in credited)'
        BY <1>2, <1>5 DEF DepositOK
    <2>5. MintOK(r, req[r])'
        BY <1>2, <1>3, <1>5, <1>6, <2>1 DEF View, MintOK, Open
    <2> QED BY <2>2, <2>3, <2>4, <2>5 DEF View
<1>10. RequestOK(r)' BY <1>8, <1>9 DEF RequestOK, Places
<1>11. OthersStay(r) BY <1>6, <1>7 DEF OthersStay
<1>12. ForOnly(call[s], r) /\ ForOnly(NoCall, r)
    BY <1>1, ForOnlyOwn
<1>13. ChainKept BY <1>6 DEF ChainKept
<1>14. q.deposit = req[r].deposit /\ q.mint = req[r].mint
    BY <1>4, <1>5 DEF Becomes
<1> QED BY <1>3, <1>4, <1>6, <1>7, <1>10, <1>11, <1>12, <1>13, <1>14, RunOne

\* The fee is refused: the submission ends.
LEMMA FeeRefusedRun ==
    ASSUME StampInv, RunInv, NEW s \in Slot, FeeRefused(s)
    PROVE  RunInv'
<1>1. PICK r : r = call[s].req OBVIOUS
<1>2. call[s] # NoCall /\ call[s].phase = "Fee"
    BY <1>1 DEF FeeRefused, AtPhase
<1>3. /\ r \in Req /\ req[r] \in WrapStoredRequest /\ Known(r)
      /\ Where(r, "Fee") /\ View(r, req[r], "Fee") /\ HoldsIn(call[s], r)
      /\ r \notin Members(queue)
    BY <1>1, <1>2, HeldView DEF Work, Own
<1> DEFINE q == [req[r] EXCEPT !.status = "Failed", !.recoverable = FALSE, !.updated_at = now]
<1>4. Becomes(r, q) /\ Fills(s, NoCall) /\ TypeOK'
    BY <1>1, FeeRefusedEffect DEF StampInv
<1>5. /\ req'[r].status = "Failed" /\ req'[r].deposit = req[r].deposit
      /\ req'[r].fee = req[r].fee /\ req'[r].pulled = req[r].pulled
      /\ req'[r].mint = req[r].mint /\ req'[r].submit = req[r].submit
      /\ req'[r].recoverable = FALSE /\ req'[r].withdraw_at = req[r].withdraw_at
      /\ req'[r].updated_at = now
    BY <1>3, <1>4 DEF Becomes, WrapStoredRequest
<1>6. /\ pending' = pending \ {r} /\ queue' = queue /\ pool' = pool
      /\ now' = now /\ seen' = seen /\ receipt' = receipt /\ credited' = credited
    BY <1>1 DEF FeeRefused, evm
<1>7. Unique(queue') BY <1>6 DEF RunInv
<1>8. Where(r, "idle")'
    BY <1>3, <1>4, <1>6, WhereFreed
<1> HIDE DEF q
<1>9. View(r, req[r], "idle")'
    <2>1. r \in pending /\ ~req[r].fee /\ (~req[r].deposit => Open(req[r]))
          /\ (req[r].deposit => ~req[r].pulled)
        BY <1>3 DEF View, RunOK, WrapOK, DepositOK, Own
    <2>2. RunOK(req[r], "idle", r \in pending)'
        BY <1>5, <2>1 DEF RunOK, Open, Own, Work
    <2>3. WrapOK(req[r], "idle", r \in pending)'
        BY <1>3, <1>5, <1>6, <2>1 DEF View, WrapOK, Open, Own, Work
    <2>4. DepositOK(req[r], "idle", r \in pending, r \in credited)'
        BY <1>2, <1>3, <1>5, <1>6, <2>1 DEF View, DepositOK, Own, Work
    <2>5. MintOK(r, req[r])'
        BY <1>2, <1>3, <1>5, <1>6, <2>1 DEF View, MintOK, Open
    <2> QED BY <2>2, <2>3, <2>4, <2>5 DEF View
<1>10. RequestOK(r)' BY <1>8, <1>9 DEF RequestOK, Places, Work, Own
<1>11. OthersStay(r) BY <1>6 DEF OthersStay
<1>12. ForOnly(call[s], r) /\ ForOnly(NoCall, r)
    BY <1>1, ForOnlyOwn
<1>13. ChainKept BY <1>6 DEF ChainKept
<1>14. q.deposit = req[r].deposit /\ q.mint = req[r].mint
    BY <1>4, <1>5 DEF Becomes
<1> QED BY <1>3, <1>4, <1>6, <1>7, <1>10, <1>11, <1>12, <1>13, <1>14, RunOne

\* The pull is refused: the run ends.
LEMMA PullFailedRun ==
    ASSUME StampInv, RunInv, NEW s \in Slot, PullFailed(s)
    PROVE  RunInv'
<1>1. PICK r : r = call[s].req OBVIOUS
<1>2. call[s] # NoCall /\ call[s].phase = "PullErr"
    BY <1>1 DEF PullFailed, AtPhase
<1>3. /\ r \in Req /\ req[r] \in WrapStoredRequest /\ Known(r)
      /\ Where(r, "PullErr") /\ View(r, req[r], "PullErr") /\ HoldsIn(call[s], r)
      /\ r \notin Members(queue)
    BY <1>1, <1>2, HeldView DEF Work, Own
<1> DEFINE q == [req[r] EXCEPT !.status = "Failed", !.recoverable = FALSE, !.updated_at = now]
<1>4. Becomes(r, q) /\ Fills(s, NoCall) /\ TypeOK'
    BY <1>1, PullFailedEffect DEF StampInv
<1>5. /\ req'[r].status = "Failed" /\ req'[r].deposit = req[r].deposit
      /\ req'[r].fee = req[r].fee /\ req'[r].pulled = req[r].pulled
      /\ req'[r].mint = req[r].mint /\ req'[r].submit = req[r].submit
      /\ req'[r].recoverable = FALSE /\ req'[r].withdraw_at = req[r].withdraw_at
      /\ req'[r].updated_at = now
    BY <1>3, <1>4 DEF Becomes, WrapStoredRequest
<1>6. /\ pending' = pending /\ queue' = queue /\ pool' = pool
      /\ now' = now /\ seen' = seen /\ receipt' = receipt /\ credited' = credited
    BY <1>1 DEF PullFailed, EndOfRun, evm
<1>7. Unique(queue') BY <1>6 DEF RunInv
<1>8. Where(r, "idle")'
    BY <1>3, <1>4, <1>6, WhereFreed
<1> HIDE DEF q
<1>9. View(r, req[r], "idle")'
    <2>1. /\ Open(req[r]) /\ ~req[r].pulled
          /\ req[r].fee \/ r \in pending
          /\ req[r].deposit => r \in pending
        BY <1>3 DEF View, RunOK, WrapOK, DepositOK, Own, Work, Known
    <2>2. RunOK(req[r], "idle", r \in pending)'
        BY <1>5, <2>1 DEF RunOK, Open, Own, Work
    <2>3. WrapOK(req[r], "idle", r \in pending)'
        BY <1>3, <1>5, <1>6, <2>1 DEF View, WrapOK, Open, Own, Work
    <2>4. DepositOK(req[r], "idle", r \in pending, r \in credited)'
        BY <1>2, <1>3, <1>5, <1>6, <2>1 DEF View, DepositOK, Own, Work
    <2>5. MintOK(r, req[r])'
        BY <1>2, <1>3, <1>5, <1>6, <2>1 DEF View, MintOK, Open
    <2> QED BY <2>2, <2>3, <2>4, <2>5 DEF View
<1>10. RequestOK(r)' BY <1>8, <1>9 DEF RequestOK, Places, Work, Own
<1>11. OthersStay(r) BY <1>6 DEF OthersStay
<1>12. ForOnly(call[s], r) /\ ForOnly(NoCall, r)
    BY <1>1, ForOnlyOwn
<1>13. ChainKept BY <1>6 DEF ChainKept
<1>14. q.deposit = req[r].deposit /\ q.mint = req[r].mint
    BY <1>4, <1>5 DEF Becomes
<1> QED BY <1>3, <1>4, <1>6, <1>7, <1>10, <1>11, <1>12, <1>13, <1>14, RunOne

\* The decimals are not known: the run ends and offers a refund.
LEMMA MetadataFailedRun ==
    ASSUME StampInv, RunInv, NEW s \in Slot, MetadataFailed(s)
    PROVE  RunInv'
<1>1. PICK r : r = call[s].req OBVIOUS
<1>2. call[s] # NoCall /\ call[s].phase = "Metadata"
    BY <1>1 DEF MetadataFailed, AtPhase
<1>3. /\ r \in Req /\ req[r] \in WrapStoredRequest /\ Known(r)
      /\ Where(r, "Metadata") /\ View(r, req[r], "Metadata") /\ HoldsIn(call[s], r)
      /\ r \notin Members(queue)
    BY <1>1, <1>2, HeldView DEF Work, Own
<1> DEFINE q == [req[r] EXCEPT !.status = "Failed", !.recoverable = TRUE, !.pulled = TRUE,
                               !.updated_at = now]
<1>4. Becomes(r, q) /\ Fills(s, NoCall) /\ TypeOK'
    BY <1>1, MetadataFailedEffect DEF StampInv
<1>5. /\ req'[r].status = "Failed" /\ req'[r].deposit = req[r].deposit
      /\ req'[r].fee = req[r].fee /\ req'[r].pulled = TRUE
      /\ req'[r].mint = req[r].mint /\ req'[r].submit = req[r].submit
      /\ req'[r].recoverable = TRUE /\ req'[r].withdraw_at = req[r].withdraw_at
      /\ req'[r].updated_at = now
    BY <1>3, <1>4 DEF Becomes, WrapStoredRequest
<1>6. /\ pending' = pending /\ queue' = queue /\ pool' = pool
      /\ now' = now /\ seen' = seen /\ receipt' = receipt /\ credited' = credited
    BY <1>1 DEF MetadataFailed, EndOfRun, evm
<1>7. Unique(queue') BY <1>6 DEF RunInv
<1>8. Where(r, "idle")'
    BY <1>3, <1>4, <1>6, WhereFreed
<1> HIDE DEF q
<1>9. View(r, req[r], "idle")'
    <2>1. /\ Open(req[r])
          /\ req[r].fee \/ r \in pending
          /\ req[r].deposit => r \in pending
        BY <1>3 DEF View, RunOK, WrapOK, DepositOK, Own, Work, Known
    <2>2. RunOK(req[r], "idle", r \in pending)'
        BY <1>5, <2>1 DEF RunOK, Open, Own, Work
    <2>3. WrapOK(req[r], "idle", r \in pending)'
        BY <1>3, <1>5, <1>6, <2>1 DEF View, WrapOK, Open, Own, Work
    <2>4. DepositOK(req[r], "idle", r \in pending, r \in credited)'
        BY <1>2, <1>3, <1>5, <1>6, <2>1 DEF View, DepositOK, Own, Work
    <2>5. MintOK(r, req[r])'
        BY <1>2, <1>3, <1>5, <1>6, <2>1 DEF View, MintOK, Open
    <2> QED BY <2>2, <2>3, <2>4, <2>5 DEF View
<1>10. RequestOK(r)' BY <1>8, <1>9 DEF RequestOK, Places, Work, Own
<1>11. OthersStay(r) BY <1>6 DEF OthersStay
<1>12. ForOnly(call[s], r) /\ ForOnly(NoCall, r)
    BY <1>1, ForOnlyOwn
<1>13. ChainKept BY <1>6 DEF ChainKept
<1>14. q.deposit = req[r].deposit /\ q.mint = req[r].mint
    BY <1>4, <1>5 DEF Becomes
<1> QED BY <1>3, <1>4, <1>6, <1>7, <1>10, <1>11, <1>12, <1>13, <1>14, RunOne

\* The mint is refused: the run ends and offers a refund.
LEMMA MintRefusedRun ==
    ASSUME StampInv, RunInv, NEW s \in Slot, NEW price \in Prices,
           MintRefused(s, price)
    PROVE  RunInv'
<1>1. PICK r, m : r = call[s].req /\ m = MintOf(s, price) OBVIOUS
<1>2. call[s] # NoCall /\ call[s].phase = "Metadata"
    BY <1>1 DEF MintRefused, AtPhase
<1>3. /\ r \in Req /\ req[r] \in WrapStoredRequest /\ Known(r)
      /\ Where(r, "Metadata") /\ View(r, req[r], "Metadata") /\ HoldsIn(call[s], r)
      /\ r \notin Members(queue)
    BY <1>1, <1>2, HeldView DEF Work, Own
<1> DEFINE q == RefusalStored(req[r], m)
<1>4. Becomes(r, q) /\ Fills(s, NoCall) /\ TypeOK'
    BY <1>1, MintRefusedEffect DEF StampInv
<1>5. /\ req'[r].status = "Failed" /\ req'[r].deposit = req[r].deposit
      /\ req'[r].fee = req[r].fee /\ req'[r].pulled = TRUE
      /\ req'[r].mint = req[r].mint /\ req'[r].submit = "Submitting"
      /\ req'[r].recoverable = TRUE /\ req'[r].withdraw_at = req[r].withdraw_at
      /\ req'[r].updated_at = now
    BY <1>3, <1>4 DEF Becomes, WrapStoredRequest, RefusalStored
<1>6. /\ pending' = pending /\ queue' = queue /\ pool' = pool
      /\ now' = now /\ seen' = seen /\ receipt' = receipt /\ credited' = credited
    BY <1>1 DEF MintRefused, EndOfRun, evm
<1>7. Unique(queue') BY <1>6 DEF RunInv
<1>8. Where(r, "idle")'
    BY <1>3, <1>4, <1>6, WhereFreed
<1> HIDE DEF q
<1>9. View(r, req[r], "idle")'
    <2>1. /\ Open(req[r])
          /\ req[r].fee \/ r \in pending
          /\ req[r].deposit => r \in pending
        BY <1>3 DEF View, RunOK, WrapOK, DepositOK, Own, Work, Known
    <2>2. RunOK(req[r], "idle", r \in pending)'
        BY <1>5, <2>1 DEF RunOK, Open, Own, Work
    <2>3. WrapOK(req[r], "idle", r \in pending)'
        BY <1>3, <1>5, <1>6, <2>1 DEF View, WrapOK, Open, Own, Work
    <2>4. DepositOK(req[r], "idle", r \in pending, r \in credited)'
        BY <1>2, <1>3, <1>5, <1>6, <2>1 DEF View, DepositOK, Own, Work
    <2>5. MintOK(r, req[r])'
        BY <1>2, <1>3, <1>5, <1>6, <2>1 DEF View, MintOK, Open
    <2> QED BY <2>2, <2>3, <2>4, <2>5 DEF View
<1>10. RequestOK(r)' BY <1>8, <1>9 DEF RequestOK, Places, Work, Own
<1>11. OthersStay(r) BY <1>6 DEF OthersStay
<1>12. ForOnly(call[s], r) /\ ForOnly(NoCall, r)
    BY <1>1, ForOnlyOwn
<1>13. ChainKept BY <1>6 DEF ChainKept
<1>14. q.deposit = req[r].deposit /\ q.mint = req[r].mint
    BY <1>4, <1>5 DEF Becomes
<1> QED BY <1>3, <1>4, <1>6, <1>7, <1>10, <1>11, <1>12, <1>13, <1>14, RunOne

\* The pull of a deposit is refused: its submission ends.
LEMMA DepositPullFailedRun ==
    ASSUME StampInv, RunInv, NEW s \in Slot, DepositPullFailed(s)
    PROVE  RunInv'
<1>1. PICK r : r = call[s].req OBVIOUS
<1>2. call[s] # NoCall /\ call[s].phase = "DepositPullErr" /\ req[r].deposit
    BY <1>1, CallKnown DEF DepositPullFailed, AtPhase, CallOK
<1>3. /\ r \in Req /\ req[r] \in WrapStoredRequest /\ Known(r)
      /\ Where(r, "DepositPullErr") /\ View(r, req[r], "DepositPullErr") /\ HoldsIn(call[s], r)
      /\ r \notin Members(queue)
    BY <1>1, <1>2, HeldView DEF Work, Own
<1> DEFINE q == [req[r] EXCEPT !.status = "Failed", !.recoverable = FALSE, !.updated_at = now]
<1>4. Becomes(r, q) /\ Fills(s, NoCall) /\ TypeOK'
    BY <1>1, DepositPullFailedEffect DEF StampInv
<1>5. /\ req'[r].status = "Failed" /\ req'[r].deposit = req[r].deposit
      /\ req'[r].fee = req[r].fee /\ req'[r].pulled = req[r].pulled
      /\ req'[r].mint = req[r].mint /\ req'[r].submit = req[r].submit
      /\ req'[r].recoverable = FALSE /\ req'[r].withdraw_at = req[r].withdraw_at
      /\ req'[r].updated_at = now
    BY <1>3, <1>4 DEF Becomes, WrapStoredRequest
<1>6. /\ pending' = pending \ {r} /\ queue' = queue /\ pool' = pool
      /\ now' = now /\ seen' = seen /\ receipt' = receipt /\ credited' = credited
    BY <1>1 DEF DepositPullFailed, evm
<1>7. Unique(queue') BY <1>6 DEF RunInv
<1>8. Where(r, "idle")'
    BY <1>3, <1>4, <1>6, WhereFreed
<1> HIDE DEF q
<1>9. View(r, req[r], "idle")'
    <2>1. req[r].deposit /\ ~req[r].pulled
        BY <1>2, <1>3 DEF View, DepositOK, Own
    <2>2. RunOK(req[r], "idle", r \in pending)'
        BY <1>5, <2>1 DEF RunOK, Open, Own, Work
    <2>3. WrapOK(req[r], "idle", r \in pending)'
        BY <1>3, <1>5, <1>6, <2>1 DEF View, WrapOK, Open, Own, Work
    <2>4. DepositOK(req[r], "idle", r \in pending, r \in credited)'
        BY <1>2, <1>3, <1>5, <1>6, <2>1 DEF View, DepositOK, Own, Work
    <2>5. MintOK(r, req[r])'
        BY <1>2, <1>3, <1>5, <1>6, <2>1 DEF View, MintOK, Open
    <2> QED BY <2>2, <2>3, <2>4, <2>5 DEF View
<1>10. RequestOK(r)' BY <1>8, <1>9 DEF RequestOK, Places, Work, Own
<1>11. OthersStay(r) BY <1>6 DEF OthersStay
<1>12. ForOnly(call[s], r) /\ ForOnly(NoCall, r)
    BY <1>1, ForOnlyOwn
<1>13. ChainKept BY <1>6 DEF ChainKept
<1>14. q.deposit = req[r].deposit /\ q.mint = req[r].mint
    BY <1>4, <1>5 DEF Becomes
<1> QED BY <1>3, <1>4, <1>6, <1>7, <1>10, <1>11, <1>12, <1>13, <1>14, RunOne

\* A request that nobody holds, from what its record says.
LEMMA IdleView ==
    ASSUME StampInv, RunInv, NEW r \in Req,
           \/ ~Known(r)
           \/ Known(r) /\ ~req[r].fee /\ r \notin pending
           \/ req[r].deposit /\ r \notin pending
           \/ req[r].recoverable /\ (req[r].deposit => req[r].pulled)
    PROVE  /\ View(r, req[r], "idle") /\ Where(r, "idle")
           /\ r \notin Members(queue) /\ \A s \in Slot : ~HoldsIn(call[s], r)
<1>1. PICK w \in Places : Where(r, w) /\ View(r, req[r], w) BY DEF RunInv, RequestOK
<1>2. w \notin Work \cup Own \cup {"queue"}
    <2>1. CASE ~Known(r)
        <3>1. r \notin Members(queue) BY <2>1 DEF StampInv
        <3>2. \A s \in Slot : ~HoldsIn(call[s], r) BY <2>1, CallKnown DEF HoldsIn
        <3> QED BY <1>1, <3>1, <3>2 DEF Where, InQueue, Work, Own
    <2>2. CASE Known(r) /\ ~req[r].fee /\ r \notin pending /\ ~req[r].deposit
        BY <1>1, <2>2 DEF View, WrapOK, Known, Work, Own
    <2>3. CASE req[r].deposit /\ r \notin pending
        BY <1>1, <2>3 DEF View, DepositOK, Work, Own
    <2>4. CASE req[r].recoverable /\ (req[r].deposit => req[r].pulled)
        BY <1>1, <2>4 DEF View, RunOK, WrapOK, DepositOK, Open, Work, Own
    <2> QED BY <2>1, <2>2, <2>3, <2>4
<1>3. w = "idle" /\ ~InQueue(r) /\ \A s \in Slot : ~HoldsIn(call[s], r)
    BY <1>1, <1>2, WhereIdle
<1> QED BY <1>1, <1>3 DEF InQueue

\* A wrap is submitted: its submission waits for the fee.
LEMMA SubmitRun ==
    ASSUME StampInv, RunInv, NEW s \in Slot, NEW r \in Req, Submit(s, r)
    PROVE  RunInv'
<1>1. call[s] = NoCall /\ ~req[r].deposit /\ ~req[r].fee /\ r \notin pending
    BY DEF Submit
<1>2. /\ View(r, req[r], "idle") /\ r \notin Members(queue)
      /\ \A t \in Slot : ~HoldsIn(call[t], r)
    BY <1>1, IdleView
<1>3. req[r] \in WrapStoredRequest BY SlotTypes DEF StampInv
<1>4. PICK q, c : /\ q = IF Known(r) THEN req[r]
                         ELSE [req[r] EXCEPT !.status = "Queued", !.created_at = now,
                                             !.updated_at = now]
                  /\ c = CallFor(r, "Fee", 0)
    OBVIOUS
<1>5. Becomes(r, q) /\ Fills(s, c) /\ c # NoCall
    BY <1>4, SubmitEffect DEF StampInv
<1>6. /\ q.status = IF Known(r) THEN req[r].status ELSE "Queued"
      /\ q.deposit = req[r].deposit /\ q.fee = req[r].fee
      /\ q.pulled = req[r].pulled /\ q.mint = req[r].mint /\ q.submit = req[r].submit
      /\ q.recoverable = req[r].recoverable /\ q.withdraw_at = req[r].withdraw_at
    BY <1>3, <1>4 DEF WrapStoredRequest
<1>7. /\ pending' = pending \cup {r} /\ queue' = queue /\ pool' = pool
      /\ now' = now /\ seen' = seen /\ receipt' = receipt /\ credited' = credited
    BY DEF Submit, evm
<1>8. c.req = r /\ c.phase = "Fee" BY <1>4, CallForFields
<1>9. Where(r, "Fee")'
    <2>1. HoldsIn(c, r) BY <1>5, <1>8 DEF HoldsIn, Own
    <2>2. r \notin Members(queue') BY <1>2, <1>7
    <2> QED BY <1>2, <1>5, <1>8, <2>1, <2>2, WhereFilled
<1>10. View(r, req[r], "Fee")'
    <2>1. Open(req[r])
        BY <1>1, <1>2, BlankRecord DEF View, WrapOK, Open, Known
    <2>2. req[r].status # "Running" /\ req[r].status # "Succeeded"
        BY <1>1, <1>2, <2>1 DEF View, WrapOK, MintOK, Open, Work
    <2>3. req'[r] = q BY <1>5 DEF Becomes
    <2>4. RunOK(req[r], "Fee", r \in pending)'
        BY <1>1, <1>6, <1>7, <2>1, <2>2, <2>3 DEF RunOK, Open, Own, Work
    <2>5. WrapOK(req[r], "Fee", r \in pending)'
        BY <1>6, <1>7, <2>1, <2>2, <2>3 DEF WrapOK, Open, Own, Work
    <2>6. DepositOK(req[r], "Fee", r \in pending, r \in credited)'
        BY <1>1, <1>6, <2>3 DEF DepositOK
    <2>7. MintOK(r, req[r])'
        BY <1>1, <1>2, <1>6, <1>7, <2>1, <2>2, <2>3 DEF View, MintOK, Open
    <2> QED BY <2>4, <2>5, <2>6, <2>7 DEF View
<1>11. RequestOK(r)' BY <1>9, <1>10 DEF RequestOK, Places, Own
<1>12. OthersStay(r) BY <1>7 DEF OthersStay
<1>13. ForOnly(call[s], r) /\ ForOnly(c, r) BY <1>1, <1>8, ForOnlyOwn
<1>14. ChainKept BY <1>7 DEF ChainKept
<1>15. Unique(queue') BY <1>7 DEF RunInv
<1> QED BY <1>5, <1>6, <1>7, <1>11, <1>12, <1>13, <1>14, <1>15, RunOne

\* A deposit is submitted: its submission waits for the fee or the pull.
LEMMA SubmitDepositRun ==
    ASSUME StampInv, RunInv, NEW s \in Slot, NEW r \in Req, SubmitDeposit(s, r)
    PROVE  RunInv'
<1>1. /\ call[s] = NoCall /\ r \notin pending /\ (Known(r) => req[r].deposit)
      /\ ~(req[r].fee /\ req[r].pulled)
    BY DEF SubmitDeposit, DepositOpen, Known
<1>2. /\ View(r, req[r], "idle") /\ r \notin Members(queue)
      /\ \A t \in Slot : ~HoldsIn(call[t], r)
    BY <1>1, IdleView
<1>3. req[r] \in WrapStoredRequest /\ now \in 0..MaxTime BY SlotTypes DEF StampInv
<1>4. PICK q, c : /\ q = IF Known(r) THEN req[r]
                         ELSE [req[r] EXCEPT !.status = "Running", !.deposit = TRUE,
                                             !.created_at = now, !.updated_at = now]
                  /\ c = IF ~req[r].fee THEN CallFor(r, "Fee", 0)
                         ELSE CallFor(r, "DepositPull", req[r].created_at)
    OBVIOUS
<1>5. Becomes(r, q) /\ Fills(s, c) /\ c # NoCall
    BY <1>4, SubmitDepositEffect DEF StampInv
<1>6. /\ Known(r) => q = req[r]
      /\ ~Known(r) => q.status = "Running" /\ q.updated_at = now
      /\ q.deposit
      /\ q.fee = req[r].fee
      /\ q.pulled = req[r].pulled /\ q.mint = req[r].mint /\ q.submit = req[r].submit
      /\ q.recoverable = req[r].recoverable /\ q.withdraw_at = req[r].withdraw_at
    BY <1>1, <1>3, <1>4 DEF WrapStoredRequest
<1>7. /\ pending' = pending \cup {r} /\ queue' = queue /\ pool' = pool
      /\ now' = now /\ seen' = seen /\ receipt' = receipt /\ credited' = credited
    BY DEF SubmitDeposit, evm
<1>8. c.req = r /\ c.phase = IF ~req[r].fee THEN "Fee" ELSE "DepositPull"
    BY <1>4, CallForFields
<1>9. Where(r, c.phase)'
    <2>1. HoldsIn(c, r) BY <1>5, <1>8 DEF HoldsIn, Own
    <2>2. r \notin Members(queue') BY <1>2, <1>7
    <2> QED BY <1>2, <1>5, <2>1, <2>2, WhereFilled
<1>10. View(r, req[r], c.phase)'
    <2>1. ~req[r].pulled
        BY <1>1, <1>2, BlankRecord DEF View, DepositOK
    <2>2. Known(r) => req[r].status \in {"Failed", "Succeeded"}
        BY <1>1, <1>2 DEF View, DepositOK
    <2>3. req'[r] = q BY <1>5 DEF Becomes
    <2>4. ~Known(r) => Open(req[r]) BY BlankRecord DEF Open
    <2>5. RunOK(req[r], c.phase, r \in pending)'
        <3>1. now < now + StaleAfter BY <1>3, WrapAssumption
        <3> QED BY <1>6, <1>7, <1>8, <2>2, <2>3, <2>4, <3>1 DEF RunOK, Open, Own, Work
    <2>6. WrapOK(req[r], c.phase, r \in pending)'
        BY <1>6, <2>3 DEF WrapOK
    <2>7. DepositOK(req[r], c.phase, r \in pending, r \in credited)'
        BY <1>1, <1>2, <1>6, <1>7, <2>1, <2>2, <2>3, <2>4 DEF View, DepositOK, Open
    <2>8. MintOK(r, req[r])' BY <1>6, <2>3 DEF MintOK
    <2> QED BY <2>5, <2>6, <2>7, <2>8 DEF View
<1>11. RequestOK(r)' BY <1>8, <1>9, <1>10 DEF RequestOK, Places, Own
<1>12. OthersStay(r) BY <1>7 DEF OthersStay
<1>13. ForOnly(call[s], r) /\ ForOnly(c, r) BY <1>1, <1>8, ForOnlyOwn
<1>14. ChainKept BY <1>7 DEF ChainKept
<1>15. Unique(queue') BY <1>7 DEF RunInv
<1>16. req[r].mint \in seen /\ ~req[r].deposit => FALSE
    <2>1. ~req[r].deposit => req[r].mint = NoMint BY <1>1, BlankRecord
    <2>2. NoMint \notin seen BY WrapAssumption DEF StampInv, TypeOK
    <2> QED BY <2>1, <2>2
<1> QED BY <1>5, <1>7, <1>11, <1>12, <1>13, <1>14, <1>15, <1>16, RunOne

\* A refund is asked for: only a wrap that nobody holds is refunded.
LEMMA RecoverRun ==
    ASSUME StampInv, RunInv, NEW s \in Slot, NEW r \in Req, Recover(s, r)
    PROVE  RunInv'
<1>1. /\ call[s] = NoCall /\ ~req[r].deposit /\ req[r].status = "Failed"
      /\ req[r].recoverable
    BY DEF Recover, RecoverAllowed
<1>2. View(r, req[r], "idle") /\ Where(r, "idle") BY <1>1, IdleView
<1>3. req[r] \in WrapStoredRequest BY SlotTypes DEF StampInv
<1>4. PICK q, c : /\ q = [req[r] EXCEPT !.withdraw_at = RefundStamp(r),
                                        !.withdrawing = TRUE, !.updated_at = now]
                  /\ c = CallFor(r, "Refund", RefundStamp(r))
    OBVIOUS
<1>5. Becomes(r, q) /\ Fills(s, c)
    BY <1>4, RecoverEffect DEF StampInv
<1>6. /\ q.status = req[r].status /\ q.deposit = req[r].deposit /\ q.fee = req[r].fee
      /\ q.pulled = req[r].pulled /\ q.mint = req[r].mint /\ q.submit = req[r].submit
      /\ q.recoverable = req[r].recoverable
    BY <1>3, <1>4 DEF WrapStoredRequest
<1>7. /\ pending' = pending /\ queue' = queue /\ pool' = pool
      /\ now' = now /\ seen' = seen /\ receipt' = receipt /\ credited' = credited
    BY DEF Recover, evm
<1>8. c.phase = "Refund" BY <1>4, CallForFields
<1>9. Where(r, "idle")'
    <2>1. \A t \in Slot : HoldsIn(call[t], r) \/ HoldsIn(call'[t], r) => call'[t] = call[t]
        BY <1>1, <1>5, <1>8 DEF Fills, HoldsIn, Work, Own
    <2> QED BY <1>2, <1>7, <2>1, WhereKept
<1>10. View(r, req[r], "idle")'
    <2>1. req'[r] = q BY <1>5 DEF Becomes
    <2>2. RunOK(req[r], "idle", r \in pending)'
        BY <1>1, <1>6, <2>1 DEF RunOK, Open, Own, Work
    <2>3. WrapOK(req[r], "idle", r \in pending)'
        BY <1>1, <1>2, <1>6, <1>7, <2>1 DEF View, WrapOK, Open, Own
    <2>4. DepositOK(req[r], "idle", r \in pending, r \in credited)'
        BY <1>1, <1>6, <2>1 DEF DepositOK
    <2>5. MintOK(r, req[r])'
        BY <1>1, <1>2, <1>6, <1>7, <2>1 DEF View, MintOK
    <2> QED BY <2>2, <2>3, <2>4, <2>5 DEF View
<1>11. RequestOK(r)' BY <1>9, <1>10 DEF RequestOK, Places
<1>12. OthersStay(r) BY <1>7 DEF OthersStay
<1>13. ForOnly(call[s], r) /\ ForOnly(c, r)
    BY <1>1, <1>8, ForOnlyOwn DEF Work, Own
<1>14. ChainKept BY <1>7 DEF ChainKept
<1>15. Unique(queue') BY <1>7 DEF RunInv
<1> QED BY <1>5, <1>6, <1>7, <1>11, <1>12, <1>13, <1>14, <1>15, RunOne

\* The reply of a refund changes nothing that a run depends on.
LEMMA RefundReplyRun ==
    ASSUME StampInv, RunInv, NEW s \in Slot, RefundReply(s)
    PROVE  RunInv'
<1>1. PICK r : r = call[s].req OBVIOUS
<1>2. /\ call[s] # NoCall /\ call[s].phase \in {"RefundOk", "RefundErr"}
      /\ Fills(s, NoCall)
      /\ \E v \in BOOLEAN :
            Becomes(r, [req[r] EXCEPT !.withdrawing = FALSE, !.withdrawn = v,
                                      !.updated_at = now])
    BY <1>1, RefundReplyEffect DEF StampInv
<1>3. PICK v \in BOOLEAN :
          Becomes(r, [req[r] EXCEPT !.withdrawing = FALSE, !.withdrawn = v,
                                    !.updated_at = now])
    BY <1>2
<1>4. PICK q : q = [req[r] EXCEPT !.withdrawing = FALSE, !.withdrawn = v,
                                  !.updated_at = now]
    OBVIOUS
<1>5. Becomes(r, q) /\ r \in Req BY <1>3, <1>4 DEF Becomes
<1>6. req[r] \in WrapStoredRequest /\ now \in 0..MaxTime BY <1>5, SlotTypes DEF StampInv
<1>7. /\ q.status = req[r].status /\ q.deposit = req[r].deposit /\ q.fee = req[r].fee
      /\ q.pulled = req[r].pulled /\ q.mint = req[r].mint /\ q.submit = req[r].submit
      /\ q.recoverable = req[r].recoverable /\ q.withdraw_at = req[r].withdraw_at
      /\ q.updated_at = now
    BY <1>4, <1>6 DEF WrapStoredRequest
<1>8. /\ pending' = pending /\ queue' = queue /\ pool' = pool
      /\ now' = now /\ seen' = seen /\ receipt' = receipt /\ credited' = credited
    BY DEF RefundReply, evm
<1>9. PICK w \in Places : Where(r, w) /\ View(r, req[r], w)
    BY <1>5 DEF RunInv, RequestOK
<1>10. Where(r, w)'
    <2>1. \A t \in Slot : HoldsIn(call[t], r) \/ HoldsIn(call'[t], r) => call'[t] = call[t]
        BY <1>2 DEF Fills, HoldsIn, Work, Own
    <2> QED BY <1>8, <1>9, <2>1, WhereKept
<1>11. View(r, req[r], w)'
    <2>1. req'[r] = q BY <1>5 DEF Becomes
    <2>2. RunOK(req[r], w, r \in pending)'
        <3>1. now < now + StaleAfter BY <1>6, WrapAssumption
        <3> QED BY <1>7, <1>8, <1>9, <2>1, <3>1 DEF View, RunOK, Open
    <2>3. WrapOK(req[r], w, r \in pending)'
        BY <1>7, <1>8, <1>9, <2>1 DEF View, WrapOK, Open
    <2>4. DepositOK(req[r], w, r \in pending, r \in credited)'
        BY <1>7, <1>8, <1>9, <2>1 DEF View, DepositOK
    <2>5. MintOK(r, req[r])'
        BY <1>7, <1>8, <1>9, <2>1 DEF View, MintOK
    <2> QED BY <2>2, <2>3, <2>4, <2>5 DEF View
<1>12. RequestOK(r)' BY <1>9, <1>10, <1>11 DEF RequestOK
<1>13. OthersStay(r) BY <1>8 DEF OthersStay
<1>14. ForOnly(call[s], r) /\ ForOnly(NoCall, r) BY <1>1, ForOnlyOwn
<1>15. ChainKept BY <1>8 DEF ChainKept
<1>16. Unique(queue') BY <1>8 DEF RunInv
<1> QED BY <1>2, <1>5, <1>7, <1>8, <1>12, <1>13, <1>14, <1>15, <1>16, RunOne

\* The view of the first request of the queue.
LEMMA QueuedView ==
    ASSUME StampInv, RunInv, queue # <<>>, NEW r, r = Head(queue)
    PROVE  /\ r \in Req /\ req[r] \in WrapStoredRequest /\ Known(r)
           /\ View(r, req[r], "queue") /\ Open(req[r])
           /\ \A s \in Slot : ~HoldsIn(call[s], r)
           /\ Unique(Tail(queue)) /\ r \notin Members(Tail(queue))
           /\ \A x : x # r => (x \in Members(Tail(queue)) <=> x \in Members(queue))
<1>1. queue \in Seq(Req) BY DEF StampInv, TypeOK
<1>2. r \in Members(queue) /\ r \in Req BY <1>1, HeadMember
<1>3. Known(r) /\ req[r] \in WrapStoredRequest BY <1>2, SlotTypes DEF StampInv
<1>4. PICK w \in Places : Where(r, w) /\ View(r, req[r], w)
    BY <1>2 DEF RunInv, RequestOK
<1>5. w = "queue" /\ \A s \in Slot : ~HoldsIn(call[s], r)
    BY <1>2, <1>4, WhereQueued DEF InQueue
<1>6. Open(req[r]) BY <1>4, <1>5 DEF View, RunOK
<1>7. /\ Unique(Tail(queue)) /\ r \notin Members(Tail(queue))
      /\ \A x : x # r => (x \in Members(Tail(queue)) <=> x \in Members(queue))
    BY <1>1, TailUnique DEF RunInv
<1> QED BY <1>2, <1>3, <1>4, <1>5, <1>6, <1>7

\* The worker takes a request, which moves from the queue to its run.
LEMMA WorkerTakeRun ==
    ASSUME StampInv, RunInv, NEW s \in Slot, WorkerTake(s)
    PROVE  RunInv'
<1>1. PICK r : r = Head(queue) OBVIOUS
<1>2. queue # <<>> /\ call[s] = NoCall BY DEF WorkerTake
<1>3. /\ r \in Req /\ req[r] \in WrapStoredRequest /\ Known(r)
      /\ View(r, req[r], "queue") /\ Open(req[r])
      /\ \A t \in Slot : ~HoldsIn(call[t], r)
      /\ Unique(Tail(queue)) /\ r \notin Members(Tail(queue))
      /\ \A x : x # r => (x \in Members(Tail(queue)) <=> x \in Members(queue))
    BY <1>1, <1>2, QueuedView
<1>4. PICK q, c : /\ q = [req[r] EXCEPT !.status = "Running", !.updated_at = now]
                  /\ c = IF req[r].pulled THEN CallFor(r, "Metadata", 0)
                         ELSE CallFor(r, "Pull", req[r].created_at)
    OBVIOUS
<1>5. Becomes(r, q) /\ Fills(s, c) /\ c # NoCall
    BY <1>1, <1>4, WorkerTakeEffect DEF StampInv
<1>6. /\ q.status = "Running" /\ q.deposit = req[r].deposit /\ q.fee = req[r].fee
      /\ q.pulled = req[r].pulled /\ q.mint = req[r].mint /\ q.submit = req[r].submit
      /\ q.recoverable = req[r].recoverable /\ q.withdraw_at = req[r].withdraw_at
      /\ q.updated_at = now
    BY <1>3, <1>4 DEF WrapStoredRequest
<1>7. /\ pending' = pending /\ queue' = Tail(queue) /\ pool' = pool
      /\ now' = now /\ seen' = seen /\ receipt' = receipt /\ credited' = credited
    BY DEF WorkerTake, evm
<1>8. c.req = r /\ c.phase = IF req[r].pulled THEN "Metadata" ELSE "Pull"
    BY <1>4, CallForFields
<1>9. Where(r, c.phase)'
    <2>1. HoldsIn(c, r) BY <1>5, <1>8 DEF HoldsIn, Work
    <2> QED BY <1>3, <1>5, <1>7, <2>1, WhereFilled
<1>10. View(r, req[r], c.phase)'
    <2>1. req'[r] = q BY <1>5 DEF Becomes
    <2>2. RunOK(req[r], c.phase, r \in pending)'
        <3>1. now < now + StaleAfter BY WrapAssumption DEF StampInv, TypeOK
        <3> QED BY <1>3, <1>6, <1>7, <1>8, <2>1, <3>1 DEF RunOK, Open, Own, Work
    <2>3. WrapOK(req[r], c.phase, r \in pending)'
        BY <1>3, <1>6, <1>7, <1>8, <2>1 DEF View, WrapOK, Open, Own, Work, Known
    <2>4. DepositOK(req[r], c.phase, r \in pending, r \in credited)'
        BY <1>3, <1>6, <1>7, <1>8, <2>1 DEF View, DepositOK, Open, Own
    <2>5. MintOK(r, req[r])'
        BY <1>3, <1>6, <1>7, <2>1 DEF View, MintOK, Open
    <2> QED BY <2>2, <2>3, <2>4, <2>5 DEF View
<1>11. RequestOK(r)' BY <1>8, <1>9, <1>10 DEF RequestOK, Places, Work
<1>12. OthersStay(r) BY <1>3, <1>7 DEF OthersStay
<1>13. ForOnly(call[s], r) /\ ForOnly(c, r) BY <1>2, <1>8, ForOnlyOwn
<1>14. ChainKept BY <1>7 DEF ChainKept
<1>15. Unique(queue') BY <1>3, <1>7
<1> QED BY <1>3, <1>5, <1>6, <1>7, <1>11, <1>12, <1>13, <1>14, <1>15, RunOne

\* A queued request has no mint yet, so the worker never finds one.
LEMMA NoMintedInQueue ==
    ASSUME StampInv, RunInv
    PROVE  ~WorkerTakeMinted
BY QueuedView DEF WorkerTakeMinted, Open

\* The tokens are in: the run goes on to the decimals.
LEMMA PullDoneRun ==
    ASSUME StampInv, RunInv, NEW s \in Slot, PullDone(s)
    PROVE  RunInv'
<1>1. PICK r : r = call[s].req OBVIOUS
<1>2. call[s] # NoCall /\ call[s].phase = "PullOk" BY DEF PullDone, AtPhase
<1>3. /\ r \in Req /\ req[r] \in WrapStoredRequest
      /\ View(r, req[r], "PullOk") /\ r \notin Members(queue)
      /\ \A t \in Slot : t # s => ~HoldsIn(call[t], r)
    BY <1>1, <1>2, HeldView DEF Work
<1>4. PICK q : q = [req[r] EXCEPT !.pulled = TRUE, !.updated_at = now] OBVIOUS
<1>5. PICK c : Fills(s, c) /\ c # NoCall /\ c.req = r /\ c.phase = "Metadata"
    BY <1>1, PullDoneEffect DEF StampInv
<1>6. Becomes(r, q) BY <1>1, <1>4, PullDoneEffect DEF StampInv
<1>7. /\ q.status = req[r].status /\ q.deposit = req[r].deposit /\ q.fee = req[r].fee
      /\ q.mint = req[r].mint /\ q.submit = req[r].submit /\ q.pulled
      /\ q.recoverable = req[r].recoverable /\ q.withdraw_at = req[r].withdraw_at
      /\ q.updated_at = now
    BY <1>3, <1>4 DEF WrapStoredRequest
<1>8. /\ pending' = pending /\ queue' = queue /\ pool' = pool
      /\ now' = now /\ seen' = seen /\ receipt' = receipt /\ credited' = credited
    BY DEF PullDone, evm
<1>9. Where(r, "Metadata")'
    <2>1. HoldsIn(c, r) BY <1>5 DEF HoldsIn, Work
    <2> QED BY <1>3, <1>5, <1>8, <2>1, WhereFilled
<1>10. View(r, req[r], "Metadata")'
    <2>1. req'[r] = q BY <1>6 DEF Becomes
    <2>2. Open(req[r]) /\ req[r].status = "Running" BY <1>3 DEF View, RunOK, Work
    <2>3. RunOK(req[r], "Metadata", r \in pending)'
        <3>1. now < now + StaleAfter BY WrapAssumption DEF StampInv, TypeOK
        <3> QED BY <1>7, <1>8, <2>1, <2>2, <3>1 DEF RunOK, Open, Own, Work
    <2>4. WrapOK(req[r], "Metadata", r \in pending)'
        BY <1>3, <1>7, <1>8, <2>1, <2>2 DEF View, WrapOK, Open, Own, Work
    <2>5. DepositOK(req[r], "Metadata", r \in pending, r \in credited)'
        BY <1>3, <1>7, <1>8, <2>1, <2>2 DEF View, DepositOK, Open, Own
    <2>6. MintOK(r, req[r])'
        BY <1>3, <1>7, <1>8, <2>1, <2>2 DEF View, MintOK, Open
    <2> QED BY <2>3, <2>4, <2>5, <2>6 DEF View
<1>11. RequestOK(r)' BY <1>9, <1>10 DEF RequestOK, Places, Work
<1>12. OthersStay(r) BY <1>8 DEF OthersStay
<1>13. ForOnly(call[s], r) /\ ForOnly(c, r) BY <1>1, <1>5, ForOnlyOwn
<1>14. ChainKept BY <1>8 DEF ChainKept
<1>15. Unique(queue') BY <1>8 DEF RunInv
<1> QED BY <1>3, <1>5, <1>6, <1>7, <1>8, <1>11, <1>12, <1>13, <1>14, <1>15, RunOne

\* The view of a deposit after its credit was tried.
LEMMA CreditView ==
    ASSUME NEW r, NEW q, NEW p, req'[r] = p, CreditTried(r, q, p), q.deposit,
           q.fee \/ r \in pending',
           q.status = "Succeeded" => r \in credited,
           r \notin credited => q.mint = NoMint /\ q.submit # "Submitted"
    PROVE  View(r, req[r], "idle")'
<1>1. p.deposit /\ p.status \in {"Succeeded", "Failed"}
    BY DEF CreditTried
<1>2. RunOK(req[r], "idle", r \in pending)'
    BY <1>1 DEF RunOK, Work, Own
<1>3. WrapOK(req[r], "idle", r \in pending)' BY <1>1 DEF WrapOK
<1>4. DepositOK(req[r], "idle", r \in pending, r \in credited)'
    BY <1>1 DEF DepositOK, CreditTried, Own
<1>5. MintOK(r, req[r])' BY <1>1 DEF MintOK
<1> QED BY <1>2, <1>3, <1>4, <1>5 DEF View

\* A repeated submission or a retry credits a deposit that nobody holds.
LEMMA CreditRun ==
    ASSUME StampInv, RunInv, NEW r \in Req,
           (\E s \in Slot : ResubmitDeposit(s, r)) \/ RetryDeposit(r)
    PROVE  RunInv'
<1>1. req[r].pulled /\ Known(r)
    BY BlankRecord DEF ResubmitDeposit, RetryDeposit, RetryAllowed
<1>2. /\ req[r].deposit
      /\ \/ r \notin pending /\ req[r].fee
         \/ req[r].recoverable
    BY <1>1 DEF ResubmitDeposit, DepositOpen, RetryDeposit, RetryAllowed, Known
<1>3. View(r, req[r], "idle") /\ Where(r, "idle") BY <1>1, <1>2, IdleView
<1>4. PICK p : Becomes(r, p) /\ CreditTried(r, req[r], p)
    BY ResubmitDepositEffect, RetryDepositEffect DEF StampInv
<1>5. /\ pending' = pending /\ queue' = queue /\ call' = call /\ pool' = pool
      /\ now' = now /\ seen' = seen /\ receipt' = receipt
    BY DEF ResubmitDeposit, DepositOpen, DepositEnds, RetryDeposit
<1>6. View(r, req[r], "idle")'
    <2>1. /\ req[r].fee \/ r \in pending'
          /\ req[r].status = "Succeeded" => r \in credited
          /\ r \notin credited => req[r].mint = NoMint /\ req[r].submit # "Submitted"
        BY <1>1, <1>2, <1>3, <1>5 DEF View, DepositOK
    <2> QED BY <1>2, <1>4, <2>1, CreditView DEF Becomes
<1>7. Where(r, "idle")' BY <1>3, <1>5, WhereKept
<1>8. RequestOK(r)' BY <1>6, <1>7 DEF RequestOK, Places
<1>9. ASSUME NEW x \in Req, x # r PROVE RequestOK(x)'
    <2>1. Kept(x) BY <1>4, <1>5, <1>9 DEF Kept, Becomes, CreditTried
    <2>2. ChainKept BY <1>5 DEF ChainKept
    <2> QED BY <2>1, <2>2, RequestKept DEF RunInv
<1>10. ChainOK'
    <2>1. ASSUME NEW m \in seen PROVE \E x \in Req : ~req'[x].deposit /\ req'[x].mint = m
        <3>1. PICK x \in Req : ~req[x].deposit /\ req[x].mint = m BY DEF RunInv, ChainOK
        <3> QED BY <1>2, <1>4, <3>1 DEF Becomes
    <2> QED BY <1>5, <2>1 DEF ChainOK, RunInv
<1>11. Unique(queue)' BY <1>5 DEF RunInv, Unique
<1> QED BY <1>8, <1>9, <1>10, <1>11 DEF RunInv

\* The tokens of a deposit are in: its submission ends with the credit.
LEMMA DepositPulledRun ==
    ASSUME StampInv, RunInv, NEW s \in Slot, DepositPulled(s)
    PROVE  RunInv'
<1>1. PICK r : r = call[s].req OBVIOUS
<1>2. call[s] # NoCall /\ call[s].phase = "DepositPullOk" /\ req[r].deposit
    BY <1>1, CallKnown DEF DepositPulled, AtPhase, CallOK
<1>3. /\ r \in Req /\ req[r] \in WrapStoredRequest /\ HoldsIn(call[s], r)
      /\ View(r, req[r], "DepositPullOk") /\ r \notin Members(queue)
      /\ Where(r, "DepositPullOk")
    BY <1>1, <1>2, HeldView DEF Own
<1>4. PICK q : q = [req[r] EXCEPT !.pulled = TRUE, !.updated_at = now] OBVIOUS
<1>5. /\ Fills(s, NoCall) /\ pending' = pending \ {r}
      /\ \E p : Becomes(r, p) /\ CreditTried(r, q, p)
      /\ UNCHANGED <<queue, scheduled, ledger, evm_nonce, pool, seen, receipt,
                     now, upgrades>>
    BY <1>1, <1>4, DepositPulledEffect DEF StampInv
<1>6. PICK p : Becomes(r, p) /\ CreditTried(r, q, p) BY <1>5
<1>7. /\ q.status = req[r].status /\ q.deposit = req[r].deposit /\ q.fee = req[r].fee
      /\ q.mint = req[r].mint /\ q.submit = req[r].submit
    BY <1>3, <1>4 DEF WrapStoredRequest
<1>8. View(r, req[r], "idle")'
    <2>1. /\ q.fee
          /\ q.status = "Succeeded" => r \in credited
          /\ r \notin credited => q.mint = NoMint /\ q.submit # "Submitted"
        BY <1>2, <1>3, <1>7 DEF View, RunOK, DepositOK, Own
    <2> QED BY <1>2, <1>6, <1>7, <2>1, CreditView DEF Becomes
<1>9. Where(r, "idle")' BY <1>3, <1>5, WhereFreed
<1>10. RequestOK(r)' BY <1>8, <1>9 DEF RequestOK, Places
<1>11. OthersStay(r) BY <1>5, <1>6 DEF OthersStay, CreditTried
<1>12. ForOnly(call[s], r) /\ ForOnly(NoCall, r) BY <1>1, ForOnlyOwn
<1>13. ChainKept BY <1>5 DEF ChainKept
<1>14. Unique(queue') BY <1>5 DEF RunInv
<1> QED BY <1>2, <1>3, <1>5, <1>6, <1>10, <1>11, <1>12, <1>13, <1>14, RunOne

\* The fee of a deposit is in: its submission goes on to the pull.  Tokens that
\* are in already are never met here.
LEMMA DepositFeeRun ==
    ASSUME StampInv, RunInv, NEW s \in Slot, DepositFeeCollected(s)
    PROVE  RunInv'
<1>1. PICK r : r = call[s].req OBVIOUS
<1>2. call[s] # NoCall /\ call[s].phase = "Fee" /\ req[r].deposit
    BY <1>1 DEF DepositFeeCollected, AtPhase
<1>3. /\ r \in Req /\ req[r] \in WrapStoredRequest
      /\ View(r, req[r], "Fee") /\ r \notin Members(queue)
      /\ \A t \in Slot : t # s => ~HoldsIn(call[t], r)
    BY <1>1, <1>2, HeldView DEF Own
<1>4. PICK q, c : /\ q = [req[r] EXCEPT !.fee = TRUE, !.updated_at = now]
                  /\ c = CallFor(r, "DepositPull", req[r].created_at)
    OBVIOUS
<1>5. ~req[r].pulled /\ r \in pending
    BY <1>2, <1>3 DEF View, RunOK, DepositOK, Own
<1>6. /\ Becomes(r, q) /\ Fills(s, c) /\ c # NoCall
      /\ pending' = pending /\ credited' = credited
      /\ UNCHANGED <<queue, scheduled, ledger, evm_nonce, pool, seen, receipt,
                     now, upgrades>>
    BY <1>1, <1>4, <1>5, DepositFeeCollectedEffect DEF StampInv
<1>7. /\ q.status = req[r].status /\ q.deposit = req[r].deposit /\ q.fee
      /\ q.mint = req[r].mint /\ q.submit = req[r].submit /\ q.pulled = req[r].pulled
      /\ q.recoverable = req[r].recoverable /\ q.withdraw_at = req[r].withdraw_at
      /\ q.updated_at = now
    BY <1>3, <1>4 DEF WrapStoredRequest
<1>8. c.req = r /\ c.phase = "DepositPull" BY <1>4, CallForFields
<1>9. Where(r, "DepositPull")'
    <2>1. HoldsIn(c, r) BY <1>6, <1>8 DEF HoldsIn, Own
    <2> QED BY <1>3, <1>6, <1>8, <2>1, WhereFilled
<1>10. View(r, req[r], "DepositPull")'
    <2>1. req'[r] = q BY <1>6 DEF Becomes
    <2>2. RunOK(req[r], "DepositPull", r \in pending)'
        <3>1. now < now + StaleAfter BY WrapAssumption DEF StampInv, TypeOK
        <3> QED BY <1>3, <1>5, <1>6, <1>7, <2>1, <3>1 DEF View, RunOK, Open, Own, Work
    <2>3. WrapOK(req[r], "DepositPull", r \in pending)'
        BY <1>2, <1>7, <2>1 DEF WrapOK
    <2>4. DepositOK(req[r], "DepositPull", r \in pending, r \in credited)'
        BY <1>3, <1>5, <1>6, <1>7, <2>1 DEF View, DepositOK
    <2>5. MintOK(r, req[r])' BY <1>2, <1>7, <2>1 DEF MintOK
    <2> QED BY <2>2, <2>3, <2>4, <2>5 DEF View
<1>11. RequestOK(r)' BY <1>9, <1>10 DEF RequestOK, Places, Own
<1>12. OthersStay(r) BY <1>6 DEF OthersStay
<1>13. ForOnly(call[s], r) /\ ForOnly(c, r) BY <1>1, <1>8, ForOnlyOwn
<1>14. ChainKept BY <1>6 DEF ChainKept
<1>15. Unique(queue') BY <1>6 DEF RunInv
<1> QED BY <1>2, <1>3, <1>6, <1>11, <1>12, <1>13, <1>14, <1>15, RunOne

\* The ledger's answer moves a call to the phase of its reply.
LEMMA LedgerRun ==
    ASSUME StampInv, RunInv, NEW s \in Slot, LedgerExecutes(s) \/ LedgerRefuses(s)
    PROVE  RunInv'
<1>1. PICK ok \in BOOLEAN : Answered(s, ok)
    BY DEF LedgerExecutes, LedgerRefuses
<1>2. InFlight(s) BY DEF LedgerExecutes, LedgerRefuses
<1>3. PICK d : Fills(s, d) /\ AnswerTo(call[s], d, ok)
    BY <1>1, <1>2, AnsweredEffect DEF StampInv
<1>4. PICK r : r = call[s].req OBVIOUS
<1>5. r \in Req /\ call[s] # NoCall BY <1>2, <1>4, CallKnown DEF InFlight
<1>6. /\ req' = req /\ pending' = pending /\ queue' = queue /\ pool' = pool
      /\ seen' = seen /\ receipt' = receipt /\ credited' = credited /\ now' = now
    BY DEF LedgerExecutes, LedgerRefuses, evm
<1>7. Becomes(r, req[r]) BY <1>5, <1>6, NoRecord DEF StampInv
<1>8. ChainKept BY <1>6 DEF ChainKept
<1>9. RequestOK(r)'
    <2>1. CASE call[s].phase \in {"Pull", "DepositPull"}
        <3>1. PICK w : w = call[s].phase OBVIOUS
        <3>2. /\ View(r, req[r], w) /\ r \notin Members(queue)
              /\ \A t \in Slot : t # s => ~HoldsIn(call[t], r)
            BY <1>4, <1>5, <2>1, <3>1, HeldView DEF Work, Own
        <3>3. /\ d # NoCall /\ d.req = r
              /\ w = "Pull" => d.phase \in {"PullOk", "PullErr"}
              /\ w = "DepositPull" => d.phase \in {"DepositPullOk", "DepositPullErr"}
            BY <1>3, <1>4, <2>1, <3>1 DEF AnswerTo
        <3>4. Where(r, d.phase)'
            <4>1. HoldsIn(d, r) BY <2>1, <3>1, <3>3 DEF HoldsIn, Work, Own
            <4> QED BY <1>3, <1>6, <3>2, <4>1, WhereFilled
        <3>5. View(r, req[r], d.phase)
            BY <2>1, <3>1, <3>2, <3>3
               DEF View, RunOK, WrapOK, DepositOK, Work, Own
        <3>6. View(r, req[r], d.phase)' BY <1>6, <1>8, <3>5, ViewKept
        <3> QED BY <2>1, <3>1, <3>3, <3>4, <3>6 DEF RequestOK, Places, Work, Own
    <2>2. CASE call[s].phase \notin {"Pull", "DepositPull"}
        <3>1. call[s].phase \in {"Refund", "LostPull", "LostRefund"}
            BY <1>3, <2>2 DEF AnswerTo
        <3>2. d = NoCall \/ d.phase \in {"RefundOk", "RefundErr"}
            BY <1>3, <3>1 DEF AnswerTo
        <3>3. \A t \in Slot : HoldsIn(call[t], r) \/ HoldsIn(call'[t], r) => call'[t] = call[t]
            BY <1>3, <3>1, <3>2 DEF Fills, HoldsIn, Work, Own
        <3>4. Kept(r) BY <1>6, <3>3 DEF Kept
        <3> QED BY <1>5, <1>8, <3>4, RequestKept DEF RunInv
    <2> QED BY <2>1, <2>2
<1>10. OthersStay(r) BY <1>6 DEF OthersStay
<1>11. ForOnly(call[s], r) /\ ForOnly(d, r)
    BY <1>3, <1>4, ForOnlyOwn DEF AnswerTo
<1>12. Unique(queue') BY <1>6 DEF RunInv
<1> QED BY <1>3, <1>5, <1>6, <1>7, <1>8, <1>9, <1>10, <1>11, <1>12, RunOne

-----------------------------------------------------------------------------
(* The mint and its receipt.                                               *)

\* The mint is accepted: it is the request's own, the first and pending.
LEMMA MintAcceptedRun ==
    ASSUME StampInv, RunInv, NEW s \in Slot, NEW price \in Prices, MintAccepted(s, price)
    PROVE  RunInv'
<1>1. PICK r, m : r = call[s].req /\ m = MintOf(s, price) OBVIOUS
<1>2. /\ call[s] # NoCall /\ call[s].phase = "Metadata" /\ ~req[r].deposit
      /\ m \notin seen
    BY <1>1 DEF MintAccepted, AtPhase
<1>3. /\ r \in Req /\ req[r] \in WrapStoredRequest /\ HoldsIn(call[s], r)
      /\ View(r, req[r], "Metadata") /\ r \notin Members(queue)
      /\ Where(r, "Metadata") /\ Known(r)
    BY <1>1, <1>2, HeldView DEF Work
<1>4. /\ m \in Mint /\ m.payload = PayloadOf[r]
      /\ Becomes(r, MintStored(req[r], m)) /\ Fills(s, NoCall)
    BY <1>1, MintAcceptedEffect DEF StampInv
<1>5. /\ pending' = pending /\ queue' = queue /\ credited' = credited /\ now' = now
      /\ pool' = m /\ seen' = seen \cup {m}
      /\ receipt' = [x \in seen \cup {m} |-> IF x = m THEN "none" ELSE receipt[x]]
    BY <1>1 DEF MintAccepted, EndOfRun
<1>6. /\ req'[r].status = "Running" /\ req'[r].deposit = req[r].deposit
      /\ req'[r].fee = req[r].fee /\ req'[r].pulled /\ req'[r].mint = m
      /\ req'[r].submit = "Submitted" /\ ~req'[r].recoverable
      /\ req'[r].withdraw_at = req[r].withdraw_at
    BY <1>3, <1>4 DEF Becomes, MintStored, WrapStoredRequest
<1>7. m # NoMint /\ m # Credit /\ \A x \in seen : receipt'[x] = receipt[x]
    BY <1>2, <1>4, <1>5, WrapAssumption
<1>8. Open(req[r]) /\ (req[r].fee \/ r \in pending)
    BY <1>2, <1>3 DEF View, RunOK, WrapOK, Work, Known
<1>9. ChainKept BY <1>5, <1>7 DEF ChainKept
<1>10. View(r, req[r], "idle")'
    <2>1. RunOK(req[r], "idle", r \in pending)'
        BY <1>6 DEF RunOK, Work, Own
    <2>2. WrapOK(req[r], "idle", r \in pending)'
        BY <1>5, <1>6, <1>7, <1>8 DEF WrapOK, Own
    <2>3. DepositOK(req[r], "idle", r \in pending, r \in credited)'
        BY <1>2, <1>6 DEF DepositOK
    <2>4. MintOK(r, req[r])'
        BY <1>4, <1>5, <1>6, <1>7, <1>8 DEF MintOK, Open
    <2> QED BY <2>1, <2>2, <2>3, <2>4 DEF View
<1>11. Where(r, "idle")' BY <1>3, <1>4, <1>5, WhereFreed
<1>12. ASSUME NEW x \in Req, x # r PROVE RequestOK(x)'
    <2>1. req'[x] = req[x] BY <1>4, <1>12 DEF Becomes
    <2>2. \A t \in Slot : HoldsIn(call[t], x) \/ HoldsIn(call'[t], x) => call'[t] = call[t]
        BY <1>1, <1>4, <1>12 DEF Fills, HoldsIn
    <2>3. Kept(x) BY <1>5, <2>1, <2>2 DEF Kept
    <2> QED BY <1>9, <2>3, RequestKept DEF RunInv
<1>13. ChainOK'
    <2>1. ASSUME NEW n \in seen PROVE \E x \in Req : ~req'[x].deposit /\ req'[x].mint = n
        <3>1. PICK x \in Req : ~req[x].deposit /\ req[x].mint = n BY DEF RunInv, ChainOK
        <3>2. n # NoMint BY WrapAssumption DEF StampInv, TypeOK
        <3>3. x # r BY <1>8, <3>1, <3>2 DEF Open
        <3> QED BY <1>4, <3>1, <3>3 DEF Becomes
    <2>2. ~req'[r].deposit /\ req'[r].mint = m BY <1>2, <1>6
    <2>3. receipt'[m] = "none" BY <1>5
    <2> QED BY <1>3, <1>5, <2>1, <2>2, <2>3 DEF ChainOK
<1>14. Unique(queue)' BY <1>5 DEF RunInv, Unique
<1>15. RequestOK(r)' BY <1>10, <1>11 DEF RequestOK, Places
<1> QED BY <1>12, <1>13, <1>14, <1>15 DEF RunInv

\* With mints of their own, the chain knows no mint of an open request.
LEMMA NoMintSeen ==
    ASSUME StampInv, RunInv, OwnMints, NEW s \in Slot, NEW price \in Prices
    PROVE  ~MintSeen(s, price)
<1> SUFFICES ASSUME MintSeen(s, price) PROVE FALSE
    OBVIOUS
<1>1. PICK r, m : r = call[s].req /\ m = MintOf(s, price) OBVIOUS
<1>2. call[s] # NoCall /\ call[s].phase = "Metadata" /\ m \in seen
    BY <1>1 DEF MintSeen, AtPhase
<1>3. r \in Req /\ View(r, req[r], "Metadata")
    BY <1>1, <1>2, HeldView DEF Work
<1>4. m \in Mint /\ m.payload = PayloadOf[r]
    BY <1>1, MintSeenEffect DEF StampInv
<1>5. m # NoMint BY <1>4, WrapAssumption
<1>6. PICK x \in Req : ~req[x].deposit /\ req[x].mint = m
    BY <1>2 DEF RunInv, ChainOK
<1>7. PayloadOf[x] = PayloadOf[r]
    BY <1>4, <1>5, <1>6 DEF RunInv, RequestOK, View, MintOK
<1>8. x = r BY <1>3, <1>6, <1>7 DEF OwnMints
<1> QED BY <1>3, <1>5, <1>6, <1>8 DEF View, RunOK, Open, Work

\* What settling does to the view of a request: a settled wrap is held by
\* nobody, and any other view stays.
LEMMA SettledView ==
    ASSUME StampInv, NEW r \in Req, NEW w \in Places, View(r, req[r], w),
           SameFields(req'[r], req[r]), SettledAs(r, receipt', req'[r]),
           seen' = seen, now' = now, pending' = pending, credited' = credited,
           \A m \in seen : receipt[m] # "none" => receipt'[m] = receipt[m],
           receipt' \in [seen -> {"none", "ok", "reverted"}]
    PROVE  View(r, req[r], w)'
<1>1. /\ req'[r].deposit = req[r].deposit /\ req'[r].fee = req[r].fee
      /\ req'[r].pulled = req[r].pulled /\ req'[r].mint = req[r].mint
      /\ req'[r].submit = req[r].submit /\ req'[r].withdraw_at = req[r].withdraw_at
    BY DEF SameFields
<1>2. NoMint \notin seen /\ Credit \notin seen BY WrapAssumption DEF StampInv, TypeOK
<1>3. /\ req[r].deposit \in BOOLEAN /\ req[r].status \in Statuses
      /\ \A m \in seen : receipt[m] \in {"none", "ok", "reverted"}
    BY DEF StampInv, TypeOK, WrapStoredRequest
<1>4. CASE Settles(r, receipt')
    <2>1. /\ ~req[r].deposit /\ req[r].status = "Running" /\ req[r].submit = "Submitted"
          /\ req[r].mint \in seen /\ receipt'[req[r].mint] # "none"
        BY <1>4 DEF Settles
    <2>2. /\ req'[r].status = IF receipt'[req[r].mint] = "ok" THEN "Succeeded" ELSE "Failed"
          /\ req'[r].recoverable = (receipt'[req[r].mint] # "ok")
        BY <1>4 DEF SettledAs
    <2>3. w \notin Work \cup Own \cup {"queue"}
        BY <2>1 DEF View, RunOK, WrapOK, Open
    <2>4. /\ receipt'[req[r].mint] \in {"ok", "reverted"}
          /\ req'[r].status \in {"Succeeded", "Failed"}
        BY <2>1, <2>2
    <2>5. RunOK(req[r], w, r \in pending)'
        BY <2>3, <2>4 DEF RunOK, Work, Own
    <2>6. WrapOK(req[r], w, r \in pending)'
        BY <1>1, <2>1, <2>3, <2>4 DEF View, WrapOK, Open
    <2>7. DepositOK(req[r], w, r \in pending, r \in credited)'
        BY <1>1, <2>1 DEF DepositOK
    <2>8. MintOK(r, req[r])'
        BY <1>1, <1>2, <2>1, <2>2, <2>4 DEF View, MintOK
    <2> QED BY <2>5, <2>6, <2>7, <2>8 DEF View
<1>5. CASE ~Settles(r, receipt')
    <2>1. /\ req'[r].status = req[r].status /\ req'[r].recoverable = req[r].recoverable
          /\ req'[r].updated_at \in {req[r].updated_at, now}
        BY <1>5 DEF SettledAs
    <2>2. RunOK(req[r], w, r \in pending)'
        <3>1. now < now + StaleAfter BY WrapAssumption DEF StampInv, TypeOK
        <3>2. now < req[r].updated_at + StaleAfter => now < req'[r].updated_at + StaleAfter
            BY <2>1, <3>1
        <3> QED BY <1>1, <2>1, <3>2 DEF View, RunOK, Open
    <2>3. WrapOK(req[r], w, r \in pending)'
        BY <1>1, <2>1 DEF View, WrapOK, Open
    <2>4. DepositOK(req[r], w, r \in pending, r \in credited)'
        BY <1>1, <2>1 DEF View, DepositOK
    <2>5. MintOK(r, req[r])'
        BY <1>1, <2>1 DEF View, MintOK
    <2> QED BY <2>2, <2>3, <2>4, <2>5 DEF View
<1> QED BY <1>4, <1>5

\* The pending mint is executed: its wrap is settled.
LEMMA MintExecutedRun ==
    ASSUME StampInv, RunInv, NEW outcome \in {"ok", "reverted"}, MintExecuted(outcome)
    PROVE  RunInv'
<1>1. \A r \in Req : SameFields(req'[r], req[r]) /\ SettledAs(r, receipt', req'[r])
    BY MintExecutedEffect DEF StampInv
<1>2. /\ pool # NoMint /\ pool' = NoMint /\ seen' = seen /\ credited' = credited
      /\ pending' = pending /\ queue' = queue /\ call' = call /\ now' = now
      /\ receipt' = [receipt EXCEPT ![pool] = outcome]
    BY DEF MintExecuted
<1>3. pool \in seen /\ receipt[pool] = "none" BY <1>2 DEF RunInv, ChainOK
<1>4. receipt' \in [seen -> {"none", "ok", "reverted"}]
    BY <1>2 DEF StampInv, TypeOK
<1>5. \A m \in seen : receipt[m] # "none" => receipt'[m] = receipt[m]
    BY <1>2, <1>3 DEF StampInv, TypeOK
<1>6. ASSUME NEW r \in Req PROVE RequestOK(r)'
    <2>1. PICK w \in Places : Where(r, w) /\ View(r, req[r], w) BY DEF RunInv, RequestOK
    <2>2. Where(r, w)' BY <1>2, <2>1, WhereKept
    <2>3. View(r, req[r], w)' BY <1>1, <1>2, <1>4, <1>5, <2>1, SettledView
    <2> QED BY <2>2, <2>3 DEF RequestOK
<1>7. ChainOK' BY <1>1, <1>2 DEF RunInv, ChainOK, SameFields
<1>8. Unique(queue)' BY <1>2 DEF RunInv, Unique
<1> QED BY <1>6, <1>7, <1>8 DEF RunInv

-----------------------------------------------------------------------------
(* Repair, upgrade and time.                                               *)

\* A stale Running request has no run, so the repair queues only deposits
\* whose submission was lost.
LEMMA RepairRun ==
    ASSUME StampInv, RunInv, Repair
    PROVE  RunInv'
<1>1. PICK runs \in SUBSET Req :
          /\ \A r \in Req : Repaired(r, runs)
          /\ Members(queue') = Members(queue) \cup runs
          /\ \E p \in Orders(ToRequeue(runs)) : queue' = queue \o p
    BY RepairEffect DEF StampInv
<1>2. /\ pending' = pending /\ call' = call /\ now' = now /\ seen' = seen /\ pool' = pool
      /\ receipt' = receipt /\ credited' = credited
    BY DEF Repair, evm
<1>3. receipt' \in [seen -> {"none", "ok", "reverted"}] BY <1>2 DEF StampInv, TypeOK
<1>4. ASSUME NEW r \in Req PROVE RequestOK(r)'
    <2>1. PICK w \in Places : Where(r, w) /\ View(r, req[r], w) BY DEF RunInv, RequestOK
    <2>2. Repaired(r, runs) BY <1>1
    <2>3. CASE r \in runs
        <3>1. /\ req[r].status = "Running" /\ Restartable(req[r]) /\ Stale(req[r])
              /\ req'[r].status = "Queued" /\ req'[r].recoverable = req[r].recoverable
              /\ SameFields(req'[r], req[r])
            BY <2>2, <2>3 DEF Repaired
        <3>2. ~(now < req[r].updated_at + StaleAfter)
            <4>1. now \in Int /\ StaleAfter \in Int /\ req[r].updated_at \in Int
                BY WrapAssumption DEF StampInv, TypeOK, WrapStoredRequest
            <4> QED BY <3>1, <4>1 DEF Stale
        <3>3. w \notin Work \cup Own BY <2>1, <3>1, <3>2 DEF View, RunOK
        <3>4. req[r].deposit BY <2>1, <3>1, <3>3 DEF View, WrapOK, Restartable
        <3>5. r \in pending BY <2>1, <3>1, <3>4 DEF View, DepositOK
        <3>6. req[r].withdraw_at = 0 BY <3>4 DEF StampInv, RecordOK
        <3>7. Open(req[r])
            BY <2>1, <3>1, <3>6 DEF View, RunOK, Open, Restartable
        <3>8. Where(r, "queue")'
            <4>1. \A s \in Slot : ~HoldsIn(call[s], r) BY <2>1, <3>3 DEF Where
            <4> QED BY <1>1, <1>2, <2>3, <4>1, WhereLoose
        <3>9. View(r, req[r], "queue")'
            <4>1. RunOK(req[r], "queue", r \in pending)'
                BY <3>1, <3>7 DEF RunOK, Open, SameFields, Work, Own
            <4>2. WrapOK(req[r], "queue", r \in pending)'
                BY <3>1, <3>4 DEF WrapOK, SameFields
            <4>3. DepositOK(req[r], "queue", r \in pending, r \in credited)'
                BY <1>2, <2>1, <3>1, <3>5 DEF View, DepositOK, SameFields, Own
            <4>4. MintOK(r, req[r])' BY <3>1, <3>4 DEF MintOK, SameFields
            <4> QED BY <4>1, <4>2, <4>3, <4>4 DEF View
        <3> QED BY <3>8, <3>9 DEF RequestOK, Places
    <2>4. CASE r \notin runs
        <3>1. SameFields(req'[r], req[r]) /\ SettledAs(r, receipt', req'[r])
            BY <1>2, <2>2, <2>4 DEF Repaired
        <3>2. View(r, req[r], w)' BY <1>2, <1>3, <2>1, <3>1, SettledView
        <3>3. Where(r, w)' BY <1>1, <1>2, <2>1, <2>4, WhereKept
        <3> QED BY <3>2, <3>3 DEF RequestOK
    <2> QED BY <2>3, <2>4
<1>5. ChainOK'
    <2>1. \A r \in Req : req'[r].deposit = req[r].deposit /\ req'[r].mint = req[r].mint
        BY <1>1 DEF Repaired, SameFields
    <2> QED BY <1>2, <2>1 DEF RunInv, ChainOK
<1>6. Unique(queue)'
    <2>1. Unique(queue') BY <1>1, RequeueUnique DEF StampInv, RunInv
    <2> QED BY <2>1 DEF Unique
<1> QED BY <1>4, <1>5, <1>6 DEF RunInv

\* An upgrade forgets every run and every submission; the wraps that were
\* worked on are queued again, and deposits wait for the repair.
LEMMA UpgradeRun ==
    ASSUME StampInv, RunInv, NEW enabled \in BOOLEAN, Upgrade(enabled)
    PROVE  RunInv'
<1>1. PICK runs \in SUBSET Req :
          /\ \A r \in Req : Reloaded(r, runs)
          /\ Members(queue') = Members(queue) \cup runs
          /\ \E p \in Orders(ToRequeue(runs)) : queue' = queue \o p
    BY UpgradeEffect DEF StampInv
<1>2. \A s \in Slot : LostAs(call[s], call'[s]) BY UpgradeEffect DEF StampInv
<1>3. /\ pending' = pending /\ now' = now /\ seen' = seen /\ pool' = pool
      /\ receipt' = receipt /\ credited' = credited
    BY DEF Upgrade, evm
<1>4. ASSUME NEW r \in Req PROVE RequestOK(r)'
    <2>1. PICK w \in Places : Where(r, w) /\ View(r, req[r], w) BY DEF RunInv, RequestOK
    <2>2. Reloaded(r, runs) BY <1>1
    <2>3. PICK v : v = IF r \in Members(queue') THEN "queue" ELSE "idle" OBVIOUS
    <2>4. Where(r, v)'
        <3>1. \A s \in Slot : ~HoldsIn(call'[s], r)
            BY <1>2 DEF LostAs, HoldsIn, Work, Own
        <3> QED BY <2>3, <3>1, WhereLoose
    <2>5. View(r, req[r], v)'
        <3>1. CASE r \in runs
            <4>1. /\ ~req[r].deposit /\ SameFields(req'[r], req[r])
                  /\ \/ req[r].status = "Queued"
                     \/ req[r].status = "Running" /\ Restartable(req[r])
                  /\ req'[r].status = "Queued" /\ req'[r].recoverable = req[r].recoverable
                BY <2>2, <3>1 DEF Reloaded
            <4>2. v = "queue" BY <1>1, <2>3, <3>1
            <4>3. Open(req[r])
                BY <2>1, <4>1 DEF View, RunOK, WrapOK, Open, Restartable
            <4>4. req[r].fee \/ r \in pending
                BY <2>1, <4>1 DEF View, WrapOK
            <4>5. RunOK(req[r], v, r \in pending)'
                BY <4>1, <4>2, <4>3 DEF RunOK, Open, SameFields, Work, Own
            <4>6. WrapOK(req[r], v, r \in pending)'
                BY <1>3, <4>1, <4>2, <4>4 DEF WrapOK, SameFields, Own
            <4>7. DepositOK(req[r], v, r \in pending, r \in credited)'
                BY <4>1 DEF DepositOK, SameFields
            <4>8. MintOK(r, req[r])'
                BY <2>1, <4>1, <4>3 DEF View, MintOK, SameFields, Open
            <4> QED BY <4>5, <4>6, <4>7, <4>8 DEF View
        <3>2. CASE r \notin runs
            <4>1. /\ req'[r] = req[r]
                  /\ ~req[r].deposit => ~(req[r].status = "Running" /\ Restartable(req[r]))
                BY <2>2, <3>2 DEF Reloaded
            <4>2. v = IF w = "queue" THEN "queue" ELSE "idle"
                <5>1. w = "queue" <=> InQueue(r) BY <2>1 DEF Where, Work, Own
                <5>2. r \in Members(queue') <=> InQueue(r)
                    BY <1>1, <3>2 DEF InQueue
                <5> QED BY <2>3, <5>1, <5>2
            <4>3. RunOK(req[r], v, r \in pending)
                BY <2>1, <4>2 DEF View, RunOK, Work, Own
            <4>4. WrapOK(req[r], v, r \in pending)
                BY <2>1, <4>1, <4>2 DEF View, RunOK, WrapOK, Open, Restartable, Work, Own
            <4>5. DepositOK(req[r], v, r \in pending, r \in credited)
                BY <2>1, <4>2 DEF View, DepositOK, Work, Own
            <4>6. View(r, req[r], v) BY <2>1, <4>3, <4>4, <4>5 DEF View
            <4>7. ChainKept BY <1>3 DEF ChainKept
            <4> QED BY <1>3, <4>1, <4>6, <4>7, ViewKept
        <3> QED BY <3>1, <3>2
    <2> QED BY <2>3, <2>4, <2>5 DEF RequestOK, Places
<1>5. ChainOK'
    <2>1. \A r \in Req : req'[r].deposit = req[r].deposit /\ req'[r].mint = req[r].mint
        BY <1>1 DEF Reloaded, SameFields
    <2> QED BY <1>3, <2>1 DEF RunInv, ChainOK
<1>6. Unique(queue)'
    <2>1. Unique(queue') BY <1>1, RequeueUnique DEF StampInv, RunInv
    <2> QED BY <2>1 DEF Unique
<1> QED BY <1>4, <1>5, <1>6 DEF RunInv

\* Time passes; while replies are timely, no held request becomes stale.
LEMMA AdvanceRun ==
    ASSUME StampInv, RunInv, Timely, Advance
    PROVE  RunInv'
<1>1. /\ now' = now + 1
      /\ \A s \in Slot : Live(s) => now + 1 < req[call[s].req].updated_at + StaleAfter
    BY DEF Advance, Timely
<1>2. /\ req' = req /\ pending' = pending /\ queue' = queue /\ call' = call
      /\ pool' = pool /\ seen' = seen /\ receipt' = receipt /\ credited' = credited
    BY DEF Advance, evm
<1>3. ASSUME NEW r \in Req PROVE RequestOK(r)'
    <2>1. PICK w \in Places : Where(r, w) /\ View(r, req[r], w) BY DEF RunInv, RequestOK
    <2>2. Where(r, w)' BY <1>2, <2>1, WhereKept
    <2>3. w \in Work \cup Own => now + 1 < req[r].updated_at + StaleAfter
        <3>1. SUFFICES ASSUME w \in Work \cup Own
                       PROVE  now + 1 < req[r].updated_at + StaleAfter
            OBVIOUS
        <3>2. PICK s \in Slot : HoldsIn(call[s], r)
            BY <2>1, <3>1 DEF Where, Work, Own
        <3> QED BY <1>1, <3>2 DEF Live, HoldsIn, Work, Own
    <2>4. RunOK(req[r], w, r \in pending)'
        BY <1>1, <1>2, <2>1, <2>3 DEF View, RunOK, Open
    <2>5. WrapOK(req[r], w, r \in pending)'
        BY <1>2, <2>1 DEF View, WrapOK, Open
    <2>6. DepositOK(req[r], w, r \in pending, r \in credited)'
        BY <1>2, <2>1 DEF View, DepositOK
    <2>7. MintOK(r, req[r])' BY <1>2, <2>1 DEF View, MintOK
    <2> QED BY <2>2, <2>4, <2>5, <2>6, <2>7 DEF RequestOK, View
<1>4. ChainOK' BY <1>2 DEF RunInv, ChainOK
<1>5. Unique(queue)' BY <1>2 DEF RunInv, Unique
<1> QED BY <1>3, <1>4, <1>5 DEF RunInv

\* Dropping a mint from the pool, or no step at all, moves no request.
LEMMA QuietRun ==
    ASSUME StampInv, RunInv, MintDropped \/ UNCHANGED vars
    PROVE  RunInv'
<1>1. /\ req' = req /\ pending' = pending /\ queue' = queue /\ call' = call
      /\ seen' = seen /\ receipt' = receipt /\ credited' = credited /\ now' = now
      /\ pool' = pool \/ pool' = NoMint
    BY DEF MintDropped, vars, evm
<1>2. ASSUME NEW r \in Req PROVE RequestOK(r)'
    <2>1. Kept(r) /\ ChainKept BY <1>1 DEF Kept, ChainKept
    <2> QED BY <2>1, RequestKept DEF RunInv
<1>3. ChainOK' BY <1>1 DEF RunInv, ChainOK
<1>4. Unique(queue)' BY <1>1 DEF RunInv, Unique
<1> QED BY <1>2, <1>3, <1>4 DEF RunInv

-----------------------------------------------------------------------------
(* The invariant.                                                          *)

\* Nothing is stored, queued or minted at first.
LEMMA RunInit == Init => RunInv
<1> SUFFICES ASSUME Init PROVE RunInv
    OBVIOUS
<1>1. queue = <<>> /\ Members(queue) = {} /\ Unique(queue)
    BY DEF Init, Members, Unique
<1>2. ChainOK BY DEF Init, ChainOK
<1>3. ASSUME NEW r \in Req PROVE RequestOK(r)
    <2>1. req[r] = Blank BY DEF Init
    <2>2. /\ Blank.status = "None" /\ Blank.deposit = FALSE /\ Blank.mint = NoMint
          /\ Blank.submit = "NotSubmitted" /\ Blank.recoverable = FALSE
          /\ Blank.withdraw_at = 0
        BY DEF Blank
    <2>3. Where(r, "idle") BY <1>1 DEF Where, InQueue, HoldsIn, Init
    <2>4. RunOK(req[r], "idle", r \in pending)
        BY <2>1, <2>2 DEF RunOK, Work, Own
    <2>5. WrapOK(req[r], "idle", r \in pending)
        BY <2>1, <2>2 DEF WrapOK, Own
    <2>6. DepositOK(req[r], "idle", r \in pending, r \in credited)
        BY <2>1, <2>2 DEF DepositOK
    <2>7. MintOK(r, req[r])
        BY <2>1, <2>2, WrapAssumption DEF MintOK
    <2>8. "idle" \in Places BY DEF Places
    <2> QED BY <2>3, <2>4, <2>5, <2>6, <2>7, <2>8 DEF RequestOK, View
<1> QED BY <1>1, <1>2, <1>3 DEF RunInv

\* Every handler keeps it.
LEMMA RunStep ==
    ASSUME Timely, OwnMints, StampInv, RunInv, [Next]_vars
    PROVE  RunInv'
<1>1. ASSUME NEW s \in Slot, NEW r \in Req,
             \/ Submit(s, r) \/ Recover(s, r) \/ SubmitDeposit(s, r)
             \/ ResubmitDeposit(s, r)
      PROVE  RunInv'
    BY <1>1, SubmitRun, RecoverRun, SubmitDepositRun, CreditRun
<1>2. ASSUME NEW r \in Req, RetryDeposit(r) PROVE RunInv'
    BY <1>2, CreditRun
<1>3. ASSUME NEW s \in Slot,
             \/ FeeCollected(s) \/ FeeRefused(s) \/ WorkerTake(s) \/ PullDone(s)
             \/ PullFailed(s) \/ MetadataFailed(s) \/ RefundReply(s)
             \/ DepositFeeCollected(s) \/ DepositPulled(s) \/ DepositPullFailed(s)
             \/ LedgerExecutes(s) \/ LedgerRefuses(s)
      PROVE  RunInv'
    BY <1>3, FeeCollectedRun, FeeRefusedRun, WorkerTakeRun, PullDoneRun,
       PullFailedRun, MetadataFailedRun, RefundReplyRun, DepositFeeRun,
       DepositPulledRun, DepositPullFailedRun, LedgerRun
<1>4. ASSUME NEW s \in Slot, NEW price \in Prices,
             MintAccepted(s, price) \/ MintSeen(s, price) \/ MintRefused(s, price)
      PROVE  RunInv'
    BY <1>4, MintAcceptedRun, NoMintSeen, MintRefusedRun
<1>5. ASSUME NEW outcome \in {"ok", "reverted"}, MintExecuted(outcome) PROVE RunInv'
    BY <1>5, MintExecutedRun
<1>6. ASSUME NEW enabled \in BOOLEAN, Upgrade(enabled) PROVE RunInv'
    BY <1>6, UpgradeRun
<1> QED BY <1>1, <1>2, <1>3, <1>4, <1>5, <1>6, NoMintedInQueue, RepairRun,
           AdvanceRun, QuietRun DEF Next

\* Under the two conditions every request is in one place, and its record,
\* its mint and its run agree, over all replies, repairs and upgrades.
THEOREM RunsAlwaysHold ==
    ASSUME Timely, OwnMints PROVE Spec => [](StampInv /\ RunInv)
<1>1. Init => StampInv /\ RunInv BY StampInit, RunInit
<1>2. StampInv /\ RunInv /\ [Next]_vars => StampInv' /\ RunInv'
    BY StampStep, RunStep
<1> QED BY <1>1, <1>2, PTL DEF Spec

-----------------------------------------------------------------------------
(* What follows.                                                           *)

\* The cardinality of a set without two elements.
LEMMA AtMostOne ==
    ASSUME NEW S, \A x, y \in S : x = y
    PROVE  Cardinality(S) = IF S = {} THEN 0 ELSE 1
<1>1. CASE S = {} BY <1>1, FS_EmptySet
<1>2. CASE S # {}
    <2>1. PICK x \in S : TRUE BY <1>2
    <2>2. S = {x} BY <2>1
    <2> QED BY <1>2, <2>2, FS_Singleton
<1> QED BY <1>1, <1>2

\* A mint with the contents of a request is the request's own mint.
LEMMA OnlyMint ==
    ASSUME StampInv, RunInv, OwnMints, NEW m \in seen
    PROVE  \E r \in Req : /\ PayloadOf[r] = m.payload
                          /\ ~req[r].deposit /\ req[r].mint = m /\ req[r].pulled
                          /\ m # NoMint
<1>1. PICK r \in Req : ~req[r].deposit /\ req[r].mint = m
    BY DEF RunInv, ChainOK
<1>2. m # NoMint BY WrapAssumption DEF StampInv, TypeOK
<1>3. MintOK(r, req[r]) BY DEF RunInv, RequestOK, View
<1> QED BY <1>1, <1>2, <1>3 DEF MintOK

\* execute_wrap_request submits one mint for one pull, and
\* recover_failed_wrap refunds only after the mint reverted or was never
\* submitted: what was minted, may still be minted or was refunded is backed.
THEOREM AlwaysMintsAreBacked ==
    ASSUME Timely, OwnMints PROVE Spec => []MintsAreBacked
<1>1. ASSUME StampInv, RunInv, NEW p \in Payload
      PROVE  Cardinality(Minted(p)) + Cardinality(Mintable(p))
                 + Cardinality(Transfers("Refund", p))
             <= Cardinality(Transfers("Pull", p))
    <2>1. \A m \in Minted(p) : m \in seen /\ m.payload = p /\ receipt[m] = "ok"
        BY DEF Minted
    <2>2. \A m \in Mintable(p) : m \in seen /\ m.payload = p /\ receipt[m] = "none"
        BY <1>1 DEF Mintable, RunInv, ChainOK
    <2>3. \A m \in seen : m.payload = p =>
              \E r \in Req : /\ PayloadOf[r] = p /\ ~req[r].deposit
                             /\ req[r].mint = m /\ req[r].pulled /\ m # NoMint
        BY <1>1, OnlyMint
    <2>4. \A m, n \in seen : m.payload = p /\ n.payload = p => m = n
        BY <2>3 DEF OwnMints
    <2>5. \A k : \A x \in Transfers(k, p) :
              x \in ledger /\ x \in Transfer /\ x.req \in Req /\ PayloadOf[x.req] = p
              /\ x.kind = k /\ TransferOK(x)
        BY <1>1 DEF Transfers, StampInv, TypeOK, Transfer
    <2>6. ASSUME NEW k \in {"Pull", "Refund"},
                 NEW x \in Transfers(k, p), NEW y \in Transfers(k, p)
          PROVE  x = y
        <3>1. x.req = y.req BY <2>5 DEF OwnMints
        <3>2. x.stamp = y.stamp BY <2>5, <3>1 DEF TransferOK
        <3> QED BY <2>5, <3>1, <3>2 DEF Transfer
    <2>7. ASSUME NEW r \in Req, PayloadOf[r] = p, Pulled(r)
          PROVE  Transfers("Pull", p) # {}
        BY <2>7 DEF Pulled, Transfers
    <2>8. \A m \in seen : m.payload = p => Transfers("Pull", p) # {}
        BY <1>1, <2>3, <2>7 DEF StampInv, RecordOK
    <2>9. Transfers("Refund", p) # {} => Transfers("Pull", p) # {}
        BY <2>5, <2>7 DEF TransferOK
    <2>10. ASSUME NEW m \in seen, m.payload = p, NEW x \in Transfers("Refund", p)
           PROVE  receipt[m] = "reverted"
        <3>1. PICK r \in Req : PayloadOf[r] = p /\ ~req[r].deposit /\ req[r].mint = m
                               /\ m # NoMint
            BY <2>3, <2>10
        <3>2. x.req = r BY <2>5, <3>1 DEF OwnMints
        <3>3. req[r].withdraw_at # 0 BY <2>5, <3>2 DEF TransferOK
        <3>4. MintOK(r, req[r]) BY <1>1 DEF RunInv, RequestOK, View
        <3> QED BY <3>1, <3>3, <3>4 DEF MintOK
    <2>11. Cardinality(Minted(p)) = IF Minted(p) = {} THEN 0 ELSE 1
        BY <2>1, <2>4, AtMostOne
    <2>12. Cardinality(Mintable(p)) = IF Mintable(p) = {} THEN 0 ELSE 1
        BY <2>2, <2>4, AtMostOne
    <2>13. \A k \in {"Pull", "Refund"} :
              Cardinality(Transfers(k, p)) = IF Transfers(k, p) = {} THEN 0 ELSE 1
        BY <2>6, AtMostOne
    <2>14. Minted(p) = {} \/ Mintable(p) = {} BY <2>1, <2>2, <2>4
    <2>15. Minted(p) = {} \/ Transfers("Refund", p) = {} BY <2>1, <2>10
    <2>16. Mintable(p) = {} \/ Transfers("Refund", p) = {} BY <2>2, <2>10
    <2>17. Minted(p) # {} \/ Mintable(p) # {} => Transfers("Pull", p) # {}
        BY <2>1, <2>2, <2>8
    <2> QED BY <2>9, <2>11, <2>12, <2>13, <2>14, <2>15, <2>16, <2>17
<1>2. StampInv /\ RunInv => MintsAreBacked BY <1>1 DEF MintsAreBacked
<1> QED BY <1>2, RunsAlwaysHold, PTL

\* settle_submitted_wrap_mint_receipts reports success only for a receipt of
\* the request's own mint, and a deposit succeeds only when it is credited.
THEOREM AlwaysSucceededIsMinted ==
    ASSUME Timely, OwnMints PROVE Spec => []SucceededIsMinted
<1>1. ASSUME StampInv, RunInv, NEW p \in Payload
      PROVE  Cardinality({r \in Req : /\ PayloadOf[r] = p
                                      /\ ~req[r].deposit
                                      /\ req[r].status = "Succeeded"})
                 <= Cardinality(Minted(p))
    <2> DEFINE S == {r \in Req : /\ PayloadOf[r] = p
                                 /\ ~req[r].deposit
                                 /\ req[r].status = "Succeeded"}
    <2>1. Cardinality(S) = IF S = {} THEN 0 ELSE 1
        BY AtMostOne DEF OwnMints
    <2>2. ASSUME NEW m \in Minted(p), NEW n \in Minted(p) PROVE m = n
        BY <1>1, OnlyMint DEF Minted, OwnMints
    <2>3. Cardinality(Minted(p)) = IF Minted(p) = {} THEN 0 ELSE 1
        BY <2>2, AtMostOne
    <2>4. ASSUME NEW r \in S PROVE Minted(p) # {}
        <3>1. MintOK(r, req[r]) BY <1>1 DEF RunInv, RequestOK, View
        <3>2. req[r].mint \in seen /\ req[r].mint.payload = p
              /\ receipt[req[r].mint] = "ok"
            BY <3>1 DEF MintOK
        <3> QED BY <3>2 DEF Minted
    <2> QED BY <2>1, <2>3, <2>4
<1>2. ASSUME StampInv, RunInv, NEW r \in Req, req[r].deposit,
             req[r].status = "Succeeded"
      PROVE  r \in credited
    <2>1. PICK w \in Places : View(r, req[r], w) BY <1>2 DEF RunInv, RequestOK
    <2> QED BY <1>2, <2>1 DEF View, DepositOK
<1>3. StampInv /\ RunInv => SucceededIsMinted BY <1>1, <1>2 DEF SucceededIsMinted
<1> QED BY <1>3, RunsAlwaysHold, PTL

\* repair_stale_operations, retry_native_deposit and the upgrade leave no
\* request behind: a Running wrap has a run or a submitted mint, and a pulled
\* deposit that is not credited has a run, a place in the queue, a repair to
\* come or a caller who may go on with it.
THEOREM AlwaysNothingIsStuck ==
    ASSUME Timely, OwnMints PROVE Spec => []NothingIsStuck
<1>1. ASSUME StampInv, RunInv, NEW r \in Req, NEW w, Where(r, w), w \in Work \cup Own
      PROVE  \E s \in Slot : Live(s) /\ call[s].req = r
    BY <1>1 DEF Where, Live, HoldsIn, Work, Own
<1>2. ASSUME StampInv, RunInv, NEW r \in Req, req[r].status = "Running",
             ~req[r].deposit
      PROVE  \/ req[r].submit = "Submitted" /\ req[r].mint # NoMint
             \/ \E s \in Slot : Live(s) /\ call[s].req = r
    <2>1. PICK w \in Places : Where(r, w) /\ View(r, req[r], w)
        BY <1>2 DEF RunInv, RequestOK
    <2>2. (req[r].submit = "Submitted" /\ req[r].mint # NoMint) \/ w \in Work
        BY <1>2, <2>1 DEF View, WrapOK
    <2> QED BY <1>1, <1>2, <2>1, <2>2
<1>3. ASSUME StampInv, RunInv, NEW r \in Req, req[r].deposit, req[r].pulled,
             r \notin credited
      PROVE  \/ \E s \in Slot : Live(s) /\ call[s].req = r
             \/ r \in Members(queue)
             \/ req[r].status = "Running" /\ Repairable(req[r])
             \/ r \notin pending
             \/ RetryAllowed(r)
    <2>1. PICK w \in Places : Where(r, w) /\ View(r, req[r], w)
        BY <1>3 DEF RunInv, RequestOK
    <2>2. CASE w \in Work \cup Own BY <1>1, <1>3, <2>1, <2>2
    <2>3. CASE w \notin Work \cup Own /\ r \in pending /\ ~InQueue(r)
        <3>1. DepositOK(req[r], w, r \in pending, r \in credited)
            BY <2>1 DEF View
        <3>2. w # "queue" BY <2>1, <2>3 DEF Where
        <3>3. req[r] \in WrapStoredRequest BY <1>3 DEF StampInv, TypeOK
        <3>4. Known(r)
            BY <1>3 DEF StampInv, RecordOK, Blank
        <3>5. req[r].status \in {"Running", "Failed"}
            BY <1>3, <2>3, <3>1, <3>2, <3>3, <3>4
               DEF DepositOK, WrapStoredRequest, Statuses, Known
        <3>6. req[r].status = "Running" => Repairable(req[r])
            BY <1>3, <3>1 DEF DepositOK, Repairable, Restartable
        <3>7. req[r].status = "Failed" => RetryAllowed(r)
            BY <1>3, <2>3, <3>1 DEF DepositOK, RetryAllowed
        <3> QED BY <3>5, <3>6, <3>7
    <2> QED BY <2>2, <2>3 DEF InQueue
<1>4. StampInv /\ RunInv => NothingIsStuck
    BY <1>2, <1>3 DEF NothingIsStuck, RunningIsAttended, PulledDepositGoesOn
<1> QED BY <1>4, RunsAlwaysHold, PTL

=============================================================================
