------------------------ MODULE UnwrapDispatchProofs ------------------------
(***************************************************************************)
(* Proofs about UnwrapDispatch for every set of requests, fees, slots and  *)
(* every bound.  The argument is one inductive invariant, DispatchInv: the *)
(* time stamp of a request never changes once set, so every attempt and    *)
(* every executed transfer of a request carries it.                        *)
(***************************************************************************)
EXTENDS UnwrapDispatch, FiniteSetTheorems, TLAPS

\* Every attempt in flight carries the stamp of its record, and the whole
\* amount when there is no fee to subtract; only native withdrawals wait for
\* a fee.
AttemptsStamped ==
    \A s \in Slot : call[s] # NoCall =>
        /\ call[s].created = created_at[call[s].req]
        /\ call[s].req \notin Native => call[s].amount = Gross
        /\ call[s].phase = "Fee" => call[s].req \in Native

\* Every executed transfer carries the stamp of its record.
TransfersStamped ==
    \A x \in ledger :
        /\ x.created = created_at[x.memo]
        /\ x.memo \notin Native => x.amount = Gross

\* The ledger's positive answer means that it has the transfer.
AnsweredIsPaid ==
    \A s \in Slot : call[s] # NoCall /\ call[s].phase = "ReplyOk" =>
        \E x \in ledger : x.memo = call[s].req

DispatchInv ==
    /\ TypeOK
    /\ AttemptsStamped
    /\ TransfersStamped
    /\ AnsweredIsPaid
    /\ DispatchedIsPaid
    /\ QueuedIsInQueue
    /\ DispatchingIsAttempted

\* Stamp is the stored time when there is one, the present otherwise.
LEMMA StampType ==
    ASSUME TypeOK, NEW r \in Req
    PROVE  /\ Stamp(r) \in 1..MaxTime
           /\ created_at[r] # 0 => Stamp(r) = created_at[r]
BY UnwrapAssumption DEF TypeOK, Stamp

\* Appending, removing the head and concatenation, seen as sets of members.
LEMMA AppendMembers ==
    ASSUME NEW q \in Seq(Req), NEW r \in Req
    PROVE  /\ Append(q, r) \in Seq(Req)
           /\ Members(Append(q, r)) = Members(q) \cup {r}
<1>1. Append(q, r) \in Seq(Req) /\ Len(Append(q, r)) = Len(q) + 1
    OBVIOUS
<1>2. \A i \in 1..Len(q) : Append(q, r)[i] = q[i]
    OBVIOUS
<1>3. Append(q, r)[Len(q) + 1] = r
    OBVIOUS
<1>4. 1..(Len(q) + 1) = (1..Len(q)) \cup {Len(q) + 1}
    OBVIOUS
<1> QED BY <1>1, <1>2, <1>3, <1>4 DEF Members

LEMMA TailMembers ==
    ASSUME NEW q \in Seq(Req), q # <<>>
    PROVE  /\ Head(q) \in Req
           /\ Tail(q) \in Seq(Req)
           /\ \A r \in Members(q) : r # Head(q) => r \in Members(Tail(q))
<1>1. Head(q) = q[1] /\ Head(q) \in Req /\ Tail(q) \in Seq(Req)
    OBVIOUS
<1>2. Len(Tail(q)) = Len(q) - 1 /\ Len(q) \in Nat /\ Len(q) > 0
    OBVIOUS
<1>3. \A i \in 1..(Len(q) - 1) : Tail(q)[i] = q[i + 1]
    OBVIOUS
<1>4. ASSUME NEW i \in 1..Len(q), q[i] # Head(q)
      PROVE  q[i] \in Members(Tail(q))
    <2>1. i # 1 BY <1>4, <1>1
    <2>2. i - 1 \in 1..(Len(q) - 1) BY <2>1, <1>2
    <2>3. Tail(q)[i - 1] = q[i] BY <2>2, <1>3, <1>2
    <2> QED BY <2>2, <2>3, <1>2 DEF Members
<1> QED BY <1>1, <1>4 DEF Members

LEMMA ConcatMembers ==
    ASSUME NEW q \in Seq(Req), NEW S \in SUBSET Req, NEW p \in Orders(S)
    PROVE  /\ q \o p \in Seq(Req)
           /\ Members(q \o p) = Members(q) \cup S
<1>1. Cardinality(S) \in Nat
    BY UnwrapAssumption, FS_Subset, FS_CardinalityType
<1>2. p \in [1..Cardinality(S) -> S]
    BY DEF Orders
<1>3. p \in Seq(Req) /\ Len(p) = Cardinality(S)
    <2>1. p \in [1..Cardinality(S) -> Req] BY <1>2
    <2> QED BY <2>1, <1>1, SMT
<1>4. Members(p) = S
    BY <1>2, <1>3 DEF Orders, Members
<1>5. q \o p \in Seq(Req) /\ Len(q \o p) = Len(q) + Len(p)
    BY <1>3
<1>6. \A i \in 1..Len(q) : (q \o p)[i] = q[i]
    BY <1>3
<1>7. \A i \in 1..Len(p) : (q \o p)[Len(q) + i] = p[i]
    BY <1>3
<1>8. Members(q) \cup S \subseteq Members(q \o p)
    <2>1. ASSUME NEW i \in 1..Len(q) PROVE q[i] \in Members(q \o p)
        <3>1. i \in 1..Len(q \o p) BY <1>5, <1>3
        <3> QED BY <3>1, <1>6 DEF Members
    <2>2. ASSUME NEW i \in 1..Len(p) PROVE p[i] \in Members(q \o p)
        <3>1. Len(q) + i \in 1..Len(q \o p) BY <1>5, <1>3
        <3> QED BY <3>1, <1>7 DEF Members
    <2> QED BY <2>1, <2>2, <1>4 DEF Members
<1>9. Members(q \o p) \subseteq Members(q) \cup S
    <2>1. ASSUME NEW i \in 1..Len(q \o p)
          PROVE  (q \o p)[i] \in Members(q) \cup Members(p)
        <3>1. CASE i \in 1..Len(q) BY <3>1, <1>6 DEF Members
        <3>2. CASE i \notin 1..Len(q)
            <4>1. i - Len(q) \in 1..Len(p) BY <3>2, <1>5, <1>3
            <4>2. (q \o p)[i] = p[i - Len(q)] BY <4>1, <1>7, <1>3
            <4> QED BY <4>1, <4>2 DEF Members
        <3> QED BY <3>1, <3>2
    <2> QED BY <2>1, <1>4 DEF Members
<1> QED BY <1>5, <1>8, <1>9

-----------------------------------------------------------------------------
(***************************************************************************)
(* The initial state and one lemma per kind of step.                       *)
(***************************************************************************)
LEMMA InitInv == Init => DispatchInv
<1> SUFFICES ASSUME Init PROVE DispatchInv
    OBVIOUS
<1>1. TypeOK
    <2>1. MaxTime \in Nat /\ MaxTime > 0 /\ MaxUpgrades \in Nat
        BY UnwrapAssumption
    <2>2. queue \in Seq(Req)
        BY DEF Init
    <2>4. scheduled \in BOOLEAN /\ ledger \subseteq Transfer
        BY Zenon DEF Init
    <2>3. status \in [Req -> Statuses] /\ call \in [Slot -> Attempt \cup {NoCall}]
        BY DEF Init, Statuses
    <2> QED BY <2>1, <2>2, <2>3, <2>4 DEF Init, TypeOK
<1> QED BY <1>1 DEF Init, DispatchInv, AttemptsStamped, TransfersStamped,
            AnsweredIsPaid, DispatchedIsPaid, QueuedIsInQueue,
            DispatchingIsAttempted

\* A record enters the queue: Record and Retry.
LEMMA EnqueueInv ==
    ASSUME DispatchInv, NEW r \in Req,
           status[r] \in {"None", "DispatchFailed"},
           status' = [status EXCEPT ![r] = "Queued"],
           updated_at' = [updated_at EXCEPT ![r] = now],
           queue' = Append(queue, r),
           scheduled' = TRUE,
           UNCHANGED <<created_at, call, ledger, now, upgrades>>
    PROVE  DispatchInv'
<1> USE DEF DispatchInv
<1>1. /\ queue' \in Seq(Req)
      /\ Members(queue') = Members(queue) \cup {r}
    BY AppendMembers DEF TypeOK
<1>2. TypeOK'
    BY <1>1 DEF TypeOK, Statuses
<1>3. AttemptsStamped' /\ TransfersStamped' /\ AnsweredIsPaid'
    BY DEF AttemptsStamped, TransfersStamped, AnsweredIsPaid
<1>4. \A x \in Req : status'[x] = IF x = r THEN "Queued" ELSE status[x]
    BY DEF TypeOK
<1>5. DispatchedIsPaid'
    BY <1>4 DEF DispatchedIsPaid
<1>6. QueuedIsInQueue'
    BY <1>1, <1>4 DEF QueuedIsInQueue
<1>7. DispatchingIsAttempted'
    BY <1>4 DEF DispatchingIsAttempted
<1> QED BY <1>2, <1>3, <1>5, <1>6, <1>7

\* Only the timer or the clock moves: RecordNothing, TickIdle, Advance.
LEMMA IdleInv ==
    ASSUME DispatchInv,
           UNCHANGED <<status, created_at, updated_at, queue, call, ledger,
                       upgrades>>,
           scheduled' \in BOOLEAN, now' \in 1..MaxTime
    PROVE  DispatchInv'
<1>1. TypeOK'
    BY DEF DispatchInv, TypeOK
<1> QED BY <1>1 DEF DispatchInv, AttemptsStamped, TransfersStamped,
            AnsweredIsPaid, DispatchedIsPaid, QueuedIsInQueue,
            DispatchingIsAttempted

\* The stamps change only where there was none, so what carried a stamp
\* still carries it.
LEMMA StampsKept ==
    ASSUME DispatchInv,
           created_at' \in [Req -> 0..MaxTime],
           \A r \in Req : created_at[r] # 0 => created_at'[r] = created_at[r]
    PROVE  /\ \A s \in Slot : call[s] # NoCall =>
                 call[s].created = created_at'[call[s].req]
           /\ \A x \in ledger : x.created = created_at'[x.memo]
<1>1. ASSUME NEW s \in Slot, call[s] # NoCall
      PROVE  call[s].created = created_at'[call[s].req]
    <2>1. call[s] \in Attempt
        BY <1>1 DEF DispatchInv, TypeOK
    <2>2. call[s].req \in Req /\ call[s].created \in 1..MaxTime
        BY <2>1 DEF Attempt
    <2>3. call[s].created = created_at[call[s].req]
        BY <1>1 DEF DispatchInv, AttemptsStamped
    <2>4. created_at[call[s].req] # 0
        BY <2>2, <2>3
    <2> QED BY <2>2, <2>3, <2>4
<1>2. ASSUME NEW x \in ledger
      PROVE  x.created = created_at'[x.memo]
    <2>1. x \in Transfer
        BY DEF DispatchInv, TypeOK
    <2>2. x.memo \in Req /\ x.created \in 1..MaxTime
        BY <2>1 DEF Transfer
    <2>3. x.created = created_at[x.memo]
        BY DEF DispatchInv, TransfersStamped
    <2> QED BY <2>2, <2>3
<1> QED BY <1>1, <1>2

\* What Pop does to the record at the head of the queue.
LEMMA PopFacts ==
    ASSUME DispatchInv, queue # <<>>,
           NEW outcome \in {"Dispatching", "DispatchFailed"}, Pop(outcome)
    PROVE  /\ Head(queue) \in Req
           /\ queue' \in Seq(Req)
           /\ status' \in [Req -> Statuses]
           /\ updated_at' \in [Req -> 0..MaxTime]
           /\ created_at' \in [Req -> 0..MaxTime]
           /\ created_at'[Head(queue)] = Stamp(Head(queue))
           /\ Stamp(Head(queue)) \in 1..MaxTime
           /\ \A r \in Req : created_at[r] # 0 => created_at'[r] = created_at[r]
           /\ \A r \in Req : status'[r] = IF r = Head(queue) THEN outcome
                                          ELSE status[r]
           /\ QueuedIsInQueue'
<1> USE DEF DispatchInv
<1> DEFINE h == Head(queue)
<1>1. /\ h \in Req
      /\ Tail(queue) \in Seq(Req)
      /\ \A r \in Members(queue) : r # h => r \in Members(Tail(queue))
    BY TailMembers DEF TypeOK
<1>2. /\ Stamp(h) \in 1..MaxTime
      /\ created_at[h] # 0 => Stamp(h) = created_at[h]
    BY <1>1, StampType
<1>3. /\ status' = [status EXCEPT ![h] = outcome]
      /\ updated_at' = [updated_at EXCEPT ![h] = now]
      /\ created_at' = [created_at EXCEPT ![h] = Stamp(h)]
      /\ queue' = Tail(queue)
    BY DEF Pop
<1> HIDE DEF h
<1>4. \A r \in Req : status'[r] = IF r = h THEN outcome ELSE status[r]
    BY <1>1, <1>3 DEF TypeOK
<1>5. QueuedIsInQueue'
    BY <1>1, <1>3, <1>4 DEF QueuedIsInQueue
<1>6. /\ status' \in [Req -> Statuses]
      /\ updated_at' \in [Req -> 0..MaxTime]
      /\ created_at' \in [Req -> 0..MaxTime]
      /\ created_at'[h] = Stamp(h)
    BY <1>1, <1>2, <1>3 DEF TypeOK, Statuses
<1>7. \A r \in Req : created_at[r] # 0 => created_at'[r] = created_at[r]
    BY <1>1, <1>2, <1>3 DEF TypeOK
<1> QED BY <1>1, <1>2, <1>3, <1>4, <1>5, <1>6, <1>7 DEF h

\* The tick sends the request it took to the ledger.
LEMMA TickInv ==
    ASSUME DispatchInv, NEW s \in Slot, Tick(s)
    PROVE  DispatchInv'
<1> USE DEF DispatchInv
<1> DEFINE h == Head(queue)
           a == [req |-> h,
                 phase |-> IF h \in Native THEN "Fee" ELSE "Transfer",
                 amount |-> Gross, created |-> Stamp(h)]
<1>1. /\ queue # <<>> /\ Pop("Dispatching")
      /\ call' = [call EXCEPT ![s] = a]
      /\ scheduled' = FALSE
      /\ UNCHANGED <<ledger, now, upgrades>>
    BY DEF Tick
<1>2. /\ h \in Req
      /\ queue' \in Seq(Req)
      /\ status' \in [Req -> Statuses]
      /\ updated_at' \in [Req -> 0..MaxTime]
      /\ created_at' \in [Req -> 0..MaxTime]
      /\ created_at'[h] = Stamp(h)
      /\ Stamp(h) \in 1..MaxTime
      /\ \A r \in Req : created_at[r] # 0 => created_at'[r] = created_at[r]
      /\ \A r \in Req : status'[r] = IF r = h THEN "Dispatching" ELSE status[r]
      /\ QueuedIsInQueue'
    BY <1>1, PopFacts
<1>3. a \in Attempt /\ a # NoCall
    BY <1>2, UnwrapAssumption DEF Attempt, Phases
<1>4. /\ a.req = h /\ a.created = Stamp(h) /\ a.amount = Gross
      /\ a.phase \in {"Fee", "Transfer"}
      /\ a.phase = "Fee" => h \in Native
    OBVIOUS
<1> HIDE DEF h, a
<1>5. \A t \in Slot : call'[t] = IF t = s THEN a ELSE call[t]
    BY <1>1 DEF TypeOK
<1>6. call' \in [Slot -> Attempt \cup {NoCall}]
    BY <1>1, <1>3 DEF TypeOK
<1>7. TypeOK'
    BY <1>1, <1>2, <1>6 DEF TypeOK
<1>8. /\ \A t \in Slot : call[t] # NoCall =>
            call[t].created = created_at'[call[t].req]
      /\ \A x \in ledger : x.created = created_at'[x.memo]
    BY <1>2, StampsKept
<1>9. AttemptsStamped'
    BY <1>2, <1>4, <1>5, <1>8 DEF AttemptsStamped
<1>10. TransfersStamped'
    BY <1>1, <1>8 DEF TransfersStamped
<1>11. AnsweredIsPaid'
    BY <1>1, <1>4, <1>5 DEF AnsweredIsPaid
<1>12. DispatchedIsPaid'
    BY <1>1, <1>2 DEF DispatchedIsPaid
<1>13. DispatchingIsAttempted'
    <2> SUFFICES ASSUME NEW r \in Req, status'[r] = "Dispatching"
                 PROVE  \E t \in Slot : /\ call'[t] # NoCall
                                        /\ call'[t].req = r
                                        /\ call'[t].phase # "Orphan"
        BY DEF DispatchingIsAttempted
    <2>1. CASE r = h
        BY <2>1, <1>3, <1>4, <1>5
    <2>2. CASE r # h
        <3>1. PICK t \in Slot : /\ call[t] # NoCall
                                /\ call[t].req = r
                                /\ call[t].phase # "Orphan"
            BY <2>2, <1>2 DEF DispatchingIsAttempted
        <3>2. t # s
            BY <3>1 DEF Tick
        <3> QED BY <3>1, <3>2, <1>5
    <2> QED BY <2>1, <2>2
<1> QED BY <1>2, <1>7, <1>9, <1>10, <1>11, <1>12, <1>13

\* The tick fails before it calls the ledger.
LEMMA TickUnconfiguredInv ==
    ASSUME DispatchInv, TickUnconfigured
    PROVE  DispatchInv'
<1> USE DEF DispatchInv
<1> DEFINE h == Head(queue)
<1>1. /\ queue # <<>> /\ Pop("DispatchFailed")
      /\ scheduled' \in BOOLEAN
      /\ UNCHANGED <<call, ledger, now, upgrades>>
    BY DEF TickUnconfigured, Rearmed
<1>2. /\ h \in Req
      /\ queue' \in Seq(Req)
      /\ status' \in [Req -> Statuses]
      /\ updated_at' \in [Req -> 0..MaxTime]
      /\ created_at' \in [Req -> 0..MaxTime]
      /\ \A r \in Req : created_at[r] # 0 => created_at'[r] = created_at[r]
      /\ \A r \in Req : status'[r] = IF r = h THEN "DispatchFailed" ELSE status[r]
      /\ QueuedIsInQueue'
    BY <1>1, PopFacts
<1> HIDE DEF h
<1>3. TypeOK'
    BY <1>1, <1>2 DEF TypeOK
<1>4. /\ \A t \in Slot : call[t] # NoCall =>
            call[t].created = created_at'[call[t].req]
      /\ \A x \in ledger : x.created = created_at'[x.memo]
    BY <1>2, StampsKept
<1>5. AttemptsStamped' /\ TransfersStamped'
    BY <1>1, <1>4 DEF AttemptsStamped, TransfersStamped
<1>6. AnsweredIsPaid'
    BY <1>1 DEF AnsweredIsPaid
<1>7. DispatchedIsPaid'
    BY <1>1, <1>2 DEF DispatchedIsPaid
<1>8. DispatchingIsAttempted'
    <2>1. \A r \in Req : status'[r] = "Dispatching" => status[r] = "Dispatching"
        BY <1>2
    <2> QED BY <2>1, <1>1 DEF DispatchingIsAttempted
<1> QED BY <1>2, <1>3, <1>5, <1>6, <1>7, <1>8

\* A continuation settles its request: it may say Dispatched only after a
\* positive answer.
LEMMA FinalizeInv ==
    ASSUME DispatchInv, NEW s \in Slot, call[s] # NoCall,
           NEW outcome \in Settled, Finalize(s, outcome),
           outcome = "Dispatched" => call[s].phase = "ReplyOk"
    PROVE  DispatchInv'
<1> USE DEF DispatchInv
<1> DEFINE r == call[s].req
<1>1. r \in Req
    BY DEF TypeOK, Attempt
<1>2. /\ status' = [status EXCEPT ![r] = outcome]
      /\ updated_at' = [updated_at EXCEPT ![r] = now]
      /\ call' = [call EXCEPT ![s] = NoCall]
      /\ scheduled' \in BOOLEAN
      /\ UNCHANGED <<created_at, queue, ledger, now, upgrades>>
    BY DEF Finalize, Rearmed, TypeOK
<1>3. outcome = "Dispatched" => \E x \in ledger : x.memo = r
    BY DEF AnsweredIsPaid
<1>4. call' \in [Slot -> Attempt \cup {NoCall}]
    BY <1>2 DEF TypeOK
<1>5. \A t \in Slot : call'[t] = IF t = s THEN NoCall ELSE call[t]
    BY <1>2 DEF TypeOK
<1>6. \A t \in Slot : call[t] # NoCall => call[t].req \in Req
    BY DEF TypeOK, Attempt
<1> HIDE DEF r
<1>7. TypeOK'
    BY <1>1, <1>2, <1>4 DEF TypeOK, Statuses, Settled
<1>8. \A x \in Req : status'[x] = IF x = r THEN outcome ELSE status[x]
    BY <1>1, <1>2 DEF TypeOK
<1>9. AttemptsStamped' /\ TransfersStamped' /\ AnsweredIsPaid'
    BY <1>2, <1>5 DEF AttemptsStamped, TransfersStamped, AnsweredIsPaid
<1>10. DispatchedIsPaid'
    BY <1>2, <1>3, <1>8 DEF DispatchedIsPaid
<1>11. QueuedIsInQueue'
    BY <1>2, <1>8 DEF QueuedIsInQueue, Settled
<1>12. DispatchingIsAttempted'
    <2> SUFFICES ASSUME NEW x \in Req, status'[x] = "Dispatching"
                 PROVE  \E t \in Slot : /\ call'[t] # NoCall
                                        /\ call'[t].req = x
                                        /\ call'[t].phase # "Orphan"
        BY DEF DispatchingIsAttempted
    <2>1. x # r /\ status[x] = "Dispatching"
        BY <1>8 DEF Settled
    <2>2. PICK t \in Slot : /\ call[t] # NoCall
                            /\ call[t].req = x
                            /\ call[t].phase # "Orphan"
        BY <2>1 DEF DispatchingIsAttempted
    <2>3. t # s
        BY <2>1, <2>2 DEF r
    <2> QED BY <2>2, <2>3, <1>5
<1> QED BY <1>7, <1>9, <1>10, <1>11, <1>12

\* The fee is known and the transfer is sent.
LEMMA FeeReplyInv ==
    ASSUME DispatchInv, NEW s \in Slot, NEW fee \in Fees, FeeReply(s, fee)
    PROVE  DispatchInv'
<1> USE DEF DispatchInv
<1> DEFINE a == [call[s] EXCEPT !.phase = "Transfer", !.amount = Gross - fee]
<1>1. /\ call[s] # NoCall
      /\ call' = [call EXCEPT ![s] = a]
      /\ Gross - fee \in 1..Gross
      /\ UNCHANGED <<status, created_at, updated_at, queue, scheduled, ledger,
                     now, upgrades>>
    BY UnwrapAssumption DEF FeeReply, Receivable, requests
<1>2. call[s] \in Attempt
    BY <1>1 DEF TypeOK
<1>3. /\ a \in Attempt
      /\ a.req = call[s].req /\ a.created = call[s].created
      /\ a.phase = "Transfer"
    BY <1>1, <1>2 DEF Attempt, Phases
<1>4. a # NoCall
    BY <1>3, UnwrapAssumption
<1> HIDE DEF a
<1>5. \A t \in Slot : call'[t] = IF t = s THEN a ELSE call[t]
    BY <1>1 DEF TypeOK
<1>6. TypeOK'
    BY <1>1, <1>3 DEF TypeOK
<1>7. AttemptsStamped'
    <2>1. a.req \in Native
        BY <1>1, <1>3 DEF AttemptsStamped, FeeReply
    <2> QED BY <2>1, <1>1, <1>3, <1>5 DEF AttemptsStamped
<1>8. TransfersStamped'
    BY <1>1 DEF TransfersStamped
<1>9. AnsweredIsPaid'
    BY <1>1, <1>3, <1>5 DEF AnsweredIsPaid
<1>10. DispatchedIsPaid' /\ QueuedIsInQueue'
    BY <1>1 DEF DispatchedIsPaid, QueuedIsInQueue
<1>11. DispatchingIsAttempted'
    BY <1>1, <1>3, <1>4, <1>5 DEF DispatchingIsAttempted
<1> QED BY <1>6, <1>7, <1>8, <1>9, <1>10, <1>11

\* The ledger answers: the transfer is executed or it is not, and the
\* answer is positive only in the first case.
LEMMA LedgerInv ==
    ASSUME DispatchInv, NEW s \in Slot, InFlight(s),
           NEW phase \in {"ReplyOk", "ReplyErr"}, Answered(s, phase),
           ledger' = ledger \cup (IF phase = "ReplyOk" THEN {Sent(s)} ELSE {}),
           UNCHANGED <<status, created_at, updated_at, queue, scheduled, now,
                       upgrades>>
    PROVE  DispatchInv'
<1> USE DEF DispatchInv
<1> DEFINE a == IF call[s].phase = "Orphan" THEN NoCall
                ELSE [call[s] EXCEPT !.phase = phase]
<1>1. /\ call[s] # NoCall /\ call[s] \in Attempt
      /\ call' = [call EXCEPT ![s] = a]
    BY DEF InFlight, Answered, TypeOK
<1>2. a # NoCall => /\ a \in Attempt
                    /\ a.req = call[s].req /\ a.created = call[s].created
                    /\ a.amount = call[s].amount /\ a.phase = phase
    BY <1>1 DEF Attempt, Phases
<1>3. call[s].phase # "Orphan" => a # NoCall
    <2>1. [call[s] EXCEPT !.phase = phase] \in Attempt
        BY <1>1 DEF Attempt, Phases
    <2> QED BY <2>1, UnwrapAssumption
<1> HIDE DEF a
<1>4. \A t \in Slot : call'[t] = IF t = s THEN a ELSE call[t]
    BY <1>1 DEF TypeOK
<1>5. /\ Sent(s) \in Transfer
      /\ Sent(s).memo = call[s].req
      /\ Sent(s).amount = call[s].amount
      /\ Sent(s).created = call[s].created
    BY <1>1 DEF Sent, Transfer, Attempt
<1>6. ledger \subseteq ledger' /\ ledger' \subseteq ledger \cup {Sent(s)}
    OBVIOUS
<1>7. TypeOK'
    <2>1. call' \in [Slot -> Attempt \cup {NoCall}]
        BY <1>1, <1>2 DEF TypeOK
    <2>2. ledger' \subseteq Transfer
        BY <1>5, <1>6 DEF TypeOK
    <2> QED BY <2>1, <2>2 DEF TypeOK
<1>8. AttemptsStamped'
    BY <1>1, <1>2, <1>4 DEF AttemptsStamped
<1>9. TransfersStamped'
    BY <1>1, <1>5, <1>6 DEF TransfersStamped, AttemptsStamped
<1>10. AnsweredIsPaid'
    <2> SUFFICES ASSUME NEW t \in Slot, call'[t] # NoCall,
                        call'[t].phase = "ReplyOk"
                 PROVE  \E x \in ledger' : x.memo = call'[t].req
        BY DEF AnsweredIsPaid
    <2>1. CASE t = s
        <3>1. a # NoCall /\ phase = "ReplyOk" /\ call'[t].req = call[s].req
            BY <2>1, <1>2, <1>4
        <3> QED BY <3>1, <1>5
    <2>2. CASE t # s
        BY <2>2, <1>4, <1>6 DEF AnsweredIsPaid
    <2> QED BY <2>1, <2>2
<1>11. DispatchedIsPaid'
    BY <1>6 DEF DispatchedIsPaid
<1>12. QueuedIsInQueue'
    BY DEF QueuedIsInQueue
<1>13. DispatchingIsAttempted'
    <2> SUFFICES ASSUME NEW r \in Req, status[r] = "Dispatching"
                 PROVE  \E t \in Slot : /\ call'[t] # NoCall
                                        /\ call'[t].req = r
                                        /\ call'[t].phase # "Orphan"
        BY DEF DispatchingIsAttempted
    <2>1. PICK t \in Slot : /\ call[t] # NoCall
                            /\ call[t].req = r
                            /\ call[t].phase # "Orphan"
        BY DEF DispatchingIsAttempted
    <2>2. CASE t = s
        BY <2>1, <2>2, <1>2, <1>3, <1>4
    <2>3. CASE t # s
        BY <2>1, <2>3, <1>4
    <2> QED BY <2>2, <2>3
<1> QED BY <1>7, <1>8, <1>9, <1>10, <1>11, <1>12, <1>13

\* Requests go back to the queue: what Repair and Upgrade have in common.
LEMMA RequeueInv ==
    ASSUME DispatchInv, NEW S \in SUBSET Req,
           NEW q \in Orders(ToRequeue(S)), queue' = queue \o q,
           status' = [r \in Req |-> IF r \in S THEN "Queued" ELSE status[r]]
    PROVE  /\ queue' \in Seq(Req)
           /\ status' \in [Req -> Statuses]
           /\ \A r \in Req : status'[r] # "Queued" =>
                 r \notin S /\ status'[r] = status[r]
           /\ QueuedIsInQueue'
<1> USE DEF DispatchInv
<1>1. ToRequeue(S) \in SUBSET Req
    BY DEF ToRequeue
<1>2. /\ queue' \in Seq(Req)
      /\ Members(queue') = Members(queue) \cup ToRequeue(S)
    BY <1>1, ConcatMembers DEF TypeOK
<1>3. Members(queue) \cup S \subseteq Members(queue')
    BY <1>2 DEF ToRequeue
<1>4. QueuedIsInQueue'
    BY <1>3 DEF QueuedIsInQueue
<1>5. status' \in [Req -> Statuses]
    BY DEF TypeOK, Statuses
<1>6. \A r \in Req : status'[r] # "Queued" => r \notin S /\ status'[r] = status[r]
    OBVIOUS
<1> QED BY <1>2, <1>4, <1>5, <1>6

LEMMA RepairInv ==
    ASSUME DispatchInv, Repair
    PROVE  DispatchInv'
<1> USE DEF DispatchInv
<1> DEFINE S == StaleRequests
<1>1. S \in SUBSET Req
    BY DEF StaleRequests
<1>2. PICK q \in Orders(ToRequeue(S)) : queue' = queue \o q
    BY DEF Repair
<1>3. /\ status' = [r \in Req |-> IF r \in S THEN "Queued" ELSE status[r]]
      /\ updated_at' = [r \in Req |-> IF r \in S THEN now ELSE updated_at[r]]
      /\ created_at' = [r \in Req |-> IF r \in S THEN Stamp(r) ELSE created_at[r]]
      /\ scheduled' \in BOOLEAN
      /\ UNCHANGED <<call, ledger, now, upgrades>>
    BY DEF Repair, Rearmed, TypeOK
<1> HIDE DEF S
<1>4. /\ queue' \in Seq(Req)
      /\ status' \in [Req -> Statuses]
      /\ \A r \in Req : status'[r] # "Queued" =>
            r \notin S /\ status'[r] = status[r]
      /\ QueuedIsInQueue'
    BY <1>1, <1>2, <1>3, RequeueInv
<1>5. /\ created_at' \in [Req -> 0..MaxTime]
      /\ \A r \in Req : created_at[r] # 0 => created_at'[r] = created_at[r]
    BY <1>1, <1>3, StampType DEF TypeOK
<1>6. updated_at' \in [Req -> 0..MaxTime]
    BY <1>3 DEF TypeOK
<1>7. TypeOK'
    BY <1>3, <1>4, <1>5, <1>6 DEF TypeOK
<1>8. /\ \A t \in Slot : call[t] # NoCall =>
            call[t].created = created_at'[call[t].req]
      /\ \A x \in ledger : x.created = created_at'[x.memo]
    BY <1>5, StampsKept
<1>9. AttemptsStamped' /\ TransfersStamped'
    BY <1>3, <1>8 DEF AttemptsStamped, TransfersStamped
<1>10. AnsweredIsPaid'
    BY <1>3 DEF AnsweredIsPaid
<1>11. DispatchedIsPaid'
    BY <1>3, <1>4 DEF DispatchedIsPaid
<1>12. DispatchingIsAttempted'
    BY <1>3, <1>4 DEF DispatchingIsAttempted
<1> QED BY <1>4, <1>7, <1>9, <1>10, <1>11, <1>12

\* After an upgrade nothing is Dispatching and no continuation is left.
LEMMA UpgradeInv ==
    ASSUME DispatchInv, NEW enabled \in BOOLEAN, Upgrade(enabled)
    PROVE  DispatchInv'
<1> USE DEF DispatchInv
<1> DEFINE S == Recovered
<1>1. S \in SUBSET Req
    BY DEF Recovered
<1>2. PICK q \in Orders(ToRequeue(S)) : /\ queue' = queue \o q
                                        /\ scheduled' \in BOOLEAN
    BY DEF Upgrade
<1>3. /\ status' = [r \in Req |-> IF r \in S THEN "Queued" ELSE status[r]]
      /\ updated_at' \in [Req -> 0..MaxTime]
      /\ upgrades' \in 0..MaxUpgrades
      /\ UNCHANGED <<created_at, ledger, now>>
    <2>1. updated_at' \in [Req -> 0..MaxTime]
        BY DEF Upgrade, TypeOK
    <2>2. upgrades' \in 0..MaxUpgrades
        BY UnwrapAssumption DEF Upgrade, TypeOK
    <2> QED BY <2>1, <2>2 DEF Upgrade
<1>4. \A r \in Req \ S : status[r] # "Dispatching"
    BY DEF Recovered
<1> HIDE DEF S
<1>5. /\ queue' \in Seq(Req)
      /\ status' \in [Req -> Statuses]
      /\ \A r \in Req : status'[r] # "Queued" =>
            r \notin S /\ status'[r] = status[r]
      /\ QueuedIsInQueue'
    BY <1>1, <1>2, <1>3, RequeueInv
<1>6. call' = [s \in Slot |-> IF InFlight(s)
                              THEN [call[s] EXCEPT !.phase = "Orphan"]
                              ELSE NoCall]
    BY DEF Upgrade
<1>7. \A s \in Slot : call'[s] # NoCall =>
          /\ call[s] # NoCall
          /\ call'[s] \in Attempt
          /\ call'[s].req = call[s].req
          /\ call'[s].created = call[s].created
          /\ call'[s].amount = call[s].amount
          /\ call'[s].phase = "Orphan"
    <2> SUFFICES ASSUME NEW s \in Slot, call'[s] # NoCall
                 PROVE  /\ call[s] # NoCall
                        /\ call'[s] \in Attempt
                        /\ call'[s].req = call[s].req
                        /\ call'[s].created = call[s].created
                        /\ call'[s].amount = call[s].amount
                        /\ call'[s].phase = "Orphan"
        OBVIOUS
    <2>1. InFlight(s) /\ call'[s] = [call[s] EXCEPT !.phase = "Orphan"]
        BY <1>6
    <2>2. call[s] # NoCall /\ call[s] \in Attempt
        BY <2>1 DEF InFlight, TypeOK
    <2> QED BY <2>1, <2>2 DEF Attempt, Phases
<1>8. call' \in [Slot -> Attempt \cup {NoCall}]
    <2>1. \A s \in Slot : call'[s] \in Attempt \cup {NoCall}
        BY <1>7
    <2> QED BY <2>1, <1>6
<1>9. TypeOK'
    BY <1>2, <1>3, <1>5, <1>8 DEF TypeOK
<1>10. AttemptsStamped'
    BY <1>3, <1>7 DEF AttemptsStamped
<1>11. TransfersStamped'
    BY <1>3 DEF TransfersStamped
<1>12. AnsweredIsPaid'
    BY <1>7 DEF AnsweredIsPaid
<1>13. DispatchedIsPaid'
    BY <1>3, <1>5 DEF DispatchedIsPaid
<1>14. DispatchingIsAttempted'
    <2>1. \A r \in Req : status'[r] # "Dispatching"
        BY <1>4, <1>5
    <2> QED BY <2>1 DEF DispatchingIsAttempted
<1> QED BY <1>5, <1>9, <1>10, <1>11, <1>12, <1>13, <1>14

-----------------------------------------------------------------------------
(***************************************************************************)
(* The invariant and what follows from it.                                 *)
(***************************************************************************)
LEMMA NextInv == DispatchInv /\ [Next]_vars => DispatchInv'
<1> SUFFICES ASSUME DispatchInv, [Next]_vars
             PROVE  DispatchInv'
    OBVIOUS
<1>1. ASSUME NEW r \in Req, Record(r) PROVE DispatchInv'
    BY <1>1, EnqueueInv DEF Record
<1>2. ASSUME NEW r \in Req, Retry(r) PROVE DispatchInv'
    BY <1>2, EnqueueInv DEF Retry
<1>3. CASE RecordNothing
    BY <1>3, IdleInv DEF RecordNothing, requests, DispatchInv, TypeOK
<1>4. CASE TickIdle
    BY <1>4, IdleInv DEF TickIdle, requests, DispatchInv, TypeOK
<1>5. CASE TickUnconfigured
    BY <1>5, TickUnconfiguredInv
<1>6. ASSUME NEW s \in Slot, Tick(s) PROVE DispatchInv'
    BY <1>6, TickInv
<1>7. ASSUME NEW s \in Slot, FeeFailed(s) PROVE DispatchInv'
    BY <1>7, FinalizeInv DEF FeeFailed, Settled
<1>8. ASSUME NEW s \in Slot, TransferReply(s) PROVE DispatchInv'
    <2>1. PICK outcome \in Outcomes(call[s].phase) : Finalize(s, outcome)
        BY <1>8 DEF TransferReply
    <2>2. /\ outcome \in Settled
          /\ outcome = "Dispatched" => call[s].phase = "ReplyOk"
        BY <2>1 DEF Outcomes, Settled
    <2> QED BY <1>8, <2>1, <2>2, FinalizeInv DEF TransferReply
<1>9. ASSUME NEW s \in Slot, LedgerExecutes(s) PROVE DispatchInv'
    BY <1>9, LedgerInv DEF LedgerExecutes, requests
<1>10. ASSUME NEW s \in Slot, LedgerRefuses(s) PROVE DispatchInv'
    <2>1. ledger' = ledger \cup (IF "ReplyErr" = "ReplyOk" THEN {Sent(s)} ELSE {})
        BY <1>10 DEF LedgerRefuses
    <2> QED BY <1>10, <2>1, LedgerInv DEF LedgerRefuses, requests
<1>11. ASSUME NEW s \in Slot, NEW fee \in Fees, FeeReply(s, fee)
       PROVE  DispatchInv'
    BY <1>11, FeeReplyInv
<1>12. CASE Repair
    BY <1>12, RepairInv
<1>13. ASSUME NEW enabled \in BOOLEAN, Upgrade(enabled) PROVE DispatchInv'
    BY <1>13, UpgradeInv
<1>14. CASE Advance
    <2>1. now' \in 1..MaxTime
        BY <1>14, UnwrapAssumption DEF Advance, DispatchInv, TypeOK
    <2> QED BY <1>14, <2>1, IdleInv DEF Advance, requests, DispatchInv, TypeOK
<1>15. CASE UNCHANGED vars
    BY <1>15, IdleInv DEF vars, DispatchInv, TypeOK
<1> QED BY <1>1, <1>2, <1>3, <1>4, <1>5, <1>6, <1>7, <1>8, <1>9, <1>10,
           <1>11, <1>12, <1>13, <1>14, <1>15 DEF Next

\* The inductive invariant holds in every reachable state.
THEOREM DispatchInvariant == Spec => []DispatchInv
BY InitInv, NextInv, PTL DEF Spec

\* Every record, queue entry, attempt and transfer keeps its type.
THEOREM DispatchTypes == Spec => []TypeOK
<1>1. DispatchInv => TypeOK
    BY DEF DispatchInv
<1> QED BY <1>1, DispatchInvariant, PTL

\* However retries, repairs, upgrades and late replies interleave, the
\* ledger pays a token request at most once: insert, pop and retry keep the
\* request's transfer_created_at_time.
THEOREM TokenPaidOnce == Spec => []PaidOnce
<1>1. DispatchInv => PaidOnce
    <2> SUFFICES ASSUME DispatchInv, NEW x \in ledger, NEW y \in ledger,
                        x.memo = y.memo, x.memo \notin Native
                 PROVE  x = y
        BY DEF PaidOnce
    <2>1. x \in Transfer /\ y \in Transfer
        BY DEF DispatchInv, TypeOK
    <2>2. x.amount = y.amount /\ x.created = y.created
        BY DEF DispatchInv, TransfersStamped
    <2> QED BY <2>1, <2>2 DEF Transfer
<1> QED BY <1>1, DispatchInvariant, PTL

\* finalize_unwrap_dispatch_attempt reports Dispatched only for a request
\* the ledger has paid.
THEOREM ReportedIsPaid == Spec => []DispatchedIsPaid
<1>1. DispatchInv => DispatchedIsPaid
    BY DEF DispatchInv
<1> QED BY <1>1, DispatchInvariant, PTL

\* No request is lost: one that is Queued is in unwrap_dispatch_queue, one
\* that is Dispatching has a continuation that will settle it.
THEOREM NoRequestLost == Spec => []NothingLost
<1>1. DispatchInv => NothingLost
    BY DEF DispatchInv, NothingLost
<1> QED BY <1>1, DispatchInvariant, PTL
=============================================================================
