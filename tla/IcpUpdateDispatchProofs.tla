---------------------- MODULE IcpUpdateDispatchProofs ----------------------
(***************************************************************************)
(* The dispatcher of update calls implements CallOnce, for every set of    *)
(* requests, methods and slots and every bound: a request that was issued  *)
(* never comes back to the queue, so a call is sent once, and what its     *)
(* record says follows what happened to that one call.                     *)
(***************************************************************************)
EXTENDS IcpUpdateDispatch, FiniteSetTheorems, TLAPS

-----------------------------------------------------------------------------
(* The inductive invariant.                                                *)

\* The queue holds requests that wait, each of them once.
EntriesAreQueued ==
    \A i \in 1..Len(queue) : queue[i] # Hole =>
        /\ status[queue[i]] = "Queued"
        /\ \A j \in 1..Len(queue) : queue[j] = queue[i] => j = i

QueuedHasEntry ==
    \A r \in Req : status[r] = "Queued" =>
        \E i \in 1..Len(queue) : queue[i] = r

\* A block records a request once, and nothing is known of the others.
KnownIsRecorded ==
    /\ \A r \in Req : status[r] # "None" => r \in recorded
    /\ issued \subseteq recorded

\* A request leaves the queue when it is issued.
StatusFollowsIssue ==
    \A r \in Req :
        /\ status[r] = "Queued" => r \notin issued
        /\ status[r] \in {"Dispatching", "Dispatched", "DispatchUncertain"} =>
              r \in issued

\* The one call of a request: on the wire, executed, or refused.
CallsAreSingle ==
    \A r \in Req :
        /\ effects[r] \in 0..1
        /\ r \in wire => r \in issued /\ effects[r] = 0
        /\ effects[r] = 1 => r \in issued

\* At most one continuation waits for it.
AttemptsAreSingle ==
    \A s \in Slot : call[s] # NoCall =>
        /\ call[s].req \in issued
        /\ call[s].phase = "Sent" => call[s].req \in wire
        /\ call[s].phase = "Executed" => effects[call[s].req] = 1
        /\ \A t \in Slot :
              call[t] # NoCall /\ call[t].req = call[s].req => t = s

AnswersAreTrue ==
    \A r \in Req :
        /\ status[r] = "Dispatched" => effects[r] = 1
        /\ status[r] = "DispatchFailed" => r \notin wire /\ effects[r] = 0

IInv ==
    /\ TypeOK
    /\ EntriesAreQueued
    /\ QueuedHasEntry
    /\ KnownIsRecorded
    /\ StatusFollowsIssue
    /\ CallsAreSingle
    /\ AttemptsAreSingle
    /\ AnswersAreTrue

-----------------------------------------------------------------------------
(* Sequences.                                                              *)

Entry == Req \cup {Hole}

\* What appending one entry does to the positions.
LEMMA AppendPositions ==
    ASSUME NEW q \in Seq(Entry), NEW r \in Entry
    PROVE  /\ Append(q, r) \in Seq(Entry)
           /\ Len(Append(q, r)) = Len(q) + 1
           /\ Len(q) \in Nat
           /\ \A i \in 1..Len(q) : Append(q, r)[i] = q[i]
           /\ Append(q, r)[Len(q) + 1] = r
OBVIOUS

\* remove_icp_update_queue_entries keeps the positions of the others.
LEMMA RemovePositions ==
    ASSUME NEW q \in Seq(Entry), NEW T
    PROVE  /\ RemoveEntries(q, T) \in Seq(Entry)
           /\ Len(RemoveEntries(q, T)) = Len(q)
           /\ \A i \in 1..Len(q) :
                 RemoveEntries(q, T)[i] = IF q[i] \in T THEN Hole ELSE q[i]
<1>1. Len(q) \in Nat /\ \A i \in 1..Len(q) : q[i] \in Entry
    OBVIOUS
<1>2. RemoveEntries(q, T) \in [1..Len(q) -> Entry]
    BY <1>1 DEF RemoveEntries, Entry
<1>3. RemoveEntries(q, T) \in Seq(Entry) /\ Len(RemoveEntries(q, T)) = Len(q)
    BY <1>1, <1>2
<1> QED BY <1>3 DEF RemoveEntries

\* What the loop leaves of the queue after it took position i.
LEMMA SuffixPositions ==
    ASSUME NEW q \in Seq(Entry), NEW i \in 1..Len(q)
    PROVE  /\ SubSeq(q, i + 1, Len(q)) \in Seq(Entry)
           /\ Len(SubSeq(q, i + 1, Len(q))) = Len(q) - i
           /\ Len(q) \in Nat
           /\ \A j \in 1..(Len(q) - i) : SubSeq(q, i + 1, Len(q))[j] = q[j + i]
OBVIOUS

-----------------------------------------------------------------------------
(* One request's life.                                                     *)

Lf(r) == [issued |-> r \in issued, pending |-> r \in wire,
          effects |-> effects[r], answer |-> Answer(r)]

\* The steps of CallOnce, field by field.
LEMMA LifeStep ==
    ASSUME NEW i \in BOOLEAN, NEW p \in BOOLEAN, NEW e, NEW a,
           NEW i2 \in BOOLEAN, NEW p2 \in BOOLEAN, NEW e2, NEW a2,
           \/ i2 = i /\ p2 = p /\ e2 = e /\ a2 = a
           \/ ~i /\ a = "None" /\ i2 /\ p2 /\ e2 = e /\ a2 = a
           \/ p /\ a # "Fail" /\ i2 = i /\ ~p2 /\ e2 = e + 1 /\ a2 = a
           \/ p /\ i2 = i /\ ~p2 /\ e2 = e /\ a2 \in {"Fail", a}
           \/ e = 1 /\ i2 = i /\ p2 = p /\ e2 = e /\ a2 = "Ok"
           \/ ~i /\ i2 = i /\ p2 = p /\ e2 = e /\ a2 = "Fail"
           \/ i /\ i2 = i /\ p2 = p /\ e2 = e /\ a2 = "Unknown"
           \/ i2 = i /\ p2 = p /\ e2 = e /\ a2 = "None"
    PROVE  Promise!Step(
               [issued |-> i, pending |-> p, effects |-> e, answer |-> a],
               [issued |-> i2, pending |-> p2, effects |-> e2, answer |-> a2])
<1> DEFINE x == [issued |-> i, pending |-> p, effects |-> e, answer |-> a]
           y == [issued |-> i2, pending |-> p2, effects |-> e2, answer |-> a2]
<1>0. x.issued = i /\ x.pending = p /\ x.effects = e /\ x.answer = a
    OBVIOUS
<1>1. CASE i2 = i /\ p2 = p /\ e2 = e /\ a2 = a
    <2>1. y = x BY <1>1
    <2> QED BY <2>1 DEF Promise!Step
<1>2. CASE ~i /\ a = "None" /\ i2 /\ p2 /\ e2 = e /\ a2 = a
    <2>1. Promise!Issue(x, y) BY <1>0, <1>2, Zenon DEF Promise!Issue
    <2> QED BY <2>1 DEF Promise!Step
<1>3. CASE p /\ a # "Fail" /\ i2 = i /\ ~p2 /\ e2 = e + 1 /\ a2 = a
    <2>1. Promise!TakeEffect(x, y) BY <1>0, <1>3, Zenon DEF Promise!TakeEffect
    <2> QED BY <2>1 DEF Promise!Step
<1>4. CASE p /\ i2 = i /\ ~p2 /\ e2 = e /\ a2 \in {"Fail", a}
    <2>1. Promise!Refuse(x, y) BY <1>0, <1>4, Zenon DEF Promise!Refuse
    <2> QED BY <2>1 DEF Promise!Step
<1>5. CASE e = 1 /\ i2 = i /\ p2 = p /\ e2 = e /\ a2 = "Ok"
    <2>1. i2 = i /\ p2 = p /\ e2 = e BY <1>5, Zenon
    <2>2. y = [x EXCEPT !.answer = a2] BY <2>1
    <2>3. a2 = "Ok" BY <1>5, <1>0, Zenon
    <2>4. Promise!Confirm(x, y) BY <2>2, <2>3, <1>0, <1>5, Zenon DEF Promise!Confirm
    <2> QED BY <2>4 DEF Promise!Step
<1>6. CASE ~i /\ i2 = i /\ p2 = p /\ e2 = e /\ a2 = "Fail"
    <2>1. i2 = i /\ p2 = p /\ e2 = e BY <1>6, Zenon
    <2>2. y = [x EXCEPT !.answer = a2] BY <2>1
    <2>3. a2 = "Fail" BY <1>6, <1>0, Zenon
    <2>4. Promise!CallOff(x, y) BY <2>2, <2>3, <1>0, <1>6, Zenon DEF Promise!CallOff
    <2> QED BY <2>4 DEF Promise!Step
<1>7. CASE i /\ i2 = i /\ p2 = p /\ e2 = e /\ a2 = "Unknown"
    <2>1. i2 = i /\ p2 = p /\ e2 = e BY <1>7, Zenon
    <2>2. y = [x EXCEPT !.answer = a2] BY <2>1
    <2>3. a2 = "Unknown" BY <1>7, <1>0, Zenon
    <2>4. Promise!Doubt(x, y) BY <2>2, <2>3, <1>0, <1>7, Zenon DEF Promise!Doubt
    <2> QED BY <2>4 DEF Promise!Step
<1>8. CASE i2 = i /\ p2 = p /\ e2 = e /\ a2 = "None"
    <2>1. i2 = i /\ p2 = p /\ e2 = e BY <1>8, Zenon
    <2>2. y = [x EXCEPT !.answer = a2] BY <2>1
    <2>3. a2 = "None" BY <1>8, <1>0, Zenon
    <2>4. Promise!Forget(x, y) BY <2>2, <2>3, <1>0, <1>8, Zenon DEF Promise!Forget
    <2> QED BY <2>4 DEF Promise!Step
<1> QED BY <1>1, <1>2, <1>3, <1>4, <1>5, <1>6, <1>7, <1>8

\* The same for the life of request r.
LEMMA RequestStep ==
    ASSUME NEW r \in Req,
           \/ /\ (r \in issued') = (r \in issued) /\ (r \in wire') = (r \in wire)
              /\ effects'[r] = effects[r] /\ Answer(r)' = Answer(r)
           \/ /\ r \notin issued /\ Answer(r) = "None"
              /\ r \in issued' /\ r \in wire'
              /\ effects'[r] = effects[r] /\ Answer(r)' = Answer(r)
           \/ /\ r \in wire /\ Answer(r) # "Fail"
              /\ (r \in issued') = (r \in issued) /\ r \notin wire'
              /\ effects'[r] = effects[r] + 1 /\ Answer(r)' = Answer(r)
           \/ /\ r \in wire
              /\ (r \in issued') = (r \in issued) /\ r \notin wire'
              /\ effects'[r] = effects[r] /\ Answer(r)' \in {"Fail", Answer(r)}
           \/ /\ effects[r] = 1
              /\ (r \in issued') = (r \in issued) /\ (r \in wire') = (r \in wire)
              /\ effects'[r] = effects[r] /\ Answer(r)' = "Ok"
           \/ /\ r \notin issued
              /\ (r \in issued') = (r \in issued) /\ (r \in wire') = (r \in wire)
              /\ effects'[r] = effects[r] /\ Answer(r)' = "Fail"
           \/ /\ r \in issued
              /\ (r \in issued') = (r \in issued) /\ (r \in wire') = (r \in wire)
              /\ effects'[r] = effects[r] /\ Answer(r)' = "Unknown"
           \/ /\ (r \in issued') = (r \in issued) /\ (r \in wire') = (r \in wire)
              /\ effects'[r] = effects[r] /\ Answer(r)' = "None"
    PROVE  Promise!Step(Lf(r), Lf(r)')
<1>1. /\ (r \in issued) \in BOOLEAN /\ (r \in wire) \in BOOLEAN
      /\ (r \in issued') \in BOOLEAN /\ (r \in wire') \in BOOLEAN
    OBVIOUS
<1>2. Promise!Step(
          [issued |-> r \in issued, pending |-> r \in wire,
           effects |-> effects[r], answer |-> Answer(r)],
          [issued |-> r \in issued', pending |-> r \in wire',
           effects |-> effects'[r], answer |-> Answer(r)'])
    BY <1>1, LifeStep, Zenon
<1> QED BY <1>2, Zenon DEF Lf

-----------------------------------------------------------------------------
(* The invariant is inductive.                                             *)

LEMMA InitHolds == Init => IInv
<1> SUFFICES ASSUME Init PROVE IInv
    OBVIOUS
<1> USE IcpUpdateAssumption DEF Init
<1>1. TypeOK
    <2>1. /\ status \in [Req -> Statuses] /\ updated_at \in [Req -> 0..MaxTime]
          /\ call \in [Slot -> Attempt \cup {NoCall}] /\ effects \in [Req -> Nat]
        BY DEF Statuses
    <2>2. queue \in Seq(Req \cup {Hole})
        OBVIOUS
    <2>3. timers \in Nat /\ now \in 1..MaxTime
          /\ faults \in 0..MaxFaults /\ upgrades \in 0..MaxUpgrades
        OBVIOUS
    <2> QED BY <2>1, <2>2, <2>3 DEF TypeOK
<1>2. EntriesAreQueued /\ QueuedHasEntry /\ KnownIsRecorded /\ StatusFollowsIssue
    BY DEF EntriesAreQueued, QueuedHasEntry, KnownIsRecorded, StatusFollowsIssue
<1>3. CallsAreSingle /\ AttemptsAreSingle /\ AnswersAreTrue
    BY DEF CallsAreSingle, AttemptsAreSingle, AnswersAreTrue
<1> QED BY <1>1, <1>2, <1>3 DEF IInv

\* Schedule keeps the types of the flag and the timers.
LEMMA ScheduleTypes ==
    ASSUME scheduled \in BOOLEAN, timers \in Nat, Schedule
    PROVE  scheduled' \in BOOLEAN /\ timers' \in Nat
BY DEF Schedule

LEMMA RecordHolds ==
    ASSUME IInv, NEW r \in Req, Record(r)
    PROVE  IInv'
<1> USE DEF IInv
<1>1. PICK T \in Trimmed(r) :
          /\ status' = [x \in Req |-> IF x \in T THEN "None"
                                      ELSE IF x = r THEN "Queued" ELSE status[x]]
          /\ updated_at' = [x \in Req |-> IF x \in T THEN 0
                                          ELSE IF x = r THEN now ELSE updated_at[x]]
          /\ unreadable' = unreadable \ T
          /\ queue' = RemoveEntries(Append(queue, r), T)
    BY DEF Record
<1>2. /\ r \notin recorded /\ recorded' = recorded \cup {r}
      /\ UNCHANGED <<call, allowlist, wire, effects, issued, now, faults, upgrades>>
      /\ Schedule
    BY DEF Record, target, bounds
<1>3. status[r] = "None" /\ r \notin issued
    BY <1>2 DEF KnownIsRecorded
<1>4. T \subseteq Present /\ r \notin T
    BY <1>3 DEF Trimmed, Completed, Present
<1>5. /\ queue \in Seq(Entry) /\ Len(queue) \in Nat
      /\ \A i \in 1..Len(queue) : queue[i] \in Entry /\ queue[i] # r
    <2>1. queue \in Seq(Entry) BY DEF TypeOK, Entry
    <2>2. ASSUME NEW i \in 1..Len(queue) PROVE queue[i] # r
        BY <1>3, IcpUpdateAssumption DEF EntriesAreQueued
    <2> QED BY <2>1, <2>2
<1>6. /\ queue' \in Seq(Entry) /\ Len(queue') = Len(queue) + 1
      /\ queue'[Len(queue) + 1] = r
      /\ \A i \in 1..Len(queue) :
            queue'[i] = IF queue[i] \in T THEN Hole ELSE queue[i]
    <2> DEFINE q == Append(queue, r)
    <2>1. /\ q \in Seq(Entry) /\ Len(q) = Len(queue) + 1
          /\ q[Len(queue) + 1] = r /\ \A i \in 1..Len(queue) : q[i] = queue[i]
        BY <1>5, AppendPositions DEF Entry
    <2>2. /\ queue' \in Seq(Entry) /\ Len(queue') = Len(q)
          /\ \A i \in 1..Len(q) : queue'[i] = IF q[i] \in T THEN Hole ELSE q[i]
        <3>1. queue' = RemoveEntries(q, T) BY <1>1
        <3> HIDE DEF q
        <3> QED BY <3>1, <2>1, RemovePositions
    <2> HIDE DEF q
    <2>3. 1..Len(queue) \subseteq 1..Len(q) /\ Len(queue) + 1 \in 1..Len(q)
        BY <1>5, <2>1
    <2> QED BY <2>1, <2>2, <2>3, <1>4
<1>7. \A x \in Req : status'[x] = IF x \in T THEN "None"
                                  ELSE IF x = r THEN "Queued" ELSE status[x]
    BY <1>1
<1>8. TypeOK'
    <2>1. scheduled' \in BOOLEAN /\ timers' \in Nat
        BY <1>2, ScheduleTypes DEF TypeOK
    <2>2. status' \in [Req -> Statuses] /\ updated_at' \in [Req -> 0..MaxTime]
        BY <1>1, IcpUpdateAssumption DEF TypeOK, Statuses
    <2>3. unreadable' \subseteq Present'
        BY <1>1, <1>7 DEF TypeOK, Present
    <2>4. recorded' \subseteq Req
        BY <1>2 DEF TypeOK
    <2> QED BY <1>2, <1>6, <2>1, <2>2, <2>3, <2>4 DEF TypeOK, Entry
<1>9. EntriesAreQueued'
    <2>1. ASSUME NEW i \in 1..Len(queue'), queue'[i] # Hole
          PROVE  /\ status'[queue'[i]] = "Queued"
                 /\ \A j \in 1..Len(queue') : queue'[j] = queue'[i] => j = i
        <3>1. CASE i = Len(queue) + 1
            <4>1. status'[r] = "Queued" BY <1>7, <1>4
            <4>2. ASSUME NEW j \in 1..Len(queue'), queue'[j] = r PROVE j = i
                BY <4>2, <3>1, <1>5, <1>6, IcpUpdateAssumption
            <4> QED BY <4>1, <4>2, <3>1, <1>6
        <3>2. CASE i # Len(queue) + 1
            <4>1. i \in 1..Len(queue) BY <3>2, <1>5, <1>6
            <4>2. queue'[i] = queue[i] /\ queue[i] \notin T /\ queue[i] # Hole
                BY <4>1, <1>6, <2>1
            <4>3. queue[i] \in Req /\ queue[i] # r /\ status[queue[i]] = "Queued"
                BY <4>1, <4>2, <1>5 DEF Entry, EntriesAreQueued
            <4>4. status'[queue'[i]] = "Queued" BY <4>2, <4>3, <1>7
            <4>5. ASSUME NEW j \in 1..Len(queue'), queue'[j] = queue'[i] PROVE j = i
                <5>1. j # Len(queue) + 1 BY <4>5, <4>2, <4>3, <1>6
                <5>2. j \in 1..Len(queue) BY <5>1, <1>5, <1>6
                <5>3. queue'[j] = queue[j] BY <5>2, <1>6, <4>5, <4>2
                <5> QED BY <5>2, <5>3, <4>5, <4>1, <4>2 DEF EntriesAreQueued
            <4> QED BY <4>4, <4>5
        <3> QED BY <3>1, <3>2
    <2> QED BY <2>1 DEF EntriesAreQueued
<1>10. QueuedHasEntry'
    <2>1. ASSUME NEW x \in Req, status'[x] = "Queued"
          PROVE  \E i \in 1..Len(queue') : queue'[i] = x
        <3>1. CASE x = r
            BY <3>1, <1>5, <1>6
        <3>2. CASE x # r
            <4>1. x \notin T /\ status[x] = "Queued" BY <3>2, <2>1, <1>7
            <4>2. PICK i \in 1..Len(queue) : queue[i] = x
                BY <4>1 DEF QueuedHasEntry
            <4> QED BY <4>1, <4>2, <1>5, <1>6
        <3> QED BY <3>1, <3>2
    <2> QED BY <2>1 DEF QueuedHasEntry
<1>11. KnownIsRecorded' /\ StatusFollowsIssue'
    BY <1>2, <1>3, <1>7 DEF KnownIsRecorded, StatusFollowsIssue
<1>12. CallsAreSingle' /\ AttemptsAreSingle'
    BY <1>2 DEF CallsAreSingle, AttemptsAreSingle
<1>13. AnswersAreTrue'
    BY <1>2, <1>7 DEF AnswersAreTrue
<1> QED BY <1>8, <1>9, <1>10, <1>11, <1>12, <1>13

\* What pop_next_icp_update_request leaves: the taken request and the
\* unreadable ones before it, none of which was issued, leave the queue.
LEMMA PoppedHolds ==
    ASSUME IInv, NEW i \in 1..Len(queue), First(i),
           NEW st \in Statuses \ {"None", "Queued"}, Popped(i, st)
    PROVE  /\ queue[i] \in Req /\ status[queue[i]] = "Queued"
           /\ queue[i] \notin issued /\ queue[i] \notin unreadable
           /\ status'[queue[i]] = st
           /\ \A x \in Req : x # queue[i] =>
                 \/ /\ status'[x] = status[x]
                    /\ x \in unreadable' <=> x \in unreadable
                 \/ /\ status[x] = "Queued" /\ status'[x] = "DispatchFailed"
                    /\ x \in unreadable /\ x \notin unreadable'
           /\ queue[i] \notin unreadable'
           /\ status' \in [Req -> Statuses] /\ updated_at' \in [Req -> 0..MaxTime]
           /\ unreadable' \subseteq Present'
           /\ queue' \in Seq(Entry)
           /\ EntriesAreQueued' /\ QueuedHasEntry'
<1> USE DEF IInv
<1> DEFINE r == queue[i]
           Q == Quarantined(i)
<1>1. queue \in Seq(Entry) /\ Len(queue) \in Nat
      /\ \A j \in 1..Len(queue) : queue[j] \in Entry
    BY DEF TypeOK, Entry
<1>2. r \in Req /\ status[r] = "Queued" /\ r \notin unreadable
    BY <1>1 DEF First, Takeable, Entry, EntriesAreQueued
<1>3. r \notin issued
    BY <1>2 DEF StatusFollowsIssue
<1>4. \A x \in Q : /\ x \in Req /\ x \in unreadable /\ x # r /\ status[x] = "Queued"
                   /\ \E j \in 1..(i - 1) : queue[j] = x
    <2> SUFFICES ASSUME NEW x \in Q
                 PROVE  /\ x \in Req /\ x \in unreadable /\ x # r /\ status[x] = "Queued"
                        /\ \E j \in 1..(i - 1) : queue[j] = x
        OBVIOUS
    <2>1. x \in unreadable /\ x \in Req BY DEF Quarantined, TypeOK, Present
    <2>2. PICK j \in 1..(i - 1) : queue[j] = x BY DEF Quarantined
    <2>3. j \in 1..Len(queue) BY <1>1
    <2>4. status[x] = "Queued"
        BY <2>1, <2>2, <2>3, IcpUpdateAssumption DEF EntriesAreQueued
    <2> QED BY <2>1, <2>2, <2>4, <1>2
<1>5. /\ status' = [x \in Req |-> IF x = r THEN st
                                  ELSE IF x \in Q THEN "DispatchFailed" ELSE status[x]]
      /\ updated_at' = [x \in Req |-> IF x \in Q \cup {r} THEN now ELSE updated_at[x]]
      /\ unreadable' = unreadable \ (Q \cup {r})
      /\ queue' = SubSeq(queue, i + 1, Len(queue))
    BY DEF Popped
<1>6. /\ queue' \in Seq(Entry) /\ Len(queue') = Len(queue) - i
      /\ \A j \in 1..(Len(queue) - i) : queue'[j] = queue[j + i]
    BY <1>1, <1>5, SuffixPositions
<1> HIDE DEF Q
<1>7. \A x \in Req : status'[x] = IF x = r THEN st
                                  ELSE IF x \in Q THEN "DispatchFailed" ELSE status[x]
    BY <1>5
<1>8. /\ status' \in [Req -> Statuses] /\ updated_at' \in [Req -> 0..MaxTime]
      /\ unreadable' \subseteq Present'
    <2>1. status' \in [Req -> Statuses] BY <1>5 DEF TypeOK, Statuses
    <2>2. updated_at' \in [Req -> 0..MaxTime] BY <1>5 DEF TypeOK
    <2>3. unreadable' \subseteq Present' BY <1>5, <1>7 DEF TypeOK, Present
    <2> QED BY <2>1, <2>2, <2>3
<1>9. EntriesAreQueued'
    <2>1. ASSUME NEW j \in 1..Len(queue'), queue'[j] # Hole
          PROVE  /\ status'[queue'[j]] = "Queued"
                 /\ \A k \in 1..Len(queue') : queue'[k] = queue'[j] => k = j
        <3>1. /\ j \in 1..(Len(queue) - i) /\ j + i \in 1..Len(queue)
              /\ queue'[j] = queue[j + i]
            BY <1>1, <1>6
        <3>2. queue[j + i] \in Req /\ status[queue[j + i]] = "Queued"
            BY <3>1, <2>1, <1>1 DEF EntriesAreQueued, Entry
        <3>3. \A k \in 1..Len(queue) : queue[k] = queue[j + i] => k = j + i
            BY <3>1, <2>1 DEF EntriesAreQueued
        <3>4. queue[j + i] # r
            BY <3>1, <3>3, <1>1
        <3>5. queue[j + i] \notin Q
            BY <3>1, <3>3, <1>1, <1>4
        <3>6. status'[queue'[j]] = "Queued"
            BY <3>1, <3>2, <3>4, <3>5, <1>7
        <3>7. ASSUME NEW k \in 1..Len(queue'), queue'[k] = queue'[j] PROVE k = j
            <4>1. k + i \in 1..Len(queue) /\ queue'[k] = queue[k + i]
                BY <1>1, <1>6
            <4>2. k + i = j + i BY <4>1, <3>7, <3>1, <3>3
            <4> QED BY <4>2, <1>1, <1>6
        <3> QED BY <3>6, <3>7
    <2> QED BY <2>1 DEF EntriesAreQueued
<1>10. QueuedHasEntry'
    <2>1. ASSUME NEW x \in Req, status'[x] = "Queued"
          PROVE  \E j \in 1..Len(queue') : queue'[j] = x
        <3>1. x # r /\ x \notin Q /\ status[x] = "Queued" BY <2>1, <1>7
        <3>2. PICK k \in 1..Len(queue) : queue[k] = x
            BY <3>1 DEF QueuedHasEntry
        <3>3. k # i BY <3>1, <3>2
        <3>4. ~(k < i)
            <4>1. SUFFICES ASSUME k < i PROVE FALSE OBVIOUS
            <4>2. k \in 1..(i - 1) BY <4>1, <1>1
            <4>3. ~Takeable(queue[k]) BY <4>2 DEF First
            <4>4. x \in unreadable
                BY <4>3, <3>1, <3>2, IcpUpdateAssumption DEF Takeable
            <4>5. x \in Q BY <4>2, <4>4, <3>2 DEF Q, Quarantined
            <4> QED BY <4>5, <3>1
        <3>5. k - i \in 1..Len(queue') /\ k - i \in 1..(Len(queue) - i)
            BY <3>3, <3>4, <1>1, <1>6
        <3>6. queue'[k - i] = x BY <3>5, <3>2, <1>1, <1>6
        <3> QED BY <3>5, <3>6
    <2> QED BY <2>1 DEF QueuedHasEntry
<1>11. ASSUME NEW x \in Req, x # r
       PROVE  \/ /\ status'[x] = status[x]
                 /\ x \in unreadable' <=> x \in unreadable
              \/ /\ status[x] = "Queued" /\ status'[x] = "DispatchFailed"
                 /\ x \in unreadable /\ x \notin unreadable'
    BY <1>11, <1>7, <1>5, <1>4
<1> QED BY <1>2, <1>3, <1>5, <1>6, <1>7, <1>8, <1>9, <1>10, <1>11

LEMMA TickHolds ==
    ASSUME IInv, NEW s \in Slot, Tick(s)
    PROVE  IInv'
<1> USE DEF IInv
<1>1. PICK i \in 1..Len(queue) :
          /\ First(i)
          /\ Popped(i, "Dispatching")
          /\ call' = [call EXCEPT ![s] = [req |-> queue[i], phase |-> "Sent"]]
          /\ wire' = wire \cup {queue[i]}
          /\ issued' = issued \cup {queue[i]}
    BY DEF Tick
<1>2. /\ timers > 0 /\ timers' = timers - 1
      /\ call[s] = NoCall
      /\ UNCHANGED <<scheduled, allowlist, effects, recorded, now, faults, upgrades>>
    BY DEF Tick, bounds
<1> DEFINE r == queue[i]
<1>3. /\ r \in Req /\ status[r] = "Queued" /\ r \notin issued
      /\ status'[r] = "Dispatching"
      /\ \A x \in Req : x # r =>
            \/ status'[x] = status[x]
            \/ status[x] = "Queued" /\ status'[x] = "DispatchFailed"
      /\ status' \in [Req -> Statuses] /\ updated_at' \in [Req -> 0..MaxTime]
      /\ unreadable' \subseteq Present'
      /\ queue' \in Seq(Entry)
      /\ EntriesAreQueued' /\ QueuedHasEntry'
    <2>1. "Dispatching" \in Statuses \ {"None", "Queued"} BY DEF Statuses
    <2> QED BY <1>1, <2>1, PoppedHolds
<1> HIDE DEF r
<1>4. /\ call' = [call EXCEPT ![s] = [req |-> r, phase |-> "Sent"]]
      /\ wire' = wire \cup {r} /\ issued' = issued \cup {r}
    BY <1>1 DEF r
<1>5. TypeOK'
    <2>1. [req |-> r, phase |-> "Sent"] \in Attempt BY <1>3 DEF Attempt, Phases
    <2>2. call' \in [Slot -> Attempt \cup {NoCall}] BY <2>1, <1>4 DEF TypeOK
    <2>3. timers' \in Nat BY <1>2 DEF TypeOK
    <2> QED BY <1>2, <1>3, <1>4, <2>2, <2>3 DEF TypeOK, Entry
<1>6. KnownIsRecorded' /\ StatusFollowsIssue'
    BY <1>2, <1>3, <1>4 DEF KnownIsRecorded, StatusFollowsIssue
<1>7. effects[r] = 0 /\ r \notin wire
    BY <1>3 DEF CallsAreSingle
<1>8. CallsAreSingle'
    BY <1>2, <1>4, <1>7 DEF CallsAreSingle
<1>9. AttemptsAreSingle'
    <2>1. call'[s] = [req |-> r, phase |-> "Sent"]
          /\ \A t \in Slot : t # s => call'[t] = call[t]
        BY <1>4 DEF TypeOK
    <2>2. \A t \in Slot : call[t] # NoCall => call[t].req # r
        BY <1>3 DEF AttemptsAreSingle
    <2> QED BY <2>1, <2>2, <1>2, <1>4 DEF AttemptsAreSingle
<1>10. AnswersAreTrue'
    <2>1. ASSUME NEW x \in Req
          PROVE  /\ status'[x] = "Dispatched" => effects'[x] = 1
                 /\ status'[x] = "DispatchFailed" => x \notin wire' /\ effects'[x] = 0
        <3>1. CASE x = r BY <3>1, <1>3
        <3>2. CASE x # r /\ status'[x] = status[x]
            BY <3>2, <1>2, <1>4 DEF AnswersAreTrue
        <3>3. CASE x # r /\ status[x] = "Queued" /\ status'[x] = "DispatchFailed"
            BY <3>3, <1>2, <1>4 DEF CallsAreSingle, StatusFollowsIssue
        <3> QED BY <3>1, <3>2, <3>3, <1>3
    <2> QED BY <2>1 DEF AnswersAreTrue
<1> QED BY <1>3, <1>5, <1>6, <1>8, <1>9, <1>10

\* The end of a tick keeps the types of the flag and the timers.
LEMMA CompleteTypes ==
    ASSUME scheduled \in BOOLEAN, NEW q, NEW left \in Nat, CompleteTick(q, left)
    PROVE  scheduled' \in BOOLEAN /\ timers' \in Nat
<1>1. scheduled' \in {scheduled, FALSE} BY Zenon DEF CompleteTick
<1>2. timers' \in {left, left + 1} BY DEF CompleteTick
<1>3. scheduled' \in BOOLEAN BY <1>1, Zenon
<1>4. timers' \in Nat BY <1>2
<1> QED BY <1>3, <1>4

LEMMA TickRefusedHolds ==
    ASSUME IInv, TickRefused
    PROVE  IInv'
<1> USE DEF IInv
<1>1. PICK i \in 1..Len(queue) :
          /\ First(i)
          /\ Popped(i, "DispatchFailed")
          /\ CompleteTick(SubSeq(queue, i + 1, Len(queue)), timers - 1)
    BY DEF TickRefused
<1>2. /\ timers > 0
      /\ UNCHANGED <<call, allowlist, wire, effects, issued, recorded, now, faults,
                     upgrades>>
    BY DEF TickRefused, target, history, bounds
<1>3. /\ \A x \in Req :
            \/ status'[x] = status[x]
            \/ status[x] = "Queued" /\ status'[x] = "DispatchFailed"
      /\ status' \in [Req -> Statuses] /\ updated_at' \in [Req -> 0..MaxTime]
      /\ unreadable' \subseteq Present'
      /\ queue' \in Seq(Entry)
      /\ EntriesAreQueued' /\ QueuedHasEntry'
    <2>1. "DispatchFailed" \in Statuses \ {"None", "Queued"} BY DEF Statuses
    <2> QED BY <1>1, <2>1, PoppedHolds
<1>4. TypeOK'
    <2>1. timers - 1 \in Nat BY <1>2 DEF TypeOK
    <2>2. scheduled' \in BOOLEAN /\ timers' \in Nat
        BY <1>1, <2>1, CompleteTypes DEF TypeOK
    <2> QED BY <1>2, <1>3, <2>2 DEF TypeOK, Entry
<1>5. KnownIsRecorded' /\ StatusFollowsIssue'
    BY <1>2, <1>3 DEF KnownIsRecorded, StatusFollowsIssue
<1>6. CallsAreSingle' /\ AttemptsAreSingle'
    BY <1>2 DEF CallsAreSingle, AttemptsAreSingle
<1>7. AnswersAreTrue'
    BY <1>2, <1>3 DEF AnswersAreTrue, CallsAreSingle, StatusFollowsIssue
<1> QED BY <1>3, <1>4, <1>5, <1>6, <1>7

\* What a write does to the records.
LEMMA WriteRecords ==
    ASSUME TypeOK, NEW S \in SUBSET Present, NEW st \in Statuses \ {"None"},
           Write(S, st)
    PROVE  /\ status' \in [Req -> Statuses] /\ updated_at' \in [Req -> 0..MaxTime]
           /\ unreadable' \subseteq Present'
           /\ \A x \in Req : status'[x] = IF x \in S THEN st ELSE status[x]
<1>1. status' = [r \in Req |-> IF r \in S THEN st ELSE status[r]]
      /\ updated_at' = [r \in Req |-> IF r \in S THEN now ELSE updated_at[r]]
      /\ unreadable' = unreadable \ S
    BY DEF Write
<1>2. status' \in [Req -> Statuses] BY <1>1 DEF TypeOK
<1>3. updated_at' \in [Req -> 0..MaxTime] BY <1>1 DEF TypeOK
<1>4. \A x \in Req : status'[x] = IF x \in S THEN st ELSE status[x] BY <1>1
<1>5. unreadable' \subseteq Present' BY <1>1, <1>4 DEF TypeOK, Present
<1> QED BY <1>2, <1>3, <1>4, <1>5

LEMMA TickIdleHolds ==
    ASSUME IInv, TickIdle
    PROVE  IInv'
<1> USE DEF IInv
<1> DEFINE Q == Quarantined(Len(queue) + 1)
<1>1. /\ timers > 0 /\ timers' = timers - 1 /\ scheduled' = FALSE
      /\ queue' = <<>>
      /\ \A i \in 1..Len(queue) : ~Takeable(queue[i])
      /\ Write(Q, "DispatchFailed")
      /\ UNCHANGED <<call, allowlist, wire, effects, issued, recorded, now, faults,
                     upgrades>>
    BY DEF TickIdle, target, history, bounds
<1>2. \A x \in Q : x \in Present /\ status[x] = "Queued" /\ x \in Req
    BY IcpUpdateAssumption DEF Quarantined, TypeOK, Present, EntriesAreQueued
<1>3. \A x \in Req : status[x] = "Queued" => x \in Q
    <2> SUFFICES ASSUME NEW x \in Req, status[x] = "Queued" PROVE x \in Q
        OBVIOUS
    <2>1. PICK i \in 1..Len(queue) : queue[i] = x BY DEF QueuedHasEntry
    <2>2. x \in unreadable BY <1>1, <2>1, IcpUpdateAssumption DEF Takeable
    <2>3. i \in 1..(Len(queue) + 1 - 1) BY DEF TypeOK
    <2> QED BY <2>1, <2>2, <2>3 DEF Quarantined
<1> HIDE DEF Q
<1>4. /\ status' \in [Req -> Statuses] /\ updated_at' \in [Req -> 0..MaxTime]
      /\ unreadable' \subseteq Present'
      /\ \A x \in Req : status'[x] = IF x \in Q THEN "DispatchFailed" ELSE status[x]
    <2>1. "DispatchFailed" \in Statuses \ {"None"} BY DEF Statuses
    <2>2. Q \in SUBSET Present BY <1>2
    <2> QED BY <1>1, <2>1, <2>2, WriteRecords
<1>5. TypeOK'
    <2>1. timers' \in Nat BY <1>1 DEF TypeOK
    <2>2. queue' \in Seq(Req \cup {Hole}) BY <1>1
    <2> QED BY <1>1, <1>4, <2>1, <2>2 DEF TypeOK
<1>6. EntriesAreQueued' /\ QueuedHasEntry'
    BY <1>1, <1>3, <1>4 DEF EntriesAreQueued, QueuedHasEntry
<1>7. KnownIsRecorded' /\ StatusFollowsIssue'
    BY <1>1, <1>2, <1>4 DEF KnownIsRecorded, StatusFollowsIssue
<1>8. CallsAreSingle' /\ AttemptsAreSingle'
    BY <1>1 DEF CallsAreSingle, AttemptsAreSingle
<1>9. AnswersAreTrue'
    BY <1>1, <1>2, <1>4 DEF AnswersAreTrue, CallsAreSingle, StatusFollowsIssue
<1> QED BY <1>5, <1>6, <1>7, <1>8, <1>9

\* finalize_icp_update_dispatch_attempt for the one attempt of a request.
LEMMA FinalizeHolds ==
    ASSUME IInv, NEW s \in Slot, call[s] # NoCall,
           NEW st \in {"Dispatched", "DispatchFailed", "DispatchUncertain"},
           Finalize(s, st), effects' = effects,
           wire' = wire \/ wire' = wire \ {call[s].req},
           st = "Dispatched" => effects[call[s].req] = 1,
           st = "DispatchFailed" => /\ call[s].phase = "Sent"
                                    /\ wire' = wire \ {call[s].req},
           call[s].phase = "Executed" => wire' = wire
    PROVE  IInv'
<1> USE DEF IInv
<1> DEFINE r == call[s].req
<1>1. /\ Write({r} \cap Present, st)
      /\ call' = [call EXCEPT ![s] = NoCall]
      /\ CompleteTick(queue, timers)
      /\ UNCHANGED <<queue, allowlist, issued, recorded, now, faults, upgrades>>
    BY DEF Finalize, history, bounds
<1>2. r \in Req /\ r \in issued /\ status[r] # "Queued"
    BY DEF TypeOK, Attempt, AttemptsAreSingle, StatusFollowsIssue
<1>3. st = "DispatchFailed" => effects[r] = 0
    BY <1>2 DEF AttemptsAreSingle, CallsAreSingle
<1>4. /\ st \in Statuses \ {"None"} /\ {r} \cap Present \in SUBSET Present
    BY DEF Statuses
<1>5. /\ status' \in [Req -> Statuses] /\ updated_at' \in [Req -> 0..MaxTime]
      /\ unreadable' \subseteq Present'
      /\ \A x \in Req : status'[x] = IF x \in {r} \cap Present THEN st ELSE status[x]
    <2> HIDE DEF r
    <2> QED BY <1>1, <1>4, WriteRecords
<1>6. \A x \in Req : \/ status'[x] = status[x]
                     \/ x = r /\ status'[x] = st
    BY <1>5
<1>7. /\ call'[s] = NoCall
      /\ \A t \in Slot : t # s => call'[t] = call[t]
      /\ call' \in [Slot -> Attempt \cup {NoCall}]
    BY <1>1 DEF TypeOK
<1>8. wire' \subseteq wire
    OBVIOUS
<1>9. TypeOK'
    <2>1. scheduled' \in BOOLEAN /\ timers' \in Nat
        BY <1>1, CompleteTypes DEF TypeOK
    <2> QED BY <1>1, <1>5, <1>7, <1>8, <2>1 DEF TypeOK
<1>10. \A x \in Req : status'[x] = "Queued" <=> status[x] = "Queued"
    BY <1>2, <1>6
<1>11. EntriesAreQueued'
    <2>1. \A i \in 1..Len(queue) : queue[i] # Hole => queue[i] \in Req
        BY DEF TypeOK
    <2> QED BY <1>1, <1>10, <2>1 DEF EntriesAreQueued
<1>12. QueuedHasEntry'
    BY <1>1, <1>10 DEF QueuedHasEntry
<1>13. KnownIsRecorded' /\ StatusFollowsIssue'
    BY <1>1, <1>2, <1>6 DEF KnownIsRecorded, StatusFollowsIssue
<1>14. CallsAreSingle'
    BY <1>1, <1>8 DEF CallsAreSingle
<1>15. AttemptsAreSingle'
    <2>1. ASSUME NEW t \in Slot, call'[t] # NoCall
          PROVE  /\ call'[t].req \in issued'
                 /\ call'[t].phase = "Sent" => call'[t].req \in wire'
                 /\ call'[t].phase = "Executed" => effects'[call'[t].req] = 1
                 /\ \A u \in Slot :
                       call'[u] # NoCall /\ call'[u].req = call'[t].req => u = t
        <3>1. t # s /\ call'[t] = call[t] BY <2>1, <1>7
        <3>2. call[t].req # r BY <2>1, <3>1 DEF AttemptsAreSingle
        <3>3. \A u \in Slot : call'[u] # NoCall => u # s /\ call'[u] = call[u]
            BY <1>7
        <3> QED BY <1>1, <2>1, <3>1, <3>2, <3>3 DEF AttemptsAreSingle
    <2> QED BY <2>1 DEF AttemptsAreSingle
<1>16. AnswersAreTrue'
    BY <1>3, <1>6, <1>8 DEF AnswersAreTrue
<1> QED BY <1>9, <1>11, <1>12, <1>13, <1>14, <1>15, <1>16

\* The three ways a wait ends.
LEMMA ReplyHolds ==
    ASSUME IInv, NEW s \in Slot, Reply(s) \/ Rejected(s) \/ TimedOut(s)
    PROVE  IInv'
<1>1. CASE Reply(s)
    <2>1. effects[call[s].req] = 1
        BY <1>1 DEF Reply, IInv, AttemptsAreSingle
    <2> QED BY <1>1, <2>1, FinalizeHolds DEF Reply, target
<1>2. CASE Rejected(s)
    BY <1>2, FinalizeHolds DEF Rejected
<1>3. CASE TimedOut(s)
    BY <1>3, FinalizeHolds DEF TimedOut, TimeoutStatus, target
<1> QED BY <1>1, <1>2, <1>3

LEMMA ExecuteHolds ==
    ASSUME IInv, NEW r \in Req, Execute(r)
    PROVE  IInv'
<1> USE DEF IInv
<1>1. /\ r \in wire /\ wire' = wire \ {r}
      /\ effects' = [effects EXCEPT ![r] = @ + 1]
      /\ call' = [s \in Slot |->
                    IF call[s] = [req |-> r, phase |-> "Sent"]
                    THEN [req |-> r, phase |-> "Executed"] ELSE call[s]]
      /\ UNCHANGED <<status, updated_at, unreadable, queue, scheduled, timers,
                     allowlist, issued, recorded, now, faults, upgrades>>
    BY DEF Execute, records, history, bounds
<1>2. r \in issued /\ effects[r] = 0 /\ effects'[r] = 1
      /\ \A x \in Req : x # r => effects'[x] = effects[x]
    BY <1>1 DEF CallsAreSingle, TypeOK
<1>3. \A s \in Slot : call[s] # NoCall =>
          call[s] \in Attempt /\ call[s] = [req |-> call[s].req, phase |-> call[s].phase]
          /\ call[s].phase \in Phases
    BY DEF TypeOK, Attempt
<1>4. TypeOK'
    <2>1. [req |-> r, phase |-> "Executed"] \in Attempt BY DEF Attempt, Phases
    <2>2. call' \in [Slot -> Attempt \cup {NoCall}] BY <1>1, <2>1 DEF TypeOK
    <2>3. effects' \in [Req -> Nat] BY <1>1 DEF TypeOK
    <2> QED BY <1>1, <2>2, <2>3 DEF TypeOK, Present
<1>5. EntriesAreQueued' /\ QueuedHasEntry' /\ KnownIsRecorded' /\ StatusFollowsIssue'
    BY <1>1 DEF EntriesAreQueued, QueuedHasEntry, KnownIsRecorded, StatusFollowsIssue
<1>6. CallsAreSingle'
    BY <1>1, <1>2 DEF CallsAreSingle
<1>7. ASSUME NEW t \in Slot, call'[t] # NoCall
      PROVE  /\ call[t] # NoCall /\ call'[t].req = call[t].req
             /\ call[t].req # r => call'[t] = call[t]
             /\ call[t].req = r => call'[t].phase = "Executed"
    <2>1. CASE call[t] = [req |-> r, phase |-> "Sent"]
        BY <2>1, <1>1, IcpUpdateAssumption DEF Attempt, Phases
    <2>2. CASE call[t] # [req |-> r, phase |-> "Sent"]
        <3>1. call'[t] = call[t] BY <2>2, <1>1
        <3>2. call[t].phase # "Sent" \/ call[t].req # r
            BY <3>1, <2>2, <1>3, <1>7
        <3> QED BY <3>1, <3>2, <1>3, <1>7 DEF Phases
    <2> QED BY <2>1, <2>2
<1>8. AttemptsAreSingle'
    <2>1. ASSUME NEW t \in Slot, call'[t] # NoCall
          PROVE  /\ call'[t].req \in issued'
                 /\ call'[t].phase = "Sent" => call'[t].req \in wire'
                 /\ call'[t].phase = "Executed" => effects'[call'[t].req] = 1
                 /\ \A u \in Slot :
                       call'[u] # NoCall /\ call'[u].req = call'[t].req => u = t
        <3>1. call[t] # NoCall /\ call'[t].req = call[t].req /\ call[t].req \in Req
            BY <2>1, <1>7, <1>3 DEF Attempt
        <3>2. \A u \in Slot : call'[u] # NoCall =>
                  call[u] # NoCall /\ call'[u].req = call[u].req
            BY <1>7
        <3>3. CASE call[t].req = r
            BY <3>1, <3>2, <3>3, <2>1, <1>1, <1>2, <1>7 DEF AttemptsAreSingle
        <3>4. CASE call[t].req # r
            BY <3>1, <3>2, <3>4, <2>1, <1>1, <1>2, <1>7 DEF AttemptsAreSingle
        <3> QED BY <3>3, <3>4
    <2> QED BY <2>1 DEF AttemptsAreSingle
<1>9. AnswersAreTrue'
    BY <1>1, <1>2 DEF AnswersAreTrue
<1> QED BY <1>4, <1>5, <1>6, <1>8, <1>9

\* A write that gives DispatchUncertain to requests that are Dispatching.
LEMMA UncertainHolds ==
    ASSUME IInv, NEW S \in SUBSET Dispatching, Write(S, "DispatchUncertain"),
           UNCHANGED <<queue, issued, recorded, wire, effects>>
    PROVE  /\ status' \in [Req -> Statuses] /\ updated_at' \in [Req -> 0..MaxTime]
           /\ unreadable' \subseteq Present'
           /\ \A x \in Req : status'[x] = IF x \in S THEN "DispatchUncertain"
                                           ELSE status[x]
           /\ S \subseteq issued
           /\ EntriesAreQueued' /\ QueuedHasEntry' /\ KnownIsRecorded'
           /\ StatusFollowsIssue' /\ CallsAreSingle' /\ AnswersAreTrue'
<1> USE DEF IInv
<1>1. \A x \in S : x \in Req /\ status[x] = "Dispatching" /\ x \in Present /\ x \in issued
    BY DEF Dispatching, Read, Present, StatusFollowsIssue
<1>2. /\ status' \in [Req -> Statuses] /\ updated_at' \in [Req -> 0..MaxTime]
      /\ unreadable' \subseteq Present'
      /\ \A x \in Req : status'[x] = IF x \in S THEN "DispatchUncertain" ELSE status[x]
    <2>1. "DispatchUncertain" \in Statuses \ {"None"} BY DEF Statuses
    <2>2. S \in SUBSET Present BY <1>1
    <2> QED BY <2>1, <2>2, WriteRecords
<1>3. \A i \in 1..Len(queue) : queue[i] # Hole => queue[i] \in Req
    BY DEF TypeOK
<1>4. \A x \in Req : status'[x] = "Queued" <=> status[x] = "Queued"
    BY <1>1, <1>2
<1>5. EntriesAreQueued' /\ QueuedHasEntry'
    BY <1>3, <1>4 DEF EntriesAreQueued, QueuedHasEntry
<1>6. KnownIsRecorded' /\ StatusFollowsIssue' /\ CallsAreSingle' /\ AnswersAreTrue'
    BY <1>1, <1>2 DEF KnownIsRecorded, StatusFollowsIssue, CallsAreSingle, AnswersAreTrue
<1> QED BY <1>1, <1>2, <1>5, <1>6

LEMMA RepairHolds ==
    ASSUME IInv, Repair
    PROVE  IInv'
<1>1. /\ Write(Stale, "DispatchUncertain") /\ Stale \in SUBSET Dispatching
      /\ ScheduleIf(Members(queue) # {})
      /\ UNCHANGED <<queue, call, allowlist, wire, effects, issued, recorded, now,
                     faults, upgrades>>
    BY DEF Repair, Stale, target, history, bounds
<1>2. scheduled' \in BOOLEAN /\ timers' \in Nat
    <2>1. CASE Members(queue) # {}
        BY <2>1, <1>1, ScheduleTypes DEF ScheduleIf, IInv, TypeOK
    <2>2. CASE ~(Members(queue) # {})
        BY <2>2, <1>1 DEF ScheduleIf, IInv, TypeOK
    <2> QED BY <2>1, <2>2
<1>3. /\ status' \in [Req -> Statuses] /\ updated_at' \in [Req -> 0..MaxTime]
      /\ unreadable' \subseteq Present'
      /\ EntriesAreQueued' /\ QueuedHasEntry' /\ KnownIsRecorded'
      /\ StatusFollowsIssue' /\ CallsAreSingle' /\ AnswersAreTrue'
    BY <1>1, UncertainHolds
<1>4. TypeOK' BY <1>1, <1>2, <1>3 DEF IInv, TypeOK
<1>5. AttemptsAreSingle' BY <1>1 DEF IInv, AttemptsAreSingle
<1> QED BY <1>3, <1>4, <1>5 DEF IInv

\* By the invariant the recovery finds nothing to push: its second look at the
\* queue is a safeguard.
LEMMA NothingToRequeue ==
    ASSUME IInv
    PROVE  ToRequeue = {}
<1>1. ASSUME NEW r \in Req, Read(r).status = "Queued" PROVE r \in Members(queue)
    <2>1. status[r] = "Queued" BY <1>1 DEF Read
    <2> QED BY <2>1, IcpUpdateAssumption DEF IInv, QueuedHasEntry, Members
<1> QED BY <1>1 DEF ToRequeue

LEMMA UpgradeHolds ==
    ASSUME IInv, NEW enabled \in BOOLEAN, Upgrade(enabled)
    PROVE  IInv'
<1>1. PICK q \in Orders(ToRequeue) :
          LET work == enabled /\ Members(queue \o q) # {} IN
          /\ queue' = queue \o q
          /\ scheduled' = work
          /\ timers' = IF work THEN 1 ELSE 0
    BY DEF Upgrade
<1>2. /\ upgrades < MaxUpgrades /\ upgrades' = upgrades + 1
      /\ Write(Dispatching, "DispatchUncertain")
      /\ call' = [s \in Slot |-> NoCall]
      /\ UNCHANGED <<allowlist, wire, effects, issued, recorded, now, faults>>
    BY DEF Upgrade, target, history
<1>3. queue' = queue
    <2>1. q = <<>> BY NothingToRequeue, FS_EmptySet DEF Orders
    <2>2. queue \in Seq(Req \cup {Hole}) BY DEF IInv, TypeOK
    <2>3. queue \o <<>> = queue BY <2>2
    <2> QED BY <1>1, <2>1, <2>3
<1>4. /\ status' \in [Req -> Statuses] /\ updated_at' \in [Req -> 0..MaxTime]
      /\ unreadable' \subseteq Present'
      /\ EntriesAreQueued' /\ QueuedHasEntry' /\ KnownIsRecorded'
      /\ StatusFollowsIssue' /\ CallsAreSingle' /\ AnswersAreTrue'
    BY <1>2, <1>3, UncertainHolds
<1>5. scheduled' \in BOOLEAN /\ timers' \in Nat
    BY <1>1
<1>6. upgrades' \in 0..MaxUpgrades
    BY <1>2, IcpUpdateAssumption DEF IInv, TypeOK
<1>7. TypeOK' BY <1>2, <1>3, <1>4, <1>5, <1>6 DEF IInv, TypeOK
<1>8. AttemptsAreSingle' BY <1>2 DEF AttemptsAreSingle
<1> QED BY <1>4, <1>7, <1>8 DEF IInv

\* What changes neither the records' statuses nor queue, attempts and target.
LEMMA QuietHolds ==
    ASSUME IInv, TypeOK', UNCHANGED <<status, queue, call, target, history>>
    PROVE  IInv'
BY DEF IInv, EntriesAreQueued, QueuedHasEntry, KnownIsRecorded, StatusFollowsIssue,
       CallsAreSingle, AttemptsAreSingle, AnswersAreTrue, target, history

LEMMA NextHolds ==
    ASSUME IInv, [Next]_vars
    PROVE  IInv'
<1>1. ASSUME NEW r \in Req, Record(r) PROVE IInv'
    BY <1>1, RecordHolds
<1>2. ASSUME NEW r \in Req, Execute(r) PROVE IInv'
    BY <1>2, ExecuteHolds
<1>3. ASSUME NEW r \in Req, Corrupt(r) PROVE IInv'
    <2>1. TypeOK'
        <3>1. unreadable' \subseteq Present'
            BY <1>3 DEF Corrupt, IInv, TypeOK, Present
        <3>2. faults' \in 0..MaxFaults
            BY <1>3, IcpUpdateAssumption DEF Corrupt, IInv, TypeOK
        <3> QED BY <1>3, <3>1, <3>2 DEF Corrupt, IInv, TypeOK, target, history
    <2> QED BY <1>3, <2>1, QuietHolds DEF Corrupt
<1>4. CASE RecordNothing
    <2>1. scheduled' \in BOOLEAN /\ timers' \in Nat
        BY <1>4, ScheduleTypes DEF RecordNothing, IInv, TypeOK
    <2>2. TypeOK'
        BY <1>4, <2>1 DEF RecordNothing, IInv, TypeOK, records, target, history,
                          bounds, Present
    <2> QED BY <1>4, <2>2, QuietHolds DEF RecordNothing, records
<1>5. CASE TickIdle BY <1>5, TickIdleHolds
<1>6. CASE TickRefused BY <1>6, TickRefusedHolds
<1>7. ASSUME NEW s \in Slot, Tick(s) PROVE IInv'
    BY <1>7, TickHolds
<1>8. ASSUME NEW s \in Slot, Reply(s) \/ Rejected(s) \/ TimedOut(s) PROVE IInv'
    BY <1>8, ReplyHolds
<1>9. ASSUME NEW m \in Method, Allow(m) \/ Disallow(m) PROVE IInv'
    <2>1. TypeOK'
        BY <1>9 DEF Allow, Disallow, IInv, TypeOK, records, target, history, bounds,
                    Present
    <2> QED BY <1>9, <2>1, QuietHolds DEF Allow, Disallow, records
<1>10. CASE Repair BY <1>10, RepairHolds
<1>11. ASSUME NEW enabled \in BOOLEAN, Upgrade(enabled) PROVE IInv'
    BY <1>11, UpgradeHolds
<1>12. CASE Advance
    <2>1. now' \in 1..MaxTime
        BY <1>12, IcpUpdateAssumption DEF Advance, IInv, TypeOK
    <2>2. TypeOK'
        BY <1>12, <2>1 DEF Advance, IInv, TypeOK, records, target, history, Present
    <2> QED BY <1>12, <2>2, QuietHolds DEF Advance, records
<1>13. CASE UNCHANGED vars
    <2>1. TypeOK'
        BY <1>13 DEF vars, IInv, TypeOK, records, target, history, bounds, Present
    <2> QED BY <1>13, <2>1, QuietHolds DEF vars, records
<1> QED BY <1>1, <1>2, <1>3, <1>4, <1>5, <1>6, <1>7, <1>8, <1>9, <1>10, <1>11,
           <1>12, <1>13 DEF Next

\* The invariant of the dispatcher (icp_update_dispatch_tick, its replies, the
\* repair and the recovery after an upgrade): every reachable state has it.
THEOREM DispatcherInvariant == Spec => []IInv
<1>1. Init => IInv BY InitHolds
<1>2. IInv /\ [Next]_vars => IInv' BY NextHolds
<1> QED BY <1>1, <1>2, PTL DEF Spec

\* A request in the queue is there once, with status Queued, and no request that
\* waits is missing from it (trim_icp_update_requests, the loop of the tick and
\* the recovery after an upgrade keep both).
THEOREM QueueIsExact == Spec => [](EntriesAreQueued /\ QueuedHasEntry)
<1>1. IInv => EntriesAreQueued /\ QueuedHasEntry BY DEF IInv
<1> QED BY <1>1, DispatcherInvariant, PTL

-----------------------------------------------------------------------------
(* Every step of the dispatcher is a step of CallOnce for every request.   *)

\* What get_icp_update_request answers after a step.
LEMMA NewAnswer ==
    ASSUME NEW x \in Req
    PROVE  /\ status'[x] = status[x] /\ (x \in unreadable' <=> x \in unreadable) =>
                  Answer(x)' = Answer(x)
           /\ status'[x] \in {"None", "Queued", "Dispatching"} => Answer(x)' = "None"
           /\ x \in unreadable' => Answer(x)' = "None"
           /\ x \notin unreadable' =>
                  /\ status'[x] = "Dispatched" => Answer(x)' = "Ok"
                  /\ status'[x] = "DispatchFailed" => Answer(x)' = "Fail"
                  /\ status'[x] = "DispatchUncertain" => Answer(x)' = "Unknown"
BY DEF Answer

LEMMA OldAnswer ==
    ASSUME NEW x \in Req
    PROVE  /\ Answer(x) \in {"None", "Ok", "Fail", "Unknown"}
           /\ status[x] \in {"None", "Queued", "Dispatching"} => Answer(x) = "None"
           /\ Answer(x) = "Fail" => status[x] = "DispatchFailed"
BY DEF Answer

AllStep == \A x \in Req : Promise!Step(Lf(x), Lf(x)')

\* An answer that is kept, forgotten or justified by what happened before.
AnswerMove(x) ==
    \/ Answer(x)' = Answer(x)
    \/ Answer(x)' = "None"
    \/ effects[x] = 1 /\ Answer(x)' = "Ok"
    \/ x \notin issued /\ Answer(x)' = "Fail"
    \/ x \in issued /\ Answer(x)' = "Unknown"

\* Nothing is sent, executed or refused, and answers move.
LEMMA AnswersStep ==
    ASSUME UNCHANGED <<wire, effects, issued>>, \A x \in Req : AnswerMove(x)
    PROVE  AllStep
<1> SUFFICES ASSUME NEW x \in Req PROVE Promise!Step(Lf(x), Lf(x)')
    BY DEF AllStep
<1>1. /\ (x \in issued') = (x \in issued) /\ (x \in wire') = (x \in wire)
      /\ effects'[x] = effects[x]
    OBVIOUS
<1>2. CASE Answer(x)' = Answer(x) BY <1>1, <1>2, RequestStep
<1>3. CASE Answer(x)' = "None" BY <1>1, <1>3, RequestStep
<1>4. CASE effects[x] = 1 /\ Answer(x)' = "Ok" BY <1>1, <1>4, RequestStep
<1>5. CASE x \notin issued /\ Answer(x)' = "Fail" BY <1>1, <1>5, RequestStep
<1>6. CASE x \in issued /\ Answer(x)' = "Unknown" BY <1>1, <1>6, RequestStep
<1> QED BY <1>2, <1>3, <1>4, <1>5, <1>6 DEF AnswerMove

LEMMA RecordStep ==
    ASSUME IInv, NEW r \in Req, Record(r)
    PROVE  AllStep
<1>1. PICK T \in Trimmed(r) :
          /\ status' = [x \in Req |-> IF x \in T THEN "None"
                                      ELSE IF x = r THEN "Queued" ELSE status[x]]
          /\ unreadable' = unreadable \ T
    BY DEF Record
<1>2. UNCHANGED <<wire, effects, issued>>
    BY DEF Record, target
<1>3. ASSUME NEW x \in Req PROVE AnswerMove(x)
    <2>1. CASE x \in T \/ x = r BY <1>1, <2>1, NewAnswer DEF AnswerMove
    <2>2. CASE x \notin T /\ x # r BY <1>1, <2>2, NewAnswer DEF AnswerMove
    <2> QED BY <2>1, <2>2
<1> QED BY <1>2, <1>3, AnswersStep

LEMMA TickStep ==
    ASSUME IInv, NEW s \in Slot, Tick(s)
    PROVE  AllStep
<1>1. PICK i \in 1..Len(queue) :
          /\ First(i)
          /\ Popped(i, "Dispatching")
          /\ wire' = wire \cup {queue[i]}
          /\ issued' = issued \cup {queue[i]}
    BY DEF Tick
<1> DEFINE r == queue[i]
<1>2. effects' = effects BY DEF Tick
<1>3. /\ r \in Req /\ status[r] = "Queued" /\ r \notin issued
      /\ status'[r] = "Dispatching"
      /\ \A x \in Req : x # r =>
            \/ status'[x] = status[x] /\ (x \in unreadable' <=> x \in unreadable)
            \/ /\ status[x] = "Queued" /\ status'[x] = "DispatchFailed"
               /\ x \in unreadable /\ x \notin unreadable'
    <2>1. "Dispatching" \in Statuses \ {"None", "Queued"} BY DEF Statuses
    <2> QED BY <1>1, <2>1, PoppedHolds
<1>4. wire' = wire \cup {r} /\ issued' = issued \cup {r} BY <1>1
<1> HIDE DEF r
<1> SUFFICES ASSUME NEW x \in Req PROVE Promise!Step(Lf(x), Lf(x)')
    BY DEF AllStep
<1>5. CASE x = r
    <2>1. Answer(x) = "None" /\ Answer(x)' = "None"
        BY <1>3, <1>5, OldAnswer, NewAnswer
    <2>2. x \notin issued /\ x \in issued' /\ x \in wire' /\ effects'[x] = effects[x]
        BY <1>2, <1>3, <1>4, <1>5
    <2> QED BY <2>1, <2>2, RequestStep
<1>6. CASE x # r
    <2>1. (x \in issued') = (x \in issued) /\ (x \in wire') = (x \in wire)
          /\ effects'[x] = effects[x]
        BY <1>2, <1>4, <1>6
    <2>2. CASE status'[x] = status[x] /\ (x \in unreadable' <=> x \in unreadable)
        <3>1. Answer(x)' = Answer(x) BY <2>2, NewAnswer
        <3> QED BY <2>1, <3>1, RequestStep
    <2>3. CASE /\ status[x] = "Queued" /\ status'[x] = "DispatchFailed"
               /\ x \notin unreadable'
        <3>1. Answer(x)' = "Fail" BY <2>3, NewAnswer
        <3>2. x \notin issued BY <2>3 DEF IInv, StatusFollowsIssue
        <3> QED BY <2>1, <3>1, <3>2, RequestStep
    <2> QED BY <2>2, <2>3, <1>3, <1>6
<1> QED BY <1>5, <1>6

LEMMA TickRefusedStep ==
    ASSUME IInv, TickRefused
    PROVE  AllStep
<1>1. PICK i \in 1..Len(queue) : First(i) /\ Popped(i, "DispatchFailed")
    BY DEF TickRefused
<1>2. UNCHANGED <<wire, effects, issued>>
    BY DEF TickRefused, target, history
<1>3. \A x \in Req :
          \/ status'[x] = status[x] /\ (x \in unreadable' <=> x \in unreadable)
          \/ /\ status[x] = "Queued" /\ status'[x] = "DispatchFailed"
             /\ x \notin unreadable'
    <2>1. "DispatchFailed" \in Statuses \ {"None", "Queued"} BY DEF Statuses
    <2> QED BY <1>1, <2>1, PoppedHolds
<1>4. ASSUME NEW x \in Req PROVE AnswerMove(x)
    BY <1>3, NewAnswer DEF AnswerMove, IInv, StatusFollowsIssue
<1> QED BY <1>2, <1>4, AnswersStep

LEMMA TickIdleStep ==
    ASSUME IInv, TickIdle
    PROVE  AllStep
<1> DEFINE Q == Quarantined(Len(queue) + 1)
<1>1. Write(Q, "DispatchFailed") /\ UNCHANGED <<wire, effects, issued>>
    BY DEF TickIdle, target, history
<1>2. \A x \in Q : status[x] = "Queued" /\ x \in Req
    BY IcpUpdateAssumption DEF Quarantined, IInv, TypeOK, Present, EntriesAreQueued
<1> HIDE DEF Q
<1>3. ASSUME NEW x \in Req PROVE AnswerMove(x)
    <2>1. CASE x \in Q
        <3>1. status'[x] = "DispatchFailed" /\ x \notin unreadable'
            BY <2>1, <1>1 DEF Write
        <3> QED BY <2>1, <3>1, <1>2, NewAnswer DEF AnswerMove, IInv, StatusFollowsIssue
    <2>2. CASE x \notin Q
        <3>1. status'[x] = status[x] /\ (x \in unreadable' <=> x \in unreadable)
            BY <2>2, <1>1 DEF Write
        <3> QED BY <3>1, NewAnswer DEF AnswerMove
    <2> QED BY <2>1, <2>2
<1> QED BY <1>1, <1>3, AnswersStep

\* The ends of a wait that leave the wire alone.
LEMMA AnsweredStep ==
    ASSUME IInv, NEW s \in Slot, Reply(s) \/ TimedOut(s)
    PROVE  AllStep
<1> DEFINE r == call[s].req
<1>1. UNCHANGED <<wire, effects, issued>>
    BY DEF Reply, TimedOut, Finalize, target, history
<1>2. r \in Req /\ r \in issued
    BY DEF Reply, TimedOut, IInv, TypeOK, Attempt, AttemptsAreSingle
<1>3. PICK st \in {"Dispatched", "DispatchUncertain"} :
          /\ Write({r} \cap Present, st)
          /\ st = "Dispatched" => effects[r] = 1
    BY DEF Reply, TimedOut, Finalize, TimeoutStatus, IInv, AttemptsAreSingle
<1> HIDE DEF r
<1>4. ASSUME NEW x \in Req PROVE AnswerMove(x)
    <2>1. CASE x \in {r} \cap Present
        <3>1. x = r /\ status'[x] = st /\ x \notin unreadable'
            BY <2>1, <1>3 DEF Write
        <3>2. Answer(x)' = IF st = "Dispatched" THEN "Ok" ELSE "Unknown"
            BY <3>1, NewAnswer
        <3> QED BY <3>1, <3>2, <1>2, <1>3 DEF AnswerMove
    <2>2. CASE x \notin {r} \cap Present
        <3>1. status'[x] = status[x] /\ (x \in unreadable' <=> x \in unreadable)
            BY <2>2, <1>3 DEF Write
        <3> QED BY <3>1, NewAnswer DEF AnswerMove
    <2> QED BY <2>1, <2>2
<1> QED BY <1>1, <1>4, AnswersStep

LEMMA RejectedStep ==
    ASSUME IInv, NEW s \in Slot, Rejected(s)
    PROVE  AllStep
<1> DEFINE r == call[s].req
<1>1. /\ issued' = issued /\ effects' = effects /\ wire' = wire \ {r}
      /\ Write({r} \cap Present, "DispatchFailed")
    BY DEF Rejected, Finalize, history
<1>2. r \in Req /\ r \in wire
    BY DEF Rejected, IInv, TypeOK, Attempt, AttemptsAreSingle
<1> HIDE DEF r
<1> SUFFICES ASSUME NEW x \in Req PROVE Promise!Step(Lf(x), Lf(x)')
    BY DEF AllStep
<1>3. (x \in issued') = (x \in issued) /\ effects'[x] = effects[x]
    BY <1>1
<1>4. CASE x = r
    <2>1. x \in wire /\ x \notin wire' BY <1>1, <1>2, <1>4
    <2>2. CASE x \in Present
        <3>1. status'[x] = "DispatchFailed" /\ x \notin unreadable'
            BY <2>2, <1>1, <1>4 DEF Write
        <3>2. Answer(x)' = "Fail" BY <3>1, NewAnswer
        <3> QED BY <1>3, <2>1, <3>2, RequestStep
    <2>3. CASE x \notin Present
        <3>1. status'[x] = status[x] /\ (x \in unreadable' <=> x \in unreadable)
            BY <2>3, <1>1 DEF Write
        <3>2. Answer(x)' = Answer(x) BY <3>1, NewAnswer
        <3> QED BY <1>3, <2>1, <3>2, RequestStep
    <2> QED BY <2>2, <2>3
<1>5. CASE x # r
    <2>1. (x \in wire') = (x \in wire) BY <1>1, <1>5
    <2>2. status'[x] = status[x] /\ (x \in unreadable' <=> x \in unreadable)
        BY <1>1, <1>5 DEF Write
    <2>3. Answer(x)' = Answer(x) BY <2>2, NewAnswer
    <2> QED BY <1>3, <2>1, <2>3, RequestStep
<1> QED BY <1>4, <1>5

LEMMA ExecuteStep ==
    ASSUME IInv, NEW r \in Req, Execute(r)
    PROVE  AllStep
<1>1. /\ r \in wire /\ wire' = wire \ {r}
      /\ effects' = [effects EXCEPT ![r] = @ + 1]
      /\ issued' = issued /\ status' = status /\ unreadable' = unreadable
    BY DEF Execute, records, history
<1> SUFFICES ASSUME NEW x \in Req PROVE Promise!Step(Lf(x), Lf(x)')
    BY DEF AllStep
<1>2. Answer(x)' = Answer(x) /\ (x \in issued') = (x \in issued)
    BY <1>1, NewAnswer
<1>3. CASE x = r
    <2>1. Answer(x) # "Fail" BY <1>1, <1>3, OldAnswer DEF IInv, AnswersAreTrue
    <2>2. x \in wire /\ x \notin wire' /\ effects'[x] = effects[x] + 1
        BY <1>1, <1>3 DEF IInv, TypeOK
    <2> QED BY <1>2, <2>1, <2>2, RequestStep
<1>4. CASE x # r
    <2>1. (x \in wire') = (x \in wire) /\ effects'[x] = effects[x]
        BY <1>1, <1>4 DEF IInv, TypeOK
    <2> QED BY <1>2, <2>1, RequestStep
<1> QED BY <1>3, <1>4

\* Repair and upgrade call uncertain what they find Dispatching.
LEMMA UncertainStep ==
    ASSUME IInv, NEW S \in SUBSET Dispatching, Write(S, "DispatchUncertain"),
           UNCHANGED <<wire, effects, issued>>
    PROVE  AllStep
<1>1. ASSUME NEW x \in Req PROVE AnswerMove(x)
    <2>1. CASE x \in S
        <3>1. status'[x] = "DispatchUncertain" /\ x \notin unreadable'
            BY <2>1 DEF Write
        <3>2. x \in issued
            BY <2>1 DEF Dispatching, Read, IInv, StatusFollowsIssue
        <3> QED BY <3>1, <3>2, NewAnswer DEF AnswerMove
    <2>2. CASE x \notin S
        <3>1. status'[x] = status[x] /\ (x \in unreadable' <=> x \in unreadable)
            BY <2>2 DEF Write
        <3> QED BY <3>1, NewAnswer DEF AnswerMove
    <2> QED BY <2>1, <2>2
<1> QED BY <1>1, AnswersStep

\* A step that keeps the statuses and makes no record readable again.
LEMMA QuietStep ==
    ASSUME UNCHANGED <<status, target, issued>>, unreadable \subseteq unreadable'
    PROVE  AllStep
<1>1. ASSUME NEW x \in Req PROVE AnswerMove(x)
    BY NewAnswer DEF AnswerMove
<1> QED BY <1>1, AnswersStep DEF target

LEMMA EveryStep ==
    ASSUME IInv, [Next]_vars
    PROVE  AllStep
<1>1. ASSUME NEW r \in Req, Record(r) PROVE AllStep
    BY <1>1, RecordStep
<1>2. ASSUME NEW r \in Req, Execute(r) PROVE AllStep
    BY <1>2, ExecuteStep
<1>3. ASSUME NEW r \in Req, Corrupt(r) PROVE AllStep
    BY <1>3, QuietStep DEF Corrupt, history
<1>4. CASE RecordNothing
    BY <1>4, QuietStep DEF RecordNothing, records, history
<1>5. CASE TickIdle BY <1>5, TickIdleStep
<1>6. CASE TickRefused BY <1>6, TickRefusedStep
<1>7. ASSUME NEW s \in Slot, Tick(s) PROVE AllStep
    BY <1>7, TickStep
<1>8. ASSUME NEW s \in Slot, Reply(s) \/ TimedOut(s) PROVE AllStep
    BY <1>8, AnsweredStep
<1>9. ASSUME NEW s \in Slot, Rejected(s) PROVE AllStep
    BY <1>9, RejectedStep
<1>10. ASSUME NEW m \in Method, Allow(m) \/ Disallow(m) PROVE AllStep
    BY <1>10, QuietStep DEF Allow, Disallow, records, history
<1>11. CASE Repair
    BY <1>11, UncertainStep DEF Repair, Stale, target, history
<1>12. ASSUME NEW enabled \in BOOLEAN, Upgrade(enabled) PROVE AllStep
    BY <1>12, UncertainStep DEF Upgrade, target, history
<1>13. CASE Advance
    BY <1>13, QuietStep DEF Advance, records, history
<1>14. CASE UNCHANGED vars
    BY <1>14, QuietStep DEF vars, records, history
<1> QED BY <1>1, <1>2, <1>3, <1>4, <1>5, <1>6, <1>7, <1>8, <1>9, <1>10, <1>11,
           <1>12, <1>13, <1>14 DEF Next

\* The dispatcher implements the promise of CallOnce: over every order of
\* blocks, timers, replies, timeouts, repairs, upgrades, trims and unreadable
\* records an update call is sent at most once, takes effect at most once, and
\* what its record says is true.
THEOREM SentAtMostOnce == Spec => ImplementsCallOnce
<1> DEFINE L == [r \in Req |-> Lf(r)]
<1>1. Init => Promise!Init
    <2> SUFFICES ASSUME Init PROVE Promise!Init
        OBVIOUS
    <2>1. ASSUME NEW r \in Req
          PROVE  Lf(r) = [issued |-> FALSE, pending |-> FALSE, effects |-> 0,
                          answer |-> "None"]
        <3>1. (r \in issued) = FALSE /\ (r \in wire) = FALSE /\ effects[r] = 0
            BY DEF Init
        <3>2. Answer(r) = "None" BY DEF Init, Answer
        <3> QED BY <3>1, <3>2, Zenon DEF Lf
    <2> QED BY <2>1, Zenon DEF Lf, Promise!Init, Promise!Unborn
<1>2. IInv /\ IInv' /\ [Next]_vars => [Promise!Next]_L
    <2> SUFFICES ASSUME IInv, IInv', [Next]_vars PROVE Promise!Next
        BY DEF Lf
    <2>1. ASSUME NEW r \in Req PROVE Lf(r)' \in Promise!Life
        <3>1. effects'[r] \in 0..1 BY DEF IInv, CallsAreSingle
        <3>2. Answer(r)' \in {"None", "Ok", "Fail", "Unknown"} BY DEF Answer
        <3>3. (r \in issued') \in BOOLEAN /\ (r \in wire') \in BOOLEAN OBVIOUS
        <3> QED BY <3>1, <3>2, <3>3, Zenon DEF Lf, Promise!Life, Promise!Answers
    <2>2. AllStep BY EveryStep
    <2>3. L' \in [Req -> Promise!Life] BY <2>1
    <2>4. \A r \in Req : Promise!Step(L[r], L'[r]) BY <2>2 DEF AllStep
    <2> QED BY <2>3, <2>4 DEF Promise!Next, Lf
<1> QED BY <1>1, <1>2, DispatcherInvariant, PTL
        DEF Spec, ImplementsCallOnce, Promise!Spec, Lf

-----------------------------------------------------------------------------
(* One worker at a time.                                                   *)

Busy == {s \in Slot : call[s] # NoCall}

\* Nothing is scheduled, or one timer is armed, or one continuation waits.
OneFlight ==
    \/ scheduled = FALSE /\ timers = 0 /\ Busy = {}
    \/ scheduled = TRUE /\ timers = 1 /\ Busy = {}
    \/ scheduled = TRUE /\ timers = 0 /\ \E s \in Slot : Busy = {s}

LEMMA ScheduleKeepsFlight ==
    ASSUME OneFlight, Schedule \/ UNCHANGED <<scheduled, timers>>, Busy' = Busy
    PROVE  OneFlight'
<1>1. CASE UNCHANGED <<scheduled, timers>>
    BY <1>1 DEF OneFlight
<1>2. CASE Schedule
    <2>1. scheduled' = TRUE BY <1>2 DEF Schedule
    <2>2. timers' = IF scheduled THEN timers ELSE timers + 1 BY <1>2 DEF Schedule
    <2> QED BY <2>1, <2>2 DEF OneFlight
<1> QED BY <1>1, <1>2

\* The end of a tick, seen after its timer or its continuation is gone.
LEMMA CompleteKeepsFlight ==
    ASSUME NEW q, CompleteTick(q, 0), scheduled = TRUE, Busy' = {}
    PROVE  OneFlight'
<1>1. CASE Members(q) # {}
    <2>1. timers' = 1 /\ scheduled' = TRUE BY <1>1 DEF CompleteTick
    <2> QED BY <2>1 DEF OneFlight
<1>2. CASE Members(q) = {}
    <2>1. timers' = 0 /\ scheduled' = FALSE BY <1>2 DEF CompleteTick
    <2> QED BY <2>1 DEF OneFlight
<1> QED BY <1>1, <1>2

LEMMA FlightHolds ==
    ASSUME IInv, OneFlight, [Next]_vars
    PROVE  OneFlight'
<1>0. call \in [Slot -> Attempt \cup {NoCall}]
    BY DEF IInv, TypeOK
<1>1. ASSUME UNCHANGED call PROVE Busy' = Busy
    BY <1>1 DEF Busy
<1>2. ASSUME NEW r \in Req, Record(r) PROVE OneFlight'
    <2>1. Schedule /\ UNCHANGED call BY <1>2 DEF Record
    <2> QED BY <1>1, <2>1, ScheduleKeepsFlight
<1>3. CASE RecordNothing
    <2>1. Schedule /\ UNCHANGED call BY <1>3 DEF RecordNothing
    <2> QED BY <1>1, <2>1, ScheduleKeepsFlight
<1>4. CASE Repair
    <2>1. (Schedule \/ UNCHANGED <<scheduled, timers>>) /\ UNCHANGED call
        BY <1>4 DEF Repair, ScheduleIf
    <2> QED BY <1>1, <2>1, ScheduleKeepsFlight
<1>5. ASSUME UNCHANGED <<scheduled, timers>>, UNCHANGED call PROVE OneFlight'
    BY <1>1, <1>5, ScheduleKeepsFlight
<1>6. ASSUME NEW r \in Req, Corrupt(r) PROVE OneFlight'
    BY <1>5, <1>6 DEF Corrupt
<1>7. ASSUME NEW m \in Method, Allow(m) \/ Disallow(m) PROVE OneFlight'
    BY <1>5, <1>7 DEF Allow, Disallow
<1>8. CASE Advance BY <1>5, <1>8 DEF Advance
<1>9. CASE UNCHANGED vars BY <1>5, <1>9 DEF vars
<1>10. ASSUME timers > 0
       PROVE  scheduled = TRUE /\ timers = 1 /\ Busy = {}
    BY <1>10 DEF OneFlight
<1>11. CASE TickIdle
    <2>1. timers > 0 /\ UNCHANGED call /\ scheduled' = FALSE /\ timers' = timers - 1
        BY <1>11 DEF TickIdle
    <2> QED BY <1>1, <1>10, <2>1 DEF OneFlight
<1>12. CASE TickRefused
    <2>1. timers > 0 /\ UNCHANGED call BY <1>12 DEF TickRefused
    <2>2. PICK q : CompleteTick(q, timers - 1) BY <1>12 DEF TickRefused
    <2>3. CompleteTick(q, 0) BY <1>10, <2>1, <2>2
    <2> QED BY <1>1, <1>10, <2>1, <2>3, CompleteKeepsFlight
<1>13. ASSUME NEW s \in Slot, Tick(s) PROVE OneFlight'
    <2>1. timers > 0 /\ scheduled' = scheduled /\ timers' = timers - 1
        BY <1>13 DEF Tick
    <2>2. PICK i \in 1..Len(queue) :
              /\ First(i)
              /\ call' = [call EXCEPT ![s] = [req |-> queue[i], phase |-> "Sent"]]
        BY <1>13 DEF Tick
    <2>3. queue[i] \in Req
        BY <2>2, IcpUpdateAssumption DEF First, Takeable, IInv, TypeOK
    <2>4. [req |-> queue[i], phase |-> "Sent"] # NoCall
        BY <2>3, IcpUpdateAssumption DEF Attempt, Phases
    <2>5. Busy' = {s}
        BY <1>0, <1>10, <2>1, <2>2, <2>4 DEF Busy
    <2> QED BY <1>10, <2>1, <2>5 DEF OneFlight
<1>14. ASSUME NEW s \in Slot, Reply(s) \/ Rejected(s) \/ TimedOut(s) PROVE OneFlight'
    <2>1. /\ call[s] # NoCall
          /\ call' = [call EXCEPT ![s] = NoCall]
          /\ CompleteTick(queue, timers)
        BY <1>14 DEF Reply, Rejected, TimedOut, Finalize
    <2>2. scheduled = TRUE /\ timers = 0 /\ Busy = {s}
        BY <2>1 DEF OneFlight, Busy
    <2>3. Busy' = {}
        BY <1>0, <2>1, <2>2 DEF Busy
    <2> QED BY <2>1, <2>2, <2>3, CompleteKeepsFlight
<1>15. ASSUME NEW r \in Req, Execute(r) PROVE OneFlight'
    <2>1. /\ UNCHANGED <<scheduled, timers>>
          /\ call' = [s \in Slot |-> IF call[s] = [req |-> r, phase |-> "Sent"]
                        THEN [req |-> r, phase |-> "Executed"] ELSE call[s]]
        BY <1>15 DEF Execute
    <2>2. /\ [req |-> r, phase |-> "Executed"] # NoCall
          /\ [req |-> r, phase |-> "Sent"] # NoCall
        BY IcpUpdateAssumption DEF Attempt, Phases
    <2>3. Busy' = Busy
        BY <2>1, <2>2 DEF Busy
    <2> QED BY <2>1, <2>3, ScheduleKeepsFlight
<1>16. ASSUME NEW enabled \in BOOLEAN, Upgrade(enabled) PROVE OneFlight'
    <2>1. call' = [s \in Slot |-> NoCall] BY <1>16 DEF Upgrade
    <2>2. PICK work \in BOOLEAN : scheduled' = work /\ timers' = IF work THEN 1 ELSE 0
        <3>1. \E q \in Orders(ToRequeue) :
                 /\ scheduled' = (enabled /\ Members(queue \o q) # {})
                 /\ timers' = IF (enabled /\ Members(queue \o q) # {}) THEN 1 ELSE 0
            BY <1>16, Zenon DEF Upgrade
        <3> QED BY <3>1, Zenon
    <2>3. Busy' = {} BY <2>1 DEF Busy
    <2> QED BY <2>2, <2>3 DEF OneFlight
<1> QED BY <1>2, <1>3, <1>4, <1>6, <1>7, <1>8, <1>9, <1>11, <1>12, <1>13, <1>14,
           <1>15, <1>16 DEF Next

\* The flag ICP_UPDATE_DISPATCH_SCHEDULED stands for exactly one armed timer or
\* one waiting continuation of icp_update_dispatch_tick, whatever blocks,
\* repairs and upgrades schedule in between: for any number of slots.
THEOREM AlwaysSingleFlight == Spec => []SingleFlight
<1>1. Init => OneFlight BY DEF Init, OneFlight, Busy
<1>2. IInv /\ OneFlight /\ [Next]_vars => OneFlight' BY FlightHolds
<1>3. OneFlight => SingleFlight
    <2>1. SUFFICES ASSUME OneFlight PROVE SingleFlight OBVIOUS
    <2>2. timers + Cardinality(Busy) = IF scheduled THEN 1 ELSE 0
        <3>1. CASE Busy = {}
            <4>1. Cardinality(Busy) = 0 BY <3>1, FS_EmptySet
            <4> QED BY <2>1, <3>1, <4>1 DEF OneFlight
        <3>2. CASE \E s \in Slot : Busy = {s}
            <4>1. Cardinality(Busy) = 1 BY <3>2, FS_Singleton
            <4>2. scheduled = TRUE /\ timers = 0 BY <2>1, <3>2 DEF OneFlight
            <4> QED BY <4>1, <4>2
        <3> QED BY <2>1, <3>1, <3>2 DEF OneFlight
    <2> QED BY <2>2 DEF SingleFlight, Busy
<1> QED BY <1>1, <1>2, <1>3, DispatcherInvariant, PTL DEF Spec

-----------------------------------------------------------------------------
(* Trimming.                                                               *)

TrimStep ==
    \A r \in Req : status[r] # "None" /\ status'[r] = "None" =>
        /\ Read(r).status \in Settled
        /\ \A x \in Req : status'[x] # "None" /\ Read(x).status \in Settled =>
              Read(r).updated_at <= Read(x).updated_at

\* The record of a new request may push out the oldest settled ones.
LEMMA RecordTrims ==
    ASSUME IInv, NEW n \in Req, Record(n)
    PROVE  TrimStep
<1>1. PICK T \in Trimmed(n) :
          status' = [x \in Req |-> IF x \in T THEN "None"
                                   ELSE IF x = n THEN "Queued" ELSE status[x]]
    BY DEF Record
<1>2. /\ T \subseteq Completed(Present)
      /\ \A x \in T : \A y \in Completed(Present) \ T :
            OldestFirst(Read(x).updated_at, Read(y).updated_at)
    BY DEF Trimmed
<1>3. unreadable \subseteq Present
    BY DEF IInv, TypeOK
<1> SUFFICES ASSUME NEW r \in Req, status[r] # "None", status'[r] = "None"
             PROVE  /\ Read(r).status \in Settled
                    /\ \A x \in Req : status'[x] # "None" /\ Read(x).status \in Settled =>
                          Read(r).updated_at <= Read(x).updated_at
    BY DEF TrimStep
<1>4. r \in T
    BY <1>1
<1>5. Read(r).status \in Settled
    BY <1>2, <1>4 DEF Completed
<1>6. ASSUME NEW x \in Req, status'[x] # "None", Read(x).status \in Settled
      PROVE  x \in Completed(Present) \ T
    <2>1. x \notin T BY <1>1, <1>6
    <2>2. x \in Present
        BY <1>3, <1>6 DEF Present, Read, Settled
    <2> QED BY <1>6, <2>1, <2>2 DEF Completed
<1> QED BY <1>2, <1>4, <1>5, <1>6 DEF OldestFirst

\* No other step removes a record.
LEMMA OthersTrimNothing ==
    ASSUME IInv, [Next]_vars, ~\E n \in Req : Record(n)
    PROVE  \A r \in Req : status[r] # "None" => status'[r] # "None"
<1>1. ASSUME NEW S, NEW st, st # "None", Write(S, st)
      PROVE  \A r \in Req : status[r] # "None" => status'[r] # "None"
    BY <1>1 DEF Write
<1>2. ASSUME NEW i, NEW st, st # "None", Popped(i, st)
      PROVE  \A r \in Req : status[r] # "None" => status'[r] # "None"
    BY <1>2 DEF Popped
<1>3. CASE TickIdle BY <1>1, <1>3 DEF TickIdle
<1>4. CASE TickRefused BY <1>2, <1>4 DEF TickRefused
<1>5. ASSUME NEW s \in Slot, Tick(s)
      PROVE  \A r \in Req : status[r] # "None" => status'[r] # "None"
    BY <1>2, <1>5 DEF Tick
<1>6. ASSUME NEW s \in Slot, Reply(s) \/ Rejected(s) \/ TimedOut(s)
      PROVE  \A r \in Req : status[r] # "None" => status'[r] # "None"
    BY <1>1, <1>6 DEF Reply, Rejected, TimedOut, Finalize, TimeoutStatus
<1>7. CASE Repair BY <1>1, <1>7 DEF Repair
<1>8. ASSUME NEW enabled \in BOOLEAN, Upgrade(enabled)
      PROVE  \A r \in Req : status[r] # "None" => status'[r] # "None"
    BY <1>1, <1>8 DEF Upgrade
<1>9. ASSUME UNCHANGED status
      PROVE  \A r \in Req : status[r] # "None" => status'[r] # "None"
    BY <1>9
<1>10. ASSUME NEW r \in Req, Execute(r) \/ Corrupt(r) PROVE UNCHANGED status
    BY <1>10 DEF Execute, Corrupt, records
<1>11. ASSUME NEW m \in Method, Allow(m) \/ Disallow(m) PROVE UNCHANGED status
    BY <1>11 DEF Allow, Disallow, records
<1>12. RecordNothing \/ Advance \/ UNCHANGED vars => UNCHANGED status
    BY DEF RecordNothing, Advance, vars, records
<1> QED BY <1>3, <1>4, <1>5, <1>6, <1>7, <1>8, <1>9, <1>10, <1>11, <1>12 DEF Next

\* trim_icp_update_requests forgets answers only, and the oldest ones first: a
\* request that was never answered keeps its record, for every limit of records.
THEOREM AlwaysTrimsOldest == Spec => TrimsOldestAnswers
<1>1. IInv /\ [Next]_vars => [TrimStep]_vars
    <2> SUFFICES ASSUME IInv, [Next]_vars PROVE TrimStep OBVIOUS
    <2>1. CASE \E n \in Req : Record(n) BY <2>1, RecordTrims
    <2>2. CASE ~\E n \in Req : Record(n) BY <2>2, OthersTrimNothing DEF TrimStep
    <2> QED BY <2>1, <2>2
<1>2. [][TrimStep]_vars => TrimsOldestAnswers
    BY DEF TrimStep, TrimsOldestAnswers
<1> QED BY <1>1, <1>2, DispatcherInvariant, PTL DEF Spec
=============================================================================
