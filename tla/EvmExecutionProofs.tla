------------------------- MODULE EvmExecutionProofs -------------------------
(***************************************************************************)
(* Results about EvmExecution, for every set of accounts, inputs, depths,  *)
(* limits and numbers of transactions: the internal traces that a receipt  *)
(* is stored with form a finished tree whose ids are all different; a call *)
(* that waited for a query answers from one state; and, as long as no      *)
(* transaction starts on the changes of one that was refused for its size, *)
(* wei are conserved and the requests on record pay out exactly what was   *)
(* burnt or locked.                                                        *)
(***************************************************************************)
EXTENDS EvmExecution, SequenceTheorems, FoldProofs, TLAPS

-----------------------------------------------------------------------------
(* Sequences: what Append and Front leave of a stack. *)

(* An element is pushed on top; the others stay where they are. *)
LEMMA AppendFacts ==
    ASSUME NEW S, NEW s \in Seq(S), NEW e \in S
    PROVE  /\ Append(s, e) \in Seq(S)
           /\ Len(Append(s, e)) = Len(s) + 1
           /\ \A i \in 1..Len(s) : Append(s, e)[i] = s[i]
           /\ Append(s, e)[Len(s) + 1] = e
  OBVIOUS

(* The top element is popped; the others stay where they are. *)
LEMMA FrontFacts ==
    ASSUME NEW S, NEW s \in Seq(S), s # <<>>
    PROVE  /\ Front(s) \in Seq(S)
           /\ Len(Front(s)) = Len(s) - 1
           /\ \A i \in 1..(Len(s) - 1) : Front(s)[i] = s[i]
<1>1. Len(s) \in Nat /\ Len(s) > 0
  OBVIOUS
<1>2. \A i \in 1..(Len(s) - 1) : s[i] \in S
  OBVIOUS
<1>n. PICK n \in Nat : n = Len(s) - 1
  BY <1>1
<1>3. n - 1 + 1 = n /\ 1 \in Int /\ n \in Int /\ (~(1 <= n) => n = 0)
  OBVIOUS
<1>4. /\ SubSeq(s, 1, n) \in Seq(S)
      /\ Len(SubSeq(s, 1, n)) = IF 1 <= n THEN n - 1 + 1 ELSE 0
      /\ \A i \in 1..(n - 1 + 1) : SubSeq(s, 1, n)[i] = s[1 + i - 1]
  <2>1. \A i \in 1..n : s[i] \in S
    BY <1>2, <1>n
  <2> QED
    BY <2>1, <1>3, SubSeqProperties
<1>5. \A i \in 1..n : SubSeq(s, 1, n)[i] = s[i]
  BY <1>3, <1>4
<1> QED
  BY <1>n, <1>3, <1>4, <1>5 DEF Front

(* What was pushed last is popped first. *)
LEMMA FrontOfAppend ==
    ASSUME NEW S, NEW s \in Seq(S), NEW e \in S
    PROVE  Front(Append(s, e)) = s
  BY DEF Front

(* A sequence whose elements do not matter: only its length is counted. *)
IsStack(s) == \E S : s \in Seq(S)

(* A push makes a stack one longer. *)
LEMMA StackPushed ==
    ASSUME NEW s, IsStack(s), NEW e
    PROVE  /\ IsStack(Append(s, e))
           /\ Len(s) \in Nat
           /\ Len(Append(s, e)) = Len(s) + 1
<1>1. PICK S : s \in Seq(S)
  BY DEF IsStack
<1>2. s \in Seq(S \cup {e}) /\ e \in S \cup {e}
  BY <1>1
<1>3. Append(s, e) \in Seq(S \cup {e}) /\ Len(Append(s, e)) = Len(s) + 1
  BY <1>2, AppendFacts
<1> QED
  BY <1>2, <1>3 DEF IsStack

(* A pop makes a stack one shorter. *)
LEMMA StackPopped ==
    ASSUME NEW s, IsStack(s), Len(s) > 0
    PROVE  /\ IsStack(Front(s))
           /\ Len(s) \in Nat
           /\ Len(Front(s)) = Len(s) - 1
<1>1. PICK S : s \in Seq(S)
  BY DEF IsStack
<1>2. s # <<>> /\ Len(s) \in Nat
  BY <1>1
<1>3. Front(s) \in Seq(S) /\ Len(Front(s)) = Len(s) - 1
  BY <1>1, <1>2, FrontFacts
<1> QED
  BY <1>2, <1>3 DEF IsStack

-----------------------------------------------------------------------------
(***************************************************************************)
(* The waiting call.                                                       *)
(***************************************************************************)

(* The counter of changes never runs behind what a waiting call has seen,  *)
(* and while it stands still so does the value the call has read.          *)
SnapshotIsTrue ==
    qcall # NoCall =>
      /\ qcall.again \in BOOLEAN
      /\ qcall.request = qcall.seen
      /\ qcall.snapshot.allowlist = qcall.sent
      /\ qcall.snapshot.epoch \in Nat
      /\ qcall.snapshot.epoch <= epoch
      /\ qcall.snapshot.epoch = epoch => db.ether[Watched] = qcall.seen

QueryInv ==
    /\ epoch \in Nat
    /\ IsStack(staged)
    /\ SnapshotIsTrue

(* resolve_icp_query_reply refuses every query of a run but the first. *)
LEMMA OverLimit ==
    ASSUME NEW ctx, ctx.calls # 0, NEW r
    PROVE  Resolve(ctx, r) = [ctx |-> ctx, result |-> "call_limit"]
  BY DEF Resolve, CallLimit

(* The first run asks for the value it read; a second query of the same    *)
(* call is over the limit and does not replace it.                         *)
LEMMA DetectFindsSeen ==
    ASSUME NEW v, NEW again \in BOOLEAN
    PROVE  Run(Context("Detect", NoCall), v, again).ctx.pending = v
<1> DEFINE ctx == Context("Detect", NoCall)
           one == Resolve(ctx, v)
           two == Resolve(one.ctx, v + 1)
<1>a. ctx = [mode |-> "Detect", expected |-> NoCall, calls |-> 0, pending |-> NoCall]
  BY DEF Context
<1>b. one = [ctx |-> [ctx EXCEPT !.calls = @ + 1, !.pending = v], result |-> "pending"]
  <2> HIDE DEF ctx
  <2> QED
    BY <1>a DEF Resolve, CallLimit
<1>c. DOMAIN ctx = {"mode", "expected", "calls", "pending"} /\ ctx.calls = 0
  <2> HIDE DEF ctx
  <2> QED
    BY <1>a
<1>d. one.ctx = [ctx EXCEPT !.calls = @ + 1, !.pending = v]
  <2> HIDE DEF ctx, one
  <2> QED
    BY <1>b
<1>e. one.ctx.pending = v
  <2> HIDE DEF ctx, one
  <2> QED
    BY <1>c, <1>d
<1>f. one.ctx.calls = 0 + 1
  <2> HIDE DEF ctx, one
  <2> QED
    BY <1>c, <1>d
<1>1. one.ctx.pending = v /\ one.ctx.calls = 1
  <2> HIDE DEF ctx, one
  <2> QED
    BY <1>e, <1>f
<1>2. two.ctx = one.ctx
  <2> HIDE DEF one
  <2>1. one.ctx.calls # 0
    BY <1>1
  <2> QED
    BY <2>1, OverLimit
<1>3. Run(ctx, v, again).ctx = IF again THEN two.ctx ELSE one.ctx
  <2> HIDE DEF ctx
  <2> QED
    BY DEF Run
<1> QED
  BY <1>1, <1>2, <1>3

(* The second run gets the reply to that request and no other. *)
LEMMA ReplyRun ==
    ASSUME NEW v, NEW again \in BOOLEAN
    PROVE  LET rs == Run(Context("Reply", v), v, again).results IN
           rs[1] = "reply" /\ \A i \in 2..Len(rs) : rs[i] # "reply"
<1> DEFINE ctx == Context("Reply", v)
           one == Resolve(ctx, v)
           two == Resolve(one.ctx, v + 1)
<1>1. one.result = "reply" /\ one.ctx.calls = 1
  BY DEF Context, Resolve, CallLimit
<1>2. two.result = "call_limit"
  <2> HIDE DEF one
  <2>1. one.ctx.calls # 0
    BY <1>1
  <2> QED
    BY <2>1, OverLimit
<1>3. Run(ctx, v, again).results =
        IF again THEN <<one.result, two.result>> ELSE <<one.result>>
  <2> HIDE DEF ctx
  <2> QED
    BY DEF Run
<1>4. CASE again
  <2>1. Run(ctx, v, again).results = <<"reply", "call_limit">>
    BY <1>1, <1>2, <1>3, <1>4
  <2> QED
    BY <2>1
<1>5. CASE ~again
  <2>1. Run(ctx, v, again).results = <<"reply">>
    BY <1>1, <1>3, <1>5
  <2> QED
    BY <2>1
<1> QED
  BY <1>4, <1>5

(* What the waiting call can see of a step that is not its own. *)
Quiet == UNCHANGED <<db, epoch, qcall>>

(* A step of a transaction leaves the state and the results of the block's *)
(* earlier transactions alone.                                             *)
LEMMA InTxQuiet ==
    ASSUME InTx
    PROVE  Quiet /\ UNCHANGED staged
  BY DEF InTx, Quiet

(* What neither the state nor the counter takes part in keeps the snapshot. *)
LEMMA QuietKeepsSnapshot ==
    ASSUME QueryInv, Quiet, IsStack(staged')
    PROVE  QueryInv'
  BY DEF QueryInv, Quiet, SnapshotIsTrue, IsStack

(* A block with a transaction in it advances the counter by as many. *)
LEMMA SealAdvances ==
    ASSUME QueryInv, SealBlock
    PROVE  /\ qcall' = qcall
           /\ staged' = <<>>
           /\ \/ UNCHANGED <<db, epoch>>
              \/ epoch' \in Nat /\ epoch' > epoch
<1>1. qcall' = qcall /\ staged' = <<>>
  BY DEF SealBlock
<1>2. CASE staged = <<>>
  BY <1>1, <1>2 DEF SealBlock
<1>3. CASE staged # <<>>
  <2>1. epoch' = epoch + Len(staged)
    BY <1>3 DEF SealBlock
  <2>2. PICK S : staged \in Seq(S)
    BY DEF QueryInv, IsStack
  <2>3. Len(staged) \in Nat /\ Len(staged) > 0
    BY <2>2, <1>3
  <2> QED
    BY <1>1, <2>1, <2>3 DEF QueryInv
<1> QED
  BY <1>2, <1>3

(* A block starts with no results. *)
LEMMA EmptyIsStack == IsStack(<<>>)
<1>1. <<>> \in Seq({})
  OBVIOUS
<1> QED
  BY <1>1 DEF IsStack

(* Nothing waits at first. *)
LEMMA QueryInit ==
    ASSUME Init
    PROVE  QueryInv
<1>1. staged = <<>> /\ epoch = 0 /\ qcall = NoCall
  BY DEF Init
<1> QED
  BY <1>1, EmptyIsStack DEF QueryInv, SnapshotIsTrue

(* Every change of a balance moves the counter, and no other step touches  *)
(* what a waiting call has recorded.                                       *)
LEMMA QueryStep ==
    ASSUME QueryInv, [Next]_vars
    PROVE  QueryInv'
<1>1. CASE UNCHANGED vars
  <2>1. Quiet /\ UNCHANGED staged
    BY <1>1 DEF vars, block, Quiet
  <2> QED
    BY <2>1, QuietKeepsSnapshot DEF QueryInv
<1>2. CASE \/ BeginBlock
           \/ \E a, c \in Account : StartTx(a, c)
           \/ EndTxTooLarge
           \/ DropTx
           \/ \E b \in BOOLEAN : SetQueryAllowed(b)
  <2>1. Quiet /\ UNCHANGED staged
    BY <1>2 DEF BeginBlock, StartTx, EndTxTooLarge, DropTx, SetQueryAllowed, Quiet, block
  <2> QED
    BY <2>1, QuietKeepsSnapshot DEF QueryInv
<1>3. CASE \/ \E c \in Account, static \in BOOLEAN : Enter(c, static)
           \/ \E ok \in BOOLEAN : Leave(ok)
           \/ \E gas \in BOOLEAN : \/ \E in \in UnwrapInputs : CallUnwrap(in, gas)
                                   \/ \E in \in WithdrawInputs : CallWithdraw(in, gas)
                                   \/ \E in \in UpdateInputs : CallUpdate(in, gas)
           \/ CallQuery
  <2>1. InTx
    BY <1>3 DEF Enter, Leave, CallUnwrap, CallWithdraw, CallUpdate, CallQuery, Step
  <2> QED
    BY <2>1, InTxQuiet, QuietKeepsSnapshot DEF QueryInv
<1>4. CASE \E ok \in BOOLEAN : EndTx(ok)
  <2>1. PICK ok \in BOOLEAN : EndTx(ok)
    BY <1>4
  <2>2. Quiet /\ \E e : staged' = Append(staged, e)
    BY <2>1 DEF EndTx, Quiet
  <2>3. IsStack(staged')
    BY <2>2, StackPushed DEF QueryInv
  <2> QED
    BY <2>2, <2>3, QuietKeepsSnapshot
<1>5. CASE SealBlock
  <2>1. /\ qcall' = qcall
        /\ staged' = <<>>
        /\ \/ UNCHANGED <<db, epoch>>
           \/ epoch' \in Nat /\ epoch' > epoch
    BY <1>5, SealAdvances
  <2> QED
    BY <2>1, EmptyIsStack DEF QueryInv, SnapshotIsTrue
<1>6. CASE \E a \in Account : CreditDeposit(a)
  <2>1. epoch' = epoch + 1 /\ UNCHANGED <<staged, qcall>>
    BY <1>6 DEF CreditDeposit, NextEpoch, block
  <2> QED
    BY <2>1 DEF QueryInv, SnapshotIsTrue
<1>7. CASE \E b \in BOOLEAN : CallAsync(b)
  <2>1. PICK b \in BOOLEAN : CallAsync(b)
    BY <1>7
  <2> DEFINE first == Run(Context("Detect", NoCall), db.ether[Watched], b)
  <2>2. /\ UNCHANGED <<db, epoch, staged>>
        /\ qcall' = [again |-> b, seen |-> db.ether[Watched],
                     request |-> first.ctx.pending, sent |-> query_allowed,
                     snapshot |-> [head |-> head, allowlist |-> query_allowed,
                                   epoch |-> epoch]]
    BY <2>1 DEF CallAsync, Snapshot, block
  <2>3. first.ctx.pending = db.ether[Watched]
    BY DetectFindsSeen
  <2> HIDE DEF first
  <2>4. /\ qcall'.again \in BOOLEAN
        /\ qcall'.request = qcall'.seen
        /\ qcall'.snapshot.allowlist = qcall'.sent
        /\ qcall'.snapshot.epoch = epoch
        /\ db.ether[Watched] = qcall'.seen
    BY <2>2, <2>3
  <2> QED
    BY <2>2, <2>4 DEF QueryInv, SnapshotIsTrue
<1>8. CASE CallResumes
  <2>1. UNCHANGED <<db, epoch, staged>> /\ qcall' = NoCall
    BY <1>8 DEF CallResumes, block
  <2> QED
    BY <2>1 DEF QueryInv, SnapshotIsTrue
<1> QED
  BY <1>1, <1>2, <1>3, <1>4, <1>5, <1>6, <1>7, <1>8 DEF Next

(* The step of QueryAnswersOneState. *)
AnswersOneState ==
    qcall # NoCall /\ qcall' = NoCall /\ Answer # <<"snapshot_changed">> =>
      /\ db.ether[Watched] = qcall.seen
      /\ query_allowed = qcall.sent
      /\ Answer[1] = "reply"
      /\ \A i \in 2..Len(Answer) : Answer[i] # "reply"

(* An unchanged snapshot means an unchanged counter, hence the same value. *)
LEMMA InvAnswers ==
    ASSUME QueryInv
    PROVE  AnswersOneState
<1> SUFFICES ASSUME qcall # NoCall, Answer # <<"snapshot_changed">>
             PROVE  /\ db.ether[Watched] = qcall.seen
                    /\ query_allowed = qcall.sent
                    /\ Answer[1] = "reply"
                    /\ \A i \in 2..Len(Answer) : Answer[i] # "reply"
  BY DEF AnswersOneState
<1>1. Snapshot = qcall.snapshot
  BY DEF Answer
<1>2. qcall.snapshot.epoch = epoch /\ qcall.snapshot.allowlist = query_allowed
  BY <1>1 DEF Snapshot
<1>3. Answer = Run(Context("Reply", qcall.request), qcall.seen, qcall.again).results
  BY <1>1 DEF Answer
<1>4. Answer = Run(Context("Reply", qcall.seen), qcall.seen, qcall.again).results
  BY <1>3 DEF QueryInv, SnapshotIsTrue
<1>5. qcall.again \in BOOLEAN
  BY DEF QueryInv, SnapshotIsTrue
<1>6. Answer[1] = "reply" /\ \A i \in 2..Len(Answer) : Answer[i] # "reply"
  BY <1>4, <1>5, ReplyRun
<1> QED
  BY <1>2, <1>6 DEF QueryInv, SnapshotIsTrue

(***************************************************************************)
(* eth_call_object_async answers from one state: whatever blocks, deposits *)
(* and changes of the allowlist come while it waits for the query, when it *)
(* returns a reply (validate_after_resolve found the snapshot unchanged),  *)
(* the balance it read and the allowlist it was sent under are current,    *)
(* and the reply is to the one request it made.                            *)
(***************************************************************************)
THEOREM AlwaysAnswersOneState == Spec => QueryAnswersOneState
<1>1. Init => QueryInv
  BY QueryInit
<1>2. QueryInv /\ [Next]_vars => QueryInv'
  BY QueryStep
<1>3. QueryInv => AnswersOneState
  BY InvAnswers
<1> QED
  BY <1>1, <1>2, <1>3, PTL DEF Spec, QueryAnswersOneState, AnswersOneState

-----------------------------------------------------------------------------
(***************************************************************************)
(* The traces.  Here ch stands for the child counters of the open frames,  *)
(* ps for their paths, ts for the traces kept so far and n for the number  *)
(* of internal calls.                                                      *)
(***************************************************************************)
TraceEntry == [id : Seq(Nat), end : {"pending", "success", "failure"}]

(* One counter per open frame and one for the transaction itself; the path *)
(* of a frame is as long as the frame is deep.                             *)
StacksMatch(ch, ps) ==
    /\ ch \in Seq(Nat)
    /\ ps \in Seq(Seq(Nat))
    /\ Len(ps) > 0
    /\ Len(ch) = Len(ps) + 1
    /\ \A i \in 1..Len(ps) : Len(ps[i]) = i - 1

(* Under an open frame the traces have numbers below the frame's counter,  *)
(* so the next number is free.                                             *)
NumbersUsed(ch, ps, ts) ==
    \A j \in 1..Len(ts), i \in 1..Len(ps), k \in Nat :
       ts[j].id = Append(ps[i], k) => k < ch[i + 1]

(* As long as there is room every open frame has its trace. *)
OpenFramesKept(ps, ts) ==
    Len(ts) < MAX_INTERNAL_TRACES_PER_TX =>
      \A i \in 2..Len(ps) : \E j \in 1..Len(ts) : ts[j].id = ps[i]

(* A trace without an outcome is that of an open frame. *)
PendingIsOpen(ps, ts) ==
    \A j \in 1..Len(ts) :
       ts[j].end = "pending" => \E i \in 1..Len(ps) : ts[j].id = ps[i]

IdsDiffer(ts) ==
    \A j, k \in 1..Len(ts) : ts[j].id = ts[k].id => j = k

ParentsFirst(ts) ==
    \A j \in 1..Len(ts) :
       Len(ts[j].id) > 1 => \E k \in 1..(j - 1) : ts[k].id = Front(ts[j].id)

TracesTyped(ts) ==
    /\ ts \in Seq(TraceEntry)
    /\ \A j \in 1..Len(ts) : Len(ts[j].id) > 0

AllCounted(ts, n) ==
    /\ n \in Nat
    /\ Len(ts) = IF n < MAX_INTERNAL_TRACES_PER_TX THEN n
                 ELSE MAX_INTERNAL_TRACES_PER_TX

Tree(ch, ps, ts, n) ==
    /\ StacksMatch(ch, ps)
    /\ TracesTyped(ts)
    /\ NumbersUsed(ch, ps, ts)
    /\ OpenFramesKept(ps, ts)
    /\ PendingIsOpen(ps, ts)
    /\ IdsDiffer(ts)
    /\ ParentsFirst(ts)
    /\ AllCounted(ts, n)

(* A path, the numbers that lead to a frame, names its parent and its      *)
(* number under it.                                                        *)
LEMMA PathInjective ==
    ASSUME NEW s \in Seq(Nat), NEW k \in Nat, NEW r \in Seq(Nat), NEW m \in Nat,
           Append(s, k) = Append(r, m)
    PROVE  s = r /\ k = m
  BY AppendInjective

(* The id of the next trace is new, and so are all ids below it. *)
LEMMA NextIdIsFree ==
    ASSUME NEW ch, NEW ps, NEW ts, NEW n, Tree(ch, ps, ts, n),
           NEW q \in Seq(Nat), q = Append(ps[Len(ps)], ch[Len(ps) + 1])
    PROVE  /\ \A j \in 1..Len(ts) : ts[j].id # q
           /\ \A j \in 1..Len(ts), k \in Nat : ts[j].id # Append(q, k)
<1>1. Len(ps) \in 1..Len(ps) /\ Len(ps) \in Nat
  BY DEF Tree, StacksMatch
<1>2. ch[Len(ps) + 1] \in Nat
  BY DEF Tree, StacksMatch
<1>3. ASSUME NEW j \in 1..Len(ts) PROVE ts[j].id # q
  <2> SUFFICES ASSUME ts[j].id = q PROVE FALSE
    OBVIOUS
  <2>1. ch[Len(ps) + 1] < ch[Len(ps) + 1]
    BY <1>1, <1>2 DEF Tree, NumbersUsed
  <2> QED
    BY <2>1, <1>2
<1>4. ASSUME NEW j \in 1..Len(ts), NEW k \in Nat PROVE ts[j].id # Append(q, k)
  <2> SUFFICES ASSUME ts[j].id = Append(q, k) PROVE FALSE
    OBVIOUS
  <2>1. ps[Len(ps)] \in Seq(Nat)
    BY <1>1 DEF Tree, StacksMatch
  <2>2. Len(q) \in Nat /\ Len(q) > 0
    BY <2>1, <1>2, AppendFacts
  <2>a. Len(Append(q, k)) = Len(q) + 1
    BY AppendFacts
  <2>b. Front(Append(q, k)) = q
    BY FrontOfAppend
  <2>3. Len(Append(q, k)) > 1 /\ Front(Append(q, k)) = q
    BY <2>2, <2>a, <2>b
  <2>4. PICK m \in 1..(j - 1) : ts[m].id = q
    BY <2>3 DEF Tree, ParentsFirst
  <2>5. m \in 1..Len(ts)
    BY <2>4 DEF Tree, TracesTyped
  <2> QED
    BY <2>4, <2>5, <1>3
<1> QED
  BY <1>3, <1>4

(* start_action: a call under the frame on top. *)
LEMMA PushKeepsTree ==
    ASSUME NEW ch, NEW ps, NEW ts, NEW n, Tree(ch, ps, ts, n),
           NEW q, q = Append(ps[Len(ps)], ch[Len(ps) + 1]),
           NEW ch2, ch2 = Append([ch EXCEPT ![Len(ch)] = @ + 1], 0),
           NEW ps2, ps2 = Append(ps, q),
           NEW ts2, ts2 = IF Len(ts) < MAX_INTERNAL_TRACES_PER_TX
                          THEN Append(ts, [id |-> q, end |-> "pending"]) ELSE ts
    PROVE  Tree(ch2, ps2, ts2, n + 1)
<1>d. PICK d \in Nat : d = Len(ps)
  BY DEF Tree, StacksMatch
<1>e. PICK c \in Nat : c = ch[d + 1]
  BY <1>d DEF Tree, StacksMatch
<1>t. /\ ch \in Seq(Nat) /\ ps \in Seq(Seq(Nat)) /\ ts \in Seq(TraceEntry)
      /\ n \in Nat
      /\ d \in Nat /\ d > 0 /\ Len(ch) = d + 1
      /\ \A i \in 1..d : Len(ps[i]) = i - 1
  BY <1>d DEF Tree, StacksMatch, TracesTyped, AllCounted
<1>c. c \in Nat /\ ps[d] \in Seq(Nat) /\ d \in 1..d
  BY <1>t, <1>d
<1>a. q = Append(ps[d], c)
  BY <1>d, <1>e
<1>q. q \in Seq(Nat) /\ Len(q) = d
  <2>2. q \in Seq(Nat) /\ Len(q) = Len(ps[d]) + 1
    BY <1>a, <1>c, AppendFacts
  <2> QED
    BY <2>2, <1>c, <1>t
<1>f. /\ \A j \in 1..Len(ts) : ts[j].id # q
      /\ \A j \in 1..Len(ts), k \in Nat : ts[j].id # Append(q, k)
  BY <1>q, NextIdIsFree
<1>p. /\ ps2 \in Seq(Seq(Nat)) /\ Len(ps2) = d + 1
      /\ \A i \in 1..d : ps2[i] = ps[i]
      /\ ps2[d + 1] = q
  <2>1. q \in Seq(Nat) /\ ps \in Seq(Seq(Nat))
    BY <1>q, <1>t
  <2>2. /\ ps2 \in Seq(Seq(Nat)) /\ Len(ps2) = Len(ps) + 1
        /\ \A i \in 1..Len(ps) : ps2[i] = ps[i]
        /\ ps2[Len(ps) + 1] = q
    BY <2>1, AppendFacts
  <2> QED
    BY <2>2, <1>d
<1> DEFINE e == [ch EXCEPT ![Len(ch)] = @ + 1]
<1>h. /\ ch2 \in Seq(Nat) /\ Len(ch2) = d + 2
      /\ \A i \in 1..d : ch2[i] = ch[i]
      /\ ch2[d + 1] = c + 1
      /\ ch2[d + 2] = 0
  <2>1. e = [ch EXCEPT ![d + 1] = c + 1]
    BY <1>t, <1>e
  <2>2. /\ e \in Seq(Nat) /\ Len(e) = d + 1
        /\ \A i \in 1..d : e[i] = ch[i]
        /\ e[d + 1] = c + 1
    <3> HIDE DEF e
    <3>1. d + 1 \in 1..Len(ch) /\ c + 1 \in Nat
      BY <1>t, <1>c
    <3>2. /\ e \in Seq(Nat) /\ Len(e) = Len(ch)
          /\ \A i \in 1..Len(ch) : e[i] = IF i = d + 1 THEN c + 1 ELSE ch[i]
      BY <2>1, <3>1, <1>t, ExceptSeq
    <3>3. \A i \in 1..d : i \in 1..Len(ch) /\ i # d + 1
      BY <1>t
    <3> QED
      BY <3>1, <3>2, <3>3, <1>t
  <2> HIDE DEF e
  <2>3. ch2 = Append(e, 0)
    BY DEF e
  <2>4. /\ ch2 \in Seq(Nat) /\ Len(ch2) = Len(e) + 1
        /\ \A i \in 1..Len(e) : ch2[i] = e[i]
        /\ ch2[Len(e) + 1] = 0
    <3>1. 0 \in Nat /\ e \in Seq(Nat)
      BY <2>2
    <3>2. /\ Append(e, 0) \in Seq(Nat) /\ Len(Append(e, 0)) = Len(e) + 1
          /\ \A i \in 1..Len(e) : Append(e, 0)[i] = e[i]
          /\ Append(e, 0)[Len(e) + 1] = 0
      BY <3>1, AppendFacts
    <3> QED
      BY <2>3, <3>2
  <2> QED
    BY <2>2, <2>4, <1>t
<1> HIDE DEF e
<1>1. StacksMatch(ch2, ps2)
  <2>1. ASSUME NEW i \in 1..Len(ps2) PROVE Len(ps2[i]) = i - 1
    <3>1. CASE i \in 1..d
      BY <3>1, <1>p, <1>t
    <3>2. CASE i = d + 1
      BY <3>2, <1>p, <1>q, <1>t
    <3> QED
      BY <3>1, <3>2, <1>p, <1>t
  <2>2. Len(ps2) > 0 /\ Len(ch2) = Len(ps2) + 1
    BY <1>h, <1>p, <1>t
  <2> QED
    BY <2>1, <2>2, <1>h, <1>p DEF StacksMatch
<1>m. MAX_INTERNAL_TRACES_PER_TX \in Nat
  BY EvmAssumption
<1>2. CASE Len(ts) < MAX_INTERNAL_TRACES_PER_TX
  <2> DEFINE x == [id |-> q, end |-> "pending"]
  <2>1. x \in TraceEntry /\ x.id = q /\ x.end = "pending"
    BY <1>q DEF TraceEntry
  <2> HIDE DEF x
  <2>2. /\ ts2 \in Seq(TraceEntry) /\ Len(ts2) = Len(ts) + 1 /\ Len(ts) \in Nat
        /\ \A j \in 1..Len(ts) : ts2[j] = ts[j]
        /\ ts2[Len(ts) + 1] = x
    BY <1>2, <2>1, <1>t, AppendFacts DEF x
  <2>j. ASSUME NEW j \in 1..Len(ts2)
        PROVE  \/ j \in 1..Len(ts) /\ ts2[j] = ts[j]
               \/ j = Len(ts) + 1 /\ ts2[j].id = q /\ ts2[j].end = "pending"
    BY <2>1, <2>2
  <2>3. TracesTyped(ts2)
    <3>1. ASSUME NEW j \in 1..Len(ts2) PROVE Len(ts2[j].id) > 0
      BY <2>j, <1>q, <1>t DEF Tree, TracesTyped
    <3> QED
      BY <3>1, <2>2 DEF TracesTyped
  <2>4. NumbersUsed(ch2, ps2, ts2)
    <3> SUFFICES ASSUME NEW j \in 1..Len(ts2), NEW i \in 1..Len(ps2), NEW k \in Nat,
                        ts2[j].id = Append(ps2[i], k)
                 PROVE  k < ch2[i + 1]
      BY DEF NumbersUsed
    <3>1. CASE i \in 1..d /\ j \in 1..Len(ts)
      <4>1. k < ch[i + 1]
        BY <3>1, <2>2, <1>p, <1>d DEF Tree, NumbersUsed
      <4>2. i + 1 \in 1..d \/ i = d
        BY <3>1, <1>t
      <4>3. CASE i + 1 \in 1..d
        BY <4>1, <4>3, <1>h
      <4>4. CASE i = d
        <5>1. k < c /\ ch2[i + 1] = c + 1
          BY <4>1, <4>4, <1>h, <1>e
        <5>2. k < c + 1
          BY <5>1
        <5> QED
          BY <5>1, <5>2
      <4> QED
        BY <4>2, <4>3, <4>4
    <3>2. CASE i \in 1..d /\ j = Len(ts) + 1
      <4>1. Append(ps[d], c) = Append(ps[i], k)
        BY <3>2, <2>1, <2>2, <1>p, <1>a
      <4>2. ps[i] \in Seq(Nat)
        BY <3>2, <1>t, <1>d
      <4>3. ps[d] = ps[i] /\ c = k
        <5>1. ps[d] \in Seq(Nat)
          BY <1>c
        <5>2. PICK u \in Seq(Nat) : u = ps[d]
          BY <5>1
        <5>3. PICK v \in Seq(Nat) : v = ps[i]
          BY <4>2
        <5>4. Append(u, c) = Append(v, k)
          BY <4>1, <5>2, <5>3
        <5>5. u = v /\ c = k
          BY <5>4, PathInjective
        <5> QED
          BY <5>2, <5>3, <5>5
      <4>4. d - 1 = i - 1
        BY <4>3, <3>2, <1>t, <1>c
      <4>5. i = d
        BY <4>4, <3>2, <1>t
      <4> QED
        BY <4>3, <4>5, <1>h, <1>c
    <3>3. CASE i = d + 1 /\ j \in 1..Len(ts)
      BY <3>3, <1>f, <1>p, <2>2
    <3>4. CASE i = d + 1 /\ j = Len(ts) + 1
      <4>1. q = Append(q, k)
        BY <3>4, <2>j, <2>2, <1>p
      <4>2. Len(Append(q, k)) = Len(q) + 1
        BY <1>q, AppendFacts
      <4>3. d = d + 1
        BY <4>1, <4>2, <1>q
      <4> QED
        BY <4>3, <1>t
    <3>5. i \in 1..d \/ i = d + 1
      BY <1>p, <1>t
    <3>6. j \in 1..Len(ts) \/ j = Len(ts) + 1
      BY <2>2
    <3> QED
      BY <3>1, <3>2, <3>3, <3>4, <3>5, <3>6
  <2>5. OpenFramesKept(ps2, ts2)
    <3>1. ASSUME NEW i \in 2..Len(ps2) PROVE \E j \in 1..Len(ts2) : ts2[j].id = ps2[i]
      <4>1. CASE i \in 2..d
        <5>1. PICK j \in 1..Len(ts) : ts[j].id = ps[i]
          BY <4>1, <1>2, <1>d DEF Tree, OpenFramesKept
        <5>2. j \in 1..Len(ts2) /\ ts2[j] = ts[j]
          BY <2>2
        <5>3. ps2[i] = ps[i]
          BY <4>1, <1>p, <1>t
        <5> QED
          BY <5>1, <5>2, <5>3
      <4>2. CASE i = d + 1
        <5>1. Len(ts) + 1 \in 1..Len(ts2)
          BY <2>2
        <5> QED
          BY <4>2, <5>1, <2>1, <2>2, <1>p
      <4>3. i \in 2..d \/ i = d + 1
        BY <1>p, <1>t
      <4> QED
        BY <4>1, <4>2, <4>3
    <3> QED
      BY <3>1 DEF OpenFramesKept
  <2>6. PendingIsOpen(ps2, ts2)
    <3> SUFFICES ASSUME NEW j \in 1..Len(ts2), ts2[j].end = "pending"
                 PROVE  \E i \in 1..Len(ps2) : ts2[j].id = ps2[i]
      BY DEF PendingIsOpen
    <3>1. CASE j \in 1..Len(ts)
      <4>1. PICK i \in 1..d : ts[j].id = ps[i]
        BY <3>1, <2>2, <1>d DEF Tree, PendingIsOpen
      <4>a. i \in 1..Len(ps2)
        BY <1>p
      <4>2. i \in 1..Len(ps2) /\ ps2[i] = ps[i]
        BY <4>a, <1>p
      <4> QED
        BY <4>1, <4>2, <3>1, <2>2
    <3>2. CASE j = Len(ts) + 1
      <4>1. d + 1 \in 1..Len(ps2)
        BY <1>p, <1>t
      <4> QED
        BY <4>1, <3>2, <2>1, <2>2, <1>p
    <3> QED
      BY <3>1, <3>2, <2>2
  <2>7. IdsDiffer(ts2)
    <3> SUFFICES ASSUME NEW j \in 1..Len(ts2), NEW k \in 1..Len(ts2), ts2[j].id = ts2[k].id
                 PROVE  j = k
      BY DEF IdsDiffer
    <3>1. CASE j \in 1..Len(ts) /\ k \in 1..Len(ts)
      BY <3>1, <2>2 DEF Tree, IdsDiffer
    <3>2. CASE ~(j \in 1..Len(ts) /\ k \in 1..Len(ts))
      BY <3>2, <2>j, <1>f
    <3> QED
      BY <3>1, <3>2
  <2>8. ParentsFirst(ts2)
    <3> SUFFICES ASSUME NEW j \in 1..Len(ts2), Len(ts2[j].id) > 1
                 PROVE  \E k \in 1..(j - 1) : ts2[k].id = Front(ts2[j].id)
      BY DEF ParentsFirst
    <3>1. CASE j \in 1..Len(ts)
      <4>1. PICK k \in 1..(j - 1) : ts[k].id = Front(ts[j].id)
        BY <3>1, <2>2 DEF Tree, ParentsFirst
      <4>2. k \in 1..Len(ts)
        BY <3>1, <2>2
      <4> QED
        BY <4>1, <4>2, <3>1, <2>2
    <3>2. CASE j = Len(ts) + 1
      <4>1. Front(ts2[j].id) = ps[d]
        BY <3>2, <2>1, <2>2, <1>c, FrontOfAppend, <1>d, <1>e
      <4>0. ts2[j].id = q
        BY <3>2, <2>1, <2>2
      <4>b. Len(q) > 1 /\ Len(q) = d
        BY <4>0, <1>q
      <4>2. d \in 2..d
        BY <4>b
      <4>3. PICK k \in 1..Len(ts) : ts[k].id = ps[d]
        BY <4>2, <1>2, <1>d DEF Tree, OpenFramesKept
      <4>4. k \in 1..(j - 1)
        BY <3>2, <2>2
      <4> QED
        BY <4>1, <4>3, <4>4, <2>2
    <3> QED
      BY <3>1, <3>2, <2>2
  <2>9. AllCounted(ts2, n + 1)
    <3>1. Len(ts) = IF n < MAX_INTERNAL_TRACES_PER_TX THEN n
                    ELSE MAX_INTERNAL_TRACES_PER_TX
      BY DEF Tree, AllCounted
    <3> QED
      BY <3>1, <1>2, <2>2, <1>t, <1>m DEF AllCounted
  <2> QED
    BY <1>1, <2>3, <2>4, <2>5, <2>6, <2>7, <2>8, <2>9 DEF Tree
<1>3. CASE ~(Len(ts) < MAX_INTERNAL_TRACES_PER_TX)
  <2>1. ts2 = ts
    BY <1>3
  <2>2. NumbersUsed(ch2, ps2, ts)
    <3> SUFFICES ASSUME NEW j \in 1..Len(ts), NEW i \in 1..Len(ps2), NEW k \in Nat,
                        ts[j].id = Append(ps2[i], k)
                 PROVE  k < ch2[i + 1]
      BY DEF NumbersUsed
    <3>1. CASE i \in 1..d
      <4>1. k < ch[i + 1]
        BY <3>1, <1>p, <1>d DEF Tree, NumbersUsed
      <4>2. i + 1 \in 1..d \/ i = d
        BY <3>1, <1>t
      <4>3. CASE i + 1 \in 1..d
        BY <4>1, <4>3, <1>h
      <4>4. CASE i = d
        <5>1. k < c /\ ch2[i + 1] = c + 1
          BY <4>1, <4>4, <1>h, <1>e
        <5>2. k < c + 1
          BY <5>1
        <5> QED
          BY <5>1, <5>2
      <4> QED
        BY <4>2, <4>3, <4>4
    <3>2. CASE i = d + 1
      BY <3>2, <1>f, <1>p
    <3> QED
      BY <3>1, <3>2, <1>p, <1>t
  <2>3. OpenFramesKept(ps2, ts)
    BY <1>3 DEF OpenFramesKept
  <2>4. PendingIsOpen(ps2, ts)
    <3> SUFFICES ASSUME NEW j \in 1..Len(ts), ts[j].end = "pending"
                 PROVE  \E i \in 1..Len(ps2) : ts[j].id = ps2[i]
      BY DEF PendingIsOpen
    <3>1. PICK i \in 1..d : ts[j].id = ps[i]
      BY <1>d DEF Tree, PendingIsOpen
    <3>2. i \in 1..Len(ps2) /\ ps2[i] = ps[i]
      BY <1>p, <1>t
    <3> QED
      BY <3>1, <3>2
  <2>5. AllCounted(ts, n + 1)
    <3>1. Len(ts) = IF n < MAX_INTERNAL_TRACES_PER_TX THEN n
                    ELSE MAX_INTERNAL_TRACES_PER_TX
      BY DEF Tree, AllCounted
    <3> QED
      BY <3>1, <1>3, <1>t, <1>m DEF AllCounted
  <2>6. TracesTyped(ts) /\ IdsDiffer(ts) /\ ParentsFirst(ts)
    BY DEF Tree
  <2>7. Tree(ch2, ps2, ts, n + 1)
    BY <1>1, <2>2, <2>3, <2>4, <2>5, <2>6 DEF Tree
  <2> QED
    BY <2>1, <2>7
<1> QED
  BY <1>2, <1>3

(* finish_action: the frame on top ends. *)
LEMMA PopKeepsTree ==
    ASSUME NEW ch, NEW ps, NEW ts, NEW n, Tree(ch, ps, ts, n), Len(ps) > 1,
           NEW end \in {"success", "failure"},
           NEW ts2, ts2 = [i \in 1..Len(ts) |->
                             IF ps[Len(ps)] # <<>> /\ ts[i].id = ps[Len(ps)]
                             THEN [ts[i] EXCEPT !.end = end] ELSE ts[i]]
    PROVE  Tree(Front(ch), Front(ps), ts2, n)
<1>d. PICK d \in Nat : d = Len(ps)
  BY DEF Tree, StacksMatch
<1>t. /\ ch \in Seq(Nat) /\ ps \in Seq(Seq(Nat)) /\ ts \in Seq(TraceEntry)
      /\ d > 1 /\ Len(ch) = d + 1
      /\ \A i \in 1..d : Len(ps[i]) = i - 1
  BY <1>d DEF Tree, StacksMatch, TracesTyped
<1>p. /\ Front(ps) \in Seq(Seq(Nat)) /\ Len(Front(ps)) = d - 1
      /\ \A i \in 1..(d - 1) : Front(ps)[i] = ps[i]
  <2>1. ps # <<>>
    BY <1>t, <1>d
  <2> QED
    BY <2>1, <1>t, <1>d, FrontFacts
<1>h. /\ Front(ch) \in Seq(Nat) /\ Len(Front(ch)) = d
      /\ \A i \in 1..d : Front(ch)[i] = ch[i]
  <2>1. ch # <<>> /\ Len(ch) - 1 = d
    BY <1>t
  <2> QED
    BY <2>1, <1>t, FrontFacts
<1>q. ps[d] # <<>>
  <2>1. d \in 1..d
    BY <1>t
  <2>2. Len(ps[d]) = d - 1
    BY <2>1, <1>t
  <2> QED
    BY <2>2, <1>t
<1>s. /\ ts2 \in Seq(TraceEntry) /\ Len(ts2) = Len(ts) /\ Len(ts) \in Nat
      /\ \A j \in 1..Len(ts) : ts2[j].id = ts[j].id
      /\ \A j \in 1..Len(ts) : ts2[j].end = "pending" => ts[j].end = "pending" /\ ts[j].id # ps[d]
  <2>1. ASSUME NEW j \in 1..Len(ts)
        PROVE  /\ ts2[j] \in TraceEntry
               /\ ts2[j].id = ts[j].id
               /\ ts2[j].end = "pending" => ts[j].end = "pending" /\ ts[j].id # ps[d]
    <3>1. ts[j] \in TraceEntry
      BY <1>t
    <3>2. PICK x \in TraceEntry : x = ts[j]
      BY <3>1
    <3>3. ts2[j] = IF x.id = ps[d] THEN [x EXCEPT !.end = end] ELSE x
      BY <3>2, <1>q, <1>d
    <3> QED
      BY <3>2, <3>3 DEF TraceEntry
  <2>2. ts2 \in Seq(TraceEntry) /\ Len(ts2) = Len(ts) /\ Len(ts) \in Nat
    <3>1. Len(ts) \in Nat
      BY <1>t
    <3>2. ts2 \in [1..Len(ts) -> TraceEntry]
      BY <2>1
    <3> QED
      BY <3>1, <3>2
  <2> QED
    BY <2>1, <2>2
<1> DEFINE c2 == Front(ch)
           p2 == Front(ps)
<1> HIDE DEF c2, p2
<1>1. StacksMatch(c2, p2)
  <2>1. Len(p2) > 0 /\ Len(c2) = Len(p2) + 1
    BY <1>p, <1>h, <1>t DEF c2, p2
  <2>2. ASSUME NEW i \in 1..Len(p2) PROVE Len(p2[i]) = i - 1
    <3>1. i \in 1..(d - 1) /\ i \in 1..d
      BY <1>p DEF p2
    <3> QED
      BY <3>1, <1>p, <1>t DEF p2
  <2> QED
    BY <2>1, <2>2, <1>p, <1>h DEF StacksMatch, c2, p2
<1>2. TracesTyped(ts2)
  BY <1>s DEF Tree, TracesTyped
<1>3. NumbersUsed(c2, p2, ts2)
  <2> SUFFICES ASSUME NEW j \in 1..Len(ts2), NEW i \in 1..Len(p2), NEW k \in Nat,
                      ts2[j].id = Append(p2[i], k)
               PROVE  k < c2[i + 1]
    BY DEF NumbersUsed
  <2>1. i \in 1..(d - 1) /\ i \in 1..Len(ps) /\ i + 1 \in 1..d
    BY <1>p, <1>d DEF p2
  <2>2. p2[i] = ps[i] /\ c2[i + 1] = ch[i + 1]
    BY <2>1, <1>p, <1>h DEF p2, c2
  <2>3. j \in 1..Len(ts) /\ ts[j].id = Append(ps[i], k)
    BY <2>2, <1>s
  <2> QED
    BY <2>1, <2>2, <2>3 DEF Tree, NumbersUsed
<1>4. OpenFramesKept(p2, ts2)
  <2> SUFFICES ASSUME Len(ts2) < MAX_INTERNAL_TRACES_PER_TX, NEW i \in 2..Len(p2)
               PROVE  \E j \in 1..Len(ts2) : ts2[j].id = p2[i]
    BY DEF OpenFramesKept
  <2>1. i \in 1..(d - 1) /\ i \in 2..Len(ps)
    BY <1>p, <1>d DEF p2
  <2>2. PICK j \in 1..Len(ts) : ts[j].id = ps[i]
    BY <2>1, <1>s DEF Tree, OpenFramesKept
  <2>3. p2[i] = ps[i]
    BY <2>1, <1>p DEF p2
  <2> QED
    BY <2>2, <2>3, <1>s
<1>5. PendingIsOpen(p2, ts2)
  <2> SUFFICES ASSUME NEW j \in 1..Len(ts2), ts2[j].end = "pending"
               PROVE  \E i \in 1..Len(p2) : ts2[j].id = p2[i]
    BY DEF PendingIsOpen
  <2>1. j \in 1..Len(ts) /\ ts[j].end = "pending" /\ ts[j].id # ps[d] /\ ts2[j].id = ts[j].id
    BY <1>s
  <2>2. PICK i \in 1..Len(ps) : ts[j].id = ps[i]
    BY <2>1 DEF Tree, PendingIsOpen
  <2>3. i # d
    BY <2>1, <2>2
  <2>4. i \in 1..(d - 1)
    BY <2>3, <1>d
  <2> QED
    BY <2>1, <2>2, <2>4, <1>p DEF p2
<1>6. IdsDiffer(ts2)
  BY <1>s DEF Tree, IdsDiffer
<1>7. ParentsFirst(ts2)
  <2> SUFFICES ASSUME NEW j \in 1..Len(ts2), Len(ts2[j].id) > 1
               PROVE  \E k \in 1..(j - 1) : ts2[k].id = Front(ts2[j].id)
    BY DEF ParentsFirst
  <2>1. j \in 1..Len(ts) /\ ts2[j].id = ts[j].id
    BY <1>s
  <2>2. PICK k \in 1..(j - 1) : ts[k].id = Front(ts[j].id)
    BY <2>1 DEF Tree, ParentsFirst
  <2>3. k \in 1..Len(ts)
    BY <2>1, <1>s
  <2> QED
    BY <2>1, <2>2, <2>3, <1>s
<1>8. AllCounted(ts2, n)
  BY <1>s DEF Tree, AllCounted
<1>9. Tree(c2, p2, ts2, n)
  BY <1>1, <1>2, <1>3, <1>4, <1>5, <1>6, <1>7, <1>8 DEF Tree
<1> QED
  BY <1>9 DEF c2, p2

(* The transaction's own call: no trace yet. *)
LEMMA RootIsTree == Tree(<<1, 0>>, << <<>> >>, <<>>, 0)
<1>1. StacksMatch(<<1, 0>>, << <<>> >>)
  BY DEF StacksMatch
<1>2. TracesTyped(<<>>) /\ IdsDiffer(<<>>) /\ ParentsFirst(<<>>)
  BY DEF TracesTyped, IdsDiffer, ParentsFirst
<1>3. NumbersUsed(<<1, 0>>, << <<>> >>, <<>>)
  BY DEF NumbersUsed
<1>4. OpenFramesKept(<< <<>> >>, <<>>) /\ PendingIsOpen(<< <<>> >>, <<>>)
  BY DEF OpenFramesKept, PendingIsOpen
<1>5. AllCounted(<<>>, 0)
  BY EvmAssumption DEF AllCounted
<1> QED
  BY <1>1, <1>2, <1>3, <1>4, <1>5 DEF Tree

-----------------------------------------------------------------------------
(* The transaction's record, with the traces of m open frames. *)
TxFields == {"id", "sender", "w", "logs", "loaded", "ops", "frames", "children",
             "paths", "traces", "total"}

Traced(t, m) ==
    /\ DOMAIN t = TxFields
    /\ Tree(t.children, t.paths, t.traces, t.total)
    /\ Len(t.paths) = m

(* Fields that have nothing to do with traces do not matter. *)
LEMMA TracedSame ==
    ASSUME NEW t, NEW u, NEW m, Traced(t, m), DOMAIN u = TxFields,
           u.children = t.children, u.paths = t.paths, u.traces = t.traces,
           u.total = t.total
    PROVE  Traced(u, m)
  BY DEF Traced

(* start_action on the record: one more open frame. *)
LEMMA StartTraced ==
    ASSUME NEW t, NEW m \in Nat, Traced(t, m)
    PROVE  Traced(TraceStart(t), m + 1) /\ TraceStart(t).frames = t.frames
<1> DEFINE ch == t.children
           ps == t.paths
           ts == t.traces
           q == Append(ps[Len(ps)], ch[Len(ps) + 1])
           u == TraceStart(t)
<1>1. DOMAIN t = TxFields /\ Tree(ch, ps, ts, t.total) /\ Len(ps) = m
  BY DEF Traced
<1>2. ps # <<>> /\ Len(ch) = Len(ps) + 1 /\ m > 0 /\ ps \in Seq(Seq(Nat))
  BY <1>1 DEF Tree, StacksMatch
<1>3. u = [t EXCEPT !.children = WithChild(@),
                    !.paths = Append(@, q),
                    !.total = @ + 1,
                    !.traces = IF Len(ts) < MAX_INTERNAL_TRACES_PER_TX
                               THEN Append(@, [id |-> q, end |-> "pending"]) ELSE @]
  BY <1>2 DEF TraceStart
<1> HIDE DEF u, q
<1>4. DOMAIN u = TxFields
  BY <1>1, <1>3
<1>5. u.children = WithChild(ch)
  BY <1>1, <1>3 DEF TxFields
<1>6. u.paths = Append(ps, q)
  BY <1>1, <1>3 DEF TxFields
<1>7. u.total = t.total + 1
  BY <1>1, <1>3 DEF TxFields
<1>8. u.traces = IF Len(ts) < MAX_INTERNAL_TRACES_PER_TX
                 THEN Append(ts, [id |-> q, end |-> "pending"]) ELSE ts
  BY <1>1, <1>3 DEF TxFields
<1>9. u.frames = t.frames
  BY <1>1, <1>3 DEF TxFields
<1>10. Tree(u.children, u.paths, u.traces, t.total + 1)
  <2> HIDE DEF ch, ps, ts
  <2> QED
    BY <1>1, <1>5, <1>6, <1>8, PushKeepsTree DEF q, WithChild
<1>11. Len(u.paths) = m + 1
  <2> HIDE DEF ps
  <2>1. IsStack(ps)
    BY <1>2 DEF IsStack
  <2> QED
    BY <2>1, <1>1, <1>6, StackPushed
<1> QED
  BY <1>4, <1>7, <1>9, <1>10, <1>11 DEF Traced, u

(* finish_action on the record: one open frame less. *)
LEMMA EndTraced ==
    ASSUME NEW t, NEW m \in Nat, Traced(t, m), m > 1, NEW end \in {"success", "failure"}
    PROVE  Traced(TraceEnd(t, end), m - 1) /\ TraceEnd(t, end).frames = t.frames
<1> DEFINE ch == t.children
           ps == t.paths
           ts == t.traces
           ts2 == [i \in 1..Len(ts) |->
                     IF ps[Len(ps)] # <<>> /\ ts[i].id = ps[Len(ps)]
                     THEN [ts[i] EXCEPT !.end = end] ELSE ts[i]]
           u == TraceEnd(t, end)
<1>1. DOMAIN t = TxFields /\ Tree(ch, ps, ts, t.total) /\ Len(ps) = m
  BY DEF Traced
<1>2. ps # <<>> /\ ps \in Seq(Seq(Nat))
  BY <1>1 DEF Tree, StacksMatch
<1>3. u = [t EXCEPT !.paths = Front(@), !.children = Front(@), !.traces = ts2]
  BY DEF TraceEnd, ChildrenAfter
<1> HIDE DEF u, ts2
<1>4. DOMAIN u = TxFields
  BY <1>1, <1>3
<1>5. u.children = Front(ch)
  BY <1>1, <1>3 DEF TxFields
<1>6. u.paths = Front(ps)
  BY <1>1, <1>3 DEF TxFields
<1>7. u.total = t.total
  BY <1>1, <1>3 DEF TxFields
<1>8. u.traces = ts2
  BY <1>1, <1>3 DEF TxFields
<1>9. u.frames = t.frames
  BY <1>1, <1>3 DEF TxFields
<1>10. Tree(u.children, u.paths, u.traces, u.total)
  <2>1. Tree(Front(ch), Front(ps), ts2, t.total)
    <3> HIDE DEF ch, ps, ts
    <3> QED
      BY <1>1, PopKeepsTree DEF ts2
  <2> QED
    BY <2>1, <1>5, <1>6, <1>7, <1>8
<1>11. Len(u.paths) = m - 1
  <2> HIDE DEF ps
  <2>1. IsStack(ps) /\ Len(ps) > 0
    BY <1>1, <1>2 DEF IsStack
  <2> QED
    BY <2>1, <1>1, <1>6, StackPopped
<1> QED
  BY <1>4, <1>9, <1>10, <1>11 DEF Traced, u

(* A precompile call starts and ends in one step. *)
LEMMA CallTraced ==
    ASSUME NEW t, NEW m \in Nat, Traced(t, m), m > 0, NEW end \in {"success", "failure"}
    PROVE  LET u == TraceEnd(TraceStart(t), end) IN
           Traced(u, m) /\ u.frames = t.frames
<1>1. PICK v : v = TraceStart(t)
  OBVIOUS
<1>2. Traced(v, m + 1) /\ v.frames = t.frames
  BY <1>1, StartTraced
<1>3. Traced(TraceEnd(v, end), m + 1 - 1) /\ TraceEnd(v, end).frames = v.frames
  <2>1. m + 1 \in Nat /\ m + 1 > 1
    OBVIOUS
  <2> QED
    BY <1>2, <2>1, EndTraced
<1>4. m + 1 - 1 = m
  OBVIOUS
<1> QED
  BY <1>1, <1>2, <1>3, <1>4

(* The transaction under execution has as many paths as frames. *)
TraceInv ==
    tx # NoTx => /\ Traced(tx, Len(tx.frames))
                 /\ IsStack(tx.frames)
                 /\ Len(tx.frames) \in Nat
                 /\ Len(tx.frames) > 0

(* The first call of a transaction. *)
LEMMA StartTxTraced ==
    ASSUME NEW a, NEW c, StartTx(a, c)
    PROVE  TraceInv'
<1> DEFINE f == [acct |-> c, static |-> FALSE, w |-> cache, logs |-> <<>>]
           t == [id |-> started + 1, sender |-> a, w |-> cache, logs |-> <<>>,
                 loaded |-> {a, c, FeeRecipient}, ops |-> 0, frames |-> <<f>>,
                 children |-> <<0>>, paths |-> <<>>, traces |-> <<>>, total |-> 0]
<1>1. tx' = TraceStart(t)
  BY DEF StartTx
<1>2. /\ DOMAIN t = TxFields
      /\ t.frames = <<f>> /\ t.children = <<0>> /\ t.paths = <<>>
      /\ t.traces = <<>> /\ t.total = 0
  <2> HIDE DEF f
  <2> QED
    BY DEF TxFields
<1> HIDE DEF t, f
<1>3. TraceStart(t) = [t EXCEPT !.children = WithChild(@), !.paths = Append(@, <<>>),
                                !.total = @, !.traces = @]
  BY <1>2 DEF TraceStart
<1>4. /\ DOMAIN tx' = TxFields
      /\ tx'.children = WithChild(<<0>>)
      /\ tx'.paths = Append(<<>>, <<>>)
      /\ tx'.traces = <<>>
      /\ tx'.total = 0
      /\ tx'.frames = <<f>>
  BY <1>1, <1>2, <1>3 DEF TxFields
<1>5. WithChild(<<0>>) = <<1, 0>> /\ Append(<<>>, <<>>) = << <<>> >>
  <2>1. [<<0>> EXCEPT ![Len(<<0>>)] = @ + 1] = <<1>>
    OBVIOUS
  <2>2. Append(<<1>>, 0) = <<1, 0>>
    <3>1. <<1>> \in Seq(Nat) /\ 0 \in Nat /\ Len(<<1>>) = 1 /\ <<1>>[1] = 1
      OBVIOUS
    <3>2. PICK x \in Seq(Nat) : x = <<1>>
      BY <3>1
    <3>3. /\ Append(x, 0) \in Seq(Nat) /\ Len(Append(x, 0)) = Len(x) + 1
          /\ \A i \in 1..Len(x) : Append(x, 0)[i] = x[i]
          /\ Append(x, 0)[Len(x) + 1] = 0
      BY <3>1, AppendFacts
    <3>4. PICK y \in Seq(Nat) : y = Append(x, 0)
      BY <3>3
    <3>5. Len(y) = 2 /\ y[1] = 1 /\ y[2] = 0
      BY <3>1, <3>2, <3>3, <3>4
    <3>6. y = <<1, 0>>
      BY <3>5
    <3> QED
      BY <3>2, <3>4, <3>6
  <2>3. Append(<<>>, <<>>) = << <<>> >>
    OBVIOUS
  <2> QED
    BY <2>1, <2>2, <2>3 DEF WithChild
<1>6. IsStack(<<f>>) /\ Len(<<f>>) = 1
  <2>1. <<f>> \in Seq({f})
    OBVIOUS
  <2> QED
    BY <2>1 DEF IsStack
<1>7. Len(<< <<>> >>) = 1
  OBVIOUS
<1>8. Tree(tx'.children, tx'.paths, tx'.traces, tx'.total)
  BY <1>4, <1>5, RootIsTree
<1> QED
  BY <1>4, <1>5, <1>6, <1>7, <1>8 DEF TraceInv, Traced

(* A call of another contract pushes a frame and a path. *)
LEMMA EnterTraced ==
    ASSUME TraceInv, NEW c, NEW static, Enter(c, static)
    PROVE  TraceInv'
<1>1. tx # NoTx
  BY DEF Enter, Step, InTx
<1>2. PICK t, f : /\ t = [tx EXCEPT !.ops = @ + 1, !.loaded = @ \cup {c},
                                    !.frames = Append(@, f)]
                  /\ tx' = TraceStart(t)
  BY DEF Enter
<1>3. Traced(tx, Len(tx.frames)) /\ DOMAIN tx = TxFields
  BY <1>1 DEF TraceInv, Traced
<1>4. /\ DOMAIN t = TxFields
      /\ t.children = tx.children /\ t.paths = tx.paths /\ t.traces = tx.traces
      /\ t.total = tx.total
      /\ t.frames = Append(tx.frames, f)
  BY <1>2, <1>3 DEF TxFields
<1>5. PICK m \in Nat : m = Len(tx.frames) /\ m > 0
  BY <1>1 DEF TraceInv
<1>6. Traced(t, m)
  BY <1>3, <1>4, <1>5, TracedSame
<1>7. Traced(TraceStart(t), m + 1) /\ TraceStart(t).frames = t.frames
  BY <1>6, StartTraced
<1>8. IsStack(t.frames) /\ Len(t.frames) = m + 1
  BY <1>1, <1>4, <1>5, StackPushed DEF TraceInv
<1>9. m + 1 \in Nat /\ m + 1 > 0
  BY <1>5
<1> QED
  BY <1>2, <1>7, <1>8, <1>9 DEF TraceInv

(* A frame ends: a frame and a path are popped. *)
LEMMA LeaveTraced ==
    ASSUME TraceInv, NEW ok \in BOOLEAN, Leave(ok)
    PROVE  TraceInv'
<1>1. tx # NoTx /\ Len(tx.frames) > 1
  BY DEF Leave, InTx
<1>2. PICK t, w, l : /\ t = [tx EXCEPT !.frames = Front(@), !.w = w, !.logs = l]
                     /\ tx' = TraceEnd(t, IF ok THEN "success" ELSE "failure")
  BY DEF Leave
<1>3. Traced(tx, Len(tx.frames)) /\ DOMAIN tx = TxFields
  BY <1>1 DEF TraceInv, Traced
<1>4. /\ DOMAIN t = TxFields
      /\ t.children = tx.children /\ t.paths = tx.paths /\ t.traces = tx.traces
      /\ t.total = tx.total
      /\ t.frames = Front(tx.frames)
  BY <1>2, <1>3 DEF TxFields
<1>5. PICK m \in Nat : m = Len(tx.frames) /\ m > 1
  BY <1>1 DEF TraceInv
<1>6. Traced(t, m)
  BY <1>3, <1>4, <1>5, TracedSame
<1>e. PICK end \in {"success", "failure"} : end = IF ok THEN "success" ELSE "failure"
  OBVIOUS
<1>7. Traced(TraceEnd(t, end), m - 1) /\ TraceEnd(t, end).frames = t.frames
  BY <1>5, <1>6, EndTraced
<1>8. IsStack(t.frames) /\ Len(t.frames) = m - 1
  BY <1>1, <1>4, <1>5, StackPopped DEF TraceInv
<1>9. m - 1 \in Nat /\ m - 1 > 0
  BY <1>5
<1> QED
  BY <1>2, <1>e, <1>7, <1>8, <1>9 DEF TraceInv

(* A precompile call changes the world and the logs; its frame has ended   *)
(* when the step is over.                                                  *)
LEMMA PrecompileTraced ==
    ASSUME TraceInv, tx # NoTx, NEW t, NEW end \in {"success", "failure"},
           DOMAIN t = TxFields, t.children = tx.children, t.paths = tx.paths,
           t.traces = tx.traces, t.total = tx.total, t.frames = tx.frames,
           tx' = TraceEnd(TraceStart(t), end)
    PROVE  TraceInv'
<1>1. PICK m \in Nat : m = Len(tx.frames) /\ m > 0
  BY DEF TraceInv
<1>2. Traced(t, m)
  BY <1>1, TracedSame DEF TraceInv
<1>3. Traced(tx', m) /\ tx'.frames = t.frames
  BY <1>1, <1>2, CallTraced
<1> QED
  BY <1>1, <1>3 DEF TraceInv

(* The unwrap, update and query precompiles, whatever their result. *)
LEMMA CallPrecompileTraced ==
    ASSUME TraceInv, tx # NoTx, NEW r, CallPrecompile(r)
    PROVE  TraceInv'
<1> DEFINE ok == r.result = "Return"
           t == [tx EXCEPT !.ops = @ + 1, !.w = IF ok THEN r.j.w ELSE @,
                           !.logs = IF ok THEN r.j.logs ELSE @]
           end == IF ok THEN "success" ELSE "failure"
<1>1. tx' = TraceEnd(TraceStart(t), end)
  BY DEF CallPrecompile
<1>e. end \in {"success", "failure"}
  OBVIOUS
<1>2. DOMAIN tx = TxFields
  BY DEF TraceInv, Traced
<1>3. /\ DOMAIN t = TxFields
      /\ t.children = tx.children /\ t.paths = tx.paths /\ t.traces = tx.traces
      /\ t.total = tx.total
      /\ t.frames = tx.frames
  BY <1>2 DEF TxFields
<1> HIDE DEF t, end
<1> QED
  BY <1>1, <1>e, <1>3, PrecompileTraced

(* The withdrawal precompile, which also loads its own account. *)
LEMMA CallWithdrawTraced ==
    ASSUME TraceInv, NEW in, NEW gas, CallWithdraw(in, gas)
    PROVE  TraceInv'
<1>0. tx # NoTx
  BY DEF CallWithdraw, Step, InTx
<1> DEFINE paid == [Journal EXCEPT !.w = Locked(@, Top.acct, in.value)]
           r == Withdraw(paid, Top.static, in, gas)
           t == [tx EXCEPT !.loaded = @ \cup {Withdrawal}, !.ops = @ + 1,
                           !.w = IF r.result = "Return" THEN r.j.w ELSE @,
                           !.logs = IF r.result = "Return" THEN r.j.logs ELSE @]
           end == IF r.result = "Return" THEN "success" ELSE "failure"
<1>1. tx' = TraceEnd(TraceStart(t), end)
  BY DEF CallWithdraw
<1> HIDE DEF r
<1>e. end \in {"success", "failure"}
  OBVIOUS
<1>2. DOMAIN tx = TxFields
  BY <1>0 DEF TraceInv, Traced
<1>3. /\ DOMAIN t = TxFields
      /\ t.children = tx.children /\ t.paths = tx.paths /\ t.traces = tx.traces
      /\ t.total = tx.total
      /\ t.frames = tx.frames
  BY <1>2 DEF TxFields
<1> HIDE DEF t, end
<1> QED
  BY <1>0, <1>1, <1>e, <1>3, PrecompileTraced

(* Frames, paths and counters stay in step through every step. *)
LEMMA TraceStep ==
    ASSUME TraceInv, [Next]_vars
    PROVE  TraceInv'
<1>1. CASE \/ UNCHANGED vars
           \/ BeginBlock
           \/ SealBlock
           \/ CallResumes
           \/ \E a \in Account : CreditDeposit(a)
           \/ \E b \in BOOLEAN : CallAsync(b) \/ SetQueryAllowed(b)
  <2>1. UNCHANGED tx
    BY <1>1 DEF vars, block, BeginBlock, SealBlock, CallResumes, CreditDeposit, CallAsync,
                SetQueryAllowed
  <2> QED
    BY <2>1 DEF TraceInv
<1>2. CASE \/ EndTxTooLarge
           \/ DropTx
           \/ \E ok \in BOOLEAN : EndTx(ok)
  <2>1. tx' = NoTx
    BY <1>2 DEF EndTxTooLarge, DropTx, EndTx
  <2> QED
    BY <2>1 DEF TraceInv
<1>3. CASE \E a, c \in Account : StartTx(a, c)
  BY <1>3, StartTxTraced
<1>4. CASE \E c \in Account, static \in BOOLEAN : Enter(c, static)
  BY <1>4, EnterTraced
<1>5. CASE \E ok \in BOOLEAN : Leave(ok)
  BY <1>5, LeaveTraced
<1>6. CASE \/ \E gas \in BOOLEAN : \/ \E in \in UnwrapInputs : CallUnwrap(in, gas)
                                   \/ \E in \in UpdateInputs : CallUpdate(in, gas)
           \/ CallQuery
  <2>1. tx # NoTx /\ \E r : CallPrecompile(r)
    BY <1>6 DEF CallUnwrap, CallUpdate, CallQuery, Step, InTx
  <2> QED
    BY <2>1, CallPrecompileTraced
<1>7. CASE \E gas \in BOOLEAN : \E in \in WithdrawInputs : CallWithdraw(in, gas)
  BY <1>7, CallWithdrawTraced
<1> QED
  BY <1>1, <1>2, <1>3, <1>4, <1>5, <1>6, <1>7 DEF Next

(* The step of TracesAreComplete. *)
StoresCompleteTraces ==
    tx # NoTx /\ staged' # staged =>
      LET ts == TraceEnd(tx, "success").traces IN
      /\ \A j \in 1..Len(ts) :
            /\ ts[j].end # "pending"
            /\ \A k \in 1..Len(ts) : ts[j].id = ts[k].id => j = k
            /\ Len(ts[j].id) > 1 => \E k \in 1..(j - 1) : ts[k].id = Front(ts[j].id)
      /\ Len(ts) = IF tx.total < MAX_INTERNAL_TRACES_PER_TX
                   THEN tx.total ELSE MAX_INTERNAL_TRACES_PER_TX

(* Only the end of a transaction stores a result. *)
LEMMA OnlyEndStores ==
    ASSUME [Next]_vars, tx # NoTx, staged' # staged
    PROVE  Len(tx.frames) = 1
<1>1. CASE \E ok \in BOOLEAN : EndTx(ok)
  BY <1>1 DEF EndTx
<1>2. CASE \/ BeginBlock
           \/ \E a, c \in Account : StartTx(a, c)
           \/ EndTxTooLarge
           \/ DropTx
           \/ CallResumes
           \/ \E a \in Account : CreditDeposit(a)
           \/ \E b \in BOOLEAN : CallAsync(b) \/ SetQueryAllowed(b)
           \/ UNCHANGED vars
  BY <1>2 DEF BeginBlock, StartTx, EndTxTooLarge, DropTx, CallResumes, CreditDeposit,
              CallAsync, SetQueryAllowed, block, vars
<1>3. CASE \/ \E c \in Account, static \in BOOLEAN : Enter(c, static)
           \/ \E ok \in BOOLEAN : Leave(ok)
           \/ \E gas \in BOOLEAN : \/ \E in \in UnwrapInputs : CallUnwrap(in, gas)
                                   \/ \E in \in WithdrawInputs : CallWithdraw(in, gas)
                                   \/ \E in \in UpdateInputs : CallUpdate(in, gas)
           \/ CallQuery
  <2>1. InTx
    BY <1>3 DEF Enter, Leave, CallUnwrap, CallWithdraw, CallUpdate, CallQuery, Step
  <2> QED
    BY <2>1, InTxQuiet
<1>4. CASE SealBlock
  BY <1>4 DEF SealBlock
<1> QED
  BY <1>1, <1>2, <1>3, <1>4 DEF Next

(* The transaction's own frame has no trace, so nothing changes with it. *)
LEMMA RootFrameEnds ==
    ASSUME NEW t, Traced(t, 1)
    PROVE  TraceEnd(t, "success").traces = t.traces
<1>1. DOMAIN t = TxFields /\ t.traces \in Seq(TraceEntry)
  BY DEF Traced, Tree, TracesTyped
<1>2. t.paths[Len(t.paths)] = <<>>
  <2>1. t.paths[1] \in Seq(Nat) /\ Len(t.paths[1]) = 1 - 1
    BY DEF Traced, Tree, StacksMatch
  <2>2. t.paths[1] = <<>>
    BY <2>1
  <2> QED
    BY <2>2 DEF Traced
<1> DEFINE path == t.paths[Len(t.paths)]
           ts2 == [i \in 1..Len(t.traces) |->
                     IF path # <<>> /\ t.traces[i].id = path
                     THEN [t.traces[i] EXCEPT !.end = "success"] ELSE t.traces[i]]
<1>3. TraceEnd(t, "success") = [t EXCEPT !.paths = Front(@), !.children = Front(@),
                                         !.traces = ts2]
  BY DEF TraceEnd, ChildrenAfter
<1>4. ts2 = t.traces
  <2> HIDE DEF path
  <2>1. path = <<>>
    BY <1>2 DEF path
  <2>2. ts2 = [i \in 1..Len(t.traces) |-> t.traces[i]]
    BY <2>1
  <2> HIDE DEF ts2
  <2> QED
    BY <2>2, <1>1
<1> HIDE DEF ts2
<1> QED
  BY <1>1, <1>3, <1>4 DEF TxFields

(* With the transaction's own frame alone left open, nothing is pending. *)
LEMMA InvStoresComplete ==
    ASSUME TraceInv, [Next]_vars
    PROVE  StoresCompleteTraces
<1> SUFFICES ASSUME tx # NoTx, staged' # staged
             PROVE  LET ts == TraceEnd(tx, "success").traces IN
                    /\ \A j \in 1..Len(ts) :
                          /\ ts[j].end # "pending"
                          /\ \A k \in 1..Len(ts) : ts[j].id = ts[k].id => j = k
                          /\ Len(ts[j].id) > 1 =>
                               \E k \in 1..(j - 1) : ts[k].id = Front(ts[j].id)
                    /\ Len(ts) = IF tx.total < MAX_INTERNAL_TRACES_PER_TX
                                 THEN tx.total ELSE MAX_INTERNAL_TRACES_PER_TX
  BY DEF StoresCompleteTraces
<1>1. Len(tx.frames) = 1
  BY OnlyEndStores
<1>2. Traced(tx, 1)
  BY <1>1 DEF TraceInv
<1>3. PICK ts : ts = tx.traces
  OBVIOUS
<1>4. TraceEnd(tx, "success").traces = ts
  BY <1>2, <1>3, RootFrameEnds
<1>5. PICK ps : ps = tx.paths
  OBVIOUS
<1>6. /\ PendingIsOpen(ps, ts) /\ IdsDiffer(ts) /\ ParentsFirst(ts)
      /\ TracesTyped(ts) /\ AllCounted(ts, tx.total)
      /\ Len(ps) = 1 /\ \A i \in 1..Len(ps) : Len(ps[i]) = i - 1
  BY <1>2, <1>3, <1>5 DEF Traced, Tree, StacksMatch
<1>7. ASSUME NEW j \in 1..Len(ts) PROVE ts[j].end # "pending"
  <2> SUFFICES ASSUME ts[j].end = "pending" PROVE FALSE
    OBVIOUS
  <2>1. PICK i \in 1..Len(ps) : ts[j].id = ps[i]
    BY <1>6 DEF PendingIsOpen
  <2>2. i = 1
    BY <1>6
  <2>3. Len(ts[j].id) = 1 - 1
    BY <2>1, <2>2, <1>6
  <2>4. Len(ts[j].id) > 0
    BY <1>6 DEF TracesTyped
  <2> QED
    BY <2>3, <2>4
<1>8. ASSUME NEW j \in 1..Len(ts)
      PROVE  /\ \A k \in 1..Len(ts) : ts[j].id = ts[k].id => j = k
             /\ Len(ts[j].id) > 1 => \E k \in 1..(j - 1) : ts[k].id = Front(ts[j].id)
  BY <1>6 DEF IdsDiffer, ParentsFirst
<1>9. Len(ts) = IF tx.total < MAX_INTERNAL_TRACES_PER_TX
                THEN tx.total ELSE MAX_INTERNAL_TRACES_PER_TX
  BY <1>6 DEF AllCounted
<1> QED
  BY <1>4, <1>7, <1>8, <1>9

(***************************************************************************)
(* The internal traces stored with a receipt are complete: whatever calls, *)
(* returns, reverts and precompiles a transaction makes, at any depth, and *)
(* wherever MAX_INTERNAL_TRACES_PER_TX cuts the list off, every stored     *)
(* trace has an id of its own, hangs under a stored parent and has been    *)
(* given the outcome of its frame (start_action and finish_action keep the *)
(* counters and the paths of the open frames in step).                     *)
(***************************************************************************)
THEOREM TracesAlwaysComplete == Spec => TracesAreComplete
<1>1. Init => TraceInv
  BY DEF Init, TraceInv
<1>2. TraceInv /\ [Next]_vars => TraceInv'
  BY TraceStep
<1>3. TraceInv /\ [Next]_vars => StoresCompleteTraces
  BY InvStoresComplete
<1> QED
  BY <1>1, <1>2, <1>3, PTL DEF Spec, TracesAreComplete, StoresCompleteTraces

-----------------------------------------------------------------------------
(***************************************************************************)
(* Conservation: wei, wrapped tokens and the requests that pay them out.   *)
(***************************************************************************)

(* The accounts and the token's storage. *)
World == [ether : [Holder -> Int], bal : [Account -> Int],
          allow : [Account -> Int \cup {Unlimited}], supply : Int]

(* The request that the k-th log of a transaction becomes. *)
Request(id, k, log) ==
    [id |-> <<id, k>>, kind |-> log.address,
     amount |-> IF log.address = "Update" THEN 0 ELSE log.data.amount]

(* All that the logs of one transaction become. *)
RequestsOf(id, logs) ==
    {Request(id, k, logs[k]) : k \in {k \in 1..Len(logs) : Decodes(logs[k])}}

(* What the requests of a kind pay out. *)
KindTotal(R, kind) == Total({r \in R : r.kind = kind})

(* Finitely many requests of transactions up to n. *)
Proper(R, n) ==
    /\ IsFiniteSet(R)
    /\ \A r \in R : r.amount \in Int /\ r.id[1] \in Nat /\ r.id[1] <= n

(* The sum of a function's values, as the lemmas on sums have it. *)
LEMMA SumIs ==
    ASSUME NEW f
    PROVE  Sum(f) = SumFunctionOnSet(f, DOMAIN f)
  BY DEF Sum, FoldFunction, SumFunctionOnSet

(* Those who can hold wei are finitely many. *)
LEMMA HolderFinite == IsFiniteSet(Holder) /\ IsFiniteSet(Account)
<1>1. IsFiniteSet(Account)
  BY WorldAssumption
<1>2. IsFiniteSet(Account \cup {Withdrawal})
  BY <1>1, FS_AddElement
<1>3. IsFiniteSet((Account \cup {Withdrawal}) \cup {FeeRecipient})
  BY <1>2, FS_AddElement
<1>4. (Account \cup {Withdrawal}) \cup {FeeRecipient} = Holder
  BY DEF Holder
<1> QED
  BY <1>1, <1>3, <1>4

(* One balance changes. *)
LEMMA SumAfter ==
    ASSUME NEW S, IsFiniteSet(S), NEW f \in [S -> Int], NEW e \in [S -> Int],
           NEW a \in S, \A y \in S \ {a} : e[y] = f[y]
    PROVE  /\ Sum(f) \in Int
           /\ Sum(e) = (Sum(f) - f[a]) + e[a]
<1>1. \A y \in S : f[y] \in Int
  OBVIOUS
<1>2. e[a] \in Int
  OBVIOUS
<1>3. SumFunctionOnSet(e, S) = (SumFunctionOnSet(f, S) - f[a]) + e[a]
  BY <1>1, <1>2, SumChange
<1>4. SumFunctionOnSet(f, S) \in Int
  BY <1>1, SumInt
<1>5. DOMAIN e = S /\ DOMAIN f = S
  OBVIOUS
<1>6. Sum(f) = SumFunctionOnSet(f, S) /\ Sum(e) = SumFunctionOnSet(e, S)
  BY <1>5, SumIs
<1> QED
  BY <1>3, <1>4, <1>6

(* An amount moves from one balance to another. *)
LEMMA SumMoved ==
    ASSUME NEW S, IsFiniteSet(S), NEW f \in [S -> Int], NEW g \in [S -> Int],
           NEW a \in S, NEW b \in S, a # b, NEW v \in Int,
           g[a] = f[a] - v, g[b] = f[b] + v, \A y \in S \ {a, b} : g[y] = f[y]
    PROVE  Sum(g) = Sum(f)
<1>1. PICK e : e = [f EXCEPT ![a] = f[a] - v]
  OBVIOUS
<1>2. PICK p \in Int : p = f[a]
  OBVIOUS
<1>3. PICK q \in Int : q = f[b]
  OBVIOUS
<1>4. /\ e \in [S -> Int] /\ e[a] = p - v /\ e[b] = q
      /\ \A y \in S \ {a} : e[y] = f[y]
  BY <1>1, <1>2, <1>3
<1>5. Sum(f) \in Int /\ Sum(e) = (Sum(f) - f[a]) + e[a]
  BY <1>4, SumAfter
<1>6. \A y \in S \ {b} : g[y] = e[y]
  BY <1>2, <1>4
<1>7. Sum(g) = (Sum(e) - e[b]) + g[b]
  BY <1>4, <1>6, SumAfter
<1>8. PICK x \in Int : x = Sum(f)
  BY <1>5
<1>9. Sum(g) = (((x - p) + (p - v)) - q) + (q + v)
  BY <1>2, <1>3, <1>4, <1>5, <1>7, <1>8
<1> QED
  BY <1>8, <1>9

(* A total is a sum over the requests. *)
LEMMA TotalIs ==
    ASSUME NEW R, IsFiniteSet(R), NEW f, \A r \in R : f[r] = r.amount /\ r.amount \in Int
    PROVE  Total(R) = SumFunctionOnSet(f, R)
<1>1. PICK e : e = [r \in R |-> r.amount]
  OBVIOUS
<1>2. DOMAIN e = R /\ \A r \in R : e[r] = r.amount
  BY <1>1
<1>3. Total(R) = SumFunctionOnSet(e, R)
  BY <1>1, <1>2, SumIs DEF Total
<1>4. \A r \in R : f[r] \in Int
  OBVIOUS
<1>5. \A r \in R : e[r] = f[r]
  BY <1>2
<1>6. SumFunctionOnSet(e, R) = SumFunctionOnSet(f, R)
  BY <1>4, <1>5, SumSame
<1> QED
  BY <1>3, <1>6

(* A total is an integer. *)
LEMMA TotalInt ==
    ASSUME NEW R, IsFiniteSet(R), \A r \in R : r.amount \in Int
    PROVE  Total(R) \in Int
<1>1. PICK f : f = [r \in R |-> r.amount]
  OBVIOUS
<1>2. \A r \in R : f[r] = r.amount /\ r.amount \in Int /\ f[r] \in Int
  BY <1>1
<1>3. Total(R) = SumFunctionOnSet(f, R)
  BY <1>2, TotalIs
<1> QED
  BY <1>2, <1>3, SumInt

(* A request more adds its amount. *)
LEMMA TotalAdd ==
    ASSUME NEW R, IsFiniteSet(R), \A r \in R : r.amount \in Int,
           NEW q, q \notin R, q.amount \in Int
    PROVE  Total(R \cup {q}) = Total(R) + q.amount
<1>1. PICK f : f = [r \in R \cup {q} |-> r.amount]
  OBVIOUS
<1>2. \A r \in R \cup {q} : f[r] = r.amount /\ r.amount \in Int /\ f[r] \in Int
  BY <1>1
<1>3. IsFiniteSet(R \cup {q})
  BY FS_AddElement
<1>4. Total(R \cup {q}) = SumFunctionOnSet(f, R \cup {q})
  BY <1>2, <1>3, TotalIs
<1>5. Total(R) = SumFunctionOnSet(f, R)
  BY <1>2, TotalIs
<1>6. SumFunctionOnSet(f, R \cup {q}) = f[q] + SumFunctionOnSet(f, (R \cup {q}) \ {q})
  <2>1. q \in R \cup {q}
    OBVIOUS
  <2> QED
    BY <1>2, <1>3, <2>1, SumOut
<1>7. (R \cup {q}) \ {q} = R
  OBVIOUS
<1>8. PICK t \in Int : t = Total(R)
  BY TotalInt
<1>9. Total(R \cup {q}) = q.amount + t
  BY <1>2, <1>4, <1>5, <1>6, <1>7, <1>8
<1> QED
  BY <1>8, <1>9

(* The same for the requests of one kind. *)
LEMMA KindTotalAdd ==
    ASSUME NEW R, NEW n, Proper(R, n), NEW q, q \notin R, q.amount \in Int, NEW kind
    PROVE  /\ KindTotal(R, kind) \in Int
           /\ KindTotal(R \cup {q}, kind)
                = IF q.kind = kind THEN KindTotal(R, kind) + q.amount
                  ELSE KindTotal(R, kind)
<1>1. PICK K : K = {r \in R : r.kind = kind}
  OBVIOUS
<1>2. IsFiniteSet(R) /\ K \in SUBSET R
  BY <1>1 DEF Proper
<1>3. IsFiniteSet(K) /\ (\A r \in K : r.amount \in Int) /\ q \notin K
  BY <1>2, FS_Subset DEF Proper
<1>4. KindTotal(R, kind) = Total(K)
  BY <1>1 DEF KindTotal
<1>5. Total(K) \in Int
  BY <1>3, TotalInt
<1>6. CASE q.kind = kind
  <2>1. {r \in R \cup {q} : r.kind = kind} = K \cup {q}
    BY <1>1, <1>6
  <2>2. Total(K \cup {q}) = Total(K) + q.amount
    BY <1>3, TotalAdd
  <2> QED
    BY <1>4, <1>5, <1>6, <2>1, <2>2 DEF KindTotal
<1>7. CASE q.kind # kind
  <2>1. {r \in R \cup {q} : r.kind = kind} = K
    BY <1>1, <1>7
  <2> QED
    BY <1>4, <1>5, <1>7, <2>1 DEF KindTotal
<1> QED
  BY <1>6, <1>7

(* No request, no payout. *)
LEMMA KindTotalEmpty ==
    ASSUME NEW kind
    PROVE  KindTotal({}, kind) = 0
<1>1. {r \in {} : r.kind = kind} = {}
  OBVIOUS
<1>2. IsFiniteSet({}) /\ \A r \in {} : {}[r] = r.amount /\ r.amount \in Int
  BY FS_EmptySet
<1>3. Total({}) = SumFunctionOnSet({}, {})
  BY <1>2, TotalIs
<1>4. SumFunctionOnSet({}, {}) = 0
  BY SumEmpty
<1> QED
  BY <1>1, <1>3, <1>4 DEF KindTotal

(* A push leaves the elements below where they are. *)
LEMMA StackElements ==
    ASSUME NEW s, IsStack(s), NEW e
    PROVE  /\ \A i \in 1..Len(s) : Append(s, e)[i] = s[i]
           /\ Append(s, e)[Len(s) + 1] = e
           /\ Len(s) \in Nat
           /\ 1..Len(Append(s, e)) = (1..Len(s)) \cup {Len(s) + 1}
<1>1. PICK S : s \in Seq(S)
  BY DEF IsStack
<1>2. s \in Seq(S \cup {e}) /\ e \in S \cup {e}
  BY <1>1
<1>3. /\ Len(Append(s, e)) = Len(s) + 1
      /\ \A i \in 1..Len(s) : Append(s, e)[i] = s[i]
      /\ Append(s, e)[Len(s) + 1] = e
  BY <1>2, AppendFacts
<1>4. PICK n \in Nat : n = Len(s)
  BY <1>2
<1>5. 1..(n + 1) = (1..n) \cup {n + 1}
  OBVIOUS
<1> QED
  BY <1>3, <1>4, <1>5

(* A transaction without logs makes no requests. *)
LEMMA NoLogsNoRequests ==
    ASSUME NEW id
    PROVE  RequestsOf(id, <<>>) = {}
<1>1. 1..Len(<<>>) = {}
  OBVIOUS
<1> QED
  BY <1>1 DEF RequestsOf

(* A log more makes a request more, if it decodes. *)
LEMMA RequestsOfAppend ==
    ASSUME NEW logs, IsStack(logs), NEW e, NEW id
    PROVE  RequestsOf(id, Append(logs, e))
             = IF Decodes(e) THEN RequestsOf(id, logs) \cup {Request(id, Len(logs) + 1, e)}
               ELSE RequestsOf(id, logs)
<1> DEFINE old == {k \in 1..Len(logs) : Decodes(logs[k])}
           new == {k \in 1..Len(Append(logs, e)) : Decodes(Append(logs, e)[k])}
<1>1. /\ \A i \in 1..Len(logs) : Append(logs, e)[i] = logs[i]
      /\ Append(logs, e)[Len(logs) + 1] = e
      /\ Len(logs) \in Nat
      /\ 1..Len(Append(logs, e)) = (1..Len(logs)) \cup {Len(logs) + 1}
  BY StackElements
<1>2. new = IF Decodes(e) THEN old \cup {Len(logs) + 1} ELSE old
  <2> HIDE DEF Decodes
  <2> QED
    BY <1>1
<1> DEFINE A(k) == Request(id, k, logs[k])
           B(k) == Request(id, k, Append(logs, e)[k])
<1>3. \A k \in old : B(k) = A(k)
  BY <1>1
<1>4. RequestsOf(id, logs) = {A(k) : k \in old}
  BY DEF RequestsOf
<1>5. RequestsOf(id, Append(logs, e)) = {B(k) : k \in new}
  BY DEF RequestsOf
<1>6. B(Len(logs) + 1) = Request(id, Len(logs) + 1, e)
  BY <1>1
<1> HIDE DEF old, new, A, B
<1>7. CASE Decodes(e)
  <2>1. {B(k) : k \in old \cup {Len(logs) + 1}}
          = {A(k) : k \in old} \cup {Request(id, Len(logs) + 1, e)}
    BY <1>3, <1>6
  <2> QED
    BY <1>2, <1>4, <1>5, <1>7, <2>1
<1>8. CASE ~Decodes(e)
  <2>1. {B(k) : k \in old} = {A(k) : k \in old}
    BY <1>3
  <2> QED
    BY <1>2, <1>4, <1>5, <1>8, <2>1
<1> QED
  BY <1>7, <1>8

(* The number of a log is part of its request's name. *)
LEMMA RequestNames ==
    ASSUME NEW logs, NEW id, NEW q \in RequestsOf(id, logs)
    PROVE  \E k \in 1..Len(logs) : q.id = <<id, k>> /\ q.id[1] = id /\ q.id[2] = k
  BY DEF RequestsOf, Request

(* A block without results records nothing. *)
LEMMA NoneRecorded == Recorded(<<>>) = {}
<1>1. 1..Len(<<>>) = {}
  OBVIOUS
<1> QED
  BY <1>1 DEF Recorded

(* The requests of a block, transaction by transaction. *)
LEMMA RecordedIs ==
    ASSUME NEW s
    PROVE  Recorded(s) = UNION {RequestsOf(s[i].id, s[i].logs) : i \in 1..Len(s)}
  BY DEF Recorded, RequestsOf, Request

(* A result more adds the requests of its logs. *)
LEMMA RecordedAppend ==
    ASSUME NEW s, IsStack(s), NEW x
    PROVE  Recorded(Append(s, x)) = Recorded(s) \cup RequestsOf(x.id, x.logs)
<1> DEFINE Of(t, i) == RequestsOf(t[i].id, t[i].logs)
<1>1. /\ \A i \in 1..Len(s) : Append(s, x)[i] = s[i]
      /\ Append(s, x)[Len(s) + 1] = x
      /\ 1..Len(Append(s, x)) = (1..Len(s)) \cup {Len(s) + 1}
  BY StackElements
<1>2. Recorded(s) = UNION {Of(s, i) : i \in 1..Len(s)}
  BY RecordedIs
<1>3. Recorded(Append(s, x)) = UNION {Of(Append(s, x), i) : i \in 1..Len(Append(s, x))}
  BY RecordedIs
<1>4. \A i \in 1..Len(s) : Of(Append(s, x), i) = Of(s, i)
  BY <1>1
<1>5. Of(Append(s, x), Len(s) + 1) = RequestsOf(x.id, x.logs)
  BY <1>1
<1> HIDE DEF Of
<1> QED
  BY <1>1, <1>2, <1>3, <1>4, <1>5

(* What RevmStableDb::commit makes of a world, diff after diff. *)
CommitAll(w, ds) == FoldLeft(Commit, w, ds)

(* A diff that leaves a world a world. *)
IsDiff(d) == d.after \in World

(* A commit gives a world. *)
LEMMA CommitWorld ==
    ASSUME NEW w \in World, NEW d, IsDiff(d)
    PROVE  Commit(w, d) \in World
<1>1. /\ w.ether \in [Holder -> Int] /\ w.bal \in [Account -> Int]
      /\ w.allow \in [Account -> Int \cup {Unlimited}] /\ w.supply \in Int
  BY DEF World
<1>2. /\ d.after.ether \in [Holder -> Int] /\ d.after.bal \in [Account -> Int]
      /\ d.after.allow \in [Account -> Int \cup {Unlimited}] /\ d.after.supply \in Int
  BY DEF World, IsDiff
<1>3. [a \in Holder |-> IF a \in d.loaded THEN d.after.ether[a] ELSE w.ether[a]]
         \in [Holder -> Int]
  BY <1>1, <1>2
<1>4. [a \in Account |-> IF d.after.bal[a] # d.before.bal[a]
                         THEN d.after.bal[a] ELSE w.bal[a]] \in [Account -> Int]
  BY <1>1, <1>2
<1>5. [a \in Account |-> IF d.after.allow[a] # d.before.allow[a]
                         THEN d.after.allow[a] ELSE w.allow[a]]
         \in [Account -> Int \cup {Unlimited}]
  BY <1>1, <1>2
<1>6. (IF d.after.supply # d.before.supply THEN d.after.supply ELSE w.supply) \in Int
  BY <1>1, <1>2
<1> QED
  BY <1>3, <1>4, <1>5, <1>6 DEF Commit, World

(* The recursion behind the fold: the largest index is committed last. *)
Last1(n) == [s \in SUBSET (1..n) |-> Max(s)]
CommitOf(ds, n) == [i \in 1..n |-> [v \in World |-> Commit(v, ds[i])]]

LEMMA LastIsIn ==
    ASSUME NEW n \in Nat
    PROVE  \A s \in SUBSET (1..n) : s # {} => Last1(n)[s] \in s
  BY MaxIsLargest DEF Last1

LEMMA CommitAllFolds ==
    ASSUME NEW w \in World, NEW n \in Nat, NEW ds, DOMAIN ds = 1..n,
           \A i \in 1..n : IsDiff(ds[i])
    PROVE  \E g : /\ FoldsBy(g, 1..n, World, w, Last1(n), CommitOf(ds, n))
                  /\ CommitAll(w, ds) = g[1..n]
<1> DEFINE S == 1..n
           Unfold(h) == [s \in SUBSET S |-> IF s = {} THEN w
                                            ELSE Commit(h[s \ {Max(s)}], ds[Max(s)])]
           iter == CHOOSE h : h = Unfold(h)
<1>1. \A s \in SUBSET S : s # {} => Max(s) \in s
  BY MaxIsLargest
<1>2. IsFiniteSet(S)
  <2>1. 1 \in Int /\ n \in Int
    OBVIOUS
  <2> QED
    BY <2>1, FS_Interval
<1>3. \A x \in S, v \in World : CommitOf(ds, n)[x][v] \in World
  <2>1. ASSUME NEW x \in S, NEW v \in World PROVE Commit(v, ds[x]) \in World
    BY CommitWorld
  <2>2. ASSUME NEW x \in S, NEW v \in World PROVE CommitOf(ds, n)[x][v] = Commit(v, ds[x])
    <3> HIDE DEF Commit
    <3> QED
      BY DEF CommitOf
  <2> QED
    BY <2>1, <2>2
<1>4. PICK g : FoldsBy(g, S, World, w, Last1(n), CommitOf(ds, n))
  <2>1. \A s \in SUBSET S : s # {} => Last1(n)[s] \in s
    BY LastIsIn
  <2> HIDE DEF S, World
  <2> QED
    BY <1>2, <1>3, <2>1, FoldExists, Zenon
<1>5. g = Unfold(g)
  <2>1. ASSUME NEW s \in SUBSET S PROVE g[s] = Unfold(g)[s]
    <3>1. CASE s = {}
      BY <1>4, <3>1 DEF FoldsBy
    <3>2. CASE s # {}
      <4>1. Max(s) \in S /\ s \ {Max(s)} \in SUBSET S
        BY <1>1, <3>2
      <4>2. g[s \ {Max(s)}] \in World
        BY <1>4, <4>1 DEF FoldsBy
      <4>3. g[s] = CommitOf(ds, n)[Max(s)][g[s \ {Max(s)}]]
        <5>1. Last1(n)[s] = Max(s)
          BY DEF Last1
        <5>2. g[s] = CommitOf(ds, n)[Last1(n)[s]][g[s \ {Last1(n)[s]}]]
          BY <1>4, <3>2 DEF FoldsBy
        <5> QED
          BY <5>1, <5>2
      <4>4. CommitOf(ds, n)[Max(s)][g[s \ {Max(s)}]] = Commit(g[s \ {Max(s)}], ds[Max(s)])
        BY <4>1, <4>2, Zenon DEF CommitOf
      <4> QED
        BY <4>3, <4>4, <3>2
    <3> QED
      BY <3>1, <3>2
  <2>2. g \in [SUBSET S -> World]
    BY <1>4 DEF FoldsBy
  <2> QED
    BY <2>1, <2>2
<1>6. iter = Unfold(iter)
  BY <1>5
<1>7. CommitAll(w, ds) = iter[S]
  BY DEF CommitAll, FoldLeft, MapThenFoldSet
<1>8. ASSUME NEW s \in SUBSET S
      PROVE  iter[s] = IF s = {} THEN w ELSE Commit(iter[s \ {Max(s)}], ds[Max(s)])
  BY <1>6
<1> HIDE DEF iter
<1>9. \A s \in SUBSET S : iter[s] = g[s]
  <2> DEFINE C == {s \in SUBSET S : iter[s] = g[s]}
  <2>1. ASSUME NEW T \in SUBSET S, \A U \in SUBSET T : U # T => U \in C
        PROVE  T \in C
    <3>0. g[T] = IF T = {} THEN w ELSE Commit(g[T \ {Max(T)}], ds[Max(T)])
      <4>1. g[T] = Unfold(g)[T]
        BY <1>5
      <4> QED
        BY <4>1
    <3>1. CASE T = {}
      <4>1. iter[T] = w /\ g[T] = w
        BY <1>8, <3>0, <3>1
      <4> QED
        BY <4>1
    <3>2. CASE T # {}
      <4>1. Max(T) \in T /\ T \ {Max(T)} \in SUBSET T /\ T \ {Max(T)} # T
        BY <1>1, <3>2
      <4>2. iter[T \ {Max(T)}] = g[T \ {Max(T)}]
        BY <2>1, <4>1
      <4>3. iter[T] = Commit(iter[T \ {Max(T)}], ds[Max(T)])
        BY <1>8, <3>2
      <4>4. g[T] = Commit(g[T \ {Max(T)}], ds[Max(T)])
        BY <3>0, <3>2
      <4>5. iter[T] = g[T]
        BY <4>2, <4>3, <4>4
      <4> QED
        BY <4>5
    <3> QED
      BY <3>1, <3>2
  <2>2. \A T \in SUBSET S : T \in C
    <3> HIDE DEF C
    <3> QED
      BY <1>2, <2>1, SubsetInduction
  <2> QED
    BY <2>2
<1> QED
  BY <1>4, <1>7, <1>9

(* Nothing to commit. *)
LEMMA CommitAllNone ==
    ASSUME NEW w \in World, NEW ds, DOMAIN ds = 1..0
    PROVE  CommitAll(w, ds) = w
<1>1. 1..0 = {} /\ 0 \in Nat
  OBVIOUS
<1>2. \A i \in 1..0 : IsDiff(ds[i])
  BY <1>1
<1>3. PICK g : /\ FoldsBy(g, 1..0, World, w, Last1(0), CommitOf(ds, 0))
               /\ CommitAll(w, ds) = g[1..0]
  BY <1>1, <1>2, CommitAllFolds
<1>4. g[{}] = w
  BY <1>3 DEF FoldsBy
<1> QED
  BY <1>1, <1>3, <1>4

(* One diff more is committed after the others. *)
LEMMA CommitAllMore ==
    ASSUME NEW w \in World, NEW n \in Nat, NEW ds, DOMAIN ds = 1..n,
           NEW es, DOMAIN es = 1..(n + 1), \A i \in 1..n : es[i] = ds[i],
           \A i \in 1..(n + 1) : IsDiff(es[i])
    PROVE  /\ CommitAll(w, ds) \in World
           /\ CommitAll(w, es) = Commit(CommitAll(w, ds), es[n + 1])
<1>1. n + 1 \in Nat /\ 1..n \subseteq 1..(n + 1) /\ n + 1 \in 1..(n + 1)
  OBVIOUS
<1>2. \A i \in 1..n : IsDiff(ds[i])
  <2>1. ASSUME NEW i \in 1..n PROVE IsDiff(ds[i])
    <3>1. es[i] = ds[i] /\ i \in 1..(n + 1)
      BY <1>1
    <3>2. IsDiff(es[i])
      BY <3>1
    <3> QED
      BY <3>1, <3>2
  <2> QED
    BY <2>1
<1>3. PICK g : /\ FoldsBy(g, 1..n, World, w, Last1(n), CommitOf(ds, n))
               /\ CommitAll(w, ds) = g[1..n]
  BY <1>2, CommitAllFolds
<1>4. PICK h : /\ FoldsBy(h, 1..(n + 1), World, w, Last1(n + 1), CommitOf(es, n + 1))
               /\ CommitAll(w, es) = h[1..(n + 1)]
  BY <1>1, CommitAllFolds
<1>5. g[1..n] = h[1..n]
  <2>1. IsFiniteSet(1..n)
    <3>1. 1 \in Int /\ n \in Int
      OBVIOUS
    <3> QED
      BY <3>1, FS_Interval
  <2>2. \A s \in SUBSET (1..n) : s # {} =>
           Last1(n)[s] \in s /\ Last1(n + 1)[s] = Last1(n)[s]
    <3>1. ASSUME NEW s \in SUBSET (1..n), s # {}
          PROVE  Last1(n)[s] \in s /\ Last1(n + 1)[s] = Last1(n)[s]
      <4>1. s \in SUBSET (1..(n + 1))
        BY <1>1
      <4>2. Last1(n)[s] = Max(s) /\ Last1(n + 1)[s] = Max(s)
        BY <4>1 DEF Last1
      <4> QED
        BY <3>1, <4>2, LastIsIn
    <3> QED
      BY <3>1
  <2>3. \A x \in 1..n, v \in World : CommitOf(ds, n)[x][v] = CommitOf(es, n + 1)[x][v]
    <3>1. ASSUME NEW x \in 1..n, NEW v \in World
          PROVE  CommitOf(ds, n)[x][v] = CommitOf(es, n + 1)[x][v]
      <4>1. x \in 1..(n + 1) /\ es[x] = ds[x]
        BY <1>1
      <4>2. CommitOf(ds, n)[x][v] = Commit(v, ds[x])
        BY Zenon DEF CommitOf
      <4>3. CommitOf(es, n + 1)[x][v] = Commit(v, es[x])
        BY <4>1, Zenon DEF CommitOf
      <4> QED
        BY <4>1, <4>2, <4>3
    <3> QED
      BY <3>1
  <2>4. PICK D, E, V : D = 1..n /\ E = 1..(n + 1) /\ V = World
    OBVIOUS
  <2>5. PICK c, d, G, H : /\ c = Last1(n) /\ d = Last1(n + 1)
                          /\ G = CommitOf(ds, n) /\ H = CommitOf(es, n + 1)
    OBVIOUS
  <2>6. /\ IsFiniteSet(D) /\ D \subseteq D /\ D \subseteq E
        /\ FoldsBy(g, D, V, w, c, G) /\ FoldsBy(h, E, V, w, d, H)
        /\ \A s \in SUBSET D : s # {} => c[s] \in s /\ d[s] = c[s]
        /\ \A x \in D, v \in V : G[x][v] = H[x][v]
    BY <1>1, <1>3, <1>4, <2>1, <2>2, <2>3, <2>4, <2>5
  <2>7. g[D] = h[D]
    BY <2>6, FoldsByAgree
  <2> QED
    BY <2>4, <2>7
<1>6. Last1(n + 1)[1..(n + 1)] = n + 1
  <2>1. Max(1..(n + 1)) \in 1..(n + 1) /\ \A y \in 1..(n + 1) : y <= Max(1..(n + 1))
    <3>1. 1..(n + 1) # {} /\ 1..(n + 1) \in SUBSET (1..(n + 1))
      BY <1>1
    <3> QED
      BY <1>1, <3>1, MaxIsLargest
  <2>2. PICK m \in 1..(n + 1) : m = Max(1..(n + 1)) /\ \A y \in 1..(n + 1) : y <= m
    BY <2>1
  <2>3. n + 1 <= m /\ m <= n + 1 /\ m \in Int
    BY <1>1, <2>2
  <2>4. m = n + 1
    BY <2>3
  <2> QED
    BY <2>2, <2>4 DEF Last1
<1>7. (1..(n + 1)) \ {n + 1} = 1..n
  OBVIOUS
<1>8. h[1..(n + 1)] = CommitOf(es, n + 1)[n + 1][h[1..n]]
  <2>1. 1..(n + 1) # {} /\ 1..(n + 1) \in SUBSET (1..(n + 1))
    BY <1>1
  <2>2. PICK l : l = Last1(n + 1)[1..(n + 1)]
    OBVIOUS
  <2>3. h[1..(n + 1)] = CommitOf(es, n + 1)[l][h[(1..(n + 1)) \ {l}]]
    BY <1>4, <2>1, <2>2 DEF FoldsBy
  <2> QED
    BY <1>6, <1>7, <2>2, <2>3
<1>9. g[1..n] \in World
  BY <1>3 DEF FoldsBy
<1>10. CommitOf(es, n + 1)[n + 1][g[1..n]] = Commit(g[1..n], es[n + 1])
  BY <1>1, <1>9, Zenon DEF CommitOf
<1> QED
  BY <1>3, <1>4, <1>5, <1>8, <1>9, <1>10

(* The world w has paid for the requests R, and all its wei are accounted  *)
(* for when deposits have credited c.                                      *)
Balanced(w, R, c) ==
    /\ w \in World
    /\ Sum(w.ether) = Sum(Ether) + c
    /\ Sum(w.bal) = w.supply
    /\ Sum(Token) - w.supply = KindTotal(R, "Unwrap")
    /\ w.ether[Withdrawal] = WEI_PER_E8S * KindTotal(R, "Withdraw")

(* The token's own logs make no requests. *)
LEMMA TokenLogs ==
    ASSUME NEW logs, IsStack(logs), NEW x, NEW id
    PROVE  /\ IsStack(Append(logs, Log("Token", x)))
           /\ RequestsOf(id, Append(logs, Log("Token", x))) = RequestsOf(id, logs)
<1>1. ~Decodes(Log("Token", x))
  BY DEF Decodes, Log
<1>2. PICK e : e = Log("Token", x)
  OBVIOUS
<1>3. IsStack(Append(logs, e))
  BY StackPushed
<1>4. RequestsOf(id, Append(logs, e)) = RequestsOf(id, logs)
  BY <1>1, <1>2, RequestsOfAppend
<1> QED
  BY <1>2, <1>3, <1>4

(* What the request of a log pays out. *)
Pays(log) == IF log.address = "Update" THEN 0 ELSE log.data.amount

(* A log that decodes adds its amount to the total of its kind. *)
LEMMA LogBooked ==
    ASSUME NEW logs, IsStack(logs), NEW id \in Nat, NEW R, Proper(R, id - 1),
           Proper(RequestsOf(id, logs), id), NEW e, Decodes(e), NEW n \in Int,
           n = Pays(e), NEW Q, Q = R \cup RequestsOf(id, logs),
           NEW P, P = R \cup RequestsOf(id, Append(logs, e))
    PROVE  /\ IsStack(Append(logs, e))
           /\ Proper(RequestsOf(id, Append(logs, e)), id)
           /\ \A kind : KindTotal(Q, kind) \in Int
           /\ KindTotal(P, e.address) = KindTotal(Q, e.address) + n
           /\ \A kind : kind # e.address => KindTotal(P, kind) = KindTotal(Q, kind)
<1>1. IsStack(Append(logs, e)) /\ Len(logs) \in Nat
  BY StackPushed
<1>2. PICK k \in Nat : k = Len(logs) + 1
  BY <1>1
<1>3. PICK q : q = Request(id, k, e)
  OBVIOUS
<1>4. q.id = <<id, k>> /\ q.id[1] = id /\ q.id[2] = k /\ q.kind = e.address /\ q.amount = n
  BY <1>3 DEF Request, Pays
<1>5. PICK old : old = RequestsOf(id, logs)
  OBVIOUS
<1>6. RequestsOf(id, Append(logs, e)) = old \cup {q}
  BY <1>2, <1>3, <1>5, RequestsOfAppend
<1>7. q \notin old
  <2>1. ASSUME q \in old PROVE FALSE
    <3>1. PICK i \in 1..Len(logs) : q.id[2] = i
      BY <1>5, <2>1, RequestNames
    <3>2. i = k /\ i <= Len(logs)
      BY <1>1, <1>4, <3>1
    <3> QED
      BY <1>1, <1>2, <3>2
  <2> QED
    BY <2>1
<1>8. q \notin R
  <2>1. ASSUME q \in R PROVE FALSE
    <3>1. id <= id - 1
      BY <1>4, <2>1 DEF Proper
    <3> QED
      BY <3>1
  <2> QED
    BY <2>1
<1>9. Proper(old \cup {q}, id)
  <2>1. IsFiniteSet(old \cup {q})
    BY <1>5, FS_AddElement DEF Proper
  <2>2. ASSUME NEW r \in old \cup {q}
        PROVE  r.amount \in Int /\ r.id[1] \in Nat /\ r.id[1] <= id
    <3>1. CASE r \in old
      BY <3>1, <1>5 DEF Proper
    <3>2. CASE r = q
      BY <3>2, <1>4
    <3> QED
      BY <3>1, <3>2
  <2> QED
    BY <2>1, <2>2 DEF Proper
<1>10. Proper(R \cup old, id)
  <2>1. IsFiniteSet(R \cup old)
    BY <1>5, FS_Union DEF Proper
  <2>2. ASSUME NEW r \in R \cup old
        PROVE  r.amount \in Int /\ r.id[1] \in Nat /\ r.id[1] <= id
    <3>1. CASE r \in old
      BY <3>1, <1>5 DEF Proper
    <3>2. CASE r \in R
      BY <3>2 DEF Proper
    <3> QED
      BY <3>1, <3>2
  <2> QED
    BY <2>1, <2>2 DEF Proper
<1>11. ASSUME NEW kind
       PROVE  /\ KindTotal(R \cup old, kind) \in Int
              /\ KindTotal((R \cup old) \cup {q}, kind)
                   = IF q.kind = kind THEN KindTotal(R \cup old, kind) + q.amount
                     ELSE KindTotal(R \cup old, kind)
  <2>1. q \notin R \cup old /\ q.amount \in Int
    BY <1>4, <1>7, <1>8
  <2> QED
    BY <1>10, <2>1, KindTotalAdd
<1>12. (R \cup old) \cup {q} = R \cup (old \cup {q})
  OBVIOUS
<1> QED
  BY <1>1, <1>4, <1>5, <1>6, <1>9, <1>11, <1>12

(* A journal: the world and the logs. *)
JournalOf(w, l) == [w |-> w, logs |-> l]

(* The fields of a world. *)
LEMMA WorldFields ==
    ASSUME NEW w \in World
    PROVE  /\ DOMAIN w = {"ether", "bal", "allow", "supply"}
           /\ w.ether \in [Holder -> Int] /\ w.bal \in [Account -> Int]
           /\ w.allow \in [Account -> Int \cup {Unlimited}] /\ w.supply \in Int
  BY DEF World

(* A burn takes the amount from the owner and from the supply and leaves   *)
(* the wei alone.                                                          *)
LEMMA BurnTakes ==
    ASSUME NEW w \in World, NEW logs, IsStack(logs), NEW owner \in Account, NEW asset,
           NEW amount \in Int, NEW id, NEW r,
           r = Burn(JournalOf(w, logs), owner, asset, amount), r.result = "Return"
    PROVE  \E v, l : /\ r = Result("Return", JournalOf(v, l))
                     /\ v \in World
                     /\ v.ether = w.ether
                     /\ v.supply = w.supply - amount
                     /\ Sum(v.bal) = Sum(w.bal) - amount
                     /\ IsStack(l)
                     /\ RequestsOf(id, l) = RequestsOf(id, logs)
<1> DEFINE spent == Spent(w.allow[owner], amount)
           l1 == IF w.allow[owner] = Unlimited THEN logs ELSE Append(logs, Log("Token", spent))
           l2 == Append(l1, Log("Token", amount))
           v == [ether |-> w.ether, bal |-> [w.bal EXCEPT ![owner] = @ - amount],
                 allow |-> [w.allow EXCEPT ![owner] = spent],
                 supply |-> w.supply - amount]
<1>1. /\ DOMAIN w = {"ether", "bal", "allow", "supply"}
      /\ w.ether \in [Holder -> Int] /\ w.bal \in [Account -> Int]
      /\ w.allow \in [Account -> Int \cup {Unlimited}] /\ w.supply \in Int
  BY WorldFields
<1>2. spent \in Int \cup {Unlimited}
  BY <1>1 DEF Spent
<1>3. IsStack(l1) /\ RequestsOf(id, l1) = RequestsOf(id, logs)
  BY TokenLogs
<1>4. IsStack(l2) /\ RequestsOf(id, l2) = RequestsOf(id, l1)
  BY <1>3, TokenLogs
<1>5. r = Result("Return", JournalOf(v, l2))
  BY <1>1 DEF Burn, Result, Failed, SupplyAfter, JournalOf
<1> HIDE DEF spent
<1>6. v \in World
  BY <1>1, <1>2 DEF World
<1>7. Sum(v.bal) = Sum(w.bal) - amount
  <2>1. PICK f : f = w.bal
    OBVIOUS
  <2>2. PICK e : e = v.bal
    OBVIOUS
  <2>3. f \in [Account -> Int] /\ e \in [Account -> Int] /\ e[owner] = f[owner] - amount
        /\ \A y \in Account \ {owner} : e[y] = f[y]
    BY <1>1, <2>1, <2>2
  <2>4. Sum(f) \in Int /\ Sum(e) = (Sum(f) - f[owner]) + e[owner]
    BY <2>3, SumAfter, HolderFinite
  <2>5. PICK x \in Int : x = f[owner]
    BY <2>3
  <2>6. Sum(e) = Sum(f) - amount
    BY <2>3, <2>4, <2>5
  <2> QED
    BY <2>1, <2>2, <2>6
<1>8. v.ether = w.ether /\ v.supply = w.supply - amount
  OBVIOUS
<1> HIDE DEF v, l1, l2
<1> QED
  BY <1>3, <1>4, <1>5, <1>6, <1>7, <1>8

(* A journal of the transaction id, which started on the world base with   *)
(* the requests R booked, has paid for its own logs too and has changed    *)
(* the wei of loaded accounts only.                                        *)
Backed(w, logs, id, R, loaded, base, c) ==
    /\ IsStack(logs)
    /\ Proper(RequestsOf(id, logs), id)
    /\ Balanced(w, R \cup RequestsOf(id, logs), c)
    /\ \A h \in Holder \ loaded : w.ether[h] = base.ether[h]

(* The wrapped tokens at first. *)
LEMMA FirstSums == Sum(Token) \in Int /\ Sum(Ether) \in Int
<1>1. \A x \in Account : Token[x] \in Int /\ Ether[x] \in Int
  BY WorldAssumption
<1>2. DOMAIN Token = Account /\ DOMAIN Ether = Account
  BY WorldAssumption
<1>3. IsFiniteSet(Account)
  BY HolderFinite
<1>4. SumFunctionOnSet(Token, Account) \in Int
  BY <1>1, <1>3, SumInt
<1>5. SumFunctionOnSet(Ether, Account) \in Int
  BY <1>1, <1>3, SumInt
<1>6. Sum(Token) = SumFunctionOnSet(Token, Account)
  BY <1>2, SumIs
<1>7. Sum(Ether) = SumFunctionOnSet(Ether, Account)
  BY <1>2, SumIs
<1> QED
  BY <1>4, <1>5, <1>6, <1>7

(* A log more in the journal of a result. *)
LEMMA LogAdded ==
    ASSUME NEW v, NEW l, NEW x
    PROVE  [Result("Return", JournalOf(v, l)) EXCEPT !.j.logs = Append(@, x)]
             = Result("Return", JournalOf(v, Append(l, x)))
<1>1. PICK a : a = Append(l, x)
  OBVIOUS
<1>2. Result("Return", JournalOf(v, l)).j.logs = l
  BY DEF Result, JournalOf
<1>3. [Result("Return", JournalOf(v, l)) EXCEPT !.j.logs = a]
        = Result("Return", JournalOf(v, a))
  BY DEF Result, JournalOf
<1> QED
  BY <1>1, <1>2, <1>3

(* A successful unwrap burns what its request will pay out. *)
LEMMA UnwrapBacked ==
    ASSUME NEW id \in Nat, NEW R, Proper(R, id - 1), NEW w, NEW logs, NEW loaded,
           NEW base, NEW c, Backed(w, logs, id, R, loaded, base, c),
           NEW owner \in Account, NEW static, NEW in \in UnwrapInputs, NEW gas, NEW r,
           r = Unwrap(JournalOf(w, logs), owner, static, in, gas),
           r.result = "Return"
    PROVE  Backed(r.j.w, r.j.logs, id, R, loaded, base, c)
<1>0. w \in World /\ IsStack(logs) /\ in.amount \in Int
  BY WorldAssumption DEF Backed, Balanced
<1>1. PICK burnt : burnt = Burn(JournalOf(w, logs), owner, in.asset, in.amount)
  OBVIOUS
<1>2. /\ ParsesUnwrap(in)
      /\ burnt.result = "Return"
      /\ r = Charge([burnt EXCEPT !.j.logs = Append(@, Log("Unwrap", in))], gas)
  <2> HIDE DEF Backed, Proper
  <2>1. ~(static \/ ~ParsesUnwrap(in))
    BY DEF Unwrap, Failed, Result
  <2>2. r = IF burnt.result # "Return" THEN burnt
            ELSE Charge([burnt EXCEPT !.j.logs = Append(@, Log("Unwrap", in))], gas)
    BY <1>1, <2>1 DEF Unwrap
  <2> QED
    BY <2>1, <2>2
<1>3. PICK v, l : /\ burnt = Result("Return", JournalOf(v, l))
                  /\ v \in World
                  /\ v.ether = w.ether
                  /\ v.supply = w.supply - in.amount
                  /\ Sum(v.bal) = Sum(w.bal) - in.amount
                  /\ IsStack(l)
                  /\ RequestsOf(id, l) = RequestsOf(id, logs)
  <2>1. PICK n, a : n = in.amount /\ a = in.asset
    OBVIOUS
  <2>2. n \in Int /\ burnt = Burn(JournalOf(w, logs), owner, a, n)
    BY <1>0, <1>1, <2>1
  <2>3. \E v, l : /\ burnt = Result("Return", JournalOf(v, l))
                  /\ v \in World
                  /\ v.ether = w.ether
                  /\ v.supply = w.supply - n
                  /\ Sum(v.bal) = Sum(w.bal) - n
                  /\ IsStack(l)
                  /\ RequestsOf(id, l) = RequestsOf(id, logs)
    BY <1>0, <1>2, <2>2, BurnTakes
  <2> QED
    BY <2>1, <2>3
<1>4. PICK e : e = Log("Unwrap", in)
  OBVIOUS
<1>5. r = Result("Return", JournalOf(v, Append(l, e)))
  <2>1. [burnt EXCEPT !.j.logs = Append(@, Log("Unwrap", in))]
          = Result("Return", JournalOf(v, Append(l, e)))
    BY <1>3, <1>4, LogAdded
  <2>2. PICK u : u = Result("Return", JournalOf(v, Append(l, e)))
    OBVIOUS
  <2>3. r = Charge(u, gas)
    BY <1>2, <2>1, <2>2
  <2>4. u.result = "Return"
    BY <2>2 DEF Result
  <2> QED
    BY <2>2, <2>3, <2>4 DEF Charge, Result
<1>6. e.address = "Unwrap" /\ e.data = in /\ Decodes(e)
  BY <1>2, <1>4 DEF Log, Decodes, ParsesUnwrap, IsPrincipalLen, IsFieldLen, MAX_PRINCIPAL_LEN,
                    MAX_FIELD_LEN
<1>7. PICK n \in Int : n = in.amount
  BY <1>0
<1>8. PICK Q, P : Q = R \cup RequestsOf(id, logs) /\ P = R \cup RequestsOf(id, Append(l, e))
  OBVIOUS
<1>9. /\ IsStack(Append(l, e))
      /\ Proper(RequestsOf(id, Append(l, e)), id)
      /\ \A kind : KindTotal(Q, kind) \in Int
      /\ KindTotal(P, e.address) = KindTotal(Q, e.address) + n
      /\ \A kind : kind # e.address => KindTotal(P, kind) = KindTotal(Q, kind)
  <2>1. n = Pays(e)
    BY <1>6, <1>7 DEF Pays
  <2>2. Proper(RequestsOf(id, l), id) /\ Q = R \cup RequestsOf(id, l)
    BY <1>3, <1>8 DEF Backed
  <2> QED
    BY <1>3, <1>6, <1>8, <2>1, <2>2, LogBooked
<1>10. Balanced(w, Q, c)
  BY <1>8 DEF Backed
<1>11. Balanced(v, P, c)
  <2>1. w.supply \in Int /\ Sum(Token) \in Int
    BY <1>0, WorldFields, FirstSums
  <2>2. /\ Sum(w.ether) = Sum(Ether) + c
        /\ Sum(w.bal) = w.supply
        /\ Sum(Token) - w.supply = KindTotal(Q, "Unwrap")
        /\ w.ether[Withdrawal] = WEI_PER_E8S * KindTotal(Q, "Withdraw")
    BY <1>10 DEF Balanced
  <2>3. Sum(v.bal) = v.supply
    BY <1>3, <2>2
  <2>4. KindTotal(P, "Unwrap") = KindTotal(Q, "Unwrap") + n /\ KindTotal(Q, "Unwrap") \in Int
        /\ KindTotal(P, "Withdraw") = KindTotal(Q, "Withdraw")
    BY <1>6, <1>9
  <2>5. PICK x, y, z : x = Sum(Token) /\ y = w.supply /\ z = KindTotal(Q, "Unwrap")
    OBVIOUS
  <2>6. x \in Int /\ y \in Int /\ z \in Int /\ x - y = z
    BY <2>1, <2>2, <2>4, <2>5
  <2>7. x - (y - n) = z + n
    BY <2>6
  <2>8. Sum(Token) - v.supply = KindTotal(P, "Unwrap")
    BY <1>3, <1>7, <2>4, <2>5, <2>7
  <2> QED
    BY <1>3, <2>2, <2>3, <2>4, <2>8 DEF Balanced
<1>12. r.j.w = v /\ r.j.logs = Append(l, e)
  BY <1>5 DEF Result, JournalOf
<1> QED
  BY <1>3, <1>8, <1>9, <1>11, <1>12 DEF Backed

(* A charge changes no successful result. *)
LEMMA Charged ==
    ASSUME NEW u, NEW gas, NEW r, r = Charge(u, gas), r.result = "Return"
    PROVE  r = u
  BY DEF Charge, Result

(* An update intent moves no money. *)
LEMMA UpdateBacked ==
    ASSUME NEW id \in Nat, NEW R, Proper(R, id - 1), NEW w, NEW logs, NEW loaded,
           NEW base, NEW c, Backed(w, logs, id, R, loaded, base, c),
           NEW static, NEW in, NEW gas, NEW r,
           r = Update(JournalOf(w, logs), static, in, gas), r.result = "Return"
    PROVE  Backed(r.j.w, r.j.logs, id, R, loaded, base, c)
<1>0. w \in World /\ IsStack(logs)
  BY DEF Backed, Balanced
<1>1. PICK e : e = Log("Update", in)
  OBVIOUS
<1>2. r = Charge(Result("Return", JournalOf(w, Append(logs, e))), gas)
  <2>1. [JournalOf(w, logs) EXCEPT !.logs = Append(@, e)] = JournalOf(w, Append(logs, e))
    BY DEF JournalOf
  <2>2. PICK d : d = JournalOf(w, logs)
    OBVIOUS
  <2>3. r.result # Failed(d).result
    BY DEF Failed, Result
  <2>4. r = Charge(Result("Return", [d EXCEPT !.logs = Append(@, e)]), gas)
    BY <1>1, <2>2, <2>3 DEF Update
  <2> QED
    BY <2>1, <2>2, <2>4
<1>3. r = Result("Return", JournalOf(w, Append(logs, e)))
  <2>1. PICK u : u = Result("Return", JournalOf(w, Append(logs, e)))
    OBVIOUS
  <2> QED
    BY <1>2, <2>1, Charged
<1>4. r.j.w = w /\ r.j.logs = Append(logs, e)
  BY <1>3 DEF Result, JournalOf
<1>5. PICK Q, P : Q = R \cup RequestsOf(id, logs) /\ P = R \cup RequestsOf(id, Append(logs, e))
  OBVIOUS
<1>6. Proper(RequestsOf(id, logs), id) /\ Balanced(w, Q, c)
      /\ \A h \in Holder \ loaded : w.ether[h] = base.ether[h]
  BY <1>5 DEF Backed
<1>7. /\ IsStack(Append(logs, e))
      /\ Proper(RequestsOf(id, Append(logs, e)), id)
      /\ KindTotal(P, "Unwrap") = KindTotal(Q, "Unwrap")
      /\ KindTotal(P, "Withdraw") = KindTotal(Q, "Withdraw")
  <2>1. CASE Decodes(e)
    <3>1. e.address = "Update"
      BY <1>1 DEF Log
    <3>2. 0 = Pays(e) /\ 0 \in Int
      BY <3>1 DEF Pays
    <3>3. PICK n \in Int : n = Pays(e)
      BY <3>2
    <3>4. /\ IsStack(Append(logs, e))
          /\ Proper(RequestsOf(id, Append(logs, e)), id)
          /\ \A kind : KindTotal(Q, kind) \in Int
          /\ KindTotal(P, e.address) = KindTotal(Q, e.address) + n
          /\ \A kind : kind # e.address => KindTotal(P, kind) = KindTotal(Q, kind)
      BY <1>0, <1>5, <1>6, <2>1, <3>3, LogBooked
    <3> QED
      BY <3>1, <3>4
  <2>2. CASE ~Decodes(e)
    <3>1. RequestsOf(id, Append(logs, e)) = RequestsOf(id, logs)
      BY <1>0, <2>2, RequestsOfAppend
    <3>2. IsStack(Append(logs, e))
      BY <1>0, StackPushed
    <3> QED
      BY <1>5, <1>6, <3>1, <3>2
  <2> QED
    BY <2>1, <2>2
<1>8. Balanced(w, P, c)
  BY <1>6, <1>7 DEF Balanced
<1> QED
  BY <1>4, <1>5, <1>6, <1>7, <1>8 DEF Backed

(* A number that a unit divides is what its quotient stands for. *)
LEMMA Quotient ==
    ASSUME NEW v \in Nat, NEW u \in Nat, u > 0, v % u = 0
    PROVE  v \div u \in Int /\ v = u * (v \div u)
  BY SMTT(30)

(* So is a value the withdrawal precompile takes. *)
LEMMA ValueIsMultiple ==
    ASSUME NEW v \in Nat, ValueAccepted(v)
    PROVE  v \div WEI_PER_E8S \in Int /\ v = WEI_PER_E8S * (v \div WEI_PER_E8S)
<1>1. PICK u \in Nat : u = WEI_PER_E8S /\ u > 0
  BY WorldAssumption
<1>2. v % u = 0
  BY <1>1 DEF ValueAccepted
<1>3. v \div u \in Int /\ v = u * (v \div u)
  BY <1>1, <1>2, Quotient
<1> QED
  BY <1>1, <1>3

(* A successful withdrawal locks what its request will pay out. *)
LEMMA WithdrawBacked ==
    ASSUME NEW id \in Nat, NEW R, Proper(R, id - 1), NEW w, NEW logs, NEW loaded,
           NEW base, NEW c, Backed(w, logs, id, R, loaded, base, c),
           NEW from \in Account, from \in loaded, NEW static, NEW in \in WithdrawInputs,
           NEW gas, NEW r,
           r = Withdraw(JournalOf(Locked(w, from, in.value), logs), static, in, gas),
           r.result = "Return"
    PROVE  Backed(r.j.w, r.j.logs, id, R, loaded \cup {Withdrawal}, base, c)
<1>0. w \in World /\ IsStack(logs) /\ in.value \in Nat
  BY WorldAssumption DEF Backed, Balanced
<1>1. PICK v \in Nat : v = in.value
  BY <1>0
<1>2. PICK x : x = Locked(w, from, v)
  OBVIOUS
<1>3. PICK e : e = Log("Withdraw", [amount |-> v \div WEI_PER_E8S, recipient |-> in.recipient])
  OBVIOUS
<1>4. /\ ParsesWithdraw(in) /\ ValueAccepted(v)
      /\ r = Charge(Result("Return", JournalOf(x, Append(logs, e))), gas)
  <2>1. PICK d : d = JournalOf(x, logs)
    OBVIOUS
  <2>2. [d EXCEPT !.logs = Append(@, e)] = JournalOf(x, Append(logs, e))
    BY <2>1 DEF JournalOf
  <2>3. r.result # Failed(d).result
    BY DEF Failed, Result
  <2>4. ~(static \/ ~ParsesWithdraw(in) \/ ~ValueAccepted(in.value))
    BY <1>1, <1>2, <2>1, <2>3 DEF Withdraw
  <2>5. r = Charge(Result("Return", [d EXCEPT !.logs = Append(@, e)]), gas)
    BY <1>1, <1>2, <1>3, <2>1, <2>4 DEF Withdraw
  <2> QED
    BY <1>1, <2>2, <2>4, <2>5
<1>5. r = Result("Return", JournalOf(x, Append(logs, e)))
  <2>1. PICK u : u = Result("Return", JournalOf(x, Append(logs, e)))
    OBVIOUS
  <2> QED
    BY <1>4, <2>1, Charged
<1>6. r.j.w = x /\ r.j.logs = Append(logs, e)
  BY <1>5 DEF Result, JournalOf
<1>7. PICK n \in Int : n = v \div WEI_PER_E8S /\ v = WEI_PER_E8S * n
  BY <1>4, ValueIsMultiple
<1>8. e.address = "Withdraw" /\ Decodes(e) /\ n = Pays(e)
  BY <1>3, <1>4, <1>7 DEF Log, Pays, Decodes, ParsesWithdraw, IsPrincipalLen, IsFieldLen,
                          MAX_PRINCIPAL_LEN, MAX_FIELD_LEN
<1>9. PICK Q, P : Q = R \cup RequestsOf(id, logs) /\ P = R \cup RequestsOf(id, Append(logs, e))
  OBVIOUS
<1>10. Proper(RequestsOf(id, logs), id) /\ Balanced(w, Q, c)
       /\ \A h \in Holder \ loaded : w.ether[h] = base.ether[h]
  BY <1>9 DEF Backed
<1>11. /\ IsStack(Append(logs, e))
       /\ Proper(RequestsOf(id, Append(logs, e)), id)
       /\ \A kind : KindTotal(Q, kind) \in Int
       /\ KindTotal(P, e.address) = KindTotal(Q, e.address) + n
       /\ \A kind : kind # e.address => KindTotal(P, kind) = KindTotal(Q, kind)
  BY <1>0, <1>8, <1>9, <1>10, LogBooked
<1>12. from \in Holder /\ Withdrawal \in Holder /\ from # Withdrawal
  BY WorldAssumption DEF Holder
<1>13. /\ DOMAIN w = {"ether", "bal", "allow", "supply"}
       /\ w.ether \in [Holder -> Int] /\ w.bal \in [Account -> Int]
       /\ w.allow \in [Account -> Int \cup {Unlimited}] /\ w.supply \in Int
  BY <1>0, WorldFields
<1>14. PICK f : f = Paid(w.ether, from, v)
  OBVIOUS
<1>15. /\ f \in [Holder -> Int] /\ f[from] = w.ether[from] - v
       /\ f[Withdrawal] = w.ether[Withdrawal] + v
       /\ \A y \in Holder \ {from, Withdrawal} : f[y] = w.ether[y]
  BY <1>12, <1>13, <1>14 DEF Paid
<1>16. x = [w EXCEPT !.ether = f]
  BY <1>2, <1>13, <1>14 DEF Locked
<1>17. /\ x \in World /\ x.ether = f /\ x.bal = w.bal /\ x.supply = w.supply
  BY <1>13, <1>15, <1>16 DEF World
<1>18. Sum(f) = Sum(w.ether)
  <2>1. PICK g \in [Holder -> Int] : g = w.ether
    BY <1>13
  <2>2. f[from] = g[from] - v /\ f[Withdrawal] = g[Withdrawal] + v
        /\ \A y \in Holder \ {from, Withdrawal} : f[y] = g[y]
    BY <1>15, <2>1
  <2>3. v \in Int
    OBVIOUS
  <2>4. Sum(f) = Sum(g)
    BY <1>12, <1>15, <2>2, <2>3, SumMoved, HolderFinite
  <2> QED
    BY <2>1, <2>4
<1>19. Balanced(x, P, c)
  <2>1. /\ Sum(w.ether) = Sum(Ether) + c
        /\ Sum(w.bal) = w.supply
        /\ Sum(Token) - w.supply = KindTotal(Q, "Unwrap")
        /\ w.ether[Withdrawal] = WEI_PER_E8S * KindTotal(Q, "Withdraw")
    BY <1>10 DEF Balanced
  <2>2. KindTotal(P, "Unwrap") = KindTotal(Q, "Unwrap")
        /\ KindTotal(P, "Withdraw") = KindTotal(Q, "Withdraw") + n
    BY <1>8, <1>11
  <2>3. PICK t \in Int : t = KindTotal(Q, "Withdraw")
    BY <1>11
  <2>4. PICK u \in Int : u = WEI_PER_E8S
    BY WorldAssumption
  <2>5. u * t + u * n = u * (t + n)
    OBVIOUS
  <2>6. x.ether[Withdrawal] = u * t + u * n
    BY <1>7, <1>15, <1>17, <2>1, <2>3, <2>4
  <2>7. x.ether[Withdrawal] = WEI_PER_E8S * KindTotal(P, "Withdraw")
    BY <2>2, <2>3, <2>4, <2>5, <2>6
  <2> QED
    BY <1>17, <1>18, <2>1, <2>2, <2>7 DEF Balanced
<1>20. \A h \in Holder \ (loaded \cup {Withdrawal}) : x.ether[h] = base.ether[h]
  BY <1>10, <1>15, <1>17
<1> QED
  BY <1>6, <1>9, <1>11, <1>19, <1>20 DEF Backed

(* What else a transaction loads does not matter. *)
LEMMA BackedMore ==
    ASSUME NEW w, NEW logs, NEW id, NEW R, NEW loaded, NEW base, NEW c,
           Backed(w, logs, id, R, loaded, base, c), NEW more, loaded \subseteq more
    PROVE  Backed(w, logs, id, R, more, base, c)
  BY DEF Backed

(* A frame that has returns to make: what revm goes back to when the frame *)
(* fails was backed as well.                                               *)
FrameBacked(f, id, R, loaded, base, c) ==
    /\ f.acct \in Account /\ f.acct \in loaded
    /\ Backed(f.w, f.logs, id, R, loaded, base, c)

(* The transaction t, started on the world base with R booked. *)
TxBacked(t, R, base, c) ==
    /\ t.sender \in Account /\ t.sender \in t.loaded /\ FeeRecipient \in t.loaded
    /\ Backed(t.w, t.logs, t.id, R, t.loaded, base, c)
    /\ \A i \in 1..Len(t.frames) : FrameBacked(t.frames[i], t.id, R, t.loaded, base, c)
    /\ t.frames[1].logs = <<>>

(* The fields that hold no trace. *)
SameMoney(u, t) ==
    /\ u.id = t.id /\ u.sender = t.sender /\ u.w = t.w /\ u.logs = t.logs
    /\ u.loaded = t.loaded /\ u.frames = t.frames

LEMMA BackedSame ==
    ASSUME NEW t, NEW u, SameMoney(u, t), NEW R, NEW base, NEW c, TxBacked(t, R, base, c)
    PROVE  TxBacked(u, R, base, c) /\ u.id = t.id
  BY DEF SameMoney, TxBacked

(* Tracing moves no money. *)
LEMMA TraceStartKeeps ==
    ASSUME NEW t, DOMAIN t = TxFields
    PROVE  DOMAIN TraceStart(t) = TxFields /\ SameMoney(TraceStart(t), t)
<1>1. PICK u : u = TraceStart(t)
  OBVIOUS
<1>2. PICK a, b, n, r : u = [t EXCEPT !.children = a, !.paths = b, !.total = n, !.traces = r]
  BY <1>1 DEF TraceStart
<1>3. DOMAIN u = TxFields
  BY <1>2
<1>4. SameMoney(u, t)
  BY <1>2 DEF TxFields, SameMoney
<1> QED
  BY <1>1, <1>3, <1>4

LEMMA TraceEndKeeps ==
    ASSUME NEW t, DOMAIN t = TxFields, NEW end
    PROVE  DOMAIN TraceEnd(t, end) = TxFields /\ SameMoney(TraceEnd(t, end), t)
<1>1. PICK u : u = TraceEnd(t, end)
  OBVIOUS
<1>2. PICK a, b, r : u = [t EXCEPT !.paths = b, !.children = a, !.traces = r]
  BY <1>1 DEF TraceEnd
<1>3. DOMAIN u = TxFields
  BY <1>2
<1>4. SameMoney(u, t)
  BY <1>2 DEF TxFields, SameMoney
<1> QED
  BY <1>1, <1>3, <1>4

LEMMA TraceCallKeeps ==
    ASSUME NEW t, DOMAIN t = TxFields, NEW end
    PROVE  SameMoney(TraceEnd(TraceStart(t), end), t)
<1>1. PICK u : u = TraceStart(t)
  OBVIOUS
<1>2. DOMAIN u = TxFields /\ SameMoney(u, t)
  BY <1>1, TraceStartKeeps
<1>3. SameMoney(TraceEnd(u, end), u)
  BY <1>2, TraceEndKeeps
<1> QED
  BY <1>1, <1>2, <1>3 DEF SameMoney

(* A step that ends in a backed journal and keeps the frames. *)
LEMMA JournalChanged ==
    ASSUME NEW t, NEW R, NEW base, NEW c, TxBacked(t, R, base, c), NEW u,
           u.id = t.id, u.sender = t.sender, t.loaded \subseteq u.loaded,
           u.frames = t.frames, Backed(u.w, u.logs, u.id, R, u.loaded, base, c)
    PROVE  TxBacked(u, R, base, c)
<1>1. ASSUME NEW i \in 1..Len(t.frames)
      PROVE  FrameBacked(t.frames[i], t.id, R, u.loaded, base, c)
  <2>1. PICK f, n, L, M : f = t.frames[i] /\ n = t.id /\ L = t.loaded /\ M = u.loaded
    OBVIOUS
  <2>2. FrameBacked(f, n, R, L, base, c) /\ L \subseteq M
    BY <2>1 DEF TxBacked
  <2>3. PICK v, l : v = f.w /\ l = f.logs
    OBVIOUS
  <2>4. Backed(v, l, n, R, L, base, c)
    BY <2>2, <2>3 DEF FrameBacked
  <2>5. Backed(v, l, n, R, M, base, c)
    BY <2>2, <2>4, BackedMore
  <2>6. FrameBacked(f, n, R, M, base, c)
    BY <2>2, <2>3, <2>5 DEF FrameBacked
  <2> QED
    BY <2>1, <2>6
<1> QED
  BY <1>1 DEF TxBacked

(* A call of a contract: the frame remembers a backed journal. *)
LEMMA EnterBacked ==
    ASSUME TraceInv, NEW R, NEW base, NEW k, TxBacked(tx, R, base, k),
           NEW c \in Account, NEW static, Enter(c, static)
    PROVE  TxBacked(tx', R, base, k) /\ tx'.id = tx.id
<1>1. tx # NoTx
  BY DEF Enter, Step, InTx
<1>2. DOMAIN tx = TxFields /\ IsStack(tx.frames) /\ Len(tx.frames) > 0
  BY <1>1 DEF TraceInv, Traced
<1>3. PICK s : s = (static \/ Top.static)
  OBVIOUS
<1>4. PICK f : f = Frame(c, s)
  OBVIOUS
<1>5. PICK t : /\ t = [tx EXCEPT !.ops = @ + 1, !.loaded = @ \cup {c}, !.frames = Append(@, f)]
               /\ tx' = TraceStart(t)
  BY <1>3, <1>4 DEF Enter
<1>6. /\ DOMAIN t = TxFields /\ t.id = tx.id /\ t.sender = tx.sender /\ t.w = tx.w
      /\ t.logs = tx.logs /\ t.loaded = tx.loaded \cup {c}
      /\ t.frames = Append(tx.frames, f)
  BY <1>2, <1>5 DEF TxFields
<1>7. f.acct = c /\ f.w = tx.w /\ f.logs = tx.logs
  BY <1>4 DEF Frame
<1>8. PICK fs, n, L, M, v, l : /\ fs = tx.frames /\ n = tx.id /\ L = tx.loaded /\ M = t.loaded
                               /\ v = tx.w /\ l = tx.logs
  OBVIOUS
<1>9. L \subseteq M /\ c \in M
  BY <1>6, <1>8
<1>10. Backed(v, l, n, R, M, base, k)
  <2>1. Backed(v, l, n, R, L, base, k)
    BY <1>8 DEF TxBacked
  <2> QED
    BY <1>9, <2>1, BackedMore
<1>11. FrameBacked(f, n, R, M, base, k)
  BY <1>7, <1>8, <1>9, <1>10 DEF FrameBacked
<1>12. ASSUME NEW i \in 1..Len(fs)
       PROVE  FrameBacked(fs[i], n, R, M, base, k)
  <2>1. PICK g : g = fs[i]
    OBVIOUS
  <2>2. FrameBacked(g, n, R, L, base, k)
    BY <1>8, <2>1 DEF TxBacked
  <2>3. PICK w, m : w = g.w /\ m = g.logs
    OBVIOUS
  <2>4. Backed(w, m, n, R, L, base, k)
    BY <2>2, <2>3 DEF FrameBacked
  <2>5. Backed(w, m, n, R, M, base, k)
    BY <1>9, <2>4, BackedMore
  <2> QED
    BY <1>9, <2>1, <2>2, <2>3, <2>5 DEF FrameBacked
<1>13. /\ \A i \in 1..Len(fs) : Append(fs, f)[i] = fs[i]
       /\ Append(fs, f)[Len(fs) + 1] = f
       /\ Len(fs) \in Nat
       /\ 1..Len(Append(fs, f)) = (1..Len(fs)) \cup {Len(fs) + 1}
  <2>1. IsStack(fs)
    BY <1>2, <1>8
  <2> QED
    BY <2>1, StackElements
<1>14. \A i \in 1..Len(t.frames) : FrameBacked(t.frames[i], t.id, R, t.loaded, base, k)
  BY <1>6, <1>8, <1>11, <1>12, <1>13
<1>15. t.frames[1].logs = <<>>
  <2>1. 1 \in 1..Len(fs)
    BY <1>2, <1>8, <1>13
  <2> QED
    BY <1>6, <1>8, <1>13, <2>1 DEF TxBacked
<1>16. TxBacked(t, R, base, k)
  BY <1>6, <1>8, <1>10, <1>14, <1>15 DEF TxBacked
<1>17. SameMoney(tx', t)
  BY <1>5, <1>6, TraceStartKeeps
<1>18. PICK u : u = tx'
  OBVIOUS
<1>19. TxBacked(u, R, base, k) /\ u.id = t.id
  BY <1>16, <1>17, <1>18, BackedSame
<1> QED
  BY <1>6, <1>18, <1>19

(* The frame on top. *)
LEMMA TopBacked ==
    ASSUME TraceInv, tx # NoTx, NEW R, NEW base, NEW k, TxBacked(tx, R, base, k)
    PROVE  FrameBacked(Top, tx.id, R, tx.loaded, base, k)
<1>1. PICK S : tx.frames \in Seq(S)
  BY DEF TraceInv, IsStack
<1>2. Len(tx.frames) > 0
  BY DEF TraceInv
<1>3. Len(tx.frames) \in 1..Len(tx.frames)
  BY <1>1, <1>2
<1> QED
  BY <1>3 DEF TxBacked, Top

(* A frame ends: its journal is the frame's or goes back to what it was. *)
LEMMA LeaveBacked ==
    ASSUME TraceInv, NEW R, NEW base, NEW k, TxBacked(tx, R, base, k),
           NEW ok \in BOOLEAN, Leave(ok)
    PROVE  TxBacked(tx', R, base, k) /\ tx'.id = tx.id
<1>1. tx # NoTx /\ Len(tx.frames) > 1
  BY DEF Leave, InTx
<1>2. DOMAIN tx = TxFields
  BY <1>1 DEF TraceInv, Traced
<1>3. PICK t, v, l, end :
         /\ v = (IF ok THEN tx.w ELSE Top.w) /\ l = (IF ok THEN tx.logs ELSE Top.logs)
         /\ t = [tx EXCEPT !.frames = Front(@), !.w = v, !.logs = l]
         /\ tx' = TraceEnd(t, end)
  BY DEF Leave
<1>4. /\ DOMAIN t = TxFields /\ t.id = tx.id /\ t.sender = tx.sender /\ t.w = v
      /\ t.logs = l /\ t.loaded = tx.loaded
      /\ t.frames = Front(tx.frames)
  BY <1>2, <1>3 DEF TxFields
<1>5. Backed(v, l, tx.id, R, tx.loaded, base, k)
  <2>1. Backed(Top.w, Top.logs, tx.id, R, tx.loaded, base, k)
    BY <1>1, TopBacked DEF FrameBacked
  <2>2. Backed(tx.w, tx.logs, tx.id, R, tx.loaded, base, k)
    BY DEF TxBacked
  <2>3. CASE ok
    BY <1>3, <2>2, <2>3
  <2>4. CASE ~ok
    BY <1>3, <2>1, <2>4
  <2> QED
    BY <2>3, <2>4
<1>6. PICK S : tx.frames \in Seq(S)
  BY <1>1 DEF TraceInv, IsStack
<1>7. PICK fs, n, gs : fs = tx.frames /\ n = Len(fs) /\ gs = Front(fs)
  OBVIOUS
<1>8. /\ n \in Nat /\ n > 1 /\ Len(gs) = n - 1 /\ \A i \in 1..(n - 1) : gs[i] = fs[i]
  <2>1. fs \in Seq(S) /\ fs # <<>>
    BY <1>1, <1>6, <1>7
  <2>2. Len(Front(fs)) = Len(fs) - 1 /\ \A i \in 1..(Len(fs) - 1) : Front(fs)[i] = fs[i]
    BY <2>1, FrontFacts
  <2> QED
    BY <1>1, <1>7, <2>1, <2>2
<1>9. \A i \in 1..Len(gs) : i \in 1..n /\ gs[i] = fs[i]
  BY <1>8
<1>10. 1 \in 1..Len(gs)
  BY <1>8
<1>11. \A i \in 1..Len(t.frames) : FrameBacked(t.frames[i], t.id, R, t.loaded, base, k)
  BY <1>4, <1>7, <1>9 DEF TxBacked
<1>12. t.frames[1].logs = <<>>
  BY <1>4, <1>7, <1>9, <1>10 DEF TxBacked
<1>13. TxBacked(t, R, base, k)
  BY <1>4, <1>5, <1>11, <1>12 DEF TxBacked
<1>14. SameMoney(tx', t)
  BY <1>3, <1>4, TraceEndKeeps
<1>15. PICK u : u = tx'
  OBVIOUS
<1>16. TxBacked(u, R, base, k) /\ u.id = t.id
  BY <1>13, <1>14, <1>15, BackedSame
<1> QED
  BY <1>4, <1>15, <1>16

(* A precompile that leaves a backed journal whenever it succeeds. *)
LEMMA CallBacked ==
    ASSUME TraceInv, tx # NoTx, NEW R, NEW base, NEW k, TxBacked(tx, R, base, k), NEW r,
           r.result = "Return" => Backed(r.j.w, r.j.logs, tx.id, R, tx.loaded, base, k),
           CallPrecompile(r)
    PROVE  TxBacked(tx', R, base, k) /\ tx'.id = tx.id
<1>1. DOMAIN tx = TxFields
  BY DEF TraceInv, Traced
<1>2. PICK t, v, l, end :
         /\ v = (IF r.result = "Return" THEN r.j.w ELSE tx.w)
         /\ l = (IF r.result = "Return" THEN r.j.logs ELSE tx.logs)
         /\ t = [tx EXCEPT !.ops = @ + 1, !.w = v, !.logs = l]
         /\ tx' = TraceEnd(TraceStart(t), end)
  BY DEF CallPrecompile
<1>3. /\ DOMAIN t = TxFields /\ t.id = tx.id /\ t.sender = tx.sender /\ t.w = v
      /\ t.logs = l /\ t.loaded = tx.loaded /\ t.frames = tx.frames
  BY <1>1, <1>2 DEF TxFields
<1>4. Backed(v, l, tx.id, R, tx.loaded, base, k)
  <2>1. Backed(tx.w, tx.logs, tx.id, R, tx.loaded, base, k)
    BY DEF TxBacked
  <2> QED
    BY <1>2, <2>1
<1>5. PICK a : a = tx
  OBVIOUS
<1>6. TxBacked(t, R, base, k)
  <2>1. /\ TxBacked(a, R, base, k) /\ t.id = a.id /\ t.sender = a.sender
        /\ a.loaded \subseteq t.loaded /\ t.frames = a.frames
        /\ Backed(t.w, t.logs, t.id, R, t.loaded, base, k)
    BY <1>3, <1>4, <1>5
  <2> QED
    BY <2>1, JournalChanged
<1>7. PICK u : u = tx'
  OBVIOUS
<1>8. SameMoney(u, t)
  BY <1>2, <1>3, <1>7, TraceCallKeeps
<1>9. TxBacked(u, R, base, k) /\ u.id = t.id
  BY <1>6, <1>8, BackedSame
<1> QED
  BY <1>3, <1>7, <1>9

(* The transaction's journal is that of its own fields. *)
LEMMA JournalIs == Journal = JournalOf(tx.w, tx.logs)
  BY DEF Journal, JournalOf

(* The unwrap precompile. *)
LEMMA CallUnwrapBacked ==
    ASSUME TraceInv, NEW R, tx.id \in Nat, Proper(R, tx.id - 1), NEW base, NEW k,
           TxBacked(tx, R, base, k),
           NEW in \in UnwrapInputs, NEW gas, CallUnwrap(in, gas)
    PROVE  TxBacked(tx', R, base, k) /\ tx'.id = tx.id
<1>1. tx # NoTx
  BY DEF CallUnwrap, Step, InTx
<1>2. PICK r, w, l, n, L, o, s :
         /\ w = tx.w /\ l = tx.logs /\ n = tx.id /\ L = tx.loaded
         /\ o = Top.acct /\ s = Top.static
         /\ r = Unwrap(JournalOf(w, l), o, s, in, gas)
  OBVIOUS
<1>3. CallPrecompile(r)
  BY <1>2, JournalIs DEF CallUnwrap
<1>4. o \in Account
  BY <1>1, <1>2, TopBacked DEF FrameBacked
<1>5. Backed(w, l, n, R, L, base, k) /\ n \in Nat /\ Proper(R, n - 1)
  BY <1>2 DEF TxBacked
<1>6. ASSUME r.result = "Return" PROVE Backed(r.j.w, r.j.logs, n, R, L, base, k)
  BY <1>2, <1>4, <1>5, <1>6, UnwrapBacked
<1>7. r.result = "Return" => Backed(r.j.w, r.j.logs, tx.id, R, tx.loaded, base, k)
  BY <1>2, <1>6
<1> QED
  BY <1>1, <1>3, <1>7, CallBacked

(* The update-intent precompile. *)
LEMMA CallUpdateBacked ==
    ASSUME TraceInv, NEW R, tx.id \in Nat, Proper(R, tx.id - 1), NEW base, NEW k,
           TxBacked(tx, R, base, k),
           NEW in \in UpdateInputs, NEW gas, CallUpdate(in, gas)
    PROVE  TxBacked(tx', R, base, k) /\ tx'.id = tx.id
<1>1. tx # NoTx
  BY DEF CallUpdate, Step, InTx
<1>2. PICK r, w, l, n, L, s :
         /\ w = tx.w /\ l = tx.logs /\ n = tx.id /\ L = tx.loaded
         /\ s = Top.static
         /\ r = Update(JournalOf(w, l), s, in, gas)
  OBVIOUS
<1>3. CallPrecompile(r)
  BY <1>2, JournalIs DEF CallUpdate
<1>5. Backed(w, l, n, R, L, base, k) /\ n \in Nat /\ Proper(R, n - 1)
  BY <1>2 DEF TxBacked
<1>6. ASSUME r.result = "Return" PROVE Backed(r.j.w, r.j.logs, n, R, L, base, k)
  BY <1>2, <1>5, <1>6, UpdateBacked
<1>7. r.result = "Return" => Backed(r.j.w, r.j.logs, tx.id, R, tx.loaded, base, k)
  BY <1>2, <1>6
<1> QED
  BY <1>1, <1>3, <1>7, CallBacked

(* The query precompile, which fails in a transaction. *)
LEMMA CallQueryBacked ==
    ASSUME TraceInv, NEW R, NEW base, NEW k, TxBacked(tx, R, base, k), CallQuery
    PROVE  TxBacked(tx', R, base, k) /\ tx'.id = tx.id
<1>1. tx # NoTx
  BY DEF CallQuery, Step, InTx
<1>2. PICK r : r = Failed(Journal)
  OBVIOUS
<1>3. CallPrecompile(r) /\ r.result # "Return"
  BY <1>2 DEF CallQuery, Failed, Result
<1> QED
  BY <1>1, <1>3, CallBacked

(* The withdrawal precompile. *)
LEMMA CallWithdrawBacked ==
    ASSUME TraceInv, NEW R, tx.id \in Nat, Proper(R, tx.id - 1), NEW base, NEW k,
           TxBacked(tx, R, base, k),
           NEW in \in WithdrawInputs, NEW gas, CallWithdraw(in, gas)
    PROVE  TxBacked(tx', R, base, k) /\ tx'.id = tx.id
<1>1. tx # NoTx
  BY DEF CallWithdraw, Step, InTx
<1>2. DOMAIN tx = TxFields
  BY <1>1 DEF TraceInv, Traced
<1>3. PICK w, l, n, L, o, s :
         /\ w = tx.w /\ l = tx.logs /\ n = tx.id /\ L = tx.loaded
         /\ o = Top.acct /\ s = Top.static
  OBVIOUS
<1>4. PICK paid : paid = [Journal EXCEPT !.w = Locked(@, Top.acct, in.value)]
  OBVIOUS
<1>5. paid = JournalOf(Locked(w, o, in.value), l)
  <2>1. [JournalOf(w, l) EXCEPT !.w = Locked(@, o, in.value)]
          = JournalOf(Locked(w, o, in.value), l)
    BY DEF JournalOf
  <2> QED
    BY <1>3, <1>4, <2>1, JournalIs
<1>6. PICK r : r = Withdraw(paid, s, in, gas)
  OBVIOUS
<1>7. PICK t, v, m, end :
         /\ v = (IF r.result = "Return" THEN r.j.w ELSE tx.w)
         /\ m = (IF r.result = "Return" THEN r.j.logs ELSE tx.logs)
         /\ t = [tx EXCEPT !.loaded = @ \cup {Withdrawal}, !.ops = @ + 1, !.w = v, !.logs = m]
         /\ tx' = TraceEnd(TraceStart(t), end)
  <2>1. r = Withdraw(paid, Top.static, in, gas)
    BY <1>3, <1>6
  <2> QED
    BY <1>4, <2>1 DEF CallWithdraw
<1>8. /\ DOMAIN t = TxFields /\ t.id = tx.id /\ t.sender = tx.sender /\ t.w = v
      /\ t.logs = m /\ t.loaded = tx.loaded \cup {Withdrawal} /\ t.frames = tx.frames
  BY <1>2, <1>7 DEF TxFields
<1>9. o \in Account /\ o \in L
  BY <1>1, <1>3, TopBacked DEF FrameBacked
<1>10. Backed(w, l, n, R, L, base, k) /\ n \in Nat /\ Proper(R, n - 1)
  BY <1>3 DEF TxBacked
<1>11. Backed(v, m, n, R, L \cup {Withdrawal}, base, k)
  <2>1. CASE r.result = "Return"
    <3>1. Backed(r.j.w, r.j.logs, n, R, L \cup {Withdrawal}, base, k)
      BY <1>5, <1>6, <1>9, <1>10, <2>1, WithdrawBacked
    <3> QED
      BY <1>7, <2>1, <3>1
  <2>2. CASE r.result # "Return"
    <3>1. PICK M : M = L \cup {Withdrawal} /\ L \subseteq M
      OBVIOUS
    <3>2. Backed(w, l, n, R, M, base, k)
      BY <1>10, <3>1, BackedMore
    <3> QED
      BY <1>3, <1>7, <2>2, <3>1, <3>2
  <2> QED
    BY <2>1, <2>2
<1>12. PICK a : a = tx
  OBVIOUS
<1>13. TxBacked(t, R, base, k)
  <2>1. /\ TxBacked(a, R, base, k) /\ t.id = a.id /\ t.sender = a.sender
        /\ a.loaded \subseteq t.loaded /\ t.frames = a.frames
        /\ Backed(t.w, t.logs, t.id, R, t.loaded, base, k)
    BY <1>3, <1>8, <1>11, <1>12
  <2> QED
    BY <2>1, JournalChanged
<1>14. PICK u : u = tx'
  OBVIOUS
<1>15. SameMoney(u, t)
  BY <1>7, <1>8, <1>14, TraceCallKeeps
<1>16. TxBacked(u, R, base, k) /\ u.id = t.id
  BY <1>13, <1>15, BackedSame
<1> QED
  BY <1>8, <1>14, <1>16

(* A transaction starts on what its block has come to. *)
LEMMA StartBacked ==
    ASSUME NEW R, started \in Nat, NEW k, Balanced(cache, R, k),
           NEW a \in Account, NEW c \in Account, StartTx(a, c)
    PROVE  TxBacked(tx', R, cache, k) /\ tx'.id = started + 1
<1>1. PICK t : /\ t = [id |-> started + 1, sender |-> a, w |-> cache, logs |-> <<>>,
                       loaded |-> {a, c, FeeRecipient}, ops |-> 0,
                       frames |-> <<[acct |-> c, static |-> FALSE, w |-> cache,
                                     logs |-> <<>>]>>,
                       children |-> <<0>>, paths |-> <<>>, traces |-> <<>>, total |-> 0]
               /\ tx' = TraceStart(t)
  BY DEF StartTx
<1>2. PICK w, n, L : w = cache /\ n = started + 1 /\ L = {a, c, FeeRecipient}
  OBVIOUS
<1>3. /\ DOMAIN t = TxFields /\ t.id = n /\ t.sender = a /\ t.w = w
      /\ t.logs = <<>> /\ t.loaded = L
      /\ t.frames = <<[acct |-> c, static |-> FALSE, w |-> w, logs |-> <<>>]>>
  BY <1>1, <1>2 DEF TxFields
<1>4. Backed(w, <<>>, n, R, L, w, k)
  <2>1. IsFiniteSet({})
    BY FS_EmptySet
  <2>2. Proper({}, n)
    BY <2>1 DEF Proper
  <2>3. Balanced(w, R \cup {}, k)
    <3>1. R \cup {} = R
      OBVIOUS
    <3> QED
      BY <1>2, <3>1
  <2> QED
    BY <2>2, <2>3, NoLogsNoRequests, EmptyIsStack DEF Backed
<1>5. PICK f : f = [acct |-> c, static |-> FALSE, w |-> w, logs |-> <<>>]
  OBVIOUS
<1>6. f.acct = c /\ f.w = w /\ f.logs = <<>>
  BY <1>5
<1>7. t.frames = <<f>> /\ Len(t.frames) = 1 /\ t.frames[1] = f
  BY <1>3, <1>5
<1>8. FrameBacked(f, n, R, L, w, k)
  BY <1>2, <1>4, <1>6 DEF FrameBacked
<1>9. \A i \in 1..Len(t.frames) : FrameBacked(t.frames[i], n, R, L, w, k)
  BY <1>7, <1>8
<1>10. TxBacked(t, R, w, k)
  BY <1>2, <1>3, <1>4, <1>6, <1>7, <1>9 DEF TxBacked
<1>11. PICK u : u = tx'
  OBVIOUS
<1>12. SameMoney(u, t)
  BY <1>1, <1>3, <1>11, TraceStartKeeps
<1>13. TxBacked(u, R, w, k) /\ u.id = t.id
  BY <1>10, <1>12, BackedSame
<1> QED
  BY <1>2, <1>3, <1>11, <1>13

(* The base fee: it leaves the sender and reaches the recipient. *)
FeeTaken(w, sender) == [w EXCEPT !.ether[sender] = @ - BaseFee]

(* A transaction pays its fee from a loaded account to a loaded account. *)
LEMMA FeeBacked ==
    ASSUME NEW id, NEW R, NEW w, NEW logs, NEW loaded, NEW base, NEW c,
           Backed(w, logs, id, R, loaded, base, c), NEW s \in Account, s \in loaded,
           FeeRecipient \in loaded, NEW v, v = BaseFeePaid(FeeTaken(w, s))
    PROVE  Backed(v, logs, id, R, loaded, base, c)
<1>1. PICK Q : Q = R \cup RequestsOf(id, logs)
  OBVIOUS
<1>2. Balanced(w, Q, c) /\ \A h \in Holder \ loaded : w.ether[h] = base.ether[h]
  BY <1>1 DEF Backed
<1>3. w \in World
  BY <1>2 DEF Balanced
<1>4. /\ DOMAIN w = {"ether", "bal", "allow", "supply"}
      /\ w.ether \in [Holder -> Int] /\ w.bal \in [Account -> Int]
      /\ w.allow \in [Account -> Int \cup {Unlimited}] /\ w.supply \in Int
  BY <1>3, WorldFields
<1>5. s \in Holder /\ FeeRecipient \in Holder /\ s # FeeRecipient
      /\ Withdrawal \in Holder /\ Withdrawal # s /\ Withdrawal # FeeRecipient
  BY WorldAssumption DEF Holder
<1>6. PICK b \in Int : b = BaseFee
  BY WorldAssumption
<1>7. PICK u : u = FeeTaken(w, s)
  OBVIOUS
<1>8. PICK f \in [Holder -> Int] : f = w.ether
  BY <1>4
<1>9. PICK e : e = [f EXCEPT ![s] = f[s] - b]
  OBVIOUS
<1>10. DOMAIN u = DOMAIN w /\ u.ether = e /\ u.bal = w.bal /\ u.allow = w.allow
       /\ u.supply = w.supply
  BY <1>4, <1>6, <1>7, <1>8, <1>9 DEF FeeTaken
<1>11. e \in [Holder -> Int] /\ e[s] = f[s] - b /\ \A y \in Holder \ {s} : e[y] = f[y]
  BY <1>5, <1>9
<1>12. PICK g : g = [e EXCEPT ![FeeRecipient] = e[FeeRecipient] + b]
  OBVIOUS
<1>13. v = [u EXCEPT !.ether[FeeRecipient] = @ + BaseFee]
  BY <1>7 DEF BaseFeePaid
<1>14. DOMAIN v = DOMAIN w /\ v.ether = g /\ v.bal = w.bal /\ v.allow = w.allow
       /\ v.supply = w.supply
  BY <1>4, <1>6, <1>10, <1>12, <1>13
<1>15. /\ g \in [Holder -> Int] /\ g[s] = f[s] - b /\ g[FeeRecipient] = f[FeeRecipient] + b
       /\ \A y \in Holder \ {s, FeeRecipient} : g[y] = f[y]
  BY <1>5, <1>11, <1>12
<1>16. v = [ether |-> g, bal |-> w.bal, allow |-> w.allow, supply |-> w.supply]
  <2>1. v = [x \in DOMAIN v |-> v[x]]
    BY <1>10, <1>13
  <2> QED
    BY <1>4, <1>14, <2>1
<1>17. v \in World
  BY <1>4, <1>15, <1>16 DEF World
<1>18. Sum(g) = Sum(f)
  BY <1>5, <1>15, SumMoved, HolderFinite
<1>19. g[Withdrawal] = f[Withdrawal]
  BY <1>5, <1>15
<1>20. Balanced(v, Q, c)
  BY <1>2, <1>8, <1>14, <1>17, <1>18, <1>19 DEF Balanced
<1>21. \A h \in Holder \ loaded : v.ether[h] = base.ether[h]
  BY <1>2, <1>8, <1>14, <1>15
<1> QED
  BY <1>1, <1>20, <1>21 DEF Backed

(* What a transaction ends with, success or failure. *)
LEMMA OutcomeBacked ==
    ASSUME TraceInv, tx # NoTx, NEW R, NEW base, NEW k, TxBacked(tx, R, base, k),
           NEW ok \in BOOLEAN, NEW v, v = Outcome(ok), NEW logs,
           logs = IF ok THEN tx.logs ELSE <<>>
    PROVE  Backed(v, logs, tx.id, R, tx.loaded, base, k)
<1>1. PICK w : w = IF ok THEN tx.w ELSE tx.frames[1].w
  OBVIOUS
<1>2. Backed(w, logs, tx.id, R, tx.loaded, base, k)
  <2>1. Backed(tx.w, tx.logs, tx.id, R, tx.loaded, base, k)
    BY DEF TxBacked
  <2>2. 1 \in 1..Len(tx.frames)
    <3>1. PICK S : tx.frames \in Seq(S)
      BY DEF TraceInv, IsStack
    <3>2. Len(tx.frames) > 0
      BY DEF TraceInv
    <3> QED
      BY <3>1, <3>2
  <2>3. Backed(tx.frames[1].w, <<>>, tx.id, R, tx.loaded, base, k)
    BY <2>2 DEF TxBacked, FrameBacked
  <2>4. CASE ok
    BY <1>1, <2>1, <2>4
  <2>5. CASE ~ok
    BY <1>1, <2>3, <2>5
  <2> QED
    BY <2>4, <2>5
<1>3. v = BaseFeePaid(FeeTaken(w, tx.sender))
  BY <1>1 DEF Outcome, FeeTaken
<1>4. PICK n, L, s : n = tx.id /\ L = tx.loaded /\ s = tx.sender
  OBVIOUS
<1>5. s \in Account /\ s \in L /\ FeeRecipient \in L
  BY <1>4 DEF TxBacked
<1>6. Backed(v, logs, n, R, L, base, k)
  BY <1>2, <1>3, <1>4, <1>5, FeeBacked
<1> QED
  BY <1>4, <1>6

(* Committing a diff to the world it was taken from gives the outcome. *)
LEMMA CommitIs ==
    ASSUME NEW base \in World, NEW v \in World, NEW loaded,
           \A h \in Holder \ loaded : v.ether[h] = base.ether[h],
           NEW d, d.loaded = loaded, d.before = base, d.after = v
    PROVE  Commit(base, d) = v
<1>1. /\ DOMAIN v = {"ether", "bal", "allow", "supply"}
      /\ v.ether \in [Holder -> Int] /\ v.bal \in [Account -> Int]
      /\ v.allow \in [Account -> Int \cup {Unlimited}] /\ v.supply \in Int
  BY WorldFields
<1>2. /\ base.ether \in [Holder -> Int] /\ base.bal \in [Account -> Int]
      /\ base.allow \in [Account -> Int \cup {Unlimited}] /\ base.supply \in Int
  BY WorldFields
<1>3. [a \in Holder |-> IF a \in d.loaded THEN d.after.ether[a] ELSE base.ether[a]] = v.ether
  BY <1>1, <1>2
<1>4. [a \in Account |-> IF d.after.bal[a] # d.before.bal[a]
                         THEN d.after.bal[a] ELSE base.bal[a]] = v.bal
  BY <1>1, <1>2
<1>5. [a \in Account |-> IF d.after.allow[a] # d.before.allow[a]
                         THEN d.after.allow[a] ELSE base.allow[a]] = v.allow
  BY <1>1, <1>2
<1>6. (IF d.after.supply # d.before.supply THEN d.after.supply ELSE base.supply) = v.supply
  OBVIOUS
<1>7. v = [ether |-> v.ether, bal |-> v.bal, allow |-> v.allow, supply |-> v.supply]
  BY DEF World
<1> QED
  BY <1>3, <1>4, <1>5, <1>6, <1>7 DEF Commit

(* What the block has come to: the results staged so far, committed to the *)
(* stable state, and the requests they will become.                        *)
Diffs(s) == [i \in 1..Len(s) |-> s[i].diff]
Staged == CommitAll(db, Diffs(staged))
Booked == requests \cup Recorded(staged)

(* The last transaction that may have requests booked. *)
LastEnded == IF tx = NoTx THEN started ELSE started - 1

(* The stable state has paid for the requests on record, the block's       *)
(* results have paid for theirs, and the transaction under execution is    *)
(* backed at every frame it may still go back to.                          *)
MoneyInv ==
    /\ started \in Nat /\ credited \in Nat
    /\ IsStack(staged)
    /\ \A i \in 1..Len(staged) : IsDiff(staged[i].diff)
    /\ Proper(Booked, LastEnded)
    /\ Balanced(db, requests, credited)
    /\ Balanced(Staged, Booked, credited)
    /\ ~producing => tx = NoTx /\ staged = <<>>
    /\ tx # NoTx => /\ tx.id = started
                    /\ cache = Staged
                    /\ TxBacked(tx, Booked, cache, credited)

(* A block without results leaves the state as it is. *)
LEMMA NothingStaged ==
    ASSUME NEW w \in World, NEW s, s = <<>>
    PROVE  CommitAll(w, Diffs(s)) = w
<1>1. Len(s) = 0
  OBVIOUS
<1>2. PICK ds : ds = Diffs(s)
  OBVIOUS
<1>3. DOMAIN ds = 1..0
  BY <1>1, <1>2 DEF Diffs
<1> QED
  BY <1>2, <1>3, CommitAllNone

(* Later transactions may have requests as well. *)
LEMMA ProperLater ==
    ASSUME NEW R, NEW m \in Int, NEW n \in Int, m <= n, Proper(R, m)
    PROVE  Proper(R, n)
  BY DEF Proper

(* The requests of two sets. *)
LEMMA ProperUnion ==
    ASSUME NEW R, NEW Q, NEW n, Proper(R, n), Proper(Q, n)
    PROVE  Proper(R \cup Q, n)
  BY FS_Union DEF Proper

(* A step inside a transaction. *)
LEMMA InTxKeeps ==
    ASSUME MoneyInv, tx # NoTx,
           UNCHANGED <<db, cache, staged, producing, started, requests, credited>>,
           tx' # NoTx => TxBacked(tx', Booked, cache, credited) /\ tx'.id = tx.id
    PROVE  MoneyInv'
<1>1. Booked' = Booked /\ Staged' = Staged
  BY DEF Booked, Staged
<1>2. producing' /\ started' \in Nat /\ credited' \in Nat /\ IsStack(staged')
      /\ (\A i \in 1..Len(staged') : IsDiff(staged'[i].diff))
  BY DEF MoneyInv
<1>3. Proper(Booked', LastEnded')
  <2>1. PICK R, m : R = Booked /\ m = started
    OBVIOUS
  <2>2. m \in Nat /\ Proper(R, m - 1)
    BY <2>1 DEF MoneyInv, LastEnded
  <2>3. Proper(R, m)
    BY <2>2, ProperLater
  <2> QED
    BY <1>1, <2>1, <2>2, <2>3 DEF LastEnded
<1>4. Balanced(db, requests, credited)' /\ Balanced(Staged, Booked, credited)'
  BY <1>1 DEF MoneyInv
<1>5. tx' # NoTx => /\ tx'.id = started'
                    /\ cache' = Staged'
                    /\ TxBacked(tx', Booked', cache', credited')
  BY <1>1 DEF MoneyInv
<1> QED
  BY <1>1, <1>2, <1>3, <1>4, <1>5 DEF MoneyInv

(* Init: nobody has asked for anything. *)
LEMMA FirstWei ==
    ASSUME NEW e, e = [a \in Holder |-> IF a \in Account THEN Ether[a] ELSE 0]
    PROVE  e \in [Holder -> Int] /\ Sum(e) = Sum(Ether) /\ e[Withdrawal] = 0
<1>1. /\ e \in [Holder -> Int] /\ DOMAIN e = Holder /\ \A a \in Account : e[a] = Ether[a]
      /\ \A a \in Holder : e[a] \in Int
  BY WorldAssumption DEF Holder
<1>2. e[Withdrawal] = 0 /\ e[FeeRecipient] = 0
  BY WorldAssumption DEF Holder
<1>3. PICK H, A : H = Holder /\ A = Account
  OBVIOUS
<1>4. IsFiniteSet(H) /\ IsFiniteSet(A)
  BY <1>3, HolderFinite
<1>5. Withdrawal \in H /\ FeeRecipient \in H \ {Withdrawal}
      /\ (H \ {Withdrawal}) \ {FeeRecipient} = A
  BY <1>3, WorldAssumption DEF Holder
<1>6. PICK B : B = H \ {Withdrawal}
  OBVIOUS
<1>7. IsFiniteSet(B) /\ \A y \in B : e[y] \in Int
  BY <1>1, <1>3, <1>4, <1>6, FS_RemoveElement
<1>8. SumFunctionOnSet(e, H) = e[Withdrawal] + SumFunctionOnSet(e, H \ {Withdrawal})
  BY <1>1, <1>3, <1>4, <1>5, SumOut
<1>9. SumFunctionOnSet(e, B) = e[FeeRecipient] + SumFunctionOnSet(e, B \ {FeeRecipient})
  <2>1. FeeRecipient \in B
    BY <1>5, <1>6
  <2> QED
    BY <1>7, <2>1, SumOut
<1>10. \A x \in A : Ether[x] \in Int /\ e[x] = Ether[x]
  BY <1>1, <1>3, WorldAssumption
<1>11. SumFunctionOnSet(e, A) = SumFunctionOnSet(Ether, A)
  BY <1>4, <1>10, SumSame
<1>12. PICK z \in Int : z = SumFunctionOnSet(Ether, A)
  BY <1>4, <1>10, SumInt
<1>13. SumFunctionOnSet(e, H) = 0 + (0 + z)
  BY <1>2, <1>5, <1>6, <1>8, <1>9, <1>11, <1>12
<1>14. DOMAIN Ether = A /\ DOMAIN e = H
  BY <1>1, <1>3, WorldAssumption
<1>15. Sum(e) = SumFunctionOnSet(e, H) /\ Sum(Ether) = SumFunctionOnSet(Ether, A)
  BY <1>14, SumIs
<1> QED
  BY <1>1, <1>2, <1>12, <1>13, <1>15

LEMMA MoneyInit == Init => MoneyInv
<1> SUFFICES ASSUME Init PROVE MoneyInv
  OBVIOUS
<1>1. staged = <<>> /\ requests = {} /\ credited = 0 /\ started = 0 /\ tx = NoTx
  BY DEF Init
<1>2. PICK e : e = [a \in Holder |-> IF a \in Account THEN Ether[a] ELSE 0]
  OBVIOUS
<1>3. db = [ether |-> e, bal |-> Token, allow |-> Allowance, supply |-> Sum(Token)]
  BY <1>2 DEF Init
<1>4. e \in [Holder -> Int] /\ Sum(e) = Sum(Ether) /\ e[Withdrawal] = 0
  BY <1>2, FirstWei
<1>5. Sum(Token) \in Int /\ Sum(Ether) \in Int
  BY FirstSums
<1>6. Token \in [Account -> Int] /\ Allowance \in [Account -> Int \cup {Unlimited}]
  BY WorldAssumption
<1>7. db \in World
  BY <1>3, <1>4, <1>5, <1>6 DEF World
<1>8. Balanced(db, {}, 0)
  <2>1. KindTotal({}, "Unwrap") = 0 /\ KindTotal({}, "Withdraw") = 0
    BY KindTotalEmpty
  <2>2. PICK u \in Int : u = WEI_PER_E8S
    BY WorldAssumption
  <2>3. u * 0 = 0
    BY <2>2
  <2>4. Sum(db.ether) = Sum(Ether) + 0 /\ Sum(db.bal) = db.supply
        /\ Sum(Token) - db.supply = 0 /\ db.ether[Withdrawal] = 0
    BY <1>3, <1>4, <1>5
  <2> QED
    BY <1>7, <2>1, <2>2, <2>3, <2>4 DEF Balanced
<1>9. Staged = db
  BY <1>1, <1>7, NothingStaged DEF Staged
<1>10. Booked = {}
  BY <1>1, NoneRecorded DEF Booked
<1>11. Proper({}, 0)
  BY FS_EmptySet DEF Proper
<1>12. IsStack(staged) /\ \A i \in 1..Len(staged) : IsDiff(staged[i].diff)
  <2>1. 1..Len(<<>>) = {}
    OBVIOUS
  <2> QED
    BY <1>1, <2>1, EmptyIsStack
<1> QED
  BY <1>1, <1>8, <1>9, <1>10, <1>11, <1>12 DEF MoneyInv, LastEnded

(* A transaction ends: its result is staged as it was committed to the     *)
(* block's cache.                                                          *)
LEMMA EndTxKeeps ==
    ASSUME MoneyInv, TraceInv, NEW ok \in BOOLEAN, EndTx(ok)
    PROVE  MoneyInv' /\ cache' = Staged'
<1>0. tx # NoTx /\ tx' = NoTx
      /\ UNCHANGED <<db, producing, started, requests, credited>>
  BY DEF EndTx
<1>1. PICK v, logs : v = Outcome(ok) /\ logs = IF ok THEN tx.logs ELSE <<>>
  OBVIOUS
<1>2. PICK R, base, k, n, L : /\ R = Booked /\ base = cache /\ k = credited /\ n = started
                              /\ L = tx.loaded
  OBVIOUS
<1>3. /\ n \in Nat /\ k \in Nat /\ Proper(R, n - 1) /\ Balanced(base, R, k)
      /\ tx.id = n /\ base = Staged /\ TxBacked(tx, R, base, k)
  BY <1>0, <1>2 DEF MoneyInv, LastEnded
<1>4. Backed(v, logs, n, R, L, base, k)
  <2>1. Backed(v, logs, tx.id, R, tx.loaded, base, k)
    BY <1>0, <1>1, <1>3, OutcomeBacked
  <2> QED
    BY <1>2, <1>3, <2>1
<1>5. PICK d : d = Diff(base, v)
  OBVIOUS
<1>6. d.loaded = L /\ d.before = base /\ d.after = v
  BY <1>2, <1>5 DEF Diff
<1>7. PICK x : x = [id |-> tx.id, diff |-> d, logs |-> logs]
  OBVIOUS
<1>8. x.id = n /\ x.diff = d /\ x.logs = logs
  BY <1>3, <1>7
<1>9. cache' = Commit(base, d) /\ staged' = Append(staged, x)
  BY <1>1, <1>2, <1>5, <1>7 DEF EndTx
<1>10. PICK Q : Q = R \cup RequestsOf(n, logs)
  OBVIOUS
<1>11. Proper(RequestsOf(n, logs), n) /\ Balanced(v, Q, k)
       /\ \A h \in Holder \ L : v.ether[h] = base.ether[h]
  BY <1>4, <1>10 DEF Backed
<1>12. base \in World /\ v \in World /\ IsDiff(d)
  BY <1>3, <1>6, <1>11 DEF Balanced, IsDiff
<1>13. Commit(base, d) = v
  BY <1>6, <1>11, <1>12, CommitIs
<1>14. PICK s : s = staged
  OBVIOUS
<1>15. IsStack(s) /\ \A i \in 1..Len(s) : IsDiff(s[i].diff)
  BY <1>14 DEF MoneyInv
<1>16. PICK t : t = Append(s, x)
  OBVIOUS
<1>17. /\ \A i \in 1..Len(s) : t[i] = s[i]
       /\ t[Len(s) + 1] = x
       /\ Len(s) \in Nat
       /\ 1..Len(t) = (1..Len(s)) \cup {Len(s) + 1}
  BY <1>15, <1>16, StackElements
<1>18. IsStack(t) /\ Len(t) = Len(s) + 1
  BY <1>15, <1>16, StackPushed
<1>19. \A i \in 1..Len(t) : IsDiff(t[i].diff)
  BY <1>8, <1>12, <1>15, <1>17
<1>20. PICK m \in Nat : m = Len(s)
  BY <1>17
<1>21. PICK ds, es : ds = Diffs(s) /\ es = Diffs(t)
  OBVIOUS
<1>22. /\ DOMAIN ds = 1..m /\ DOMAIN es = 1..(m + 1)
       /\ \A i \in 1..m : ds[i] = s[i].diff
       /\ \A i \in 1..(m + 1) : es[i] = t[i].diff
  BY <1>18, <1>20, <1>21 DEF Diffs
<1>23. /\ \A i \in 1..m : es[i] = ds[i]
       /\ es[m + 1] = d
       /\ \A i \in 1..(m + 1) : IsDiff(es[i])
  <2>1. 1..m \subseteq 1..(m + 1) /\ m + 1 \in 1..(m + 1)
    OBVIOUS
  <2>2. \A i \in 1..m : es[i] = ds[i]
    BY <1>17, <1>20, <1>22, <2>1
  <2>3. es[m + 1] = d
    BY <1>8, <1>17, <1>20, <1>22, <2>1
  <2>4. \A i \in 1..(m + 1) : IsDiff(es[i])
    BY <1>18, <1>19, <1>20, <1>22
  <2> QED
    BY <2>2, <2>3, <2>4
<1>24. PICK w \in World : w = db
  BY DEF MoneyInv, Balanced
<1>25. CommitAll(w, es) = Commit(CommitAll(w, ds), es[m + 1])
  BY <1>22, <1>23, CommitAllMore
<1>26. Staged' = v
  <2>1. CommitAll(w, ds) = base
    BY <1>3, <1>14, <1>21, <1>24 DEF Staged
  <2>2. Staged' = CommitAll(w, es)
    BY <1>0, <1>9, <1>14, <1>16, <1>21, <1>24 DEF Staged
  <2> QED
    BY <1>13, <1>23, <1>25, <2>1, <2>2
<1>27. Booked' = Q
  <2>1. Recorded(t) = Recorded(s) \cup RequestsOf(x.id, x.logs)
    BY <1>15, <1>16, RecordedAppend
  <2>2. Booked' = requests \cup Recorded(t)
    BY <1>0, <1>9, <1>14, <1>16 DEF Booked
  <2>3. R = requests \cup Recorded(s)
    BY <1>2, <1>14 DEF Booked
  <2> QED
    BY <1>8, <1>10, <2>1, <2>2, <2>3
<1>28. Proper(Q, n)
  <2>1. Proper(R, n)
    BY <1>3, ProperLater
  <2> QED
    BY <1>10, <1>11, <2>1, ProperUnion
<1>29. producing' /\ started' = n /\ credited' = k
  BY <1>0, <1>2 DEF MoneyInv
<1>30. Balanced(db', requests', credited')
  BY <1>0 DEF MoneyInv
<1>31. /\ IsStack(staged') /\ \A i \in 1..Len(staged') : IsDiff(staged'[i].diff)
  BY <1>9, <1>14, <1>16, <1>18, <1>19
<1>32. Proper(Booked', LastEnded') /\ Balanced(Staged', Booked', credited')
  BY <1>0, <1>11, <1>26, <1>27, <1>28, <1>29 DEF LastEnded
<1>33. cache' = Staged'
  BY <1>9, <1>13, <1>26
<1> QED
  BY <1>0, <1>3, <1>29, <1>30, <1>31, <1>32, <1>33 DEF MoneyInv

(* Steps that touch neither the state nor the block's results. *)
LEMMA AsideKeeps ==
    ASSUME MoneyInv, tx = NoTx, UNCHANGED <<db, staged, tx, started, requests, credited>>,
           producing' = producing \/ producing'
    PROVE  MoneyInv'
<1>1. Booked' = Booked /\ Staged' = Staged /\ LastEnded' = LastEnded
  BY DEF Booked, Staged, LastEnded
<1> QED
  BY <1>1 DEF MoneyInv

(* A transaction starts on the results staged so far. *)
LEMMA StartKeeps ==
    ASSUME MoneyInv, NEW a \in Account, NEW c \in Account, StartTx(a, c),
           tx' # NoTx => cache = Staged
    PROVE  MoneyInv'
<1>1. tx = NoTx /\ producing /\ started' = started + 1
      /\ UNCHANGED <<db, cache, staged, producing, requests, credited>>
  BY DEF StartTx
<1>2. Booked' = Booked /\ Staged' = Staged
  BY <1>1 DEF Booked, Staged
<1>3. started \in Nat /\ Proper(Booked, started) /\ Balanced(Staged, Booked, credited)
  BY <1>1 DEF MoneyInv, LastEnded
<1>4. PICK R, k, n : R = Booked /\ k = credited /\ n = started
  OBVIOUS
<1>5. ASSUME tx' # NoTx
      PROVE  tx'.id = started' /\ cache' = Staged' /\ TxBacked(tx', Booked', cache', credited')
  <2>1. Balanced(cache, R, k)
    BY <1>3, <1>4, <1>5
  <2>2. TxBacked(tx', R, cache, k) /\ tx'.id = started + 1
    BY <1>3, <2>1, StartBacked
  <2> QED
    BY <1>1, <1>2, <1>4, <1>5, <2>2
<1>6. Proper(Booked', LastEnded')
  <2>1. n \in Nat /\ Proper(R, n) /\ n + 1 - 1 = n
    BY <1>3, <1>4
  <2>2. Proper(R, n + 1)
    BY <2>1, ProperLater
  <2> QED
    BY <1>1, <1>2, <1>4, <2>1, <2>2 DEF LastEnded
<1>7. started' \in Nat /\ credited' \in Nat /\ IsStack(staged')
      /\ (\A i \in 1..Len(staged') : IsDiff(staged'[i].diff))
  BY <1>1 DEF MoneyInv
<1>8. Balanced(db', requests', credited') /\ Balanced(Staged', Booked', credited')
  BY <1>1, <1>2 DEF MoneyInv
<1> QED
  BY <1>1, <1>5, <1>6, <1>7, <1>8 DEF MoneyInv

(* The block is sealed: its results reach the state with their requests. *)
LEMMA SealKeeps ==
    ASSUME MoneyInv, SealBlock
    PROVE  MoneyInv'
<1>1. tx = NoTx /\ tx' = NoTx /\ staged' = <<>> /\ UNCHANGED <<started, credited>>
  BY DEF SealBlock
<1>2. Balanced(db', Booked, credited) /\ requests' = Booked
  <2>1. CASE staged = <<>>
    <3>1. db' = db /\ requests' = requests
      BY <2>1 DEF SealBlock
    <3>2. Booked = requests \cup {}
      BY <2>1, NoneRecorded DEF Booked
    <3> QED
      BY <3>1, <3>2 DEF MoneyInv
  <2>2. CASE staged # <<>>
    <3>1. db' = Staged /\ requests' = Booked
      BY <2>2 DEF SealBlock, Staged, Booked, CommitAll, Diffs
    <3> QED
      BY <3>1 DEF MoneyInv
  <2> QED
    BY <2>1, <2>2
<1>3. Booked' = Booked
  <2>1. Booked' = requests' \cup {}
    BY <1>1, NoneRecorded DEF Booked
  <2> QED
    BY <1>2, <2>1
<1>4. Staged' = db'
  <2>1. PICK w, s : w = db' /\ s = staged'
    OBVIOUS
  <2>2. w \in World /\ s = <<>>
    BY <1>1, <1>2, <2>1 DEF Balanced
  <2>3. CommitAll(w, Diffs(s)) = w
    BY <2>2, NothingStaged
  <2> QED
    BY <2>1, <2>3 DEF Staged
<1>5. IsStack(staged') /\ \A i \in 1..Len(staged') : IsDiff(staged'[i].diff)
  <2>1. 1..Len(<<>>) = {}
    OBVIOUS
  <2> QED
    BY <1>1, <2>1, EmptyIsStack
<1>6. Proper(Booked', LastEnded')
  BY <1>1, <1>3 DEF MoneyInv, LastEnded
<1>7. Balanced(db', requests', credited') /\ Balanced(Staged', Booked', credited')
  BY <1>1, <1>2, <1>3, <1>4
<1>8. started' \in Nat /\ credited' \in Nat
  BY <1>1 DEF MoneyInv
<1> QED
  BY <1>1, <1>5, <1>6, <1>7, <1>8 DEF MoneyInv

(* A deposit adds what it has credited. *)
LEMMA CreditKeeps ==
    ASSUME MoneyInv, NEW a \in Account, CreditDeposit(a)
    PROVE  MoneyInv'
<1>1. /\ ~producing /\ credited' = credited + 1 /\ db' = [db EXCEPT !.ether[a] = @ + 1]
      /\ UNCHANGED <<staged, tx, producing, started, requests>>
  BY DEF CreditDeposit, block
<1>2. tx = NoTx /\ staged = <<>> /\ tx' = NoTx /\ staged' = <<>>
  BY <1>1 DEF MoneyInv
<1>3. PICK w, k, R : w = db /\ k = credited /\ R = requests
  OBVIOUS
<1>4. k \in Nat /\ Balanced(w, R, k) /\ w \in World
  BY <1>3 DEF MoneyInv, Balanced
<1>5. /\ DOMAIN w = {"ether", "bal", "allow", "supply"}
      /\ w.ether \in [Holder -> Int] /\ w.bal \in [Account -> Int]
      /\ w.allow \in [Account -> Int \cup {Unlimited}] /\ w.supply \in Int
  BY <1>4, WorldFields
<1>6. PICK f \in [Holder -> Int] : f = w.ether
  BY <1>5
<1>7. PICK e : e = [f EXCEPT ![a] = f[a] + 1]
  OBVIOUS
<1>8. a \in Holder /\ Withdrawal \in Holder /\ Withdrawal # a
  BY WorldAssumption DEF Holder
<1>9. e \in [Holder -> Int] /\ e[a] = f[a] + 1 /\ e[Withdrawal] = f[Withdrawal]
      /\ \A y \in Holder \ {a} : e[y] = f[y]
  BY <1>7, <1>8
<1>10. PICK v : v = [w EXCEPT !.ether[a] = @ + 1]
  OBVIOUS
<1>11. DOMAIN v = DOMAIN w /\ v.ether = e /\ v.bal = w.bal /\ v.allow = w.allow
       /\ v.supply = w.supply
  BY <1>5, <1>6, <1>7, <1>10
<1>12. v = [ether |-> e, bal |-> w.bal, allow |-> w.allow, supply |-> w.supply]
  <2>1. v = [x \in DOMAIN v |-> v[x]]
    BY <1>10
  <2> QED
    BY <1>5, <1>11, <2>1
<1>13. v \in World
  BY <1>5, <1>9, <1>12 DEF World
<1>14. Sum(e) = Sum(f) + 1
  <2>1. Sum(f) \in Int /\ Sum(e) = (Sum(f) - f[a]) + e[a]
    BY <1>8, <1>9, SumAfter, HolderFinite
  <2>2. PICK x \in Int : x = f[a]
    BY <1>8
  <2>3. PICK y \in Int : y = Sum(f)
    BY <2>1
  <2>4. (y - x) + (x + 1) = y + 1
    OBVIOUS
  <2> QED
    BY <1>9, <2>1, <2>2, <2>3, <2>4
<1>15. Balanced(v, R, k + 1)
  <2>1. /\ Sum(w.ether) = Sum(Ether) + k
        /\ Sum(w.bal) = w.supply
        /\ Sum(Token) - w.supply = KindTotal(R, "Unwrap")
        /\ w.ether[Withdrawal] = WEI_PER_E8S * KindTotal(R, "Withdraw")
    BY <1>4 DEF Balanced
  <2>2. PICK x \in Int : x = Sum(Ether)
    BY FirstSums
  <2>3. (x + k) + 1 = x + (k + 1)
    BY <1>4
  <2>4. Sum(v.ether) = Sum(Ether) + (k + 1)
    BY <1>6, <1>11, <1>14, <2>1, <2>2, <2>3
  <2> QED
    BY <1>6, <1>9, <1>11, <1>13, <2>1, <2>4 DEF Balanced
<1>16. db' = v /\ requests' = R /\ credited' = k + 1
  BY <1>1, <1>3, <1>10
<1>17. Booked' = R /\ Booked = R
  <2>1. R \cup {} = R
    OBVIOUS
  <2> QED
    BY <1>2, <1>3, <1>16, <2>1, NoneRecorded DEF Booked
<1>18. Staged' = v
  <2>1. PICK s : s = staged'
    OBVIOUS
  <2>2. CommitAll(v, Diffs(s)) = v
    BY <1>2, <1>13, <2>1, NothingStaged
  <2> QED
    BY <1>16, <2>1, <2>2 DEF Staged
<1>19. Proper(Booked', LastEnded')
  BY <1>1, <1>2, <1>17 DEF MoneyInv, LastEnded
<1>20. started' \in Nat /\ credited' \in Nat /\ IsStack(staged')
       /\ (\A i \in 1..Len(staged') : IsDiff(staged'[i].diff))
  BY <1>1, <1>4, <1>16 DEF MoneyInv
<1> QED
  BY <1>1, <1>2, <1>15, <1>16, <1>17, <1>18, <1>19, <1>20 DEF MoneyInv

(* Every transaction starts on the results its block has staged.  It fails *)
(* only after a transaction was refused for its size: EndTxTooLarge has    *)
(* committed its changes to the cache and stages nothing.                  *)
StartsClean == tx = NoTx /\ tx' # NoTx => cache = Staged

(* Every step keeps the accounts, when transactions start clean. *)
LEMMA MoneyStep ==
    ASSUME MoneyInv, TraceInv, [Next]_vars, [StartsClean]_vars
    PROVE  MoneyInv'
<1>1. CASE UNCHANGED vars
  <2>1. UNCHANGED <<db, cache, staged, tx, producing, started, requests, credited>>
    BY <1>1 DEF vars, block
  <2>2. Booked' = Booked /\ Staged' = Staged /\ LastEnded' = LastEnded
    BY <2>1 DEF Booked, Staged, LastEnded
  <2> QED
    BY <2>1, <2>2 DEF MoneyInv
<1>2. CASE BeginBlock
  <2>1. ~producing /\ producing' /\ UNCHANGED <<db, staged, tx, started, requests, credited>>
    BY <1>2 DEF BeginBlock
  <2>2. tx = NoTx
    BY <2>1 DEF MoneyInv
  <2> QED
    BY <2>1, <2>2, AsideKeeps
<1>3. CASE \/ CallResumes
           \/ \E b \in BOOLEAN : CallAsync(b) \/ SetQueryAllowed(b)
  <2>1. ~producing /\ UNCHANGED <<db, staged, tx, producing, started, requests, credited>>
    BY <1>3 DEF CallResumes, CallAsync, SetQueryAllowed, block
  <2>2. tx = NoTx
    BY <2>1 DEF MoneyInv
  <2> QED
    BY <2>1, <2>2, AsideKeeps
<1>4. CASE SealBlock
  BY <1>4, SealKeeps
<1>5. CASE \E a \in Account : CreditDeposit(a)
  BY <1>5, CreditKeeps
<1>6. CASE \E ok \in BOOLEAN : EndTx(ok)
  BY <1>6, EndTxKeeps
<1>7. CASE EndTxTooLarge
  <2>1. /\ tx # NoTx /\ tx' = NoTx
        /\ UNCHANGED <<db, staged, producing, started, requests, credited>>
    BY <1>7 DEF EndTxTooLarge
  <2>2. Booked' = Booked /\ Staged' = Staged
    BY <2>1 DEF Booked, Staged
  <2>3. PICK R, m : R = Booked /\ m = started
    OBVIOUS
  <2>4. m \in Nat /\ Proper(R, m - 1)
    BY <2>1, <2>3 DEF MoneyInv, LastEnded
  <2>5. Proper(R, m)
    BY <2>4, ProperLater
  <2>6. Proper(Booked', LastEnded')
    BY <2>1, <2>2, <2>3, <2>5 DEF LastEnded
  <2> QED
    BY <2>1, <2>2, <2>6 DEF MoneyInv
<1>8. CASE DropTx
  <2>1. /\ tx # NoTx /\ tx' = NoTx
        /\ UNCHANGED <<db, cache, staged, producing, started, requests, credited>>
    BY <1>8 DEF DropTx
  <2> QED
    BY <2>1, InTxKeeps
<1>9. CASE \E a, c \in Account : StartTx(a, c)
  <2>1. PICK a \in Account, c \in Account : StartTx(a, c)
    BY <1>9
  <2>2. tx' # NoTx => cache = Staged
    <3>1. tx = NoTx /\ started' = started + 1 /\ started \in Nat
      BY <2>1 DEF StartTx, MoneyInv
    <3>2. vars' # vars
      BY <3>1 DEF vars, block
    <3> QED
      BY <3>1, <3>2 DEF StartsClean
  <2> QED
    BY <2>1, <2>2, StartKeeps
<1>10. CASE \/ \E c \in Account, static \in BOOLEAN : Enter(c, static)
            \/ \E ok \in BOOLEAN : Leave(ok)
            \/ \E gas \in BOOLEAN : \/ \E in \in UnwrapInputs : CallUnwrap(in, gas)
                                    \/ \E in \in WithdrawInputs : CallWithdraw(in, gas)
                                    \/ \E in \in UpdateInputs : CallUpdate(in, gas)
            \/ CallQuery
  <2>1. /\ tx # NoTx
        /\ UNCHANGED <<db, cache, staged, producing, started, requests, credited>>
    BY <1>10 DEF Enter, Leave, CallUnwrap, CallWithdraw, CallUpdate, CallQuery, Step, InTx
  <2>2. PICK R, base, k : R = Booked /\ base = cache /\ k = credited
    OBVIOUS
  <2>3. tx.id \in Nat /\ Proper(R, tx.id - 1) /\ TxBacked(tx, R, base, k)
    BY <2>1, <2>2 DEF MoneyInv, LastEnded
  <2>4. TxBacked(tx', R, base, k) /\ tx'.id = tx.id
    <3>1. CASE \E c \in Account, static \in BOOLEAN : Enter(c, static)
      BY <2>3, <3>1, EnterBacked
    <3>2. CASE \E ok \in BOOLEAN : Leave(ok)
      BY <2>3, <3>2, LeaveBacked
    <3>3. CASE \E gas \in BOOLEAN, in \in UnwrapInputs : CallUnwrap(in, gas)
      BY <2>3, <3>3, CallUnwrapBacked
    <3>4. CASE \E gas \in BOOLEAN, in \in WithdrawInputs : CallWithdraw(in, gas)
      BY <2>3, <3>4, CallWithdrawBacked
    <3>5. CASE \E gas \in BOOLEAN, in \in UpdateInputs : CallUpdate(in, gas)
      BY <2>3, <3>5, CallUpdateBacked
    <3>6. CASE CallQuery
      BY <2>3, <3>6, CallQueryBacked
    <3> QED
      BY <1>10, <3>1, <3>2, <3>3, <3>4, <3>5, <3>6
  <2> QED
    BY <2>1, <2>2, <2>4, InTxKeeps
<1> QED
  BY <1>1, <1>2, <1>3, <1>4, <1>5, <1>6, <1>7, <1>8, <1>9, <1>10 DEF Next

(* What the invariant says of the stable state. *)
LEMMA MoneyHolds ==
    ASSUME MoneyInv
    PROVE  WeiConserved /\ RequestsMatchBurns
<1>1. KindTotal(requests, "Unwrap") = Total(Requested("Unwrap"))
      /\ KindTotal(requests, "Withdraw") = Total(Requested("Withdraw"))
  BY DEF KindTotal, Requested
<1> QED
  BY <1>1 DEF MoneyInv, Balanced, WeiConserved, RequestsMatchBurns, BurnsMatchRequests,
              WithdrawalsMatchRequests

LEMMA MoneyAlways == Spec /\ [][StartsClean]_vars => [](MoneyInv /\ TraceInv)
<1>1. Init => MoneyInv /\ TraceInv
  BY MoneyInit DEF TraceInv, Init
<1>2. MoneyInv /\ TraceInv /\ [Next]_vars /\ [StartsClean]_vars => (MoneyInv /\ TraceInv)'
  BY MoneyStep, TraceStep
<1> QED
  BY <1>1, <1>2, PTL DEF Spec

(* No wei is created or lost by any order of calls, reverts, fees, dropped *)
(* transactions, blocks and deposits, as long as each transaction starts   *)
(* on the results its block has staged.                                    *)
THEOREM WeiAlwaysConserved == Spec /\ [][StartsClean]_vars => []WeiConserved
<1>1. MoneyInv => WeiConserved
  BY MoneyHolds
<1> QED
  BY <1>1, MoneyAlways, PTL

(* Under the same condition the requests on record pay out exactly what    *)
(* the EVM has burnt or locked.                                            *)
THEOREM RequestsAlwaysMatchBurns == Spec /\ [][StartsClean]_vars => []RequestsMatchBurns
<1>1. MoneyInv => RequestsMatchBurns
  BY MoneyHolds
<1> QED
  BY <1>1, MoneyAlways, PTL

(* The cache of a block without refused transactions. *)
CleanInv == producing => cache = Staged

LEMMA CleanStep ==
    ASSUME Oversized = {}, MoneyInv, TraceInv, CleanInv, [Next]_vars
    PROVE  CleanInv' /\ StartsClean
<1>1. CASE UNCHANGED vars
  BY <1>1 DEF vars, block, CleanInv, Staged, StartsClean
<1>2. CASE BeginBlock
  <2>1. ~producing /\ cache' = db /\ UNCHANGED <<db, staged, tx>>
    BY <1>2 DEF BeginBlock
  <2>2. staged = <<>> /\ tx = NoTx
    BY <2>1 DEF MoneyInv
  <2>3. PICK w \in World : w = db
    BY DEF MoneyInv, Balanced
  <2>4. PICK s : s = staged
    OBVIOUS
  <2>5. CommitAll(w, Diffs(s)) = w
    BY <2>2, <2>4, NothingStaged
  <2>6. cache' = Staged'
    BY <2>1, <2>3, <2>4, <2>5 DEF Staged
  <2> QED
    BY <2>1, <2>2, <2>6 DEF CleanInv, StartsClean
<1>3. CASE \/ CallResumes
           \/ SealBlock
           \/ \E a \in Account : CreditDeposit(a)
           \/ \E b \in BOOLEAN : CallAsync(b) \/ SetQueryAllowed(b)
  <2>1. ~producing' /\ UNCHANGED tx
    BY <1>3 DEF CallResumes, SealBlock, CreditDeposit, CallAsync, SetQueryAllowed, block
  <2> QED
    BY <2>1 DEF CleanInv, StartsClean
<1>4. CASE \E ok \in BOOLEAN : EndTx(ok)
  <2>1. cache' = Staged'
    BY <1>4, EndTxKeeps
  <2>2. tx # NoTx
    BY <1>4 DEF EndTx
  <2> QED
    BY <2>1, <2>2 DEF CleanInv, StartsClean
<1>5. CASE EndTxTooLarge
  BY <1>5 DEF EndTxTooLarge
<1>6. CASE \/ DropTx
           \/ \E c \in Account, static \in BOOLEAN : Enter(c, static)
           \/ \E ok \in BOOLEAN : Leave(ok)
           \/ \E gas \in BOOLEAN : \/ \E in \in UnwrapInputs : CallUnwrap(in, gas)
                                   \/ \E in \in WithdrawInputs : CallWithdraw(in, gas)
                                   \/ \E in \in UpdateInputs : CallUpdate(in, gas)
           \/ CallQuery
  <2>1. tx # NoTx /\ UNCHANGED <<db, cache, staged, producing>>
    BY <1>6 DEF DropTx, Enter, Leave, CallUnwrap, CallWithdraw, CallUpdate, CallQuery, Step, InTx
  <2>2. Staged' = Staged
    BY <2>1 DEF Staged
  <2> QED
    BY <2>1, <2>2 DEF CleanInv, StartsClean
<1>7. CASE \E a, c \in Account : StartTx(a, c)
  <2>1. producing /\ UNCHANGED <<db, cache, staged, producing>>
    BY <1>7 DEF StartTx
  <2>2. Staged' = Staged
    BY <2>1 DEF Staged
  <2> QED
    BY <2>1, <2>2 DEF CleanInv, StartsClean
<1> QED
  BY <1>1, <1>2, <1>3, <1>4, <1>5, <1>6, <1>7 DEF Next

(* The condition is met when no result breaks a size limit: then blocks    *)
(* conserve wei and pay for every request without further ado.             *)
THEOREM BlocksWithinLimitsConserve ==
    ASSUME Oversized = {}
    PROVE  Spec => [](WeiConserved /\ RequestsMatchBurns) /\ [][StartsClean]_vars
<1>1. Init => MoneyInv /\ TraceInv /\ CleanInv
  BY MoneyInit DEF TraceInv, CleanInv, Init
<1>2. MoneyInv /\ TraceInv /\ CleanInv /\ [Next]_vars
        => (MoneyInv /\ TraceInv /\ CleanInv)' /\ StartsClean
  BY CleanStep, MoneyStep, TraceStep
<1>3. MoneyInv => WeiConserved /\ RequestsMatchBurns
  BY MoneyHolds
<1> QED
  BY <1>1, <1>2, <1>3, PTL DEF Spec

=============================================================================
