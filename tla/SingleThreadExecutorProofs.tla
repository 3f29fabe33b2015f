-------------------- MODULE SingleThreadExecutorProofs --------------------
(***************************************************************************)
(* For any clients, actions, deferred callbacks and number of restarts:    *)
(* callbacks run in the order of their dispatch, deferred ones in between, *)
(* none of those owed is left when the thread ends, and the token the      *)
(* thread reads is there as long as it reads it.                           *)
(*                                                                         *)
(* For any tasks and joiners of a CoroScope: join() is never early.        *)
(*                                                                         *)
(* For any producers, consumers and heap: every node of the stack has one  *)
(* owner, and its pushes and sweeps are those of a queue.                  *)
(***************************************************************************)
EXTENDS MCSingleThreadExecutor, SequenceLemmas, TLAPS

Busy == {"running", "poll", "deferred"}

(* What is in hand at each place of thread_loop.                           *)
InHand ==
  /\ batch # <<>> => loop \in Busy
  /\ loop = "running" => batch # <<>>
  /\ loop = "deferred" => dbatch # <<>>

(* The token follows the life of the thread.                               *)
Life ==
  /\ loop = "none" => need_cancel = "null"
  /\ loop # "none" => thread = "joinable" /\ need_cancel # "null"
  /\ loop \notin {"none", "started"} => thread_id
  /\ draining /\ loop # "none" => need_cancel = "cancelled"
  /\ loop = "exited" => draining

(* What is owed has run or is still in a queue; when the thread has ended  *)
(* it has run.                                                             *)
OwedHeld ==
  owed \subseteq IF loop \in {"none", "exited"} THEN Range(executed)
                 ELSE Range(executed) \cup Range(batch) \cup Range(dispatch_stack)

(* What was deferred before the last action finished has run or is next.   *)
DueNext ==
  due \subseteq fired \cup CASE loop = "poll"     -> Range(deferred_stack)
                             [] loop = "deferred" -> Range(dbatch)
                             [] OTHER             -> {}

IInv == TypeOK /\ GlobalFifo /\ InHand /\ Life /\ OwedHeld /\ DueNext

-----------------------------------------------------------------------------
(* Lemmas about sequences *)

LEMMA RangeAppend ==
  ASSUME NEW S, NEW s \in Seq(S), NEW e \in S
  PROVE  Append(s, e) \in Seq(S) /\ Range(Append(s, e)) = Range(s) \cup {e}
<1> DEFINE one == <<e>>
<1>1. one \in Seq(S) /\ Range(one) = {e}
  BY DEF Range
<1>2. Append(s, e) \in Seq(S) /\ Append(s, e) = s \o one
  BY AppendProperties, AppendIsConcat
<1> HIDE DEF one
<1>3. Range(s \o one) = Range(s) \cup {e}
  BY <1>1, RangeConcatenation
<1>4. QED
  BY <1>2, <1>3

LEMMA RangeTail ==
  ASSUME NEW S, NEW s \in Seq(S), s # <<>>
  PROVE  /\ Head(s) \in S /\ Tail(s) \in Seq(S)
         /\ s = <<Head(s)>> \o Tail(s)
         /\ Range(s) = {Head(s)} \cup Range(Tail(s))
<1>1. /\ Len(s) \in Nat \ {0} /\ Head(s) \in S /\ Head(s) = s[1]
      /\ Tail(s) \in Seq(S) /\ Len(Tail(s)) = Len(s) - 1
      /\ \A i \in 1..(Len(s) - 1) : Tail(s)[i] = s[i + 1]
  BY HeadTailRange
<1> DEFINE t == <<Head(s)>> \o Tail(s)
<1>2. /\ t \in Seq(S) /\ Len(t) = Len(s)
      /\ \A i \in 1..Len(s) : s[i] = t[i]
  BY <1>1
<1>3. s = t
  <2> HIDE DEF t
  <2>1. QED
    BY <1>2, SeqEqual
<1>4. QED
  BY <1>1, <1>3, HeadTailRange

LEMMA RangeReverse ==
  ASSUME NEW S, NEW s \in Seq(S)
  PROVE  /\ Reverse(s) \in Seq(S) /\ Range(Reverse(s)) = Range(s)
         /\ Reverse(s) = <<>> => s = <<>>
<1>1. Len(s) \in Nat /\ s \in [1..Len(s) -> S]
  BY LenProperties
<1>2. Reverse(s) = [i \in 1..Len(s) |-> s[(Len(s) - i) + 1]]
  BY DEF Reverse
<1>3. Reverse(s) \in [1..Len(s) -> S]
  BY <1>1, <1>2
<1>4. Reverse(s) \in Seq(S) /\ Len(Reverse(s)) = Len(s)
  BY <1>1, <1>3
<1>5. \A i \in 1..Len(s) : /\ (Len(s) - i) + 1 \in 1..Len(s)
                           /\ Reverse(s)[i] = s[(Len(s) - i) + 1]
                           /\ Reverse(s)[(Len(s) - i) + 1] = s[i]
  BY <1>1, <1>2
<1>6. Range(Reverse(s)) = Range(s)
  BY <1>1, <1>3, <1>5 DEF Range
<1>7. QED
  BY <1>4, <1>6, EmptySeq

LEMMA RangeEmpty == Range(<<>>) = {}
BY DEF Range

-----------------------------------------------------------------------------
LEMMA InitIInv == Init => IInv
<1> SUFFICES ASSUME Init PROVE IInv
  OBVIOUS
<1>1. TypeOK
  <2>1. starts \in 0..MaxStarts
    BY ExecutorAssumption DEF Init
  <2>2. <<>> \in Seq(Actions) /\ <<>> \in Seq(Deferred)
    BY EmptySeq
  <2>3. QED
    BY <2>1, <2>2 DEF Init, TypeOK
<1>2. GlobalFifo /\ InHand /\ Life /\ OwedHeld /\ DueNext
  BY RangeEmpty DEF Init, GlobalFifo, InHand, Life, OwedHeld, DueNext
<1>3. QED
  BY <1>1, <1>2 DEF IInv

(* Clients *)

LEMMA DispatchIInv ==
  ASSUME IInv, NEW c \in Clients \cup {Worker}, NEW a \in Actions, Dispatch(c, a)
  PROVE  IInv'
<1>1. /\ dispatch_stack \in Seq(Actions) /\ pushed \in Seq(Actions)
      /\ executed \in Seq(Actions) /\ batch \in Seq(Actions)
  BY DEF IInv, TypeOK
<1>2. /\ dispatch_stack' \in Seq(Actions)
      /\ Range(dispatch_stack') = Range(dispatch_stack) \cup {a}
  BY <1>1, RangeAppend DEF Dispatch
<1>3. TypeOK'
  BY <1>1, <1>2, RangeAppend DEF IInv, TypeOK, Dispatch, life
<1>4. GlobalFifo'
  <2> DEFINE one == <<a>>  ran == executed \o batch
  <2>1. one \in Seq(Actions) /\ ran \in Seq(Actions)
    BY <1>1, ConcatProperties
  <2>2. Append(pushed, a) = (ran \o dispatch_stack) \o one
    BY <1>1, AppendIsConcat DEF IInv, GlobalFifo
  <2>3. (ran \o dispatch_stack) \o one = ran \o (dispatch_stack \o one)
    <3> HIDE DEF one, ran
    <3>1. QED
      BY <1>1, <2>1, ConcatAssociative, SMTT(30)
  <2>4. dispatch_stack \o one = Append(dispatch_stack, a)
    BY <1>1, AppendIsConcat
  <2>5. pushed' = Append(pushed, a) /\ dispatch_stack' = Append(dispatch_stack, a)
        /\ UNCHANGED <<executed, batch>>
    BY DEF Dispatch
  <2>6. Append(pushed, a) = (executed \o batch) \o Append(dispatch_stack, a)
    BY <2>2, <2>3, <2>4
  <2>7. QED
    BY <2>5, <2>6 DEF GlobalFifo
<1>5. InHand' /\ Life' /\ DueNext'
  BY DEF IInv, InHand, Life, DueNext, Dispatch, life
<1>6. OwedHeld'
  BY <1>2 DEF IInv, OwedHeld, Dispatch, life, InCallback
<1>7. QED
  BY <1>3, <1>4, <1>5, <1>6 DEF IInv

LEMMA DeferIInv ==
  ASSUME IInv, NEW c \in Clients \cup {Worker}, NEW d \in Deferred, Defer(c, d)
  PROVE  IInv'
<1>1. deferred_stack \in Seq(Deferred)
  BY DEF IInv, TypeOK
<1>2. /\ deferred_stack' \in Seq(Deferred)
      /\ Range(deferred_stack') = Range(deferred_stack) \cup {d}
  BY <1>1, RangeAppend DEF Defer
<1>3. TypeOK'
  BY <1>2 DEF IInv, TypeOK, Defer, life, history
<1>4. GlobalFifo' /\ InHand' /\ Life' /\ OwedHeld'
  BY DEF IInv, GlobalFifo, InHand, Life, OwedHeld, Defer, life, history
<1>5. DueNext'
  BY <1>2 DEF IInv, DueNext, Defer, history
<1>6. QED
  BY <1>3, <1>4, <1>5 DEF IInv

(* A notification moves the thread from its wait to its next check.        *)
LEMMA NotifyIInv ==
  ASSUME IInv, NotifyOne, notifying' \subseteq Clients,
         ctl' \in {"idle", "notify", "join"},
         UNCHANGED <<queues, draining, need_cancel, thread, thread_id, starts,
                     disposed, history>>
  PROVE  IInv'
<1>1. TypeOK'
  BY DEF IInv, TypeOK, NotifyOne, queues, history
<1>2. GlobalFifo' /\ InHand' /\ Life' /\ OwedHeld' /\ DueNext'
  BY DEF IInv, TypeOK, GlobalFifo, InHand, Life, OwedHeld, DueNext, NotifyOne,
         queues, history, Busy
<1>3. QED
  BY <1>1, <1>2 DEF IInv

(* Whoever cancels owes an execution only to what is still in a queue, and *)
(* only while the thread has not ended.                                    *)
LEMMA CancelIInv ==
  ASSUME IInv, Cancel, ctl' \in {"idle", "notify", "join"},
         UNCHANGED <<queues, loop, draining, thread, thread_id, starts, notifying,
                     disposed, pushed, executed, due, fired>>
  PROVE  IInv'
<1>1. Range(dispatch_stack) \subseteq Actions /\ Range(batch) \subseteq Actions
  BY RangeOfSeq DEF IInv, TypeOK
<1>2. TypeOK'
  BY <1>1 DEF IInv, TypeOK, Cancel, queues
<1>3. GlobalFifo' /\ InHand' /\ DueNext'
  BY DEF IInv, GlobalFifo, InHand, DueNext, queues
<1>4. Life'
  BY DEF IInv, TypeOK, Life, Cancel
<1>5. OwedHeld'
  <2>1. CASE need_cancel = "clear"
    <3>1. loop \notin {"none", "exited"}
      BY <2>1 DEF IInv, Life
    <3>2. QED
      BY <2>1, <3>1 DEF IInv, OwedHeld, Cancel, queues
  <2>2. CASE need_cancel # "clear"
    BY <2>2 DEF IInv, OwedHeld, Cancel, queues
  <2>3. QED
    BY <2>1, <2>2
<1>6. QED
  BY <1>2, <1>3, <1>4, <1>5 DEF IInv

-----------------------------------------------------------------------------
(* Life cycle *)

LEMMA StartIInv == IInv /\ Start => IInv'
<1> SUFFICES ASSUME IInv, Start PROVE IInv'
  OBVIOUS
<1>1. loop = "none"
  BY DEF IInv, Life, Start
<1>2. TypeOK'
  <2>1. starts' \in 0..MaxStarts
    BY ExecutorAssumption DEF IInv, TypeOK, Start
  <2>2. QED
    BY <2>1 DEF IInv, TypeOK, Start, queues, history
<1>3. GlobalFifo' /\ InHand' /\ Life' /\ OwedHeld' /\ DueNext'
  BY <1>1 DEF IInv, GlobalFifo, InHand, Life, OwedHeld, DueNext, Start, queues,
         history, Busy
<1>4. QED
  BY <1>2, <1>3 DEF IInv

LEMMA WaitEndIInv == IInv /\ WaitEnd => IInv'
<1> SUFFICES ASSUME IInv, WaitEnd PROVE IInv'
  OBVIOUS
<1>1. loop \in {"none", "exited"} /\ loop' = "none"
  BY DEF IInv, Life, WaitEnd
<1>2. TypeOK'
  BY <1>1 DEF IInv, TypeOK, WaitEnd, queues, history
<1>3. GlobalFifo' /\ InHand' /\ Life' /\ OwedHeld' /\ DueNext'
  BY <1>1 DEF IInv, GlobalFifo, InHand, Life, OwedHeld, DueNext, WaitEnd, queues,
         history, Busy
<1>4. QED
  BY <1>2, <1>3 DEF IInv

-----------------------------------------------------------------------------
(* The thread *)

(* Steps between batches, in which nothing changes hands.                  *)
LEMMA IdleIInv ==
  ASSUME IInv, ThreadStart \/ CheckCancel \/ Block \/ WakeUp
  PROVE  IInv'
<1>1. /\ loop \in {"started", "check", "wait", "blocked"}
      /\ loop' \in {"check", "sweep", "blocked"}
      /\ UNCHANGED <<queues, need_cancel, thread, ctl, starts, notifying, disposed,
                     history>>
      /\ draining' \in BOOLEAN /\ (draining' => draining \/ need_cancel = "cancelled")
      /\ thread_id' = TRUE
  BY DEF IInv, TypeOK, Life, ThreadStart, CheckCancel, Block, WakeUp, life
<1>2. TypeOK'
  BY <1>1 DEF IInv, TypeOK, queues, history
<1>3. GlobalFifo' /\ InHand' /\ Life' /\ OwedHeld' /\ DueNext'
  BY <1>1 DEF IInv, GlobalFifo, InHand, Life, OwedHeld, DueNext, queues, history, Busy
<1>4. QED
  BY <1>2, <1>3 DEF IInv

LEMMA SweepIInv == IInv /\ SweepDispatched => IInv'
<1> SUFFICES ASSUME IInv, SweepDispatched PROVE IInv'
  OBVIOUS
<1>1. /\ batch = <<>> /\ dispatch_stack \in Seq(Actions) /\ executed \in Seq(Actions)
      /\ batch' = dispatch_stack /\ dispatch_stack' = <<>>
      /\ UNCHANGED <<deferred_stack, dbatch, draining, life, notifying, disposed,
                     history>>
      /\ loop = "sweep" /\ loop' \in {"running", "exited", "wait"}
  BY DEF IInv, TypeOK, InHand, SweepDispatched, Busy
<1>2. /\ loop' = "running" <=> dispatch_stack # <<>>
      /\ loop' = "exited" => draining /\ dispatch_stack = <<>>
  BY DEF IInv, TypeOK, SweepDispatched
<1>3. TypeOK'
  BY <1>1 DEF IInv, TypeOK, life, history
<1>4. GlobalFifo'
  BY <1>1, ConcatEmptySeq, ConcatProperties DEF IInv, GlobalFifo, history
<1>5. InHand' /\ Life'
  BY <1>1, <1>2 DEF IInv, InHand, Life, life, Busy
<1>6. OwedHeld'
  BY <1>1, <1>2, RangeEmpty DEF IInv, OwedHeld, history
<1>7. DueNext'
  BY <1>1 DEF IInv, DueNext, history
<1>8. QED
  BY <1>3, <1>4, <1>5, <1>6, <1>7 DEF IInv

LEMMA FinishActionIInv == IInv /\ FinishAction => IInv'
<1> SUFFICES ASSUME IInv, FinishAction PROVE IInv'
  OBVIOUS
<1> DEFINE h == Head(batch)
<1>1. /\ batch \in Seq(Actions) /\ batch # <<>> /\ loop = "running" /\ loop' = "poll"
      /\ executed' = Append(executed, h) /\ batch' = Tail(batch)
      /\ executed \in Seq(Actions) /\ dispatch_stack \in Seq(Actions)
      /\ UNCHANGED <<dispatch_stack, pushed, owed>>
  BY DEF IInv, TypeOK, InHand, FinishAction
<1>2. /\ h \in Actions /\ Tail(batch) \in Seq(Actions) /\ <<h>> \in Seq(Actions)
      /\ batch = <<h>> \o Tail(batch)
      /\ Range(batch) = {h} \cup Range(Tail(batch))
  BY <1>1, RangeTail
<1>3. /\ Append(executed, h) \in Seq(Actions)
      /\ Append(executed, h) = executed \o <<h>>
      /\ Range(Append(executed, h)) = Range(executed) \cup {h}
  BY <1>1, <1>2, RangeAppend, AppendIsConcat
<1> HIDE DEF h
<1>4. TypeOK'
  <2>1. Range(deferred_stack) \subseteq Deferred
    BY RangeOfSeq DEF IInv, TypeOK
  <2>2. QED
    BY <1>1, <1>2, <1>3, <2>1 DEF IInv, TypeOK, FinishAction, life
<1>5. GlobalFifo'
  <2>1. (executed \o <<h>>) \o Tail(batch) = executed \o batch
    BY <1>1, <1>2, ConcatAssociative, SMTT(30)
  <2>2. QED
    BY <1>1, <1>3, <2>1 DEF IInv, GlobalFifo
<1>6. InHand' /\ Life'
  BY <1>1 DEF IInv, InHand, Life, FinishAction, life, Busy
<1>7. OwedHeld'
  BY <1>1, <1>2, <1>3 DEF IInv, OwedHeld
<1>8. DueNext'
  BY DEF DueNext, FinishAction
<1>9. QED
  BY <1>4, <1>5, <1>6, <1>7, <1>8 DEF IInv

(* What a poll leads to, when the deferred callbacks are done.             *)
LEMMA AfterPollIsNext ==
  ASSUME IInv
  PROVE  /\ AfterPoll \in {"running", "sweep", "check"}
         /\ AfterPoll = "running" <=> batch # <<>>
BY DEF AfterPoll

LEMMA PollDeferredIInv == IInv /\ PollDeferred => IInv'
<1> SUFFICES ASSUME IInv, PollDeferred PROVE IInv'
  OBVIOUS
<1>1. /\ deferred_stack \in Seq(Deferred) /\ loop = "poll"
      /\ dbatch' = Reverse(deferred_stack) /\ deferred_stack' = <<>>
      /\ UNCHANGED <<dispatch_stack, batch, draining, life, notifying, disposed,
                     history>>
      /\ loop' = IF deferred_stack # <<>> THEN "deferred" ELSE AfterPoll
  BY DEF IInv, TypeOK, PollDeferred
<1>2. /\ dbatch' \in Seq(Deferred) /\ Range(dbatch') = Range(deferred_stack)
      /\ deferred_stack # <<>> => dbatch' # <<>>
  BY <1>1, RangeReverse
<1>3. TypeOK'
  BY <1>1, <1>2, AfterPollIsNext DEF IInv, TypeOK, life, history
<1>4. InHand' /\ Life' /\ OwedHeld' /\ GlobalFifo'
  BY <1>1, <1>2, AfterPollIsNext DEF IInv, InHand, Life, OwedHeld, GlobalFifo, life,
         history, Busy
<1>5. DueNext'
  BY <1>1, <1>2, AfterPollIsNext, RangeEmpty DEF IInv, DueNext, history
<1>6. QED
  BY <1>3, <1>4, <1>5 DEF IInv

LEMMA FinishDeferredIInv == IInv /\ FinishDeferred => IInv'
<1> SUFFICES ASSUME IInv, FinishDeferred PROVE IInv'
  OBVIOUS
<1>1. /\ dbatch \in Seq(Deferred) /\ dbatch # <<>> /\ loop = "deferred"
      /\ fired' = fired \cup {Head(dbatch)} /\ dbatch' = Tail(dbatch)
      /\ UNCHANGED <<dispatch_stack, deferred_stack, batch, draining, life, notifying,
                     disposed, pushed, executed, owed, due>>
      /\ loop' = IF Len(dbatch) > 1 THEN "deferred" ELSE AfterPoll
  BY DEF IInv, TypeOK, InHand, FinishDeferred
<1>2. /\ Head(dbatch) \in Deferred /\ dbatch' \in Seq(Deferred)
      /\ Range(dbatch) = {Head(dbatch)} \cup Range(dbatch')
  BY <1>1, RangeTail
<1>3. Len(dbatch) > 1 <=> dbatch' # <<>>
  BY <1>1, <1>2, HeadTailProperties, EmptySeq, LenProperties
<1>4. TypeOK'
  BY <1>1, <1>2, AfterPollIsNext DEF IInv, TypeOK, life
<1>5. InHand' /\ Life' /\ OwedHeld' /\ GlobalFifo'
  BY <1>1, <1>3, AfterPollIsNext DEF IInv, InHand, Life, OwedHeld, GlobalFifo, life, Busy
<1>6. DueNext'
  BY <1>1, <1>2, <1>3, AfterPollIsNext, RangeEmpty DEF IInv, DueNext
<1>7. QED
  BY <1>4, <1>5, <1>6 DEF IInv

-----------------------------------------------------------------------------
LEMMA NextIInv == IInv /\ [Next]_vars => IInv'
<1> SUFFICES ASSUME IInv, [Next]_vars PROVE IInv'
  OBVIOUS
<1>1. CASE \E c \in Clients \cup {Worker}, a \in Actions : Dispatch(c, a)
  BY <1>1, DispatchIInv
<1>2. CASE \E c \in Clients \cup {Worker}, d \in Deferred : Defer(c, d)
  BY <1>2, DeferIInv
<1>3. CASE \E c \in Clients : Notify(c)
  <2>1. NotifyOne /\ notifying' \subseteq Clients /\ ctl' \in {"idle", "notify", "join"}
    BY <1>3 DEF Notify, IInv, TypeOK, life
  <2>2. QED
    BY <1>3, <2>1, NotifyIInv DEF Notify, life
<1>4. CASE StopNotify
  BY <1>4, NotifyIInv DEF StopNotify, IInv, TypeOK
<1>5. CASE \E a \in Actions : Dispose(a)
  BY <1>5 DEF Dispose, IInv, TypeOK, GlobalFifo, InHand, Life, OwedHeld, DueNext,
       queues, life, history
<1>6. CASE Start
  BY <1>6, StartIInv
<1>7. CASE Stop
  BY <1>7, CancelIInv DEF Stop
<1>8. CASE StopFromCallback
  BY <1>8, CancelIInv DEF StopFromCallback, IInv, TypeOK
<1>9. CASE WaitBegin
  BY <1>9 DEF WaitBegin, IInv, TypeOK, GlobalFifo, InHand, Life, OwedHeld, DueNext,
       queues, history
<1>10. CASE WaitEnd
  BY <1>10, WaitEndIInv
<1>11. CASE ThreadStart \/ CheckCancel \/ Block \/ WakeUp
  BY <1>11, IdleIInv
<1>12. CASE SweepDispatched
  BY <1>12, SweepIInv
<1>13. CASE FinishAction
  BY <1>13, FinishActionIInv
<1>14. CASE PollDeferred
  BY <1>14, PollDeferredIInv
<1>15. CASE FinishDeferred
  BY <1>15, FinishDeferredIInv
<1>16. CASE UNCHANGED vars
  BY <1>16 DEF vars, IInv, TypeOK, GlobalFifo, InHand, Life, OwedHeld, DueNext,
       queues, life, history
<1>17. QED
  BY <1>1, <1>2, <1>3, <1>4, <1>5, <1>6, <1>7, <1>8, <1>9, <1>10, <1>11, <1>12,
     <1>13, <1>14, <1>15, <1>16 DEF Next, ThreadStep

(* The invariant holds throughout.                                         *)
THEOREM Invariance == Spec => []IInv
BY InitIInv, NextIInv, PTL DEF Spec

(* Every variable stays within its type.                                   *)
THEOREM ExecutorTypeCorrect == Spec => []TypeOK
<1>1. IInv => TypeOK
  BY DEF IInv
<1>2. QED
  BY <1>1, Invariance, PTL

(* Callbacks run in the order of their dispatch, whoever dispatches them:  *)
(* dispatch_impl, poll_all_dispatched and any number of restarts.          *)
THEOREM Fifo == Spec => []GlobalFifo
<1>1. IInv => GlobalFifo
  BY DEF IInv
<1>2. QED
  BY <1>1, Invariance, PTL

(* When thread_loop returns it has run all that was dispatched before      *)
(* stop() and all that its callbacks dispatched.                           *)
THEOREM NothingOwedIsLeft == Spec => []DrainedAtExit
<1>1. IInv => DrainedAtExit
  BY DEF IInv, OwedHeld, DrainedAtExit
<1>2. QED
  BY <1>1, Invariance, PTL

(* poll_all_deferred runs what was deferred before the next action begins. *)
THEOREM DeferredComeFirst == Spec => []DeferredRunFirst
<1>1. IInv => DeferredRunFirst
  BY DEF IInv, DueNext, DeferredRunFirst
<1>2. QED
  BY <1>1, Invariance, PTL

(* thread_loop and its callbacks never read a token that wait() has reset. *)
THEOREM TokenThere == Spec => []TokenOutlivesLoop
<1>1. IInv => TokenOutlivesLoop
  BY DEF IInv, Life, TokenOutlivesLoop
<1>2. QED
  BY <1>1, Invariance, PTL

-----------------------------------------------------------------------------
(* CoroScope, on a barrier of its own *)

SP == INSTANCE SequenceBarrierProofs WITH
        Consumers <- Joiners, Producers <- Tasks, Strides <- {1}, Ahead <- {0},
        MaxPublished <- Cardinality(Tasks), thread <- publisher

LEMMA CardinalityIs ==
  \A S : Scope!Cardinality(S) = Cardinality(S) /\ (Scope!IsFiniteSet(S) <=> IsFiniteSet(S))
BY DEF Scope!Cardinality, Cardinality, Scope!IsFiniteSet, IsFiniteSet

(* The module that SP names extends the one that Scope!Barrier names: what *)
(* the two define alike is the same.                                       *)
LEMMA SameBarrierSteps ==
  /\ Scope!Barrier!Init => SP!Init
  /\ \A j, x : Scope!Barrier!Await(j, x) => SP!Await(j, x)
  /\ \A t, x : Scope!Barrier!Publish(t, x) => SP!Publish(t, x)
  /\ \A j : /\ Scope!Barrier!Suspend(j) => SP!Suspend(j)
            /\ Scope!Barrier!AwaitResume(j) => SP!AwaitResume(j)
  /\ \A t : Scope!Barrier!Step(t) => SP!Step(t)
  /\ Scope!Barrier!Threads = SP!Threads
<1>1. \A q, S : SP!Among(q, S) = Scope!Barrier!Among(q, S)
  BY DEF SP!Among, Scope!Barrier!Among
<1>2. \A x, y : SP!difference(x, y) = Scope!Barrier!difference(x, y)
  BY DEF SP!difference, Scope!Barrier!difference
<1>3. \A x, y : SP!precedes(x, y) = Scope!Barrier!precedes(x, y)
  BY <1>2 DEF SP!precedes, Scope!Barrier!precedes
<1>4. \A S : SP!Min(S) = Scope!Barrier!Min(S)
  BY DEF SP!Min, Scope!Barrier!Min
<1>5. /\ SP!Threads = Scope!Barrier!Threads /\ SP!Idle = Scope!Barrier!Idle
      /\ SP!NoOperation = Scope!Barrier!NoOperation
      /\ SP!initial_sequence = Scope!Barrier!initial_sequence
      /\ \A d : SP!Plus(d) = Scope!Barrier!Plus(d)
  BY DEF SP!Threads, Scope!Barrier!Threads, SP!Idle, Scope!Barrier!Idle, SP!NoOperation,
         Scope!Barrier!NoOperation, SP!initial_sequence, Scope!Barrier!initial_sequence,
         SP!Plus, Scope!Barrier!Plus
<1>6. \A q, n : /\ SP!ToRequeue(q, n) = Scope!Barrier!ToRequeue(q, n)
                /\ SP!ToResume(q, n) = Scope!Barrier!ToResume(q, n)
                /\ SP!StillAhead(q, n) = Scope!Barrier!StillAhead(q, n)
                /\ SP!Reached(q, n) = Scope!Barrier!Reached(q, n)
  BY <1>1, <1>2, <1>3, Zenon
     DEF SP!ToRequeue, Scope!Barrier!ToRequeue, SP!ToResume, Scope!Barrier!ToResume,
         SP!StillAhead, Scope!Barrier!StillAhead, SP!Reached, Scope!Barrier!Reached
<1>7. \A q, n : SP!Earliest(q, n) = Scope!Barrier!Earliest(q, n)
  BY <1>2, <1>4, Zenon DEF SP!Earliest, Scope!Barrier!Earliest
<1>8. ASSUME NEW c PROVE /\ \A x : Scope!Barrier!Await(c, x) => SP!Await(c, x)
                         /\ Scope!Barrier!Suspend(c) => SP!Suspend(c)
                         /\ Scope!Barrier!AwaitResume(c) => SP!AwaitResume(c)
  BY <1>3, <1>5, Zenon DEF Scope!Barrier!Await, SP!Await, Scope!Barrier!Suspend, SP!Suspend,
                           Scope!Barrier!AwaitResume, SP!AwaitResume
<1>9. ASSUME NEW p PROVE \A x : Scope!Barrier!Publish(p, x) => SP!Publish(p, x)
  BY CardinalityIs DEF Scope!Barrier!Publish, SP!Publish
<1>10. ASSUME NEW t PROVE Scope!Barrier!Step(t) => SP!Step(t)
  <2>1. Scope!Barrier!ResumeNext(t) => SP!ResumeNext(t)
    BY Zenon DEF Scope!Barrier!ResumeNext, SP!ResumeNext
  <2>2. Scope!Barrier!ResumeEnd(t) => SP!ResumeEnd(t)
    BY <1>5, Zenon DEF Scope!Barrier!ResumeEnd, SP!ResumeEnd
  <2>3. Scope!Barrier!LoadAwaiters(t) => SP!LoadAwaiters(t)
    BY <1>5, Zenon DEF Scope!Barrier!LoadAwaiters, SP!LoadAwaiters
  <2>4. Scope!Barrier!TakeAwaiters(t) => SP!TakeAwaiters(t)
    BY <1>6, Zenon DEF Scope!Barrier!TakeAwaiters, SP!TakeAwaiters
  <2>5. Scope!Barrier!Requeue(t) => SP!Requeue(t)
    BY Zenon DEF Scope!Barrier!Requeue, SP!Requeue
  <2>6. Scope!Barrier!PushAwaiters(t) => SP!PushAwaiters(t)
    BY Zenon DEF Scope!Barrier!PushAwaiters, SP!PushAwaiters
  <2>7. Scope!Barrier!CheckPublished(t) => SP!CheckPublished(t)
    BY <1>3, Zenon DEF Scope!Barrier!CheckPublished, SP!CheckPublished
  <2>8. Scope!Barrier!RetakeAwaiters(t) => SP!RetakeAwaiters(t)
    BY <1>6, <1>7, Zenon DEF Scope!Barrier!RetakeAwaiters, SP!RetakeAwaiters
  <2> QED  BY <2>1, <2>2, <2>3, <2>4, <2>5, <2>6, <2>7, <2>8, Zenon DEF Scope!Barrier!Step, SP!Step
<1>11. Scope!Barrier!Init => SP!Init
  BY <1>5, Zenon DEF Scope!Barrier!Init, SP!Init
<1> QED  BY <1>5, <1>8, <1>9, <1>10, <1>11

Started  == {t \in Tasks : task[t] # "outside"}
Ended    == {t \in Tasks : task[t] \in {"finished", "drawn", "published"}}
Numbered == {t \in Tasks : task[t] \in {"drawn", "published"}}

(* The numbers drawn are those below _cur_published, one for each task     *)
(* that has drawn one, and a task draws when it has ended; the barrier     *)
(* knows of none that is not drawn.                                        *)
Drawn ==
  /\ task \in [Tasks -> {"outside", "running", "finished", "drawn", "published"}]
  /\ size = Cardinality(Started)
  /\ cur_published = Cardinality(Numbered)
  /\ Ended \subseteq ended /\ ended \subseteq Tasks
  /\ number \in [Tasks -> Nat]
  /\ \A t \in Numbered : number[t] < cur_published

ScopeInv ==
  Drawn /\ SP!IInv /\ SP!Below(cur_published, Cardinality(Tasks))

LEMMA ScopeConstants ==
  ASSUME ComponentsAssumption
  PROVE  /\ IsFiniteSet(Tasks) /\ Cardinality(Tasks) \in Nat /\ Tasks \cap Joiners = {}
         /\ Word \in Nat /\ Word % 2 = 0 /\ Word \div 2 \in Nat
         /\ Cardinality(Tasks) + 1 < Word \div 2 /\ Cardinality(Tasks) + 2 < Word
         /\ SP!SequenceBarrierAssumption
<1>1. /\ IsFiniteSet(Tasks) /\ Tasks \cap Joiners = {}
      /\ Word \in Nat /\ Word % 2 = 0 /\ Cardinality(Tasks) + 1 < Word \div 2
  BY CardinalityIs DEF ComponentsAssumption, Scope!ScopeAssumption
<1>2. Cardinality(Tasks) \in Nat
  BY <1>1, FS_CardinalityType
<1> DEFINE H == Word \div 2
           N == Cardinality(Tasks)
<1>3. H \in Nat /\ Word = 2 * H
  BY <1>1
<1>4. N \in Nat /\ N + 1 < H
  BY <1>1, <1>2
<1> HIDE DEF H, N
<1>5. Word > 0 /\ N + 2 < Word /\ {1} \subseteq 1..(H - 1) /\ {0} \subseteq (-H)..H
  BY <1>3, <1>4
<1> QED  BY <1>1, <1>2, <1>3, <1>5 DEF SP!SequenceBarrierAssumption, H, N

(* There are no more of them than tasks.                                   *)
LEMMA Counts ==
  ASSUME ComponentsAssumption
  PROVE  /\ Started \subseteq Tasks /\ IsFiniteSet(Started)
         /\ Cardinality(Started) \in 0..Cardinality(Tasks)
         /\ Ended \subseteq Tasks /\ IsFiniteSet(Ended)
         /\ Numbered \subseteq Ended /\ IsFiniteSet(Numbered)
         /\ Cardinality(Numbered) \in 0..Cardinality(Tasks)
<1>1. Started \subseteq Tasks /\ Ended \subseteq Tasks /\ Numbered \subseteq Ended
      /\ Numbered \subseteq Tasks
  BY DEF Started, Ended, Numbered
<1>2. \A S \in SUBSET Tasks : /\ IsFiniteSet(S) /\ Cardinality(S) \in Nat
                              /\ Cardinality(S) <= Cardinality(Tasks)
  BY ScopeConstants, FS_Subset, FS_CardinalityType
<1> QED  BY <1>1, <1>2, ScopeConstants

LEMMA ScopeInit ==
  ASSUME ComponentsAssumption, Scope!Init
  PROVE  ScopeInv
<1>1. /\ task = [t \in Tasks |-> "outside"] /\ size = 0 /\ cur_published = 0
      /\ number = [t \in Tasks |-> 0] /\ ended = {} /\ SP!Init
  BY SameBarrierSteps DEF Scope!Init
<1>2. Started = {} /\ Ended = {} /\ Numbered = {}
  BY <1>1 DEF Started, Ended, Numbered
<1>3. Drawn
  BY <1>1, <1>2, FS_EmptySet DEF Drawn
<1>4. SP!IInv
  BY <1>1, ScopeConstants, SP!BarrierInit
<1>5. SP!Below(cur_published, Cardinality(Tasks))
  BY <1>1, ScopeConstants, SP!BelowInit
<1> QED  BY <1>3, <1>4, <1>5 DEF ScopeInv

(* A step of the scope that leaves its barrier alone.                      *)
LEMMA BarrierStays ==
  ASSUME SP!IInv, UNCHANGED <<last_published, awaiters, op, publisher, published>>,
         NEW k, NEW n, SP!Below(k, n)
  PROVE  SP!IInv' /\ SP!Below(k, n)'
<1>1. SP!IInv'
  BY DEF SP!IInv, SP!Typed, SP!Apart, SP!Locals, SP!Linked, SP!Unclaimed, SP!InBarrier, SP!Held,
         SP!Requeued, SP!Resuming
<1>2. SP!Below(k, n)'
  BY DEF SP!Below, SP!Decided, SP!Resuming, SP!Low, SP!initial_sequence
<1> QED  BY <1>1, <1>2

LEMMA PushDeferredStep ==
  ASSUME ComponentsAssumption, ScopeInv, NEW t \in Tasks, Scope!PushDeferred(t)
  PROVE  ScopeInv'
<1>1. /\ Drawn /\ task[t] = "outside" /\ task' = [task EXCEPT ![t] = "running"]
      /\ size' = size + 1 /\ UNCHANGED <<cur_published, number, ended>>
      /\ UNCHANGED <<last_published, awaiters, op, publisher, published>>
  BY DEF ScopeInv, Scope!PushDeferred, Scope!barrier
<1>2. /\ task' \in [Tasks -> {"outside", "running", "finished", "drawn", "published"}]
      /\ Started' = Started \cup {t} /\ t \notin Started
      /\ Ended' = Ended /\ Numbered' = Numbered
  BY <1>1 DEF Drawn, Started, Ended, Numbered
<1>3. size' = Cardinality(Started')
  BY <1>1, <1>2, Counts, FS_AddElement DEF Drawn
<1>4. Drawn'
  BY <1>1, <1>2, <1>3 DEF Drawn
<1> PICK k : k = cur_published
  OBVIOUS
<1>5. SP!IInv' /\ SP!Below(k, Cardinality(Tasks))'
  BY <1>1, BarrierStays DEF ScopeInv
<1> QED  BY <1>1, <1>4, <1>5 DEF ScopeInv, SP!Below, SP!Low

LEMMA FinishStep ==
  ASSUME ComponentsAssumption, ScopeInv, NEW t \in Tasks, Scope!Finish(t)
  PROVE  ScopeInv'
<1>1. /\ Drawn /\ task[t] = "running" /\ task' = [task EXCEPT ![t] = "finished"]
      /\ ended' = ended \cup {t} /\ UNCHANGED <<size, cur_published, number>>
      /\ UNCHANGED <<last_published, awaiters, op, publisher, published>>
  BY DEF ScopeInv, Scope!Finish, Scope!barrier
<1>2. /\ task' \in [Tasks -> {"outside", "running", "finished", "drawn", "published"}]
      /\ Started' = Started /\ Ended' = Ended \cup {t} /\ Numbered' = Numbered
  BY <1>1 DEF Drawn, Started, Ended, Numbered
<1>3. Drawn'
  BY <1>1, <1>2 DEF Drawn
<1> PICK k : k = cur_published
  OBVIOUS
<1>4. SP!IInv' /\ SP!Below(k, Cardinality(Tasks))'
  BY <1>1, BarrierStays DEF ScopeInv
<1> QED  BY <1>1, <1>3, <1>4 DEF ScopeInv, SP!Below, SP!Low

LEMMA DrawStep ==
  ASSUME ComponentsAssumption, ScopeInv, NEW t \in Tasks, Scope!Draw(t)
  PROVE  ScopeInv'
<1>1. /\ Drawn /\ task[t] = "finished" /\ task' = [task EXCEPT ![t] = "drawn"]
      /\ number' = [number EXCEPT ![t] = cur_published]
      /\ cur_published' = (cur_published + 1) % Word /\ UNCHANGED <<size, ended>>
      /\ UNCHANGED <<last_published, awaiters, op, publisher, published>>
  BY DEF ScopeInv, Scope!Draw, Scope!barrier
<1>2. /\ task' \in [Tasks -> {"outside", "running", "finished", "drawn", "published"}]
      /\ Started' = Started /\ Ended' = Ended /\ Numbered' = Numbered \cup {t}
      /\ t \notin Numbered
  BY <1>1 DEF Drawn, Started, Ended, Numbered
<1>3. cur_published \in 0..Cardinality(Tasks)
  BY <1>1, Counts DEF Drawn
<1>4. cur_published' = cur_published + 1
  BY <1>1, <1>3, ScopeConstants
<1>5. cur_published' = Cardinality(Numbered')
  BY <1>1, <1>2, <1>4, Counts, FS_AddElement DEF Drawn
<1>6. Drawn'
  <2>1. Numbered \subseteq Tasks
    BY DEF Numbered
  <2>2. number' \in [Tasks -> Nat] /\ number'[t] = cur_published
        /\ \A u \in Numbered : number'[u] = number[u]
    BY <1>1, <1>2, <1>3, <2>1 DEF Drawn
  <2>3. \A u \in Numbered' : number'[u] < cur_published'
    <3>1. \A u \in Numbered : number[u] \in Nat /\ number[u] < cur_published
      BY <1>1, <2>1 DEF Drawn
    <3> QED  BY <1>2, <1>3, <1>4, <2>2, <3>1
  <2> QED  BY <1>1, <1>2, <1>5, <2>2, <2>3 DEF Drawn
<1> PICK k \in Nat : k = cur_published
  BY <1>3
<1>7. SP!Below(k + 1, Cardinality(Tasks))
  BY ScopeConstants, SP!BelowRises DEF ScopeInv
<1>8. SP!IInv' /\ SP!Below(k + 1, Cardinality(Tasks))'
  BY <1>1, <1>7, BarrierStays DEF ScopeInv
<1>9. cur_published' = k + 1
  BY <1>4
<1> QED  BY <1>6, <1>8, <1>9 DEF ScopeInv, SP!Below, SP!Low

LEMMA PublishNumberStep ==
  ASSUME ComponentsAssumption, ScopeInv, NEW t \in Tasks, Scope!PublishNumber(t)
  PROVE  ScopeInv'
<1>1. /\ Drawn /\ task[t] = "drawn" /\ task' = [task EXCEPT ![t] = "published"]
      /\ SP!Publish(t, number[t]) /\ UNCHANGED <<size, cur_published, number, ended>>
  BY SameBarrierSteps DEF ScopeInv, Scope!PublishNumber
<1>2. /\ task' \in [Tasks -> {"outside", "running", "finished", "drawn", "published"}]
      /\ Started' = Started /\ Ended' = Ended /\ Numbered' = Numbered /\ t \in Numbered
  BY <1>1 DEF Drawn, Started, Ended, Numbered
<1>3. Drawn'
  BY <1>1, <1>2 DEF Drawn
<1> PICK k \in 0..Cardinality(Tasks) : k = cur_published
  BY <1>1, Counts DEF Drawn
<1> PICK x : x = number[t]
  OBVIOUS
<1>4. x \in 0..(k - 1)
  BY <1>1, <1>2 DEF Drawn
<1>5. x \in SP!Low(k) /\ x \in SP!Sequence
  BY <1>4, ScopeConstants DEF SP!Low, SP!Sequence
<1>6. SP!IInv'
  BY <1>1, <1>5, ScopeConstants, SP!PublishStep DEF ScopeInv
<1>7. SP!Below(k, Cardinality(Tasks))'
  BY <1>1, <1>5, ScopeConstants, SP!BelowPublish DEF ScopeInv
<1> QED  BY <1>1, <1>3, <1>6, <1>7 DEF ScopeInv, SP!Below, SP!Low

LEMMA JoinStep ==
  ASSUME ComponentsAssumption, ScopeInv, NEW j \in Joiners, Scope!Join(j)
  PROVE  ScopeInv'
<1>1. /\ Drawn /\ SP!Await(j, size % Word)
      /\ UNCHANGED <<task, size, cur_published, number, ended>>
  BY SameBarrierSteps DEF ScopeInv, Scope!Join, Scope!scopeVars
<1>2. Drawn'
  BY <1>1 DEF Drawn, Started, Ended, Numbered
<1> PICK k \in 0..Cardinality(Tasks) : k = cur_published
  BY <1>1, Counts DEF Drawn
<1> PICK x \in 0..Cardinality(Tasks) : x = size
  BY <1>1, Counts DEF Drawn
<1>3. size % Word = x
  <2>1. \A y, w \in Nat : y < w => y % w = y
    OBVIOUS
  <2>2. x \in Nat /\ Word \in Nat /\ x < Word
    BY ScopeConstants
  <2> QED  BY <2>1, <2>2
<1>4. x \in SP!Sequence /\ SP!Await(j, x)
  BY <1>1, <1>3, ScopeConstants DEF SP!Sequence
<1>5. SP!IInv'
  BY <1>4, ScopeConstants, SP!AwaitStep DEF ScopeInv
<1>6. SP!Below(k, Cardinality(Tasks))'
  BY <1>4, ScopeConstants, SP!BelowAwait DEF ScopeInv
<1> QED  BY <1>1, <1>2, <1>5, <1>6 DEF ScopeInv, SP!Below, SP!Low

LEMMA BarrierGoesOn ==
  ASSUME ComponentsAssumption, ScopeInv, Scope!BarrierStep
  PROVE  ScopeInv'
<1>1. /\ Drawn /\ UNCHANGED <<task, size, cur_published, number, ended>>
      /\ \/ \E t \in SP!Threads : SP!Step(t)
         \/ \E j \in Joiners : SP!Suspend(j) \/ SP!AwaitResume(j)
  BY SameBarrierSteps DEF ScopeInv, Scope!BarrierStep, Scope!scopeVars
<1>2. Drawn'
  BY <1>1 DEF Drawn, Started, Ended, Numbered
<1> PICK k \in 0..Cardinality(Tasks) : k = cur_published
  BY <1>1, Counts DEF Drawn
<1>3. SP!IInv' /\ SP!Below(k, Cardinality(Tasks))'
  BY <1>1, ScopeConstants, SP!BelowStep DEF ScopeInv
<1> QED  BY <1>1, <1>2, <1>3 DEF ScopeInv, SP!Below, SP!Low

LEMMA ScopeInvariance ==
  ASSUME ComponentsAssumption
  PROVE  MCSpec => []ScopeInv
<1>1. MCInit => ScopeInv
  BY ScopeInit DEF MCInit
<1>2. ScopeInv /\ [MCNext]_allVars => ScopeInv'
  <2> SUFFICES ASSUME ScopeInv, [MCNext]_allVars PROVE ScopeInv'
    OBVIOUS
  <2>1. CASE Scope!Next
    BY <2>1, PushDeferredStep, FinishStep, DrawStep, PublishNumberStep, JoinStep, BarrierGoesOn
       DEF Scope!Next
  <2>2. CASE UNCHANGED scopeVars
    <3>1. /\ UNCHANGED <<last_published, awaiters, op, publisher, published>>
          /\ UNCHANGED <<task, size, cur_published, number, ended>> /\ Drawn
      BY <2>2 DEF scopeVars, ScopeInv
    <3>2. Drawn'
      BY <3>1 DEF Drawn, Started, Ended, Numbered
    <3> PICK k : k = cur_published
      OBVIOUS
    <3>3. SP!IInv' /\ SP!Below(k, Cardinality(Tasks))'
      BY <3>1, BarrierStays DEF ScopeInv
    <3> QED  BY <3>1, <3>2, <3>3 DEF ScopeInv, SP!Below, SP!Low
  <2> QED  BY <2>1, <2>2 DEF MCNext, allVars, ScopeRests
<1> QED  BY <1>1, <1>2, PTL DEF MCSpec

(* join() never returns before as many tasks have ended as had been pushed *)
(* when it was called, however many tasks publish at once and in whatever  *)
(* order: what the barrier is told of has ended, and what it resumes has   *)
(* waited for less.                                                        *)
THEOREM JoinIsNotEarly ==
  ASSUME ComponentsAssumption
  PROVE  MCSpec => []JoinCovers
<1>1. ASSUME ScopeInv
      PROVE  JoinCovers
  <2> SUFFICES ASSUME NEW j \in Joiners, op[j].state = "resumed"
               PROVE  Cardinality(ended) >= op[j].target
    BY CardinalityIs DEF JoinCovers, Scope!JoinCovers
  <2>1. op[j].target \in 0..Cardinality(Tasks) /\ op[j].target < cur_published
    BY <1>1 DEF ScopeInv, SP!Below, SP!Decided
  <2>2. /\ cur_published = Cardinality(Numbered) /\ Numbered \subseteq ended
        /\ ended \subseteq Tasks
    BY <1>1, Counts DEF ScopeInv, Drawn
  <2>3. /\ Cardinality(Numbered) <= Cardinality(ended)
        /\ Cardinality(Numbered) \in Nat /\ Cardinality(ended) \in Nat
    BY <2>2, ScopeConstants, FS_Subset, FS_CardinalityType
  <2> QED  BY <2>1, <2>2, <2>3, ScopeConstants
<1> QED  BY <1>1, ScopeInvariance, PTL

-----------------------------------------------------------------------------
(* TreiberStack *)

NoRepeat(s) == \A i, j \in 1..Len(s) : s[i] = s[j] => i = j

ChainOf(nx, n) ==
  Front((CHOOSE F : Walks(F, nx, null, n, Cardinality(Nodes)))[Cardinality(Nodes)])

ValuesOf(dt, s) == [i \in 1..Len(s) |-> dt[s[i]]]

(* What the modules that Stack and Stack!Queue name extend is the same.    *)
LEMMA SameFunctions ==
  /\ \A s : /\ Stack!Range(s) = Range(s) /\ Stack!Reverse(s) = Reverse(s)
            /\ Stack!Queue!Reverse(s) = Reverse(s)
            /\ Stack!Cardinality(s) = Cardinality(s)
            /\ Stack!IsFiniteSet(s) <=> IsFiniteSet(s)
            /\ Stack!DataOf(s) = ValuesOf(data, s)
  /\ \A n : Stack!Chain(n) = ChainOf(next, n)
<1>1. \A s : /\ Stack!Range(s) = Range(s) /\ Stack!Reverse(s) = Reverse(s)
             /\ Stack!Queue!Reverse(s) = Reverse(s)
             /\ Stack!DataOf(s) = ValuesOf(data, s)
  BY DEF Stack!Range, Range, Stack!Reverse, Reverse, Stack!Queue!Reverse, Stack!DataOf, ValuesOf
<1>2. \A s : /\ Stack!Cardinality(s) = Cardinality(s)
             /\ Stack!IsFiniteSet(s) <=> IsFiniteSet(s)
  BY DEF Stack!Cardinality, Cardinality, Stack!IsFiniteSet, IsFiniteSet
<1>3. \A n : Stack!Chain(n) = ChainOf(next, n)
  BY DEF Stack!Chain, ChainOf, Walks, Stack!Last, Last, Stack!Front, Front,
         Stack!Cardinality, Cardinality
<1> QED  BY <1>1, <1>2, <1>3

LEMMA ListedChain ==
  ASSUME ComponentsAssumption, NEW s \in Seq(Nodes), NoRepeat(s),
         NEW nx, NEW n, Links(nx, null, n, s)
  PROVE  ChainOf(nx, n) = s
<1> DEFINE k == Cardinality(Nodes)
<1>1. IsFiniteSet(Nodes) /\ null \notin Nodes
  BY SameFunctions DEF ComponentsAssumption, Stack!StackAssumption
<1>2. Cardinality(Range(s)) = Len(s) /\ Range(s) \subseteq Nodes
  BY RangeCount, RangeOfList DEF NoRepeat
<1>3. k \in Nat /\ Len(s) <= k
  BY <1>1, <1>2, FS_Subset, FS_CardinalityType
<1> DEFINE W == CHOOSE F : Walks(F, nx, null, n, k)
<1> HIDE DEF k
<1>4. Walks(W, nx, null, n, k)
  BY <1>3, SomeWalk
<1> HIDE DEF W
<1>5. Front(W[k]) = s
  BY <1>1, <1>3, <1>4, WalkOfList
<1> QED  BY <1>5 DEF ChainOf, W, k

(* Who may hold nodes: the list under _head, a push, and the two lists of  *)
(* a sweep.                                                                *)
OnHead    == <<"head", null>>
InPush(p) == <<"push", p>>
AtCur(c)  == <<"cur", c>>
AtPrev(c) == <<"prev", c>>

Holder ==
  {OnHead} \cup {InPush(p) : p \in Producers}
           \cup {AtCur(c) : c \in Consumers} \cup {AtPrev(c) : c \in Consumers}

LEMMA HoldersApart ==
  /\ OnHead \in Holder
  /\ \A p \in Producers : InPush(p) \in Holder /\ InPush(p) # OnHead
  /\ \A c \in Consumers : /\ AtCur(c) \in Holder /\ AtCur(c) # OnHead
                          /\ AtPrev(c) \in Holder /\ AtPrev(c) # OnHead
  /\ \A p, q : InPush(p) = InPush(q) => p = q
  /\ \A p, c : InPush(p) # AtCur(c) /\ InPush(p) # AtPrev(c)
  /\ \A c, d : /\ AtCur(c) = AtCur(d) => c = d
               /\ AtPrev(c) = AtPrev(d) => c = d
               /\ AtCur(c) # AtPrev(d)
  /\ \A o \in Holder : \/ o = OnHead \/ \E p \in Producers : o = InPush(p)
                       \/ \E c \in Consumers : o = AtCur(c) \/ o = AtPrev(c)
BY DEF Holder, OnHead, InPush, AtCur, AtPrev

(* Every node of S is in one list of one holder, once.                     *)
Held(L, S) ==
  /\ L \in [Holder -> Seq(Nodes)]
  /\ \A o \in Holder : NoRepeat(L[o])
  /\ \A o, q \in Holder : o # q => Range(L[o]) \cap Range(L[q]) = {}
  /\ S = UNION {Range(L[o]) : o \in Holder}

LEMMA HeldChange ==
  ASSUME NEW L, NEW S, Held(L, S), NEW o \in Holder, NEW s \in Seq(Nodes), NoRepeat(s),
         Range(s) \cap S \subseteq Range(L[o])
  PROVE  Held([L EXCEPT ![o] = s], (S \ Range(L[o])) \cup Range(s))
<1> DEFINE M == [L EXCEPT ![o] = s]
<1>1. /\ L \in [Holder -> Seq(Nodes)] /\ \A q \in Holder : NoRepeat(L[q])
      /\ \A q, r \in Holder : q # r => Range(L[q]) \cap Range(L[r]) = {}
      /\ \A x : x \in S <=> \E q \in Holder : x \in Range(L[q])
  BY DEF Held
<1>2. M \in [Holder -> Seq(Nodes)] /\ M[o] = s /\ \A q \in Holder : q # o => M[q] = L[q]
  BY <1>1
<1> HIDE DEF M
<1>3. \A q \in Holder : NoRepeat(M[q])
  BY <1>1, <1>2
<1>4. \A q \in Holder : q # o => Range(s) \cap Range(L[q]) = {}
  BY <1>1
<1>5. ASSUME NEW q \in Holder, NEW r \in Holder, q # r PROVE Range(M[q]) \cap Range(M[r]) = {}
  BY <1>1, <1>2, <1>4, <1>5
<1>6. \A x : x \in (S \ Range(L[o])) \cup Range(s) <=> \E q \in Holder : x \in Range(M[q])
  BY <1>1, <1>2
<1>7. (S \ Range(L[o])) \cup Range(s) = UNION {Range(M[q]) : q \in Holder}
  BY <1>6
<1> QED  BY <1>2, <1>3, <1>5, <1>7 DEF Held, M

(* Two lists change, and hold together what they held.                     *)
LEMMA HeldMove ==
  ASSUME NEW L, NEW S, Held(L, S), NEW o \in Holder, NEW q \in Holder, o # q,
         NEW s \in Seq(Nodes), NoRepeat(s), NEW t \in Seq(Nodes), NoRepeat(t),
         Range(s) \cap Range(t) = {},
         Range(s) \cup Range(t) = Range(L[o]) \cup Range(L[q])
  PROVE  Held([L EXCEPT ![o] = s, ![q] = t], S)
<1> DEFINE M == [L EXCEPT ![o] = <<>>]
           T == S \ Range(L[o])
           N == [M EXCEPT ![q] = t]
           U == (T \ Range(L[q])) \cup Range(t)
<1>1. /\ L \in [Holder -> Seq(Nodes)]
      /\ Range(L[o]) \subseteq S /\ Range(L[q]) \subseteq S
      /\ Range(L[o]) \cap Range(L[q]) = {}
      /\ NoRepeat(<<>>) /\ Range(<<>>) = {} /\ <<>> \in Seq(Nodes)
  BY EmptyRange DEF Held, NoRepeat
<1>2. M \in [Holder -> Seq(Nodes)] /\ M[q] = L[q] /\ [L EXCEPT ![o] = s, ![q] = t] = [N EXCEPT ![o] = s]
  BY <1>1
<1> PICK z : z = <<>>
  OBVIOUS
<1>3. Held([L EXCEPT ![o] = z], (S \ Range(L[o])) \cup Range(z))
  BY <1>1, HeldChange
<1>4. Held(M, T)
  BY <1>1, <1>3
<1>5. N \in [Holder -> Seq(Nodes)] /\ N[o] = <<>>
  BY <1>2
<1> HIDE DEF M, N
<1>6. Range(t) \cap T \subseteq Range(M[q])
  BY <1>1, <1>2
<1>7. Held(N, U)
  BY <1>2, <1>4, <1>6, HeldChange DEF N
<1>8. Range(s) \cap U \subseteq Range(N[o])
  BY <1>1, <1>5
<1>9. Held([N EXCEPT ![o] = s], (U \ Range(N[o])) \cup Range(s))
  BY <1>7, <1>8, HeldChange
<1>10. (U \ Range(N[o])) \cup Range(s) = S
  BY <1>1, <1>5
<1> QED  BY <1>2, <1>9, <1>10

(* The lists of the stack: those that a thread walks along, or that are    *)
(* under _head, and the node of a push that is not yet done.               *)
HeadAt(L) == Links(next, null, head, L[OnHead])

PushAt(L, p) ==
  IF pc[p] = "push" THEN L[InPush(p)] = <<mine[p]>> /\ mine[p] \in Nodes
  ELSE L[InPush(p)] = <<>> /\ mine[p] = null

SweepAt(L, c) ==
  /\ IF pc[c] \in {"reverse", "deliver"} THEN Links(next, null, cur[c], L[AtCur(c)])
     ELSE L[AtCur(c)] = <<>>
  /\ IF pc[c] = "reverse" THEN Links(next, null, prev[c], L[AtPrev(c)])
     ELSE L[AtPrev(c)] = <<>>
  /\ pc[c] = "reverse" => L[AtCur(c)] # <<>> \/ L[AtPrev(c)] # <<>>
  /\ pc[c] = "deliver" => L[AtCur(c)] # <<>>

OnLists(L) ==
  /\ Held(L, live) /\ HeadAt(L)
  /\ \A p \in Producers : PushAt(L, p)
  /\ \A c \in Consumers : SweepAt(L, c)

(* A stack is destroyed as a whole, and every node carries a value.        *)
Sound ==
  /\ Stack!TypeOK
  /\ \A t, u \in Stack!Threads : pc[t] = "gone" => pc[u] = "gone"
  /\ Stack!Threads = {} => head = null
  /\ \A n \in live : data[n] \in Stack!Value

StackInv == Sound /\ \E L : OnLists(L)

LEMMA StackConstants ==
  ASSUME ComponentsAssumption
  PROVE  /\ IsFiniteSet(Nodes) /\ null \notin Nodes
         /\ Producers \cap Consumers = {} /\ MaxPush \in Nat /\ Ordered \subseteq Consumers
BY SameFunctions DEF ComponentsAssumption, Stack!StackAssumption

(* What a step does not touch stays where it was.                          *)
LEMMA HeadUntouched ==
  ASSUME NEW L, NEW M, Held(L, live), HeadAt(L), head' = head, M[OnHead] = L[OnHead],
         \A m \in Range(L[OnHead]) : next'[m] = next[m]
  PROVE  HeadAt(M)'
<1>1. L[OnHead] \in Seq(Nodes)
  BY HoldersApart DEF Held
<1>2. Links(next', null, head, L[OnHead])
  BY <1>1, LinksKept DEF HeadAt
<1> QED  BY <1>2 DEF HeadAt

LEMMA PushUntouched ==
  ASSUME NEW L, NEW M, NEW p \in Producers, PushAt(L, p), pc'[p] = pc[p], mine'[p] = mine[p],
         M[InPush(p)] = L[InPush(p)]
  PROVE  PushAt(M, p)'
BY DEF PushAt

LEMMA SweepUntouched ==
  ASSUME NEW L, NEW M, Held(L, live), NEW c \in Consumers, SweepAt(L, c), pc'[c] = pc[c],
         cur'[c] = cur[c], prev'[c] = prev[c],
         M[AtCur(c)] = L[AtCur(c)], M[AtPrev(c)] = L[AtPrev(c)],
         \A m \in Range(L[AtCur(c)]) : next'[m] = next[m],
         \A m \in Range(L[AtPrev(c)]) : next'[m] = next[m]
  PROVE  SweepAt(M, c)'
<1>1. L[AtCur(c)] \in Seq(Nodes) /\ L[AtPrev(c)] \in Seq(Nodes)
  BY HoldersApart DEF Held
<1>2. \A n : Links(next, null, n, L[AtCur(c)]) => Links(next', null, n, L[AtCur(c)])
  BY <1>1, LinksKept
<1>3. \A n : Links(next, null, n, L[AtPrev(c)]) => Links(next', null, n, L[AtPrev(c)])
  BY <1>1, LinksKept
<1> QED  BY <1>2, <1>3 DEF SweepAt

LEMMA SingleNode ==
  ASSUME NEW n \in Nodes
  PROVE  <<n>> \in Seq(Nodes) /\ NoRepeat(<<n>>) /\ Range(<<n>>) = {n} /\ <<n>> # <<>>
<1>1. /\ <<n>> \in Seq(Nodes) /\ Len(<<n>>) = 1 /\ DOMAIN <<n>> = {1} /\ <<n>>[1] = n /\ <<n>> # <<>>
      /\ 1..1 = {1}
  OBVIOUS
<1>2. Range(<<n>>) = {n}
  BY <1>1 DEF Range
<1> QED  BY <1>1, <1>2 DEF NoRepeat

(* One thread steps, and touches no list but its own and the one under     *)
(* _head.                                                                  *)
LEMMA PusherSteps ==
  ASSUME ComponentsAssumption, NEW L, OnLists(L), NEW M, NEW p \in Producers,
         \A o \in Holder \ {OnHead, InPush(p)} :
           M[o] = L[o] /\ \A m \in Range(L[o]) : next'[m] = next[m],
         \A t \in Producers \cup Consumers : t # p => pc'[t] = pc[t],
         \A q \in Producers : q # p => mine'[q] = mine[q], UNCHANGED <<cur, prev>>,
         Held(M, live'), HeadAt(M)', PushAt(M, p)'
  PROVE  OnLists(M)'
<1>1. ASSUME NEW q \in Producers, q # p PROVE PushAt(M, q)'
  <2>1. M[InPush(q)] = L[InPush(q)]
    BY <1>1, HoldersApart
  <2> QED  BY <1>1, <2>1, PushUntouched DEF OnLists
<1>2. ASSUME NEW c \in Consumers PROVE SweepAt(M, c)'
  <2>1. c # p
    BY StackConstants
  <2>2. AtCur(c) \in Holder \ {OnHead, InPush(p)} /\ AtPrev(c) \in Holder \ {OnHead, InPush(p)}
    BY HoldersApart
  <2> QED  BY <2>1, <2>2, SweepUntouched DEF OnLists
<1> QED  BY <1>1, <1>2 DEF OnLists

LEMMA SweeperSteps ==
  ASSUME ComponentsAssumption, NEW L, OnLists(L), NEW M, NEW c \in Consumers,
         \A o \in Holder \ {OnHead, AtCur(c), AtPrev(c)} :
           M[o] = L[o] /\ \A m \in Range(L[o]) : next'[m] = next[m],
         \A t \in Producers \cup Consumers : t # c => pc'[t] = pc[t],
         \A d \in Consumers : d # c => cur'[d] = cur[d] /\ prev'[d] = prev[d], UNCHANGED mine,
         Held(M, live'), HeadAt(M)', SweepAt(M, c)'
  PROVE  OnLists(M)'
<1>1. ASSUME NEW q \in Producers PROVE PushAt(M, q)'
  <2>1. q # c
    BY StackConstants
  <2>2. M[InPush(q)] = L[InPush(q)]
    BY HoldersApart
  <2> QED  BY <2>1, <2>2, PushUntouched DEF OnLists
<1>2. ASSUME NEW d \in Consumers, d # c PROVE SweepAt(M, d)'
  <2>1. /\ AtCur(d) \in Holder \ {OnHead, AtCur(c), AtPrev(c)}
        /\ AtPrev(d) \in Holder \ {OnHead, AtCur(c), AtPrev(c)}
    BY <1>2, HoldersApart
  <2> QED  BY <1>2, <2>1, SweepUntouched DEF OnLists
<1> QED  BY <1>1, <1>2 DEF OnLists

LEMMA SoundIs ==
  ASSUME Sound
  PROVE  /\ head \in Nodes \cup {null} /\ live \subseteq Nodes
         /\ data \in [Nodes -> Stack!Value \cup {null}] /\ next \in [Nodes -> Nodes \cup {null}]
         /\ pc \in [Producers \cup Consumers ->
                      {"idle", "push", "steel_head", "reverse", "deliver", "gone"}]
         /\ mine \in [Producers -> Nodes \cup {null}] /\ count \in [Producers -> 0..MaxPush]
         /\ cur \in [Consumers -> Nodes \cup {null}] /\ prev \in [Consumers -> Nodes \cup {null}]
         /\ delivered \in [Consumers -> Seq(Stack!Value)]
         /\ \A n \in live : data[n] \in Stack!Value
BY DEF Sound, Stack!TypeOK, Stack!Pointer, Stack!Threads

LEMMA StaysSound ==
  ASSUME Sound, Stack!TypeOK', NEW t \in Producers \cup Consumers,
         pc[t] # "gone", pc'[t] # "gone",
         \A u \in Producers \cup Consumers : u # t => pc'[u] = pc[u],
         \A n \in live' : data'[n] \in Stack!Value
  PROVE  Sound'
<1>1. Stack!Threads = Producers \cup Consumers
  BY DEF Stack!Threads
<1>2. \A u \in Producers \cup Consumers : pc[u] # "gone"
  BY <1>1 DEF Sound
<1>3. \A u \in Producers \cup Consumers : pc'[u] # "gone"
  BY <1>2
<1> QED  BY <1>1, <1>3 DEF Sound

(* The lists of OnLists(L) are disjoint, and what is in them is live.      *)
LEMMA OnListsIs ==
  ASSUME NEW L, OnLists(L)
  PROVE  /\ Held(L, live) /\ HeadAt(L) /\ L \in [Holder -> Seq(Nodes)]
         /\ \A o \in Holder : NoRepeat(L[o]) /\ Range(L[o]) \subseteq live
         /\ \A o, q \in Holder : o # q => Range(L[o]) \cap Range(L[q]) = {}
         /\ \A p \in Producers : PushAt(L, p)
         /\ \A c \in Consumers : SweepAt(L, c)
BY DEF OnLists, Held

LEMMA EmptyList ==
  <<>> \in Seq(Nodes) /\ NoRepeat(<<>>) /\ Range(<<>>) = {}
BY EmptyRange DEF NoRepeat

LEMMA ListPush ==
  ASSUME NEW s \in Seq(Nodes), NoRepeat(s), NEW n \in Nodes, n \notin Range(s)
  PROVE  /\ <<n>> \o s \in Seq(Nodes) /\ NoRepeat(<<n>> \o s)
         /\ Range(<<n>> \o s) = {n} \cup Range(s)
<1> DEFINE t == <<n>> \o s
<1>1. /\ t \in Seq(Nodes) /\ Range(t) = {n} \cup Range(s)
      /\ \A i, j \in 1..Len(t) : t[i] = t[j] => i = j
  BY PushFront DEF NoRepeat
<1> HIDE DEF t
<1>2. NoRepeat(t)
  BY <1>1 DEF NoRepeat
<1> QED  BY <1>1, <1>2 DEF t

LEMMA ListTail ==
  ASSUME NEW s \in Seq(Nodes), NoRepeat(s), s # <<>>
  PROVE  /\ Tail(s) \in Seq(Nodes) /\ NoRepeat(Tail(s))
         /\ Range(Tail(s)) = Range(s) \ {Head(s)}
<1> DEFINE t == Tail(s)
<1>1. /\ t \in Seq(Nodes) /\ Range(t) = Range(s) \ {Head(s)}
      /\ \A i, j \in 1..Len(t) : t[i] = t[j] => i = j
  BY TailRange DEF NoRepeat
<1> HIDE DEF t
<1>2. NoRepeat(t)
  BY <1>1 DEF NoRepeat
<1> QED  BY <1>1, <1>2 DEF t

LEMMA ListJoin ==
  ASSUME NEW s \in Seq(Nodes), NoRepeat(s), NEW t \in Seq(Nodes), NoRepeat(t),
         Range(s) \cap Range(t) = {}
  PROVE  s \o t \in Seq(Nodes) /\ NoRepeat(s \o t) /\ Range(s \o t) = Range(s) \cup Range(t)
<1> DEFINE u == s \o t
<1>1. /\ u \in Seq(Nodes) /\ Range(u) = Range(s) \cup Range(t)
      /\ \A i, j \in 1..Len(u) : u[i] = u[j] => i = j
  BY ConcatNew DEF NoRepeat
<1> HIDE DEF u
<1>2. NoRepeat(u)
  BY <1>1 DEF NoRepeat
<1> QED  BY <1>1, <1>2 DEF u

LEMMA NewNodeStep ==
  ASSUME ComponentsAssumption, Sound, NEW L, OnLists(L),
         NEW p \in Producers, Stack!NewNode(p)
  PROVE  /\ Sound'
         /\ \E n \in Nodes \ live : /\ OnLists([L EXCEPT ![InPush(p)] = <<n>>])'
                                    /\ \A m \in live : data'[m] = data[m]
<1>1. PICK n \in Nodes \ live :
        /\ pc[p] = "idle" /\ pc' = [pc EXCEPT ![p] = "push"] /\ count[p] < MaxPush
        /\ live' = live \cup {n} /\ data' = [data EXCEPT ![n] = <<p, count[p] + 1>>]
        /\ next' = [next EXCEPT ![n] = head] /\ mine' = [mine EXCEPT ![p] = n]
        /\ count' = [count EXCEPT ![p] = @ + 1]
        /\ UNCHANGED <<head, cur, prev, delivered>>
  BY DEF Stack!NewNode, Stack!Goto
<1>2. /\ <<p, count[p] + 1>> \in Stack!Value /\ count[p] + 1 \in 0..MaxPush
  BY <1>1, SoundIs, StackConstants DEF Stack!Value
<1>3. Sound'
  <2>1. Stack!TypeOK'
    BY <1>1, <1>2, SoundIs DEF Stack!TypeOK, Stack!Pointer, Stack!Threads
  <2>2. \A m \in live' : data'[m] \in Stack!Value
    BY <1>1, <1>2, SoundIs
  <2> QED  BY <1>1, <2>1, <2>2, SoundIs, StaysSound
<1> DEFINE M == [L EXCEPT ![InPush(p)] = <<n>>]
<1>4. L[InPush(p)] = <<>> /\ InPush(p) \in Holder /\ OnHead \in Holder /\ OnHead # InPush(p)
  BY <1>1, OnListsIs, HoldersApart DEF PushAt
<1>5. M[InPush(p)] = <<n>> /\ \A o \in Holder : o # InPush(p) => M[o] = L[o]
  BY <1>4, OnListsIs
<1>6. \A o \in Holder : \A m \in Range(L[o]) : next'[m] = next[m]
  BY <1>1, OnListsIs, SoundIs
<1>7. Held(M, live')
  <2>1. PICK s : s = <<n>> /\ s \in Seq(Nodes) /\ NoRepeat(s) /\ Range(s) = {n}
    BY SingleNode
  <2>2. Range(L[InPush(p)]) = {}
    BY <1>4, EmptyRange
  <2>3. Held(L, live) /\ Range(s) \cap live \subseteq Range(L[InPush(p)])
    BY <2>1, OnListsIs
  <2>4. Held([L EXCEPT ![InPush(p)] = s], (live \ Range(L[InPush(p)])) \cup Range(s))
    BY <1>4, <2>1, <2>3, HeldChange
  <2> QED  BY <1>1, <2>1, <2>2, <2>4
<1> HIDE DEF M
<1>8. HeadAt(M)'
  BY <1>1, <1>4, <1>5, <1>6, OnListsIs, HeadUntouched
<1>9. PushAt(M, p)'
  BY <1>1, <1>5, SoundIs DEF PushAt
<1>10. OnLists(M)'
  <2>1. \A t \in Producers \cup Consumers : t # p => pc'[t] = pc[t]
    BY <1>1, SoundIs
  <2>2. \A q \in Producers : q # p => mine'[q] = mine[q]
    BY <1>1, SoundIs
  <2>3. \A o \in Holder \ {OnHead, InPush(p)} :
          M[o] = L[o] /\ \A m \in Range(L[o]) : next'[m] = next[m]
    BY <1>5, <1>6
  <2>4. UNCHANGED <<cur, prev>>
    BY <1>1
  <2> QED  BY <1>7, <1>8, <1>9, <2>1, <2>2, <2>3, <2>4, PusherSteps
<1> QED  BY <1>1, <1>3, <1>10, SoundIs DEF M

LEMMA PushSucceedsStep ==
  ASSUME ComponentsAssumption, Sound, NEW L, OnLists(L),
         NEW p \in Producers, Stack!PushSucceeds(p)
  PROVE  /\ Sound'
         /\ \E n \in live :
              OnLists([L EXCEPT ![OnHead] = <<n>> \o L[OnHead], ![InPush(p)] = <<>>])'
<1>1. /\ pc[p] = "push" /\ pc' = [pc EXCEPT ![p] = "idle"] /\ head = next[mine[p]]
      /\ head' = mine[p] /\ mine' = [mine EXCEPT ![p] = null]
      /\ UNCHANGED <<live, data, next, count, cur, prev, delivered>>
  BY DEF Stack!PushSucceeds, Stack!Goto, Stack!heap
<1>2. Sound'
  <2>1. Stack!TypeOK'
    BY <1>1, SoundIs DEF Stack!TypeOK, Stack!Pointer, Stack!Threads
  <2> QED  BY <1>1, <2>1, SoundIs, StaysSound
<1> PICK n : n = mine[p]
  OBVIOUS
<1> DEFINE s == <<n>> \o L[OnHead]
           M == [L EXCEPT ![OnHead] = s, ![InPush(p)] = <<>>]
<1>3. /\ L[InPush(p)] = <<n>> /\ n \in Nodes /\ InPush(p) \in Holder
      /\ OnHead \in Holder /\ OnHead # InPush(p)
      /\ L[OnHead] \in Seq(Nodes) /\ NoRepeat(L[OnHead])
      /\ <<>> \in Seq(Nodes) /\ NoRepeat(<<>>) /\ Range(<<>>) = {}
  BY <1>1, OnListsIs, HoldersApart, EmptyRange DEF PushAt, NoRepeat
<1>4. Range(L[InPush(p)]) = {n} /\ n \in live /\ n \notin Range(L[OnHead])
  <2>1. Range(L[InPush(p)]) = {n}
    BY <1>3, SingleNode
  <2>2. Range(L[InPush(p)]) \cap Range(L[OnHead]) = {} /\ Range(L[InPush(p)]) \subseteq live
    BY <1>3, OnListsIs
  <2> QED  BY <2>1, <2>2
<1>5. s \in Seq(Nodes) /\ NoRepeat(s) /\ Range(s) = {n} \cup Range(L[OnHead])
  BY <1>3, <1>4, ListPush
<1>6. Links(next, null, n, s)
  BY <1>1, <1>3, OnListsIs, LinksPush DEF HeadAt
<1> HIDE DEF s
<1>7. /\ M[OnHead] = s /\ M[InPush(p)] = <<>>
      /\ \A o \in Holder \ {OnHead, InPush(p)} : M[o] = L[o]
  BY <1>3, OnListsIs
<1>8. Held(M, live')
  <2>1. Held(L, live) /\ Range(s) \cup {} = Range(L[OnHead]) \cup Range(L[InPush(p)])
    BY <1>4, <1>5, OnListsIs
  <2>2. PICK z : z = <<>> /\ z \in Seq(Nodes) /\ NoRepeat(z) /\ Range(z) = {}
    BY EmptyList
  <2>3. /\ OnHead \in Holder /\ InPush(p) \in Holder /\ OnHead # InPush(p)
        /\ Range(s) \cap Range(z) = {}
        /\ Range(s) \cup Range(z) = Range(L[OnHead]) \cup Range(L[InPush(p)])
    BY <1>3, <2>1, <2>2
  <2>4. Held([L EXCEPT ![OnHead] = s, ![InPush(p)] = z], live)
    BY <1>5, <2>1, <2>2, <2>3, HeldMove
  <2> QED  BY <1>1, <2>2, <2>4
<1> HIDE DEF M
<1>9. HeadAt(M)'
  BY <1>1, <1>6, <1>7 DEF HeadAt
<1>10. PushAt(M, p)'
  BY <1>1, <1>7, SoundIs DEF PushAt
<1>11. OnLists(M)'
  <2>1. \A t \in Producers \cup Consumers : t # p => pc'[t] = pc[t]
    BY <1>1, SoundIs
  <2>2. \A q \in Producers : q # p => mine'[q] = mine[q]
    BY <1>1, SoundIs
  <2> QED  BY <1>1, <1>7, <1>8, <1>9, <1>10, <2>1, <2>2, PusherSteps
<1> QED  BY <1>2, <1>4, <1>11 DEF M, s

LEMMA PushFailsStep ==
  ASSUME ComponentsAssumption, Sound, NEW L, OnLists(L),
         NEW p \in Producers, Stack!PushFails(p)
  PROVE  Sound' /\ OnLists(L)'
<1>1. /\ pc[p] = "push" /\ next' = [next EXCEPT ![mine[p]] = head]
      /\ UNCHANGED <<head, live, data, pc, mine, count, cur, prev, delivered>>
  BY DEF Stack!PushFails, Stack!local
<1>2. /\ L[InPush(p)] = <<mine[p]>> /\ mine[p] \in Nodes /\ InPush(p) \in Holder
      /\ OnHead \in Holder /\ OnHead # InPush(p)
  BY <1>1, OnListsIs, HoldersApart DEF PushAt
<1>3. Sound'
  <2>1. Stack!TypeOK'
    BY <1>1, <1>2, SoundIs DEF Stack!TypeOK, Stack!Pointer, Stack!Threads
  <2> QED  BY <1>1, <2>1, SoundIs, StaysSound
<1>4. mine[p] \in Range(L[InPush(p)])
  BY <1>2, SingleNode
<1>5. \A o \in Holder : o # InPush(p) => \A m \in Range(L[o]) : next'[m] = next[m]
  <2>1. \A o \in Holder : o # InPush(p) => mine[p] \notin Range(L[o])
    BY <1>2, <1>4, OnListsIs
  <2>2. \A m \in Nodes : m # mine[p] => next'[m] = next[m]
    BY <1>1, SoundIs
  <2> QED  BY <2>1, <2>2, OnListsIs, SoundIs
<1>6. HeadAt(L)'
  BY <1>1, <1>2, <1>5, OnListsIs, HeadUntouched
<1>7. PushAt(L, p)'
  BY <1>1, OnListsIs DEF PushAt
<1> QED  BY <1>1, <1>3, <1>5, <1>6, <1>7, OnListsIs, PusherSteps

LEMMA LoadHeadStep ==
  ASSUME ComponentsAssumption, Sound, NEW L, OnLists(L),
         NEW c \in Consumers, Stack!LoadHead(c) \/ Stack!StealFails(c)
  PROVE  Sound' /\ OnLists(L)'
<1>1. /\ pc[c] \in {"idle", "steel_head"} /\ pc' = [pc EXCEPT ![c] = "steel_head"]
      /\ cur' = [cur EXCEPT ![c] = head]
      /\ UNCHANGED <<head, live, data, next, mine, count, prev, delivered>>
  BY SoundIs DEF Stack!LoadHead, Stack!StealFails, Stack!Goto, Stack!heap
<1>2. Sound'
  <2>1. Stack!TypeOK'
    BY <1>1, SoundIs DEF Stack!TypeOK, Stack!Pointer, Stack!Threads
  <2> QED  BY <1>1, <2>1, SoundIs, StaysSound
<1>3. SweepAt(L, c)'
  BY <1>1, OnListsIs, SoundIs DEF SweepAt
<1>4. HeadAt(L)' /\ Held(L, live')
  BY <1>1, OnListsIs DEF HeadAt
<1>5. OnLists(L)'
  <2>1. \A t \in Producers \cup Consumers : t # c => pc'[t] = pc[t]
    BY <1>1, SoundIs
  <2>2. \A d \in Consumers : d # c => cur'[d] = cur[d] /\ prev'[d] = prev[d]
    BY <1>1, SoundIs
  <2> QED  BY <1>1, <1>3, <1>4, <2>1, <2>2, SweeperSteps
<1> QED  BY <1>2, <1>5

LEMMA StealSucceedsStep ==
  ASSUME ComponentsAssumption, Sound, NEW L, OnLists(L),
         NEW c \in Consumers, Stack!StealSucceeds(c)
  PROVE  Sound' /\ OnLists([L EXCEPT ![OnHead] = <<>>, ![AtCur(c)] = L[OnHead]])'
<1>1. /\ pc[c] = "steel_head" /\ head = cur[c] /\ head' = null
      /\ pc' = [pc EXCEPT ![c] = IF head = null THEN "idle"
                                 ELSE IF c \in Ordered THEN "reverse" ELSE "deliver"]
      /\ prev' = [prev EXCEPT ![c] = null]
      /\ UNCHANGED <<live, data, next, mine, count, cur, delivered>>
  BY DEF Stack!StealSucceeds, Stack!heap
<1>2. Sound'
  <2>1. Stack!TypeOK'
    BY <1>1, SoundIs DEF Stack!TypeOK, Stack!Pointer, Stack!Threads
  <2> QED  BY <1>1, <2>1, SoundIs, StaysSound
<1> PICK z, h : z = <<>> /\ h = L[OnHead]
  OBVIOUS
<1> DEFINE M == [L EXCEPT ![OnHead] = z, ![AtCur(c)] = h]
<1>3. /\ AtCur(c) \in Holder /\ AtPrev(c) \in Holder /\ OnHead \in Holder
      /\ OnHead # AtCur(c) /\ OnHead # AtPrev(c) /\ AtPrev(c) # AtCur(c)
  BY HoldersApart
<1>4. L[AtCur(c)] = <<>> /\ L[AtPrev(c)] = <<>> /\ h \in Seq(Nodes) /\ NoRepeat(h)
  BY <1>1, <1>3, OnListsIs DEF SweepAt
<1>5. z \in Seq(Nodes) /\ NoRepeat(z) /\ Range(z) = {} /\ Range(L[AtCur(c)]) = {}
  BY <1>4, EmptyList
<1>6. Links(next, null, head, h) /\ (head = null <=> h = <<>>)
  BY <1>3, <1>4, StackConstants, OnListsIs, LinksEnd DEF HeadAt
<1>7. Held(M, live')
  BY <1>1, <1>3, <1>4, <1>5, OnListsIs, HeldMove
<1>8. /\ M[OnHead] = <<>> /\ M[AtCur(c)] = h /\ M[AtPrev(c)] = <<>>
      /\ \A o \in Holder \ {OnHead, AtCur(c), AtPrev(c)} : M[o] = L[o]
  BY <1>3, <1>4, OnListsIs
<1> HIDE DEF M
<1>9. HeadAt(M)'
  <2>1. Links(next', null, null, <<>>)
    BY DEF Links
  <2> QED  BY <1>1, <1>8, <2>1 DEF HeadAt
<1>10. SweepAt(M, c)'
  <2>1. cur'[c] = head /\ next' = next
    BY <1>1
  <2>2. pc'[c] = IF head = null THEN "idle" ELSE IF c \in Ordered THEN "reverse" ELSE "deliver"
    BY <1>1, SoundIs
  <2>3. prev'[c] = null /\ Links(next, null, null, <<>>)
    BY <1>1, SoundIs DEF Links
  <2> QED  BY <1>6, <1>8, <2>1, <2>2, <2>3 DEF SweepAt
<1>11. OnLists(M)'
  <2>1. \A t \in Producers \cup Consumers : t # c => pc'[t] = pc[t]
    BY <1>1, SoundIs
  <2>2. \A d \in Consumers : d # c => cur'[d] = cur[d] /\ prev'[d] = prev[d]
    BY <1>1, SoundIs
  <2> QED  BY <1>1, <1>7, <1>8, <1>9, <1>10, <2>1, <2>2, SweeperSteps
<1> QED  BY <1>2, <1>11 DEF M

(* A round of the first loop turns one link round, ...                     *)
LEMMA TurnStep ==
  ASSUME ComponentsAssumption, Sound, NEW L, OnLists(L),
         NEW c \in Consumers, Stack!Reverse1(c), cur[c] # null
  PROVE  /\ Sound' /\ pc' = pc /\ UNCHANGED <<head, data, delivered>>
         /\ L[AtCur(c)] # <<>>
         /\ OnLists([L EXCEPT ![AtCur(c)] = Tail(L[AtCur(c)]),
                              ![AtPrev(c)] = <<Head(L[AtCur(c)])>> \o L[AtPrev(c)]])'
<1> PICK n : n = cur[c]
  OBVIOUS
<1>1. /\ pc[c] = "reverse" /\ next' = [next EXCEPT ![n] = prev[c]]
      /\ prev' = [prev EXCEPT ![c] = n] /\ cur' = [cur EXCEPT ![c] = next[n]]
      /\ UNCHANGED <<head, live, data, pc, mine, count, delivered>>
  BY DEF Stack!Reverse1
<1> PICK s, r : s = L[AtCur(c)] /\ r = L[AtPrev(c)]
  OBVIOUS
<1>2. /\ AtCur(c) \in Holder /\ AtPrev(c) \in Holder /\ OnHead \in Holder
      /\ OnHead # AtCur(c) /\ OnHead # AtPrev(c) /\ AtPrev(c) # AtCur(c)
  BY HoldersApart
<1>3. /\ s \in Seq(Nodes) /\ NoRepeat(s) /\ r \in Seq(Nodes) /\ NoRepeat(r)
      /\ Range(s) \cap Range(r) = {} /\ Range(s) \subseteq live
      /\ Links(next, null, n, s) /\ Links(next, null, prev[c], r)
  BY <1>1, <1>2, OnListsIs DEF SweepAt
<1>4. s # <<>>
  BY <1>3, StackConstants, LinksEnd
<1>5. /\ n = Head(s) /\ n \in Nodes /\ n \in Range(s) /\ Links(next, null, next[n], Tail(s))
  BY <1>3, <1>4, StackConstants, LinksTail
<1>6. /\ Tail(s) \in Seq(Nodes) /\ NoRepeat(Tail(s)) /\ Range(Tail(s)) = Range(s) \ {n}
  BY <1>3, <1>4, <1>5, ListTail
<1>7. n \notin Range(r)
  BY <1>3, <1>5
<1>8. /\ <<n>> \o r \in Seq(Nodes) /\ NoRepeat(<<n>> \o r) /\ Range(<<n>> \o r) = {n} \cup Range(r)
  BY <1>3, <1>5, <1>7, ListPush
<1>9. next'[n] = prev[c] /\ \A m \in Nodes : m # n => next'[m] = next[m]
  BY <1>1, <1>5, SoundIs
<1>10. Links(next', null, next[n], Tail(s))
  <2>1. \A m \in Range(Tail(s)) : next'[m] = next[m]
    BY <1>3, <1>6, <1>9, SoundIs
  <2> QED  BY <1>5, <1>6, <2>1, LinksKept
<1>11. Links(next', null, n, <<n>> \o r)
  <2>1. \A m \in Range(r) : next'[m] = next[m]
    BY <1>3, <1>7, <1>9, RangeOfList
  <2>2. Links(next', null, next'[n], r)
    BY <1>3, <1>9, <2>1, LinksKept
  <2> QED  BY <1>3, <1>5, <2>2, LinksPush
<1> PICK t, q : t = Tail(s) /\ q = <<n>> \o r
  OBVIOUS
<1> DEFINE M == [L EXCEPT ![AtCur(c)] = t, ![AtPrev(c)] = q]
<1>12. Held(M, live')
  <2>1. Held(L, live) /\ Range(t) \cap Range(q) = {} /\ Range(t) \cup Range(q) = Range(s) \cup Range(r)
    BY <1>3, <1>5, <1>6, <1>8, OnListsIs
  <2> QED  BY <1>1, <1>2, <1>6, <1>8, <2>1, HeldMove
<1>13. /\ M[AtCur(c)] = t /\ M[AtPrev(c)] = q
       /\ \A o \in Holder \ {AtCur(c), AtPrev(c)} : M[o] = L[o]
  BY <1>2, OnListsIs
<1> HIDE DEF M
<1>14. \A o \in Holder \ {AtCur(c), AtPrev(c)} : \A m \in Range(L[o]) : next'[m] = next[m]
  <2>1. \A o \in Holder \ {AtCur(c), AtPrev(c)} : n \notin Range(L[o])
    BY <1>2, <1>5, OnListsIs
  <2> QED  BY <1>9, <2>1, OnListsIs, SoundIs
<1>15. HeadAt(M)'
  BY <1>1, <1>2, <1>13, <1>14, OnListsIs, HeadUntouched
<1>16. SweepAt(M, c)'
  <2>1. cur'[c] = next[n] /\ prev'[c] = n /\ pc'[c] = "reverse" /\ q # <<>>
    BY <1>1, <1>3, SoundIs
  <2> QED  BY <1>10, <1>11, <1>13, <2>1 DEF SweepAt
<1>17. OnLists(M)'
  <2>1. \A u \in Producers \cup Consumers : u # c => pc'[u] = pc[u]
    BY <1>1
  <2>2. \A d \in Consumers : d # c => cur'[d] = cur[d] /\ prev'[d] = prev[d]
    BY <1>1, SoundIs
  <2> QED  BY <1>1, <1>12, <1>13, <1>14, <1>15, <1>16, <2>1, <2>2, SweeperSteps
<1>18. Sound'
  <2>1. Stack!TypeOK'
    BY <1>1, <1>5, SoundIs DEF Stack!TypeOK, Stack!Pointer, Stack!Threads
  <2> QED  BY <1>1, <2>1, SoundIs, StaysSound
<1> QED  BY <1>1, <1>4, <1>5, <1>17, <1>18 DEF M

(* ... and the last one goes back to the end.                              *)
LEMMA TurnedStep ==
  ASSUME ComponentsAssumption, Sound, NEW L, OnLists(L),
         NEW c \in Consumers, Stack!Reverse1(c), cur[c] = null
  PROVE  /\ Sound' /\ pc[c] = "reverse" /\ pc' = [pc EXCEPT ![c] = "deliver"]
         /\ UNCHANGED <<head, data, delivered>> /\ L[AtCur(c)] = <<>>
         /\ OnLists([L EXCEPT ![AtCur(c)] = L[AtPrev(c)], ![AtPrev(c)] = <<>>])'
<1>1. /\ pc[c] = "reverse" /\ pc' = [pc EXCEPT ![c] = "deliver"]
      /\ cur' = [cur EXCEPT ![c] = prev[c]] /\ prev' = [prev EXCEPT ![c] = null]
      /\ UNCHANGED <<head, live, data, next, mine, count, delivered>>
  BY DEF Stack!Reverse1
<1> PICK r, z : r = L[AtPrev(c)] /\ z = <<>>
  OBVIOUS
<1> DEFINE M == [L EXCEPT ![AtCur(c)] = r, ![AtPrev(c)] = z]
<1>2. /\ AtCur(c) \in Holder /\ AtPrev(c) \in Holder /\ OnHead \in Holder
      /\ OnHead # AtCur(c) /\ OnHead # AtPrev(c) /\ AtPrev(c) # AtCur(c)
  BY HoldersApart
<1>3. /\ L[AtCur(c)] \in Seq(Nodes) /\ Links(next, null, cur[c], L[AtCur(c)])
      /\ r \in Seq(Nodes) /\ NoRepeat(r) /\ Links(next, null, prev[c], r)
      /\ L[AtCur(c)] # <<>> \/ r # <<>>
  BY <1>1, <1>2, OnListsIs DEF SweepAt
<1>4. L[AtCur(c)] = <<>> /\ r # <<>>
  BY <1>3, StackConstants, LinksEnd
<1>5. z \in Seq(Nodes) /\ NoRepeat(z) /\ Range(z) = {} /\ Range(L[AtCur(c)]) = {}
  BY <1>4, EmptyList
<1>6. Held(M, live')
  <2>1. /\ Held(L, live) /\ Range(r) \cap Range(z) = {}
        /\ Range(r) \cup Range(z) = Range(L[AtCur(c)]) \cup Range(L[AtPrev(c)])
    BY <1>5, OnListsIs
  <2> QED  BY <1>1, <1>2, <1>3, <1>5, <2>1, HeldMove
<1>7. /\ M[AtCur(c)] = r /\ M[AtPrev(c)] = <<>>
      /\ \A o \in Holder \ {AtCur(c), AtPrev(c)} : M[o] = L[o]
  BY <1>2, OnListsIs
<1> HIDE DEF M
<1>8. HeadAt(M)'
  BY <1>1, <1>2, <1>7, OnListsIs, HeadUntouched
<1>9. SweepAt(M, c)'
  <2>1. cur'[c] = prev[c] /\ pc'[c] = "deliver"
    BY <1>1, SoundIs
  <2> QED  BY <1>1, <1>3, <1>4, <1>7, <2>1 DEF SweepAt
<1>10. OnLists(M)'
  <2>1. \A u \in Producers \cup Consumers : u # c => pc'[u] = pc[u]
    BY <1>1, SoundIs
  <2>2. \A d \in Consumers : d # c => cur'[d] = cur[d] /\ prev'[d] = prev[d]
    BY <1>1, SoundIs
  <2> QED  BY <1>1, <1>6, <1>7, <1>8, <1>9, <2>1, <2>2, SweeperSteps
<1>11. Sound'
  <2>1. Stack!TypeOK'
    BY <1>1, SoundIs DEF Stack!TypeOK, Stack!Pointer, Stack!Threads
  <2> QED  BY <1>1, <2>1, SoundIs, StaysSound
<1> QED  BY <1>1, <1>4, <1>10, <1>11 DEF M

LEMMA DeliverNodeStep ==
  ASSUME ComponentsAssumption, Sound, NEW L, OnLists(L),
         NEW c \in Consumers, Stack!DeliverNode(c)
  PROVE  /\ Sound' /\ UNCHANGED <<head, data>> /\ pc[c] = "deliver" /\ L[AtCur(c)] # <<>>
         /\ pc' = [pc EXCEPT ![c] = IF Tail(L[AtCur(c)]) = <<>> THEN "idle" ELSE "deliver"]
         /\ delivered' = [delivered EXCEPT ![c] = Append(@, data[Head(L[AtCur(c)])])]
         /\ OnLists([L EXCEPT ![AtCur(c)] = Tail(L[AtCur(c)])])'
<1> PICK n : n = cur[c]
  OBVIOUS
<1> PICK s : s = L[AtCur(c)]
  OBVIOUS
<1>1. /\ pc[c] = "deliver" /\ live' = live \ {n}
      /\ pc' = [pc EXCEPT ![c] = IF next[n] = null THEN "idle" ELSE @]
      /\ cur' = [cur EXCEPT ![c] = next[n]]
      /\ delivered' = [delivered EXCEPT ![c] = Append(@, data[n])]
      /\ UNCHANGED <<head, data, next, mine, count, prev>>
  BY DEF Stack!DeliverNode
<1>2. /\ AtCur(c) \in Holder /\ AtPrev(c) \in Holder /\ OnHead \in Holder
      /\ OnHead # AtCur(c) /\ OnHead # AtPrev(c) /\ AtPrev(c) # AtCur(c)
  BY HoldersApart
<1>3. /\ s \in Seq(Nodes) /\ NoRepeat(s) /\ Links(next, null, n, s) /\ s # <<>>
      /\ L[AtPrev(c)] = <<>> /\ Range(s) \subseteq live
  BY <1>1, <1>2, OnListsIs DEF SweepAt
<1>4. /\ n = Head(s) /\ n \in Nodes /\ n \in Range(s) /\ Links(next, null, next[n], Tail(s))
  BY <1>3, StackConstants, LinksTail
<1> PICK t : t = Tail(s)
  OBVIOUS
<1>5. t \in Seq(Nodes) /\ NoRepeat(t) /\ Range(t) = Range(s) \ {n}
  BY <1>3, <1>4, ListTail
<1>6. next[n] = null <=> t = <<>>
  <2> PICK m : m = next[n]
    OBVIOUS
  <2>1. Links(next, null, m, t)
    BY <1>4
  <2>2. null \notin Nodes /\ t \in Seq(Nodes)
    BY <1>5, StackConstants
  <2>3. m = null <=> t = <<>>
    BY <2>1, <2>2, LinksEnd
  <2> QED  BY <2>3
<1>7. pc' = [pc EXCEPT ![c] = IF t = <<>> THEN "idle" ELSE "deliver"]
  BY <1>1, <1>6
<1> DEFINE M == [L EXCEPT ![AtCur(c)] = t]
<1>8. Held(M, live')
  <2>1. Held(L, live) /\ Range(t) \cap live \subseteq Range(s)
    BY <1>5, OnListsIs
  <2>2. Held(M, (live \ Range(s)) \cup Range(t))
    BY <1>2, <1>5, <2>1, HeldChange
  <2>3. (live \ Range(s)) \cup Range(t) = live \ {n}
    BY <1>3, <1>4, <1>5
  <2> QED  BY <1>1, <2>2, <2>3
<1>9. M[AtCur(c)] = t /\ \A o \in Holder \ {AtCur(c)} : M[o] = L[o]
  BY <1>2, OnListsIs
<1> HIDE DEF M
<1>10. HeadAt(M)'
  BY <1>1, <1>2, <1>9, OnListsIs, HeadUntouched
<1>11. SweepAt(M, c)'
  <2>1. cur'[c] = next[n] /\ pc'[c] = IF t = <<>> THEN "idle" ELSE "deliver"
    BY <1>1, <1>7, SoundIs
  <2>2. M[AtPrev(c)] = <<>>
    BY <1>2, <1>3, <1>9
  <2> QED  BY <1>1, <1>4, <1>9, <2>1, <2>2 DEF SweepAt
<1>12. OnLists(M)'
  <2>1. \A u \in Producers \cup Consumers : u # c => pc'[u] = pc[u]
    BY <1>1, SoundIs
  <2>2. \A d \in Consumers : d # c => cur'[d] = cur[d] /\ prev'[d] = prev[d]
    BY <1>1, SoundIs
  <2> QED  BY <1>1, <1>8, <1>9, <1>10, <1>11, <2>1, <2>2, SweeperSteps
<1>13. Sound'
  <2>1. data[n] \in Stack!Value /\ next[n] \in Nodes \cup {null}
    BY <1>3, <1>4, SoundIs
  <2>2. delivered' \in [Consumers -> Seq(Stack!Value)]
    BY <1>1, <2>1, SoundIs
  <2>3. Stack!TypeOK'
    BY <1>1, <1>7, <2>1, <2>2, SoundIs DEF Stack!TypeOK, Stack!Pointer, Stack!Threads
  <2> QED  BY <1>1, <1>7, <2>3, SoundIs, StaysSound
<1> QED  BY <1>1, <1>3, <1>4, <1>7, <1>12, <1>13 DEF M

LEMMA ChainsAre ==
  ASSUME ComponentsAssumption, NEW L, OnLists(L)
  PROVE  /\ Stack!Chain(head) = L[OnHead]
         /\ \A c \in Consumers : /\ pc[c] \in {"reverse", "deliver"} => Stack!Chain(cur[c]) = L[AtCur(c)]
                                 /\ pc[c] = "reverse" => Stack!Chain(prev[c]) = L[AtPrev(c)]
<1>1. \A o \in Holder : L[o] \in Seq(Nodes) /\ NoRepeat(L[o])
  BY OnListsIs
<1>2. \A n : \A o \in Holder : Links(next, null, n, L[o]) => Stack!Chain(n) = L[o]
  BY <1>1, ListedChain, SameFunctions
<1>3. Stack!Chain(head) = L[OnHead]
  BY <1>2, OnListsIs, HoldersApart DEF HeadAt
<1>4. ASSUME NEW c \in Consumers
      PROVE  /\ pc[c] \in {"reverse", "deliver"} => Stack!Chain(cur[c]) = L[AtCur(c)]
             /\ pc[c] = "reverse" => Stack!Chain(prev[c]) = L[AtPrev(c)]
  BY <1>2, OnListsIs, HoldersApart DEF SweepAt
<1> QED  BY <1>3, <1>4

LEMMA DestroyStep ==
  ASSUME ComponentsAssumption, Sound, NEW L, OnLists(L), Stack!Destroy
  PROVE  /\ Sound' /\ UNCHANGED <<data, delivered>> /\ \A c \in Consumers : pc[c] = "idle"
         /\ \A t \in Stack!Threads : pc[t] = "idle" /\ pc'[t] = "gone"
         /\ OnLists([L EXCEPT ![OnHead] = <<>>])'
<1>1. /\ \A t \in Stack!Threads : pc[t] = "idle"
      /\ pc' = [t \in Stack!Threads |-> "gone"]
      /\ live' = live \ Range(Stack!Chain(head)) /\ head' = null
      /\ UNCHANGED <<data, next, mine, count, cur, prev, delivered>>
  BY SameFunctions DEF Stack!Destroy, Stack!local
<1>2. Stack!Threads = Producers \cup Consumers
  BY DEF Stack!Threads
<1>3. Sound'
  <2>1. Stack!TypeOK'
    BY <1>1, <1>2, SoundIs DEF Stack!TypeOK, Stack!Pointer, Stack!Threads
  <2> QED  BY <1>1, <1>2, <2>1, SoundIs DEF Sound
<1> PICK z : z = <<>>
  OBVIOUS
<1> DEFINE M == [L EXCEPT ![OnHead] = z]
<1>4. /\ z \in Seq(Nodes) /\ NoRepeat(z) /\ Range(z) = {} /\ OnHead \in Holder
  BY EmptyList, HoldersApart
<1>5. Held(M, live')
  <2>1. Held(M, (live \ Range(L[OnHead])) \cup Range(z))
    BY <1>4, OnListsIs, HeldChange
  <2> QED  BY <1>1, <1>4, <2>1, ChainsAre
<1>6. M[OnHead] = <<>> /\ \A o \in Holder \ {OnHead} : M[o] = L[o]
  BY <1>4, OnListsIs
<1> HIDE DEF M
<1>7. HeadAt(M)'
  BY <1>1, <1>6 DEF HeadAt, Links
<1>8. ASSUME NEW p \in Producers PROVE PushAt(M, p)'
  <2>1. M[InPush(p)] = L[InPush(p)] /\ pc[p] = "idle" /\ pc'[p] = "gone"
    BY <1>1, <1>2, <1>6, HoldersApart
  <2> QED  BY <1>1, <2>1, OnListsIs DEF PushAt
<1>9. ASSUME NEW c \in Consumers PROVE SweepAt(M, c)'
  <2>1. /\ M[AtCur(c)] = L[AtCur(c)] /\ M[AtPrev(c)] = L[AtPrev(c)]
        /\ pc[c] = "idle" /\ pc'[c] = "gone"
    BY <1>1, <1>2, <1>6, HoldersApart
  <2> QED  BY <1>1, <2>1, OnListsIs DEF SweepAt
<1>10. OnLists(M)'
  BY <1>5, <1>7, <1>8, <1>9 DEF OnLists
<1> QED  BY <1>1, <1>2, <1>3, <1>10 DEF M

LEMMA StackInit ==
  ASSUME ComponentsAssumption, Stack!Init
  PROVE  Sound /\ OnLists([o \in Holder |-> <<>>])
<1>1. /\ head = null /\ live = {} /\ data = [n \in Nodes |-> null] /\ next = [n \in Nodes |-> null]
      /\ pc = [t \in Producers \cup Consumers |-> "idle"]
      /\ mine = [p \in Producers |-> null] /\ count = [p \in Producers |-> 0]
      /\ cur = [c \in Consumers |-> null] /\ prev = [c \in Consumers |-> null]
      /\ delivered = [c \in Consumers |-> <<>>]
  BY DEF Stack!Init, Stack!Threads
<1>2. Stack!TypeOK
  BY <1>1, StackConstants DEF Stack!TypeOK, Stack!Pointer, Stack!Threads
<1>3. Sound
  BY <1>1, <1>2 DEF Sound, Stack!Threads
<1> DEFINE L == [o \in Holder |-> <<>>]
<1>4. \A o \in Holder : L[o] = <<>>
  OBVIOUS
<1>5. Held(L, live)
  <2>1. L \in [Holder -> Seq(Nodes)]
    BY EmptyList
  <2>2. \A o \in Holder : Range(L[o]) = {} /\ NoRepeat(L[o])
    BY <1>4, EmptyList
  <2> QED  BY <1>1, <2>1, <2>2 DEF Held
<1> HIDE DEF L
<1>6. HeadAt(L) /\ \A p \in Producers : PushAt(L, p)
  BY <1>1, <1>4, HoldersApart DEF HeadAt, PushAt, Links
<1>7. \A c \in Consumers : SweepAt(L, c)
  BY <1>1, <1>4, HoldersApart DEF SweepAt
<1> QED  BY <1>3, <1>5, <1>6, <1>7 DEF OnLists, L

LEMMA StackStep ==
  ASSUME ComponentsAssumption, StackInv, Stack!Next
  PROVE  StackInv'
<1> PICK L : OnLists(L)
  BY DEF StackInv
<1>1. Sound
  BY DEF StackInv
<1>2. CASE Stack!Destroy
  BY <1>1, <1>2, DestroyStep DEF StackInv
<1>3. ASSUME NEW p \in Producers, Stack!NewNode(p) PROVE StackInv'
  BY <1>1, <1>3, NewNodeStep DEF StackInv
<1>4. ASSUME NEW p \in Producers, Stack!PushSucceeds(p) PROVE StackInv'
  BY <1>1, <1>4, PushSucceedsStep DEF StackInv
<1>5. ASSUME NEW p \in Producers, Stack!PushFails(p) PROVE StackInv'
  BY <1>1, <1>5, PushFailsStep DEF StackInv
<1>6. ASSUME NEW c \in Consumers, Stack!LoadHead(c) \/ Stack!StealFails(c) PROVE StackInv'
  BY <1>1, <1>6, LoadHeadStep DEF StackInv
<1>7. ASSUME NEW c \in Consumers, Stack!StealSucceeds(c) PROVE StackInv'
  BY <1>1, <1>7, StealSucceedsStep DEF StackInv
<1>8. ASSUME NEW c \in Consumers, Stack!Reverse1(c) PROVE StackInv'
  BY <1>1, <1>8, TurnStep, TurnedStep DEF StackInv
<1>9. ASSUME NEW c \in Consumers, Stack!DeliverNode(c) PROVE StackInv'
  BY <1>1, <1>9, DeliverNodeStep DEF StackInv
<1> QED  BY <1>2, <1>3, <1>4, <1>5, <1>6, <1>7, <1>8, <1>9 DEF Stack!Next

LEMMA StackStutters ==
  ASSUME StackInv, UNCHANGED stackVars
  PROVE  StackInv'
<1> PICK L : OnLists(L)
  BY DEF StackInv
<1>1. UNCHANGED <<head, live, data, next, pc, mine, count, cur, prev, delivered>>
  BY DEF stackVars
<1>2. OnLists(L)'
  BY <1>1 DEF OnLists, Held, HeadAt, PushAt, SweepAt
<1>3. Sound'
  BY <1>1 DEF StackInv, Sound, Stack!TypeOK, Stack!Pointer, Stack!Threads
<1> QED  BY <1>2, <1>3 DEF StackInv

LEMMA StackInvariance ==
  ASSUME ComponentsAssumption
  PROVE  MCSpec => []StackInv
<1>1. MCInit => StackInv
  BY StackInit DEF MCInit, StackInv
<1>2. StackInv /\ [MCNext]_allVars => StackInv'
  <2> SUFFICES ASSUME StackInv, [MCNext]_allVars PROVE StackInv'
    OBVIOUS
  <2>1. CASE Stack!Next
    BY <2>1, StackStep
  <2>2. CASE UNCHANGED stackVars
    BY <2>2, StackStutters
  <2> QED  BY <2>1, <2>2 DEF MCNext, allVars, StackGone
<1> QED  BY <1>1, <1>2, PTL DEF MCSpec

(* Every node that is allocated is held by one owner: the list under       *)
(* _head, one sweep, or one push that is not done; none is in a list twice *)
(* and none that is freed is in any, though an address may be allocated    *)
(* again while a compare-exchange still compares with it.                  *)
THEOREM EveryNodeHasOneOwner ==
  ASSUME ComponentsAssumption
  PROVE  MCSpec => []OneOwner
<1>1. ASSUME StackInv
      PROVE  OneOwner
  <2> PICK L : OnLists(L)
    BY <1>1 DEF StackInv
  <2> DEFINE Own(c) == L[AtCur(c)] \o L[AtPrev(c)]
             Owners(n) == {c \in Consumers : n \in Range(Stack!Owned(c))}
                            \cup {p \in Producers : mine[p] = n}
                            \cup {h \in {null} : n \in Range(Stack!Chain(head))}
  <2>1. ASSUME NEW c \in Consumers
        PROVE  /\ AtCur(c) \in Holder /\ AtPrev(c) \in Holder
               /\ L[AtCur(c)] \in Seq(Nodes) /\ NoRepeat(L[AtCur(c)])
               /\ L[AtPrev(c)] \in Seq(Nodes) /\ NoRepeat(L[AtPrev(c)])
               /\ Range(L[AtCur(c)]) \cap Range(L[AtPrev(c)]) = {}
    <3>1. AtCur(c) \in Holder /\ AtPrev(c) \in Holder /\ AtCur(c) # AtPrev(c)
      BY HoldersApart
    <3> QED  BY <3>1, OnListsIs
  <2>2. ASSUME NEW c \in Consumers PROVE Stack!Owned(c) = Own(c)
    <3>1. \A s \in Seq(Nodes) : s \o <<>> = s
      OBVIOUS
    <3>2. CASE pc[c] = "reverse"
      BY <3>2, ChainsAre DEF Stack!Owned
    <3>3. CASE pc[c] = "deliver"
      <4>1. L[AtPrev(c)] = <<>>
        BY <3>3, OnListsIs DEF SweepAt
      <4> QED  BY <2>1, <3>1, <3>3, <4>1, ChainsAre DEF Stack!Owned
    <3>4. CASE pc[c] \notin {"reverse", "deliver"}
      <4>1. L[AtPrev(c)] = <<>> /\ L[AtCur(c)] = <<>>
        BY <3>4, OnListsIs DEF SweepAt
      <4> QED  BY <3>1, <3>4, <4>1, EmptyList DEF Stack!Owned
    <3> QED  BY <3>2, <3>3, <3>4
  <2>3. ASSUME NEW c \in Consumers
        PROVE  /\ Own(c) \in Seq(Nodes) /\ NoRepeat(Own(c))
               /\ Range(Own(c)) = Range(L[AtCur(c)]) \cup Range(L[AtPrev(c)])
    BY <2>1, ListJoin
  <2>4. ASSUME NEW n \in Nodes, NEW p \in Producers
        PROVE  mine[p] = n <=> n \in Range(L[InPush(p)])
    <3>1. CASE pc[p] = "push"
      <4>1. L[InPush(p)] = <<mine[p]>> /\ mine[p] \in Nodes
        BY <3>1, OnListsIs DEF PushAt
      <4>2. Range(L[InPush(p)]) = {mine[p]}
        BY <4>1, SingleNode
      <4> QED  BY <4>2
    <3>2. CASE pc[p] # "push"
      <4>1. L[InPush(p)] = <<>> /\ mine[p] = null
        BY <3>2, OnListsIs DEF PushAt
      <4> QED  BY <4>1, EmptyList, StackConstants
    <3> QED  BY <3>1, <3>2
  <2>5. ASSUME NEW n \in Nodes
        PROVE  Cardinality(Owners(n)) = IF n \in live THEN 1 ELSE 0
    <3>1. \A c \in Consumers : n \in Range(Stack!Owned(c)) <=>
                                 n \in Range(L[AtCur(c)]) \/ n \in Range(L[AtPrev(c)])
      BY <2>2, <2>3
    <3>2. n \in Range(Stack!Chain(head)) <=> n \in Range(L[OnHead])
      BY ChainsAre
    <3>3. \A x : x \in Owners(n) <=>
            \/ x \in Consumers /\ (n \in Range(L[AtCur(x)]) \/ n \in Range(L[AtPrev(x)]))
            \/ x \in Producers /\ n \in Range(L[InPush(x)])
            \/ x = null /\ n \in Range(L[OnHead])
      BY <2>4, <3>1, <3>2
    <3> HIDE DEF Owners
    <3>4. CASE n \notin live
      <4>1. \A o \in Holder : n \notin Range(L[o])
        BY <3>4, OnListsIs
      <4>2. \A x : x \notin Owners(n)
        BY <3>3, <4>1, HoldersApart
      <4>3. Owners(n) = {}
        BY <4>2
      <4> QED  BY <3>4, <4>3, FS_EmptySet
    <3>5. CASE n \in live
      <4>0. PICK o \in Holder : n \in Range(L[o])
        BY <3>5, OnListsIs DEF Held
      <4>1. n \in Range(L[o]) /\ \A q \in Holder : n \in Range(L[q]) => q = o
        BY <4>0, OnListsIs
      <4>2. \E x : Owners(n) = {x}
        <5>1. CASE o = OnHead
          <6>1. \A x : x \in Owners(n) <=> x = null
            BY <3>3, <4>1, <5>1, HoldersApart
          <6> QED  BY <6>1
        <5>2. ASSUME NEW p \in Producers, o = InPush(p) PROVE \E x : Owners(n) = {x}
          <6>1. \A x : x \in Owners(n) <=> x = p
            BY <3>3, <4>1, <5>2, HoldersApart
          <6> QED  BY <6>1
        <5>3. ASSUME NEW c \in Consumers, o = AtCur(c) \/ o = AtPrev(c)
              PROVE  \E x : Owners(n) = {x}
          <6>1. \A x : x \in Owners(n) <=> x = c
            BY <3>3, <4>1, <5>3, HoldersApart
          <6> QED  BY <6>1
        <5> QED  BY <5>1, <5>2, <5>3, HoldersApart
      <4> QED  BY <3>5, <4>2, FS_Singleton
    <3> QED  BY <3>4, <3>5
  <2>6. /\ Stack!Chain(head) \in Seq(Nodes) /\ NoRepeat(Stack!Chain(head))
        /\ \A c \in Consumers : Stack!Owned(c) \in Seq(Nodes) /\ NoRepeat(Stack!Owned(c))
    <3>1. Stack!Chain(head) \in Seq(Nodes) /\ NoRepeat(Stack!Chain(head))
      BY ChainsAre, OnListsIs, HoldersApart
    <3>2. \A c \in Consumers : Stack!Owned(c) \in Seq(Nodes) /\ NoRepeat(Stack!Owned(c))
      <4> HIDE DEF Own
      <4> QED  BY <2>2, <2>3
    <3> QED  BY <3>1, <3>2
  <2>7. \A s \in Seq(Nodes) : NoRepeat(s) => Len(s) = Cardinality(Range(s))
    BY RangeCount DEF NoRepeat
  <2> QED  BY <2>5, <2>6, <2>7, SameFunctions DEF OneOwner, Stack!OneOwner
<1> QED  BY <1>1, StackInvariance, PTL

(* The queue that the lists are.                                           *)
LEMMA ReverseTwice ==
  ASSUME NEW V, NEW q \in Seq(V)
  PROVE  Reverse(q) \in Seq(V) /\ Reverse(Reverse(q)) = q
<1>1. /\ Reverse(q) \in Seq(V) /\ Len(Reverse(q)) = Len(q) /\ Len(q) \in Nat
      /\ \A i \in 1..Len(q) : Reverse(q)[i] = q[(Len(q) - i) + 1]
  BY ReverseType DEF Reverse
<1>2. Reverse(Reverse(q)) = q
  <2>1. /\ Reverse(Reverse(q)) \in Seq(V) /\ Len(Reverse(Reverse(q))) = Len(q)
        /\ \A i \in 1..Len(q) : Reverse(Reverse(q))[i] = Reverse(q)[(Len(q) - i) + 1]
    BY <1>1, ReverseType DEF Reverse
  <2>2. \A i \in 1..Len(q) : (Len(q) - i) + 1 \in 1..Len(q) /\ (Len(q) - ((Len(q) - i) + 1)) + 1 = i
    BY <1>1
  <2>3. \A i \in 1..Len(q) : Reverse(Reverse(q))[i] = q[i]
    BY <1>1, <2>1, <2>2
  <2> QED  BY <2>1, <2>3, SeqEqual
<1> QED  BY <1>1, <1>2

LEMMA ReverseIs ==
  ASSUME NEW V, NEW q \in Seq(V), NEW x \in V
  PROVE  /\ Reverse(q) \in Seq(V) /\ Reverse(Reverse(q)) = q
         /\ Reverse(<<x>> \o q) = Append(Reverse(q), x)
<1>1. /\ Reverse(q) \in Seq(V) /\ Len(Reverse(q)) = Len(q) /\ Len(q) \in Nat
      /\ \A i \in 1..Len(q) : Reverse(q)[i] = q[(Len(q) - i) + 1]
  BY ReverseType DEF Reverse
<1>2. Reverse(Reverse(q)) = q
  BY ReverseTwice
<1>3. Reverse(<<x>> \o q) = Append(Reverse(q), x)
  <2> DEFINE u == <<x>> \o q
             w == Append(Reverse(q), x)
  <2>1. /\ u \in Seq(V) /\ Len(u) = Len(q) + 1 /\ u[1] = x
        /\ \A i \in 2..(Len(q) + 1) : u[i] = q[i - 1]
    BY <1>1
  <2>2. /\ w \in Seq(V) /\ Len(w) = Len(q) + 1 /\ w[Len(q) + 1] = x
        /\ \A i \in 1..Len(q) : w[i] = Reverse(q)[i]
    BY <1>1
  <2> HIDE DEF u, w
  <2>3. /\ Reverse(u) \in Seq(V) /\ Len(Reverse(u)) = Len(q) + 1
        /\ \A i \in 1..(Len(q) + 1) : Reverse(u)[i] = u[((Len(q) + 1) - i) + 1]
    BY <1>1, <2>1, ReverseType DEF Reverse
  <2>4. ASSUME NEW i \in 1..(Len(q) + 1) PROVE Reverse(u)[i] = w[i]
    <3>1. CASE i = Len(q) + 1
      BY <1>1, <2>1, <2>2, <2>3, <3>1
    <3>2. CASE i # Len(q) + 1
      <4>1. i \in 1..Len(q) /\ ((Len(q) + 1) - i) + 1 \in 2..(Len(q) + 1)
            /\ (((Len(q) + 1) - i) + 1) - 1 = (Len(q) - i) + 1
        BY <1>1, <3>2
      <4>2. Reverse(u)[i] = q[(Len(q) - i) + 1]
        BY <2>1, <2>3, <4>1
      <4> QED  BY <1>1, <2>2, <4>1, <4>2
    <3> QED  BY <3>1, <3>2
  <2>5. Reverse(u) = w
    BY <1>1, <2>2, <2>3, <2>4, SeqEqual
  <2> QED  BY <2>5 DEF u, w
<1> QED  BY <1>1, <1>2, <1>3

Carries(dt, s, V) == \A m \in Range(s) : dt[m] \in V

LEMMA ValuesAre ==
  ASSUME NEW V, NEW s \in Seq(Nodes), NEW dt, Carries(dt, s, V)
  PROVE  /\ ValuesOf(dt, s) \in Seq(V) /\ Len(ValuesOf(dt, s)) = Len(s)
         /\ \A i \in 1..Len(s) : ValuesOf(dt, s)[i] = dt[s[i]]
<1>1. Len(s) \in Nat /\ \A i \in 1..Len(s) : s[i] \in Range(s)
  BY RangeOfList
<1> QED  BY <1>1 DEF ValuesOf, Carries

LEMMA ValuesKept ==
  ASSUME NEW s \in Seq(Nodes), NEW dt, NEW dt2, \A m \in Range(s) : dt2[m] = dt[m]
  PROVE  ValuesOf(dt2, s) = ValuesOf(dt, s)
<1>1. \A i \in 1..Len(s) : s[i] \in Range(s)
  BY RangeOfList
<1> QED  BY <1>1 DEF ValuesOf

LEMMA ValuesPush ==
  ASSUME NEW s \in Seq(Nodes), NEW n \in Nodes, NEW dt
  PROVE  ValuesOf(dt, <<n>> \o s) = <<dt[n]>> \o ValuesOf(dt, s)
<1> PICK V : V = {dt[m] : m \in Range(s) \cup {n}}
  OBVIOUS
<1>0. Carries(dt, s, V) /\ dt[n] \in V
  BY DEF Carries
<1> DEFINE t == <<n>> \o s
           u == <<dt[n]>> \o ValuesOf(dt, s)
<1>1. /\ t \in Seq(Nodes) /\ Len(s) \in Nat /\ Len(t) = Len(s) + 1 /\ t[1] = n
      /\ \A i \in 2..(Len(s) + 1) : t[i] = s[i - 1]
  OBVIOUS
<1>2. /\ ValuesOf(dt, s) \in Seq(V) /\ Len(ValuesOf(dt, s)) = Len(s)
      /\ \A i \in 1..Len(s) : ValuesOf(dt, s)[i] = dt[s[i]]
  BY <1>0, ValuesAre
<1>3. /\ u \in Seq(V) /\ Len(u) = Len(s) + 1 /\ u[1] = dt[n]
      /\ \A i \in 2..(Len(s) + 1) : u[i] = ValuesOf(dt, s)[i - 1]
  BY <1>0, <1>2
<1> HIDE DEF t, u
<1>4. ASSUME NEW i \in 1..(Len(s) + 1) PROVE dt[t[i]] = u[i] /\ dt[t[i]] \in V
  <2>1. CASE i = 1
    BY <1>0, <1>1, <1>3, <2>1
  <2>2. CASE i # 1
    <3>1. i \in 2..(Len(s) + 1) /\ i - 1 \in 1..Len(s)
      BY <1>1, <2>2
    <3>2. s[i - 1] \in Range(s)
      BY <3>1, RangeOfList
    <3> QED  BY <1>0, <1>1, <1>2, <1>3, <3>1, <3>2 DEF Carries
  <2> QED  BY <2>1, <2>2
<1>5. /\ ValuesOf(dt, t) \in Seq(V) /\ Len(ValuesOf(dt, t)) = Len(s) + 1
      /\ \A i \in 1..(Len(s) + 1) : ValuesOf(dt, t)[i] = dt[t[i]]
  BY <1>1, <1>4 DEF ValuesOf
<1>6. ValuesOf(dt, t) = u
  BY <1>3, <1>4, <1>5, SeqEqual
<1> QED  BY <1>6 DEF t, u

(* The values along s are that of its first node and those along the rest. *)
Splits(dt, s, V) ==
  /\ Head(s) \in Nodes /\ dt[Head(s)] \in V
  /\ ValuesOf(dt, Tail(s)) \in Seq(V)
  /\ ValuesOf(dt, s) = <<dt[Head(s)]>> \o ValuesOf(dt, Tail(s))

LEMMA ValuesSplit ==
  ASSUME NEW V, NEW s \in Seq(Nodes), s # <<>>, NEW dt, Carries(dt, s, V)
  PROVE  Splits(dt, s, V)
<1>1. PICK n, t : n = Head(s) /\ t = Tail(s)
  OBVIOUS
<1>2. /\ n \in Nodes /\ t \in Seq(Nodes) /\ Range(s) = {n} \cup Range(t) /\ s = <<n>> \o t
  <2>1. s = <<Head(s)>> \o Tail(s)
    OBVIOUS
  <2> QED  BY <1>1, <2>1, HeadTailRange
<1>3. dt[n] \in V /\ Carries(dt, t, V)
  BY <1>2 DEF Carries
<1>4. ValuesOf(dt, t) \in Seq(V)
  BY <1>2, <1>3, ValuesAre
<1>5. ValuesOf(dt, <<n>> \o t) = <<dt[n]>> \o ValuesOf(dt, t)
  BY <1>2, ValuesPush
<1> QED  BY <1>1, <1>2, <1>3, <1>4, <1>5 DEF Splits

LEMMA SplitIs ==
  ASSUME NEW V, NEW s, NEW dt, Splits(dt, s, V)
  PROVE  /\ ValuesOf(dt, s) # <<>> /\ Head(ValuesOf(dt, s)) = dt[Head(s)]
         /\ Tail(ValuesOf(dt, s)) = ValuesOf(dt, Tail(s))
<1>1. \A q \in Seq(V), x \in V : /\ <<x>> \o q # <<>> /\ Head(<<x>> \o q) = x
                                 /\ Tail(<<x>> \o q) = q
  OBVIOUS
<1> QED  BY <1>1 DEF Splits

(* What a sweep that has turned r round, and not yet s, will hand on.      *)
InOrder(dt, s, r) == Reverse(ValuesOf(dt, s)) \o ValuesOf(dt, r)

LEMMA ValuesTurn ==
  ASSUME NEW V, NEW s \in Seq(Nodes), s # <<>>, NEW r \in Seq(Nodes), NEW dt,
         Carries(dt, s, V), Carries(dt, r, V)
  PROVE  InOrder(dt, Tail(s), <<Head(s)>> \o r) = InOrder(dt, s, r)
<1>1. Splits(dt, s, V)
  BY ValuesSplit
<1>2. ValuesOf(dt, r) \in Seq(V)
  BY ValuesAre
<1>3. PICK n, x, a, b : /\ n = Head(s) /\ x = dt[n]
                        /\ a = ValuesOf(dt, Tail(s)) /\ b = ValuesOf(dt, r)
  OBVIOUS
<1>4. n \in Nodes /\ x \in V /\ a \in Seq(V) /\ b \in Seq(V) /\ ValuesOf(dt, s) = <<x>> \o a
  BY <1>1, <1>2, <1>3 DEF Splits
<1>5. ValuesOf(dt, <<n>> \o r) = <<x>> \o b
  BY <1>3, <1>4, ValuesPush
<1>6. Reverse(a) \in Seq(V) /\ Reverse(<<x>> \o a) = Append(Reverse(a), x)
  BY <1>4, ReverseIs
<1>7. \A p, q \in Seq(V) : p \o (<<x>> \o q) = Append(p, x) \o q
  <2>1. <<x>> \in Seq(V)
    BY <1>4
  <2> SUFFICES ASSUME NEW p \in Seq(V), NEW q \in Seq(V)
               PROVE  p \o (<<x>> \o q) = Append(p, x) \o q
    OBVIOUS
  <2>2. Append(p, x) = p \o <<x>>
    BY <1>4, AppendIsConcat
  <2>3. (p \o <<x>>) \o q = p \o (<<x>> \o q)
    BY <2>1, ConcatAssociative
  <2> QED  BY <2>2, <2>3
<1>8. Reverse(a) \o (<<x>> \o b) = Append(Reverse(a), x) \o b
  BY <1>4, <1>6, <1>7
<1> QED  BY <1>3, <1>4, <1>5, <1>6, <1>8 DEF InOrder

QueueOf(dt, L) == Reverse(ValuesOf(dt, L[OnHead]))

BatchOf(dt, L, w) ==
  [c \in Consumers |->
     IF w[c] = "reverse" THEN InOrder(dt, L[AtCur(c)], L[AtPrev(c)])
     ELSE ValuesOf(dt, L[AtCur(c)])]

LEMMA EmptyValues ==
  ASSUME NEW dt
  PROVE  ValuesOf(dt, <<>>) = <<>> /\ Reverse(<<>>) = <<>> /\ <<>> \o <<>> = <<>>
<1>1. Len(<<>>) = 0 /\ 1..0 = {} /\ \A f : DOMAIN [i \in 1..0 |-> f] = {}
  OBVIOUS
<1>2. ValuesOf(dt, <<>>) = <<>>
  BY <1>1 DEF ValuesOf
<1>3. Reverse(<<>>) = <<>>
  BY <1>1 DEF Reverse
<1> QED  BY <1>2, <1>3

LEMMA BarsAre ==
  ASSUME ComponentsAssumption
  PROVE  \A L : OnLists(L) => /\ Stack!queueBar = QueueOf(data, L)
                              /\ Stack!batchBar = BatchOf(data, L, pc)
<1> SUFFICES ASSUME NEW L, OnLists(L)
             PROVE  /\ Stack!queueBar = QueueOf(data, L)
                    /\ Stack!batchBar = BatchOf(data, L, pc)
  OBVIOUS
<1>1. Stack!queueBar = QueueOf(data, L)
  BY ChainsAre, SameFunctions DEF Stack!queueBar, QueueOf
<1>2. Stack!batchBar = BatchOf(data, L, pc)
  <2> DEFINE B(c) == CASE pc[c] = "reverse" -> Reverse(ValuesOf(data, Stack!Chain(cur[c])))
                                                 \o ValuesOf(data, Stack!Chain(prev[c]))
                       [] pc[c] = "deliver" -> ValuesOf(data, Stack!Chain(cur[c]))
                       [] OTHER             -> <<>>
  <2>1. Stack!batchBar = [c \in Consumers |-> B(c)]
    BY SameFunctions DEF Stack!batchBar
  <2>2. ASSUME NEW c \in Consumers PROVE B(c) = BatchOf(data, L, pc)[c]
    <3>1. CASE pc[c] \in {"reverse", "deliver"}
      BY <3>1, ChainsAre DEF BatchOf, InOrder
    <3>2. CASE pc[c] \notin {"reverse", "deliver"}
      <4>1. L[AtCur(c)] = <<>>
        BY <3>2, OnListsIs DEF SweepAt
      <4> QED  BY <3>2, <4>1, EmptyValues DEF BatchOf
    <3> QED  BY <3>1, <3>2
  <2> HIDE DEF B
  <2> QED  BY <2>1, <2>2 DEF BatchOf
<1> QED  BY <1>1, <1>2

LEMMA BarsBecome ==
  ASSUME ComponentsAssumption
  PROVE  \A L : OnLists(L)' => /\ Stack!queueBar' = QueueOf(data', L)
                               /\ Stack!batchBar' = BatchOf(data', L, pc')
<1>1. (\A L : OnLists(L) => /\ Stack!queueBar = QueueOf(data, L)
                            /\ Stack!batchBar = BatchOf(data, L, pc))'
  BY BarsAre, PTL
<1> QED  BY <1>1

(* What becomes of the queue when the lists change.                        *)
Open == \A t \in Stack!Threads : pc[t] # "gone"

LEMMA QueueMoves ==
  /\ \A x \in Stack!Value :
       /\ Open /\ Open' /\ Stack!queueBar' = Append(Stack!queueBar, x)
       /\ Stack!batchBar' = Stack!batchBar /\ delivered' = delivered
       => Stack!Queue!Next
  /\ \A c \in Consumers :
       /\ Open /\ Open' /\ Stack!batchBar[c] = <<>> /\ Stack!queueBar' = <<>>
       /\ Stack!batchBar' = [Stack!batchBar EXCEPT ![c] =
                               IF c \in Ordered THEN Stack!queueBar ELSE Reverse(Stack!queueBar)]
       /\ delivered' = delivered
       => Stack!Queue!Next
  /\ \A c \in Consumers :
       /\ Open /\ Open' /\ Stack!batchBar[c] # <<>> /\ Stack!queueBar' = Stack!queueBar
       /\ Stack!batchBar' = [Stack!batchBar EXCEPT ![c] = Tail(@)]
       /\ delivered' = [delivered EXCEPT ![c] = Append(@, Head(Stack!batchBar[c]))]
       => Stack!Queue!Next
  /\ /\ Open /\ ~Open' /\ \A c \in Consumers : Stack!batchBar[c] = <<>>
     /\ Stack!queueBar' = <<>> /\ Stack!batchBar' = Stack!batchBar /\ delivered' = delivered
     => Stack!Queue!Next
  /\ /\ Open' = Open /\ Stack!queueBar' = Stack!queueBar
     /\ Stack!batchBar' = Stack!batchBar /\ delivered' = delivered
     => UNCHANGED Stack!Queue!qvars
<1>1. ASSUME NEW x \in Stack!Value, Open, Open', Stack!queueBar' = Append(Stack!queueBar, x),
             Stack!batchBar' = Stack!batchBar, delivered' = delivered
      PROVE  Stack!Queue!Next
  BY <1>1 DEF Open, Stack!Queue!Next, Stack!Queue!Push
<1>2. ASSUME NEW c \in Consumers, Open, Open', Stack!batchBar[c] = <<>>, Stack!queueBar' = <<>>,
             Stack!batchBar' = [Stack!batchBar EXCEPT ![c] =
                                  IF c \in Ordered THEN Stack!queueBar ELSE Reverse(Stack!queueBar)],
             delivered' = delivered
      PROVE  Stack!Queue!Next
  BY <1>2, SameFunctions DEF Open, Stack!Queue!Next, Stack!Queue!TakeAll
<1>3. ASSUME NEW c \in Consumers, Open, Open', Stack!batchBar[c] # <<>>,
             Stack!queueBar' = Stack!queueBar,
             Stack!batchBar' = [Stack!batchBar EXCEPT ![c] = Tail(@)],
             delivered' = [delivered EXCEPT ![c] = Append(@, Head(Stack!batchBar[c]))]
      PROVE  Stack!Queue!Next
  BY <1>3 DEF Open, Stack!Queue!Next, Stack!Queue!Deliver
<1>4. ASSUME Open, ~Open', \A c \in Consumers : Stack!batchBar[c] = <<>>,
             Stack!queueBar' = <<>>, Stack!batchBar' = Stack!batchBar, delivered' = delivered
      PROVE  Stack!Queue!Next
  BY <1>4 DEF Open, Stack!Queue!Next, Stack!Queue!Destroy
<1>5. ASSUME Open' = Open, Stack!queueBar' = Stack!queueBar,
             Stack!batchBar' = Stack!batchBar, delivered' = delivered
      PROVE  UNCHANGED Stack!Queue!qvars
  BY <1>5 DEF Open, Stack!Queue!qvars
<1> QED  BY <1>1, <1>2, <1>3, <1>4, <1>5

LEMMA ThreadStepsOpen ==
  ASSUME Sound, NEW t \in Producers \cup Consumers, pc[t] # "gone",
         NEW w, w # "gone", pc' = [pc EXCEPT ![t] = w]
  PROVE  Open /\ Open'
<1>1. Stack!Threads = Producers \cup Consumers
  BY DEF Stack!Threads
<1>2. \A u \in Producers \cup Consumers : pc[u] # "gone"
  BY <1>1 DEF Sound
<1>3. \A u \in Producers \cup Consumers : pc'[u] # "gone"
  BY <1>2, SoundIs
<1> QED  BY <1>1, <1>2, <1>3 DEF Open

LEMMA ListsCarry ==
  ASSUME Sound, NEW L, OnLists(L)
  PROVE  \A o \in Holder : L[o] \in Seq(Nodes) /\ Carries(data, L[o], Stack!Value)
BY OnListsIs, SoundIs DEF Carries

LEMMA NewNodeRefines ==
  ASSUME ComponentsAssumption, Sound, NEW L, OnLists(L),
         NEW p \in Producers, Stack!NewNode(p)
  PROVE  UNCHANGED Stack!Queue!qvars
<1>1. /\ pc[p] = "idle" /\ pc' = [pc EXCEPT ![p] = "push"] /\ delivered' = delivered
  BY DEF Stack!NewNode, Stack!Goto
<1>2. PICK n \in Nodes \ live : /\ OnLists([L EXCEPT ![InPush(p)] = <<n>>])'
                                /\ \A m \in live : data'[m] = data[m]
  BY NewNodeStep
<1> PICK M : M = [L EXCEPT ![InPush(p)] = <<n>>]
  OBVIOUS
<1>3. \A o \in Holder : o # InPush(p) => M[o] = L[o]
  BY OnListsIs
<1>4. \A o \in Holder : o # InPush(p) => ValuesOf(data', M[o]) = ValuesOf(data, L[o])
  <2>1. \A o \in Holder : ValuesOf(data', L[o]) = ValuesOf(data, L[o])
    BY <1>2, OnListsIs, ValuesKept
  <2> QED  BY <1>3, <2>1
<1>5. \A c \in Consumers : pc'[c] = pc[c]
  BY <1>1, SoundIs, StackConstants
<1>6. Open' = Open
  <2>1. Open /\ Open'
    BY <1>1, ThreadStepsOpen
  <2> QED  BY <2>1
<1>7. QueueOf(data', M) = QueueOf(data, L)
  BY <1>4, HoldersApart DEF QueueOf
<1>8. BatchOf(data', M, pc') = BatchOf(data, L, pc)
  <2>1. ASSUME NEW c \in Consumers PROVE BatchOf(data', M, pc')[c] = BatchOf(data, L, pc)[c]
    <3>1. /\ ValuesOf(data', M[AtCur(c)]) = ValuesOf(data, L[AtCur(c)])
          /\ ValuesOf(data', M[AtPrev(c)]) = ValuesOf(data, L[AtPrev(c)])
      BY <1>4, HoldersApart
    <3> QED  BY <1>5, <3>1 DEF BatchOf, InOrder
  <2>2. /\ BatchOf(data', M, pc') = [c \in Consumers |-> BatchOf(data', M, pc')[c]]
        /\ BatchOf(data, L, pc) = [c \in Consumers |-> BatchOf(data, L, pc)[c]]
    BY DEF BatchOf
  <2> QED  BY <2>1, <2>2
<1>9. Stack!queueBar' = Stack!queueBar /\ Stack!batchBar' = Stack!batchBar
  <2>1. Stack!queueBar = QueueOf(data, L) /\ Stack!batchBar = BatchOf(data, L, pc)
    BY BarsAre
  <2>2. Stack!queueBar' = QueueOf(data', M) /\ Stack!batchBar' = BatchOf(data', M, pc')
    BY <1>2, BarsBecome
  <2> QED  BY <1>7, <1>8, <2>1, <2>2
<1> QED  BY <1>1, <1>6, <1>9, QueueMoves

LEMMA PushSucceedsRefines ==
  ASSUME ComponentsAssumption, Sound, NEW L, OnLists(L),
         NEW p \in Producers, Stack!PushSucceeds(p)
  PROVE  Stack!Queue!Next
<1>1. /\ pc[p] = "push" /\ pc' = [pc EXCEPT ![p] = "idle"] /\ UNCHANGED <<data, delivered>>
  BY DEF Stack!PushSucceeds, Stack!Goto, Stack!heap
<1>2. PICK n \in live :
        OnLists([L EXCEPT ![OnHead] = <<n>> \o L[OnHead], ![InPush(p)] = <<>>])'
  BY PushSucceedsStep
<1> PICK M, h : M = [L EXCEPT ![OnHead] = <<n>> \o h, ![InPush(p)] = <<>>] /\ h = L[OnHead]
  OBVIOUS
<1>3. /\ M[OnHead] = <<n>> \o h /\ \A o \in Holder \ {OnHead, InPush(p)} : M[o] = L[o]
      /\ OnLists(M)'
  BY <1>2, OnListsIs, HoldersApart
<1>4. \A c \in Consumers : pc'[c] = pc[c]
  BY <1>1, SoundIs, StackConstants
<1>5. Open /\ Open'
  BY <1>1, SoundIs, ThreadStepsOpen
<1> PICK x : x = data[n]
  OBVIOUS
<1>6. /\ x \in Stack!Value /\ n \in Nodes /\ h \in Seq(Nodes) /\ Carries(data, h, Stack!Value)
  BY <1>2, SoundIs, ListsCarry, HoldersApart
<1>7. QueueOf(data, M) = Append(QueueOf(data, L), x)
  <2>1. ValuesOf(data, <<n>> \o h) = <<data[n]>> \o ValuesOf(data, h)
    BY <1>6, ValuesPush
  <2>2. ValuesOf(data, h) \in Seq(Stack!Value)
    BY <1>6, ValuesAre
  <2>3. Reverse(<<x>> \o ValuesOf(data, h)) = Append(Reverse(ValuesOf(data, h)), x)
    BY <1>6, <2>2, ReverseIs
  <2> QED  BY <1>3, <2>1, <2>3 DEF QueueOf
<1>8. BatchOf(data, M, pc') = BatchOf(data, L, pc)
  <2>1. ASSUME NEW c \in Consumers PROVE BatchOf(data, M, pc')[c] = BatchOf(data, L, pc)[c]
    <3>1. M[AtCur(c)] = L[AtCur(c)] /\ M[AtPrev(c)] = L[AtPrev(c)]
      BY <1>3, HoldersApart
    <3> QED  BY <1>4, <3>1 DEF BatchOf
  <2>2. /\ BatchOf(data, M, pc') = [c \in Consumers |-> BatchOf(data, M, pc')[c]]
        /\ BatchOf(data, L, pc) = [c \in Consumers |-> BatchOf(data, L, pc)[c]]
    BY DEF BatchOf
  <2> QED  BY <2>1, <2>2
<1>9. Stack!queueBar' = Append(Stack!queueBar, x) /\ Stack!batchBar' = Stack!batchBar
  <2>1. Stack!queueBar = QueueOf(data, L) /\ Stack!batchBar = BatchOf(data, L, pc)
    BY BarsAre
  <2>2. Stack!queueBar' = QueueOf(data', M) /\ Stack!batchBar' = BatchOf(data', M, pc')
    BY <1>3, BarsBecome
  <2> QED  BY <1>1, <1>7, <1>8, <2>1, <2>2
<1> QED  BY <1>1, <1>5, <1>6, <1>9, QueueMoves

LEMMA RetryRefines ==
  ASSUME ComponentsAssumption, Sound, NEW L, OnLists(L),
         \/ \E p \in Producers : Stack!PushFails(p)
         \/ \E c \in Consumers : Stack!LoadHead(c) \/ Stack!StealFails(c)
  PROVE  UNCHANGED Stack!Queue!qvars
<1>1. /\ UNCHANGED <<data, delivered>> /\ OnLists(L)' /\ Open' = Open
      /\ \A c \in Consumers : pc'[c] = "reverse" <=> pc[c] = "reverse"
  <2>1. ASSUME NEW p \in Producers, Stack!PushFails(p)
        PROVE  <1>1
    <3>1. UNCHANGED <<data, delivered, pc>>
      BY <2>1 DEF Stack!PushFails
    <3> QED  BY <2>1, <3>1, PushFailsStep DEF Open
  <2>2. ASSUME NEW c \in Consumers, Stack!LoadHead(c) \/ Stack!StealFails(c)
        PROVE  <1>1
    <3>1. /\ UNCHANGED <<data, delivered>> /\ pc[c] \in {"idle", "steel_head"}
          /\ pc' = [pc EXCEPT ![c] = "steel_head"]
      BY <2>2, SoundIs DEF Stack!LoadHead, Stack!StealFails, Stack!Goto, Stack!heap
    <3>2. Open /\ Open'
      BY <3>1, SoundIs, ThreadStepsOpen
    <3>3. \A d \in Consumers : pc'[d] = "reverse" <=> pc[d] = "reverse"
      BY <3>1, SoundIs
    <3> QED  BY <2>2, <3>1, <3>2, <3>3, LoadHeadStep
  <2> QED  BY <2>1, <2>2
<1>2. BatchOf(data, L, pc') = BatchOf(data, L, pc)
  <2>1. ASSUME NEW c \in Consumers PROVE BatchOf(data, L, pc')[c] = BatchOf(data, L, pc)[c]
    BY <1>1 DEF BatchOf
  <2>2. /\ BatchOf(data, L, pc') = [c \in Consumers |-> BatchOf(data, L, pc')[c]]
        /\ BatchOf(data, L, pc) = [c \in Consumers |-> BatchOf(data, L, pc)[c]]
    BY DEF BatchOf
  <2> QED  BY <2>1, <2>2
<1>3. Stack!queueBar' = Stack!queueBar /\ Stack!batchBar' = Stack!batchBar
  <2>1. Stack!queueBar = QueueOf(data, L) /\ Stack!batchBar = BatchOf(data, L, pc)
    BY BarsAre
  <2>2. Stack!queueBar' = QueueOf(data', L) /\ Stack!batchBar' = BatchOf(data', L, pc')
    BY <1>1, BarsBecome
  <2> QED  BY <1>1, <1>2, <2>1, <2>2
<1> QED  BY <1>1, <1>3, QueueMoves

(* One sweep's batch is another.                                           *)
LEMMA OneBatch ==
  ASSUME NEW c \in Consumers, NEW L, NEW M, NEW dt, NEW w, NEW w2,
         \A d \in Consumers : d # c => /\ w2[d] = w[d] /\ M[AtCur(d)] = L[AtCur(d)]
                                       /\ M[AtPrev(d)] = L[AtPrev(d)]
  PROVE  /\ BatchOf(dt, M, w2) = [BatchOf(dt, L, w) EXCEPT ![c] = BatchOf(dt, M, w2)[c]]
         /\ BatchOf(dt, M, w2)[c] = BatchOf(dt, L, w)[c] => BatchOf(dt, M, w2) = BatchOf(dt, L, w)
<1> PICK f, g : f = BatchOf(dt, L, w) /\ g = BatchOf(dt, M, w2)
  OBVIOUS
<1>1. f = [d \in Consumers |-> f[d]] /\ g = [d \in Consumers |-> g[d]]
  BY DEF BatchOf
<1>2. \A d \in Consumers : d # c => g[d] = f[d]
  BY DEF BatchOf
<1> QED  BY <1>1, <1>2

LEMMA StealSucceedsRefines ==
  ASSUME ComponentsAssumption, Sound, NEW L, OnLists(L),
         NEW c \in Consumers, Stack!StealSucceeds(c)
  PROVE  Stack!Queue!Next
<1>w. PICK w : w = IF head = null THEN "idle" ELSE IF c \in Ordered THEN "reverse" ELSE "deliver"
  OBVIOUS
<1>1. /\ pc[c] = "steel_head" /\ head = cur[c] /\ pc' = [pc EXCEPT ![c] = w]
      /\ UNCHANGED <<data, delivered>>
  BY <1>w DEF Stack!StealSucceeds, Stack!heap
<1>m. PICK M, h : M = [L EXCEPT ![OnHead] = <<>>, ![AtCur(c)] = h] /\ h = L[OnHead]
  OBVIOUS
<1>2. OnLists(M)'
  BY <1>m, StealSucceedsStep
<1>3. /\ M[OnHead] = <<>> /\ M[AtCur(c)] = h /\ L[AtCur(c)] = <<>> /\ L[AtPrev(c)] = <<>>
      /\ \A o \in Holder \ {OnHead, AtCur(c)} : M[o] = L[o]
  BY <1>1, <1>m, OnListsIs, HoldersApart DEF SweepAt
<1>4. Open /\ Open'
  <2>1. w # "gone"
    BY <1>w
  <2> QED  BY <1>1, <2>1, ThreadStepsOpen
<1>5. h = <<>> <=> head = null
  BY <1>m, StackConstants, OnListsIs, HoldersApart, LinksEnd DEF HeadAt
<1>v. PICK v : v = ValuesOf(data, h)
  OBVIOUS
<1>6. v \in Seq(Stack!Value) /\ Reverse(Reverse(v)) = v /\ Reverse(v) \in Seq(Stack!Value)
  <2>1. h \in Seq(Nodes) /\ Carries(data, h, Stack!Value)
    BY <1>m, ListsCarry, HoldersApart
  <2>2. v \in Seq(Stack!Value)
    BY <1>v, <2>1, ValuesAre
  <2> QED  BY <2>2, ReverseTwice
<1>7. QueueOf(data, L) = Reverse(v) /\ QueueOf(data, M) = <<>>
  BY <1>3, <1>m, <1>v, EmptyValues DEF QueueOf
<1>8. BatchOf(data, L, pc)[c] = <<>>
  BY <1>1, <1>3, EmptyValues DEF BatchOf
<1>9. BatchOf(data, M, pc')[c] = IF c \in Ordered THEN Reverse(v) ELSE v
  <2>1. M[AtPrev(c)] = <<>>
    BY <1>3, HoldersApart
  <2>2. pc'[c] = w /\ ValuesOf(data, M[AtCur(c)]) = v /\ ValuesOf(data, M[AtPrev(c)]) = <<>>
    BY <1>1, <1>3, <1>v, <2>1, SoundIs, EmptyValues
  <2>3. Reverse(v) \o <<>> = Reverse(v)
    BY <1>6
  <2>4. BatchOf(data, M, pc')[c] = IF w = "reverse" THEN Reverse(v) ELSE v
    BY <2>2, <2>3 DEF BatchOf, InOrder
  <2>5. head = null => v = <<>> /\ Reverse(v) = <<>>
    BY <1>5, <1>v, EmptyValues
  <2> QED  BY <1>w, <2>4, <2>5
<1>10. BatchOf(data, M, pc') = [BatchOf(data, L, pc) EXCEPT ![c] = BatchOf(data, M, pc')[c]]
  <2>1. \A d \in Consumers : d # c => pc'[d] = pc[d]
    BY <1>1, SoundIs
  <2>2. \A d \in Consumers : d # c => M[AtCur(d)] = L[AtCur(d)] /\ M[AtPrev(d)] = L[AtPrev(d)]
    BY <1>3, HoldersApart
  <2> QED  BY <2>1, <2>2, OneBatch
<1>11. /\ Stack!queueBar = Reverse(v) /\ Stack!batchBar[c] = <<>> /\ Stack!queueBar' = <<>>
       /\ Stack!batchBar' = [Stack!batchBar EXCEPT ![c] =
                               IF c \in Ordered THEN Stack!queueBar ELSE Reverse(Stack!queueBar)]
  <2>1. Stack!queueBar = QueueOf(data, L) /\ Stack!batchBar = BatchOf(data, L, pc)
    BY BarsAre
  <2>2. Stack!queueBar' = QueueOf(data', M) /\ Stack!batchBar' = BatchOf(data', M, pc')
    BY <1>2, BarsBecome
  <2>3. Stack!queueBar = Reverse(v) /\ Stack!batchBar[c] = <<>> /\ Stack!queueBar' = <<>>
    BY <1>1, <1>7, <1>8, <2>1, <2>2
  <2>4. BatchOf(data, M, pc')[c] = IF c \in Ordered THEN Stack!queueBar ELSE Reverse(Stack!queueBar)
    BY <1>6, <1>9, <2>3
  <2> QED  BY <1>1, <1>10, <2>1, <2>2, <2>3, <2>4
<1> QED  BY <1>1, <1>4, <1>11, QueueMoves

LEMMA Reverse1Refines ==
  ASSUME ComponentsAssumption, Sound, NEW L, OnLists(L),
         NEW c \in Consumers, Stack!Reverse1(c)
  PROVE  UNCHANGED Stack!Queue!qvars
<1>0. PICK s, r : s = L[AtCur(c)] /\ r = L[AtPrev(c)]
  OBVIOUS
<1>1. /\ s \in Seq(Nodes) /\ Carries(data, s, Stack!Value)
      /\ r \in Seq(Nodes) /\ Carries(data, r, Stack!Value)
  BY <1>0, ListsCarry, HoldersApart
<1>2. PICK s2, r2, w : /\ pc[c] = "reverse" /\ pc' = [pc EXCEPT ![c] = w] /\ w # "gone"
                       /\ UNCHANGED <<data, delivered>>
                       /\ OnLists([L EXCEPT ![AtCur(c)] = s2, ![AtPrev(c)] = r2])'
                       /\ InOrder(data, s, r) = IF w = "reverse" THEN InOrder(data, s2, r2)
                                                ELSE ValuesOf(data, s2)
  <2>1. CASE cur[c] # null
    <3>1. pc[c] = "reverse" /\ pc' = [pc EXCEPT ![c] = "reverse"]
      BY <2>1, TurnStep, SoundIs DEF Stack!Reverse1
    <3>2. s # <<>>
      BY <1>0, <2>1, TurnStep
    <3>3. /\ UNCHANGED <<data, delivered>>
          /\ OnLists([L EXCEPT ![AtCur(c)] = Tail(s), ![AtPrev(c)] = <<Head(s)>> \o r])'
      BY <1>0, <2>1, TurnStep
    <3>4. InOrder(data, Tail(s), <<Head(s)>> \o r) = InOrder(data, s, r)
      BY <1>1, <3>2, ValuesTurn
    <3> QED  BY <3>1, <3>3, <3>4
  <2>2. CASE cur[c] = null
    <3>z. PICK z : z = <<>>
      OBVIOUS
    <3>1. /\ pc[c] = "reverse" /\ pc' = [pc EXCEPT ![c] = "deliver"]
          /\ UNCHANGED <<data, delivered>> /\ s = <<>>
          /\ OnLists([L EXCEPT ![AtCur(c)] = r, ![AtPrev(c)] = z])'
      BY <1>0, <2>2, <3>z, TurnedStep
    <3>2. ValuesOf(data, r) \in Seq(Stack!Value)
      BY <1>1, ValuesAre
    <3>3. InOrder(data, s, r) = ValuesOf(data, r)
      <4>1. Reverse(ValuesOf(data, s)) = <<>>
        BY <3>1, EmptyValues
      <4>2. \A q \in Seq(Stack!Value) : <<>> \o q = q
        OBVIOUS
      <4> QED  BY <3>2, <4>1, <4>2 DEF InOrder
    <3>4. InOrder(data, s, r) = IF "deliver" = "reverse" THEN InOrder(data, r, z)
                                ELSE ValuesOf(data, r)
      BY <3>3
    <3> QED  BY <3>1, <3>4
  <2> QED  BY <2>1, <2>2
<1>m. PICK M : M = [L EXCEPT ![AtCur(c)] = s2, ![AtPrev(c)] = r2]
  OBVIOUS
<1>3. /\ OnLists(M)' /\ M[AtCur(c)] = s2 /\ M[AtPrev(c)] = r2
      /\ \A o \in Holder \ {AtCur(c), AtPrev(c)} : M[o] = L[o]
  BY <1>2, <1>m, OnListsIs, HoldersApart
<1>4. Open' = Open
  <2>1. Open /\ Open'
    BY <1>2, ThreadStepsOpen
  <2> QED  BY <2>1
<1>5. QueueOf(data, M) = QueueOf(data, L)
  BY <1>3, HoldersApart DEF QueueOf
<1>6. BatchOf(data, M, pc') = BatchOf(data, L, pc)
  <2>1. \A d \in Consumers : d # c => pc'[d] = pc[d]
    BY <1>2, SoundIs
  <2>2. \A d \in Consumers : d # c => M[AtCur(d)] = L[AtCur(d)] /\ M[AtPrev(d)] = L[AtPrev(d)]
    BY <1>3, HoldersApart
  <2>3. BatchOf(data, M, pc')[c] = BatchOf(data, L, pc)[c]
    BY <1>0, <1>2, <1>3, SoundIs DEF BatchOf
  <2> QED  BY <2>1, <2>2, <2>3, OneBatch
<1>7. Stack!queueBar' = Stack!queueBar /\ Stack!batchBar' = Stack!batchBar
  <2>1. Stack!queueBar = QueueOf(data, L) /\ Stack!batchBar = BatchOf(data, L, pc)
    BY BarsAre
  <2>2. Stack!queueBar' = QueueOf(data', M) /\ Stack!batchBar' = BatchOf(data', M, pc')
    BY <1>3, BarsBecome
  <2> QED  BY <1>2, <1>5, <1>6, <2>1, <2>2
<1> QED  BY <1>2, <1>4, <1>7, QueueMoves

LEMMA DeliverNodeRefines ==
  ASSUME ComponentsAssumption, Sound, NEW L, OnLists(L),
         NEW c \in Consumers, Stack!DeliverNode(c)
  PROVE  Stack!Queue!Next
<1>0. PICK s, w : s = L[AtCur(c)] /\ w = IF Tail(s) = <<>> THEN "idle" ELSE "deliver"
  OBVIOUS
<1>1. /\ UNCHANGED data /\ pc[c] = "deliver" /\ s # <<>> /\ pc' = [pc EXCEPT ![c] = w]
      /\ delivered' = [delivered EXCEPT ![c] = Append(@, data[Head(s)])]
      /\ OnLists([L EXCEPT ![AtCur(c)] = Tail(s)])'
  BY <1>0, DeliverNodeStep
<1>m. PICK M : M = [L EXCEPT ![AtCur(c)] = Tail(s)]
  OBVIOUS
<1>2. /\ OnLists(M)' /\ M[AtCur(c)] = Tail(s)
      /\ \A o \in Holder \ {AtCur(c)} : M[o] = L[o]
  BY <1>1, <1>m, OnListsIs, HoldersApart
<1>3. Open /\ Open'
  <2>1. w # "gone"
    BY <1>0
  <2> QED  BY <1>1, <2>1, ThreadStepsOpen
<1>4. /\ ValuesOf(data, s) # <<>> /\ Head(ValuesOf(data, s)) = data[Head(s)]
      /\ Tail(ValuesOf(data, s)) = ValuesOf(data, Tail(s))
  <2>1. s \in Seq(Nodes)
    BY <1>0, ListsCarry, HoldersApart
  <2>2. Carries(data, s, Stack!Value)
    BY <1>0, ListsCarry, HoldersApart
  <2>3. s # <<>>
    BY <1>1
  <2>4. Splits(data, s, Stack!Value)
    BY <2>1, <2>2, <2>3, ValuesSplit
  <2> QED  BY <2>4, SplitIs
<1>5. QueueOf(data, M) = QueueOf(data, L)
  BY <1>2, HoldersApart DEF QueueOf
<1>6. BatchOf(data, L, pc)[c] = ValuesOf(data, s) /\ BatchOf(data, M, pc')[c] = ValuesOf(data, Tail(s))
  BY <1>0, <1>1, <1>2, SoundIs DEF BatchOf
<1>7. BatchOf(data, M, pc') = [BatchOf(data, L, pc) EXCEPT ![c] = BatchOf(data, M, pc')[c]]
  <2>1. \A d \in Consumers : d # c => pc'[d] = pc[d]
    BY <1>1, SoundIs
  <2>2. \A d \in Consumers : d # c => M[AtCur(d)] = L[AtCur(d)] /\ M[AtPrev(d)] = L[AtPrev(d)]
    BY <1>2, HoldersApart
  <2> QED  BY <2>1, <2>2, OneBatch
<1>8. /\ Stack!queueBar' = Stack!queueBar /\ Stack!batchBar[c] = ValuesOf(data, s)
      /\ Stack!batchBar' = [Stack!batchBar EXCEPT ![c] = ValuesOf(data, Tail(s))]
  <2>1. Stack!queueBar = QueueOf(data, L) /\ Stack!batchBar = BatchOf(data, L, pc)
    BY BarsAre
  <2>2. Stack!queueBar' = QueueOf(data', M) /\ Stack!batchBar' = BatchOf(data', M, pc')
    BY <1>2, BarsBecome
  <2> QED  BY <1>1, <1>5, <1>6, <1>7, <2>1, <2>2
<1>9. /\ Stack!batchBar[c] # <<>>
      /\ Stack!batchBar' = [Stack!batchBar EXCEPT ![c] = Tail(@)]
      /\ delivered' = [delivered EXCEPT ![c] = Append(@, Head(Stack!batchBar[c]))]
  BY <1>1, <1>4, <1>8
<1> QED  BY <1>3, <1>8, <1>9, QueueMoves

LEMMA DestroyRefines ==
  ASSUME ComponentsAssumption, Sound, NEW L, OnLists(L), Stack!Destroy
  PROVE  [Stack!Queue!Next]_(Stack!Queue!qvars)
<1>1. /\ UNCHANGED <<data, delivered>> /\ \A c \in Consumers : pc[c] = "idle"
      /\ \A t \in Stack!Threads : pc[t] = "idle" /\ pc'[t] = "gone"
      /\ OnLists([L EXCEPT ![OnHead] = <<>>])'
  BY DestroyStep
<1> PICK M : M = [L EXCEPT ![OnHead] = <<>>]
  OBVIOUS
<1>2. OnLists(M)' /\ M[OnHead] = <<>> /\ \A o \in Holder \ {OnHead} : M[o] = L[o]
  BY <1>1, OnListsIs, HoldersApart
<1>3. /\ \A c \in Consumers : L[AtCur(c)] = <<>> /\ M[AtCur(c)] = <<>>
      /\ \A c \in Consumers : pc'[c] = "gone"
  BY <1>1, <1>2, OnListsIs, HoldersApart DEF SweepAt, Stack!Threads
<1>4. /\ \A c \in Consumers : BatchOf(data, L, pc)[c] = <<>>
      /\ \A c \in Consumers : BatchOf(data, M, pc')[c] = <<>>
  BY <1>1, <1>3, EmptyValues DEF BatchOf
<1>5. BatchOf(data, M, pc') = BatchOf(data, L, pc)
  <2>1. /\ BatchOf(data, M, pc') = [c \in Consumers |-> BatchOf(data, M, pc')[c]]
        /\ BatchOf(data, L, pc) = [c \in Consumers |-> BatchOf(data, L, pc)[c]]
    BY DEF BatchOf
  <2> QED  BY <1>4, <2>1
<1>6. QueueOf(data, M) = <<>>
  BY <1>2, EmptyValues DEF QueueOf
<1>7. /\ Stack!queueBar = QueueOf(data, L) /\ Stack!queueBar' = <<>>
      /\ Stack!batchBar' = Stack!batchBar /\ \A c \in Consumers : Stack!batchBar[c] = <<>>
  <2>1. Stack!queueBar = QueueOf(data, L) /\ Stack!batchBar = BatchOf(data, L, pc)
    BY BarsAre
  <2>2. Stack!queueBar' = QueueOf(data', M) /\ Stack!batchBar' = BatchOf(data', M, pc')
    BY <1>2, BarsBecome
  <2> QED  BY <1>1, <1>4, <1>5, <1>6, <2>1, <2>2
<1>8. CASE Stack!Threads # {}
  <2>1. Open /\ ~Open'
    <3>1. Stack!Threads' = Stack!Threads
      BY DEF Stack!Threads
    <3> QED  BY <1>1, <1>8, <3>1 DEF Open
  <2> QED  BY <1>1, <1>7, <2>1, QueueMoves
<1>9. CASE Stack!Threads = {}
  <2>1. Open' = Open
    BY <1>9 DEF Open, Stack!Threads
  <2>2. L[OnHead] = <<>>
    BY <1>9, StackConstants, OnListsIs, HoldersApart, LinksEnd DEF HeadAt, Sound
  <2>3. Stack!queueBar = <<>>
    BY <1>7, <2>2, EmptyValues DEF QueueOf
  <2> QED  BY <1>1, <1>7, <2>1, <2>3, QueueMoves
<1> QED  BY <1>8, <1>9

LEMMA StackRefines ==
  ASSUME ComponentsAssumption, StackInv, Stack!Next
  PROVE  [Stack!Queue!Next]_(Stack!Queue!qvars)
<1> PICK L : OnLists(L)
  BY DEF StackInv
<1>1. Sound
  BY DEF StackInv
<1>2. CASE Stack!Destroy
  BY <1>1, <1>2, DestroyRefines
<1>3. CASE \E p \in Producers : Stack!NewNode(p)
  BY <1>1, <1>3, NewNodeRefines
<1>4. CASE \E p \in Producers : Stack!PushSucceeds(p)
  BY <1>1, <1>4, PushSucceedsRefines
<1>5. CASE \/ \E p \in Producers : Stack!PushFails(p)
           \/ \E c \in Consumers : Stack!LoadHead(c) \/ Stack!StealFails(c)
  BY <1>1, <1>5, RetryRefines
<1>6. CASE \E c \in Consumers : Stack!StealSucceeds(c)
  BY <1>1, <1>6, StealSucceedsRefines
<1>7. CASE \E c \in Consumers : Stack!Reverse1(c)
  BY <1>1, <1>7, Reverse1Refines
<1>8. CASE \E c \in Consumers : Stack!DeliverNode(c)
  BY <1>1, <1>8, DeliverNodeRefines
<1> QED  BY <1>2, <1>3, <1>4, <1>5, <1>6, <1>7, <1>8 DEF Stack!Next

(* Stack: with all their retries, and though the address of a node that    *)
(* was deleted may be pushed again under a compare-exchange, pushes and    *)
(* sweeps are the atomic pushes and takes of a queue: each step of push,   *)
(* sweep and sweep_ordered is one of its steps, or none.                   *)
THEOREM StackIsAQueue ==
  ASSUME ComponentsAssumption
  PROVE  MCSpec => ImplementsQueue
<1>1. MCInit => Stack!Queue!Init
  <2> SUFFICES ASSUME MCInit PROVE Stack!Queue!Init
    OBVIOUS
  <2> PICK L : L = [o \in Holder |-> <<>>]
    OBVIOUS
  <2>1. Stack!Init /\ Sound /\ OnLists(L)
    BY StackInit DEF MCInit
  <2>2. \A o \in Holder : L[o] = <<>>
    OBVIOUS
  <2>3. QueueOf(data, L) = <<>>
    BY <2>2, HoldersApart, EmptyValues DEF QueueOf
  <2>4. BatchOf(data, L, pc) = [c \in Consumers |-> <<>>]
    BY <2>2, HoldersApart, EmptyValues DEF BatchOf, InOrder
  <2>5. Stack!queueBar = <<>> /\ Stack!batchBar = [c \in Consumers |-> <<>>]
    BY <2>1, <2>3, <2>4, BarsAre
  <2>6. delivered = [c \in Consumers |-> <<>>] /\ \A t \in Stack!Threads : pc[t] # "gone"
    BY <2>1 DEF Stack!Init
  <2> QED  BY <2>5, <2>6 DEF Stack!Queue!Init
<1>2. StackInv /\ [MCNext]_allVars
        => [chosen = "stack" => Stack!Queue!Next]_(Stack!Queue!qvars)
  <2> SUFFICES ASSUME StackInv, [MCNext]_allVars, chosen = "stack"
               PROVE  [Stack!Queue!Next]_(Stack!Queue!qvars)
    OBVIOUS
  <2>1. CASE Stack!Next
    BY <2>1, StackRefines
  <2>2. CASE UNCHANGED stackVars
    <3>1. UNCHANGED <<head, live, data, next, pc, mine, count, cur, prev, delivered>>
      BY <2>2 DEF stackVars
    <3>2. UNCHANGED Stack!Queue!qvars
      BY <3>1 DEF Stack!Queue!qvars, Stack!queueBar, Stack!batchBar, Stack!DataOf, Stack!Chain
    <3> QED  BY <3>2
  <2> QED  BY <2>1, <2>2 DEF MCNext, allVars, StackGone
<1> QED  BY <1>1, <1>2, StackInvariance, PTL DEF MCSpec, ImplementsQueue

=============================================================================
