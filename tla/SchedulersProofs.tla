-------------------------- MODULE SchedulersProofs --------------------------
(***************************************************************************)
(* The executors of gRPC and of asio, for any actions, callbacks and       *)
(* restarts.                                                               *)
(*                                                                         *)
(* GrpcQueueScheduler: an action on the queue of gRPC is in one place      *)
(* until it deletes itself, once, and what was in the queue when the token *)
(* was cancelled has proceeded when the thread ends.                       *)
(*                                                                         *)
(* AsioScheduler: an action is ready, has its timer set, runs, or is done  *)
(* with, and only one of it, through runs of the io_service by either of   *)
(* those that run it.                                                      *)
(***************************************************************************)
EXTENDS MCSchedulers, SequenceLemmas, FiniteSetTheorems, TLAPS

Hand == {current} \ {none}

(* OneOwner, without counting.                                             *)
Partition ==
  /\ armed \cup Range(events) \cup Hand \cup gone = used
  /\ armed \cap (Range(events) \cup Hand \cup gone) = {}
  /\ Range(events) \cap (Hand \cup gone) = {}
  /\ Hand \cap gone = {}
  /\ \A i, j \in 1..Len(events) : events[i] = events[j] => i = j

(* Where the thread is tells what it holds; the queue is shut before the   *)
(* token is cancelled, and the second loop has seen the token.             *)
Stages ==
  /\ current # none <=> loop \in {"proceed", "running"}
  /\ thread = "null" <=> loop = "none"
  /\ \A p \in Stoppers : stopping[p] = "cancel" => shut
  /\ need_cancel = "cancelled" => shut
  /\ draining /\ loop # "none" => need_cancel = "cancelled"
  /\ loop = "exited" => draining
  /\ loop = "deferred" => dbatch # <<>>

(* What was ready never goes back to an alarm, and the second loop ends    *)
(* only when it finds the queue empty.                                     *)
Kept ==
  /\ ready # {} => shut
  /\ ready \subseteq Range(events) \cup Hand \cup gone
  /\ draining /\ loop \in {"failed", "check", "exited"} => ready \subseteq gone

IInv ==
  /\ TypeOK /\ IsFiniteSet(used)
  /\ aborted \/ (Partition /\ Stages /\ Kept)

-----------------------------------------------------------------------------
(* Counting *)

LEMMA PartitionCounts ==
  ASSUME TypeOK, IsFiniteSet(used), Partition
  PROVE  OneOwner
<1> DEFINE E == Range(events)
<1>1. IsFiniteSet(armed) /\ IsFiniteSet(Hand) /\ IsFiniteSet(gone)
  BY FS_Subset DEF Partition
<1>2. IsFiniteSet(E) /\ Cardinality(E) = Len(events)
  BY RangeCount DEF TypeOK, Partition
<1>3. /\ IsFiniteSet(armed \cup E)
      /\ Cardinality(armed \cup E) = Cardinality(armed) + Cardinality(E)
  <2>1. armed \cap E = {}
    BY DEF Partition
  <2> QED  BY <1>1, <1>2, <2>1, DisjointCount
<1>4. /\ IsFiniteSet((armed \cup E) \cup Hand)
      /\ Cardinality((armed \cup E) \cup Hand) = Cardinality(armed \cup E) + Cardinality(Hand)
  <2>1. (armed \cup E) \cap Hand = {}
    BY DEF Partition
  <2> QED  BY <1>1, <1>3, <2>1, DisjointCount
<1>5. Cardinality(((armed \cup E) \cup Hand) \cup gone)
        = Cardinality((armed \cup E) \cup Hand) + Cardinality(gone)
  <2>1. ((armed \cup E) \cup Hand) \cap gone = {}
    BY DEF Partition
  <2> QED  BY <1>1, <1>4, <2>1, DisjointCount
<1> QED  BY <1>2, <1>3, <1>4, <1>5 DEF OneOwner, Partition, Hand

-----------------------------------------------------------------------------
(* The invariant *)

LEMMA GrpcInit ==
  ASSUME GrpcAssumption, Init
  PROVE  IInv
<1>1. Range(<<>>) = {} /\ <<>> \in Seq(Action) /\ <<>> \in Seq(Deferred) /\ Len(<<>>) = 0
  BY DEF Range
<1>2. TypeOK
  <2>1. starts \in 0..MaxStarts
    BY DEF Init, GrpcAssumption
  <2>2. stopping \in [Stoppers -> {"no", "shutdown", "cancel"}]
    BY DEF Init
  <2> QED  BY <1>1, <2>1, <2>2 DEF Init, TypeOK
<1>3. Partition /\ Stages /\ Kept
  BY <1>1 DEF Init, Partition, Stages, Kept, Hand
<1> QED  BY <1>2, <1>3, FS_EmptySet DEF Init, IInv

LEMMA SubmitStep ==
  ASSUME GrpcAssumption, IInv, ~aborted, NEW a \in Action, Submit(a)
  PROVE  IInv'
<1> USE DEF IInv
<1>1. TypeOK' /\ IsFiniteSet(used')
  BY FS_AddElement DEF Submit, TypeOK, defers, life, worker
<1>2. Partition'
  BY DEF Submit, Partition, Hand, TypeOK, worker
<1>3. Stages' /\ Kept'
  BY DEF Submit, Stages, Kept, Hand, defers, life, worker
<1> QED  BY <1>1, <1>2, <1>3

LEMMA ExpireStep ==
  ASSUME GrpcAssumption, IInv, ~aborted, NEW a \in Action, Expire(a)
  PROVE  IInv'
<1> USE DEF IInv
<1>1. /\ events \in Seq(Action) /\ events' = Append(events, a) /\ events' \in Seq(Action)
      /\ Range(events') = Range(events) \cup {a}
  BY AppendRange DEF Expire, TypeOK
<1>2. TypeOK' /\ IsFiniteSet(used')
  BY <1>1 DEF Expire, TypeOK, defers, life, worker
<1>3. Partition'
  <2>1. \A i, j \in 1..Len(events') : events'[i] = events'[j] => i = j
    <3>1. a \notin Range(events)
      BY DEF Expire, Partition
    <3>2. \A i \in 1..Len(events) : events[i] # a
      BY <1>1, <3>1 DEF Range
    <3> QED  BY <1>1, <3>2 DEF Partition
  <2> QED  BY <1>1, <2>1 DEF Expire, Partition, Hand, worker
<1>4. Stages' /\ Kept'
  BY <1>1 DEF Expire, Stages, Kept, Hand, defers, life, worker
<1> QED  BY <1>2, <1>3, <1>4

LEMMA GotEventStep ==
  ASSUME GrpcAssumption, IInv, ~aborted, GotEvent
  PROVE  IInv'
<1> USE DEF IInv
<1>1. /\ events \in Seq(Action) /\ events # <<>> /\ loop = "step" /\ loop' = "proceed"
      /\ events' = Tail(events) /\ current' = Head(events)
      /\ UNCHANGED <<armed, shut, aborted, defers, life, draining, stopping, used, gone, ready>>
  BY DEF GotEvent, TypeOK
<1>2. /\ current' \in Action /\ current' \in Range(events) /\ events' \in Seq(Action)
      /\ Range(events') = Range(events) \ {current'}
      /\ \A i, j \in 1..Len(events') : events'[i] = events'[j] => i = j
  <2>1. \A i, j \in 1..Len(events) : events[i] = events[j] => i = j
    BY DEF Partition
  <2> HIDE DEF IInv
  <2>2. /\ Head(events) \in Action /\ Head(events) \in Range(events) /\ Tail(events) \in Seq(Action)
        /\ Range(Tail(events)) = Range(events) \ {Head(events)}
        /\ \A i, j \in 1..Len(Tail(events)) : Tail(events)[i] = Tail(events)[j] => i = j
    BY <1>1, <2>1, TailRange, Zenon
  <2> QED  BY <1>1, <2>2, Zenon
<1>3. Hand = {} /\ Hand' = {current'} /\ current' # none
  BY <1>1, <1>2 DEF Hand, Stages, GrpcAssumption
<1>4. TypeOK' /\ IsFiniteSet(used')
  BY <1>1, <1>2 DEF TypeOK, defers, life
<1>5. Partition'
  BY <1>1, <1>2, <1>3 DEF Partition
<1>6. Stages' /\ Kept'
  BY <1>1, <1>2, <1>3 DEF Stages, Kept, defers, life
<1> QED  BY <1>4, <1>5, <1>6

LEMMA StopStep ==
  ASSUME IInv, ~aborted, NEW p \in Stoppers,
         StopTest(p) \/ StopShutdown(p) \/ StopCancel(p)
  PROVE  IInv'
<1> USE DEF IInv
<1>1. TypeOK' /\ IsFiniteSet(used')
  <2>1. Range(events) \subseteq used
    BY DEF Partition
  <2>2. CASE StopTest(p)
    BY <2>1, <2>2 DEF StopTest, TypeOK, defers, life, worker, queue
  <2>3. CASE StopShutdown(p)
    BY <2>1, <2>3 DEF StopShutdown, TypeOK, defers, life, worker, queue
  <2>4. CASE StopCancel(p)
    BY <2>1, <2>4 DEF StopCancel, TypeOK, defers, life, worker, queue
  <2> QED  BY <2>2, <2>3, <2>4
<1>2. Partition'
  BY DEF StopTest, StopShutdown, StopCancel, Partition, Hand, worker, queue
<1>3. Stages'
  BY DEF StopTest, StopShutdown, StopCancel, Stages, TypeOK, Stoppers, defers, life, worker, queue
<1>4. Kept'
  BY DEF StopTest, StopShutdown, StopCancel, Kept, Stages, Hand, defers, life, worker, queue
<1> QED  BY <1>1, <1>2, <1>3, <1>4

LEMMA LifeStep ==
  ASSUME GrpcAssumption, IInv, ~aborted, Start \/ WaitBegin \/ WaitEnd
  PROVE  IInv'
<1> USE DEF IInv
<1>1. TypeOK' /\ IsFiniteSet(used')
  <2>1. starts' \in 0..MaxStarts
    <3>1. starts \in 0..MaxStarts /\ MaxStarts \in Nat
      BY DEF TypeOK, GrpcAssumption
    <3>2. starts' = starts \/ (starts < MaxStarts /\ starts' = starts + 1)
      BY DEF Start, WaitBegin, WaitEnd
    <3> QED  BY <3>1, <3>2
  <2> QED  BY <2>1 DEF Start, WaitBegin, WaitEnd, TypeOK, defers, worker, queue
<1>2. Partition'
  BY DEF Start, WaitBegin, WaitEnd, Partition, Hand, worker, queue
<1>3. Stages' /\ Kept'
  BY DEF Start, WaitBegin, WaitEnd, TypeOK, Stages, Kept, Hand, defers, worker, queue
<1> QED  BY <1>1, <1>2, <1>3

(* The steps of the thread that empty no hand and take nothing up.         *)
LEMMA LoopStep ==
  ASSUME IInv, ~aborted, TimedOut \/ QueueFailed \/ FailedStep \/ StepFailed
  PROVE  IInv'
<1> USE DEF IInv
<1>1. TypeOK' /\ IsFiniteSet(used')
  BY DEF TimedOut, QueueFailed, FailedStep, StepFailed, TypeOK, defers, life, queue
<1>2. Partition'
  BY DEF TimedOut, QueueFailed, FailedStep, StepFailed, Partition, Hand, queue
<1>3. Stages'
  BY DEF TimedOut, QueueFailed, FailedStep, StepFailed, Stages, TypeOK, defers, life, queue
<1>4. Kept'
  <2>1. Range(<<>>) = {}
    BY DEF Range
  <2> QED  BY <2>1 DEF TimedOut, QueueFailed, FailedStep, StepFailed, Kept, Stages, Hand, queue
<1> QED  BY <1>1, <1>2, <1>3, <1>4

LEMMA CallbackStep ==
  ASSUME GrpcAssumption, IInv, ~aborted, Proceed \/ Finish \/ Rearm
  PROVE  IInv'
<1> USE DEF IInv
<1>1. current # none /\ Hand = {current} /\ current \in used /\ current \in Action
  BY DEF Proceed, Finish, Rearm, Stages, Hand, Partition, TypeOK
<1>2. TypeOK' /\ IsFiniteSet(used')
  BY <1>1 DEF Proceed, Finish, Rearm, TypeOK, defers, life, queue
<1>3. ~aborted' => Partition'
  BY <1>1 DEF Proceed, Finish, Rearm, Partition, Hand, queue
<1>4. ~aborted' => Stages' /\ Kept'
  BY <1>1 DEF Proceed, Finish, Rearm, Stages, Kept, Hand, defers, life, queue
<1> QED  BY <1>2, <1>3, <1>4

LEMMA DeferredStep ==
  ASSUME IInv, ~aborted,
         PollDeferred \/ FinishDeferred \/ (\E d \in Deferred : Defer(d))
  PROVE  IInv'
<1> USE DEF IInv
<1>1. TypeOK' /\ IsFiniteSet(used')
  <2>1. CASE PollDeferred
    <3>1. Reverse(deferred_stack) \in Seq(Deferred)
      BY ReverseType DEF TypeOK
    <3> QED  BY <2>1, <3>1 DEF PollDeferred, TypeOK, life, queue
  <2>2. CASE FinishDeferred
    <3>1. Head(dbatch) \in Deferred /\ Tail(dbatch) \in Seq(Deferred)
      BY <2>2 DEF FinishDeferred, Stages, TypeOK
    <3> QED  BY <2>2, <3>1 DEF FinishDeferred, TypeOK, life, queue
  <2>3. ASSUME NEW d \in Deferred, Defer(d) PROVE TypeOK' /\ IsFiniteSet(used')
    BY <2>3 DEF Defer, TypeOK, life, worker, queue
  <2> QED  BY <2>1, <2>2, <2>3
<1>2. Partition'
  BY DEF PollDeferred, FinishDeferred, Defer, Partition, Hand, worker, queue
<1>3. deferred_stack # <<>> => Reverse(deferred_stack) # <<>>
  <2>1. deferred_stack \in Seq(Deferred)
    BY DEF TypeOK
  <2>2. Len(Reverse(deferred_stack)) = Len(deferred_stack)
    BY <2>1 DEF Reverse
  <2> QED  BY <2>1, <2>2
<1>4. Len(dbatch) > 1 => Tail(dbatch) # <<>>
  BY TailNonEmpty DEF TypeOK
<1>5. Stages' /\ Kept'
  BY <1>3, <1>4 DEF PollDeferred, FinishDeferred, Defer, Stages, Kept, Hand, life, worker, queue
<1> QED  BY <1>1, <1>2, <1>5

LEMMA GrpcStep ==
  ASSUME GrpcAssumption, IInv, [Next]_vars
  PROVE  IInv'
<1>1. CASE Next
  BY <1>1, SubmitStep, ExpireStep, GotEventStep, StopStep, LifeStep, LoopStep,
     CallbackStep, DeferredStep DEF Next, WorkerStep
<1>2. CASE UNCHANGED vars
  BY <1>2 DEF vars, queue, defers, life, worker, IInv, TypeOK, Partition, Stages, Kept, Hand
<1> QED  BY <1>1, <1>2

LEMMA GrpcInvariant ==
  ASSUME GrpcAssumption
  PROVE  Spec => []IInv
<1>1. Init => IInv
  BY GrpcInit
<1>2. IInv /\ [Next]_vars => IInv'
  BY GrpcStep
<1> QED  BY <1>1, <1>2, PTL DEF Spec

-----------------------------------------------------------------------------
(* GrpcScheduler's queue, thread, token and stacks hold what they may.     *)
THEOREM GrpcTypeCorrect ==
  ASSUME GrpcAssumption
  PROVE  Spec => []TypeOK
<1>1. IInv => TypeOK
  BY DEF IInv
<1> QED  BY <1>1, GrpcInvariant, PTL

(* An action handed to dispatch, schedule_delayed or schedule_periodic has *)
(* its alarm set, is queued, proceeds or was deleted, and only one of it:  *)
(* none comes out of the queue after it deleted itself.                    *)
THEOREM ActionOnce ==
  ASSUME GrpcAssumption
  PROVE  Spec => []OneOwner
<1>1. IInv => OneOwner
  BY PartitionCounts DEF IInv, OneOwner
<1> QED  BY <1>1, GrpcInvariant, PTL

(* When thread_loop returns, every completion that was queued as stop()    *)
(* cancelled the token has proceeded.                                      *)
THEOREM ReadyProceeds ==
  ASSUME GrpcAssumption
  PROVE  Spec => []ReadyRun
<1>1. IInv => ReadyRun
  BY DEF IInv, Stages, Kept, ReadyRun
<1> QED  BY <1>1, GrpcInvariant, PTL

-----------------------------------------------------------------------------
(* AsioScheduler *)

(* The libraries that AsioScheduler uses are those that are used here.     *)
LEMMA AsioLibrary ==
  /\ \A q : Asio!Range(q) = Range(q)
  /\ \A q, S : Asio!Among(q, S) = Among(q, S)
  /\ \A S : Asio!Cardinality(S) = Cardinality(S)
<1>1. \A q : Asio!Range(q) = Range(q)
  BY DEF Asio!Range, Range
<1>2. \A q, S : Asio!Among(q, S) = Among(q, S)
  BY DEF Asio!Among, Among
<1>3. \A S : Asio!Cardinality(S) = Cardinality(S)
  BY DEF Asio!Cardinality, Cardinality, Asio!IsFiniteSet, IsFiniteSet
<1> QED  BY <1>1, <1>2, <1>3

Ready   == Range(posted) \ {work}
Running == {aCurrent} \ {none, work}

(* Asio!OneOwner, without counting.                                        *)
AsioPartition ==
  /\ Ready \cup timers \cup Running \cup aGone = aUsed
  /\ Ready \cap (timers \cup Running \cup aGone) = {}
  /\ timers \cap (Running \cup aGone) = {}
  /\ Running \cap aGone = {}
  /\ \A i, j \in 1..Len(posted) : posted[i] = posted[j] => i = j

(* Something is in hand exactly while the loop runs it, a run begins where *)
(* none is going on, and the task of run_until_done() is in the queue at   *)
(* most once, from when it is posted to when it suspends.                  *)
AsioStages ==
  /\ aCurrent # none <=> aLoop = "running"
  /\ kind = "thread" => (aThread = "null" <=> aLoop = "none") /\ workState = "none"
  /\ kind = "work" => aThread = "null" /\ aCtl = "idle" /\ aLoop \in {"none", "run", "running"}
  /\ work \in Range(posted) \cup {aCurrent} => workState = "posted"
  /\ work \in Range(posted) => aCurrent # work
  /\ aLoop = "none" => workState \in {"none", "done"}

AsioInv ==
  /\ Asio!TypeOK /\ IsFiniteSet(aUsed)
  /\ AsioPartition
  /\ AsioStages

LEMMA AsioCounts ==
  ASSUME SchedulersAssumption, AsioInv
  PROVE  Asio!OneOwner
<1> DEFINE R == Among(posted, Asio!Action)
<1>1. /\ posted \in Seq(Asio!Action \cup {work}) /\ work \notin Asio!Action
      /\ Range(posted) \subseteq Asio!Action \cup {work}
  BY RangeOfList DEF AsioInv, Asio!TypeOK, SchedulersAssumption, Asio!AsioAssumption
<1>2. /\ R \in Seq(Asio!Action \cup {work}) /\ Range(R) = Ready
      /\ \A i, j \in 1..Len(R) : R[i] = R[j] => i = j
  <2>1. Range(posted) \cap Asio!Action = Ready
    BY <1>1 DEF Ready
  <2>2. \A i, j \in 1..Len(posted) : posted[i] = posted[j] => i = j
    BY DEF AsioInv, AsioPartition
  <2>3. /\ R \in Seq(Asio!Action \cup {work})
        /\ Range(R) = Range(posted) \cap Asio!Action
    BY <1>1, AmongList
  <2>4. \A i, j \in 1..Len(R) : R[i] = R[j] => i = j
    BY <1>1, <2>2, AmongList
  <2> QED  BY <2>1, <2>3, <2>4
<1> HIDE DEF R
<1>3. IsFiniteSet(Ready) /\ Cardinality(Ready) = Len(R)
  BY <1>2, RangeCount
<1>4. IsFiniteSet(timers) /\ IsFiniteSet(Running) /\ IsFiniteSet(aGone)
  BY FS_Subset DEF AsioInv, AsioPartition
<1>5. /\ IsFiniteSet(Ready \cup timers)
      /\ Cardinality(Ready \cup timers) = Cardinality(Ready) + Cardinality(timers)
  <2>1. Ready \cap timers = {}
    BY DEF AsioInv, AsioPartition
  <2> QED  BY <1>3, <1>4, <2>1, DisjointCount
<1>6. /\ IsFiniteSet((Ready \cup timers) \cup Running)
      /\ Cardinality((Ready \cup timers) \cup Running)
           = Cardinality(Ready \cup timers) + Cardinality(Running)
  <2>1. (Ready \cup timers) \cap Running = {}
    BY DEF AsioInv, AsioPartition
  <2> QED  BY <1>4, <1>5, <2>1, DisjointCount
<1>7. Cardinality(((Ready \cup timers) \cup Running) \cup aGone)
        = Cardinality((Ready \cup timers) \cup Running) + Cardinality(aGone)
  <2>1. ((Ready \cup timers) \cup Running) \cap aGone = {}
    BY DEF AsioInv, AsioPartition
  <2> QED  BY <1>4, <1>6, <2>1, DisjointCount
<1>8. ((Ready \cup timers) \cup Running) \cup aGone = aUsed
  BY DEF AsioInv, AsioPartition
<1>9. /\ Ready \cup timers \cup Running \cup aGone = aUsed
      /\ Len(R) + Cardinality(timers) + Cardinality(Running) + Cardinality(aGone)
           = Cardinality(aUsed)
  BY <1>3, <1>5, <1>6, <1>7, <1>8
<1>10. Asio!Range(Asio!Among(posted, Asio!Action)) = Ready
       /\ Asio!Among(posted, Asio!Action) = R
  BY <1>2, AsioLibrary DEF R
<1>11. \A S : Asio!Cardinality(S) = Cardinality(S)
  BY AsioLibrary
<1> QED  BY <1>9, <1>10, <1>11, Zenon DEF Asio!OneOwner, Running

LEMMA AsioInit ==
  ASSUME SchedulersAssumption, Asio!Init
  PROVE  AsioInv
<1>1. /\ Range(posted) = {} /\ posted \in Seq(Asio!Action \cup {work})
      /\ \A i, j \in 1..Len(posted) : i = j
  <2>1. posted = <<>>
    BY DEF Asio!Init
  <2> QED  BY <2>1, EmptyRange
<1>2. Asio!TypeOK
  <2>1. aStarts \in 0..MaxStarts
    BY DEF Asio!Init, SchedulersAssumption, Asio!AsioAssumption
  <2> QED  BY <1>1, <2>1, Zenon DEF Asio!Init, Asio!TypeOK
<1>3. IsFiniteSet(aUsed)
  BY FS_EmptySet DEF Asio!Init
<1>4. AsioPartition
  BY <1>1 DEF Asio!Init, AsioPartition, Ready, Running
<1>5. AsioStages
  BY <1>1 DEF Asio!Init, AsioStages, SchedulersAssumption, Asio!AsioAssumption
<1> QED  BY <1>2, <1>3, <1>4, <1>5 DEF AsioInv

LEMMA AsioSubmit ==
  ASSUME SchedulersAssumption, AsioInv, NEW a \in Asio!Action, Asio!Submit(a)
  PROVE  AsioInv'
<1> USE DEF Asio!tasks, Asio!life
<1>1. /\ a # work /\ a # none /\ posted \in Seq(Asio!Action \cup {work})
      /\ a \notin Range(posted) /\ a \notin timers /\ a # aCurrent /\ a \notin aGone
      /\ aUsed' = aUsed \cup {a}
      /\ UNCHANGED <<kind, aGone, aCurrent, aCancel, aThread, aStarts, overtaken, aLoop, aCtl,
                     workState, stopped>>
  BY DEF Asio!Submit, AsioInv, Asio!TypeOK, AsioPartition, Ready, Running,
         SchedulersAssumption, Asio!AsioAssumption
<1>2. IsFiniteSet(aUsed')
  BY <1>1, FS_AddElement DEF AsioInv
<1>3. CASE a \in Dispatched
  <2>1. posted' = Append(posted, a) /\ timers' = timers
    BY <1>3 DEF Asio!Submit
  <2>2. /\ posted' \in Seq(Asio!Action \cup {work}) /\ Range(posted') = Range(posted) \cup {a}
        /\ \A i, j \in 1..Len(posted') : posted'[i] = posted'[j] => i = j
    BY <1>1, <2>1, AppendRange, AppendNew DEF AsioInv, AsioPartition
  <2>3. Asio!TypeOK'
    BY <1>1, <2>1, <2>2 DEF AsioInv, Asio!TypeOK
  <2>4. AsioPartition'
    BY <1>1, <2>1, <2>2 DEF AsioInv, AsioPartition, Ready, Running
  <2>5. AsioStages'
    BY <1>1, <2>2 DEF AsioInv, AsioStages
  <2> QED  BY <1>2, <2>3, <2>4, <2>5 DEF AsioInv
<1>4. CASE a \notin Dispatched
  <2>1. posted' = posted /\ timers' = timers \cup {a}
    BY <1>4 DEF Asio!Submit
  <2>2. Asio!TypeOK'
    BY <1>1, <2>1 DEF AsioInv, Asio!TypeOK
  <2>3. AsioPartition'
    BY <1>1, <2>1 DEF AsioInv, AsioPartition, Ready, Running
  <2>4. AsioStages'
    BY <1>1, <2>1 DEF AsioInv, AsioStages
  <2> QED  BY <1>2, <2>2, <2>3, <2>4 DEF AsioInv
<1> QED  BY <1>3, <1>4

LEMMA AsioExpire ==
  ASSUME SchedulersAssumption, AsioInv, NEW a \in Asio!Action, Asio!Expire(a)
  PROVE  AsioInv'
<1>1. /\ a # work /\ a # none /\ posted \in Seq(Asio!Action \cup {work})
      /\ a \notin Range(posted) /\ a \in timers /\ a # aCurrent /\ a \notin aGone
      /\ timers' = timers \ {a} /\ posted' = Append(posted, a)
      /\ UNCHANGED <<kind, aUsed, aGone, aCurrent, aCancel, aThread, aStarts, overtaken, aLoop,
                     aCtl, workState, stopped>>
  BY DEF Asio!Expire, AsioInv, Asio!TypeOK, AsioPartition, Ready, Running, Asio!life,
         SchedulersAssumption, Asio!AsioAssumption
<1>2. /\ posted' \in Seq(Asio!Action \cup {work}) /\ Range(posted') = Range(posted) \cup {a}
      /\ \A i, j \in 1..Len(posted') : posted'[i] = posted'[j] => i = j
  BY <1>1, AppendRange, AppendNew DEF AsioInv, AsioPartition
<1>3. Asio!TypeOK'
  BY <1>1, <1>2 DEF AsioInv, Asio!TypeOK
<1>4. AsioPartition'
  BY <1>1, <1>2 DEF AsioInv, AsioPartition, Ready, Running
<1>5. AsioStages'
  BY <1>1, <1>2 DEF AsioInv, AsioStages
<1> QED  BY <1>1, <1>3, <1>4, <1>5 DEF AsioInv

LEMMA AsioRunUntilDone ==
  ASSUME SchedulersAssumption, AsioInv, Asio!RunUntilDone
  PROVE  AsioInv'
<1>1. /\ kind = "work" /\ aLoop = "none" /\ posted \in Seq(Asio!Action \cup {work})
      /\ work \notin Range(posted) /\ aCurrent = none /\ work # none
      /\ aStarts < MaxStarts /\ aStarts \in 0..MaxStarts /\ MaxStarts \in Nat
      /\ aCancel' = "clear" /\ aLoop' = "run" /\ aStarts' = aStarts + 1
      /\ workState' = "posted" /\ posted' = Append(posted, work)
      /\ UNCHANGED <<kind, timers, aUsed, aGone, aCurrent, aThread, overtaken, aCtl, stopped>>
  BY DEF Asio!RunUntilDone, AsioInv, Asio!TypeOK, AsioStages,
         SchedulersAssumption, Asio!AsioAssumption
<1>2. /\ posted' \in Seq(Asio!Action \cup {work}) /\ Range(posted') = Range(posted) \cup {work}
      /\ \A i, j \in 1..Len(posted') : posted'[i] = posted'[j] => i = j
  BY <1>1, AppendRange, AppendNew DEF AsioInv, AsioPartition
<1>3. Asio!TypeOK'
  BY <1>1, <1>2 DEF AsioInv, Asio!TypeOK
<1>4. AsioPartition'
  BY <1>1, <1>2 DEF AsioInv, AsioPartition, Ready, Running
<1>5. AsioStages'
  BY <1>1, <1>2 DEF AsioInv, AsioStages
<1> QED  BY <1>1, <1>3, <1>4, <1>5 DEF AsioInv

LEMMA AsioRunNext ==
  ASSUME SchedulersAssumption, AsioInv, Asio!RunNext
  PROVE  AsioInv'
<1>1. /\ aLoop = "run" /\ posted # <<>> /\ aCurrent = none /\ none \notin Asio!Action \cup {work}
      /\ posted \in Seq(Asio!Action \cup {work})
      /\ aCurrent' = Head(posted) /\ posted' = Tail(posted) /\ aLoop' = "running"
      /\ UNCHANGED <<kind, timers, aUsed, aGone, aCancel, aThread, aStarts, overtaken,
                     aCtl, workState, stopped>>
  BY DEF Asio!RunNext, AsioInv, Asio!TypeOK, AsioStages, Asio!life,
         SchedulersAssumption, Asio!AsioAssumption
<1>2. /\ aCurrent' \in Asio!Action \cup {work} /\ aCurrent' \in Range(posted)
      /\ posted' \in Seq(Asio!Action \cup {work}) /\ Range(posted') = Range(posted) \ {aCurrent'}
      /\ \A i, j \in 1..Len(posted') : posted'[i] = posted'[j] => i = j
  BY <1>1, TailRange DEF AsioInv, AsioPartition
<1>3. Asio!TypeOK'
  BY <1>1, <1>2 DEF AsioInv, Asio!TypeOK
<1>4. AsioPartition'
  BY <1>1, <1>2 DEF AsioInv, AsioPartition, Ready, Running
<1>5. AsioStages'
  BY <1>1, <1>2 DEF AsioInv, AsioStages
<1> QED  BY <1>1, <1>3, <1>4, <1>5 DEF AsioInv

(* The steps that leave the queue of handlers as it is.                    *)
LEMMA AsioHandled ==
  ASSUME SchedulersAssumption, AsioInv, Asio!Finish \/ Asio!Suspend \/ Asio!Rearm
  PROVE  AsioInv'
<1> USE DEF AsioInv, Asio!TypeOK, AsioPartition, AsioStages, Ready, Running,
            Asio!tasks, Asio!life, SchedulersAssumption, Asio!AsioAssumption
<1>1. CASE Asio!Finish
  BY <1>1 DEF Asio!Finish
<1>2. CASE Asio!Suspend
  BY <1>2 DEF Asio!Suspend
<1>3. CASE Asio!Rearm
  BY <1>3 DEF Asio!Rearm, Asio!Action
<1> QED  BY <1>1, <1>2, <1>3

LEMMA AsioControl ==
  ASSUME SchedulersAssumption, AsioInv,
         \/ Asio!Start \/ Asio!ThreadStart \/ Asio!Stop \/ Asio!WaitBegin \/ Asio!WaitEnd
         \/ Asio!WorkEnds \/ Asio!RunForEnds
  PROVE  AsioInv'
<1>1. UNCHANGED <<kind, posted, timers, aUsed, aGone, aCurrent>>
  BY DEF Asio!Start, Asio!ThreadStart, Asio!Stop, Asio!WaitBegin, Asio!WaitEnd,
         Asio!WorkEnds, Asio!RunForEnds, Asio!tasks
<1>2. AsioPartition' /\ IsFiniteSet(aUsed)'
  BY <1>1 DEF AsioInv, AsioPartition, Ready, Running
<1>3. Asio!TypeOK' /\ AsioStages'
  <2> USE <1>1 DEF AsioInv, Asio!TypeOK, AsioStages, Asio!life, SchedulersAssumption,
                   Asio!AsioAssumption
  <2>1. CASE Asio!Start
    <3>1. aStarts' \in 0..MaxStarts
      BY <2>1 DEF Asio!Start
    <3>2. Asio!TypeOK'
      BY <2>1, <3>1 DEF Asio!Start
    <3>3. AsioStages'
      BY <2>1 DEF Asio!Start
    <3> QED  BY <3>2, <3>3
  <2>2. CASE Asio!ThreadStart
    BY <2>2 DEF Asio!ThreadStart
  <2>3. CASE Asio!Stop
    BY <2>3 DEF Asio!Stop
  <2>4. CASE Asio!WaitBegin
    BY <2>4 DEF Asio!WaitBegin
  <2>5. CASE Asio!WaitEnd
    BY <2>5 DEF Asio!WaitEnd
  <2>6. CASE Asio!WorkEnds
    BY <2>6 DEF Asio!WorkEnds
  <2>7. CASE Asio!RunForEnds
    BY <2>7 DEF Asio!RunForEnds
  <2> QED  BY <2>1, <2>2, <2>3, <2>4, <2>5, <2>6, <2>7
<1> QED  BY <1>2, <1>3 DEF AsioInv

LEMMA AsioStep ==
  ASSUME SchedulersAssumption, AsioInv, Asio!Next
  PROVE  AsioInv'
BY AsioSubmit, AsioExpire, AsioRunUntilDone, AsioRunNext, AsioHandled, AsioControl DEF Asio!Next

-----------------------------------------------------------------------------
(* The composition of MCSchedulers *)

LEMMA GrpcComposed ==
  ASSUME SchedulersAssumption
  PROVE  MCSpec => Spec
<1>1. MCInit => Init
  BY DEF MCInit
<1>2. [MCNext]_allVars => [Next]_vars
  BY DEF MCNext, allVars
<1>3. MCSpec => MCInit /\ [][MCNext]_allVars
  BY PTL DEF MCSpec
<1> QED  BY <1>1, <1>2, <1>3, PTL DEF Spec

LEMMA AsioComposed ==
  ASSUME SchedulersAssumption
  PROVE  MCSpec => []AsioInv
<1>1. MCInit => AsioInv
  BY AsioInit DEF MCInit
<1>2. AsioInv /\ [MCNext]_allVars => AsioInv'
  <2>1. [MCNext]_allVars => Asio!Next \/ UNCHANGED asioVars
    BY DEF MCNext, allVars
  <2>2. AsioInv /\ UNCHANGED asioVars => AsioInv'
    BY DEF asioVars, AsioInv, Asio!TypeOK, AsioPartition, AsioStages, Ready, Running
  <2> QED  BY <2>1, <2>2, AsioStep
<1>3. MCSpec => MCInit /\ [][MCNext]_allVars
  BY PTL DEF MCSpec
<1> QED  BY <1>1, <1>2, <1>3, PTL

(* An action submitted to the queue of gRPC or to the io_service is        *)
(* waiting for its alarm or its turn, runs, or is done with: one of these, *)
(* once, through any number of starts, stops and runs.                     *)
THEOREM EachOwnedOnce ==
  ASSUME SchedulersAssumption
  PROVE  MCSpec => []BothOwnedOnce
<1>1. Spec => []OneOwner
  BY ActionOnce DEF SchedulersAssumption
<1>2. AsioInv => Asio!OneOwner
  BY AsioCounts
<1> QED  BY <1>1, <1>2, GrpcComposed, AsioComposed, PTL DEF BothOwnedOnce

=============================================================================
