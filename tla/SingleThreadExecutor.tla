------------------------ MODULE SingleThreadExecutor ------------------------
(***************************************************************************)
(* concurrency/executor: one thread that runs the callbacks dispatched to  *)
(* it, with deferred callbacks, managed callbacks that watch a token, and  *)
(* a start / stop / wait life cycle that may be gone through again.        *)
(*                                                                         *)
(* The two stacks are the queues that TreiberStack implements.  notify_one *)
(* is called without the mutex the thread waits with, so a notification    *)
(* sent between an empty sweep and the wait is lost.                       *)
(***************************************************************************)
EXTENDS Integers, FiniteSets, Sequences, SequencesExt

CONSTANTS
  Clients,      \* threads that dispatch and defer
  Actions,      \* callbacks given to dispatch_impl, each at most once
  Managed,      \* those of them that run until their token is cancelled
  Deferred,     \* callbacks given to defer_impl, each at most once
  MaxStarts     \* bound: calls of start() that succeed

ASSUME ExecutorAssumption ==
  /\ Managed \subseteq Actions
  /\ MaxStarts \in Nat
  /\ Actions \cap Deferred = {}

VARIABLES
  dispatch_stack,   \* _dispatch_stack, oldest first
  deferred_stack,   \* _deferred_stack, oldest first
  batch,            \* what sweep_ordered has taken; its head is running
  dbatch,           \* what poll_all_deferred has taken; its head is running
  loop,             \* where thread_loop is
  draining,         \* it has left the first loop of thread_loop
  need_cancel,      \* *_need_cancel: "null", "clear" or "cancelled"
  thread,           \* _thread: "null" or "joinable"
  thread_id,        \* _thread_id is set
  ctl,              \* where the controlling thread is
  notifying,        \* clients that have pushed and not yet notified
  disposed,         \* managed actions whose Disposer was used
  starts,           \* calls of start() that succeeded
  (* History *)
  pushed,           \* all dispatched actions, in the order of the pushes
  executed,         \* all executed actions, in order
  owed,             \* actions the thread must run before it may end
  due,              \* callbacks deferred before the last action finished
  fired             \* deferred callbacks that have run

queues  == <<dispatch_stack, deferred_stack, batch, dbatch>>
life    == <<need_cancel, thread, thread_id, ctl, starts>>
history == <<pushed, executed, owed, due, fired>>
vars    == <<queues, loop, draining, life, notifying, disposed, history>>

Worker == "worker"

Init ==
  /\ dispatch_stack = <<>> /\ deferred_stack = <<>>
  /\ batch = <<>> /\ dbatch = <<>>
  /\ loop = "none" /\ draining = FALSE
  /\ need_cancel = "null" /\ thread = "null" /\ thread_id = FALSE
  /\ ctl = "idle" /\ starts = 0
  /\ notifying = {} /\ disposed = {}
  /\ pushed = <<>> /\ executed = <<>>
  /\ owed = {} /\ due = {} /\ fired = {}

(* The callbacks that are running on the thread right now may call back    *)
(* into the executor.                                                      *)
InCallback == loop \in {"running", "deferred"}

(* _wait_cv.notify_one() wakes the thread if it is blocked, and is lost    *)
(* otherwise.                                                              *)
NotifyOne == loop' = IF loop = "blocked" THEN "check" ELSE loop

-----------------------------------------------------------------------------
(* Clients *)

(* dispatch_impl pushes and then notifies; from a callback the thread is   *)
(* not waiting, so there is nothing to notify.                             *)
Dispatch(c, a) ==
  /\ a \notin Range(pushed)
  /\ c \notin notifying
  /\ c = Worker => InCallback
  /\ dispatch_stack' = Append(dispatch_stack, a)
  /\ pushed' = Append(pushed, a)
  /\ owed' = IF c = Worker THEN owed \cup {a} ELSE owed
  /\ notifying' = IF c = Worker THEN notifying ELSE notifying \cup {c}
  /\ UNCHANGED <<deferred_stack, batch, dbatch, loop, draining, life, disposed,
                 executed, due, fired>>

(* defer_impl *)
Defer(c, d) ==
  /\ d \notin fired \cup Range(deferred_stack) \cup Range(dbatch)
  /\ c \notin notifying
  /\ c = Worker => InCallback
  /\ deferred_stack' = Append(deferred_stack, d)
  /\ notifying' = IF c = Worker THEN notifying ELSE notifying \cup {c}
  /\ UNCHANGED <<dispatch_stack, batch, dbatch, loop, draining, life, disposed,
                 history>>

Notify(c) ==
  /\ c \in notifying
  /\ notifying' = notifying \ {c}
  /\ NotifyOne
  /\ UNCHANGED <<queues, draining, life, disposed, history>>

(* The Disposer that dispatch_impl returned for a managed action. *)
Dispose(a) ==
  /\ a \in Managed \cap Range(pushed)
  /\ disposed' = disposed \cup {a}
  /\ UNCHANGED <<queues, loop, draining, life, notifying, history>>

-----------------------------------------------------------------------------
(* start, stop and wait, called by one controlling thread *)

(* start() fails with "already started" while there is a thread to join. *)
Start ==
  /\ ctl = "idle"
  /\ thread = "null"
  /\ starts < MaxStarts
  /\ need_cancel' = "clear"
  /\ thread' = "joinable"
  /\ loop'   = "started"
  /\ draining' = FALSE
  /\ starts' = starts + 1
  /\ UNCHANGED <<queues, thread_id, ctl, notifying, disposed, history>>

(* _need_cancel->cancel(), by the controller or from a callback.  All that *)
(* is queued by now is owed an execution before the thread ends.           *)
Cancel ==
  /\ need_cancel' = IF need_cancel = "null" THEN "null" ELSE "cancelled"
  /\ owed' = IF need_cancel = "clear"
               THEN owed \cup Range(dispatch_stack) \cup Range(batch)
               ELSE owed

Stop ==
  /\ ctl = "idle"
  /\ Cancel
  /\ ctl' = "notify"
  /\ UNCHANGED <<queues, loop, draining, thread, thread_id, starts, notifying,
                 disposed, pushed, executed, due, fired>>

StopNotify ==
  /\ ctl = "notify"
  /\ ctl' = "idle"
  /\ NotifyOne
  /\ UNCHANGED <<queues, draining, need_cancel, thread, thread_id, starts,
                 notifying, disposed, history>>

StopFromCallback ==
  /\ InCallback
  /\ need_cancel = "clear"
  /\ Cancel
  /\ UNCHANGED <<queues, loop, draining, thread, thread_id, ctl, starts, notifying,
                 disposed, pushed, executed, due, fired>>

(* wait() begins to join, if there is a thread. *)
WaitBegin ==
  /\ ctl = "idle"
  /\ ctl' = "join"
  /\ UNCHANGED <<queues, loop, draining, need_cancel, thread, thread_id, starts,
                 notifying, disposed, history>>

\* wait() does not join
WaitEnd_NoJoin ==
  /\ ctl = "join"
  /\ thread' = "null" /\ need_cancel' = "null" /\ thread_id' = FALSE
  /\ ctl'  = "idle"
  /\ loop' = IF loop = "exited" THEN "none" ELSE loop
  /\ UNCHANGED <<queues, draining, starts, notifying, disposed, history>>

(* ... and when the thread has ended, forgets it. *)
WaitEnd ==
  /\ ctl = "join"
  /\ thread = "joinable" => loop = "exited"
  /\ thread' = "null" /\ need_cancel' = "null" /\ thread_id' = FALSE
  /\ ctl'  = "idle"
  /\ loop' = IF loop = "exited" THEN "none" ELSE loop
  /\ UNCHANGED <<queues, draining, starts, notifying, disposed, history>>

-----------------------------------------------------------------------------
(* The thread: thread_loop, poll_all_dispatched, poll_all_deferred *)

ThreadStart ==
  /\ loop = "started"
  /\ thread_id' = TRUE
  /\ loop' = "check"
  /\ UNCHANGED <<queues, draining, need_cancel, thread, ctl, starts, notifying,
                 disposed, history>>

\* the loop ends without the final sweeps
CheckCancel_NoDrain ==
  /\ loop = "check"
  /\ loop' = IF need_cancel = "cancelled" THEN "exited" ELSE "sweep"
  /\ draining' = (need_cancel = "cancelled")
  /\ UNCHANGED <<queues, life, notifying, disposed, history>>

(* while (!_need_cancel->is_cancelled()) ... *)
CheckCancel ==
  /\ loop = "check"
  /\ loop' = "sweep"
  /\ draining' = (need_cancel = "cancelled")
  /\ UNCHANGED <<queues, life, notifying, disposed, history>>

\* the callbacks are run in the order of the list, newest first
SweepDispatched_Lifo ==
  /\ loop = "sweep"
  /\ batch' = Reverse(dispatch_stack)
  /\ dispatch_stack' = <<>>
  /\ loop' = IF dispatch_stack # <<>> THEN "running"
             ELSE IF draining THEN "exited" ELSE "wait"
  /\ UNCHANGED <<deferred_stack, dbatch, draining, life, notifying, disposed, history>>

(* _dispatch_stack.sweep_ordered takes everything.  Nothing there: the     *)
(* second loop of thread_loop ends; the first one waits.                   *)
SweepDispatched ==
  /\ loop = "sweep"
  /\ batch' = dispatch_stack
  /\ dispatch_stack' = <<>>
  /\ loop' = IF dispatch_stack # <<>> THEN "running"
             ELSE IF draining THEN "exited" ELSE "wait"
  /\ UNCHANGED <<deferred_stack, dbatch, draining, life, notifying, disposed, history>>

(* CVWaiter::wait: from here on a notification is received ... *)
Block ==
  /\ loop = "wait"
  /\ loop' = "blocked"
  /\ UNCHANGED <<queues, draining, life, notifying, disposed, history>>

\* the wait has no timeout
WakeUp_NotifiedOnly == FALSE /\ UNCHANGED vars

(* ... and without one the wait times out, or wakes up spuriously. *)
WakeUp ==
  /\ loop = "blocked"
  /\ loop' = "check"
  /\ UNCHANGED <<queues, draining, life, notifying, disposed, history>>

\* the composite token leaves out the executor's own token
SeesCancelled_DisposerOnly(a) == a \in disposed

(* CancellationTokenComposite::is_cancelled of the token that              *)
(* DispatchAction::execute passes to managed action a.                     *)
SeesCancelled(a) == a \in disposed \/ need_cancel = "cancelled"

(* The running action returns. *)
FinishAction ==
  /\ loop = "running"
  /\ Head(batch) \in Managed => SeesCancelled(Head(batch))
  /\ executed' = Append(executed, Head(batch))
  /\ batch' = Tail(batch)
  /\ due'   = Range(deferred_stack)
  /\ loop'  = "poll"
  /\ UNCHANGED <<dispatch_stack, deferred_stack, dbatch, draining, life, notifying,
                 disposed, pushed, owed, fired>>

(* The next action of the batch, or the end of poll_all_dispatched. *)
AfterPoll == IF batch # <<>> THEN "running" ELSE IF draining THEN "sweep" ELSE "check"

\* poll_all_deferred only when the batch is over
PollDeferred_AtBatchEnd ==
  /\ loop = "poll"
  /\ IF batch # <<>>
       THEN UNCHANGED <<dbatch, deferred_stack>> /\ loop' = "running"
       ELSE /\ dbatch' = Reverse(deferred_stack)
            /\ deferred_stack' = <<>>
            /\ loop' = IF deferred_stack # <<>> THEN "deferred" ELSE AfterPoll
  /\ UNCHANGED <<dispatch_stack, batch, draining, life, notifying, disposed, history>>

(* poll_all_deferred: sweep takes all there is, newest first, ... *)
PollDeferred ==
  /\ loop = "poll"
  /\ dbatch' = Reverse(deferred_stack)
  /\ deferred_stack' = <<>>
  /\ loop' = IF deferred_stack # <<>> THEN "deferred" ELSE AfterPoll
  /\ UNCHANGED <<dispatch_stack, batch, draining, life, notifying, disposed, history>>

(* ... and runs it; what these callbacks defer is left for the next poll. *)
FinishDeferred ==
  /\ loop = "deferred"
  /\ fired'  = fired \cup {Head(dbatch)}
  /\ dbatch' = Tail(dbatch)
  /\ loop'   = IF Len(dbatch) > 1 THEN "deferred" ELSE AfterPoll
  /\ UNCHANGED <<dispatch_stack, deferred_stack, batch, draining, life, notifying,
                 disposed, pushed, executed, owed, due>>

-----------------------------------------------------------------------------
ThreadStep == \/ ThreadStart \/ CheckCancel \/ SweepDispatched \/ Block
              \/ FinishAction \/ PollDeferred \/ FinishDeferred

Next ==
  \/ \E c \in Clients \cup {Worker} : \/ \E a \in Actions : Dispatch(c, a)
                                      \/ \E d \in Deferred : Defer(c, d)
  \/ \E c \in Clients : Notify(c)
  \/ \E a \in Actions : Dispose(a)
  \/ Start \/ Stop \/ StopNotify \/ StopFromCallback \/ WaitBegin \/ WaitEnd
  \/ ThreadStep
  \/ WakeUp

Spec == Init /\ [][Next]_vars

(* The thread is scheduled, its waits time out, a notification that was    *)
(* decided on is sent.  Nobody has to dispatch, start, stop or dispose.    *)
Fairness ==
  /\ WF_vars(ThreadStep)
  /\ WF_vars(WakeUp)
  /\ WF_vars(StopNotify)
  /\ \A c \in Clients : WF_vars(Notify(c))

FairSpec == Spec /\ Fairness

-----------------------------------------------------------------------------
TypeOK ==
  /\ dispatch_stack \in Seq(Actions) /\ batch \in Seq(Actions)
  /\ deferred_stack \in Seq(Deferred) /\ dbatch \in Seq(Deferred)
  /\ loop \in {"none", "started", "check", "sweep", "wait", "blocked", "running",
               "poll", "deferred", "exited"}
  /\ draining \in BOOLEAN /\ thread_id \in BOOLEAN
  /\ need_cancel \in {"null", "clear", "cancelled"}
  /\ thread \in {"null", "joinable"}
  /\ ctl \in {"idle", "notify", "join"}
  /\ notifying \subseteq Clients /\ disposed \subseteq Managed
  /\ starts \in 0..MaxStarts
  /\ pushed \in Seq(Actions) /\ executed \in Seq(Actions)
  /\ owed \subseteq Actions
  /\ due \subseteq Deferred /\ fired \subseteq Deferred

(* Callbacks run in the order of their dispatch, whoever dispatched them   *)
(* and through any number of stops and restarts; none is lost or run twice *)
(* (what "Executor order test" observes on one run).                       *)
GlobalFifo == pushed = executed \o batch \o dispatch_stack

(* When the thread ends, it has run all that was dispatched before stop(), *)
(* and all that its callbacks dispatched at any time, even during the      *)
(* final sweeps (the test dispatches, starts, stops, waits and expects all *)
(* of the nested callbacks to have run).                                   *)
DrainedAtExit == loop = "exited" => owed \subseteq Range(executed)

(* A callback deferred before an action finished has run before the next   *)
(* action begins, and before the thread goes back to wait.                 *)
DeferredRunFirst ==
  loop \in {"running", "check", "sweep", "wait", "blocked", "exited"}
    => due \subseteq fired

(* thread_loop reads _need_cancel and callbacks use is_on() only while     *)
(* wait() has not reset them.                                              *)
TokenOutlivesLoop ==
  loop \notin {"none", "started", "exited"} =>
    need_cancel # "null" /\ thread = "joinable" /\ thread_id

(* A dispatched callback runs, without any help by a later notification,   *)
(* unless the thread has ended, was never started, or is kept by a managed *)
(* callback that nobody cancels.                                           *)
DispatchedRuns ==
  \A a \in Actions :
    (a \in Range(pushed) /\ loop # "none")
      ~> \/ a \in Range(executed)
         \/ loop \in {"exited", "none"}
         \/ loop = "running" /\ Head(batch) \in Managed

(* stop() ends the thread, also while a managed callback is running: it    *)
(* sees the cancellation through its token.                                *)
StopEnds == (need_cancel = "cancelled") ~> (loop \in {"exited", "none"})

=============================================================================
