------------------------- MODULE GrpcQueueScheduler -------------------------
(***************************************************************************)
(* rpc/grpc/grpc_scheduler: an executor whose thread takes its work from a *)
(* gRPC completion queue.  Every action is an alarm: set, it expires (at   *)
(* once for a dispatched action, later for a delayed or periodic one) and  *)
(* puts its address into the queue; the thread polls the queue with a      *)
(* short deadline, lets the action proceed and then runs what was deferred.*)
(*                                                                         *)
(* The queue is external: shut down, it hands out what is pending and then *)
(* says SHUTDOWN, and it aborts the program when an alarm is set on it     *)
(* afterwards.  So nobody may submit once stop() has begun; a periodic     *)
(* action that re-arms itself is the one caller that cannot know.          *)
(***************************************************************************)
EXTENDS Naturals, FiniteSets, Sequences, SequencesExt

CONSTANTS
  Dispatched,   \* actions of dispatch_impl
  Delayed,      \* actions of schedule_delayed_impl
  Periodic,     \* actions of schedule_periodic_impl
  Deferred,     \* callbacks of defer_impl
  none,
  MaxStarts     \* bound: calls of start() that succeed

VARIABLES
  events,           \* the completed alarms in the queue, oldest first
  armed,            \* the actions whose alarm is set
  shut,             \* Shutdown() of the queue was called
  aborted,          \* an alarm was set on the queue after that
  deferred_stack,   \* _deferred_stack, oldest first
  dbatch,           \* what poll_all_deferred has taken; its head is running
  need_cancel,      \* *_need_cancel: "null", "clear" or "cancelled"
  thread,           \* _thread: "null" or "joinable"
  loop,             \* where thread_loop is
  draining,         \* it is in its second loop
  current,          \* the action that proceeds, or none
  stopping,         \* where the threads inside stop_impl are
  ctl,              \* where the controlling thread is
  starts,           \* calls of start() that succeeded
  (* History *)
  used,             \* the actions that were submitted
  gone,             \* the actions that were deleted
  fired,            \* the deferred callbacks that have run
  ready             \* what was in the queue when the token was cancelled

queue   == <<events, armed, shut, aborted>>
defers  == <<deferred_stack, dbatch, fired>>
life    == <<need_cancel, thread, ctl, starts>>
worker  == <<loop, draining, current>>
vars    == <<queue, defers, life, worker, stopping, used, gone, ready>>

Action   == Dispatched \cup Delayed \cup Periodic
Stoppers == {"controller", "worker"}

(* What the constants are. *)
GrpcAssumption == none \notin Action /\ MaxStarts \in Nat

Init ==
  /\ events = <<>> /\ armed = {} /\ shut = FALSE /\ aborted = FALSE
  /\ deferred_stack = <<>> /\ dbatch = <<>> /\ fired = {}
  /\ need_cancel = "clear" /\ thread = "null" /\ ctl = "idle" /\ starts = 0
  /\ loop = "none" /\ draining = FALSE /\ current = none
  /\ stopping = [p \in Stoppers |-> "no"]
  /\ used = {} /\ gone = {} /\ ready = {}

InCallback == loop \in {"running", "deferred"} /\ stopping["worker"] = "no"

-----------------------------------------------------------------------------
(* Clients and callbacks *)

(* dispatch_impl, schedule_delayed_impl, schedule_periodic_impl *)
Submit(a) ==
  /\ a \notin used
  /\ ~shut /\ \A p \in Stoppers : stopping[p] = "no"
  /\ used'  = used \cup {a}
  /\ armed' = armed \cup {a}
  /\ UNCHANGED <<events, shut, aborted, defers, life, worker, stopping, gone, ready>>

(* defer_impl pushes and tells nobody. *)
Defer(d) ==
  /\ d \notin fired \cup Range(deferred_stack) \cup Range(dbatch)
  /\ deferred_stack' = Append(deferred_stack, d)
  /\ UNCHANGED <<queue, dbatch, fired, life, worker, stopping, used, gone, ready>>

(* An alarm expires and its completion is queued. *)
Expire(a) ==
  /\ a \in armed
  /\ armed'  = armed \ {a}
  /\ events' = Append(events, a)
  /\ UNCHANGED <<shut, aborted, defers, life, worker, stopping, used, gone, ready>>

-----------------------------------------------------------------------------
(* stop_impl, by stop(), by a callback, or by step() when the queue fails *)

MayStop(p) == IF p = "controller" THEN ctl = "idle" ELSE InCallback \/ loop = "failed"

StopTest(p) ==
  /\ MayStop(p)
  /\ stopping[p] = "no"
  /\ need_cancel = "clear"
  /\ stopping' = [stopping EXCEPT ![p] = "shutdown"]
  /\ UNCHANGED <<queue, defers, life, worker, used, gone, ready>>

StopShutdown(p) ==
  /\ stopping[p] = "shutdown"
  /\ stopping' = [stopping EXCEPT ![p] = "cancel"]
  /\ shut' = TRUE
  /\ UNCHANGED <<events, armed, aborted, defers, life, worker, used, gone, ready>>

StopCancel(p) ==
  /\ stopping[p] = "cancel"
  /\ stopping' = [stopping EXCEPT ![p] = "no"]
  /\ need_cancel' = "cancelled"
  /\ ready' = IF need_cancel = "clear" THEN Range(events) ELSE ready
  /\ UNCHANGED <<queue, defers, thread, ctl, starts, worker, used, gone>>

-----------------------------------------------------------------------------
(* start and wait, by one controlling thread *)

Start ==
  /\ ctl = "idle" /\ stopping["controller"] = "no"
  /\ thread = "null"
  /\ starts < MaxStarts
  /\ need_cancel' = "clear"
  /\ thread' = "joinable"
  /\ starts' = starts + 1
  /\ loop' = "step" /\ draining' = FALSE
  /\ UNCHANGED <<queue, defers, ctl, current, stopping, used, gone, ready>>

WaitBegin ==
  /\ ctl = "idle" /\ stopping["controller"] = "no"
  /\ ctl' = "join"
  /\ UNCHANGED <<queue, defers, need_cancel, thread, starts, worker, stopping, used,
                 gone, ready>>

(* wait() joins, if there is a thread, and resets thread and token. *)
WaitEnd ==
  /\ ctl = "join"
  /\ thread = "joinable" => loop = "exited"
  /\ thread' = "null" /\ need_cancel' = "null" /\ ctl' = "idle"
  /\ loop' = "none"
  /\ UNCHANGED <<queue, defers, starts, draining, current, stopping, used, gone, ready>>

-----------------------------------------------------------------------------
(* thread_loop: step() until it fails and the token is cancelled, and then *)
(* until it fails once more.                                               *)

(* AsyncNext returns GOT_EVENT. *)
GotEvent ==
  /\ loop = "step"
  /\ events # <<>>
  /\ current' = Head(events)
  /\ events'  = Tail(events)
  /\ loop' = "proceed"
  /\ UNCHANGED <<armed, shut, aborted, defers, life, draining, stopping, used, gone, ready>>

(* ... TIMEOUT ... *)
TimedOut ==
  /\ loop = "step"
  /\ events = <<>> /\ (shut => armed # {})
  /\ loop' = "check"
  /\ UNCHANGED <<queue, defers, life, draining, current, stopping, used, gone, ready>>

(* ... or SHUTDOWN, upon which step() calls stop_impl (see MayStop). *)
QueueFailed ==
  /\ loop = "step"
  /\ events = <<>> /\ shut /\ armed = {}
  /\ loop' = "failed"
  /\ UNCHANGED <<queue, defers, life, draining, current, stopping, used, gone, ready>>

FailedStep ==
  /\ loop = "failed"
  /\ need_cancel # "clear" /\ stopping["worker"] = "no"
  /\ loop' = "check"
  /\ UNCHANGED <<queue, defers, life, draining, current, stopping, used, gone, ready>>

\* the thread ends with the first loop
StepFailed_NoDrain ==
  /\ loop = "check"
  /\ loop' = IF need_cancel = "cancelled" THEN "exited" ELSE "step"
  /\ UNCHANGED <<queue, defers, life, draining, current, stopping, used, gone, ready>>

(* step() was false: the end of one loop or the other, or another round. *)
StepFailed ==
  /\ loop = "check"
  /\ loop' = IF draining THEN "exited" ELSE "step"
  /\ draining' = (need_cancel = "cancelled")
  /\ UNCHANGED <<queue, defers, life, current, stopping, used, gone, ready>>

(* proceed(): a periodic action first looks at the token. *)
Proceed ==
  /\ loop = "proceed"
  /\ IF current \in Periodic /\ need_cancel = "cancelled"
       THEN loop' = "poll" /\ gone' = gone \cup {current} /\ current' = none
       ELSE loop' = "running" /\ UNCHANGED <<gone, current>>
  /\ UNCHANGED <<queue, defers, life, draining, stopping, used, ready>>

(* The callback returns; the action deletes itself. *)
Finish ==
  /\ InCallback /\ loop = "running"
  /\ gone' = gone \cup {current}
  /\ current' = none
  /\ loop' = "poll"
  /\ UNCHANGED <<queue, defers, life, draining, stopping, used, ready>>

(* The callback of a periodic action returns true: its alarm is set again, *)
(* whatever became of the queue meanwhile.                                 *)
Rearm ==
  /\ InCallback /\ loop = "running"
  /\ current \in Periodic
  /\ armed' = IF shut THEN armed ELSE armed \cup {current}
  /\ aborted' = shut
  /\ loop' = IF shut THEN "exited" ELSE "poll"
  /\ current' = none
  /\ UNCHANGED <<events, shut, defers, life, draining, stopping, used, gone, ready>>

(* poll_all_deferred *)
PollDeferred ==
  /\ loop = "poll"
  /\ dbatch' = Reverse(deferred_stack)
  /\ deferred_stack' = <<>>
  /\ loop' = IF deferred_stack = <<>> THEN "step" ELSE "deferred"
  /\ UNCHANGED <<queue, fired, life, draining, current, stopping, used, gone, ready>>

FinishDeferred ==
  /\ InCallback /\ loop = "deferred"
  /\ fired'  = fired \cup {Head(dbatch)}
  /\ dbatch' = Tail(dbatch)
  /\ loop'   = IF Len(dbatch) > 1 THEN "deferred" ELSE "step"
  /\ UNCHANGED <<queue, deferred_stack, life, draining, current, stopping, used, gone, ready>>

WorkerStep == \/ GotEvent \/ TimedOut \/ QueueFailed \/ FailedStep \/ StepFailed
              \/ Proceed \/ Finish \/ PollDeferred \/ FinishDeferred

Next ==
  /\ ~aborted
  /\ \/ \E a \in Action : Submit(a) \/ Expire(a)
     \/ \E d \in Deferred : Defer(d)
     \/ \E p \in Stoppers : StopTest(p) \/ StopShutdown(p) \/ StopCancel(p)
     \/ Start \/ WaitBegin \/ WaitEnd
     \/ WorkerStep
     \/ Rearm

Spec == Init /\ [][Next]_vars

(* The thread is scheduled, alarms expire, a call of stop() goes on to its *)
(* end, and step() calls stop_impl when the queue fails.                   *)
Fairness ==
  /\ WF_vars(~aborted /\ (WorkerStep \/ Rearm))
  /\ \A a \in Action : WF_vars(~aborted /\ Expire(a))
  /\ \A p \in Stoppers : WF_vars(~aborted /\ (StopShutdown(p) \/ StopCancel(p)))
  /\ WF_vars(~aborted /\ loop = "failed" /\ StopTest("worker"))

FairSpec == Spec /\ Fairness

-----------------------------------------------------------------------------
TypeOK ==
  /\ events \in Seq(Action) /\ armed \subseteq Action
  /\ shut \in BOOLEAN /\ aborted \in BOOLEAN /\ draining \in BOOLEAN
  /\ deferred_stack \in Seq(Deferred) /\ dbatch \in Seq(Deferred)
  /\ need_cancel \in {"null", "clear", "cancelled"}
  /\ thread \in {"null", "joinable"} /\ ctl \in {"idle", "join"}
  /\ loop \in {"none", "step", "failed", "check", "proceed", "running", "poll",
               "deferred", "exited"}
  /\ current \in Action \cup {none}
  /\ stopping \in [Stoppers -> {"no", "shutdown", "cancel"}]
  /\ starts \in 0..MaxStarts
  /\ used \subseteq Action /\ gone \subseteq used /\ ready \subseteq used
  /\ fired \subseteq Deferred

(* Every action that was submitted is in one place: its alarm is set, its  *)
(* completion is queued, it proceeds, or it has deleted itself.  (An       *)
(* action that deletes itself while its alarm is set comes out of the      *)
(* queue as a dangling pointer; one in no place is leaked.)                *)
OneOwner ==
  ~aborted =>
    LET proceeding == {current} \ {none} IN
    /\ armed \cup Range(events) \cup proceeding \cup gone = used
    /\ Cardinality(armed) + Len(events) + Cardinality(proceeding) + Cardinality(gone)
         = Cardinality(used)

(* What was in the queue when stop() cancelled the token has proceeded     *)
(* when the thread ends: a completion that arrives between a poll that     *)
(* timed out and the look at the token is found by the second loop.        *)
ReadyRun == (loop = "exited" /\ ~aborted) => ready \subseteq gone

(* A dispatched action runs, or the thread has ended. *)
DispatchedRuns ==
  \A a \in Dispatched :
    (a \in used /\ loop # "none") ~> (a \in gone \/ loop \in {"exited", "none"})

(* stop() ends the thread, whatever is still armed, periodic or deferred. *)
StopEnds == (need_cancel = "cancelled") ~> (loop \in {"exited", "none"})

=============================================================================
