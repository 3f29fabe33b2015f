--------------------------- MODULE AsioScheduler ---------------------------
(***************************************************************************)
(* concurrency/scheduler: a boost::asio io_service as an executor.  Either *)
(* AsioThreadScheduler runs it on a thread of its own, between start() and *)
(* wait(), or AsioScheduler::run_until_done() runs it on the thread of its *)
(* caller until one task is done.  Both run it for 100 ms at a time and    *)
(* look in between at whether they should end.                             *)
(*                                                                         *)
(* Unlike the other executors it makes its token on the new thread, keeps  *)
(* it after wait(), and ends without a last sweep.  An io_service stops    *)
(* itself when the last of its work ends, and so does that of a run, whose *)
(* io_service::work is work too: nobody calls restart() before the next.   *)
(***************************************************************************)
EXTENDS Naturals, FiniteSets, Sequences, SequencesExt, Lists

CONSTANTS
  Dispatched,   \* actions of dispatch_impl and defer_impl
  Delayed,      \* actions of schedule_delayed_impl
  Periodic,     \* actions of schedule_periodic_impl
  work,         \* the task of run_until_done()
  none,
  MaxStarts     \* bound: calls of start() that succeed, or of run_until_done()

VARIABLES
  kind,         \* "thread" or "work"
  posted,       \* the handlers that are ready in _io, oldest first
  timers,       \* the actions whose timer is set
  current,      \* the handler that runs, or none
  need_cancel,  \* *_need_cancel: "null", "clear" or "cancelled"
  thread,       \* _thread: "null" or "joinable"
  loop,         \* where thread_loop, or run_until_done, is
  stopped,      \* the io_service has stopped itself: run_for() returns at once
  ctl,          \* where the controlling thread is
  workState,    \* what has become of the task and its event
  starts,
  (* History *)
  used,         \* the actions that were submitted
  gone,         \* the actions that are done with
  overtaken     \* stop() came before the thread had made its token

tasks  == <<posted, timers, used, gone>>
life   == <<need_cancel, thread, starts, overtaken>>
vars   == <<kind, tasks, current, life, loop, stopped, ctl, workState>>

Action == Dispatched \cup Delayed \cup Periodic

(* What the constants are. *)
AsioAssumption ==
  work \notin Action /\ none \notin Action /\ work # none /\ MaxStarts \in Nat

Init ==
  /\ kind \in {"thread", "work"}
  /\ posted = <<>> /\ timers = {} /\ current = none
  /\ need_cancel = "null" /\ thread = "null" /\ loop = "none" /\ ctl = "idle"
  /\ stopped = FALSE
  /\ workState = "none" /\ starts = 0
  /\ used = {} /\ gone = {} /\ overtaken = FALSE

InCallback == loop = "running"
-----------------------------------------------------------------------------
(* Clients and callbacks: a handler is posted, or a timer is set.          *)
Submit(a) ==
  /\ a \notin used
  /\ used' = used \cup {a}
  /\ IF a \in Dispatched
     THEN posted' = Append(posted, a) /\ UNCHANGED timers
     ELSE timers' = timers \cup {a} /\ UNCHANGED posted
  /\ UNCHANGED <<kind, gone, current, life, loop, ctl, workState, stopped>>

(* Timers expire in the io_service, so only while it is run.               *)
Expire(a) ==
  /\ a \in timers /\ loop = "run" /\ ~stopped
  /\ timers' = timers \ {a}
  /\ posted' = Append(posted, a)
  /\ UNCHANGED <<kind, used, gone, current, life, loop, ctl, workState, stopped>>
-----------------------------------------------------------------------------
(* AsioThreadScheduler: start, stop and wait, by one controlling thread or *)
(* by a callback, for which wait() returns at once.                        *)
Start ==
  /\ kind = "thread" /\ ctl = "idle" /\ thread = "null" /\ starts < MaxStarts
  /\ thread' = "joinable" /\ loop' = "started" /\ starts' = starts + 1
  /\ overtaken' = FALSE
  /\ UNCHANGED <<kind, tasks, current, need_cancel, ctl, workState, stopped>>

ThreadStart ==
  /\ loop = "started"
  /\ need_cancel' = "clear" /\ loop' = "run"
  /\ UNCHANGED <<kind, tasks, current, thread, starts, overtaken, ctl, workState, stopped>>

Stop ==
  /\ kind = "thread" /\ (ctl = "idle" \/ InCallback)
  /\ need_cancel' = IF need_cancel = "null" THEN "null" ELSE "cancelled"
  /\ overtaken' = (overtaken \/ loop = "started")
  /\ UNCHANGED <<kind, tasks, current, thread, starts, loop, ctl, workState, stopped>>

WaitBegin ==
  /\ kind = "thread" /\ ctl = "idle"
  /\ ctl' = "join"
  /\ UNCHANGED <<kind, tasks, current, life, loop, workState, stopped>>

WaitEnd ==
  /\ ctl = "join" /\ (thread = "joinable" => loop = "exited")
  /\ thread' = "null" /\ loop' = "none" /\ ctl' = "idle"
  /\ UNCHANGED <<kind, tasks, current, need_cancel, starts, overtaken, workState, stopped>>
-----------------------------------------------------------------------------
(* run_until_done(): a token nobody cancels, and a coroutine that comes to *)
(* the loop with on(), awaits the task and sets the event, from whatever   *)
(* thread the task ends on.                                                *)
RunUntilDone ==
  /\ kind = "work" /\ loop = "none" /\ starts < MaxStarts
  /\ need_cancel' = "clear" /\ loop' = "run" /\ starts' = starts + 1
  /\ workState' = "posted" /\ posted' = Append(posted, work)
  /\ UNCHANGED <<kind, timers, used, gone, current, thread, overtaken, ctl, stopped>>

WorkEnds ==
  /\ workState = "suspended"
  /\ workState' = "done"
  /\ UNCHANGED <<kind, tasks, current, life, loop, ctl, stopped>>
-----------------------------------------------------------------------------
(* run_for(): handlers run in the order in which they became ready ...     *)
RunNext ==
  /\ loop = "run" /\ ~stopped /\ posted # <<>>
  /\ current' = Head(posted) /\ posted' = Tail(posted)
  /\ loop' = "running"
  /\ UNCHANGED <<kind, timers, used, gone, life, ctl, workState, stopped>>

Finish ==
  /\ loop = "running" /\ current # work
  /\ gone' = gone \cup {current}
  /\ current' = none /\ loop' = "run"
  /\ UNCHANGED <<kind, posted, timers, used, life, ctl, workState, stopped>>

Suspend ==
  /\ loop = "running" /\ current = work
  /\ workState' \in {"suspended", "done"}
  /\ current' = none /\ loop' = "run"
  /\ UNCHANGED <<kind, tasks, life, ctl, stopped>>

(* it is done with before its timer is set again                           *)
Rearm_Forgets ==
  /\ loop = "running" /\ current \in Periodic
  /\ timers' = timers \cup {current}
  /\ gone' = gone \cup {current}
  /\ current' = none /\ loop' = "run"
  /\ UNCHANGED <<kind, posted, used, life, ctl, workState, stopped>>

(* A periodic callback that returns true has its timer set again.          *)
Rearm ==
  /\ loop = "running" /\ current \in Periodic
  /\ timers' = timers \cup {current}
  /\ current' = none /\ loop' = "run"
  /\ UNCHANGED <<kind, posted, used, gone, life, ctl, workState, stopped>>

(* ... and after 100 ms, or at once, the loop looks at whether it should   *)
(* end, with as many handlers left as there are.  If it does, its          *)
(* io_service::work goes, and with the last work the io_service stops.     *)
RunForEnds ==
  /\ loop = "run"
  /\ \/ kind = "thread" /\ need_cancel = "cancelled" /\ loop' = "exited"
     \/ kind = "work" /\ workState = "done" /\ loop' = "none"
  /\ stopped' = (stopped \/ (posted = <<>> /\ timers = {}))
  /\ UNCHANGED <<kind, tasks, current, life, ctl, workState>>

Next ==
  \/ \E a \in Action : Submit(a) \/ Expire(a)
  \/ Start \/ ThreadStart \/ Stop \/ WaitBegin \/ WaitEnd
  \/ RunUntilDone \/ WorkEnds
  \/ RunNext \/ Finish \/ Suspend \/ Rearm \/ RunForEnds

Spec == Init /\ [][Next]_vars

(* The thread is scheduled, a task that was begun ends, and a timer that   *)
(* was set expires.  Every run_for() runs at least one ready handler, and  *)
(* every one ends.                                                         *)
Fairness ==
  /\ WF_vars(ThreadStart) /\ WF_vars(Finish \/ Suspend \/ Rearm) /\ WF_vars(WorkEnds)
  /\ SF_vars(RunNext) /\ SF_vars(RunForEnds)
  /\ \A a \in Action : SF_vars(Expire(a))

FairSpec == Spec /\ Fairness
-----------------------------------------------------------------------------
TypeOK ==
  /\ kind \in {"thread", "work"}
  /\ posted \in Seq(Action \cup {work}) /\ timers \subseteq Action
  /\ current \in Action \cup {work, none}
  /\ need_cancel \in {"null", "clear", "cancelled"}
  /\ thread \in {"null", "joinable"} /\ ctl \in {"idle", "join"}
  /\ loop \in {"none", "started", "run", "running", "exited"}
  /\ workState \in {"none", "posted", "suspended", "done"} /\ stopped \in BOOLEAN
  /\ starts \in 0 .. MaxStarts
  /\ used \subseteq Action /\ gone \subseteq used /\ overtaken \in BOOLEAN

(* Every action that was submitted is in one place, through any number of  *)
(* runs: it is ready, its timer is set, it runs, or it is done with.       *)
OneOwner ==
  LET ready   == Among(posted, Action)
      running == {current} \ {none, work}
  IN  /\ Range(ready) \cup timers \cup running \cup gone = used
      /\ Len(ready) + Cardinality(timers) + Cardinality(running) + Cardinality(gone)
           = Cardinality(used)

(* A dispatched action runs, or the loop has ended, unless an earlier run  *)
(* has left the io_service stopped.                                        *)
DispatchedRuns ==
  \A a \in Dispatched : a \in used /\ loop \in {"run", "running"} /\ ~stopped ~>
    a \in gone \/ loop \in {"exited", "none"}

(* stop() ends the thread, unless it overtook the start of the thread, and *)
(* also when the io_service is stopped; run_until_done() returns, unless   *)
(* an earlier run has left the io_service stopped.                         *)
StopEnds ==
  /\ need_cancel = "cancelled" /\ loop \in {"run", "running"} ~> loop \in {"exited", "none"}
  /\ kind = "work" /\ loop = "run" /\ ~stopped ~> loop = "none"

=============================================================================
