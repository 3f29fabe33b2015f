---------------------------- MODULE MCSchedulers ----------------------------
(***************************************************************************)
(* The three executors that run a thread of their own, checked for         *)
(* liveness in one run: SingleThreadExecutor, GrpcQueueScheduler and       *)
(* AsioScheduler.  A behaviour exercises one of them, chosen at the start. *)
(* GrpcQueueScheduler's definitions go by their own names.                 *)
(***************************************************************************)
EXTENDS GrpcQueueScheduler

\* A delayed action differs from a dispatched one in the queue of gRPC only
\* by when its alarm expires, and that may be at any time for both: the cfg
\* gives the io_context alone a delayed one.
CONSTANTS Clients, Actions, Managed, Calls,    \* SingleThreadExecutor
          DelayedInIo, work                    \* AsioScheduler

VARIABLES
  chosen,
  (* SingleThreadExecutor *)
  dispatch_stack, eDeferred, batch, eBatch, eLoop, eDraining, eCancel, eThread,
  thread_id, eCtl, notifying, disposed, eStarts, pushed, executed, owed, due, eFired,
  (* AsioScheduler *)
  kind, posted, timers, aCurrent, aCancel, aThread, aLoop, stopped, aCtl, workState,
  aStarts, aUsed, aGone, overtaken

executorVars ==
  <<dispatch_stack, eDeferred, batch, eBatch, eLoop, eDraining, eCancel, eThread,
    thread_id, eCtl, notifying, disposed, eStarts, pushed, executed, owed, due, eFired>>
asioVars ==
  <<kind, posted, timers, aCurrent, aCancel, aThread, aLoop, stopped, aCtl, workState,
    aStarts, aUsed, aGone, overtaken>>

Executor == INSTANCE SingleThreadExecutor WITH
              Deferred <- Calls, deferred_stack <- eDeferred, dbatch <- eBatch,
              loop <- eLoop, draining <- eDraining, need_cancel <- eCancel,
              thread <- eThread, ctl <- eCtl, starts <- eStarts, fired <- eFired

Asio == INSTANCE AsioScheduler WITH
          Delayed <- DelayedInIo, current <- aCurrent, need_cancel <- aCancel,
          thread <- aThread, loop <- aLoop, ctl <- aCtl, starts <- aStarts,
          used <- aUsed, gone <- aGone

ASSUME SchedulersAssumption ==
  Executor!ExecutorAssumption /\ GrpcAssumption /\ Asio!AsioAssumption

MCInit ==
  /\ chosen \in {"executor", "grpc", "asio"}
  /\ Executor!Init /\ Init /\ Asio!Init
  /\ chosen # "asio" => kind = "work"

MCNext ==
  /\ UNCHANGED chosen
  /\ \/ chosen = "executor" /\ Executor!Next /\ UNCHANGED <<vars, asioVars>>
     \/ chosen = "grpc" /\ Next /\ UNCHANGED <<executorVars, asioVars>>
     \/ chosen = "asio" /\ Asio!Next /\ UNCHANGED <<executorVars, vars>>

allVars == <<chosen, executorVars, vars, asioVars>>

MCSpec ==
  /\ MCInit /\ [][MCNext]_allVars
  /\ chosen = "executor" => Executor!Fairness
  /\ chosen = "grpc" => Fairness
  /\ chosen = "asio" => Asio!Fairness

(* The queue of gRPC and the io_context: an action is in one place from    *)
(* the moment it is submitted, and deletes itself once.                    *)
BothOwnedOnce == OneOwner /\ Asio!OneOwner

(* A dispatched callback runs, or the thread has ended; but none does in   *)
(* an io_service that an earlier run has left stopped.                     *)
EveryDispatchedRuns ==
  DispatchedRuns /\ Executor!DispatchedRuns /\ Asio!DispatchedRuns

(* stop() ends the thread, whatever runs, is armed or is deferred; and     *)
(* run_until_done() returns, unless the io_service was stopped when it was *)
(* called.                                                                 *)
EveryStopEnds == StopEnds /\ Executor!StopEnds /\ Asio!StopEnds

=============================================================================
