----------------------------- MODULE CoroScope -----------------------------
(***************************************************************************)
(* concurrency/coro_scope: CoroScope collects tasks and lets a coroutine   *)
(* wait for them.  push_deferred() counts the task in _size and leaves a   *)
(* coroutine behind it that, when the task has finished, draws a number    *)
(* from _cur_published and publishes it on a SequenceBarrier; join() waits *)
(* on that barrier for the number _size.                                   *)
(*                                                                         *)
(* Tasks finish on any thread, so the coroutines behind them interleave;   *)
(* _size is used by the owner of the scope alone.                          *)
(***************************************************************************)
EXTENDS Integers, Sequences, FiniteSets

CONSTANTS
  Tasks,      \* what is pushed, each at most once
  Joiners,    \* coroutines that call join()
  Word        \* how many values size_t has

(* Far fewer tasks than half of the numbers a size_t can count.            *)
ScopeAssumption ==
  /\ IsFiniteSet(Tasks) /\ Tasks \cap Joiners = {}
  /\ Word \in Nat /\ Word % 2 = 0
  /\ Cardinality(Tasks) + 1 < Word \div 2

VARIABLES
  task,             \* task[t]: what has become of it
  size,             \* _size
  cur_published,    \* _cur_published
  number,           \* number[t]: what the coroutine behind t has drawn
  ended,            \* history: the tasks that have come to their end
  last_published, awaiters, op, thread, published   \* _barrier

barrier   == <<last_published, awaiters, op, thread, published>>
scopeVars == <<task, size, cur_published, number, ended>>
vars      == <<scopeVars, barrier>>

Barrier == INSTANCE SequenceBarrier WITH
             Consumers <- Joiners, Producers <- Tasks, Strides <- {1},
             Ahead <- {0}, MaxPublished <- Cardinality(Tasks)

Init ==
  /\ task = [t \in Tasks |-> "outside"]
  /\ size = 0 /\ cur_published = 0
  /\ number = [t \in Tasks |-> 0]
  /\ ended = {}
  /\ Barrier!Init

-----------------------------------------------------------------------------
(* push_deferred(): the coroutine begins at once and co_awaits             *)
(* task.when_ready().                                                      *)
PushDeferred(t) ==
  /\ task[t] = "outside"
  /\ task' = [task EXCEPT ![t] = "running"]
  /\ size' = size + 1
  /\ UNCHANGED <<cur_published, number, ended, barrier>>

(* The task comes to its end, by a value or by an error. *)
Finish(t) ==
  /\ task[t] = "running"
  /\ task' = [task EXCEPT ![t] = "finished"]
  /\ ended' = ended \cup {t}
  /\ UNCHANGED <<size, cur_published, number, barrier>>

\* does not wait for the task
Draw_AtOnce(t) ==
  /\ task[t] \in {"running", "finished"}
  /\ task' = [task EXCEPT ![t] = "drawn"]
  /\ number' = [number EXCEPT ![t] = cur_published]
  /\ cur_published' = (cur_published + 1) % Word
  /\ UNCHANGED <<size, ended, barrier>>

(* _cur_published.fetch_add(1) *)
Draw(t) ==
  /\ task[t] = "finished"
  /\ task' = [task EXCEPT ![t] = "drawn"]
  /\ number' = [number EXCEPT ![t] = cur_published]
  /\ cur_published' = (cur_published + 1) % Word
  /\ UNCHANGED <<size, ended, barrier>>

(* _barrier.publish() of the number drawn, which others may overtake. *)
PublishNumber(t) ==
  /\ task[t] = "drawn"
  /\ task' = [task EXCEPT ![t] = "published"]
  /\ Barrier!Publish(t, number[t])
  /\ UNCHANGED <<size, cur_published, number, ended>>

(* join(): co_await _barrier.wait_until_published(_size, ex) *)
Join(j) ==
  /\ Barrier!Await(j, size % Word)
  /\ UNCHANGED scopeVars

(* publish() and wait_until_published() go on. *)
BarrierStep ==
  /\ \/ \E t \in Barrier!Threads : Barrier!Step(t)
     \/ \E j \in Joiners : Barrier!Suspend(j) \/ Barrier!AwaitResume(j)
  /\ UNCHANGED scopeVars

Next ==
  \/ \E t \in Tasks : PushDeferred(t) \/ Finish(t) \/ Draw(t) \/ PublishNumber(t)
  \/ \E j \in Joiners : Join(j)
  \/ BarrierStep

Spec == Init /\ [][Next]_vars

-----------------------------------------------------------------------------
TypeOK ==
  /\ task \in [Tasks -> {"outside", "running", "finished", "drawn", "published"}]
  /\ size \in 0..Cardinality(Tasks)
  /\ cur_published \in 0..(Word - 1)
  /\ number \in [Tasks -> 0..(Word - 1)]
  /\ ended \subseteq Tasks
  /\ Barrier!TypeOK

(* When join() returns, at least as many tasks have finished as had been   *)
(* pushed when it was called, in whatever order their numbers were         *)
(* published.  (Which of the tasks that are, join() does not say: those    *)
(* that were pushed later count as well.)                                  *)
JoinCovers ==
  \A j \in Joiners : op[j].state = "resumed" => Cardinality(ended) >= op[j].target

(* The comment of publish() says "the published sequence numbers must be   *)
(* monotonically increasing": "This number must not precede the current    *)
(* last_published() value".                                                *)
PublishedInOrder ==
  [][last_published' # last_published
       => ~Barrier!precedes(last_published', last_published)]_vars

=============================================================================
