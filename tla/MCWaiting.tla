----------------------------- MODULE MCWaiting -----------------------------
(***************************************************************************)
(* What threads and coroutines wait on, checked for liveness in one run:   *)
(* Event, CoroEvent, MPSCResultEvent and SequenceBarrier.  A behaviour     *)
(* exercises one of them, which it has chosen from the start, and the      *)
(* others stay as they are: the state space is the sum of theirs.          *)
(* CoroEvent's definitions go by their own names.                          *)
(***************************************************************************)
EXTENDS CoroEvent, Integers

CONSTANTS Waiters, TimedWaiters, EventSetters, Clearers, nobody, \* Event
          Results, MaxWaits,                                     \* MPSCResultEvent
          Consumers, Producers, Word, Strides, Ahead, MaxPublished

VARIABLES
  chosen,                                       \* what is exercised
  notified, mutex, expired, eventPc, unheard,   \* Event
  state, stack, batch, decided, waiterPc, setPc, awake, waits, \* MPSCResultEvent
  last_published, awaiters, op, thread, published    \* SequenceBarrier

eventVars   == <<notified, mutex, expired, eventPc, unheard>>
resultVars  == <<state, stack, batch, decided, waiterPc, setPc, awake, waits>>
barrierVars == <<last_published, awaiters, op, thread, published>>
allVars     == <<chosen, eventVars, vars, resultVars, barrierVars>>

Event   == INSTANCE Event WITH Setters <- EventSetters, pc <- eventPc
Result  == INSTANCE MPSCResultEvent
Barrier == INSTANCE SequenceBarrier

ASSUME WaitingAssumption == CoroEventAssumption /\ Barrier!SequenceBarrierAssumption

MCInit ==
  /\ chosen \in {"Event", "CoroEvent", "MPSCResultEvent", "SequenceBarrier"}
  /\ Init /\ Event!Init /\ Result!Init /\ Barrier!Init
  /\ chosen # "CoroEvent" => ~set

MCNext ==
  /\ UNCHANGED chosen
  /\ \/ /\ chosen = "Event" /\ Event!Next
        /\ UNCHANGED <<vars, resultVars, barrierVars>>
     \/ /\ chosen = "CoroEvent" /\ Next
        /\ UNCHANGED <<eventVars, resultVars, barrierVars>>
     \/ /\ chosen = "MPSCResultEvent" /\ Result!Next
        /\ UNCHANGED <<eventVars, vars, barrierVars>>
     \/ /\ chosen = "SequenceBarrier" /\ Barrier!Next
        /\ UNCHANGED <<eventVars, vars, resultVars>>

MCSpec ==
  /\ MCInit /\ [][MCNext]_allVars
  /\ chosen = "Event" => Event!Fairness
  /\ chosen = "CoroEvent" => Fairness
  /\ chosen = "MPSCResultEvent" => Result!Fairness
  /\ chosen = "SequenceBarrier" => Barrier!Fairness

(* Event: whoever is asleep while the event is set, with no notification   *)
(* to come, was between the test of the flag and the wait when set()       *)
(* notified.                                                               *)
OnlyUnheardSleep == Event!OnlyUnheardSleep

(* Event: wait_for() returns, whatever happens to the notification and     *)
(* however often the event is cleared.                                     *)
WaitForReturns == Event!WaitForReturns

(* CoroEvent and SequenceBarrier: a suspended coroutine is in exactly one  *)
(* list, once, and one that runs is in none.                               *)
BothLinkedOnce == LinkedOnce /\ Barrier!LinkedOnce

(* MPSCResultEvent: what is set while a wait listens is heard by it, but   *)
(* for what comes after it has been decided.                               *)
ListenerHears == Result!ListenerHears

(* SequenceBarrier: a consumer whose number is published goes on.          *)
PublishedWakes == Barrier!PublishedWakes

=============================================================================
