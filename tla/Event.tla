------------------------------- MODULE Event -------------------------------
(***************************************************************************)
(* concurrency/event: Event, a manual-reset event made of an atomic flag,  *)
(* a mutex and a condition variable.  set() stores the flag and notifies   *)
(* without taking the mutex that the waiters check the flag under.         *)
(***************************************************************************)
EXTENDS FiniteSets

CONSTANTS
  Waiters,      \* threads that call wait()
  TimedWaiters, \* threads that call wait_for(ms)
  Setters,      \* threads that call set()
  Clearers,     \* threads that call clear()
  nobody        \* the owner of an unlocked mutex

All == Waiters \cup TimedWaiters

VARIABLES
  notified,     \* _notified
  mutex,        \* the thread that holds _wait_mutex, or nobody
  expired,      \* the timed waiters whose deadline has passed
  pc,           \* where each waiter and setter is
  unheard       \* history: the waiters that were between testing the flag
                \* and sleeping when a notify_all went by

vars == <<notified, mutex, expired, pc, unheard>>

Goto(t, from, to) == pc[t] = from /\ pc' = [pc EXCEPT ![t] = to]

(* What a waiter forgets when its call returns. *)
Return(w) ==
  /\ expired' = expired \ {w}
  /\ unheard' = unheard \ {w}

Init ==
  /\ notified = FALSE
  /\ mutex = nobody
  /\ expired = {}
  /\ pc = [t \in All \cup Setters |-> "idle"]
  /\ unheard = {}

-----------------------------------------------------------------------------
(* wait() and wait_for() *)

(* if (is_set()) return; *)
Call(w) ==
  /\ pc[w] = "idle" /\ ~notified
  /\ pc' = [pc EXCEPT ![w] = "lock"]
  /\ UNCHANGED <<notified, mutex, expired, unheard>>

(* unique_lock lk{_wait_mutex} *)
Lock(w) ==
  /\ Goto(w, "lock", "test")
  /\ mutex = nobody
  /\ mutex' = w
  /\ UNCHANGED <<notified, expired, unheard>>

(* The predicate is evaluated with the mutex held; if the flag is set, the *)
(* call returns and unlocks.                                               *)
TestSet(w) ==
  /\ Goto(w, "test", "idle")
  /\ notified
  /\ mutex' = nobody
  /\ Return(w)
  /\ UNCHANGED notified

TestUnset(w) ==
  /\ Goto(w, "test", "sleep")
  /\ ~notified
  /\ UNCHANGED <<notified, mutex, expired, unheard>>

(* _cv.wait(lk): the mutex is released and the thread is on the queue of   *)
(* the condition variable, in one step.                                    *)
Sleep(w) ==
  /\ Goto(w, "sleep", "asleep")
  /\ mutex' = nobody
  /\ UNCHANGED <<notified, expired, unheard>>

(* The condition variable may wake a thread for no reason. *)
SpuriousWakeUp(w) ==
  /\ Goto(w, "asleep", "relock")
  /\ UNCHANGED <<notified, mutex, expired, unheard>>

(* The deadline of wait_for is fixed when the wait begins and passes       *)
(* whatever the thread is doing.                                           *)
Expire(w) ==
  /\ w \in TimedWaiters \ expired
  /\ pc[w] \in {"test", "sleep", "asleep", "relock"}
  /\ expired' = expired \cup {w}
  /\ UNCHANGED <<notified, mutex, pc, unheard>>

\* wait_for sleeps without a deadline
TimeOut_Never(w) == FALSE /\ w \in expired /\ UNCHANGED vars

TimeOut(w) ==
  /\ w \in expired
  /\ Goto(w, "asleep", "relock")
  /\ UNCHANGED <<notified, mutex, expired, unheard>>

(* The wait ends by taking the mutex.  After the deadline the call returns *)
(* what the predicate says, whatever woke the thread; before it, the       *)
(* predicate decides whether to wait again.                                *)
Relock(w) ==
  /\ Goto(w, "relock", "test")
  /\ mutex = nobody /\ w \notin expired
  /\ mutex' = w
  /\ UNCHANGED <<notified, expired, unheard>>

ReturnLate(w) ==
  /\ Goto(w, "relock", "idle")
  /\ mutex = nobody /\ w \in expired
  /\ Return(w)
  /\ UNCHANGED <<notified, mutex>>

-----------------------------------------------------------------------------
(* set() and clear() *)

(* if (is_set()) return;  _notified = true: the load and the store are two *)
(* steps, so that two setters may both come through.                       *)
SetTest(s) ==
  /\ ~notified
  /\ Goto(s, "idle", "store")
  /\ UNCHANGED <<notified, mutex, expired, unheard>>

SetStore(s) ==
  /\ Goto(s, "store", "notify")
  /\ notified' = TRUE
  /\ UNCHANGED <<mutex, expired, unheard>>

Asleep == {w \in All : pc[w] = "asleep"}

\* notify_one instead of notify_all
NotifyAll_One(s) ==
  /\ pc[s] = "notify"
  /\ \E Woken \in {{}} \cup {{w} : w \in Asleep} :
       /\ Woken = {} => Asleep = {}
       /\ pc' = [t \in DOMAIN pc |-> IF t = s THEN "idle"
                                   ELSE IF t \in Woken THEN "relock" ELSE pc[t]]
  /\ unheard' = unheard \cup {w \in All : pc[w] = "sleep"}
  /\ UNCHANGED <<notified, mutex, expired>>

NotifyAll(s) ==
  /\ pc[s] = "notify"
  /\ pc' = [t \in DOMAIN pc |-> IF t = s THEN "idle"
                              ELSE IF t \in Asleep THEN "relock" ELSE pc[t]]
  /\ unheard' = unheard \cup {w \in All : pc[w] = "sleep"}
  /\ UNCHANGED <<notified, mutex, expired>>

Clear(c) ==
  /\ notified' = FALSE
  /\ UNCHANGED <<mutex, expired, pc, unheard>>

WaiterStep(w) ==
  \/ Call(w) \/ Lock(w) \/ TestSet(w) \/ TestUnset(w) \/ Sleep(w)
  \/ SpuriousWakeUp(w) \/ Expire(w) \/ TimeOut(w) \/ Relock(w) \/ ReturnLate(w)

SetterStep(s) == SetTest(s) \/ SetStore(s) \/ NotifyAll(s)

Next ==
  \/ \E w \in All : WaiterStep(w)
  \/ \E s \in Setters : SetterStep(s)
  \/ \E c \in Clearers : Clear(c)

Spec == Init /\ [][Next]_vars

(* A thread inside a call is scheduled, the mutex is granted in the end to *)
(* everyone who keeps asking, and time passes.  Nobody has to call, and a  *)
(* wake-up without a reason is not relied on.                              *)
Fairness ==
  /\ \A w \in All : /\ SF_vars(Lock(w) \/ Relock(w) \/ ReturnLate(w))
                    /\ WF_vars(TestSet(w) \/ TestUnset(w) \/ Sleep(w))
                    /\ WF_vars(Expire(w))
                    /\ WF_vars(TimeOut(w))
  /\ \A s \in Setters : WF_vars(SetStore(s) \/ NotifyAll(s))

FairSpec == Spec /\ Fairness

-----------------------------------------------------------------------------
TypeOK ==
  /\ notified \in BOOLEAN
  /\ mutex \in All \cup {nobody}
  /\ pc \in [All \cup Setters -> {"idle", "lock", "test", "sleep", "asleep", "relock",
                                  "store", "notify"}]
  /\ expired \subseteq TimedWaiters
  /\ unheard \subseteq All

(* If the event is set and nobody is about to notify, whoever is asleep    *)
(* was between the test of the flag and the wait when the notification was *)
(* sent: this is the only way to oversleep.                                *)
OnlyUnheardSleep ==
  (notified /\ \A s \in Setters : pc[s] # "notify") => Asleep \subseteq unheard

(* wait_for() returns, whatever happens to the notification. *)
WaitForReturns == \A w \in TimedWaiters : pc[w] # "idle" ~> pc[w] = "idle"

(* wait() returns once the event is set (and is not cleared again): the    *)
(* tests wait for an event that another thread sets.                       *)
WaitReturns ==
  \A w \in Waiters : (notified /\ pc[w] # "idle") ~> (pc[w] = "idle" \/ ~notified)

=============================================================================
