----------------------------- MODULE CoroEvent -----------------------------
(***************************************************************************)
(* concurrency/event: CoroEvent, an event that coroutines co_await.  One   *)
(* atomic word, _state, is null (not set, nobody waits), the address of    *)
(* the event (set), or the newest of a list of waiting operations.  set()  *)
(* takes the list in one exchange and resumes its coroutines one by one,   *)
(* each of which may await the event again while the rest is pending.      *)
(*                                                                         *)
(* The compare-exchange loop of await_suspend only retries until the word  *)
(* is what it read, so it is one step: with the event set it gives up,     *)
(* otherwise it pushes.                                                    *)
(***************************************************************************)
EXTENDS Naturals, Sequences, FiniteSets

CONSTANTS
  Coroutines,   \* what awaits
  Setters,      \* threads that call set()
  Resetters,    \* threads that call reset()
  MaxSets       \* bound: how often set() is called

(* What the constants are. *)
CoroEventAssumption == MaxSets \in Nat

VARIABLES
  set,          \* _state = this
  waiters,      \* the list behind _state, newest first, when it is not set
  pending,      \* pending[s]: what set() by s still has to resume
  pc,           \* where each coroutine is
  sets          \* the number of calls to set() so far (bounds the model)

vars == <<set, waiters, pending, pc, sets>>

Init ==
  /\ set \in BOOLEAN
  /\ waiters = <<>>
  /\ pending = [s \in Setters |-> <<>>]
  /\ pc = [c \in Coroutines |-> "running"]
  /\ sets = 0

-----------------------------------------------------------------------------
(* co_await *)

(* await_ready(): a set event does not suspend; otherwise on to            *)
(* await_suspend, which reads the word again.                              *)
AwaitReady(c) ==
  /\ pc[c] = "running" /\ ~set
  /\ pc' = [pc EXCEPT ![c] = "suspending"]
  /\ UNCHANGED <<set, waiters, pending, sets>>

AwaitSuspend(c) ==
  /\ pc[c] = "suspending"
  /\ IF set
       THEN /\ pc' = [pc EXCEPT ![c] = "running"]
            /\ UNCHANGED waiters
       ELSE /\ waiters' = <<c>> \o waiters
            /\ pc' = [pc EXCEPT ![c] = "suspended"]
  /\ UNCHANGED <<set, pending, sets>>

-----------------------------------------------------------------------------
(* set() and reset() *)

\* marks the event set and leaves the list to the next caller of set()
Exchange_LeavesList(s) ==
  /\ pending[s] = <<>> /\ sets < MaxSets
  /\ sets' = sets + 1
  /\ set' = TRUE
  /\ UNCHANGED <<waiters, pending, pc>>

(* old_state = _state.exchange(this): an event that was set has no list. *)
Exchange(s) ==
  /\ pending[s] = <<>> /\ sets < MaxSets
  /\ sets' = sets + 1
  /\ set' = TRUE
  /\ waiters' = <<>>
  /\ pending' = [pending EXCEPT ![s] = waiters]
  /\ UNCHANGED pc

(* next = current->_next; current->_awaiter.resume(); current = next *)
Resume(s) ==
  /\ pending[s] # <<>>
  /\ pc' = [pc EXCEPT ![Head(pending[s])] = "running"]
  /\ pending' = [pending EXCEPT ![s] = Tail(@)]
  /\ UNCHANGED <<set, waiters, sets>>

\* stores null instead of the compare-exchange
Reset_Store(r) ==
  /\ set' = FALSE
  /\ waiters' = <<>>
  /\ UNCHANGED <<pending, pc, sets>>

(* compare_exchange_strong(this -> nullptr) *)
Reset(r) ==
  /\ set
  /\ set' = FALSE
  /\ UNCHANGED <<waiters, pending, pc, sets>>

Next ==
  \/ \E c \in Coroutines : AwaitReady(c) \/ AwaitSuspend(c)
  \/ \E s \in Setters : Exchange(s) \/ Resume(s)
  \/ \E r \in Resetters : Reset(r)

Spec == Init /\ [][Next]_vars

(* A call to set() or a co_await that has begun runs to its end. *)
Fairness ==
  /\ \A c \in Coroutines : WF_vars(AwaitSuspend(c))
  /\ \A s \in Setters : WF_vars(Resume(s))

FairSpec == Spec /\ Fairness

-----------------------------------------------------------------------------
TypeOK ==
  /\ set \in BOOLEAN
  /\ waiters \in Seq(Coroutines)
  /\ pending \in [Setters -> Seq(Coroutines)]
  /\ pc \in [Coroutines -> {"running", "suspending", "suspended"}]
  /\ sets \in 0..MaxSets

(* The places that hold a coroutine: the list of the event and the list    *)
(* that each caller of set() is working through.                           *)
InList(c, q) == {i \in 1..Len(q) : q[i] = c}

Places(c) == {<<"event", i>> : i \in InList(c, waiters)}
               \cup UNION {{<<s, i>> : i \in InList(c, pending[s])} : s \in Setters}

(* A suspended coroutine is linked in exactly one list, once; one that     *)
(* runs is in none.  It is what makes resume() come once per suspension:   *)
(* resuming a coroutine that runs, or that is gone, is undefined.          *)
LinkedOnce ==
  \A c \in Coroutines :
    IF pc[c] = "suspended" THEN Cardinality(Places(c)) = 1 ELSE Places(c) = {}

(* set() wakes those whom it found waiting, in the time it takes to go     *)
(* through its list, even if the event is reset meanwhile.                 *)
SetWakes ==
  \A c \in Coroutines :
    (pc[c] = "suspended" /\ set) ~> pc[c] = "running"

=============================================================================
