-------------------------- MODULE MPSCResultEvent --------------------------
(***************************************************************************)
(* concurrency/event.hpp: MPSCResultEvent, where one thread waits, any     *)
(* number of times, for as many results as its callback asks for, and each *)
(* result is set by a thread of its own.  The results go through a Stack,  *)
(* taken here for the queue it implements (HandoffQueue).  The wait has a  *)
(* timeout, so that notifications need not be told from timeouts and       *)
(* spurious wake-ups.  set_if_empty() calls a push_if_empty() that Stack   *)
(* does not have, and cannot be compiled.                                  *)
(***************************************************************************)
EXTENDS Naturals, Sequences

CONSTANTS
  Results,      \* what is set, each by its thread
  MaxWaits      \* bound: calls of wait_multiple()

VARIABLES
  state,        \* _state
  stack,        \* _results_stack, oldest first
  batch,        \* what the running sweep_ordered() has still to deliver
  decided,      \* result of wait_multiple(): "none", "ok" or "error"
  waiterPc,     \* where the waiter is
  setPc,        \* where the thread of each result is
  awake,        \* history: this wait has been woken
  waits         \* how many were started

resultVars == <<state, stack, batch, decided, waiterPc, setPc, awake, waits>>

Init ==
  /\ state = "Waiting"
  /\ stack = <<>>
  /\ batch = <<>>
  /\ decided  = "none"
  /\ waiterPc = "idle"
  /\ setPc = [r \in Results |-> "idle"]
  /\ awake = FALSE
  /\ waits = 0

-----------------------------------------------------------------------------
(* wait_multiple().  The state is not touched until it is woken. *)
StartWait ==
  /\ waiterPc = "idle" /\ waits < MaxWaits
  /\ waits'    = waits + 1
  /\ decided'  = "none"
  /\ awake'    = FALSE
  /\ waiterPc' = "wait"
  /\ UNCHANGED <<state, stack, batch, setPc>>

\* does not announce that the waiter is at work
Wake_LeavesState ==
  /\ waiterPc = "wait"
  /\ awake'    = TRUE
  /\ waiterPc' = "sweep"
  /\ UNCHANGED <<state, stack, batch, decided, setPc, waits>>

(* wait_for() returns: notified, timed out or spuriously. *)
Wake ==
  /\ waiterPc = "wait"
  /\ state'    = "InWork"
  /\ awake'    = TRUE
  /\ waiterPc' = "sweep"
  /\ UNCHANGED <<stack, batch, decided, setPc, waits>>

(* process_results() takes the stack, *)
Take ==
  /\ waiterPc = "sweep" /\ batch = <<>> /\ stack # <<>>
  /\ batch' = stack
  /\ stack' = <<>>
  /\ UNCHANGED <<state, decided, waiterPc, setPc, awake, waits>>

(* and calls wait_clbk with each result of it, also when one has decided   *)
(* already.  Any error replaces what was decided, success does not.        *)
Deliver ==
  /\ batch # <<>>
  /\ batch' = Tail(batch)
  /\ setPc' = [setPc EXCEPT ![Head(batch)] = "heard"]
  /\ \/ UNCHANGED decided
     \/ decided' = IF decided = "none" THEN "ok" ELSE decided
     \/ decided' = "error"
  /\ UNCHANGED <<state, stack, waiterPc, awake, waits>>

(* It has found the stack empty; yaz_defer stores Waiting. *)
EndRound ==
  /\ waiterPc = "sweep" /\ batch = <<>> /\ stack = <<>>
  /\ state'    = "Waiting"
  /\ waiterPc' = IF decided = "none" THEN "wait" ELSE "complete"
  /\ UNCHANGED <<stack, batch, decided, setPc, awake, waits>>

(* _state = Completed; return *result *)
Complete ==
  /\ waiterPc = "complete"
  /\ state'    = "Completed"
  /\ waiterPc' = "idle"
  /\ UNCHANGED <<stack, batch, decided, setPc, awake, waits>>

-----------------------------------------------------------------------------
(* set() *)
CallSet(r) ==
  /\ setPc[r] = "idle"
  /\ setPc' = [setPc EXCEPT ![r] = "look"]
  /\ UNCHANGED <<state, stack, batch, decided, waiterPc, awake, waits>>

(* if (_state == State::Completed) return; *)
Look(r) ==
  /\ setPc[r] = "look"
  /\ setPc' = [setPc EXCEPT ![r] = IF state = "Completed" THEN "dropped" ELSE "push"]
  /\ UNCHANGED <<state, stack, batch, decided, waiterPc, awake, waits>>

(* push; notify_one has no effect that the timeout would not have. *)
Push(r) ==
  /\ setPc[r] = "push"
  /\ setPc' = [setPc EXCEPT ![r] = "pushed"]
  /\ stack' = Append(stack, r)
  /\ UNCHANGED <<state, batch, decided, waiterPc, awake, waits>>

Waiter == StartWait \/ Wake \/ Take \/ Deliver \/ EndRound \/ Complete
Setter(r) == Look(r) \/ Push(r)

Next == Waiter \/ \E r \in Results : CallSet(r) \/ Setter(r)

(* Threads run on.  Nobody has to start a wait, and nobody to set. *)
Fairness ==
  /\ WF_resultVars(Wake) /\ WF_resultVars(Take) /\ WF_resultVars(Deliver)
  /\ WF_resultVars(EndRound) /\ WF_resultVars(Complete)
  /\ \A r \in Results : WF_resultVars(Setter(r))

Spec == Init /\ [][Next]_resultVars /\ Fairness

-----------------------------------------------------------------------------
(* A result whose set() looks at the state while somebody waits, and has   *)
(* been woken or waits for the first time, is heard by the callback unless *)
(* that wait is decided before it is pushed; and what is pushed during a   *)
(* wait is heard, also after the decision.  (Between the start of a later  *)
(* wait and its first wake-up set() still finds Completed, and drops.)     *)
InWait    == waiterPc \in {"wait", "sweep"}
Listening == InWait /\ (awake \/ waits = 1)

ListenerHears ==
  \A r \in Results :
    (setPc[r] = "look" /\ Listening) \/ (setPc[r] = "pushed" /\ InWait)
      ~> setPc[r] = "heard" \/ (setPc[r] # "pushed" /\ decided # "none")

=============================================================================
