---------------------- MODULE MCSingleThreadExecutor ----------------------
(***************************************************************************)
(* The executor, the lock-free stack it is built on, and the scope that    *)
(* waits for tasks on executors, in one run.  The executor takes a push    *)
(* and a sweep of a stack as single steps; the stack's own part shows that *)
(* its steps, with their retries, amount to that (ImplementsQueue).  A     *)
(* behaviour exercises one of the three, chosen at the start.  The stack   *)
(* has fewer nodes than pushes, so that addresses are reused.              *)
(***************************************************************************)
EXTENDS SingleThreadExecutor, TLC

CONSTANTS Producers, Consumers, Ordered, Nodes, null, MaxPush,   \* TreiberStack
          Tasks, Joiners, Word                                   \* CoroScope

VARIABLES
  chosen,
  head, live, data, next, pc, mine, count, cur, prev, delivered, \* TreiberStack
  task, size, cur_published, number, ended,            \* CoroScope
  last_published, awaiters, op, publisher, published   \* and its barrier

stackVars == <<head, live, data, next, pc, mine, count, cur, prev, delivered>>

scopeVars == <<task, size, cur_published, number, ended,
               last_published, awaiters, op, publisher, published>>

Stack == INSTANCE TreiberStack
Scope == INSTANCE CoroScope WITH thread <- publisher

ASSUME ComponentsAssumption == Stack!StackAssumption /\ Scope!ScopeAssumption

MCInit ==
  /\ chosen \in {"executor", "stack", "scope"}
  /\ Init /\ Stack!Init /\ Scope!Init

(* A destroyed stack stays as it is. *)
StackGone == (\A t \in Stack!Threads : pc[t] = "gone") /\ UNCHANGED stackVars

(* A scope comes to rest when every task has published its number and      *)
(* every joiner waits for one that will not come.                          *)
ScopeRests ==
  /\ \A t \in Tasks : task[t] = "published"
  /\ \A j \in Joiners : op[j].state = "suspended"
  /\ \A t \in Tasks \cup Joiners : publisher[t].pc = "idle"
  /\ UNCHANGED scopeVars

MCNext ==
  /\ UNCHANGED chosen
  /\ \/ chosen = "executor" /\ Next /\ UNCHANGED <<stackVars, scopeVars>>
     \/ chosen = "stack" /\ (Stack!Next \/ StackGone) /\ UNCHANGED <<vars, scopeVars>>
     \/ chosen = "scope" /\ (Scope!Next \/ ScopeRests) /\ UNCHANGED <<vars, stackVars>>

allVars == <<chosen, vars, stackVars, scopeVars>>

MCSpec == MCInit /\ [][MCNext]_allVars

(* More would be sound, but costs more than it saves. *)
MCSymmetry == Permutations(Nodes)

(* Stack: every allocated node has exactly one owner, though addresses are *)
(* reused under a compare-exchange; nothing leaks or is freed twice.       *)
OneOwner == chosen = "stack" => Stack!OneOwner

(* Stack: the pushes and sweeps, with their retries, are those of a queue. *)
ImplementsQueue ==
  Stack!Queue!Init /\ [][chosen = "stack" => Stack!Queue!Next]_(Stack!Queue!qvars)

(* CoroScope: when join() returns, at least as many tasks have finished as *)
(* had been pushed when it was called.                                     *)
JoinCovers == Scope!JoinCovers

=============================================================================
