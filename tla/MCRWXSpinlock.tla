--------------------------- MODULE MCRWXSpinlock ---------------------------
(***************************************************************************)
(* The spinlock under its threads, and the lockers that own holdings of    *)
(* spinlocks (RWXLocker), in one run: a behaviour exercises one of them,   *)
(* chosen at the start.  The lockers take the operations of the lock as    *)
(* single steps, which ImplementsLock justifies.                           *)
(***************************************************************************)
EXTENDS RWXSpinlock

CONSTANTS Lockers, Locks, nullptr

VARIABLES
  chosen,
  flags, alive, spinlock, lockType      \* RWXLocker

lockerVars == <<flags, alive, spinlock, lockType>>

MCMinLong == -16

L == INSTANCE RWXLocker WITH flag <- flags

ASSUME LockersAssumption == L!LockersAssumption

MCInit == Init /\ L!Init /\ chosen \in {"RWXSpinlock", "RWXLocker"}

MCNext ==
  /\ UNCHANGED chosen
  /\ \/ chosen = "RWXSpinlock" /\ Next /\ UNCHANGED lockerVars
     \/ chosen = "RWXLocker" /\ L!Next /\ UNCHANGED vars

MCSpec ==
  /\ MCInit /\ [][MCNext]_<<chosen, vars, lockerVars>>
  /\ chosen = "RWXSpinlock" => Fairness

(* RWXLocker: the flag of a lock accounts for exactly the lockers that     *)
(* hold it, through moves, assignments over holders and upgrades, and what *)
(* the lockers of one lock hold is compatible.                             *)
LockersAccounted == L!LockersAccounted

=============================================================================
