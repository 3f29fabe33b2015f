----------------------------- MODULE RWXLocker -----------------------------
(***************************************************************************)
(* concurrency/rwx_spinlock: RWXLocker, the movable object that owns one   *)
(* holding of an RWXSpinlock.  The lock operations it calls are one step   *)
(* here (RWXSpinlockProofs shows that they act as if they were); what is   *)
(* at stake is the bookkeeping of the objects: construction, move          *)
(* construction, move assignment over a locker that holds something,       *)
(* upgrades, unlock and destruction, over several locks.                   *)
(***************************************************************************)
EXTENDS Integers, FiniteSets

CONSTANTS
  Lockers,      \* the places in the program where an RWXLocker may live
  Locks,        \* the spinlocks
  MinLong,      \* std::numeric_limits<long>::min()
  nullptr

(* What the constants are. *)
LockersAssumption ==
  /\ nullptr \notin Locks
  /\ IsFiniteSet(Lockers)
  /\ MinLong \in Int /\ MinLong < 0

VARIABLES
  flag,         \* flag[s]      : RWXSpinlock::_flag of lock s
  alive,        \* the places that hold a constructed RWXLocker
  spinlock,     \* spinlock[l]  : RWXLocker::_spinlock
  lockType      \* lockType[l]  : RWXLocker::_lockType

vars == <<flag, alive, spinlock, lockType>>

RWXLockType == {"no", "read", "write", "exclusive"}

(* What a flag looks like when the blocking lock operation of a mode       *)
(* returns, and what the operation leaves there.                           *)
MayLock(v, m) ==
  CASE m \in {"read", "write"} -> v >= 0 /\ v % 2 = 0
    [] m = "exclusive"         -> v = 0
    [] m = "no"                -> TRUE

Locked(v, m) ==
  CASE m = "read"      -> v + 2
    [] m = "write"     -> v + 1
    [] m = "exclusive" -> MinLong
    [] m = "no"        -> v

(* r_unlock, w_unlock, x_unlock, or nothing. *)
Unlocked(v, m) ==
  CASE m = "read"      -> v - 2
    [] m = "write"     -> v - 1
    [] m = "exclusive" -> 0
    [] m = "no"        -> v

(* RWXLocker::unlock, as the flags it leaves. *)
AfterUnlock(l) ==
  IF lockType[l] = "no" THEN flag
  ELSE [flag EXCEPT ![spinlock[l]] = Unlocked(@, lockType[l])]

Init ==
  /\ flag     = [s \in Locks |-> 0]
  /\ alive    = {}
  /\ spinlock = [l \in Lockers |-> nullptr]
  /\ lockType = [l \in Lockers |-> "no"]

(* RWXLocker() *)
Default(l) ==
  /\ l \notin alive
  /\ alive'    = alive \cup {l}
  /\ spinlock' = [spinlock EXCEPT ![l] = nullptr]
  /\ lockType' = [lockType EXCEPT ![l] = "no"]
  /\ UNCHANGED flag

(* RWXLocker(spinlock, lockType): blocks until the lock is granted. *)
Construct(l, s, m) ==
  /\ l \notin alive
  /\ MayLock(flag[s], m)
  /\ flag'     = [flag EXCEPT ![s] = Locked(@, m)]
  /\ alive'    = alive \cup {l}
  /\ spinlock' = [spinlock EXCEPT ![l] = s]
  /\ lockType' = [lockType EXCEPT ![l] = m]

-----------------------------------------------------------------------------
(* Faulty variants, for the mutation runs. *)

\* the assigned-to locker forgets what it held
MoveAssign_NoUnlock(l, o) ==
  /\ l \in alive /\ o \in alive
  /\ spinlock' = [[spinlock EXCEPT ![l] = spinlock[o]] EXCEPT ![o] = nullptr]
  /\ lockType' = [[lockType EXCEPT ![l] = lockType[o]] EXCEPT ![o] = "no"]
  /\ UNCHANGED <<flag, alive>>

\* the upgrade of a writer goes through while readers are inside
MayUpgrade_AnyOdd(v) == v > 0 /\ v % 2 = 1

-----------------------------------------------------------------------------
(* RWXLocker(RWXLocker&& other) *)
MoveConstruct(l, o) ==
  /\ l \notin alive /\ o \in alive
  /\ alive'    = alive \cup {l}
  /\ spinlock' = [spinlock EXCEPT ![l] = spinlock[o], ![o] = nullptr]
  /\ lockType' = [lockType EXCEPT ![l] = lockType[o], ![o] = "no"]
  /\ UNCHANGED flag

(* operator=(RWXLocker&& other): first unlock(), then the four assignments *)
(* in the order of the code; o may be l itself.                            *)
MoveAssign(l, o) ==
  /\ l \in alive /\ o \in alive
  /\ flag'     = AfterUnlock(l)
  /\ spinlock' = [[spinlock EXCEPT ![l] = spinlock[o]] EXCEPT ![o] = nullptr]
  /\ lockType' = LET unlocked == [lockType EXCEPT ![l] = "no"]
                 IN  [[unlocked EXCEPT ![l] = unlocked[o]] EXCEPT ![o] = "no"]
  /\ UNCHANGED alive

Unlock(l) ==
  /\ l \in alive
  /\ flag'     = AfterUnlock(l)
  /\ lockType' = [lockType EXCEPT ![l] = "no"]
  /\ UNCHANGED <<alive, spinlock>>

(* ~RWXLocker() *)
Destroy(l) ==
  /\ l \in alive
  /\ flag'     = AfterUnlock(l)
  /\ lockType' = [lockType EXCEPT ![l] = "no"]
  /\ spinlock' = [spinlock EXCEPT ![l] = nullptr]
  /\ alive'    = alive \ {l}

(* try_upgrade_to_w() that returns true; one that returns false, and one   *)
(* on a locker that is not reading, change nothing.                        *)
TryUpgradeToW(l) ==
  /\ l \in alive
  /\ lockType[l] = "read"
  /\ LET v == flag[spinlock[l]] IN
       /\ v >= 0 /\ v % 2 = 0
       /\ flag' = [flag EXCEPT ![spinlock[l]] = v - 1]
  /\ lockType' = [lockType EXCEPT ![l] = "write"]
  /\ UNCHANGED <<alive, spinlock>>

MayUpgrade(v) == v = 1

(* upgrade_to_x() of a writer waits for the readers; of an exclusive       *)
(* holder it does nothing; of any other locker it is asserted against.     *)
UpgradeToX(l) ==
  /\ l \in alive
  /\ lockType[l] = "write"
  /\ MayUpgrade(flag[spinlock[l]])
  /\ flag'     = [flag EXCEPT ![spinlock[l]] = MinLong]
  /\ lockType' = [lockType EXCEPT ![l] = "exclusive"]
  /\ UNCHANGED <<alive, spinlock>>

Next ==
  \E l \in Lockers :
    \/ Default(l)
    \/ \E s \in Locks, m \in RWXLockType : Construct(l, s, m)
    \/ \E o \in Lockers : MoveConstruct(l, o) \/ MoveAssign(l, o)
    \/ TryUpgradeToW(l)
    \/ UpgradeToX(l)
    \/ Unlock(l)
    \/ Destroy(l)

Spec == Init /\ [][Next]_vars

-----------------------------------------------------------------------------
TypeOK ==
  /\ flag     \in [Locks -> Int]
  /\ alive    \subseteq Lockers
  /\ spinlock \in [Lockers -> Locks \cup {nullptr}]
  /\ lockType \in [Lockers -> RWXLockType]

Owning(s, m) == {l \in alive : spinlock[l] = s /\ lockType[l] = m}

(* Each lock's flag is what the living lockers that point at it add up to: *)
(* however holdings are moved between objects, none is released twice and  *)
(* none is left behind when its object goes.                               *)
Accounted ==
  \A s \in Locks :
    flag[s] = IF Owning(s, "exclusive") # {}
                THEN MinLong
                ELSE 2 * Cardinality(Owning(s, "read"))
                       + Cardinality(Owning(s, "write"))

(* Nobody shares a lock with an exclusive locker, and no lock has two      *)
(* writing lockers, although any locker may have been moved or upgraded.   *)
OwnersCompatible ==
  \A s \in Locks :
    LET Owners == {l \in alive : spinlock[l] = s /\ lockType[l] # "no"} IN
      \A l, k \in Owners :
        l # k => /\ "exclusive" \notin {lockType[l], lockType[k]}
                 /\ "read" \in {lockType[l], lockType[k]}

LockersAccounted == Accounted /\ OwnersCompatible

=============================================================================
