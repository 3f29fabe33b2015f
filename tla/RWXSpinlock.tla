---------------------------- MODULE RWXSpinlock ----------------------------
(***************************************************************************)
(* concurrency/rwx_spinlock: a read / write / exclusive spinlock in one    *)
(* atomic long.  An operation is a load followed by compare-exchanges, and *)
(* every one of these atomic accesses is a step of its own.                *)
(*                                                                         *)
(*   flag = 2 * (number of readers) + (1 if there is a writer), or         *)
(*   flag = MinLong while an exclusive holder is inside.                   *)
(***************************************************************************)
EXTENDS Integers, FiniteSets

CONSTANTS
  Threads,      \* the threads that share the lock
  MinLong       \* std::numeric_limits<long>::min()

MaxLong == -(MinLong + 1)

ASSUME ThreadsAssumption == IsFiniteSet(Threads)

(* A long is wide enough to count the threads of the process. *)
ASSUME MinLongAssumption ==
  /\ MinLong \in Int
  /\ MinLong < 0
  /\ 2 * Cardinality(Threads) + 1 <= MaxLong

VARIABLES
  flag,         \* _flag
  pc,           \* pc[t]   : the operation t is inside of, or "idle"
  seen,         \* seen[t] : its local v, the last value of _flag it read
                \*           (0 when the operation has returned)
  held          \* held[t] : the mode its completed operations gave it

vars == <<flag, pc, seen, held>>

Mode == {"no", "read", "write", "exclusive"}

Holders(m) == {t \in Threads : held[t] = m}

(* The operations that return only once they have the lock ... *)
SpinningOp == {"r_lock", "w_lock", "x_lock", "upgrade_w_to_x_lock"}

(* ... and those that try a single compare-exchange. *)
TryOp == {"try_r_lock", "try_w_lock", "try_x_lock", "try_upgrade_r_to_w_lock"}

Op == SpinningOp \cup TryOp

(* The mode an operation may be called in, and the one it leads to. *)
From(op) ==
  CASE op = "upgrade_w_to_x_lock"     -> "write"
    [] op = "try_upgrade_r_to_w_lock" -> "read"
    [] OTHER                          -> "no"

To(op) ==
  CASE op \in {"r_lock", "try_r_lock"}                            -> "read"
    [] op \in {"w_lock", "try_w_lock", "try_upgrade_r_to_w_lock"} -> "write"
    [] OTHER                                                      -> "exclusive"

-----------------------------------------------------------------------------
(* Faulty variants of the definitions below, for the mutation runs.        *)

\* r_lock and w_lock forget that an odd flag means a writer
Suits_IgnoresWriter(op, v) ==
  CASE op \in {"x_lock", "try_x_lock"} -> v = 0
    [] op = "upgrade_w_to_x_lock"      -> v = 1
    [] OTHER                           -> v >= 0

\* only the readers forget it
Suits_ReadersPassWriter(op, v) ==
  CASE op \in {"x_lock", "try_x_lock"} -> v = 0
    [] op = "upgrade_w_to_x_lock"      -> v = 1
    [] op \in {"r_lock", "try_r_lock"} -> v >= 0
    [] OTHER                           -> v >= 0 /\ v % 2 = 0

\* the upgrade to exclusive does not wait for the readers to leave
Suits_UpgradeAnyOdd(op, v) ==
  CASE op \in {"x_lock", "try_x_lock"} -> v = 0
    [] op = "upgrade_w_to_x_lock"      -> v > 0
    [] OTHER                           -> v >= 0 /\ v % 2 = 0

\* the upgrade from read to write adds the writer and keeps the reader
Wanted_UpgradeAdds(op, v) ==
  CASE op \in {"r_lock", "try_r_lock"}                            -> v + 2
    [] op \in {"w_lock", "try_w_lock", "try_upgrade_r_to_w_lock"} -> v + 1
    [] OTHER                                                      -> MinLong

-----------------------------------------------------------------------------
(* The test each operation makes on the value it read before it tries the  *)
(* compare-exchange.                                                       *)
Suits(op, v) ==
  CASE op \in {"x_lock", "try_x_lock"} -> v = 0
    [] op = "upgrade_w_to_x_lock"      -> v = 1
    [] OTHER                           -> v >= 0 /\ v % 2 = 0

(* The value it tries to put there. *)
Wanted(op, v) ==
  CASE op \in {"r_lock", "try_r_lock"}  -> v + 2
    [] op \in {"w_lock", "try_w_lock"}  -> v + 1
    [] op = "try_upgrade_r_to_w_lock"   -> v - 1
    [] OTHER                            -> MinLong

Init ==
  /\ flag = 0
  /\ pc   = [t \in Threads |-> "idle"]
  /\ seen = [t \in Threads |-> 0]
  /\ held = [t \in Threads |-> "no"]

(* Every operation begins with  long v = _flag.load(). *)
Enter(t, op) ==
  /\ pc[t] = "idle"
  /\ held[t] = From(op)
  /\ pc'   = [pc EXCEPT ![t] = op]
  /\ seen' = [seen EXCEPT ![t] = flag]
  /\ UNCHANGED <<flag, held>>

(* The compare-exchange succeeds: the operation returns with the lock. *)
Acquire(t) ==
  LET op == pc[t] IN
  /\ op \in Op
  /\ Suits(op, seen[t])
  /\ flag = seen[t]
  /\ flag' = Wanted(op, seen[t])
  /\ held' = [held EXCEPT ![t] = To(op)]
  /\ pc'   = [pc EXCEPT ![t] = "idle"]
  /\ seen' = [seen EXCEPT ![t] = 0]

(* A spinning operation goes round its loop: the value it read does not    *)
(* suit and is read again, or compare_exchange_weak failed, perhaps        *)
(* spuriously, and left the current value in v.                            *)
Spin(t) ==
  /\ pc[t] \in SpinningOp
  /\ seen' = [seen EXCEPT ![t] = flag]
  /\ UNCHANGED <<flag, pc, held>>

(* A try operation returns false, for either of the same two reasons. *)
GiveUp(t) ==
  /\ pc[t] \in TryOp
  /\ pc'   = [pc EXCEPT ![t] = "idle"]
  /\ seen' = [seen EXCEPT ![t] = 0]
  /\ UNCHANGED <<flag, held>>

(* r_unlock, w_unlock: one fetch_sub each; x_unlock: a plain store. *)
Unlock(t) ==
  /\ pc[t] = "idle"
  /\ held[t] # "no"
  /\ flag' = CASE held[t] = "read"      -> flag - 2
               [] held[t] = "write"     -> flag - 1
               [] held[t] = "exclusive" -> 0
  /\ held' = [held EXCEPT ![t] = "no"]
  /\ UNCHANGED <<pc, seen>>

Next == \E t \in Threads :
          \/ \E op \in Op : Enter(t, op)
          \/ Acquire(t)
          \/ Spin(t)
          \/ GiveUp(t)
          \/ Unlock(t)

Spec == Init /\ [][Next]_vars

(* Threads are scheduled, weak compare-exchanges do not fail spuriously    *)
(* for ever, and whoever holds the lock gives it back in the end.          *)
Fairness ==
  \A t \in Threads :
    /\ WF_vars(Spin(t) /\ seen[t] # flag)
    /\ SF_vars(Acquire(t) /\ pc[t] \in SpinningOp)
    /\ WF_vars(GiveUp(t))
    /\ SF_vars(Unlock(t) /\ held[t] = "read")

FairSpec == Spec /\ Fairness

-----------------------------------------------------------------------------
TypeOK ==
  /\ flag \in Int
  /\ pc   \in [Threads -> Op \cup {"idle"}]
  /\ seen \in [Threads -> Int]
  /\ held \in [Threads -> Mode]

(* The flag counts exactly the holders that the completed operations made: *)
(* no reader or writer is lost in a race of load and compare-exchange, and *)
(* an exclusive holder's plain store of 0 erases nobody.                   *)
FlagCounts ==
  flag = IF Holders("exclusive") # {}
           THEN MinLong
           ELSE 2 * Cardinality(Holders("read"))
                  + (IF Holders("write") # {} THEN 1 ELSE 0)

(* At most one writer, and an exclusive holder is alone, whatever way the  *)
(* holders came to their modes (directly, by try_, or by an upgrade).      *)
Exclusion ==
  \A t, u \in Threads :
    t # u =>
      /\ held[t] = "write" => held[u] # "write"
      /\ held[t] = "exclusive" => held[u] = "no"

(* upgrade_w_to_x_lock asserts  v > 0 && (v % 2) == 1  on entry: true of   *)
(* every value it loads there or later, with readers coming and going.     *)
UpgradeAssert ==
  \A t \in Threads : pc[t] = "upgrade_w_to_x_lock" => seen[t] > 0 /\ seen[t] % 2 = 1

(* The counter stays clear of the value that stands for exclusive, at both *)
(* ends of the range of a long.                                            *)
NoOverflow == flag = MinLong \/ (0 <= flag /\ flag <= MaxLong)

(* Once a writer holds the lock, the set of readers can only shrink until  *)
(* it lets go: this is what the upgrade to exclusive relies on.            *)
WriterShutsDoor ==
  [][\A w \in Threads :
       held[w] = "write" /\ held'[w] = "write"
         => Holders("read")' \subseteq Holders("read")]_vars

(* A writer that asked for the exclusive lock gets it: readers that are    *)
(* inside leave, and none enters meanwhile.  (x_lock has no such promise:  *)
(* readers may overtake it for ever.)                                      *)
UpgradeCompletes ==
  \A t \in Threads : pc[t] = "upgrade_w_to_x_lock" ~> held[t] = "exclusive"

Lock == INSTANCE RWXLock

(* The spinlock implements the abstract lock. *)
ImplementsLock == Lock!Spec

=============================================================================
