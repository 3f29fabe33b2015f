------------------------- MODULE RWXSpinlockProofs -------------------------
(***************************************************************************)
(* For every finite set of threads: the spinlock counts its holders, keeps *)
(* them apart, never wraps its counter, and implements RWXLock.  For every *)
(* finite set of lockers and any locks: no move, assignment, upgrade or    *)
(* destruction loses or doubles what a lock has granted.                   *)
(***************************************************************************)
EXTENDS MCRWXSpinlock, FiniteSetTheorems, TLAPS

Readers == Holders("read")

(* A thread stays in the mode its pending operation started from. *)
PendingFrom == \A t \in Threads : pc[t] \in Op => held[t] = From(pc[t])

IInv == TypeOK /\ FlagCounts /\ Exclusion /\ PendingFrom /\ UpgradeAssert

-----------------------------------------------------------------------------
(* The readers are finitely many, and fewer than what a long can count. *)
LEMMA ReadersBounded ==
  /\ IsFiniteSet(Readers)
  /\ Cardinality(Readers) \in Nat
  /\ Cardinality(Readers) <= Cardinality(Threads)
  /\ Cardinality(Threads) \in Nat
<1>1. Readers \subseteq Threads
  BY DEF Readers, Holders
<1>2. QED
  BY <1>1, ThreadsAssumption, FS_Subset, FS_CardinalityType

(* What the flag tells about the holders, when it counts them. *)
LEMMA FlagReading ==
  ASSUME TypeOK, FlagCounts, Exclusion
  PROVE  /\ flag < 0 <=> Holders("exclusive") # {}
         /\ flag < 0 => flag = MinLong
         /\ flag >= 0 => flag = 2 * Cardinality(Readers)
                                  + (IF Holders("write") # {} THEN 1 ELSE 0)
         /\ flag >= 0 /\ flag % 2 = 0
              => Holders("write") = {} /\ flag = 2 * Cardinality(Readers)
         /\ flag = 0 => Readers = {} /\ Holders("write") = {}
         /\ flag = 1 => Readers = {}
         /\ flag >= 0 /\ Holders("write") # {} => flag > 0 /\ flag % 2 = 1
<1> DEFINE r == Cardinality(Readers)
<1>1. r \in Nat /\ (r = 0 => Readers = {})
  BY ReadersBounded, FS_EmptySet
<1>2. CASE Holders("exclusive") # {}
  BY <1>2, MinLongAssumption DEF FlagCounts
<1>3. CASE Holders("exclusive") = {}
  <2>1. flag = 2 * r + (IF Holders("write") # {} THEN 1 ELSE 0)
    BY <1>3 DEF FlagCounts, Readers
  <2> HIDE DEF r
  <2>2. flag >= 0
    BY <1>1, <2>1
  <2>3. CASE Holders("write") # {}
    <3>1. flag = 2 * r + 1
      BY <2>1, <2>3
    <3>2. flag % 2 = 1 /\ flag > 0 /\ (flag = 1 => r = 0)
      BY <3>1, <1>1
    <3>3. QED
      BY <3>1, <3>2, <2>3, <1>3, <1>1 DEF r
  <2>4. CASE Holders("write") = {}
    <3>1. flag = 2 * r
      BY <1>1, <2>1, <2>4
    <3>2. flag % 2 = 0 /\ flag # 1 /\ (flag = 0 => r = 0)
      BY <3>1, <1>1
    <3>3. QED
      BY <3>1, <3>2, <2>2, <2>4, <1>3, <1>1 DEF r
  <2>5. QED
    BY <2>3, <2>4
<1>4. QED
  BY <1>2, <1>3

-----------------------------------------------------------------------------
(* How the sets of holders change when thread t goes to mode m. *)
LEMMA HoldersMove ==
  ASSUME TypeOK, NEW t \in Threads, NEW m \in Mode,
         held' = [held EXCEPT ![t] = m]
  PROVE  /\ \A k \in Mode : Holders(k)' = IF k = m THEN Holders(k) \cup {t}
                                                  ELSE Holders(k) \ {t}
         /\ Cardinality(Readers)' =
              IF m = "read"
                THEN IF t \in Readers THEN Cardinality(Readers)
                                      ELSE Cardinality(Readers) + 1
                ELSE IF t \in Readers THEN Cardinality(Readers) - 1
                                      ELSE Cardinality(Readers)
<1>1. \A k \in Mode : Holders(k)' = IF k = m THEN Holders(k) \cup {t}
                                             ELSE Holders(k) \ {t}
  BY DEF Holders, TypeOK, Mode
<1>2. Readers' = IF m = "read" THEN Readers \cup {t} ELSE Readers \ {t}
  BY <1>1 DEF Readers, Mode
<1>3. QED
  BY <1>1, <1>2, ReadersBounded, FS_AddElement, FS_RemoveElement

(* A successful compare-exchange, one operation at a time: from a flag that *)
(* suits the operation, the new holders are compatible and counted.        *)
LEMMA AcquireStep ==
  ASSUME IInv, NEW t \in Threads, Acquire(t)
  PROVE  FlagCounts' /\ Exclusion'
<1> USE DEF IInv
<1> DEFINE op == pc[t]
<1>1. /\ op \in Op /\ Suits(op, flag) /\ flag' = Wanted(op, flag)
      /\ held' = [held EXCEPT ![t] = To(op)]
      /\ held[t] = From(op)
  BY DEF Acquire, PendingFrom
<1>2. To(op) \in Mode
  BY DEF To, Mode
<1>3. flag \in Int /\ Cardinality(Readers) \in Nat
  BY ReadersBounded DEF TypeOK
<1>4. /\ \A k \in Mode : t \in Holders(k) <=> held[t] = k
      /\ t \in Readers <=> held[t] = "read"
  BY DEF Holders, Readers
<1> HIDE DEF op
<1>5. CASE op \in {"r_lock", "try_r_lock"}
  <2>1. /\ held[t] = "no" /\ flag >= 0 /\ flag % 2 = 0
        /\ flag' = flag + 2 /\ To(op) = "read"
    BY <1>1, <1>5 DEF Suits, Wanted, To, From
  <2>2. Holders("exclusive") = {} /\ Holders("write") = {}
    BY <2>1, <1>3, FlagReading
  <2>3. Holders("exclusive")' = {} /\ Holders("write")' = {}
    BY <2>1, <2>2, <1>1, HoldersMove DEF Mode
  <2>4. FlagCounts'
    <3>1. Cardinality(Readers)' = Cardinality(Readers) + 1
      BY <2>1, <1>1, <1>4, HoldersMove DEF Mode
    <3>2. flag = 2 * Cardinality(Readers)
      BY <2>1, <1>3, FlagReading
    <3>3. flag' = 2 * Cardinality(Readers)'
      BY <3>1, <3>2, <2>1, <1>3
    <3>4. QED
      BY <3>1, <3>3, <2>3, <1>3 DEF FlagCounts, Readers
  <2>5. Exclusion'
    BY <2>3 DEF Exclusion, Holders
  <2>6. QED
    BY <2>4, <2>5
<1>6. CASE op \in {"w_lock", "try_w_lock"}
  <2>1. /\ held[t] = "no" /\ flag >= 0 /\ flag % 2 = 0
        /\ flag' = flag + 1 /\ To(op) = "write"
    BY <1>1, <1>6 DEF Suits, Wanted, To, From
  <2>2. Holders("exclusive") = {} /\ Holders("write") = {}
    BY <2>1, <1>3, FlagReading
  <2>3. Holders("exclusive")' = {} /\ Holders("write")' = {t}
    BY <2>1, <2>2, <1>1, HoldersMove DEF Mode
  <2>4. FlagCounts'
    <3>1. Cardinality(Readers)' = Cardinality(Readers)
      BY <2>1, <1>1, <1>4, HoldersMove DEF Mode
    <3>2. flag = 2 * Cardinality(Readers)
      BY <2>1, <1>3, FlagReading
    <3>3. flag' = 2 * Cardinality(Readers)' + 1
      BY <3>1, <3>2, <2>1, <1>3
    <3>4. QED
      BY <3>1, <3>3, <2>3, <1>3 DEF FlagCounts, Readers
  <2>5. Exclusion'
    BY <2>3 DEF Exclusion, Holders
  <2>6. QED
    BY <2>4, <2>5
<1>7. CASE op = "try_upgrade_r_to_w_lock"
  <2>1. /\ held[t] = "read" /\ flag >= 0 /\ flag % 2 = 0
        /\ flag' = flag - 1 /\ To(op) = "write"
    BY <1>1, <1>7 DEF Suits, Wanted, To, From
  <2>2. Holders("exclusive") = {} /\ Holders("write") = {}
    BY <2>1, <1>3, FlagReading
  <2>3. Holders("exclusive")' = {} /\ Holders("write")' = {t}
    BY <2>1, <2>2, <1>1, HoldersMove DEF Mode
  <2>4. FlagCounts'
    <3>1. Cardinality(Readers)' = Cardinality(Readers) - 1
      BY <2>1, <1>1, <1>4, HoldersMove DEF Mode
    <3>2. flag = 2 * Cardinality(Readers)
      BY <2>1, <1>3, FlagReading
    <3>3. flag' = 2 * Cardinality(Readers)' + 1
      BY <3>1, <3>2, <2>1, <1>3
    <3>4. QED
      BY <3>1, <3>3, <2>3, <1>3 DEF FlagCounts, Readers
  <2>5. Exclusion'
    BY <2>3 DEF Exclusion, Holders
  <2>6. QED
    BY <2>4, <2>5
<1>8. CASE op \in {"x_lock", "try_x_lock", "upgrade_w_to_x_lock"}
  <2>1. /\ flag' = MinLong /\ To(op) = "exclusive"
        /\ (flag = 0 /\ held[t] = "no") \/ (flag = 1 /\ held[t] = "write")
    BY <1>1, <1>8 DEF Suits, Wanted, To, From
  <2>2. Readers = {} /\ Holders("exclusive") = {} /\ Holders("write") \subseteq {t}
    <3>1. Readers = {} /\ Holders("exclusive") = {}
      BY <2>1, <1>3, FlagReading
    <3>2. Holders("write") \subseteq {t}
      BY <2>1, <1>3, FlagReading DEF Exclusion, Holders
    <3>3. QED
      BY <3>1, <3>2
  <2>3. /\ Holders("read")' = {} /\ Holders("write")' = {}
        /\ Holders("exclusive")' = {t}
    BY <2>1, <2>2, <1>1, HoldersMove DEF Mode, Readers
  <2>4. FlagCounts'
    BY <2>1, <2>3 DEF FlagCounts
  <2>5. Exclusion'
    <3>1. \A u \in Threads : held'[u] \in Mode
      BY <1>1, <1>2 DEF TypeOK
    <3>2. QED
      BY <2>3, <3>1 DEF Exclusion, Holders, Mode
  <2>6. QED
    BY <2>4, <2>5
<1>9. QED
  BY <1>1, <1>5, <1>6, <1>7, <1>8 DEF Op, SpinningOp, TryOp

(* Giving the lock back takes out of the flag what the holder put in. *)
LEMMA UnlockStep ==
  ASSUME IInv, NEW t \in Threads, Unlock(t)
  PROVE  FlagCounts' /\ Exclusion'
<1> USE DEF IInv
<1>1. held' = [held EXCEPT ![t] = "no"] /\ held[t] # "no" /\ held[t] \in Mode
  BY DEF Unlock, TypeOK
<1>2. flag \in Int /\ Cardinality(Readers) \in Nat
  BY ReadersBounded DEF TypeOK
<1>3. /\ \A k \in Mode : t \in Holders(k) <=> held[t] = k
      /\ t \in Readers <=> held[t] = "read"
  BY DEF Holders, Readers
<1>4. Exclusion'
  BY <1>1 DEF Exclusion, TypeOK
<1>5. Cardinality(Readers)' = IF held[t] = "read" THEN Cardinality(Readers) - 1
                                                 ELSE Cardinality(Readers)
  BY <1>1, <1>3, HoldersMove DEF Mode
<1>6. \A k \in Mode \ {"no"} : Holders(k)' = Holders(k) \ {t}
  BY <1>1, HoldersMove DEF Mode
<1>7. CASE held[t] = "exclusive"
  <2>1. flag' = 0
    BY <1>7 DEF Unlock
  <2>2. \A u \in Threads \ {t} : held[u] = "no"
    BY <1>7 DEF Exclusion
  <2>3. Holders("read")' = {} /\ Holders("write")' = {} /\ Holders("exclusive")' = {}
    BY <1>6, <2>2 DEF Mode, Holders
  <2>4. Cardinality(Holders("read"))' = 0
    BY <2>3, FS_EmptySet
  <2>5. FlagCounts'
    BY <2>1, <2>3, <2>4 DEF FlagCounts
  <2>6. QED
    BY <2>5, <1>4
<1>8. CASE held[t] = "read"
  <2>1. flag' = flag - 2
    BY <1>8 DEF Unlock
  <2>2. Holders("exclusive") = {}
    BY <1>8 DEF Exclusion, Holders
  <2>3. Holders("exclusive")' = {} /\ Holders("write")' = Holders("write")
    BY <2>2, <1>6, <1>8, <1>3 DEF Mode
  <2>4. flag = 2 * Cardinality(Readers) + (IF Holders("write") # {} THEN 1 ELSE 0)
    BY <2>2 DEF FlagCounts, Readers
  <2>5. flag' = 2 * Cardinality(Readers)' + (IF Holders("write") # {} THEN 1 ELSE 0)
    BY <2>1, <2>4, <1>5, <1>8, <1>2
  <2>6. FlagCounts'
    BY <2>3, <2>5, <1>2, <1>5 DEF FlagCounts, Readers
  <2>7. QED
    BY <2>6, <1>4
<1>9. CASE held[t] = "write"
  <2>1. flag' = flag - 1
    BY <1>9 DEF Unlock
  <2>2. Holders("exclusive") = {} /\ Holders("write") = {t}
    BY <1>9 DEF Exclusion, Holders
  <2>3. Holders("exclusive")' = {} /\ Holders("write")' = {}
    BY <2>2, <1>6 DEF Mode
  <2>4. flag = 2 * Cardinality(Readers) + 1
    BY <2>2 DEF FlagCounts, Readers
  <2>5. flag' = 2 * Cardinality(Readers)'
    BY <2>1, <2>4, <1>5, <1>9, <1>2
  <2>6. FlagCounts'
    BY <2>3, <2>5, <1>2, <1>5, <1>9 DEF FlagCounts, Readers
  <2>7. QED
    BY <2>6, <1>4
<1>10. QED
  BY <1>1, <1>7, <1>8, <1>9 DEF Mode

-----------------------------------------------------------------------------
(* An unlocked flag counts nobody. *)
LEMMA InitInvariant == Init => IInv
<1> SUFFICES ASSUME Init PROVE IInv
  OBVIOUS
<1>1. \A m \in Mode \ {"no"} : Holders(m) = {}
  BY DEF Init, Holders, Mode
<1>2. Cardinality(Holders("read")) = 0
  BY <1>1, FS_EmptySet DEF Mode
<1>3. FlagCounts
  BY <1>1, <1>2 DEF Init, FlagCounts, Mode
<1>4. TypeOK /\ Exclusion /\ PendingFrom /\ UpgradeAssert
  BY DEF Init, TypeOK, Exclusion, PendingFrom, UpgradeAssert, Mode, Op, SpinningOp, TryOp
<1>5. QED
  BY <1>3, <1>4 DEF IInv

(* A thread about to become exclusive loads an odd, positive flag. *)
LEMMA WriterSeesOdd ==
  ASSUME IInv, NEW t \in Threads, held[t] = "write"
  PROVE  flag > 0 /\ flag % 2 = 1
<1>1. Holders("exclusive") = {} /\ Holders("write") # {}
  BY DEF IInv, Exclusion, Holders
<1>2. flag \in Int
  BY DEF IInv, TypeOK
<1>3. QED
  BY <1>1, <1>2, FlagReading DEF IInv

(* Every step of every operation keeps the inductive invariant. *)
LEMMA StepInvariant == IInv /\ [Next]_vars => IInv'
<1> SUFFICES ASSUME IInv, [Next]_vars PROVE IInv'
  OBVIOUS
<1> USE DEF IInv
<1>1. ASSUME NEW t \in Threads, NEW op \in Op, Enter(t, op)
      PROVE  IInv'
  <2>1. TypeOK' /\ FlagCounts' /\ Exclusion'
    BY <1>1 DEF Enter, TypeOK, FlagCounts, Exclusion, Holders
  <2>2. PendingFrom'
    BY <1>1 DEF Enter, TypeOK, PendingFrom
  <2>3. op = "upgrade_w_to_x_lock" => flag > 0 /\ flag % 2 = 1
    BY <1>1, WriterSeesOdd DEF Enter, From
  <2>4. UpgradeAssert'
    BY <1>1, <2>3 DEF Enter, TypeOK, UpgradeAssert
  <2>5. QED
    BY <2>1, <2>2, <2>4
<1>2. ASSUME NEW t \in Threads, Acquire(t)
      PROVE  IInv'
  <2>1. pc[t] \in Op /\ To(pc[t]) \in Mode /\ Wanted(pc[t], flag) \in Int
    BY <1>2, MinLongAssumption DEF Acquire, To, Mode, Wanted, TypeOK
  <2>2. TypeOK'
    BY <1>2, <2>1 DEF Acquire, TypeOK
  <2>3. FlagCounts' /\ Exclusion'
    BY <1>2, AcquireStep
  <2>4. PendingFrom' /\ UpgradeAssert'
    BY <1>2 DEF Acquire, TypeOK, PendingFrom, UpgradeAssert, Op, SpinningOp, TryOp
  <2>5. QED
    BY <2>2, <2>3, <2>4
<1>3. ASSUME NEW t \in Threads, Spin(t)
      PROVE  IInv'
  <2>1. TypeOK' /\ FlagCounts' /\ Exclusion' /\ PendingFrom'
    BY <1>3 DEF Spin, TypeOK, FlagCounts, Exclusion, PendingFrom, Holders
  <2>2. pc[t] = "upgrade_w_to_x_lock" => flag > 0 /\ flag % 2 = 1
    BY <1>3, WriterSeesOdd DEF PendingFrom, From, Op, SpinningOp
  <2>3. UpgradeAssert'
    BY <1>3, <2>2 DEF Spin, TypeOK, UpgradeAssert
  <2>4. QED
    BY <2>1, <2>3
<1>4. ASSUME NEW t \in Threads, GiveUp(t)
      PROVE  IInv'
  <2>1. TypeOK' /\ FlagCounts' /\ Exclusion'
    BY <1>4 DEF GiveUp, TypeOK, FlagCounts, Exclusion, Holders
  <2>2. PendingFrom' /\ UpgradeAssert'
    BY <1>4 DEF GiveUp, TypeOK, PendingFrom, UpgradeAssert, Op, SpinningOp, TryOp
  <2>3. QED
    BY <2>1, <2>2
<1>5. ASSUME NEW t \in Threads, Unlock(t)
      PROVE  IInv'
  <2>1. TypeOK'
    BY <1>5 DEF Unlock, TypeOK, Mode
  <2>2. FlagCounts' /\ Exclusion'
    BY <1>5, UnlockStep
  <2>3. PendingFrom' /\ UpgradeAssert'
    BY <1>5 DEF Unlock, TypeOK, PendingFrom, UpgradeAssert, Op, SpinningOp, TryOp
  <2>4. QED
    BY <2>1, <2>2, <2>3
<1>6. CASE UNCHANGED vars
  BY <1>6 DEF vars, TypeOK, FlagCounts, Exclusion, PendingFrom, UpgradeAssert, Holders
<1>7. QED
  BY <1>1, <1>2, <1>3, <1>4, <1>5, <1>6 DEF Next

(***************************************************************************)
(* The inductive invariant: the flag counts the holders, the holders are   *)
(* compatible, and a pending operation's caller is still in the mode it    *)
(* called from.                                                            *)
(***************************************************************************)
THEOREM Invariance == Spec => []IInv
<1>1. QED
  BY InitInvariant, StepInvariant, PTL DEF Spec

(* Every variable keeps its type, for any number of threads. *)
THEOREM TypeCorrect == Spec => []TypeOK
<1>1. IInv => TypeOK
  BY DEF IInv
<1>2. QED
  BY <1>1, Invariance, PTL

(* The atomic long always equals what the holders add up to. *)
THEOREM Counting == Spec => []FlagCounts
<1>1. IInv => FlagCounts
  BY DEF IInv
<1>2. QED
  BY <1>1, Invariance, PTL

(* One writer at most; whoever is exclusive is alone. *)
THEOREM MutualExclusion == Spec => []Exclusion
<1>1. IInv => Exclusion
  BY DEF IInv
<1>2. QED
  BY <1>1, Invariance, PTL

(* The assertion at the head of upgrade_w_to_x_lock never fails. *)
THEOREM UpgradeAssertHolds == Spec => []UpgradeAssert
<1>1. IInv => UpgradeAssert
  BY DEF IInv
<1>2. QED
  BY <1>1, Invariance, PTL

(* The reader count never runs into the value that stands for exclusive. *)
THEOREM NeverOverflows == Spec => []NoOverflow
<1>1. ASSUME IInv PROVE NoOverflow
  <2>1. flag = MinLong \/ flag = 2 * Cardinality(Readers)
          \/ flag = 2 * Cardinality(Readers) + 1
    BY <1>1, ReadersBounded DEF IInv, FlagCounts, Readers
  <2>2. QED
    BY <2>1, ReadersBounded, MinLongAssumption DEF NoOverflow, MaxLong
<1>2. QED
  BY <1>1, Invariance, PTL

-----------------------------------------------------------------------------
(* No reader gets in past a writer. *)
THEOREM WriterKeepsReadersOut == Spec => WriterShutsDoor
<1> DEFINE Shut == \A w \in Threads :
                     held[w] = "write" /\ held'[w] = "write"
                       => Holders("read")' \subseteq Holders("read")
<1>1. ASSUME IInv, [Next]_vars PROVE [Shut]_vars
  <2> SUFFICES ASSUME NEW w \in Threads, held[w] = "write", held'[w] = "write",
                      NEW u \in Threads, held'[u] = "read", held[u] # "read"
               PROVE  FALSE
    BY DEF Holders
  <2>1. held'[u] # held[u]
    OBVIOUS
  <2>2. Acquire(u)
    BY <1>1, <2>1 DEF Next, vars, Enter, Acquire, Spin, GiveUp, Unlock, IInv, TypeOK
  <2>3. pc[u] \in {"r_lock", "try_r_lock"}
    <3>1. To(pc[u]) = "read"
      BY <1>1, <2>2 DEF Acquire, IInv, TypeOK
    <3>2. QED
      BY <3>1 DEF To
  <2>4. flag % 2 = 0
    BY <2>2, <2>3 DEF Acquire, Suits
  <2>5. flag % 2 = 1
    BY <1>1, WriterSeesOdd
  <2>6. QED
    BY <2>4, <2>5
<1>2. QED
  BY <1>1, Invariance, PTL DEF Spec, WriterShutsDoor

(***************************************************************************)
(* The spinlock implements the abstract lock: only a successful            *)
(* compare-exchange and an unlock are visible, and each is a grant or a    *)
(* release that the abstract lock allows.                                  *)
(***************************************************************************)
THEOREM Refinement == Spec => ImplementsLock
<1>1. Init => Lock!Init
  BY DEF Init, Lock!Init
<1>2. ASSUME IInv, IInv', [Next]_vars PROVE [Lock!Next]_held
  <2> USE DEF IInv
  <2>1. ASSUME NEW t \in Threads, Acquire(t)
        PROVE  Lock!Next
    <3>1. /\ pc[t] \in Op /\ Suits(pc[t], flag) /\ held[t] = From(pc[t])
          /\ held' = [held EXCEPT ![t] = To(pc[t])]
      BY <1>2, <2>1 DEF Acquire, PendingFrom
    <3>2. CASE pc[t] \in {"r_lock", "try_r_lock"}
      <4>1. flag >= 0 /\ flag % 2 = 0 /\ held[t] = "no" /\ To(pc[t]) = "read"
        BY <3>1, <3>2 DEF Suits, From, To
      <4>2. Holders("write") = {} /\ Holders("exclusive") = {}
        BY <1>2, <4>1, FlagReading DEF TypeOK
      <4>3. Lock!GrantRead(t)
        BY <3>1, <4>1, <4>2 DEF Lock!GrantRead, Lock!Holders, Holders
      <4>4. QED
        BY <4>3 DEF Lock!Next
    <3>3. CASE pc[t] \in {"w_lock", "try_w_lock", "try_upgrade_r_to_w_lock"}
      <4>1. /\ flag >= 0 /\ flag % 2 = 0 /\ held[t] \in {"no", "read"}
            /\ To(pc[t]) = "write"
        BY <3>1, <3>3 DEF Suits, From, To
      <4>2. Holders("write") = {} /\ Holders("exclusive") = {}
        BY <1>2, <4>1, FlagReading DEF TypeOK
      <4>3. Lock!GrantWrite(t)
        BY <3>1, <4>1, <4>2 DEF Lock!GrantWrite, Lock!Holders, Holders
      <4>4. QED
        BY <4>3 DEF Lock!Next
    <3>4. CASE pc[t] \in {"x_lock", "try_x_lock", "upgrade_w_to_x_lock"}
      <4>1. held[t] \in {"no", "write"} /\ To(pc[t]) = "exclusive"
        BY <3>1, <3>4 DEF From, To
      <4>2. held'[t] = "exclusive" /\ \A u \in Threads \ {t} : held'[u] = held[u]
        BY <1>2, <3>1, <4>1 DEF TypeOK
      <4>3. Lock!Quiet(t)
        BY <1>2, <4>2 DEF Exclusion, Lock!Quiet
      <4>4. Lock!GrantExclusive(t)
        BY <3>1, <4>1, <4>3 DEF Lock!GrantExclusive
      <4>5. QED
        BY <4>4 DEF Lock!Next
    <3>5. QED
      BY <3>1, <3>2, <3>3, <3>4 DEF Op, SpinningOp, TryOp
  <2>2. ASSUME NEW t \in Threads, Unlock(t)
        PROVE  Lock!Next
    BY <2>2 DEF Unlock, Lock!Next, Lock!Release
  <2>3. ASSUME NEW t \in Threads,
               (\E op \in Op : Enter(t, op)) \/ Spin(t) \/ GiveUp(t)
        PROVE  UNCHANGED held
    BY <2>3 DEF Enter, Spin, GiveUp
  <2>4. CASE UNCHANGED vars
    BY <2>4 DEF vars
  <2>5. QED
    BY <1>2, <2>1, <2>2, <2>3, <2>4 DEF Next
<1>3. QED
  BY <1>1, <1>2, Invariance, PTL DEF Spec, ImplementsLock, Lock!Spec

-----------------------------------------------------------------------------
(* RWXLocker: the lock of a locker at a time.  The places and the locks    *)
(* are any; what the lockers do to a lock they do in single steps, as the  *)
(* refinement allows.                                                      *)

Modes == {"read", "write", "exclusive"}

(* A flag v and the lockers H[m] that hold its lock in each mode m.        *)
Good(v, H) ==
  /\ \A m \in Modes : IsFiniteSet(H[m])
  /\ v = IF H["exclusive"] # {} THEN MinLong
         ELSE 2 * Cardinality(H["read"]) + Cardinality(H["write"])
  /\ H["exclusive"] # {} => H["read"] = {} /\ H["write"] = {}
  /\ Cardinality(H["write"]) <= 1 /\ Cardinality(H["exclusive"]) <= 1

HeldBy(s) == [m \in Modes |-> L!Owning(s, m)]

LockersInv ==
  /\ L!TypeOK
  /\ \A l \in alive : lockType[l] # "no" => spinlock[l] \in Locks
  /\ \A s \in Locks : Good(flags[s], HeldBy(s))

-----------------------------------------------------------------------------
(* One lock *)

LEMMA Counts ==
  ASSUME NEW S, IsFiniteSet(S)
  PROVE  /\ Cardinality(S) \in Nat /\ (Cardinality(S) = 0 <=> S = {})
         /\ \A x : x \notin S => /\ IsFiniteSet(S \cup {x})
                                 /\ Cardinality(S \cup {x}) = Cardinality(S) + 1
         /\ \A x : x \in S => /\ IsFiniteSet(S \ {x})
                              /\ Cardinality(S \ {x}) = Cardinality(S) - 1
BY FS_CardinalityType, FS_EmptySet, FS_AddElement, FS_RemoveElement

(* What may be known of a good flag, in numbers.                           *)
LEMMA Numbers ==
  ASSUME L!LockersAssumption, NEW v, NEW H, Good(v, H)
  PROVE  /\ \A m \in Modes : Cardinality(H[m]) \in Nat /\ (Cardinality(H[m]) = 0 <=> H[m] = {})
         /\ v \in Int
         /\ v >= 0 => H["exclusive"] = {} /\ v = 2 * Cardinality(H["read"]) + Cardinality(H["write"])
         /\ v < 0 => H["exclusive"] # {}
<1>1. \A m \in Modes : Cardinality(H[m]) \in Nat /\ (Cardinality(H[m]) = 0 <=> H[m] = {})
  BY Counts DEF Good
<1>2. Cardinality(H["read"]) \in Nat /\ Cardinality(H["write"]) \in Nat
  BY <1>1 DEF Modes
<1> QED  BY <1>1, <1>2 DEF Good, L!LockersAssumption

LEMMA AddKeeps ==
  ASSUME L!LockersAssumption, NEW v, NEW H, NEW K, Good(v, H),
         NEW m \in Modes, NEW x, x \notin H[m], L!MayLock(v, m),
         K[m] = H[m] \cup {x}, \A n \in Modes \ {m} : K[n] = H[n]
  PROVE  Good(L!Locked(v, m), K)
<1>1. /\ K[m] = H[m] \cup {x} /\ \A n \in Modes \ {m} : K[n] = H[n]
      /\ IsFiniteSet(K[m]) /\ Cardinality(K[m]) = Cardinality(H[m]) + 1 /\ K[m] # {}
  BY Counts DEF Good
<1>2. \A n \in Modes : IsFiniteSet(K[n])
  BY <1>1 DEF Good
<1>3. /\ v \in Int /\ v >= 0 /\ H["exclusive"] = {}
      /\ v = 2 * Cardinality(H["read"]) + Cardinality(H["write"])
      /\ Cardinality(H["read"]) \in Nat /\ Cardinality(H["write"]) \in Nat
      /\ Cardinality(H["exclusive"]) = 0 /\ Cardinality(H["write"]) <= 1
      /\ Cardinality(H["read"]) = 0 <=> H["read"] = {}
      /\ Cardinality(H["write"]) = 0 <=> H["write"] = {}
  <2>1. v >= 0
    <3>1. CASE m \in {"read", "write"}
      BY <3>1 DEF L!MayLock
    <3>2. CASE m = "exclusive"
      BY <3>2 DEF L!MayLock
    <3> QED  BY <3>1, <3>2 DEF Modes
  <2>2. "read" \in Modes /\ "write" \in Modes /\ "exclusive" \in Modes
    BY DEF Modes
  <2>3. Cardinality(H["write"]) <= 1
    BY DEF Good
  <2> QED  BY <2>1, <2>2, <2>3, Numbers
<1>4. CASE m = "read"
  <2>1. K["write"] = H["write"] /\ K["exclusive"] = {}
    BY <1>1, <1>3, <1>4 DEF Modes
  <2>2. Cardinality(K["read"]) = Cardinality(H["read"]) + 1 /\ L!Locked(v, m) = v + 2
    BY <1>1, <1>4 DEF L!Locked
  <2>3. Cardinality(K["exclusive"]) = 0
    BY <2>1, FS_EmptySet
  <2>4. L!Locked(v, m) = 2 * Cardinality(K["read"]) + Cardinality(K["write"])
    BY <1>3, <2>1, <2>2
  <2> QED  BY <1>2, <1>3, <2>1, <2>3, <2>4 DEF Good
<1>5. CASE m = "write"
  <2>1. Cardinality(H["write"]) = 0
    BY <1>3, <1>5 DEF L!MayLock
  <2>2. K["read"] = H["read"] /\ K["exclusive"] = {}
    BY <1>1, <1>3, <1>5 DEF Modes
  <2>3. Cardinality(K["write"]) = 1 /\ L!Locked(v, m) = v + 1
    BY <1>1, <1>5, <2>1 DEF L!Locked
  <2>4. Cardinality(K["exclusive"]) = 0
    BY <2>2, FS_EmptySet
  <2>5. L!Locked(v, m) = 2 * Cardinality(K["read"]) + Cardinality(K["write"])
    BY <1>3, <2>1, <2>2, <2>3
  <2> QED  BY <1>2, <2>2, <2>3, <2>4, <2>5 DEF Good
<1>6. CASE m = "exclusive"
  <2>1. Cardinality(H["write"]) = 0 /\ Cardinality(H["read"]) = 0
    BY <1>3, <1>6 DEF L!MayLock
  <2>2. K["read"] = {} /\ K["write"] = {} /\ K["exclusive"] # {}
    BY <1>1, <1>3, <1>6, <2>1 DEF Modes
  <2>3. Cardinality(K["exclusive"]) = 1
    <3>1. Cardinality(K[m]) = Cardinality(H[m]) + 1
      BY <1>1
    <3> QED  BY <1>3, <1>6, <3>1
  <2>4. L!Locked(v, m) = MinLong
    BY <1>6 DEF L!Locked
  <2>5. Cardinality(K["write"]) = 0
    BY <2>2, FS_EmptySet
  <2> QED  BY <1>2, <2>2, <2>3, <2>4, <2>5 DEF Good
<1> QED  BY <1>4, <1>5, <1>6 DEF Modes

LEMMA RemoveKeeps ==
  ASSUME L!LockersAssumption, NEW v, NEW H, NEW K, Good(v, H),
         NEW m \in Modes, NEW x \in H[m],
         K[m] = H[m] \ {x}, \A n \in Modes \ {m} : K[n] = H[n]
  PROVE  Good(L!Unlocked(v, m), K)
<1>1. /\ K[m] = H[m] \ {x} /\ \A n \in Modes \ {m} : K[n] = H[n]
      /\ IsFiniteSet(K[m]) /\ Cardinality(K[m]) = Cardinality(H[m]) - 1
      /\ Cardinality(K[m]) = 0 <=> K[m] = {}
  <2>1. IsFiniteSet(H[m])
    BY DEF Good
  <2>2. IsFiniteSet(K[m]) /\ Cardinality(K[m]) = Cardinality(H[m]) - 1
    BY <2>1, Counts
  <2> QED  BY <2>2, Counts
<1>2. \A n \in Modes : IsFiniteSet(K[n])
  BY <1>1 DEF Good
<1>3. /\ Cardinality(H["read"]) \in Nat /\ Cardinality(H["write"]) \in Nat
      /\ Cardinality(H["exclusive"]) \in Nat
      /\ \A n \in Modes : Cardinality(H[n]) = 0 <=> H[n] = {}
      /\ Cardinality(H["write"]) <= 1 /\ Cardinality(H["exclusive"]) <= 1
  BY Numbers DEF Modes, Good
<1>4. CASE m = "exclusive"
  <2>1. H["exclusive"] # {} /\ H["read"] = {} /\ H["write"] = {}
    BY <1>4 DEF Good
  <2>2. K["exclusive"] = {} /\ K["read"] = {} /\ K["write"] = {}
    BY <1>1, <1>3, <1>4, <2>1 DEF Modes
  <2>3. Cardinality({}) = 0 /\ L!Unlocked(v, m) = 0
    BY <1>4, FS_EmptySet DEF L!Unlocked
  <2> QED  BY <1>2, <2>2, <2>3 DEF Good
<1>5. CASE m \in {"read", "write"}
  <2>1. H["exclusive"] = {} /\ K["exclusive"] = {}
    BY <1>1, <1>5 DEF Good, Modes
  <2>2. v = 2 * Cardinality(H["read"]) + Cardinality(H["write"])
    BY <2>1 DEF Good
  <2>3. Cardinality(K["exclusive"]) = 0
    BY <2>1, FS_EmptySet
  <2>4. CASE m = "read"
    <3>1. K["write"] = H["write"] /\ Cardinality(K["read"]) = Cardinality(H["read"]) - 1
      BY <1>1, <2>4 DEF Modes
    <3>2. L!Unlocked(v, m) = 2 * Cardinality(K["read"]) + Cardinality(K["write"])
      BY <1>3, <2>2, <2>4, <3>1 DEF L!Unlocked
    <3> QED  BY <1>2, <1>3, <2>1, <2>3, <3>1, <3>2 DEF Good
  <2>5. CASE m = "write"
    <3>1. K["read"] = H["read"] /\ Cardinality(K["write"]) = Cardinality(H["write"]) - 1
      BY <1>1, <2>5 DEF Modes
    <3>2. L!Unlocked(v, m) = 2 * Cardinality(K["read"]) + Cardinality(K["write"])
      BY <1>3, <2>2, <2>5, <3>1 DEF L!Unlocked
    <3>3. Cardinality(K["write"]) <= 1
      BY <1>3, <3>1
    <3> QED  BY <1>2, <2>1, <2>3, <3>2, <3>3 DEF Good
  <2> QED  BY <1>5, <2>4, <2>5
<1> QED  BY <1>4, <1>5 DEF Modes

LEMMA RenameKeeps ==
  ASSUME L!LockersAssumption, NEW v, NEW H, NEW K, Good(v, H),
         NEW m \in Modes, NEW x \in H[m], NEW y, y \notin H[m],
         K[m] = (H[m] \ {x}) \cup {y}, \A n \in Modes \ {m} : K[n] = H[n]
  PROVE  Good(v, K)
<1>1. IsFiniteSet(H[m]) /\ Cardinality(H[m]) \in Nat
  BY Counts DEF Good
<1>2. IsFiniteSet(H[m] \ {x}) /\ Cardinality(H[m] \ {x}) = Cardinality(H[m]) - 1
  BY <1>1, Counts
<1>3. /\ IsFiniteSet((H[m] \ {x}) \cup {y})
      /\ Cardinality((H[m] \ {x}) \cup {y}) = (Cardinality(H[m]) - 1) + 1
  BY <1>2, Counts
<1>4. /\ K[m] = (H[m] \ {x}) \cup {y} /\ \A n \in Modes \ {m} : K[n] = H[n]
  OBVIOUS
<1>5. \A n \in Modes : /\ IsFiniteSet(K[n]) /\ Cardinality(K[n]) = Cardinality(H[n])
                       /\ K[n] = {} <=> H[n] = {}
  <2>1. Cardinality(K[m]) = Cardinality(H[m]) /\ IsFiniteSet(K[m])
    BY <1>1, <1>3, <1>4
  <2>2. K[m] # {} /\ H[m] # {}
    BY <1>4
  <2> QED  BY <1>4, <2>1, <2>2 DEF Good
<1>6. "read" \in Modes /\ "write" \in Modes /\ "exclusive" \in Modes
  BY DEF Modes
<1> QED  BY <1>5, <1>6 DEF Good

-----------------------------------------------------------------------------
(* One locker *)

LEMMA HeldType ==
  ASSUME L!TypeOK, NEW s
  PROVE  /\ HeldBy(s) \in [Modes -> SUBSET Lockers]
         /\ \A m \in Modes : \A k : k \in HeldBy(s)[m] <=>
              k \in alive /\ spinlock[k] = s /\ lockType[k] = m
BY DEF L!TypeOK, HeldBy, L!Owning

(* unlock() takes l out of the holders of the lock that it points at.      *)
Freed(s, l) == [m \in Modes |-> L!Owning(s, m) \ {l}]

LEMMA ReleaseKeeps ==
  ASSUME L!LockersAssumption, LockersInv, NEW l \in alive
  PROVE  /\ L!AfterUnlock(l) \in [Locks -> Int]
         /\ \A s \in Locks : Good(L!AfterUnlock(l)[s], Freed(s, l))
<1> DEFINE p == spinlock[l]  m == lockType[l]
<1>1. flags \in [Locks -> Int] /\ l \in Lockers /\ m \in L!RWXLockType
  BY DEF LockersInv, L!TypeOK
<1>2. ASSUME NEW s \in Locks, m = "no" \/ s # p
      PROVE  Good(flags[s], Freed(s, l))
  <2>1. Freed(s, l) = HeldBy(s)
    BY <1>2 DEF Freed, HeldBy, L!Owning, Modes
  <2> QED  BY <2>1 DEF LockersInv
<1>3. CASE m = "no"
  BY <1>1, <1>2, <1>3 DEF L!AfterUnlock
<1>4. CASE m # "no"
  <2>1. p \in Locks /\ m \in Modes
    BY <1>1, <1>4 DEF LockersInv, L!RWXLockType, Modes
  <2>2. L!AfterUnlock(l) = [flags EXCEPT ![p] = L!Unlocked(flags[p], m)]
    BY <1>4 DEF L!AfterUnlock
  <2>3. /\ HeldBy(p) \in [Modes -> SUBSET Lockers] /\ l \in HeldBy(p)[m]
        /\ Good(flags[p], HeldBy(p))
    BY <2>1, HeldType DEF LockersInv
  <2>4. /\ Freed(p, l)[m] = HeldBy(p)[m] \ {l}
        /\ \A n \in Modes \ {m} : Freed(p, l)[n] = HeldBy(p)[n]
    BY <2>1 DEF Freed, HeldBy, L!Owning
  <2> HIDE DEF p, m
  <2>5. Good(L!Unlocked(flags[p], m), Freed(p, l))
    BY <2>1, <2>3, <2>4, RemoveKeeps
  <2>6. L!Unlocked(flags[p], m) \in Int
    BY <1>1, <2>1 DEF L!Unlocked, Modes
  <2>7. \A s \in Locks : s # p => Good(flags[s], Freed(s, l))
    BY <1>2 DEF p
  <2> QED  BY <1>1, <2>1, <2>2, <2>5, <2>6, <2>7
<1> QED  BY <1>3, <1>4

(* Of a set of lockers without l: what o held, l holds instead.            *)
LEMMA MoveKeeps ==
  ASSUME L!LockersAssumption, NEW v, NEW H \in [Modes -> SUBSET alive], Good(v, H),
         NEW s \in Locks, NEW l \in Lockers, NEW o \in alive, o # l,
         \A m \in Modes : /\ l \notin H[m]
                          /\ \A k \in alive \ {l} :
                               k \in H[m] <=> spinlock[k] = s /\ lockType[k] = m,
         alive' = alive \cup {l}, alive \subseteq Lockers,
         spinlock'[l] = spinlock[o], lockType'[l] = lockType[o], lockType'[o] = "no",
         \A k \in Lockers \ {l, o} : spinlock'[k] = spinlock[k] /\ lockType'[k] = lockType[k]
  PROVE  Good(v, HeldBy(s)')
<1>1. \A m \in Modes : \A k : k \in HeldBy(s)'[m] <=>
        k \in alive' /\ spinlock'[k] = s /\ lockType'[k] = m
  BY DEF HeldBy, L!Owning
<1>2. CASE \E m \in Modes : o \in H[m]
  <2>1. PICK m \in Modes : o \in H[m]
    BY <1>2
  <2>2. spinlock[o] = s /\ lockType[o] = m
    BY <2>1
  <2>3. \A k : k \in HeldBy(s)'[m] <=> k \in (H[m] \ {o}) \cup {l}
    BY <1>1, <2>1, <2>2 DEF Modes
  <2>4. \A n \in Modes \ {m} : \A k : k \in HeldBy(s)'[n] <=> k \in H[n]
    BY <1>1, <2>1, <2>2 DEF Modes
  <2>5. HeldBy(s)'[m] = (H[m] \ {o}) \cup {l} /\ \A n \in Modes \ {m} : HeldBy(s)'[n] = H[n]
    BY <2>3, <2>4
  <2> QED  BY <2>1, <2>5, RenameKeeps
<1>3. CASE \A m \in Modes : o \notin H[m]
  <2>1. spinlock[o] # s \/ lockType[o] \notin Modes
    BY <1>3
  <2>2. \A m \in Modes : \A k : k \in HeldBy(s)'[m] <=> k \in H[m]
    BY <1>1, <1>3, <2>1 DEF Modes
  <2>3. ASSUME NEW m \in Modes PROVE HeldBy(s)'[m] = H[m]
    <3>1. \A k : k \in HeldBy(s)'[m] <=> k \in H[m]
      BY <2>2
    <3> QED  BY <3>1
  <2>4. "read" \in Modes /\ "write" \in Modes /\ "exclusive" \in Modes
    BY DEF Modes
  <2> QED  BY <2>3, <2>4 DEF Good
<1> QED  BY <1>2, <1>3

LEMMA LockerInit ==
  ASSUME L!LockersAssumption, L!Init
  PROVE  LockersInv
<1>1. L!TypeOK /\ alive = {}
  BY DEF L!Init, L!TypeOK, L!RWXLockType
<1>2. \A s \in Locks : flags[s] = 0 /\ \A m \in Modes : HeldBy(s)[m] = {}
  BY DEF L!Init, HeldBy, L!Owning
<1>3. \A s \in Locks : Good(flags[s], HeldBy(s))
  BY <1>2, FS_EmptySet DEF Good, Modes
<1> QED  BY <1>1, <1>3 DEF LockersInv

LEMMA DefaultStep ==
  ASSUME LockersInv, NEW l \in Lockers, L!Default(l)
  PROVE  LockersInv'
<1>1. L!TypeOK'
  BY DEF LockersInv, L!TypeOK, L!Default, L!RWXLockType
<1>2. \A k \in alive' : lockType'[k] # "no" => spinlock'[k] \in Locks
  BY DEF LockersInv, L!TypeOK, L!Default
<1>3. \A s \in Locks : HeldBy(s)' = HeldBy(s)
  BY DEF LockersInv, L!TypeOK, L!Default, HeldBy, L!Owning, Modes
<1> QED  BY <1>1, <1>2, <1>3 DEF LockersInv, L!Default

LEMMA ConstructStep ==
  ASSUME L!LockersAssumption, LockersInv, NEW l \in Lockers, NEW s \in Locks,
         NEW m \in L!RWXLockType, L!Construct(l, s, m)
  PROVE  LockersInv'
<1>1. /\ flags \in [Locks -> Int] /\ flags' = [flags EXCEPT ![s] = L!Locked(flags[s], m)]
      /\ l \notin alive /\ alive' = alive \cup {l} /\ L!MayLock(flags[s], m)
      /\ spinlock' = [spinlock EXCEPT ![l] = s] /\ lockType' = [lockType EXCEPT ![l] = m]
      /\ L!TypeOK
  BY DEF LockersInv, L!TypeOK, L!Construct
<1>2. L!TypeOK'
  <2>1. L!Locked(flags[s], m) \in Int
    BY <1>1 DEF L!Locked, L!RWXLockType, L!LockersAssumption
  <2> QED  BY <1>1, <2>1 DEF L!TypeOK
<1>3. \A k \in alive' : lockType'[k] # "no" => spinlock'[k] \in Locks
  BY <1>1 DEF LockersInv, L!TypeOK
<1>4. \A t \in Locks \ {s} : HeldBy(t)' = HeldBy(t)
  BY <1>1 DEF L!TypeOK, HeldBy, L!Owning
<1>5. CASE m = "no"
  <2>1. HeldBy(s)' = HeldBy(s) /\ flags' = flags
    BY <1>1, <1>5 DEF L!TypeOK, HeldBy, L!Owning, Modes, L!Locked
  <2> QED  BY <1>2, <1>3, <1>4, <2>1 DEF LockersInv
<1>6. CASE m \in Modes
  <2>1. /\ HeldBy(s)'[m] = HeldBy(s)[m] \cup {l}
        /\ \A n \in Modes \ {m} : HeldBy(s)'[n] = HeldBy(s)[n]
    BY <1>1, <1>6 DEF L!TypeOK, HeldBy, L!Owning
  <2>2. l \notin HeldBy(s)[m] /\ Good(flags[s], HeldBy(s))
    BY <1>1, <1>6, HeldType DEF LockersInv
  <2>3. Good(L!Locked(flags[s], m), HeldBy(s)')
    BY <1>1, <1>6, <2>1, <2>2, AddKeeps
  <2>4. flags'[s] = L!Locked(flags[s], m)
    BY <1>1
  <2> QED  BY <1>1, <1>2, <1>3, <1>4, <2>3, <2>4 DEF LockersInv
<1> QED  BY <1>5, <1>6 DEF L!RWXLockType, Modes

LEMMA MoveConstructStep ==
  ASSUME L!LockersAssumption, LockersInv, NEW l \in Lockers, NEW o \in Lockers, L!MoveConstruct(l, o)
  PROVE  LockersInv'
<1>1. /\ l \notin alive /\ o \in alive /\ alive' = alive \cup {l} /\ flags' = flags /\ l # o
      /\ spinlock' = [spinlock EXCEPT ![l] = spinlock[o], ![o] = nullptr]
      /\ lockType' = [lockType EXCEPT ![l] = lockType[o], ![o] = "no"]
      /\ L!TypeOK
  BY DEF LockersInv, L!MoveConstruct
<1>2. L!TypeOK' /\ \A k \in alive' : lockType'[k] # "no" => spinlock'[k] \in Locks
  BY <1>1 DEF LockersInv, L!TypeOK, L!RWXLockType
<1>3. /\ spinlock'[l] = spinlock[o] /\ lockType'[l] = lockType[o] /\ lockType'[o] = "no"
      /\ \A k \in Lockers \ {l, o} : spinlock'[k] = spinlock[k] /\ lockType'[k] = lockType[k]
      /\ alive \subseteq Lockers
  BY <1>1 DEF L!TypeOK
<1>4. ASSUME NEW s \in Locks PROVE Good(flags'[s], HeldBy(s)')
  <2>1. Good(flags[s], HeldBy(s)) /\ flags'[s] = flags[s]
    BY <1>1 DEF LockersInv
  <2>2. /\ HeldBy(s) \in [Modes -> SUBSET alive]
        /\ \A m \in Modes : /\ l \notin HeldBy(s)[m]
                            /\ \A k \in alive \ {l} :
                                 k \in HeldBy(s)[m] <=> spinlock[k] = s /\ lockType[k] = m
    BY <1>1 DEF HeldBy, L!Owning
  <2>3. o # l /\ o \in alive /\ alive' = alive \cup {l}
    BY <1>1
  <2>4. Good(flags[s], HeldBy(s)')
    BY <1>3, <2>1, <2>2, <2>3, MoveKeeps
  <2> QED  BY <2>1, <2>4
<1> QED  BY <1>2, <1>4 DEF LockersInv


(* Unlock and Destroy: l holds nothing any more.                           *)
LEMMA ReleaseStep ==
  ASSUME L!LockersAssumption, LockersInv, NEW l \in Lockers, L!Unlock(l) \/ L!Destroy(l)
  PROVE  LockersInv'
<1>1. /\ l \in alive /\ flags' = L!AfterUnlock(l) /\ lockType' = [lockType EXCEPT ![l] = "no"]
      /\ L!TypeOK
      /\ \/ alive' = alive /\ spinlock' = spinlock
         \/ alive' = alive \ {l} /\ spinlock' = [spinlock EXCEPT ![l] = nullptr]
  BY DEF LockersInv, L!Unlock, L!Destroy
<1>2. L!TypeOK' /\ \A k \in alive' : lockType'[k] # "no" => spinlock'[k] \in Locks
  <2>1. flags' \in [Locks -> Int]
    BY <1>1, ReleaseKeeps
  <2> QED  BY <1>1, <2>1 DEF LockersInv, L!TypeOK, L!RWXLockType
<1>3. ASSUME NEW s \in Locks PROVE Good(flags'[s], HeldBy(s)')
  <2>1. HeldBy(s)' = Freed(s, l)
    BY <1>1 DEF L!TypeOK, HeldBy, L!Owning, Freed, Modes
  <2>2. Good(flags'[s], Freed(s, l))
    BY <1>1, ReleaseKeeps
  <2> QED  BY <2>1, <2>2
<1> QED  BY <1>2, <1>3 DEF LockersInv

(* First l lets go of what it held, then it takes over from o; moving a    *)
(* locker to itself is only an unlock.                                     *)
LEMMA MoveAssignStep ==
  ASSUME L!LockersAssumption, LockersInv, NEW l \in Lockers, NEW o \in Lockers, L!MoveAssign(l, o)
  PROVE  LockersInv'
<1>1. /\ l \in alive /\ o \in alive /\ flags' = L!AfterUnlock(l) /\ alive' = alive
      /\ spinlock' = [[spinlock EXCEPT ![l] = spinlock[o]] EXCEPT ![o] = nullptr]
      /\ L!TypeOK /\ alive \subseteq Lockers
  BY DEF LockersInv, L!TypeOK, L!MoveAssign
<1>2. lockType' = LET unlocked == [lockType EXCEPT ![l] = "no"]
                  IN  [[unlocked EXCEPT ![l] = unlocked[o]] EXCEPT ![o] = "no"]
  BY DEF L!MoveAssign
<1>3. flags' \in [Locks -> Int]
  BY <1>1, ReleaseKeeps
<1>4. /\ spinlock' \in [Lockers -> Locks \cup {nullptr}]
      /\ lockType' \in [Lockers -> L!RWXLockType] /\ lockType'[o] = "no"
      /\ \A k \in Lockers \ {l, o} : spinlock'[k] = spinlock[k] /\ lockType'[k] = lockType[k]
      /\ o # l => spinlock'[l] = spinlock[o] /\ lockType'[l] = lockType[o]
  BY <1>1, <1>2 DEF L!TypeOK, L!RWXLockType
<1>5. L!TypeOK' /\ \A k \in alive' : lockType'[k] # "no" => spinlock'[k] \in Locks
  BY <1>1, <1>3, <1>4 DEF LockersInv, L!TypeOK
<1>6. ASSUME NEW s \in Locks PROVE Good(flags'[s], HeldBy(s)')
  <2>1. Good(flags'[s], Freed(s, l))
    BY <1>1, ReleaseKeeps
  <2>2. CASE o = l
    <3>1. HeldBy(s)' = Freed(s, l)
      BY <1>1, <1>4, <2>2 DEF HeldBy, L!Owning, Freed, Modes
    <3> QED  BY <2>1, <3>1
  <2>3. CASE o # l
    <3>1. /\ Freed(s, l) \in [Modes -> SUBSET alive]
          /\ \A m \in Modes : /\ l \notin Freed(s, l)[m]
                              /\ \A k \in alive \ {l} :
                                   k \in Freed(s, l)[m] <=> spinlock[k] = s /\ lockType[k] = m
      BY <1>1 DEF Freed, L!Owning
    <3>2. alive' = alive \cup {l} /\ alive \subseteq Lockers /\ o \in alive
      BY <1>1
    <3> QED  BY <1>4, <2>1, <2>3, <3>1, <3>2, MoveKeeps
  <2> QED  BY <2>2, <2>3
<1> QED  BY <1>5, <1>6 DEF LockersInv

(* An upgrade releases one mode and takes the other at once.               *)
LEMMA UpgradeStep ==
  ASSUME L!LockersAssumption, LockersInv, NEW l \in Lockers, L!TryUpgradeToW(l) \/ L!UpgradeToX(l)
  PROVE  LockersInv'
<1> DEFINE p == spinlock[l]  m == lockType[l]  n == lockType'[l]
<1>1. /\ l \in alive /\ L!TypeOK /\ p \in Locks /\ m \in {"read", "write"}
      /\ UNCHANGED <<alive, spinlock>> /\ lockType' = [lockType EXCEPT ![l] = n]
      /\ n = IF m = "read" THEN "write" ELSE "exclusive"
      /\ flags[p] \in Int /\ Good(flags[p], HeldBy(p)) /\ l \in HeldBy(p)[m]
  BY DEF LockersInv, L!TypeOK, L!TryUpgradeToW, L!UpgradeToX, HeldBy, L!Owning, Modes
<1>2. /\ L!MayLock(L!Unlocked(flags[p], m), n)
      /\ flags' = [flags EXCEPT ![p] = L!Locked(L!Unlocked(flags[p], m), n)]
  <2>1. CASE L!TryUpgradeToW(l)
    <3>1. /\ m = "read" /\ n = "write" /\ flags[p] >= 0 /\ flags[p] % 2 = 0
          /\ flags' = [flags EXCEPT ![p] = flags[p] - 1]
      BY <1>1, <2>1 DEF L!TryUpgradeToW
    <3>2. /\ Cardinality(HeldBy(p)["read"]) \in Nat \ {0}
          /\ Cardinality(HeldBy(p)["write"]) \in Nat
          /\ flags[p] = 2 * Cardinality(HeldBy(p)["read"]) + Cardinality(HeldBy(p)["write"])
      <4>1. "read" \in Modes /\ "write" \in Modes /\ HeldBy(p)["read"] # {}
        BY <1>1, <3>1 DEF Modes
      <4> QED  BY <1>1, <3>1, <4>1, Numbers
    <3>3. L!Unlocked(flags[p], m) = flags[p] - 2
      BY <3>1 DEF L!Unlocked
    <3>4. flags[p] - 2 >= 0 /\ (flags[p] - 2) % 2 = 0
      BY <3>1, <3>2
    <3>5. L!Locked(flags[p] - 2, n) = flags[p] - 1
      BY <1>1, <3>1 DEF L!Locked
    <3> QED  BY <3>1, <3>3, <3>4, <3>5 DEF L!MayLock
  <2>2. CASE L!UpgradeToX(l)
    <3>1. /\ m = "write" /\ n = "exclusive" /\ flags[p] = 1
          /\ flags' = [flags EXCEPT ![p] = MinLong]
      BY <1>1, <2>2 DEF L!UpgradeToX, L!MayUpgrade
    <3>2. L!Unlocked(flags[p], m) = 0 /\ L!Locked(0, n) = MinLong /\ L!MayLock(0, n)
      BY <3>1 DEF L!Unlocked, L!Locked, L!MayLock
    <3> QED  BY <3>1, <3>2
  <2> QED  BY <2>1, <2>2
<1>3. Good(L!Unlocked(flags[p], m), Freed(p, l))
  <2>1. L!AfterUnlock(l)[p] = L!Unlocked(flags[p], m)
    BY <1>1 DEF L!AfterUnlock, L!TypeOK
  <2> QED  BY <1>1, <2>1, ReleaseKeeps
<1>4. Good(L!Locked(L!Unlocked(flags[p], m), n), HeldBy(p)')
  <2>1. n \in Modes /\ l \notin Freed(p, l)[n]
    BY <1>1 DEF Modes, Freed
  <2>2. /\ HeldBy(p)'[n] = Freed(p, l)[n] \cup {l}
        /\ \A k \in Modes \ {n} : HeldBy(p)'[k] = Freed(p, l)[k]
    BY <1>1, ZenonT(40) DEF L!TypeOK, HeldBy, Freed, L!Owning, Modes
  <2> HIDE DEF p, m, n
  <2> QED  BY <1>2, <1>3, <2>1, <2>2, AddKeeps
<1>5. \A s \in Locks \ {p} : HeldBy(s)' = HeldBy(s) /\ flags'[s] = flags[s]
  BY <1>1, <1>2 DEF L!TypeOK, HeldBy, L!Owning
<1>6. flags' \in [Locks -> Int] /\ flags'[p] = L!Locked(L!Unlocked(flags[p], m), n)
  BY <1>1, <1>2 DEF L!TypeOK, L!Locked, L!Unlocked, L!LockersAssumption
<1>7. L!TypeOK' /\ \A k \in alive' : lockType'[k] # "no" => spinlock'[k] \in Locks
  BY <1>1, <1>6 DEF LockersInv, L!TypeOK, L!RWXLockType
<1>8. ASSUME NEW s \in Locks PROVE Good(flags'[s], HeldBy(s)')
  <2>1. CASE s = p
    <3>1. p' = p
      BY <1>1
    <3>2. HeldBy(s)' = HeldBy(p)'
      BY <2>1, <3>1
    <3> QED  BY <1>4, <1>6, <2>1, <3>2
  <2>2. CASE s # p
    <3>1. HeldBy(s)' = HeldBy(s) /\ flags'[s] = flags[s] /\ Good(flags[s], HeldBy(s))
      BY <1>5, <2>2 DEF LockersInv
    <3> QED  BY <3>1
  <2> QED  BY <2>1, <2>2
<1> QED  BY <1>7, <1>8 DEF LockersInv

LEMMA LockerInvariant ==
  ASSUME L!LockersAssumption
  PROVE  L!Spec => []LockersInv
<1>1. L!Init => LockersInv
  BY LockerInit
<1>2. LockersInv /\ [L!Next]_(L!vars) => LockersInv'
  <2> SUFFICES ASSUME LockersInv, [L!Next]_(L!vars) PROVE LockersInv'
    OBVIOUS
  <2>1. CASE L!Next
    BY <2>1, DefaultStep, ConstructStep, MoveConstructStep, MoveAssignStep, UpgradeStep,
       ReleaseStep DEF L!Next
  <2>2. CASE UNCHANGED L!vars
    BY <2>2 DEF L!vars, LockersInv, L!TypeOK, HeldBy, L!Owning
  <2> QED  BY <2>1, <2>2
<1> QED  BY <1>1, <1>2, PTL DEF L!Spec

-----------------------------------------------------------------------------
LEMMA GoodMeans ==
  ASSUME L!LockersAssumption, LockersInv
  PROVE  L!Accounted /\ L!OwnersCompatible
<1>1. \A s \in Locks, m \in Modes : HeldBy(s)[m] = L!Owning(s, m)
  BY DEF HeldBy
<1>2. L!Accounted
  <2>1. \A S : L!Cardinality(S) = Cardinality(S)
    BY DEF L!Cardinality, Cardinality, L!IsFiniteSet, IsFiniteSet
  <2> QED  BY <1>1, <2>1 DEF LockersInv, L!Accounted, Good, Modes
<1>3. L!OwnersCompatible
  <2> SUFFICES ASSUME NEW s \in Locks, NEW l \in alive, NEW k \in alive, l # k,
                      spinlock[l] = s, lockType[l] # "no",
                      spinlock[k] = s, lockType[k] # "no"
               PROVE  /\ "exclusive" \notin {lockType[l], lockType[k]}
                      /\ "read" \in {lockType[l], lockType[k]}
    BY DEF L!OwnersCompatible
  <2>1. /\ lockType[l] \in Modes /\ l \in L!Owning(s, lockType[l])
        /\ lockType[k] \in Modes /\ k \in L!Owning(s, lockType[k])
    BY DEF LockersInv, L!TypeOK, L!Owning, L!RWXLockType, Modes
  <2>2. ASSUME NEW m \in {"write", "exclusive"} PROVE ~(lockType[l] = m /\ lockType[k] = m)
    <3> SUFFICES ASSUME lockType[l] = m, lockType[k] = m PROVE FALSE
      OBVIOUS
    <3>1. IsFiniteSet(L!Owning(s, m)) /\ Cardinality(L!Owning(s, m)) <= 1
      BY <1>1 DEF LockersInv, Good, Modes
    <3>2. Cardinality(L!Owning(s, m) \ {l}) = Cardinality(L!Owning(s, m)) - 1
      BY <2>1, <3>1, Counts
    <3>3. IsFiniteSet(L!Owning(s, m) \ {l}) /\ k \in L!Owning(s, m) \ {l}
      BY <2>1, <3>1, Counts
    <3>4. Cardinality(L!Owning(s, m) \ {l}) \in Nat \ {0} /\ Cardinality(L!Owning(s, m)) \in Nat
      BY <3>1, <3>3, Counts
    <3> QED  BY <3>1, <3>2, <3>4
  <2>3. L!Owning(s, "exclusive") # {} => L!Owning(s, "read") = {} /\ L!Owning(s, "write") = {}
    BY <1>1 DEF LockersInv, Good, Modes
  <2> QED  BY <2>1, <2>2, <2>3 DEF Modes
<1> QED  BY <1>2, <1>3

(* The run with the lockers, seen by them alone. *)
LEMMA LockersAlone == MCSpec => L!Spec
<1>1. MCInit => L!Init
  BY DEF MCInit
<1>2. ASSUME [MCNext]_<<chosen, vars, lockerVars>> PROVE [L!Next]_(L!vars)
  <2>1. lockerVars = L!vars
    BY DEF lockerVars, L!vars
  <2>2. L!Next \/ UNCHANGED lockerVars
    BY <1>2 DEF MCNext
  <2>3. QED
    BY <2>1, <2>2 DEF lockerVars, L!vars
<1>3. QED
  BY <1>1, <1>2, PTL DEF MCSpec, L!Spec

(* Flags, pointers and modes of the lockers are of their kinds.            *)
THEOREM LockersTypeCorrect == MCSpec => []L!TypeOK
<1>1. LockersInv => L!TypeOK
  BY DEF LockersInv
<1>2. QED
  BY <1>1, LockersAssumption, LockerInvariant, LockersAlone, PTL

(* The flag of a lock is the sum of what the living RWXLockers hold of it, *)
(* none released twice and none left behind, and an exclusive or a second  *)
(* writing locker never shares it.                                         *)
THEOREM NothingLostInMoves == MCSpec => []LockersAccounted
<1>1. LockersInv => LockersAccounted
  BY LockersAssumption, GoodMeans DEF LockersAccounted, L!LockersAccounted
<1>2. QED
  BY <1>1, LockersAssumption, LockerInvariant, LockersAlone, PTL

=============================================================================
