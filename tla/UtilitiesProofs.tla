-------------------------- MODULE UtilitiesProofs --------------------------
(***************************************************************************)
(* What the other parts are made with.                                     *)
(*                                                                         *)
(* RefCount, for every finite set of threads and any objects: the counts   *)
(* are right, and an object is deleted once, when nobody refers to it any  *)
(* more.                                                                   *)
(*                                                                         *)
(* BookEntity, for any messages and values: the bytes of a message restore *)
(* it, and reading one changes nothing that a reader sees.                 *)
(*                                                                         *)
(* LayeredBuilder, for chains of any length: a builder changes the message *)
(* that the calls which made it name.                                      *)
(*                                                                         *)
(* CodeGenerator, for messages of any number of fields: the files that are *)
(* generated agree.                                                        *)
(***************************************************************************)
EXTENDS Utilities, SequenceLemmas

-----------------------------------------------------------------------------
(* RefCount *)

(* A new object belongs to the thread that made it. *)
NewPrivate ==
  \A t \in Threads : stage[t] = "new" =>
    /\ Pointing(held[t]) = {}
    /\ \A u \in Threads \ {t} : stage[u] # "idle" => held[u] # held[t]

IInv == RefTypeOK /\ CountsReferences /\ DeletedUnreferenced /\ NewPrivate

Deleted(o) == \E t \in Threads : stage[t] = "delete" /\ held[t] = o

-----------------------------------------------------------------------------
(* There are finitely many variables and threads, so the references to an  *)
(* object can be counted.                                                  *)
LEMMA Countable ==
  ASSUME NEW o
  PROVE  /\ IsFiniteSet(Pointing(o)) /\ Cardinality(Pointing(o)) \in Nat
         /\ IsFiniteSet(Releasing(o)) /\ Cardinality(Releasing(o)) \in Nat
<1>1. IsFiniteSet(1..PerThread)
  BY RefCountAssumption, FS_Interval
<1>2. IsFiniteSet(Slots)
  BY <1>1, RefCountAssumption, FS_Product DEF Slots
<1>3. Pointing(o) \subseteq Slots /\ Releasing(o) \subseteq Threads
  BY DEF Pointing, Releasing
<1>4. QED
  BY <1>2, <1>3, RefCountAssumption, FS_Subset, FS_CardinalityType

(* A reference that is the only one counted leaves no other. *)
LEMMA LastReference ==
  ASSUME NEW t \in Threads, stage[t] \in {"deref", "decrement"},
         RefTypeOK, CountsReferences, DeletedUnreferenced, rc[held[t]] = 1
  PROVE  Pointing(held[t]) = {} /\ Releasing(held[t]) = {t}
<1> DEFINE o == held[t]
<1>1. o \in live /\ o \in Objects /\ t \in Releasing(o)
  BY DEF RefTypeOK, Releasing
<1>2. ~ Deleted(o)
  BY DEF Deleted, DeletedUnreferenced
<1>3. rc[o] = Cardinality(Pointing(o)) + Cardinality(Releasing(o))
  BY <1>1, <1>2 DEF CountsReferences, Deleted
<1> HIDE DEF o
<1>4. Cardinality(Releasing(o)) # 0 /\ Releasing(o) # {}
  BY <1>1, Countable, FS_EmptySet
<1>5. Cardinality(Releasing(o)) = 1 /\ Cardinality(Pointing(o)) = 0
  BY <1>3, <1>4, Countable DEF o
<1>6. Pointing(o) = {}
  BY <1>5, Countable, FS_EmptySet
<1>7. PICK x : Releasing(o) = {x}
  BY <1>5, Countable, FS_Singleton
<1>8. QED
  BY <1>1, <1>6, <1>7 DEF o

(* An object that a variable points to is neither new nor being deleted.   *)
LEMMA PointedStays ==
  ASSUME NEW s \in Slots, ptr[s] # nullptr, IInv
  PROVE  /\ ptr[s] \in live /\ ptr[s] \in Objects
         /\ s \in Pointing(ptr[s])
         /\ \A u \in Threads : stage[u] \in {"new", "delete"} => held[u] # ptr[s]
BY DEF IInv, RefTypeOK, DeletedUnreferenced, NewPrivate, Pointing

-----------------------------------------------------------------------------
LEMMA InitIInv == Init => IInv
BY RefCountAssumption DEF Init, IInv, RefTypeOK, CountsReferences, DeletedUnreferenced,
     NewPrivate, Stage

LEMMA NewIInv ==
  ASSUME IInv, NEW t \in Threads, New(t)
  PROVE  IInv'
<1>1. PICK o \in Objects \ live :
        live' = live \cup {o} /\ rc' = [rc EXCEPT ![o] = 0] /\ Goto(t, "new", o)
  BY DEF New
<1>2. UNCHANGED ptr /\ stage[t] = "idle"
  BY DEF New
<1>3. RefTypeOK'
  BY <1>1, <1>2 DEF IInv, RefTypeOK, Goto, Stage
<1>4. \A p : Pointing(p)' = Pointing(p) /\ Releasing(p)' = Releasing(p)
  BY <1>1, <1>2 DEF Pointing, Releasing, Goto, IInv, RefTypeOK
<1>5. Pointing(o) = {} /\ Releasing(o) = {}
  BY <1>1, RefCountAssumption DEF IInv, RefTypeOK, DeletedUnreferenced, Pointing, Releasing
<1>6. CountsReferences'
  <2> SUFFICES ASSUME NEW p \in live', ~ Deleted(p)'
               PROVE  rc'[p] = Cardinality(Pointing(p)') + Cardinality(Releasing(p)')
    BY DEF CountsReferences, Deleted
  <2>1. CASE p = o
    <3>1. rc'[p] = 0
      BY <1>1, <2>1 DEF IInv, RefTypeOK
    <3>2. QED
      BY <3>1, <2>1, <1>4, <1>5, FS_EmptySet
  <2>2. CASE p # o
    <3>1. p \in live /\ rc'[p] = rc[p]
      BY <1>1, <2>2 DEF IInv, RefTypeOK
    <3>2. ~ Deleted(p)
      BY <1>1, <1>2 DEF Deleted, Goto, IInv, RefTypeOK
    <3>3. QED
      BY <3>1, <3>2, <1>4 DEF IInv, CountsReferences, Deleted
  <2>3. QED
    BY <2>1, <2>2
<1>7. DeletedUnreferenced' /\ NewPrivate'
  BY <1>1, <1>2, <1>4, <1>5 DEF IInv, RefTypeOK, DeletedUnreferenced, NewPrivate, Goto
<1>8. QED
  BY <1>3, <1>6, <1>7 DEF IInv

(* The first reference, and one more: one variable points to the object    *)
(* that did not, and the count goes up by one.                             *)
LEMMA GainIInv ==
  ASSUME IInv, NEW t \in Threads, NEW d \in Slots, NEW o \in live,
         ptr[d] = nullptr, ~ Deleted(o),
         ptr' = [ptr EXCEPT ![d] = o], rc' = [rc EXCEPT ![o] = @ + 1], live' = live,
         stage[t] \in {"idle", "new"}, stage[t] = "new" <=> Pointing(o) = {},
         stage[t] = "new" => held[t] = o,
         \A u \in Threads \ {t} : stage[u] = "new" => held[u] # o,
         stage' = [stage EXCEPT ![t] = "idle"],
         held' \in [Threads -> Objects \cup {nullptr}],
         \A u \in Threads \ {t} : held'[u] = held[u]
  PROVE  IInv'
<1> USE RefCountAssumption
<1>1. RefTypeOK'
  <2>1. o \in Objects /\ rc' \in [Objects -> Nat] /\ ptr' \in [Slots -> Objects \cup {nullptr}]
    BY DEF IInv, RefTypeOK
  <2>2. stage' \in [Threads -> Stage]
    BY DEF IInv, RefTypeOK, Stage
  <2>3. \A u \in Threads : stage'[u] # "idle" => held'[u] \in live'
    BY DEF IInv, RefTypeOK
  <2>4. QED
    BY <2>1, <2>2, <2>3 DEF IInv, RefTypeOK
<1>2. \A p \in Objects : Releasing(p)' = Releasing(p)
  BY DEF IInv, RefTypeOK, Releasing
<1>3. \A p \in Objects \ {o} : Pointing(p)' = Pointing(p)
  BY DEF IInv, RefTypeOK, Pointing
<1>4. Pointing(o)' = Pointing(o) \cup {d} /\ d \notin Pointing(o)
  BY DEF IInv, RefTypeOK, Pointing
<1>5. Cardinality(Pointing(o)') = Cardinality(Pointing(o)) + 1
  BY <1>4, Countable, FS_AddElement
<1>6. CountsReferences'
  <2> SUFFICES ASSUME NEW p \in live', ~ Deleted(p)'
               PROVE  rc'[p] = Cardinality(Pointing(p)') + Cardinality(Releasing(p)')
    BY DEF CountsReferences, Deleted
  <2>1. p \in live /\ p \in Objects /\ ~ Deleted(p)
    BY DEF Deleted, IInv, RefTypeOK
  <2>2. rc[p] = Cardinality(Pointing(p)) + Cardinality(Releasing(p))
    BY <2>1 DEF IInv, CountsReferences, Deleted
  <2>3. CASE p = o
    <3>1. rc'[p] = rc[p] + 1
      BY <2>1, <2>3 DEF IInv, RefTypeOK
    <3>2. QED
      BY <3>1, <2>1, <2>2, <2>3, <1>2, <1>5, Countable
  <2>4. CASE p # o
    <3>1. rc'[p] = rc[p]
      BY <2>1, <2>4 DEF IInv, RefTypeOK
    <3>2. QED
      BY <3>1, <2>1, <2>2, <2>4, <1>2, <1>3
  <2>5. QED
    BY <2>3, <2>4
<1>7. DeletedUnreferenced'
  BY <1>2, <1>3, <1>4 DEF IInv, RefTypeOK, DeletedUnreferenced, Deleted, Pointing
<1>8. NewPrivate'
  BY <1>3 DEF IInv, RefTypeOK, NewPrivate
<1>9. QED
  BY <1>1, <1>6, <1>7, <1>8 DEF IInv

LEMMA AdoptIInv ==
  ASSUME IInv, NEW t \in Threads, Adopt(t)
  PROVE  IInv'
<1> USE RefCountAssumption
<1>1. PICK d \in Own(t) : ptr[d] = nullptr /\ ptr' = [ptr EXCEPT ![d] = held[t]]
  BY DEF Adopt
<1>2. d \in Slots
  BY DEF Own, Slots
<1>3. held[t] \in live /\ ~ Deleted(held[t]) /\ Pointing(held[t]) = {}
  BY DEF Adopt, IInv, RefTypeOK, NewPrivate, Deleted, DeletedUnreferenced
<1>4. \A u \in Threads \ {t} : stage[u] = "new" => held[u] # held[t]
  BY DEF Adopt, IInv, NewPrivate
<1>5. /\ stage[t] = "new" /\ live' = live /\ rc' = [rc EXCEPT ![held[t]] = @ + 1]
      /\ stage' = [stage EXCEPT ![t] = "idle"]
      /\ held' \in [Threads -> Objects \cup {nullptr}]
      /\ \A u \in Threads \ {t} : held'[u] = held[u]
  BY DEF Adopt, Goto, IInv, RefTypeOK
<1>6. QED
  BY <1>1, <1>2, <1>3, <1>4, <1>5, GainIInv

LEMMA CopyIInv ==
  ASSUME IInv, NEW t \in Threads, Copy(t)
  PROVE  IInv'
<1> USE RefCountAssumption
<1>1. PICK s \in Own(t), d \in Own(t) :
        /\ ptr[s] # nullptr /\ ptr[d] = nullptr
        /\ ptr' = [ptr EXCEPT ![d] = ptr[s]]
        /\ rc' = [rc EXCEPT ![ptr[s]] = @ + 1]
  BY DEF Copy
<1>2. s \in Slots /\ d \in Slots
  BY DEF Own, Slots
<1>3. /\ ptr[s] \in live /\ s \in Pointing(ptr[s])
      /\ \A u \in Threads : stage[u] \in {"new", "delete"} => held[u] # ptr[s]
  BY <1>1, <1>2, PointedStays
<1>4. ~ Deleted(ptr[s])
  BY <1>3 DEF Deleted
<1>5. /\ stage[t] = "idle" /\ live' = live
      /\ stage' = [stage EXCEPT ![t] = "idle"]
      /\ held' \in [Threads -> Objects \cup {nullptr}]
      /\ \A u \in Threads \ {t} : held'[u] = held[u]
  BY DEF Copy, IInv, RefTypeOK
<1>6. QED
  BY <1>1, <1>2, <1>3, <1>4, <1>5, GainIInv

LEMMA MoveIInv ==
  ASSUME IInv, NEW t \in Threads, Move(t)
  PROVE  IInv'
<1> USE RefCountAssumption
<1>0. PICK s \in Own(t), d \in Slots :
        /\ ptr[s] # nullptr /\ ptr[d] = nullptr
        /\ ptr' = [ptr EXCEPT ![d] = ptr[s], ![s] = nullptr]
  BY DEF Move
<1>1. PICK o : /\ o = ptr[s] /\ o # nullptr /\ ptr[d] = nullptr
               /\ ptr' = [ptr EXCEPT ![d] = o, ![s] = nullptr]
  BY <1>0
<1>2. s \in Slots /\ s # d
  BY <1>1 DEF Own, Slots
<1>3. /\ o \in live /\ o \in Objects
      /\ \A u \in Threads : stage[u] \in {"new", "delete"} => held[u] # o
  BY <1>1, <1>2, PointedStays
<1>4. UNCHANGED <<live, rc, stage, held>>
  BY DEF Move
<1>5. RefTypeOK'
  BY <1>1, <1>2, <1>3, <1>4 DEF IInv, RefTypeOK
<1>6. \A p \in Objects : Releasing(p)' = Releasing(p)
  BY <1>4 DEF Releasing
<1>7. \A p \in Objects \ {o} : Pointing(p)' = Pointing(p)
  BY <1>1, <1>2 DEF IInv, RefTypeOK, Pointing
<1>8. Pointing(o)' = (Pointing(o) \cup {d}) \ {s}
  BY <1>1, <1>2, <1>3 DEF IInv, RefTypeOK, Pointing
<1>9. Cardinality(Pointing(o)') = Cardinality(Pointing(o))
  <2> DEFINE P == Pointing(o)
  <2>1. d \notin P /\ s \in P /\ IsFiniteSet(P) /\ Cardinality(P) \in Nat
    BY <1>1, <1>2, <1>3, Countable DEF Pointing
  <2> HIDE DEF P
  <2>2. IsFiniteSet(P \cup {d}) /\ Cardinality(P \cup {d}) = Cardinality(P) + 1
    BY <2>1, FS_AddElement
  <2>3. Cardinality((P \cup {d}) \ {s}) = Cardinality(P \cup {d}) - 1
    BY <2>1, <2>2, FS_RemoveElement
  <2>4. QED
    BY <1>8, <2>1, <2>2, <2>3 DEF P
<1>10. CountsReferences'
  BY <1>4, <1>6, <1>7, <1>9 DEF IInv, RefTypeOK, CountsReferences
<1>11. DeletedUnreferenced'
  <2>1. \A v \in Slots : ptr'[v] # nullptr => ptr'[v] \in live
    BY <1>1, <1>2, <1>3 DEF IInv, RefTypeOK, DeletedUnreferenced
  <2>2. ASSUME NEW u \in Threads, stage[u] = "delete"
        PROVE  Pointing(held[u])' = {}
    BY <2>2, <1>3, <1>4, <1>7 DEF IInv, RefTypeOK, DeletedUnreferenced
  <2>3. QED
    BY <2>1, <2>2, <1>4 DEF IInv, DeletedUnreferenced
<1>12. NewPrivate'
  <2>1. ASSUME NEW u \in Threads, stage[u] = "new"
        PROVE  Pointing(held[u])' = {}
    BY <2>1, <1>3, <1>4, <1>7 DEF IInv, RefTypeOK, NewPrivate
  <2>2. QED
    BY <2>1, <1>4 DEF IInv, NewPrivate
<1>13. QED
  BY <1>5, <1>10, <1>11, <1>12 DEF IInv

LEMMA ResetIInv ==
  ASSUME IInv, NEW t \in Threads, Reset(t)
  PROVE  IInv'
<1> USE RefCountAssumption
<1>0. PICK s \in Own(t), new \in {ptr[d] : d \in Own(t)} \cup {nullptr} :
        /\ ptr[s] # nullptr
        /\ ptr' = [ptr EXCEPT ![s] = new]
        /\ rc' = IF new = nullptr THEN rc ELSE [rc EXCEPT ![new] = @ + 1]
        /\ Goto(t, "deref", ptr[s])
  BY DEF Reset
<1>1. PICK old :
        /\ old = ptr[s] /\ old # nullptr
        /\ ptr' = [ptr EXCEPT ![s] = new]
        /\ rc' = IF new = nullptr THEN rc ELSE [rc EXCEPT ![new] = @ + 1]
        /\ Goto(t, "deref", old)
  BY <1>0
<1>2. s \in Slots /\ Own(t) \subseteq Slots
  BY DEF Own, Slots
<1>3. /\ old \in live /\ old \in Objects /\ s \in Pointing(old)
      /\ \A u \in Threads : stage[u] \in {"new", "delete"} => held[u] # old
  BY <1>1, <1>2, PointedStays
<1>4. new # nullptr =>
        /\ new \in live /\ new \in Objects
        /\ \A u \in Threads : stage[u] \in {"new", "delete"} => held[u] # new
  BY <1>2, PointedStays
<1>5. stage[t] = "idle" /\ live' = live
  BY DEF Reset
<1>6. /\ stage' = [stage EXCEPT ![t] = "deref"] /\ held' = [held EXCEPT ![t] = old]
      /\ ptr' = [ptr EXCEPT ![s] = new] /\ old # nullptr /\ ptr[s] = old
  BY <1>1 DEF Goto
<1>7. RefTypeOK'
  <2>1. rc' \in [Objects -> Nat]
    BY <1>1, <1>4 DEF IInv, RefTypeOK
  <2>2. /\ ptr' \in [Slots -> Objects \cup {nullptr}]
        /\ held' \in [Threads -> Objects \cup {nullptr}]
    BY <1>3, <1>4, <1>6 DEF IInv, RefTypeOK
  <2>3. stage' \in [Threads -> Stage]
    BY <1>6 DEF IInv, RefTypeOK, Stage
  <2>4. \A u \in Threads : stage'[u] # "idle" => held'[u] \in live'
    BY <1>3, <1>5, <1>6 DEF IInv, RefTypeOK
  <2>5. QED
    BY <2>1, <2>2, <2>3, <2>4, <1>5 DEF IInv, RefTypeOK
<1>8. Releasing(old)' = Releasing(old) \cup {t} /\ t \notin Releasing(old)
  BY <1>5, <1>6 DEF IInv, RefTypeOK, Releasing
<1>9. \A p \in Objects \ {old} : Releasing(p)' = Releasing(p)
  BY <1>5, <1>6 DEF IInv, RefTypeOK, Releasing
<1>10. \A p \in Objects \ {old, new} : Pointing(p)' = Pointing(p)
  BY <1>2, <1>6 DEF IInv, RefTypeOK, Pointing
<1>11. CountsReferences'
  <2> SUFFICES ASSUME NEW p \in live', ~ Deleted(p)'
               PROVE  rc'[p] = Cardinality(Pointing(p)') + Cardinality(Releasing(p)')
    BY DEF CountsReferences, Deleted
  <2>1. p \in live /\ p \in Objects /\ ~ Deleted(p)
    BY <1>5, <1>6 DEF Deleted, IInv, RefTypeOK
  <2>2. rc[p] = Cardinality(Pointing(p)) + Cardinality(Releasing(p))
    BY <2>1 DEF IInv, CountsReferences, Deleted
  <2>3. CASE p # old /\ p # new
    BY <2>1, <2>2, <2>3, <1>1, <1>9, <1>10 DEF IInv, RefTypeOK
  <2>4. CASE p = old /\ p = new
    <3>1. Pointing(p)' = Pointing(p)
      BY <2>4, <1>2, <1>6 DEF IInv, RefTypeOK, Pointing
    <3>2. Cardinality(Releasing(p)') = Cardinality(Releasing(p)) + 1
      BY <2>4, <1>8, Countable, FS_AddElement
    <3>3. rc'[p] = rc[p] + 1
      BY <2>1, <2>4, <1>1, <1>6 DEF IInv, RefTypeOK
    <3>4. QED
      BY <2>2, <3>1, <3>2, <3>3, Countable
  <2>5. CASE p = old /\ p # new
    <3>1. Pointing(p)' = Pointing(p) \ {s} /\ s \in Pointing(p)
      BY <2>5, <1>2, <1>3, <1>6 DEF IInv, RefTypeOK, Pointing
    <3>2. Cardinality(Pointing(p)') = Cardinality(Pointing(p)) - 1
      BY <3>1, Countable, FS_RemoveElement
    <3>3. Cardinality(Releasing(p)') = Cardinality(Releasing(p)) + 1
      BY <2>5, <1>8, Countable, FS_AddElement
    <3>4. rc'[p] = rc[p]
      BY <2>1, <2>5, <1>1 DEF IInv, RefTypeOK
    <3>5. QED
      BY <2>2, <3>2, <3>3, <3>4, Countable
  <2>6. CASE p # old /\ p = new
    <3>1. Pointing(p)' = Pointing(p) \cup {s} /\ s \notin Pointing(p)
      BY <2>1, <2>6, <1>2, <1>6 DEF IInv, RefTypeOK, Pointing
    <3>2. Cardinality(Pointing(p)') = Cardinality(Pointing(p)) + 1
      BY <3>1, Countable, FS_AddElement
    <3>3. rc'[p] = rc[p] + 1
      BY <2>1, <2>6, <1>1 DEF IInv, RefTypeOK
    <3>4. QED
      BY <2>1, <2>2, <2>6, <3>2, <3>3, <1>9, Countable
  <2>7. QED
    BY <2>3, <2>4, <2>5, <2>6
<1>12. DeletedUnreferenced'
  <2>1. \A v \in Slots : ptr'[v] # nullptr => ptr'[v] \in live'
    BY <1>4, <1>5, <1>6 DEF IInv, RefTypeOK, DeletedUnreferenced
  <2>2. ASSUME NEW u \in Threads, stage'[u] = "delete"
        PROVE  (/\ Pointing(held[u]) = {}
                /\ \A v \in Threads \ {u} : stage[v] # "idle" => held[v] # held[u])'
    <3>1. PICK o \in Objects : u # t /\ stage[u] = "delete" /\ held'[u] = o /\ held[u] = o
      BY <2>2, <1>6 DEF IInv, RefTypeOK
    <3>2. o # old /\ o # new
      BY <3>1, <1>3, <1>4, RefCountAssumption
    <3>3. Pointing(o)' = Pointing(o)
      BY <3>1, <3>2, <1>10
    <3>4. QED
      BY <3>1, <3>2, <3>3, <1>6 DEF IInv, RefTypeOK, DeletedUnreferenced
  <2>3. QED
    BY <2>1, <2>2 DEF DeletedUnreferenced
<1>13. NewPrivate'
  <2> SUFFICES ASSUME NEW u \in Threads, stage'[u] = "new"
        PROVE  (/\ Pointing(held[u]) = {}
                /\ \A v \in Threads \ {u} : stage[v] # "idle" => held[v] # held[u])'
    BY DEF NewPrivate
  <2>1. PICK o \in Objects : u # t /\ stage[u] = "new" /\ held'[u] = o /\ held[u] = o
    BY <1>6 DEF IInv, RefTypeOK
  <2>2. o # old /\ o # new
    BY <2>1, <1>3, <1>4, RefCountAssumption
  <2>3. Pointing(o)' = Pointing(o)
    BY <2>1, <2>2, <1>10
  <2>4. QED
    BY <2>1, <2>2, <2>3, <1>6 DEF IInv, RefTypeOK, NewPrivate
<1>14. QED
  BY <1>7, <1>11, <1>12, <1>13 DEF IInv

(* Whether it finds itself alone or takes the last reference away, the     *)
(* thread that goes on to delete the object is the only one to know it.    *)
LEMMA LastIInv ==
  ASSUME IInv, NEW t \in Threads, NEW o, o = held[t],
         stage[t] \in {"deref", "decrement"}, rc[o] = 1,
         stage' = [stage EXCEPT ![t] = "delete"], UNCHANGED <<held, ptr, live>>,
         rc' \in [Objects -> Nat], \A p \in Objects \ {o} : rc'[p] = rc[p]
  PROVE  IInv'
<1>1. Pointing(o) = {} /\ Releasing(o) = {t}
  BY LastReference DEF IInv
<1>2. o \in live /\ o \in Objects
  BY DEF IInv, RefTypeOK
<1>3. RefTypeOK'
  BY DEF IInv, RefTypeOK, Stage
<1>4. \A u \in Threads \ {t} : stage[u] # "idle" => held[u] # o
  BY <1>1, <1>2 DEF IInv, RefTypeOK, Stage, DeletedUnreferenced, NewPrivate, Releasing
<1>5. \A p \in Objects : Pointing(p)' = Pointing(p)
  BY DEF Pointing
<1>6. \A p \in Objects \ {o} : Releasing(p)' = Releasing(p)
  BY DEF IInv, RefTypeOK, Releasing
<1>7. CountsReferences'
  <2> SUFFICES ASSUME NEW p \in live', ~ Deleted(p)'
               PROVE  rc'[p] = Cardinality(Pointing(p)') + Cardinality(Releasing(p)')
    BY DEF CountsReferences, Deleted
  <2>1. p \in live /\ p \in Objects /\ p # o /\ ~ Deleted(p)
    BY DEF Deleted, IInv, RefTypeOK
  <2>2. QED
    BY <2>1, <1>5, <1>6 DEF IInv, CountsReferences, Deleted
<1>8. DeletedUnreferenced'
  <2>1. ASSUME NEW u \in Threads, stage'[u] = "delete"
        PROVE  (/\ Pointing(held[u]) = {}
                /\ \A v \in Threads \ {u} : stage[v] # "idle" => held[v] # held[u])'
    BY <2>1, <1>1, <1>2, <1>4, <1>5 DEF IInv, RefTypeOK, DeletedUnreferenced
  <2>2. QED
    BY <2>1 DEF IInv, DeletedUnreferenced
<1>9. NewPrivate'
  BY <1>5 DEF IInv, RefTypeOK, NewPrivate
<1>10. QED
  BY <1>3, <1>7, <1>8, <1>9 DEF IInv

LEMMA TestUniqueIInv ==
  ASSUME IInv, NEW t \in Threads, TestUnique(t)
  PROVE  IInv'
<1>1. PICK o : o = held[t] /\ o \in Objects
  BY DEF TestUnique, IInv, RefTypeOK
<1>2. CASE rc[o] = 1
  <2>1. stage' = [stage EXCEPT ![t] = "delete"] /\ UNCHANGED <<held, ptr, live, rc>>
    BY <1>1, <1>2 DEF TestUnique, Goto, IInv, RefTypeOK
  <2>2. QED
    BY <1>1, <1>2, <2>1, LastIInv DEF TestUnique, IInv, RefTypeOK
<1>3. CASE rc[o] # 1
  <2>1. stage' = [stage EXCEPT ![t] = "decrement"] /\ UNCHANGED <<held, ptr, live, rc>>
    BY <1>1, <1>3 DEF TestUnique, Goto, IInv, RefTypeOK
  <2>2. RefTypeOK'
    BY <2>1 DEF TestUnique, IInv, RefTypeOK, Stage
  <2>3. \A p \in Objects : Pointing(p)' = Pointing(p) /\ Releasing(p)' = Releasing(p)
    BY <2>1 DEF Pointing, Releasing, TestUnique, IInv, RefTypeOK
  <2>4. CountsReferences'
    BY <2>1, <2>3 DEF TestUnique, IInv, RefTypeOK, CountsReferences
  <2>5. DeletedUnreferenced' /\ NewPrivate'
    BY <2>1, <2>3 DEF TestUnique, IInv, RefTypeOK, DeletedUnreferenced, NewPrivate
  <2>6. QED
    BY <2>2, <2>4, <2>5 DEF IInv
<1>4. QED
  BY <1>2, <1>3

LEMMA DecrementIInv ==
  ASSUME IInv, NEW t \in Threads, Decrement(t)
  PROVE  IInv'
<1>1. PICK o : o = held[t] /\ o \in Objects /\ o \in live
  BY DEF Decrement, IInv, RefTypeOK
<1>2. stage[t] = "decrement" /\ t \in Releasing(o) /\ ~ Deleted(o)
  BY <1>1 DEF Decrement, Releasing, Deleted, IInv, DeletedUnreferenced
<1>3. rc[o] = Cardinality(Pointing(o)) + Cardinality(Releasing(o))
  BY <1>1, <1>2 DEF IInv, CountsReferences, Deleted
<1>4. Releasing(o) # {} /\ Cardinality(Releasing(o)) # 0
  BY <1>2, Countable, FS_EmptySet
<1>5. rc[o] \in Nat /\ rc[o] >= 1
  BY <1>1, <1>3, <1>4, Countable
<1>6. /\ rc' = [rc EXCEPT ![o] = @ - 1] /\ rc' \in [Objects -> Nat]
      /\ UNCHANGED <<live, ptr>>
  BY <1>1, <1>5 DEF Decrement, IInv, RefTypeOK
<1>7. CASE rc[o] = 1
  <2>1. stage' = [stage EXCEPT ![t] = "delete"] /\ UNCHANGED held
    BY <1>1, <1>7 DEF Decrement, Goto, IInv, RefTypeOK
  <2>2. QED
    BY <1>1, <1>2, <1>6, <1>7, <2>1, LastIInv DEF IInv, RefTypeOK
<1>8. CASE rc[o] # 1
  <2>1. stage' = [stage EXCEPT ![t] = "idle"] /\ held' = [held EXCEPT ![t] = nullptr]
    BY <1>1, <1>8 DEF Decrement, Goto
  <2>2. RefTypeOK'
    BY <1>6, <2>1 DEF IInv, RefTypeOK, Stage
  <2>3. \A p \in Objects : Pointing(p)' = Pointing(p)
    BY <1>6 DEF Pointing
  <2>4. \A p \in Objects \ {o} : Releasing(p)' = Releasing(p)
    BY <1>1, <2>1 DEF IInv, RefTypeOK, Releasing
  <2>5. Cardinality(Releasing(o)') = Cardinality(Releasing(o)) - 1
    <3>1. Releasing(o)' = Releasing(o) \ {t}
      BY <1>1, <2>1 DEF IInv, RefTypeOK, Releasing
    <3>2. QED
      BY <3>1, <1>2, Countable, FS_RemoveElement
  <2>6. CountsReferences'
    <3> SUFFICES ASSUME NEW p \in live', ~ Deleted(p)'
                 PROVE  rc'[p] = Cardinality(Pointing(p)') + Cardinality(Releasing(p)')
      BY DEF CountsReferences, Deleted
    <3>1. p \in live /\ p \in Objects
      BY <1>6 DEF IInv, RefTypeOK
    <3>2. CASE p = o
      BY <3>2, <1>1, <1>3, <1>6, <2>3, <2>5, Countable DEF IInv, RefTypeOK
    <3>3. CASE p # o
      <4>1. ~ Deleted(p)
        BY <3>3, <1>1, <1>2, <2>1 DEF Deleted, IInv, RefTypeOK
      <4>2. QED
        BY <3>1, <3>3, <4>1, <1>6, <2>3, <2>4 DEF IInv, RefTypeOK, CountsReferences, Deleted
    <3>4. QED
      BY <3>2, <3>3
  <2>7. DeletedUnreferenced' /\ NewPrivate'
    BY <1>2, <1>6, <2>1, <2>3 DEF IInv, RefTypeOK, DeletedUnreferenced, NewPrivate
  <2>8. QED
    BY <2>2, <2>6, <2>7 DEF IInv
<1>9. QED
  BY <1>7, <1>8

LEMMA DeleteIInv ==
  ASSUME IInv, NEW t \in Threads, Delete(t)
  PROVE  IInv'
<1>1. PICK o : o = held[t] /\ o \in Objects /\ o \in live
  BY DEF Delete, IInv, RefTypeOK
<1>2. /\ live' = live \ {o} /\ UNCHANGED <<rc, ptr>> /\ stage[t] = "delete"
      /\ stage' = [stage EXCEPT ![t] = "idle"] /\ held' = [held EXCEPT ![t] = nullptr]
  BY <1>1 DEF Delete, Goto
<1>3. Pointing(o) = {} /\ \A u \in Threads \ {t} : stage[u] # "idle" => held[u] # o
  BY <1>1, <1>2 DEF IInv, DeletedUnreferenced
<1>4. RefTypeOK'
  BY <1>1, <1>2, <1>3 DEF IInv, RefTypeOK, Stage
<1>5. \A p \in Objects \ {o} : Pointing(p)' = Pointing(p) /\ Releasing(p)' = Releasing(p)
  BY <1>1, <1>2 DEF IInv, RefTypeOK, Pointing, Releasing
<1>6. CountsReferences'
  <2> SUFFICES ASSUME NEW p \in live', ~ Deleted(p)'
               PROVE  rc'[p] = Cardinality(Pointing(p)') + Cardinality(Releasing(p)')
    BY DEF CountsReferences, Deleted
  <2>1. p \in live /\ p \in Objects /\ p # o
    BY <1>2 DEF IInv, RefTypeOK
  <2>2. ~ Deleted(p)
    BY <2>1, <1>1, <1>2 DEF Deleted, IInv, RefTypeOK
  <2>3. QED
    BY <2>1, <2>2, <1>2, <1>5 DEF IInv, RefTypeOK, CountsReferences, Deleted
<1>7. DeletedUnreferenced'
  <2>1. \A v \in Slots : ptr'[v] # nullptr => ptr'[v] \in live'
    BY <1>2, <1>3 DEF IInv, DeletedUnreferenced, Pointing
  <2>2. \A u \in Threads : stage'[u] = "delete" => held'[u] \in Objects \ {o}
    BY <1>2, <1>3 DEF IInv, RefTypeOK
  <2>3. QED
    BY <2>1, <2>2, <1>2, <1>5 DEF IInv, RefTypeOK, DeletedUnreferenced
<1>8. NewPrivate'
  <2>1. \A u \in Threads : stage'[u] = "new" => held'[u] \in Objects \ {o}
    BY <1>2, <1>3 DEF IInv, RefTypeOK
  <2>2. QED
    BY <2>1, <1>2, <1>5 DEF IInv, RefTypeOK, NewPrivate
<1>9. QED
  BY <1>4, <1>6, <1>7, <1>8 DEF IInv

(* IInv is inductive. *)
LEMMA Invariance == Spec => []IInv
<1>1. IInv /\ [Next]_vars => IInv'
  <2> SUFFICES ASSUME IInv, [Next]_vars PROVE IInv'
    OBVIOUS
  <2>1. ASSUME NEW t \in Threads,
               \/ New(t) \/ Adopt(t) \/ Copy(t) \/ Move(t) \/ Reset(t)
               \/ TestUnique(t) \/ Decrement(t) \/ Delete(t)
        PROVE  IInv'
    BY <2>1, NewIInv, AdoptIInv, CopyIInv, MoveIInv, ResetIInv,
       TestUniqueIInv, DecrementIInv, DeleteIInv
  <2>2. CASE UNCHANGED vars
    BY <2>2 DEF vars, IInv, RefTypeOK, CountsReferences, DeletedUnreferenced, NewPrivate,
                Pointing, Releasing
  <2>3. QED
    BY <2>1, <2>2 DEF Next
<1>2. QED
  BY <1>1, InitIInv, PTL DEF Spec

-----------------------------------------------------------------------------
(* The count of an object that nobody deletes is the number of its         *)
(* references (ref_counted::ref and deref, intrusive_ptr).                 *)
THEOREM Counting == Spec => []CountsReferences
BY Invariance, PTL DEF IInv

(* An object is deleted by one thread, when nobody refers to it any more,  *)
(* and no pointer dangles.                                                 *)
THEOREM NeverDangles == Spec => []DeletedUnreferenced
BY Invariance, PTL DEF IInv

(* Type correctness; the object a thread works with exists. *)
THEOREM RefTypeCorrect == Spec => []RefTypeOK
BY Invariance, PTL DEF IInv

-----------------------------------------------------------------------------
(* BookEntity: the loop over the entries *)

Parses(F, m, s, n) ==
  F = [i \in 0..n |-> IF i = 0 THEN m ELSE Book!ParseEntry(F[i - 1], s[i])]

LEMMA ParsesFurther ==
  ASSUME NEW m, NEW s, NEW n \in Nat, NEW F, Parses(F, m, s, n)
  PROVE  \E G : Parses(G, m, s, n + 1)
<1> DEFINE last == Book!ParseEntry(F[n], s[n + 1])
           G == [i \in 0..(n + 1) |-> IF i = n + 1 THEN last ELSE F[i]]
<1>1. \A i \in 0..(n + 1) : i = n + 1 \/ (i \in 0..n /\ i # n + 1)
  OBVIOUS
<1>2. \A i \in 0..n : i # 0 => i - 1 \in 0..n /\ i - 1 # n + 1 /\ i - 1 \in 0..(n + 1)
  OBVIOUS
<1>3. /\ n \in 0..(n + 1) /\ n # n + 1 /\ (n + 1) - 1 = n /\ n + 1 # 0
      /\ n + 1 \in 0..(n + 1) /\ n \in 0..n
  OBVIOUS
<1>4. /\ \A i \in 0..(n + 1) : i # n + 1 => G[i] = F[i]
      /\ G[n + 1] = last /\ G[n] = F[n]
  BY <1>3
<1>5. \A i \in 0..n : F[i] = IF i = 0 THEN m ELSE Book!ParseEntry(F[i - 1], s[i])
  BY DEF Parses
<1>6. ASSUME NEW i \in 0..(n + 1)
      PROVE  G[i] = IF i = 0 THEN m ELSE Book!ParseEntry(G[i - 1], s[i])
  <2> HIDE DEF G
  <2>1. CASE i = n + 1
    BY <1>3, <1>4, <2>1
  <2>2. CASE i # n + 1
    <3>1. i \in 0..n /\ G[i] = F[i]
      BY <1>1, <1>4, <2>2
    <3>2. i # 0 => G[i - 1] = F[i - 1]
      BY <1>2, <1>4, <3>1
    <3> QED  BY <1>5, <3>1, <3>2
  <2> QED  BY <2>1, <2>2
<1>7. Parses(G, m, s, n + 1)
  BY <1>6 DEF Parses
<1> QED  BY <1>7

(* The message after each round of the loop.                               *)
Rounds(F, m, s) ==
  /\ F[0] = m /\ \A i \in 1..Len(s) : F[i] = Book!ParseEntry(F[i - 1], s[i])
  /\ Book!Parse(m, s) = F[Len(s)]

LEMMA ParseRounds ==
  ASSUME NEW m, NEW S, NEW s \in Seq(S)
  PROVE  \E F : Rounds(F, m, s)
<1> DEFINE D == {n \in Nat : \E F : Parses(F, m, s, n)}
<1>1. 0 \in D
  <2>1. Parses([i \in 0..0 |-> m], m, s, 0)
    BY DEF Parses
  <2> QED  BY <2>1
<1>2. \A n \in Nat : n \in D => n + 1 \in D
  BY ParsesFurther
<1>3. Len(s) \in D
  <2> HIDE DEF D
  <2> QED  BY <1>1, <1>2, SetInduction, LenProperties
<1>4. \E F : Parses(F, m, s, Len(s))
  BY <1>3
<1>5. PICK F : Parses(F, m, s, Len(s)) /\ Book!Parse(m, s) = F[Len(s)]
  BY <1>4 DEF Book!Parse, Parses
<1>6. Len(s) \in Nat /\ 0 \in 0..Len(s) /\ \A i \in 1..Len(s) : i \in 0..Len(s) /\ i # 0
  OBVIOUS
<1>7. F[0] = m /\ \A i \in 1..Len(s) : F[i] = Book!ParseEntry(F[i - 1], s[i])
  BY <1>5, <1>6 DEF Parses
<1> QED  BY <1>5, <1>7 DEF Rounds

LEMMA ParseOfOne ==
  ASSUME NEW m
  PROVE  Book!Parse(m, <<>>) = m /\ \A e : Book!Parse(m, <<e>>) = Book!ParseEntry(m, e)
<1>1. Book!Parse(m, <<>>) = m
  <2>1. <<>> \in Seq({}) /\ Len(<<>>) = 0
    OBVIOUS
  <2>2. PICK F : Rounds(F, m, <<>>)
    BY <2>1, ParseRounds, Zenon
  <2> QED  BY <2>1, <2>2 DEF Rounds
<1>2. ASSUME NEW e PROVE Book!Parse(m, <<e>>) = Book!ParseEntry(m, e)
  <2>1. <<e>> \in Seq({e}) /\ Len(<<e>>) = 1 /\ <<e>>[1] = e /\ 1 \in 1..1 /\ 1 - 1 = 0
    OBVIOUS
  <2>2. PICK F : Rounds(F, m, <<e>>)
    BY <2>1, ParseRounds, Zenon
  <2>3. F[0] = m /\ F[1] = Book!ParseEntry(F[0], e) /\ Book!Parse(m, <<e>>) = F[1]
    BY <2>1, <2>2 DEF Rounds
  <2> QED  BY <2>3
<1> QED  BY <1>1, <1>2

(* Bytes after bytes are merged into what those before have made.          *)
LEMMA ParseOfConcat ==
  ASSUME NEW m, NEW S, NEW s \in Seq(S), NEW t \in Seq(S)
  PROVE  Book!Parse(m, s \o t) = Book!Parse(Book!Parse(m, s), t)
<1> DEFINE u == s \o t
           k == Book!Parse(m, s)
<1>1. /\ u \in Seq(S) /\ Len(s) \in Nat /\ Len(t) \in Nat /\ Len(u) = Len(s) + Len(t)
      /\ \A i \in 1..Len(s) : u[i] = s[i]
      /\ \A i \in 1..Len(t) : u[Len(s) + i] = t[i]
  OBVIOUS
<1> HIDE DEF u, k
<1>2. PICK F : Rounds(F, m, s)
  BY ParseRounds, Zenon
<1>3. PICK G : Rounds(G, k, t)
  BY ParseRounds, Zenon
<1>4. PICK H : Rounds(H, m, u)
  BY <1>1, ParseRounds, Zenon
<1> DEFINE D == {n \in Nat : n <= Len(s) => H[n] = F[n]}
           E == {n \in Nat : n <= Len(t) => H[Len(s) + n] = G[n]}
<1>5. Nat \subseteq D
  <2>1. 0 \in D
    BY <1>2, <1>4 DEF Rounds
  <2>2. ASSUME NEW n \in Nat, n \in D PROVE n + 1 \in D
    <3> SUFFICES ASSUME n + 1 <= Len(s) PROVE H[n + 1] = F[n + 1]
      OBVIOUS
    <3>1. n + 1 \in 1..Len(s) /\ n + 1 \in 1..Len(u) /\ n <= Len(s) /\ (n + 1) - 1 = n
      BY <1>1
    <3>2. F[n + 1] = Book!ParseEntry(F[n], s[n + 1]) /\ H[n + 1] = Book!ParseEntry(H[n], u[n + 1])
      BY <1>2, <1>4, <3>1 DEF Rounds
    <3>3. H[n] = F[n] /\ u[n + 1] = s[n + 1]
      BY <1>1, <2>2, <3>1
    <3> QED  BY <3>2, <3>3
  <2> HIDE DEF D
  <2> QED  BY <2>1, <2>2, SetInduction
<1>6. H[Len(s)] = k
  BY <1>1, <1>2, <1>5 DEF Rounds, k
<1>7. Nat \subseteq E
  <2>1. 0 \in E
    BY <1>1, <1>3, <1>6 DEF Rounds
  <2>2. ASSUME NEW n \in Nat, n \in E PROVE n + 1 \in E
    <3> SUFFICES ASSUME n + 1 <= Len(t) PROVE H[Len(s) + (n + 1)] = G[n + 1]
      OBVIOUS
    <3>1. /\ n + 1 \in 1..Len(t) /\ Len(s) + (n + 1) \in 1..Len(u) /\ n <= Len(t)
          /\ (n + 1) - 1 = n /\ (Len(s) + (n + 1)) - 1 = Len(s) + n
      BY <1>1
    <3>2. G[n + 1] = Book!ParseEntry(G[n], t[n + 1])
      BY <1>3, <3>1 DEF Rounds
    <3>3. H[Len(s) + (n + 1)] = Book!ParseEntry(H[Len(s) + n], u[Len(s) + (n + 1)])
      BY <1>4, <3>1 DEF Rounds
    <3>4. u[Len(s) + (n + 1)] = t[n + 1] /\ H[Len(s) + n] = G[n]
      BY <1>1, <2>2, <3>1
    <3> QED  BY <3>2, <3>3, <3>4
  <2> HIDE DEF E
  <2> QED  BY <2>1, <2>2, SetInduction
<1>8. H[Len(s) + Len(t)] = G[Len(t)]
  BY <1>1, <1>7
<1>9. Book!Parse(m, u) = Book!Parse(k, t)
  BY <1>1, <1>3, <1>4, <1>8 DEF Rounds
<1> QED  BY <1>9 DEF u, k

-----------------------------------------------------------------------------
(* BookEntity: what each entry does to a message *)

LEMMA EntryEffects ==
  ASSUME NEW m, NEW e
  PROVE  /\ e.tag \in Book!Scalars =>
              Book!ParseEntry(m, e) = Book!SetScalar(m, e.tag, Book!Last(e.body))
         /\ e.tag = "author" =>
              Book!ParseEntry(m, e) =
                [Book!MutableAuthor(m) EXCEPT !.author = Book!InnerParse(@, e.body)]
         /\ e.tag = "pages" =>
              Book!ParseEntry(m, e) = Book!AddPage(m, Book!InnerParse(default, e.body))
         /\ e.tag \in Book!FirstAlternatives =>
              Book!ParseEntry(m, e) = Book!SetFirst(m, e.tag, Book!Last(e.body))
         /\ e.tag = "second_oneof_message" =>
              Book!ParseEntry(m, e) =
                [Book!MutableMessage(m) EXCEPT !.second_oneof.value = Book!InnerParse(@, e.body)]
         /\ e.tag \in Book!SecondAlternatives \ {"second_oneof_message"} =>
              Book!ParseEntry(m, e) = Book!SetSecond(m, e.tag, Book!Last(e.body))
<1> DEFINE author  == [Book!MutableAuthor(m) EXCEPT !.author = Book!InnerParse(@, e.body)]
           message == [Book!MutableMessage(m) EXCEPT
                         !.second_oneof.value = Book!InnerParse(@, e.body)]
<1>1. Book!ParseEntry(m, e) =
        CASE e.tag \in Book!Scalars -> Book!SetScalar(m, e.tag, Book!Last(e.body))
          [] e.tag = "author" -> author
          [] e.tag = "pages"  -> Book!AddPage(m, Book!InnerParse(default, e.body))
          [] e.tag \in Book!FirstAlternatives -> Book!SetFirst(m, e.tag, Book!Last(e.body))
          [] e.tag = "second_oneof_message" -> message
          [] e.tag \in Book!SecondAlternatives \ {"second_oneof_message"} ->
               Book!SetSecond(m, e.tag, Book!Last(e.body))
  BY Zenon DEF Book!ParseEntry
<1> HIDE DEF author, message
<1> USE DEF Book!Scalars, Book!FirstAlternatives, Book!SecondAlternatives
<1>2. e.tag \in Book!Scalars =>
        Book!ParseEntry(m, e) = Book!SetScalar(m, e.tag, Book!Last(e.body))
  BY <1>1
<1>3. e.tag = "author" => Book!ParseEntry(m, e) = author
  BY <1>1
<1>4. e.tag = "pages" =>
        Book!ParseEntry(m, e) = Book!AddPage(m, Book!InnerParse(default, e.body))
  BY <1>1
<1>5. e.tag \in Book!FirstAlternatives =>
        Book!ParseEntry(m, e) = Book!SetFirst(m, e.tag, Book!Last(e.body))
  BY <1>1
<1>6. e.tag = "second_oneof_message" => Book!ParseEntry(m, e) = message
  BY <1>1
<1>7. e.tag \in Book!SecondAlternatives \ {"second_oneof_message"} =>
        Book!ParseEntry(m, e) = Book!SetSecond(m, e.tag, Book!Last(e.body))
  BY <1>1
<1> QED
  BY <1>2, <1>3, <1>4, <1>5, <1>6, <1>7, Zenon DEF author, message

LEMMA EntryKeepsType ==
  ASSUME Book!BookAssumption, NEW m \in Book!Messages, NEW e \in Book!WireEntries
  PROVE  Book!ParseEntry(m, e) \in Book!Messages
<1> USE DEF Book!Messages, Book!Oneof
<1>1. /\ e.tag \in Book!Tags
      /\ e.tag \notin Book!NestedTags => \E v \in Values : e.body = <<v>>
      /\ e.body = <<>> \/ \E v \in Values : e.body = <<v>>
  BY DEF Book!WireEntries
<1>2. /\ e.body # <<>> => Book!Last(e.body) \in Values
      /\ e.tag \notin Book!NestedTags => Book!Last(e.body) \in Values
  <2>1. ASSUME NEW v \in Values, e.body = <<v>> PROVE Book!Last(e.body) \in Values
    BY <2>1 DEF Book!Last
  <2> QED  BY <1>1, <2>1, Zenon
<1>3. ASSUME NEW v PROVE Book!InnerParse(v, e.body) \in Values \cup {v}
  BY <1>2 DEF Book!InnerParse
<1>4. CASE e.tag \in Book!Scalars
  <2> HIDE DEF Book!Messages
  <2>1. e.tag \notin Book!NestedTags
    BY <1>4 DEF Book!Scalars, Book!NestedTags
  <2>2. Book!ParseEntry(m, e) = [m EXCEPT ![e.tag] = Book!Last(e.body)]
    BY <1>4, EntryEffects, Zenon DEF Book!SetScalar
  <2>3. ASSUME NEW v \in Values, NEW f, f \in Book!Scalars
        PROVE  [m EXCEPT ![f] = v] \in Book!Messages
    <3> USE DEF Book!Messages
    <3>1. CASE f = "isbn"
      BY <3>1
    <3>2. CASE f = "title"
      BY <3>2
    <3>3. CASE f = "availability"
      BY <3>3
    <3>4. CASE f = "recommended"
      BY <3>4
    <3> QED  BY <2>3, <3>1, <3>2, <3>3, <3>4, Zenon DEF Book!Scalars
  <2>4. Book!Last(e.body) \in Values
    BY <1>2, <2>1
  <2> QED  BY <1>4, <2>2, <2>3, <2>4, Zenon
<1>5. CASE e.tag = "author"
  <2> DEFINE k == Book!MutableAuthor(m)
             v == Book!InnerParse(k.author, e.body)
  <2>1. k \in Book!Messages /\ k.author \in Values
    BY DEF Book!MutableAuthor, Book!BookAssumption
  <2>2. v \in Values
    BY <1>3, <2>1
  <2>3. Book!ParseEntry(m, e) = [k EXCEPT !.author = v]
    BY <1>5, EntryEffects, Zenon
  <2> HIDE DEF k, v
  <2> QED  BY <2>1, <2>2, <2>3
<1>6. CASE e.tag = "pages"
  <2>1. Book!ParseEntry(m, e) = [m EXCEPT !.pages = Append(@, Book!InnerParse(default, e.body))]
    BY <1>6, EntryEffects, Zenon DEF Book!AddPage
  <2>2. Book!InnerParse(default, e.body) \in Values
    BY <1>3 DEF Book!BookAssumption
  <2> QED  BY <2>1, <2>2
<1>7. CASE e.tag \in Book!FirstAlternatives
  <2> HIDE DEF Book!Messages
  <2>1. e.tag \notin Book!NestedTags
    BY <1>7 DEF Book!FirstAlternatives, Book!NestedTags
  <2>2. Book!ParseEntry(m, e) =
          [m EXCEPT !.first_oneof = [alt |-> e.tag, value |-> Book!Last(e.body)]]
    BY <1>7, EntryEffects, Zenon DEF Book!SetFirst
  <2> QED  BY <1>2, <1>7, <2>1, <2>2 DEF Book!Messages
<1>8. CASE e.tag = "second_oneof_message"
  <2>1. Book!MutableMessage(m) \in Book!Messages
    BY DEF Book!MutableMessage, Book!SetSecond, Book!SecondAlternatives, Book!BookAssumption
  <2>2. Book!MutableMessage(m).second_oneof \in [alt : {"second_oneof_message"}, value : Values]
    BY DEF Book!MutableMessage, Book!SetSecond, Book!BookAssumption, Book!NotSet
  <2>3. Book!ParseEntry(m, e) =
          [Book!MutableMessage(m) EXCEPT !.second_oneof.value = Book!InnerParse(@, e.body)]
    BY <1>8, EntryEffects, Zenon
  <2> QED  BY <1>3, <2>1, <2>2, <2>3 DEF Book!SecondAlternatives
<1>9. CASE e.tag \in Book!SecondAlternatives \ {"second_oneof_message"}
  <2> HIDE DEF Book!Messages
  <2>1. e.tag \notin Book!NestedTags
    BY <1>9 DEF Book!SecondAlternatives, Book!NestedTags
  <2>2. Book!ParseEntry(m, e) =
          [m EXCEPT !.second_oneof = [alt |-> e.tag, value |-> Book!Last(e.body)]]
    BY <1>9, EntryEffects, Zenon DEF Book!SetSecond
  <2> QED  BY <1>2, <1>9, <2>1, <2>2 DEF Book!Messages
<1> QED
  BY <1>1, <1>4, <1>5, <1>6, <1>7, <1>8, <1>9 DEF Book!Tags, Book!NestedTags

LEMMA ParseKeepsType ==
  ASSUME Book!BookAssumption, NEW m \in Book!Messages, NEW s \in Seq(Book!WireEntries)
  PROVE  Book!Parse(m, s) \in Book!Messages
<1>1. PICK F : Rounds(F, m, s)
  BY ParseRounds, Zenon
<1>2. Len(s) \in Nat /\ \A i \in 1..Len(s) : s[i] \in Book!WireEntries
  OBVIOUS
<1> DEFINE D == {n \in Nat : n <= Len(s) => F[n] \in Book!Messages}
<1>3. 0 \in D
  BY <1>1 DEF Rounds
<1>4. ASSUME NEW n \in Nat, n \in D PROVE n + 1 \in D
  <2> SUFFICES ASSUME n + 1 <= Len(s) PROVE F[n + 1] \in Book!Messages
    OBVIOUS
  <2>1. n + 1 \in 1..Len(s) /\ n <= Len(s) /\ (n + 1) - 1 = n
    BY <1>2
  <2>2. F[n + 1] = Book!ParseEntry(F[n], s[n + 1])
    BY <1>1, <2>1 DEF Rounds
  <2> QED  BY <1>2, <1>4, <2>1, <2>2, EntryKeepsType
<1>5. Nat \subseteq D
  <2> HIDE DEF D
  <2> QED  BY <1>3, <1>4, SetInduction
<1> QED  BY <1>1, <1>2, <1>5 DEF Rounds

(* What the entries that _InternalSerialize writes for one field do to a   *)
(* message: what MergeFrom does to that field.                             *)
LEMMA ScalarParsed ==
  ASSUME Book!BookAssumption, NEW m \in Book!Messages, NEW y \in Book!Messages,
         NEW f, f \in Book!Scalars
  PROVE  /\ Book!ScalarEntry(y, f) \in Seq(Book!WireEntries)
         /\ Book!Parse(m, Book!ScalarEntry(y, f)) = [m EXCEPT ![f] = Book!MergeField(@, y[f])]
<1>1. y[f] \in Values /\ m = [m EXCEPT ![f] = m[f]]
  <2> USE DEF Book!Messages
  <2>1. CASE f = "isbn"
    BY <2>1
  <2>2. CASE f = "title"
    BY <2>2
  <2>3. CASE f = "availability"
    BY <2>3
  <2>4. CASE f = "recommended"
    BY <2>4
  <2> QED  BY <2>1, <2>2, <2>3, <2>4, Zenon DEF Book!Scalars
<1>2. CASE y[f] = default
  <2>1. Book!ScalarEntry(y, f) = <<>> /\ Book!MergeField(m[f], y[f]) = m[f]
    BY <1>2, Zenon DEF Book!ScalarEntry, Book!MergeField
  <2>2. <<>> \in Seq(Book!WireEntries) /\ Book!Parse(m, <<>>) = m
    BY EmptySeq, ParseOfOne
  <2> QED  BY <1>1, <2>1, <2>2, Zenon
<1>3. CASE y[f] # default
  <2> DEFINE e == [tag |-> f, body |-> <<y[f]>>]
  <2>1. Book!ScalarEntry(y, f) = <<e>> /\ Book!MergeField(m[f], y[f]) = y[f]
    BY <1>3, Zenon DEF Book!ScalarEntry, Book!MergeField
  <2>2. e \in Book!WireEntries
    <3>1. f \in Book!Tags /\ <<y[f]>> # <<>>
      BY DEF Book!Tags
    <3> QED  BY <1>1, <3>1 DEF Book!WireEntries
  <2>3. Book!ParseEntry(m, e) = [m EXCEPT ![f] = Book!Last(<<y[f]>>)]
    <3>1. e.tag = f /\ e.body = <<y[f]>>
      OBVIOUS
    <3> HIDE DEF e
    <3> QED  BY <3>1, EntryEffects DEF Book!SetScalar
  <2>4. Book!Last(<<y[f]>>) = y[f]
    BY DEF Book!Last
  <2>5. <<e>> \in Seq(Book!WireEntries) /\ Book!Parse(m, <<e>>) = Book!ParseEntry(m, e)
    <3> HIDE DEF e
    <3> QED  BY <2>2, ParseOfOne
  <2> HIDE DEF e
  <2> QED  BY <2>1, <2>3, <2>4, <2>5, Zenon
<1> QED  BY <1>2, <1>3

LEMMA AuthorParsed ==
  ASSUME Book!BookAssumption, NEW m \in Book!Messages, NEW y \in Book!Messages
  PROVE  /\ Book!AuthorEntry(y) \in Seq(Book!WireEntries)
         /\ Book!Parse(m, Book!AuthorEntry(y)) =
              IF y.author = nullptr THEN m
              ELSE [m EXCEPT !.author = Book!MergeField(Book!MutableAuthor(m).author, y.author)]
<1>1. CASE y.author = nullptr
  <2>1. Book!AuthorEntry(y) = <<>>
    BY <1>1, Zenon DEF Book!AuthorEntry
  <2> QED  BY <1>1, <2>1, ParseOfOne, EmptySeq
<1>2. CASE y.author # nullptr
  <2> DEFINE body == Book!InnerEntries(y.author)
             e == [tag |-> "author", body |-> body]
             k == Book!MutableAuthor(m)
  <2>1. Book!AuthorEntry(y) = <<e>>
    BY <1>2, Zenon DEF Book!AuthorEntry
  <2>2. y.author \in Values
    BY <1>2 DEF Book!Messages
  <2>3. body = IF y.author = default THEN <<>> ELSE <<y.author>>
    BY DEF Book!InnerEntries
  <2>4. Book!InnerParse(k.author, body) = Book!MergeField(k.author, y.author)
    BY <2>3 DEF Book!InnerParse, Book!MergeField, Book!Last
  <2>5. e \in Book!WireEntries
    BY <2>2, <2>3 DEF Book!WireEntries, Book!Tags, Book!NestedTags
  <2>6. Book!ParseEntry(m, e) = [k EXCEPT !.author = Book!InnerParse(k.author, body)]
    <3>1. e.tag = "author" /\ e.body = body
      OBVIOUS
    <3> HIDE DEF e
    <3> QED  BY <3>1, EntryEffects
  <2>7. ASSUME NEW v PROVE [k EXCEPT !.author = v] = [m EXCEPT !.author = v]
    BY DEF Book!MutableAuthor, Book!Messages
  <2>8. <<e>> \in Seq(Book!WireEntries) /\ Book!Parse(m, <<e>>) = Book!ParseEntry(m, e)
    <3> HIDE DEF e
    <3> QED  BY <2>5, ParseOfOne
  <2> HIDE DEF e, body
  <2> QED  BY <1>2, <2>1, <2>4, <2>6, <2>7, <2>8, Zenon
<1> QED  BY <1>1, <1>2

LEMMA FirstParsed ==
  ASSUME Book!BookAssumption, NEW m \in Book!Messages, NEW y \in Book!Messages
  PROVE  /\ Book!OneofEntry(y.first_oneof) \in Seq(Book!WireEntries)
         /\ Book!Parse(m, Book!OneofEntry(y.first_oneof)) =
              IF y.first_oneof = Book!NotSet THEN m
              ELSE [m EXCEPT !.first_oneof = y.first_oneof]
<1> DEFINE one == y.first_oneof
<1>1. one = Book!NotSet \/ one \in [alt : Book!FirstAlternatives, value : Values]
  BY DEF Book!Messages, Book!Oneof
<1> HIDE DEF one
<1>2. CASE one = Book!NotSet
  <2>1. Book!OneofEntry(one) = <<>>
    BY <1>2 DEF Book!OneofEntry, Book!NotSet
  <2> QED  BY <1>2, <2>1, ParseOfOne, EmptySeq DEF one
<1>3. CASE one # Book!NotSet
  <2> DEFINE e == [tag |-> one.alt, body |-> <<one.value>>]
  <2>1. one.alt \in Book!FirstAlternatives /\ one.value \in Values
        /\ one = [alt |-> one.alt, value |-> one.value]
    BY <1>1, <1>3
  <2>2. one.alt # "NOT_SET" /\ one.alt # "second_oneof_message"
    BY <2>1 DEF Book!FirstAlternatives
  <2>3. Book!OneofEntry(one) = <<e>>
    BY <2>2, Zenon DEF Book!OneofEntry
  <2>4. e \in Book!WireEntries
    <3>1. one.alt \in Book!Tags /\ <<one.value>> # <<>>
      BY <2>1 DEF Book!Tags
    <3> QED  BY <2>1, <3>1 DEF Book!WireEntries
  <2>5. Book!ParseEntry(m, e) = Book!SetFirst(m, one.alt, Book!Last(<<one.value>>))
    <3>1. e.tag = one.alt /\ e.body = <<one.value>>
      OBVIOUS
    <3> HIDE DEF e
    <3> QED  BY <2>1, <3>1, EntryEffects
  <2>6. Book!Last(<<one.value>>) = one.value
    BY DEF Book!Last
  <2>7. <<e>> \in Seq(Book!WireEntries) /\ Book!Parse(m, <<e>>) = Book!ParseEntry(m, e)
    <3> HIDE DEF e
    <3> QED  BY <2>4, ParseOfOne
  <2>8. Book!SetFirst(m, one.alt, one.value) = [m EXCEPT !.first_oneof = one]
    BY <2>1, Zenon DEF Book!SetFirst
  <2> HIDE DEF e
  <2> QED  BY <1>3, <2>3, <2>5, <2>6, <2>7, <2>8, Zenon DEF one
<1> QED  BY <1>2, <1>3

LEMMA SecondParsed ==
  ASSUME Book!BookAssumption, NEW m \in Book!Messages, NEW y \in Book!Messages
  PROVE  /\ Book!OneofEntry(y.second_oneof) \in Seq(Book!WireEntries)
         /\ Book!Parse(m, Book!OneofEntry(y.second_oneof)) =
              IF y.second_oneof = Book!NotSet THEN m
              ELSE IF y.second_oneof.alt = "second_oneof_message"
                THEN [m EXCEPT !.second_oneof =
                        [alt |-> "second_oneof_message",
                         value |-> Book!MergeField(Book!MutableMessage(m).second_oneof.value,
                                                   y.second_oneof.value)]]
              ELSE [m EXCEPT !.second_oneof = y.second_oneof]
<1> DEFINE one == y.second_oneof
<1>1. one = Book!NotSet \/ one \in [alt : Book!SecondAlternatives, value : Values]
  BY DEF Book!Messages, Book!Oneof
<1> HIDE DEF one
<1>2. CASE one = Book!NotSet
  <2>1. Book!OneofEntry(one) = <<>>
    BY <1>2 DEF Book!OneofEntry, Book!NotSet
  <2> QED  BY <1>2, <2>1, ParseOfOne, EmptySeq DEF one
<1>3. CASE one # Book!NotSet /\ one.alt # "second_oneof_message"
  <2> DEFINE e == [tag |-> one.alt, body |-> <<one.value>>]
  <2>1. /\ one.alt \in Book!SecondAlternatives \ {"second_oneof_message"}
        /\ one.value \in Values
        /\ one = [alt |-> one.alt, value |-> one.value]
    BY <1>1, <1>3
  <2>2. one.alt # "NOT_SET"
    BY <2>1 DEF Book!SecondAlternatives
  <2>3. Book!OneofEntry(one) = <<e>>
    BY <1>3, <2>2, Zenon DEF Book!OneofEntry
  <2>4. e \in Book!WireEntries
    <3>1. one.alt \in Book!Tags /\ <<one.value>> # <<>>
      BY <2>1 DEF Book!Tags
    <3> QED  BY <2>1, <3>1 DEF Book!WireEntries
  <2>5. Book!ParseEntry(m, e) = Book!SetSecond(m, one.alt, Book!Last(<<one.value>>))
    <3>1. e.tag = one.alt /\ e.body = <<one.value>>
      OBVIOUS
    <3> HIDE DEF e
    <3> QED  BY <2>1, <3>1, EntryEffects, Zenon
  <2>6. Book!Last(<<one.value>>) = one.value
    BY DEF Book!Last
  <2>7. <<e>> \in Seq(Book!WireEntries) /\ Book!Parse(m, <<e>>) = Book!ParseEntry(m, e)
    <3> HIDE DEF e
    <3> QED  BY <2>4, ParseOfOne
  <2>8. Book!SetSecond(m, one.alt, one.value) = [m EXCEPT !.second_oneof = one]
    BY <2>1, Zenon DEF Book!SetSecond
  <2> HIDE DEF e
  <2> QED  BY <1>3, <2>3, <2>5, <2>6, <2>7, <2>8, Zenon DEF one
<1>4. CASE one # Book!NotSet /\ one.alt = "second_oneof_message"
  <2> DEFINE body == Book!InnerEntries(one.value)
             e == [tag |-> "second_oneof_message", body |-> body]
             k == Book!MutableMessage(m)
             was == k.second_oneof.value
  <2>1. one.value \in Values
    BY <1>1, <1>4
  <2>2. Book!OneofEntry(one) = <<e>>
    BY <1>4 DEF Book!OneofEntry
  <2>3. body = IF one.value = default THEN <<>> ELSE <<one.value>>
    BY DEF Book!InnerEntries
  <2>4. Book!InnerParse(was, body) = Book!MergeField(was, one.value)
    BY <2>3 DEF Book!InnerParse, Book!MergeField, Book!Last
  <2>5. e \in Book!WireEntries
    BY <2>1, <2>3 DEF Book!WireEntries, Book!Tags, Book!NestedTags
  <2>6. Book!ParseEntry(m, e) =
          [k EXCEPT !.second_oneof.value = Book!InnerParse(was, body)]
    <3>1. e.tag = "second_oneof_message" /\ e.body = body
      OBVIOUS
    <3> HIDE DEF e
    <3> QED  BY <3>1, EntryEffects
  <2>7. ASSUME NEW v
        PROVE  [k EXCEPT !.second_oneof.value = v] =
                 [m EXCEPT !.second_oneof = [alt |-> "second_oneof_message", value |-> v]]
    <3>1. CASE m.second_oneof.alt = "second_oneof_message"
      <4>1. m.second_oneof \in [alt : {"second_oneof_message"}, value : Values] /\ k = m
        BY <3>1 DEF Book!MutableMessage, Book!Messages, Book!Oneof, Book!NotSet
      <4>2. [m.second_oneof EXCEPT !.value = v] = [alt |-> "second_oneof_message", value |-> v]
        BY <4>1
      <4> QED  BY <4>1, <4>2
    <3>2. CASE m.second_oneof.alt # "second_oneof_message"
      <4>1. k = [m EXCEPT !.second_oneof = [alt |-> "second_oneof_message", value |-> default]]
        BY <3>2, Zenon DEF Book!MutableMessage, Book!SetSecond
      <4>2. k.second_oneof = [alt |-> "second_oneof_message", value |-> default]
        BY <4>1 DEF Book!Messages
      <4>3. [k.second_oneof EXCEPT !.value = v] = [alt |-> "second_oneof_message", value |-> v]
        BY <4>2
      <4> QED  BY <4>1, <4>3 DEF Book!Messages
    <3> QED  BY <3>1, <3>2
  <2>8. <<e>> \in Seq(Book!WireEntries) /\ Book!Parse(m, <<e>>) = Book!ParseEntry(m, e)
    <3> HIDE DEF e
    <3> QED  BY <2>5, ParseOfOne
  <2> HIDE DEF e, body
  <2> QED  BY <1>4, <2>2, <2>4, <2>6, <2>7, <2>8, Zenon DEF one
<1> QED  BY <1>2, <1>3, <1>4

PageEntries(y) ==
  [i \in 1..Len(y.pages) |-> [tag |-> "pages", body |-> Book!InnerEntries(y.pages[i])]]

LEMMA PagesParsed ==
  ASSUME Book!BookAssumption, NEW m \in Book!Messages, NEW y \in Book!Messages
  PROVE  /\ PageEntries(y) \in Seq(Book!WireEntries)
         /\ Book!Parse(m, PageEntries(y)) = [m EXCEPT !.pages = @ \o y.pages]
<1> DEFINE p == y.pages
           s == PageEntries(y)
<1>1. p \in Seq(Values) /\ m.pages \in Seq(Values) /\ Len(p) \in Nat
  BY DEF Book!Messages
<1>2. ASSUME NEW v \in Values
      PROVE  /\ [tag |-> "pages", body |-> Book!InnerEntries(v)] \in Book!WireEntries
             /\ Book!InnerParse(default, Book!InnerEntries(v)) = v
  <2>1. Book!InnerEntries(v) = IF v = default THEN <<>> ELSE <<v>>
    BY DEF Book!InnerEntries
  <2>2. [tag |-> "pages", body |-> Book!InnerEntries(v)] \in Book!WireEntries
    BY <2>1 DEF Book!WireEntries, Book!Tags, Book!NestedTags
  <2>3. Book!InnerParse(default, Book!InnerEntries(v)) = v
    BY <2>1 DEF Book!InnerParse, Book!Last
  <2> QED  BY <2>2, <2>3
<1>3. /\ s \in Seq(Book!WireEntries) /\ Len(s) = Len(p)
      /\ \A i \in 1..Len(p) : s[i] = [tag |-> "pages", body |-> Book!InnerEntries(p[i])]
  <2>1. \A i \in 1..Len(p) : [tag |-> "pages", body |-> Book!InnerEntries(p[i])] \in Book!WireEntries
    BY <1>1, <1>2
  <2> QED  BY <1>1, <2>1 DEF PageEntries
<1> HIDE DEF s
<1>4. PICK F : Rounds(F, m, s)
  BY <1>3, ParseRounds, Zenon
<1> DEFINE D == {n \in Nat : n <= Len(p) => F[n] = [m EXCEPT !.pages = @ \o SubSeq(p, 1, n)]}
<1>5. 0 \in D
  <2>1. SubSeq(p, 1, 0) = <<>> /\ m.pages \o <<>> = m.pages
    BY <1>1
  <2>2. F[0] = m /\ m = [m EXCEPT !.pages = m.pages]
    BY <1>4 DEF Rounds, Book!Messages
  <2> QED  BY <2>1, <2>2
<1>6. ASSUME NEW n \in Nat, n \in D PROVE n + 1 \in D
  <2> SUFFICES ASSUME n + 1 <= Len(p)
               PROVE  F[n + 1] = [m EXCEPT !.pages = @ \o SubSeq(p, 1, n + 1)]
    OBVIOUS
  <2> DEFINE q == m.pages \o SubSeq(p, 1, n)
             e == s[n + 1]
  <2>1. n + 1 \in 1..Len(p) /\ n + 1 \in 1..Len(s) /\ n <= Len(p) /\ (n + 1) - 1 = n
    BY <1>1, <1>3
  <2>2. F[n + 1] = Book!ParseEntry(F[n], e) /\ F[n] = [m EXCEPT !.pages = q]
    BY <1>4, <1>6, <2>1 DEF Rounds
  <2> HIDE DEF p
  <2>3. e.tag = "pages" /\ Book!InnerParse(default, e.body) = p[n + 1]
    <3>1. p[n + 1] \in Values /\ e = [tag |-> "pages", body |-> Book!InnerEntries(p[n + 1])]
      BY <1>1, <1>3, <2>1
    <3>2. e.tag = "pages" /\ e.body = Book!InnerEntries(p[n + 1])
      BY <3>1
    <3> QED  BY <1>2, <3>1, <3>2
  <2>4. m.pages \o SubSeq(p, 1, n + 1) = Append(q, p[n + 1])
    <3>1. SubSeq(p, 1, n + 1) = Append(SubSeq(p, 1, n), p[n + 1])
      BY <1>1, <2>1
    <3>2. SubSeq(p, 1, n) \in Seq(Values) /\ p[n + 1] \in Values
      BY <1>1, <2>1
    <3>3. \A a, b \in Seq(Values) : \A v \in Values : a \o Append(b, v) = Append(a \o b, v)
      OBVIOUS
    <3>4. m.pages \o Append(SubSeq(p, 1, n), p[n + 1]) =
            Append(m.pages \o SubSeq(p, 1, n), p[n + 1])
      BY <1>1, <3>2, <3>3, Zenon
    <3> QED  BY <3>1, <3>4
  <2> HIDE DEF e, q
  <2>5. F[n + 1] = [F[n] EXCEPT !.pages = Append(@, p[n + 1])]
    <3>1. Book!ParseEntry(F[n], e) = Book!AddPage(F[n], Book!InnerParse(default, e.body))
      BY <2>3, EntryEffects, Zenon
    <3>2. F[n + 1] = Book!AddPage(F[n], p[n + 1])
      BY <2>2, <2>3, <3>1
    <3> QED  BY <3>2, Zenon DEF Book!AddPage
  <2>6. [F[n] EXCEPT !.pages = Append(@, p[n + 1])] = [m EXCEPT !.pages = Append(q, p[n + 1])]
    BY <2>2 DEF Book!Messages
  <2> QED  BY <2>4, <2>5, <2>6 DEF p
<1>7. Nat \subseteq D
  <2> HIDE DEF D
  <2> QED  BY <1>5, <1>6, SetInduction
<1>8. SubSeq(p, 1, Len(p)) = p
  BY <1>1
<1>9. F[Len(p)] = [m EXCEPT !.pages = @ \o p]
  <2>1. F[Len(p)] = [m EXCEPT !.pages = @ \o SubSeq(p, 1, Len(p))]
    <3>1. Len(p) \in D
      <4> HIDE DEF D
      <4> QED  BY <1>1, <1>7
    <3>2. Len(p) <= Len(p)
      BY <1>1
    <3> HIDE DEF p
    <3> QED  BY <3>1, <3>2, Zenon
  <2> HIDE DEF p
  <2> QED  BY <1>8, <2>1, Zenon
<1> QED  BY <1>3, <1>4, <1>9 DEF Rounds, s

-----------------------------------------------------------------------------
(* BookEntity: merging *)

(* What the mutable_ accessors make.                                       *)
LEMMA MutableFields ==
  ASSUME Book!BookAssumption, NEW m \in Book!Messages
  PROVE  /\ Book!MutableAuthor(m) = [m EXCEPT !.author = IF @ = nullptr THEN default ELSE @]
         /\ Book!MutableAuthor(m).author = IF m.author = nullptr THEN default ELSE m.author
         /\ Book!MutableAuthor(m) \in Book!Messages
         /\ Book!MutableMessage(m).second_oneof =
              IF m.second_oneof.alt = "second_oneof_message" THEN m.second_oneof
              ELSE [alt |-> "second_oneof_message", value |-> default]
         /\ Book!MutableMessage(m).second_oneof \in [alt : {"second_oneof_message"}, value : Values]
         /\ Book!MutableMessage(m) \in Book!Messages
         /\ Book!MutableMessage(m) = [m EXCEPT !.second_oneof = Book!MutableMessage(m).second_oneof]
<1> USE DEF Book!BookAssumption, Book!Messages
<1>1. Book!MutableAuthor(m) = [m EXCEPT !.author = IF @ = nullptr THEN default ELSE @]
  BY DEF Book!MutableAuthor
<1>2. /\ Book!MutableAuthor(m).author = IF m.author = nullptr THEN default ELSE m.author
      /\ Book!MutableAuthor(m) \in Book!Messages
  BY <1>1
<1> DEFINE one == IF m.second_oneof.alt = "second_oneof_message" THEN m.second_oneof
                  ELSE [alt |-> "second_oneof_message", value |-> default]
<1>3. one \in [alt : {"second_oneof_message"}, value : Values]
  BY DEF Book!Oneof, Book!NotSet
<1>4. one \in Book!Oneof(Book!SecondAlternatives)
  BY <1>3 DEF Book!Oneof, Book!SecondAlternatives
<1>5. Book!MutableMessage(m) = [m EXCEPT !.second_oneof = one]
  BY DEF Book!MutableMessage, Book!SetSecond
<1> HIDE DEF one
<1>6. Book!MutableMessage(m).second_oneof = one /\ Book!MutableMessage(m) \in Book!Messages
  BY <1>4, <1>5
<1> QED  BY <1>1, <1>2, <1>3, <1>5, <1>6, Zenon DEF one

Message(i, t, a, p, f, v, r, o) ==
  [isbn |-> i, title |-> t, author |-> a, pages |-> p, first_oneof |-> f,
   availability |-> v, recommended |-> r, second_oneof |-> o]

MergedAuthor(m, y) ==
  IF y.author = nullptr THEN m.author
  ELSE Book!MergeField(Book!MutableAuthor(m).author, y.author)

MergedFirst(m, y) ==
  IF y.first_oneof = Book!NotSet THEN m.first_oneof ELSE y.first_oneof

MergedSecond(m, y) ==
  IF y.second_oneof = Book!NotSet THEN m.second_oneof
  ELSE IF y.second_oneof.alt = "second_oneof_message"
    THEN [alt |-> "second_oneof_message",
          value |-> Book!MergeField(Book!MutableMessage(m).second_oneof.value,
                                    y.second_oneof.value)]
  ELSE y.second_oneof

(* Merging, field by field.                                                *)
LEMMA MergedFields ==
  ASSUME Book!BookAssumption, NEW m \in Book!Messages, NEW y \in Book!Messages
  PROVE  Book!MergeFrom(m, y) =
           Message(Book!MergeField(m.isbn, y.isbn), Book!MergeField(m.title, y.title),
                   MergedAuthor(m, y), m.pages \o y.pages, MergedFirst(m, y),
                   Book!MergeField(m.availability, y.availability),
                   Book!MergeField(m.recommended, y.recommended), MergedSecond(m, y))
<1> DEFINE made == Book!MutableAuthor(m)
           kept == Book!MutableMessage(m)
           author == [made EXCEPT !.author = Book!MergeField(@, y.author)].author
           inner == [kept EXCEPT !.second_oneof.value =
                       Book!MergeField(@, y.second_oneof.value)].second_oneof
<1>1. /\ made \in Book!Messages /\ kept \in Book!Messages
      /\ kept.second_oneof \in [alt : {"second_oneof_message"}, value : Values]
  BY MutableFields
<1> HIDE DEF made, kept
<1>2. author = Book!MergeField(made.author, y.author)
  BY <1>1 DEF Book!Messages
<1>3. inner = [alt |-> "second_oneof_message",
               value |-> Book!MergeField(kept.second_oneof.value, y.second_oneof.value)]
  BY <1>1 DEF Book!Messages
<1> DEFINE a == IF y.author = nullptr THEN m.author ELSE author
           f == IF y.first_oneof = Book!NotSet THEN m.first_oneof ELSE y.first_oneof
           o == IF y.second_oneof = Book!NotSet THEN m.second_oneof
                ELSE IF y.second_oneof.alt = "second_oneof_message" THEN inner
                ELSE y.second_oneof
<1>4. Book!MergeFrom(m, y) =
        [m EXCEPT !.isbn = Book!MergeField(@, y.isbn), !.title = Book!MergeField(@, y.title),
                  !.author = a, !.pages = @ \o y.pages, !.first_oneof = f,
                  !.availability = Book!MergeField(@, y.availability),
                  !.recommended = Book!MergeField(@, y.recommended), !.second_oneof = o]
  BY Zenon DEF Book!MergeFrom, made, kept
<1> HIDE DEF a, f, o
<1>5. a = MergedAuthor(m, y)
  BY <1>2, Zenon DEF a, MergedAuthor, made
<1>6. f = MergedFirst(m, y)
  BY Zenon DEF f, MergedFirst
<1>7. o = MergedSecond(m, y)
  <2> HIDE DEF inner
  <2> QED  BY <1>3, Zenon DEF o, MergedSecond, kept
<1>8. Book!MergeFrom(m, y) =
        Message(Book!MergeField(m.isbn, y.isbn), Book!MergeField(m.title, y.title),
                a, m.pages \o y.pages, f,
                Book!MergeField(m.availability, y.availability),
                Book!MergeField(m.recommended, y.recommended), o)
  BY <1>4 DEF Book!Messages, Message
<1> QED  BY <1>5, <1>6, <1>7, <1>8

(* The bytes of a message, parsed into another, are merged into it.        *)
LEMMA EntriesMerged ==
  ASSUME Book!BookAssumption, NEW m \in Book!Messages, NEW y \in Book!Messages
  PROVE  /\ Book!Entries(y) \in Seq(Book!WireEntries)
         /\ Book!Parse(m, Book!Entries(y)) = Book!MergeFrom(m, y)
<1> DEFINE S == Seq(Book!WireEntries)
           Merged(k, f) == [k EXCEPT ![f] = Book!MergeField(@, y[f])]
           s1 == Book!ScalarEntry(y, "isbn")
           s2 == Book!ScalarEntry(y, "title")
           s3 == Book!AuthorEntry(y)
           s4 == PageEntries(y)
           s5 == Book!OneofEntry(y.first_oneof)
           s6 == Book!ScalarEntry(y, "availability")
           s7 == Book!ScalarEntry(y, "recommended")
           s8 == Book!OneofEntry(y.second_oneof)
           m1 == Book!Parse(m, s1)
           m2 == Book!Parse(m1, s2)
           m3 == Book!Parse(m2, s3)
           m4 == Book!Parse(m3, s4)
           m5 == Book!Parse(m4, s5)
           m6 == Book!Parse(m5, s6)
           m7 == Book!Parse(m6, s7)
           m8 == Book!Parse(m7, s8)
           k  == Book!MergeFrom(m, y)
<1>1. Book!Entries(y) = s1 \o s2 \o s3 \o s4 \o s5 \o s6 \o s7 \o s8
  BY Zenon DEF Book!Entries, PageEntries
<1>2. {"isbn", "title", "availability", "recommended"} \subseteq Book!Scalars
  BY DEF Book!Scalars
<1> USE DEF S
<1>3. /\ s1 \in S /\ s2 \in S /\ s3 \in S /\ s4 \in S
      /\ s5 \in S /\ s6 \in S /\ s7 \in S /\ s8 \in S
  BY <1>2, ScalarParsed, AuthorParsed, PagesParsed, FirstParsed, SecondParsed
<1>4. /\ m1 \in Book!Messages /\ m2 \in Book!Messages /\ m3 \in Book!Messages
      /\ m4 \in Book!Messages /\ m5 \in Book!Messages /\ m6 \in Book!Messages
      /\ m7 \in Book!Messages /\ m8 \in Book!Messages
  <2> HIDE DEF s1, s2, s3, s4, s5, s6, s7, s8
  <2>1. m1 \in Book!Messages
    BY <1>3, ParseKeepsType
  <2>2. m2 \in Book!Messages
    BY <1>3, <2>1, ParseKeepsType
  <2>3. m3 \in Book!Messages
    BY <1>3, <2>2, ParseKeepsType
  <2>4. m4 \in Book!Messages
    BY <1>3, <2>3, ParseKeepsType
  <2>5. m5 \in Book!Messages
    BY <1>3, <2>4, ParseKeepsType
  <2>6. m6 \in Book!Messages
    BY <1>3, <2>5, ParseKeepsType
  <2>7. m7 \in Book!Messages
    BY <1>3, <2>6, ParseKeepsType
  <2>8. m8 \in Book!Messages
    BY <1>3, <2>7, ParseKeepsType
  <2> QED  BY <2>1, <2>2, <2>3, <2>4, <2>5, <2>6, <2>7, <2>8
<1>5. Book!Parse(m, Book!Entries(y)) = m8 /\ Book!Entries(y) \in S
  <2> HIDE DEF s1, s2, s3, s4, s5, s6, s7, s8, S
  <2> DEFINE t2 == s1 \o s2
             t3 == t2 \o s3
             t4 == t3 \o s4
             t5 == t4 \o s5
             t6 == t5 \o s6
             t7 == t6 \o s7
             t8 == t7 \o s8
  <2>1. \A a, b \in S : a \o b \in S
    BY DEF S
  <2>2. ASSUME NEW a \in S, NEW b \in S
        PROVE  Book!Parse(m, a \o b) = Book!Parse(Book!Parse(m, a), b)
    BY ParseOfConcat DEF S
  <2>3. t2 \in S /\ Book!Parse(m, t2) = m2
    BY <1>3, <2>1, <2>2
  <2> HIDE DEF t2
  <2>4. t3 \in S /\ Book!Parse(m, t3) = m3
    BY <1>3, <2>1, <2>2, <2>3
  <2> HIDE DEF t3
  <2>5. t4 \in S /\ Book!Parse(m, t4) = m4
    BY <1>3, <2>1, <2>2, <2>4
  <2> HIDE DEF t4
  <2>6. t5 \in S /\ Book!Parse(m, t5) = m5
    BY <1>3, <2>1, <2>2, <2>5
  <2> HIDE DEF t5
  <2>7. t6 \in S /\ Book!Parse(m, t6) = m6
    BY <1>3, <2>1, <2>2, <2>6
  <2> HIDE DEF t6
  <2>8. t7 \in S /\ Book!Parse(m, t7) = m7
    BY <1>3, <2>1, <2>2, <2>7
  <2> HIDE DEF t7
  <2>9. t8 \in S /\ Book!Parse(m, t8) = m8
    BY <1>3, <2>1, <2>2, <2>8
  <2> QED  BY <1>1, <2>9 DEF t2, t3, t4, t5, t6, t7
<1>6. /\ m1 = Merged(m, "isbn") /\ m2 = Merged(m1, "title")
      /\ m6 = Merged(m5, "availability") /\ m7 = Merged(m6, "recommended")
  <2>1. ASSUME NEW n \in Book!Messages, NEW g \in Book!Scalars
        PROVE  Book!Parse(n, Book!ScalarEntry(y, g)) = Merged(n, g)
    BY ScalarParsed
  <2> HIDE DEF Merged
  <2>2. m1 = Merged(m, "isbn")
    BY <1>2, <2>1
  <2>3. m2 = Merged(m1, "title")
    <3> HIDE DEF m1
    <3> QED  BY <1>2, <1>4, <2>1
  <2>4. m6 = Merged(m5, "availability")
    <3> HIDE DEF m5
    <3> QED  BY <1>2, <1>4, <2>1
  <2>5. m7 = Merged(m6, "recommended")
    <3> HIDE DEF m6
    <3> QED  BY <1>2, <1>4, <2>1
  <2> QED  BY <2>2, <2>3, <2>4, <2>5
<1>7. m3 = IF y.author = nullptr THEN m2
           ELSE [m2 EXCEPT !.author = Book!MergeField(Book!MutableAuthor(m2).author, y.author)]
  <2> HIDE DEF m2
  <2> QED  BY <1>4, AuthorParsed, Zenon
<1>8. m4 = [m3 EXCEPT !.pages = @ \o y.pages]
  <2> HIDE DEF m3
  <2> QED  BY <1>4, PagesParsed, Zenon
<1>9. m5 = IF y.first_oneof = Book!NotSet THEN m4 ELSE [m4 EXCEPT !.first_oneof = y.first_oneof]
  <2> HIDE DEF m4
  <2> QED  BY <1>4, FirstParsed, Zenon
<1>10. m8 = IF y.second_oneof = Book!NotSet THEN m7
            ELSE IF y.second_oneof.alt = "second_oneof_message"
              THEN [m7 EXCEPT !.second_oneof =
                      [alt |-> "second_oneof_message",
                       value |-> Book!MergeField(Book!MutableMessage(m7).second_oneof.value,
                                                 y.second_oneof.value)]]
            ELSE [m7 EXCEPT !.second_oneof = y.second_oneof]
  <2> HIDE DEF m7
  <2> QED  BY <1>4, SecondParsed, Zenon
<1> HIDE DEF m1, m2, m3, m4, m5, m6, m7, m8, S
<1> DEFINE i == Book!MergeField(m.isbn, y.isbn)
           t == Book!MergeField(m.title, y.title)
           a == MergedAuthor(m, y)
           p == m.pages \o y.pages
           f == MergedFirst(m, y)
           v == Book!MergeField(m.availability, y.availability)
           r == Book!MergeField(m.recommended, y.recommended)
           o == MergedSecond(m, y)
<1>11. m = Message(m.isbn, m.title, m.author, m.pages, m.first_oneof, m.availability,
                   m.recommended, m.second_oneof)
  BY DEF Book!Messages, Message
<1>12. m1 = Message(i, m.title, m.author, m.pages, m.first_oneof, m.availability,
                    m.recommended, m.second_oneof)
  <2> HIDE DEF i
  <2>1. m1 = [m EXCEPT !.isbn = i]
    BY <1>6 DEF i
  <2> QED  BY <2>1 DEF Book!Messages, Message
<1>13. m2 = Message(i, t, m.author, m.pages, m.first_oneof, m.availability,
                    m.recommended, m.second_oneof)
  <2> HIDE DEF i, t
  <2>1. m1.title = m.title
    BY <1>12 DEF Message
  <2>2. m2 = [m1 EXCEPT !.title = t]
    BY <1>6, <2>1 DEF t
  <2> QED  BY <1>12, <2>2 DEF Message
<1>14. m3 = Message(i, t, a, m.pages, m.first_oneof, m.availability,
                    m.recommended, m.second_oneof)
  <2> HIDE DEF i, t
  <2>1. m2.author = m.author
    BY <1>13 DEF Message
  <2>2. Book!MutableAuthor(m2).author = Book!MutableAuthor(m).author
    BY <1>4, <2>1, MutableFields
  <2>3. CASE y.author = nullptr
    BY <1>7, <1>13, <2>3 DEF MergedAuthor
  <2>4. CASE y.author # nullptr
    <3>1. m3 = [m2 EXCEPT !.author = a]
      BY <1>7, <2>2, <2>4 DEF MergedAuthor
    <3> HIDE DEF a
    <3> QED  BY <1>13, <3>1 DEF Message
  <2> QED  BY <2>3, <2>4
<1>15. m4 = Message(i, t, a, p, m.first_oneof, m.availability,
                    m.recommended, m.second_oneof)
  <2> HIDE DEF i, t, a, p
  <2>1. m3.pages = m.pages
    BY <1>14 DEF Message
  <2>2. m4 = [m3 EXCEPT !.pages = p]
    BY <1>8, <2>1 DEF p
  <2> QED  BY <1>14, <2>2 DEF Message
<1>16. m5 = Message(i, t, a, p, f, m.availability, m.recommended, m.second_oneof)
  <2> HIDE DEF i, t, a, p
  <2>1. CASE y.first_oneof = Book!NotSet
    BY <1>9, <1>15, <2>1 DEF MergedFirst
  <2>2. CASE y.first_oneof # Book!NotSet
    <3>1. m5 = [m4 EXCEPT !.first_oneof = f]
      BY <1>9, <2>2 DEF MergedFirst
    <3> HIDE DEF f
    <3> QED  BY <1>15, <3>1 DEF Message
  <2> QED  BY <2>1, <2>2
<1>17. m6 = Message(i, t, a, p, f, v, m.recommended, m.second_oneof)
  <2> HIDE DEF i, t, a, p, f, v
  <2>1. m5.availability = m.availability
    BY <1>16 DEF Message
  <2>2. m6 = [m5 EXCEPT !.availability = v]
    BY <1>6, <2>1 DEF v
  <2> QED  BY <1>16, <2>2 DEF Message
<1>18. m7 = Message(i, t, a, p, f, v, r, m.second_oneof)
  <2> HIDE DEF i, t, a, p, f, v, r
  <2>1. m6.recommended = m.recommended
    BY <1>17 DEF Message
  <2>2. m7 = [m6 EXCEPT !.recommended = r]
    BY <1>6, <2>1 DEF r
  <2> QED  BY <1>17, <2>2 DEF Message
<1>19. m8 = Message(i, t, a, p, f, v, r, o)
  <2> HIDE DEF i, t, a, p, f, v, r
  <2>1. m7.second_oneof = m.second_oneof
    BY <1>18 DEF Message
  <2>2. Book!MutableMessage(m7).second_oneof = Book!MutableMessage(m).second_oneof
    <3>1. \A n \in Book!Messages :
            Book!MutableMessage(n).second_oneof =
              IF n.second_oneof.alt = "second_oneof_message" THEN n.second_oneof
              ELSE [alt |-> "second_oneof_message", value |-> default]
      BY MutableFields, Zenon
    <3> QED  BY <1>4, <2>1, <3>1
  <2>3. CASE y.second_oneof = Book!NotSet
    BY <1>10, <1>18, <2>3 DEF MergedSecond
  <2>4. CASE y.second_oneof # Book!NotSet
    <3>1. m8 = [m7 EXCEPT !.second_oneof = o]
      BY <1>10, <2>2, <2>4 DEF MergedSecond
    <3> HIDE DEF o
    <3> QED  BY <1>18, <3>1 DEF Message
  <2> QED  BY <2>3, <2>4
<1>20. k = m8
  BY <1>19, MergedFields
<1> QED  BY <1>5, <1>20 DEF S

(* Merging into an empty message copies.                                   *)
LEMMA MergedIntoEmpty ==
  ASSUME Book!BookAssumption, NEW y \in Book!Messages
  PROVE  Book!Empty \in Book!Messages /\ Book!MergeFrom(Book!Empty, y) = y
<1> DEFINE m == Book!Empty
<1>1. /\ m \in Book!Messages /\ m.isbn = default /\ m.title = default /\ m.author = nullptr
      /\ m.pages = <<>> /\ m.first_oneof = Book!NotSet /\ m.availability = default
      /\ m.recommended = default /\ m.second_oneof = Book!NotSet
  BY EmptySeq DEF Book!Empty, Book!Messages, Book!Oneof, Book!BookAssumption
<1> HIDE DEF m
<1>2. \A v : Book!MergeField(default, v) = v
  BY DEF Book!MergeField
<1>3. Book!MutableAuthor(m).author = default /\ Book!MutableMessage(m).second_oneof.value = default
  <2>1. Book!NotSet.alt # "second_oneof_message"
    BY DEF Book!NotSet
  <2> QED  BY <1>1, <2>1, MutableFields
<1>4. MergedAuthor(m, y) = y.author
  BY <1>1, <1>2, <1>3 DEF MergedAuthor
<1>5. MergedFirst(m, y) = y.first_oneof
  BY <1>1 DEF MergedFirst
<1>6. MergedSecond(m, y) = y.second_oneof
  <2> DEFINE one == y.second_oneof
  <2>1. one # Book!NotSet /\ one.alt = "second_oneof_message" =>
          one = [alt |-> "second_oneof_message", value |-> one.value]
    BY DEF Book!Messages, Book!Oneof
  <2> HIDE DEF one
  <2> QED  BY <1>1, <1>2, <1>3, <2>1 DEF MergedSecond, one
<1>7. m.pages \o y.pages = y.pages
  BY <1>1, ConcatEmptySeq DEF Book!Messages
<1>8. Book!MergeFrom(m, y) = Message(y.isbn, y.title, y.author, y.pages, y.first_oneof,
                                     y.availability, y.recommended, y.second_oneof)
  BY <1>1, <1>2, <1>4, <1>5, <1>6, <1>7, MergedFields
<1>9. y = Message(y.isbn, y.title, y.author, y.pages, y.first_oneof,
                  y.availability, y.recommended, y.second_oneof)
  BY DEF Book!Messages, Message
<1> QED  BY <1>1, <1>8, <1>9 DEF m

-----------------------------------------------------------------------------
(* BookEntity: the number of bytes *)

BytesOf(s) == [i \in 1..Len(s) |-> 1 + Len(s[i].body)]

LEMMA SizeOfConcat ==
  ASSUME NEW s \in Seq(Book!WireEntries), NEW t \in Seq(Book!WireEntries)
  PROVE  /\ BytesOf(s) \in Seq(Nat) /\ Total(BytesOf(s)) \in Nat
         /\ Total(BytesOf(s \o t)) = Total(BytesOf(s)) + Total(BytesOf(t))
<1>1. ASSUME NEW e \in Book!WireEntries PROVE 1 + Len(e.body) \in Nat
  <2>1. e.body = <<>> \/ \E v \in Values : e.body = <<v>>
    BY DEF Book!WireEntries
  <2> QED  BY <2>1
<1>2. ASSUME NEW u \in Seq(Book!WireEntries)
      PROVE  /\ BytesOf(u) \in Seq(Nat) /\ Len(BytesOf(u)) = Len(u)
             /\ \A i \in 1..Len(u) : BytesOf(u)[i] = 1 + Len(u[i].body)
  <2>1. Len(u) \in Nat /\ \A i \in 1..Len(u) : u[i] \in Book!WireEntries
    OBVIOUS
  <2>2. BytesOf(u) \in [1..Len(u) -> Nat]
    BY <1>1, <2>1 DEF BytesOf
  <2>3. ASSUME NEW n \in Nat, NEW f \in [1..n -> Nat]
        PROVE  f \in Seq(Nat) /\ Len(f) = n
    OBVIOUS
  <2>4. BytesOf(u) \in Seq(Nat) /\ Len(BytesOf(u)) = Len(u)
    BY <2>1, <2>2, <2>3, Zenon
  <2> QED  BY <2>4 DEF BytesOf
<1> DEFINE a == BytesOf(s)
           b == BytesOf(t)
           c == BytesOf(s \o t)
<1>3. s \o t \in Seq(Book!WireEntries)
  OBVIOUS
<1>4. c = a \o b
  <2>1. /\ Len(s \o t) = Len(s) + Len(t) /\ Len(s) \in Nat /\ Len(t) \in Nat
        /\ \A i \in 1..Len(s) : (s \o t)[i] = s[i]
        /\ \A i \in 1..Len(t) : (s \o t)[Len(s) + i] = t[i]
    OBVIOUS
  <2>2. /\ a \in Seq(Nat) /\ b \in Seq(Nat) /\ c \in Seq(Nat)
        /\ Len(a) = Len(s) /\ Len(b) = Len(t) /\ Len(c) = Len(s) + Len(t)
        /\ \A i \in 1..Len(s) : a[i] = 1 + Len(s[i].body)
        /\ \A i \in 1..Len(t) : b[i] = 1 + Len(t[i].body)
        /\ \A i \in 1..(Len(s) + Len(t)) : c[i] = 1 + Len((s \o t)[i].body)
    BY <1>2, <1>3, <2>1
  <2> HIDE DEF a, b, c
  <2>3. /\ a \o b \in Seq(Nat) /\ Len(a \o b) = Len(s) + Len(t)
        /\ \A i \in 1..Len(s) : (a \o b)[i] = a[i]
        /\ \A i \in 1..Len(t) : (a \o b)[Len(s) + i] = b[i]
    <3>1. ASSUME NEW f \in Seq(Nat), NEW g \in Seq(Nat)
          PROVE  /\ f \o g \in Seq(Nat) /\ Len(f \o g) = Len(f) + Len(g)
                 /\ \A i \in 1..Len(f) : (f \o g)[i] = f[i]
                 /\ \A i \in 1..Len(g) : (f \o g)[Len(f) + i] = g[i]
      OBVIOUS
    <3>2. /\ a \o b \in Seq(Nat) /\ Len(a \o b) = Len(a) + Len(b)
          /\ \A i \in 1..Len(a) : (a \o b)[i] = a[i]
          /\ \A i \in 1..Len(b) : (a \o b)[Len(a) + i] = b[i]
      BY <2>2, <3>1
    <3>3. Len(a) = Len(s) /\ Len(b) = Len(t)
      BY <2>2
    <3> QED  BY <3>2, <3>3
  <2>4. ASSUME NEW i \in 1..(Len(s) + Len(t)) PROVE c[i] = (a \o b)[i]
    <3>1. CASE i \in 1..Len(s)
      <4>1. (s \o t)[i] = s[i] /\ (a \o b)[i] = a[i] /\ a[i] = 1 + Len(s[i].body)
        BY <2>1, <2>2, <2>3, <3>1
      <4> QED  BY <2>2, <4>1
    <3>2. CASE i \notin 1..Len(s)
      <4>1. i - Len(s) \in 1..Len(t) /\ Len(s) + (i - Len(s)) = i
        BY <2>1, <3>2
      <4>2. PICK j \in 1..Len(t) : Len(s) + j = i
        BY <4>1
      <4>3. (s \o t)[i] = t[j] /\ (a \o b)[i] = b[j] /\ b[j] = 1 + Len(t[j].body)
        BY <2>1, <2>2, <2>3, <4>2
      <4> QED  BY <2>2, <4>3
    <3> QED  BY <3>1, <3>2
  <2> QED  BY <2>2, <2>3, <2>4, SeqEqual
<1>5. a \in Seq(Nat) /\ b \in Seq(Nat)
  BY <1>2
<1> HIDE DEF a, b, c
<1> QED  BY <1>4, <1>5, TotalOfConcat DEF a, b, c

LEMMA SizeOfOne ==
  ASSUME NEW e, NEW n \in Nat, Len(e.body) = n
  PROVE  Total(BytesOf(<<e>>)) = 1 + n
<1>1. Len(<<e>>) = 1 /\ <<e>>[1] = e
  OBVIOUS
<1>2. BytesOf(<<e>>) = [i \in 1..1 |-> 1 + n]
  BY <1>1 DEF BytesOf
<1>3. [i \in 1..1 |-> 1 + n] = <<1 + n>>
  OBVIOUS
<1>4. 1 + n \in Nat
  OBVIOUS
<1> QED  BY <1>2, <1>3, <1>4, TotalOfOne

(* ByteSizeLong announces as many bytes as _InternalSerialize writes.      *)
LEMMA SizeOfEntries ==
  ASSUME Book!BookAssumption, NEW y \in Book!Messages
  PROVE  Book!ByteSize(y) = Total(BytesOf(Book!Entries(y)))
<1> DEFINE S == Seq(Book!WireEntries)
           Size(s) == Total(BytesOf(s))
           s1 == Book!ScalarEntry(y, "isbn")
           s2 == Book!ScalarEntry(y, "title")
           s3 == Book!AuthorEntry(y)
           s4 == PageEntries(y)
           s5 == Book!OneofEntry(y.first_oneof)
           s6 == Book!ScalarEntry(y, "availability")
           s7 == Book!ScalarEntry(y, "recommended")
           s8 == Book!OneofEntry(y.second_oneof)
           Scalar(f) == IF y[f] = default THEN 0 ELSE 2
           pages == [i \in 1..Len(y.pages) |-> 1 + Book!InnerSize(y.pages[i])]
           author == IF y.author = nullptr THEN 0 ELSE 1 + Book!InnerSize(y.author)
           One(one) == IF one.alt = "NOT_SET" THEN 0
                       ELSE IF one.alt = "second_oneof_message"
                         THEN 1 + Book!InnerSize(one.value)
                       ELSE 2
<1>1. Book!Entries(y) = s1 \o s2 \o s3 \o s4 \o s5 \o s6 \o s7 \o s8
  BY Zenon DEF Book!Entries, PageEntries
<1>2. {"isbn", "title", "availability", "recommended"} \subseteq Book!Scalars
  BY DEF Book!Scalars
<1>3. /\ s1 \in S /\ s2 \in S /\ s3 \in S /\ s4 \in S
      /\ s5 \in S /\ s6 \in S /\ s7 \in S /\ s8 \in S
  BY <1>2, ScalarParsed, AuthorParsed, PagesParsed, FirstParsed, SecondParsed
<1>4. Size(<<>>) = 0 /\ \A e : e.body = <<>> => Size(<<e>>) = 1
  <2>1. BytesOf(<<>>) = <<>>
    BY DEF BytesOf
  <2>2. ASSUME NEW e, e.body = <<>> PROVE Size(<<e>>) = 1
    BY <2>2, SizeOfOne
  <2> QED  BY <2>1, <2>2, TotalOfOne
<1>5. \A e, v : e.body = <<v>> => Size(<<e>>) = 2
  <2>1. ASSUME NEW e, NEW v, e.body = <<v>> PROVE Size(<<e>>) = 2
    <3>1. Len(e.body) = 1 /\ 1 \in Nat /\ 1 + 1 = 2
      BY <2>1
    <3>2. Size(<<e>>) = 1 + 1
      BY <3>1, SizeOfOne, Zenon
    <3> QED  BY <3>1, <3>2
  <2> QED  BY <2>1
<1>6. \A v, tag : Size(<<[tag |-> tag, body |-> Book!InnerEntries(v)]>>) = 1 + Book!InnerSize(v)
  <2> SUFFICES ASSUME NEW v, NEW tag
               PROVE  Size(<<[tag |-> tag, body |-> Book!InnerEntries(v)]>>) =
                        1 + Book!InnerSize(v)
    OBVIOUS
  <2> HIDE DEF Size
  <2>1. CASE v = default
    BY <1>4, <2>1 DEF Book!InnerEntries, Book!InnerSize
  <2>2. CASE v # default
    BY <1>5, <2>2 DEF Book!InnerEntries, Book!InnerSize
  <2> QED  BY <2>1, <2>2
<1> HIDE DEF Size
<1>7. ASSUME NEW f PROVE Size(Book!ScalarEntry(y, f)) = Scalar(f)
  BY <1>4, <1>5 DEF Book!ScalarEntry
<1>8. Size(s3) = author
  BY <1>4, <1>6 DEF Book!AuthorEntry
<1>9. ASSUME NEW one PROVE Size(Book!OneofEntry(one)) = One(one)
  BY <1>4, <1>5, <1>6 DEF Book!OneofEntry
<1>10. Size(s4) = Total(pages)
  <2>1. y.pages \in Seq(Values) /\ Len(y.pages) \in Nat
    BY DEF Book!Messages
  <2>2. Len(s4) = Len(y.pages)
    BY <2>1 DEF PageEntries
  <2>3. ASSUME NEW i \in 1..Len(y.pages)
        PROVE  1 + Len(s4[i].body) = 1 + Book!InnerSize(y.pages[i])
    BY <2>3 DEF PageEntries, Book!InnerEntries, Book!InnerSize
  <2>4. BytesOf(s4) = pages
    <3> HIDE DEF s4
    <3> QED  BY <2>2, <2>3 DEF BytesOf
  <2> QED  BY <2>4 DEF Size
<1>11. Total(pages) \in Nat /\ author \in Nat
       /\ \A f : Scalar(f) \in Nat /\ \A one : One(one) \in Nat
  <2>1. Size(s4) \in Nat
    BY <1>3, SizeOfConcat DEF Size, S
  <2>2. \A v : Book!InnerSize(v) \in Nat
    BY DEF Book!InnerSize
  <2>3. author \in Nat
    BY <2>2
  <2>4. ASSUME NEW f PROVE Scalar(f) \in Nat
    OBVIOUS
  <2>5. ASSUME NEW one PROVE One(one) \in Nat
    BY <2>2
  <2> HIDE DEF Scalar, One, author, pages, s4
  <2> QED  BY <1>10, <2>1, <2>3, <2>4, <2>5
<1>12. Size(Book!Entries(y)) = Size(s1) + Size(s2) + Size(s3) + Size(s4) + Size(s5) + Size(s6)
                               + Size(s7) + Size(s8)
  <2> HIDE DEF s1, s2, s3, s4, s5, s6, s7, s8, S
  <2>1. \A a, b \in S : a \o b \in S
    BY DEF S
  <2>2. \A a, b \in S : Size(a \o b) = Size(a) + Size(b) /\ Size(a) \in Nat /\ Size(b) \in Nat
    BY SizeOfConcat DEF S, Size
  <2> DEFINE t2 == s1 \o s2
             t3 == t2 \o s3
             t4 == t3 \o s4
             t5 == t4 \o s5
             t6 == t5 \o s6
             t7 == t6 \o s7
             t8 == t7 \o s8
  <2>3. t2 \in S /\ Size(t2) = Size(s1) + Size(s2)
    BY <1>3, <2>1, <2>2
  <2> HIDE DEF t2
  <2>4. t3 \in S /\ Size(t3) = Size(s1) + Size(s2) + Size(s3)
    BY <1>3, <2>1, <2>2, <2>3
  <2> HIDE DEF t3
  <2>5. t4 \in S /\ Size(t4) = Size(t3) + Size(s4)
    BY <1>3, <2>1, <2>2, <2>4
  <2> HIDE DEF t4
  <2>6. t5 \in S /\ Size(t5) = Size(t4) + Size(s5)
    BY <1>3, <2>1, <2>2, <2>5
  <2> HIDE DEF t5
  <2>7. t6 \in S /\ Size(t6) = Size(t5) + Size(s6)
    BY <1>3, <2>1, <2>2, <2>6
  <2> HIDE DEF t6
  <2>8. t7 \in S /\ Size(t7) = Size(t6) + Size(s7)
    BY <1>3, <2>1, <2>2, <2>7
  <2> HIDE DEF t7
  <2>9. Size(t8) = Size(t7) + Size(s8)
    BY <1>3, <2>1, <2>2, <2>8
  <2>10. Size(Book!Entries(y)) = Size(t8)
    BY <1>1 DEF t2, t3, t4, t5, t6, t7
  <2> HIDE DEF t8
  <2> QED  BY <2>4, <2>5, <2>6, <2>7, <2>8, <2>9, <2>10
<1>13. Book!ByteSize(y) = Total(pages) + Scalar("title") + author + Scalar("isbn")
                          + Scalar("availability") + Scalar("recommended")
                          + One(y.first_oneof) + One(y.second_oneof)
  BY Zenon DEF Book!ByteSize, Book!Total, Total
<1>14. /\ Size(s1) = Scalar("isbn") /\ Size(s2) = Scalar("title")
       /\ Size(s6) = Scalar("availability") /\ Size(s7) = Scalar("recommended")
       /\ Size(s5) = One(y.first_oneof) /\ Size(s8) = One(y.second_oneof)
  BY <1>7, <1>9
<1> HIDE DEF s1, s2, s3, s4, s5, s6, s7, s8, Scalar, One, pages, author
<1>15. Book!ByteSize(y) = Size(Book!Entries(y))
  BY <1>8, <1>10, <1>11, <1>12, <1>13, <1>14
<1> QED  BY <1>15 DEF Size

-----------------------------------------------------------------------------
(* BookEntity: type correctness *)

LEMMA BookInitTyped ==
  ASSUME Book!BookAssumption, Book!Init
  PROVE  Book!TypeOK
<1>1. Book!Empty \in Book!Messages
  <2> DEFINE y == Book!Empty
  <2> QED  BY EmptySeq DEF Book!Empty, Book!Messages, Book!Oneof, Book!BookAssumption
<1>2. wire \in Seq(Book!WireEntries)
  BY EmptySeq DEF Book!Init
<1> HIDE DEF Book!Empty
<1> QED  BY <1>1, <1>2 DEF Book!TypeOK, Book!Init, Book!BookAssumption

LEMMA BecomesTyped ==
  ASSUME Book!BookAssumption, Book!TypeOK, NEW b \in Books, NEW m \in Book!Messages,
         NEW kind \in {"read", "write", "parse", "unset"}, Book!Becomes(b, m, kind),
         wire' \in Seq(Book!WireEntries)
  PROVE  Book!TypeOK'
<1>1. ops' \in 0..MaxOps /\ op' = kind /\ book' = [book EXCEPT ![b] = m]
  BY DEF Book!Becomes, Book!TypeOK, Book!BookAssumption
<1> QED  BY <1>1 DEF Book!TypeOK

(* What a message can become.                                              *)
LEMMA MessageOperations ==
  ASSUME Book!BookAssumption, NEW m \in Book!Messages
  PROVE  /\ \A f \in Book!Scalars, v \in Values : Book!SetScalar(m, f, v) \in Book!Messages
         /\ \A v \in Values \cup {nullptr} : [m EXCEPT !.author = v] \in Book!Messages
         /\ \A v \in Values : Book!AddPage(m, v) \in Book!Messages
         /\ \A alt \in Book!FirstAlternatives, v \in Values :
              Book!SetFirst(m, alt, v) \in Book!Messages
         /\ \A alt \in Book!SecondAlternatives, v \in Values :
              Book!SetSecond(m, alt, v) \in Book!Messages
<1> USE DEF Book!Messages
<1>1. ASSUME NEW f \in Book!Scalars, NEW v \in Values
      PROVE  Book!SetScalar(m, f, v) \in Book!Messages
  <2>1. CASE f = "isbn"
    BY <2>1 DEF Book!SetScalar
  <2>2. CASE f = "title"
    BY <2>2 DEF Book!SetScalar
  <2>3. CASE f = "availability"
    BY <2>3 DEF Book!SetScalar
  <2>4. CASE f = "recommended"
    BY <2>4 DEF Book!SetScalar
  <2> QED  BY <2>1, <2>2, <2>3, <2>4, Zenon DEF Book!Scalars
<1>2. \A v \in Values \cup {nullptr} : [m EXCEPT !.author = v] \in Book!Messages
  OBVIOUS
<1>3. ASSUME NEW v \in Values PROVE Book!AddPage(m, v) \in Book!Messages
  <2>1. Append(m.pages, v) \in Seq(Values)
    OBVIOUS
  <2> DEFINE p == Append(m.pages, v)
  <2> HIDE DEF p
  <2>2. [m EXCEPT !.pages = p] \in Book!Messages
    BY <2>1 DEF p
  <2> QED  BY <2>2 DEF p, Book!AddPage
<1>4. \A alt \in Book!FirstAlternatives, v \in Values :
        Book!SetFirst(m, alt, v) \in Book!Messages
  BY DEF Book!SetFirst, Book!Oneof
<1>5. \A alt \in Book!SecondAlternatives, v \in Values :
        Book!SetSecond(m, alt, v) \in Book!Messages
  BY DEF Book!SetSecond, Book!Oneof
<1> QED  BY <1>1, <1>2, <1>3, <1>4, <1>5

(* What deserialize() leaves, also of bytes that end too early.            *)
LEMMA DeserializeTyped ==
  ASSUME Book!BookAssumption, Book!TypeOK, NEW b \in Books, Book!Deserialize(b)
  PROVE  Book!TypeOK'
<1>1. /\ wire \in Seq(Book!WireEntries) /\ wire' \in Seq(Book!WireEntries)
      /\ Len(wire) \in Nat /\ \A n \in 1..Len(wire) : wire[n] \in Book!WireEntries
  BY DEF Book!TypeOK, Book!Deserialize
<1>2. Book!Empty \in Book!Messages
  BY EmptySeq DEF Book!Empty, Book!Messages, Book!Oneof, Book!BookAssumption
<1> HIDE DEF Book!Empty
<1>3. ASSUME NEW m \in Book!Messages, Book!Becomes(b, m, "parse") PROVE Book!TypeOK'
  BY <1>1, <1>3, BecomesTyped
<1>4. CASE Book!Becomes(b, Book!Parse(Book!Empty, wire), "parse")
  BY <1>1, <1>2, <1>3, <1>4, ParseKeepsType
<1>5. ASSUME NEW n \in 1..Len(wire), NEW v \in Values,
             LET m == Book!Parse(Book!Empty, SubSeq(wire, 1, n - 1))
             IN  \/ Book!Becomes(b, m, "parse")
                 \/ Book!Becomes(b, Book!ParseEntry(m, [wire[n] EXCEPT !.body = <<v>>]), "parse")
      PROVE  Book!TypeOK'
  <2> DEFINE s == SubSeq(wire, 1, n - 1)
             m == Book!Parse(Book!Empty, s)
             e == [wire[n] EXCEPT !.body = <<v>>]
  <2>1. s \in Seq(Book!WireEntries)
    <3>1. n - 1 \in 0..Len(wire)
      BY <1>1
    <3>2. \A i \in 1..(n - 1) : wire[i] \in Book!WireEntries
      BY <1>1
    <3> QED  BY <1>1, <3>1, <3>2, SubSeqProperties
  <2>2. m \in Book!Messages
    <3> HIDE DEF s
    <3> QED  BY <1>2, <2>1, ParseKeepsType
  <2>3. e \in Book!WireEntries
    BY <1>1 DEF Book!WireEntries
  <2> HIDE DEF s, m, e
  <2>4. Book!ParseEntry(m, e) \in Book!Messages
    BY <2>2, <2>3, EntryKeepsType
  <2> QED  BY <1>3, <1>5, <2>2, <2>4 DEF m, e, s
<1> QED  BY <1>4, <1>5 DEF Book!Deserialize

LEMMA BookNextTyped ==
  ASSUME Book!BookAssumption, Book!TypeOK, [Book!Next]_Book!bookVars
  PROVE  Book!TypeOK'
<1>1. CASE UNCHANGED Book!bookVars
  BY <1>1 DEF Book!bookVars, Book!TypeOK
<1>2. ASSUME NEW b \in Books,
             \/ Book!BuildScalar(b) \/ Book!BuildAuthor(b) \/ Book!BuildPage(b)
             \/ Book!BuildFirst(b) \/ Book!BuildSecond(b)
             \/ \E c \in Books : Book!MoveInitializeFrom(b, c) \/ Book!CopyFrom(b, c)
             \/ Book!Deserialize(b)
             \/ Book!ReadAuthor(b) \/ Book!ReadMessage(b) \/ Book!AsDynamic(b)
             \/ Book!Serialize(b)
      PROVE  Book!TypeOK'
  <2> DEFINE y == book[b]
             a == Book!MutableAuthor(y)
             s == Book!MutableMessage(y)
  <2>1. y \in Book!Messages /\ wire \in Seq(Book!WireEntries)
    BY DEF Book!TypeOK
  <2> HIDE DEF y
  <2>2. a \in Book!Messages /\ s \in Book!Messages
    BY <2>1, MutableFields
  <2>3. a.author \in Values \cup {nullptr} /\ s.second_oneof.value \in Values
    BY <2>1, <2>2, MutableFields DEF Book!Messages
  <2>4. ASSUME NEW m \in Book!Messages, NEW kind \in {"read", "write", "parse", "unset"},
               Book!Becomes(b, m, kind), UNCHANGED wire
        PROVE  Book!TypeOK'
    BY <2>1, <2>4, BecomesTyped
  <2>5. CASE Book!BuildScalar(b)
    BY <2>1, <2>4, <2>5, MessageOperations DEF Book!BuildScalar, y
  <2>6. CASE Book!BuildAuthor(b)
    <3>1. PICK v \in Values \cup {a.author} :
            Book!Becomes(b, [a EXCEPT !.author = v], "write") /\ UNCHANGED wire
      BY <2>6 DEF Book!BuildAuthor, y
    <3> HIDE DEF a
    <3>2. [a EXCEPT !.author = v] \in Book!Messages
      BY <2>2, <2>3, MessageOperations
    <3> QED  BY <2>4, <3>1, <3>2
  <2>7. CASE Book!BuildPage(b)
    BY <2>1, <2>4, <2>7, MessageOperations DEF Book!BuildPage, y
  <2>8. CASE Book!BuildFirst(b)
    BY <2>1, <2>4, <2>8, MessageOperations DEF Book!BuildFirst, y
  <2>9. CASE Book!BuildSecond(b)
    <3>1. CASE \E alt \in Book!SecondAlternatives \ {"second_oneof_message"}, v \in Values :
                 Book!Becomes(b, Book!SetSecond(y, alt, v), "write") /\ UNCHANGED wire
      BY <2>1, <2>4, <3>1, MessageOperations
    <3>2. CASE \E v \in Values \cup {s.second_oneof.value} :
                 /\ Book!Becomes(b, Book!SetSecond(s, "second_oneof_message", v), "write")
                 /\ UNCHANGED wire
      <4> HIDE DEF s
      <4>1. "second_oneof_message" \in Book!SecondAlternatives
        BY DEF Book!SecondAlternatives
      <4> QED  BY <2>2, <2>3, <2>4, <3>2, <4>1, MessageOperations
    <3> QED  BY <2>9, <3>1, <3>2 DEF Book!BuildSecond, y
  <2>10. ASSUME NEW c \in Books, Book!MoveInitializeFrom(b, c)
         PROVE  Book!TypeOK'
    <3>1. ops' \in 0..MaxOps /\ op' = "write" /\ wire' = wire
      BY <2>10 DEF Book!MoveInitializeFrom, Book!TypeOK, Book!BookAssumption
    <3>2. book' \in [Books -> Book!Messages]
      BY <2>10 DEF Book!MoveInitializeFrom, Book!TypeOK
    <3> QED  BY <2>1, <3>1, <3>2 DEF Book!TypeOK
  <2>11. ASSUME NEW c \in Books, Book!CopyFrom(b, c)
         PROVE  Book!TypeOK'
    <3>1. book[c] \in Book!Messages
      BY DEF Book!TypeOK
    <3>2. Book!MergeFrom(Book!Empty, book[c]) \in Book!Messages
      BY <3>1, MergedIntoEmpty
    <3> QED  BY <2>4, <2>11, <3>2 DEF Book!CopyFrom
  <2>12. CASE Book!Deserialize(b)
    BY <2>12, DeserializeTyped
  <2>13. CASE Book!ReadAuthor(b)
    BY <2>2, <2>4, <2>13 DEF Book!ReadAuthor, y
  <2>14. CASE Book!ReadMessage(b)
    <3> DEFINE kind == IF book[b].second_oneof.alt = "second_oneof_message"
                       THEN "read" ELSE "unset"
    <3>1. Book!Becomes(b, s, kind) /\ UNCHANGED wire
      BY <2>14 DEF Book!ReadMessage, y
    <3>2. kind \in {"read", "write", "parse", "unset"}
      OBVIOUS
    <3> HIDE DEF kind, s
    <3> QED  BY <2>2, <2>4, <3>1, <3>2
  <2>15. CASE Book!AsDynamic(b)
    <3> DEFINE m == IF a.second_oneof.alt = "second_oneof_message"
                    THEN Book!MutableMessage(a) ELSE a
    <3>1. m \in Book!Messages
      <4> HIDE DEF a
      <4> QED  BY <2>2, MutableFields
    <3>2. Book!Becomes(b, m, "read") /\ UNCHANGED wire
      BY <2>15 DEF Book!AsDynamic, y
    <3> HIDE DEF m
    <3> QED  BY <2>4, <3>1, <3>2
  <2>16. CASE Book!Serialize(b)
    <3>1. Book!Entries(y) \in Seq(Book!WireEntries)
      BY <2>1, EntriesMerged
    <3>2. Book!Becomes(b, y, "read") /\ wire' \in Seq(Book!WireEntries)
      BY <2>16, <3>1 DEF Book!Serialize, y
    <3> QED  BY <2>1, <3>2, BecomesTyped
  <2> QED
    BY <1>2, <2>5, <2>6, <2>7, <2>8, <2>9, <2>10, <2>11, <2>12, <2>13, <2>14, <2>15, <2>16
<1> QED  BY <1>1, <1>2 DEF Book!Next

(* Every message has fields of their types, also one that was parsed from  *)
(* bytes that end too early, and the bytes are entries that the parser     *)
(* knows.                                                                  *)
THEOREM BookTypeCorrect ==
  ASSUME Book!BookAssumption
  PROVE  Book!Spec => []Book!TypeOK
<1>1. Book!Init => Book!TypeOK
  BY BookInitTyped
<1>2. Book!TypeOK /\ [Book!Next]_Book!bookVars => Book!TypeOK'
  BY BookNextTyped
<1> QED  BY <1>1, <1>2, PTL DEF Book!Spec

-----------------------------------------------------------------------------
(* BookEntity: what is promised *)

(* Bytes restore the book they were made of, bytes after bytes are merged, *)
(* and ByteSizeLong announces as many as serialize() writes.               *)
LEMMA BookBytesFaithful ==
  ASSUME Book!BookAssumption
  PROVE  Book!Spec => []Book!WireFaithful
<1>1. Book!TypeOK => Book!WireFaithful
  <2> SUFFICES ASSUME Book!TypeOK, NEW b \in Books, NEW c \in Books
               PROVE  /\ Book!Parse(Book!Empty, Book!Entries(book[b])) = book[b]
                      /\ Book!Parse(Book!Empty, Book!Entries(book[b]) \o Book!Entries(book[c])) =
                           Book!MergeFrom(book[b], book[c])
                      /\ Book!ByteSize(book[b]) =
                           Book!Total([i \in 1..Len(Book!Entries(book[b])) |->
                                         1 + Len(Book!Entries(book[b])[i].body)])
    BY Zenon DEF Book!WireFaithful
  <2> DEFINE x == book[b]
             y == book[c]
             s == Book!Entries(x)
             t == Book!Entries(y)
  <2>1. x \in Book!Messages /\ y \in Book!Messages
    BY DEF Book!TypeOK
  <2> HIDE DEF x, y
  <2>2. Book!Empty \in Book!Messages /\ Book!MergeFrom(Book!Empty, x) = x
    BY <2>1, MergedIntoEmpty
  <2>3. /\ s \in Seq(Book!WireEntries) /\ t \in Seq(Book!WireEntries)
        /\ Book!Parse(Book!Empty, s) = x /\ Book!Parse(x, t) = Book!MergeFrom(x, y)
    BY <2>1, <2>2, EntriesMerged
  <2>4. Book!ByteSize(x) = Book!Total([i \in 1..Len(s) |-> 1 + Len(s[i].body)])
    BY <2>1, SizeOfEntries, Zenon DEF BytesOf, Book!Total, Total
  <2> HIDE DEF s, t
  <2>5. Book!Parse(Book!Empty, s \o t) = Book!MergeFrom(x, y)
    BY <2>3, ParseOfConcat
  <2> QED  BY <2>3, <2>4, <2>5, Zenon DEF s, t, x, y
<1> QED  BY <1>1, BookTypeCorrect, PTL

(* A read goes through mutable_ accessors and changes nothing that a       *)
(* reader sees.                                                            *)
LEMMA BookReadingKeepsContents ==
  ASSUME Book!BookAssumption
  PROVE  Book!Spec => Book!ReadsKeepContents
<1> DEFINE Kept == op' = "read" =>
                     \A b \in Books : Book!Contents(book'[b]) = Book!Contents(book[b])
<1>1. ASSUME Book!TypeOK, [Book!Next]_Book!bookVars
      PROVE  [Kept]_Book!bookVars
  <2> SUFFICES ASSUME Book!Next, op' = "read", NEW d \in Books
               PROVE  Book!Contents(book'[d]) = Book!Contents(book[d])
    BY <1>1, Zenon
  <2>1. ASSUME NEW b \in Books, NEW m, Book!Becomes(b, m, "read"),
               Book!Contents(m) = Book!Contents(book[b])
        PROVE  Book!Contents(book'[d]) = Book!Contents(book[d])
    BY <1>1, <2>1 DEF Book!Becomes, Book!TypeOK
  <2>2. PICK b \in Books :
             \/ Book!ReadAuthor(b)
             \/ Book!ReadMessage(b) /\ book[b].second_oneof.alt = "second_oneof_message"
             \/ Book!AsDynamic(b) \/ Book!Serialize(b)
    BY DEF Book!Next, Book!BuildScalar, Book!BuildAuthor, Book!BuildPage, Book!BuildFirst,
           Book!BuildSecond, Book!MoveInitializeFrom, Book!CopyFrom, Book!Deserialize,
           Book!ReadMessage, Book!Becomes
  <2> DEFINE y == book[b]
             a == Book!MutableAuthor(y)
  <2>3. y \in Book!Messages
    BY <1>1 DEF Book!TypeOK
  <2> HIDE DEF y
  <2>4. a \in Book!Messages /\ Book!Contents(a) = Book!Contents(y)
    <3>1. a \in Book!Messages /\ a = [y EXCEPT !.author = IF @ = nullptr THEN default ELSE @]
      BY <2>3, MutableFields
    <3> HIDE DEF a
    <3> QED  BY <2>3, <3>1 DEF Book!Contents, Book!Messages
  <2>5. CASE Book!ReadAuthor(b)
    BY <2>1, <2>4, <2>5 DEF Book!ReadAuthor, y
  <2>6. CASE Book!ReadMessage(b) /\ y.second_oneof.alt = "second_oneof_message"
    BY <2>1, <2>6 DEF Book!ReadMessage, Book!MutableMessage, y
  <2>7. CASE Book!AsDynamic(b)
    <3> DEFINE m == IF a.second_oneof.alt = "second_oneof_message"
                    THEN Book!MutableMessage(a) ELSE a
    <3>1. m = a
      BY DEF Book!MutableMessage
    <3>2. Book!Becomes(b, m, "read")
      BY <2>7 DEF Book!AsDynamic, y
    <3> HIDE DEF m, a
    <3> QED  BY <2>1, <2>4, <3>1, <3>2 DEF y
  <2>8. CASE Book!Serialize(b)
    BY <2>1, <2>8 DEF Book!Serialize
  <2> QED  BY <2>2, <2>5, <2>6, <2>7, <2>8 DEF y
<1> QED  BY <1>1, BookTypeCorrect, PTL DEF Book!Spec, Book!ReadsKeepContents

-----------------------------------------------------------------------------
(* LayeredBuilder: the paths of builders *)

ToAuthor   == << <<"author">> >>
ToPages    == << <<"pages">> >>
ToPage(k)  == << <<"pages">>, <<"page", k>> >>
ToLines(k) == << <<"pages">>, <<"page", k>>, <<"lines">> >>

Paths == {<<>>, ToAuthor, ToPages} \cup {ToPage(k) : k \in Nat} \cup {ToLines(k) : k \in Nat}

LEMMA FrontOfAppend ==
  ASSUME NEW S, NEW s \in Seq(S), NEW e \in S
  PROVE  Layered!Front(Append(s, e)) = s
<1>1. Len(Append(s, e)) - 1 = Len(s) /\ SubSeq(Append(s, e), 1, Len(s)) = s
  OBVIOUS
<1> QED  BY <1>1 DEF Layered!Front

LEMMA AppendedTuples ==
  \A x, y, z : Append(<<x>>, y) = <<x, y>> /\ Append(<<x, y>>, z) = <<x, y, z>>
<1>1. ASSUME NEW x, NEW y PROVE Append(<<x>>, y) = <<x, y>>
  <2> DEFINE S == {x, y}
             s == Append(<<x>>, y)
             t == <<x, y>>
  <2>1. <<x>> \in Seq(S) /\ y \in S /\ t \in Seq(S)
    OBVIOUS
  <2>2. s \in Seq(S) /\ Len(s) = 2 /\ s[1] = x /\ s[2] = y
    BY <2>1, AppendProperties
  <2>3. Len(t) = 2 /\ t[1] = x /\ t[2] = y
    OBVIOUS
  <2> HIDE DEF s, t, S
  <2>4. \A i \in 1..Len(s) : s[i] = t[i]
    BY <2>2, <2>3
  <2> QED  BY <2>1, <2>2, <2>3, <2>4, SeqEqual DEF s, t
<1>2. ASSUME NEW x, NEW y, NEW z PROVE Append(<<x, y>>, z) = <<x, y, z>>
  <2> DEFINE S == {x, y, z}
             s == Append(<<x, y>>, z)
             t == <<x, y, z>>
  <2>1. <<x, y>> \in Seq(S) /\ z \in S /\ t \in Seq(S)
    OBVIOUS
  <2>2. s \in Seq(S) /\ Len(s) = 3 /\ s[1] = x /\ s[2] = y /\ s[3] = z
    BY <2>1, AppendProperties
  <2>3. Len(t) = 3 /\ t[1] = x /\ t[2] = y /\ t[3] = z
    OBVIOUS
  <2> HIDE DEF s, t, S
  <2>4. \A i \in 1..Len(s) : s[i] = t[i]
    BY <2>2, <2>3
  <2> QED  BY <2>1, <2>2, <2>3, <2>4, SeqEqual DEF s, t
<1> QED  BY <1>1, <1>2

LEMMA PathSteps ==
  /\ Append(<<>>, <<"author">>) = ToAuthor
  /\ Append(<<>>, <<"pages">>) = ToPages
  /\ \A k \in Nat : /\ Append(ToPages, <<"page", k>>) = ToPage(k)
                    /\ Append(ToPage(k), <<"lines">>) = ToLines(k)
                    /\ Layered!Front(ToLines(k)) = ToPage(k)
                    /\ Layered!Front(ToPage(k)) = ToPages
  /\ Layered!Front(ToAuthor) = <<>> /\ Layered!Front(ToPages) = <<>>
<1>1. /\ Append(<<>>, <<"author">>) = ToAuthor
      /\ Append(<<>>, <<"pages">>) = ToPages
  BY DEF ToAuthor, ToPages
<1>2. ASSUME NEW k \in Nat
      PROVE  /\ Append(ToPages, <<"page", k>>) = ToPage(k)
             /\ Append(ToPage(k), <<"lines">>) = ToLines(k)
  BY AppendedTuples, Zenon DEF ToPages, ToPage, ToLines
<1>3. ASSUME NEW k \in Nat
      PROVE  Layered!Front(ToLines(k)) = ToPage(k) /\ Layered!Front(ToPage(k)) = ToPages
  <2> DEFINE S == {<<"pages">>, <<"page", k>>, <<"lines">>}
  <2>1. ToPages \in Seq(S) /\ ToPage(k) \in Seq(S)
    BY DEF ToPages, ToPage
  <2>2. <<"page", k>> \in S /\ <<"lines">> \in S
    OBVIOUS
  <2> HIDE DEF S
  <2>3. ASSUME NEW s \in Seq(S), NEW e \in S PROVE Layered!Front(Append(s, e)) = s
    BY FrontOfAppend
  <2>4. /\ Layered!Front(Append(ToPage(k), <<"lines">>)) = ToPage(k)
        /\ Layered!Front(Append(ToPages, <<"page", k>>)) = ToPages
    BY <2>1, <2>2, <2>3, Zenon
  <2>5. Append(ToPages, <<"page", k>>) = ToPage(k) /\ Append(ToPage(k), <<"lines">>) = ToLines(k)
    BY <1>2
  <2> QED  BY <2>4, <2>5, Zenon
<1>4. Layered!Front(ToAuthor) = <<>> /\ Layered!Front(ToPages) = <<>>
  <2>1. ASSUME NEW step PROVE Layered!Front(Append(<<>>, step)) = <<>>
    <3>1. <<>> \in Seq({step}) /\ step \in {step}
      OBVIOUS
    <3> QED  BY <3>1, FrontOfAppend
  <2> QED  BY <1>1, <2>1
<1> QED  BY <1>1, <1>2, <1>3, <1>4

(* A builder's path tells its kind, and where it came from.                *)
LEMMA PathKinds ==
  ASSUME NEW b
  PROVE  /\ b.path = <<>> => Layered!Kind(b) = "book"
         /\ b.path = ToAuthor => Layered!Kind(b) = "author" /\ Layered!ParentPath(b) = <<>>
         /\ b.path = ToPages => Layered!Kind(b) = "pages" /\ Layered!ParentPath(b) = <<>>
         /\ \A k \in Nat :
              /\ b.path = ToPage(k) =>
                   Layered!Kind(b) = "page" /\ Layered!ParentPath(b) = ToPages
              /\ b.path = ToLines(k) =>
                   Layered!Kind(b) = "lines" /\ Layered!ParentPath(b) = ToPages
<1>1. b.path = <<>> => Layered!Kind(b) = "book"
  BY DEF Layered!Kind
<1>2. b.path = ToAuthor => Layered!Kind(b) = "author"
  BY DEF Layered!Kind, Layered!Last, ToAuthor
<1>3. b.path = ToPages => Layered!Kind(b) = "pages"
  BY DEF Layered!Kind, Layered!Last, ToPages
<1>4. ASSUME NEW k \in Nat
      PROVE  /\ b.path = ToPage(k) => Layered!Kind(b) = "page"
             /\ b.path = ToLines(k) => Layered!Kind(b) = "lines"
  <2>1. \A x, y, z : Layered!Last(<<x, y>>) = y /\ Layered!Last(<<x, y, z>>) = z
    BY DEF Layered!Last
  <2>2. \A x, y, z : <<x, y>> # <<>> /\ <<x, y, z>> # <<>>
    OBVIOUS
  <2>3. <<"page", k>>[1] = "page" /\ <<"lines">>[1] = "lines"
    OBVIOUS
  <2>4. Layered!Last(ToPage(k)) = <<"page", k>> /\ Layered!Last(ToLines(k)) = <<"lines">>
    BY <2>1, Zenon DEF ToPage, ToLines
  <2>5. ToPage(k) # <<>>
    BY <2>2, Zenon DEF ToPage
  <2>6. ToLines(k) # <<>>
    BY <2>2, Zenon DEF ToLines
  <2> QED  BY <2>3, <2>4, <2>5, <2>6, Zenon DEF Layered!Kind
<1> QED  BY <1>1, <1>2, <1>3, <1>4, PathSteps DEF Layered!ParentPath

(* The message where a path leads.                                         *)
LEMMA PathLeads ==
  ASSUME NEW b
  PROVE  /\ b.path = <<>> \/ b.path = ToPages => Layered!Locate(b) = b.root
         /\ b.path = ToAuthor => Layered!Locate(b) = heap[b.root].author
         /\ \A k \in Nat : b.path = ToPage(k) \/ b.path = ToLines(k) =>
              Layered!Locate(b) = heap[b.root].pages[k]
<1> DEFINE p == b.path
           Along(F, len) == F = [n \in 0..len |-> IF n = 0 THEN b.root
                                                  ELSE Layered!Follow(F[n - 1], p[n])]
           x0 == b.root
           x1 == Layered!Follow(x0, p[1])
           x2 == Layered!Follow(x1, p[2])
           x3 == Layered!Follow(x2, p[3])
           At(n) == IF n = 0 THEN x0 ELSE IF n = 1 THEN x1 ELSE IF n = 2 THEN x2 ELSE x3
<1>1. ASSUME NEW len \in 0..3, Len(p) = len
      PROVE  Layered!Locate(b) = At(len)
  <2> DEFINE G == [n \in 0..len |-> At(n)]
  <2>1. At(0) = b.root
    OBVIOUS
  <2>2. \A n \in 1..3 : n - 1 \in 0..3 /\ At(n) = Layered!Follow(At(n - 1), p[n])
    <3>1. /\ At(1) = Layered!Follow(At(0), p[1]) /\ At(2) = Layered!Follow(At(1), p[2])
          /\ At(3) = Layered!Follow(At(2), p[3])
      OBVIOUS
    <3> HIDE DEF At
    <3> QED  BY <3>1
  <2> HIDE DEF p, At
  <2>3. \A n \in 0..len : n = 0 \/ (n \in 1..3 /\ n - 1 \in 0..len)
    OBVIOUS
  <2>4. Along(G, len)
    <3>1. ASSUME NEW n \in 0..len
          PROVE  G[n] = IF n = 0 THEN b.root ELSE Layered!Follow(G[n - 1], p[n])
      BY <2>1, <2>2, <2>3
    <3> QED  BY <3>1, Zenon
  <2>5. PICK F : Along(F, len) /\ Layered!Locate(b) = F[len]
    <3> HIDE DEF G
    <3> QED  BY <1>1, <2>4, Zenon DEF Layered!Locate, p
  <2> DEFINE D == {n \in Nat : n <= len => F[n] = At(n)}
  <2>6. 0 \in D
    BY <2>1, <2>5
  <2>7. ASSUME NEW n \in Nat, n \in D PROVE n + 1 \in D
    <3> SUFFICES ASSUME n + 1 <= len PROVE F[n + 1] = At(n + 1)
      OBVIOUS
    <3>1. n + 1 \in 0..len /\ n + 1 \in 1..3 /\ n <= len /\ (n + 1) - 1 = n
      OBVIOUS
    <3>2. F[n + 1] = Layered!Follow(F[n], p[n + 1])
      <4> DEFINE H(m) == IF m = 0 THEN b.root ELSE Layered!Follow(F[m - 1], p[m])
      <4>1. F = [m \in 0..len |-> H(m)]
        BY <2>5
      <4>2. H(n + 1) = Layered!Follow(F[n], p[n + 1])
        BY <3>1
      <4> HIDE DEF H
      <4>3. F[n + 1] = H(n + 1)
        BY <3>1, <4>1
      <4> QED  BY <4>2, <4>3, Zenon
    <3>3. F[n] = At(n)
      <4>1. n <= len => F[n] = At(n)
        BY <2>7, Zenon
      <4> QED  BY <3>1, <4>1, Zenon
    <3>4. At(n + 1) = Layered!Follow(At(n), p[n + 1])
      BY <2>2, <3>1
    <3> QED  BY <3>2, <3>3, <3>4
  <2> HIDE DEF D
  <2>8. Nat \subseteq D
    BY <2>6, <2>7, SetInduction
  <2> QED  BY <2>5, <2>8 DEF D
<1>2. /\ \A a : Layered!Follow(a, <<"author">>) = heap[a].author
      /\ \A a : Layered!Follow(a, <<"pages">>) = a /\ Layered!Follow(a, <<"lines">>) = a
      /\ \A a, k : Layered!Follow(a, <<"page", k>>) = heap[a].pages[k]
  <2>1. ASSUME NEW a, NEW step
        PROVE  /\ step[1] = "author" => Layered!Follow(a, step) = heap[a].author
               /\ step[1] = "page" => Layered!Follow(a, step) = heap[a].pages[step[2]]
               /\ step[1] \in {"pages", "lines"} => Layered!Follow(a, step) = a
    BY DEF Layered!Follow
  <2>2. /\ <<"author">>[1] = "author" /\ <<"pages">>[1] = "pages" /\ <<"lines">>[1] = "lines"
        /\ \A k : <<"page", k>>[1] = "page" /\ <<"page", k>>[2] = k
    OBVIOUS
  <2>3. ASSUME NEW a, NEW k PROVE Layered!Follow(a, <<"page", k>>) = heap[a].pages[k]
    BY <2>1, <2>2
  <2> QED  BY <2>1, <2>2, <2>3
<1>3. CASE p = <<>>
  BY <1>1, <1>3 DEF ToPages, ToAuthor, ToPage, ToLines
<1>4. CASE p = ToPages
  BY <1>1, <1>2, <1>4 DEF ToPages, ToAuthor, ToPage, ToLines
<1>5. CASE p = ToAuthor
  BY <1>1, <1>2, <1>5 DEF ToPages, ToAuthor, ToPage, ToLines
<1>6. ASSUME NEW k \in Nat, p = ToPage(k)
      PROVE  Layered!Locate(b) = heap[b.root].pages[k]
  BY <1>1, <1>2, <1>6 DEF ToPage
<1>7. ASSUME NEW k \in Nat, p = ToLines(k)
      PROVE  Layered!Locate(b) = heap[b.root].pages[k]
  BY <1>1, <1>2, <1>7 DEF ToLines
<1> QED  BY <1>3, <1>4, <1>5, <1>6, <1>7

-----------------------------------------------------------------------------
(* LayeredBuilder: the inductive invariant *)

Nodes == [author : Nat \cup {nullptr}, pages : Seq(Nat)]

Builders ==
  [ptr : Nat, parent : Nat \cup {nullptr}, root : Layered!Roots, path : Paths, loose : BOOLEAN]

(* In the messages h, b points to where its path leads: to a page that     *)
(* exists, and to an author who does.                                      *)
Reaches(h, b) ==
  /\ b \in Builders
  /\ b.path = <<>> \/ b.path = ToPages => b.ptr = b.root
  /\ b.path = ToAuthor => b.ptr = h[b.root].author
  /\ \A k \in Nat : b.path = ToPage(k) \/ b.path = ToLines(k) =>
       k \in 1..Len(h[b.root].pages) /\ b.ptr = h[b.root].pages[k]

(* The builder b came from is among those of o, unless it is loose.        *)
Chained(o, b) ==
  b.path # <<>> /\ ~b.loose =>
    b.parent \in DOMAIN o /\ o[b.parent].path = Layered!ParentPath(b)

HeapOK == \E n \in Nat : n >= 4 /\ heap \in [1..n -> Nodes]

LivingOK ==
  /\ IsFiniteSet(DOMAIN obj) /\ DOMAIN obj \subseteq Nat \ {0} /\ 1 \in DOMAIN obj
  /\ temps \subseteq DOMAIN obj \ {1}
  /\ cur = 0 \/ cur \in DOMAIN obj

AllReach   == \A id \in DOMAIN obj : Reaches(heap, obj[id])
AllChained == \A id \in DOMAIN obj : Chained(obj, obj[id])

(* A variable is chained to variables, which do not die.                   *)
SavedChained ==
  \A id \in DOMAIN obj \ temps :
    obj[id].path # <<>> /\ ~obj[id].loose => obj[id].parent \in DOMAIN obj \ temps

LayeredIInv == HeapOK /\ LivingOK /\ AllReach /\ AllChained /\ SavedChained

LEMMA ReachesKept ==
  ASSUME NEW g, NEW h,
         \A q \in Layered!Roots :
           /\ h[q].author \in Nat => g[q].author = h[q].author
           /\ \A k \in 1..Len(h[q].pages) :
                k \in 1..Len(g[q].pages) /\ g[q].pages[k] = h[q].pages[k],
         NEW b, Reaches(h, b)
  PROVE  Reaches(g, b)
<1>1. b \in Builders /\ b.root \in Layered!Roots /\ b.ptr \in Nat
  BY DEF Reaches, Builders
<1>2. b.path = ToAuthor => b.ptr = g[b.root].author
  BY <1>1 DEF Reaches
<1>3. ASSUME NEW k \in Nat, b.path = ToPage(k) \/ b.path = ToLines(k)
      PROVE  k \in 1..Len(g[b.root].pages) /\ b.ptr = g[b.root].pages[k]
  <2>1. k \in 1..Len(h[b.root].pages) /\ b.ptr = h[b.root].pages[k]
    BY <1>3 DEF Reaches
  <2> QED  BY <1>1, <2>1
<1>4. b.path = <<>> \/ b.path = ToPages => b.ptr = b.root
  BY DEF Reaches
<1> QED  BY <1>1, <1>2, <1>3, <1>4, Zenon DEF Reaches

(* There are finitely many builders, so one more has an identity.          *)
LEMMA NewIdIsNew ==
  ASSUME LivingOK
  PROVE  Layered!NewId \in Nat \ {0} /\ Layered!NewId \notin DOMAIN obj
<1> DEFINE c == Cardinality(DOMAIN obj)
<1>1. c \in Nat
  BY FS_CardinalityType DEF LivingOK
<1>2. Layered!Cardinality(DOMAIN obj) = c
  BY DEF Layered!Cardinality, Cardinality, Layered!IsFiniteSet, IsFiniteSet
<1>3. \E id \in 1..(c + 1) : id \notin DOMAIN obj
  <2> HIDE DEF c
  <2> SUFFICES ASSUME 1..(c + 1) \subseteq DOMAIN obj PROVE FALSE
    OBVIOUS
  <2>1. Cardinality(1..(c + 1)) <= c
    BY FS_Subset DEF LivingOK, c
  <2>2. Cardinality(1..(c + 1)) = c + 1
    BY <1>1, FS_Interval
  <2> QED  BY <1>1, <2>1, <2>2
<1> HIDE DEF c
<1>4. Layered!NewId = CHOOSE id \in 1..(c + 1) : id \notin DOMAIN obj
  BY <1>2, Zenon DEF Layered!NewId
<1>5. Layered!NewId \in 1..(c + 1) /\ Layered!NewId \notin DOMAIN obj
  BY <1>3, <1>4, Zenon
<1> QED  BY <1>1, <1>5

LEMMA NewAddressIsNew ==
  ASSUME NEW n \in Nat, heap \in [1..n -> Nodes]
  PROVE  Layered!NewAddress = n + 1
<1>1. Layered!Cardinality(DOMAIN heap) = Cardinality(1..n)
  BY DEF Layered!Cardinality, Cardinality, Layered!IsFiniteSet, IsFiniteSet
<1> QED  BY <1>1, FS_Interval DEF Layered!NewAddress

(* A call that returns a builder of what is there.                         *)
LEMMA ReturnsIInv ==
  ASSUME LayeredIInv, HeapOK', \A id \in DOMAIN obj : Reaches(heap', obj[id]),
         NEW b, Layered!Returns(b), Reaches(heap', b), Chained(obj, b)
  PROVE  LayeredIInv'
<1> DEFINE new == Layered!NewId
<1>1. new \in Nat \ {0} /\ new \notin DOMAIN obj
  BY NewIdIsNew DEF LayeredIInv
<1>2. temps' = temps \cup {new} /\ cur' = new /\ obj' = Layered!Extend(obj, new, b)
  BY DEF Layered!Returns
<1> HIDE DEF new
<1>3. /\ DOMAIN obj' = DOMAIN obj \cup {new} /\ obj'[new] = b
      /\ \A id \in DOMAIN obj : obj'[id] = obj[id]
  BY <1>1, <1>2 DEF Layered!Extend
<1>4. LivingOK'
  <2>1. IsFiniteSet(DOMAIN obj \cup {new})
    BY FS_AddElement DEF LayeredIInv, LivingOK
  <2> QED  BY <1>1, <1>2, <1>3, <2>1 DEF LayeredIInv, LivingOK
<1>5. AllReach'
  BY <1>3 DEF AllReach
<1>6. ASSUME NEW c, Chained(obj, c) PROVE Chained(obj', c)
  BY <1>3, <1>6 DEF Chained
<1>7. AllChained'
  BY <1>3, <1>6 DEF LayeredIInv, AllChained
<1>8. SavedChained'
  <2>1. DOMAIN obj' \ temps' = DOMAIN obj \ temps
    BY <1>1, <1>2, <1>3
  <2> QED  BY <1>3, <2>1 DEF LayeredIInv, SavedChained
<1> QED  BY <1>4, <1>5, <1>7, <1>8 DEF LayeredIInv

(* cur, between the first call and the last.                               *)
LEMMA CurrentBuilder ==
  ASSUME LayeredIInv, cur # 0
  PROVE  /\ cur \in DOMAIN obj /\ cur \in Nat
         /\ Reaches(heap, obj[cur]) /\ Chained(obj, obj[cur]) /\ obj[cur] \in Builders
         /\ Layered!Kind(obj[cur]) = "book" <=> obj[cur].path = <<>>
         /\ Layered!Kind(obj[cur]) = "author" <=> obj[cur].path = ToAuthor
         /\ Layered!Kind(obj[cur]) = "pages" <=> obj[cur].path = ToPages
         /\ Layered!Kind(obj[cur]) = "page" <=> \E k \in Nat : obj[cur].path = ToPage(k)
         /\ Layered!Kind(obj[cur]) = "lines" <=> \E k \in Nat : obj[cur].path = ToLines(k)
<1> DEFINE b == obj[cur]
<1>1. cur \in DOMAIN obj /\ cur \in Nat
  BY DEF LayeredIInv, LivingOK
<1>2. Reaches(heap, b) /\ Chained(obj, b) /\ b \in Builders
  BY <1>1 DEF LayeredIInv, AllReach, AllChained, Reaches
<1> HIDE DEF b
<1>3. b.path \in Paths
  BY <1>2 DEF Builders
<1>4. \/ b.path = <<>> \/ b.path = ToAuthor \/ b.path = ToPages
      \/ \E k \in Nat : b.path = ToPage(k)
      \/ \E k \in Nat : b.path = ToLines(k)
  BY <1>3, Zenon DEF Paths
<1>5. /\ Layered!Kind(b) = "book" <=> b.path = <<>>
      /\ Layered!Kind(b) = "author" <=> b.path = ToAuthor
      /\ Layered!Kind(b) = "pages" <=> b.path = ToPages
      /\ Layered!Kind(b) = "page" <=> \E k \in Nat : b.path = ToPage(k)
      /\ Layered!Kind(b) = "lines" <=> \E k \in Nat : b.path = ToLines(k)
  BY <1>4, PathKinds
<1> QED  BY <1>1, <1>2, <1>5 DEF b

-----------------------------------------------------------------------------
(* LayeredBuilder: each call keeps it *)

LEMMA LayeredInitIInv ==
  ASSUME Layered!LayeredAssumption, Layered!Init
  PROVE  LayeredIInv
<1>1. HeapOK
  <2>1. <<>> \in Seq(Nat) /\ <<4>> \in Seq(Nat)
    OBVIOUS
  <2>2. heap \in [1..4 -> Nodes]
    BY <2>1 DEF Layered!Init, Layered!Blank, Nodes
  <2> QED  BY <2>2 DEF HeapOK
<1>2. DOMAIN obj = {1} /\ temps = {} /\ cur = 0
      /\ obj[1] = [ptr |-> 1, parent |-> nullptr, root |-> 1, path |-> <<>>, loose |-> FALSE]
  BY DEF Layered!Init, Layered!Builder, Layered!Response
<1>3. LivingOK
  <2>1. IsFiniteSet({1})
    BY FS_Singleton
  <2> QED  BY <1>2, <2>1 DEF LivingOK
<1>4. Reaches(heap, obj[1])
  <2>1. obj[1] \in Builders /\ obj[1].path = <<>> /\ obj[1].ptr = 1 /\ obj[1].root = 1
    BY <1>2 DEF Builders, Paths, Layered!Roots, Layered!Response
  <2>2. ToAuthor # <<>> /\ \A k : ToPage(k) # <<>> /\ ToLines(k) # <<>>
    BY DEF ToAuthor, ToPage, ToLines
  <2> QED  BY <2>1, <2>2 DEF Reaches
<1>5. obj[1].path = <<>>
  BY <1>2
<1> QED
  BY <1>1, <1>2, <1>3, <1>4, <1>5 DEF LayeredIInv, AllReach, AllChained, SavedChained, Chained

(* What distinguishes the paths.                                           *)
LEMMA PathsDiffer ==
  /\ ToAuthor # <<>> /\ ToPages # <<>> /\ ToAuthor # ToPages
  /\ \A k \in Nat : /\ ToPage(k) \notin {<<>>, ToAuthor, ToPages}
                    /\ ToLines(k) \notin {<<>>, ToAuthor, ToPages}
                    /\ \A l \in Nat : /\ ToPage(k) # ToLines(l)
                                      /\ ToPage(k) = ToPage(l) => k = l
                                      /\ ToLines(k) = ToLines(l) => k = l
<1>1. \A p, q : Layered!Kind([path |-> p]) # Layered!Kind([path |-> q]) => p # q
  OBVIOUS
<1>2. /\ Layered!Kind([path |-> <<>>]) = "book" /\ Layered!Kind([path |-> ToAuthor]) = "author"
      /\ Layered!Kind([path |-> ToPages]) = "pages"
      /\ \A k \in Nat : /\ Layered!Kind([path |-> ToPage(k)]) = "page"
                        /\ Layered!Kind([path |-> ToLines(k)]) = "lines"
  <2>1. ASSUME NEW p PROVE [path |-> p].path = p
    OBVIOUS
  <2> QED  BY <2>1, PathKinds
<1>3. ASSUME NEW k \in Nat, NEW l \in Nat
      PROVE  /\ ToPage(k) = ToPage(l) => k = l
             /\ ToLines(k) = ToLines(l) => k = l
  BY DEF ToPage, ToLines
<1> QED  BY <1>1, <1>2, <1>3

(* A builder that a call on cur makes.                                     *)
LEMMA NestedBuilder ==
  ASSUME LayeredIInv, cur # 0, NEW a \in Nat, NEW step, NEW p \in Paths,
         Append(obj[cur].path, step) = p
  PROVE  LET b == Layered!Nested(a, step)
         IN  /\ b \in Builders /\ b.ptr = a /\ b.parent = cur /\ b.root = obj[cur].root
             /\ b.path = p /\ ~b.loose
<1>1. cur \in Nat /\ obj[cur] \in Builders
  BY CurrentBuilder
<1>2. obj[cur].root \in Layered!Roots
  BY <1>1 DEF Builders
<1> QED  BY <1>1, <1>2 DEF Layered!Nested, Layered!Builder, Builders

LEMMA AuthorIInv ==
  ASSUME Layered!LayeredAssumption, LayeredIInv, Layered!Author
  PROVE  LayeredIInv'
<1> DEFINE r == obj[cur].root
           Made(a) == Layered!Nested(a, <<"author">>)
<1>1. /\ cur # 0 /\ cur \in DOMAIN obj /\ obj[cur].path = <<>>
      /\ obj[cur].ptr = r /\ r \in Layered!Roots
  <2>1. cur # 0 /\ Layered!Kind(obj[cur]) = "book"
    BY DEF Layered!Author
  <2>2. obj[cur].path = <<>> /\ cur \in DOMAIN obj
    BY <2>1, CurrentBuilder
  <2> QED  BY <2>1, <2>2, CurrentBuilder DEF Reaches, Builders
<1>2. PICK n \in Nat : n >= 4 /\ heap \in [1..n -> Nodes]
  BY DEF LayeredIInv, HeapOK
<1>3. Layered!NewAddress = n + 1
  BY <1>2, NewAddressIsNew
<1>4. r \in 1..n /\ heap[r] \in Nodes /\ Layered!Roots \subseteq 1..n
  BY <1>1, <1>2 DEF Layered!Roots, Layered!Response, Layered!Other
<1>5. ASSUME NEW a \in Nat
      PROVE  /\ Made(a) \in Builders /\ Made(a).ptr = a /\ Made(a).parent = cur
             /\ Made(a).root = r /\ Made(a).path = ToAuthor /\ ~Made(a).loose
  <2>1. Append(obj[cur].path, <<"author">>) = ToAuthor
    BY <1>1, PathSteps
  <2>2. ToAuthor \in Paths
    BY DEF Paths
  <2> QED  BY <1>1, <2>1, <2>2, NestedBuilder
<1> HIDE DEF Made
<1>6. ASSUME NEW a \in Nat, heap'[r].author = a PROVE Reaches(heap', Made(a))
  BY <1>5, <1>6, PathsDiffer DEF Reaches
<1>7. ASSUME NEW a \in Nat PROVE Chained(obj, Made(a))
  BY <1>1, <1>5, PathKinds DEF Chained
<1>8. CASE heap[r].author = nullptr
  <2> DEFINE a == n + 1
             grown == Layered!Extend(heap, a, Layered!Blank)
  <2>1. a \in Nat /\ a \notin 1..n /\ 1..(n + 1) = (1..n) \cup {a}
    BY <1>2
  <2>2. heap' = [grown EXCEPT ![r].author = a] /\ Layered!Returns(Made(a))
    BY <1>1, <1>3, <1>8 DEF Layered!Author, Made
  <2> HIDE DEF a
  <2>3. grown \in [1..(n + 1) -> Nodes] /\ \A q \in 1..n : grown[q] = heap[q]
    <3>1. Layered!Blank \in Nodes
      BY EmptySeq DEF Layered!Blank, Nodes
    <3> QED  BY <1>2, <2>1, <3>1 DEF Layered!Extend
  <2> HIDE DEF grown
  <2>4. heap' \in [1..(n + 1) -> Nodes] /\ heap'[r].author = a
        /\ \A q \in 1..n : heap'[q].pages = heap[q].pages /\ (q # r => heap'[q] = heap[q])
    BY <1>4, <2>1, <2>2, <2>3 DEF Nodes
  <2>5. HeapOK'
    <3>1. n + 1 \in Nat /\ n + 1 >= 4
      BY <1>2
    <3> QED  BY <2>4, <3>1 DEF HeapOK
  <2>6. heap[r].author \notin Nat
    BY <1>8 DEF Layered!LayeredAssumption
  <2>7. \A id \in DOMAIN obj : Reaches(heap', obj[id])
    <3>1. \A q \in Layered!Roots :
            /\ heap[q].author \in Nat => heap'[q].author = heap[q].author
            /\ \A k \in 1..Len(heap[q].pages) :
                 k \in 1..Len(heap'[q].pages) /\ heap'[q].pages[k] = heap[q].pages[k]
      BY <1>4, <2>4, <2>6
    <3> QED  BY <3>1, ReachesKept DEF LayeredIInv, AllReach
  <2> QED  BY <1>6, <1>7, <2>1, <2>2, <2>4, <2>5, <2>7, ReturnsIInv
<1>9. CASE heap[r].author # nullptr
  <2> DEFINE a == heap[r].author
  <2>1. a \in Nat
    BY <1>4, <1>9 DEF Nodes
  <2>2. heap' = heap /\ Layered!Returns(Made(a))
    BY <1>1, <1>9 DEF Layered!Author, Made
  <2>3. HeapOK' /\ \A id \in DOMAIN obj : Reaches(heap', obj[id])
    BY <2>2 DEF LayeredIInv, HeapOK, AllReach
  <2> HIDE DEF a
  <2>4. heap'[r].author = a
    BY <2>2 DEF a
  <2> QED  BY <1>6, <1>7, <2>1, <2>2, <2>3, <2>4, ReturnsIInv
<1> QED  BY <1>8, <1>9

LEMMA PagesIInv ==
  ASSUME LayeredIInv, Layered!Pages
  PROVE  LayeredIInv'
<1> DEFINE r == obj[cur].root
           new == Layered!Nested(obj[cur].ptr, <<"pages">>)
<1>1. /\ cur # 0 /\ cur \in DOMAIN obj /\ obj[cur].path = <<>>
      /\ obj[cur].ptr = r /\ r \in Layered!Roots /\ obj[cur].ptr \in Nat
  <2>1. cur # 0 /\ Layered!Kind(obj[cur]) = "book"
    BY DEF Layered!Pages
  <2>2. obj[cur].path = <<>> /\ cur \in DOMAIN obj
    BY <2>1, CurrentBuilder
  <2> QED  BY <2>1, <2>2, CurrentBuilder DEF Reaches, Builders
<1>2. /\ new \in Builders /\ new.ptr = r /\ new.parent = cur /\ new.root = r
      /\ new.path = ToPages /\ ~new.loose
  <2>1. Append(obj[cur].path, <<"pages">>) = ToPages
    BY <1>1, PathSteps
  <2>2. ToPages \in Paths
    BY DEF Paths
  <2> QED  BY <1>1, <2>1, <2>2, NestedBuilder
<1>3. heap' = heap /\ Layered!Returns(new)
  BY DEF Layered!Pages
<1> HIDE DEF new
<1>4. HeapOK' /\ \A id \in DOMAIN obj : Reaches(heap', obj[id])
  BY <1>3 DEF LayeredIInv, HeapOK, AllReach
<1>5. Reaches(heap', new)
  BY <1>2, PathsDiffer DEF Reaches
<1>6. Chained(obj, new)
  BY <1>1, <1>2, PathKinds DEF Chained
<1> QED  BY <1>3, <1>4, <1>5, <1>6, ReturnsIInv

LEMMA PushIInv ==
  ASSUME LayeredIInv, Layered!Push
  PROVE  LayeredIInv'
<1> DEFINE r == obj[cur].root
           k == Len(heap[r].pages) + 1
<1>1. /\ cur # 0 /\ cur \in DOMAIN obj /\ obj[cur].path = ToPages
      /\ obj[cur].ptr = r /\ r \in Layered!Roots
  <2>1. cur # 0 /\ Layered!Kind(obj[cur]) = "pages"
    BY DEF Layered!Push
  <2>2. obj[cur].path = ToPages /\ cur \in DOMAIN obj
    BY <2>1, CurrentBuilder
  <2> QED  BY <2>1, <2>2, CurrentBuilder DEF Reaches, Builders
<1>2. PICK n \in Nat : n >= 4 /\ heap \in [1..n -> Nodes]
  BY DEF LayeredIInv, HeapOK
<1> DEFINE a == n + 1
           new == Layered!Nested(a, <<"page", k>>)
           grown == Layered!Extend(heap, a, Layered!Blank)
<1>3. Layered!NewAddress = a
  BY <1>2, NewAddressIsNew
<1>4. /\ r \in 1..n /\ heap[r] \in Nodes /\ Layered!Roots \subseteq 1..n
      /\ \A q \in 1..n : heap[q].pages \in Seq(Nat) /\ Len(heap[q].pages) \in Nat
  BY <1>1, <1>2 DEF Layered!Roots, Layered!Response, Layered!Other, Nodes
<1>5. k \in Nat
  BY <1>4
<1>6. a \in Nat /\ a \notin 1..n /\ 1..(n + 1) = (1..n) \cup {a}
  BY <1>2
<1>7. heap' = [grown EXCEPT ![r].pages = Append(@, a)] /\ Layered!Returns(new)
  BY <1>1, <1>3 DEF Layered!Push
<1> HIDE DEF a, k
<1>8. /\ new \in Builders /\ new.ptr = a /\ new.parent = cur /\ new.root = r
      /\ new.path = ToPage(k) /\ ~new.loose
  <2>1. Append(obj[cur].path, <<"page", k>>) = ToPage(k)
    BY <1>1, <1>5, PathSteps
  <2>2. ToPage(k) \in Paths
    BY <1>5 DEF Paths
  <2> QED  BY <1>1, <1>6, <2>1, <2>2, NestedBuilder
<1> HIDE DEF new
<1>9. grown \in [1..(n + 1) -> Nodes] /\ \A q \in 1..n : grown[q] = heap[q]
  <2>1. Layered!Blank \in Nodes
    BY EmptySeq DEF Layered!Blank, Nodes
  <2> QED  BY <1>2, <1>6, <2>1 DEF Layered!Extend
<1> HIDE DEF grown
<1> DEFINE p == Append(heap[r].pages, a)
<1>10. p \in Seq(Nat) /\ Len(p) = k /\ p[k] = a
       /\ \A i \in 1..Len(heap[r].pages) : i \in 1..Len(p) /\ p[i] = heap[r].pages[i]
  <2> DEFINE s == heap[r].pages
  <2>1. s \in Seq(Nat) /\ Len(s) \in Nat
    BY <1>4
  <2> HIDE DEF s
  <2>2. /\ Append(s, a) \in Seq(Nat) /\ Len(Append(s, a)) = Len(s) + 1
        /\ Append(s, a)[Len(s) + 1] = a /\ \A i \in 1..Len(s) : Append(s, a)[i] = s[i]
    BY <1>6, <2>1, AppendProperties
  <2>3. \A i \in 1..Len(s) : i \in 1..(Len(s) + 1)
    BY <2>1
  <2> QED  BY <2>2, <2>3 DEF k, s
<1>11. heap' = [grown EXCEPT ![r].pages = p]
  BY <1>4, <1>7, <1>9
<1> HIDE DEF p
<1>12. /\ heap' \in [1..(n + 1) -> Nodes] /\ heap'[r].pages = p
       /\ \A q \in 1..n : heap'[q].author = heap[q].author /\ (q # r => heap'[q] = heap[q])
  BY <1>4, <1>6, <1>9, <1>10, <1>11 DEF Nodes
<1>13. HeapOK'
  <2>1. n + 1 \in Nat /\ n + 1 >= 4
    BY <1>2
  <2> QED  BY <1>12, <2>1 DEF HeapOK
<1>14. \A id \in DOMAIN obj : Reaches(heap', obj[id])
  <2>1. ASSUME NEW q \in Layered!Roots
        PROVE  /\ heap[q].author \in Nat => heap'[q].author = heap[q].author
               /\ \A i \in 1..Len(heap[q].pages) :
                    i \in 1..Len(heap'[q].pages) /\ heap'[q].pages[i] = heap[q].pages[i]
    <3>1. CASE q = r
      BY <1>4, <1>10, <1>12, <3>1
    <3>2. CASE q # r
      BY <1>4, <1>12, <3>2
    <3> QED  BY <3>1, <3>2
  <2> QED  BY <2>1, ReachesKept DEF LayeredIInv, AllReach
<1>15. Reaches(heap', new)
  <2>1. k \in 1..Len(p)
    BY <1>5, <1>10 DEF k
  <2> QED  BY <1>5, <1>8, <1>10, <1>12, <2>1, PathsDiffer DEF Reaches
<1>16. Chained(obj, new)
  BY <1>1, <1>5, <1>8, PathKinds DEF Chained
<1> QED  BY <1>7, <1>13, <1>14, <1>15, <1>16, ReturnsIInv

LEMMA LinesIInv ==
  ASSUME LayeredIInv, Layered!Lines
  PROVE  LayeredIInv'
<1> DEFINE c == obj[cur]
           new == [c EXCEPT !.path = Append(@, <<"lines">>)]
<1>1. cur # 0 /\ Layered!Kind(c) = "page" /\ heap' = heap /\ Layered!Returns(new)
  BY DEF Layered!Lines
<1>2. c \in Builders /\ Reaches(heap, c) /\ Chained(obj, c)
  BY <1>1, CurrentBuilder
<1>3. PICK k \in Nat : c.path = ToPage(k)
  BY <1>1, CurrentBuilder
<1> HIDE DEF c
<1>4. Append(c.path, <<"lines">>) = ToLines(k) /\ ToLines(k) \in Paths
  BY <1>3, PathSteps DEF Paths
<1>5. /\ new \in Builders /\ new.ptr = c.ptr /\ new.parent = c.parent /\ new.root = c.root
      /\ new.path = ToLines(k) /\ new.loose = c.loose
  BY <1>2, <1>4 DEF Builders
<1> HIDE DEF new
<1>6. HeapOK' /\ \A id \in DOMAIN obj : Reaches(heap', obj[id])
  BY <1>1 DEF LayeredIInv, HeapOK, AllReach
<1>7. Reaches(heap', new)
  <2>1. k \in 1..Len(heap[c.root].pages) /\ c.ptr = heap[c.root].pages[k]
    BY <1>2, <1>3 DEF Reaches
  <2> QED  BY <1>1, <1>5, <2>1, PathsDiffer DEF Reaches
<1>8. Chained(obj, new)
  <2>1. Layered!ParentPath(new) = Layered!ParentPath(c) /\ c.path # <<>>
    BY <1>3, <1>5, PathKinds, PathsDiffer
  <2> QED  BY <1>2, <1>5, <2>1 DEF Chained
<1> QED  BY <1>1, <1>6, <1>7, <1>8, ReturnsIInv

LEMMA DoneIInv ==
  ASSUME LayeredIInv, Layered!Done
  PROVE  LayeredIInv'
<1> DEFINE c == obj[cur]
<1>1. cur # 0 /\ heap' = heap
  BY DEF Layered!Done
<1>2. c \in Builders /\ Reaches(heap, c) /\ Chained(obj, c)
  BY <1>1, CurrentBuilder
<1>3. HeapOK' /\ \A id \in DOMAIN obj : Reaches(heap', obj[id])
  BY <1>1 DEF LayeredIInv, HeapOK, AllReach
<1>4. CASE Layered!Kind(c) = "lines" /\ Layered!Returns([c EXCEPT !.path = Layered!Front(@)])
  <2> DEFINE new == [c EXCEPT !.path = Layered!Front(@)]
  <2>1. PICK k \in Nat : c.path = ToLines(k)
    BY <1>1, <1>4, CurrentBuilder
  <2> HIDE DEF c
  <2>2. Layered!Front(c.path) = ToPage(k) /\ ToPage(k) \in Paths
    BY <2>1, PathSteps DEF Paths
  <2>3. /\ new \in Builders /\ new.ptr = c.ptr /\ new.parent = c.parent /\ new.root = c.root
        /\ new.path = ToPage(k) /\ new.loose = c.loose
    BY <1>2, <2>2 DEF Builders
  <2>4. Layered!Returns(new)
    BY <1>4
  <2> HIDE DEF new
  <2>5. Reaches(heap', new)
    <3>1. k \in 1..Len(heap[c.root].pages) /\ c.ptr = heap[c.root].pages[k]
      BY <1>2, <2>1 DEF Reaches
    <3> QED  BY <1>1, <2>3, <3>1, PathsDiffer DEF Reaches
  <2>6. Chained(obj, new)
    <3>1. Layered!ParentPath(new) = Layered!ParentPath(c) /\ c.path # <<>>
      BY <2>1, <2>3, PathKinds, PathsDiffer
    <3> QED  BY <1>2, <2>3, <3>1 DEF Chained
  <2> QED  BY <1>3, <2>4, <2>5, <2>6, ReturnsIInv
<1>5. CASE /\ Layered!Kind(c) \in {"author", "pages", "page"} /\ ~c.loose
           /\ Layered!Returns(obj[c.parent])
  <2>1. c.path # <<>>
    BY <1>1, <1>5, CurrentBuilder
  <2>2. c.parent \in DOMAIN obj
    BY <1>2, <1>5, <2>1 DEF Chained
  <2>3. Reaches(heap', obj[c.parent]) /\ Chained(obj, obj[c.parent])
    BY <1>3, <2>2 DEF LayeredIInv, AllChained
  <2> QED  BY <1>3, <1>5, <2>3, ReturnsIInv
<1> QED  BY <1>4, <1>5 DEF Layered!Done

(* What a builder of something inside the one book becomes a builder of,   *)
(* when the contents of the two are exchanged.                             *)
LEMMA MoveFromIInv ==
  ASSUME LayeredIInv, NEW other \in Layered!Roots, Layered!MoveFrom(other)
  PROVE  LayeredIInv'
<1> DEFINE this == obj[cur].ptr
           Across(q) == CASE q = this -> other [] q = other -> this
           Elsewhere(b) == [b EXCEPT !.root = CASE b.root = this -> other
                                                [] b.root = other -> this]
<1>1. /\ cur # 0 /\ Layered!Kind(obj[cur]) = "book" /\ other \in Layered!Roots \ {this}
      /\ heap' = [heap EXCEPT ![this] = heap[other], ![other] = heap[this]]
      /\ obj' = [id \in DOMAIN obj |->
                   IF Layered!Kind(obj[id]) \in {"book", "pages"} THEN obj[id]
                   ELSE Elsewhere(obj[id])]
      /\ temps' = temps /\ cur' = cur
  BY DEF Layered!MoveFrom
<1>2. this \in Layered!Roots
  BY <1>1, CurrentBuilder DEF Reaches, Builders
<1> HIDE DEF this
<1>3. Layered!Roots = {this, other} /\ this # other
  BY <1>1, <1>2 DEF Layered!Roots, Layered!Response, Layered!Other
<1>4. PICK n \in Nat : n >= 4 /\ heap \in [1..n -> Nodes]
  BY DEF LayeredIInv, HeapOK
<1>5. this \in 1..n /\ other \in 1..n
  BY <1>2, <1>4 DEF Layered!Roots, Layered!Response, Layered!Other
<1>6. heap' \in [1..n -> Nodes] /\ heap'[this] = heap[other] /\ heap'[other] = heap[this]
  BY <1>1, <1>3, <1>4, <1>5
<1>7. HeapOK'
  BY <1>4, <1>6 DEF HeapOK
<1>8. ASSUME NEW id \in DOMAIN obj
      PROVE  /\ obj'[id] \in Builders /\ Reaches(heap', obj'[id])
             /\ obj'[id].path = obj[id].path /\ obj'[id].parent = obj[id].parent
             /\ obj'[id].loose = obj[id].loose
  <2> DEFINE b == obj[id]
  <2>1. Reaches(heap, b) /\ b \in Builders /\ b.path \in Paths /\ b.root \in {this, other}
    BY <1>3 DEF LayeredIInv, AllReach, Reaches, Builders
  <2>2. /\ Layered!Kind(b) \in {"book", "pages"} => obj'[id] = b
        /\ Layered!Kind(b) \notin {"book", "pages"} => obj'[id] = Elsewhere(b)
    BY <1>1, Zenon
  <2> HIDE DEF b
  <2>3. CASE b.path = <<>> \/ b.path = ToPages
    <3>1. obj'[id] = b
      BY <2>2, <2>3, PathKinds
    <3>2. Reaches(heap', b)
      BY <2>1, <2>3, PathsDiffer DEF Reaches
    <3> QED  BY <2>1, <3>1, <3>2 DEF b
  <2>4. ASSUME NEW q \in Layered!Roots, heap'[q] = heap[b.root],
               obj'[id] = [b EXCEPT !.root = q]
        PROVE  /\ obj'[id] \in Builders /\ Reaches(heap', obj'[id])
               /\ obj'[id].path = b.path /\ obj'[id].parent = b.parent
               /\ obj'[id].loose = b.loose
    <3> SUFFICES ASSUME b.path # <<>>, b.path # ToPages
                 PROVE  /\ obj'[id] \in Builders /\ Reaches(heap', obj'[id])
                        /\ obj'[id].path = b.path /\ obj'[id].parent = b.parent
                        /\ obj'[id].loose = b.loose
      BY <2>3 DEF b
    <3>1. /\ obj'[id] \in Builders /\ obj'[id].path = b.path /\ obj'[id].parent = b.parent
          /\ obj'[id].loose = b.loose /\ obj'[id].ptr = b.ptr /\ obj'[id].root = q
      BY <2>1, <2>4 DEF Builders
    <3>2. Reaches(heap', obj'[id])
      BY <2>1, <2>4, <3>1 DEF Reaches
    <3> QED  BY <3>1, <3>2
  <2>5. CASE b.path # <<>> /\ b.path # ToPages
    <3>1. Layered!Kind(b) \notin {"book", "pages"}
      <4>1. b.path = ToAuthor \/ \E k \in Nat : b.path = ToPage(k) \/ b.path = ToLines(k)
        BY <2>1, <2>5 DEF Paths
      <4> QED  BY <4>1, PathKinds
    <3>2. CASE b.root = this
      <4>1. obj'[id] = [b EXCEPT !.root = other]
        BY <2>2, <3>1, <3>2, <1>3
      <4> QED  BY <1>6, <2>4, <3>2, <4>1 DEF b
    <3>3. CASE b.root = other
      <4>1. obj'[id] = [b EXCEPT !.root = this]
        BY <2>2, <3>1, <3>3, <1>3
      <4> QED  BY <1>2, <1>6, <2>4, <3>3, <4>1 DEF b
    <3> QED  BY <2>1, <3>2, <3>3
  <2> QED  BY <2>3, <2>5
<1>9. DOMAIN obj' = DOMAIN obj
  BY <1>1
<1>10. LivingOK' /\ AllReach'
  BY <1>1, <1>8, <1>9 DEF LayeredIInv, LivingOK, AllReach
<1>11. AllChained'
  <2> SUFFICES ASSUME NEW id \in DOMAIN obj PROVE Chained(obj', obj'[id])
    BY <1>9 DEF AllChained
  <2>1. Chained(obj, obj[id])
    BY DEF LayeredIInv, AllChained
  <2>2. Layered!ParentPath(obj'[id]) = Layered!ParentPath(obj[id])
    BY <1>8, Zenon DEF Layered!ParentPath, Layered!Kind
  <2> QED  BY <1>8, <1>9, <2>1, <2>2 DEF Chained
<1>12. SavedChained'
  BY <1>1, <1>8, <1>9 DEF LayeredIInv, SavedChained
<1> QED  BY <1>7, <1>10, <1>11, <1>12 DEF LayeredIInv

LEMMA EndStatementIInv ==
  ASSUME LayeredIInv, cur # 0, NEW saved \in SUBSET (temps \cap {cur}),
         Layered!EndStatement(saved)
  PROVE  LayeredIInv'
<1>1. /\ cur' = 0 /\ temps' = {} /\ heap' = heap
      /\ obj' = [id \in Layered!Saved \cup saved |->
                   IF id \in saved THEN [obj[id] EXCEPT !.loose = @ \/ obj[id].parent \in temps]
                                   ELSE obj[id]]
  BY DEF Layered!EndStatement
<1>2. /\ DOMAIN obj' = Layered!Saved \cup saved /\ DOMAIN obj' \subseteq DOMAIN obj
      /\ Layered!Saved = DOMAIN obj \ temps
  <2>1. Layered!Saved = DOMAIN obj \ temps /\ saved \subseteq temps /\ temps \subseteq DOMAIN obj
    BY Zenon DEF Layered!Saved, LayeredIInv, LivingOK
  <2> QED  BY <1>1, <2>1
<1>3. ASSUME NEW id \in DOMAIN obj'
      PROVE  /\ obj'[id] \in Builders /\ Reaches(heap', obj'[id])
             /\ obj'[id].path = obj[id].path /\ obj'[id].parent = obj[id].parent
             /\ ~obj'[id].loose => ~obj[id].loose
             /\ ~obj'[id].loose /\ obj[id].path # <<>> => obj[id].parent \in Layered!Saved
  <2> DEFINE b == obj[id]
             l == b.loose \/ b.parent \in temps
  <2>1. Reaches(heap, b) /\ b \in Builders /\ Chained(obj, b)
    BY <1>2 DEF LayeredIInv, AllReach, AllChained, Reaches
  <2> HIDE DEF b
  <2>2. CASE id \in saved
    <3>1. obj'[id] = [b EXCEPT !.loose = l]
      BY <1>1, <1>2, <2>1, <2>2 DEF Builders, b
    <3>2. l \in BOOLEAN
      BY <2>1 DEF Builders
    <3>3. /\ obj'[id] \in Builders /\ obj'[id].path = b.path /\ obj'[id].parent = b.parent
          /\ obj'[id].loose = l /\ obj'[id].ptr = b.ptr /\ obj'[id].root = b.root
      <4> HIDE DEF l
      <4> QED  BY <2>1, <3>1, <3>2, SMTT(30) DEF Builders
    <3>4. Reaches(heap', obj'[id])
      BY <1>1, <2>1, <3>3 DEF Reaches
    <3>5. ~l /\ b.path # <<>> => b.parent \in Layered!Saved
      BY <1>2, <2>1 DEF Chained
    <3> QED  BY <3>3, <3>4, <3>5 DEF b
  <2>3. CASE id \notin saved
    <3>1. obj'[id] = b /\ id \in DOMAIN obj \ temps
      BY <1>1, <1>2, <2>3 DEF b
    <3>2. ~b.loose /\ b.path # <<>> => b.parent \in Layered!Saved
      BY <1>2, <3>1 DEF LayeredIInv, SavedChained, b
    <3> QED  BY <1>1, <2>1, <3>1, <3>2 DEF b
  <2> QED  BY <2>2, <2>3
<1>4. HeapOK'
  BY <1>1 DEF LayeredIInv, HeapOK
<1>5. LivingOK'
  <2>1. IsFiniteSet(DOMAIN obj')
    BY <1>2, FS_Subset DEF LayeredIInv, LivingOK
  <2>2. 1 \in DOMAIN obj' /\ DOMAIN obj' \subseteq Nat \ {0}
    BY <1>2 DEF LayeredIInv, LivingOK
  <2> QED  BY <1>1, <2>1, <2>2 DEF LivingOK
<1>6. AllReach'
  BY <1>3 DEF AllReach
<1>7. AllChained'
  <2> SUFFICES ASSUME NEW id \in DOMAIN obj', obj'[id].path # <<>>, ~obj'[id].loose
               PROVE  /\ obj'[id].parent \in DOMAIN obj'
                      /\ obj'[obj'[id].parent].path = Layered!ParentPath(obj'[id])
    BY DEF AllChained, Chained
  <2>1. obj[id].path # <<>> /\ ~obj[id].loose /\ obj'[id].parent = obj[id].parent
    BY <1>3
  <2>2. obj[id].parent \in DOMAIN obj' /\ obj[obj[id].parent].path = Layered!ParentPath(obj[id])
    BY <1>2, <1>3, <2>1 DEF LayeredIInv, AllChained, Chained
  <2>3. obj'[obj[id].parent].path = obj[obj[id].parent].path
    BY <1>3, <2>2
  <2>4. Layered!ParentPath(obj'[id]) = Layered!ParentPath(obj[id])
    BY <1>3, Zenon DEF Layered!ParentPath, Layered!Kind
  <2> QED  BY <2>1, <2>2, <2>3, <2>4
<1>8. SavedChained'
  <2> SUFFICES ASSUME NEW id \in DOMAIN obj', obj'[id].path # <<>>, ~obj'[id].loose
               PROVE  obj'[id].parent \in DOMAIN obj' \ temps'
    BY DEF SavedChained
  <2>1. obj[id].path # <<>> /\ obj'[id].parent = obj[id].parent
    BY <1>3
  <2>2. obj[id].parent \in Layered!Saved
    BY <1>3, <2>1
  <2> QED  BY <1>1, <1>2, <2>1, <2>2
<1> QED  BY <1>4, <1>5, <1>6, <1>7, <1>8 DEF LayeredIInv

LEMMA LayeredNextIInv ==
  ASSUME Layered!LayeredAssumption, LayeredIInv, [Layered!Next]_Layered!layeredVars
  PROVE  LayeredIInv'
<1>1. ASSUME UNCHANGED <<heap, obj, temps>>, cur' \in DOMAIN obj \cup {cur}
      PROVE  LayeredIInv'
  BY <1>1 DEF LayeredIInv, HeapOK, LivingOK, AllReach, AllChained, SavedChained
<1>2. CASE UNCHANGED Layered!layeredVars
  BY <1>1, <1>2 DEF Layered!layeredVars
<1>3. ASSUME NEW id \in DOMAIN obj, Layered!Start(id) PROVE LayeredIInv'
  BY <1>1, <1>3 DEF Layered!Start
<1>4. CASE Layered!Forget
  BY <1>4, EndStatementIInv DEF Layered!Forget, Layered!EndStatement
<1>5. CASE Layered!Save
  <2>1. {cur} \in SUBSET (temps \cap {cur}) /\ cur # 0 /\ Layered!EndStatement({cur})
    BY <1>5 DEF Layered!Save, Layered!EndStatement
  <2> QED  BY <2>1, EndStatementIInv
<1> QED
  BY <1>2, <1>3, <1>4, <1>5, AuthorIInv, PagesIInv, PushIInv, LinesIInv, DoneIInv, MoveFromIInv
  DEF Layered!Next

(* A builder, however long the chain was and whatever was pushed or moved  *)
(* since, changes the message that the calls which made it name, and the   *)
(* builder it came from is alive unless it was saved without it.           *)
LEMMA LayeredBuildersReach ==
  ASSUME Layered!LayeredAssumption
  PROVE  Layered!Spec => []Layered!BuildersReachTheirMessage
<1>1. Layered!Init => LayeredIInv
  BY LayeredInitIInv
<1>2. LayeredIInv /\ [Layered!Next]_Layered!layeredVars => LayeredIInv'
  BY LayeredNextIInv
<1>3. LayeredIInv => Layered!BuildersReachTheirMessage
  <2> SUFFICES ASSUME LayeredIInv, NEW id \in DOMAIN obj \ {1}
               PROVE  /\ obj[id].ptr = Layered!Locate(obj[id])
                      /\ Layered!Kind(obj[id]) # "book" /\ ~obj[id].loose =>
                           /\ obj[id].parent \in DOMAIN obj
                           /\ obj[obj[id].parent].path = Layered!ParentPath(obj[id])
    BY Zenon DEF Layered!BuildersReachTheirMessage
  <2> DEFINE b == obj[id]
  <2>1. Reaches(heap, b) /\ Chained(obj, b) /\ b.path \in Paths
    BY DEF LayeredIInv, AllReach, AllChained, Reaches, Builders
  <2> HIDE DEF b
  <2>2. b.ptr = Layered!Locate(b)
    <3>1. CASE b.path = <<>> \/ b.path = ToPages
      BY <2>1, <3>1, PathLeads DEF Reaches
    <3>2. CASE b.path = ToAuthor
      BY <2>1, <3>2, PathLeads DEF Reaches
    <3>3. ASSUME NEW k \in Nat, b.path = ToPage(k) \/ b.path = ToLines(k)
          PROVE  b.ptr = Layered!Locate(b)
      BY <2>1, <3>3, PathLeads DEF Reaches
    <3> QED  BY <2>1, <3>1, <3>2, <3>3 DEF Paths
  <2>3. Layered!Kind(b) # "book" => b.path # <<>>
    BY PathKinds
  <2> QED  BY <2>1, <2>2, <2>3 DEF Chained, b
<1> QED  BY <1>1, <1>2, <1>3, PTL DEF Layered!Spec

-----------------------------------------------------------------------------
(* CodeGenerator: the lists of fields *)

FieldLists ==
  {s \in Seq(Code!Fields) : \A i, j \in 1..Len(s) : s[i].name = s[j].name => i = j}

(* A loop over some of the fields meets each of them once.                 *)
LEMMA AmongFields ==
  ASSUME NEW s \in FieldLists, NEW S
  PROVE  /\ Code!Among(s, S) \in FieldLists
         /\ Code!Range(Code!Among(s, S)) = Code!Range(s) \cap S
<1> DEFINE t == Among(s, S)
<1>1. Code!Among(s, S) = t
  BY DEF Code!Among, Among
<1>2. s \in Seq(Code!Fields) /\ \A i, j \in 1..Len(s) : s[i] = s[j] => i = j
  BY DEF FieldLists
<1>3. /\ t \in Seq(Code!Fields) /\ Range(t) = Range(s) \cap S
      /\ \A i, j \in 1..Len(t) : t[i] = t[j] => i = j
  BY <1>2, AmongList
<1> HIDE DEF t
<1>4. ASSUME NEW i \in 1..Len(t), NEW j \in 1..Len(t), t[i].name = t[j].name
      PROVE  i = j
  <2>1. Range(t) = {t[k] : k \in 1..Len(t)} /\ Range(s) = {s[k] : k \in 1..Len(s)}
    BY <1>2, <1>3, RangeOfList
  <2>2. t[i] \in Range(s) /\ t[j] \in Range(s)
    BY <1>3, <2>1, Zenon
  <2>3. PICK k, l \in 1..Len(s) : t[i] = s[k] /\ t[j] = s[l]
    BY <2>1, <2>2, Zenon
  <2>4. k = l
    BY <1>4, <2>3 DEF FieldLists
  <2> QED  BY <1>3, <2>3, <2>4
<1>5. t \in FieldLists
  BY <1>3, <1>4 DEF FieldLists
<1> QED  BY <1>1, <1>3, <1>5 DEF Code!Range, Range

LEMMA ElementsOfFields ==
  ASSUME NEW s \in FieldLists
  PROVE  /\ Len(s) \in Nat /\ DOMAIN s = 1..Len(s)
         /\ Code!Range(s) = {s[i] : i \in 1..Len(s)} /\ Code!Range(s) \subseteq Code!Fields
         /\ \A i \in 1..Len(s) : s[i] \in Code!Fields
<1>1. Len(s) \in Nat /\ DOMAIN s = 1..Len(s) /\ \A i \in 1..Len(s) : s[i] \in Code!Fields
  BY DEF FieldLists
<1> QED  BY <1>1 DEF Code!Range

LEMMA AllOfList ==
  ASSUME NEW s \in FieldLists, NEW o
  PROVE  /\ Code!AllOf(s, o) \in FieldLists
         /\ Code!Range(Code!AllOf(s, o)) = {f \in Code!Range(s) : f.oneof = o}
<1> DEFINE S == {f \in Code!Range(s) : f.oneof = o}
<1>1. Code!AllOf(s, o) = Code!Among(s, S)
  BY DEF Code!AllOf, Code!Select
<1>2. Code!Range(s) \cap S = S
  OBVIOUS
<1> HIDE DEF S
<1>3. Code!AllOf(s, o) \in FieldLists /\ Code!Range(Code!AllOf(s, o)) = S
  BY <1>1, <1>2, AmongFields
<1> QED  BY <1>3 DEF S

(* All alternatives are generated: no map is among them.                   *)
LEMMA AlternativesList ==
  ASSUME NEW s \in FieldLists, NEW o, o # Code!none
  PROVE  /\ Code!Alternatives(s, o) \in FieldLists
         /\ Code!Range(Code!Alternatives(s, o)) = {f \in Code!Range(s) : f.oneof = o}
<1> DEFINE t == Code!AllOf(s, o)
           S == {f \in Code!Range(t) : Code!IsSupported(f)}
<1>1. t \in FieldLists /\ Code!Range(t) = {f \in Code!Range(s) : f.oneof = o}
  BY AllOfList
<1>2. Code!Alternatives(s, o) = Code!Among(t, S)
  BY DEF Code!Alternatives, Code!Select
<1>3. \A f \in Code!Range(t) : Code!IsSupported(f)
  BY <1>1, ElementsOfFields DEF Code!Fields, Code!IsSupported
<1>4. Code!Range(t) \cap S = Code!Range(t)
  BY <1>3
<1> HIDE DEF S, t
<1> QED  BY <1>1, <1>2, <1>4, AmongFields

LEMMA MessageList ==
  ASSUME NEW s \in FieldLists
  PROVE  /\ Code!MessageFields(s) \in FieldLists
         /\ Code!Range(Code!MessageFields(s)) =
              {f \in Code!Range(s) : Code!IsSupported(f) /\ Code!NotOneofOrFirst(s, f)}
<1> DEFINE S == {f \in Code!Range(s) : Code!IsSupported(f) /\ Code!NotOneofOrFirst(s, f)}
<1>1. Code!MessageFields(s) = Code!Among(s, S)
  BY DEF Code!MessageFields, Code!Select
<1>2. Code!Range(s) \cap S = S
  OBVIOUS
<1> HIDE DEF S
<1>3. Code!MessageFields(s) \in FieldLists /\ Code!Range(Code!MessageFields(s)) = S
  BY <1>1, <1>2, AmongFields
<1> QED  BY <1>3 DEF S

-----------------------------------------------------------------------------
(* Names *)

LEMMA NamesOfVariants ==
  ASSUME Code!CodeAssumption, NEW s \in FieldLists,
         NEW i \in 1..Len(s), NEW j \in 1..Len(s),
         Code!InVariantGetter(s[i]) = Code!InVariantGetter(s[j])
  PROVE  i = j
<1>1. s[i].name \in FieldNames /\ s[j].name \in FieldNames
  BY ElementsOfFields DEF Code!Fields
<1>2. s[i].name = s[j].name
  BY <1>1 DEF Code!CodeAssumption, Code!InVariantGetter
<1> QED  BY <1>2 DEF FieldLists

(* The first alternative stands for its oneof, so each is met once.        *)
LEMMA NamesOfMessage ==
  ASSUME Code!CodeAssumption, NEW s \in FieldLists,
         NEW i \in 1..Len(Code!MessageFields(s)), NEW j \in 1..Len(Code!MessageFields(s)),
         Code!InMessageGetter(Code!MessageFields(s)[i]) =
           Code!InMessageGetter(Code!MessageFields(s)[j])
  PROVE  i = j
<1> DEFINE t == Code!MessageFields(s)
           f == t[i]
           g == t[j]
<1>1. /\ t \in FieldLists /\ f \in Code!Fields /\ g \in Code!Fields
      /\ Code!NotOneofOrFirst(s, f) /\ Code!NotOneofOrFirst(s, g)
  <2>1. /\ t \in FieldLists
        /\ Code!Range(t) = {e \in Code!Range(s) : Code!IsSupported(e) /\ Code!NotOneofOrFirst(s, e)}
    BY MessageList
  <2>2. f \in Code!Range(t) /\ g \in Code!Range(t) /\ f \in Code!Fields /\ g \in Code!Fields
    BY <2>1, ElementsOfFields
  <2> QED  BY <2>1, <2>2
<1> HIDE DEF f, g
<1>2. /\ f.name \in FieldNames /\ g.name \in FieldNames
      /\ Code!IsVariant(f) => f.oneof \in Oneofs
      /\ Code!IsVariant(g) => g.oneof \in Oneofs
  BY <1>1 DEF Code!Fields, Code!IsVariant
<1>3. Code!InMessageGetter(f) = Code!InMessageGetter(g)
  BY DEF f, g
<1>4. f = g \/ f.name = g.name
  <2>1. CASE Code!IsVariant(f) /\ Code!IsVariant(g)
    <3>1. f.oneof = g.oneof
      BY <1>2, <1>3, <2>1 DEF Code!CodeAssumption, Code!InMessageGetter
    <3> QED  BY <1>1, <2>1, <3>1 DEF Code!NotOneofOrFirst
  <2>2. CASE Code!IsVariant(f) /\ ~Code!IsVariant(g)
    BY <1>2, <1>3, <2>2 DEF Code!CodeAssumption, Code!InMessageGetter
  <2>3. CASE ~Code!IsVariant(f) /\ Code!IsVariant(g)
    BY <1>2, <1>3, <2>3 DEF Code!CodeAssumption, Code!InMessageGetter
  <2>4. CASE ~Code!IsVariant(f) /\ ~Code!IsVariant(g)
    BY <1>2, <1>3, <2>4 DEF Code!CodeAssumption, Code!InMessageGetter
  <2> QED  BY <2>1, <2>2, <2>3, <2>4
<1> QED  BY <1>1, <1>4 DEF FieldLists, f, g

-----------------------------------------------------------------------------
(* One field *)

(* The getter of the specification returns what the class declares.        *)
LEMMA ReadsFit ==
  ASSUME NEW f \in Code!Fields
  PROVE  /\ Code!UnwrapInVariant(f).type = Code!RefInVariant(f)
         /\ Code!UnwrapInMessage(f).type = Code!RefInMessage(f)
BY DEF Code!UnwrapInVariant, Code!UnwrapInMessage, Code!RefInMessage, Code!Access

LEMMA WritesFit ==
  ASSUME NEW f \in Code!Fields
  PROVE  /\ Code!UnwrapBuilderInMessage(f).type = Code!BuilderInMessage(f)
         /\ f.type = "message" =>
              Code!UnwrapBuilderInVariant(f).type = <<"callback", Code!BuilderInner(f)>>
         /\ f.type = "enum" =>
              /\ Code!UnwrapBuilderInVariant(f).type = <<"number">>
              /\ Code!BuilderInner(f)[1] = "Enum"
         /\ f.type \notin {"message", "enum"} =>
              Code!UnwrapBuilderInVariant(f).type = Code!BuilderInner(f)
         /\ Code!IsVariant(f) => Code!BuilderInVariant(f) = Code!BuilderInner(f)
<1>1. f.repeated \in BOOLEAN /\ (f.repeated => ~Code!IsVariant(f))
  BY DEF Code!Fields, Code!IsVariant
<1>2. ~f.repeated => Code!BuilderInVariant(f) = Code!BuilderInner(f)
  BY <1>1 DEF Code!BuilderInVariant
<1>3. Code!UnwrapBuilderInMessage(f).type = Code!BuilderInMessage(f)
  <2>1. CASE f.repeated
    BY <1>1, <2>1 DEF Code!UnwrapBuilderInMessage, Code!UnwrapBuilderRepeated,
                      Code!BuilderInMessage, Code!Access
  <2>2. CASE Code!IsVariant(f)
    BY <1>1, <2>2 DEF Code!UnwrapBuilderInMessage, Code!BuilderInMessage, Code!Access
  <2>3. CASE ~f.repeated /\ ~Code!IsVariant(f)
    BY <1>1, <1>2, <2>3 DEF Code!UnwrapBuilderInMessage, Code!BuilderInMessage, Code!Access
  <2> QED  BY <2>1, <2>2, <2>3
<1>4. /\ f.type = "message" =>
           Code!UnwrapBuilderInVariant(f).type = <<"callback", Code!BuilderInner(f)>>
      /\ f.type = "enum" =>
           /\ Code!UnwrapBuilderInVariant(f).type = <<"number">>
           /\ Code!BuilderInner(f)[1] = "Enum"
      /\ f.type \notin {"message", "enum"} =>
           Code!UnwrapBuilderInVariant(f).type = Code!BuilderInner(f)
  BY DEF Code!UnwrapBuilderInVariant, Code!BuilderInner, Code!Access
<1> QED  BY <1>1, <1>2, <1>3, <1>4

(* What as_dynamic() makes of the value of a getter of that type.          *)
KindOf(type) ==
  LET repeated == type[1] = "repeated"
      one      == IF repeated THEN type[2] ELSE type
  IN  CASE repeated /\ one[1] \in {"Ref", "Enum"}     -> "repeated_ref_to_dynamic"
        [] repeated /\ one[1] \notin {"Ref", "Enum"}  -> "repeated_to_dynamic"
        [] ~repeated /\ one[1] \in {"Ref", "Enum"}    -> "as_dynamic"
        [] ~repeated /\ one[1] \notin {"Ref", "Enum"} -> "value"

LEMMA DynamicFits ==
  ASSUME NEW f \in Code!Fields
  PROVE  /\ Code!ToDynamicInVariant(f) =
              <<KindOf(Code!RefInVariant(f)), Code!InVariantGetter(f)>>
         /\ Code!ToDynamicInMessage(f) =
              <<KindOf(Code!RefInMessage(f)), Code!InMessageGetter(f)>>
<1> DEFINE one == CASE f.type = "message" -> <<"Ref", f.of>>
                    [] f.type = "enum"    -> <<"Enum", f.of>>
                    [] f.type = "string"  -> <<"string_view">>
                    [] OTHER              -> <<f.type>>
           nested == f.type \in {"message", "enum"}
<1>1. /\ f.type \in {"int64", "string", "enum", "message", "map"}
      /\ f.repeated \in BOOLEAN /\ (f.repeated => ~Code!IsVariant(f))
  BY DEF Code!Fields, Code!IsVariant
<1>2. Code!RefInVariant(f) = IF f.repeated THEN <<"repeated", one>> ELSE one
  BY Zenon DEF Code!RefInVariant
<1>3. /\ one[1] # "repeated"
      /\ nested => one[1] \in {"Ref", "Enum"}
      /\ ~nested => one[1] \notin {"Ref", "Enum"}
  <2>1. CASE f.type = "message"
    BY <2>1
  <2>2. CASE f.type = "enum"
    BY <2>2
  <2>3. CASE f.type = "string"
    BY <2>3
  <2>4. CASE f.type \in {"int64", "map"}
    BY <2>4
  <2> QED  BY <1>1, <2>1, <2>2, <2>3, <2>4, Zenon
<1> HIDE DEF one
<1>4. ASSUME NEW getter
      PROVE  Code!ToDynamic(f, getter, nested) = <<KindOf(Code!RefInVariant(f)), getter>>
  <2>1. CASE f.repeated
    <3>1. Code!RefInVariant(f)[1] = "repeated" /\ Code!RefInVariant(f)[2] = one
      BY <1>2, <2>1
    <3>2. KindOf(Code!RefInVariant(f)) =
            IF nested THEN "repeated_ref_to_dynamic" ELSE "repeated_to_dynamic"
      BY <1>3, <3>1 DEF KindOf
    <3>3. Code!ToDynamic(f, getter, nested) =
            <<IF nested THEN "repeated_ref_to_dynamic" ELSE "repeated_to_dynamic", getter>>
      BY <2>1 DEF Code!ToDynamic
    <3> QED  BY <3>2, <3>3
  <2>2. CASE ~f.repeated
    <3>1. Code!RefInVariant(f) = one
      BY <1>2, <2>2
    <3>2. KindOf(Code!RefInVariant(f)) = IF nested THEN "as_dynamic" ELSE "value"
      BY <1>3, <3>1 DEF KindOf
    <3>3. Code!ToDynamic(f, getter, nested) = <<IF nested THEN "as_dynamic" ELSE "value", getter>>
      BY <2>2 DEF Code!ToDynamic
    <3> QED  BY <3>2, <3>3
  <2> QED  BY <1>1, <2>1, <2>2
<1>5. CASE Code!IsVariant(f)
  <2>1. Code!RefInMessage(f) = <<"Ref", f.oneof>>
    BY <1>5 DEF Code!RefInMessage
  <2>2. KindOf(Code!RefInMessage(f)) = "as_dynamic"
    BY <2>1 DEF KindOf
  <2>3. Code!ToDynamicInMessage(f) = <<"as_dynamic", Code!InMessageGetter(f)>>
    BY <1>1, <1>5 DEF Code!ToDynamicInMessage, Code!ToDynamic
  <2> QED  BY <1>4, <2>2, <2>3 DEF Code!ToDynamicInVariant
<1>6. CASE ~Code!IsVariant(f)
  <2>1. Code!RefInMessage(f) = Code!RefInVariant(f)
    BY <1>6 DEF Code!RefInMessage
  <2>2. Code!ToDynamicInMessage(f) = Code!ToDynamic(f, Code!InMessageGetter(f), nested)
    <3>1. (f.type = "message" \/ Code!IsVariant(f) \/ f.type = "enum") = nested
      BY <1>6
    <3> QED  BY <3>1, Zenon DEF Code!ToDynamicInMessage
  <2> QED  BY <1>4, <2>1, <2>2 DEF Code!ToDynamicInVariant
<1> QED  BY <1>5, <1>6

LEMMA InTuples ==
  ASSUME NEW a, NEW b, NEW c
  PROVE  /\ a \in Code!Range(<<a>>) /\ b \in Code!Range(<<a, b>>) /\ b \in Code!Range(<<a, b, c>>)
<1>1. /\ 1 \in DOMAIN <<a>> /\ 2 \in DOMAIN <<a, b>> /\ 2 \in DOMAIN <<a, b, c>>
      /\ <<a>>[1] = a /\ <<a, b>>[2] = b /\ <<a, b, c>>[2] = b
  OBVIOUS
<1> QED  BY <1>1 DEF Code!Range

(* A field that is not in a oneof, and one that is, go through accessors   *)
(* of their own.                                                           *)
LEMMA AccessorsNamed ==
  ASSUME NEW f \in Code!Fields, Code!IsSupported(f)
  PROVE  /\ Code!Escaped(f.name) \in Code!Range(Code!UnwrapInVariant(f).through)
         /\ Code!Escaped(f.name) \in Code!Range(Code!UnwrapBuilderInVariant(f).through)
         /\ ~Code!IsVariant(f) =>
              /\ Code!Escaped(f.name) \in Code!Range(Code!UnwrapInMessage(f).through)
              /\ Code!Escaped(f.name) \in Code!Range(Code!UnwrapBuilderInMessage(f).through)
<1> DEFINE g == Code!Escaped(f.name)
<1>1. Code!InVariantGetter(f) = g
  BY DEF Code!InVariantGetter
<1> HIDE DEF g
<1>2. g \in Code!Range(Code!UnwrapInVariant(f).through)
  <2>1. Code!UnwrapInVariant(f).through \in {<<"mutable", g>>, <<g>>}
    BY <1>1 DEF Code!UnwrapInVariant, Code!Access
  <2> QED  BY <2>1, InTuples
<1>3. g \in Code!Range(Code!UnwrapBuilderInVariant(f).through)
  <2>1. Code!UnwrapBuilderInVariant(f).through \in {<<"mutable", g>>, <<"set", g>>}
    BY <1>1 DEF Code!UnwrapBuilderInVariant, Code!Access
  <2> QED  BY <2>1, InTuples
<1>4. ASSUME ~Code!IsVariant(f)
      PROVE  /\ g \in Code!Range(Code!UnwrapInMessage(f).through)
             /\ g \in Code!Range(Code!UnwrapBuilderInMessage(f).through)
  <2>1. f.repeated \in BOOLEAN
    BY DEF Code!Fields
  <2>2. Code!UnwrapBuilderInMessage(f).through \in
          {<<"mutable", g, "Add">>, <<"add", g>>, <<"mutable", g>>, <<"set", g>>}
    BY <1>1, <1>4, <2>1 DEF Code!UnwrapBuilderInMessage, Code!UnwrapBuilderRepeated, Code!Access
  <2>3. Code!UnwrapInMessage(f) = Code!UnwrapInVariant(f)
    BY <1>4 DEF Code!UnwrapInMessage
  <2> QED  BY <1>2, <2>2, <2>3, InTuples
<1> QED  BY <1>2, <1>3, <1>4 DEF g

-----------------------------------------------------------------------------
(* The files *)

(* What is declared and filled, a line for each of n, matches.             *)
LEMMA MatchingLines ==
  ASSUME NEW n \in Nat, NEW d, NEW w, DOMAIN d = 1..n, DOMAIN w = 1..n,
         \A i \in 1..n : d[i].name = w[i].name,
         \A i, j \in 1..n : d[i].name = d[j].name => i = j,
         \A i \in 1..n : \/ w[i].type = d[i].type
                         \/ w[i].type = <<"number">> /\ d[i].type[1] = "Enum"
  PROVE  Code!Matches(d, w)
<1>1. Code!Names(d) = Code!Names(w)
  BY DEF Code!Names
<1>2. Code!IsInjective(Code!Names(d))
  BY DEF Code!Names, Code!IsInjective
<1> QED  BY <1>1, <1>2 DEF Code!Matches

(* It is made of what one of the declared getters returns.                 *)
MadeOf(d, made) ==
  \E k \in DOMAIN d : d[k].name = <<made[2]>> /\ made[1] = KindOf(d[k].type)

LEMMA MatchingDynamic ==
  ASSUME NEW n \in Nat, NEW d, NEW y, DOMAIN y = 1..n,
         \A i, j \in 1..n : y[i][1] = y[j][1] => i = j,
         \A i \in 1..n : MadeOf(d, y[i][2])
  PROVE  Code!DynamicMatches(d, y)
<1>1. Code!IsInjective([i \in DOMAIN y |-> y[i][1]])
  BY DEF Code!IsInjective
<1>2. ASSUME NEW i \in DOMAIN y
      PROVE  \E e \in Code!Range(d) : e.name = <<y[i][2][2]>> /\ y[i][2][1] = KindOf(e.type)
  <2>1. PICK k \in DOMAIN d : d[k].name = <<y[i][2][2]>> /\ y[i][2][1] = KindOf(d[k].type)
    BY Zenon DEF MadeOf
  <2>2. d[k] \in Code!Range(d)
    BY DEF Code!Range
  <2> QED  BY <2>1, <2>2
<1> QED  BY <1>1, <1>2, Zenon DEF Code!DynamicMatches, KindOf

LEMMA MessageLines ==
  ASSUME Code!CodeAssumption, NEW s \in FieldLists
  PROVE  LET fs     == Code!MessageFields(s)
             header == Code!MessageHeader(fs)
             source == Code!MessageSource(fs)
             spec   == Code!MessageSpec(fs)
         IN  /\ Code!Matches(header.ref, spec.ref)
             /\ Code!Matches(header.builder, spec.builder)
             /\ Code!DynamicMatches(header.ref, source.dynamic)
<1> DEFINE fs      == Code!MessageFields(s)
           declared == Code!MessageHeader(fs).ref
           setters  == Code!MessageHeader(fs).builder
           filled   == Code!MessageSpec(fs).ref
           written  == Code!MessageSpec(fs).builder
           dynamic  == Code!MessageSource(fs).dynamic
           n == Len(fs)
<1>1. /\ fs \in FieldLists /\ n \in Nat /\ DOMAIN fs = 1..n
      /\ \A i \in 1..n : fs[i] \in Code!Fields
  BY MessageList, ElementsOfFields
<1>2. \A i, j \in 1..n : Code!InMessageGetter(fs[i]) = Code!InMessageGetter(fs[j]) => i = j
  BY NamesOfMessage
<1>3. \A i, j \in 1..n : Code!InVariantGetter(fs[i]) = Code!InVariantGetter(fs[j]) => i = j
  BY <1>1, NamesOfVariants
<1> HIDE DEF fs
<1>4. declared = [i \in 1..n |-> Code!Slot(<<Code!InMessageGetter(fs[i])>>, Code!RefInMessage(fs[i]))]
  BY <1>1 DEF Code!MessageHeader, Code!Each
<1>5. setters = [i \in 1..n |-> Code!Slot(Code!SetSlot(fs[i]), Code!BuilderInMessage(fs[i]))]
  BY <1>1 DEF Code!MessageHeader, Code!Each
<1>6. filled = [i \in 1..n |-> Code!Fill(<<Code!InMessageGetter(fs[i])>>, Code!UnwrapInMessage(fs[i]))]
  BY <1>1 DEF Code!MessageSpec, Code!Each
<1>7. written = [i \in 1..n |-> Code!Fill(Code!SetSlot(fs[i]), Code!UnwrapBuilderInMessage(fs[i]))]
  BY <1>1 DEF Code!MessageSpec, Code!Each
<1>8. dynamic = [i \in 1..n |-> <<Code!InVariantGetter(fs[i]), Code!ToDynamicInMessage(fs[i])>>]
  BY <1>1 DEF Code!MessageSource, Code!Each
<1> HIDE DEF declared, setters, filled, written, dynamic, n
<1>9. Code!Matches(declared, filled)
  <2>1. /\ DOMAIN declared = 1..n /\ DOMAIN filled = 1..n
        /\ \A i \in 1..n : /\ declared[i].name = <<Code!InMessageGetter(fs[i])>>
                           /\ filled[i].name = declared[i].name
                           /\ declared[i].type = Code!RefInMessage(fs[i])
                           /\ filled[i].type = Code!UnwrapInMessage(fs[i]).type
    BY <1>4, <1>6 DEF Code!Slot, Code!Fill
  <2>2. \A i, j \in 1..n : declared[i].name = declared[j].name => i = j
    BY <1>2, <2>1 DEF n
  <2>3. \A i \in 1..n : filled[i].type = declared[i].type
    BY <1>1, <2>1, ReadsFit
  <2> QED  BY <1>1, <2>1, <2>2, <2>3, MatchingLines
<1>10. Code!Matches(setters, written)
  <2>1. /\ DOMAIN setters = 1..n /\ DOMAIN written = 1..n
        /\ \A i \in 1..n : /\ setters[i].name = Code!SetSlot(fs[i])
                           /\ written[i].name = setters[i].name
                           /\ setters[i].type = Code!BuilderInMessage(fs[i])
                           /\ written[i].type = Code!UnwrapBuilderInMessage(fs[i]).type
    BY <1>5, <1>7 DEF Code!Slot, Code!Fill
  <2>2. \A i, j \in 1..n : setters[i].name = setters[j].name => i = j
    <3> SUFFICES ASSUME NEW i \in 1..n, NEW j \in 1..n, Code!SetSlot(fs[i]) = Code!SetSlot(fs[j])
                 PROVE  i = j
      BY <2>1
    <3>1. Code!InMessageGetter(fs[i]) = Code!InMessageGetter(fs[j])
      BY DEF Code!SetSlot
    <3> QED  BY <1>2, <3>1
  <2>3. \A i \in 1..n : written[i].type = setters[i].type
    BY <1>1, <2>1, WritesFit
  <2> QED  BY <1>1, <2>1, <2>2, <2>3, MatchingLines
<1>11. Code!DynamicMatches(declared, dynamic)
  <2>1. ASSUME NEW i \in 1..n
        PROVE  MadeOf(declared, dynamic[i][2])
    <3>1. /\ i \in DOMAIN declared /\ declared[i].name = <<Code!InMessageGetter(fs[i])>>
          /\ declared[i].type = Code!RefInMessage(fs[i])
      BY <1>4 DEF Code!Slot
    <3>2. dynamic[i][2] = Code!ToDynamicInMessage(fs[i])
      BY <1>8
    <3>3. dynamic[i][2] = <<KindOf(declared[i].type), Code!InMessageGetter(fs[i])>>
      BY <1>1, <3>1, <3>2, DynamicFits
    <3>4. /\ dynamic[i][2][2] = Code!InMessageGetter(fs[i])
          /\ dynamic[i][2][1] = KindOf(declared[i].type)
      BY <3>3
    <3> QED  BY <3>1, <3>4, Zenon DEF MadeOf
  <2>2. DOMAIN dynamic = 1..n /\ \A i \in 1..n : dynamic[i][1] = Code!InVariantGetter(fs[i])
    BY <1>8
  <2>3. \A i, j \in 1..n : dynamic[i][1] = dynamic[j][1] => i = j
    BY <1>3, <2>2
  <2> QED  BY <1>1, <2>1, <2>2, <2>3, MatchingDynamic
<1> QED  BY <1>9, <1>10, <1>11 DEF declared, setters, filled, written, dynamic, fs
LEMMA RangeOfConcat ==
  ASSUME NEW S, NEW s \in Seq(S), NEW t \in Seq(S)
  PROVE  Range(s \o t) = Range(s) \cup Range(t)
<1> DEFINE u == s \o t
<1>1. /\ u \in Seq(S) /\ Len(s) \in Nat /\ Len(t) \in Nat /\ Len(u) = Len(s) + Len(t)
      /\ \A i \in 1..Len(u) : u[i] = IF i <= Len(s) THEN s[i] ELSE t[i - Len(s)]
  OBVIOUS
<1> HIDE DEF u
<1>2. /\ Range(s) = {s[i] : i \in 1..Len(s)} /\ Range(t) = {t[i] : i \in 1..Len(t)}
      /\ Range(u) = {u[i] : i \in 1..Len(u)}
  BY <1>1, RangeOfList
<1>3. \A i \in 1..Len(s) : i \in 1..Len(u) /\ u[i] = s[i]
  BY <1>1
<1>4. \A i \in 1..Len(t) : Len(s) + i \in 1..Len(u) /\ u[Len(s) + i] = t[i]
  <2> SUFFICES ASSUME NEW i \in 1..Len(t)
               PROVE  Len(s) + i \in 1..Len(u) /\ u[Len(s) + i] = t[i]
    OBVIOUS
  <2>1. /\ Len(s) + i \in 1..Len(u) /\ ~(Len(s) + i <= Len(s)) /\ (Len(s) + i) - Len(s) = i
    BY <1>1
  <2> QED  BY <1>1, <2>1
<1>5. \A i \in 1..Len(u) :
        \/ i \in 1..Len(s) /\ u[i] = s[i]
        \/ i - Len(s) \in 1..Len(t) /\ u[i] = t[i - Len(s)]
  BY <1>1
<1>6. Range(u) \subseteq Range(s) \cup Range(t)
  BY <1>2, <1>5
<1>7. Range(s) \subseteq Range(u) /\ Range(t) \subseteq Range(u)
  BY <1>2, <1>3, <1>4
<1> QED  BY <1>6, <1>7 DEF u

SetSlots(s) == {Code!SetSlot(f) : f \in Code!Range(s)}

(* The setters that are called directly and those that are called with a   *)
(* builder are the slots that are declared, with those of every message.   *)
LEMMA SettersCalled ==
  ASSUME NEW fs \in FieldLists
  PROVE  LET source == Code!MessageSource(fs)
             templ  == Code!MessageTemplates(fs)
             all    == SetSlots(fs) \cup Code!Range(Code!OfEveryBuilder)
         IN  /\ Code!Range(source.builder) \cup {c.slot : c \in Code!Range(templ.builder)} = all
             /\ Code!Range(Code!Names(Code!MessageHeader(fs).builder) \o Code!OfEveryBuilder) = all
<1> DEFINE every == Code!OfEveryBuilder
           plain == Code!Select(fs, LAMBDA f : ~Code!HasBuilder(f))
           built == Code!Select(fs, Code!HasBuilder)
           T == {Code!SetSlot(f) : f \in Code!Fields} \cup Code!Range(every)
           direct == [i \in 1..Len(plain) |-> Code!SetSlot(plain[i])]
           names  == [i \in 1..Len(fs) |-> Code!SetSlot(fs[i])]
           calls_ == Code!MessageTemplates(fs).builder
<1>1. every \in Seq(T)
  <2>1. every \in Seq(Code!Range(every))
    BY DEF Code!OfEveryBuilder, Code!Range
  <2> QED  BY <2>1
<1>2. /\ plain \in FieldLists
      /\ Code!Range(plain) = {f \in Code!Range(fs) : ~Code!HasBuilder(f)}
  <2> DEFINE S == {f \in Code!Range(fs) : ~Code!HasBuilder(f)}
  <2>1. plain = Code!Among(fs, S)
    BY DEF Code!Select
  <2>2. Code!Range(fs) \cap S = S
    OBVIOUS
  <2> HIDE DEF S, plain
  <2>3. plain \in FieldLists /\ Code!Range(plain) = S
    BY <2>1, <2>2, AmongFields
  <2> QED  BY <2>3 DEF S
<1>3. /\ built \in FieldLists
      /\ Code!Range(built) = {f \in Code!Range(fs) : Code!HasBuilder(f)}
  <2> DEFINE S == {f \in Code!Range(fs) : Code!HasBuilder(f)}
  <2>1. built = Code!Among(fs, S)
    BY DEF Code!Select
  <2>2. Code!Range(fs) \cap S = S
    OBVIOUS
  <2> HIDE DEF S, built
  <2>3. built \in FieldLists /\ Code!Range(built) = S
    BY <2>1, <2>2, AmongFields
  <2> QED  BY <2>3 DEF S
<1>4. Code!MessageSource(fs).builder = direct \o every
  <2>1. Code!MessageSource(fs).builder =
          [i \in DOMAIN plain |-> <<"set", Code!InMessageGetter(plain[i])>>] \o every
    BY DEF Code!MessageSource, Code!Each
  <2> HIDE DEF plain
  <2>2. DOMAIN plain = 1..Len(plain)
    BY <1>2, ElementsOfFields
  <2>3. \A i \in 1..Len(plain) : ~Code!HasBuilder(plain[i])
    BY <1>2, ElementsOfFields
  <2>4. \A i \in 1..Len(plain) : <<"set", Code!InMessageGetter(plain[i])>> = Code!SetSlot(plain[i])
    BY <2>3 DEF Code!SetSlot
  <2>5. [i \in DOMAIN plain |-> <<"set", Code!InMessageGetter(plain[i])>>] = direct
    BY <2>2, <2>4
  <2> QED  BY <2>1, <2>5
<1>5. calls_ = [i \in DOMAIN built |->
                  Code!Call(<<"set", Code!InMessageGetter(built[i])>>,
                            <<"construct", Code!InMessageGetter(built[i])>>)]
  BY DEF Code!MessageTemplates, Code!Each
<1>6. Code!Names(Code!MessageHeader(fs).builder) = names
  <2>1. Code!MessageHeader(fs).builder =
          [i \in DOMAIN fs |-> Code!Slot(Code!SetSlot(fs[i]), Code!BuilderInMessage(fs[i]))]
    BY DEF Code!MessageHeader, Code!Each
  <2> QED  BY <2>1, ElementsOfFields DEF Code!Names, Code!Slot
<1> HIDE DEF every, plain, built, T, calls_
<1>7. \A q \in FieldLists : \A i \in 1..Len(q) : Code!SetSlot(q[i]) \in T
  BY ElementsOfFields DEF T
<1>8. direct \in Seq(T) /\ Len(plain) \in Nat /\ names \in Seq(T) /\ Len(fs) \in Nat
  BY <1>2, <1>7, ElementsOfFields
<1>9. Range(direct) = SetSlots(plain) /\ Range(names) = SetSlots(fs)
  BY <1>2, ElementsOfFields DEF SetSlots, Range
<1> HIDE DEF direct, names
<1>10. /\ Code!Range(direct \o every) = SetSlots(plain) \cup Code!Range(every)
       /\ Code!Range(names \o every) = SetSlots(fs) \cup Code!Range(every)
  <2>1. \A q : Code!Range(q) = Range(q)
    BY DEF Code!Range, Range
  <2>2. /\ Range(direct \o every) = Range(direct) \cup Range(every)
        /\ Range(names \o every) = Range(names) \cup Range(every)
    BY <1>1, <1>8, RangeOfConcat
  <2> QED  BY <1>9, <2>1, <2>2
<1>11. {c.slot : c \in Code!Range(calls_)} = SetSlots(built)
  <2>1. /\ DOMAIN calls_ = 1..Len(built) /\ Code!Range(built) = {built[i] : i \in 1..Len(built)}
        /\ \A i \in 1..Len(built) : calls_[i].slot = Code!SetSlot(built[i])
    <3>1. DOMAIN built = 1..Len(built) /\ Code!Range(built) = {built[i] : i \in 1..Len(built)}
      BY <1>3, ElementsOfFields
    <3>2. \A i \in 1..Len(built) : Code!HasBuilder(built[i])
      BY <1>3, <3>1
    <3> QED  BY <1>5, <3>1, <3>2 DEF Code!Call, Code!SetSlot
  <2>2. {c.slot : c \in Code!Range(calls_)} = {calls_[i].slot : i \in 1..Len(built)}
    BY <2>1 DEF Code!Range
  <2>3. SetSlots(built) = {Code!SetSlot(built[i]) : i \in 1..Len(built)}
    BY <2>1 DEF SetSlots
  <2> QED  BY <2>1, <2>2, <2>3
<1>12. SetSlots(fs) = SetSlots(plain) \cup SetSlots(built)
  BY <1>2, <1>3 DEF SetSlots
<1> QED  BY <1>4, <1>6, <1>10, <1>11, <1>12 DEF calls_, every

LEMMA MessageIsAgreed ==
  ASSUME Code!CodeAssumption, fields \in FieldLists
  PROVE  Code!MessageAgrees
<1> DEFINE fs     == Code!MessageFields(fields)
           header == Code!MessageHeader(fs)
           templ  == Code!MessageTemplates(fs)
           source == Code!MessageSource(fs)
           spec   == Code!MessageSpec(fs)
           called == Code!Range(source.builder) \cup {c.slot : c \in Code!Range(templ.builder)}
           every  == Code!Range(Code!OfEveryBuilder)
<1>1. /\ fs \in FieldLists /\ Len(fs) \in Nat /\ DOMAIN fs = 1..Len(fs)
      /\ Code!Range(fs) = {fs[i] : i \in 1..Len(fs)}
      /\ Code!Range(fs) = {f \in Code!Range(fields) :
                             Code!IsSupported(f) /\ Code!NotOneofOrFirst(fields, f)}
  BY MessageList, ElementsOfFields
<1>2. /\ Code!Matches(header.ref, spec.ref) /\ Code!Matches(header.builder, spec.builder)
      /\ Code!DynamicMatches(header.ref, source.dynamic)
  BY MessageLines, Zenon
<1> HIDE DEF fs
<1>3. source.ref = Code!Names(header.ref) \o Code!OfEveryRef
  <2>1. Code!Names(header.ref) = [i \in DOMAIN fs |-> <<Code!InMessageGetter(fs[i])>>]
    BY DEF Code!MessageHeader, Code!Each, Code!Names, Code!Slot
  <2>2. source.ref = [i \in DOMAIN fs |-> <<Code!InMessageGetter(fs[i])>>] \o Code!OfEveryRef
    BY DEF Code!MessageSource, Code!Each
  <2> QED  BY <2>1, <2>2
<1>4. /\ called = SetSlots(fs) \cup every
      /\ Code!Range(Code!Names(header.builder) \o Code!OfEveryBuilder) = SetSlots(fs) \cup every
  BY <1>1, SettersCalled, Zenon
<1>5. /\ Code!Names(header.layered) = Code!Names(templ.layered)
      /\ \A c \in Code!Range(templ.layered) : c.slot \in SetSlots(fs)
  <2> DEFINE open == Code!Select(fs, LAMBDA f : ~Code!IsVariant(f))
             S == {f \in Code!Range(fs) : ~Code!IsVariant(f)}
  <2>1. /\ Code!Names(header.layered) = [i \in DOMAIN open |-> <<Code!InMessageGetter(open[i])>>]
        /\ Code!Names(templ.layered)  = [i \in DOMAIN open |-> <<Code!InMessageGetter(open[i])>>]
    BY DEF Code!MessageHeader, Code!MessageTemplates, Code!Each, Code!Names, Code!Slot, Code!Call
  <2>2. templ.layered = [i \in DOMAIN open |->
                           Code!Call(<<Code!InMessageGetter(open[i])>>, Code!SetSlot(open[i]))]
    BY DEF Code!MessageTemplates, Code!Each
  <2>3. open = Code!Among(fs, S)
    BY DEF Code!Select
  <2> HIDE DEF open, S, templ
  <2>4. Code!Range(open) \subseteq Code!Range(fs)
    BY <1>1, <2>3, AmongFields
  <2>5. ASSUME NEW c \in Code!Range(templ.layered)
        PROVE  c.slot \in SetSlots(fs)
    <3>1. PICK i \in DOMAIN open : c.slot = Code!SetSlot(open[i])
      BY <2>2 DEF Code!Range, Code!Call
    <3>2. open[i] \in Code!Range(fs)
      BY <2>4 DEF Code!Range
    <3> QED  BY <3>1, <3>2 DEF SetSlots
  <2> QED  BY <2>1, <2>5
<1>6. ASSUME NEW f \in Code!Range(fields), Code!IsSupported(f), ~Code!IsVariant(f)
      PROVE  Code!Reached(f, spec)
  <2>1. PICK i \in 1..Len(fs) : f = fs[i]
    BY <1>1, <1>6 DEF Code!NotOneofOrFirst
  <2>2. f \in Code!Fields
    BY ElementsOfFields
  <2>3. /\ i \in DOMAIN spec.ref /\ spec.ref[i].through = Code!UnwrapInMessage(f).through
        /\ i \in DOMAIN spec.builder
        /\ spec.builder[i].through = Code!UnwrapBuilderInMessage(f).through
    BY <1>1, <2>1 DEF Code!MessageSpec, Code!Each, Code!Fill
  <2> HIDE DEF spec
  <2>4. /\ Code!UnwrapInMessage(f).through \in Code!Through(spec.ref)
        /\ Code!UnwrapBuilderInMessage(f).through \in Code!Through(spec.builder)
    BY <2>3 DEF Code!Through
  <2>5. Code!Escaped(f.name) \in Code!Range(Code!UnwrapInMessage(f).through) \cap
                                 Code!Range(Code!UnwrapBuilderInMessage(f).through)
    BY <1>6, <2>2, AccessorsNamed
  <2> QED  BY <2>4, <2>5, Zenon DEF Code!Reached
<1> HIDE DEF header, templ, source, spec
<1>7. \A c \in Code!Range(templ.layered) : c.slot \in called
  BY <1>4, <1>5
<1>8. called = Code!Range(Code!Names(header.builder) \o Code!OfEveryBuilder)
  BY <1>4
<1> QED
  BY <1>2, <1>3, <1>5, <1>6, <1>7, <1>8, Zenon
  DEF Code!MessageAgrees, fs, header, templ, source, spec

-----------------------------------------------------------------------------
(* The files of a oneof *)

LEMMA Halves ==
  ASSUME NEW n \in Nat, NEW i \in 1..2 * n
  PROVE  \/ i % 2 = 1 /\ (i + 1) \div 2 \in 1..n /\ i = 2 * ((i + 1) \div 2) - 1
         \/ i % 2 # 1 /\ i \div 2 \in 1..n /\ i = 2 * (i \div 2)
OBVIOUS

LEMMA Doubles ==
  ASSUME NEW n \in Nat, NEW k \in 1..n
  PROVE  2 * k \in 1..2 * n /\ (2 * k) % 2 # 1 /\ (2 * k) \div 2 = k
OBVIOUS

LEMMA VariantReads ==
  ASSUME Code!CodeAssumption, NEW fs \in FieldLists
  PROVE  LET header == Code!VariantHeader(fs)
             source == Code!VariantSource(fs)
             spec   == Code!VariantSpec(fs)
         IN  /\ Code!Matches(header.ref, spec.ref)
             /\ source.ref = Code!Names(header.ref)
             /\ Code!DynamicMatches(header.ref, source.dynamic)
<1> DEFINE n == Len(fs)
           g(k) == Code!InVariantGetter(fs[k])
           declared == Code!VariantHeader(fs).ref
           filled   == Code!VariantSpec(fs).ref
           called   == Code!VariantSource(fs).ref
           dynamic  == Code!VariantSource(fs).dynamic
<1>1. n \in Nat /\ 2 * n \in Nat /\ DOMAIN fs = 1..n /\ \A k \in 1..n : fs[k] \in Code!Fields
  BY ElementsOfFields
<1>2. \A k, l \in 1..n : g(k) = g(l) => k = l
  BY NamesOfVariants
<1>3. declared = [i \in 1..2 * n |->
                    IF i % 2 = 1 THEN Code!Slot(<<"is", g((i + 1) \div 2)>>, <<"bool">>)
                    ELSE Code!Slot(<<g(i \div 2)>>, Code!RefInVariant(fs[i \div 2]))]
  BY DEF Code!VariantHeader, Code!EachTwo
<1>4. filled = [i \in 1..2 * n |->
                  IF i % 2 = 1
                    THEN Code!Fill(<<"is", g((i + 1) \div 2)>>,
                                   Code!Access(<<fs[(i + 1) \div 2].oneof, "case",
                                                 fs[(i + 1) \div 2].name>>, <<"bool">>))
                    ELSE Code!Fill(<<g(i \div 2)>>, Code!UnwrapInVariant(fs[i \div 2]))]
  BY DEF Code!VariantSpec, Code!EachTwo
<1>5. called = [i \in 1..2 * n |->
                  IF i % 2 = 1 THEN <<"is", g((i + 1) \div 2)>> ELSE <<g(i \div 2)>>]
  BY DEF Code!VariantSource, Code!EachTwo
<1>6. dynamic = [k \in 1..n |-> <<g(k), Code!ToDynamicInVariant(fs[k])>>]
  BY <1>1 DEF Code!VariantSource, Code!Each
<1> HIDE DEF declared, filled, called, dynamic, g, n
<1>7. /\ DOMAIN declared = 1..2 * n /\ DOMAIN filled = 1..2 * n
      /\ \A i \in 1..2 * n : declared[i].name = called[i] /\ filled[i].name = called[i]
  BY <1>3, <1>4, <1>5 DEF Code!Slot, Code!Fill
<1>8. \A i \in 1..2 * n : filled[i].type = declared[i].type
  <2> SUFFICES ASSUME NEW i \in 1..2 * n
               PROVE  filled[i].type = declared[i].type
    OBVIOUS
  <2>1. CASE i % 2 = 1
    BY <1>3, <1>4, <2>1 DEF Code!Slot, Code!Fill, Code!Access
  <2>2. CASE i % 2 # 1
    <3>1. fs[i \div 2] \in Code!Fields
      BY <1>1, <2>2, Halves
    <3>2. /\ filled[i].type = Code!UnwrapInVariant(fs[i \div 2]).type
          /\ declared[i].type = Code!RefInVariant(fs[i \div 2])
      BY <1>3, <1>4, <2>2 DEF Code!Slot, Code!Fill
    <3> QED  BY <3>1, <3>2, ReadsFit
  <2> QED  BY <2>1, <2>2
<1>9. ASSUME NEW i \in 1..2 * n, NEW j \in 1..2 * n, called[i] = called[j]
      PROVE  i = j
  <2>1. CASE i % 2 = 1 /\ j % 2 = 1
    <3>1. g((i + 1) \div 2) = g((j + 1) \div 2)
      BY <1>5, <1>9, <2>1
    <3>2. /\ (i + 1) \div 2 \in 1..n /\ i = 2 * ((i + 1) \div 2) - 1
          /\ (j + 1) \div 2 \in 1..n /\ j = 2 * ((j + 1) \div 2) - 1
      BY <1>1, <2>1, Halves
    <3> QED  BY <1>2, <3>1, <3>2
  <2>2. CASE i % 2 # 1 /\ j % 2 # 1
    <3>1. g(i \div 2) = g(j \div 2)
      BY <1>5, <1>9, <2>2
    <3>2. /\ i \div 2 \in 1..n /\ i = 2 * (i \div 2)
          /\ j \div 2 \in 1..n /\ j = 2 * (j \div 2)
      BY <1>1, <2>2, Halves
    <3> QED  BY <1>2, <3>1, <3>2
  <2>3. CASE i % 2 = 1 /\ j % 2 # 1
    <3>1. Len(called[i]) = 2 /\ Len(called[j]) = 1
      BY <1>5, <2>3
    <3> QED  BY <1>9, <3>1
  <2>4. CASE i % 2 # 1 /\ j % 2 = 1
    <3>1. Len(called[i]) = 1 /\ Len(called[j]) = 2
      BY <1>5, <2>4
    <3> QED  BY <1>9, <3>1
  <2> QED  BY <2>1, <2>2, <2>3, <2>4
<1>10. Code!Matches(declared, filled)
  <2>1. \A i, j \in 1..2 * n : declared[i].name = declared[j].name => i = j
    BY <1>7, <1>9
  <2> QED  BY <1>1, <1>7, <1>8, <2>1, MatchingLines
<1>11. called = Code!Names(declared)
  BY <1>5, <1>7 DEF Code!Names
<1>12. Code!DynamicMatches(declared, dynamic)
  <2>1. DOMAIN dynamic = 1..n /\ \A k \in 1..n : dynamic[k][1] = g(k)
    BY <1>6
  <2>2. ASSUME NEW k \in 1..n
        PROVE  MadeOf(declared, dynamic[k][2])
    <3>1. 2 * k \in 1..2 * n /\ (2 * k) % 2 # 1 /\ (2 * k) \div 2 = k
      BY <1>1, Doubles
    <3>2. /\ 2 * k \in DOMAIN declared /\ declared[2 * k].name = <<g(k)>>
          /\ declared[2 * k].type = Code!RefInVariant(fs[k])
      BY <1>3, <3>1 DEF Code!Slot
    <3>3. dynamic[k][2] = <<KindOf(declared[2 * k].type), g(k)>>
      BY <1>1, <1>6, <3>2, DynamicFits DEF g
    <3>4. /\ dynamic[k][2][2] = g(k)
          /\ dynamic[k][2][1] = KindOf(declared[2 * k].type)
      BY <3>3
    <3> QED  BY <3>2, <3>4, Zenon DEF MadeOf
  <2> QED  BY <1>1, <1>2, <2>1, <2>2, MatchingDynamic
<1> QED  BY <1>10, <1>11, <1>12 DEF declared, filled, called, dynamic

LEMMA VariantWrites ==
  ASSUME Code!CodeAssumption, NEW fs \in FieldLists,
         \A f \in Code!Range(fs) : Code!IsVariant(f)
  PROVE  LET header == Code!VariantHeader(fs)
             source == Code!VariantSource(fs)
             spec   == Code!VariantSpec(fs)
         IN  /\ Code!Matches(header.builder, spec.builder)
             /\ source.builder = Code!Names(header.builder)
<1> DEFINE n == Len(fs)
           g(k) == Code!InVariantGetter(fs[k])
           declared == Code!VariantHeader(fs).builder
           filled   == Code!VariantSpec(fs).builder
           called   == Code!VariantSource(fs).builder
<1>1. /\ n \in Nat /\ DOMAIN fs = 1..n
      /\ \A k \in 1..n : fs[k] \in Code!Fields /\ Code!IsVariant(fs[k])
  BY ElementsOfFields
<1>2. \A k, l \in 1..n : g(k) = g(l) => k = l
  BY NamesOfVariants
<1>3. declared = [k \in 1..n |-> Code!Slot(<<"set", g(k)>>,
                    IF fs[k].type = "message" THEN <<"callback", Code!BuilderInVariant(fs[k])>>
                    ELSE Code!BuilderInVariant(fs[k]))]
  BY <1>1 DEF Code!VariantHeader, Code!Each
<1>4. filled = [k \in 1..n |-> Code!Fill(<<"set", g(k)>>, Code!UnwrapBuilderInVariant(fs[k]))]
  BY <1>1 DEF Code!VariantSpec, Code!Each
<1>5. called = [k \in 1..n |-> <<"set", g(k)>>]
  BY <1>1 DEF Code!VariantSource, Code!Each
<1> HIDE DEF declared, filled, called, g, n
<1>6. /\ DOMAIN declared = 1..n /\ DOMAIN filled = 1..n
      /\ \A k \in 1..n : declared[k].name = <<"set", g(k)>> /\ filled[k].name = <<"set", g(k)>>
  BY <1>3, <1>4 DEF Code!Slot, Code!Fill
<1>7. ASSUME NEW k \in 1..n
      PROVE  \/ filled[k].type = declared[k].type
             \/ filled[k].type = <<"number">> /\ declared[k].type[1] = "Enum"
  <2> DEFINE f == fs[k]
  <2>1. /\ filled[k].type = Code!UnwrapBuilderInVariant(f).type
        /\ declared[k].type = IF f.type = "message" THEN <<"callback", Code!BuilderInVariant(f)>>
                              ELSE Code!BuilderInVariant(f)
    BY <1>3, <1>4 DEF Code!Slot, Code!Fill
  <2>2. /\ f.type = "message" =>
             Code!UnwrapBuilderInVariant(f).type = <<"callback", Code!BuilderInner(f)>>
        /\ f.type = "enum" =>
             /\ Code!UnwrapBuilderInVariant(f).type = <<"number">>
             /\ Code!BuilderInner(f)[1] = "Enum"
        /\ f.type \notin {"message", "enum"} =>
             Code!UnwrapBuilderInVariant(f).type = Code!BuilderInner(f)
        /\ Code!BuilderInVariant(f) = Code!BuilderInner(f)
    BY <1>1, WritesFit, Zenon
  <2> HIDE DEF f
  <2> QED  BY <2>1, <2>2
<1>8. Code!Matches(declared, filled)
  <2>1. \A k, l \in 1..n : declared[k].name = declared[l].name => k = l
    BY <1>2, <1>6
  <2>2. \A k \in 1..n : declared[k].name = filled[k].name
    BY <1>6
  <2> QED  BY <1>1, <1>6, <1>7, <2>1, <2>2, MatchingLines
<1>9. called = Code!Names(declared)
  BY <1>5, <1>6 DEF Code!Names
<1> QED  BY <1>8, <1>9 DEF declared, filled, called

(* The first alternative of a oneof is where the message has the oneof.    *)
LEMMA OneofInMessage ==
  ASSUME fields \in FieldLists, NEW f \in Code!Range(fields), Code!IsVariant(f)
  PROVE  LET parent == Code!MessageSpec(Code!MessageFields(fields))
         IN  <<"wrap", f.oneof>> \in Code!Through(parent.ref) \cap Code!Through(parent.builder)
<1> DEFINE fs  == Code!MessageFields(fields)
           all == Code!AllOf(fields, f.oneof)
           parent == Code!MessageSpec(fs)
<1>1. /\ fs \in FieldLists /\ DOMAIN fs = 1..Len(fs) /\ Code!Range(fs) = {fs[i] : i \in 1..Len(fs)}
      /\ Code!Range(fs) = {g \in Code!Range(fields) :
                             Code!IsSupported(g) /\ Code!NotOneofOrFirst(fields, g)}
  BY MessageList, ElementsOfFields
<1>2. /\ all \in FieldLists /\ Len(all) \in Nat
      /\ Code!Range(all) = {g \in Code!Range(fields) : g.oneof = f.oneof}
      /\ Code!Range(all) = {all[i] : i \in 1..Len(all)}
  BY AllOfList, ElementsOfFields
<1>3. 1 \in 1..Len(all)
  <2>1. PICK i \in 1..Len(all) : f = all[i]
    BY <1>2
  <2> QED  BY <1>2, <2>1
<1> DEFINE first == all[1]
<1>4. first \in Code!Range(fields) /\ first.oneof = f.oneof
  BY <1>2, <1>3
<1>5. first \in Code!Fields /\ Code!IsVariant(first) /\ ~first.repeated
  <2>1. first \in Code!Fields
    BY <1>4, ElementsOfFields
  <2> QED  BY <1>4, <2>1 DEF Code!Fields, Code!IsVariant
<1>6. Code!IsSupported(first) /\ Code!NotOneofOrFirst(fields, first)
  BY <1>4, <1>5 DEF Code!IsSupported, Code!Fields, Code!NotOneofOrFirst
<1> HIDE DEF fs, first
<1>7. PICK i \in 1..Len(fs) : first = fs[i]
  BY <1>1, <1>4, <1>6
<1>8. /\ i \in DOMAIN parent.ref /\ parent.ref[i].through = Code!UnwrapInMessage(first).through
      /\ i \in DOMAIN parent.builder
      /\ parent.builder[i].through = Code!UnwrapBuilderInMessage(first).through
  BY <1>1, <1>7 DEF Code!MessageSpec, Code!Each, Code!Fill
<1>9. /\ Code!UnwrapInMessage(first).through = <<"wrap", f.oneof>>
      /\ Code!UnwrapBuilderInMessage(first).through = <<"wrap", f.oneof>>
  BY <1>4, <1>5 DEF Code!UnwrapInMessage, Code!UnwrapBuilderInMessage, Code!Access
<1> HIDE DEF parent
<1>10. <<"wrap", f.oneof>> \in Code!Through(parent.ref) \cap Code!Through(parent.builder)
  BY <1>8, <1>9 DEF Code!Through
<1> QED  BY <1>10 DEF parent, fs

LEMMA VariantIsAgreed ==
  ASSUME Code!CodeAssumption, fields \in FieldLists,
         NEW f \in Code!Range(fields), Code!IsVariant(f)
  PROVE  Code!VariantAgrees(f.oneof)
<1> DEFINE fs     == Code!Alternatives(fields, f.oneof)
           header == Code!VariantHeader(fs)
           source == Code!VariantSource(fs)
           spec   == Code!VariantSpec(fs)
           parent == Code!MessageSpec(Code!MessageFields(fields))
<1>1. /\ fs \in FieldLists /\ Len(fs) \in Nat /\ DOMAIN fs = 1..Len(fs)
      /\ Code!Range(fs) = {fs[i] : i \in 1..Len(fs)}
      /\ Code!Range(fs) = {g \in Code!Range(fields) : g.oneof = f.oneof}
  BY AlternativesList, ElementsOfFields DEF Code!IsVariant
<1>2. \A g \in Code!Range(fs) : Code!IsVariant(g)
  BY <1>1 DEF Code!IsVariant
<1> HIDE DEF fs
<1>3. /\ Code!Matches(header.ref, spec.ref) /\ source.ref = Code!Names(header.ref)
      /\ Code!DynamicMatches(header.ref, source.dynamic)
  BY <1>1, VariantReads, Zenon
<1>4. Code!Matches(header.builder, spec.builder) /\ source.builder = Code!Names(header.builder)
  BY <1>1, <1>2, VariantWrites, Zenon
<1>5. <<"wrap", f.oneof>> \in Code!Through(parent.ref) \cap Code!Through(parent.builder)
  BY OneofInMessage, Zenon
<1>6. ASSUME NEW h \in Code!Range(fs)
      PROVE  Code!Reached(h, spec)
  <2>1. PICK k \in 1..Len(fs) : h = fs[k]
    BY <1>1
  <2>2. h \in Code!Fields
    BY <1>1, ElementsOfFields
  <2>3. Code!IsSupported(h)
    BY <1>2, <2>2 DEF Code!IsSupported, Code!Fields, Code!IsVariant
  <2>4. 2 * k \in 1..2 * Len(fs) /\ (2 * k) % 2 # 1 /\ (2 * k) \div 2 = k
    BY <1>1, Doubles
  <2>5. 2 * k \in DOMAIN spec.ref /\ spec.ref[2 * k].through = Code!UnwrapInVariant(h).through
    BY <2>1, <2>4 DEF Code!VariantSpec, Code!EachTwo, Code!Fill
  <2>6. k \in DOMAIN spec.builder
        /\ spec.builder[k].through = Code!UnwrapBuilderInVariant(h).through
    BY <1>1, <2>1 DEF Code!VariantSpec, Code!Each, Code!Fill
  <2> HIDE DEF spec
  <2>7. /\ Code!UnwrapInVariant(h).through \in Code!Through(spec.ref)
        /\ Code!UnwrapBuilderInVariant(h).through \in Code!Through(spec.builder)
    BY <2>5, <2>6 DEF Code!Through
  <2>8. Code!Escaped(h.name) \in Code!Range(Code!UnwrapInVariant(h).through) \cap
                                 Code!Range(Code!UnwrapBuilderInVariant(h).through)
    BY <2>2, <2>3, AccessorsNamed
  <2> QED  BY <2>7, <2>8, Zenon DEF Code!Reached
<1> HIDE DEF header, source, spec, parent
<1> QED
  BY <1>3, <1>4, <1>5, <1>6, Zenon
  DEF Code!VariantAgrees, fs, header, source, spec, parent

(* A message has fields that protoc accepts, and each has a name of its    *)
(* own.                                                                    *)
THEOREM CodeTypeCorrect == Code!Spec => []Code!TypeOK
<1>1. Code!Init => Code!TypeOK
  BY DEF Code!Init, Code!TypeOK
<1>2. ASSUME Code!TypeOK, [Code!Next]_fields
      PROVE  Code!TypeOK'
  <2>1. CASE UNCHANGED fields
    BY <1>2, <2>1 DEF Code!TypeOK
  <2>2. ASSUME NEW f \in Code!Fields, Code!AddField(f)
        PROVE  Code!TypeOK'
    <3>1. fields' = Append(fields, f) /\ \A g \in Code!Range(fields) : g.name # f.name
      BY <2>2 DEF Code!AddField
    <3>2. /\ Len(fields) \in Nat /\ fields \in Seq(Code!Fields)
          /\ \A i \in 1..Len(fields) : fields[i].name # f.name
          /\ \A i, j \in 1..Len(fields) : fields[i].name = fields[j].name => i = j
      BY <1>2, <3>1 DEF Code!TypeOK, Code!Range
    <3>3. /\ fields' \in Seq(Code!Fields) /\ Len(fields') = Len(fields) + 1
          /\ fields'[Len(fields) + 1] = f
          /\ \A i \in 1..Len(fields) : fields'[i] = fields[i]
      BY <3>1, <3>2
    <3>4. \A i \in 1..Len(fields') : i = Len(fields) + 1 \/ i \in 1..Len(fields)
      BY <3>2, <3>3
    <3>5. \A i, j \in 1..Len(fields') : fields'[i].name = fields'[j].name => i = j
      BY <3>2, <3>3, <3>4
    <3> QED  BY <3>3, <3>5 DEF Code!TypeOK
  <2> QED  BY <1>2, <2>1, <2>2 DEF Code!Next
<1> QED  BY <1>1, <1>2, PTL DEF Code!Spec

LEMMA CodeAgrees ==
  ASSUME Code!CodeAssumption
  PROVE  Code!Spec => []Code!GeneratedCodeAgrees
<1>1. ASSUME Code!TypeOK
      PROVE  Code!GeneratedCodeAgrees
  <2>1. fields \in FieldLists
    BY <1>1 DEF Code!TypeOK, FieldLists
  <2> QED  BY <2>1, MessageIsAgreed, VariantIsAgreed, Zenon DEF Code!GeneratedCodeAgrees
<1> QED  BY <1>1, CodeTypeCorrect, PTL

-----------------------------------------------------------------------------
(* The components together *)

(* Each takes its own steps, or none. *)
LEMMA PartsImplementComponents ==
  PartsSpec => Book!Spec /\ Layered!Spec /\ Code!Spec
<1>1. PartsInit => Book!Init /\ Layered!Init /\ Code!Init
  BY DEF PartsInit
<1>2. [PartsNext]_partVars => [Book!Next]_Book!bookVars
  BY DEF PartsNext, partVars, bookVars, Book!bookVars
<1>3. [PartsNext]_partVars => [Layered!Next]_Layered!layeredVars
  BY DEF PartsNext, partVars, layeredVars, Layered!layeredVars
<1>4. [PartsNext]_partVars => [Code!Next]_fields
  BY DEF PartsNext, partVars
<1> QED  BY <1>1, <1>2, <1>3, <1>4, PTL DEF PartsSpec, Book!Spec, Layered!Spec, Code!Spec

(* Bytes restore the book they were made of, bytes after bytes are merged, *)
(* and ByteSizeLong announces as many as serialize() writes.               *)
THEOREM BytesFaithful == PartsSpec => []WireFaithful
<1>1. Book!Spec => []Book!WireFaithful
  BY BookBytesFaithful, PartsAssumption
<1>2. Book!WireFaithful => WireFaithful
  BY DEF WireFaithful
<1> QED  BY <1>1, <1>2, PartsImplementComponents, PTL

(* A read goes through mutable_ accessors and changes nothing that a       *)
(* reader sees.                                                            *)
THEOREM ReadingKeepsContents == PartsSpec => ReadsKeepContents
<1>1. Book!Spec => Book!ReadsKeepContents
  BY BookReadingKeepsContents, PartsAssumption
<1> QED  BY <1>1, PartsImplementComponents, PTL DEF ReadsKeepContents

(* A builder, however long the chain was and whatever was pushed or moved  *)
(* since, changes the message that the calls which made it name, and the   *)
(* builder it came from is alive unless it was saved without it.           *)
THEOREM BuildersReach == PartsSpec => []BuildersReachTheirMessage
<1>1. Layered!Spec => []Layered!BuildersReachTheirMessage
  BY LayeredBuildersReach, PartsAssumption
<1>2. Layered!BuildersReachTheirMessage => BuildersReachTheirMessage
  BY DEF BuildersReachTheirMessage
<1> QED  BY <1>1, <1>2, PartsImplementComponents, PTL

(* The files that the compiler writes agree, whatever fields a message has *)
(* and whatever they are called.                                           *)
THEOREM FilesAgree == PartsSpec => []GeneratedCodeAgrees
<1>1. Code!Spec => []Code!GeneratedCodeAgrees
  BY CodeAgrees, PartsAssumption
<1>2. Code!GeneratedCodeAgrees => GeneratedCodeAgrees
  BY DEF GeneratedCodeAgrees
<1> QED  BY <1>1, <1>2, PartsImplementComponents, PTL

=============================================================================
