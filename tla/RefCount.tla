----------------------------- MODULE RefCount -----------------------------
(***************************************************************************)
(* utility/ref_counted and utility/intrusive_ptr: objects that count their *)
(* references and delete themselves.  Each thread owns some intrusive_ptr  *)
(* variables and uses only those; a pointer gets to another thread by a    *)
(* move, as a captured or queued value does.  The test for uniqueness, the *)
(* decrement and the deletion of deref() are steps of their own.           *)
(***************************************************************************)
EXTENDS Integers, FiniteSets

CONSTANTS
  Threads,
  PerThread,    \* how many intrusive_ptr variables a thread has
  Objects,      \* addresses of ref_counted objects
  nullptr

ASSUME RefCountAssumption ==
  /\ IsFiniteSet(Threads)
  /\ PerThread \in Nat
  /\ nullptr \notin Objects

VARIABLES
  live,         \* the objects that exist
  rc,           \* rc[o]    : ref_counted::rc_
  ptr,          \* ptr[s]   : intrusive_ptr::ptr_ of the variable s
  stage,        \* stage[t] : where thread t is
  held          \* held[t]  : the raw pointer it works with there

vars == <<live, rc, ptr, stage, held>>

Own(t) == {t} \X (1..PerThread)
Slots  == Threads \X (1..PerThread)
Stage == {"idle", "new", "deref", "decrement", "delete"}

(* The references to an object: the variables that point to it, and the    *)
(* deref() calls that have not yet taken theirs away.                      *)
Pointing(o)  == {s \in Slots : ptr[s] = o}
Releasing(o) == {t \in Threads : stage[t] \in {"deref", "decrement"} /\ held[t] = o}

Goto(t, to, o) ==
  /\ stage' = [stage EXCEPT ![t] = to]
  /\ held'  = [held EXCEPT ![t] = o]

Init ==
  /\ live  = {}
  /\ rc    = [o \in Objects |-> 0]
  /\ ptr   = [s \in Slots |-> nullptr]
  /\ stage = [t \in Threads |-> "idle"]
  /\ held  = [t \in Threads |-> nullptr]

(* new T: nobody points to the object yet. *)
New(t) ==
  /\ stage[t] = "idle"
  /\ \E o \in Objects \ live :
       /\ live' = live \cup {o}
       /\ rc'   = [rc EXCEPT ![o] = 0]
       /\ Goto(t, "new", o)
  /\ UNCHANGED ptr

(* intrusive_ptr(raw): ref() by the first variable of the new object. *)
Adopt(t) ==
  /\ stage[t] = "new"
  /\ \E s \in Own(t) :
       /\ ptr[s] = nullptr
       /\ ptr' = [ptr EXCEPT ![s] = held[t]]
  /\ rc' = [rc EXCEPT ![held[t]] = @ + 1]
  /\ Goto(t, "idle", nullptr)
  /\ UNCHANGED live

(* The copy constructor, or a guard made from a raw `this' that some       *)
(* variable of the thread keeps alive.                                     *)
Copy(t) ==
  /\ stage[t] = "idle"
  /\ \E s, d \in Own(t) :
       /\ ptr[s] # nullptr /\ ptr[d] = nullptr
       /\ ptr' = [ptr EXCEPT ![d] = ptr[s]]
       /\ rc'  = [rc EXCEPT ![ptr[s]] = @ + 1]
  /\ UNCHANGED <<live, stage, held>>

(* The move constructor: detach() leaves the source null. *)
Move(t) ==
  /\ stage[t] = "idle"
  /\ \E s \in Own(t), d \in Slots :
       /\ ptr[s] # nullptr /\ ptr[d] = nullptr
       /\ ptr' = [ptr EXCEPT ![d] = ptr[s], ![s] = nullptr]
  /\ UNCHANGED <<live, rc, stage, held>>

(* reset() and the assignments: the new reference is taken first, then the *)
(* old one is released, by deref() of what the variable pointed to.  The   *)
(* destructor is the case of no new reference.                             *)
Reset_NoAddRef(t) ==
  /\ stage[t] = "idle"
  /\ \E s \in Own(t), new \in {ptr[d] : d \in Own(t)} \cup {nullptr} :
       /\ ptr[s] # nullptr
       /\ ptr' = [ptr EXCEPT ![s] = new]
       /\ Goto(t, "deref", ptr[s])
  /\ UNCHANGED <<live, rc>>
Reset(t) ==
  /\ stage[t] = "idle"
  /\ \E s \in Own(t), new \in {ptr[d] : d \in Own(t)} \cup {nullptr} :
       /\ ptr[s] # nullptr
       /\ ptr' = [ptr EXCEPT ![s] = new]
       /\ rc'  = IF new = nullptr THEN rc ELSE [rc EXCEPT ![new] = @ + 1]
       /\ Goto(t, "deref", ptr[s])
  /\ UNCHANGED live

(* deref(): the only reference needs no decrement. *)
TestUnique(t) ==
  /\ stage[t] = "deref"
  /\ Goto(t, IF rc[held[t]] = 1 THEN "delete" ELSE "decrement", held[t])
  /\ UNCHANGED <<live, rc, ptr>>

(* deref(): fetch_sub, whose result says whether it was the last. *)
Decrement_LooksAgain(t) ==
  /\ stage[t] = "decrement"
  /\ rc' = [rc EXCEPT ![held[t]] = @ - 1]
  /\ IF rc[held[t]] \in {1, 2} THEN Goto(t, "delete", held[t]) ELSE Goto(t, "idle", nullptr)
  /\ UNCHANGED <<live, ptr>>
Decrement(t) ==
  /\ stage[t] = "decrement"
  /\ rc' = [rc EXCEPT ![held[t]] = @ - 1]
  /\ IF rc[held[t]] = 1 THEN Goto(t, "delete", held[t]) ELSE Goto(t, "idle", nullptr)
  /\ UNCHANGED <<live, ptr>>

Delete(t) ==
  /\ stage[t] = "delete"
  /\ live' = live \ {held[t]}
  /\ Goto(t, "idle", nullptr)
  /\ UNCHANGED <<rc, ptr>>

Next ==
  \E t \in Threads :
    \/ New(t) \/ Adopt(t) \/ Copy(t) \/ Move(t) \/ Reset(t)
    \/ TestUnique(t) \/ Decrement(t) \/ Delete(t)

Spec == Init /\ [][Next]_vars

-----------------------------------------------------------------------------
RefTypeOK ==
  /\ live \subseteq Objects
  /\ rc \in [Objects -> Nat]
  /\ ptr \in [Slots -> Objects \cup {nullptr}]
  /\ stage \in [Threads -> Stage]
  /\ held \in [Threads -> Objects \cup {nullptr}]
  /\ \A t \in Threads : stage[t] # "idle" => held[t] \in live

(* While nobody deletes an object, its count is the number of references,  *)
(* though deref() tests and decrements in two steps: a reference is never  *)
(* lost, which would leak the object, nor counted twice.                   *)
CountsReferences ==
  \A o \in live :
    (\A t \in Threads : stage[t] = "delete" => held[t] # o) =>
      rc[o] = Cardinality(Pointing(o)) + Cardinality(Releasing(o))

(* Nobody points to an object that is gone, and the thread that deletes    *)
(* one is alone with it: it is deleted once, and not under anybody's feet. *)
DeletedUnreferenced ==
  /\ \A s \in Slots : ptr[s] # nullptr => ptr[s] \in live
  /\ \A t \in Threads : stage[t] = "delete" =>
       /\ Pointing(held[t]) = {}
       /\ \A u \in Threads \ {t} : stage[u] # "idle" => held[u] # held[t]

(* The comment of the class says "*All* instances of `ref_counted` start   *)
(* with a reference count of 1".                                           *)
StartsAtOne ==
  [][\A o \in live' \ live : rc'[o] = 1]_vars

=============================================================================
