----------------------- MODULE SequenceBarrierProofs -----------------------
(***************************************************************************)
(* SequenceBarrier, for any consumers and any numbers.                     *)
(*                                                                         *)
(* Whoever publishes: an operation is linked in one list, once, from when  *)
(* its coroutine waits to when it is resumed.                              *)
(*                                                                         *)
(* With the single producer that the class asks for, and numbers that stay *)
(* within half a word of each other: nothing waits in the barrier for a    *)
(* number that is published unless a thread is about to look, and what     *)
(* co_await returns covers the target.  All is said of lags: by how much   *)
(* the last published number is past another one.                          *)
(*                                                                         *)
(* With producers that overtake each other, for CoroScope: what is resumed *)
(* waited for a number below any bound of those published.                 *)
(***************************************************************************)
EXTENDS SequenceBarrier, SequenceLemmas

Operation == [state  : {"none", "suspending", "suspended", "resumed"},
              target : Sequence, known : Sequence, ready : BOOLEAN]

Local == [pc       : {"idle", "load", "take", "push", "resume", "suspend"},
          sequence : Sequence, requeue : Seq(Consumers), resume : Seq(Consumers)]

Typed ==
  /\ last_published \in Sequence
  /\ awaiters \in Seq(Consumers)
  /\ op \in [Consumers -> Operation]
  /\ thread \in [Threads -> Local]
  /\ published \in 0..MaxPublished

NoRepeat(q) == \A i, j \in 1..Len(q) : q[i] = q[j] => i = j

InBarrier    == Range(awaiters)
Requeued(t)  == Range(thread[t].requeue)
Resuming(t)  == Range(thread[t].resume)
Held(t)      == Requeued(t) \cup Resuming(t)
Linked(c)    == c \in InBarrier \/ \E t \in Threads : c \in Held(t)

(* No list repeats an operation, and no two lists share one.               *)
Apart ==
  /\ NoRepeat(awaiters)
  /\ \A t \in Threads :
       /\ NoRepeat(thread[t].requeue) /\ NoRepeat(thread[t].resume)
       /\ Requeued(t) \cap Resuming(t) = {}
       /\ InBarrier \cap Held(t) = {}
       /\ \A u \in Threads : t # u => Held(t) \cap Held(u) = {}

(* What the local variables of publish() and add_awaiter() hold, and when. *)
Locals ==
  /\ \A t \in Threads :
       /\ thread[t].requeue # <<>> => thread[t].pc = "push"
       /\ thread[t].resume # <<>> => thread[t].pc \in {"load", "take", "push", "resume"}
  /\ \A p \in Producers :
       /\ thread[p].pc # "suspend"
       /\ thread[p].pc \in {"load", "take"} => thread[p].resume = <<>>
  /\ \A c \in Consumers :
       thread[c].pc # "idle" <=> op[c].state = "suspending"

Unclaimed(c) ==
  op[c].state = "suspended" \/ (op[c].state = "suspending" /\ ~op[c].ready)

IInv ==
  /\ Typed
  /\ Apart
  /\ Locals
  /\ \A c \in Consumers : op[c].state = "suspended" => op[c].ready
  /\ \A c \in Consumers : Unclaimed(c) <=> Linked(c)

-----------------------------------------------------------------------------
(* The numbers *)

OneProducer == \A p, q \in Producers : p = q

(* The numbers that are published, by at most m more than the one before,  *)
(* and the targets, at most a away from one, lie within half a word.       *)
Within(m, a) ==
  /\ Strides \subseteq 1..m
  /\ Ahead \subseteq (-a)..a
  /\ MaxPublished * m + a < Word \div 2

Used(m) == published * m

Lag(n)        == difference(last_published, n)
Due(c)        == Lag(op[c].target)
Behindhand(t) == Lag(thread[t].sequence)

Waiting(c) == op[c].state \in {"suspending", "suspended"}
Decided(c) == op[c].state = "resumed" \/ (op[c].state = "suspending" /\ op[c].ready)

(* What an operation is for, and what it returns.                          *)
OpFine(m, a, c) ==
  /\ Waiting(c) => Due(c) \in (-a)..Used(m)
  /\ Decided(c) => Lag(op[c].known) \in 0..Used(m) /\ ~precedes(op[c].known, op[c].target)

(* The number by which a thread sorts, or by which it looks again.         *)
ThreadFine(m, a, t) ==
  /\ t \in Producers /\ thread[t].pc # "idle" => thread[t].sequence = last_published
  /\ t \in Consumers /\ thread[t].pc \in {"push", "load"} => Behindhand(t) \in (-a)..Used(m)
  /\ t \in Consumers /\ thread[t].pc \in {"take", "resume"} => Behindhand(t) \in 0..Used(m)

Numbers(m, a) ==
  /\ \A c \in Consumers : OpFine(m, a, c)
  /\ \A t \in Threads : ThreadFine(m, a, t)

(* What is put back is not published yet, or it is due no sooner than the  *)
(* number by which add_awaiter() looks again; what is to be resumed is     *)
(* published, and it was when the list was sorted.                         *)
ThreadSorted(t) ==
  /\ t \in Producers => \A d \in Requeued(t) : Due(d) < 0
  /\ t \in Consumers => \A d \in Requeued(t) : Due(d) <= Behindhand(t)
  /\ \A d \in Resuming(t) : Due(d) >= 0
  /\ t \in Consumers /\ thread[t].pc \in {"take", "resume"} =>
       \A d \in Resuming(t) : Due(d) >= Behindhand(t)

Sorted == \A t \in Threads : ThreadSorted(t)

WillTake(t) ==
  \/ thread[t].pc = "take"
  \/ thread[t].pc = "load" /\ (t \in Producers \/ Behindhand(t) >= 0)

Covered == \A d \in InBarrier : Due(d) >= 0 => \E t \in Threads : WillTake(t)

NInv(m, a) == IInv /\ Numbers(m, a) /\ Sorted /\ Covered

-----------------------------------------------------------------------------
(* Numbers and lists *)

LEMMA WordNumber ==
  ASSUME SequenceBarrierAssumption, NEW x \in Int
  PROVE  x % Word \in Sequence
BY DEF SequenceBarrierAssumption, Sequence

LEMMA DifferenceType ==
  ASSUME SequenceBarrierAssumption, NEW x \in Int, NEW y \in Int
  PROVE  /\ difference(x, y) \in (-(Word \div 2))..(Word \div 2 - 1)
         /\ difference(x, y) \in Int
<1> DEFINE d == (x - y) % Word
<1>1. d \in 0..(Word - 1) /\ Word \in Nat /\ Word = 2 * (Word \div 2)
  BY WordNumber DEF SequenceBarrierAssumption, Sequence
<1>2. difference(x, y) = IF d < Word \div 2 THEN d ELSE d - Word
  BY DEF difference
<1> HIDE DEF d
<1> QED  BY <1>1, <1>2

(* The earliest of some targets is one of them, and no other is earlier.   *)
LEMMA EarliestOf ==
  ASSUME SequenceBarrierAssumption, NEW known \in Sequence,
         op \in [Consumers -> Operation],
         NEW list \in Seq(Consumers), list # <<>>
  PROVE  \E c \in Range(list) :
           /\ Earliest(list, known) = (known + difference(op[c].target, known)) % Word
           /\ \A d \in Range(list) :
                difference(op[c].target, known) <= difference(op[d].target, known)
<1> DEFINE D(i) == difference(op[list[i]].target, known)
           S == {D(i) : i \in 1..Len(list)}
<1>1. /\ Len(list) \in Nat \ {0} /\ Range(list) = {list[i] : i \in 1..Len(list)}
      /\ \A i \in 1..Len(list) : list[i] \in Consumers
  BY RangeOfList, HeadTailRange
<1>2. \A i \in 1..Len(list) : D(i) \in Int /\ D(i) >= -(Word \div 2)
  <2> TAKE i \in 1..Len(list)
  <2>1. op[list[i]].target \in Int /\ known \in Int
    BY <1>1 DEF Operation, Sequence, SequenceBarrierAssumption
  <2>2. D(i) \in (-(Word \div 2))..(Word \div 2 - 1) /\ D(i) \in Int
    BY <2>1, DifferenceType
  <2>3. Word \div 2 \in Int
    BY DEF SequenceBarrierAssumption
  <2> HIDE DEF D
  <2> QED  BY <2>2, <2>3
<1>3. \E m \in S : \A y \in S : m <= y
  <2>1. D(1) \in S
    BY <1>1
  <2>2. S \subseteq Int /\ \A y \in S : y >= -(Word \div 2)
    BY <1>2
  <2>3. -(Word \div 2) \in Int
    BY DEF SequenceBarrierAssumption
  <2> HIDE DEF S, D
  <2> QED  BY <2>1, <2>2, <2>3, LeastOf
<1>4. Min(S) \in S /\ \A y \in S : Min(S) <= y
  BY <1>3 DEF Min
<1>5. PICK i \in 1..Len(list) : Min(S) = D(i)
  BY <1>4
<1>6. Earliest(list, known) = (known + D(i)) % Word
  BY <1>5 DEF Earliest
<1>7. \A d \in Range(list) : D(i) <= difference(op[d].target, known)
  BY <1>1, <1>4, <1>5
<1> QED  BY <1>1, <1>6, <1>7

-----------------------------------------------------------------------------
(* The steps, and the lists *)

LEMMA IdleLocal ==
  ASSUME SequenceBarrierAssumption
  PROVE  /\ Idle \in Local
         /\ Idle.pc = "idle" /\ Idle.requeue = <<>> /\ Idle.resume = <<>>
<1>1. 0 \in Sequence
  BY DEF Sequence, SequenceBarrierAssumption
<1> QED  BY <1>1, EmptySeq DEF Idle, Local

(* A step that changes no list, and no claim to an operation.              *)
LEMMA ListsStay ==
  ASSUME IInv, Typed', Locals', InBarrier' = InBarrier, awaiters' = awaiters,
         \A t \in Threads : /\ thread'[t].requeue = thread[t].requeue
                            /\ thread'[t].resume = thread[t].resume,
         \A c \in Consumers : Unclaimed(c)' <=> Unclaimed(c),
         \A c \in Consumers : op'[c].state = "suspended" => op'[c].ready
  PROVE  IInv'
<1>1. \A t \in Threads : /\ Requeued(t)' = Requeued(t) /\ Resuming(t)' = Resuming(t)
                         /\ Held(t)' = Held(t)
  BY DEF Requeued, Resuming, Held
<1>2. \A c \in Consumers : Linked(c)' <=> Linked(c)
  BY <1>1 DEF Linked
<1>3. Apart'
  BY <1>1 DEF IInv, Apart
<1> QED  BY <1>2, <1>3 DEF IInv

(* A step by which a thread and the barrier share out what they had, or    *)
(* what is linked nowhere.                                                 *)
LEMMA ShareOut ==
  ASSUME Apart, NEW t \in Threads,
         \A u \in Threads \ {t} : thread'[u] = thread[u],
         NoRepeat(awaiters'), NoRepeat(thread'[t].requeue), NoRepeat(thread'[t].resume),
         Requeued(t)' \cap Resuming(t)' = {}, InBarrier' \cap Held(t)' = {},
         \A x \in InBarrier' \cup Held(t)' : x \in InBarrier \cup Held(t) \/ ~Linked(x)
  PROVE  /\ Apart'
         /\ \A x : Linked(x)' <=> \/ x \in InBarrier' \cup Held(t)'
                                  \/ Linked(x) /\ x \notin InBarrier \cup Held(t)
<1>1. \A u \in Threads \ {t} :
        Requeued(u)' = Requeued(u) /\ Resuming(u)' = Resuming(u) /\ Held(u)' = Held(u)
  BY DEF Requeued, Resuming, Held
<1>2. \A u \in Threads \ {t} : Held(u) \cap (InBarrier' \cup Held(t)') = {}
  BY DEF Apart, Linked
<1>3. \A u \in Threads \ {t} :
        /\ NoRepeat(thread'[u].requeue) /\ NoRepeat(thread'[u].resume)
        /\ Requeued(u)' \cap Resuming(u)' = {} /\ InBarrier' \cap Held(u)' = {}
        /\ Held(u)' \cap Held(t)' = {}
        /\ \A w \in Threads \ {t} : u # w => Held(u)' \cap Held(w)' = {}
  BY <1>1, <1>2 DEF Apart
<1>4. Apart'
  <2> SUFFICES ASSUME NEW u \in Threads
               PROVE  /\ NoRepeat(thread'[u].requeue) /\ NoRepeat(thread'[u].resume)
                      /\ Requeued(u)' \cap Resuming(u)' = {} /\ InBarrier' \cap Held(u)' = {}
                      /\ \A w \in Threads : u # w => Held(u)' \cap Held(w)' = {}
    BY DEF Apart
  <2>1. CASE u = t
    BY <1>3, <2>1
  <2>2. CASE u # t
    BY <1>3, <2>2
  <2> QED  BY <2>1, <2>2
<1>5. \A u \in Threads \ {t} : Held(u) \cap (InBarrier \cup Held(t)) = {}
  BY DEF Apart
<1> QED  BY <1>1, <1>4, <1>5 DEF Linked

(* An operation that is resumed at once is linked nowhere; one that waits  *)
(* is in the list of its own thread, alone.                                *)
LEMMA AwaitStep ==
  ASSUME SequenceBarrierAssumption, IInv, NEW c \in Consumers, NEW x \in Sequence,
         Await(c, x)
  PROVE  IInv'
<1>1. /\ last_published \in Sequence /\ awaiters \in Seq(Consumers)
      /\ op \in [Consumers -> Operation] /\ thread \in [Threads -> Local]
      /\ c \in Threads /\ op[c].state = "none" /\ thread[c].pc = "idle"
      /\ thread[c].requeue = <<>> /\ thread[c].resume = <<>>
  BY DEF IInv, Typed, Locals, Await, Threads
<1>2. UNCHANGED <<last_published, awaiters, published>>
  BY DEF Await
<1> DEFINE o == [state  |-> IF precedes(last_published, x) THEN "suspending" ELSE "resumed",
                 target |-> x, known |-> last_published, ready |-> FALSE]
<1>3. /\ op' = [op EXCEPT ![c] = o] /\ o \in Operation
      /\ op' \in [Consumers -> Operation] /\ op'[c] = o
      /\ \A e \in Consumers \ {c} : op'[e] = op[e]
  BY <1>1 DEF Await, Operation
<1>4. CASE ~precedes(last_published, x)
  <2>1. thread' = thread /\ op'[c].state = "resumed"
    BY <1>3, <1>4 DEF Await
  <2>2. Typed'
    BY <1>1, <1>2, <1>3, <2>1 DEF IInv, Typed
  <2>3. Locals'
    BY <1>1, <1>3, <2>1 DEF IInv, Locals, Threads
  <2> QED  BY <1>1, <1>2, <1>3, <2>1, <2>2, <2>3, ListsStay DEF InBarrier, IInv, Unclaimed
<1>5. CASE precedes(last_published, x)
  <2> DEFINE r == [pc |-> "push", sequence |-> x, requeue |-> <<c>>, resume |-> <<>>]
  <2>1. /\ r \in Local /\ thread' = [thread EXCEPT ![c] = r]
        /\ thread' \in [Threads -> Local] /\ thread'[c] = r
        /\ \A t \in Threads \ {c} : thread'[t] = thread[t]
    BY <1>1, <1>5 DEF Await, Local
  <2>2. Typed'
    BY <1>1, <1>2, <1>3, <2>1 DEF IInv, Typed
  <2>3. /\ thread'[c].pc = "push" /\ thread'[c].requeue = <<c>> /\ thread'[c].resume = <<>>
        /\ op'[c].state = "suspending" /\ op'[c].ready = FALSE
    BY <1>3, <1>5, <2>1
  <2> HIDE DEF o, r
  <2>4. Locals'
    BY <1>1, <1>3, <2>1, <2>3 DEF IInv, Locals, Threads
  <2>5. /\ Range(<<c>>) = {c} /\ NoRepeat(<<c>>)
        /\ Range(<<>>) = {} /\ NoRepeat(<<>>)
    <3>1. DOMAIN <<c>> = {1} /\ <<c>>[1] = c /\ Len(<<c>>) = 1 /\ 1..1 = {1}
      OBVIOUS
    <3> QED  BY <3>1, EmptyRange DEF Range, NoRepeat
  <2>6. ~Linked(c)
    BY <1>1 DEF IInv, Unclaimed
  <2>7. /\ Requeued(c)' = {c} /\ Resuming(c)' = {} /\ Held(c)' = {c} /\ Held(c) = {}
        /\ InBarrier' = InBarrier
        /\ \A t \in Threads \ {c} : /\ Requeued(t)' = Requeued(t)
                                    /\ Resuming(t)' = Resuming(t) /\ Held(t)' = Held(t)
    BY <1>1, <1>2, <2>1, <2>3, <2>5 DEF Requeued, Resuming, Held, InBarrier
  <2>8. /\ Apart'
        /\ \A e : Linked(e)' <=> \/ e \in InBarrier' \cup Held(c)'
                                 \/ Linked(e) /\ e \notin InBarrier \cup Held(c)
    <3>1. c \notin InBarrier
      BY <2>6 DEF Linked
    <3>2. NoRepeat(thread'[c].requeue) /\ NoRepeat(thread'[c].resume)
      BY <2>3, <2>5
    <3> QED  BY <1>1, <1>2, <2>1, <2>6, <2>7, <3>1, <3>2, ShareOut DEF IInv, Apart
  <2>9. \A e \in Consumers : Linked(e)' <=> (e = c \/ Linked(e))
    BY <2>7, <2>8 DEF Linked
  <2>10. \A e \in Consumers : Unclaimed(e)' <=> (e = c \/ Unclaimed(e))
    BY <1>3, <2>3 DEF Unclaimed
  <2>11. \A e \in Consumers : op'[e].state = "suspended" => op'[e].ready
    BY <1>3, <2>3 DEF IInv
  <2> QED  BY <2>2, <2>4, <2>8, <2>9, <2>10, <2>11 DEF IInv
<1> QED  BY <1>4, <1>5

LEMMA SuspendStep ==
  ASSUME SequenceBarrierAssumption, IInv, NEW c \in Consumers, Suspend(c)
  PROVE  IInv'
<1>1. /\ last_published \in Sequence /\ awaiters \in Seq(Consumers)
      /\ op \in [Consumers -> Operation] /\ thread \in [Threads -> Local]
      /\ c \in Threads /\ thread[c].pc = "suspend" /\ op[c].state = "suspending"
      /\ thread[c].requeue = <<>> /\ thread[c].resume = <<>>
      /\ UNCHANGED <<last_published, awaiters, published>>
  BY DEF IInv, Typed, Locals, Suspend, Threads
<1>2. /\ op' \in [Consumers -> Operation]
      /\ \A e \in Consumers \ {c} : op'[e] = op[e]
      /\ op'[c].ready = TRUE
      /\ op'[c].state = IF op[c].ready THEN "resumed" ELSE "suspended"
  BY <1>1 DEF Suspend, Operation
<1>3. /\ Idle \in Local /\ thread' = [thread EXCEPT ![c] = Idle]
      /\ thread' \in [Threads -> Local] /\ thread'[c] = Idle
      /\ \A t \in Threads \ {c} : thread'[t] = thread[t]
      /\ thread'[c].pc = "idle" /\ thread'[c].requeue = <<>> /\ thread'[c].resume = <<>>
  BY <1>1, IdleLocal DEF Suspend, Idle
<1>4. Typed'
  BY <1>1, <1>2, <1>3 DEF IInv, Typed
<1>5. Locals'
  BY <1>1, <1>2, <1>3 DEF IInv, Locals, Threads
<1>6. \A e \in Consumers : Unclaimed(e)' <=> Unclaimed(e)
  BY <1>1, <1>2 DEF Unclaimed
<1>7. \A e \in Consumers : op'[e].state = "suspended" => op'[e].ready
  BY <1>2 DEF IInv
<1> QED  BY <1>1, <1>3, <1>4, <1>5, <1>6, <1>7, ListsStay DEF InBarrier

LEMMA AwaitResumeStep ==
  ASSUME SequenceBarrierAssumption, IInv, NEW c \in Consumers, AwaitResume(c)
  PROVE  IInv'
<1>1. /\ op \in [Consumers -> Operation] /\ op[c].state = "resumed"
      /\ UNCHANGED <<last_published, awaiters, thread, published>>
  BY DEF IInv, Typed, AwaitResume
<1>2. NoOperation \in Operation
  BY DEF NoOperation, Operation, Sequence, SequenceBarrierAssumption
<1>3. /\ op' \in [Consumers -> Operation] /\ op'[c] = NoOperation
      /\ \A e \in Consumers \ {c} : op'[e] = op[e]
  BY <1>1, <1>2 DEF AwaitResume
<1>4. op'[c].state = "none"
  BY <1>3 DEF NoOperation
<1>5. Typed'
  BY <1>1, <1>3 DEF IInv, Typed
<1>6. Locals'
  BY <1>1, <1>3, <1>4 DEF IInv, Locals, Threads
<1>7. \A e \in Consumers : Unclaimed(e)' <=> Unclaimed(e)
  BY <1>1, <1>3, <1>4 DEF Unclaimed
<1>8. \A e \in Consumers : op'[e].state = "suspended" => op'[e].ready
  BY <1>3, <1>4 DEF IInv
<1> QED  BY <1>1, <1>5, <1>6, <1>7, <1>8, ListsStay DEF InBarrier

(* What is resumed leaves the only list it was in.                         *)
LEMMA ResumeNextStep ==
  ASSUME SequenceBarrierAssumption, IInv, NEW t \in Threads, ResumeNext(t)
  PROVE  IInv'
<1>1. /\ last_published \in Sequence /\ awaiters \in Seq(Consumers)
      /\ op \in [Consumers -> Operation] /\ thread \in [Threads -> Local]
      /\ thread[t].pc = "resume" /\ thread[t].resume # <<>>
      /\ thread[t].resume \in Seq(Consumers) /\ thread[t].sequence \in Sequence
      /\ UNCHANGED <<last_published, awaiters, published>>
  BY DEF IInv, Typed, ResumeNext, Local
<1> PICK h \in Consumers : h = Head(thread[t].resume)
  BY <1>1, HeadTailRange, SMTT(30)
<1>2. /\ h \in Resuming(t)
      /\ Tail(thread[t].resume) \in Seq(Consumers)
      /\ Range(Tail(thread[t].resume)) = Resuming(t) \ {h}
      /\ NoRepeat(Tail(thread[t].resume))
  BY <1>1, TailRange, SMTT(30) DEF IInv, Apart, NoRepeat, Resuming
<1>3. op' = [op EXCEPT ![h].known = thread[t].sequence, ![h].ready = TRUE,
                       ![h].state = IF op[h].ready THEN "resumed" ELSE @]
  BY SMTT(30) DEF ResumeNext
<1>4. /\ op' \in [Consumers -> Operation]
      /\ \A e \in Consumers \ {h} : op'[e] = op[e]
      /\ op'[h].ready = TRUE
      /\ op'[h].state = IF op[h].ready THEN "resumed" ELSE op[h].state
  BY <1>1, <1>2, <1>3 DEF Operation
<1>5. /\ thread' \in [Threads -> Local]
      /\ \A u \in Threads \ {t} : thread'[u] = thread[u]
      /\ thread'[t].pc = "resume" /\ thread'[t].requeue = thread[t].requeue
      /\ thread'[t].resume = Tail(thread[t].resume)
  BY <1>1, <1>2 DEF ResumeNext, Local
<1>6. Unclaimed(h) /\ (op[h].state = "suspended" => op[h].ready)
  BY <1>2 DEF IInv, Linked, Held
<1>7. ~Unclaimed(h)' /\ (op'[h].state = "suspending" <=> op[h].state = "suspending")
      /\ op'[h].state # "suspended"
  BY <1>4, <1>6 DEF Unclaimed
<1>8. Typed'
  BY <1>1, <1>4, <1>5 DEF IInv, Typed
<1>9. Locals'
  <2>1. \A u \in Threads : /\ thread'[u].pc = thread[u].pc
                           /\ thread'[u].requeue = thread[u].requeue
                           /\ thread'[u].resume # <<>> => thread[u].resume # <<>>
    BY <1>1, <1>5
  <2>2. \A e \in Consumers : op'[e].state = "suspending" <=> op[e].state = "suspending"
    BY <1>4, <1>7
  <2>3. Producers \subseteq Threads /\ Consumers \subseteq Threads
    BY DEF Threads
  <2> QED  BY <2>1, <2>2, <2>3 DEF IInv, Locals
<1>10. /\ InBarrier' = InBarrier /\ Requeued(t)' = Requeued(t)
       /\ Resuming(t)' = Resuming(t) \ {h}
       /\ \A u \in Threads \ {t} : /\ Requeued(u)' = Requeued(u)
                                   /\ Resuming(u)' = Resuming(u) /\ Held(u)' = Held(u)
  BY <1>1, <1>2, <1>5 DEF Requeued, Resuming, Held, InBarrier
<1>11. Held(t)' = Held(t) \ {h}
  BY <1>2, <1>10 DEF Held, IInv, Apart
<1>12. NoRepeat(thread'[t].requeue) /\ NoRepeat(thread'[t].resume)
  BY <1>2, <1>5 DEF IInv, Apart
<1>13. /\ Apart'
       /\ \A x : Linked(x)' <=> \/ x \in InBarrier' \cup Held(t)'
                                \/ Linked(x) /\ x \notin InBarrier \cup Held(t)
  <2>1. NoRepeat(awaiters')
    BY <1>1 DEF IInv, Apart
  <2>2. Requeued(t)' \cap Resuming(t)' = {} /\ InBarrier' \cap Held(t)' = {}
    BY <1>10, <1>11 DEF IInv, Apart
  <2> QED  BY <1>5, <1>10, <1>11, <1>12, <2>1, <2>2, ShareOut DEF IInv
<1>14. \A e \in Consumers : Linked(e)' <=> (e # h /\ Linked(e))
  <2>1. h \notin InBarrier /\ h \in Held(t)
    BY <1>2 DEF Held, IInv, Apart
  <2> QED  BY <1>10, <1>11, <1>13, <2>1 DEF Linked
<1>15. \A e \in Consumers : Unclaimed(e)' <=> (e # h /\ Unclaimed(e))
  BY <1>4, <1>7 DEF Unclaimed
<1>16. \A e \in Consumers : op'[e].state = "suspended" => op'[e].ready
  BY <1>4 DEF IInv
<1> QED  BY <1>8, <1>9, <1>13, <1>14, <1>15, <1>16 DEF IInv

LEMMA ResumeEndStep ==
  ASSUME SequenceBarrierAssumption, IInv, NEW t \in Threads, ResumeEnd(t)
  PROVE  IInv'
<1>1. /\ thread \in [Threads -> Local] /\ t \in Producers \cup Consumers
      /\ thread[t].pc = "resume" /\ thread[t].resume = <<>> /\ thread[t].requeue = <<>>
      /\ UNCHANGED <<last_published, awaiters, op, published>>
  BY DEF IInv, Typed, Locals, ResumeEnd, Threads
<1>2. /\ thread' \in [Threads -> Local]
      /\ \A u \in Threads \ {t} : thread'[u] = thread[u]
      /\ thread'[t].pc = IF t \in Producers THEN "idle" ELSE "suspend"
      /\ thread'[t].requeue = <<>> /\ thread'[t].resume = <<>>
  <2>1. CASE t \in Producers
    BY <1>1, <2>1, IdleLocal DEF IInv, Typed, ResumeEnd, Idle
  <2>2. CASE t \notin Producers
    BY <1>1, <2>2 DEF IInv, Typed, ResumeEnd, Local
  <2> QED  BY <2>1, <2>2
<1>3. Typed'
  BY <1>1, <1>2 DEF IInv, Typed
<1>4. Locals'
  BY <1>1, <1>2 DEF IInv, Locals, Threads, SequenceBarrierAssumption
<1>5. \A e \in Consumers : Unclaimed(e)' <=> Unclaimed(e)
  BY <1>1 DEF Unclaimed
<1>6. \A e \in Consumers : op'[e].state = "suspended" => op'[e].ready
  BY <1>1 DEF IInv
<1> QED  BY <1>1, <1>2, <1>3, <1>4, <1>5, <1>6, ListsStay DEF InBarrier

LEMMA PublishStep ==
  ASSUME SequenceBarrierAssumption, IInv, NEW p \in Producers, NEW x \in Sequence,
         Publish(p, x)
  PROVE  IInv'
<1>1. /\ thread \in [Threads -> Local] /\ p \in Threads /\ p \notin Consumers
      /\ thread[p].pc = "idle" /\ last_published' = x
      /\ thread[p].requeue = <<>> /\ thread[p].resume = <<>>
      /\ published' \in 0..MaxPublished /\ UNCHANGED <<awaiters, op>>
  BY DEF IInv, Typed, Locals, Publish, Threads, SequenceBarrierAssumption
<1>2. /\ thread' \in [Threads -> Local]
      /\ \A u \in Threads \ {p} : thread'[u] = thread[u]
      /\ thread'[p].pc = "load"
      /\ thread'[p].requeue = <<>> /\ thread'[p].resume = <<>>
  BY <1>1 DEF IInv, Typed, Publish, Local
<1>3. Typed'
  BY <1>1, <1>2 DEF IInv, Typed
<1>4. Locals'
  BY <1>1, <1>2 DEF IInv, Locals, Threads
<1>5. \A e \in Consumers : Unclaimed(e)' <=> Unclaimed(e)
  BY <1>1 DEF Unclaimed
<1>6. \A e \in Consumers : op'[e].state = "suspended" => op'[e].ready
  BY <1>1 DEF IInv
<1> QED  BY <1>1, <1>2, <1>3, <1>4, <1>5, <1>6, ListsStay DEF InBarrier

LEMMA LoadAwaitersStep ==
  ASSUME SequenceBarrierAssumption, IInv, NEW t \in Threads, LoadAwaiters(t)
  PROVE  IInv'
<1>1. /\ thread \in [Threads -> Local] /\ t \in Producers /\ t \notin Consumers
      /\ thread[t].pc = "load" /\ thread[t].resume = <<>> /\ thread[t].requeue = <<>>
      /\ UNCHANGED <<last_published, awaiters, op, published>>
  BY DEF IInv, Typed, Locals, LoadAwaiters, SequenceBarrierAssumption
<1>2. /\ thread' \in [Threads -> Local]
      /\ \A u \in Threads \ {t} : thread'[u] = thread[u]
      /\ thread'[t].pc \in {"idle", "take"}
      /\ thread'[t].requeue = <<>> /\ thread'[t].resume = <<>>
  <2>1. CASE awaiters = <<>>
    BY <1>1, <2>1, IdleLocal DEF IInv, Typed, LoadAwaiters, Idle
  <2>2. CASE awaiters # <<>>
    BY <1>1, <2>2 DEF IInv, Typed, LoadAwaiters, Local
  <2> QED  BY <2>1, <2>2
<1>3. Typed'
  BY <1>1, <1>2 DEF IInv, Typed
<1>4. Locals'
  BY <1>1, <1>2 DEF IInv, Locals, Threads
<1>5. \A e \in Consumers : Unclaimed(e)' <=> Unclaimed(e)
  BY <1>1 DEF Unclaimed
<1>6. \A e \in Consumers : op'[e].state = "suspended" => op'[e].ready
  BY <1>1 DEF IInv
<1> QED  BY <1>1, <1>2, <1>3, <1>4, <1>5, <1>6, ListsStay DEF InBarrier

LEMMA CheckPublishedStep ==
  ASSUME SequenceBarrierAssumption, IInv, NEW t \in Threads, CheckPublished(t)
  PROVE  IInv'
<1>1. /\ thread \in [Threads -> Local] /\ t \in Consumers /\ t \notin Producers
      /\ last_published \in Sequence /\ thread[t].pc = "load" /\ thread[t].requeue = <<>>
      /\ UNCHANGED <<last_published, awaiters, op, published>>
  BY DEF IInv, Typed, Locals, CheckPublished, SequenceBarrierAssumption
<1>2. /\ thread' \in [Threads -> Local]
      /\ \A u \in Threads \ {t} : thread'[u] = thread[u]
      /\ thread'[t].pc \in {"resume", "take"}
      /\ thread'[t].requeue = thread[t].requeue /\ thread'[t].resume = thread[t].resume
  BY <1>1, ZenonT(40) DEF IInv, Typed, CheckPublished, Local
<1>3. Typed'
  BY <1>1, <1>2 DEF IInv, Typed
<1>4. Locals'
  BY <1>1, <1>2 DEF IInv, Locals, Threads
<1>5. \A e \in Consumers : Unclaimed(e)' <=> Unclaimed(e)
  BY <1>1 DEF Unclaimed
<1>6. \A e \in Consumers : op'[e].state = "suspended" => op'[e].ready
  BY <1>1 DEF IInv
<1> QED  BY <1>1, <1>2, <1>3, <1>4, <1>5, <1>6, ListsStay DEF InBarrier

(* What sorting a list leaves in one of the parts.                         *)
LEMMA Part ==
  ASSUME NEW q \in Seq(Consumers), NoRepeat(q), NEW X
  PROVE  /\ Among(q, X) \in Seq(Consumers) /\ NoRepeat(Among(q, X))
         /\ Range(Among(q, X)) = Range(q) \cap X
BY AmongList DEF NoRepeat

LEMMA Joined ==
  ASSUME NEW q \in Seq(Consumers), NoRepeat(q), NEW r \in Seq(Consumers), NoRepeat(r),
         Range(q) \cap Range(r) = {}
  PROVE  /\ q \o r \in Seq(Consumers) /\ NoRepeat(q \o r)
         /\ Range(q \o r) = Range(q) \cup Range(r)
BY ConcatNew DEF NoRepeat

LEMMA TakeAwaitersStep ==
  ASSUME SequenceBarrierAssumption, IInv, NEW t \in Threads, TakeAwaiters(t)
  PROVE  IInv'
<1>1. /\ thread \in [Threads -> Local] /\ t \in Producers /\ t \notin Consumers
      /\ thread[t].pc = "take" /\ thread[t].resume = <<>> /\ thread[t].requeue = <<>>
      /\ thread[t].sequence \in Sequence /\ awaiters \in Seq(Consumers) /\ NoRepeat(awaiters)
      /\ awaiters' = <<>> /\ UNCHANGED <<last_published, op, published>>
  BY DEF IInv, Typed, Local, Apart, Locals, TakeAwaiters, SequenceBarrierAssumption
<1> DEFINE s == thread[t].sequence
           Q == ToRequeue(awaiters, s)
           R == ToResume(awaiters, s)
<1>2. /\ Q \in Seq(Consumers) /\ NoRepeat(Q) /\ R \in Seq(Consumers) /\ NoRepeat(R)
      /\ Range(Q) \cap Range(R) = {} /\ Range(Q) \cup Range(R) = InBarrier
  <2> DEFINE X == {c \in Consumers : precedes(s, op[c].target)}
             Y == {c \in Consumers : ~precedes(s, op[c].target)}
  <2>1. X \cap Y = {} /\ Consumers \subseteq X \cup Y
    OBVIOUS
  <2>2. Q = Among(awaiters, X) /\ R = Among(awaiters, Y)
    BY DEF ToRequeue, ToResume
  <2>3. awaiters \in Seq(Consumers) /\ NoRepeat(awaiters)
    BY <1>1
  <2> HIDE DEF X, Y, Q, R
  <2>4. /\ Among(awaiters, X) \in Seq(Consumers) /\ NoRepeat(Among(awaiters, X))
        /\ Among(awaiters, Y) \in Seq(Consumers) /\ NoRepeat(Among(awaiters, Y))
        /\ Range(Among(awaiters, X)) = Range(awaiters) \cap X
        /\ Range(Among(awaiters, Y)) = Range(awaiters) \cap Y
    BY <2>3, Part
  <2>5. Range(awaiters) \subseteq Consumers
    BY <2>3, RangeOfList
  <2> QED  BY <2>1, <2>2, <2>4, <2>5 DEF InBarrier
<1> DEFINE r == [pc |-> IF Q = <<>> THEN "resume" ELSE "push",
                 sequence |-> s, requeue |-> Q, resume |-> R]
<1>3. thread' = [thread EXCEPT ![t] = r]
  BY DEF TakeAwaiters
<1> HIDE DEF s, Q, R
<1>4. r \in Local
  BY <1>1, <1>2 DEF Local, s
<1>5. /\ thread' \in [Threads -> Local] /\ \A u \in Threads \ {t} : thread'[u] = thread[u]
      /\ thread'[t].pc = (IF Q = <<>> THEN "resume" ELSE "push")
      /\ thread'[t].requeue = Q /\ thread'[t].resume = R
  BY <1>1, <1>3, <1>4
<1>6. Typed'
  BY <1>1, <1>5, EmptySeq DEF IInv, Typed
<1>7. Locals'
  BY <1>1, <1>5 DEF IInv, Locals, Threads
<1>8. /\ Requeued(t)' = Range(Q) /\ Resuming(t)' = Range(R) /\ Held(t)' = InBarrier
      /\ InBarrier' = {} /\ Held(t) = {}
  BY <1>1, <1>2, <1>5, EmptyRange DEF Requeued, Resuming, Held, InBarrier
<1>9. /\ NoRepeat(awaiters') /\ NoRepeat(thread'[t].requeue) /\ NoRepeat(thread'[t].resume)
      /\ Requeued(t)' \cap Resuming(t)' = {} /\ InBarrier' \cap Held(t)' = {}
  BY <1>1, <1>2, <1>5, <1>8, EmptyRange DEF NoRepeat
<1>10. /\ Apart'
       /\ \A x : Linked(x)' <=> \/ x \in InBarrier' \cup Held(t)'
                                \/ Linked(x) /\ x \notin InBarrier \cup Held(t)
  BY <1>5, <1>8, <1>9, ShareOut DEF IInv
<1>11. \A e \in Consumers : Linked(e)' <=> Linked(e)
  BY <1>8, <1>10 DEF Linked
<1> QED  BY <1>1, <1>6, <1>7, <1>10, <1>11 DEF IInv, Unclaimed

LEMMA RetakeAwaitersStep ==
  ASSUME SequenceBarrierAssumption, IInv, NEW t \in Threads, RetakeAwaiters(t)
  PROVE  IInv'
<1>1. /\ thread \in [Threads -> Local] /\ t \in Consumers /\ t \notin Producers
      /\ op \in [Consumers -> Operation]
      /\ thread[t].pc = "take" /\ thread[t].requeue = <<>>
      /\ thread[t].resume \in Seq(Consumers) /\ NoRepeat(thread[t].resume)
      /\ thread[t].sequence \in Sequence /\ awaiters \in Seq(Consumers) /\ NoRepeat(awaiters)
      /\ awaiters' = <<>> /\ UNCHANGED <<last_published, op, published>>
  BY DEF IInv, Typed, Local, Apart, Locals, RetakeAwaiters, SequenceBarrierAssumption
<1> DEFINE s == thread[t].sequence
           Q == StillAhead(awaiters, s)
           P == Reached(awaiters, s)
           R == thread[t].resume \o P
<1>2. /\ Q \in Seq(Consumers) /\ NoRepeat(Q) /\ P \in Seq(Consumers) /\ NoRepeat(P)
      /\ Range(Q) \cap Range(P) = {} /\ Range(Q) \cup Range(P) = InBarrier
  <2> DEFINE X == {c \in Consumers : difference(op[c].target, s) > 0}
             Y == {c \in Consumers : difference(op[c].target, s) <= 0}
  <2>1. X \cap Y = {} /\ Consumers \subseteq X \cup Y
    <3>1. \A c \in Consumers : difference(op[c].target, s) \in Int
      <4>1. s \in Int /\ \A c \in Consumers : op[c].target \in Int
        BY <1>1 DEF Operation, Sequence, SequenceBarrierAssumption
      <4> HIDE DEF s
      <4> QED  BY <4>1, DifferenceType
    <3> HIDE DEF s
    <3> QED  BY <3>1
  <2> HIDE DEF X, Y
  <2>2. awaiters \in Seq(Consumers) /\ NoRepeat(awaiters)
    BY <1>1
  <2>3. Q = Among(awaiters, X) /\ P = Among(awaiters, Y)
    BY DEF StillAhead, Reached, X, Y
  <2> HIDE DEF Q, P
  <2>4. /\ Among(awaiters, X) \in Seq(Consumers) /\ NoRepeat(Among(awaiters, X))
        /\ Among(awaiters, Y) \in Seq(Consumers) /\ NoRepeat(Among(awaiters, Y))
        /\ Range(Among(awaiters, X)) = Range(awaiters) \cap X
        /\ Range(Among(awaiters, Y)) = Range(awaiters) \cap Y
    BY <2>2, Part
  <2>5. Range(awaiters) \subseteq Consumers
    BY <2>2, RangeOfList
  <2> QED  BY <2>1, <2>3, <2>4, <2>5 DEF InBarrier
<1>3. InBarrier \cap Held(t) = {} /\ Resuming(t) = Range(thread[t].resume)
  BY DEF IInv, Apart, Resuming
<1>4. R \in Seq(Consumers) /\ NoRepeat(R) /\ Range(R) = Resuming(t) \cup Range(P)
  <2> HIDE DEF P
  <2>1. Range(thread[t].resume) \cap Range(P) = {}
    BY <1>2, <1>3 DEF Held
  <2> QED  BY <1>1, <1>2, <1>3, <2>1, Joined
<1> DEFINE n == IF Q = <<>> THEN s ELSE Earliest(Q, s)
           r == [pc |-> IF Q = <<>> THEN "resume" ELSE "push",
                 sequence |-> n, requeue |-> Q, resume |-> R]
<1>5. thread' = [thread EXCEPT ![t] = r]
  BY DEF RetakeAwaiters
<1>6. n \in Sequence
  <2>1. CASE Q = <<>>
    BY <1>1, <2>1
  <2>2. CASE Q # <<>>
    <3> HIDE DEF s, Q
    <3>1. s \in Sequence
      BY <1>1 DEF s
    <3>2. PICK c \in Range(Q) : Earliest(Q, s) = (s + difference(op[c].target, s)) % Word
      BY <1>1, <1>2, <2>2, <3>1, EarliestOf
    <3>3. c \in Consumers
      BY <1>2, RangeOfList
    <3>4. s \in Int /\ op[c].target \in Int
      BY <1>1, <3>1, <3>3 DEF Operation, Sequence, SequenceBarrierAssumption
    <3>5. difference(op[c].target, s) \in Int
      BY <3>4, DifferenceType
    <3>6. (s + difference(op[c].target, s)) % Word \in Sequence
      BY <3>4, <3>5, WordNumber
    <3> QED  BY <2>2, <3>2, <3>6
  <2> QED  BY <2>1, <2>2
<1> HIDE DEF s, Q, P, R, n
<1>7. r \in Local
  BY <1>2, <1>4, <1>6 DEF Local
<1>8. /\ thread' \in [Threads -> Local] /\ \A u \in Threads \ {t} : thread'[u] = thread[u]
      /\ thread'[t].pc = (IF Q = <<>> THEN "resume" ELSE "push")
      /\ thread'[t].requeue = Q /\ thread'[t].resume = R
  BY <1>1, <1>5, <1>7
<1>9. Typed'
  BY <1>1, <1>8, EmptySeq DEF IInv, Typed
<1>10. Locals'
  BY <1>1, <1>8, ZenonT(40) DEF IInv, Locals, Threads
<1>11. /\ Requeued(t)' = Range(Q) /\ Resuming(t)' = Resuming(t) \cup Range(P)
       /\ Held(t)' = InBarrier \cup Resuming(t)
       /\ InBarrier' = {} /\ Held(t) = Resuming(t)
  BY <1>1, <1>2, <1>4, <1>8, EmptyRange DEF Requeued, Resuming, Held, InBarrier
<1>12. /\ NoRepeat(awaiters') /\ NoRepeat(thread'[t].requeue) /\ NoRepeat(thread'[t].resume)
       /\ Requeued(t)' \cap Resuming(t)' = {} /\ InBarrier' \cap Held(t)' = {}
  BY <1>1, <1>2, <1>3, <1>4, <1>8, <1>11, EmptyRange DEF NoRepeat
<1>13. /\ Apart'
       /\ \A x : Linked(x)' <=> \/ x \in InBarrier' \cup Held(t)'
                                \/ Linked(x) /\ x \notin InBarrier \cup Held(t)
  BY <1>8, <1>11, <1>12, ShareOut DEF IInv
<1>14. \A e \in Consumers : Linked(e)' <=> Linked(e)
  BY <1>11, <1>13 DEF Linked
<1> QED  BY <1>1, <1>9, <1>10, <1>13, <1>14 DEF IInv, Unclaimed

(* publish() and add_awaiter() put back what they hold for later.          *)
LEMMA PutBack ==
  ASSUME SequenceBarrierAssumption, IInv, NEW t \in Threads, thread[t].pc = "push",
         awaiters' = thread[t].requeue \o awaiters,
         UNCHANGED <<last_published, op, published>>,
         thread' = [thread EXCEPT ![t].pc = IF t \in Producers THEN "resume" ELSE "load",
                                  ![t].requeue = <<>>]
  PROVE  IInv'
<1>1. /\ thread \in [Threads -> Local]
      /\ awaiters \in Seq(Consumers) /\ NoRepeat(awaiters)
      /\ thread[t].requeue \in Seq(Consumers) /\ NoRepeat(thread[t].requeue)
      /\ NoRepeat(thread[t].resume) /\ Requeued(t) \cap Resuming(t) = {}
      /\ InBarrier \cap Held(t) = {}
  BY DEF IInv, Typed, Local, Apart
<1>2. /\ thread' \in [Threads -> Local] /\ \A u \in Threads \ {t} : thread'[u] = thread[u]
      /\ thread'[t].pc = IF t \in Producers THEN "resume" ELSE "load"
      /\ thread'[t].requeue = <<>> /\ thread'[t].resume = thread[t].resume
  BY <1>1, EmptySeq, ZenonT(40) DEF Local
<1>3. /\ awaiters' \in Seq(Consumers) /\ NoRepeat(awaiters')
      /\ InBarrier' = Requeued(t) \cup InBarrier
  <2>1. Range(thread[t].requeue) \cap Range(awaiters) = {}
    BY <1>1 DEF InBarrier, Held, Requeued
  <2>2. /\ thread[t].requeue \o awaiters \in Seq(Consumers)
        /\ NoRepeat(thread[t].requeue \o awaiters)
        /\ Range(thread[t].requeue \o awaiters) = Requeued(t) \cup InBarrier
    BY <1>1, <2>1, Joined DEF InBarrier, Requeued
  <2> QED  BY <2>2 DEF InBarrier
<1>4. Typed'
  BY <1>2, <1>3 DEF IInv, Typed
<1>5. Locals'
  BY <1>2, SMTT(30) DEF IInv, Locals, Threads, SequenceBarrierAssumption
<1>6. Requeued(t)' = {} /\ Resuming(t)' = Resuming(t) /\ Held(t)' = Resuming(t)
  BY <1>2, EmptyRange DEF Requeued, Resuming, Held
<1>7. /\ NoRepeat(thread'[t].requeue) /\ NoRepeat(thread'[t].resume)
      /\ Requeued(t)' \cap Resuming(t)' = {} /\ InBarrier' \cap Held(t)' = {}
      /\ InBarrier' \cup Held(t)' = InBarrier \cup Held(t)
  BY <1>1, <1>2, <1>3, <1>6, EmptyRange DEF NoRepeat, Held
<1>8. /\ Apart'
      /\ \A x : Linked(x)' <=> \/ x \in InBarrier' \cup Held(t)'
                               \/ Linked(x) /\ x \notin InBarrier \cup Held(t)
  BY <1>2, <1>3, <1>7, ShareOut DEF IInv
<1>9. \A e \in Consumers : Linked(e)' <=> Linked(e)
  BY <1>7, <1>8 DEF Linked
<1> QED  BY <1>4, <1>5, <1>8, <1>9 DEF IInv, Unclaimed

LEMMA RequeueStep ==
  ASSUME SequenceBarrierAssumption, IInv, NEW t \in Threads, Requeue(t)
  PROVE  IInv'
BY PutBack DEF Requeue

LEMMA PushAwaitersStep ==
  ASSUME SequenceBarrierAssumption, IInv, NEW t \in Threads, PushAwaiters(t)
  PROVE  IInv'
BY PutBack DEF PushAwaiters, SequenceBarrierAssumption

LEMMA BarrierInit ==
  ASSUME SequenceBarrierAssumption, Init
  PROVE  IInv
<1>1. /\ initial_sequence \in Sequence /\ Idle \in Local /\ NoOperation \in Operation
      /\ Idle.pc = "idle" /\ Idle.requeue = <<>> /\ Idle.resume = <<>>
      /\ NoOperation.state = "none"
  BY WordNumber, IdleLocal
     DEF initial_sequence, NoOperation, Operation, Sequence, SequenceBarrierAssumption
<1>2. Typed
  BY <1>1, EmptySeq DEF Init, Typed, SequenceBarrierAssumption
<1>3. \A t \in Threads : thread[t].pc = "idle" /\ thread[t].requeue = <<>> /\ thread[t].resume = <<>>
  BY <1>1 DEF Init
<1>4. Apart /\ \A c : ~Linked(c)
  BY <1>3, EmptyRange
     DEF Init, Apart, Linked, InBarrier, Held, Requeued, Resuming, NoRepeat
<1>5. \A c \in Consumers : op[c].state = "none"
  BY <1>1 DEF Init
<1>6. Locals
  BY <1>3, <1>5 DEF Locals, Threads
<1> QED  BY <1>2, <1>4, <1>5, <1>6 DEF IInv, Unclaimed

LEMMA ListsInvariant ==
  ASSUME SequenceBarrierAssumption
  PROVE  Spec => []IInv
<1>1. Init => IInv
  BY BarrierInit
<1>2. IInv /\ [Next]_vars => IInv'
  <2> SUFFICES ASSUME IInv, [Next]_vars PROVE IInv'
    OBVIOUS
  <2> \A d \in Ahead \cup Strides : Plus(d) \in Sequence
    <3>1. \A d \in Ahead \cup Strides : last_published + d \in Int
      BY DEF SequenceBarrierAssumption, IInv, Typed, Sequence
    <3> QED  BY <3>1, WordNumber DEF Plus
  <2>1. ASSUME NEW c \in Consumers, NEW d \in Ahead, Await(c, Plus(d)) PROVE IInv'
    BY <2>1, AwaitStep
  <2>2. ASSUME NEW c \in Consumers, Suspend(c) \/ AwaitResume(c) PROVE IInv'
    BY <2>2, SuspendStep, AwaitResumeStep
  <2>3. ASSUME NEW p \in Producers, NEW d \in Strides, Publish(p, Plus(d)) PROVE IInv'
    BY <2>3, PublishStep
  <2>4. ASSUME NEW t \in Threads, Step(t) PROVE IInv'
    BY <2>4, ResumeNextStep, ResumeEndStep, LoadAwaitersStep, TakeAwaitersStep,
       RequeueStep, PushAwaitersStep, CheckPublishedStep, RetakeAwaitersStep DEF Step
  <2>5. CASE UNCHANGED vars
    BY <2>5 DEF vars, IInv, Typed, Apart, Locals, Linked, Unclaimed,
                InBarrier, Held, Requeued, Resuming
  <2> QED  BY <2>1, <2>2, <2>3, <2>4, <2>5 DEF Next
<1> QED  BY <1>1, <1>2, PTL DEF Spec

-----------------------------------------------------------------------------
(* From lists to places *)

InRequeue(c, t, p) == \E i \in 1..Len(thread[t].requeue) :
                        thread[t].requeue[i] = c /\ p = <<t, "requeue", i>>
InResume(c, t, p)  == \E i \in 1..Len(thread[t].resume) :
                        thread[t].resume[i] = c /\ p = <<t, "resume", i>>
InAwaiters(c, p)   == \E i \in 1..Len(awaiters) : awaiters[i] = c /\ p = <<"barrier", i>>

LEMMA PlaceOf ==
  ASSUME NEW c
  PROVE  \A p : p \in Places(c) <=> \/ InAwaiters(c, p)
                                    \/ \E t \in Threads : InRequeue(c, t, p)
                                    \/ \E t \in Threads : InResume(c, t, p)
<1> DEFINE A == {<<"barrier", i>> : i \in At(c, awaiters)}
           B == UNION {{<<t, "requeue", i>> : i \in At(c, thread[t].requeue)} : t \in Threads}
           C == UNION {{<<t, "resume", i>> : i \in At(c, thread[t].resume)} : t \in Threads}
<1>1. \A p : p \in A <=> InAwaiters(c, p)
  BY DEF At, InAwaiters
<1>2. \A p : p \in B <=> \E t \in Threads : InRequeue(c, t, p)
  BY DEF At, InRequeue
<1>3. \A p : p \in C <=> \E t \in Threads : InResume(c, t, p)
  BY DEF At, InResume
<1>4. Places(c) = A \cup B \cup C
  BY DEF Places
<1> HIDE DEF A, B, C
<1> QED  BY <1>1, <1>2, <1>3, <1>4

(* In a list that repeats nothing there is one place for what is in it.    *)
LEMMA OneIn ==
  ASSUME Typed, Apart, NEW c
  PROVE  /\ c \in InBarrier <=> \E p : InAwaiters(c, p)
         /\ \A p, q : InAwaiters(c, p) /\ InAwaiters(c, q) => p = q
         /\ \A t \in Threads :
              /\ c \in Requeued(t) <=> \E p : InRequeue(c, t, p)
              /\ c \in Resuming(t) <=> \E p : InResume(c, t, p)
              /\ \A p, q : InRequeue(c, t, p) /\ InRequeue(c, t, q) => p = q
              /\ \A p, q : InResume(c, t, p) /\ InResume(c, t, q) => p = q
<1>1. c \in InBarrier <=> \E p : InAwaiters(c, p)
  <2>1. Range(awaiters) = {awaiters[i] : i \in 1..Len(awaiters)}
    BY RangeOfList DEF Typed
  <2> QED  BY <2>1 DEF InBarrier, InAwaiters
<1>2. \A p, q : InAwaiters(c, p) /\ InAwaiters(c, q) => p = q
  BY DEF Apart, NoRepeat, InAwaiters
<1>3. ASSUME NEW t \in Threads
      PROVE  /\ c \in Requeued(t) <=> \E p : InRequeue(c, t, p)
             /\ \A p, q : InRequeue(c, t, p) /\ InRequeue(c, t, q) => p = q
  <2>1. thread[t].requeue \in Seq(Consumers) /\ NoRepeat(thread[t].requeue)
    BY DEF Typed, Local, Apart
  <2>2. Range(thread[t].requeue) = {thread[t].requeue[i] : i \in 1..Len(thread[t].requeue)}
    BY <2>1, RangeOfList
  <2> QED  BY <2>1, <2>2 DEF Requeued, InRequeue, NoRepeat
<1>4. ASSUME NEW t \in Threads
      PROVE  /\ c \in Resuming(t) <=> \E p : InResume(c, t, p)
             /\ \A p, q : InResume(c, t, p) /\ InResume(c, t, q) => p = q
  <2>1. thread[t].resume \in Seq(Consumers) /\ NoRepeat(thread[t].resume)
    BY DEF Typed, Local, Apart
  <2>2. Range(thread[t].resume) = {thread[t].resume[i] : i \in 1..Len(thread[t].resume)}
    BY <2>1, RangeOfList
  <2> QED  BY <2>1, <2>2 DEF Resuming, InResume, NoRepeat
<1> QED  BY <1>1, <1>2, <1>3, <1>4

LEMMA OnePlace ==
  ASSUME IInv, NEW c \in Consumers
  PROVE  IF Unclaimed(c) THEN Cardinality(Places(c)) = 1 ELSE Places(c) = {}
<1>1. /\ c \in InBarrier <=> \E p : InAwaiters(c, p)
      /\ \A p, q : InAwaiters(c, p) /\ InAwaiters(c, q) => p = q
      /\ \A t \in Threads :
           /\ c \in Requeued(t) <=> \E p : InRequeue(c, t, p)
           /\ c \in Resuming(t) <=> \E p : InResume(c, t, p)
           /\ \A p, q : InRequeue(c, t, p) /\ InRequeue(c, t, q) => p = q
           /\ \A p, q : InResume(c, t, p) /\ InResume(c, t, q) => p = q
  BY OneIn DEF IInv
<1>2. Linked(c) <=> Places(c) # {}
  BY <1>1, PlaceOf DEF Linked, Held
<1>3. ASSUME NEW p \in Places(c), NEW q \in Places(c) PROVE p = q
  <2>1. CASE InAwaiters(c, p)
    <3>1. c \in InBarrier /\ \A t \in Threads : c \notin Requeued(t) /\ c \notin Resuming(t)
      BY <1>1, <2>1 DEF IInv, Apart, Held
    <3>2. InAwaiters(c, q)
      BY <1>1, <3>1, PlaceOf
    <3> QED  BY <1>1, <2>1, <3>2
  <2>2. ASSUME NEW t \in Threads, InRequeue(c, t, p) PROVE p = q
    <3>1. /\ c \in Requeued(t) /\ c \notin InBarrier /\ c \notin Resuming(t)
          /\ \A u \in Threads \ {t} : c \notin Requeued(u) /\ c \notin Resuming(u)
      BY <1>1, <2>2 DEF IInv, Apart, Held
    <3>2. InRequeue(c, t, q)
      BY <1>1, <3>1, PlaceOf
    <3> QED  BY <1>1, <2>2, <3>2
  <2>3. ASSUME NEW t \in Threads, InResume(c, t, p) PROVE p = q
    <3>1. /\ c \in Resuming(t) /\ c \notin InBarrier /\ c \notin Requeued(t)
          /\ \A u \in Threads \ {t} : c \notin Requeued(u) /\ c \notin Resuming(u)
      BY <1>1, <2>3 DEF IInv, Apart, Held
    <3>2. InResume(c, t, q)
      BY <1>1, <3>1, PlaceOf
    <3> QED  BY <1>1, <2>3, <3>2
  <2> QED  BY <2>1, <2>2, <2>3, PlaceOf
<1>4. ASSUME Places(c) # {} PROVE Cardinality(Places(c)) = 1
  <2>1. PICK p : p \in Places(c)
    BY <1>4
  <2>2. Places(c) = {p}
    BY <1>3, <2>1
  <2> QED  BY <2>2, FS_Singleton
<1> QED  BY <1>2, <1>4 DEF IInv

(* SequenceBarrier's lists are lists of its consumers' operations, and its *)
(* numbers are numbers of the type Sequence, wherever they wrap around.    *)
THEOREM BarrierTypeCorrect ==
  ASSUME SequenceBarrierAssumption
  PROVE  Spec => []TypeOK
<1>1. IInv => TypeOK
  BY DEF IInv, Typed, Operation, Local, TypeOK
<1> QED  BY <1>1, ListsInvariant, PTL

(* An operation that waits and that nobody has claimed is linked in the    *)
(* list of the barrier or in one a thread works through, in one of them    *)
(* only and once; one that is claimed, or done, is in none: whoever        *)
(* publishes and waits meanwhile, no coroutine is resumed twice.           *)
THEOREM WaitersLinkedOnce ==
  ASSUME SequenceBarrierAssumption
  PROVE  Spec => []LinkedOnce
<1>1. IInv => LinkedOnce
  BY OnePlace DEF LinkedOnce, Unclaimed
<1> QED  BY <1>1, ListsInvariant, PTL

-----------------------------------------------------------------------------
(* Lags *)

LEMMA Halves ==
  ASSUME SequenceBarrierAssumption
  PROVE  /\ Word \in Nat /\ Word > 0 /\ Word \div 2 \in Nat /\ Word = 2 * (Word \div 2)
         /\ Sequence = 0..(Word - 1)
BY DEF SequenceBarrierAssumption, Sequence

LEMMA Wrapped ==
  ASSUME NEW w \in Nat, w > 0, NEW x \in (-w)..(2 * w - 1)
  PROVE  x % w = IF x < 0 THEN x + w ELSE IF x < w THEN x ELSE x - w
<1>1. \A r, q \in Int : r \in 0..(w - 1) /\ x = w * q + r => x % w = r
  OBVIOUS
<1> QED  BY <1>1

LEMMA DifferenceOf ==
  ASSUME SequenceBarrierAssumption, NEW a \in Sequence, NEW b \in Sequence
  PROVE  difference(a, b) = IF a - b < -(Word \div 2) THEN (a - b) + Word
                            ELSE IF a - b < Word \div 2 THEN a - b ELSE (a - b) - Word
<1> DEFINE H == Word \div 2
<1>1. Word \in Nat /\ Word > 0 /\ H \in Nat /\ Word = 2 * H /\ a \in 0..(Word - 1) /\ b \in 0..(Word - 1)
  BY Halves
<1>2. a - b \in (-Word)..(2 * Word - 1)
  BY <1>1
<1>3. (a - b) % Word = IF a - b < 0 THEN (a - b) + Word
                       ELSE IF a - b < Word THEN a - b ELSE (a - b) - Word
  BY <1>1, <1>2, Wrapped
<1>4. difference(a, b) = IF (a - b) % Word < H THEN (a - b) % Word ELSE ((a - b) % Word) - Word
  BY DEF difference
<1> HIDE DEF H
<1>5. difference(a, b) = IF a - b < -H THEN (a - b) + Word
                         ELSE IF a - b < H THEN a - b ELSE (a - b) - Word
  BY <1>1, <1>3, <1>4
<1> QED  BY <1>5 DEF H

LEMMA PlusOf ==
  ASSUME SequenceBarrierAssumption, NEW a \in Sequence, NEW d \in (-Word)..Word
  PROVE  /\ (a + d) % Word \in Sequence
         /\ (a + d) % Word = IF a + d < 0 THEN (a + d) + Word
                             ELSE IF a + d < Word THEN a + d ELSE (a + d) - Word
<1>1. Word \in Nat /\ Word > 0 /\ a \in 0..(Word - 1)
  BY Halves
<1>2. a + d \in (-Word)..(2 * Word - 1)
  BY <1>1
<1>3. (a + d) % Word = IF a + d < 0 THEN (a + d) + Word
                       ELSE IF a + d < Word THEN a + d ELSE (a + d) - Word
  BY <1>1, <1>2, Wrapped
<1> QED  BY <1>1, <1>2, <1>3, Halves

(* As long as a lag stays within half a word, it grows by as much as the   *)
(* published number does.                                                  *)
LEMMA LagGrows ==
  ASSUME SequenceBarrierAssumption, NEW a \in Sequence, NEW n \in Sequence,
         NEW d \in (-(Word \div 2))..(Word \div 2),
         difference(a, n) + d \in (-(Word \div 2))..(Word \div 2 - 1)
  PROVE  difference((a + d) % Word, n) = difference(a, n) + d
<1> DEFINE H == Word \div 2
           e == (a + d) % Word
<1>1. Word \in Nat /\ Word > 0 /\ H \in Nat /\ Word = 2 * H /\ a \in 0..(Word - 1) /\ n \in 0..(Word - 1)
  BY Halves
<1>2. d \in (-Word)..Word
  BY <1>1
<1>3. e \in Sequence
      /\ e = IF a + d < 0 THEN (a + d) + Word
             ELSE IF a + d < Word THEN a + d ELSE (a + d) - Word
  BY <1>2, PlusOf
<1> HIDE DEF e
<1>4. difference(a, n) = IF a - n < -H THEN (a - n) + Word
                         ELSE IF a - n < H THEN a - n ELSE (a - n) - Word
  BY DifferenceOf
<1>5. difference(e, n) = IF e - n < -H THEN (e - n) + Word
                         ELSE IF e - n < H THEN e - n ELSE (e - n) - Word
  BY <1>3, DifferenceOf
<1> HIDE DEF H
<1>6. difference(a, n) + d \in (-H)..(H - 1) /\ d \in (-H)..H
  BY DEF H
<1>7. difference(e, n) = difference(a, n) + d
  BY <1>1, <1>3, <1>4, <1>5, <1>6
<1> QED  BY <1>7 DEF e

(* A number that lies d ahead has the lag -d.                              *)
LEMMA LagOfPlus ==
  ASSUME SequenceBarrierAssumption, NEW a \in Sequence,
         NEW d \in (-(Word \div 2) + 1)..(Word \div 2)
  PROVE  difference(a, (a + d) % Word) = -d
<1> DEFINE H == Word \div 2
           e == (a + d) % Word
<1>1. Word \in Nat /\ Word > 0 /\ H \in Nat /\ Word = 2 * H /\ a \in 0..(Word - 1)
  BY Halves
<1>2. d \in (-Word)..Word
  BY <1>1
<1>3. e \in Sequence
      /\ e = IF a + d < 0 THEN (a + d) + Word
             ELSE IF a + d < Word THEN a + d ELSE (a + d) - Word
  BY <1>2, PlusOf
<1> HIDE DEF e
<1>4. difference(a, e) = IF a - e < -H THEN (a - e) + Word
                         ELSE IF a - e < H THEN a - e ELSE (a - e) - Word
  BY <1>3, DifferenceOf
<1> HIDE DEF H
<1>5. d \in ((-H) + 1)..H
  BY DEF H
<1>6. difference(a, e) = -d
  BY <1>1, <1>3, <1>4, <1>5
<1> QED  BY <1>6 DEF e

(* Two numbers differ as their lags do.                                    *)
LEMMA DifferenceOfLags ==
  ASSUME SequenceBarrierAssumption, NEW n \in Sequence, NEW a \in Sequence, NEW b \in Sequence,
         difference(n, b) - difference(n, a) \in (-(Word \div 2))..(Word \div 2 - 1)
  PROVE  difference(a, b) = difference(n, b) - difference(n, a)
<1> DEFINE H == Word \div 2
<1>1. /\ Word \in Nat /\ Word > 0 /\ H \in Nat /\ Word = 2 * H
      /\ a \in 0..(Word - 1) /\ b \in 0..(Word - 1) /\ n \in 0..(Word - 1)
  BY Halves
<1>2. difference(n, a) = IF n - a < -H THEN (n - a) + Word
                         ELSE IF n - a < H THEN n - a ELSE (n - a) - Word
  BY DifferenceOf
<1>3. difference(n, b) = IF n - b < -H THEN (n - b) + Word
                         ELSE IF n - b < H THEN n - b ELSE (n - b) - Word
  BY DifferenceOf
<1>4. difference(a, b) = IF a - b < -H THEN (a - b) + Word
                         ELSE IF a - b < H THEN a - b ELSE (a - b) - Word
  BY DifferenceOf
<1> HIDE DEF H
<1>5. difference(n, b) - difference(n, a) \in (-H)..(H - 1)
  BY DEF H
<1> QED  BY <1>1, <1>2, <1>3, <1>4, <1>5

LEMMA BackAgain ==
  ASSUME SequenceBarrierAssumption, NEW a \in Sequence, NEW k \in Sequence
  PROVE  /\ (k + difference(a, k)) % Word = a
         /\ difference(a, a) = 0
<1> DEFINE H == Word \div 2
           d == difference(a, k)
<1>1. Word \in Nat /\ Word > 0 /\ H \in Nat /\ Word = 2 * H /\ a \in 0..(Word - 1) /\ k \in 0..(Word - 1)
  BY Halves
<1>2. d = IF a - k < -H THEN (a - k) + Word
          ELSE IF a - k < H THEN a - k ELSE (a - k) - Word
  BY DifferenceOf
<1>3. difference(a, a) = IF a - a < -H THEN (a - a) + Word
                         ELSE IF a - a < H THEN a - a ELSE (a - a) - Word
  BY DifferenceOf
<1> HIDE DEF H, d
<1>4. d \in (-Word)..Word
  BY <1>1, <1>2
<1>5. (k + d) % Word = IF k + d < 0 THEN (k + d) + Word
                       ELSE IF k + d < Word THEN k + d ELSE (k + d) - Word
  BY <1>4, PlusOf
<1>6. (k + d) % Word = a
  BY <1>1, <1>2, <1>5
<1> QED  BY <1>1, <1>3, <1>6 DEF d

-----------------------------------------------------------------------------
(* The steps, and the numbers *)

LEMMA Room ==
  ASSUME SequenceBarrierAssumption, NEW m \in Nat, NEW a \in Nat, Within(m, a), Typed
  PROVE  Used(m) \in Nat /\ Used(m) + a < Word \div 2 /\ Word \div 2 \in Nat
<1>1. published \in Nat /\ MaxPublished \in Nat /\ published <= MaxPublished
  BY DEF Typed, SequenceBarrierAssumption
<1>2. PICK k \in Nat : MaxPublished = published + k
  <2>1. MaxPublished - published \in Nat /\ MaxPublished = published + (MaxPublished - published)
    BY <1>1
  <2> QED  BY <2>1
<1>3. published * m \in Nat /\ k * m \in Nat /\ MaxPublished * m = published * m + k * m
  BY <1>1, <1>2
<1> QED  BY <1>3, Halves DEF Within, Used

LEMMA LagType ==
  ASSUME SequenceBarrierAssumption, Typed
  PROVE  /\ \A n \in Sequence : Lag(n) \in Int
         /\ \A c \in Consumers : op[c].target \in Sequence /\ op[c].known \in Sequence
                                 /\ Due(c) \in Int /\ Lag(op[c].known) \in Int
         /\ \A t \in Threads : thread[t].sequence \in Sequence /\ Behindhand(t) \in Int
<1>1. Sequence \subseteq Int
  BY Halves
<1>2. \A n \in Sequence : Lag(n) \in Int
  BY <1>1, DifferenceType DEF Lag, Typed
<1>3. \A c \in Consumers : op[c].target \in Sequence /\ op[c].known \in Sequence
  BY DEF Typed, Operation
<1>4. \A t \in Threads : thread[t].sequence \in Sequence
  BY DEF Typed, Local
<1> QED  BY <1>2, <1>3, <1>4 DEF Due, Behindhand

(* What is linked waits.                                                   *)
LEMMA LinkedWaits ==
  ASSUME IInv
  PROVE  /\ \A c \in Consumers : Linked(c) => Waiting(c)
         /\ \A t \in Threads : \A d \in Requeued(t) \cup Resuming(t) :
              d \in Consumers /\ Linked(d) /\ Waiting(d)
         /\ \A d \in InBarrier : d \in Consumers /\ Linked(d) /\ Waiting(d)
<1>1. \A c \in Consumers : Linked(c) => Waiting(c)
  BY DEF IInv, Unclaimed, Waiting
<1>2. \A t \in Threads : Requeued(t) \subseteq Consumers /\ Resuming(t) \subseteq Consumers
  BY RangeOfList DEF IInv, Typed, Local, Requeued, Resuming
<1>3. InBarrier \subseteq Consumers
  BY RangeOfList DEF IInv, Typed, InBarrier
<1> QED  BY <1>1, <1>2, <1>3 DEF Linked, Held

(* What a step of t leaves as it was.                                      *)
LEMMA Frame ==
  ASSUME IInv, NEW m \in Nat, NEW a \in Nat, Numbers(m, a), Sorted, NEW t \in Threads,
         last_published' = last_published, published' = published,
         \A u \in Threads \ {t} : thread'[u] = thread[u],
         \A d \in Consumers : Linked(d) => op'[d].target = op[d].target
  PROVE  /\ \A n : Lag(n)' = Lag(n)
         /\ Used(m)' = Used(m)
         /\ \A d \in Consumers : Linked(d) => Due(d)' = Due(d)
         /\ \A u \in Threads \ {t} : /\ ThreadFine(m, a, u)' /\ ThreadSorted(u)'
                                     /\ WillTake(u)' <=> WillTake(u)
         /\ \A c \in Consumers : op'[c] = op[c] => OpFine(m, a, c)'
<1>1. \A n : Lag(n)' = Lag(n)
  BY DEF Lag, difference
<1>2. Used(m)' = Used(m)
  BY DEF Used
<1>3. \A d \in Consumers : op'[d].target = op[d].target => Due(d)' = Due(d)
  BY <1>1 DEF Due, Lag, difference
<1>4. \A u \in Threads \ {t} : Behindhand(u)' = Behindhand(u)
  BY DEF Behindhand, Lag, difference
<1>5. \A u \in Threads \ {t} : ThreadFine(m, a, u)' /\ (WillTake(u)' <=> WillTake(u))
  BY <1>2, <1>4 DEF Numbers, ThreadFine, WillTake
<1>6. \A u \in Threads \ {t} : Requeued(u)' = Requeued(u) /\ Resuming(u)' = Resuming(u)
  BY DEF Requeued, Resuming
<1>7. ASSUME NEW u \in Threads \ {t} PROVE ThreadSorted(u)'
  <2>1. \A d \in Requeued(u) \cup Resuming(u) : Due(d)' = Due(d)
    BY <1>3, LinkedWaits
  <2> QED  BY <1>4, <1>6, <2>1 DEF Sorted, ThreadSorted
<1>8. ASSUME NEW c \in Consumers, op'[c] = op[c] PROVE OpFine(m, a, c)'
  <2>1. Due(c)' = Due(c) /\ (Waiting(c)' <=> Waiting(c)) /\ (Decided(c)' <=> Decided(c))
    BY <1>3, <1>8 DEF Waiting, Decided
  <2>2. Lag(op[c].known)' = Lag(op[c].known)
    BY <1>8 DEF Lag, difference
  <2>3. precedes(op[c].known, op[c].target)' <=> precedes(op[c].known, op[c].target)
    BY <1>8 DEF precedes, difference
  <2> QED  BY <1>2, <2>1, <2>2, <2>3 DEF Numbers, OpFine
<1> QED  BY <1>1, <1>2, <1>3, <1>5, <1>7, <1>8

(* A step of a thread that was not to take the list, and puts in it at     *)
(* most what is not published.                                             *)
LEMMA StillCovered ==
  ASSUME IInv, Covered, NEW t \in Threads, ~WillTake(t),
         \A u \in Threads \ {t} : WillTake(u)' <=> WillTake(u),
         \A d \in Consumers : Linked(d) => Due(d)' = Due(d),
         \A d \in InBarrier' : d \in InBarrier \/ (d \in Consumers /\ Linked(d) /\ Due(d) < 0 /\ Due(d) \in Int)
  PROVE  Covered'
<1> SUFFICES ASSUME NEW d \in InBarrier', Due(d)' >= 0
             PROVE  \E u \in Threads : WillTake(u)'
  BY DEF Covered
<1>1. CASE d \in InBarrier
  <2>1. Due(d) >= 0
    BY <1>1, LinkedWaits
  <2>2. PICK u \in Threads : WillTake(u)
    BY <1>1, <2>1 DEF Covered
  <2> QED  BY <2>2
<1>2. CASE d \notin InBarrier
  <2>1. Due(d)' = Due(d) /\ Due(d) < 0 /\ Due(d) \in Int
    BY <1>2
  <2> QED  BY <2>1
<1> QED  BY <1>1, <1>2

(* A step of t after which all is in order for t and for what it changed.  *)
LEMMA InOrder ==
  ASSUME IInv, NEW m \in Nat, NEW a \in Nat, Numbers(m, a), Sorted, NEW t \in Threads,
         last_published' = last_published, published' = published,
         \A u \in Threads \ {t} : thread'[u] = thread[u],
         \A d \in Consumers : Linked(d) => op'[d].target = op[d].target,
         \A c \in Consumers : op'[c] = op[c] \/ OpFine(m, a, c)',
         ThreadFine(m, a, t)', ThreadSorted(t)'
  PROVE  Numbers(m, a)' /\ Sorted'
<1>1. /\ \A u \in Threads \ {t} : ThreadFine(m, a, u)' /\ ThreadSorted(u)'
      /\ \A c \in Consumers : op'[c] = op[c] => OpFine(m, a, c)'
  BY Frame
<1>2. \A u \in Threads : ThreadFine(m, a, u)' /\ ThreadSorted(u)'
  BY <1>1
<1> QED  BY <1>1, <1>2 DEF Numbers, Sorted

LEMMA AwaitNumbers ==
  ASSUME SequenceBarrierAssumption, NEW m \in Nat, NEW a \in Nat, Within(m, a),
         NInv(m, a), NEW c \in Consumers, NEW d \in Ahead, Await(c, Plus(d))
  PROVE  Numbers(m, a)' /\ Sorted' /\ Covered'
<1>1. /\ IInv /\ Typed /\ Numbers(m, a) /\ Sorted /\ Covered /\ c \in Threads
      /\ last_published \in Sequence /\ op \in [Consumers -> Operation]
      /\ thread \in [Threads -> Local] /\ c \notin Producers
      /\ op[c].state = "none" /\ thread[c].pc = "idle"
      /\ UNCHANGED <<last_published, awaiters, published>>
  BY DEF NInv, IInv, Typed, Locals, Await, Threads, SequenceBarrierAssumption
<1>2. Used(m) \in Nat /\ Used(m) + a < Word \div 2 /\ Word \div 2 \in Nat
  BY <1>1, Room
<1>3. d \in Int /\ -a <= d /\ d <= a
  BY DEF Within
<1>4. Plus(d) \in Sequence /\ Lag(Plus(d)) = -d /\ Lag(last_published) = 0
  <2>1. d \in (-Word)..Word /\ d \in (-(Word \div 2) + 1)..(Word \div 2)
    BY <1>2, <1>3, Halves
  <2> QED  BY <1>1, <2>1, PlusOf, LagOfPlus, BackAgain DEF Plus, Lag
<1> DEFINE o == [state  |-> IF precedes(last_published, Plus(d)) THEN "suspending" ELSE "resumed",
                 target |-> Plus(d), known |-> last_published, ready |-> FALSE]
<1>5. op' = [op EXCEPT ![c] = o] /\ op'[c] = o /\ \A e \in Consumers \ {c} : op'[e] = op[e]
  BY <1>1 DEF Await
<1>6. ~Linked(c)
  BY <1>1 DEF IInv, Unclaimed
<1>7. \A e \in Consumers : Linked(e) => op'[e].target = op[e].target
  BY <1>5, <1>6
<1>8. \A u \in Threads \ {c} : thread'[u] = thread[u]
  BY <1>1 DEF Await
<1>9. /\ \A n : Lag(n)' = Lag(n)
      /\ Used(m)' = Used(m)
      /\ \A e \in Consumers : Linked(e) => Due(e)' = Due(e)
      /\ \A u \in Threads \ {c} : WillTake(u)' <=> WillTake(u)
  BY <1>1, <1>7, <1>8, Frame
<1>10. Due(c)' = -d /\ Lag(op[c].known)' = 0 /\ op'[c].target = Plus(d)
  <2>1. op'[c].target = Plus(d) /\ op'[c].known = last_published
    BY <1>5
  <2>2. Lag(op'[c].target) = -d /\ Lag(op'[c].known) = 0
    BY <1>4, <2>1
  <2>3. Due(c)' = difference(last_published, op'[c].target)
        /\ Lag(op[c].known)' = difference(last_published, op'[c].known)
    BY <1>1 DEF Due, Lag, difference
  <2> QED  BY <2>1, <2>2, <2>3 DEF Lag
<1>11. OpFine(m, a, c)'
  <2>1. Due(c)' \in (-a)..Used(m)' \/ ~Waiting(c)'
    <3>1. CASE precedes(last_published, Plus(d))
      <4>1. Lag(Plus(d)) < 0
        BY <3>1 DEF precedes, Lag
      <4> QED  BY <1>2, <1>3, <1>4, <1>9, <1>10, <4>1
    <3>2. CASE ~precedes(last_published, Plus(d))
      BY <1>5, <3>2 DEF Waiting
    <3> QED  BY <3>1, <3>2
  <2>2. Decided(c)' => ~precedes(op[c].known, op[c].target)'
    <3>1. Decided(c)' => ~precedes(last_published, Plus(d))
      BY <1>5 DEF Decided
    <3>2. op'[c].known = last_published /\ op'[c].target = Plus(d)
      BY <1>5
    <3> QED  BY <3>1, <3>2 DEF precedes, difference
  <2> QED  BY <1>2, <1>9, <1>10, <2>1, <2>2 DEF OpFine
<1>12. ThreadFine(m, a, c)' /\ ThreadSorted(c)'
  <2>1. CASE ~precedes(last_published, Plus(d))
    <3>1. thread' = thread
      BY <2>1 DEF Await
    <3>2. thread[c].requeue = <<>> /\ thread[c].resume = <<>>
      BY <1>1 DEF IInv, Locals
    <3>3. Requeued(c)' = {} /\ Resuming(c)' = {}
      BY <3>1, <3>2, EmptyRange DEF Requeued, Resuming
    <3> QED  BY <1>1, <3>1, <3>3 DEF ThreadFine, ThreadSorted
  <2>2. CASE precedes(last_published, Plus(d))
    <3>1. /\ thread'[c].pc = "push" /\ thread'[c].sequence = Plus(d)
          /\ thread'[c].requeue = <<c>> /\ thread'[c].resume = <<>>
      BY <1>1, <2>2 DEF Await
    <3>2. Behindhand(c)' = -d
      <4>1. Behindhand(c)' = difference(last_published, thread'[c].sequence)
        BY <1>1 DEF Behindhand, Lag, difference
      <4> QED  BY <1>4, <3>1, <4>1 DEF Lag
    <3>3. Requeued(c)' = {c} /\ Resuming(c)' = {}
      <4>1. DOMAIN <<c>> = {1} /\ <<c>>[1] = c
        OBVIOUS
      <4>2. Range(<<c>>) = {c}
        BY <4>1 DEF Range
      <4> QED  BY <3>1, <4>2, EmptyRange DEF Requeued, Resuming
    <3>4. Lag(Plus(d)) < 0
      BY <2>2 DEF precedes, Lag
    <3>5. Behindhand(c)' \in (-a)..Used(m)' /\ Due(c)' <= Behindhand(c)'
      BY <1>2, <1>3, <1>4, <1>9, <1>10, <3>2, <3>4
    <3> QED  BY <1>1, <3>1, <3>3, <3>5 DEF ThreadFine, ThreadSorted
  <2> QED  BY <2>1, <2>2
<1>13. Numbers(m, a)' /\ Sorted'
  BY <1>1, <1>5, <1>7, <1>8, <1>11, <1>12, InOrder
<1>14. Covered'
  <2>1. ~WillTake(c) /\ InBarrier' = InBarrier
    BY <1>1 DEF WillTake, InBarrier
  <2> QED  BY <1>1, <1>9, <2>1, StillCovered
<1> QED  BY <1>13, <1>14

LEMMA SuspendNumbers ==
  ASSUME SequenceBarrierAssumption, NEW m \in Nat, NEW a \in Nat, Within(m, a),
         NInv(m, a), NEW c \in Consumers, Suspend(c)
  PROVE  Numbers(m, a)' /\ Sorted' /\ Covered'
<1>1. /\ IInv /\ Typed /\ Numbers(m, a) /\ Sorted /\ Covered /\ c \in Threads
      /\ op \in [Consumers -> Operation] /\ thread \in [Threads -> Local]
      /\ c \notin Producers /\ thread[c].pc = "suspend" /\ op[c].state = "suspending"
      /\ UNCHANGED <<last_published, awaiters, published>>
  BY DEF NInv, IInv, Typed, Locals, Suspend, Threads, SequenceBarrierAssumption
<1>2. /\ \A e \in Consumers \ {c} : op'[e] = op[e]
      /\ op'[c].target = op[c].target /\ op'[c].known = op[c].known
      /\ op'[c].state = IF op[c].ready THEN "resumed" ELSE "suspended"
  BY <1>1 DEF Suspend, Operation
<1>3. /\ \A u \in Threads \ {c} : thread'[u] = thread[u]
      /\ thread'[c].pc = "idle" /\ thread'[c].requeue = <<>> /\ thread'[c].resume = <<>>
  BY <1>1 DEF Suspend, Idle
<1>4. /\ \A n : Lag(n)' = Lag(n)
      /\ Used(m)' = Used(m)
      /\ \A e \in Consumers : Linked(e) => Due(e)' = Due(e)
      /\ \A u \in Threads \ {c} : WillTake(u)' <=> WillTake(u)
  BY <1>1, <1>2, <1>3, Frame
<1>5. OpFine(m, a, c)'
  <2>1. Due(c)' = Due(c) /\ Lag(op[c].known)' = Lag(op[c].known)
    BY <1>1, <1>2 DEF Due, Lag, difference
  <2>2. precedes(op[c].known, op[c].target)' <=> precedes(op[c].known, op[c].target)
    BY <1>2 DEF precedes, difference
  <2>3. Waiting(c) /\ (Decided(c)' => Decided(c))
    BY <1>1, <1>2 DEF Waiting, Decided
  <2> QED  BY <1>1, <1>4, <2>1, <2>2, <2>3 DEF Numbers, OpFine
<1>6. ThreadFine(m, a, c)' /\ ThreadSorted(c)'
  <2>1. Requeued(c)' = {} /\ Resuming(c)' = {}
    BY <1>3, EmptyRange DEF Requeued, Resuming
  <2> QED  BY <1>1, <1>3, <2>1 DEF ThreadFine, ThreadSorted
<1>7. Numbers(m, a)' /\ Sorted'
  BY <1>1, <1>2, <1>3, <1>5, <1>6, InOrder
<1>8. Covered'
  <2>1. ~WillTake(c) /\ InBarrier' = InBarrier
    BY <1>1 DEF WillTake, InBarrier
  <2> QED  BY <1>1, <1>4, <2>1, StillCovered
<1> QED  BY <1>7, <1>8

LEMMA AwaitResumeNumbers ==
  ASSUME SequenceBarrierAssumption, NEW m \in Nat, NEW a \in Nat, Within(m, a),
         NInv(m, a), NEW c \in Consumers, AwaitResume(c)
  PROVE  Numbers(m, a)' /\ Sorted' /\ Covered'
<1>1. /\ IInv /\ Typed /\ Numbers(m, a) /\ Sorted /\ Covered /\ c \in Threads
      /\ op[c].state = "resumed" /\ thread[c].pc = "idle" /\ c \notin Producers
      /\ thread[c].requeue = <<>> /\ thread[c].resume = <<>>
      /\ UNCHANGED <<last_published, awaiters, thread, published>>
  BY DEF NInv, IInv, Locals, AwaitResume, Threads, SequenceBarrierAssumption
<1>2. /\ \A e \in Consumers \ {c} : op'[e] = op[e]
      /\ op'[c].state = "none"
  BY <1>1 DEF NInv, IInv, Typed, AwaitResume, NoOperation
<1>3. ~Linked(c)
  BY <1>1 DEF IInv, Unclaimed
<1>4. /\ \A n : Lag(n)' = Lag(n)
      /\ \A e \in Consumers : Linked(e) => Due(e)' = Due(e)
      /\ \A u \in Threads \ {c} : WillTake(u)' <=> WillTake(u)
  BY <1>1, <1>2, <1>3, Frame
<1>5. OpFine(m, a, c)'
  BY <1>2 DEF OpFine, Waiting, Decided
<1>6. ThreadFine(m, a, c)' /\ ThreadSorted(c)'
  <2>1. Requeued(c)' = {} /\ Resuming(c)' = {}
    BY <1>1, EmptyRange DEF Requeued, Resuming
  <2> QED  BY <1>1, <2>1 DEF ThreadFine, ThreadSorted
<1>7. Numbers(m, a)' /\ Sorted'
  BY <1>1, <1>2, <1>3, <1>5, <1>6, InOrder
<1>8. Covered'
  <2>1. ~WillTake(c) /\ InBarrier' = InBarrier
    BY <1>1 DEF WillTake, InBarrier
  <2> QED  BY <1>1, <1>4, <2>1, StillCovered
<1> QED  BY <1>7, <1>8

(* The number an operation is resumed with is its thread's.                *)
LEMMA ResumeNextNumbers ==
  ASSUME SequenceBarrierAssumption, NEW m \in Nat, NEW a \in Nat, Within(m, a),
         NInv(m, a), NEW t \in Threads, ResumeNext(t)
  PROVE  Numbers(m, a)' /\ Sorted' /\ Covered'
<1>1. /\ IInv /\ Typed /\ Numbers(m, a) /\ Sorted /\ Covered
      /\ op \in [Consumers -> Operation] /\ thread \in [Threads -> Local]
      /\ thread[t].pc = "resume" /\ thread[t].resume # <<>>
      /\ thread[t].resume \in Seq(Consumers) /\ thread[t].sequence \in Sequence
      /\ UNCHANGED <<last_published, awaiters, published>>
  BY SMTT(30) DEF NInv, IInv, Typed, ResumeNext, Local
<1> PICK h \in Consumers : h = Head(thread[t].resume)
  BY <1>1, HeadTailRange, SMTT(30)
<1>2. h \in Resuming(t) /\ Range(Tail(thread[t].resume)) \subseteq Resuming(t)
  BY <1>1, HeadTailRange, SMTT(30) DEF Resuming
<1>3. op' = [op EXCEPT ![h].known = thread[t].sequence, ![h].ready = TRUE,
                       ![h].state = IF op[h].ready THEN "resumed" ELSE @]
  BY SMTT(30) DEF ResumeNext
<1>4. /\ \A e \in Consumers \ {h} : op'[e] = op[e]
      /\ op'[h].target = op[h].target /\ op'[h].known = thread[t].sequence
      /\ op'[h].state = IF op[h].ready THEN "resumed" ELSE op[h].state
  BY <1>1, <1>3 DEF Operation
<1>5. /\ \A u \in Threads \ {t} : thread'[u] = thread[u]
      /\ thread'[t].pc = "resume" /\ thread'[t].requeue = thread[t].requeue
      /\ thread'[t].sequence = thread[t].sequence
      /\ thread'[t].resume = Tail(thread[t].resume)
  BY <1>1 DEF ResumeNext, Local
<1>6. /\ \A n : Lag(n)' = Lag(n)
      /\ Used(m)' = Used(m)
      /\ \A e \in Consumers : Linked(e) => Due(e)' = Due(e)
      /\ \A u \in Threads \ {t} : WillTake(u)' <=> WillTake(u)
  BY <1>1, <1>4, <1>5, Frame
<1>7. /\ Linked(h) /\ Waiting(h) /\ Due(h) \in Int /\ Due(h) \in 0..Used(m)
      /\ Behindhand(t) \in 0..Used(m) /\ Due(h) >= Behindhand(t)
      /\ Used(m) \in Nat /\ Used(m) + a < Word \div 2 /\ Word \div 2 \in Nat
  <2>1. Linked(h) /\ Waiting(h)
    BY <1>1, <1>2, LinkedWaits
  <2>2. Used(m) \in Nat /\ Used(m) + a < Word \div 2 /\ Word \div 2 \in Nat
    BY <1>1, Room
  <2>3. Due(h) \in (-a)..Used(m) /\ Due(h) \in Int /\ Due(h) >= 0
    BY <1>1, <1>2, <2>1, LagType DEF Numbers, OpFine, Sorted, ThreadSorted
  <2>4. CASE t \in Producers
    <3>1. thread[t].sequence = last_published /\ last_published \in Sequence
      BY <1>1, <2>4 DEF Numbers, ThreadFine, Typed
    <3>2. Behindhand(t) = 0
      BY <3>1, BackAgain DEF Behindhand, Lag
    <3> QED  BY <2>1, <2>2, <2>3, <3>2
  <2>5. CASE t \in Consumers
    <3>1. Behindhand(t) \in 0..Used(m) /\ Due(h) >= Behindhand(t)
      BY <1>1, <1>2, <2>5 DEF Numbers, ThreadFine, Sorted, ThreadSorted
    <3> QED  BY <2>1, <2>2, <2>3, <3>1
  <2> QED  BY <2>4, <2>5 DEF Threads
<1>8. ~precedes(thread[t].sequence, op[h].target)
  <2>1. /\ last_published \in Sequence /\ thread[t].sequence \in Sequence
        /\ op[h].target \in Sequence
    BY <1>1 DEF Operation, Typed
  <2>2. Due(h) - Behindhand(t) \in (-(Word \div 2))..(Word \div 2 - 1)
        /\ Due(h) - Behindhand(t) >= 0
    BY <1>7
  <2>3. difference(thread[t].sequence, op[h].target) = Due(h) - Behindhand(t)
    BY <2>1, <2>2, DifferenceOfLags DEF Due, Behindhand, Lag
  <2>4. difference(thread[t].sequence, op[h].target) >= 0
        /\ difference(thread[t].sequence, op[h].target) \in Int
    BY <2>2, <2>3
  <2> QED  BY <2>4 DEF precedes
<1>9. OpFine(m, a, h)'
  <2>1. Due(h)' = Due(h) /\ Lag(op[h].known)' = Behindhand(t)
    BY <1>1, <1>4 DEF Due, Behindhand, Lag, difference
  <2>2. ~precedes(op[h].known, op[h].target)'
    BY <1>4, <1>8 DEF precedes, difference
  <2> QED  BY <1>6, <1>7, <2>1, <2>2 DEF OpFine
<1>10. ThreadFine(m, a, t)' /\ ThreadSorted(t)'
  <2>1. Requeued(t)' = Requeued(t) /\ Resuming(t)' \subseteq Resuming(t)
    BY <1>2, <1>5 DEF Requeued, Resuming
  <2>2. Behindhand(t)' = Behindhand(t)
    BY <1>1, <1>5 DEF Behindhand, Lag, difference
  <2>3. \A d \in Requeued(t) \cup Resuming(t) : Due(d)' = Due(d)
    BY <1>1, <1>6, LinkedWaits
  <2>4. ThreadFine(m, a, t) /\ ThreadSorted(t)
    BY <1>1 DEF Numbers, Sorted
  <2>5. ThreadFine(m, a, t)'
    BY <1>1, <1>5, <1>6, <2>2, <2>4 DEF ThreadFine
  <2> QED  BY <1>1, <1>5, <2>1, <2>2, <2>3, <2>4, <2>5 DEF ThreadSorted
<1>11. Numbers(m, a)' /\ Sorted'
  BY <1>1, <1>4, <1>5, <1>9, <1>10, InOrder
<1>12. Covered'
  <2>1. ~WillTake(t) /\ InBarrier' = InBarrier
    BY <1>1 DEF WillTake, InBarrier
  <2> QED  BY <1>1, <1>6, <2>1, StillCovered
<1> QED  BY <1>11, <1>12

LEMMA ResumeEndNumbers ==
  ASSUME SequenceBarrierAssumption, NEW m \in Nat, NEW a \in Nat, Within(m, a),
         NInv(m, a), NEW t \in Threads, ResumeEnd(t)
  PROVE  Numbers(m, a)' /\ Sorted' /\ Covered'
<1>1. /\ IInv /\ Typed /\ Numbers(m, a) /\ Sorted /\ Covered
      /\ thread \in [Threads -> Local]
      /\ thread[t].pc = "resume" /\ thread[t].resume = <<>> /\ thread[t].requeue = <<>>
      /\ UNCHANGED <<last_published, awaiters, op, published>>
  BY DEF NInv, IInv, Typed, Locals, ResumeEnd
<1>2. /\ \A u \in Threads \ {t} : thread'[u] = thread[u]
      /\ thread'[t].pc = IF t \in Producers THEN "idle" ELSE "suspend"
      /\ thread'[t].requeue = <<>> /\ thread'[t].resume = <<>>
  BY <1>1 DEF ResumeEnd, Local, Idle
<1>3. /\ \A e \in Consumers : Linked(e) => Due(e)' = Due(e)
      /\ \A u \in Threads \ {t} : WillTake(u)' <=> WillTake(u)
  BY <1>1, <1>2, Frame
<1>4. ThreadFine(m, a, t)' /\ ThreadSorted(t)'
  <2>1. Requeued(t)' = {} /\ Resuming(t)' = {}
    BY <1>2, EmptyRange DEF Requeued, Resuming
  <2> QED  BY <1>2, <2>1 DEF ThreadFine, ThreadSorted
<1>5. Numbers(m, a)' /\ Sorted'
  BY <1>1, <1>2, <1>4, InOrder
<1>6. Covered'
  <2>1. ~WillTake(t) /\ InBarrier' = InBarrier
    BY <1>1 DEF WillTake, InBarrier
  <2> QED  BY <1>1, <1>3, <2>1, StillCovered
<1> QED  BY <1>5, <1>6

(* publish() returns early if the list is empty: then nobody is forgotten. *)
LEMMA LoadAwaitersNumbers ==
  ASSUME SequenceBarrierAssumption, NEW m \in Nat, NEW a \in Nat, Within(m, a),
         NInv(m, a), NEW t \in Threads, LoadAwaiters(t)
  PROVE  Numbers(m, a)' /\ Sorted' /\ Covered'
<1>1. /\ IInv /\ Typed /\ Numbers(m, a) /\ Sorted /\ Covered
      /\ thread \in [Threads -> Local] /\ t \in Producers /\ t \notin Consumers
      /\ thread[t].pc = "load" /\ thread[t].resume = <<>> /\ thread[t].requeue = <<>>
      /\ UNCHANGED <<last_published, awaiters, op, published>>
  BY DEF NInv, IInv, Typed, Locals, LoadAwaiters, SequenceBarrierAssumption
<1>2. /\ \A u \in Threads \ {t} : thread'[u] = thread[u]
      /\ thread'[t].pc = IF awaiters = <<>> THEN "idle" ELSE "take"
      /\ awaiters # <<>> => thread'[t].sequence = thread[t].sequence
      /\ thread'[t].requeue = <<>> /\ thread'[t].resume = <<>>
  BY <1>1 DEF LoadAwaiters, Local, Idle
<1>3. ThreadFine(m, a, t)' /\ ThreadSorted(t)'
  <2>1. Requeued(t)' = {} /\ Resuming(t)' = {}
    BY <1>2, EmptyRange DEF Requeued, Resuming
  <2> QED  BY <1>1, <1>2, <2>1 DEF Numbers, ThreadFine, ThreadSorted
<1>4. Numbers(m, a)' /\ Sorted'
  BY <1>1, <1>2, <1>3, InOrder
<1>5. Covered'
  <2>1. CASE awaiters = <<>>
    <3>1. InBarrier' = {}
      BY <1>1, <2>1, EmptyRange DEF InBarrier
    <3> QED  BY <3>1 DEF Covered
  <2>2. CASE awaiters # <<>>
    BY <1>2, <2>2 DEF Covered, WillTake
  <2> QED  BY <2>1, <2>2
<1> QED  BY <1>4, <1>5

(* add_awaiter() leaves the list alone only if what it put there, and all  *)
(* that is due later, is not published.                                    *)
LEMMA CheckPublishedNumbers ==
  ASSUME SequenceBarrierAssumption, NEW m \in Nat, NEW a \in Nat, Within(m, a),
         NInv(m, a), NEW t \in Threads, CheckPublished(t)
  PROVE  Numbers(m, a)' /\ Sorted' /\ Covered'
<1>1. /\ IInv /\ Typed /\ Numbers(m, a) /\ Sorted /\ Covered
      /\ thread \in [Threads -> Local] /\ t \in Consumers /\ t \notin Producers
      /\ last_published \in Sequence /\ thread[t].pc = "load" /\ thread[t].requeue = <<>>
      /\ UNCHANGED <<last_published, awaiters, op, published>>
  BY DEF NInv, IInv, Typed, Locals, CheckPublished, SequenceBarrierAssumption
<1>2. /\ \A u \in Threads \ {t} : thread'[u] = thread[u]
      /\ thread'[t].pc = IF precedes(last_published, thread[t].sequence) THEN "resume" ELSE "take"
      /\ thread'[t].sequence = last_published
      /\ thread'[t].requeue = <<>> /\ thread'[t].resume = thread[t].resume
  BY <1>1 DEF CheckPublished, Local
<1>3. /\ \A e \in Consumers : Linked(e) => Due(e)' = Due(e)
      /\ \A u \in Threads \ {t} : WillTake(u)' <=> WillTake(u)
      /\ Used(m)' = Used(m)
  BY <1>1, <1>2, Frame
<1>4. Behindhand(t)' = 0
  <2>1. Behindhand(t)' = difference(last_published, thread'[t].sequence)
    BY <1>1 DEF Behindhand, Lag, difference
  <2> QED  BY <1>1, <1>2, <2>1, BackAgain
<1>5. ThreadFine(m, a, t)' /\ ThreadSorted(t)'
  <2>1. Requeued(t)' = {} /\ Resuming(t)' = Resuming(t)
    BY <1>2, EmptyRange DEF Requeued, Resuming
  <2>2. \A d \in Resuming(t) : Due(d)' = Due(d) /\ Due(d) >= 0
    BY <1>1, <1>3, LinkedWaits DEF Sorted, ThreadSorted
  <2>3. Used(m) \in Nat
    BY <1>1, Room
  <2> QED  BY <1>1, <1>2, <1>3, <1>4, <2>1, <2>2, <2>3 DEF ThreadFine, ThreadSorted
<1>6. Numbers(m, a)' /\ Sorted'
  BY <1>1, <1>2, <1>5, InOrder
<1>7. Covered'
  <2>1. CASE precedes(last_published, thread[t].sequence)
    <3>1. Behindhand(t) < 0 /\ Behindhand(t) \in Int
      BY <1>1, <2>1, LagType DEF precedes, Behindhand, Lag
    <3>2. ~WillTake(t) /\ InBarrier' = InBarrier
      BY <1>1, <3>1 DEF WillTake, InBarrier
    <3> QED  BY <1>1, <1>3, <3>2, StillCovered
  <2>2. CASE ~precedes(last_published, thread[t].sequence)
    BY <1>2, <2>2 DEF Covered, WillTake
  <2> QED  BY <2>1, <2>2
<1> QED  BY <1>6, <1>7

LEMMA TakeAwaitersNumbers ==
  ASSUME SequenceBarrierAssumption, NEW m \in Nat, NEW a \in Nat, Within(m, a),
         NInv(m, a), NEW t \in Threads, TakeAwaiters(t)
  PROVE  Numbers(m, a)' /\ Sorted' /\ Covered'
<1>1. /\ IInv /\ Typed /\ Numbers(m, a) /\ Sorted /\ Covered
      /\ thread \in [Threads -> Local] /\ t \in Producers /\ t \notin Consumers
      /\ thread[t].pc = "take" /\ thread[t].sequence = last_published
      /\ last_published \in Sequence /\ awaiters \in Seq(Consumers) /\ NoRepeat(awaiters)
      /\ awaiters' = <<>> /\ UNCHANGED <<last_published, op, published>>
  BY DEF NInv, IInv, Typed, Apart, Numbers, ThreadFine, TakeAwaiters, SequenceBarrierAssumption
<1> DEFINE X == {c \in Consumers : precedes(last_published, op[c].target)}
           Y == {c \in Consumers : ~precedes(last_published, op[c].target)}
<1>2. /\ \A u \in Threads \ {t} : thread'[u] = thread[u]
      /\ thread'[t].pc \in {"resume", "push"} /\ thread'[t].sequence = last_published
      /\ thread'[t].requeue = Among(awaiters, X) /\ thread'[t].resume = Among(awaiters, Y)
  <2>1. /\ ToRequeue(awaiters, last_published) = Among(awaiters, X)
        /\ ToResume(awaiters, last_published) = Among(awaiters, Y)
    BY DEF ToRequeue, ToResume
  <2> HIDE DEF X, Y
  <2>2. thread' = [thread EXCEPT ![t] =
          [pc |-> IF Among(awaiters, X) = <<>> THEN "resume" ELSE "push",
           sequence |-> last_published, requeue |-> Among(awaiters, X),
           resume |-> Among(awaiters, Y)]]
    BY <1>1, <2>1 DEF TakeAwaiters
  <2> QED  BY <1>1, <2>2
<1>3. /\ Requeued(t)' = InBarrier \cap X /\ Resuming(t)' = InBarrier \cap Y
  <2> HIDE DEF X, Y
  <2> QED  BY <1>1, <1>2, Part DEF Requeued, Resuming, InBarrier
<1>4. \A e \in Consumers : Linked(e) => Due(e)' = Due(e)
  BY <1>1, <1>2, Frame
<1>5. \A d \in InBarrier : Due(d)' = Due(d) /\ Due(d) \in Int
  BY <1>1, <1>4, LinkedWaits, LagType
<1>6. \A d \in InBarrier \cap X : Due(d)' < 0
  BY <1>5 DEF precedes, Due, Lag
<1>7. \A d \in InBarrier \cap Y : Due(d)' >= 0
  BY <1>5 DEF precedes, Due, Lag
<1> HIDE DEF X, Y
<1>8. ThreadFine(m, a, t)' /\ ThreadSorted(t)'
  BY <1>1, <1>2, <1>3, <1>6, <1>7 DEF ThreadFine, ThreadSorted
<1>9. Numbers(m, a)' /\ Sorted'
  BY <1>1, <1>2, <1>8, InOrder
<1>10. InBarrier' = {}
  BY <1>1, EmptyRange DEF InBarrier
<1> QED  BY <1>9, <1>10 DEF Covered

(* add_awaiter() sorts by the number it has read, and goes round again for *)
(* the earliest of those that are ahead of it.                             *)
LEMMA RetakeAwaitersNumbers ==
  ASSUME SequenceBarrierAssumption, NEW m \in Nat, NEW a \in Nat, Within(m, a),
         NInv(m, a), NEW t \in Threads, RetakeAwaiters(t)
  PROVE  Numbers(m, a)' /\ Sorted' /\ Covered'
<1>1. /\ IInv /\ Typed /\ Numbers(m, a) /\ Sorted /\ Covered
      /\ thread \in [Threads -> Local] /\ t \in Consumers /\ t \notin Producers
      /\ op \in [Consumers -> Operation]
      /\ thread[t].pc = "take" /\ thread[t].sequence \in Sequence
      /\ thread[t].resume \in Seq(Consumers) /\ NoRepeat(thread[t].resume)
      /\ last_published \in Sequence /\ awaiters \in Seq(Consumers) /\ NoRepeat(awaiters)
      /\ awaiters' = <<>> /\ UNCHANGED <<last_published, op, published>>
  BY DEF NInv, IInv, Typed, Local, Apart, RetakeAwaiters, SequenceBarrierAssumption
<1>2. /\ Used(m) \in Nat /\ Used(m) + a < Word \div 2 /\ Word \div 2 \in Nat
      /\ Behindhand(t) \in 0..Used(m)
  BY <1>1, Room DEF Numbers, ThreadFine
<1> DEFINE k == thread[t].sequence
           X == {c \in Consumers : difference(op[c].target, k) > 0}
           Y == {c \in Consumers : difference(op[c].target, k) <= 0}
           Q == Among(awaiters, X)
           P == Among(awaiters, Y)
           n == IF Q = <<>> THEN k ELSE Earliest(Q, k)
<1>3. thread' = [thread EXCEPT ![t] =
        [pc |-> IF Q = <<>> THEN "resume" ELSE "push",
         sequence |-> n, requeue |-> Q, resume |-> thread[t].resume \o P]]
  <2>1. StillAhead(awaiters, k) = Q /\ Reached(awaiters, k) = P
    BY DEF StillAhead, Reached
  <2> HIDE DEF Q, P
  <2> QED  BY <2>1 DEF RetakeAwaiters
<1>4. \A d \in InBarrier : /\ d \in Consumers /\ Linked(d)
                           /\ Due(d) \in (-a)..Used(m) /\ Due(d) \in Int
                           /\ difference(op[d].target, k) = Behindhand(t) - Due(d)
  <2> TAKE d \in InBarrier
  <2>1. d \in Consumers /\ Linked(d) /\ Waiting(d)
    BY <1>1, LinkedWaits
  <2>2. Due(d) \in (-a)..Used(m) /\ Due(d) \in Int /\ op[d].target \in Sequence
    BY <1>1, <2>1, LagType DEF Numbers, OpFine
  <2>3. Behindhand(t) - Due(d) \in (-(Word \div 2))..(Word \div 2 - 1)
    BY <1>2, <2>2
  <2>4. difference(op[d].target, k) = Behindhand(t) - Due(d)
    BY <1>1, <2>2, <2>3, DifferenceOfLags DEF Behindhand, Due, Lag
  <2> QED  BY <2>1, <2>2, <2>4
<1>5. /\ Q \in Seq(Consumers) /\ Range(Q) = InBarrier \cap X
      /\ P \in Seq(Consumers) /\ NoRepeat(P) /\ Range(P) = InBarrier \cap Y
  <2> HIDE DEF X, Y
  <2> QED  BY <1>1, Part DEF InBarrier
<1>6. /\ \A d \in Range(Q) : Due(d) < Behindhand(t)
      /\ \A d \in Range(P) : Due(d) >= Behindhand(t)
  BY <1>2, <1>4, <1>5
<1>7. Resuming(t) \cap Range(P) = {} /\ Range(thread[t].resume) = Resuming(t)
  BY <1>1, <1>5 DEF IInv, Apart, Held, Resuming
<1>8. Range(thread[t].resume \o P) = Resuming(t) \cup Range(P)
  <2> HIDE DEF P
  <2> QED  BY <1>1, <1>5, <1>7, Joined
<1>9. IF Q = <<>> THEN n = k
      ELSE \E c \in Range(Q) : n = op[c].target /\ \A d \in Range(Q) : Due(d) <= Due(c)
  <2> SUFFICES ASSUME Q # <<>>
               PROVE  \E c \in Range(Q) : n = op[c].target /\ \A d \in Range(Q) : Due(d) <= Due(c)
    OBVIOUS
  <2>1. n = Earliest(Q, k)
    OBVIOUS
  <2> HIDE DEF Q, X, Y, P, n
  <2>2. k \in Sequence
    BY <1>1
  <2> HIDE DEF k
  <2>3. PICK c \in Range(Q) :
          /\ Earliest(Q, k) = (k + difference(op[c].target, k)) % Word
          /\ \A d \in Range(Q) : difference(op[c].target, k) <= difference(op[d].target, k)
    BY <1>1, <1>5, <2>2, EarliestOf
  <2>4. c \in InBarrier /\ c \in Consumers /\ op[c].target \in Sequence
    BY <1>1, <1>4, <1>5 DEF Operation
  <2>5. n = op[c].target
    BY <2>1, <2>2, <2>3, <2>4, BackAgain
  <2>6. \A d \in Range(Q) : Due(d) <= Due(c)
    BY <1>2, <1>4, <1>5, <2>3, <2>4
  <2> QED  BY <2>5, <2>6
<1> HIDE DEF Q, P, X, Y, n
<1>10. /\ \A u \in Threads \ {t} : thread'[u] = thread[u]
       /\ thread'[t].pc = (IF Q = <<>> THEN "resume" ELSE "push") /\ thread'[t].sequence = n
       /\ thread'[t].requeue = Q /\ thread'[t].resume = thread[t].resume \o P
  BY <1>1, <1>3
<1>11. /\ \A e \in Consumers : Linked(e) => Due(e)' = Due(e)
       /\ Used(m)' = Used(m)
  BY <1>1, <1>10, Frame
<1>12. Requeued(t)' = Range(Q) /\ Resuming(t)' = Resuming(t) \cup Range(P)
  BY <1>8, <1>10 DEF Requeued, Resuming
<1>13. \A d \in Requeued(t)' \cup Resuming(t)' : Due(d)' = Due(d) /\ Due(d) \in Int
  <2>1. \A d \in InBarrier \cup Resuming(t) : Due(d)' = Due(d) /\ Due(d) \in Int
    BY <1>1, <1>11, LinkedWaits, LagType
  <2> QED  BY <1>5, <1>12, <2>1
<1>14. \A d \in Resuming(t) : Due(d) >= Behindhand(t)
  BY <1>1 DEF Sorted, ThreadSorted
<1>15. \A d \in Resuming(t)' : Due(d)' >= Behindhand(t) /\ Due(d)' >= 0
  BY <1>2, <1>6, <1>12, <1>13, <1>14
<1>16. Behindhand(t)' = difference(last_published, n)
  BY <1>1, <1>10 DEF Behindhand, Lag, difference
<1>17. ThreadFine(m, a, t)' /\ ThreadSorted(t)'
  <2>1. CASE Q = <<>>
    <3>1. Behindhand(t)' = Behindhand(t)
      BY <1>9, <1>16, <2>1 DEF Behindhand, Lag
    <3>2. Requeued(t)' = {} /\ thread'[t].pc = "resume"
      BY <1>10, <1>12, <2>1, EmptyRange
    <3> QED  BY <1>1, <1>2, <1>11, <1>15, <3>1, <3>2 DEF ThreadFine, ThreadSorted
  <2>2. CASE Q # <<>>
    <3>1. PICK c \in Range(Q) : n = op[c].target /\ \A d \in Range(Q) : Due(d) <= Due(c)
      BY <1>9, <2>2
    <3>2. Behindhand(t)' = Due(c)
      BY <1>16, <3>1 DEF Due, Lag
    <3>3. thread'[t].pc = "push" /\ Due(c) \in (-a)..Used(m)
      BY <1>4, <1>5, <1>10, <2>2, <3>1
    <3> QED  BY <1>1, <1>11, <1>12, <1>13, <1>15, <3>1, <3>2, <3>3 DEF ThreadFine, ThreadSorted
  <2> QED  BY <2>1, <2>2
<1>18. Numbers(m, a)' /\ Sorted'
  BY <1>1, <1>10, <1>17, InOrder
<1>19. InBarrier' = {}
  BY <1>1, EmptyRange DEF InBarrier
<1> QED  BY <1>18, <1>19 DEF Covered

LEMMA RequeueNumbers ==
  ASSUME SequenceBarrierAssumption, NEW m \in Nat, NEW a \in Nat, Within(m, a),
         NInv(m, a), NEW t \in Threads, Requeue(t)
  PROVE  Numbers(m, a)' /\ Sorted' /\ Covered'
<1>1. /\ IInv /\ Typed /\ Numbers(m, a) /\ Sorted /\ Covered
      /\ thread \in [Threads -> Local] /\ t \in Producers /\ t \notin Consumers
      /\ thread[t].pc = "push" /\ InBarrier' = Requeued(t) \cup InBarrier
      /\ UNCHANGED <<last_published, op, published>>
  <2>1. /\ thread[t].requeue \in Seq(Consumers) /\ NoRepeat(thread[t].requeue)
        /\ awaiters \in Seq(Consumers) /\ NoRepeat(awaiters)
        /\ Range(thread[t].requeue) \cap Range(awaiters) = {}
    BY DEF NInv, IInv, Typed, Local, Apart, InBarrier, Held, Requeued
  <2>2. awaiters' = thread[t].requeue \o awaiters
    BY DEF Requeue
  <2>3. InBarrier' = Requeued(t) \cup InBarrier
    BY <2>1, <2>2, Joined DEF InBarrier, Requeued
  <2> QED  BY <2>3 DEF NInv, IInv, Typed, Requeue, SequenceBarrierAssumption
<1>2. /\ \A u \in Threads \ {t} : thread'[u] = thread[u]
      /\ thread'[t].pc = "resume" /\ thread'[t].sequence = thread[t].sequence
      /\ thread'[t].requeue = <<>> /\ thread'[t].resume = thread[t].resume
  BY <1>1 DEF Requeue, Local
<1>3. /\ \A e \in Consumers : Linked(e) => Due(e)' = Due(e)
      /\ \A u \in Threads \ {t} : WillTake(u)' <=> WillTake(u)
  BY <1>1, <1>2, Frame
<1>4. ThreadFine(m, a, t)' /\ ThreadSorted(t)'
  <2>1. Requeued(t)' = {} /\ Resuming(t)' = Resuming(t)
    BY <1>2, EmptyRange DEF Requeued, Resuming
  <2>2. \A d \in Resuming(t) : Due(d)' = Due(d) /\ Due(d) >= 0
    BY <1>1, <1>3, LinkedWaits DEF Sorted, ThreadSorted
  <2> QED  BY <1>1, <1>2, <2>1, <2>2 DEF Numbers, ThreadFine, ThreadSorted
<1>5. Numbers(m, a)' /\ Sorted'
  BY <1>1, <1>2, <1>4, InOrder
<1>6. Covered'
  <2>1. ~WillTake(t)
    BY <1>1 DEF WillTake
  <2>2. \A d \in Requeued(t) : d \in Consumers /\ Linked(d) /\ Due(d) < 0 /\ Due(d) \in Int
    BY <1>1, LinkedWaits, LagType DEF Sorted, ThreadSorted
  <2> QED  BY <1>1, <1>3, <2>1, <2>2, StillCovered
<1> QED  BY <1>5, <1>6

(* What add_awaiter() puts in the list is due no sooner than the number by *)
(* which it is going to look.                                              *)
LEMMA PushAwaitersNumbers ==
  ASSUME SequenceBarrierAssumption, NEW m \in Nat, NEW a \in Nat, Within(m, a),
         NInv(m, a), NEW t \in Threads, PushAwaiters(t)
  PROVE  Numbers(m, a)' /\ Sorted' /\ Covered'
<1>1. /\ IInv /\ Typed /\ Numbers(m, a) /\ Sorted /\ Covered
      /\ thread \in [Threads -> Local] /\ t \in Consumers /\ t \notin Producers
      /\ thread[t].pc = "push" /\ InBarrier' = Requeued(t) \cup InBarrier
      /\ UNCHANGED <<last_published, op, published>>
  <2>1. /\ thread[t].requeue \in Seq(Consumers) /\ NoRepeat(thread[t].requeue)
        /\ awaiters \in Seq(Consumers) /\ NoRepeat(awaiters)
        /\ Range(thread[t].requeue) \cap Range(awaiters) = {}
    BY DEF NInv, IInv, Typed, Local, Apart, InBarrier, Held, Requeued
  <2>2. awaiters' = thread[t].requeue \o awaiters
    BY DEF PushAwaiters
  <2>3. InBarrier' = Requeued(t) \cup InBarrier
    BY <2>1, <2>2, Joined DEF InBarrier, Requeued
  <2> QED  BY <2>3 DEF NInv, IInv, Typed, PushAwaiters, SequenceBarrierAssumption
<1>2. /\ \A u \in Threads \ {t} : thread'[u] = thread[u]
      /\ thread'[t].pc = "load" /\ thread'[t].sequence = thread[t].sequence
      /\ thread'[t].requeue = <<>> /\ thread'[t].resume = thread[t].resume
  BY <1>1 DEF PushAwaiters, Local
<1>3. /\ \A e \in Consumers : Linked(e) => Due(e)' = Due(e)
      /\ \A u \in Threads \ {t} : WillTake(u)' <=> WillTake(u)
      /\ Used(m)' = Used(m)
  BY <1>1, <1>2, Frame
<1>4. Behindhand(t)' = Behindhand(t) /\ Behindhand(t) \in Int
  BY <1>1, <1>2, LagType DEF Behindhand, Lag, difference
<1>5. ThreadFine(m, a, t)' /\ ThreadSorted(t)'
  <2>1. Requeued(t)' = {} /\ Resuming(t)' = Resuming(t)
    BY <1>2, EmptyRange DEF Requeued, Resuming
  <2>2. \A d \in Resuming(t) : Due(d)' = Due(d) /\ Due(d) >= 0
    BY <1>1, <1>3, LinkedWaits DEF Sorted, ThreadSorted
  <2> QED  BY <1>1, <1>2, <1>3, <1>4, <2>1, <2>2 DEF Numbers, ThreadFine, ThreadSorted
<1>6. Numbers(m, a)' /\ Sorted'
  BY <1>1, <1>2, <1>5, InOrder
<1>7. Covered'
  <2> SUFFICES ASSUME NEW d \in InBarrier', Due(d)' >= 0
               PROVE  \E u \in Threads : WillTake(u)'
    BY DEF Covered
  <2>1. d \in Consumers /\ Linked(d) /\ Due(d)' = Due(d) /\ Due(d) \in Int
    BY <1>1, <1>3, LinkedWaits, LagType
  <2>2. CASE d \in Requeued(t)
    <3>1. Due(d) <= Behindhand(t)
      BY <1>1, <2>2 DEF Sorted, ThreadSorted
    <3>2. Behindhand(t)' >= 0
      BY <1>4, <2>1, <3>1
    <3> QED  BY <1>2, <3>2 DEF WillTake
  <2>3. CASE d \in InBarrier
    <3>1. PICK u \in Threads : WillTake(u)
      BY <1>1, <2>1, <2>3 DEF Covered
    <3>2. u # t
      BY <1>1, <3>1 DEF WillTake
    <3> QED  BY <1>3, <3>1, <3>2
  <2> QED  BY <1>1, <2>2, <2>3
<1> QED  BY <1>6, <1>7

(* Multiplying keeps the order of natural numbers.                         *)
LEMMA Multiples ==
  ASSUME NEW x \in Nat, NEW y \in Nat, NEW m \in Nat, x <= y
  PROVE  x * m \in Nat /\ y * m \in Nat /\ x * m <= y * m
<1>1. PICK k \in Nat : y = x + k
  <2>1. y - x \in Nat /\ y = x + (y - x)
    OBVIOUS
  <2> QED  BY <2>1
<1>2. x * m \in Nat /\ k * m \in Nat /\ (x + k) * m = x * m + k * m
  OBVIOUS
<1> QED  BY <1>1, <1>2

(* Publishing moves every lag by as much; the producer is about to look.   *)
LEMMA PublishNumbers ==
  ASSUME SequenceBarrierAssumption, OneProducer, NEW m \in Nat, NEW a \in Nat, Within(m, a),
         NInv(m, a), NEW p \in Producers, NEW d \in Strides, Publish(p, Plus(d)), Typed'
  PROVE  Numbers(m, a)' /\ Sorted' /\ Covered'
<1>1. /\ IInv /\ Typed /\ Numbers(m, a) /\ Sorted /\ p \in Threads /\ p \notin Consumers
      /\ thread \in [Threads -> Local] /\ last_published \in Sequence
      /\ thread[p].pc = "idle" /\ last_published' = Plus(d) /\ published' = published + 1
      /\ thread[p].requeue = <<>> /\ thread[p].resume = <<>>
      /\ UNCHANGED <<awaiters, op>>
  BY DEF NInv, IInv, Typed, Locals, Publish, Threads, SequenceBarrierAssumption
<1>2. /\ \A u \in Threads \ {p} : thread'[u] = thread[u]
      /\ thread'[p].pc = "load" /\ thread'[p].sequence = last_published'
      /\ thread'[p].requeue = <<>> /\ thread'[p].resume = <<>>
  BY <1>1 DEF Publish, Local
<1>3. /\ Used(m) \in Nat /\ Used(m)' = Used(m) + m /\ Used(m)' + a < Word \div 2
      /\ Word \div 2 \in Nat /\ d \in Int /\ 1 <= d /\ d <= m /\ m < Word \div 2
  <2>1. Used(m) \in Nat /\ Used(m)' \in Nat /\ Word \div 2 \in Nat
        /\ Used(m)' + a < Word \div 2
    <3>0. MaxPublished \in Nat
      BY DEF SequenceBarrierAssumption
    <3>1. published' \in 0..MaxPublished
      BY Zenon DEF Typed
    <3>2. published' \in Nat /\ published' <= MaxPublished
      BY <3>0, <3>1
    <3>3. published' * m \in Nat /\ MaxPublished * m \in Nat
          /\ published' * m <= MaxPublished * m
      BY <3>0, <3>2, Multiples
    <3>4. published' * m + a < Word \div 2
      BY <3>3, Halves DEF Within
    <3> QED  BY <1>1, <3>3, <3>4, Room DEF Used
  <2>2. published \in Nat /\ (published + 1) * m = published * m + m
    BY <1>1 DEF Typed, SequenceBarrierAssumption
  <2>3. Used(m)' = Used(m) + m
    BY <1>1, <2>2 DEF Used
  <2>4. d \in 1..m
    BY DEF Within
  <2> QED  BY <2>1, <2>3, <2>4
<1>4. ASSUME NEW n \in Sequence, Lag(n) \in (-a)..Used(m)
      PROVE  difference(last_published', n) = Lag(n) + d
             /\ difference(last_published', n) \in (-a)..Used(m)' /\ Lag(n) \in Int
  <2>1. d \in (-(Word \div 2))..(Word \div 2)
    BY <1>3
  <2>2. Lag(n) \in Int /\ -a <= Lag(n) /\ Lag(n) <= Used(m)
    BY <1>1, <1>4, LagType
  <2>3. Lag(n) + d \in (-(Word \div 2))..(Word \div 2 - 1) /\ Lag(n) + d \in (-a)..Used(m)'
    BY <1>3, <2>2
  <2>4. difference((last_published + d) % Word, n) = Lag(n) + d
    BY <1>1, <2>1, <2>3, LagGrows DEF Lag
  <2> QED  BY <1>1, <2>2, <2>3, <2>4 DEF Plus
<1>5. \A n \in Sequence : Lag(n) \in (-a)..Used(m) =>
        /\ difference(last_published', n) = Lag(n) + d
        /\ difference(last_published', n) \in (-a)..Used(m)' /\ Lag(n) \in Int
  BY <1>4
<1>6. /\ \A n : Lag(n)' = difference(last_published', n)
      /\ \A c \in Consumers : Due(c)' = difference(last_published', op[c].target)
      /\ \A t \in Threads : Behindhand(t)' = difference(last_published', thread'[t].sequence)
  BY <1>1 DEF Lag, Due, Behindhand, difference
<1>7. \A c \in Consumers : op[c].target \in Sequence /\ op[c].known \in Sequence
  BY <1>1, LagType
<1>8. \A c \in Consumers : Waiting(c) =>
        Due(c)' = Due(c) + d /\ Due(c)' \in (-a)..Used(m)' /\ Due(c) \in Int
  BY <1>1, <1>5, <1>6, <1>7 DEF Numbers, OpFine, Due
<1>9. ASSUME NEW c \in Consumers PROVE OpFine(m, a, c)'
  <2>1. (Waiting(c)' <=> Waiting(c)) /\ (Decided(c)' <=> Decided(c))
    BY <1>1 DEF Waiting, Decided
  <2>2. ASSUME Decided(c)
        PROVE  Lag(op[c].known)' \in 0..Used(m)' /\ ~precedes(op[c].known, op[c].target)'
    <3>1. Lag(op[c].known) \in 0..Used(m) /\ ~precedes(op[c].known, op[c].target)
      BY <1>1, <2>2 DEF Numbers, OpFine
    <3>2. Lag(op[c].known) \in (-a)..Used(m)
      BY <1>3, <3>1
    <3>3. /\ difference(last_published', op[c].known) = Lag(op[c].known) + d
          /\ difference(last_published', op[c].known) \in (-a)..Used(m)'
      BY <1>5, <1>7, <3>2
    <3>4. Lag(op[c].known)' = difference(last_published', op[c].known)
      BY <1>1 DEF Lag, difference
    <3>5. ~precedes(op[c].known, op[c].target)'
      BY <1>1, <3>1 DEF precedes, difference
    <3> QED  BY <1>3, <3>1, <3>3, <3>4, <3>5
  <2> QED  BY <1>8, <2>1, <2>2 DEF OpFine
<1>10. \A t \in Producers : t = p
  BY DEF OneProducer
<1>11. ASSUME NEW t \in Consumers, thread[t].pc \in {"push", "load", "take", "resume"}
       PROVE  /\ Behindhand(t)' = Behindhand(t) + d /\ Behindhand(t)' \in (-a)..Used(m)'
              /\ Behindhand(t) \in Int
  <2>1. t \in Threads \ {p} /\ thread'[t].sequence = thread[t].sequence
    BY <1>1, <1>2 DEF Threads
  <2>2. thread[t].sequence \in Sequence
    BY <1>1, <2>1, LagType
  <2>3. Behindhand(t) \in (-a)..Used(m)
    <3>1. Behindhand(t) \in (-a)..Used(m) \/ Behindhand(t) \in 0..Used(m)
      BY <1>1, <1>11, <2>1 DEF Numbers, ThreadFine
    <3> QED  BY <1>3, <3>1
  <2> QED  BY <1>5, <1>6, <2>1, <2>2, <2>3 DEF Behindhand
<1>12. ASSUME NEW t \in Threads PROVE ThreadFine(m, a, t)' /\ ThreadSorted(t)'
  <2>1. CASE t = p
    <3>1. Requeued(t)' = {} /\ Resuming(t)' = {}
      BY <1>2, <2>1, EmptyRange DEF Requeued, Resuming
    <3> QED  BY <1>1, <1>2, <2>1, <3>1 DEF ThreadFine, ThreadSorted
  <2>2. CASE t # p
    <3>1. /\ t \in Consumers /\ t \notin Producers /\ thread'[t] = thread[t]
          /\ Requeued(t)' = Requeued(t) /\ Resuming(t)' = Resuming(t)
      BY <1>2, <1>10, <2>2 DEF Threads, Requeued, Resuming
    <3>2. \A e \in Requeued(t) \cup Resuming(t) : Due(e)' = Due(e) + d /\ Due(e) \in Int
      BY <1>1, <1>8, LinkedWaits
    <3>3. ThreadFine(m, a, t) /\ ThreadSorted(t)
      BY <1>1 DEF Numbers, Sorted
    <3>4. ThreadFine(m, a, t)'
      <4>1. CASE thread[t].pc \in {"push", "load"}
        BY <1>11, <3>1, <4>1 DEF ThreadFine
      <4>2. CASE thread[t].pc \in {"take", "resume"}
        <5>1. Behindhand(t) >= 0
          BY <3>1, <3>3, <4>2 DEF ThreadFine
        <5>2. Behindhand(t)' \in 0..Used(m)'
          BY <1>3, <1>11, <3>1, <4>2, <5>1
        <5> QED  BY <3>1, <4>2, <5>2 DEF ThreadFine
      <4>3. CASE thread[t].pc \notin {"push", "load", "take", "resume"}
        BY <3>1, <4>3 DEF ThreadFine
      <4> QED  BY <4>1, <4>2, <4>3
    <3>5. \A e \in Requeued(t) : Due(e)' <= Behindhand(t)'
      <4>1. CASE thread[t].pc = "push"
        BY <1>3, <1>11, <3>1, <3>2, <3>3, <4>1 DEF ThreadSorted
      <4>2. CASE thread[t].pc # "push"
        <5>1. Requeued(t) = {}
          BY <1>1, <4>2, EmptyRange DEF IInv, Locals, Requeued
        <5> QED  BY <5>1
      <4> QED  BY <4>1, <4>2
    <3>6. \A e \in Resuming(t) : Due(e)' >= 0
      BY <1>3, <3>2, <3>3 DEF ThreadSorted
    <3>7. thread[t].pc \in {"take", "resume"} =>
            \A e \in Resuming(t) : Due(e)' >= Behindhand(t)'
      BY <1>3, <1>11, <3>1, <3>2, <3>3 DEF ThreadSorted
    <3> QED  BY <3>1, <3>4, <3>5, <3>6, <3>7 DEF ThreadSorted
  <2> QED  BY <2>1, <2>2
<1>13. Covered'
  BY <1>1, <1>2 DEF Covered, WillTake
<1> QED  BY <1>9, <1>12, <1>13 DEF Numbers, Sorted

LEMMA NumbersInit ==
  ASSUME SequenceBarrierAssumption, NEW m \in Nat, NEW a \in Nat, Init
  PROVE  NInv(m, a)
<1>1. IInv
  BY BarrierInit
<1>2. /\ \A t \in Threads : /\ thread[t].pc = "idle"
                            /\ thread[t].requeue = <<>> /\ thread[t].resume = <<>>
      /\ \A c \in Consumers : op[c].state = "none"
      /\ InBarrier = {}
  BY EmptyRange DEF Init, Idle, NoOperation, InBarrier
<1>3. Numbers(m, a)
  BY <1>2 DEF Numbers, OpFine, ThreadFine, Waiting, Decided
<1>4. Sorted
  BY <1>2, EmptyRange DEF Sorted, ThreadSorted, Requeued, Resuming
<1> QED  BY <1>1, <1>2, <1>3, <1>4 DEF NInv, Covered

LEMMA NumbersInvariant ==
  ASSUME SequenceBarrierAssumption, OneProducer, NEW m \in Nat, NEW a \in Nat, Within(m, a)
  PROVE  Spec => []NInv(m, a)
<1>1. Init => NInv(m, a)
  BY NumbersInit
<1>2. IInv' /\ NInv(m, a) /\ [Next]_vars => NInv(m, a)'
  <2> SUFFICES ASSUME IInv', NInv(m, a), [Next]_vars
               PROVE  Numbers(m, a)' /\ Sorted' /\ Covered'
    BY DEF NInv
  <2>1. ASSUME NEW c \in Consumers, NEW d \in Ahead, Await(c, Plus(d))
        PROVE  Numbers(m, a)' /\ Sorted' /\ Covered'
    BY <2>1, AwaitNumbers
  <2>2. ASSUME NEW c \in Consumers, Suspend(c) \/ AwaitResume(c)
        PROVE  Numbers(m, a)' /\ Sorted' /\ Covered'
    BY <2>2, SuspendNumbers, AwaitResumeNumbers
  <2>3. ASSUME NEW p \in Producers, NEW d \in Strides, Publish(p, Plus(d))
        PROVE  Numbers(m, a)' /\ Sorted' /\ Covered'
    BY <2>3, PublishNumbers DEF IInv
  <2>4. ASSUME NEW t \in Threads, Step(t)
        PROVE  Numbers(m, a)' /\ Sorted' /\ Covered'
    BY <2>4, ResumeNextNumbers, ResumeEndNumbers, LoadAwaitersNumbers, TakeAwaitersNumbers,
       RequeueNumbers, PushAwaitersNumbers, CheckPublishedNumbers, RetakeAwaitersNumbers
       DEF Step
  <2>5. CASE UNCHANGED vars
    BY <2>5 DEF vars, NInv, Numbers, OpFine, ThreadFine, Sorted, ThreadSorted, Covered,
                WillTake, Used, Due, Behindhand, Lag, Waiting, Decided, InBarrier, Requeued,
                Resuming, precedes, difference
  <2> QED  BY <2>1, <2>2, <2>3, <2>4, <2>5 DEF Next
<1>3. Spec => []IInv
  BY ListsInvariant
<1> QED  BY <1>1, <1>2, <1>3, PTL DEF Spec

-----------------------------------------------------------------------------
(* With a single producer, and numbers that lie within half a word of each *)
(* other, nothing is in the list of the barrier whose number is published, *)
(* unless a thread is on its way to take the list: the race the comment in *)
(* add_awaiter() is about.                                                 *)
THEOREM PublishedAreTaken ==
  ASSUME SequenceBarrierAssumption, OneProducer, NEW m \in Nat, NEW a \in Nat, Within(m, a)
  PROVE  Spec => []NoneForgotten
<1>1. NInv(m, a) => NoneForgotten
  <2> SUFFICES ASSUME NInv(m, a), NEW c \in Consumers, At(c, awaiters) # {},
                      ~precedes(last_published, op[c].target)
               PROVE  \E t \in Threads : thread[t].pc \in {"load", "take"}
    BY DEF NoneForgotten
  <2>1. c \in InBarrier
    <3>1. Range(awaiters) = {awaiters[i] : i \in 1..Len(awaiters)}
      BY RangeOfList DEF NInv, IInv, Typed
    <3> QED  BY <3>1 DEF At, InBarrier
  <2>2. Due(c) >= 0
    BY LagType DEF NInv, IInv, precedes, Due, Lag
  <2>3. PICK t \in Threads : WillTake(t)
    BY <2>1, <2>2 DEF NInv, Covered
  <2> QED  BY <2>3 DEF WillTake
<1> QED  BY <1>1, NumbersInvariant, PTL

LEMMA BehindPrecedes ==
  ASSUME SequenceBarrierAssumption, NEW x \in Sequence, NEW y \in Sequence, Behind(x, y)
  PROVE  difference(x, y) < 0
<1>1. PICK k \in 1..(Word \div 2) : (x + k) % Word = y
  BY DEF Behind
<1>2. k \in (-(Word \div 2) + 1)..(Word \div 2) /\ k \in Int /\ k >= 1
  BY Halves
<1>3. difference(x, y) = -k
  BY <1>1, <1>2, LagOfPlus
<1> QED  BY <1>2, <1>3

(* What co_await returns was published and is not behind the target, also  *)
(* when the numbers wrap around.                                           *)
THEOREM WhatIsReturned ==
  ASSUME SequenceBarrierAssumption, OneProducer, NEW m \in Nat, NEW a \in Nat, Within(m, a)
  PROVE  Spec => []ResultCoversTarget
<1>1. NInv(m, a) => ResultCoversTarget
  <2> SUFFICES ASSUME NInv(m, a), NEW c \in Consumers, op[c].state = "resumed"
               PROVE  ~Behind(op[c].known, op[c].target) /\ ~Behind(last_published, op[c].known)
    BY DEF ResultCoversTarget
  <2>1. /\ op[c].known \in Sequence /\ op[c].target \in Sequence /\ last_published \in Sequence
        /\ Lag(op[c].known) \in Int
    BY LagType DEF NInv, IInv, Typed
  <2>2. Lag(op[c].known) \in 0..Used(m) /\ ~precedes(op[c].known, op[c].target)
    BY DEF NInv, Numbers, OpFine, Decided
  <2>3. ~Behind(op[c].known, op[c].target)
    BY <2>1, <2>2, BehindPrecedes DEF precedes
  <2>4. ~(difference(last_published, op[c].known) < 0)
    BY <2>1, <2>2 DEF Lag
  <2> QED  BY <2>1, <2>3, <2>4, BehindPrecedes
<1> QED  BY <1>1, NumbersInvariant, PTL

-----------------------------------------------------------------------------
(* Whoever publishes, in whatever order: as long as the numbers published  *)
(* stay below k, what has been resumed, or will be, waited for one below k. *)

Low(k) == {initial_sequence} \cup 0..(k - 1)

Below(k, n) ==
  /\ last_published \in Low(k)
  /\ \A p \in Producers : thread[p].pc # "idle" => thread[p].sequence \in Low(k)
  /\ \A c \in Consumers : thread[c].pc \in {"take", "resume"} => thread[c].sequence \in Low(k)
  /\ \A c \in Consumers : op[c].target \in 0..n /\ (Decided(c) => op[c].target < k)
  /\ \A t \in Threads : \A c \in Resuming(t) : op[c].target < k

(* Neither of the two comparisons takes a number for published that is not *)
(* below k; the one before the first, which wraps around, precedes all.    *)
LEMMA NotYet ==
  ASSUME SequenceBarrierAssumption, NEW n \in Nat, n + 1 < Word \div 2, NEW k \in 0..n,
         NEW x \in Low(k), NEW y \in 0..n
  PROVE  /\ x \in Sequence /\ y \in Sequence
         /\ ~precedes(x, y) => y < k
         /\ difference(y, x) <= 0 => y < k
<1> DEFINE H == Word \div 2
<1>1. /\ Word \in Nat /\ Word > 0 /\ H \in Nat /\ Word = 2 * H /\ Sequence = 0..(Word - 1)
      /\ n + 1 < H
  BY Halves
<1>2. initial_sequence = Word - 1
  BY <1>1, Wrapped DEF initial_sequence
<1>3. x \in Sequence /\ y \in Sequence /\ (x = Word - 1 \/ x \in 0..(k - 1))
  BY <1>1, <1>2 DEF Low
<1>4. /\ difference(x, y) = IF x - y < -H THEN (x - y) + Word
                            ELSE IF x - y < H THEN x - y ELSE (x - y) - Word
      /\ difference(y, x) = IF y - x < -H THEN (y - x) + Word
                            ELSE IF y - x < H THEN y - x ELSE (y - x) - Word
  BY <1>3, DifferenceOf
<1> HIDE DEF H
<1>5. /\ ~(difference(x, y) < 0) => y < k
      /\ difference(y, x) <= 0 => y < k
  BY <1>1, <1>3, <1>4
<1> QED  BY <1>3, <1>5 DEF precedes

(* A step of one thread that changes no operation.                         *)
LEMMA BelowThread ==
  ASSUME NEW k, NEW n, Below(k, n), NEW t \in Threads, UNCHANGED <<last_published, op>>,
         \A u \in Threads \ {t} : thread'[u] = thread[u],
         t \in Producers => thread'[t].pc = "idle" \/ thread'[t].sequence \in Low(k),
         t \in Consumers /\ thread'[t].pc \in {"take", "resume"} => thread'[t].sequence \in Low(k),
         \A c \in Resuming(t)' : op[c].target < k
  PROVE  Below(k, n)'
<1>1. \A u \in Threads \ {t} : Resuming(u)' = Resuming(u)
  BY DEF Resuming
<1>2. \A u \in Threads : \A c \in Resuming(u)' : op'[c].target < k
  BY <1>1 DEF Below
<1>3. \A c \in Consumers : Decided(c)' <=> Decided(c)
  BY DEF Decided
<1> QED  BY <1>2, <1>3 DEF Below, Low, initial_sequence, Threads

LEMMA BelowAwait ==
  ASSUME SequenceBarrierAssumption, IInv, NEW n \in Nat, n + 1 < Word \div 2, NEW k \in 0..n,
         Below(k, n), NEW c \in Consumers, NEW x \in 0..n, Await(c, x)
  PROVE  Below(k, n)'
<1>1. /\ op \in [Consumers -> Operation] /\ thread \in [Threads -> Local] /\ c \in Threads
      /\ op[c].state = "none" /\ UNCHANGED last_published /\ last_published \in Low(k)
  BY DEF IInv, Typed, Await, Below, Threads
<1>2. /\ op'[c].target = x /\ op'[c].ready = FALSE
      /\ op'[c].state = IF precedes(last_published, x) THEN "suspending" ELSE "resumed"
      /\ \A e \in Consumers \ {c} : op'[e] = op[e]
  BY <1>1 DEF Await
<1>3. Decided(c)' => x < k
  BY <1>1, <1>2, NotYet DEF Decided
<1>4. \A e \in Consumers : op'[e].target \in 0..n /\ (Decided(e)' => op'[e].target < k)
  BY <1>2, <1>3 DEF Below, Decided
<1>5. \A t \in Threads : c \notin Resuming(t)
  BY <1>1 DEF IInv, Linked, Held, Unclaimed
<1>6. \A t \in Threads : Resuming(t) \subseteq Consumers
  BY <1>1, RangeOfList DEF Resuming, Local
<1>7. /\ \A t \in Threads \ {c} : thread'[t] = thread[t]
      /\ thread'[c] = thread[c] \/ (thread'[c].pc = "push" /\ thread'[c].resume = <<>>)
  BY <1>1 DEF Await
<1>8. \A t \in Threads : Resuming(t)' \subseteq Resuming(t)
  BY <1>7, EmptyRange DEF Resuming
<1>9. \A t \in Threads : \A e \in Resuming(t)' : op'[e].target < k
  BY <1>2, <1>5, <1>6, <1>8 DEF Below
<1> QED  BY <1>1, <1>4, <1>7, <1>9
         DEF Below, Low, initial_sequence, Threads, SequenceBarrierAssumption

LEMMA BelowSuspend ==
  ASSUME SequenceBarrierAssumption, IInv, NEW n \in Nat, NEW k \in 0..n,
         Below(k, n), NEW c \in Consumers, Suspend(c)
  PROVE  Below(k, n)'
<1>1. /\ op \in [Consumers -> Operation] /\ thread \in [Threads -> Local] /\ c \in Threads
      /\ c \notin Producers /\ op[c].state = "suspending" /\ UNCHANGED last_published
  BY DEF IInv, Typed, Locals, Suspend, Threads, SequenceBarrierAssumption
<1>2. /\ op'[c].target = op[c].target
      /\ op'[c].state = IF op[c].ready THEN "resumed" ELSE "suspended"
      /\ \A e \in Consumers \ {c} : op'[e] = op[e]
  BY <1>1 DEF Suspend, Operation
<1>3. \A e \in Consumers : op'[e].target = op[e].target /\ (Decided(e)' => Decided(e))
  BY <1>1, <1>2 DEF Decided
<1>4. /\ \A t \in Threads \ {c} : thread'[t] = thread[t]
      /\ thread'[c].pc = "idle" /\ thread'[c].resume = <<>>
  BY <1>1 DEF Suspend, Idle
<1>5. \A t \in Threads : Resuming(t)' \subseteq Resuming(t)
  BY <1>4, EmptyRange DEF Resuming
<1>6. \A t \in Threads : Resuming(t) \subseteq Consumers
  BY <1>1, RangeOfList DEF Resuming, Local
<1> QED  BY <1>1, <1>3, <1>4, <1>5, <1>6 DEF Below, Low, initial_sequence, Threads

LEMMA BelowAwaitResume ==
  ASSUME SequenceBarrierAssumption, IInv, NEW n \in Nat, NEW k \in 0..n,
         Below(k, n), NEW c \in Consumers, AwaitResume(c)
  PROVE  Below(k, n)'
<1>1. /\ op \in [Consumers -> Operation] /\ thread \in [Threads -> Local]
      /\ op[c].state = "resumed" /\ UNCHANGED <<last_published, thread>>
  BY DEF IInv, Typed, AwaitResume
<1>2. /\ op'[c].target = 0 /\ op'[c].state = "none"
      /\ \A e \in Consumers \ {c} : op'[e] = op[e]
  BY <1>1 DEF AwaitResume, NoOperation
<1>3. \A t \in Threads : c \notin Resuming(t)
  BY <1>1 DEF IInv, Linked, Held, Unclaimed
<1>4. \A t \in Threads : Resuming(t)' = Resuming(t) /\ Resuming(t) \subseteq Consumers
  BY <1>1, RangeOfList DEF Resuming, Local
<1>5. \A e \in Consumers : op'[e].target \in 0..n /\ (Decided(e)' => op'[e].target < k)
  BY <1>2 DEF Below, Decided
<1> QED  BY <1>1, <1>2, <1>3, <1>4, <1>5 DEF Below, Low, initial_sequence

LEMMA BelowResumeNext ==
  ASSUME SequenceBarrierAssumption, IInv, NEW n \in Nat, NEW k \in 0..n,
         Below(k, n), NEW t \in Threads, ResumeNext(t)
  PROVE  Below(k, n)'
<1>1. /\ op \in [Consumers -> Operation] /\ thread \in [Threads -> Local]
      /\ thread[t].resume # <<>> /\ thread[t].resume \in Seq(Consumers)
      /\ UNCHANGED last_published
  BY DEF IInv, Typed, ResumeNext, Local
<1> PICK h \in Consumers : h = Head(thread[t].resume)
  BY <1>1, HeadTailRange, SMTT(30)
<1>2. h \in Resuming(t) /\ Range(Tail(thread[t].resume)) \subseteq Resuming(t)
  BY <1>1, HeadTailRange, SMTT(30) DEF Resuming
<1>3. op' = [op EXCEPT ![h].known = thread[t].sequence, ![h].ready = TRUE,
                       ![h].state = IF op[h].ready THEN "resumed" ELSE @]
  BY SMTT(30) DEF ResumeNext
<1>4. /\ op'[h].target = op[h].target /\ \A e \in Consumers \ {h} : op'[e] = op[e]
  BY <1>1, <1>3 DEF Operation
<1>5. \A e \in Consumers : /\ op'[e].target = op[e].target
                           /\ Decided(e)' => Decided(e) \/ e = h
  BY <1>4 DEF Decided
<1>6. /\ \A u \in Threads \ {t} : thread'[u] = thread[u]
      /\ thread'[t].pc = thread[t].pc /\ thread'[t].sequence = thread[t].sequence
      /\ thread'[t].resume = Tail(thread[t].resume)
  BY <1>1 DEF ResumeNext, Local
<1>7. \A u \in Threads : Resuming(u)' \subseteq Resuming(u)
  BY <1>2, <1>6 DEF Resuming
<1>8. \A u \in Threads : Resuming(u) \subseteq Consumers
  BY <1>1, RangeOfList DEF Resuming, Local
<1>9. \A e \in Consumers : op'[e].target \in 0..n /\ (Decided(e)' => op'[e].target < k)
  BY <1>2, <1>5 DEF Below
<1>10. \A u \in Threads : \A e \in Resuming(u)' : op'[e].target < k
  BY <1>5, <1>7, <1>8 DEF Below
<1>11. \A u \in Threads : thread'[u].pc = thread[u].pc /\ thread'[u].sequence = thread[u].sequence
  BY <1>6
<1> QED  BY <1>1, <1>9, <1>10, <1>11 DEF Below, Low, initial_sequence, Threads

LEMMA BelowPublish ==
  ASSUME SequenceBarrierAssumption, IInv, NEW k, NEW n,
         Below(k, n), NEW p \in Producers, NEW x \in Low(k), Publish(p, x)
  PROVE  Below(k, n)'
<1>1. /\ thread \in [Threads -> Local] /\ p \in Threads /\ p \notin Consumers
      /\ last_published' = x /\ UNCHANGED op
  BY DEF IInv, Typed, Publish, Threads, SequenceBarrierAssumption
<1>2. /\ \A u \in Threads \ {p} : thread'[u] = thread[u]
      /\ thread'[p].sequence = x /\ thread'[p].resume = thread[p].resume
  BY <1>1 DEF Publish, Local
<1>3. \A u \in Threads : Resuming(u)' = Resuming(u)
  BY <1>2 DEF Resuming
<1>4. \A c \in Consumers : Decided(c)' <=> Decided(c)
  BY <1>1 DEF Decided
<1> QED  BY <1>1, <1>2, <1>3, <1>4 DEF Below, Low, initial_sequence, Threads

LEMMA BelowResumeEnd ==
  ASSUME SequenceBarrierAssumption, IInv, NEW k, NEW n,
         Below(k, n), NEW t \in Threads, ResumeEnd(t)
  PROVE  Below(k, n)'
<1>1. /\ thread \in [Threads -> Local] /\ thread[t].resume = <<>>
      /\ UNCHANGED <<last_published, op>>
  BY DEF IInv, Typed, ResumeEnd
<1>2. /\ \A u \in Threads \ {t} : thread'[u] = thread[u]
      /\ thread'[t].pc = IF t \in Producers THEN "idle" ELSE "suspend"
      /\ thread'[t].resume = <<>>
  BY <1>1 DEF ResumeEnd, Local, Idle
<1>3. Resuming(t)' = {}
  BY <1>2, EmptyRange DEF Resuming
<1> QED  BY <1>1, <1>2, <1>3, BelowThread DEF SequenceBarrierAssumption

LEMMA BelowLoadAwaiters ==
  ASSUME SequenceBarrierAssumption, IInv, NEW k, NEW n,
         Below(k, n), NEW t \in Threads, LoadAwaiters(t)
  PROVE  Below(k, n)'
<1>1. /\ thread \in [Threads -> Local] /\ t \in Producers /\ t \notin Consumers
      /\ thread[t].pc = "load" /\ UNCHANGED <<last_published, op>>
  BY DEF IInv, Typed, LoadAwaiters, SequenceBarrierAssumption
<1>2. /\ \A u \in Threads \ {t} : thread'[u] = thread[u]
      /\ \/ thread'[t].pc = "idle" /\ thread'[t].resume = <<>>
         \/ thread'[t].sequence = thread[t].sequence /\ thread'[t].resume = thread[t].resume
  BY <1>1 DEF LoadAwaiters, Local, Idle
<1>3. Resuming(t)' \subseteq Resuming(t)
  BY <1>2, EmptyRange DEF Resuming
<1>4. thread[t].sequence \in Low(k) /\ \A c \in Resuming(t)' : op[c].target < k
  BY <1>1, <1>3 DEF Below
<1>5. thread'[t].pc = "idle" \/ thread'[t].sequence \in Low(k)
  BY <1>2, <1>4
<1> QED  BY <1>1, <1>2, <1>4, <1>5, BelowThread

LEMMA BelowTakeAwaiters ==
  ASSUME SequenceBarrierAssumption, IInv, NEW n \in Nat, n + 1 < Word \div 2, NEW k \in 0..n,
         Below(k, n), NEW t \in Threads, TakeAwaiters(t)
  PROVE  Below(k, n)'
<1>1. /\ thread \in [Threads -> Local] /\ t \in Producers /\ t \notin Consumers
      /\ thread[t].pc = "take" /\ awaiters \in Seq(Consumers) /\ NoRepeat(awaiters)
      /\ UNCHANGED <<last_published, op>>
  BY DEF IInv, Typed, Apart, TakeAwaiters, SequenceBarrierAssumption
<1> DEFINE s == thread[t].sequence
           Y == {c \in Consumers : ~precedes(s, op[c].target)}
<1>2. s \in Low(k)
  BY <1>1 DEF Below
<1>3. /\ \A u \in Threads \ {t} : thread'[u] = thread[u]
      /\ thread'[t].sequence = s /\ thread'[t].resume = Among(awaiters, Y)
  BY <1>1 DEF TakeAwaiters, ToResume
<1>4. Resuming(t)' \subseteq Y
  <2> HIDE DEF Y
  <2> QED  BY <1>1, <1>3, Part DEF Resuming
<1>5. \A c \in Resuming(t)' : op[c].target < k
  BY <1>2, <1>4, NotYet DEF Below
<1> QED  BY <1>1, <1>2, <1>3, <1>5, BelowThread

LEMMA BelowPutBack ==
  ASSUME IInv, NEW k, NEW n, Below(k, n), NEW t \in Threads,
         thread[t].pc = "push", UNCHANGED <<last_published, op>>,
         t \in Producers <=> t \notin Consumers,
         thread' = [thread EXCEPT ![t].pc = IF t \in Producers THEN "resume" ELSE "load",
                                  ![t].requeue = <<>>]
  PROVE  Below(k, n)'
<1>1. thread \in [Threads -> Local]
  BY DEF IInv, Typed
<1>2. /\ \A u \in Threads \ {t} : thread'[u] = thread[u]
      /\ thread'[t].pc = IF t \in Producers THEN "resume" ELSE "load"
      /\ thread'[t].sequence = thread[t].sequence /\ thread'[t].resume = thread[t].resume
  BY <1>1 DEF Local
<1>3. Resuming(t)' = Resuming(t) /\ \A c \in Resuming(t) : op[c].target < k
  BY <1>2 DEF Resuming, Below
<1>4. t \in Producers => thread'[t].sequence \in Low(k)
  BY <1>2 DEF Below
<1>5. \A c \in Resuming(t)' : op[c].target < k
  BY <1>3
<1>6. t \in Consumers => thread'[t].pc = "load"
  BY <1>2
<1> QED  BY <1>2, <1>4, <1>5, <1>6, BelowThread

LEMMA BelowCheckPublished ==
  ASSUME SequenceBarrierAssumption, IInv, NEW k, NEW n,
         Below(k, n), NEW t \in Threads, CheckPublished(t)
  PROVE  Below(k, n)'
<1>1. /\ thread \in [Threads -> Local] /\ t \in Consumers /\ t \notin Producers
      /\ UNCHANGED <<last_published, op>>
  BY DEF IInv, Typed, CheckPublished, SequenceBarrierAssumption
<1>2. /\ \A u \in Threads \ {t} : thread'[u] = thread[u]
      /\ thread'[t].sequence = last_published /\ thread'[t].resume = thread[t].resume
  BY <1>1 DEF CheckPublished, Local
<1>3. Resuming(t)' = Resuming(t) /\ last_published \in Low(k)
      /\ \A c \in Resuming(t) : op[c].target < k
  BY <1>2 DEF Resuming, Below
<1> QED  BY <1>1, <1>2, <1>3, BelowThread

LEMMA BelowRetakeAwaiters ==
  ASSUME SequenceBarrierAssumption, IInv, NEW n \in Nat, n + 1 < Word \div 2, NEW k \in 0..n,
         Below(k, n), NEW t \in Threads, RetakeAwaiters(t)
  PROVE  Below(k, n)'
<1>1. /\ thread \in [Threads -> Local] /\ t \in Consumers /\ t \notin Producers
      /\ thread[t].pc = "take" /\ awaiters \in Seq(Consumers) /\ NoRepeat(awaiters)
      /\ thread[t].resume \in Seq(Consumers) /\ NoRepeat(thread[t].resume)
      /\ InBarrier \cap Resuming(t) = {} /\ UNCHANGED <<last_published, op>>
  BY DEF IInv, Typed, Local, Apart, Held, RetakeAwaiters, SequenceBarrierAssumption
<1> DEFINE s == thread[t].sequence
           Y == {c \in Consumers : difference(op[c].target, s) <= 0}
           P == Among(awaiters, Y)
<1>2. s \in Low(k)
  BY <1>1 DEF Below
<1>3. /\ \A u \in Threads \ {t} : thread'[u] = thread[u]
      /\ thread'[t].pc = "push" \/ (thread'[t].pc = "resume" /\ thread'[t].sequence = s)
      /\ thread'[t].resume = thread[t].resume \o P
  <2>1. /\ thread'[t].pc = IF StillAhead(awaiters, s) = <<>> THEN "resume" ELSE "push"
        /\ thread'[t].sequence = IF StillAhead(awaiters, s) = <<>> THEN s
                                 ELSE Earliest(StillAhead(awaiters, s), s)
        /\ thread'[t].resume = thread[t].resume \o Reached(awaiters, s)
    BY <1>1 DEF RetakeAwaiters
  <2>2. Reached(awaiters, s) = P
    BY DEF Reached
  <2>3. \A u \in Threads \ {t} : thread'[u] = thread[u]
    BY <1>1 DEF RetakeAwaiters
  <2> QED  BY <2>1, <2>2, <2>3
<1>4. P \in Seq(Consumers) /\ NoRepeat(P) /\ Range(P) = InBarrier \cap Y
  <2> HIDE DEF Y
  <2> QED  BY <1>1, Part DEF InBarrier
<1>5. Resuming(t)' \subseteq Resuming(t) \cup Y
  <2> HIDE DEF Y, P
  <2>1. Range(thread[t].resume) \cap Range(P) = {}
    BY <1>1, <1>4 DEF Resuming
  <2>2. Range(thread[t].resume \o P) = Range(thread[t].resume) \cup Range(P)
    BY <1>1, <1>4, <2>1, Joined
  <2> QED  BY <1>3, <1>4, <2>2 DEF Resuming
<1>6. \A c \in Y : op[c].target < k
  BY <1>2, NotYet DEF Below
<1>7. \A c \in Resuming(t)' : op[c].target < k
  BY <1>5, <1>6 DEF Below
<1> QED  BY <1>1, <1>2, <1>3, <1>7, BelowThread

(* What publish() and wait_until_published() do when they go on.           *)
LEMMA BelowStep ==
  ASSUME SequenceBarrierAssumption, IInv, NEW n \in Nat, n + 1 < Word \div 2, NEW k \in 0..n,
         Below(k, n),
         \/ \E t \in Threads : Step(t)
         \/ \E c \in Consumers : Suspend(c) \/ AwaitResume(c)
  PROVE  IInv' /\ Below(k, n)'
<1>1. ASSUME NEW t \in Threads, Requeue(t) PROVE Below(k, n)'
  <2>1. /\ t \in Producers /\ t \notin Consumers /\ thread[t].pc = "push"
        /\ UNCHANGED <<last_published, op>>
        /\ thread' = [thread EXCEPT ![t].pc = IF t \in Producers THEN "resume" ELSE "load",
                                    ![t].requeue = <<>>]
    BY <1>1 DEF Requeue, SequenceBarrierAssumption
  <2> QED  BY <2>1, BelowPutBack
<1>2. ASSUME NEW t \in Threads, PushAwaiters(t) PROVE Below(k, n)'
  <2>1. /\ t \in Consumers /\ t \notin Producers /\ thread[t].pc = "push"
        /\ UNCHANGED <<last_published, op>>
        /\ thread' = [thread EXCEPT ![t].pc = IF t \in Producers THEN "resume" ELSE "load",
                                    ![t].requeue = <<>>]
    BY <1>2 DEF PushAwaiters, SequenceBarrierAssumption
  <2> QED  BY <2>1, BelowPutBack
<1>3. ASSUME NEW t \in Threads, Step(t) PROVE IInv' /\ Below(k, n)'
  <2>1. IInv'
    BY <1>3, ResumeNextStep, ResumeEndStep, LoadAwaitersStep, TakeAwaitersStep,
       RequeueStep, PushAwaitersStep, CheckPublishedStep, RetakeAwaitersStep DEF Step
  <2>2. Below(k, n)'
    BY <1>1, <1>2, <1>3, BelowResumeNext, BelowResumeEnd, BelowLoadAwaiters,
       BelowTakeAwaiters, BelowCheckPublished, BelowRetakeAwaiters DEF Step
  <2> QED  BY <2>1, <2>2
<1>4. ASSUME NEW c \in Consumers, Suspend(c) \/ AwaitResume(c) PROVE IInv' /\ Below(k, n)'
  BY <1>4, SuspendStep, AwaitResumeStep, BelowSuspend, BelowAwaitResume
<1> QED  BY <1>3, <1>4

LEMMA BelowInit ==
  ASSUME SequenceBarrierAssumption, Init, NEW k, NEW n \in Nat
  PROVE  Below(k, n)
<1>1. \A t \in Threads : thread[t].pc = "idle" /\ Resuming(t) = {}
  BY EmptyRange DEF Init, Idle, Resuming
<1>2. \A c \in Consumers : op[c].target = 0 /\ ~Decided(c)
  BY DEF Init, NoOperation, Decided
<1> QED  BY <1>1, <1>2 DEF Init, Below, Low, Threads

(* The bound may rise.                                                     *)
LEMMA BelowRises ==
  ASSUME SequenceBarrierAssumption, IInv, NEW k \in Nat, NEW n \in Nat, Below(k, n)
  PROVE  Below(k + 1, n)
<1>1. Low(k) \subseteq Low(k + 1)
  BY DEF Low
<1>2. \A c \in Consumers : op[c].target \in 0..n /\ (op[c].target < k => op[c].target < k + 1)
  BY DEF Below
<1>3. \A t \in Threads : Resuming(t) \subseteq Consumers
  BY RangeOfList DEF Resuming, Local, IInv, Typed
<1> QED  BY <1>1, <1>2, <1>3 DEF Below

=============================================================================
