--------------------------- MODULE WaitingProofs ---------------------------
(***************************************************************************)
(* What threads and coroutines wait on, for any number of them.            *)
(*                                                                         *)
(* CoroEvent: a coroutine that awaits the event is linked in exactly one   *)
(* list, once, from when it suspends to when it is resumed, whatever is    *)
(* set, reset and awaited again while the lists are worked through.        *)
(*                                                                         *)
(* Event: while the flag is set and nobody is about to notify, no thread   *)
(* sleeps that was asleep when a notification came.                        *)
(*                                                                         *)
(* SequenceBarrier: what SequenceBarrierProofs shows of it, here of the    *)
(* specification that composes it with the others.                         *)
(***************************************************************************)
EXTENDS MCWaiting, SequenceLemmas

BP == INSTANCE SequenceBarrierProofs


NoRepeat(q) == \A i, j \in 1..Len(q) : q[i] = q[j] => i = j

Linked(c) == c \in Range(waiters) \/ \E s \in Setters : c \in Range(pending[s])

(* No list repeats a coroutine, and no two lists share one.                *)
Apart ==
  /\ NoRepeat(waiters)
  /\ \A s \in Setters :
       /\ NoRepeat(pending[s])
       /\ Range(waiters) \cap Range(pending[s]) = {}
       /\ \A t \in Setters : s # t => Range(pending[s]) \cap Range(pending[t]) = {}

IInv ==
  /\ TypeOK
  /\ set => waiters = <<>>
  /\ Apart
  /\ \A c \in Coroutines : pc[c] = "suspended" <=> Linked(c)

-----------------------------------------------------------------------------
(* The steps *)

LEMMA EventInit ==
  ASSUME CoroEventAssumption, Init
  PROVE  IInv
<1>1. TypeOK
  BY EmptySeq DEF Init, TypeOK, CoroEventAssumption
<1>2. Apart /\ \A c \in Coroutines : ~Linked(c)
  BY EmptyRange DEF NoRepeat, Init, Apart, Linked
<1> QED  BY <1>1, <1>2 DEF Init, IInv

LEMMA AwaitReadyStep ==
  ASSUME IInv, NEW c \in Coroutines, AwaitReady(c)
  PROVE  IInv'
<1>1. TypeOK' /\ Apart'
  BY DEF IInv, TypeOK, Apart, AwaitReady
<1>2. \A d \in Coroutines : pc'[d] = "suspended" <=> Linked(d)'
  BY DEF IInv, TypeOK, Linked, AwaitReady
<1> QED  BY <1>1, <1>2 DEF IInv, AwaitReady

(* A coroutine that suspends was in no list.                               *)
LEMMA AwaitSuspendStep ==
  ASSUME IInv, NEW c \in Coroutines, AwaitSuspend(c)
  PROVE  IInv'
<1>1. /\ waiters \in Seq(Coroutines) /\ pc[c] = "suspending" /\ ~Linked(c)
      /\ pending \in [Setters -> Seq(Coroutines)] /\ UNCHANGED <<set, pending, sets>>
      /\ pc \in [Coroutines -> {"running", "suspending", "suspended"}]
  BY DEF IInv, TypeOK, AwaitSuspend
<1>2. CASE set
  <2>1. waiters' = waiters /\ pc' = [pc EXCEPT ![c] = "running"]
    BY <1>2 DEF AwaitSuspend
  <2>2. TypeOK' /\ Apart'
    BY <1>1, <2>1 DEF IInv, TypeOK, Apart
  <2>3. \A d \in Coroutines : Linked(d)' <=> Linked(d)
    BY <1>1, <2>1 DEF Linked
  <2> QED  BY <1>1, <2>1, <2>2, <2>3 DEF IInv
<1>3. CASE ~set
  <2>1. waiters' = <<c>> \o waiters /\ pc' = [pc EXCEPT ![c] = "suspended"]
    BY <1>3 DEF AwaitSuspend
  <2>2. /\ waiters' \in Seq(Coroutines)
        /\ Range(waiters') = {c} \cup Range(waiters)
        /\ NoRepeat(waiters')
    BY <1>1, <2>1, PushFront DEF IInv, Apart, Linked, NoRepeat
  <2>3. TypeOK'
    BY <1>1, <2>1, <2>2 DEF IInv, TypeOK
  <2>4. Apart'
    BY <1>1, <2>2 DEF IInv, Apart, Linked
  <2>5. \A d \in Coroutines : Linked(d)' <=> d = c \/ Linked(d)
    BY <1>1, <2>2 DEF Linked
  <2> QED  BY <1>1, <1>3, <2>1, <2>3, <2>4, <2>5 DEF IInv
<1> QED  BY <1>2, <1>3

(* set() takes the whole list; what it had is empty.                       *)
LEMMA ExchangeStep ==
  ASSUME CoroEventAssumption, IInv, NEW s \in Setters, Exchange(s)
  PROVE  IInv'
<1>1. /\ waiters \in Seq(Coroutines) /\ pending \in [Setters -> Seq(Coroutines)]
      /\ pending[s] = <<>> /\ waiters' = <<>> /\ set' = TRUE /\ pc' = pc
      /\ pending' = [pending EXCEPT ![s] = waiters]
  BY DEF IInv, TypeOK, Exchange
<1>2. /\ pending'[s] = waiters
      /\ \A t \in Setters \ {s} : pending'[t] = pending[t]
      /\ Range(pending[s]) = {} /\ Range(waiters') = {} /\ NoRepeat(waiters')
  BY <1>1, EmptyRange DEF NoRepeat
<1>3. TypeOK'
  <2>1. sets' \in 0..MaxSets
    BY DEF IInv, TypeOK, Exchange, CoroEventAssumption
  <2> QED  BY <1>1, <2>1, EmptySeq DEF IInv, TypeOK
<1>4. Apart'
  BY <1>1, <1>2 DEF IInv, Apart
<1>5. \A c \in Coroutines : Linked(c)' <=> Linked(c)
  BY <1>1, <1>2 DEF Linked
<1> QED  BY <1>1, <1>3, <1>4, <1>5 DEF IInv

(* A coroutine that is resumed leaves the only list it was in.             *)
LEMMA ResumeStep ==
  ASSUME IInv, NEW s \in Setters, Resume(s)
  PROVE  IInv'
<1> DEFINE h == Head(pending[s])
<1>1. /\ pending \in [Setters -> Seq(Coroutines)] /\ pending[s] \in Seq(Coroutines)
      /\ pending[s] # <<>> /\ UNCHANGED <<set, waiters, sets>>
      /\ pc \in [Coroutines -> {"running", "suspending", "suspended"}]
      /\ pc' = [pc EXCEPT ![h] = "running"]
      /\ pending' = [pending EXCEPT ![s] = Tail(pending[s])]
  BY DEF IInv, TypeOK, Resume
<1>2. /\ h \in Coroutines /\ h \in Range(pending[s])
      /\ Tail(pending[s]) \in Seq(Coroutines)
      /\ Range(Tail(pending[s])) = Range(pending[s]) \ {h}
      /\ NoRepeat(Tail(pending[s]))
  BY <1>1, TailRange DEF IInv, Apart, NoRepeat
<1> HIDE DEF h
<1>3. /\ pending'[s] = Tail(pending[s])
      /\ \A t \in Setters \ {s} : pending'[t] = pending[t]
  BY <1>1
<1>4. TypeOK'
  BY <1>1, <1>2 DEF IInv, TypeOK
<1>5. Apart'
  BY <1>1, <1>2, <1>3 DEF IInv, Apart
<1>6. \A c \in Coroutines : Linked(c)' <=> c # h /\ Linked(c)
  <2>1. h \notin Range(waiters) /\ \A t \in Setters \ {s} : h \notin Range(pending[t])
    BY <1>2 DEF IInv, Apart
  <2> QED  BY <1>1, <1>2, <1>3, <2>1 DEF Linked
<1> QED  BY <1>1, <1>2, <1>4, <1>5, <1>6 DEF IInv

LEMMA ResetStep ==
  ASSUME IInv, NEW r \in Resetters, Reset(r)
  PROVE  IInv'
BY DEF IInv, TypeOK, Apart, Linked, Reset

LEMMA EventInvariant ==
  ASSUME CoroEventAssumption
  PROVE  Spec => []IInv
<1>1. Init => IInv
  BY EventInit
<1>2. IInv /\ [Next]_vars => IInv'
  <2> SUFFICES ASSUME IInv, [Next]_vars PROVE IInv'
    OBVIOUS
  <2>1. CASE Next
    BY <2>1, AwaitReadyStep, AwaitSuspendStep, ExchangeStep, ResumeStep, ResetStep DEF Next
  <2>2. CASE UNCHANGED vars
    BY <2>2 DEF vars, IInv, TypeOK, Apart, Linked
  <2> QED  BY <2>1, <2>2
<1> QED  BY <1>1, <1>2, PTL DEF Spec

-----------------------------------------------------------------------------
(* From lists to places *)

LEMMA OnePlace ==
  ASSUME IInv, NEW c \in Coroutines
  PROVE  IF pc[c] = "suspended" THEN Cardinality(Places(c)) = 1 ELSE Places(c) = {}
<1>1. \A p : p \in Places(c) <=>
         \/ \E i \in 1..Len(waiters) : waiters[i] = c /\ p = <<"event", i>>
         \/ \E s \in Setters : \E i \in 1..Len(pending[s]) :
              pending[s][i] = c /\ p = <<s, i>>
  BY DEF Places, InList
<1>2. /\ Range(waiters) = {waiters[i] : i \in 1..Len(waiters)}
      /\ \A s \in Setters : Range(pending[s]) = {pending[s][i] : i \in 1..Len(pending[s])}
  BY RangeOfList DEF IInv, TypeOK
<1>3. /\ \A i \in 1..Len(waiters) : waiters[i] \in Range(waiters)
      /\ \A s \in Setters : \A i \in 1..Len(pending[s]) : pending[s][i] \in Range(pending[s])
  BY <1>2
<1>4. Linked(c) <=> Places(c) # {}
  <2>1. ASSUME Linked(c) PROVE Places(c) # {}
    <3>1. CASE c \in Range(waiters)
      <4>1. PICK i \in 1..Len(waiters) : waiters[i] = c
        BY <1>2, <3>1
      <4>2. <<"event", i>> \in Places(c)
        BY <4>1, <1>1
      <4> QED  BY <4>2
    <3>2. CASE \E s \in Setters : c \in Range(pending[s])
      <4>1. PICK s \in Setters : c \in Range(pending[s])
        BY <3>2
      <4>2. PICK i \in 1..Len(pending[s]) : pending[s][i] = c
        BY <1>2, <4>1
      <4>3. <<s, i>> \in Places(c)
        BY <4>2, <1>1
      <4> QED  BY <4>3
    <3> QED  BY <2>1, <3>1, <3>2 DEF Linked
  <2>2. ASSUME NEW p \in Places(c) PROVE Linked(c)
    <3>1. CASE \E i \in 1..Len(waiters) : waiters[i] = c
      BY <1>3, <3>1 DEF Linked
    <3>2. CASE \E s \in Setters : \E i \in 1..Len(pending[s]) : pending[s][i] = c
      BY <1>3, <3>2 DEF Linked
    <3> QED  BY <1>1, <2>2, <3>1, <3>2
  <2> QED  BY <2>1, <2>2
<1>5. ASSUME NEW p \in Places(c), NEW q \in Places(c)
      PROVE  p = q
  <2>1. CASE \E i \in 1..Len(waiters) : waiters[i] = c /\ p = <<"event", i>>
    <3>1. c \in Range(waiters)
      BY <1>3, <2>1
    <3>2. \A s \in Setters : \A j \in 1..Len(pending[s]) : pending[s][j] # c
      BY <1>3, <3>1 DEF IInv, Apart
    <3>3. \E j \in 1..Len(waiters) : waiters[j] = c /\ q = <<"event", j>>
      BY <1>1, <3>2
    <3> QED  BY <2>1, <3>3 DEF IInv, Apart, NoRepeat
  <2>2. ASSUME NEW s \in Setters, \E i \in 1..Len(pending[s]) : pending[s][i] = c /\ p = <<s, i>>
        PROVE  p = q
    <3>1. c \in Range(pending[s])
      BY <1>3, <2>2
    <3>2. \A j \in 1..Len(waiters) : waiters[j] # c
      BY <1>3, <3>1 DEF IInv, Apart
    <3>3. \A t \in Setters \ {s} : c \notin Range(pending[t])
      BY <3>1 DEF IInv, Apart
    <3>4. \A t \in Setters \ {s} : \A j \in 1..Len(pending[t]) : pending[t][j] # c
      BY <1>3, <3>3
    <3>5. \E j \in 1..Len(pending[s]) : pending[s][j] = c /\ q = <<s, j>>
      BY <1>1, <3>2, <3>4
    <3> QED  BY <2>2, <3>5 DEF IInv, Apart, NoRepeat
  <2> QED  BY <2>1, <2>2, <1>1
<1>6. ASSUME Places(c) # {} PROVE Cardinality(Places(c)) = 1
  <2>1. PICK p : p \in Places(c)
    BY <1>6
  <2>2. Places(c) = {p}
    BY <1>5, <2>1
  <2> QED  BY <2>2, FS_Singleton
<1> QED  BY <1>4, <1>6 DEF IInv

-----------------------------------------------------------------------------
(* CoroEvent's lists are lists of coroutines, and its counters in range.   *)
THEOREM EventTypeCorrect ==
  ASSUME CoroEventAssumption
  PROVE  Spec => []TypeOK
<1>1. IInv => TypeOK
  BY DEF IInv
<1> QED  BY <1>1, EventInvariant, PTL

(* A coroutine suspended in co_await event is in the list of the event or  *)
(* in one that a set() is working through, in one only and once, and one   *)
(* that runs is in none: it is resumed once for each time it suspends.     *)
THEOREM ResumedOnce ==
  ASSUME CoroEventAssumption
  PROVE  Spec => []LinkedOnce
<1>1. IInv => LinkedOnce
  BY OnePlace DEF LinkedOnce
<1> QED  BY <1>1, EventInvariant, PTL

-----------------------------------------------------------------------------
(* The composition of MCWaiting *)

LEMMA CoroEventComposed ==
  ASSUME WaitingAssumption
  PROVE  MCSpec => Spec
<1>1. MCInit => Init
  BY DEF MCInit
<1>2. [MCNext]_allVars => [Next]_vars
  BY DEF MCNext, allVars
<1>3. MCSpec => MCInit /\ [][MCNext]_allVars
  BY PTL DEF MCSpec
<1> QED  BY <1>1, <1>2, <1>3, PTL DEF Spec

(* Whoever sleeps, or is about to, while the event is set and nobody is    *)
(* about to notify has not heard the notification.                         *)
EventInv ==
  /\ eventPc \in [Event!All \cup EventSetters ->
                   {"idle", "lock", "test", "sleep", "asleep", "relock", "store", "notify"}]
  /\ (notified /\ \A s \in EventSetters : eventPc[s] # "notify")
       => \A w \in Event!All : eventPc[w] \in {"sleep", "asleep"} => w \in unheard

LEMMA EventWaiterStep ==
  ASSUME EventInv, NEW w \in Event!All, Event!WaiterStep(w)
  PROVE  EventInv'
<1> USE DEF EventInv, Event!All
<1>1. CASE Event!Call(w)
  BY <1>1 DEF Event!Call
<1>2. CASE Event!Lock(w)
  BY <1>2 DEF Event!Lock, Event!Goto
<1>3. CASE Event!TestSet(w)
  BY <1>3 DEF Event!TestSet, Event!Goto, Event!Return
<1>4. CASE Event!TestUnset(w)
  BY <1>4 DEF Event!TestUnset, Event!Goto
<1>5. CASE Event!Sleep(w)
  BY <1>5 DEF Event!Sleep, Event!Goto
<1>6. CASE Event!SpuriousWakeUp(w)
  BY <1>6 DEF Event!SpuriousWakeUp, Event!Goto
<1>7. CASE Event!Expire(w)
  BY <1>7 DEF Event!Expire
<1>8. CASE Event!TimeOut(w)
  BY <1>8 DEF Event!TimeOut, Event!Goto
<1>9. CASE Event!Relock(w)
  BY <1>9 DEF Event!Relock, Event!Goto
<1>10. CASE Event!ReturnLate(w)
  BY <1>10 DEF Event!ReturnLate, Event!Goto, Event!Return
<1> QED  BY <1>1, <1>2, <1>3, <1>4, <1>5, <1>6, <1>7, <1>8, <1>9, <1>10 DEF Event!WaiterStep

LEMMA EventSetterStep ==
  ASSUME EventInv, NEW s \in EventSetters, Event!SetterStep(s)
  PROVE  EventInv'
<1> USE DEF EventInv
<1>1. CASE Event!SetTest(s)
  BY <1>1 DEF Event!SetTest, Event!Goto
<1>2. CASE Event!SetStore(s)
  BY <1>2 DEF Event!SetStore, Event!Goto
<1>3. CASE Event!NotifyAll(s)
  <2>1. /\ eventPc' = [t \in Event!All \cup EventSetters |->
                         IF t = s THEN "idle"
                         ELSE IF t \in Event!Asleep THEN "relock" ELSE eventPc[t]]
        /\ unheard' = unheard \cup {w \in Event!All : eventPc[w] = "sleep"}
        /\ UNCHANGED notified
    BY <1>3 DEF Event!NotifyAll
  <2>2. \A w \in Event!All : eventPc[w] = "asleep" => eventPc'[w] # "asleep"
    BY <2>1 DEF Event!Asleep
  <2> QED  BY <2>1, <2>2 DEF Event!Asleep
<1> QED  BY <1>1, <1>2, <1>3 DEF Event!SetterStep

LEMMA EventComposed ==
  MCSpec => []EventInv
<1>1. MCInit => EventInv
  BY DEF MCInit, Event!Init, EventInv
<1>2. EventInv /\ [MCNext]_allVars => EventInv'
  <2> SUFFICES ASSUME EventInv, [MCNext]_allVars PROVE EventInv'
    OBVIOUS
  <2>1. CASE UNCHANGED eventVars
    BY <2>1 DEF eventVars, EventInv
  <2>2. ASSUME NEW c \in Clearers, Event!Clear(c) PROVE EventInv'
    BY <2>2 DEF Event!Clear, EventInv
  <2>3. CASE Event!Next
    BY <2>2, <2>3, EventWaiterStep, EventSetterStep DEF Event!Next
  <2>4. Event!Next \/ UNCHANGED eventVars
    BY DEF MCNext, allVars
  <2> QED  BY <2>1, <2>3, <2>4
<1>3. MCSpec => MCInit /\ [][MCNext]_allVars
  BY PTL DEF MCSpec
<1> QED  BY <1>1, <1>2, <1>3, PTL

(* Event: a thread that sleeps although the event is set, and no           *)
(* notification is on its way, was between the test of the flag and the    *)
(* wait when set() notified.                                               *)
THEOREM SleepersMissedTheCall ==
  MCSpec => []OnlyUnheardSleep
<1>1. EventInv => OnlyUnheardSleep
  BY DEF EventInv, OnlyUnheardSleep, Event!OnlyUnheardSleep, Event!Asleep
<1> QED  BY <1>1, EventComposed, PTL

-----------------------------------------------------------------------------
(* SequenceBarrier *)

LEMMA BarrierComposed ==
  ASSUME WaitingAssumption
  PROVE  MCSpec => Barrier!Spec
<1>1. MCInit => Barrier!Init
  BY DEF MCInit
<1>2. [MCNext]_allVars => [Barrier!Next]_(Barrier!vars)
  BY DEF MCNext, allVars, barrierVars, Barrier!vars
<1>3. MCSpec => MCInit /\ [][MCNext]_allVars
  BY PTL DEF MCSpec
<1> QED  BY <1>1, <1>2, <1>3, PTL DEF Barrier!Spec

(* The module that BP names extends the one that Barrier names: what the   *)
(* two define alike is the same.                                           *)
LEMMA SameBarrierSteps ==
  /\ Barrier!Init => BP!Init
  /\ Barrier!Next => BP!Next
<1>1. \A q, S : BP!Among(q, S) = Barrier!Among(q, S)
  BY DEF BP!Among, Barrier!Among
<1>2. \A x, y : BP!difference(x, y) = Barrier!difference(x, y)
  BY DEF BP!difference, Barrier!difference
<1>3. \A x, y : BP!precedes(x, y) = Barrier!precedes(x, y)
  BY <1>2 DEF BP!precedes, Barrier!precedes
<1>4. \A S : BP!Min(S) = Barrier!Min(S)
  BY DEF BP!Min, Barrier!Min
<1>5. /\ BP!Threads = Barrier!Threads /\ BP!Idle = Barrier!Idle
      /\ BP!NoOperation = Barrier!NoOperation
      /\ BP!initial_sequence = Barrier!initial_sequence
      /\ \A d : BP!Plus(d) = Barrier!Plus(d)
  BY DEF BP!Threads, Barrier!Threads, BP!Idle, Barrier!Idle, BP!NoOperation,
         Barrier!NoOperation, BP!initial_sequence, Barrier!initial_sequence,
         BP!Plus, Barrier!Plus
<1>6. \A q, n : /\ BP!ToRequeue(q, n) = Barrier!ToRequeue(q, n)
                /\ BP!ToResume(q, n) = Barrier!ToResume(q, n)
                /\ BP!StillAhead(q, n) = Barrier!StillAhead(q, n)
                /\ BP!Reached(q, n) = Barrier!Reached(q, n)
  BY <1>1, <1>2, <1>3, Zenon
     DEF BP!ToRequeue, Barrier!ToRequeue, BP!ToResume, Barrier!ToResume,
         BP!StillAhead, Barrier!StillAhead, BP!Reached, Barrier!Reached
<1>7. \A q, n : BP!Earliest(q, n) = Barrier!Earliest(q, n)
  BY <1>2, <1>4, Zenon DEF BP!Earliest, Barrier!Earliest
<1>8. ASSUME NEW c PROVE /\ \A x : Barrier!Await(c, x) => BP!Await(c, x)
                         /\ Barrier!Suspend(c) => BP!Suspend(c)
                         /\ Barrier!AwaitResume(c) => BP!AwaitResume(c)
  BY <1>3, <1>5, Zenon DEF Barrier!Await, BP!Await, Barrier!Suspend, BP!Suspend,
                           Barrier!AwaitResume, BP!AwaitResume
<1>9. ASSUME NEW p PROVE \A x : Barrier!Publish(p, x) => BP!Publish(p, x)
  BY DEF Barrier!Publish, BP!Publish
<1>10. ASSUME NEW t PROVE Barrier!Step(t) => BP!Step(t)
  <2>1. Barrier!ResumeNext(t) => BP!ResumeNext(t)
    BY Zenon DEF Barrier!ResumeNext, BP!ResumeNext
  <2>2. Barrier!ResumeEnd(t) => BP!ResumeEnd(t)
    BY <1>5, Zenon DEF Barrier!ResumeEnd, BP!ResumeEnd
  <2>3. Barrier!LoadAwaiters(t) => BP!LoadAwaiters(t)
    BY <1>5, Zenon DEF Barrier!LoadAwaiters, BP!LoadAwaiters
  <2>4. Barrier!TakeAwaiters(t) => BP!TakeAwaiters(t)
    BY <1>6, Zenon DEF Barrier!TakeAwaiters, BP!TakeAwaiters
  <2>5. Barrier!Requeue(t) => BP!Requeue(t)
    BY Zenon DEF Barrier!Requeue, BP!Requeue
  <2>6. Barrier!PushAwaiters(t) => BP!PushAwaiters(t)
    BY Zenon DEF Barrier!PushAwaiters, BP!PushAwaiters
  <2>7. Barrier!CheckPublished(t) => BP!CheckPublished(t)
    BY <1>3, Zenon DEF Barrier!CheckPublished, BP!CheckPublished
  <2>8. Barrier!RetakeAwaiters(t) => BP!RetakeAwaiters(t)
    BY <1>6, <1>7, Zenon DEF Barrier!RetakeAwaiters, BP!RetakeAwaiters
  <2> QED  BY <2>1, <2>2, <2>3, <2>4, <2>5, <2>6, <2>7, <2>8, Zenon DEF Barrier!Step, BP!Step
<1>11. Barrier!Init => BP!Init
  BY <1>5, Zenon DEF Barrier!Init, BP!Init
<1>12. Barrier!Next => BP!Next
  BY <1>5, <1>8, <1>9, <1>10, Zenon DEF Barrier!Next, BP!Next
<1> QED  BY <1>11, <1>12

LEMMA SameBarrier ==
  /\ Barrier!Init => BP!Init
  /\ [Barrier!Next]_(Barrier!vars) => [BP!Next]_(BP!vars)
  /\ BP!LinkedOnce => Barrier!LinkedOnce
  /\ Barrier!SequenceBarrierAssumption => BP!SequenceBarrierAssumption
<1>1. UNCHANGED Barrier!vars => UNCHANGED BP!vars
  BY DEF BP!vars, Barrier!vars
<1>2. ASSUME NEW c PROVE BP!Places(c) = Barrier!Places(c)
  <2>1. \A q : BP!At(c, q) = Barrier!At(c, q)
    BY DEF BP!At, Barrier!At
  <2>2. BP!Threads = Barrier!Threads
    BY DEF BP!Threads, Barrier!Threads
  <2>3. {<<"barrier", i>> : i \in BP!At(c, awaiters)}
          = {<<"barrier", i>> : i \in Barrier!At(c, awaiters)}
    BY <2>1
  <2>4. ASSUME NEW t
        PROVE  /\ {<<t, "requeue", i>> : i \in BP!At(c, thread[t].requeue)}
                    = {<<t, "requeue", i>> : i \in Barrier!At(c, thread[t].requeue)}
               /\ {<<t, "resume", i>> : i \in BP!At(c, thread[t].resume)}
                    = {<<t, "resume", i>> : i \in Barrier!At(c, thread[t].resume)}
    BY <2>1
  <2>5. UNION {{<<t, "requeue", i>> : i \in BP!At(c, thread[t].requeue)} : t \in BP!Threads}
          = UNION {{<<t, "requeue", i>> : i \in Barrier!At(c, thread[t].requeue)} :
                     t \in Barrier!Threads}
    BY <2>2, <2>4
  <2>6. UNION {{<<t, "resume", i>> : i \in BP!At(c, thread[t].resume)} : t \in BP!Threads}
          = UNION {{<<t, "resume", i>> : i \in Barrier!At(c, thread[t].resume)} :
                     t \in Barrier!Threads}
    BY <2>2, <2>4
  <2> QED  BY <2>3, <2>5, <2>6, Zenon DEF BP!Places, Barrier!Places
<1>3. \A S : BP!Cardinality(S) = Barrier!Cardinality(S)
  <2>1. \A S : BP!Cardinality(S) = Cardinality(S)
    BY DEF BP!Cardinality, Cardinality, BP!IsFiniteSet, IsFiniteSet
  <2>2. \A S : Barrier!Cardinality(S) = Cardinality(S)
    BY DEF Barrier!Cardinality, Cardinality, Barrier!IsFiniteSet, IsFiniteSet
  <2> QED  BY <2>1, <2>2
<1>4. BP!LinkedOnce => Barrier!LinkedOnce
  <2> SUFFICES ASSUME BP!LinkedOnce, NEW c \in Consumers
               PROVE  IF op[c].state = "suspended" \/ (op[c].state = "suspending" /\ ~op[c].ready)
                        THEN Barrier!Cardinality(Barrier!Places(c)) = 1
                        ELSE Barrier!Places(c) = {}
    BY DEF Barrier!LinkedOnce
  <2>1. IF op[c].state = "suspended" \/ (op[c].state = "suspending" /\ ~op[c].ready)
          THEN BP!Cardinality(BP!Places(c)) = 1 ELSE BP!Places(c) = {}
    BY DEF BP!LinkedOnce
  <2>2. /\ BP!Places(c) = Barrier!Places(c)
        /\ BP!Cardinality(BP!Places(c)) = Barrier!Cardinality(Barrier!Places(c))
    BY <1>2, <1>3
  <2> QED  BY <2>1, <2>2
<1>5. Barrier!SequenceBarrierAssumption => BP!SequenceBarrierAssumption
  BY Zenon DEF BP!SequenceBarrierAssumption, Barrier!SequenceBarrierAssumption
<1> QED  BY <1>1, <1>4, <1>5, SameBarrierSteps

(* CoroEvent and SequenceBarrier, composed: a suspended coroutine is in    *)
(* one list, once, and none that runs is in a list.                        *)
THEOREM EachLinkedOnce ==
  ASSUME WaitingAssumption
  PROVE  MCSpec => []BothLinkedOnce
<1>1. Spec => []LinkedOnce
  BY ResumedOnce DEF WaitingAssumption
<1>2. BP!Spec => []BP!LinkedOnce
  BY BP!WaitersLinkedOnce, SameBarrier DEF WaitingAssumption
<1>3. Barrier!Spec => []Barrier!LinkedOnce
  BY <1>2, SameBarrier, PTL DEF Barrier!Spec, BP!Spec
<1> QED  BY <1>1, <1>3, CoroEventComposed, BarrierComposed, PTL DEF BothLinkedOnce

=============================================================================
