-------------------------- MODULE SequenceBarrier --------------------------
(***************************************************************************)
(* concurrency/sequence_barrier: producers publish sequence numbers, and   *)
(* consumers co_await the number they need.  _awaiters is an intrusive     *)
(* list of waiting operations; publish() and add_awaiter() both push onto  *)
(* it with a compare-exchange loop (one atomic prepend) and empty it with  *)
(* one exchange.  A flag per operation, _ready_to_resume, decides between  *)
(* the thread that suspends it and the thread that resumes it.             *)
(*                                                                         *)
(* Each consumer is a coroutine with at most one operation at a time, so   *)
(* the operation bears the coroutine's name.  Sequence numbers are values  *)
(* of a machine word with Word values; difference() is its signed one.     *)
(* The accesses to _awaiters and _last_published that the protocol rests   *)
(* on are seq_cst, and the model interleaves all of them.                  *)
(***************************************************************************)
EXTENDS Integers, Sequences, FiniteSets, FiniteSetsExt, Lists

CONSTANTS
  Consumers,    \* coroutines that wait
  Producers,    \* threads that publish; the class promises to work with one
  Word,         \* how many values the type Sequence has
  Strides,      \* by how much a published number may exceed the one before
  Ahead,        \* how far from the last published number a target may be
  MaxPublished  \* bound: the numbers published before the model stops

ASSUME SequenceBarrierAssumption ==
  /\ Word \in Nat /\ Word % 2 = 0 /\ Word > 0
  /\ Strides \subseteq 1..(Word \div 2 - 1)
  /\ Ahead \subseteq (-(Word \div 2))..(Word \div 2)
  /\ MaxPublished \in Nat
  /\ Producers \cap Consumers = {}

VARIABLES
  last_published,   \* _last_published
  awaiters,         \* the list behind _awaiters, newest first
  op,               \* op[c]: the operation of consumer c
  thread,           \* thread[t]: what producer t or consumer t is doing in
                    \* publish() or add_awaiter(), with its local variables
  published         \* history: how many numbers were published, unwrapped

vars == <<last_published, awaiters, op, thread, published>>

Sequence == 0..(Word - 1)

-----------------------------------------------------------------------------
(* SequenceTraits *)

initial_sequence == (-1) % Word

\* compares the numbers as they are, without regard to wrap-around
difference_Unsigned(a, b) == a - b

(* static_cast<signed>(a - b) *)
difference(a, b) ==
  LET d == (a - b) % Word IN IF d < Word \div 2 THEN d ELSE d - Word

precedes(a, b) == difference(a, b) < 0

-----------------------------------------------------------------------------
Threads == Producers \cup Consumers

Idle == [pc |-> "idle", sequence |-> 0, requeue |-> <<>>, resume |-> <<>>]

NoOperation == [state |-> "none", target |-> 0, known |-> 0, ready |-> FALSE]

Init ==
  /\ last_published = initial_sequence
  /\ awaiters = <<>>
  /\ op = [c \in Consumers |-> NoOperation]
  /\ thread = [t \in Threads |-> Idle]
  /\ published = 0

(* Splitting a list by the number that is known to be published, the way   *)
(* publish() compares and the way add_awaiter() does.  The two differ when *)
(* the target is exactly half the word away, where either number precedes  *)
(* the other.                                                              *)
ToRequeue(list, sequence) ==
  Among(list, {c \in Consumers : precedes(sequence, op[c].target)})
ToResume(list, sequence) ==
  Among(list, {c \in Consumers : ~precedes(sequence, op[c].target)})

StillAhead(list, known) ==
  Among(list, {c \in Consumers : difference(op[c].target, known) > 0})
Reached(list, known) ==
  Among(list, {c \in Consumers : difference(op[c].target, known) <= 0})

-----------------------------------------------------------------------------
(* The wait operation *)

(* wait_until_published(target) constructs the operation with the number   *)
(* that is published now, and await_ready() decides by it.                 *)
Await(c, target) ==
  /\ op[c].state = "none"
  /\ op' = [op EXCEPT ![c] = [state  |-> IF precedes(last_published, target)
                                           THEN "suspending" ELSE "resumed",
                              target |-> target,
                              known  |-> last_published,
                              ready  |-> FALSE]]
  /\ thread' = IF precedes(last_published, target)
                 THEN [thread EXCEPT ![c] = [pc       |-> "push",
                                             sequence |-> target,
                                             requeue  |-> <<c>>,
                                             resume   |-> <<>>]]
                 ELSE thread
  /\ UNCHANGED <<last_published, awaiters, published>>

(* await_suspend(): return !_ready_to_resume.exchange(true) *)
Suspend(c) ==
  /\ thread[c].pc = "suspend"
  /\ op' = [op EXCEPT ![c].ready = TRUE,
                      ![c].state = IF op[c].ready THEN "resumed" ELSE "suspended"]
  /\ thread' = [thread EXCEPT ![c] = Idle]
  /\ UNCHANGED <<last_published, awaiters, published>>

(* The coroutine runs again, on the executor or where it was resumed:      *)
(* await_resume() returns the known number and the operation is gone.      *)
AwaitResume(c) ==
  /\ op[c].state = "resumed"
  /\ op' = [op EXCEPT ![c] = NoOperation]
  /\ UNCHANGED <<last_published, awaiters, thread, published>>

(* One turn of the loop that resumes: resume() hands the coroutine to its  *)
(* executor only if it is suspended already; otherwise the flag tells      *)
(* await_suspend not to suspend.                                           *)
ResumeNext(t) ==
  /\ thread[t].pc = "resume" /\ thread[t].resume # <<>>
  /\ LET c == Head(thread[t].resume)
     IN  op' = [op EXCEPT ![c].known = thread[t].sequence,
                          ![c].ready = TRUE,
                          ![c].state = IF op[c].ready THEN "resumed" ELSE @]
  /\ thread' = [thread EXCEPT ![t].resume = Tail(@)]
  /\ UNCHANGED <<last_published, awaiters, published>>

(* The loop is over: publish() returns, add_awaiter() returns into         *)
(* await_suspend().                                                        *)
ResumeEnd(t) ==
  /\ thread[t].pc = "resume" /\ thread[t].resume = <<>>
  /\ thread' = [thread EXCEPT ![t] = IF t \in Producers THEN Idle
                                     ELSE [@ EXCEPT !.pc = "suspend"]]
  /\ UNCHANGED <<last_published, awaiters, op, published>>

-----------------------------------------------------------------------------
(* publish(sequence) *)

Publish(p, sequence) ==
  /\ thread[p].pc = "idle"
  /\ published < MaxPublished
  /\ published' = published + 1
  /\ last_published' = sequence
  /\ thread' = [thread EXCEPT ![p].pc = "load", ![p].sequence = sequence]
  /\ UNCHANGED <<awaiters, op>>

(* The cheaper check: if (awaiters == nullptr) return. *)
LoadAwaiters(p) ==
  /\ p \in Producers /\ thread[p].pc = "load"
  /\ thread' = [thread EXCEPT ![p] = IF awaiters = <<>> THEN Idle
                                     ELSE [@ EXCEPT !.pc = "take"]]
  /\ UNCHANGED <<last_published, awaiters, op, published>>

(* Exchange the list against null and sort its operations; a list that     *)
(* another thread took meanwhile leaves nothing to do.                     *)
TakeAwaiters(p) ==
  /\ p \in Producers /\ thread[p].pc = "take"
  /\ awaiters' = <<>>
  /\ LET s == thread[p].sequence
     IN  thread' = [thread EXCEPT ![p] =
                      [pc       |-> IF ToRequeue(awaiters, s) = <<>> THEN "resume" ELSE "push",
                       sequence |-> s,
                       requeue  |-> ToRequeue(awaiters, s),
                       resume   |-> ToResume(awaiters, s)]]
  /\ UNCHANGED <<last_published, op, published>>

Requeue(p) ==
  /\ p \in Producers /\ thread[p].pc = "push"
  /\ awaiters' = thread[p].requeue \o awaiters
  /\ thread' = [thread EXCEPT ![p].pc = "resume", ![p].requeue = <<>>]
  /\ UNCHANGED <<last_published, op, published>>

-----------------------------------------------------------------------------
(* add_awaiter(): sequence is target_sequence until the load of            *)
(* _last_published, and last_known_published from there on.                *)

PushAwaiters(c) ==
  /\ c \in Consumers /\ thread[c].pc = "push"
  /\ awaiters' = thread[c].requeue \o awaiters
  /\ thread' = [thread EXCEPT ![c].pc = "load", ![c].requeue = <<>>]
  /\ UNCHANGED <<last_published, op, published>>

\* does not look at the published number again after pushing
CheckPublished_Never(c) ==
  /\ c \in Consumers /\ thread[c].pc = "load"
  /\ thread' = [thread EXCEPT ![c].pc = "resume", ![c].sequence = last_published]
  /\ UNCHANGED <<last_published, awaiters, op, published>>

(* if (precedes(last_known_published, target_sequence)) break; *)
CheckPublished(c) ==
  /\ c \in Consumers /\ thread[c].pc = "load"
  /\ thread' = [thread EXCEPT
       ![c].pc = IF precedes(last_published, thread[c].sequence) THEN "resume" ELSE "take",
       ![c].sequence = last_published]
  /\ UNCHANGED <<last_published, awaiters, op, published>>

(* The earliest target of the operations to requeue. *)
Earliest(list, sequence) ==
  (sequence + Min({difference(op[list[i]].target, sequence) : i \in 1..Len(list)})) % Word

(* Exchange the list against null and sort its operations; go round again  *)
(* for those whose number is not published yet.                            *)
RetakeAwaiters(c) ==
  /\ c \in Consumers /\ thread[c].pc = "take"
  /\ awaiters' = <<>>
  /\ LET known   == thread[c].sequence
         requeue == StillAhead(awaiters, known)
     IN  thread' = [thread EXCEPT ![c] =
           [pc       |-> IF requeue = <<>> THEN "resume" ELSE "push",
            sequence |-> IF requeue = <<>> THEN known ELSE Earliest(requeue, known),
            requeue  |-> requeue,
            resume   |-> thread[c].resume \o Reached(awaiters, known)]]
  /\ UNCHANGED <<last_published, op, published>>

-----------------------------------------------------------------------------
Plus(d) == (last_published + d) % Word

Step(t) ==
  \/ ResumeNext(t) \/ ResumeEnd(t)
  \/ LoadAwaiters(t) \/ TakeAwaiters(t) \/ Requeue(t)
  \/ PushAwaiters(t) \/ CheckPublished(t) \/ RetakeAwaiters(t)

Next ==
  \/ \E c \in Consumers : \E d \in Ahead : Await(c, Plus(d))
  \/ \E c \in Consumers : Suspend(c) \/ AwaitResume(c)
  \/ \E p \in Producers : \E d \in Strides : Publish(p, Plus(d))
  \/ \E t \in Threads : Step(t)

Spec == Init /\ [][Next]_vars

(* What has begun goes on: publish() and await_suspend() run to their end, *)
(* and the executor runs what it is given.                                 *)
Fairness ==
  /\ \A t \in Threads : WF_vars(Step(t))
  /\ \A c \in Consumers : WF_vars(Suspend(c)) /\ WF_vars(AwaitResume(c))

FairSpec == Spec /\ Fairness

-----------------------------------------------------------------------------
TypeOK ==
  /\ last_published \in Sequence
  /\ awaiters \in Seq(Consumers)
  /\ op \in [Consumers -> [state  : {"none", "suspending", "suspended", "resumed"},
                           target : Sequence, known : Sequence, ready : BOOLEAN]]
  /\ thread \in [Threads -> [pc       : {"idle", "load", "take", "push", "resume", "suspend"},
                             sequence : Sequence,
                             requeue  : Seq(Consumers),
                             resume   : Seq(Consumers)]]
  /\ published \in 0..MaxPublished

(* The places that hold an operation: the list of the barrier and the      *)
(* lists each thread has in its local variables.                           *)
At(c, list) == {i \in 1..Len(list) : list[i] = c}

Places(c) ==
  {<<"barrier", i>> : i \in At(c, awaiters)}
    \cup (UNION {{<<t, "requeue", i>> : i \in At(c, thread[t].requeue)} : t \in Threads})
    \cup (UNION {{<<t, "resume", i>> : i \in At(c, thread[t].resume)} : t \in Threads})

(* An operation whose flag nobody but its own thread has exchanged is      *)
(* linked in one list, once; when somebody else has, the coroutine is      *)
(* about to go on and to destroy the operation, and no list holds it: no   *)
(* coroutine is resumed twice and none while it runs.                      *)
LinkedOnce ==
  \A c \in Consumers :
    IF op[c].state = "suspended" \/ (op[c].state = "suspending" /\ ~op[c].ready)
      THEN Cardinality(Places(c)) = 1
      ELSE Places(c) = {}

(* The number a is less than half a word behind b, or exactly half. *)
Behind(a, b) == \E k \in 1..(Word \div 2) : (a + k) % Word = b

(* What co_await returns is "guaranteed not to precede" the target (the    *)
(* comment of wait_until_published), and it was published, also when the   *)
(* numbers wrap around.                                                    *)
ResultCoversTarget ==
  \A c \in Consumers :
    op[c].state = "resumed" => /\ ~Behind(op[c].known, op[c].target)
                               /\ ~Behind(last_published, op[c].known)

(* The race the comment in add_awaiter() is about: an operation in the     *)
(* list of the barrier whose number is published is there only while some  *)
(* thread is on its way to take the list.                                  *)
NoneForgotten ==
  (\E c \in Consumers : At(c, awaiters) # {} /\ ~precedes(last_published, op[c].target))
    => \E t \in Threads : thread[t].pc \in {"load", "take"}

(* A consumer whose number is published goes on, whoever else publishes or *)
(* waits meanwhile.                                                        *)
PublishedWakes ==
  \A c \in Consumers :
    (op[c].state # "none" /\ ~precedes(last_published, op[c].target)) ~> op[c].state = "none"

(* The comment of wait_until_published says of a coroutine that suspends:  *)
(* "later resumed inside the call to publish() that publishes the          *)
(* specified sequence number".                                             *)
ResumedInsidePublish ==
  [][\A c \in Consumers :
       (op[c].state = "suspended" /\ op'[c].state = "resumed")
         => \E p \in Producers : thread[p].pc = "resume" /\ c = Head(thread[p].resume)]_vars

=============================================================================
