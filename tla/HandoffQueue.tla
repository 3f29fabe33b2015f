--------------------------- MODULE HandoffQueue ---------------------------
(***************************************************************************)
(* What concurrency/stack.hpp promises: values handed from any number of   *)
(* pushing threads to threads that take all of them at once.  A taker gets *)
(* the values in the order they were pushed (sweep_ordered) or in the      *)
(* reverse order (sweep), and hands them on one at a time.  So with one    *)
(* ordered taker values come out first in, first out.                      *)
(***************************************************************************)
EXTENDS Sequences, SequencesExt

CONSTANTS
  Takers,       \* the threads that sweep
  Ordered,      \* those of them that call sweep_ordered
  Values        \* what may be pushed

VARIABLES
  queue,        \* the pushed values nobody has taken, oldest first
  batch,        \* batch[c] : the values c has taken and not yet delivered
  delivered,    \* delivered[c] : the values c has delivered
  open          \* the queue has not been destroyed

qvars == <<queue, batch, delivered, open>>

Init ==
  /\ queue     = <<>>
  /\ batch     = [c \in Takers |-> <<>>]
  /\ delivered = [c \in Takers |-> <<>>]
  /\ open = TRUE

Push(x) ==
  /\ open
  /\ queue' = Append(queue, x)
  /\ UNCHANGED <<batch, delivered, open>>

TakeAll(c) ==
  /\ open
  /\ batch[c] = <<>>
  /\ batch' = [batch EXCEPT ![c] = IF c \in Ordered THEN queue ELSE Reverse(queue)]
  /\ queue' = <<>>
  /\ UNCHANGED <<delivered, open>>

Deliver(c) ==
  /\ open
  /\ batch[c] # <<>>
  /\ delivered' = [delivered EXCEPT ![c] = Append(@, Head(batch[c]))]
  /\ batch'     = [batch EXCEPT ![c] = Tail(@)]
  /\ UNCHANGED <<queue, open>>

(* The destructor discards what nobody has taken, and nothing follows. *)
Destroy ==
  /\ open
  /\ \A c \in Takers : batch[c] = <<>>
  /\ queue' = <<>>
  /\ open'  = FALSE
  /\ UNCHANGED <<batch, delivered>>

Next ==
  \/ \E x \in Values : Push(x)
  \/ \E c \in Takers : TakeAll(c) \/ Deliver(c)
  \/ Destroy

Spec == Init /\ [][Next]_qvars

=============================================================================
