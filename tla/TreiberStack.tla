--------------------------- MODULE TreiberStack ---------------------------
(***************************************************************************)
(* concurrency/stack.hpp: the lock-free stack under every executor, on a   *)
(* heap of nodes.  Each atomic access of _head is a step, and a node that  *)
(* is deleted may be allocated again at once by another push, so that a    *)
(* compare-exchange can succeed on an address that was freed in between.   *)
(***************************************************************************)
EXTENDS Integers, FiniteSets, Sequences, SequencesExt

CONSTANTS
  Producers,    \* threads that push
  Consumers,    \* threads that sweep
  Nodes,        \* addresses the allocator hands out
  null,
  MaxPush,      \* bound: pushes per producer
  Ordered       \* the consumers that call sweep_ordered; the others call sweep

StackAssumption ==
  /\ IsFiniteSet(Nodes) /\ null \notin Nodes
  /\ Producers \cap Consumers = {}
  /\ MaxPush \in Nat
  /\ Ordered \subseteq Consumers

VARIABLES
  head,         \* _head
  live,         \* the nodes that are allocated
  data,         \* Node::data
  next,         \* Node::next
  pc,           \* pc[t] : where thread t is
  mine,         \* mine[p] : the new_node of the push p is inside of
  count,        \* count[p] : how many values p has pushed or is pushing
  cur,          \* cur[c], prev[c] : the locals of the sweep c is inside of
  prev,
  delivered     \* delivered[c] : the values passed to fn by c, in order

heap  == <<live, data, next>>
local == <<mine, count, cur, prev>>
vars  == <<head, heap, pc, local, delivered>>

Threads == Producers \cup Consumers
Pointer == Nodes \cup {null}
Value   == Producers \X (1..MaxPush)

Goto(t, from, to) == pc[t] = from /\ pc' = [pc EXCEPT ![t] = to]

Init ==
  /\ head = null
  /\ live = {}
  /\ data = [n \in Nodes |-> null]
  /\ next = [n \in Nodes |-> null]
  /\ pc   = [t \in Threads |-> "idle"]
  /\ mine = [p \in Producers |-> null]
  /\ count = [p \in Producers |-> 0]
  /\ cur  = [c \in Consumers |-> null]
  /\ prev = [c \in Consumers |-> null]
  /\ delivered = [c \in Consumers |-> <<>>]

-----------------------------------------------------------------------------
(* push *)

(* new Node(...), then  new_node->next = _head.load(relaxed) *)
NewNode(p) ==
  /\ Goto(p, "idle", "push")
  /\ count[p] < MaxPush
  /\ \E n \in Nodes \ live :
       /\ live' = live \cup {n}
       /\ data' = [data EXCEPT ![n] = <<p, count[p] + 1>>]
       /\ next' = [next EXCEPT ![n] = head]
       /\ mine' = [mine EXCEPT ![p] = n]
  /\ count' = [count EXCEPT ![p] = @ + 1]
  /\ UNCHANGED <<head, cur, prev, delivered>>

(* compare_exchange_weak(new_node->next, new_node): the addresses are      *)
(* compared, whatever became of the node in between.                       *)
PushSucceeds(p) ==
  /\ Goto(p, "push", "idle")
  /\ head = next[mine[p]]
  /\ head' = mine[p]
  /\ mine' = [mine EXCEPT ![p] = null]
  /\ UNCHANGED <<heap, count, cur, prev, delivered>>

(* It fails (a stale or a spurious failure) and stores the current head    *)
(* into new_node->next.                                                    *)
PushFails(p) ==
  /\ pc[p] = "push"
  /\ next' = [next EXCEPT ![mine[p]] = head]
  /\ UNCHANGED <<head, live, data, pc, local, delivered>>

-----------------------------------------------------------------------------
(* steel_head, sweep and sweep_ordered *)

(* cur_head = _head.load(relaxed) *)
LoadHead(c) ==
  /\ Goto(c, "idle", "steel_head")
  /\ cur' = [cur EXCEPT ![c] = head]
  /\ UNCHANGED <<head, heap, mine, count, prev, delivered>>

(* The compare-exchange to null succeeds: the whole list now belongs to c. *)
(* An empty one makes the sweep return false.                              *)
StealSucceeds(c) ==
  /\ pc[c] = "steel_head"
  /\ head  = cur[c]
  /\ head' = null
  /\ pc'   = [pc EXCEPT ![c] = IF cur[c] = null THEN "idle"
                               ELSE IF c \in Ordered THEN "reverse" ELSE "deliver"]
  /\ prev' = [prev EXCEPT ![c] = null]
  /\ UNCHANGED <<heap, mine, count, cur, delivered>>

StealFails(c) ==
  /\ pc[c] = "steel_head"
  /\ cur' = [cur EXCEPT ![c] = head]
  /\ UNCHANGED <<head, heap, pc, mine, count, prev, delivered>>

\* the list is handed on without being reversed
Reverse1_Skipped(c) ==
  /\ Goto(c, "reverse", "deliver")
  /\ UNCHANGED <<head, heap, local, delivered>>

(* One round of the first loop of sweep_ordered: turn one link round. *)
Reverse1(c) ==
  /\ pc[c] = "reverse"
  /\ IF cur[c] # null
       THEN /\ next' = [next EXCEPT ![cur[c]] = prev[c]]
            /\ prev' = [prev EXCEPT ![c] = cur[c]]
            /\ cur'  = [cur EXCEPT ![c] = next[cur[c]]]
            /\ UNCHANGED pc
       ELSE /\ cur'  = [cur EXCEPT ![c] = prev[c]]
            /\ prev' = [prev EXCEPT ![c] = null]
            /\ pc'   = [pc EXCEPT ![c] = "deliver"]
            /\ UNCHANGED next
  /\ UNCHANGED <<head, live, data, mine, count, delivered>>

\* the last node is not deleted
DeliverNode_Leaks(c) ==
  /\ pc[c] = "deliver"
  /\ delivered' = [delivered EXCEPT ![c] = Append(@, data[cur[c]])]
  /\ cur'  = [cur EXCEPT ![c] = next[cur[c]]]
  /\ live' = IF next[cur[c]] = null THEN live ELSE live \ {cur[c]}
  /\ pc'   = [pc EXCEPT ![c] = IF next[cur[c]] = null THEN "idle" ELSE @]
  /\ UNCHANGED <<head, data, next, mine, count, prev>>

(* One round of the loop of sweep, and of the second loop of               *)
(* sweep_ordered: fn(std::move(cur->data)); delete cur.                    *)
DeliverNode(c) ==
  /\ pc[c] = "deliver"
  /\ delivered' = [delivered EXCEPT ![c] = Append(@, data[cur[c]])]
  /\ cur'  = [cur EXCEPT ![c] = next[cur[c]]]
  /\ live' = live \ {cur[c]}
  /\ pc'   = [pc EXCEPT ![c] = IF next[cur[c]] = null THEN "idle" ELSE @]
  /\ UNCHANGED <<head, data, next, mine, count, prev>>

(* The nodes one meets from n on, as a sequence.  A chain is never longer  *)
(* than the heap; a longer walk would be a cycle.                          *)
Chain(n) ==
  LET Walk[k \in 0..Cardinality(Nodes)] ==
        IF k = 0 THEN <<n>>
        ELSE LET w == Walk[k - 1] IN
             IF Last(w) = null THEN w ELSE Append(w, next[Last(w)])
  IN  Front(Walk[Cardinality(Nodes)])

(* ~Stack, when no thread is inside an operation: deletes what is left. *)
Destroy ==
  /\ \A t \in Threads : pc[t] = "idle"
  /\ live' = live \ Range(Chain(head))
  /\ head' = null
  /\ pc'   = [t \in Threads |-> "gone"]
  /\ UNCHANGED <<data, next, local, delivered>>

Next ==
  \/ Destroy
  \/ \E p \in Producers : NewNode(p) \/ PushSucceeds(p) \/ PushFails(p)
  \/ \E c \in Consumers : \/ LoadHead(c)
                          \/ StealSucceeds(c)
                          \/ StealFails(c)
                          \/ Reverse1(c)
                          \/ DeliverNode(c)

Spec == Init /\ [][Next]_vars

-----------------------------------------------------------------------------
TypeOK ==
  /\ head \in Pointer
  /\ live \subseteq Nodes
  /\ data \in [Nodes -> Value \cup {null}]
  /\ next \in [Nodes -> Pointer]
  /\ pc   \in [Threads -> {"idle", "push", "steel_head", "reverse", "deliver", "gone"}]
  /\ mine \in [Producers -> Pointer]
  /\ count \in [Producers -> 0..MaxPush]
  /\ cur  \in [Consumers -> Pointer]
  /\ prev \in [Consumers -> Pointer]
  /\ delivered \in [Consumers -> Seq(Value)]

DataOf(s) == [i \in 1..Len(s) |-> data[s[i]]]

Owned(c) == CASE pc[c] = "reverse" -> Chain(cur[c]) \o Chain(prev[c])
              [] pc[c] = "deliver" -> Chain(cur[c])
              [] OTHER             -> <<>>

(* Every allocated node belongs to exactly one owner: the list under       *)
(* _head, one sweep, or one push that is not done.  No list runs through a *)
(* freed node, nothing is freed twice, nothing leaks.                      *)
OneOwner ==
  LET Owners(n) == {c \in Consumers : n \in Range(Owned(c))}
                     \cup {p \in Producers : mine[p] = n}
                     \cup {h \in {null} : n \in Range(Chain(head))}
      IsSet(s)  == Len(s) = Cardinality(Range(s))
  IN  /\ \A n \in Nodes : Cardinality(Owners(n)) = IF n \in live THEN 1 ELSE 0
      /\ IsSet(Chain(head)) /\ \A c \in Consumers : IsSet(Owned(c))

-----------------------------------------------------------------------------
(* Refinement: the list under _head, oldest first, is the queue; what a    *)
(* sweep still has to hand on, in the order it will, is its batch.         *)
queueBar == Reverse(DataOf(Chain(head)))

batchBar ==
  [c \in Consumers |->
     CASE pc[c] = "reverse" -> Reverse(DataOf(Chain(cur[c]))) \o DataOf(Chain(prev[c]))
       [] pc[c] = "deliver" -> DataOf(Chain(cur[c]))
       [] OTHER             -> <<>>]

Queue == INSTANCE HandoffQueue
           WITH Takers <- Consumers, Ordered <- Ordered, Values <- Value,
                queue <- queueBar, batch <- batchBar, delivered <- delivered,
                open <- \A t \in Threads : pc[t] # "gone"

(* Pushes and sweeps, with all their retries and reused addresses, are the *)
(* atomic pushes and takes of a queue: nothing is lost, doubled or handed  *)
(* on out of the order that the sweep in use promises.                     *)
ImplementsQueue == Queue!Spec

=============================================================================
