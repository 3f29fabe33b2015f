-------------------------- MODULE GrpcServerCalls -------------------------
(***************************************************************************)
(* A generated gRPC service on one worker of a Runtime: the payloads of    *)
(* compiler/support/grpc_support.hpp with the loop that spawns them, and   *)
(* start(), stop() and wait() of rpc/grpc/grpc_runtime.cpp.                *)
(*                                                                         *)
(* A payload is one coroutine with one completion tag, and pc says what it *)
(* waits for: an alarm that brings it to the queue thread (a "...Hop"), an *)
(* operation of gRPC, or the unit, which is the user's code.  What it      *)
(* waits for becomes an event of the queue, and the queue thread resumes   *)
(* it.  GrpcQueueScheduler is about that thread; here it takes an event    *)
(* or, once it is stopped, ends when there is none.                        *)
(***************************************************************************)
EXTENDS Naturals, FiniteSets

CONSTANTS
  Payloads,       \* bound: how many payloads there are at a time
  MaxCalls        \* bound: how many calls the clients make

(* What the constants are. *)
ServiceAssumption == IsFiniteSet(Payloads) /\ MaxCalls \in Nat

VARIABLES
  method,         \* "unary", "writer" (server streaming), "reader"
  pc,             \* what each payload waits for
  exhausted,      \* the payloads whose request stream has ended
  events,         \* the events in the queue: [payload, ok]
  server,         \* ::grpc::Server
  queueOpen,      \* the completion queue was not shut down
  thread,         \* the thread of the worker
  control,        \* what start(), stop() and wait() have done
  calls, answers, \* the calls accepted, and those finished
  early,          \* stop() came before the first request was posted
  aborted         \* an operation was posted on a queue that was shut down

vars == <<method, pc, exhausted, events, server, queueOpen, thread, control,
          calls, answers, early, aborted>>

Hops       == {"requestHop", "startHop", "writeHop", "readHop", "finishHop"}
Operations == {"listening", "writing", "reading", "finishing"}
InCall     == {"identify", "unit", "startHop", "writeHop", "readHop", "finishHop",
               "writing", "reading", "finishing"}

Awaited(p) == ~\E ok \in BOOLEAN : <<p, ok>> \in events
Free == {p \in Payloads : pc[p] = "free"}

Unchanged == UNCHANGED <<method, server, thread, control, calls, early>>
-----------------------------------------------------------------------------
Init ==
  /\ method \in {"unary", "writer", "reader"}
  /\ pc = [p \in Payloads |-> "free"]
  /\ exhausted = {} /\ events = {}
  /\ server = "built" /\ queueOpen = TRUE /\ thread = "none" /\ control = "new"
  /\ calls = 0 /\ answers = 0 /\ early = FALSE /\ aborted = FALSE

(* Runtime::start(), RuntimeWorker::start(): the server runs, the first    *)
(* payload asks to be brought to the queue thread, which is started.       *)
Start ==
  /\ control = "new"
  /\ control' = "started" /\ server' = "running" /\ thread' = "running"
  /\ \E p \in Payloads : pc' = [pc EXCEPT ![p] = "requestHop"]
  /\ UNCHANGED <<method, exhausted, events, queueOpen, calls, answers, early, aborted>>

(* Runtime::stop(): the server takes no more calls, refuses the requests   *)
(* that wait for one and waits for the calls it has; only then is the      *)
(* queue shut down and the thread told to stop.                            *)
Shutdown ==
  /\ control = "started"
  /\ control' = "stopping" /\ server' = "shutdown"
  /\ early' = \E p \in Payloads : pc[p] = "requestHop"
  /\ UNCHANGED <<method, pc, exhausted, events, queueOpen, thread, calls, answers,
                 aborted>>

StopWorker ==
  /\ control = "stopping" /\ answers = calls
  /\ \A p \in Payloads : pc[p] = "listening" => ~Awaited(p)
  /\ control' = "stopped" /\ queueOpen' = FALSE
  /\ UNCHANGED <<method, pc, exhausted, events, server, thread, calls, answers,
                 early, aborted>>

(* Runtime::wait().                                                        *)
Wait ==
  /\ control = "stopped" /\ thread = "ended"
  /\ control' = "waited"
  /\ UNCHANGED <<method, pc, exhausted, events, server, queueOpen, thread, calls,
                 answers, early, aborted>>
-----------------------------------------------------------------------------
(* gRPC, the clients and the alarms: what becomes an event.                *)
Fire(p) ==
  /\ pc[p] \in Hops /\ Awaited(p)
  /\ events' = events \cup {<<p, TRUE>>}
  /\ UNCHANGED <<pc, exhausted, queueOpen, answers, aborted>> /\ Unchanged

(* A client calls; the bounds leave a payload for the next request.        *)
Accept(p) ==
  /\ pc[p] = "listening" /\ Awaited(p) /\ server = "running"
  /\ calls < MaxCalls /\ Free # {}
  /\ calls' = calls + 1
  /\ events' = events \cup {<<p, TRUE>>}
  /\ UNCHANGED <<method, pc, exhausted, server, queueOpen, thread, control, answers,
                 early, aborted>>

Refuse(p) ==
  /\ pc[p] = "listening" /\ Awaited(p) /\ server = "shutdown"
  /\ events' = events \cup {<<p, FALSE>>}
  /\ UNCHANGED <<pc, exhausted, queueOpen, answers, aborted>> /\ Unchanged

(* A message is written or read, or cannot be: the client has cancelled or *)
(* has no more.  A call ends with its Finish.                              *)
Transfer(p) ==
  /\ pc[p] \in {"writing", "reading", "finishing"} /\ Awaited(p)
  /\ \E ok \in BOOLEAN : events' = events \cup {<<p, ok>>}
  /\ answers' = IF pc[p] = "finishing" THEN answers + 1 ELSE answers
  /\ UNCHANGED <<pc, exhausted, queueOpen, aborted>> /\ Unchanged

(* The unit.  Whatever thread it answers on, the payload comes back to the *)
(* queue thread before it does anything.                                   *)
UnitAnswers(p, next) ==
  /\ pc' = [pc EXCEPT ![p] = next]
  /\ aborted' = ~queueOpen
  /\ UNCHANGED <<exhausted, events, queueOpen, answers>> /\ Unchanged

Identified(p) ==
  pc[p] = "identify" /\ \E next \in {"startHop", "finishHop"} : UnitAnswers(p, next)

UnitYields(p) == pc[p] = "unit" /\ method = "writer" /\ UnitAnswers(p, "writeHop")

UnitReads(p) ==
  pc[p] = "unit" /\ method = "reader" /\ p \notin exhausted /\ UnitAnswers(p, "readHop")

UnitDone(p) == pc[p] = "unit" /\ UnitAnswers(p, "finishHop")
-----------------------------------------------------------------------------
(* The queue thread resumes payload p.                                     *)
Post(p, operation) ==
  /\ pc' = [pc EXCEPT ![p] = operation]
  /\ aborted' = ~queueOpen
  /\ UNCHANGED exhausted

(* After ensure_on() of request(), the write of a message, the read of one *)
(* and finish().                                                           *)
Operation == [requestHop |-> "listening", writeHop |-> "writing",
              readHop |-> "reading", finishHop |-> "finishing"]

Hopped(p) == pc[p] \in DOMAIN Operation /\ Post(p, Operation[pc[p]])

(* The rest of pre_run(): the unit is called.                              *)
Called(p) ==
  /\ pc[p] = "startHop"
  /\ pc' = [pc EXCEPT ![p] = "unit"]
  /\ UNCHANGED <<exhausted, aborted>>

(* As in the generated files of examples/out, which do not look at what    *)
(* request() returned.                                                     *)
Requested_IgnoresRefusal(p, ok) ==
  /\ pc[p] = "listening"
  /\ \E q \in Free : pc' = [pc EXCEPT ![p] = "identify", ![q] = "listening"]
  /\ aborted' = ~queueOpen
  /\ exhausted' = exhausted \ {p}

Requested_SpawnsNone(p, ok) ==
  /\ pc[p] = "listening"
  /\ pc' = [pc EXCEPT ![p] = IF ok THEN "identify" ELSE "free"]
  /\ exhausted' = exhausted \ {p}
  /\ UNCHANGED aborted

(* spawn(): a payload that got a call first spawns the one for the next.   *)
Requested(p, ok) ==
  /\ pc[p] = "listening"
  /\ IF ok
     THEN /\ \E q \in Free :
               pc' = [pc EXCEPT ![p] = "identify", ![q] = "listening"]
          /\ aborted' = ~queueOpen
     ELSE pc' = [pc EXCEPT ![p] = "free"] /\ UNCHANGED aborted
  /\ exhausted' = exhausted \ {p}

Wrote_NoFinish(p, ok) ==
  /\ pc[p] = "writing"
  /\ pc' = [pc EXCEPT ![p] = IF ok THEN "unit" ELSE "free"]
  /\ UNCHANGED <<exhausted, aborted>>

(* A message is out, or the call is cancelled and finished at once.        *)
Wrote(p, ok) ==
  /\ pc[p] = "writing"
  /\ IF ok THEN pc' = [pc EXCEPT ![p] = "unit"] /\ UNCHANGED <<exhausted, aborted>>
           ELSE Post(p, "finishing")

(* The channel of requests yields a message, or ends.                      *)
Read(p, ok) ==
  /\ pc[p] = "reading"
  /\ pc' = [pc EXCEPT ![p] = "unit"]
  /\ exhausted' = IF ok THEN exhausted ELSE exhausted \cup {p}
  /\ UNCHANGED aborted

Finished(p) ==
  /\ pc[p] = "finishing"
  /\ pc' = [pc EXCEPT ![p] = "free"]
  /\ UNCHANGED <<exhausted, aborted>>

Resume ==
  /\ thread = "running"
  /\ \E p \in Payloads, ok \in BOOLEAN :
       /\ <<p, ok>> \in events
       /\ events' = events \ {<<p, ok>>}
       /\ \/ Hopped(p) \/ Called(p) \/ Requested(p, ok)
          \/ Wrote(p, ok) \/ Read(p, ok) \/ Finished(p)
  /\ UNCHANGED <<queueOpen, answers>> /\ Unchanged

ThreadEnds ==
  /\ thread = "running" /\ ~queueOpen /\ events = {}
  /\ thread' = "ended"
  /\ UNCHANGED <<method, pc, exhausted, events, server, queueOpen, control, calls,
                 answers, early, aborted>>

Runtime == Start \/ Shutdown \/ StopWorker \/ Wait

Next ==
  /\ ~aborted
  /\ \/ Runtime \/ Resume \/ ThreadEnds
     \/ \E p \in Payloads :
          \/ Fire(p) \/ Accept(p) \/ Refuse(p) \/ Transfer(p)
          \/ Identified(p) \/ UnitYields(p) \/ UnitReads(p) \/ UnitDone(p)

(* Alarms fire, gRPC completes what it was given, the queue thread and the *)
(* thread that stops the runtime go on; a unit answers, and does not       *)
(* stream for ever.                                                        *)
Fairness ==
  /\ WF_vars(Next /\ (Resume \/ ThreadEnds)) /\ WF_vars(Next /\ (StopWorker \/ Wait))
  /\ \A p \in Payloads :
       /\ WF_vars(Next /\ (Fire(p) \/ Refuse(p) \/ Transfer(p)))
       /\ WF_vars(Next /\ Identified(p)) /\ SF_vars(Next /\ UnitDone(p))

Spec == Init /\ [][Next]_vars /\ Fairness
-----------------------------------------------------------------------------
TypeOK ==
  /\ method \in {"unary", "writer", "reader"}
  /\ pc \in [Payloads -> {"free", "listening", "requestHop"} \cup InCall]
  /\ exhausted \subseteq Payloads
  /\ events \subseteq Payloads \X BOOLEAN
  /\ server \in {"built", "running", "shutdown"} /\ queueOpen \in BOOLEAN
  /\ thread \in {"none", "running", "ended"}
  /\ control \in {"new", "started", "stopping", "stopped", "waited"}
  /\ calls \in 0 .. MaxCalls /\ answers \in 0 .. calls
  /\ early \in BOOLEAN /\ aborted \in BOOLEAN

(* As long as the server runs, one payload waits for the next call,        *)
(* however many others are in the middle of theirs.                        *)
AlwaysListening ==
  server = "running" /\ ~aborted =>
    Cardinality({p \in Payloads : pc[p] \in {"requestHop", "listening"}}) = 1

(* Stopping touches no queue that was shut down, and when wait() returns   *)
(* no coroutine is left behind and every call that was accepted has its    *)
(* answer; unless stop() overtook the first request.                       *)
StopsClean ==
  ~early => /\ ~aborted
            /\ control = "waited" => events = {} /\ Free = Payloads /\ answers = calls

(* As many calls as were accepted are answered in the end, also if a       *)
(* client cancels its call or the runtime is stopped meanwhile.            *)
CallsAreAnswered ==
  \A n \in 1 .. MaxCalls : calls >= n ~> answers >= n \/ early

=============================================================================
