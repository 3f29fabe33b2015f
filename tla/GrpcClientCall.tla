-------------------------- MODULE GrpcClientCall --------------------------
(***************************************************************************)
(* One call of a generated gRPC client (compiler/support/                  *)
(* grpc_client_support.hpp): the control object of a unary, a server       *)
(* streaming or a client streaming call with its one completion tag.       *)
(*                                                                         *)
(* The coroutine `call' is do_task() or do_channel(); every other one is   *)
(* an invocation of finish() or release().  All of them hand operations to *)
(* gRPC under the same tag and suspend on it, and the tag remembers one    *)
(* handle, that of the last to suspend.  What the code counts on, and does *)
(* not enforce, is in `misuse': that no two of them are under way at once, *)
(* and so on.  The model goes on past a misuse, up to the abort or to the  *)
(* resumption of the wrong coroutine that it may cause.                    *)
(***************************************************************************)
EXTENDS Naturals, FiniteSets

CONSTANTS
  Enders,         \* invocations of finish() or release()
  call,           \* the coroutine of do_task() or do_channel()
  nobody,
  MaxMessages     \* bound: how often `call' is started or resumed by its user

(* What the constants are. *)
ClientAssumption ==
  call \notin Enders /\ nobody \notin Enders \cup {call} /\ MaxMessages \in Nat

VARIABLES
  kind,           \* "unary", "reader" (server streaming) or "writer"
  pc,             \* where each coroutine is
  last,           \* the operation each coroutine last waited for, Finish apart
  outcome,        \* what each coroutine has reported
  isStarted, isFinished, finishSts,          \* the members of the control
  handle,         \* GrpcQueueTag::_handle
  resumed,        \* the completion the queue thread is about to act on
  inflight,       \* the operations gRPC has, with who asked for them
  called,         \* the operations gRPC was given so far
  status,         \* how the call really ended
  messages,       \* how often the user has resumed `call'
  held,           \* the client still refers to the control
  misuse,         \* what the users have done that the code does not provide for
  aborted, confused   \* gRPC aborted; a coroutine was resumed that did not wait

vars == <<kind, pc, last, outcome, isStarted, isFinished, finishSts, handle,
          resumed, inflight, called, status, messages, held, misuse,
          aborted, confused>>

Coroutines == Enders \cup {call}
Operations == {"start", "read", "write", "writesDone", "finish"}
Nothing    == [by |-> nobody, ok |-> FALSE]

Busy(c) == pc[c] \in {"hop", "step", "statusHop", "statusStep"}
Running == ~aborted /\ ~confused
OnQueueThread == Running /\ resumed = Nothing
-----------------------------------------------------------------------------
(* What gRPC aborts on, or what reaches a null _reader.                    *)
Rejected(o) ==
  \/ kind # "unary" /\ o # "start" /\ "start" \notin called
  \/ o \in {"start", "finish"} \cap called
  \/ o = "write" /\ "writesDone" \in called

(* Handing o to gRPC under the tag and suspending in step().               *)
Step(c, o) ==
  /\ inflight' = inflight \cup {[op |-> o, by |-> c]}
  /\ called'   = called \cup {o}
  /\ aborted'  = Rejected(o)
  /\ handle'   = c

NoStep == UNCHANGED <<inflight, called, aborted, handle>>

End(c, result) ==
  /\ pc'      = [pc EXCEPT ![c] = "done"]
  /\ outcome' = [outcome EXCEPT ![c] = result]

Report_CachedIsOk(c, sts) ==
  IF c \in Enders \/ last[c] = "read" THEN "ok"
  ELSE IF sts = "error" THEN "error" ELSE "cancelled"

(* What follows read_finish_status(), given what it found.                 *)
Report(c, sts) ==
  IF sts = "error" THEN "error"
  ELSE IF c \in Enders \/ last[c] = "read" THEN "ok"
  ELSE "cancelled"

ReadFinishStatus_NoCache(c) ==
  /\ finishSts' = "ok"
  /\ Step(c, "finish")
  /\ pc' = [pc EXCEPT ![c] = "statusStep"]
  /\ UNCHANGED outcome

(* read_finish_status() on the queue thread.  The status that is there     *)
(* before Finish has completed is an OK that stands in for it.             *)
ReadFinishStatus(c) ==
  IF finishSts # "none"
  THEN End(c, Report(c, finishSts)) /\ NoStep /\ UNCHANGED finishSts
  ELSE /\ finishSts' = "ok"
       /\ Step(c, "finish")
       /\ pc' = [pc EXCEPT ![c] = "statusStep"]
       /\ UNCHANGED outcome

-----------------------------------------------------------------------------
Init ==
  /\ kind \in {"unary", "reader", "writer"}
  /\ pc = [c \in Coroutines |-> "idle"]
  /\ last = [c \in Coroutines |-> "none"]
  /\ outcome = [c \in Coroutines |-> "none"]
  /\ isStarted = FALSE /\ isFinished = FALSE /\ finishSts = "none"
  /\ handle = nobody /\ resumed = Nothing
  /\ inflight = {} /\ called = {} /\ status = "none"
  /\ messages = 0 /\ held = TRUE /\ misuse = {}
  /\ aborted = FALSE /\ confused = FALSE

Misuses(cond, name) == IF cond THEN {name} ELSE {}

(* The user starts or resumes the call: begins the unary task, asks the    *)
(* channel for the next message, or begins the task of the next message to *)
(* write.  The channel ends if finish() was called meanwhile.              *)
Continue ==
  /\ Running /\ messages < MaxMessages
  /\ \/ pc[call] \in {"idle", "yielded"}
     \/ pc[call] = "done" /\ kind = "writer"
  /\ messages' = messages + 1
  /\ misuse' = misuse
       \cup Misuses(\E c \in Enders : Busy(c), "overlap")
       \cup Misuses(kind = "writer" /\ isFinished, "late")
       \cup Misuses(pc[call] = "done", "retry")
       \cup Misuses(~held /\ ~isFinished, "unowned")
  /\ IF kind = "reader" /\ pc[call] = "yielded" /\ isFinished
     THEN End(call, "ok")
     ELSE pc' = [pc EXCEPT ![call] = "hop"] /\ UNCHANGED outcome
  /\ NoStep
  /\ UNCHANGED <<kind, last, isStarted, isFinished, finishSts, resumed, status,
                 held, confused>>

(* finish(), up to its first suspension.                                   *)
BeginFinish(c) ==
  /\ misuse' = misuse
       \cup Misuses(\E d \in Coroutines \ {c} : Busy(d), "overlap")
       \cup Misuses("start" \notin called, "early")
  /\ isFinished' = TRUE
  /\ IF isFinished
     THEN End(c, "not started")
     ELSE IF kind = "reader" /\ finishSts # "none"
     THEN End(c, Report(c, finishSts))
     ELSE /\ pc' = [pc EXCEPT ![c] = IF kind = "writer" THEN "hop" ELSE "statusHop"]
          /\ UNCHANGED outcome
  /\ NoStep
  /\ UNCHANGED <<kind, last, isStarted, finishSts, resumed, status, messages,
                 confused>>

Finish(c) ==
  /\ Running /\ kind # "unary" /\ held
  /\ pc[c] = "idle"
  /\ BeginFinish(c)
  /\ UNCHANGED held

Release_Inverted(c) ==
  /\ Running /\ kind # "unary" /\ held
  /\ pc[c] = "idle"
  /\ held' = FALSE
  /\ IF isFinished \/ ~isStarted
     THEN BeginFinish(c)
     ELSE /\ misuse' = misuse \cup Misuses(Busy(call), "overlap")
          /\ End(c, "nothing") /\ NoStep
          /\ UNCHANGED <<kind, last, isStarted, isFinished, finishSts, resumed,
                         status, messages, confused>>
-----------------------------------------------------------------------------
(* On the queue thread, after ensure_on(): the operation the coroutine     *)
(* came for.  A unary call is started together with its Finish.            *)
NextOperation(c) ==
  IF c \in Enders THEN "writesDone"
  ELSE IF kind = "unary" THEN "finish"
  ELSE IF ~isStarted THEN "start"
  ELSE IF kind = "reader" THEN "read" ELSE "write"

(* The client is destroyed or begins another call: release() finishes this *)
(* one, unless it is finished or has not begun.                            *)
Release(c) ==
  /\ Running /\ kind # "unary" /\ held
  /\ pc[c] = "idle"
  /\ held' = FALSE
  /\ IF ~isFinished /\ isStarted
     THEN BeginFinish(c)
     ELSE /\ misuse' = misuse \cup Misuses(Busy(call), "overlap")
          /\ End(c, "nothing") /\ NoStep
          /\ UNCHANGED <<kind, last, isStarted, isFinished, finishSts, resumed,
                         status, messages, confused>>

Hopped(c) ==
  /\ OnQueueThread /\ pc[c] = "hop"
  /\ Step(c, NextOperation(c))
  /\ last' = [last EXCEPT ![c] = NextOperation(c)]
  /\ pc' = [pc EXCEPT ![c] = "step"]
  /\ isStarted' = (isStarted \/ (kind = "reader" /\ c = call))
  /\ UNCHANGED <<kind, outcome, isFinished, finishSts, resumed, status, messages,
                 held, misuse, confused>>

HoppedForStatus(c) ==
  /\ OnQueueThread /\ pc[c] = "statusHop"
  /\ finishSts' = "ok"
  /\ Step(c, "finish")
  /\ pc' = [pc EXCEPT ![c] = "statusStep"]
  /\ UNCHANGED <<kind, last, outcome, isStarted, isFinished, resumed, status,
                 messages, held, misuse, confused>>

(* gRPC completes an operation; Finish always succeeds, and its completion *)
(* brings the status.  The queue thread takes the handle of the tag.       *)
Complete ==
  /\ OnQueueThread
  /\ \E e \in inflight :
       /\ inflight' = inflight \ {e}
       /\ \E ok \in IF e.op = "finish" THEN {TRUE} ELSE BOOLEAN :
            resumed' = [by |-> handle, ok |-> ok]
       /\ IF e.op = "finish"
          THEN \E s \in {"ok", "error"} : status' = s /\ finishSts' = s
          ELSE UNCHANGED <<status, finishSts>>
  /\ UNCHANGED <<kind, pc, last, outcome, isStarted, isFinished, handle, called,
                 messages, held, misuse, aborted, confused>>

(* The coroutine of the handle, resumed at its suspension in step(): the   *)
(* operation it waited for has failed, and step_checked() asks for the     *)
(* status; or finish() goes on to do so in any case.                       *)
StepFailed(c) ==
  /\ pc[c] = "step" /\ kind # "unary"
  /\ (~resumed.ok \/ last[c] = "writesDone")
  /\ ReadFinishStatus(c)
  /\ UNCHANGED <<last, isStarted, messages, confused>>

UnaryFinished(c) ==
  /\ pc[c] = "step" /\ kind = "unary"
  /\ End(c, IF resumed.ok THEN finishSts ELSE "cancelled")
  /\ NoStep
  /\ UNCHANGED <<last, isStarted, finishSts, messages, confused>>

(* The call has started: the channel reads its first message, unless it    *)
(* was finished meanwhile, and the task writes its own.                    *)
Started(c) ==
  /\ pc[c] = "step" /\ resumed.ok /\ last[c] = "start"
  /\ isStarted' = TRUE
  /\ LET o == IF kind = "reader" THEN "read" ELSE "write"
     IN  IF kind = "reader" /\ isFinished
         THEN End(c, "ok") /\ NoStep /\ UNCHANGED last
         ELSE /\ Step(c, o)
              /\ last' = [last EXCEPT ![c] = o]
              /\ UNCHANGED <<pc, outcome>>
  /\ UNCHANGED <<finishSts, messages, confused>>

(* A message was read, or written: co_yield, or the end of the task.       *)
Transferred(c) ==
  /\ pc[c] = "step" /\ resumed.ok /\ last[c] \in {"read", "write"}
  /\ pc' = [pc EXCEPT ![c] = "yielded"]
  /\ NoStep
  /\ UNCHANGED <<last, outcome, isStarted, finishSts, messages, confused>>

StatusRead(c) ==
  /\ pc[c] = "statusStep"
  /\ End(c, IF resumed.ok THEN Report(c, finishSts) ELSE "cancelled")
  /\ NoStep
  /\ UNCHANGED <<last, isStarted, finishSts, messages, confused>>

(* The coroutine of the handle does not wait for the tag.                  *)
Stray(c) ==
  /\ pc[c] \notin {"step", "statusStep"}
  /\ confused' = TRUE
  /\ NoStep
  /\ UNCHANGED <<pc, last, outcome, isStarted, finishSts, messages>>

Resume(c) ==
  /\ Running /\ resumed.by = c
  /\ resumed' = Nothing
  /\ \/ StepFailed(c) \/ UnaryFinished(c) \/ Started(c)
     \/ Transferred(c) \/ StatusRead(c) \/ Stray(c)
  /\ UNCHANGED <<kind, isFinished, status, held, misuse>>

QueueThread ==
  \/ Complete
  \/ \E c \in Coroutines : Hopped(c) \/ HoppedForStatus(c) \/ Resume(c)

Next ==
  \/ Continue
  \/ \E c \in Enders : Finish(c) \/ Release(c)
  \/ QueueThread

(* gRPC completes what it was given and the queue thread goes on; the      *)
(* users need not do anything.                                             *)
Fairness == WF_vars(Complete) /\ \A c \in Coroutines :
              WF_vars(Hopped(c)) /\ WF_vars(HoppedForStatus(c)) /\ WF_vars(Resume(c))

Spec == Init /\ [][Next]_vars /\ Fairness
-----------------------------------------------------------------------------
TypeOK ==
  /\ kind \in {"unary", "reader", "writer"}
  /\ pc \in [Coroutines -> {"idle", "hop", "step", "statusHop", "statusStep",
                            "yielded", "done"}]
  /\ last \in [Coroutines -> {"none"} \cup Operations]
  /\ outcome \in [Coroutines -> {"none", "ok", "error", "cancelled", "not started",
                                 "nothing"}]
  /\ isStarted \in BOOLEAN /\ isFinished \in BOOLEAN
  /\ finishSts \in {"none", "ok", "error"} /\ status \in {"none", "ok", "error"}
  /\ handle \in Coroutines \cup {nobody}
  /\ resumed \in [by : Coroutines \cup {nobody}, ok : BOOLEAN]
  /\ inflight \subseteq [op : Operations, by : Coroutines]
  /\ called \subseteq Operations
  /\ messages \in 0 .. MaxMessages /\ held \in BOOLEAN
  /\ misuse \subseteq {"overlap", "early", "late", "retry", "unowned"}
  /\ aborted \in BOOLEAN /\ confused \in BOOLEAN

(* The one tag is enough for users that do one thing at a time: unless     *)
(* finish() or release() overlapped something, came before the call had    *)
(* started, or a write came after its end, gRPC has at most one operation  *)
(* of the call, never aborts, and every coroutine is resumed by the        *)
(* completion of its own operation.                                        *)
OnlyMisuseBreaks ==
  misuse = {} =>
    /\ ~aborted /\ ~confused
    /\ Cardinality(inflight) <= 1
    /\ \A e \in inflight : e.by = handle /\ pc[e.by] \in {"step", "statusStep"}

(* What a coroutine reports of the status is how the call ended, never the *)
(* OK that stood in for it, and however many of them ask.                  *)
TruthfulStatus ==
  misuse = {} => \A c \in Coroutines :
    /\ outcome[c] = "error" => status = "error"
    /\ outcome[c] = "ok" /\ (c \in Enders \/ ~isFinished) => status = "ok"

(* A call that has begun is brought to its end when the client lets go of  *)
(* it, also in the middle of a stream.                                     *)
ReleasedIsFinished ==
  ~held /\ "start" \in called ~> status # "none" \/ misuse # {}

=============================================================================
