---------------------------- MODULE Coroutines ----------------------------
(***************************************************************************)
(* concurrency/task, channel, generator, future_result and utility/detail/ *)
(* promise_base: how the coroutines of one chain of calls pass values and  *)
(* errors.  Frame 0 is the Future (or OneWayTask) at the bottom; frame     *)
(* i + 1 is what frame i awaits or iterates over.  An error does not       *)
(* unwind the frames it passes: it climbs through the promises, and the    *)
(* frame that asked to hear of it is the next one to run.                  *)
(***************************************************************************)
EXTENDS Integers

CONSTANT Depth          \* bound: frames above the bottom one

ASSUME DepthAssumption == Depth \in Nat

VARIABLES
  cur,          \* the frame that runs
  top,          \* the youngest frame that exists
  frame,        \* frame[i] : the promise of frame i
  outcome       \* outcome[i] : what has become of the call, in truth

vars == <<cur, top, frame, outcome>>

Frames == 0..Depth

(* kind is the return type of the coroutine and how its consumer awaits    *)
(* it; the other fields are those of the promise and its continuation      *)
(* holder: _can_propagete, _need_rethrow, _result, _value_ptr # nullptr;   *)
(* and whether the coroutine is at its final suspension point.             *)
Frame == [kind : {"future", "task", "channel", "generator"},
          how  : {"plain", "wrapped", "iterate"},
          can  : BOOLEAN, need : BOOLEAN,
          res  : {"none", "value", "error"},
          item : BOOLEAN, done : BOOLEAN]

(* GeneratorPromise and FuturePromise pass no error on. *)
Fresh(k, h) == [kind |-> k, how |-> h, can |-> FALSE, need |-> TRUE,
                res |-> "none", item |-> FALSE, done |-> FALSE]
NoFrame     == Fresh("future", "wrapped")

Init ==
  /\ cur = 0
  /\ top = 0
  /\ frame = [i \in Frames |-> NoFrame]
  /\ outcome = [i \in Frames |-> "running"]

(* set_continuation() of a task or channel f that frame p awaits: whether  *)
(* the promise of p takes errors, and whether it wants them rethrown.      *)
Continued_Wrapped(f, p) ==
  LET takes == frame[p].kind \in {"task", "channel"}
  IN  [f EXCEPT !.can = takes, !.need = takes => frame[p].kind = "channel" /\ ~frame[p].can]
Continued(f, p) ==
  LET takes == f.how # "wrapped" /\ frame[p].kind \in {"task", "channel"}
  IN  IF f.kind = "generator" THEN f
      ELSE [f EXCEPT !.can  = takes,
                     !.need = takes => frame[p].kind = "channel" /\ ~frame[p].can]

(* The frame at or below i whose promise does not pass errors on, the      *)
(* frames through which an error of frame i climbs to it, and the promises *)
(* after that.                                                             *)
Last(i)    == CHOOSE j \in 0..i : ~frame[j].can /\ \A k \in (j + 1)..i : frame[k].can
Climbed(i) == Last(i)..i
AfterError(i) ==
  [k \in Frames |-> IF k \in Climbed(i) /\ frame[k].need
                    THEN [frame[k] EXCEPT !.res = "error"] ELSE frame[k]]
Failed(i) == [k \in Frames |-> IF k \in Climbed(i) THEN "failed" ELSE outcome[k]]

(* Frame `cur` ends, or lets go of what it has called: all above it is     *)
(* destroyed.                                                              *)
Kept(f)    == [k \in Frames |-> IF k > cur THEN NoFrame ELSE f[k]]
KeptOut(o) == [k \in Frames |-> IF k > cur THEN "running" ELSE o[k]]
Running    == outcome[cur] = "running"
Below(i)   == IF i = 0 THEN 0 ELSE i - 1

-----------------------------------------------------------------------------
(* co_await of a new task, plainly or through wrapped() or when_ready(),   *)
(* or begin() of a channel or generator: the new coroutine runs at once.   *)
Launch(k, h) ==
  /\ Running /\ top = cur /\ cur < Depth /\ frame[cur].kind # "generator"
  /\ h = "iterate" <=> k \in {"channel", "generator"}
  /\ frame' = [frame EXCEPT ![cur + 1] = Continued(Fresh(k, h), cur)]
  /\ cur' = cur + 1 /\ top' = cur + 1
  /\ UNCHANGED outcome

(* How the iterator of a channel or generator tells the end. *)
Ended(i) ==
  IF frame[i].kind = "channel" THEN ~frame[i].item
  ELSE frame[i].done \/ frame[i].res = "error"

(* operator++ of the iterator: the producer goes on from its co_yield. *)
Advance ==
  LET i == cur + 1 IN
  /\ Running /\ top > cur /\ frame[i].how = "iterate" /\ ~Ended(i)
  /\ frame' = [frame EXCEPT ![i] = Continued([@ EXCEPT !.item = FALSE], cur)]
  /\ cur' = i
  /\ UNCHANGED <<top, outcome>>

(* co_yield: the consumer goes on. *)
Yield ==
  /\ frame[cur].kind \in {"channel", "generator"}
  /\ frame' = [frame EXCEPT ![cur].res = "value", ![cur].item = (@ \/ frame[cur].kind = "channel")]
  /\ cur' = cur - 1
  /\ UNCHANGED <<top, outcome>>

(* co_return, and the final suspension, which resumes the continuation. *)
Return_NoValue ==
  /\ Running
  /\ frame'   = [Kept(frame) EXCEPT ![cur].done = TRUE]
  /\ outcome' = [KeptOut(outcome) EXCEPT ![cur] = "returned"]
  /\ cur' = Below(cur) /\ top' = cur
Return ==
  /\ Running
  /\ frame'   = [Kept(frame) EXCEPT
                   ![cur].done = TRUE,
                   ![cur].res = IF frame[cur].kind \in {"task", "future"} THEN "value" ELSE @]
  /\ outcome' = [KeptOut(outcome) EXCEPT ![cur] = "returned"]
  /\ cur' = Below(cur) /\ top' = cur

(* co_await of a Result that holds an error: the frame stays suspended     *)
(* there, and the frame below the last promise of the climb is resumed.    *)
(* In the bottom frame such an await throws.                               *)
FailAwait ==
  /\ Running /\ cur > 0
  /\ frame'   = AfterError(cur)
  /\ outcome' = Failed(cur)
  /\ cur'     = Last(cur) - 1
  /\ UNCHANGED top

(* An exception leaves the body: unhandled_exception(), then the final     *)
(* suspension.  The error climbs as before; but the frame that is resumed  *)
(* is the direct continuation when its promise wants the error rethrown.   *)
Throw_KeepsContinuation ==
  /\ Running
  /\ frame'   = [Kept(AfterError(cur)) EXCEPT ![cur].done = TRUE]
  /\ outcome' = KeptOut(Failed(cur))
  /\ cur' = Below(cur) /\ top' = cur
Throw ==
  LET rethrown == frame[cur].can /\ frame[cur].need IN
  /\ Running
  /\ frame'   = [Kept(AfterError(cur)) EXCEPT ![cur].done = TRUE]
  /\ outcome' = KeptOut(IF rethrown THEN [outcome EXCEPT ![cur] = "failed"] ELSE Failed(cur))
  /\ cur'     = IF rethrown THEN cur - 1 ELSE Below(Last(cur))
  /\ top'     = cur

(* The Task, Channel or Generator that the running frame holds goes out of *)
(* scope.                                                                  *)
Drop ==
  /\ Running /\ top > cur
  /\ frame' = Kept(frame) /\ outcome' = KeptOut(outcome)
  /\ top' = cur
  /\ UNCHANGED cur

Next ==
  \/ \E k \in {"task", "channel", "generator"}, h \in {"plain", "wrapped", "iterate"} : Launch(k, h)
  \/ Advance \/ Yield \/ Return \/ FailAwait \/ Throw \/ Drop

Spec == Init /\ [][Next]_vars

-----------------------------------------------------------------------------
FrameTypeOK ==
  /\ cur \in Frames /\ top \in Frames /\ cur <= top
  /\ frame \in [Frames -> Frame]
  /\ outcome \in [Frames -> {"running", "returned", "failed"}]

(* A coroutine that has returned, or in which an error was raised or       *)
(* through which one has climbed, is never resumed: none of its code runs  *)
(* again, whichever of the two ways the error took.                        *)
FailedNeverResumed ==
  \A i \in Frames : i <= cur /\ cur > 0 => outcome[i] = "running"

(* A frame that goes on after what it called finds there what happened: a  *)
(* result if the call returned, the error if it failed, though the error   *)
(* was raised many frames above; and an iteration over a channel or        *)
(* generator ends exactly when the producer has ended.                     *)
ReportsOutcome ==
  LET i == cur + 1 IN
  top > cur =>
    /\ outcome[i] = "failed" => frame[i].res = "error"
    /\ frame[i].how # "iterate" =>
         outcome[i] # "running" /\ (outcome[i] = "returned" => frame[i].res = "value")
    /\ frame[i].how = "iterate" => (Ended(i) <=> outcome[i] # "running")

(* An error stops where somebody asked for it: a step of a frame above     *)
(* never fails a frame that awaits with wrapped() or when_ready(), nor the *)
(* future at the bottom.                                                   *)
WrappedContains ==
  [][\A i \in Frames : i < cur /\ outcome[i] # outcome'[i] =>
       i > 0 /\ frame[i + 1].how # "wrapped"]_vars

=============================================================================
