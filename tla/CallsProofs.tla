---------------------------- MODULE CallsProofs ----------------------------
(***************************************************************************)
(* The components of MCRpc, for all values of their constants.             *)
(*                                                                         *)
(* Coroutines, for chains of calls of any depth: an error reaches whoever  *)
(* asked to hear of it, stops there, and never runs again what it passed.  *)
(*                                                                         *)
(* GrpcClientCall, for any coroutines that end the call: users that do one *)
(* thing at a time are served as they expect, and the status they are told *)
(* is that of the call.                                                    *)
(*                                                                         *)
(* GrpcServerCalls, for any payloads: a running service listens for the    *)
(* next call, and a service that has stopped has left nothing behind.      *)
(***************************************************************************)
EXTENDS MCRpc, WellFoundedInduction, FiniteSetTheorems, TLAPS

(* Only coroutines that may take errors have promises that pass them on;   *)
(* the others want them rethrown.                                          *)
Linked ==
  /\ frame[0].kind = "future" /\ ~frame[0].can
  /\ \A i \in 1..top :
       /\ frame[i].kind # "future"
       /\ frame[i].how = "iterate" <=> frame[i].kind \in {"channel", "generator"}
       /\ frame[i].can => i > 1 /\ frame[i].how # "wrapped" /\ frame[i].kind # "generator"
       /\ ~frame[i].can => frame[i].need

(* What runs, or waits for what runs, has neither ended nor yielded.       *)
Active ==
  /\ \A i \in 1..cur : ~frame[i].item
  /\ \A i \in 1..top : frame[i].done => outcome[i] # "running"
  /\ \A i \in Frames : i > top => outcome[i] = "running"
  /\ cur = 0 /\ outcome[0] # "running" => top = 0

(* What the frame below i finds.                                           *)
Reports(i) ==
  /\ outcome[i] = "failed" => frame[i].res = "error"
  /\ frame[i].how # "iterate" =>
       outcome[i] # "running" /\ (outcome[i] = "returned" => frame[i].res = "value")
  /\ frame[i].how = "iterate" => (Ended(i) <=> outcome[i] # "running")

(* ReportsOutcome, for every frame that may yet go on.                     *)
AllReport ==
  \A i \in 1..top : i > cur /\ outcome[i - 1] = "running" => Reports(i)

IInv == FrameTypeOK /\ FailedNeverResumed /\ Linked /\ Active /\ AllReport

-----------------------------------------------------------------------------
(* The error climbs *)

LEMMA Least ==
  ASSUME NEW T, T \subseteq Nat, T # {}
  PROVE  \E x \in T : \A y \in T : x <= y
<1> DEFINE R == OpToRel(<, Nat)
<1>1. IsWellFoundedOn(R, Nat)
  BY NatLessThanWellFounded
<1>2. \A x, y \in Nat : <<y, x>> \in R <=> y < x
  BY DEF OpToRel
<1> HIDE DEF R
<1>3. PICK x \in T : \A y \in T : ~ (<<y, x>> \in R)
  BY <1>1, WFMin
<1>4. x \in Nat /\ \A y \in T : y \in Nat /\ ~ (y < x)
  BY <1>2, <1>3
<1>5. QED
  BY <1>4

LEMMA Greatest ==
  ASSUME NEW n \in Nat, NEW T, T \subseteq 0..n, T # {}
  PROVE  \E x \in T : \A y \in T : y <= x
<1> DEFINE U == {n - y : y \in T}
<1>1. U \subseteq Nat /\ U # {}
  <2>1. \A y \in T : y \in Int /\ n - y \in Nat
    OBVIOUS
  <2>2. QED
    BY <2>1
<1>2. PICK u \in U : \A v \in U : u <= v
  BY <1>1, Least
<1>3. PICK x \in T : u = n - x
  BY <1>2
<1>4. ASSUME NEW y \in T PROVE y <= x
  <2>1. u <= n - y
    BY <1>2
  <2>2. QED
    BY <1>3, <2>1
<1>5. QED
  BY <1>4

(* The climb from i ends at a frame above the bottom one, which does not   *)
(* pass errors on, and all frames it has passed do.                        *)
LEMMA Climb ==
  ASSUME IInv, NEW i \in 0..cur
  PROVE  /\ Last(i) \in 0..i
         /\ ~frame[Last(i)].can
         /\ \A k \in (Last(i) + 1)..i : frame[k].can
         /\ i > 0 => Last(i) > 0
         /\ Last(i) > 0 => frame[Last(i)].need
<1>1. i \in Nat /\ cur \in Nat /\ top \in Nat /\ cur <= top
  BY DEF IInv, FrameTypeOK, Frames
<1> DEFINE T == {j \in 0..i : ~frame[j].can}
<1>2. 0 \in T
  BY <1>1 DEF IInv, Linked
<1>3. PICK j \in T : \A k \in T : k <= j
  BY <1>1, <1>2, Greatest
<1>4. j \in 0..i /\ ~frame[j].can /\ \A k \in (j + 1)..i : frame[k].can
  BY <1>1, <1>3
<1>5. /\ Last(i) \in 0..i /\ ~frame[Last(i)].can
      /\ \A k \in (Last(i) + 1)..i : frame[k].can
  BY <1>4 DEF Last
<1>6. i > 0 => Last(i) > 0
  <2>1. i > 0 => ~frame[1].can
    BY <1>1 DEF IInv, Linked
  <2>2. QED
    BY <1>1, <1>5, <2>1
<1>7. Last(i) > 0 => frame[Last(i)].need
  BY <1>1, <1>5 DEF IInv, Linked
<1>8. QED
  BY <1>5, <1>6, <1>7

(* What an error leaves in the promises and in the calls.                  *)
LEMMA ErrorMarks ==
  ASSUME IInv, NEW i \in 0..cur
  PROVE  /\ AfterError(i) \in [Frames -> Frame]
         /\ Failed(i) \in [Frames -> {"running", "returned", "failed"}]
         /\ \A k \in Frames :
              /\ AfterError(i)[k].kind = frame[k].kind /\ AfterError(i)[k].how = frame[k].how
              /\ AfterError(i)[k].can = frame[k].can /\ AfterError(i)[k].need = frame[k].need
              /\ AfterError(i)[k].item = frame[k].item /\ AfterError(i)[k].done = frame[k].done
         /\ \A k \in Frames : k \in Last(i)..i /\ frame[k].need => AfterError(i)[k].res = "error"
         /\ \A k \in Frames : k \notin Last(i)..i => AfterError(i)[k] = frame[k]
         /\ \A k \in Frames : Failed(i)[k] = IF k \in Last(i)..i THEN "failed" ELSE outcome[k]
BY DEF IInv, FrameTypeOK, AfterError, Failed, Climbed, Frame

-----------------------------------------------------------------------------
LEMMA InitIInv == Init => IInv
<1> SUFFICES ASSUME Init PROVE IInv
  OBVIOUS
<1>1. FrameTypeOK
  BY DepthAssumption DEF Init, FrameTypeOK, Frames, Frame, NoFrame, Fresh
<1>2. FailedNeverResumed /\ Linked /\ Active /\ AllReport
  BY DepthAssumption DEF Init, FailedNeverResumed, Linked, Active, AllReport, Frames,
     NoFrame, Fresh
<1>3. QED
  BY <1>1, <1>2 DEF IInv

(* The promise of a new coroutine, and of one that goes on.                *)
LEMMA ContinuedLinks ==
  ASSUME IInv, NEW f \in Frame, f.kind # "future",
         f.kind = "generator" => ~f.can /\ f.need
  PROVE  LET g == Continued(f, cur) IN
         /\ g \in Frame /\ g.kind = f.kind /\ g.how = f.how /\ g.res = f.res
         /\ g.item = f.item /\ g.done = f.done
         /\ g.can => cur > 0 /\ g.how # "wrapped" /\ g.kind # "generator"
         /\ ~g.can => g.need
<1>1. cur \in Frames /\ cur \in Nat /\ frame[cur] \in Frame
  BY DEF IInv, FrameTypeOK, Frames
<1>2. frame[cur].kind \in {"task", "channel"} => cur > 0
  BY <1>1 DEF IInv, Linked
<1>3. CASE f.kind = "generator"
  BY <1>3 DEF Continued
<1>4. CASE f.kind # "generator"
  BY <1>1, <1>2, <1>4 DEF Continued, Frame
<1>5. QED
  BY <1>3, <1>4

LEMMA LaunchIInv ==
  ASSUME IInv, NEW k \in {"task", "channel", "generator"},
         NEW h \in {"plain", "wrapped", "iterate"}, Launch(k, h)
  PROVE  IInv'
<1> DEFINE g == Continued(Fresh(k, h), cur)
<1>1. /\ cur \in Frames /\ top = cur /\ cur < Depth /\ cur \in Nat
      /\ cur' = cur + 1 /\ top' = cur + 1 /\ outcome' = outcome
      /\ frame' = [frame EXCEPT ![cur + 1] = g] /\ cur + 1 \in Frames
      /\ Running /\ (h = "iterate" <=> k \in {"channel", "generator"})
  BY DepthAssumption DEF IInv, FrameTypeOK, Frames, Launch
<1>2. /\ Fresh(k, h) \in Frame /\ Fresh(k, h).kind = k /\ Fresh(k, h).how = h
      /\ ~Fresh(k, h).can /\ Fresh(k, h).need /\ ~Fresh(k, h).item /\ ~Fresh(k, h).done
  BY DEF Fresh, Frame
<1>3. /\ g \in Frame /\ g.kind = k /\ g.how = h /\ ~g.item /\ ~g.done
      /\ g.can => cur > 0 /\ g.how # "wrapped" /\ g.kind # "generator"
      /\ ~g.can => g.need
  BY <1>2, ContinuedLinks
<1> HIDE DEF g
<1>4. /\ frame'[cur + 1] = g
      /\ \A i \in Frames : i # cur + 1 => frame'[i] = frame[i]
  BY <1>1 DEF IInv, FrameTypeOK
<1>5. FrameTypeOK'
  BY <1>1, <1>3 DEF IInv, FrameTypeOK, Frames
<1>6. FailedNeverResumed'
  BY <1>1 DEF IInv, FailedNeverResumed, Active, Running, Frames
<1>7. Linked'
  BY <1>1, <1>3, <1>4 DEF IInv, Linked, Frames
<1>8. Active'
  BY <1>1, <1>3, <1>4 DEF IInv, Active, Frames
<1>9. AllReport'
  BY <1>1 DEF AllReport
<1>10. QED
  BY <1>5, <1>6, <1>7, <1>8, <1>9 DEF IInv

LEMMA AdvanceIInv == IInv /\ Advance => IInv'
<1> SUFFICES ASSUME IInv, Advance PROVE IInv'
  OBVIOUS
<1> DEFINE i == cur + 1
           f == [frame[i] EXCEPT !.item = FALSE]
           g == Continued(f, cur)
<1>1. /\ cur \in Nat /\ i \in Frames /\ i \in 1..top /\ top \in Frames
      /\ cur' = i /\ top' = top /\ outcome' = outcome
      /\ frame' = [frame EXCEPT ![i] = g]
      /\ Running /\ frame[i].how = "iterate" /\ ~Ended(i)
  <2>1. cur \in Nat /\ i \in Frames /\ i \in 1..top /\ top \in Frames
    BY DepthAssumption DEF IInv, FrameTypeOK, Frames, Advance
  <2>2. QED
    BY <2>1 DEF Advance
<1>2. outcome[i] = "running"
  <2>1. Reports(i)
    BY <1>1 DEF IInv, AllReport, Running
  <2>2. QED
    BY <1>1, <2>1 DEF Reports
<1>3. /\ f \in Frame /\ f.kind = frame[i].kind /\ f.how = frame[i].how
      /\ f.can = frame[i].can /\ f.need = frame[i].need /\ ~f.item
      /\ f.done = frame[i].done
  <2>1. frame[i] \in Frame
    BY <1>1 DEF IInv, FrameTypeOK
  <2>2. QED
    BY <2>1 DEF Frame
<1>4. f.kind # "future" /\ (f.kind = "generator" => ~f.can /\ f.need)
  BY <1>1, <1>3 DEF IInv, Linked
<1>5. /\ g \in Frame /\ g.kind = f.kind /\ g.how = f.how /\ ~g.item /\ g.done = f.done
      /\ g.can => cur > 0 /\ g.how # "wrapped" /\ g.kind # "generator"
      /\ ~g.can => g.need
  BY <1>3, <1>4, ContinuedLinks
<1> HIDE DEF f, g
<1>6. /\ frame'[i] = g
      /\ \A j \in Frames : j # i => frame'[j] = frame[j]
  BY <1>1 DEF IInv, FrameTypeOK
<1>7. FrameTypeOK'
  BY <1>1, <1>5 DEF IInv, FrameTypeOK, Frames
<1>8. FailedNeverResumed'
  BY <1>1, <1>2 DEF IInv, FailedNeverResumed, Running, Frames, FrameTypeOK
<1>9. Linked'
  BY <1>1, <1>3, <1>5, <1>6 DEF IInv, Linked, Frames
<1>10. Active'
  BY <1>1, <1>2, <1>3, <1>5, <1>6 DEF IInv, Active, Frames
<1>11. AllReport'
  BY <1>1, <1>6 DEF IInv, AllReport, Reports, Ended, Frames
<1>12. QED
  BY <1>7, <1>8, <1>9, <1>10, <1>11 DEF IInv

LEMMA YieldIInv == IInv /\ Yield => IInv'
<1> SUFFICES ASSUME IInv, Yield PROVE IInv'
  OBVIOUS
<1>1. /\ cur \in 1..top /\ top \in Frames /\ cur \in Nat /\ Depth \in Nat
      /\ cur' = cur - 1 /\ top' = top /\ outcome' = outcome
      /\ frame[cur].kind \in {"channel", "generator"} /\ frame[cur].how = "iterate"
      /\ outcome[cur] = "running" /\ outcome[cur - 1] = "running"
      /\ ~frame[cur].done
  BY DepthAssumption DEF IInv, FrameTypeOK, Linked, Active, FailedNeverResumed, Frames, Yield
<1> DEFINE it == frame[cur].item \/ frame[cur].kind = "channel"
           g  == [frame[cur] EXCEPT !.res = "value", !.item = it]
<1>2. /\ frame' \in [Frames -> Frame]
      /\ \A i \in Frames :
           /\ i # cur => frame'[i] = frame[i]
           /\ frame'[i].kind = frame[i].kind /\ frame'[i].how = frame[i].how
           /\ frame'[i].can = frame[i].can /\ frame'[i].need = frame[i].need
           /\ frame'[i].done = frame[i].done
      /\ frame'[cur].res = "value"
      /\ frame[cur].kind = "channel" => frame'[cur].item
  <2>1. /\ frame \in [Frames -> Frame] /\ cur \in Frames
        /\ frame' = [frame EXCEPT ![cur] = g]
    BY <1>1 DEF IInv, FrameTypeOK, Yield
  <2>2. it \in BOOLEAN
    OBVIOUS
  <2> HIDE DEF it
  <2>3. /\ g \in Frame /\ g.kind = frame[cur].kind /\ g.how = frame[cur].how
        /\ g.can = frame[cur].can /\ g.need = frame[cur].need /\ g.done = frame[cur].done
        /\ g.res = "value" /\ g.item = it
    BY <2>1, <2>2 DEF Frame
  <2> HIDE DEF g
  <2>4. /\ frame' \in [Frames -> Frame] /\ frame'[cur] = g
        /\ \A i \in Frames : i # cur => frame'[i] = frame[i]
    BY <2>1, <2>3
  <2>5. QED
    BY <2>1, <2>3, <2>4 DEF it
<1> HIDE DEF g, it
<1>3. FrameTypeOK'
  BY <1>1, <1>2 DEF IInv, FrameTypeOK, Frames
<1>4. FailedNeverResumed'
  BY <1>1 DEF IInv, FailedNeverResumed, Frames
<1>5. Linked' /\ Active'
  BY <1>1, <1>2 DEF IInv, Linked, Active, Frames
<1>6. AllReport'
  <2> SUFFICES ASSUME NEW i \in cur..top, outcome[i - 1] = "running"
               PROVE  Reports(i)'
    BY <1>1 DEF AllReport
  <2>1. CASE i = cur
    <3>1. ~Ended(i)'
      BY <1>1, <1>2, <2>1 DEF Ended, Frames
    <3>2. QED
      BY <1>1, <1>2, <2>1, <3>1 DEF Reports, Frames
  <2>2. CASE i # cur
    <3>1. Reports(i) /\ frame'[i] = frame[i]
      BY <1>1, <1>2, <2>2 DEF IInv, AllReport, Frames
    <3>2. QED
      BY <1>1, <3>1 DEF Reports, Ended
  <2>3. QED
    BY <2>1, <2>2
<1>7. QED
  BY <1>3, <1>4, <1>5, <1>6 DEF IInv

(* A frame returns: what is above it is destroyed.                         *)
LEMMA ReturnIInv == IInv /\ Return => IInv'
<1> SUFFICES ASSUME IInv, Return PROVE IInv'
  OBVIOUS
<1>1. /\ cur \in 0..top /\ top \in Frames /\ cur \in Nat /\ Depth \in Nat /\ cur \in Frames
      /\ Running /\ cur' = Below(cur) /\ top' = cur /\ cur' \in Frames
      /\ cur > 0 => cur' = cur - 1
      /\ cur = 0 => cur' = 0
  BY DepthAssumption DEF IInv, FrameTypeOK, Frames, Return, Below
<1> DEFINE r == IF frame[cur].kind \in {"task", "future"} THEN "value" ELSE frame[cur].res
           g == [frame[cur] EXCEPT !.done = TRUE, !.res = r]
<1>2. /\ frame' \in [Frames -> Frame]
      /\ \A i \in Frames : i < cur => frame'[i] = frame[i]
      /\ frame'[cur].kind = frame[cur].kind /\ frame'[cur].how = frame[cur].how
      /\ frame'[cur].can = frame[cur].can /\ frame'[cur].need = frame[cur].need
      /\ frame'[cur].item = frame[cur].item /\ frame'[cur].done
      /\ frame[cur].kind = "task" => frame'[cur].res = "value"
  <2>1. /\ frame \in [Frames -> Frame] /\ cur \in Frames
        /\ Kept(frame) \in [Frames -> Frame] /\ Kept(frame)[cur] = frame[cur]
        /\ \A i \in Frames : i < cur => Kept(frame)[i] = frame[i]
    BY <1>1 DEF IInv, FrameTypeOK, Kept, NoFrame, Fresh, Frame, Frames
  <2>2. frame' = [Kept(frame) EXCEPT ![cur] = g]
    BY <2>1 DEF Return
  <2>3. /\ g \in Frame /\ g.kind = frame[cur].kind /\ g.how = frame[cur].how
        /\ g.can = frame[cur].can /\ g.need = frame[cur].need /\ g.item = frame[cur].item
        /\ g.done /\ g.res = r
    BY <2>1, ZenonT(40) DEF Frame
  <2> HIDE DEF g
  <2>4. QED
    BY <1>1, <2>1, <2>2, <2>3
<1> HIDE DEF g, r
<1>3. /\ outcome' \in [Frames -> {"running", "returned", "failed"}]
      /\ \A i \in Frames : i < cur => outcome'[i] = outcome[i]
      /\ \A i \in Frames : i > cur => outcome'[i] = "running"
      /\ outcome'[cur] = "returned"
  BY <1>1 DEF IInv, FrameTypeOK, Return, KeptOut, Frames
<1>4. FrameTypeOK'
  BY <1>1, <1>2, <1>3 DEF FrameTypeOK, Frames
<1>5. FailedNeverResumed'
  BY <1>1, <1>3 DEF IInv, FailedNeverResumed, Frames
<1>6. Linked'
  <2>1. frame'[0].kind = "future" /\ ~frame'[0].can
    BY <1>1, <1>2 DEF IInv, Linked, Frames
  <2>2. QED
    BY <1>1, <1>2, <2>1 DEF IInv, Linked, Frames
<1>7. Active'
  <2>1. \A i \in 1..cur' : ~frame'[i].item
    BY <1>1, <1>2 DEF IInv, Active, Frames
  <2>2. \A i \in 1..top' : frame'[i].done => outcome'[i] # "running"
    BY <1>1, <1>2, <1>3 DEF IInv, Active, Frames
  <2>3. cur' = 0 /\ outcome'[0] # "running" => top' = 0
    BY <1>1, <1>3 DEF IInv, FailedNeverResumed, Frames
  <2>4. QED
    BY <1>1, <1>3, <2>1, <2>2, <2>3 DEF Active
<1>8. AllReport'
  <2> SUFFICES ASSUME NEW i \in 1..top, i = cur
               PROVE  Reports(i)'
    BY <1>1 DEF AllReport, Frames
  <2>1. ~frame[i].item
    BY <1>1 DEF IInv, Active
  <2>2. /\ frame[i].kind # "future" /\ frame[i].kind \in {"future", "task", "channel", "generator"}
        /\ frame[i].how = "iterate" <=> frame[i].kind \in {"channel", "generator"}
    BY <1>1 DEF IInv, Linked, FrameTypeOK, Frame
  <2>3. /\ frame'[i].kind = frame[i].kind /\ frame'[i].how = frame[i].how
        /\ ~frame'[i].item /\ frame'[i].done /\ outcome'[i] = "returned"
        /\ frame[i].kind = "task" => frame'[i].res = "value"
    BY <1>2, <1>3, <2>1
  <2>4. QED
    BY <2>2, <2>3 DEF Reports, Ended
<1>9. QED
  BY <1>4, <1>5, <1>6, <1>7, <1>8 DEF IInv

LEMMA FailAwaitIInv == IInv /\ FailAwait => IInv'
<1> SUFFICES ASSUME IInv, FailAwait PROVE IInv'
  OBVIOUS
<1> DEFINE l == Last(cur)
<1>1. /\ cur \in 1..top /\ top \in Frames /\ cur \in Nat /\ Depth \in Nat /\ cur \in Frames
      /\ cur' = l - 1 /\ top' = top
      /\ frame' = AfterError(cur) /\ outcome' = Failed(cur)
  BY DepthAssumption DEF IInv, FrameTypeOK, Frames, FailAwait
<1>2. l \in 1..cur /\ ~frame[l].can /\ frame[l].need
  BY <1>1, Climb
<1>3. /\ frame' \in [Frames -> Frame]
      /\ outcome' \in [Frames -> {"running", "returned", "failed"}]
      /\ \A k \in Frames :
              /\ frame'[k].kind = frame[k].kind /\ frame'[k].how = frame[k].how
              /\ frame'[k].can = frame[k].can /\ frame'[k].need = frame[k].need
              /\ frame'[k].item = frame[k].item /\ frame'[k].done = frame[k].done
      /\ frame'[l].res = "error"
      /\ \A k \in Frames : k \notin l..cur => frame'[k] = frame[k]
      /\ \A k \in Frames : outcome'[k] = IF k \in l..cur THEN "failed" ELSE outcome[k]
  BY <1>1, <1>2, ErrorMarks DEF Frames
<1> HIDE DEF l
<1>4. FrameTypeOK'
  BY <1>1, <1>2, <1>3 DEF FrameTypeOK, Frames
<1>5. FailedNeverResumed'
  BY <1>1, <1>2, <1>3 DEF IInv, FailedNeverResumed, Frames
<1>6. Linked' /\ Active'
  BY <1>1, <1>2, <1>3 DEF IInv, Linked, Active, Frames, FailedNeverResumed
<1>7. AllReport'
  <2> SUFFICES ASSUME NEW i \in l..top, outcome'[i - 1] = "running"
               PROVE  Reports(i)'
    BY <1>1, <1>2 DEF AllReport
  <2>1. CASE i = l
    <3>1. /\ ~frame[i].item /\ i \in 1..top /\ i \in Frames
          /\ frame'[i].how = "iterate" => frame'[i].kind \in {"channel", "generator"}
      BY <1>1, <1>2, <1>3, <2>1 DEF IInv, Active, Linked, Frames
    <3>2. frame'[i].res = "error" /\ outcome'[i] = "failed" /\ ~frame'[i].item
      BY <1>1, <1>2, <1>3, <2>1, <3>1 DEF Frames
    <3>3. QED
      BY <3>1, <3>2 DEF Reports, Ended
  <2>2. CASE i # l
    <3>1. i > cur + 1 /\ i \in Frames /\ i - 1 \in Frames
      BY <1>1, <1>2, <1>3, <2>2 DEF Frames
    <3>2. frame'[i] = frame[i] /\ outcome'[i] = outcome[i] /\ outcome[i - 1] = "running"
      BY <1>1, <1>2, <1>3, <3>1 DEF Frames
    <3>3. Reports(i)
      BY <1>1, <3>1, <3>2 DEF IInv, AllReport
    <3>4. QED
      BY <3>2, <3>3 DEF Reports, Ended
  <2>3. QED
    BY <2>1, <2>2
<1>8. QED
  BY <1>4, <1>5, <1>6, <1>7 DEF IInv

LEMMA ThrowIInv == IInv /\ Throw => IInv'
<1> SUFFICES ASSUME IInv, Throw PROVE IInv'
  OBVIOUS
<1> DEFINE l == Last(cur)
           rethrown == frame[cur].can /\ frame[cur].need
           marked == AfterError(cur)
           g == [marked[cur] EXCEPT !.done = TRUE]
<1>1. /\ cur \in 0..top /\ top \in Frames /\ cur \in Nat /\ Depth \in Nat /\ cur \in Frames
      /\ outcome[cur] = "running" /\ top' = cur
      /\ frame \in [Frames -> Frame]
      /\ outcome \in [Frames -> {"running", "returned", "failed"}]
      /\ cur \in 0..cur
  BY DepthAssumption DEF IInv, FrameTypeOK, Frames, Throw, Running
<1>2. /\ l \in 0..cur /\ (cur > 0 => l > 0) /\ (l > 0 => frame[l].need)
  BY <1>1, Climb
<1>3. /\ marked \in [Frames -> Frame]
      /\ \A k \in Frames :
           /\ marked[k].kind = frame[k].kind /\ marked[k].how = frame[k].how
           /\ marked[k].can = frame[k].can /\ marked[k].need = frame[k].need
           /\ marked[k].item = frame[k].item /\ marked[k].done = frame[k].done
      /\ \A k \in Frames : k \in l..cur /\ frame[k].need => marked[k].res = "error"
      /\ Failed(cur) \in [Frames -> {"running", "returned", "failed"}]
      /\ \A k \in Frames : Failed(cur)[k] = IF k \in l..cur THEN "failed" ELSE outcome[k]
  BY <1>1, ErrorMarks
<1>4. frame' = [Kept(marked) EXCEPT ![cur] = g]
  <2>1. Kept(marked)[cur] = marked[cur]
    BY <1>1 DEF Kept
  <2>2. frame' = [Kept(marked) EXCEPT ![cur].done = TRUE]
    BY DEF Throw
  <2> HIDE DEF marked
  <2>3. QED
    BY <2>1, <2>2
<1>5. /\ ~rethrown => outcome' = KeptOut(Failed(cur)) /\ cur' = Below(l)
      /\ rethrown => outcome' = KeptOut([outcome EXCEPT ![cur] = "failed"]) /\ cur' = cur - 1
  BY DEF Throw
<1> HIDE DEF l, marked, rethrown
<1>6. /\ g \in Frame /\ g.kind = frame[cur].kind /\ g.how = frame[cur].how
      /\ g.can = frame[cur].can /\ g.need = frame[cur].need /\ g.item = frame[cur].item
      /\ g.done /\ (frame[cur].need => g.res = "error")
  <2>1. marked[cur] \in Frame /\ cur \in l..cur
    BY <1>1, <1>2, <1>3
  <2>2. g \in Frame /\ g = [marked[cur] EXCEPT !.done = TRUE]
    BY <2>1 DEF Frame
  <2>3. /\ g.kind = marked[cur].kind /\ g.how = marked[cur].how /\ g.can = marked[cur].can
        /\ g.need = marked[cur].need /\ g.item = marked[cur].item /\ g.done
        /\ g.res = marked[cur].res
    BY <2>1 DEF Frame
  <2>4. QED
    BY <1>1, <1>3, <2>1, <2>2, <2>3
<1> HIDE DEF g
<1>7. /\ frame' \in [Frames -> Frame] /\ frame'[cur] = g
      /\ \A i \in Frames : i < cur => frame'[i] = marked[i]
  <2>1. NoFrame \in Frame
    BY DEF NoFrame, Fresh, Frame
  <2>2. /\ Kept(marked) \in [Frames -> Frame]
        /\ \A i \in Frames : i <= cur => Kept(marked)[i] = marked[i]
    BY <1>1, <1>3, <2>1 DEF Kept, Frames
  <2>3. QED
    BY <1>1, <1>4, <1>6, <2>2 DEF Frames
<1>8. \A i \in Frames : i <= cur =>
        /\ frame'[i].kind = frame[i].kind /\ frame'[i].how = frame[i].how
        /\ frame'[i].can = frame[i].can /\ frame'[i].need = frame[i].need
        /\ frame'[i].item = frame[i].item
        /\ i # cur => frame'[i].done = frame[i].done
  BY <1>1, <1>3, <1>6, <1>7 DEF Frames
<1>9. /\ outcome' \in [Frames -> {"running", "returned", "failed"}]
      /\ \A i \in Frames : i > cur => outcome'[i] = "running"
      /\ outcome'[cur] = "failed"
      /\ \A i \in Frames : i < cur => outcome'[i] = IF ~rethrown /\ i >= l THEN "failed"
                                                     ELSE outcome[i]
  <2>1. CASE rethrown
    BY <1>1, <1>5, <2>1 DEF KeptOut, Frames
  <2>2. CASE ~rethrown
    BY <1>1, <1>2, <1>3, <1>5, <2>2 DEF KeptOut, Frames
  <2>3. QED
    BY <2>1, <2>2
<1>10. /\ rethrown => cur > 1 /\ cur' = cur - 1
       /\ ~rethrown /\ cur > 0 => cur' = l - 1
       /\ cur = 0 => cur' = 0
  <2>1. rethrown => cur > 1
    BY <1>1 DEF IInv, Linked, rethrown
  <2>2. ~rethrown => cur' = Below(l)
    BY <1>5
  <2>3. QED
    BY <1>1, <1>2, <1>5, <2>1, <2>2 DEF Below
<1>11. cur' \in Frames /\ cur' <= cur
  BY <1>1, <1>2, <1>10 DEF Frames
<1>12. \A i \in 0..(cur - 1) : outcome[i] = "running"
  BY <1>1 DEF IInv, FailedNeverResumed, Frames
<1>13. FrameTypeOK'
  BY <1>1, <1>7, <1>9, <1>11 DEF FrameTypeOK, Frames
<1>14. FailedNeverResumed'
  <2> SUFFICES ASSUME NEW i \in Frames, i <= cur', cur' > 0
               PROVE  outcome'[i] = "running"
    BY DEF FailedNeverResumed, Frames
  <2>1. i < cur /\ (~rethrown => i < l)
    BY <1>1, <1>2, <1>10, <1>11 DEF Frames
  <2>2. outcome[i] = "running"
    BY <1>1, <1>12, <2>1 DEF Frames
  <2>3. outcome'[i] = outcome[i]
    <3>1. CASE rethrown
      BY <1>9, <2>1, <3>1
    <3>2. CASE ~rethrown
      BY <1>1, <1>2, <1>9, <2>1, <3>2 DEF Frames
    <3>3. QED
      BY <3>1, <3>2
  <2>4. QED
    BY <2>2, <2>3
<1>15. Linked'
  <2>1. frame'[0].kind = "future" /\ ~frame'[0].can
    BY <1>1, <1>8 DEF IInv, Linked, Frames
  <2>2. QED
    BY <1>1, <1>8, <2>1 DEF IInv, Linked, Frames
<1>16. Active'
  <2>1. \A i \in 1..cur' : ~frame'[i].item
    BY <1>1, <1>8, <1>11 DEF IInv, Active, Frames
  <2>2. \A i \in 1..top' : frame'[i].done => outcome'[i] # "running"
    BY <1>1, <1>8, <1>9 DEF IInv, Active, Frames
  <2>3. cur' = 0 /\ outcome'[0] # "running" => top' = 0
    <3> SUFFICES ASSUME cur > 0, cur' = 0 PROVE outcome'[0] = "running"
      BY <1>1
    <3>1. 0 \in Frames /\ 0 < cur /\ (~rethrown => 0 < l)
      BY <1>1, <1>2 DEF Frames
    <3>2. outcome'[0] = outcome[0]
      <4>1. CASE rethrown
        BY <1>9, <3>1, <4>1
      <4>2. CASE ~rethrown
        BY <1>1, <1>2, <1>9, <3>1, <4>2
      <4>3. QED
        BY <4>1, <4>2
    <3>3. QED
      BY <1>1, <1>12, <3>1, <3>2
  <2>4. QED
    BY <1>1, <1>9, <2>1, <2>2, <2>3 DEF Active
<1>17. AllReport'
  <2> SUFFICES ASSUME NEW i \in 1..cur, i > cur', outcome'[i - 1] = "running"
               PROVE  Reports(i)'
    BY <1>1 DEF AllReport
  <2>0. cur' \in Nat /\ i \in Nat /\ cur' < i /\ i <= cur /\ cur <= Depth
    BY <1>1, <1>11 DEF Frames
  <2>1. i \in 1..top /\ i \in 1..cur /\ i \in Frames /\ cur > 0 /\ i - 1 \in Frames
    <3>1. top \in Nat /\ cur <= top /\ cur \in Nat /\ Depth \in Nat
      BY <1>1 DEF Frames
    <3>2. QED
      BY <2>0, <3>1 DEF Frames
  <2>2. i = IF rethrown THEN cur ELSE l
    <3>1. CASE rethrown
      BY <1>1, <1>10, <2>0, <3>1
    <3>2. CASE ~rethrown
      <4>1. cur' = l - 1 /\ l \in Nat
        BY <1>1, <1>2, <1>10, <2>1, <3>2
      <4>2. ~(i - 1 >= l)
        <5> SUFFICES ASSUME i - 1 >= l PROVE FALSE
          OBVIOUS
        <5>1. i - 1 < cur /\ cur \in Nat
          BY <1>1, <2>0
        <5>2. outcome'[i - 1] = "failed"
          BY <1>9, <2>1, <3>2, <5>1
        <5>3. QED
          BY <5>2
      <4>3. i = l
        BY <2>0, <4>1, <4>2
      <4>4. QED
        BY <3>2, <4>3
    <3>3. QED
      BY <3>1, <3>2
  <2>3. outcome'[i] = "failed" /\ frame'[i].res = "error"
    <3>1. CASE i = cur
      <4>1. frame[cur].need
        BY <1>2, <2>1, <2>2, <3>1 DEF rethrown
      <4>2. QED
        BY <1>6, <1>7, <1>9, <3>1, <4>1
    <3>2. CASE i # cur
      <4>1. ~rethrown /\ i = l /\ l < cur /\ frame[l].need
        BY <1>1, <1>2, <2>1, <2>2, <3>2
      <4>2. QED
        BY <1>1, <1>3, <1>7, <1>9, <2>1, <4>1
    <3>3. QED
      BY <3>1, <3>2
  <2>4. /\ frame'[i].kind = frame[i].kind /\ frame'[i].how = frame[i].how
        /\ frame'[i].item = frame[i].item /\ ~frame[i].item
        /\ frame[i].how = "iterate" <=> frame[i].kind \in {"channel", "generator"}
    <3>1. QED
      BY <1>1, <1>8, <2>0, <2>1 DEF IInv, Linked, Active
  <2>5. QED
    BY <2>3, <2>4 DEF Reports, Ended
<1>18. QED
  BY <1>13, <1>14, <1>15, <1>16, <1>17 DEF IInv

LEMMA DropIInv == IInv /\ Drop => IInv'
<1> SUFFICES ASSUME IInv, Drop PROVE IInv'
  OBVIOUS
<1>1. /\ cur \in 0..top /\ top \in Frames /\ cur \in Nat /\ Depth \in Nat /\ cur \in Frames
      /\ Running /\ top' = cur /\ cur' = cur
  BY DepthAssumption DEF IInv, FrameTypeOK, Frames, Drop
<1>2. /\ frame' \in [Frames -> Frame]
      /\ outcome' \in [Frames -> {"running", "returned", "failed"}]
      /\ \A i \in Frames : i <= cur => frame'[i] = frame[i] /\ outcome'[i] = outcome[i]
      /\ \A i \in Frames : i > cur => outcome'[i] = "running"
  BY <1>1 DEF IInv, FrameTypeOK, Drop, Kept, KeptOut, NoFrame, Fresh, Frame, Frames
<1>3. FrameTypeOK' /\ FailedNeverResumed' /\ AllReport'
  BY <1>1, <1>2 DEF IInv, FrameTypeOK, FailedNeverResumed, AllReport, Frames
<1>4. Linked'
  BY <1>1, <1>2 DEF IInv, Linked, Frames
<1>5. Active'
  BY <1>1, <1>2 DEF IInv, Active, Frames, Running
<1>6. QED
  BY <1>3, <1>4, <1>5 DEF IInv

-----------------------------------------------------------------------------
LEMMA NextIInv == IInv /\ [Next]_vars => IInv'
<1> SUFFICES ASSUME IInv, [Next]_vars PROVE IInv'
  OBVIOUS
<1>1. CASE UNCHANGED vars
  BY <1>1 DEF vars, IInv, FrameTypeOK, FailedNeverResumed, Linked, Active, AllReport,
     Reports, Ended
<1>2. CASE Next
  BY <1>2, LaunchIInv, AdvanceIInv, YieldIInv, ReturnIInv, FailAwaitIInv, ThrowIInv,
     DropIInv DEF Next
<1>3. QED
  BY <1>1, <1>2

(* The invariant holds throughout.                                         *)
THEOREM Invariance == Spec => []IInv
BY InitIInv, NextIInv, PTL DEF Spec

(* Every variable stays within its type.                                   *)
THEOREM FramesTypeCorrect == Spec => []FrameTypeOK
<1>1. IInv => FrameTypeOK
  BY DEF IInv
<1>2. QED
  BY <1>1, Invariance, PTL

(* A coroutine that has ended or that an error has passed never runs       *)
(* again, in chains of any depth.                                          *)
THEOREM NeverResumed == Spec => []FailedNeverResumed
<1>1. IInv => FailedNeverResumed
  BY DEF IInv
<1>2. QED
  BY <1>1, Invariance, PTL

(* Whoever goes on finds what became of the coroutine it called, however   *)
(* far above the error was raised.                                         *)
THEOREM OutcomeReported == Spec => []ReportsOutcome
<1>1. IInv => ReportsOutcome
  <2> SUFFICES ASSUME IInv, top > cur PROVE Reports(cur + 1)
    BY DEF ReportsOutcome, Reports
  <2>1. cur + 1 \in 1..top /\ cur + 1 > cur /\ cur \in Frames /\ cur \in Nat /\ (cur + 1) - 1 = cur
    BY DepthAssumption DEF IInv, FrameTypeOK, Frames
  <2>2. outcome[cur] = "running"
    BY <2>1 DEF IInv, FailedNeverResumed, Active
  <2>3. QED
    BY <2>1, <2>2 DEF IInv, AllReport
<1>2. QED
  BY <1>1, Invariance, PTL

(* A step changes what has become of a frame below the running one only    *)
(* when an error passes it, and none passes a frame that has asked to hear *)
(* of it through wrapped() or when_ready().                                *)
LEMMA ErrorContained ==
  ASSUME IInv, [Next]_vars, NEW i \in Frames, i < cur, outcome[i] # outcome'[i]
  PROVE  i > 0 /\ frame[i + 1].how # "wrapped"
<1>1. /\ cur \in Nat /\ cur \in 0..cur /\ cur > 0 /\ i \in Nat /\ top \in Nat /\ cur <= top
      /\ outcome \in [Frames -> {"running", "returned", "failed"}] /\ cur \in Frames
  BY DepthAssumption DEF IInv, FrameTypeOK, Frames
<1>2. FailAwait \/ Throw
  <2>1. ~ UNCHANGED outcome
    OBVIOUS
  <2>2. ~ Return
    <3>1. KeptOut(outcome)[i] = outcome[i] /\ KeptOut(outcome) \in [Frames -> {"running", "returned", "failed"}]
      BY <1>1 DEF KeptOut
    <3>2. QED
      BY <1>1, <3>1 DEF Return
  <2>3. ~ Drop
    BY <1>1 DEF Drop, KeptOut
  <2>4. QED
    BY <2>1, <2>2, <2>3 DEF Next, vars, Launch, Advance, Yield
<1>3. \/ outcome' = Failed(cur)
      \/ outcome' = KeptOut(Failed(cur))
      \/ outcome' = KeptOut([outcome EXCEPT ![cur] = "failed"])
  BY <1>2 DEF FailAwait, Throw
<1>4. Failed(cur)[i] # outcome[i]
  BY <1>1, <1>3, ErrorMarks DEF KeptOut
<1>5. i \in Last(cur)..cur
  BY <1>1, <1>4, ErrorMarks
<1>6. i > 0 /\ i + 1 \in (Last(cur) + 1)..cur /\ i + 1 \in 1..top
  BY <1>1, <1>5, Climb
<1>7. frame[i + 1].can
  BY <1>1, <1>6, Climb
<1>8. QED
  BY <1>6, <1>7 DEF IInv, Linked

(* An error stops where somebody asked for it.                             *)
THEOREM Contained == Spec => WrappedContains
<1>1. IInv /\ [Next]_vars =>
        [\A i \in Frames : i < cur /\ outcome[i] # outcome'[i] =>
           i > 0 /\ frame[i + 1].how # "wrapped"]_vars
  BY ErrorContained
<1>2. QED
  BY <1>1, Invariance, PTL DEF Spec, WrappedContains

-----------------------------------------------------------------------------
(* GrpcClientCall *)

ClientTyped ==
  /\ kind \in {"unary", "reader", "writer"}
  /\ pc \in [Client!Coroutines -> {"idle", "hop", "step", "statusHop", "statusStep",
                                  "yielded", "done"}]
  /\ last \in [Client!Coroutines -> {"none"} \cup Client!Operations]
  /\ callOutcome \in [Client!Coroutines -> {"none", "ok", "error", "cancelled", "not started",
                                           "nothing"}]
  /\ isStarted \in BOOLEAN /\ isFinished \in BOOLEAN
  /\ finishSts \in {"none", "ok", "error"} /\ status \in {"none", "ok", "error"}

(* No two coroutines of a call are under way at once, but for a misuse.    *)
Serial ==
  \A c, d \in Client!Coroutines : Client!Busy(c) /\ Client!Busy(d) => c = d

AtStep(c) == pc[c] \in {"step", "statusStep"}

(* What c waits for is the Finish of the call. *)
ForStatus(c) == kind = "unary" \/ pc[c] = "statusStep"

(* gRPC has one operation at most, of the coroutine of the handle; what it *)
(* has completed is for a coroutine that waits.                            *)
OneOperation ==
  /\ inflight = {} \/ \E e \in inflight : inflight = {e}
  /\ \A e \in inflight :
       /\ e.by = handle /\ e.by \in Client!Coroutines /\ AtStep(e.by)
       /\ resumed = Client!Nothing
       /\ e.op = "finish" <=> ForStatus(e.by)
       /\ e.op \in called
  /\ resumed # Client!Nothing =>
       /\ resumed.by \in Client!Coroutines /\ AtStep(resumed.by) /\ inflight = {}
       /\ ForStatus(resumed.by) => resumed.ok /\ status # "none"

(* What was asked of gRPC, by kind of call and by where its coroutines are. *)
OfUnary ==
  kind = "unary" =>
    /\ "finish" \in called <=> pc[call] \in {"step", "done"}
    /\ pc[call] \in {"idle", "hop", "step", "done"}
    /\ pc[call] = "step" => last[call] = "finish"
    /\ \A c \in Enders : pc[c] = "idle"
    /\ finishSts # "none" => status = finishSts

OfStream ==
  kind # "unary" =>
    /\ "finish" \in called <=> finishSts # "none"
    /\ \A c \in Client!Coroutines :
         pc[c] \in {"step", "statusHop", "statusStep", "yielded"} => "start" \in called
    /\ isStarted => "start" \in called
    /\ pc[call] = "step" /\ ~isStarted => last[call] \notin {"read", "write"}
    /\ "start" \in called /\ ~isStarted =>
         kind = "writer" /\ pc[call] \notin {"idle", "hop", "yielded"}

OfWriter ==
  kind = "writer" =>
    /\ "writesDone" \in called => isFinished
    /\ Client!Busy(call) => ~isFinished

OfEnders ==
  /\ pc[call] # "statusHop"
  /\ \A c \in Enders :
       /\ Client!Busy(c) => isFinished
       /\ pc[c] = "hop" => kind = "writer" /\ "start" \in called
       /\ pc[c] = "statusHop" => kind = "reader" /\ finishSts = "none"
       /\ pc[c] = "step" => last[c] = "writesDone"
       /\ pc[c] # "yielded"

Requests == OfUnary /\ OfStream /\ OfWriter /\ OfEnders

(* The status that is there is the call's own, or Finish is with gRPC.     *)
Statuses ==
  /\ finishSts # "none" => status = finishSts \/ \E e \in inflight : e.op = "finish"
  /\ status # "none" =>
       status = finishSts /\ "finish" \in called /\ \A e \in inflight : e.op # "finish"
  /\ \A c \in Client!Coroutines :
       /\ callOutcome[c] = "error" => status = "error"
       /\ callOutcome[c] = "ok" /\ (c \in Enders \/ ~isFinished) => status = "ok"

ClientFine == ~aborted /\ ~confused /\ Serial /\ OneOperation /\ Requests /\ Statuses

ClientInv == misuse = {} => ClientTyped /\ ClientFine

LEMMA ClientInit ==
  ASSUME CallsAssumption, Client!Init
  PROVE  ClientInv
<1> USE DEF Client!Init, Client!Coroutines, CallsAssumption, Client!ClientAssumption
<1>1. ClientTyped
  BY DEF ClientTyped
<1>2. Serial
  BY DEF Serial, Client!Busy
<1>3. OneOperation
  BY DEF OneOperation
<1>4. Requests
  BY DEF Requests, OfUnary, OfStream, OfWriter, OfEnders, Client!Busy
<1>5. Statuses
  BY DEF Statuses
<1> QED  BY <1>1, <1>2, <1>3, <1>4, <1>5 DEF ClientInv, ClientFine

(* The coroutine of the call is none of those that end it.                 *)
LEMMA Parties ==
  ASSUME CallsAssumption
  PROVE  /\ call \in Client!Coroutines
         /\ \A c \in Client!Coroutines \ {call} : c \in Enders
         /\ \A c \in Enders : c \in Client!Coroutines /\ c # call
         /\ \A c \in Client!Coroutines : c # nobody
BY DEF CallsAssumption, Client!ClientAssumption, Client!Coroutines

(* While no coroutine waits for gRPC, gRPC has nothing of the call.        *)
LEMMA NothingPending ==
  ASSUME CallsAssumption, OneOperation, \A c \in Client!Coroutines : ~AtStep(c)
  PROVE  inflight = {} /\ resumed = Client!Nothing
BY DEF OneOperation

(* The user starts or resumes the call.                                    *)
LEMMA ClientContinue ==
  ASSUME CallsAssumption, ClientInv, Client!Continue, misuse' = {}
  PROVE  ClientTyped' /\ ClientFine'
<1>1. ClientTyped /\ misuse = {} /\ ClientFine
  BY DEF ClientInv, Client!Continue
<1>2. /\ \A c \in Enders : ~Client!Busy(c)
      /\ ~(kind = "writer" /\ isFinished) /\ pc[call] \in {"idle", "yielded"}
  BY DEF Client!Continue, Client!Misuses
<1>3. /\ UNCHANGED <<kind, last, isStarted, isFinished, finishSts, resumed, status, confused,
                     inflight, called, aborted, handle>>
      /\ \/ /\ kind = "reader" /\ pc[call] = "yielded" /\ isFinished
            /\ pc' = [pc EXCEPT ![call] = "done"]
            /\ callOutcome' = [callOutcome EXCEPT ![call] = "ok"]
         \/ pc' = [pc EXCEPT ![call] = "hop"] /\ callOutcome' = callOutcome
  BY DEF Client!Continue, Client!NoStep, Client!End
<1>4. /\ call \in Client!Coroutines /\ \A c \in Client!Coroutines \ {call} : c \in Enders
      /\ \A c \in Enders : c \in Client!Coroutines /\ c # call
  BY Parties
<1>5. inflight = {} /\ resumed = Client!Nothing
  BY <1>1, <1>2, <1>4, NothingPending DEF ClientFine, AtStep, Client!Busy
<1>6. ClientTyped'
  BY <1>1, <1>3, <1>4 DEF ClientTyped
<1>7. Serial'
  BY <1>1, <1>2, <1>3, <1>4 DEF ClientTyped, Serial, Client!Busy
<1>8. OneOperation'
  BY <1>3, <1>5 DEF OneOperation
<1>9. /\ pc'[call] \in {"hop", "done"}
      /\ pc'[call] = "done" => kind = "reader"
      /\ \A c \in Enders : pc'[c] = pc[c]
  BY <1>1, <1>3, <1>4 DEF ClientTyped
<1>10. /\ OfUnary' /\ OfWriter'
  BY <1>1, <1>2, <1>3, <1>9 DEF ClientFine, Requests, OfUnary, OfWriter, Client!Busy
<1>11. OfStream'
  BY <1>1, <1>2, <1>3, <1>4, <1>9 DEF ClientFine, Requests, OfStream
<1>12. OfEnders'
  BY <1>1, <1>3, <1>9 DEF ClientFine, Requests, OfEnders, Client!Busy
<1>13. /\ callOutcome'[call] \in {callOutcome[call], "ok"}
       /\ callOutcome'[call] # callOutcome[call] => isFinished
       /\ \A c \in Enders : callOutcome'[c] = callOutcome[c]
  BY <1>1, <1>3, <1>4 DEF ClientTyped
<1>14. Statuses'
  BY <1>1, <1>3, <1>4, <1>13 DEF ClientFine, Statuses
<1> QED  BY <1>1, <1>3, <1>6, <1>7, <1>8, <1>10, <1>11, <1>12, <1>14
         DEF ClientFine, Requests

(* finish() and release() up to where they suspend, or end at once.        *)
LEMMA EnderMoves ==
  ASSUME CallsAssumption, ClientTyped, ClientFine, NEW c \in Enders, kind # "unary",
         pc[c] = "idle", ClientTyped',
         \A d \in Client!Coroutines \ {c} :
           pc'[d] = pc[d] /\ callOutcome'[d] = callOutcome[d],
         UNCHANGED <<kind, last, isStarted, finishSts, resumed, status, confused,
                     inflight, called, aborted, handle>>,
         pc'[c] \in {"hop", "statusHop", "done"},
         pc'[c] = "hop" => kind = "writer",
         pc'[c] = "statusHop" => kind = "reader" /\ finishSts = "none",
         pc'[c] # "done" => isFinished' = TRUE,
         pc'[c] # "done" =>
           "start" \in called /\ \A d \in Client!Coroutines \ {c} : ~Client!Busy(d),
         isFinished => isFinished',
         isFinished' # isFinished => ~Client!Busy(call),
         callOutcome'[c] = "error" => status = "error",
         callOutcome'[c] = "ok" => status = "ok"
  PROVE  ClientFine'
<1>1. /\ call \in Client!Coroutines /\ c \in Client!Coroutines /\ c # call
      /\ \A d \in Client!Coroutines \ {call} : d \in Enders
      /\ \A d \in Enders : d \in Client!Coroutines /\ d # call
  BY Parties
<1>2. Serial'
  BY DEF ClientFine, Serial, Client!Busy
<1>3. OneOperation'
  <2>1. \A d \in Client!Coroutines : AtStep(d) =>
          d # c /\ AtStep(d)' /\ (ForStatus(d)' <=> ForStatus(d))
    BY DEF AtStep, ForStatus
  <2> QED  BY <2>1 DEF ClientFine, OneOperation
<1>4. OfUnary' /\ OfWriter'
  BY <1>1 DEF ClientFine, Requests, OfUnary, OfWriter, Client!Busy
<1>5. OfStream'
  BY <1>1 DEF ClientFine, Requests, OfStream
<1>6. OfEnders'
  BY <1>1 DEF ClientFine, Requests, OfEnders, Client!Busy
<1>7. Statuses'
  BY <1>1 DEF ClientFine, Statuses
<1> QED  BY <1>2, <1>3, <1>4, <1>5, <1>6, <1>7 DEF ClientFine, Requests

LEMMA ClientBeginFinish ==
  ASSUME CallsAssumption, ClientInv, NEW c \in Enders, kind # "unary", pc[c] = "idle",
         Client!BeginFinish(c), misuse' = {}
  PROVE  ClientTyped' /\ ClientFine'
<1>1. ClientTyped /\ misuse = {} /\ ClientFine
  BY DEF ClientInv, Client!BeginFinish
<1>2. /\ \A d \in Client!Coroutines \ {c} : ~Client!Busy(d)
      /\ "start" \in called
  BY DEF Client!BeginFinish, Client!Misuses
<1>3. /\ isFinished' = TRUE
      /\ UNCHANGED <<kind, last, isStarted, finishSts, resumed, status, confused,
                     inflight, called, aborted, handle>>
  BY DEF Client!BeginFinish, Client!NoStep
<1>4. /\ call \in Client!Coroutines /\ c \in Client!Coroutines /\ c # call
      /\ \A d \in Client!Coroutines : d # nobody
  BY Parties
<1>5. inflight = {}
  BY <1>1, <1>2, NothingPending DEF ClientFine, AtStep, Client!Busy
<1>6. finishSts # "none" => status = finishSts
  BY <1>1, <1>5 DEF ClientFine, Statuses
<1>7. \/ /\ pc' = [pc EXCEPT ![c] = "done"]
         /\ \E x \in {"not started", "ok", "error"} :
              /\ callOutcome' = [callOutcome EXCEPT ![c] = x]
              /\ x # "not started" => status = x
      \/ /\ kind = "writer" /\ pc' = [pc EXCEPT ![c] = "hop"] /\ callOutcome' = callOutcome
      \/ /\ kind = "reader" /\ finishSts = "none"
         /\ pc' = [pc EXCEPT ![c] = "statusHop"] /\ callOutcome' = callOutcome
  <2>1. Client!Report(c, finishSts) = IF finishSts = "error" THEN "error" ELSE "ok"
    BY DEF Client!Report
  <2> QED  BY <1>1, <1>6, <2>1 DEF Client!BeginFinish, Client!End, ClientTyped
<1>8. ClientTyped'
  BY <1>1, <1>3, <1>7 DEF ClientTyped
<1>9. /\ \A d \in Client!Coroutines \ {c} :
           pc'[d] = pc[d] /\ callOutcome'[d] = callOutcome[d]
      /\ \/ pc'[c] = "done" /\ callOutcome'[c] \in {"not started", status}
         \/ pc'[c] = "hop" /\ kind = "writer" /\ callOutcome'[c] = callOutcome[c]
         \/ /\ pc'[c] = "statusHop" /\ kind = "reader" /\ finishSts = "none"
            /\ callOutcome'[c] = callOutcome[c]
  BY <1>1, <1>4, <1>7 DEF ClientTyped
<1>10. /\ callOutcome[c] = "error" => status = "error"
       /\ callOutcome[c] = "ok" => status = "ok"
  BY <1>1, <1>4 DEF ClientFine, Statuses
<1> QED  BY <1>1, <1>2, <1>3, <1>4, <1>8, <1>9, <1>10, EnderMoves

LEMMA ClientFinish ==
  ASSUME CallsAssumption, ClientInv, NEW c \in Enders, Client!Finish(c), misuse' = {}
  PROVE  ClientTyped' /\ ClientFine'
BY ClientBeginFinish DEF Client!Finish

LEMMA ClientRelease ==
  ASSUME CallsAssumption, ClientInv, NEW c \in Enders, Client!Release(c), misuse' = {}
  PROVE  ClientTyped' /\ ClientFine'
<1>1. CASE ~isFinished /\ isStarted
  BY <1>1, ClientBeginFinish DEF Client!Release
<1>2. CASE isFinished \/ ~isStarted
  <2>1. /\ misuse' = misuse \cup Client!Misuses(Client!Busy(call), "overlap")
        /\ pc[c] = "idle" /\ kind # "unary"
        /\ pc' = [pc EXCEPT ![c] = "done"]
        /\ callOutcome' = [callOutcome EXCEPT ![c] = "nothing"]
        /\ UNCHANGED <<kind, last, isStarted, isFinished, finishSts, resumed, status,
                       confused, inflight, called, aborted, handle>>
    BY <1>2 DEF Client!Release, Client!End, Client!NoStep
  <2>2. ClientTyped /\ misuse = {} /\ ClientFine
    BY <2>1 DEF ClientInv
  <2>3. ClientTyped'
    BY <2>1, <2>2 DEF ClientTyped
  <2>4. c \in Client!Coroutines
    BY Parties
  <2>5. /\ \A d \in Client!Coroutines \ {c} :
             pc'[d] = pc[d] /\ callOutcome'[d] = callOutcome[d]
        /\ pc'[c] = "done" /\ callOutcome'[c] = "nothing"
    BY <2>1, <2>2, <2>4 DEF ClientTyped
  <2> QED  BY <2>1, <2>2, <2>3, <2>5, EnderMoves
<1> QED  BY <1>1, <1>2

(* A coroutine that is under way and not with gRPC, or whose operation has *)
(* completed, is the only one under way; gRPC has nothing.                 *)
LEMMA Alone ==
  ASSUME CallsAssumption, ClientFine, NEW c \in Client!Coroutines, Client!Busy(c),
         AtStep(c) => inflight = {}
  PROVE  /\ inflight = {}
         /\ \A d \in Client!Coroutines \ {c} : ~Client!Busy(d)
         /\ ~AtStep(c) => resumed = Client!Nothing
         /\ finishSts # "none" => status = finishSts
         /\ status # "none" => status = finishSts /\ "finish" \in called
<1>1. \A d \in Client!Coroutines \ {c} : ~Client!Busy(d)
  BY DEF ClientFine, Serial
<1>2. inflight = {} /\ (~AtStep(c) => resumed = Client!Nothing)
  <2>1. ~AtStep(c) => \A d \in Client!Coroutines : ~AtStep(d)
    BY <1>1 DEF AtStep, Client!Busy
  <2> QED  BY <2>1, NothingPending DEF ClientFine
<1> QED  BY <1>1, <1>2 DEF ClientFine, Statuses

(* A coroutine that is alone hands an operation to gRPC.                   *)
LEMMA StepTaken ==
  ASSUME CallsAssumption, ClientTyped, ClientFine, NEW c \in Client!Coroutines,
         Client!Busy(c), inflight = {}, resumed' = Client!Nothing,
         NEW o \in Client!Operations, Client!Step(c, o), ~Client!Rejected(o),
         UNCHANGED <<kind, confused>>,
         NEW to \in {"step", "statusStep"}, pc' = [pc EXCEPT ![c] = to],
         o = "finish" <=> kind = "unary" \/ to = "statusStep"
  PROVE  /\ ~aborted' /\ ~confused' /\ Serial' /\ OneOperation'
         /\ inflight' = {[op |-> o, by |-> c]}
         /\ called' = called \cup {o}
         /\ pc'[c] = to /\ \A d \in Client!Coroutines \ {c} : pc'[d] = pc[d]
<1>1. /\ inflight' = {[op |-> o, by |-> c]} /\ called' = called \cup {o}
      /\ ~aborted' /\ handle' = c
  BY DEF Client!Step
<1>2. pc'[c] = to /\ \A d \in Client!Coroutines \ {c} : pc'[d] = pc[d]
  BY DEF ClientTyped
<1>3. Serial'
  BY <1>2 DEF ClientFine, Serial, Client!Busy
<1>4. OneOperation'
  BY <1>1, <1>2 DEF OneOperation, AtStep, ForStatus
<1> QED  BY <1>1, <1>2, <1>3, <1>4 DEF ClientFine

LEMMA OperationTyped ==
  ASSUME NEW c
  PROVE  /\ Client!NextOperation(c) \in Client!Operations
         /\ {"start", "read", "write", "writesDone", "finish"} = Client!Operations
BY DEF Client!NextOperation, Client!Operations

LEMMA ClientHopped ==
  ASSUME CallsAssumption, ClientInv, NEW c \in Client!Coroutines, Client!Hopped(c),
         misuse' = {}
  PROVE  ClientTyped' /\ ClientFine'
<1> DEFINE o == Client!NextOperation(c)
<1>1. ClientTyped /\ misuse = {} /\ ClientFine
  BY DEF ClientInv, Client!Hopped
<1>2. /\ pc[c] = "hop" /\ resumed = Client!Nothing
      /\ Client!Step(c, o)
      /\ last' = [last EXCEPT ![c] = o]
      /\ pc' = [pc EXCEPT ![c] = "step"]
      /\ isStarted' = (isStarted \/ (kind = "reader" /\ c = call))
      /\ UNCHANGED <<kind, callOutcome, isFinished, finishSts, resumed, status, confused>>
  BY DEF Client!Hopped, Client!OnQueueThread
<1>3. /\ call \in Client!Coroutines
      /\ \A d \in Client!Coroutines \ {call} : d \in Enders
      /\ \A d \in Enders : d \in Client!Coroutines /\ d # call
  BY Parties
<1>4. /\ inflight = {}
      /\ \A d \in Client!Coroutines \ {c} : ~Client!Busy(d)
      /\ finishSts # "none" => status = finishSts
      /\ status # "none" => status = finishSts /\ "finish" \in called
  BY <1>1, <1>2, Alone DEF AtStep, Client!Busy
<1>5. o \in Client!Operations
  BY OperationTyped
<1>6. \/ /\ c \in Enders /\ kind = "writer" /\ o = "writesDone"
         /\ "start" \in called /\ isFinished
      \/ /\ c = call /\ kind = "unary" /\ o = "finish" /\ "finish" \notin called
      \/ /\ c = call /\ kind # "unary" /\ ~isStarted /\ o = "start"
         /\ "start" \notin called
      \/ /\ c = call /\ kind # "unary" /\ isStarted /\ "start" \in called
         /\ o = IF kind = "reader" THEN "read" ELSE "write"
         /\ o = "write" => "writesDone" \notin called
  <2>1. CASE c \in Enders
    BY <1>1, <1>2, <2>1 DEF ClientFine, Requests, OfEnders, Client!Busy, Client!NextOperation
  <2>2. CASE c = call /\ kind = "unary"
    BY <1>1, <1>2, <1>3, <2>2 DEF ClientFine, Requests, OfUnary, Client!NextOperation
  <2>3. CASE c = call /\ kind # "unary"
    BY <1>1, <1>2, <1>3, <2>3
       DEF ClientTyped, ClientFine, Requests, OfStream, OfWriter, Client!NextOperation, Client!Busy
  <2> QED  BY <1>3, <2>1, <2>2, <2>3
<1>7. ~Client!Rejected(o)
  BY <1>6 DEF Client!Rejected
<1> HIDE DEF o
<1>8. /\ ~aborted' /\ ~confused' /\ Serial' /\ OneOperation'
      /\ inflight' = {[op |-> o, by |-> c]}
      /\ called' = called \cup {o}
      /\ pc'[c] = "step" /\ \A d \in Client!Coroutines \ {c} : pc'[d] = pc[d]
  BY <1>1, <1>2, <1>4, <1>5, <1>6, <1>7, StepTaken DEF Client!Busy
<1>9. last'[c] = o /\ \A d \in Client!Coroutines \ {c} : last'[d] = last[d]
  BY <1>1, <1>2 DEF ClientTyped
<1>10. ClientTyped'
  BY <1>1, <1>2, <1>5 DEF ClientTyped
<1>11. OfUnary'
  BY <1>1, <1>2, <1>3, <1>6, <1>8, <1>9 DEF ClientFine, Requests, OfUnary
<1>12. OfStream'
  <2>1. CASE c \in Enders
    <3>1. pc'[call] = pc[call] /\ last'[call] = last[call] /\ isStarted' = isStarted
      BY <1>1, <1>2, <1>3, <1>8, <1>9, <2>1 DEF ClientTyped
    <3>2. o # "finish" /\ "start" \in called
      BY <1>3, <1>6, <2>1
    <3> QED  BY <1>1, <1>2, <1>8, <3>1, <3>2 DEF ClientFine, Requests, OfStream
  <2>2. CASE c = call /\ kind # "unary"
    <3>1. o # "finish" /\ "start" \in called'
      BY <1>3, <1>6, <1>8, <2>2
    <3>2. pc'[call] = "step" /\ last'[call] = o /\ (~isStarted' => kind = "writer")
      BY <1>1, <1>2, <1>8, <1>9, <2>2 DEF ClientTyped
    <3>3. ~isStarted' => o = "start"
      BY <1>2, <1>3, <1>6, <2>2
    <3> QED  BY <1>1, <1>2, <1>8, <3>1, <3>2, <3>3 DEF ClientFine, Requests, OfStream
  <2>3. CASE kind = "unary"
    BY <1>2, <2>3 DEF OfStream
  <2> QED  BY <1>3, <2>1, <2>2, <2>3
<1>13. OfWriter'
  BY <1>1, <1>2, <1>3, <1>6, <1>8 DEF ClientFine, Requests, OfWriter, Client!Busy
<1>14. OfEnders'
  BY <1>1, <1>2, <1>3, <1>6, <1>8, <1>9 DEF ClientFine, Requests, OfEnders, Client!Busy
<1>15. Statuses'
  <2>1. o = "finish" => status = "none"
    BY <1>4, <1>6
  <2> QED  BY <1>1, <1>2, <1>4, <1>8, <2>1 DEF ClientFine, Statuses
<1> QED  BY <1>8, <1>10, <1>11, <1>12, <1>13, <1>14, <1>15 DEF ClientFine, Requests

(* A coroutine that is alone asks for the status, for the first time.      *)
LEMMA AskForStatus ==
  ASSUME CallsAssumption, ClientTyped, ClientFine, NEW c \in Client!Coroutines,
         Client!Busy(c), kind # "unary", inflight = {}, resumed' = Client!Nothing,
         "start" \in called, finishSts = "none", finishSts' = "ok",
         Client!Step(c, "finish"),
         pc' = [pc EXCEPT ![c] = "statusStep"],
         UNCHANGED <<kind, last, callOutcome, isStarted, isFinished, status, confused>>
  PROVE  ClientTyped' /\ ClientFine'
<1>1. /\ call \in Client!Coroutines
      /\ \A d \in Client!Coroutines \ {call} : d \in Enders
      /\ \A d \in Enders : d \in Client!Coroutines /\ d # call
  BY Parties
<1>2. /\ \A d \in Client!Coroutines \ {c} : ~Client!Busy(d)
      /\ status = "none" /\ "finish" \notin called
  <2>1. "finish" \notin called
    BY DEF ClientFine, Requests, OfStream
  <2> QED  BY <2>1, Alone
<1>3. ~Client!Rejected("finish")
  BY <1>2 DEF Client!Rejected
<1>4. /\ ~aborted' /\ ~confused' /\ Serial' /\ OneOperation'
      /\ inflight' = {[op |-> "finish", by |-> c]}
      /\ called' = called \cup {"finish"}
      /\ pc'[c] = "statusStep" /\ \A d \in Client!Coroutines \ {c} : pc'[d] = pc[d]
  BY <1>3, OperationTyped, StepTaken
<1>5. ClientTyped'
  BY DEF ClientTyped
<1>6. OfUnary' /\ OfWriter'
  BY <1>1, <1>4 DEF ClientFine, Requests, OfUnary, OfWriter, Client!Busy
<1>7. OfStream'
  BY <1>1, <1>4 DEF ClientFine, Requests, OfStream
<1>8. OfEnders'
  BY <1>1, <1>2, <1>4 DEF ClientFine, Requests, OfEnders, Client!Busy
<1>9. Statuses'
  BY <1>1, <1>2, <1>4 DEF ClientFine, Statuses
<1> QED  BY <1>4, <1>5, <1>6, <1>7, <1>8, <1>9 DEF ClientFine, Requests

LEMMA ClientHoppedForStatus ==
  ASSUME CallsAssumption, ClientInv, NEW c \in Client!Coroutines,
         Client!HoppedForStatus(c), misuse' = {}
  PROVE  ClientTyped' /\ ClientFine'
<1>1. ClientTyped /\ misuse = {} /\ ClientFine
  BY DEF ClientInv, Client!HoppedForStatus
<1>2. /\ pc[c] = "statusHop" /\ resumed' = Client!Nothing /\ finishSts' = "ok"
      /\ Client!Step(c, "finish")
      /\ pc' = [pc EXCEPT ![c] = "statusStep"]
      /\ UNCHANGED <<kind, last, callOutcome, isStarted, isFinished, status, confused>>
  BY DEF Client!HoppedForStatus, Client!OnQueueThread
<1>3. c \in Enders
  BY <1>1, <1>2, Parties DEF ClientFine, Requests, OfEnders
<1>4. kind # "unary" /\ finishSts = "none" /\ "start" \in called
  BY <1>1, <1>2, <1>3 DEF ClientFine, Requests, OfEnders, OfStream
<1>5. inflight = {} /\ Client!Busy(c)
  BY <1>1, <1>2, Alone DEF AtStep, Client!Busy
<1> QED  BY <1>1, <1>2, <1>4, <1>5, AskForStatus

LEMMA ClientComplete ==
  ASSUME CallsAssumption, ClientInv, Client!Complete, misuse' = {}
  PROVE  ClientTyped' /\ ClientFine'
<1>1. ClientTyped /\ misuse = {} /\ ClientFine
  BY DEF ClientInv, Client!Complete
<1>2. PICK e \in inflight, ok \in BOOLEAN :
        /\ inflight' = inflight \ {e} /\ resumed' = [by |-> handle, ok |-> ok]
        /\ e.op = "finish" =>
             ok /\ \E s \in {"ok", "error"} : status' = s /\ finishSts' = s
        /\ e.op # "finish" => UNCHANGED <<status, finishSts>>
        /\ UNCHANGED <<kind, pc, last, callOutcome, isStarted, isFinished, handle,
                       called, aborted, confused>>
  BY DEF Client!Complete
<1>3. /\ inflight = {e} /\ e.by = handle /\ handle \in Client!Coroutines /\ AtStep(handle)
      /\ e.op = "finish" <=> ForStatus(handle)
      /\ e.op \in called
  BY <1>1, <1>2 DEF ClientFine, OneOperation
<1>4. inflight' = {} /\ resumed'.by = handle /\ resumed'.ok = ok
  BY <1>2, <1>3
<1>5. e.op = "finish" => status = "none" /\ status' # "none" /\ finishSts' = status'
  BY <1>1, <1>2, <1>3 DEF ClientFine, Statuses
<1>6. ClientTyped'
  BY <1>1, <1>2 DEF ClientTyped
<1>7. Serial'
  BY <1>1, <1>2 DEF ClientFine, Serial, Client!Busy
<1>8. OneOperation'
  <2>1. /\ ForStatus(handle)' <=> ForStatus(handle)
        /\ AtStep(handle)' <=> AtStep(handle)
    BY <1>2 DEF ForStatus, AtStep
  <2>2. ForStatus(handle) => ok /\ status' # "none"
    BY <1>2, <1>3, <1>5
  <2> QED  BY <1>2, <1>3, <1>4, <2>1, <2>2 DEF OneOperation, AtStep, ForStatus
<1>9. OfUnary' /\ OfWriter'
  BY <1>1, <1>2, <1>3, <1>5 DEF ClientFine, Requests, OfUnary, OfWriter, Client!Busy
<1>10. OfStream'
  <2>1. kind # "unary" => ("finish" \in called <=> finishSts' # "none")
    BY <1>1, <1>2, <1>3, <1>5 DEF ClientFine, Requests, OfStream
  <2> QED  BY <1>1, <1>2, <2>1 DEF ClientFine, Requests, OfStream
<1>11. OfEnders'
  <2>1. \A d \in Client!Coroutines : pc[d] # "statusHop"
    BY <1>1, <1>3 DEF ClientFine, Serial, AtStep, Client!Busy
  <2> QED  BY <1>1, <1>2, <2>1, Parties DEF ClientFine, Requests, OfEnders, Client!Busy
<1>12. Statuses'
  <2>1. CASE e.op = "finish"
    BY <1>1, <1>2, <1>3, <1>4, <1>5, <2>1 DEF ClientFine, Statuses
  <2>2. CASE e.op # "finish"
    BY <1>1, <1>2, <1>3, <1>4, <2>2 DEF ClientFine, Statuses
  <2> QED  BY <2>1, <2>2
<1> QED  BY <1>1, <1>2, <1>6, <1>7, <1>8, <1>9, <1>10, <1>11, <1>12
         DEF ClientFine, Requests

(* A coroutine that gRPC has answered ends and reports.                    *)
LEMMA CallEnds ==
  ASSUME CallsAssumption, ClientTyped, ClientFine, NEW c \in Client!Coroutines,
         AtStep(c), inflight = {}, resumed' = Client!Nothing,
         NEW x \in {"ok", "error", "cancelled"}, Client!End(c, x),
         x = "error" => status = "error",
         x = "ok" /\ (c \in Enders \/ ~isFinished) => status = "ok",
         isStarted' \in BOOLEAN,
         isStarted => isStarted',
         isStarted' # isStarted => "start" \in called,
         UNCHANGED <<kind, last, isFinished, finishSts, status, inflight, called,
                     aborted, handle, confused>>
  PROVE  ClientTyped' /\ ClientFine'
<1>1. /\ call \in Client!Coroutines
      /\ \A d \in Client!Coroutines \ {call} : d \in Enders
      /\ \A d \in Enders : d \in Client!Coroutines /\ d # call
  BY Parties
<1>2. /\ pc'[c] = "done" /\ callOutcome'[c] = x
      /\ \A d \in Client!Coroutines \ {c} :
           pc'[d] = pc[d] /\ callOutcome'[d] = callOutcome[d]
  BY DEF Client!End, ClientTyped
<1>3. ClientTyped'
  BY DEF ClientTyped, Client!End
<1>4. Serial' /\ OneOperation'
  BY <1>2 DEF ClientFine, Serial, OneOperation, Client!Busy
<1>5. OfUnary'
  BY <1>1, <1>2 DEF ClientFine, Requests, OfUnary, AtStep
<1>6. OfStream'
  BY <1>1, <1>2 DEF ClientFine, Requests, OfStream
<1>7. OfWriter'
  BY <1>1, <1>2 DEF ClientFine, Requests, OfWriter, Client!Busy
<1>8. OfEnders'
  BY <1>1, <1>2 DEF ClientFine, Requests, OfEnders, Client!Busy
<1>9. Statuses'
  BY <1>2 DEF ClientFine, Statuses
<1> QED  BY <1>3, <1>4, <1>5, <1>6, <1>7, <1>8, <1>9 DEF ClientFine, Requests

(* A call that has started hands the transfer of a message to gRPC.        *)
LEMMA ClientTransfers ==
  ASSUME CallsAssumption, ClientTyped, ClientFine, kind # "unary",
         pc[call] = "step", inflight = {}, resumed' = Client!Nothing, "start" \in called,
         NEW o \in {"read", "write"}, o = "write" => kind = "writer",
         Client!Step(call, o),
         last' = [last EXCEPT ![call] = o], isStarted' = TRUE,
         UNCHANGED <<kind, pc, callOutcome, isFinished, finishSts, status, confused>>
  PROVE  ClientTyped' /\ ClientFine'
<1>1. /\ call \in Client!Coroutines
      /\ \A d \in Client!Coroutines \ {call} : d \in Enders
      /\ \A d \in Enders : d \in Client!Coroutines /\ d # call
  BY Parties
<1>2. /\ Client!Busy(call) /\ o \in Client!Operations
      /\ pc' = [pc EXCEPT ![call] = "step"]
  BY <1>1 DEF Client!Busy, Client!Operations, ClientTyped
<1>3. ~Client!Rejected(o)
  BY <1>2 DEF Client!Rejected, ClientFine, Requests, OfWriter
<1>4. /\ ~aborted' /\ ~confused' /\ Serial' /\ OneOperation'
      /\ inflight' = {[op |-> o, by |-> call]} /\ called' = called \cup {o}
  BY <1>1, <1>2, <1>3, StepTaken
<1>5. last'[call] = o /\ \A d \in Client!Coroutines \ {call} : last'[d] = last[d]
  BY <1>1 DEF ClientTyped
<1>6. ClientTyped'
  BY <1>2 DEF ClientTyped
<1>7. OfUnary' /\ OfWriter'
  BY <1>1, <1>4 DEF ClientFine, Requests, OfUnary, OfWriter, Client!Busy
<1>8. OfStream'
  BY <1>1, <1>4, <1>5 DEF ClientFine, Requests, OfStream
<1>9. OfEnders'
  BY <1>1, <1>4, <1>5 DEF ClientFine, Requests, OfEnders, Client!Busy
<1>10. Statuses'
  BY <1>4 DEF ClientFine, Statuses
<1> QED  BY <1>4, <1>6, <1>7, <1>8, <1>9, <1>10 DEF ClientFine, Requests

LEMMA ClientResume ==
  ASSUME CallsAssumption, ClientInv, NEW c \in Client!Coroutines, Client!Resume(c),
         misuse' = {}
  PROVE  ClientTyped' /\ ClientFine'
<1>1. ClientTyped /\ misuse = {} /\ ClientFine
  BY DEF ClientInv, Client!Resume
<1>2. /\ resumed.by = c /\ resumed' = Client!Nothing
      /\ UNCHANGED <<kind, isFinished, status>>
  BY DEF Client!Resume
<1>3. /\ call \in Client!Coroutines /\ c # nobody
      /\ \A d \in Client!Coroutines \ {call} : d \in Enders
      /\ \A d \in Enders : d \in Client!Coroutines /\ d # call
  BY Parties
<1>4. /\ AtStep(c) /\ inflight = {}
      /\ ForStatus(c) => resumed.ok /\ status # "none"
  <2>1. resumed # Client!Nothing
    BY <1>2, <1>3 DEF Client!Nothing
  <2> QED  BY <1>1, <1>2, <2>1 DEF ClientFine, OneOperation
<1>5. /\ finishSts # "none" => status = finishSts
      /\ status # "none" => status = finishSts
      /\ Client!Busy(c)
  BY <1>1, <1>4, Alone DEF AtStep, Client!Busy
<1>6. /\ kind # "unary" => "start" \in called
      /\ c \in Enders /\ pc[c] = "step" => last[c] = "writesDone"
      /\ kind = "unary" => c = call /\ pc[c] = "step" /\ last[c] = "finish"
  BY <1>1, <1>3, <1>4 DEF ClientFine, Requests, OfUnary, OfStream, OfEnders, AtStep
<1>7. /\ Client!Report(c, finishSts) \in {"ok", "error", "cancelled"}
      /\ Client!Report(c, finishSts) = "error" => finishSts = "error"
      /\ Client!Report(c, finishSts) = "ok" => finishSts # "error"
  BY DEF Client!Report
<1>8. CASE Client!StepFailed(c)
  <2>1. CASE finishSts # "none"
    <3>1. /\ Client!End(c, Client!Report(c, finishSts))
          /\ UNCHANGED <<last, isStarted, finishSts, inflight, called, aborted, handle,
                         confused>>
      BY <1>8, <2>1 DEF Client!StepFailed, Client!ReadFinishStatus, Client!NoStep
    <3>2. Client!Report(c, finishSts) = "ok" => finishSts = "ok"
      BY <1>1, <1>7, <2>1 DEF ClientTyped
    <3>3. isStarted' \in BOOLEAN
      BY <1>1, <3>1 DEF ClientTyped
    <3> QED  BY <1>1, <1>2, <1>4, <1>5, <1>7, <2>1, <3>1, <3>2, <3>3, CallEnds
  <2>2. CASE finishSts = "none"
    <3>1. /\ kind # "unary" /\ finishSts' = "ok" /\ Client!Step(c, "finish")
          /\ pc' = [pc EXCEPT ![c] = "statusStep"]
          /\ UNCHANGED <<last, callOutcome, isStarted, confused>>
      BY <1>8, <2>2 DEF Client!StepFailed, Client!ReadFinishStatus
    <3> QED  BY <1>1, <1>2, <1>4, <1>5, <1>6, <2>2, <3>1, AskForStatus
  <2> QED  BY <2>1, <2>2
<1>9. CASE Client!UnaryFinished(c)
  <2>1. /\ kind = "unary"
        /\ Client!End(c, IF resumed.ok THEN finishSts ELSE "cancelled")
        /\ UNCHANGED <<last, isStarted, finishSts, inflight, called, aborted, handle,
                       confused>>
    BY <1>9 DEF Client!UnaryFinished, Client!NoStep
  <2>2. resumed.ok /\ status = finishSts /\ finishSts \in {"ok", "error"}
    BY <1>1, <1>4, <1>5, <2>1 DEF ClientTyped, ForStatus
  <2>3. Client!End(c, finishSts) /\ isStarted' \in BOOLEAN
    BY <1>1, <2>1, <2>2 DEF ClientTyped
  <2> QED  BY <1>1, <1>2, <1>4, <2>1, <2>2, <2>3, CallEnds
<1>10. CASE Client!Started(c)
  <2>1. /\ pc[c] = "step" /\ last[c] = "start" /\ isStarted' = TRUE
        /\ UNCHANGED <<finishSts, confused>>
    BY <1>10 DEF Client!Started
  <2>2. c = call /\ kind # "unary" /\ "start" \in called
    BY <1>3, <1>6, <2>1
  <2>3. CASE kind = "reader" /\ isFinished
    <3>1. /\ Client!End(c, "ok")
          /\ UNCHANGED <<last, inflight, called, aborted, handle>>
      BY <1>10, <2>3 DEF Client!Started, Client!NoStep
    <3> QED  BY <1>1, <1>2, <1>3, <1>4, <2>1, <2>2, <2>3, <3>1, CallEnds
  <2>4. CASE ~(kind = "reader" /\ isFinished)
    <3> DEFINE o == IF kind = "reader" THEN "read" ELSE "write"
    <3>1. /\ Client!Step(call, o) /\ last' = [last EXCEPT ![call] = o]
          /\ UNCHANGED <<pc, callOutcome>>
      BY <1>10, <2>2, <2>4 DEF Client!Started
    <3>2. o \in {"read", "write"} /\ (o = "write" => kind = "writer")
      BY <1>1, <2>2 DEF ClientTyped
    <3> HIDE DEF o
    <3> QED  BY <1>1, <1>2, <1>4, <2>1, <2>2, <3>1, <3>2, ClientTransfers
  <2> QED  BY <2>3, <2>4
<1>11. CASE Client!Transferred(c)
  <2>1. /\ pc[c] = "step" /\ last[c] \in {"read", "write"}
        /\ pc' = [pc EXCEPT ![c] = "yielded"]
        /\ UNCHANGED <<last, callOutcome, isStarted, finishSts, inflight, called, aborted,
                       handle, confused>>
    BY <1>11 DEF Client!Transferred, Client!NoStep
  <2>2. c = call /\ kind # "unary" /\ isStarted
    BY <1>1, <1>3, <1>6, <2>1 DEF ClientFine, Requests, OfStream
  <2>3. pc'[call] = "yielded" /\ \A d \in Client!Coroutines \ {call} : pc'[d] = pc[d]
    BY <1>1, <1>3, <2>1, <2>2 DEF ClientTyped
  <2>4. ClientTyped'
    BY <1>1, <1>2, <2>1 DEF ClientTyped
  <2>5. Serial' /\ OneOperation'
    BY <1>1, <1>2, <1>4, <2>1, <2>2, <2>3 DEF ClientFine, Serial, OneOperation, Client!Busy
  <2>6. OfUnary' /\ OfWriter'
    BY <1>1, <1>2, <2>1, <2>2, <2>3
       DEF ClientFine, Requests, OfUnary, OfWriter, Client!Busy
  <2>7. OfStream'
    BY <1>1, <1>2, <1>6, <2>1, <2>2, <2>3 DEF ClientFine, Requests, OfStream
  <2>8. OfEnders'
    BY <1>1, <1>2, <1>3, <2>1, <2>3 DEF ClientFine, Requests, OfEnders, Client!Busy
  <2>9. Statuses'
    BY <1>1, <1>2, <2>1 DEF ClientFine, Statuses
  <2> QED  BY <1>1, <2>1, <2>4, <2>5, <2>6, <2>7, <2>8, <2>9 DEF ClientFine, Requests
<1>12. CASE Client!StatusRead(c)
  <2>1. /\ pc[c] = "statusStep"
        /\ Client!End(c, IF resumed.ok THEN Client!Report(c, finishSts) ELSE "cancelled")
        /\ UNCHANGED <<last, isStarted, finishSts, inflight, called, aborted, handle,
                       confused>>
    BY <1>12 DEF Client!StatusRead, Client!NoStep
  <2>2. resumed.ok /\ status = finishSts /\ finishSts \in {"ok", "error"}
    BY <1>1, <1>4, <1>5, <2>1 DEF ClientTyped, ForStatus
  <2>3. Client!End(c, Client!Report(c, finishSts)) /\ isStarted' \in BOOLEAN
    BY <1>1, <2>1, <2>2 DEF ClientTyped
  <2> QED  BY <1>1, <1>2, <1>4, <1>7, <2>1, <2>2, <2>3, CallEnds
<1>13. ~Client!Stray(c)
  BY <1>4 DEF Client!Stray, AtStep
<1> QED  BY <1>8, <1>9, <1>10, <1>11, <1>12, <1>13 DEF Client!Resume

LEMMA ClientStep ==
  ASSUME CallsAssumption, ClientInv, MCNext
  PROVE  ClientInv'
<1>1. CASE UNCHANGED clientVars
  BY <1>1 DEF clientVars, ClientInv, ClientTyped, ClientFine, Serial, OneOperation, Requests,
     OfUnary, OfStream, OfWriter, OfEnders, Statuses, AtStep, ForStatus, Client!Busy
<1>2. CASE Client!Next
  <2>1. CASE misuse' = {}
    <3>1. CASE Client!Continue
      BY <2>1, <3>1, ClientContinue DEF ClientInv
    <3>2. CASE \E c \in Enders : Client!Finish(c) \/ Client!Release(c)
      BY <2>1, <3>2, ClientFinish, ClientRelease DEF ClientInv
    <3>3. CASE Client!Complete
      BY <2>1, <3>3, ClientComplete DEF ClientInv
    <3>4. CASE \E c \in Client!Coroutines :
                 Client!Hopped(c) \/ Client!HoppedForStatus(c) \/ Client!Resume(c)
      BY <2>1, <3>4, ClientHopped, ClientHoppedForStatus, ClientResume DEF ClientInv
    <3> QED  BY <1>2, <3>1, <3>2, <3>3, <3>4 DEF Client!Next, Client!QueueThread
  <2> QED  BY <2>1 DEF ClientInv
<1> QED  BY <1>1, <1>2 DEF MCNext

LEMMA ClientInvariance ==
  ASSUME CallsAssumption
  PROVE  MCSpec => []ClientInv
<1>1. MCInit => ClientInv
  BY ClientInit DEF MCInit
<1>2. ClientInv /\ [MCNext]_allVars => ClientInv'
  <2>1. ASSUME ClientInv, UNCHANGED allVars
        PROVE  ClientInv'
    BY <2>1 DEF allVars, clientVars, ClientInv, ClientTyped, ClientFine, Serial, OneOperation,
       Requests, OfUnary, OfStream, OfWriter, OfEnders, Statuses, AtStep, ForStatus, Client!Busy
  <2> QED  BY <2>1, ClientStep
<1>3. MCSpec => MCInit /\ [][MCNext]_allVars
  BY PTL DEF MCSpec
<1> QED  BY <1>1, <1>2, <1>3, PTL

(* Users that do one thing at a time are served as they expect: gRPC has   *)
(* at most one operation of the call, never aborts, and resumes whoever    *)
(* waits for the operation that it completes.                              *)
THEOREM OneThingAtATime ==
  ASSUME CallsAssumption
  PROVE  MCSpec => []OnlyMisuseBreaks
<1>1. ASSUME ClientInv
      PROVE  OnlyMisuseBreaks
  <2> SUFFICES ASSUME misuse = {}
               PROVE  /\ ~aborted /\ ~confused
                      /\ Client!Cardinality(inflight) <= 1
                      /\ \A e \in inflight : e.by = handle /\ pc[e.by] \in {"step", "statusStep"}
    BY DEF OnlyMisuseBreaks, Client!OnlyMisuseBreaks
  <2>1. ClientFine
    BY <1>1 DEF ClientInv
  <2>2. Client!Cardinality(inflight) <= 1
    <3>1. CASE inflight = {}
      <4>1. Cardinality(inflight) = 0
        BY <3>1, FS_EmptySet
      <4> QED  BY <4>1 DEF Cardinality, Client!Cardinality
    <3>2. CASE inflight # {}
      <4>1. PICK e \in inflight : inflight = {e}
        BY <2>1, <3>2 DEF ClientFine, OneOperation
      <4>2. Cardinality(inflight) = 1
        BY <4>1, FS_Singleton
      <4> QED  BY <4>2 DEF Cardinality, Client!Cardinality
    <3> QED  BY <3>1, <3>2
  <2> QED  BY <2>1, <2>2 DEF ClientFine, OneOperation, AtStep
<1>2. MCSpec => []ClientInv
  BY ClientInvariance
<1> QED  BY <1>1, <1>2, PTL

(* What finish(), release() and the call report of the status is how the   *)
(* call ended, never the OK that is there before Finish has completed.     *)
THEOREM StatusIsTheCalls ==
  ASSUME CallsAssumption
  PROVE  MCSpec => []TruthfulStatus
<1>1. ClientInv => TruthfulStatus
  BY DEF ClientInv, ClientFine, Statuses, TruthfulStatus, Client!TruthfulStatus
<1>2. MCSpec => []ClientInv
  BY ClientInvariance
<1> QED  BY <1>1, <1>2, PTL

-----------------------------------------------------------------------------
(* GrpcServerCalls *)

Has(p) == \E ok \in BOOLEAN : <<p, ok>> \in events

(* A call of a client that has no answer yet is with p.                    *)
Serves(p) ==
  \/ payloadPc[p] \in Service!InCall /\ ~(payloadPc[p] = "finishing" /\ Has(p))
  \/ payloadPc[p] = "listening" /\ <<p, TRUE>> \in events

InProgress == {p \in Payloads : Serves(p)}

Counted == calls = answers + Cardinality(InProgress)

(* A payload has one event at most, which it waits for; gRPC refuses a     *)
(* request only when the server is shut down.                              *)
EventsFit ==
  \A p \in Payloads :
    /\ Has(p) => payloadPc[p] \in Service!Hops \cup Service!Operations
    /\ ~(<<p, TRUE>> \in events /\ <<p, FALSE>> \in events)
    /\ payloadPc[p] = "listening" /\ <<p, FALSE>> \in events => server = "shutdown"

Stages ==
  /\ server = "built" <=> control = "new"
  /\ server = "running" <=> control = "started"
  /\ queueOpen <=> control \in {"new", "started", "stopping"}
  /\ queueOpen => ~serviceAborted
  /\ control \in {"new", "started"} => ~early
  /\ control = "new" => calls = 0 /\ \A p \in Payloads : payloadPc[p] = "free"
  /\ thread = "ended" => ~queueOpen
  /\ control = "waited" => thread = "ended"

Listener ==
  server = "running" =>
    \E p \in Payloads : \A q \in Payloads :
      payloadPc[q] \in {"requestHop", "listening"} <=> q = p

(* Once the queue is shut down what is left is to be told that it has      *)
(* ended; nothing asks gRPC for more.                                      *)
Over(p) ==
  \/ payloadPc[p] = "free"
  \/ payloadPc[p] = "finishing" /\ Has(p)
  \/ payloadPc[p] = "listening" /\ <<p, FALSE>> \in events

Quiet ==
  /\ ~serviceAborted
  /\ control \notin {"new", "started"} => \A p \in Payloads : payloadPc[p] # "requestHop"
  /\ ~queueOpen => answers = calls /\ \A p \in Payloads : Over(p)
  /\ thread = "ended" => events = {}

ServiceTyped ==
  /\ method \in {"unary", "writer", "reader"}
  /\ payloadPc \in [Payloads -> {"free", "listening", "requestHop"} \cup Service!InCall]
  /\ exhausted \subseteq Payloads
  /\ events \subseteq Payloads \X BOOLEAN
  /\ server \in {"built", "running", "shutdown"} /\ queueOpen \in BOOLEAN
  /\ thread \in {"none", "running", "ended"}
  /\ control \in {"new", "started", "stopping", "stopped", "waited"}
  /\ calls \in 0 .. MaxCalls /\ answers \in Nat
  /\ early \in BOOLEAN /\ serviceAborted \in BOOLEAN

ServiceInv ==
  /\ ServiceTyped /\ Counted /\ EventsFit /\ Stages /\ Listener
  /\ ~early => Quiet

LEMMA InProgressFinite ==
  ASSUME CallsAssumption
  PROVE  /\ IsFiniteSet(InProgress) /\ Cardinality(InProgress) \in Nat
         /\ IsFiniteSet(InProgress') /\ Cardinality(InProgress') \in Nat
<1>1. IsFiniteSet(Payloads)
  BY DEF CallsAssumption, Service!ServiceAssumption, IsFiniteSet, Service!IsFiniteSet
<1>2. InProgress \subseteq Payloads /\ InProgress' \subseteq Payloads
  BY DEF InProgress
<1> QED  BY <1>1, <1>2, FS_Subset, FS_CardinalityType

LEMMA ServiceInit ==
  ASSUME CallsAssumption, Service!Init
  PROVE  ServiceInv
<1> USE DEF Service!Init
<1>1. ServiceTyped
  <2>1. calls \in 0..MaxCalls /\ answers \in Nat
    BY DEF CallsAssumption, Service!ServiceAssumption
  <2>2. payloadPc \in [Payloads -> {"free", "listening", "requestHop"} \cup Service!InCall]
    OBVIOUS
  <2> QED  BY <2>1, <2>2 DEF ServiceTyped
<1>2. InProgress = {}
  BY DEF InProgress, Serves, Service!InCall
<1>3. Counted
  BY <1>2, FS_EmptySet DEF Counted
<1>4. EventsFit /\ Stages /\ Listener /\ Quiet
  BY DEF EventsFit, Has, Stages, Listener, Quiet
<1> QED  BY <1>1, <1>3, <1>4 DEF ServiceInv

(* gRPC, the clients and the alarms: what p waits for becomes an event.    *)
LEMMA NewEvent ==
  ASSUME CallsAssumption, ServiceInv, NEW p \in Payloads, NEW ok \in BOOLEAN,
         Service!Awaited(p), events' = events \cup {<<p, ok>>},
         payloadPc[p] \in Service!Hops \cup Service!Operations,
         payloadPc[p] = "listening" => IF ok THEN server = "running" ELSE server = "shutdown",
         UNCHANGED <<method, payloadPc, exhausted, server, queueOpen, thread, control,
                     early, serviceAborted>>,
         calls' = IF payloadPc[p] = "listening" /\ ok THEN calls + 1 ELSE calls,
         calls' \in 0..MaxCalls,
         answers' = IF payloadPc[p] = "finishing" THEN answers + 1 ELSE answers
  PROVE  ServiceInv'
<1>1. /\ ServiceTyped /\ Counted /\ EventsFit /\ Stages /\ Listener
      /\ ~early => Quiet
  BY DEF ServiceInv
<1>2. ServiceTyped'
  BY <1>1 DEF ServiceTyped
<1>3. /\ \A q \in Payloads, b \in BOOLEAN :
           <<q, b>> \in events' <=> <<q, b>> \in events \/ (q = p /\ b = ok)
      /\ \A b \in BOOLEAN : <<p, b>> \notin events
  BY DEF Service!Awaited
<1>4. /\ ~Has(p) /\ Has(p)'
      /\ \A q \in Payloads \ {p} : Has(q)' <=> Has(q)
  BY <1>3 DEF Has
<1>5. EventsFit'
  BY <1>1, <1>3, <1>4 DEF EventsFit
<1>6. Stages'
  BY <1>1 DEF Stages, ServiceTyped, Service!Hops, Service!Operations
<1>7. Listener'
  BY <1>1 DEF Listener
<1>8. Counted'
  <2>1. \A q \in Payloads \ {p} : Serves(q)' <=> Serves(q)
    BY <1>3, <1>4 DEF Serves
  <2>2. CASE payloadPc[p] = "listening" /\ ok
    <3>1. ~Serves(p) /\ Serves(p)'
      BY <1>3, <2>2 DEF Serves, Service!InCall
    <3>2. InProgress' = InProgress \cup {p} /\ p \notin InProgress
      BY <2>1, <3>1 DEF InProgress
    <3>3. Cardinality(InProgress') = Cardinality(InProgress) + 1
      BY <3>2, InProgressFinite, FS_AddElement
    <3> QED  BY <1>1, <2>2, <3>3, InProgressFinite DEF Counted, ServiceTyped
  <2>3. CASE payloadPc[p] = "finishing"
    <3>1. Serves(p) /\ ~Serves(p)'
      BY <1>4, <2>3 DEF Serves, Service!InCall
    <3>2. InProgress' = InProgress \ {p} /\ p \in InProgress
      BY <2>1, <3>1 DEF InProgress
    <3>3. Cardinality(InProgress') = Cardinality(InProgress) - 1
      BY <3>2, InProgressFinite, FS_RemoveElement
    <3> QED  BY <1>1, <2>3, <3>3, InProgressFinite DEF Counted, ServiceTyped
  <2>4. CASE ~(payloadPc[p] = "listening" /\ ok) /\ payloadPc[p] # "finishing"
    <3>1. Serves(p)' <=> Serves(p)
      BY <1>3, <2>4 DEF Serves
    <3>2. InProgress' = InProgress
      BY <2>1, <3>1 DEF InProgress
    <3> QED  BY <1>1, <2>4, <3>2 DEF Counted
  <2> QED  BY <2>2, <2>3, <2>4
<1>9. ASSUME ~early
      PROVE  Quiet'
  <2>1. Quiet
    BY <1>1, <1>9
  <2>2. queueOpen
    <3>1. ~Over(p)
      BY <1>3, <1>4 DEF Over, Service!Hops, Service!Operations
    <3> QED  BY <2>1, <3>1 DEF Quiet
  <2>3. thread # "ended"
    BY <1>1, <2>2 DEF Stages
  <2> QED  BY <2>1, <2>2, <2>3 DEF Quiet
<1> QED  BY <1>2, <1>5, <1>6, <1>7, <1>8, <1>9 DEF ServiceInv

LEMMA ServiceNewEvent ==
  ASSUME CallsAssumption, ServiceInv, NEW p \in Payloads,
         Service!Fire(p) \/ Service!Accept(p) \/ Service!Refuse(p) \/ Service!Transfer(p)
  PROVE  ServiceInv'
<1>1. ServiceTyped
  BY DEF ServiceInv
<1>2. CASE Service!Fire(p)
  BY <1>1, <1>2, NewEvent
     DEF Service!Fire, Service!Unchanged, Service!Hops, Service!Operations, ServiceTyped
<1>3. CASE Service!Accept(p)
  <2>1. calls' \in 0..MaxCalls
    BY <1>1, <1>3 DEF Service!Accept, ServiceTyped, CallsAssumption, Service!ServiceAssumption
  <2> QED  BY <1>1, <1>3, <2>1, NewEvent DEF Service!Accept, Service!Operations
<1>4. CASE Service!Refuse(p)
  BY <1>1, <1>4, NewEvent DEF Service!Refuse, Service!Unchanged, Service!Operations, ServiceTyped
<1>5. CASE Service!Transfer(p)
  BY <1>1, <1>5, NewEvent
     DEF Service!Transfer, Service!Unchanged, Service!Operations, ServiceTyped
<1> QED  BY <1>2, <1>3, <1>4, <1>5

(* A payload moves on to pcs that ask for nothing new; what is counted as  *)
(* in progress stays.                                                      *)
LEMMA SameInProgress ==
  ASSUME CallsAssumption, Counted, \A q \in Payloads : Serves(q)' <=> Serves(q),
         UNCHANGED <<calls, answers>>
  PROVE  Counted'
<1>1. InProgress' = InProgress
  BY DEF InProgress
<1> QED  BY <1>1 DEF Counted

(* The unit answers.                                                       *)
LEMMA ServiceUnit ==
  ASSUME CallsAssumption, ServiceInv, NEW p \in Payloads,
         \/ Service!Identified(p) \/ Service!UnitYields(p)
         \/ Service!UnitReads(p) \/ Service!UnitDone(p)
  PROVE  ServiceInv'
<1>1. /\ ServiceTyped /\ Counted /\ EventsFit /\ Stages /\ Listener
      /\ ~early => Quiet
  BY DEF ServiceInv
<1>2. PICK next \in {"startHop", "writeHop", "readHop", "finishHop"} :
        /\ payloadPc[p] \in {"identify", "unit"}
        /\ payloadPc' = [payloadPc EXCEPT ![p] = next]
        /\ serviceAborted' = ~queueOpen
        /\ UNCHANGED <<exhausted, events, queueOpen, answers, method, server, thread, control,
                       calls, early>>
  BY DEF Service!Identified, Service!UnitYields, Service!UnitReads, Service!UnitDone,
         Service!UnitAnswers, Service!Unchanged
<1>3. payloadPc'[p] = next /\ \A q \in Payloads \ {p} : payloadPc'[q] = payloadPc[q]
  BY <1>1, <1>2 DEF ServiceTyped
<1>4. ServiceTyped'
  BY <1>1, <1>2 DEF ServiceTyped, Service!InCall
<1>5. \A q \in Payloads : Has(q)' <=> Has(q)
  BY <1>2 DEF Has
<1>6. ~Has(p)
  BY <1>1, <1>2 DEF EventsFit, Service!Hops, Service!Operations
<1>7. EventsFit'
  BY <1>1, <1>2, <1>3, <1>5, <1>6 DEF EventsFit
<1>8. Stages'
  BY <1>1, <1>2, <1>3 DEF Stages, ServiceTyped
<1>9. Listener'
  <2>1. \A q \in Payloads :
          payloadPc'[q] \in {"requestHop", "listening"} <=>
            payloadPc[q] \in {"requestHop", "listening"}
    BY <1>2, <1>3
  <2> QED  BY <1>1, <1>2, <2>1 DEF Listener
<1>10. Counted'
  <2>1. \A q \in Payloads : Serves(q)' <=> Serves(q)
    BY <1>2, <1>3, <1>5 DEF Serves, Service!InCall
  <2> QED  BY <1>1, <1>2, <2>1, SameInProgress
<1>11. ASSUME ~early
       PROVE  Quiet'
  <2>1. Quiet
    BY <1>1, <1>11
  <2>2. queueOpen
    <3>1. ~Over(p)
      BY <1>2 DEF Over
    <3> QED  BY <2>1, <3>1 DEF Quiet
  <2> QED  BY <1>2, <1>3, <2>1, <2>2 DEF Quiet
<1> QED  BY <1>2, <1>4, <1>7, <1>8, <1>9, <1>10, <1>11 DEF ServiceInv

(* start(), stop() and wait() of the runtime; the end of the thread.       *)
LEMMA ServiceStart ==
  ASSUME CallsAssumption, ServiceInv, Service!Start
  PROVE  ServiceInv'
<1>1. /\ ServiceTyped /\ Counted /\ EventsFit /\ Stages /\ Listener
      /\ ~early => Quiet
  BY DEF ServiceInv
<1>2. PICK p \in Payloads :
        /\ control = "new" /\ control' = "started" /\ server' = "running"
        /\ thread' = "running"
        /\ payloadPc' = [payloadPc EXCEPT ![p] = "requestHop"]
        /\ UNCHANGED <<method, exhausted, events, queueOpen, calls, answers, early,
                       serviceAborted>>
  BY DEF Service!Start
<1>3. payloadPc'[p] = "requestHop" /\ \A q \in Payloads \ {p} : payloadPc'[q] = payloadPc[q]
  BY <1>1, <1>2 DEF ServiceTyped
<1>4. \A q \in Payloads : payloadPc[q] = "free" /\ ~Has(q) /\ ~Has(q)'
  BY <1>1, <1>2 DEF Stages, EventsFit, Has, Service!Hops, Service!Operations
<1>5. ServiceTyped'
  BY <1>1, <1>2 DEF ServiceTyped
<1>6. EventsFit'
  BY <1>2, <1>4 DEF EventsFit, Has
<1>7. Stages'
  BY <1>1, <1>2 DEF Stages
<1>8. Listener'
  BY <1>3, <1>4 DEF Listener
<1>9. Counted'
  <2>1. \A q \in Payloads : ~Serves(q) /\ ~Serves(q)'
    BY <1>2, <1>3, <1>4 DEF Serves, Service!InCall
  <2> QED  BY <1>1, <1>2, <2>1, SameInProgress
<1>10. Quiet'
  BY <1>1, <1>2 DEF Quiet, Stages
<1> QED  BY <1>5, <1>6, <1>7, <1>8, <1>9, <1>10 DEF ServiceInv

LEMMA ServiceShutdown ==
  ASSUME CallsAssumption, ServiceInv, Service!Shutdown
  PROVE  ServiceInv'
<1>1. /\ ServiceTyped /\ Counted /\ EventsFit /\ Stages /\ Listener
      /\ ~early => Quiet
  BY DEF ServiceInv
<1>2. /\ control = "started" /\ control' = "stopping" /\ server' = "shutdown"
      /\ early' = \E p \in Payloads : payloadPc[p] = "requestHop"
      /\ UNCHANGED <<method, payloadPc, exhausted, events, queueOpen, thread, calls, answers,
                     serviceAborted>>
  BY DEF Service!Shutdown
<1>3. ServiceTyped'
  BY <1>1, <1>2 DEF ServiceTyped
<1>4. \A q \in Payloads : (Has(q)' <=> Has(q)) /\ (Serves(q)' <=> Serves(q))
  BY <1>2 DEF Has, Serves
<1>5. EventsFit'
  BY <1>1, <1>2, <1>4 DEF EventsFit
<1>6. Stages'
  BY <1>1, <1>2 DEF Stages
<1>7. Listener'
  BY <1>2 DEF Listener
<1>8. Counted'
  BY <1>1, <1>2, <1>4, SameInProgress
<1>9. ~early' => Quiet'
  BY <1>1, <1>2 DEF Quiet, Stages
<1> QED  BY <1>3, <1>5, <1>6, <1>7, <1>8, <1>9 DEF ServiceInv

(* The calls are answered and the requests refused: nothing is left but    *)
(* what has only to hear of its end.                                       *)
LEMMA ServiceStopWorker ==
  ASSUME CallsAssumption, ServiceInv, Service!StopWorker
  PROVE  ServiceInv'
<1>1. /\ ServiceTyped /\ Counted /\ EventsFit /\ Stages /\ Listener
      /\ ~early => Quiet
  BY DEF ServiceInv
<1>2. /\ control = "stopping" /\ answers = calls
      /\ \A p \in Payloads : payloadPc[p] = "listening" => Has(p)
      /\ control' = "stopped" /\ queueOpen' = FALSE
      /\ UNCHANGED <<method, payloadPc, exhausted, events, server, thread, calls, answers,
                     early, serviceAborted>>
  BY DEF Service!StopWorker, Service!Awaited, Has
<1>3. ServiceTyped'
  BY <1>1, <1>2 DEF ServiceTyped
<1>4. \A q \in Payloads : (Has(q)' <=> Has(q)) /\ (Serves(q)' <=> Serves(q))
  BY <1>2 DEF Has, Serves
<1>5. EventsFit'
  BY <1>1, <1>2, <1>4 DEF EventsFit
<1>6. Stages'
  BY <1>1, <1>2 DEF Stages
<1>7. Listener'
  BY <1>1, <1>2 DEF Listener
<1>8. Counted'
  BY <1>1, <1>2, <1>4, SameInProgress
<1>9. ASSUME ~early
      PROVE  Quiet'
  <2>1. Quiet
    BY <1>1, <1>9
  <2>2. InProgress = {}
    <3>1. Cardinality(InProgress) = 0
      BY <1>1, <1>2, InProgressFinite DEF Counted, ServiceTyped
    <3> QED  BY <3>1, InProgressFinite, FS_EmptySet
  <2>3. ASSUME NEW p \in Payloads
        PROVE  Over(p)'
    <3>1. ~Serves(p)
      BY <2>2 DEF InProgress
    <3>2. payloadPc[p] # "requestHop"
      BY <1>2, <2>1 DEF Quiet
    <3>3. payloadPc[p] \in {"free", "listening"} \cup Service!InCall
      BY <1>1, <3>2 DEF ServiceTyped
    <3>4. Over(p)
      BY <1>2, <3>1, <3>3 DEF Serves, Over, Has
    <3> QED  BY <1>2, <1>4, <3>4 DEF Over
  <2> QED  BY <1>1, <1>2, <2>1, <2>3 DEF Quiet, Stages
<1> QED  BY <1>2, <1>3, <1>5, <1>6, <1>7, <1>8, <1>9 DEF ServiceInv

LEMMA ServiceEnds ==
  ASSUME CallsAssumption, ServiceInv, Service!Wait \/ Service!ThreadEnds
  PROVE  ServiceInv'
<1>1. /\ ServiceTyped /\ Counted /\ EventsFit /\ Stages /\ Listener
      /\ ~early => Quiet
  BY DEF ServiceInv
<1>2. /\ \/ control = "stopped" /\ thread = "ended" /\ control' = "waited" /\ thread' = thread
         \/ ~queueOpen /\ events = {} /\ thread' = "ended" /\ control' = control
      /\ UNCHANGED <<method, payloadPc, exhausted, events, server, queueOpen, calls, answers,
                     early, serviceAborted>>
  BY DEF Service!Wait, Service!ThreadEnds
<1>3. ServiceTyped'
  BY <1>1, <1>2 DEF ServiceTyped
<1>4. \A q \in Payloads : /\ Has(q)' <=> Has(q)
                          /\ Serves(q)' <=> Serves(q)
                          /\ Over(q)' <=> Over(q)
  BY <1>2 DEF Has, Serves, Over
<1>5. EventsFit'
  BY <1>1, <1>2, <1>4 DEF EventsFit
<1>6. Stages'
  BY <1>1, <1>2 DEF Stages
<1>7. Listener'
  BY <1>1, <1>2 DEF Listener
<1>8. Counted'
  BY <1>1, <1>2, <1>4, SameInProgress
<1>9. ~early => Quiet'
  BY <1>1, <1>2, <1>4 DEF Quiet, Stages
<1> QED  BY <1>2, <1>3, <1>5, <1>6, <1>7, <1>8, <1>9 DEF ServiceInv

(* The queue thread takes the event of a payload, which then stands at     *)
(* `to': it hands gRPC an operation, calls the unit, or ends.              *)
LEMMA TakenEvent ==
  ASSUME CallsAssumption, ServiceInv, NEW p \in Payloads, NEW ok \in BOOLEAN,
         <<p, ok>> \in events, events' = events \ {<<p, ok>>},
         NEW to, payloadPc' = [payloadPc EXCEPT ![p] = to],
         \/ payloadPc[p] = "requestHop" /\ to = "listening"
         \/ payloadPc[p] = "listening" /\ ~ok /\ to = "free"
         \/ payloadPc[p] = "finishing" /\ to = "free"
         \/ /\ payloadPc[p] \in Service!InCall \ {"finishing", "identify", "unit"}
            /\ to \in {"unit", "writing", "reading", "finishing"},
         serviceAborted' \in BOOLEAN, queueOpen => ~serviceAborted',
         serviceAborted' # serviceAborted => payloadPc[p] \notin {"listening", "finishing"},
         exhausted' \subseteq Payloads,
         UNCHANGED <<queueOpen, answers, method, server, thread, control, calls, early>>
  PROVE  ServiceInv'
<1>1. /\ ServiceTyped /\ Counted /\ EventsFit /\ Stages /\ Listener
      /\ ~early => Quiet
  BY DEF ServiceInv
<1>2. payloadPc'[p] = to /\ \A q \in Payloads \ {p} : payloadPc'[q] = payloadPc[q]
  BY <1>1 DEF ServiceTyped
<1>3. to \in {"free", "listening", "requestHop"} \cup Service!InCall
  BY DEF Service!InCall
<1>4. /\ \A b \in BOOLEAN : <<p, b>> \notin events'
      /\ \A q \in Payloads \ {p}, b \in BOOLEAN : <<q, b>> \in events' <=> <<q, b>> \in events
  BY <1>1 DEF EventsFit
<1>5. /\ Has(p) /\ ~Has(p)'
      /\ \A q \in Payloads \ {p} : Has(q)' <=> Has(q)
  BY <1>4 DEF Has
<1>6. ServiceTyped'
  BY <1>1, <1>3 DEF ServiceTyped
<1>7. EventsFit'
  <2>1. ASSUME NEW q \in Payloads \ {p}
        PROVE  /\ Has(q)' => payloadPc'[q] \in Service!Hops \cup Service!Operations
               /\ ~(<<q, TRUE>> \in events' /\ <<q, FALSE>> \in events')
               /\ payloadPc'[q] = "listening" /\ <<q, FALSE>> \in events' =>
                    server' = "shutdown"
    BY <1>1, <1>2, <1>4, <1>5 DEF EventsFit
  <2> QED  BY <1>4, <1>5, <2>1 DEF EventsFit
<1>8. control # "new"
  BY <1>1 DEF Stages, Service!InCall
<1>9. Stages'
  BY <1>1, <1>8 DEF Stages
<1>10. Listener'
  <2>1. CASE server = "running"
    <3>1. payloadPc[p] = "listening" => ok
      BY <1>1, <2>1 DEF EventsFit
    <3>2. \A q \in Payloads :
            payloadPc'[q] \in {"requestHop", "listening"} <=>
              payloadPc[q] \in {"requestHop", "listening"}
      BY <1>2, <3>1 DEF Service!InCall
    <3> QED  BY <1>1, <3>2 DEF Listener
  <2> QED  BY <2>1 DEF Listener
<1>11. Counted'
  <2>1. Serves(p)' <=> Serves(p)
    BY <1>1, <1>2, <1>4, <1>5 DEF Serves, Service!InCall, EventsFit
  <2>2. \A q \in Payloads : Serves(q)' <=> Serves(q)
    BY <1>2, <1>4, <1>5, <2>1 DEF Serves
  <2> QED  BY <1>1, <2>2, SameInProgress
<1>12. ASSUME ~early
       PROVE  Quiet'
  <2>1. Quiet
    BY <1>1, <1>12
  <2>2. ~queueOpen => payloadPc[p] \in {"listening", "finishing"} /\ to = "free"
    <3>1. CASE ~queueOpen
      <4>1. Over(p) /\ payloadPc[p] # "requestHop"
        BY <1>1, <2>1, <3>1 DEF Quiet, Stages
      <4> QED  BY <4>1 DEF Over, Service!InCall
    <3> QED  BY <3>1
  <2>3. ~serviceAborted'
    BY <2>1, <2>2 DEF Quiet
  <2>4. control \notin {"new", "started"} => \A q \in Payloads : payloadPc'[q] # "requestHop"
    BY <1>2, <2>1 DEF Quiet, Service!InCall
  <2>5. ~queueOpen => \A q \in Payloads : Over(q)'
    BY <1>2, <1>4, <1>5, <2>1, <2>2 DEF Quiet, Over
  <2>6. thread = "ended" => events' = {}
    BY <2>1 DEF Quiet
  <2> QED  BY <2>1, <2>3, <2>4, <2>5, <2>6 DEF Quiet
<1> QED  BY <1>6, <1>7, <1>9, <1>10, <1>11, <1>12 DEF ServiceInv

(* A payload gets its call and spawns the payload q of the next one.       *)
LEMMA Spawned ==
  ASSUME CallsAssumption, ServiceInv, NEW p \in Payloads, NEW q \in Payloads,
         <<p, TRUE>> \in events, events' = events \ {<<p, TRUE>>},
         payloadPc[p] = "listening", payloadPc[q] = "free",
         payloadPc' = [payloadPc EXCEPT ![p] = "identify", ![q] = "listening"],
         serviceAborted' = ~queueOpen, exhausted' \subseteq Payloads,
         UNCHANGED <<queueOpen, answers, method, server, thread, control, calls, early>>
  PROVE  ServiceInv'
<1>1. /\ ServiceTyped /\ Counted /\ EventsFit /\ Stages /\ Listener
      /\ ~early => Quiet
  BY DEF ServiceInv
<1>2. /\ p # q /\ payloadPc'[p] = "identify" /\ payloadPc'[q] = "listening"
      /\ \A r \in Payloads \ {p, q} : payloadPc'[r] = payloadPc[r]
  BY <1>1 DEF ServiceTyped
<1>3. /\ \A b \in BOOLEAN : <<p, b>> \notin events'
      /\ \A r \in Payloads \ {p}, b \in BOOLEAN : <<r, b>> \in events' <=> <<r, b>> \in events
  BY <1>1 DEF EventsFit
<1>4. /\ ~Has(p)' /\ ~Has(q) /\ ~Has(q)'
      /\ \A r \in Payloads \ {p} : Has(r)' <=> Has(r)
  <2>1. ~Has(q)
    BY <1>1 DEF EventsFit, Service!Hops, Service!Operations
  <2> QED  BY <1>2, <1>3, <2>1 DEF Has
<1>5. ServiceTyped'
  BY <1>1 DEF ServiceTyped, Service!InCall
<1>6. EventsFit'
  <2>1. ASSUME NEW r \in Payloads \ {p, q}
        PROVE  /\ Has(r)' => payloadPc'[r] \in Service!Hops \cup Service!Operations
               /\ ~(<<r, TRUE>> \in events' /\ <<r, FALSE>> \in events')
               /\ payloadPc'[r] = "listening" /\ <<r, FALSE>> \in events' =>
                    server' = "shutdown"
    BY <1>1, <1>2, <1>3, <1>4 DEF EventsFit
  <2>2. /\ \A b \in BOOLEAN : <<q, b>> \notin events'
    BY <1>4 DEF Has
  <2> QED  BY <1>3, <1>4, <2>1, <2>2 DEF EventsFit
<1>7. Stages'
  BY <1>1 DEF Stages, ServiceTyped
<1>8. Listener'
  <2>1. CASE server = "running"
    <3>1. \A r \in Payloads : payloadPc[r] \in {"requestHop", "listening"} <=> r = p
      BY <1>1, <2>1 DEF Listener
    <3>2. \A r \in Payloads : payloadPc'[r] \in {"requestHop", "listening"} <=> r = q
      BY <1>2, <3>1
    <3> QED  BY <3>2 DEF Listener
  <2> QED  BY <2>1 DEF Listener
<1>9. Counted'
  <2>1. Serves(p) /\ Serves(p)'
    BY <1>2 DEF Serves, Service!InCall
  <2>2. ~Serves(q) /\ ~Serves(q)'
    BY <1>2, <1>4 DEF Serves, Has, Service!InCall
  <2>3. \A r \in Payloads \ {p, q} : Serves(r)' <=> Serves(r)
    BY <1>2, <1>3, <1>4 DEF Serves
  <2> QED  BY <1>1, <2>1, <2>2, <2>3, SameInProgress
<1>10. ASSUME ~early
       PROVE  Quiet'
  <2>1. Quiet
    BY <1>1, <1>10
  <2>2. queueOpen
    <3>1. ~Over(p)
      BY <1>1 DEF Over, EventsFit
    <3> QED  BY <2>1, <3>1 DEF Quiet
  <2>3. thread # "ended"
    BY <1>1, <2>2 DEF Stages
  <2> QED  BY <1>2, <2>1, <2>2, <2>3 DEF Quiet
<1> QED  BY <1>5, <1>6, <1>7, <1>8, <1>9, <1>10 DEF ServiceInv

LEMMA ServiceResume ==
  ASSUME CallsAssumption, ServiceInv, Service!Resume
  PROVE  ServiceInv'
<1>1. PICK p \in Payloads, ok \in BOOLEAN :
        /\ <<p, ok>> \in events
        /\ events' = events \ {<<p, ok>>}
        /\ \/ Service!Hopped(p) \/ Service!Called(p) \/ Service!Requested(p, ok)
           \/ Service!Wrote(p, ok) \/ Service!Read(p, ok) \/ Service!Finished(p)
  BY DEF Service!Resume
<1>2. UNCHANGED <<queueOpen, answers, method, server, thread, control, calls, early>>
  BY DEF Service!Resume, Service!Unchanged
<1>3. ServiceTyped /\ Stages
  BY DEF ServiceInv
<1>4. exhausted \subseteq Payloads /\ queueOpen \in BOOLEAN /\ serviceAborted \in BOOLEAN
  BY <1>3 DEF ServiceTyped
<1>5. queueOpen => ~serviceAborted
  BY <1>3 DEF Stages
<1>6. CASE Service!Hopped(p)
  <2>1. PICK to \in {"listening", "writing", "reading", "finishing"} :
          /\ payloadPc' = [payloadPc EXCEPT ![p] = to]
          /\ \/ payloadPc[p] = "requestHop" /\ to = "listening"
             \/ payloadPc[p] \in {"writeHop", "readHop", "finishHop"} /\ to # "listening"
          /\ serviceAborted' = ~queueOpen /\ exhausted' = exhausted
    <3> DEFINE to == Service!Operation[payloadPc[p]]
    <3>1. /\ payloadPc[p] \in DOMAIN Service!Operation
          /\ payloadPc' = [payloadPc EXCEPT ![p] = to]
          /\ serviceAborted' = ~queueOpen /\ exhausted' = exhausted
      BY <1>6 DEF Service!Hopped, Service!Post
    <3>2. DOMAIN Service!Operation = {"requestHop", "writeHop", "readHop", "finishHop"}
      BY DEF Service!Operation
    <3>3. \/ payloadPc[p] = "requestHop" /\ to = "listening"
          \/ payloadPc[p] = "writeHop" /\ to = "writing"
          \/ payloadPc[p] = "readHop" /\ to = "reading"
          \/ payloadPc[p] = "finishHop" /\ to = "finishing"
      BY <3>1, <3>2 DEF Service!Operation
    <3> HIDE DEF to
    <3> QED  BY <3>1, <3>3
  <2>2. payloadPc[p] \in {"writeHop", "readHop", "finishHop"} =>
          payloadPc[p] \in Service!InCall \ {"finishing", "identify", "unit"}
    BY DEF Service!InCall
  <2>3. serviceAborted' \in BOOLEAN /\ (queueOpen => ~serviceAborted')
    BY <1>4, <2>1
  <2>4. payloadPc[p] \notin {"listening", "finishing"}
    BY <2>1
  <2> QED  BY <1>1, <1>2, <1>4, <2>1, <2>2, <2>3, <2>4, TakenEvent
<1>7. CASE Service!Called(p) \/ Service!Read(p, ok)
  <2>1. /\ payloadPc[p] \in {"startHop", "reading"}
        /\ payloadPc' = [payloadPc EXCEPT ![p] = "unit"]
        /\ serviceAborted' = serviceAborted /\ exhausted' \subseteq Payloads
    BY <1>4, <1>7 DEF Service!Called, Service!Read
  <2>2. payloadPc[p] \in Service!InCall \ {"finishing", "identify", "unit"}
    BY <2>1 DEF Service!InCall
  <2> QED  BY <1>1, <1>2, <1>4, <1>5, <2>1, <2>2, TakenEvent
<1>8. CASE Service!Requested(p, ok) /\ ok
  <2>1. PICK q \in Service!Free :
          /\ payloadPc[p] = "listening"
          /\ payloadPc' = [payloadPc EXCEPT ![p] = "identify", ![q] = "listening"]
          /\ serviceAborted' = ~queueOpen /\ exhausted' \subseteq Payloads
    BY <1>4, <1>8 DEF Service!Requested
  <2>2. q \in Payloads /\ payloadPc[q] = "free" /\ ok = TRUE
    BY <1>8 DEF Service!Free
  <2> QED  BY <1>1, <1>2, <2>1, <2>2, Spawned
<1>9. CASE \/ Service!Requested(p, ok) /\ ~ok
           \/ Service!Finished(p)
  <2>1. /\ \/ payloadPc[p] = "listening" /\ ~ok
           \/ payloadPc[p] = "finishing"
        /\ payloadPc' = [payloadPc EXCEPT ![p] = "free"]
        /\ serviceAborted' = serviceAborted /\ exhausted' \subseteq Payloads
    BY <1>4, <1>9 DEF Service!Requested, Service!Finished
  <2> QED  BY <1>1, <1>2, <1>4, <1>5, <2>1, TakenEvent
<1>10. CASE Service!Wrote(p, ok)
  <2>1. PICK to \in {"unit", "finishing"} :
          /\ payloadPc[p] = "writing"
          /\ payloadPc' = [payloadPc EXCEPT ![p] = to]
          /\ serviceAborted' \in {serviceAborted, ~queueOpen}
          /\ exhausted' = exhausted
    BY <1>10 DEF Service!Wrote, Service!Post
  <2>2. payloadPc[p] \in Service!InCall \ {"finishing", "identify", "unit"}
    BY <2>1 DEF Service!InCall
  <2>3. serviceAborted' \in BOOLEAN /\ (queueOpen => ~serviceAborted')
    BY <1>4, <1>5, <2>1
  <2> QED  BY <1>1, <1>2, <1>4, <2>1, <2>2, <2>3, TakenEvent
<1> QED  BY <1>1, <1>6, <1>7, <1>8, <1>9, <1>10

LEMMA ServiceStep ==
  ASSUME CallsAssumption, ServiceInv, [MCNext]_allVars
  PROVE  ServiceInv'
<1>1. CASE UNCHANGED serverVars
  <2>1. UNCHANGED <<method, payloadPc, exhausted, events, server, queueOpen, thread, control,
                    calls, answers, early, serviceAborted>>
    BY <1>1 DEF serverVars
  <2>2. InProgress' = InProgress
    BY <2>1 DEF InProgress, Serves, Has
  <2> QED  BY <2>1, <2>2 DEF ServiceInv, ServiceTyped, Counted, EventsFit, Stages, Listener,
                             Quiet, Over, Has
<1>2. CASE Service!Next
  BY <1>2, ServiceStart, ServiceShutdown, ServiceStopWorker, ServiceEnds, ServiceResume,
     ServiceNewEvent, ServiceUnit
     DEF Service!Next, Service!Runtime
<1>3. MCNext => UNCHANGED serverVars \/ Service!Next
  BY DEF MCNext
<1>4. UNCHANGED allVars => UNCHANGED serverVars
  BY DEF allVars
<1> QED  BY <1>1, <1>2, <1>3, <1>4

LEMMA ServiceInvariance ==
  ASSUME CallsAssumption
  PROVE  MCSpec => []ServiceInv
<1>1. MCInit => ServiceInv
  BY ServiceInit DEF MCInit
<1>2. ServiceInv /\ [MCNext]_allVars => ServiceInv'
  BY ServiceStep
<1>3. MCSpec => MCInit /\ [][MCNext]_allVars
  BY PTL DEF MCSpec
<1> QED  BY <1>1, <1>2, <1>3, PTL

(* Type correctness of the service; no more calls are answered than were   *)
(* accepted.                                                               *)
THEOREM ServiceTypeCorrect ==
  ASSUME CallsAssumption
  PROVE  MCSpec => []Service!TypeOK
<1>1. ServiceInv => Service!TypeOK
  <2> SUFFICES ASSUME ServiceInv
               PROVE  Service!TypeOK
    OBVIOUS
  <2>1. answers \in 0..calls
    BY InProgressFinite DEF ServiceInv, ServiceTyped, Counted
  <2> QED  BY <2>1 DEF ServiceInv, ServiceTyped, Service!TypeOK
<1>2. MCSpec => []ServiceInv
  BY ServiceInvariance
<1> QED  BY <1>1, <1>2, PTL

(* As long as the server runs there is one payload, and only one, for the  *)
(* next call.                                                              *)
THEOREM ListensForTheNext ==
  ASSUME CallsAssumption
  PROVE  MCSpec => []AlwaysListening
<1>1. ServiceInv => AlwaysListening
  <2> DEFINE listening == {p \in Payloads : payloadPc[p] \in {"requestHop", "listening"}}
  <2> SUFFICES ASSUME ServiceInv, server = "running"
               PROVE  Service!Cardinality(listening) = 1
    BY DEF AlwaysListening, Service!AlwaysListening
  <2>1. PICK p \in Payloads : \A q \in Payloads :
          payloadPc[q] \in {"requestHop", "listening"} <=> q = p
    BY DEF ServiceInv, Listener
  <2>2. listening = {p}
    BY <2>1
  <2>3. Cardinality(listening) = 1
    BY <2>2, FS_Singleton
  <2> QED  BY <2>3 DEF Cardinality, Service!Cardinality
<1>2. MCSpec => []ServiceInv
  BY ServiceInvariance
<1> QED  BY <1>1, <1>2, PTL

(* A stop that does not overtake the first request uses no queue that was  *)
(* shut down; when wait() returns all coroutines have ended and all calls  *)
(* are answered.                                                           *)
THEOREM StopLeavesNothing ==
  ASSUME CallsAssumption
  PROVE  MCSpec => []StopsClean
<1>1. ServiceInv => StopsClean
  <2> SUFFICES ASSUME ServiceInv, ~early
               PROVE  /\ ~serviceAborted
                      /\ control = "waited" =>
                           events = {} /\ Service!Free = Payloads /\ answers = calls
    BY DEF StopsClean, Service!StopsClean
  <2>1. Quiet /\ Stages
    BY DEF ServiceInv
  <2>2. CASE control = "waited"
    <3>1. events = {} /\ answers = calls /\ \A p \in Payloads : Over(p)
      BY <2>1, <2>2 DEF Quiet, Stages
    <3>2. \A p \in Payloads : payloadPc[p] = "free"
      BY <3>1 DEF Over, Has
    <3> QED  BY <2>1, <3>1, <3>2 DEF Quiet, Service!Free
  <2> QED  BY <2>1, <2>2 DEF Quiet
<1>2. MCSpec => []ServiceInv
  BY ServiceInvariance
<1> QED  BY <1>1, <1>2, PTL

=============================================================================
