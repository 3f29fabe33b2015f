------------------------------- MODULE MCRpc -------------------------------
(***************************************************************************)
(* Calls, in one run: the chain of coroutines that call each other         *)
(* (Coroutines), a call of a generated gRPC client (GrpcClientCall), and a *)
(* generated service with its runtime (GrpcServerCalls).  A behaviour      *)
(* exercises one of them, chosen at the start.                             *)
(***************************************************************************)
EXTENDS Coroutines, FiniteSets

CONSTANTS Enders, call, nobody, MaxMessages, Payloads, MaxCalls

VARIABLES
  chosen,
  kind, pc, last, callOutcome, isStarted, isFinished, finishSts, handle, resumed,
  inflight, called, status, messages, held, misuse, aborted, confused,
                                                            \* GrpcClientCall
  method, payloadPc, exhausted, events, server, queueOpen, thread, control,
  calls, answers, early, serviceAborted                     \* GrpcServerCalls

clientVars ==
  <<kind, pc, last, callOutcome, isStarted, isFinished, finishSts, handle, resumed,
    inflight, called, status, messages, held, misuse, aborted, confused>>
serverVars ==
  <<method, payloadPc, exhausted, events, server, queueOpen, thread, control,
    calls, answers, early, serviceAborted>>

Client  == INSTANCE GrpcClientCall WITH outcome <- callOutcome
Service == INSTANCE GrpcServerCalls WITH pc <- payloadPc, aborted <- serviceAborted

ASSUME CallsAssumption == Client!ClientAssumption /\ Service!ServiceAssumption

MCInit ==
  /\ Init /\ Client!Init /\ Service!Init
  /\ chosen \in {"coroutines", "client", "service"}
  /\ chosen # "client" => kind = "unary"
  /\ chosen # "service" => method = "unary"

MCNext ==
  /\ UNCHANGED chosen
  /\ \/ chosen = "coroutines" /\ Next /\ UNCHANGED <<clientVars, serverVars>>
     \/ chosen = "client" /\ Client!Next /\ UNCHANGED <<vars, serverVars>>
     \/ chosen = "service" /\ Service!Next /\ UNCHANGED <<vars, clientVars>>

allVars == <<chosen, vars, clientVars, serverVars>>

MCSpec ==
  /\ MCInit /\ [][MCNext]_allVars
  /\ chosen = "client" => Client!Fairness
  /\ chosen = "service" => Service!Fairness

(* Client: with users that do one thing at a time, gRPC never aborts and   *)
(* every coroutine is resumed by the completion of its own operation.      *)
OnlyMisuseBreaks == Client!OnlyMisuseBreaks

(* Client: what is reported is how the call ended, not what stood in for   *)
(* it, and however many coroutines ask.                                    *)
TruthfulStatus == Client!TruthfulStatus

(* Client: a call that has begun is brought to its end when the client     *)
(* lets go of it.                                                          *)
ReleasedIsFinished == Client!ReleasedIsFinished

(* Service: as long as the server runs, one payload waits for the next     *)
(* call.                                                                   *)
AlwaysListening == Service!AlwaysListening

(* Service: stopping touches no queue that was shut down and leaves no     *)
(* coroutine and no call behind.                                           *)
StopsClean == Service!StopsClean

(* Service: every call that was accepted is answered in the end. *)
CallsAreAnswered == Service!CallsAreAnswered

=============================================================================
