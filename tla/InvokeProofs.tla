---------------------------- MODULE InvokeProofs ----------------------------
(***************************************************************************)
(* Theorems about Invoke, for every limit, every number of progress        *)
(* answers and every choice of faults.                                     *)
(***************************************************************************)
EXTENDS Invoke, TLAPS

(* What the command knows about its number of invocations where it is.      *)
CountInv ==
  /\ operations <= calls
  /\ stage = "load" => calls = 0
  /\ stage = "handler" => calls < MaxCalls /\ NeedsReinvocation
  /\ stage = "answered" => response.status # "none"
  /\ args.max # Unlimited => calls <= args.max + 1
  /\ exit = "0" /\ ~interrupted =>
       \/ response.status \in {"SUCCESS", "FAILED"}
       \/ args.max # Unlimited /\ calls > args.max

(* A resource's operation is in progress: between two invocations its       *)
(* context and its model are in the payload, or in the answer from which    *)
(* the payload is prepared.                                                 *)
OperationInv ==
  args.artifact = "RESOURCE" =>
    /\ response.model \in {"made", "absent"}
    /\ operations <= 1
    /\ calls = 0 => operations = 0
    /\ stage \in {"loop", "handler"} /\ operations = 1 =>
         payload.context # 0 /\ payload.model = "made"
    /\ stage \in {"answered", "sleep"} /\ response.status = "IN_PROGRESS" =>
         response.context # 0 /\ "made" \in {response.model, payload.model}
    /\ stage = "sleep" => response.status = "IN_PROGRESS"

(* Only a command that has ended has an exit code.                          *)
ExitMeansDone == exit # "none" => stage = "done"

Inv == TypeOK /\ CountInv /\ OperationInv /\ ExitMeansDone

LEMMA Numbers ==
  ASSUME TypeOK
  PROVE  /\ args.max # Unlimited => args.max \in Nat
         /\ calls \in Nat /\ operations \in Nat
<1>1. args.max \in Limits
  BY DEF TypeOK
<1>2. calls \in 0 .. MaxCalls /\ operations \in 0 .. MaxCalls
  BY DEF TypeOK
<1>3. args.max # Unlimited => args.max \in Nat
  BY <1>1, LimitsAssumption, Zenon
<1>4. calls \in Nat /\ operations \in Nat
  BY <1>2, BoundsAssumption
<1> QED BY <1>3, <1>4

LEMMA InitInv == Init => Inv
<1> SUFFICES ASSUME Init PROVE Inv
  OBVIOUS
<1>1. TypeOK
  <2>1. forever \in BOOLEAN
    BY Zenon DEF Init
  <2>2. response \in Response /\ payload \in [context : Contexts, model : {"desired", "made"}]
    BY BoundsAssumption DEF Init, Contexts, Models, Response, NoResponse
  <2>3. calls \in 0 .. MaxCalls /\ operations \in 0 .. MaxCalls
    BY BoundsAssumption DEF Init
  <2> QED BY <2>1, <2>2, <2>3 DEF Init, TypeOK
<1>2. CountInv
  BY <1>1, Numbers DEF Init, CountInv
<1>3. OperationInv /\ ExitMeansDone
  BY DEF Init, OperationInv, ExitMeansDone, NoResponse
<1> QED BY <1>1, <1>2, <1>3 DEF Inv

LEMMA LoadInv == Inv /\ Load => Inv'
<1> SUFFICES ASSUME Inv, Load PROVE Inv'
  OBVIOUS
<1>1. /\ stage = "load"
      /\ \/ stage' = "loop" /\ exit' = exit
         \/ stage' = "done" /\ exit' \in {"1", "127"}
      /\ UNCHANGED <<args, forever, calls, payload, response, operations, interrupted>>
  <2>1. args.request \in {"complete", "incomplete", "invalid"}
    BY DEF Inv, TypeOK
  <2>2. CASE args.request = "complete"
    BY <2>2 DEF Load, Goto
  <2>3. CASE args.request = "invalid"
    BY <2>3 DEF Load, Exit
  <2>4. CASE args.request = "incomplete"
    BY <2>4 DEF Load, Exit
  <2> QED BY <2>1, <2>2, <2>3, <2>4
<1>2. TypeOK'
  BY <1>1 DEF Inv, TypeOK
<1>3. CountInv' /\ ExitMeansDone'
  BY <1>1, Numbers DEF Inv, CountInv, ExitMeansDone
<1>4. OperationInv'
  BY <1>1, Numbers DEF Inv, CountInv, OperationInv
<1> QED BY <1>2, <1>3, <1>4 DEF Inv

LEMMA LoopInv == Inv /\ Loop => Inv'
<1> SUFFICES ASSUME Inv, Loop PROVE Inv'
  OBVIOUS
<1> USE DEF Loop, Exit, Goto
<1>1. TypeOK'
  BY LimitsAssumption, BoundsAssumption DEF Inv, TypeOK, OperationInv, Contexts, Models, Response
<1>2. CountInv'
  BY Numbers DEF Inv, TypeOK, CountInv, ExitMeansDone, NeedsReinvocation, Response
<1>3. OperationInv'
  BY BoundsAssumption DEF Inv, TypeOK, OperationInv, Contexts, Response
<1>4. ExitMeansDone'
  BY DEF Inv, ExitMeansDone
<1> QED BY <1>1, <1>2, <1>3, <1>4 DEF Inv

(* An invocation adds one to the count only where the limit allows it, and  *)
(* begins an operation only if none was begun.                              *)
LEMMA HandlerInv == Inv /\ HandlerAnswers => Inv'
<1> SUFFICES ASSUME Inv, HandlerAnswers PROVE Inv'
  OBVIOUS
<1> DEFINE begins == payload.context = 0 \/ (args.artifact = "RESOURCE" /\ payload.model # "made")
<1>1. /\ stage = "handler" /\ stage' = "answered" /\ calls' = calls + 1
      /\ UNCHANGED <<args, forever, payload, interrupted, exit>>
      /\ operations' = IF begins THEN operations + 1 ELSE operations
  BY DEF HandlerAnswers
<1>2. /\ response' \in Response /\ response'.status # "none"
      /\ response'.status = "IN_PROGRESS" =>
           response'.context # 0 /\ (begins /\ args.artifact = "RESOURCE" => response'.model = "made")
      /\ args.artifact = "RESOURCE" => response'.model \in {"made", "absent"}
  <2>1. CASE response' = [NoResponse EXCEPT !.status = "garbage"]
    BY <2>1, BoundsAssumption DEF NoResponse, Response, Contexts, Models
  <2>2. CASE \E n \in Contexts, m \in Models, s \in {"IN_PROGRESS", "SUCCESS", "FAILED"} :
               /\ response' = [status |-> s, context |-> n, model |-> m]
               /\ s = "IN_PROGRESS" => n # 0
               /\ args.artifact = "RESOURCE" => m \in {"made", "absent"}
               /\ args.artifact = "RESOURCE" /\ begins => m = "made"
    BY <2>2 DEF Response
  <2>3. args.artifact # "RESOURCE" => args.artifact = "HOOK"
    BY ArtifactsAssumption DEF Inv, TypeOK
  <2> QED BY <2>1, <2>2, <2>3, BoundsAssumption DEF HandlerAnswers, Contexts, Models
<1>3. TypeOK'
  BY <1>1, <1>2, BoundsAssumption DEF Inv, TypeOK, CountInv, Contexts
<1>4. CountInv'
  <2>1. exit # "0"
    BY <1>1 DEF Inv, ExitMeansDone
  <2> QED BY <1>1, <1>2, <2>1, Numbers DEF Inv, CountInv, NeedsReinvocation
<1>5. OperationInv'
  BY <1>1, <1>2 DEF Inv, TypeOK, OperationInv
<1>6. ExitMeansDone'
  BY <1>1 DEF Inv, ExitMeansDone
<1> QED BY <1>3, <1>4, <1>5, <1>6 DEF Inv

LEMMA ReadInv == Inv /\ ReadStatus => Inv'
<1> SUFFICES ASSUME Inv, ReadStatus PROVE Inv'
  OBVIOUS
<1> USE DEF ReadStatus, HasStatus, Exit, Goto
<1>1. TypeOK'
  BY LimitsAssumption, BoundsAssumption DEF Inv, TypeOK, OperationInv, Contexts, Models, Response
<1>2. CountInv'
  BY Numbers DEF Inv, TypeOK, CountInv, ExitMeansDone, NeedsReinvocation, Response
<1>3. OperationInv'
  BY BoundsAssumption DEF Inv, TypeOK, OperationInv, Contexts, Response
<1>4. ExitMeansDone'
  BY DEF Inv, ExitMeansDone
<1> QED BY <1>1, <1>2, <1>3, <1>4 DEF Inv

LEMMA PrepareInv == Inv /\ Prepare => Inv'
<1> SUFFICES ASSUME Inv, Prepare PROVE Inv'
  OBVIOUS
<1> USE DEF Prepare, Prepared, Goto
<1>1. TypeOK'
  BY LimitsAssumption, BoundsAssumption DEF Inv, TypeOK, OperationInv, Contexts, Models, Response
<1>2. CountInv'
  BY Numbers DEF Inv, TypeOK, CountInv, ExitMeansDone, NeedsReinvocation, Response
<1>3. OperationInv'
  BY BoundsAssumption DEF Inv, TypeOK, OperationInv, Contexts, Response
<1>4. ExitMeansDone'
  BY DEF Inv, ExitMeansDone
<1> QED BY <1>1, <1>2, <1>3, <1>4 DEF Inv

LEMMA InterruptInv == Inv /\ Interrupt => Inv'
<1> SUFFICES ASSUME Inv, Interrupt PROVE Inv'
  OBVIOUS
<1> USE DEF Interrupt, Exit
<1>1. TypeOK'
  BY LimitsAssumption, BoundsAssumption DEF Inv, TypeOK, OperationInv, Contexts, Models, Response
<1>2. CountInv'
  BY Numbers DEF Inv, TypeOK, CountInv, ExitMeansDone, NeedsReinvocation, Response
<1>3. OperationInv'
  BY BoundsAssumption DEF Inv, TypeOK, OperationInv, Contexts, Response
<1>4. ExitMeansDone'
  BY DEF Inv, ExitMeansDone
<1> QED BY <1>1, <1>2, <1>3, <1>4 DEF Inv

LEMMA NextInv == Inv /\ [Next]_vars => Inv'
<1>1. Inv /\ UNCHANGED vars => Inv'
  BY DEF vars, Inv, TypeOK, CountInv, OperationInv, ExitMeansDone, NeedsReinvocation
<1> QED BY <1>1, LoadInv, LoopInv, HandlerInv, ReadInv, PrepareInv, InterruptInv DEF Next, Step

LEMMA Invariant == Spec => []Inv
  BY InitInv, NextInv, PTL DEF Spec

(* Every variable keeps its type; in particular the command never makes a   *)
(* payload without a model (prepare_payload_for_reinvocation).              *)
THEOREM TypeCorrect == Spec => []TypeOK
  BY Invariant, PTL DEF Inv

(* --max-reinvoke is kept for every limit and every handler, and a command  *)
(* that ends by itself on an operation in progress has used it up           *)
(* (_needs_reinvocation).                                                   *)
THEOREM ReinvocationsCorrect == Spec => []ReinvocationsAreExact
<1>1. Inv => ReinvocationsAreExact
  BY Numbers DEF Inv, CountInv, ReinvocationsAreExact, Reinvocations
<1> QED BY <1>1, Invariant, PTL

(* However long a resource's operation takes, its handler is never made to  *)
(* begin a second one (prepare_payload_for_reinvocation).                   *)
THEOREM OperationCorrect == Spec => []OneOperation
<1>1. Inv => OneOperation
  BY DEF Inv, OperationInv, OneOperation
<1> QED BY <1>1, Invariant, PTL

-----------------------------------------------------------------------------
(* How many steps the command can still make, where the number of           *)
(* re-invocations is limited.                                               *)
StepsLeft ==
  CASE stage = "load" -> 5 * (args.max + 1 - calls) + 3
    [] stage = "loop" -> 5 * (args.max + 1 - calls) + 2
    [] stage = "handler" -> 5 * (args.max + 1 - calls) + 1
    [] stage = "answered" -> 5 * (args.max + 1 - calls) + 4
    [] stage = "sleep" -> 5 * (args.max + 1 - calls) + 3
    [] stage = "done" -> 0

(* With a limit every step brings the command nearer to its end, whatever   *)
(* the handler answers (invoke).                                            *)
InvokeIsBounded ==
  [][args.max # Unlimited =>
       args' = args /\ StepsLeft' \in Nat /\ StepsLeft' < StepsLeft]_vars

LEMMA StepFewer ==
  Inv /\ Inv' /\ Next /\ args.max # Unlimited =>
    args' = args /\ StepsLeft' \in Nat /\ StepsLeft' < StepsLeft
<1> SUFFICES ASSUME Inv, Inv', Next, args.max # Unlimited
             PROVE  args' = args /\ StepsLeft' \in Nat /\ StepsLeft' < StepsLeft
  OBVIOUS
<1>1. args' = args
  BY DEF Next, Step, Load, Loop, HandlerAnswers, ReadStatus, Prepare, Interrupt
<1>2. /\ args.max \in Nat /\ calls \in Nat /\ calls <= args.max + 1
      /\ stage = "handler" => calls <= args.max
  BY Numbers DEF Inv, CountInv, NeedsReinvocation
<1>3. \/ stage = "load" /\ stage' = "loop" /\ calls' = calls
      \/ stage = "loop" /\ stage' = "handler" /\ calls' = calls
      \/ stage = "handler" /\ stage' = "answered" /\ calls' = calls + 1
      \/ stage = "answered" /\ stage' = "sleep" /\ calls' = calls
      \/ stage = "sleep" /\ stage' = "loop" /\ calls' = calls
      \/ stage # "done" /\ stage' = "done"
  <2>1. args.request \in {"complete", "incomplete", "invalid"}
    BY DEF Inv, TypeOK
  <2>2. CASE Load
    BY <2>1, <2>2 DEF Load, Goto, Exit
  <2>3. CASE Loop \/ HandlerAnswers \/ ReadStatus \/ Prepare \/ Interrupt
    BY <2>3 DEF Loop, HandlerAnswers, ReadStatus, Prepare, Interrupt, Goto, Exit
  <2> QED BY <2>2, <2>3 DEF Next, Step
<1>4. stage \in {"load", "loop", "handler", "answered", "sleep", "done"}
  BY DEF Inv, TypeOK
<1> QED BY <1>1, <1>2, <1>3, <1>4 DEF StepsLeft

(* A command with a limit ends after a number of steps that the limit       *)
(* bounds, also where the handler never finishes (invoke).                  *)
THEOREM BoundCorrect == Spec => InvokeIsBounded
<1>1. Inv /\ Inv' /\ [Next]_vars =>
        [args.max # Unlimited =>
           args' = args /\ StepsLeft' \in Nat /\ StepsLeft' < StepsLeft]_vars
  BY StepFewer
<1> QED BY <1>1, Invariant, PTL DEF Spec, InvokeIsBounded
=============================================================================
