------------------------------- MODULE Invoke -------------------------------
(***************************************************************************)
(* `cfn invoke`: one handler of a resource or of a hook is invoked, and    *)
(* re-invoked while it answers IN_PROGRESS, at most --max-reinvoke times.  *)
(*                                                                         *)
(* The handler is not part of this code.  It begins an operation when it   *)
(* gets no callback context, or a model it did not make.                   *)
(***************************************************************************)
EXTENDS Naturals

CONSTANTS
  Limits,     \* values of --max-reinvoke
  Unlimited,  \* --max-reinvoke is not given
  MaxPolls,   \* bound on the IN_PROGRESS answers to one operation
  MaxCalls,   \* bound on the invocations of a handler that never finishes
  Artifacts,  \* the kinds of project
  Faults      \* what the handler and the developer may do besides

ASSUME LimitsAssumption == Limits \subseteq Nat \cup {Unlimited} /\ Unlimited \notin Nat
ASSUME BoundsAssumption == MaxPolls \in Nat /\ MaxCalls \in Nat
ASSUME ArtifactsAssumption == Artifacts \subseteq {"RESOURCE", "HOOK"}
ASSUME FaultsAssumption == Faults \subseteq {"forever", "garbage", "interrupt"}

VARIABLES
  args,        \* the project's kind, --max-reinvoke, and what the request file holds
  forever,     \* whether the handler never finishes an operation
  stage,       \* where the command is
  calls,       \* current_invocation
  payload,     \* callback context and model of the next invocation
  response,    \* the handler's last answer
  operations,  \* number of operations the handler began
  interrupted, \* whether the developer pressed Ctrl-C
  exit         \* exit code

vars == <<args, forever, stage, calls, payload, response, operations, interrupted, exit>>

Contexts == 0 .. MaxPolls + 1   \* the work left after this invocation; 0 if none
Models == {"desired", "made", "absent"}
Response == [status : {"none", "IN_PROGRESS", "SUCCESS", "FAILED", "garbage"},
             context : Contexts, model : Models]
NoResponse == [status |-> "none", context |-> 0, model |-> "absent"]

TypeOK ==
  /\ args \in [artifact : Artifacts, max : Limits, request : {"complete", "incomplete", "invalid"}]
  /\ forever \in BOOLEAN
  /\ stage \in {"load", "loop", "handler", "answered", "sleep", "done"}
  /\ calls \in 0 .. MaxCalls
  /\ payload \in [context : Contexts, model : {"desired", "made"}]
  /\ response \in Response
  /\ operations \in 0 .. MaxCalls
  /\ interrupted \in BOOLEAN
  /\ exit \in {"none", "0", "1", "127"}

Init ==
  /\ args \in [artifact : Artifacts, max : Limits, request : {"complete", "incomplete", "invalid"}]
  /\ forever \in IF "forever" \in Faults THEN BOOLEAN ELSE {FALSE}
  /\ stage = "load"
  /\ calls = 0
  /\ payload = [context |-> 0, model |-> "desired"]
  /\ response = NoResponse
  /\ operations = 0
  /\ interrupted = FALSE
  /\ exit = "none"

Exit(code) == stage' = "done" /\ exit' = code
Goto(next) == stage' = next /\ UNCHANGED exit

(* The request file is read: no JSON is a user error, a missing key an      *)
(* unexpected one.                                                          *)
Load ==
  /\ stage = "load"
  /\ CASE args.request = "complete" -> Goto("loop")
       [] args.request = "invalid" -> Exit("1")
       [] args.request = "incomplete" -> Exit("127")
  /\ UNCHANGED <<args, forever, calls, payload, response, operations, interrupted>>

(* Mutant: the limit is one of invocations.                                 *)
NeedsReinvocationStrict == args.max = Unlimited \/ args.max > calls

(* Mutant: a limit of 0 is taken for none.                                  *)
NeedsReinvocationFalsy == args.max \in {Unlimited, 0} \/ args.max >= calls

NeedsReinvocation == args.max = Unlimited \/ args.max >= calls

Loop ==
  /\ stage = "loop" /\ calls < MaxCalls
  /\ IF NeedsReinvocation THEN Goto("handler") ELSE Exit("0")
  /\ UNCHANGED <<args, forever, calls, payload, response, operations, interrupted>>

(* The handler.  The first answer of an operation names the model made,     *)
(* later ones may leave it out.                                             *)
HandlerAnswers ==
  /\ stage = "handler"
  /\ LET begins == payload.context = 0 \/ (args.artifact = "RESOURCE" /\ payload.model # "made")
         works == {n \in Contexts : IF forever THEN n = 1
                                    ELSE IF begins THEN n <= MaxPolls
                                    ELSE n = payload.context - 1}
         models == IF args.artifact = "HOOK" THEN {"absent"}
                   ELSE IF begins THEN {"made"} ELSE {"made", "absent"}
     IN
     /\ operations' = IF begins THEN operations + 1 ELSE operations
     /\ \/ \E n \in works \ {0}, m \in models :
             response' = [status |-> "IN_PROGRESS", context |-> n, model |-> m]
        \/ /\ 0 \in works
           /\ \E s \in {"SUCCESS", "FAILED"}, m \in models :
                response' = [status |-> s, context |-> 0, model |-> m]
        \/ "garbage" \in Faults /\ response' = [NoResponse EXCEPT !.status = "garbage"]
  /\ calls' = calls + 1
  /\ stage' = "answered"
  /\ UNCHANGED <<args, forever, payload, interrupted, exit>>

(* The answer has the key that is read.  A resource handler's status is in  *)
(* "status", a hook handler's in "hookStatus"; what is read is "status".    *)
HasStatus == args.artifact = "RESOURCE" /\ response.status # "garbage"

(* The status is read; an answer without it, or that is no JSON, ends the   *)
(* command.                                                                 *)
ReadStatus ==
  /\ stage = "answered"
  /\ IF ~HasStatus THEN Exit("127")
     ELSE IF response.status = "IN_PROGRESS" THEN Goto("sleep")
     ELSE Exit("0")
  /\ UNCHANGED <<args, forever, calls, payload, response, operations, interrupted>>

(* Mutant: a response without a model leaves the payload without one.       *)
PreparedAlways == [context |-> response.context, model |-> response.model]

(* Mutant: the callback context is not passed on.                           *)
PreparedNoContext == [payload EXCEPT !.model = IF response.model # "absent" THEN response.model
                                               ELSE payload.model]

(* prepare_payload_for_reinvocation                                         *)
Prepared ==
  IF args.artifact # "RESOURCE" THEN payload
  ELSE [context |-> response.context,
        model |-> IF response.model # "absent" THEN response.model ELSE payload.model]

Prepare ==
  /\ stage = "sleep"
  /\ payload' = Prepared
  /\ Goto("loop")
  /\ UNCHANGED <<args, forever, calls, response, operations, interrupted>>

(* Ctrl-C anywhere in the loop ends the command as if it had succeeded.     *)
Interrupt ==
  /\ "interrupt" \in Faults
  /\ stage \in {"loop", "handler", "answered", "sleep"}
  /\ interrupted' = TRUE
  /\ Exit("0")
  /\ UNCHANGED <<args, forever, calls, payload, response, operations>>

Step == Load \/ Loop \/ HandlerAnswers \/ ReadStatus \/ Prepare

Next == Step \/ Interrupt

Spec == Init /\ [][Next]_vars

(* The command runs on, and the handler answers; nobody need interrupt it.  *)
FairSpec == Spec /\ WF_vars(Step)

-----------------------------------------------------------------------------
(* Correctness.                                                             *)

Reinvocations == IF calls = 0 THEN 0 ELSE calls - 1

(* "Maximum number of IN_PROGRESS re-invocations allowed before exiting":   *)
(* it is never exceeded, and the command that ends by itself while the      *)
(* operation is in progress has used it up (invoke, _needs_reinvocation).   *)
ReinvocationsAreExact ==
  args.max # Unlimited =>
    /\ Reinvocations <= args.max
    /\ exit = "0" /\ ~interrupted /\ response.status \notin {"SUCCESS", "FAILED"} =>
         Reinvocations = args.max

(* All invocations of a resource handler belong to one operation: the       *)
(* handler finds its context and its model in each                          *)
(* (prepare_payload_for_reinvocation).                                      *)
OneOperation == args.artifact = "RESOURCE" => operations <= 1

(* The command ends, of itself if the number of re-invocations is limited,  *)
(* or with the operation.                                                   *)
InvokeEnds == (args.max # Unlimited \/ ~forever) ~> stage = "done"

(* "The function is re-invoked while the IN_PROGRESS status is returned":   *)
(* a handler's progress does not end the command with an error.             *)
ProgressIsUnderstood == response.status = "IN_PROGRESS" => exit # "127"
=============================================================================
