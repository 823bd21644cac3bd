----------------------------- MODULE HookClient -----------------------------
(***************************************************************************)
(* One caller of hook handlers: HookClient.call invokes the handler of an  *)
(* invocation point for a target, and re-invokes it while it answers       *)
(* IN_PROGRESS.                                                            *)
(*                                                                         *)
(* The handlers are not part of this code.  They are modelled by what the  *)
(* suite asks of them and by a menu of defects.                            *)
(***************************************************************************)
EXTENDS Naturals, FiniteSets

CONSTANTS
  Targets,      \* names of resource types, numbered in alphabetical order
  Unsupported,  \* the name of a type that no hook targets
  Schemas,      \* hook schemas: from invocation points to target names
  Info,         \* the types of the target info
  MaxPolls,     \* bound on the IN_PROGRESS answers to one call
  Defects       \* which defects the handlers may have

Points == {"CREATE_PRE_PROVISION", "DELETE_PRE_PROVISION", "UPDATE_PRE_PROVISION"}
Defect == {"refusesValid", "missesTarget", "acceptsInvalid", "acceptsUnsupported", "wrongCode",
           "noMessage", "codeOnSuccess", "codeInProgress", "delayOnSuccess", "slow",
           "slowLater", "otherFailure"}

(* A target name is a type name or a pattern, given by the types it matches. *)
TargetName == [types : SUBSET Targets, wildcard : BOOLEAN]

ASSUME TargetsAssumption == Targets \subseteq Nat /\ IsFiniteSet(Targets)
ASSUME UnsupportedAssumption == Unsupported \in Nat \ Targets
ASSUME SchemasAssumption ==
  \A s \in Schemas :
    /\ DOMAIN s \subseteq Points /\ DOMAIN s # {}
    /\ \A point \in DOMAIN s : s[point] \subseteq TargetName
ASSUME InfoAssumption == Info \subseteq Targets
ASSUME PollsAssumption == MaxPolls \in Nat
ASSUME DefectsAssumption == Defects \subseteq Defect

VARIABLES
  schema,   \* the project's hook schema
  defect,   \* the defect of its handlers, or "none"
  shown,    \* whether the defect has shown in an answer
  tokens,   \* number of idempotency tokens generated
  phase,    \* where the call is
  request,  \* the payload of the handler invocation
  answer    \* the progress event it returned

callVars == <<tokens, phase, request, answer>>

Context == [token : Nat, left : 0 .. MaxPolls]
NoContext == [token |-> 0, left |-> 0]
Configurations == {"absent", "v1", "v2"}
Request == [point : Points, target : Targets \cup {Unsupported}, valid : BOOLEAN,
            configuration : Configurations, token : Nat, context : Context, again : BOOLEAN]
Answer == [status : {"IN_PROGRESS", "SUCCESS", "FAILED"},
           code : {"none", "NonCompliant", "UnsupportedTarget", "InternalFailure"},
           context : Context, delay : BOOLEAN, message : BOOLEAN, slow : BOOLEAN]

Success == [status |-> "SUCCESS", code |-> "none", context |-> NoContext,
            delay |-> FALSE, message |-> FALSE, slow |-> FALSE]
Failed(code) == [Success EXCEPT !.status = "FAILED", !.code = code, !.message = TRUE]
Progress(token, left) ==
  [Success EXCEPT !.status = "IN_PROGRESS", !.context = [token |-> token, left |-> left]]

ClientTypeOK ==
  /\ schema \in Schemas
  /\ defect \in Defects \cup {"none"}
  /\ shown \in BOOLEAN
  /\ tokens \in Nat
  /\ phase \in {"idle", "sent", "answered"}
  /\ request \in Request
  /\ answer \in Answer

ClientInit ==
  /\ schema \in Schemas
  /\ defect \in Defects \cup {"none"}
  /\ shown = FALSE
  /\ tokens = 0
  /\ phase = "idle"
  /\ request = [point |-> "CREATE_PRE_PROVISION", target |-> Unsupported, valid |-> TRUE,
                configuration |-> "absent", token |-> 0, context |-> NoContext, again |-> FALSE]
  /\ answer = Success

-----------------------------------------------------------------------------
(* The client.                                                              *)

(* get_handler_targets: a pattern stands for the known types it matches.    *)
HandlerTargets(point) ==
  UNION {IF n.wildcard THEN n.types \cap Info ELSE n.types : n \in schema[point]}

HasWildcardTargets(point) == \E n \in schema[point] : n.wildcard

(* _make_payload and the first _call.                                       *)
Invoke(point, target, valid, configuration) ==
  /\ phase' = "sent"
  /\ tokens' = tokens + 1
  /\ request' = [point |-> point, target |-> target, valid |-> valid,
                 configuration |-> configuration, token |-> tokens + 1,
                 context |-> NoContext, again |-> FALSE]
  /\ UNCHANGED answer

(* call raises AssertionError on a first invocation that took too long, and *)
(* on progress that has an error code.                                      *)
Raises ==
  \/ answer.slow /\ ~request.again
  \/ answer.status = "IN_PROGRESS" /\ answer.code # "none"

(* Mutant: the callback context stays that of the first request.            *)
ReinvokeNoContext ==
  /\ phase = "answered" /\ answer.status = "IN_PROGRESS" /\ ~Raises
  /\ request' = [request EXCEPT !.again = TRUE]
  /\ phase' = "sent"
  /\ UNCHANGED <<schema, defect, shown, tokens, answer>>

(* Mutant: every re-invocation is a request of its own.                     *)
ReinvokeFreshToken ==
  /\ phase = "answered" /\ answer.status = "IN_PROGRESS" /\ ~Raises
  /\ request' = [request EXCEPT !.context = answer.context, !.again = TRUE, !.token = tokens + 1]
  /\ phase' = "sent"
  /\ tokens' = tokens + 1
  /\ UNCHANGED <<schema, defect, shown, answer>>

(* The loop of call: the next invocation has the same token and target      *)
(* model, and the callback context of the answer.                           *)
Reinvoke ==
  /\ phase = "answered" /\ answer.status = "IN_PROGRESS" /\ ~Raises
  /\ request' = [request EXCEPT !.context = answer.context, !.again = TRUE]
  /\ phase' = "sent"
  /\ UNCHANGED <<schema, defect, shown, tokens, answer>>

(* call has returned, or raised.                                            *)
Returned == phase = "answered" /\ (Raises \/ answer.status # "IN_PROGRESS")

(* assert_success and assert_failed.                                        *)
AssertSuccess ==
  ~Raises /\ answer.status = "SUCCESS" /\ answer.code = "none" /\ ~answer.delay
AssertFailed ==
  ~Raises /\ answer.status = "FAILED" /\ answer.code # "none" /\ ~answer.delay /\ answer.message

-----------------------------------------------------------------------------
(* The handlers.                                                            *)

Verdict ==
  CASE request.target = Unsupported -> Failed("UnsupportedTarget")
    [] request.target # Unsupported /\ request.valid -> Success
    [] OTHER -> Failed("NonCompliant")

(* A handler that keeps the contract chooses how often it answers           *)
(* IN_PROGRESS; it goes on from the callback context it gave.               *)
Conforming(polls) ==
  LET c == request.context
      left == IF c = NoContext THEN polls ELSE c.left - 1
  IN  IF c # NoContext /\ c.token # request.token THEN Failed("InternalFailure")
      ELSE IF left > 0 THEN Progress(request.token, left) ELSE Verdict

(* What the handlers answer instead because of their defect.                *)
Deviation(a) ==
  CASE defect = "refusesValid" /\ a.status = "SUCCESS" -> Failed("NonCompliant")
    [] defect = "missesTarget" /\ a.status = "SUCCESS"
       /\ \E t \in HandlerTargets(request.point) : t < request.target -> Failed("UnsupportedTarget")
    [] defect = "acceptsInvalid" /\ a.code = "NonCompliant" -> Success
    [] defect = "acceptsUnsupported" /\ a.code = "UnsupportedTarget" -> Success
    [] defect = "wrongCode" /\ a.code = "UnsupportedTarget" -> Failed("NonCompliant")
    [] defect = "otherFailure" /\ a.code = "NonCompliant" -> Failed("InternalFailure")
    [] defect = "noMessage" /\ a.status = "FAILED" -> [a EXCEPT !.message = FALSE]
    [] defect = "codeOnSuccess" /\ a.status = "SUCCESS" -> [a EXCEPT !.code = "InternalFailure"]
    [] defect = "codeInProgress" /\ a.status = "IN_PROGRESS" -> [a EXCEPT !.code = "InternalFailure"]
    [] defect = "delayOnSuccess" /\ a.status = "SUCCESS" -> [a EXCEPT !.delay = TRUE]
    [] defect = "slow" /\ ~request.again -> [a EXCEPT !.slow = TRUE]
    [] defect = "slowLater" /\ request.again -> [a EXCEPT !.slow = TRUE]
    [] OTHER -> a

HandlerAnswers ==
  /\ phase = "sent"
  /\ \E polls \in 0 .. MaxPolls :
       LET a == Conforming(polls)
           d == Deviation(a)
       IN  answer' = d /\ shown' = (shown \/ d # a)
  /\ phase' = "answered"
  /\ UNCHANGED <<schema, defect, tokens, request>>
=============================================================================
