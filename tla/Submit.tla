------------------------------ MODULE Submit ------------------------------
(***************************************************************************)
(* `cfn submit`: concurrent CLI processes that package a project, bring    *)
(* CloudFormation stacks up to date, upload the package to S3, register    *)
(* the type version, wait for the registration and may make the version    *)
(* the default one (Project.submit, Project._upload,                       *)
(* Project._wait_for_registration, class Uploader, cli.main).              *)
(*                                                                         *)
(* The AWS account is shared state: the infrastructure stack, one role     *)
(* stack per type, the artifact bucket, and the type registry.  Each       *)
(* remote call is one atomic step; everything else may happen between two  *)
(* calls, including the death of the process.                              *)
(***************************************************************************)
EXTENDS Naturals, FiniteSets

CONSTANTS
  Procs,       \* invocations of `cfn submit`; each runs once
  Names,       \* hyphenated type names: S3 key prefix, and name of the role stack
  InfraStack,  \* INFRA_STACK_NAME
  Templates,   \* template bodies
  HasOutputs,  \* the templates that declare every output the CLI looks up
  OldTemplates,\* the templates earlier runs may have deployed
  NoTemplate,  \* no template: a stack without one, a role template file not found
  Requests,    \* the arguments and projects a process may be started with
  Nobody,      \* no process
  NoRole,      \* no execution role ARN
  GivenRole,   \* the ARN given with --role-arn
  MaxSecond,   \* bound on the clock
  Faults       \* which faults the environment may inject

StackNames == Names \cup {InfraStack}
Seconds == 0 .. MaxSecond
Keys == Names \X Seconds
Roles == Names \cup {NoRole, GivenRole}
Faulty == {"notReady", "clientError", "crash", "stackFails", "waiterTimesOut",
           "registrationFails"}

(* What a process is started with.  --role-arn and --no-role exclude each   *)
(* other on the command line.                                               *)
Request ==
  {r \in [name : Names, infraTmpl : Templates, roleTmpl : Templates \cup {NoTemplate},
          roleArn : {NoRole, GivenRole}, useRole : BOOLEAN, handlers : BOOLEAN,
          setDefault : BOOLEAN, dryRun : BOOLEAN] :
     r.useRole \/ r.roleArn = NoRole}

ASSUME NamesAssumption == InfraStack \notin Names
ASSUME TemplatesAssumption ==
  HasOutputs \subseteq Templates /\ OldTemplates \subseteq Templates /\ NoTemplate \notin Templates
ASSUME RequestsAssumption == Requests \subseteq Request
ASSUME NobodyAssumption == Nobody \notin Procs
ASSUME RolesAssumption == NoRole # GivenRole /\ {NoRole, GivenRole} \cap Names = {}
ASSUME BoundAssumption == MaxSecond \in Nat
ASSUME FaultsAssumption == Faults \subseteq Faulty

VARIABLES
  req,       \* req[p]: arguments and project of process p
  pc,        \* pc[p]: the next call p makes
  exit,      \* exit[p]: exit code of p
  stackOf,   \* stackOf[p]: the stack p is bringing up to date
  arn,       \* arn[p]: local variable role_arn
  key,       \* key[p]: S3 object key
  stacks,    \* the account's CloudFormation stacks
  bucket,    \* bucket[k]: whose package object k holds
  reg,       \* reg[p]: the registration p requested
  default,   \* default[n]: whose version was made the default of type n
  now        \* UTC clock, in seconds

procVars == <<req, pc, exit, stackOf, arn, key>>
account == <<stacks, bucket, reg, default>>
vars == <<req, pc, exit, stackOf, arn, key, stacks, bucket, reg, default, now>>

-----------------------------------------------------------------------------
(* CloudFormation stacks, as the CLI sees them.  `next` is the template of  *)
(* the operation in progress, `writers` the processes whose create or       *)
(* update the service accepted.                                             *)

StackStatus == {"NONE", "CREATE_IN_PROGRESS", "CREATE_COMPLETE", "ROLLBACK_COMPLETE",
                "UPDATE_IN_PROGRESS", "UPDATE_COMPLETE", "UPDATE_ROLLBACK_COMPLETE"}
Updatable == {"CREATE_COMPLETE", "UPDATE_COMPLETE", "UPDATE_ROLLBACK_COMPLETE"}
Created == Updatable \cup {"UPDATE_IN_PROGRESS"}

Stack == [status : StackStatus, tmpl : Templates \cup {NoTemplate},
          next : Templates \cup {NoTemplate}, writers : SUBSET Procs]
NoStack == [status |-> "NONE", tmpl |-> NoTemplate, next |-> NoTemplate, writers |-> {}]
Deployed(t) == [status |-> "CREATE_COMPLETE", tmpl |-> t, next |-> t, writers |-> {}]

(* The stack once the service accepted an operation of p / once it ended.   *)
Accepted(stack, status, p, t) ==
  [stack EXCEPT !.status = status, !.next = t, !.writers = stack.writers \cup {p}]
Ended(stack, status, t) == [stack EXCEPT !.status = status, !.tmpl = t]

HasOutput(s) == stacks[s].status \in Created /\ stacks[s].tmpl \in HasOutputs

Registration == [status : {"NONE", "IN_PROGRESS", "COMPLETE", "FAILED"},
                 key : Keys, content : Procs \cup {Nobody}, role : Roles]

Steps == {"start", "create", "update", "waitCreate", "waitUpdate", "output", "stamp",
          "put", "register", "waitRegistration", "describe", "setDefault", "finish", "done"}
Codes == {"none", "0", "1", "2", "127"}

TypeOK ==
  /\ req \in [Procs -> Requests]
  /\ pc \in [Procs -> Steps]
  /\ exit \in [Procs -> Codes]
  /\ stackOf \in [Procs -> StackNames]
  /\ arn \in [Procs -> Roles]
  /\ key \in [Procs -> Keys]
  /\ stacks \in [StackNames -> Stack]
  /\ bucket \in [Keys -> Procs \cup {Nobody}]
  /\ reg \in [Procs -> Registration]
  /\ default \in [Names -> Procs \cup {Nobody}]
  /\ now \in Seconds

(* A process starts in any account: each stack may be missing or deployed   *)
(* by an earlier run.                                                       *)
Init ==
  /\ req \in [Procs -> Requests]
  /\ pc = [p \in Procs |-> "start"]
  /\ exit = [p \in Procs |-> "none"]
  /\ stackOf = [p \in Procs |-> InfraStack]
  /\ arn = [p \in Procs |-> req[p].roleArn]
  /\ key = [p \in Procs |-> <<req[p].name, 0>>]
  /\ stacks \in [StackNames -> {NoStack} \cup {Deployed(t) : t \in OldTemplates}]
  /\ bucket = [k \in Keys |-> Nobody]
  /\ reg = [p \in Procs |-> [status |-> "NONE", key |-> <<req[p].name, 0>>,
                             content |-> Nobody, role |-> NoRole]]
  /\ default = [n \in Names |-> Nobody]
  /\ now = 0

-----------------------------------------------------------------------------
Goto(p, step) == pc' = [pc EXCEPT ![p] = step] /\ UNCHANGED exit
Exit(p, code) == pc' = [pc EXCEPT ![p] = "done"] /\ exit' = [exit EXCEPT ![p] = code]

(* The template the process wants on the stack it is working on.            *)
Wanted(p) == IF stackOf[p] = InfraStack THEN req[p].infraTmpl ELSE req[p].roleTmpl

(* Uploader.upload begins: the infrastructure template is checked for the   *)
(* outputs, then the stack is created.                                      *)
BeginUpload(p) ==
  /\ stackOf' = [stackOf EXCEPT ![p] = InfraStack]
  /\ IF req[p].infraTmpl \in HasOutputs THEN Goto(p, "create") ELSE Exit(p, "127")

NeedsRoleStack(r) == r.useRole /\ r.roleArn = NoRole /\ r.handlers

(* Project.submit up to the first remote call.  The project may not load,   *)
(* its packaging fail, or the session have no region or credentials.        *)
Start(p) ==
  /\ pc[p] = "start"
  /\ \/ /\ "notReady" \in Faults
        /\ \E code \in {"1", "2", "127"} : Exit(p, code)
        /\ UNCHANGED stackOf
     \/ /\ req[p].dryRun
        /\ Exit(p, "0")
        /\ UNCHANGED stackOf
     \/ /\ ~req[p].dryRun
        /\ NeedsRoleStack(req[p])
        /\ stackOf' = [stackOf EXCEPT ![p] = req[p].name]
        /\ IF req[p].roleTmpl = NoTemplate THEN Exit(p, "1") ELSE Goto(p, "create")
     \/ /\ ~req[p].dryRun
        /\ ~NeedsRoleStack(req[p])
        /\ BeginUpload(p)
  /\ UNCHANGED <<req, arn, key, account, now>>

(* cfn_client.create_stack: accepted, or AlreadyExistsException.            *)
CreateStack(p) ==
  /\ pc[p] = "create"
  /\ \/ /\ stacks[stackOf[p]].status = "NONE"
        /\ stacks' = [stacks EXCEPT ![stackOf[p]] =
                        Accepted(@, "CREATE_IN_PROGRESS", p, Wanted(p))]
        /\ Goto(p, "waitCreate")
     \/ /\ stacks[stackOf[p]].status # "NONE"
        /\ Goto(p, "update")
        /\ UNCHANGED stacks
  /\ UNCHANGED <<req, stackOf, arn, key, bucket, reg, default, now>>

(* Mutant: the update is not waited for.                                    *)
UpdateStackNoWait(p) ==
  /\ pc[p] = "update"
  /\ IF stacks[stackOf[p]].status \in Updatable
     THEN /\ stacks' = IF stacks[stackOf[p]].tmpl = Wanted(p) THEN stacks
                       ELSE [stacks EXCEPT ![stackOf[p]] =
                        Accepted(@, "UPDATE_IN_PROGRESS", p, Wanted(p))]
          /\ Goto(p, "output")
     ELSE Exit(p, "2") /\ UNCHANGED stacks
  /\ UNCHANGED <<req, stackOf, arn, key, bucket, reg, default, now>>

(* Mutant: "No updates are to be performed" is an error like any other.     *)
UpdateStackNoopFails(p) ==
  /\ pc[p] = "update"
  /\ IF /\ stacks[stackOf[p]].status \in Updatable
        /\ stacks[stackOf[p]].tmpl # Wanted(p)
     THEN /\ stacks' = [stacks EXCEPT ![stackOf[p]] =
                        Accepted(@, "UPDATE_IN_PROGRESS", p, Wanted(p))]
          /\ Goto(p, "waitUpdate")
     ELSE Exit(p, "2") /\ UNCHANGED stacks
  /\ UNCHANGED <<req, stackOf, arn, key, bucket, reg, default, now>>

(* cfn_client.update_stack: a no-op, accepted, or refused because of the    *)
(* state the stack is in (DownstreamError).                                 *)
UpdateStack(p) ==
  /\ pc[p] = "update"
  /\ \/ /\ stacks[stackOf[p]].status \in Updatable
        /\ stacks[stackOf[p]].tmpl = Wanted(p)
        /\ Goto(p, "output")
        /\ UNCHANGED stacks
     \/ /\ stacks[stackOf[p]].status \in Updatable
        /\ stacks[stackOf[p]].tmpl # Wanted(p)
        /\ stacks' = [stacks EXCEPT ![stackOf[p]] =
                        Accepted(@, "UPDATE_IN_PROGRESS", p, Wanted(p))]
        /\ Goto(p, "waitUpdate")
     \/ /\ stacks[stackOf[p]].status \notin Updatable
        /\ Exit(p, "2")
        /\ UNCHANGED stacks
  /\ UNCHANGED <<req, stackOf, arn, key, bucket, reg, default, now>>

(* Mutant: the waiter has no limit of attempts.                             *)
WaitForStackForever(p) ==
  LET status == stacks[stackOf[p]].status IN
  /\ \/ /\ \/ pc[p] = "waitCreate" /\ status \in Created
           \/ pc[p] = "waitUpdate" /\ status = "UPDATE_COMPLETE"
        /\ Goto(p, "output")
     \/ /\ pc[p] \in {"waitCreate", "waitUpdate"}
        /\ status \in {"ROLLBACK_COMPLETE", "UPDATE_ROLLBACK_COMPLETE"}
        /\ Exit(p, "127")
  /\ UNCHANGED <<req, stackOf, arn, key, account, now>>

(* _wait_for_stack polls the stack's status, whichever operation it is of.  *)
(* A failed stack or too many attempts raise UploadError, which cli.main    *)
(* does not expect.                                                         *)
WaitForStack(p) ==
  LET status == stacks[stackOf[p]].status
      settled == IF pc[p] = "waitCreate" THEN {"CREATE_COMPLETE", "ROLLBACK_COMPLETE"}
                 ELSE {"UPDATE_COMPLETE", "UPDATE_ROLLBACK_COMPLETE"}
  IN
  /\ \/ /\ pc[p] = "waitCreate"
        /\ status \in Created
        /\ Goto(p, "output")
     \/ /\ pc[p] = "waitCreate"
        /\ status = "ROLLBACK_COMPLETE"
        /\ Exit(p, "127")
     \/ /\ pc[p] = "waitUpdate"
        /\ status = "UPDATE_COMPLETE"
        /\ Goto(p, "output")
     \/ /\ pc[p] = "waitUpdate"
        /\ status = "UPDATE_ROLLBACK_COMPLETE"
        /\ Exit(p, "127")
     \/ /\ pc[p] \in {"waitCreate", "waitUpdate"}
        /\ status \notin settled
        /\ "waiterTimesOut" \in Faults
        /\ Exit(p, "127")
  /\ UNCHANGED <<req, stackOf, arn, key, account, now>>

(* Mutant: the role ARN is read after the local variable stack_id was reused. *)
GetStackOutputWrongStack(p) ==
  /\ pc[p] = "output"
  /\ HasOutput(stackOf[p])
  /\ arn' = [arn EXCEPT ![p] = stackOf[p]]
  /\ IF stackOf[p] # InfraStack THEN BeginUpload(p)
     ELSE Goto(p, "stamp") /\ UNCHANGED stackOf
  /\ UNCHANGED <<req, key, account, now>>

(* _get_stack_output: a stack without outputs (KeyError) or without this    *)
(* one (InternalError) ends the process.                                    *)
GetStackOutput(p) ==
  /\ pc[p] = "output"
  /\ \/ /\ ~HasOutput(stackOf[p])
        /\ Exit(p, "127")
        /\ UNCHANGED <<stackOf, arn>>
     \/ /\ HasOutput(stackOf[p])
        /\ stackOf[p] # InfraStack
        /\ arn' = [arn EXCEPT ![p] = stackOf[p]]
        /\ BeginUpload(p)
     \/ /\ HasOutput(stackOf[p])
        /\ stackOf[p] = InfraStack
        /\ Goto(p, "stamp")
        /\ UNCHANGED <<stackOf, arn>>
  /\ UNCHANGED <<req, key, account, now>>

(* The object key carries a time stamp of one second's precision.           *)
StampKey(p) ==
  /\ pc[p] = "stamp"
  /\ key' = [key EXCEPT ![p] = <<req[p].name, now>>]
  /\ Goto(p, "put")
  /\ UNCHANGED <<req, stackOf, arn, account, now>>

(* s3_client.upload_fileobj                                                 *)
UploadFile(p) ==
  /\ pc[p] = "put"
  /\ bucket' = [bucket EXCEPT ![key[p]] = p]
  /\ Goto(p, "register")
  /\ UNCHANGED <<req, stackOf, arn, key, stacks, reg, default, now>>

(* Mutant: the URL is built a second time, from the clock.                  *)
RegisterTypeRestamped(p) ==
  /\ pc[p] = "register"
  /\ reg' = [reg EXCEPT ![p] =
               [@ EXCEPT !.status = "IN_PROGRESS", !.key = <<req[p].name, now>>,
                         !.role = IF req[p].useRole THEN arn[p] ELSE NoRole]]
  /\ Goto(p, "waitRegistration")
  /\ UNCHANGED <<req, stackOf, arn, key, stacks, bucket, default, now>>

(* cfn_client.register_type; the client request token is fresh.             *)
RegisterType(p) ==
  /\ pc[p] = "register"
  /\ reg' = [reg EXCEPT ![p] =
               [@ EXCEPT !.status = "IN_PROGRESS", !.key = key[p],
                         !.role = IF req[p].useRole THEN arn[p] ELSE NoRole]]
  /\ Goto(p, "waitRegistration")
  /\ UNCHANGED <<req, stackOf, arn, key, stacks, bucket, default, now>>

(* Mutant: the WaiterError is logged and not raised.                        *)
WaitForRegistrationSwallowed(p) ==
  /\ pc[p] = "waitRegistration"
  /\ \/ reg[p].status \in {"COMPLETE", "FAILED"}
     \/ reg[p].status = "IN_PROGRESS" /\ "waiterTimesOut" \in Faults
  /\ Goto(p, "describe")
  /\ UNCHANGED <<req, stackOf, arn, key, account, now>>

(* The registration waiter.  A failed registration and a wait that is too   *)
(* long are the same WaiterError: the registration is described and         *)
(* DownstreamError raised.                                                  *)
WaitForRegistration(p) ==
  /\ pc[p] = "waitRegistration"
  /\ \/ reg[p].status = "COMPLETE" /\ Goto(p, "describe")
     \/ reg[p].status = "FAILED" /\ Exit(p, "2")
     \/ /\ reg[p].status = "IN_PROGRESS"
        /\ "waiterTimesOut" \in Faults
        /\ Exit(p, "2")
  /\ UNCHANGED <<req, stackOf, arn, key, account, now>>

(* describe_type_registration after success gives the version's ARN.        *)
DescribeRegistration(p) ==
  /\ pc[p] = "describe"
  /\ IF req[p].setDefault THEN Goto(p, "setDefault") ELSE Exit(p, "0")
  /\ UNCHANGED <<req, stackOf, arn, key, account, now>>

(* Mutant: after the default version was set, a call may still be refused,  *)
(* and the command reports failure.                                         *)
SetDefaultVersionEarly(p) ==
  /\ pc[p] = "setDefault"
  /\ default' = [default EXCEPT ![req[p].name] = p]
  /\ \/ Goto(p, "finish")
     \/ "clientError" \in Faults /\ Exit(p, "2")
  /\ UNCHANGED <<req, stackOf, arn, key, stacks, bucket, reg, now>>

(* cfn_client.set_type_default_version takes effect.  The process has not   *)
(* ended yet: the answer may still be lost (Crash).                         *)
SetDefaultVersion(p) ==
  /\ pc[p] = "setDefault"
  /\ default' = [default EXCEPT ![req[p].name] = p]
  /\ Goto(p, "finish")
  /\ UNCHANGED <<req, stackOf, arn, key, stacks, bucket, reg, now>>

(* The answer arrives, and the command returns to cli.main.                 *)
Finish(p) ==
  /\ pc[p] = "finish"
  /\ Exit(p, "0")
  /\ UNCHANGED <<req, stackOf, arn, key, account, now>>

(* A call refused by the service, without effect: a ClientError that is     *)
(* caught and turned into DownstreamError.                                  *)
CallRefused(p) ==
  /\ "clientError" \in Faults
  /\ pc[p] \in {"create", "update", "put", "register", "setDefault"}
  /\ Exit(p, "2")
  /\ UNCHANGED <<req, stackOf, arn, key, account, now>>

(* The process ends between two steps: an exception nothing catches (a      *)
(* connection error or a read timeout, also of a call that took effect: the *)
(* step after the call is not reached; a describe call refused), an         *)
(* interrupt, a kill.                                                       *)
Crash(p) ==
  /\ "crash" \in Faults
  /\ pc[p] \notin {"start", "done"}
  /\ Exit(p, "127")
  /\ UNCHANGED <<req, stackOf, arn, key, account, now>>

-----------------------------------------------------------------------------
(* The services.                                                            *)

StackOperationEnds(s) ==
  /\ \/ /\ stacks[s].status = "CREATE_IN_PROGRESS"
        /\ stacks' = [stacks EXCEPT ![s] =
                        Ended(@, "CREATE_COMPLETE", stacks[s].next)]
     \/ /\ stacks[s].status = "UPDATE_IN_PROGRESS"
        /\ stacks' = [stacks EXCEPT ![s] =
                        Ended(@, "UPDATE_COMPLETE", stacks[s].next)]
     \/ /\ "stackFails" \in Faults
        /\ stacks[s].status = "CREATE_IN_PROGRESS"
        /\ stacks' = [stacks EXCEPT ![s] = Ended(@, "ROLLBACK_COMPLETE", stacks[s].tmpl)]
     \/ /\ "stackFails" \in Faults
        /\ stacks[s].status = "UPDATE_IN_PROGRESS"
        /\ stacks' = [stacks EXCEPT ![s] = Ended(@, "UPDATE_ROLLBACK_COMPLETE", stacks[s].tmpl)]
  /\ UNCHANGED <<procVars, bucket, reg, default, now>>

(* The registry reads the package some time after register_type returned.   *)
RegistrationEnds(p) ==
  /\ reg[p].status = "IN_PROGRESS"
  /\ \/ /\ bucket[reg[p].key] # Nobody
        /\ reg' = [reg EXCEPT ![p] = [@ EXCEPT !.status = "COMPLETE",
                                               !.content = bucket[reg[p].key]]]
     \/ /\ "registrationFails" \in Faults \/ bucket[reg[p].key] = Nobody
        /\ reg' = [reg EXCEPT ![p] = [@ EXCEPT !.status = "FAILED"]]
  /\ UNCHANGED <<procVars, stacks, bucket, default, now>>

Tick ==
  /\ now < MaxSecond
  /\ now' = now + 1
  /\ UNCHANGED <<procVars, account>>

-----------------------------------------------------------------------------
ProcStep(p) ==
  \/ Start(p) \/ CreateStack(p) \/ UpdateStack(p) \/ WaitForStack(p)
  \/ GetStackOutput(p) \/ StampKey(p) \/ UploadFile(p) \/ RegisterType(p)
  \/ WaitForRegistration(p) \/ DescribeRegistration(p) \/ SetDefaultVersion(p) \/ Finish(p)

Service ==
  \/ \E s \in StackNames : StackOperationEnds(s)
  \/ \E p \in Procs : RegistrationEnds(p)

Next ==
  \/ \E p \in Procs : ProcStep(p) \/ CallRefused(p) \/ Crash(p)
  \/ Service
  \/ Tick

Spec == Init /\ [][Next]_vars

(* A process that runs goes on: its calls return and its waiters give up    *)
(* after a fixed number of attempts.                                        *)
ProcFairness == \A p \in Procs : WF_vars(pc[p] # "start" /\ ProcStep(p))

(* The services finish what they accepted.                                  *)
ServiceFairness ==
  /\ \A s \in StackNames : WF_vars(StackOperationEnds(s))
  /\ \A p \in Procs : WF_vars(RegistrationEnds(p))

FairSpec == Spec /\ ProcFairness
FairServicesSpec == Spec /\ ProcFairness /\ ServiceFairness

-----------------------------------------------------------------------------
(* Correctness.                                                             *)

(* A version is the default one only if its registration completed and its  *)
(* submitter asked for it (_wait_for_registration).                         *)
DefaultIsRegistered ==
  \A n \in Names : default[n] # Nobody =>
    /\ reg[default[n]].status = "COMPLETE"
    /\ req[default[n]].name = n
    /\ req[default[n]].setDefault

(* Exit code 0 of a submit that is not a dry run means that the version is  *)
(* registered and, if asked for, that the type has a default version; exit  *)
(* codes 1 and 2 mean that the version was not made the default one.        *)
ExitCodeIsTruthful ==
  \A p \in Procs :
    /\ exit[p] = "0" /\ ~req[p].dryRun =>
         /\ reg[p].status = "COMPLETE"
         /\ req[p].setDefault => default[req[p].name] # Nobody
    /\ exit[p] \in {"1", "2"} => default[req[p].name] # p

(* A registered version holds its submitter's package, or one of a submit   *)
(* of the same type stamped in the same second (Uploader.upload's key).     *)
PackageIsOwn ==
  \A p \in Procs : reg[p].status = "COMPLETE" =>
    reg[p].content \in Procs /\ key[reg[p].content] = key[p]

(* A type registered with its role stack's ARN has a role stack with that   *)
(* output, and the project's own role template is deployed there unless a   *)
(* submit with another template changed the stack.                          *)
RoleStackIsReady ==
  \A p \in Procs : reg[p].role \in Names =>
    LET stack == stacks[reg[p].role]
        undisturbed == \A q \in stack.writers : req[q].roleTmpl = req[p].roleTmpl
    IN  /\ reg[p].role = req[p].name
        /\ stack.status \in Created
        /\ undisturbed => stack.tmpl = req[p].roleTmpl /\ HasOutput(reg[p].role)

(* A submit that has begun ends, even if CloudFormation never finishes an   *)
(* operation: every waiter is bounded.                                      *)
SubmitTerminates == \A p \in Procs : pc[p] # "start" ~> pc[p] = "done"

(* Where nothing fails, competing submits do not defeat each other: one of  *)
(* those that have begun publishes its version.                             *)
SomeoneSucceeds ==
  (\E p \in Procs : pc[p] # "start") ~> (\E p \in Procs : exit[p] = "0")
-----------------------------------------------------------------------------
(* Submit implements Publication.  What a process wishes, the state of its  *)
(* version and what it reported are functions of its request, of its        *)
(* registration, of its place in the program and of its exit code: one that *)
(* waits for the answer to set_type_default_version has published.          *)
WishOf ==
  [p \in Procs |-> [name |-> req[p].name, setDefault |-> req[p].setDefault,
                    dryRun |-> req[p].dryRun]]
VersionState == [NONE |-> "none", IN_PROGRESS |-> "pending",
                 COMPLETE |-> "registered", FAILED |-> "rejected"]
VersionOf == [p \in Procs |-> VersionState[reg[p].status]]
Outcome(p) ==
  IF pc[p] = "finish" THEN "published"
  ELSE IF exit[p] = "none" THEN "none"
  ELSE IF exit[p] = "0" THEN "success" ELSE "failure"
OutcomeOf == [p \in Procs |-> Outcome(p)]

P == INSTANCE Publication WITH wish <- WishOf, version <- VersionOf, outcome <- OutcomeOf

(* Every submit implements Publication: a success it reports is true, it    *)
(* makes a default of a registered version only, once, and a failure it     *)
(* reports takes nothing back.                                              *)
ImplementsPublication == P!Spec
=============================================================================
