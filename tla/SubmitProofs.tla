---------------------------- MODULE SubmitProofs ----------------------------
(***************************************************************************)
(* Proofs about Submit, for every set of processes, types, templates and   *)
(* requests, and every choice of faults.                                   *)
(***************************************************************************)
EXTENDS Submit, TLAPS

-----------------------------------------------------------------------------
(* Types.                                                                   *)

(* The constants are typed as Submit assumes.                               *)
LEMMA RequestFields ==
  ASSUME NEW r \in Requests
  PROVE  /\ r.name \in Names
         /\ r.infraTmpl \in Templates
         /\ r.roleTmpl \in Templates \cup {NoTemplate}
         /\ r.roleArn \in {NoRole, GivenRole}
         /\ r.useRole \in BOOLEAN /\ r.handlers \in BOOLEAN
         /\ r.setDefault \in BOOLEAN /\ r.dryRun \in BOOLEAN
BY RequestsAssumption DEF Request

(* A stack's record stays one when the service accepts or ends an operation. *)
LEMMA StackUpdate ==
  ASSUME NEW stack \in Stack, NEW st \in StackStatus, NEW t \in Templates \cup {NoTemplate},
         NEW p \in Procs
  PROVE  Accepted(stack, st, p, t) \in Stack /\ Ended(stack, st, t) \in Stack
BY DEF Stack, Accepted, Ended

LEMMA WantedType ==
  ASSUME TypeOK, NEW p \in Procs
  PROVE  Wanted(p) \in Templates \cup {NoTemplate}
BY RequestFields DEF TypeOK, Wanted

LEMMA TypeInit == Init => TypeOK
<1> SUFFICES ASSUME Init PROVE TypeOK
  OBVIOUS
<1> USE DEF Init
<1>1. \A p \in Procs : req[p] \in Requests
  OBVIOUS
<1>2. \A p \in Procs : req[p].name \in Names /\ req[p].roleArn \in Roles
  BY <1>1, RequestFields DEF Roles
<1>3. 0 \in Seconds
  BY BoundAssumption DEF Seconds
<1>4. key \in [Procs -> Keys]
  BY <1>2, <1>3 DEF Keys
<1>5. arn \in [Procs -> Roles]
  BY <1>2
<1>6. reg \in [Procs -> Registration]
  BY <1>2, <1>3 DEF Registration, Keys, Roles
<1>7. stacks \in [StackNames -> Stack]
  <2>1. NoStack \in Stack
    BY DEF NoStack, Stack, StackStatus
  <2>2. \A t \in OldTemplates : Deployed(t) \in Stack
    BY TemplatesAssumption DEF Deployed, Stack, StackStatus
  <2> QED BY <2>1, <2>2
<1>8. stackOf \in [Procs -> StackNames]
  BY DEF StackNames
<1>9. bucket \in [Keys -> Procs \cup {Nobody}] /\ default \in [Names -> Procs \cup {Nobody}]
  OBVIOUS
<1> QED BY <1>3, <1>4, <1>5, <1>6, <1>7, <1>8, <1>9 DEF TypeOK, Steps, Codes

LEMMA TypeNext == TypeOK /\ [Next]_vars => TypeOK'
<1> SUFFICES ASSUME TypeOK, [Next]_vars PROVE TypeOK'
  OBVIOUS
<1> USE DEF TypeOK, account, procVars, Goto, Exit, Steps, Codes
<1>1. ASSUME NEW p \in Procs, Start(p) PROVE TypeOK'
  BY <1>1, RequestFields DEF Start, BeginUpload, StackNames
<1>2. ASSUME NEW p \in Procs, CreateStack(p) PROVE TypeOK'
  <2>0. Accepted(stacks[stackOf[p]], "CREATE_IN_PROGRESS", p, Wanted(p)) \in Stack
    <3>1. stacks[stackOf[p]] \in Stack /\ "CREATE_IN_PROGRESS" \in StackStatus
      BY DEF StackStatus
    <3> QED BY <3>1, WantedType, StackUpdate
  <2>1. stacks' \in [StackNames -> Stack]
    BY <1>2, <2>0 DEF CreateStack
  <2> QED BY <1>2, <2>1 DEF CreateStack
<1>3. ASSUME NEW p \in Procs, UpdateStack(p) PROVE TypeOK'
  <2>0. Accepted(stacks[stackOf[p]], "UPDATE_IN_PROGRESS", p, Wanted(p)) \in Stack
    <3>1. stacks[stackOf[p]] \in Stack /\ "UPDATE_IN_PROGRESS" \in StackStatus
      BY DEF StackStatus
    <3> QED BY <3>1, WantedType, StackUpdate
  <2>1. stacks' \in [StackNames -> Stack]
    BY <1>3, <2>0 DEF UpdateStack
  <2> QED BY <1>3, <2>1 DEF UpdateStack
<1>4. ASSUME NEW p \in Procs, WaitForStack(p) PROVE TypeOK'
  BY <1>4 DEF WaitForStack
<1>5. ASSUME NEW p \in Procs, GetStackOutput(p) PROVE TypeOK'
  BY <1>5 DEF GetStackOutput, BeginUpload, StackNames, Roles
<1>6. ASSUME NEW p \in Procs, StampKey(p) PROVE TypeOK'
  BY <1>6, RequestFields DEF StampKey, Keys
<1>7. ASSUME NEW p \in Procs, UploadFile(p) PROVE TypeOK'
  BY <1>7 DEF UploadFile
<1>8. ASSUME NEW p \in Procs, RegisterType(p) PROVE TypeOK'
  <2>1. [reg[p] EXCEPT !.status = "IN_PROGRESS", !.key = key[p],
                       !.role = IF req[p].useRole THEN arn[p] ELSE NoRole] \in Registration
    BY DEF Registration, Roles
  <2> QED BY <1>8, <2>1 DEF RegisterType
<1>9. ASSUME NEW p \in Procs, WaitForRegistration(p) PROVE TypeOK'
  BY <1>9 DEF WaitForRegistration
<1>10. ASSUME NEW p \in Procs, DescribeRegistration(p) PROVE TypeOK'
  BY <1>10 DEF DescribeRegistration
<1>11. ASSUME NEW p \in Procs, SetDefaultVersion(p) PROVE TypeOK'
  BY <1>11, RequestFields DEF SetDefaultVersion
<1>18. ASSUME NEW p \in Procs, Finish(p) PROVE TypeOK'
  BY <1>18 DEF Finish
<1>12. ASSUME NEW p \in Procs, CallRefused(p) PROVE TypeOK'
  BY <1>12 DEF CallRefused
<1>13. ASSUME NEW p \in Procs, Crash(p) PROVE TypeOK'
  BY <1>13 DEF Crash
<1>14. ASSUME NEW s \in StackNames, StackOperationEnds(s) PROVE TypeOK'
  <2>1. stacks' \in [StackNames -> Stack]
    <3>1. PICK st \in StackStatus, t \in {stacks[s].next, stacks[s].tmpl} :
            stacks' = [stacks EXCEPT ![s] = Ended(stacks[s], st, t)]
      BY <1>14 DEF StackOperationEnds, StackStatus
    <3>2. t \in Templates \cup {NoTemplate}
      BY DEF Stack
    <3>3. Ended(stacks[s], st, t) \in Stack
      <4>1. stacks[s] \in Stack
        OBVIOUS
      <4> QED BY <3>1, <3>2, <4>1 DEF Stack, Ended
    <3> QED BY <3>1, <3>3
  <2> QED BY <1>14, <2>1 DEF StackOperationEnds
<1>15. ASSUME NEW p \in Procs, RegistrationEnds(p) PROVE TypeOK'
  <2>1. \A c \in Procs \cup {Nobody} :
          /\ [reg[p] EXCEPT !.status = "COMPLETE", !.content = c] \in Registration
          /\ [reg[p] EXCEPT !.status = "FAILED"] \in Registration
    BY DEF Registration
  <2>2. reg[p].key \in Keys
    BY DEF Registration
  <2>3. reg' \in [Procs -> Registration]
    <3>1. PICK r \in Registration : reg' = [reg EXCEPT ![p] = r]
      BY <1>15, <2>1, <2>2 DEF RegistrationEnds
    <3> QED BY <3>1
  <2> QED BY <1>15, <2>3 DEF RegistrationEnds
<1>16. CASE Tick
  BY <1>16, BoundAssumption DEF Tick, Seconds
<1>17. CASE UNCHANGED vars
  BY <1>17 DEF vars
<1> QED BY <1>1, <1>2, <1>3, <1>4, <1>5, <1>6, <1>7, <1>8, <1>9, <1>10, <1>11, <1>12,
           <1>13, <1>14, <1>15, <1>16, <1>17, <1>18 DEF Next, ProcStep, Service

(* Submit's variables have their types in every reachable state.            *)
THEOREM TypeCorrect == Spec => []TypeOK
BY TypeInit, TypeNext, PTL DEF Spec

-----------------------------------------------------------------------------
(* Control: what a process's place in the program says of its registration  *)
(* and of the exit code.                                                    *)

BeforeRegister ==
  {"start", "create", "update", "waitCreate", "waitUpdate", "output", "stamp", "put", "register"}

Control(p) ==
  /\ exit[p] = "none" <=> pc[p] # "done"
  /\ pc[p] \in BeforeRegister => reg[p].status = "NONE"
  /\ pc[p] \in {"describe", "setDefault", "finish"} => reg[p].status = "COMPLETE"
  /\ pc[p] \in {"setDefault", "finish"} => req[p].setDefault
  /\ req[p].dryRun => pc[p] \in {"start", "done"}

(* A process that waits for the answer to set_type_default_version has made *)
(* the type have a default version.                                         *)
Answered(p) == pc[p] = "finish" => default[req[p].name] # Nobody

(* A default version is that of a process that made the call: it waits for  *)
(* the answer, or ended with 0, or without the answer; a code of 1 or 2     *)
(* says that the call was not made, or was refused.                         *)
DefaultCalled ==
  \A n \in Names : default[n] # Nobody =>
    /\ default[n] \in Procs
    /\ pc[default[n]] \in {"finish", "done"}
    /\ exit[default[n]] \in {"none", "0", "127"}

ControlInv ==
  /\ \A p \in Procs : Control(p) /\ Answered(p)
  /\ DefaultCalled /\ DefaultIsRegistered /\ ExitCodeIsTruthful

(* What a step of a process leaves alone of the others.                     *)
LEMMA OthersKeep ==
  ASSUME TypeOK, NEW p \in Procs, NEW q \in Procs \ {p},
         ProcStep(p) \/ CallRefused(p) \/ Crash(p)
  PROVE  pc'[q] = pc[q] /\ exit'[q] = exit[q] /\ reg'[q] = reg[q] /\ req'[q] = req[q]
         /\ key'[q] = key[q] /\ arn'[q] = arn[q] /\ stackOf'[q] = stackOf[q]
<1> USE DEF TypeOK, account, procVars, Goto, Exit, Start, BeginUpload, CreateStack, UpdateStack,
        WaitForStack, GetStackOutput, StampKey, UploadFile, RegisterType, WaitForRegistration,
        DescribeRegistration, SetDefaultVersion, Finish, CallRefused, Crash
<1>1. CASE Start(p) BY <1>1
<1>2. CASE CreateStack(p) BY <1>2
<1>3. CASE UpdateStack(p) BY <1>3
<1>4. CASE WaitForStack(p) BY <1>4
<1>5. CASE GetStackOutput(p) BY <1>5
<1>6. CASE StampKey(p) BY <1>6
<1>7. CASE UploadFile(p) BY <1>7
<1>8. CASE RegisterType(p) BY <1>8
<1>9. CASE WaitForRegistration(p) BY <1>9
<1>10. CASE DescribeRegistration(p) BY <1>10
<1>11. CASE SetDefaultVersion(p) BY <1>11
<1>12. CASE CallRefused(p) BY <1>12
<1>13. CASE Crash(p) BY <1>13
<1>14. CASE Finish(p) BY <1>14
<1> QED BY <1>1, <1>2, <1>3, <1>4, <1>5, <1>6, <1>7, <1>8, <1>9, <1>10, <1>11, <1>12, <1>13,
           <1>14 DEF ProcStep

(* Every action keeps a process's own control invariant.                    *)
LEMMA ControlStep ==
  ASSUME TypeOK, NEW p \in Procs, Control(p), ProcStep(p) \/ CallRefused(p) \/ Crash(p)
  PROVE  Control(p)'
<1> USE DEF TypeOK, Control, BeforeRegister, account, procVars, Goto, Exit, Codes
<1>1. CASE Start(p) BY <1>1 DEF Start, BeginUpload
<1>2. CASE CreateStack(p) BY <1>2 DEF CreateStack
<1>3. CASE UpdateStack(p) BY <1>3 DEF UpdateStack
<1>4. CASE WaitForStack(p) BY <1>4 DEF WaitForStack
<1>5. CASE GetStackOutput(p) BY <1>5 DEF GetStackOutput, BeginUpload
<1>6. CASE StampKey(p) BY <1>6 DEF StampKey
<1>7. CASE UploadFile(p) BY <1>7 DEF UploadFile
<1>8. CASE RegisterType(p) BY <1>8 DEF RegisterType
<1>9. CASE WaitForRegistration(p) BY <1>9 DEF WaitForRegistration
<1>10. CASE DescribeRegistration(p) BY <1>10 DEF DescribeRegistration
<1>11. CASE SetDefaultVersion(p) BY <1>11 DEF SetDefaultVersion
<1>12. CASE CallRefused(p) BY <1>12 DEF CallRefused
<1>13. CASE Crash(p) BY <1>13 DEF Crash
<1>14. CASE Finish(p) BY <1>14 DEF Finish
<1> QED BY <1>1, <1>2, <1>3, <1>4, <1>5, <1>6, <1>7, <1>8, <1>9, <1>10, <1>11, <1>12, <1>13,
           <1>14 DEF ProcStep

(* Only set_type_default_version changes a default, and only to the         *)
(* process that made the call, which then waits for the answer.             *)
LEMMA DefaultChange ==
  ASSUME TypeOK, NEW p \in Procs, ProcStep(p) \/ CallRefused(p) \/ Crash(p)
  PROVE  \/ UNCHANGED default /\ pc'[p] # "finish"
         \/ /\ pc[p] = "setDefault" /\ pc'[p] = "finish" /\ exit'[p] = exit[p]
            /\ default' = [default EXCEPT ![req[p].name] = p]
<1> USE DEF TypeOK, account, procVars, Goto, Exit
<1>1. CASE SetDefaultVersion(p) BY <1>1 DEF SetDefaultVersion
<1>2. CASE CallRefused(p) BY <1>2 DEF CallRefused
<1>3. CASE Crash(p) BY <1>3 DEF Crash
<1>4. CASE ProcStep(p) /\ ~SetDefaultVersion(p)
  BY <1>4 DEF ProcStep, Start, BeginUpload, CreateStack, UpdateStack, WaitForStack,
     GetStackOutput, StampKey, UploadFile, RegisterType, WaitForRegistration,
     DescribeRegistration, Finish
<1> QED BY <1>1, <1>2, <1>3, <1>4

(* A process that made the call ends with 0, or without having the answer.  *)
LEMMA ExitAfterCall ==
  ASSUME TypeOK, NEW p \in Procs, ProcStep(p) \/ CallRefused(p) \/ Crash(p), pc[p] = "finish"
  PROVE  pc'[p] = "done" /\ exit'[p] \in {"0", "127"} /\ UNCHANGED default
<1> USE DEF TypeOK, account, procVars, Goto, Exit
<1>1. Finish(p) \/ Crash(p)
  BY DEF ProcStep, Start, CreateStack, UpdateStack, WaitForStack, GetStackOutput, StampKey,
     UploadFile, RegisterType, WaitForRegistration, DescribeRegistration, SetDefaultVersion,
     CallRefused
<1> QED BY <1>1 DEF Finish, Crash

(* Exit code 0 is reached from a dry run, after a complete registration     *)
(* without --set-default, or with the answer to set_type_default_version.   *)
LEMMA ExitZero ==
  ASSUME TypeOK, NEW p \in Procs, Control(p), ProcStep(p) \/ CallRefused(p) \/ Crash(p),
         exit'[p] = "0"
  PROVE  \/ req[p].dryRun
         \/ pc[p] = "describe" /\ ~req[p].setDefault
         \/ pc[p] = "finish"
<1> USE DEF TypeOK, Control, account, procVars, Goto, Exit
<1>1. CASE Start(p) BY <1>1 DEF Start, BeginUpload
<1>2. CASE CallRefused(p) \/ Crash(p) BY <1>2 DEF CallRefused, Crash
<1>3. CASE ProcStep(p) /\ ~Start(p)
  BY <1>3 DEF ProcStep, CreateStack, UpdateStack, WaitForStack, GetStackOutput, BeginUpload,
              StampKey, UploadFile, RegisterType, WaitForRegistration, DescribeRegistration,
              SetDefaultVersion, Finish
<1> QED BY <1>1, <1>2, <1>3

(* A complete registration stays complete.                                  *)
LEMMA CompleteStays ==
  ASSUME TypeOK, \A q \in Procs : Control(q), [Next]_vars, NEW p \in Procs,
         reg[p].status = "COMPLETE"
  PROVE  reg'[p] = reg[p]
<1>1. ASSUME NEW q \in Procs, ProcStep(q) \/ CallRefused(q) \/ Crash(q) PROVE reg'[p] = reg[p]
  <2>1. CASE q # p BY <1>1, <2>1, OthersKeep
  <2>2. CASE q = p
    BY <1>1, <2>2 DEF TypeOK, Control, BeforeRegister, account, procVars, ProcStep, Start,
       CreateStack, UpdateStack, WaitForStack, GetStackOutput, StampKey, UploadFile, RegisterType,
       WaitForRegistration, DescribeRegistration, SetDefaultVersion, Finish, CallRefused, Crash
  <2> QED BY <2>1, <2>2
<1>2. CASE Service
  BY <1>2 DEF TypeOK, Service, StackOperationEnds, RegistrationEnds
<1>3. CASE Tick \/ UNCHANGED vars
  BY <1>3 DEF Tick, vars, account
<1> QED BY <1>1, <1>2, <1>3 DEF Next

LEMMA ControlInit == Init => ControlInv
BY RequestFields DEF Init, ControlInv, Control, Answered, BeforeRegister, DefaultCalled,
   DefaultIsRegistered, ExitCodeIsTruthful

LEMMA ControlNext == TypeOK /\ ControlInv /\ [Next]_vars => ControlInv'
<1> SUFFICES ASSUME TypeOK, ControlInv, [Next]_vars PROVE ControlInv'
  OBVIOUS
<1>0. TypeOK'
  BY TypeNext
<1>1. ASSUME NEW p \in Procs, ProcStep(p) \/ CallRefused(p) \/ Crash(p) PROVE ControlInv'
  <2>1. \A q \in Procs : Control(q)'
    <3> TAKE q \in Procs
    <3>1. CASE q = p BY <1>1, <3>1, ControlStep DEF ControlInv
    <3>2. CASE q # p BY <1>1, <3>2, OthersKeep DEF ControlInv, Control
    <3> QED BY <3>1, <3>2
  <2>2. \A q \in Procs : req'[q] = req[q]
    BY <1>1 DEF account, procVars, ProcStep, Start, CreateStack, UpdateStack, WaitForStack,
       GetStackOutput, StampKey, UploadFile, RegisterType, WaitForRegistration,
       DescribeRegistration, SetDefaultVersion, Finish, CallRefused, Crash
  <2>3. \A q \in Procs : reg[q].status = "COMPLETE" => reg'[q].status = "COMPLETE"
    BY CompleteStays DEF ControlInv
  <2>4. exit[p] = "none"
    BY <1>1 DEF ControlInv, Control, ProcStep, Start, CreateStack, UpdateStack, WaitForStack,
       GetStackOutput, StampKey, UploadFile, RegisterType, WaitForRegistration,
       DescribeRegistration, SetDefaultVersion, Finish, CallRefused, Crash
  <2>5. \A n \in Names : \/ default'[n] = default[n]
                         \/ /\ pc[p] = "setDefault" /\ pc'[p] = "finish" /\ exit'[p] = "none"
                            /\ default'[n] = p /\ n = req[p].name
    BY <1>1, <2>4, DefaultChange DEF TypeOK
  <2>6. \A q \in Procs : req[q].name \in Names
    BY RequestFields DEF TypeOK
  <2>7. DefaultCalled'
    <3> SUFFICES ASSUME NEW n \in Names, default'[n] # Nobody
                 PROVE  /\ default'[n] \in Procs
                        /\ pc'[default'[n]] \in {"finish", "done"}
                        /\ exit'[default'[n]] \in {"none", "0", "127"}
      BY DEF DefaultCalled
    <3>1. CASE default'[n] = p /\ pc[p] = "setDefault" /\ pc'[p] = "finish" /\ exit'[p] = "none"
      BY <3>1
    <3>2. CASE default'[n] = default[n]
      <4>1. /\ default[n] \in Procs
            /\ pc[default[n]] \in {"finish", "done"}
            /\ exit[default[n]] \in {"none", "0", "127"}
        BY <3>2 DEF ControlInv, DefaultCalled
      <4>2. CASE default[n] # p
        BY <1>1, <3>2, <4>1, <4>2, OthersKeep
      <4>3. CASE default[n] = p
        <5>1. pc[p] = "finish"
          BY <2>4, <4>1, <4>3 DEF ControlInv, Control
        <5> QED BY <1>1, <3>2, <4>1, <4>3, <5>1, ExitAfterCall
      <4> QED BY <4>2, <4>3
    <3> QED BY <2>5, <3>1, <3>2
  <2>8. DefaultIsRegistered'
    <3> SUFFICES ASSUME NEW n \in Names, default'[n] # Nobody
                 PROVE  /\ reg'[default'[n]].status = "COMPLETE"
                        /\ req'[default'[n]].name = n
                        /\ req'[default'[n]].setDefault
      BY DEF DefaultIsRegistered
    <3>1. CASE default'[n] = default[n]
      BY <2>2, <2>3, <3>1 DEF ControlInv, DefaultCalled, DefaultIsRegistered
    <3>2. CASE default'[n] = p /\ n = req[p].name /\ pc[p] = "setDefault"
      BY <2>2, <2>3, <3>2 DEF ControlInv, Control
    <3> QED BY <2>5, <3>1, <3>2
  <2>9. \A n \in Names : default[n] # Nobody => default'[n] # Nobody
    BY <2>5, NobodyAssumption
  <2>10. \A q \in Procs : Answered(q)'
    <3> TAKE q \in Procs
    <3>1. CASE q # p
      BY <1>1, <2>2, <2>6, <2>9, <3>1, OthersKeep DEF ControlInv, Answered
    <3>2. CASE q = p
      <4>1. pc'[p] = "finish" => default'[req[p].name] = p
        BY <1>1, <2>6, DefaultChange DEF TypeOK
      <4> QED BY <2>2, <3>2, <4>1, NobodyAssumption DEF Answered
    <3> QED BY <3>1, <3>2
  <2>11. ExitCodeIsTruthful'
    <3> SUFFICES ASSUME NEW q \in Procs
                 PROVE  /\ exit'[q] = "0" /\ ~req'[q].dryRun =>
                             /\ reg'[q].status = "COMPLETE"
                             /\ req'[q].setDefault => default'[req'[q].name] # Nobody
                        /\ exit'[q] \in {"1", "2"} => default'[req'[q].name] # q
      BY DEF ExitCodeIsTruthful
    <3>1. exit'[q] \in {"1", "2"} => default'[req'[q].name] # q
      BY <2>2, <2>6, <2>7, NobodyAssumption DEF DefaultCalled
    <3>2. CASE q # p
      BY <1>1, <2>2, <2>3, <2>6, <2>9, <3>1, <3>2, OthersKeep DEF ControlInv, ExitCodeIsTruthful
    <3>3. CASE q = p /\ exit'[p] = "0" /\ ~req[p].dryRun
      <4>1. \/ pc[p] = "describe" /\ ~req[p].setDefault
            \/ pc[p] = "finish"
        BY <1>1, <3>3, ExitZero DEF ControlInv
      <4>2. reg'[p].status = "COMPLETE"
        BY <2>3, <4>1 DEF ControlInv, Control
      <4>3. pc[p] = "finish" => default'[req[p].name] # Nobody
        BY <2>6, <2>9 DEF ControlInv, Answered
      <4> QED BY <2>2, <3>1, <3>3, <4>1, <4>2, <4>3
    <3> QED BY <2>2, <3>1, <3>2, <3>3
  <2> QED BY <2>1, <2>7, <2>8, <2>10, <2>11 DEF ControlInv
<1>2. ASSUME NEW p \in Procs, RegistrationEnds(p) PROVE ControlInv'
  <2>1. UNCHANGED <<procVars, default>> /\ reg[p].status = "IN_PROGRESS"
    BY <1>2 DEF RegistrationEnds
  <2>2. \A q \in Procs \ {p} : reg'[q] = reg[q]
    BY <1>2 DEF RegistrationEnds, TypeOK
  <2> QED BY <2>1, <2>2 DEF procVars, ControlInv, Control, Answered, BeforeRegister,
             DefaultCalled, DefaultIsRegistered, ExitCodeIsTruthful
<1>3. CASE (\E s \in StackNames : StackOperationEnds(s)) \/ Tick \/ UNCHANGED vars
  <2>1. UNCHANGED <<procVars, default, reg>>
    BY <1>3 DEF StackOperationEnds, Tick, vars, account, procVars
  <2> QED BY <2>1 DEF procVars, ControlInv, Control, Answered, DefaultCalled,
             DefaultIsRegistered, ExitCodeIsTruthful
<1> QED BY <1>1, <1>2, <1>3 DEF Next, Service

(* Where a process is in Project._upload tells what it has done: nothing is *)
(* registered before the call, a process that goes on after the waiter has  *)
(* a complete registration, and the default version of a type is that of a  *)
(* process that made the call and was not refused, whatever it reports.     *)
THEOREM ControlCorrect == Spec => []ControlInv
BY TypeCorrect, ControlInit, ControlNext, PTL DEF Spec

(* Only a version whose registration completed, and whose submitter asked   *)
(* for it, is ever made the default.                                        *)
THEOREM DefaultCorrect == Spec => []DefaultIsRegistered
<1>1. ControlInv => DefaultIsRegistered
  BY DEF ControlInv
<1> QED BY <1>1, ControlCorrect, PTL

(* A submit's exit code tells the truth about the registry.                 *)
THEOREM ExitCodeCorrect == Spec => []ExitCodeIsTruthful
<1>1. ControlInv => ExitCodeIsTruthful
  BY DEF ControlInv
<1> QED BY <1>1, ControlCorrect, PTL

-----------------------------------------------------------------------------
(* Packages: an object's key is the key its uploader stamped, and neither   *)
(* changes once the object is there.                                        *)

Uploaded == {"register", "waitRegistration", "describe", "setDefault", "finish", "done"}

ObjectKeys ==
  \A k \in Keys : bucket[k] \in Procs => key[bucket[k]] = k /\ pc[bucket[k]] \in Uploaded

RegistrationKeys ==
  \A p \in Procs : reg[p].status # "NONE" => reg[p].key = key[p]

ContentUploaded ==
  \A p \in Procs : reg[p].status = "COMPLETE" =>
    reg[p].content \in Procs /\ pc[reg[p].content] \in Uploaded

PackageInv == ObjectKeys /\ RegistrationKeys /\ ContentUploaded /\ PackageIsOwn

LEMMA PackageInit == Init => PackageInv
BY NobodyAssumption
   DEF Init, PackageInv, ObjectKeys, RegistrationKeys, ContentUploaded, PackageIsOwn

(* A key changes only by StampKey, before the object is uploaded.           *)
LEMMA KeyStable ==
  ASSUME TypeOK, ControlInv, NEW p \in Procs, ProcStep(p) \/ CallRefused(p) \/ Crash(p),
         NEW q \in Procs, pc[q] \in Uploaded \/ reg[q].status # "NONE"
  PROVE  key'[q] = key[q] /\ (pc[q] \in Uploaded => pc'[q] \in Uploaded)
<1>1. CASE q # p BY <1>1, OthersKeep
<1>2. CASE q = p
  <2>1. pc[p] # "stamp"
    BY <1>2 DEF ControlInv, Control, BeforeRegister, Uploaded
  <2> QED
    BY <1>2, <2>1 DEF TypeOK, Uploaded, ControlInv, Control, BeforeRegister, account, procVars,
       Goto, Exit, ProcStep, Start, CreateStack, UpdateStack, WaitForStack, GetStackOutput,
       StampKey, UploadFile, RegisterType, WaitForRegistration, DescribeRegistration,
       SetDefaultVersion, Finish, CallRefused, Crash
<1> QED BY <1>1, <1>2

(* Only RegisterType and the registry change a registration.                *)
LEMMA RegisterChange ==
  ASSUME TypeOK, NEW p \in Procs, ProcStep(p) \/ CallRefused(p) \/ Crash(p),
         NEW q \in Procs, reg'[q] # reg[q]
  PROVE  /\ q = p /\ pc[p] = "register" /\ UNCHANGED <<key, stacks, arn, req, stackOf>>
         /\ reg'[p].status = "IN_PROGRESS" /\ reg'[p].key = key[p]
         /\ reg'[p].role \in {NoRole, arn[p]}
<1>1. RegisterType(p)
  BY DEF account, procVars, ProcStep, Start, CreateStack, UpdateStack, WaitForStack,
     GetStackOutput, StampKey, UploadFile, WaitForRegistration, DescribeRegistration,
     SetDefaultVersion, Finish, CallRefused, Crash
<1> DEFINE r == [reg[p] EXCEPT !.status = "IN_PROGRESS", !.key = key[p],
                               !.role = IF req[p].useRole THEN arn[p] ELSE NoRole]
<1>2. r.status = "IN_PROGRESS" /\ r.key = key[p] /\ r.role \in {NoRole, arn[p]}
  BY DEF TypeOK, Registration
<1>3. reg' = [reg EXCEPT ![p] = r] /\ pc[p] = "register"
      /\ UNCHANGED <<key, stacks, arn, req, stackOf>>
  BY <1>1 DEF RegisterType
<1>4. reg'[p] = r /\ q = p
  BY <1>3 DEF TypeOK
<1> QED BY <1>2, <1>3, <1>4

LEMMA PackageProcStep ==
  ASSUME TypeOK, ControlInv, PackageInv, NEW p \in Procs,
         ProcStep(p) \/ CallRefused(p) \/ Crash(p)
  PROVE  PackageInv'
<1>1. ObjectKeys'
  <2> SUFFICES ASSUME NEW k \in Keys, bucket'[k] \in Procs
               PROVE  key'[bucket'[k]] = k /\ pc'[bucket'[k]] \in Uploaded
    BY DEF ObjectKeys
  <2>1. CASE bucket'[k] = bucket[k]
    BY <2>1, KeyStable DEF PackageInv, ObjectKeys
  <2>2. CASE bucket'[k] # bucket[k]
    <3>1. UploadFile(p)
      BY <2>2 DEF account, procVars, ProcStep, Start, CreateStack, UpdateStack, WaitForStack,
         GetStackOutput, StampKey, RegisterType, WaitForRegistration, DescribeRegistration,
         SetDefaultVersion, Finish, CallRefused, Crash
    <3> QED BY <2>2, <3>1 DEF UploadFile, TypeOK, Uploaded, Goto
  <2> QED BY <2>1, <2>2
<1>2. RegistrationKeys'
  <2> SUFFICES ASSUME NEW q \in Procs, reg'[q].status # "NONE" PROVE reg'[q].key = key'[q]
    BY DEF RegistrationKeys
  <2>1. CASE reg'[q] = reg[q]
    BY <2>1, KeyStable DEF PackageInv, RegistrationKeys
  <2>2. CASE reg'[q] # reg[q]
    BY <2>2, RegisterChange
  <2> QED BY <2>1, <2>2
<1>3. ASSUME NEW q \in Procs, reg'[q].status = "COMPLETE"
      PROVE  /\ reg'[q].content \in Procs /\ pc'[reg'[q].content] \in Uploaded
             /\ key'[reg'[q].content] = key'[q]
  <2>1. reg'[q] = reg[q]
    BY <1>3, RegisterChange
  <2> QED BY <1>3, <2>1, KeyStable DEF PackageInv, ContentUploaded, PackageIsOwn
<1> QED BY <1>1, <1>2, <1>3 DEF PackageInv, ContentUploaded, PackageIsOwn

LEMMA PackageRegistrationEnds ==
  ASSUME TypeOK, PackageInv, NEW p \in Procs, RegistrationEnds(p)
  PROVE  PackageInv'
<1>1. UNCHANGED <<procVars, bucket>> /\ reg[p].status = "IN_PROGRESS"
  BY DEF RegistrationEnds
<1>2. \A q \in Procs \ {p} : reg'[q] = reg[q]
  BY DEF RegistrationEnds, TypeOK
<1>3. /\ reg'[p].key = reg[p].key
      /\ reg'[p].status = "COMPLETE" =>
           reg'[p].content = bucket[reg[p].key] /\ bucket[reg[p].key] # Nobody
  <2>1. \A c : /\ [reg[p] EXCEPT !.status = "COMPLETE", !.content = c].key = reg[p].key
               /\ [reg[p] EXCEPT !.status = "COMPLETE", !.content = c].content = c
               /\ [reg[p] EXCEPT !.status = "FAILED"].key = reg[p].key
               /\ [reg[p] EXCEPT !.status = "FAILED"].status = "FAILED"
    BY DEF TypeOK, Registration
  <2>2. CASE /\ bucket[reg[p].key] # Nobody
             /\ reg'[p] = [reg[p] EXCEPT !.status = "COMPLETE", !.content = bucket[reg[p].key]]
    BY <2>1, <2>2
  <2>3. CASE reg'[p] = [reg[p] EXCEPT !.status = "FAILED"]
    BY <2>1, <2>3
  <2> QED BY <2>2, <2>3 DEF RegistrationEnds, TypeOK
<1>4. reg[p].key = key[p] /\ reg[p].key \in Keys
  BY <1>1 DEF PackageInv, RegistrationKeys, TypeOK, Registration
<1>5. reg'[p].status = "COMPLETE" =>
        /\ reg'[p].content \in Procs /\ pc[reg'[p].content] \in Uploaded
        /\ key[reg'[p].content] = key[p]
  BY <1>3, <1>4 DEF PackageInv, ObjectKeys, TypeOK
<1> QED BY <1>1, <1>2, <1>3, <1>4, <1>5
        DEF procVars, PackageInv, ObjectKeys, RegistrationKeys, ContentUploaded, PackageIsOwn

LEMMA PackageNext == TypeOK /\ ControlInv /\ PackageInv /\ [Next]_vars => PackageInv'
<1> SUFFICES ASSUME TypeOK, ControlInv, PackageInv, [Next]_vars PROVE PackageInv'
  OBVIOUS
<1>1. ASSUME NEW p \in Procs, ProcStep(p) \/ CallRefused(p) \/ Crash(p) PROVE PackageInv'
  BY <1>1, PackageProcStep
<1>2. ASSUME NEW p \in Procs, RegistrationEnds(p) PROVE PackageInv'
  BY <1>2, PackageRegistrationEnds
<1>3. CASE (\E s \in StackNames : StackOperationEnds(s)) \/ Tick \/ UNCHANGED vars
  <2>1. UNCHANGED <<procVars, bucket, reg>>
    BY <1>3 DEF StackOperationEnds, Tick, vars, account, procVars
  <2> QED BY <2>1 DEF procVars, PackageInv, ObjectKeys, RegistrationKeys, ContentUploaded,
             PackageIsOwn
<1> QED BY <1>1, <1>2, <1>3 DEF Next, Service

(* A registered version holds its submitter's package, or that of a submit  *)
(* of the same type stamped in the same second.                             *)
THEOREM PackageCorrect == Spec => []PackageIsOwn
<1>1. PackageInv => PackageIsOwn
  BY DEF PackageInv
<1> QED BY <1>1, TypeCorrect, ControlCorrect, PackageInit, PackageNext, PTL DEF Spec

-----------------------------------------------------------------------------
(* Roles.  A waiter sees the status of whichever operation is the last, so  *)
(* the argument is about who wrote the stack: a finished operation leaves   *)
(* the template of some writer, and where all writers agree that template   *)
(* is the waiting process's own.                                            *)

WantedOn(p, s) == IF s = InfraStack THEN req[p].infraTmpl ELSE req[p].roleTmpl
Wishes(s) == {WantedOn(q, s) : q \in stacks[s].writers}

StackInv(s) ==
  /\ stacks[s].status \in {"CREATE_IN_PROGRESS", "UPDATE_IN_PROGRESS"} =>
       stacks[s].next \in Wishes(s)
  /\ stacks[s].status = "UPDATE_COMPLETE" => stacks[s].tmpl \in Wishes(s)

WaitInv(p) ==
  LET s == stackOf[p] IN
  /\ pc[p] \in {"waitCreate", "waitUpdate"} => p \in stacks[s].writers
  /\ pc[p] = "waitCreate" =>
       /\ stacks[s].status # "NONE"
       /\ stacks[s].status \in Created => stacks[s].tmpl \in Wishes(s)

Undisturbed(p) == \A q \in stacks[req[p].name].writers : req[q].roleTmpl = req[p].roleTmpl
Ready(p) ==
  /\ stacks[req[p].name].status \in Created
  /\ Undisturbed(p) => stacks[req[p].name].tmpl = req[p].roleTmpl
Usable(p) == Ready(p) /\ (Undisturbed(p) => req[p].roleTmpl \in HasOutputs)

PlaceInv(p) ==
  /\ stackOf[p] \in {req[p].name, InfraStack}
  /\ pc[p] = "output" /\ stackOf[p] # InfraStack => Ready(p)
  /\ arn[p] \in Names => arn[p] = req[p].name /\ Usable(p)
  /\ reg[p].role \in Names => reg[p].role = req[p].name /\ Usable(p)

RoleInv ==
  /\ \A s \in StackNames : StackInv(s)
  /\ \A p \in Procs : WaitInv(p) /\ PlaceInv(p)

LEMMA NameIsNotInfra ==
  ASSUME TypeOK, NEW p \in Procs
  PROVE  req[p].name \in Names /\ req[p].name \in StackNames /\ req[p].name # InfraStack
BY RequestFields, NamesAssumption DEF TypeOK, StackNames

LEMMA AcceptedFields ==
  ASSUME NEW stack \in Stack, NEW st, NEW p, NEW t
  PROVE  /\ Accepted(stack, st, p, t).status = st
         /\ Accepted(stack, st, p, t).tmpl = stack.tmpl
         /\ Accepted(stack, st, p, t).next = t
         /\ Accepted(stack, st, p, t).writers = stack.writers \cup {p}
BY DEF Stack, Accepted

LEMMA EndedFields ==
  ASSUME NEW stack \in Stack, NEW st, NEW t
  PROVE  /\ Ended(stack, st, t).status = st
         /\ Ended(stack, st, t).tmpl = t
         /\ Ended(stack, st, t).next = stack.next
         /\ Ended(stack, st, t).writers = stack.writers
BY DEF Stack, Ended

(* Every way a step may change a stack.                                     *)
CreateAccepted(p, s) ==
  /\ CreateStack(p) /\ stackOf[p] = s /\ pc'[p] = "waitCreate"
  /\ stacks[s].status = "NONE" /\ stacks'[s].status = "CREATE_IN_PROGRESS"
  /\ stacks'[s].tmpl = stacks[s].tmpl /\ stacks'[s].next = WantedOn(p, s)
  /\ stacks'[s].writers = stacks[s].writers \cup {p}
UpdateAccepted(p, s) ==
  /\ UpdateStack(p) /\ stackOf[p] = s /\ pc'[p] = "waitUpdate"
  /\ stacks[s].status \in Updatable /\ stacks'[s].status = "UPDATE_IN_PROGRESS"
  /\ stacks[s].tmpl # WantedOn(p, s)
  /\ stacks'[s].tmpl = stacks[s].tmpl /\ stacks'[s].next = WantedOn(p, s)
  /\ stacks'[s].writers = stacks[s].writers \cup {p}
OperationEnded(s) ==
  /\ \/ /\ stacks[s].status = "CREATE_IN_PROGRESS"
        /\ \/ stacks'[s].status = "CREATE_COMPLETE" /\ stacks'[s].tmpl = stacks[s].next
           \/ stacks'[s].status = "ROLLBACK_COMPLETE"
     \/ /\ stacks[s].status = "UPDATE_IN_PROGRESS"
        /\ \/ stacks'[s].status = "UPDATE_COMPLETE" /\ stacks'[s].tmpl = stacks[s].next
           \/ stacks'[s].status = "UPDATE_ROLLBACK_COMPLETE" /\ stacks'[s].tmpl = stacks[s].tmpl
  /\ stacks'[s].writers = stacks[s].writers
  /\ UNCHANGED <<procVars, reg>>

LEMMA StackChange ==
  ASSUME TypeOK, [Next]_vars, NEW s \in StackNames
  PROVE  \/ stacks'[s] = stacks[s]
         \/ \E p \in Procs : CreateAccepted(p, s) \/ UpdateAccepted(p, s)
         \/ OperationEnded(s)
<1>0. stacks[s] \in Stack
  BY DEF TypeOK
<1>1. ASSUME NEW p \in Procs, CreateStack(p), stacks'[s] # stacks[s] PROVE CreateAccepted(p, s)
  <2>1. /\ stackOf[p] = s /\ stacks[s].status = "NONE" /\ pc'[p] = "waitCreate"
        /\ stacks'[s] = Accepted(stacks[s], "CREATE_IN_PROGRESS", p, Wanted(p))
    BY <1>1 DEF CreateStack, TypeOK, Goto
  <2> QED BY <1>0, <1>1, <2>1, AcceptedFields DEF CreateAccepted, Wanted, WantedOn
<1>2. ASSUME NEW p \in Procs, UpdateStack(p), stacks'[s] # stacks[s] PROVE UpdateAccepted(p, s)
  <2>1. /\ stackOf[p] = s /\ stacks[s].status \in Updatable /\ pc'[p] = "waitUpdate"
        /\ stacks[s].tmpl # Wanted(p)
        /\ stacks'[s] = Accepted(stacks[s], "UPDATE_IN_PROGRESS", p, Wanted(p))
    BY <1>2 DEF UpdateStack, TypeOK, Goto
  <2> QED BY <1>0, <1>2, <2>1, AcceptedFields DEF UpdateAccepted, Wanted, WantedOn
<1>3. ASSUME NEW r \in StackNames, StackOperationEnds(r), stacks'[s] # stacks[s]
      PROVE  OperationEnded(s)
  <2>1. r = s /\ UNCHANGED <<procVars, reg>>
    BY <1>3 DEF StackOperationEnds, TypeOK
  <2>2. \/ /\ stacks[s].status = "CREATE_IN_PROGRESS"
           /\ \/ stacks'[s] = Ended(stacks[s], "CREATE_COMPLETE", stacks[s].next)
              \/ stacks'[s] = Ended(stacks[s], "ROLLBACK_COMPLETE", stacks[s].tmpl)
        \/ /\ stacks[s].status = "UPDATE_IN_PROGRESS"
           /\ \/ stacks'[s] = Ended(stacks[s], "UPDATE_COMPLETE", stacks[s].next)
              \/ stacks'[s] = Ended(stacks[s], "UPDATE_ROLLBACK_COMPLETE", stacks[s].tmpl)
    BY <1>3, <2>1 DEF StackOperationEnds, TypeOK
  <2> QED BY <1>0, <2>1, <2>2, EndedFields DEF OperationEnded
<1>4. ASSUME NEW p \in Procs, \/ ProcStep(p) /\ ~CreateStack(p) /\ ~UpdateStack(p)
                              \/ CallRefused(p) \/ Crash(p) \/ RegistrationEnds(p)
      PROVE  stacks'[s] = stacks[s]
  BY <1>4 DEF account, ProcStep, Start, WaitForStack, GetStackOutput, StampKey, UploadFile,
     RegisterType, WaitForRegistration, DescribeRegistration, SetDefaultVersion, Finish, CallRefused,
     Crash, RegistrationEnds
<1>5. CASE Tick \/ UNCHANGED vars
  BY <1>5 DEF Tick, account, vars
<1> QED BY <1>1, <1>2, <1>3, <1>4, <1>5 DEF Next, Service, ProcStep

LEMMA ReqConstant == ASSUME [Next]_vars PROVE req' = req
BY DEF Next, Service, ProcStep, account, procVars, vars, Start, CreateStack, UpdateStack,
   WaitForStack, GetStackOutput, StampKey, UploadFile, RegisterType, WaitForRegistration,
   DescribeRegistration, SetDefaultVersion, Finish, CallRefused, Crash, RegistrationEnds,
   StackOperationEnds, Tick

LEMMA WritersGrow ==
  ASSUME TypeOK, [Next]_vars, NEW s \in StackNames
  PROVE  stacks[s].writers \subseteq stacks'[s].writers
BY StackChange DEF CreateAccepted, UpdateAccepted, OperationEnded

(* A template some writer wanted stays one.                                 *)
LEMMA WishesGrow ==
  ASSUME TypeOK, [Next]_vars, NEW s \in StackNames
  PROVE  Wishes(s) \subseteq Wishes(s)'
BY WritersGrow, ReqConstant DEF Wishes, WantedOn

LEMMA StackInvNext ==
  ASSUME TypeOK, [Next]_vars, NEW s \in StackNames, StackInv(s)
  PROVE  StackInv(s)'
<1>1. CASE stacks'[s] = stacks[s]
  BY <1>1, WishesGrow DEF StackInv
<1>2. ASSUME NEW p \in Procs, CreateAccepted(p, s) \/ UpdateAccepted(p, s) PROVE StackInv(s)'
  <2>1. stacks'[s].next \in Wishes(s)'
    BY <1>2, ReqConstant DEF CreateAccepted, UpdateAccepted, Wishes, WantedOn
  <2> QED BY <1>2, <2>1 DEF StackInv, CreateAccepted, UpdateAccepted
<1>3. CASE OperationEnded(s)
  <2>1. stacks'[s].status = "UPDATE_COMPLETE" => stacks'[s].tmpl \in Wishes(s)'
    BY <1>3, WishesGrow DEF StackInv, OperationEnded
  <2> QED BY <1>3, <2>1 DEF StackInv, OperationEnded
<1> QED BY <1>1, <1>2, <1>3, StackChange

LEMMA ReadyStays ==
  ASSUME TypeOK, [Next]_vars, NEW p \in Procs, StackInv(req[p].name), Ready(p)
  PROVE  /\ Ready(p)'
         /\ Undisturbed(p)' => Undisturbed(p)
<1> DEFINE s == req[p].name
<1>1. s \in StackNames /\ s # InfraStack
  BY NameIsNotInfra
<1>2. Undisturbed(p)' => Undisturbed(p)
  BY <1>1, WritersGrow, ReqConstant DEF Undisturbed
<1>3. CASE stacks'[s] = stacks[s]
  BY <1>2, <1>3, ReqConstant DEF Ready
<1>4. ASSUME NEW q \in Procs, CreateAccepted(q, s) PROVE Ready(p)'
  BY <1>4 DEF CreateAccepted, Ready, Created, Updatable
<1>5. ASSUME NEW q \in Procs, UpdateAccepted(q, s) PROVE Ready(p)'
  <2>1. stacks'[s].status \in Created
    BY <1>5 DEF UpdateAccepted, Created
  <2>2. Undisturbed(p)' => req[q].roleTmpl = req[p].roleTmpl
    BY <1>5, ReqConstant DEF UpdateAccepted, Undisturbed
  <2>3. req[q].roleTmpl # stacks[s].tmpl
    BY <1>1, <1>5 DEF UpdateAccepted, WantedOn
  <2> QED BY <1>2, <2>1, <2>2, <2>3, ReqConstant DEF Ready
<1>6. CASE OperationEnded(s)
  <2>1. stacks[s].status = "UPDATE_IN_PROGRESS" /\ stacks'[s].status \in Created
    BY <1>6 DEF OperationEnded, Ready, Created, Updatable
  <2>2. Undisturbed(p) => stacks[s].next = req[p].roleTmpl
    BY <1>1, <2>1 DEF StackInv, Wishes, WantedOn, Undisturbed
  <2> QED BY <1>2, <1>6, <2>1, <2>2, ReqConstant DEF Ready, OperationEnded
<1> QED BY <1>1, <1>2, <1>3, <1>4, <1>5, <1>6, StackChange

LEMMA WaitInvNext ==
  ASSUME TypeOK, [Next]_vars, NEW p \in Procs, WaitInv(p), StackInv(stackOf[p])
  PROVE  WaitInv(p)'
<1>1. PICK s \in StackNames : s = stackOf[p]
  BY DEF TypeOK
<1> USE <1>1
<1>2. CASE pc'[p] = pc[p] /\ stackOf'[p] = s
  <2>1. CASE stacks'[s] = stacks[s]
    BY <1>1, <1>2, <2>1, WishesGrow DEF WaitInv
  <2>2. ASSUME NEW q \in Procs, CreateAccepted(q, s) \/ UpdateAccepted(q, s) PROVE WaitInv(p)'
    <3>1. pc[p] = "waitCreate" => UpdateAccepted(q, s) /\ stacks[s].status \in Created
      BY <2>2 DEF WaitInv, CreateAccepted, UpdateAccepted, Created
    <3>2. pc[p] = "waitCreate" => stacks[s].tmpl \in Wishes(s)'
      BY <1>1, <3>1, WishesGrow DEF WaitInv
    <3> QED BY <1>1, <1>2, <3>1, <3>2, WritersGrow DEF WaitInv, UpdateAccepted
  <2>3. CASE OperationEnded(s)
    <3>1. pc[p] = "waitCreate" /\ stacks'[s].status \in Created => stacks'[s].tmpl \in Wishes(s)'
      BY <1>1, <2>3, WishesGrow
         DEF WaitInv, StackInv, OperationEnded, Created, Updatable
    <3> QED BY <1>1, <1>2, <2>3, <3>1, WritersGrow DEF WaitInv, OperationEnded
  <2> QED BY <1>1, <2>1, <2>2, <2>3, StackChange
<1>3. CASE ~(pc'[p] = pc[p] /\ stackOf'[p] = s)
  <2>1. ProcStep(p) \/ CallRefused(p) \/ Crash(p)
    <3>1. ASSUME NEW q \in Procs \ {p}, ProcStep(q) \/ CallRefused(q) \/ Crash(q) PROVE FALSE
      BY <1>3, <3>1, OthersKeep
    <3> QED BY <1>3, <3>1 DEF Next, Service, StackOperationEnds, RegistrationEnds, Tick, vars,
               procVars
  <2>2. CASE CreateStack(p)
    <3>1. stackOf'[p] = s /\ pc'[p] \in {"waitCreate", "update"}
      BY <2>2 DEF TypeOK, CreateStack, Goto
    <3>2. pc'[p] = "waitCreate" =>
            stacks'[s] = Accepted(stacks[s], "CREATE_IN_PROGRESS", p, Wanted(p))
      BY <2>2 DEF TypeOK, CreateStack, Goto
    <3>3. pc'[p] = "waitCreate" =>
            stacks'[s].status = "CREATE_IN_PROGRESS" /\ p \in stacks'[s].writers
      BY <3>2, AcceptedFields DEF TypeOK
    <3> QED BY <3>1, <3>3 DEF WaitInv, Created, Updatable
  <2>3. CASE UpdateStack(p)
    <3>1. stackOf'[p] = s /\ pc'[p] \in {"waitUpdate", "output", "done"}
      BY <2>3 DEF TypeOK, UpdateStack, Goto, Exit
    <3>2. pc'[p] = "waitUpdate" =>
            stacks'[s] = Accepted(stacks[s], "UPDATE_IN_PROGRESS", p, Wanted(p))
      BY <2>3 DEF TypeOK, UpdateStack, Goto, Exit
    <3>3. pc'[p] = "waitUpdate" => p \in stacks'[s].writers
      BY <3>2, AcceptedFields DEF TypeOK
    <3> QED BY <3>1, <3>3 DEF WaitInv
  <2>4. CASE ~CreateStack(p) /\ ~UpdateStack(p)
    <3>1. pc'[p] \notin {"waitCreate", "waitUpdate"}
      BY <2>1, <2>4 DEF TypeOK, Goto, Exit, ProcStep, Start, BeginUpload, WaitForStack,
         GetStackOutput, StampKey, UploadFile, RegisterType, WaitForRegistration,
         DescribeRegistration, SetDefaultVersion, Finish, CallRefused, Crash
    <3> QED BY <3>1 DEF WaitInv
  <2> QED BY <2>2, <2>3, <2>4
<1> QED BY <1>2, <1>3

LEMMA PlaceInvNext ==
  ASSUME TypeOK, [Next]_vars, RoleInv, NEW p \in Procs
  PROVE  PlaceInv(p)'
<1> DEFINE n == req[p].name
<1>1. n \in Names /\ n \in StackNames /\ n # InfraStack
  BY NameIsNotInfra
<1>2. StackInv(n) /\ WaitInv(p) /\ PlaceInv(p)
  BY <1>1 DEF RoleInv
<1>3. /\ Ready(p) => Ready(p)'
      /\ Usable(p) => Usable(p)'
  BY <1>2, ReadyStays, ReqConstant DEF Usable
<1>4. CASE UNCHANGED <<pc[p], stackOf[p], arn[p], reg[p].role>>
  BY <1>2, <1>3, <1>4, ReqConstant DEF PlaceInv
<1>5. CASE ProcStep(p) \/ CallRefused(p) \/ Crash(p)
  <2>1. stackOf'[p] \in {n, InfraStack}
    BY <1>2, <1>5 DEF TypeOK, PlaceInv, account, procVars, ProcStep, Start, BeginUpload,
       CreateStack, UpdateStack, WaitForStack, GetStackOutput, StampKey, UploadFile,
       RegisterType, WaitForRegistration, DescribeRegistration, SetDefaultVersion, Finish, CallRefused,
       Crash
  <2>2. ASSUME pc'[p] = "output", stackOf'[p] # InfraStack PROVE Ready(p)'
    <3>1. stackOf[p] = n /\ (UpdateStack(p) \/ WaitForStack(p))
      BY <1>2, <1>5, <2>2 DEF TypeOK, PlaceInv, Goto, Exit, account, ProcStep, Start,
         BeginUpload, CreateStack, UpdateStack, WaitForStack, GetStackOutput, StampKey,
         UploadFile, RegisterType, WaitForRegistration, DescribeRegistration,
         SetDefaultVersion, Finish, CallRefused, Crash
    <3>2. CASE UpdateStack(p)
      <4>1. stacks[n].status \in Updatable /\ stacks[n].tmpl = req[p].roleTmpl
        BY <1>1, <2>2, <3>1, <3>2 DEF UpdateStack, Wanted, Goto, Exit, TypeOK
      <4> QED BY <1>3, <4>1 DEF Ready, Created
    <3>3. CASE WaitForStack(p)
      <4>1. /\ p \in stacks[n].writers /\ stacks[n].status \in Created
            /\ stacks[n].tmpl \in Wishes(n)
        BY <1>1, <1>2, <2>2, <3>1, <3>3
           DEF WaitForStack, WaitInv, StackInv, Goto, Exit, TypeOK, Created, Updatable
      <4>2. Ready(p)
        BY <1>1, <4>1 DEF Ready, Wishes, WantedOn, Undisturbed
      <4> QED BY <1>3, <4>2
    <3> QED BY <3>1, <3>2, <3>3
  <2>3. ASSUME arn'[p] \in Names PROVE arn'[p] = n /\ Usable(p)'
    <3>1. CASE arn'[p] = arn[p]
      BY <1>2, <1>3, <2>3, <3>1 DEF PlaceInv
    <3>2. CASE arn'[p] # arn[p]
      <4>1. GetStackOutput(p)
        BY <1>5, <3>2 DEF procVars, ProcStep, Start, CreateStack, UpdateStack, WaitForStack,
           StampKey, UploadFile, RegisterType, WaitForRegistration, DescribeRegistration,
           SetDefaultVersion, Finish, CallRefused, Crash
      <4>2. /\ pc[p] = "output" /\ stackOf[p] # InfraStack /\ HasOutput(stackOf[p])
            /\ arn'[p] = stackOf[p]
        BY <3>2, <4>1 DEF GetStackOutput, TypeOK
      <4>3. Usable(p) /\ stackOf[p] = n
        BY <1>2, <4>2 DEF PlaceInv, Usable, Ready, HasOutput
      <4> QED BY <1>3, <4>2, <4>3
    <3> QED BY <3>1, <3>2
  <2>4. ASSUME reg'[p].role \in Names PROVE reg'[p].role = n /\ Usable(p)'
    <3>1. CASE reg'[p] = reg[p]
      BY <1>2, <1>3, <2>4, <3>1 DEF PlaceInv
    <3>2. CASE reg'[p] # reg[p]
      <4>1. reg'[p].role = arn[p]
        BY <1>5, <2>4, <3>2, RegisterChange, RolesAssumption
      <4> QED BY <1>2, <1>3, <2>4, <4>1 DEF PlaceInv
    <3> QED BY <3>1, <3>2
  <2> QED BY <2>1, <2>2, <2>3, <2>4, ReqConstant DEF PlaceInv
<1>6. ASSUME NEW q \in Procs \ {p}, ProcStep(q) \/ CallRefused(q) \/ Crash(q)
      PROVE  UNCHANGED <<pc[p], stackOf[p], arn[p], reg[p].role>>
  BY <1>6, OthersKeep
<1>7. ASSUME NEW q \in Procs, RegistrationEnds(q)
      PROVE  UNCHANGED <<pc[p], stackOf[p], arn[p], reg[p].role>>
  <2>1. UNCHANGED <<pc, stackOf, arn>>
    BY <1>7 DEF RegistrationEnds, procVars
  <2>2. reg'[p].role = reg[p].role
    <3>1. \A c : /\ [reg[q] EXCEPT !.status = "COMPLETE", !.content = c].role = reg[q].role
                 /\ [reg[q] EXCEPT !.status = "FAILED"].role = reg[q].role
      BY DEF TypeOK, Registration
    <3>2. \/ reg'[p] = reg[p]
          \/ p = q /\ reg'[p] = [reg[q] EXCEPT !.status = "COMPLETE",
                                               !.content = bucket[reg[q].key]]
          \/ p = q /\ reg'[p] = [reg[q] EXCEPT !.status = "FAILED"]
      BY <1>7 DEF RegistrationEnds, TypeOK
    <3>3. CASE reg'[p] = reg[p] BY <3>3
    <3>4. CASE reg'[p] # reg[p]
      <4>1. p = q
        BY <3>2, <3>4
      <4> QED BY <3>1, <3>2, <3>4, <4>1
    <3> QED BY <3>3, <3>4
  <2> QED BY <2>1, <2>2
<1>8. CASE (\E s \in StackNames : StackOperationEnds(s)) \/ Tick \/ UNCHANGED vars
  BY <1>4, <1>8 DEF StackOperationEnds, Tick, vars, account, procVars
<1> QED BY <1>4, <1>5, <1>6, <1>7, <1>8 DEF Next, Service

LEMMA RoleInit == Init => RoleInv
<1> SUFFICES ASSUME Init PROVE RoleInv
  OBVIOUS
<1>1. \A s \in StackNames : stacks[s].status \in {"NONE", "CREATE_COMPLETE"}
  BY DEF Init, NoStack, Deployed
<1>2. \A p \in Procs : arn[p] \notin Names /\ reg[p].role \notin Names
  BY RequestFields, RolesAssumption DEF Init
<1> QED BY <1>1, <1>2 DEF Init, RoleInv, StackInv, WaitInv, PlaceInv

(* A type registered with its role stack's ARN has its own role stack,      *)
(* ready, unless another template was written to it.                        *)
THEOREM RoleCorrect == Spec => []RoleStackIsReady
<1>1. TypeOK /\ RoleInv /\ [Next]_vars => RoleInv'
  <2> SUFFICES ASSUME TypeOK, RoleInv, [Next]_vars PROVE RoleInv'
    OBVIOUS
  <2>1. \A s \in StackNames : StackInv(s)'
    BY StackInvNext DEF RoleInv
  <2>2. \A p \in Procs : WaitInv(p)'
    BY WaitInvNext DEF RoleInv, TypeOK
  <2>3. \A p \in Procs : PlaceInv(p)'
    BY PlaceInvNext
  <2> QED BY <2>1, <2>2, <2>3 DEF RoleInv
<1>2. TypeOK /\ RoleInv => RoleStackIsReady
  BY DEF RoleInv, PlaceInv, Usable, Ready, Undisturbed, RoleStackIsReady, HasOutput
<1> QED BY <1>1, <1>2, TypeCorrect, RoleInit, PTL DEF Spec
-----------------------------------------------------------------------------
(* Submit implements Publication: RegisterType is Request, the registry's   *)
(* answer is Decide, SetDefaultVersion is SetDefault, an exit with code 0   *)
(* is Succeed, any other exit is Fail, and every other step is a stutter.   *)

LEMMA ReportInit == Init => P!Init
<1> SUFFICES ASSUME Init PROVE P!Init
  OBVIOUS
<1>1. WishOf \in [Procs -> P!Wish]
  BY RequestFields DEF Init, WishOf, P!Wish
<1>2. VersionOf = [p \in Procs |-> "none"] /\ OutcomeOf = [p \in Procs |-> "none"]
  BY DEF Init, VersionOf, VersionState, OutcomeOf, Outcome
<1> QED BY <1>1, <1>2 DEF Init, P!Init

(* A process ends once: its exit code does not change any more.             *)
LEMMA ExitChange ==
  ASSUME TypeOK, ControlInv, NEW p \in Procs, ProcStep(p) \/ CallRefused(p) \/ Crash(p)
  PROVE  /\ pc[p] # "done" /\ exit[p] = "none"
         /\ exit' = [exit EXCEPT ![p] = exit'[p]]
         /\ pc[p] = "register" => ~req[p].dryRun /\ reg[p].status = "NONE"
<1> USE DEF TypeOK, ControlInv, Control, BeforeRegister
<1>1. pc[p] # "done"
  BY DEF ProcStep, Start, CreateStack, UpdateStack, WaitForStack, GetStackOutput, StampKey,
     UploadFile, RegisterType, WaitForRegistration, DescribeRegistration, SetDefaultVersion, Finish,
     CallRefused, Crash
<1>2. exit' \in [Procs -> Codes]
  BY TypeNext DEF Next
<1>3. \A q \in Procs \ {p} : exit'[q] = exit[q]
  BY OthersKeep
<1> QED BY <1>1, <1>2, <1>3

LEMMA VersionChange ==
  ASSUME NEW p \in Procs, \A q \in Procs \ {p} : reg'[q] = reg[q]
  PROVE  VersionOf' = [VersionOf EXCEPT ![p] = VersionState[reg'[p].status]]
<1>1. VersionOf' = [q \in Procs |-> VersionState[reg'[q].status]]
  BY DEF VersionOf, VersionState
<1>2. \A q \in Procs \ {p} : VersionState[reg'[q].status] = VersionState[reg[q].status]
  OBVIOUS
<1>3. [VersionOf EXCEPT ![p] = VersionState[reg'[p].status]]
        = [q \in Procs |-> VersionState[reg'[q].status]]
  BY <1>2 DEF VersionOf
<1> QED BY <1>1, <1>3

(* What a step of p does to the reports.                                    *)
LEMMA OutcomeChange ==
  ASSUME TypeOK, ControlInv, NEW p \in Procs, ProcStep(p) \/ CallRefused(p) \/ Crash(p)
  PROVE  /\ OutcomeOf[p] = IF pc[p] = "finish" THEN "published" ELSE "none"
         /\ OutcomeOf' = [OutcomeOf EXCEPT ![p] = OutcomeOf'[p]]
         /\ pc'[p] = "finish" => OutcomeOf'[p] = "published"
         /\ pc'[p] \notin {"finish", "done"} => OutcomeOf'[p] = "none"
         /\ pc'[p] = "done" /\ exit'[p] = "0" => OutcomeOf'[p] = "success"
         /\ pc'[p] = "done" /\ exit'[p] # "0" => OutcomeOf'[p] = "failure"
<1>1. exit[p] = "none" /\ (exit'[p] = "none" <=> pc'[p] # "done")
  <2>1. Control(p)'
    BY ControlStep DEF ControlInv
  <2> QED BY <2>1, ExitChange DEF Control
<1>2. exit'[p] \in Codes
  BY TypeNext DEF Next, TypeOK
<1>3. \A q \in Procs \ {p} : pc'[q] = pc[q] /\ exit'[q] = exit[q]
  BY OthersKeep
<1>4. \A q \in Procs \ {p} : Outcome(q)' = Outcome(q)
  BY <1>3 DEF Outcome
<1>5. /\ OutcomeOf[p] = Outcome(p) /\ OutcomeOf'[p] = Outcome(p)'
      /\ OutcomeOf' = [OutcomeOf EXCEPT ![p] = OutcomeOf'[p]]
  BY <1>4 DEF OutcomeOf
<1> QED BY <1>1, <1>2, <1>5 DEF Outcome, Codes

(* A report that stays as it was leaves the reports as they were.           *)
LEMMA OutcomeSame ==
  ASSUME NEW p \in Procs, OutcomeOf' = [OutcomeOf EXCEPT ![p] = OutcomeOf[p]]
  PROVE  OutcomeOf' = OutcomeOf
BY DEF OutcomeOf

(* A step of a process is one of the abstract submitter, or a stutter.      *)
LEMMA ReportStep ==
  ASSUME TypeOK, ControlInv, NEW p \in Procs, ProcStep(p) \/ CallRefused(p) \/ Crash(p)
  PROVE  [P!Request(p) \/ P!SetDefault(p) \/ P!Succeed(p) \/ P!Fail(p)]_(P!vars)
<1>1. Next
  BY DEF Next
<1>2. WishOf' = WishOf
  BY <1>1, ReqConstant DEF WishOf
<1>3. /\ WishOf[p].dryRun = req[p].dryRun /\ WishOf[p].setDefault = req[p].setDefault
      /\ WishOf[p].name = req[p].name
  BY DEF WishOf
<1>4. Control(p)
  BY DEF ControlInv
<1>5. CASE RegisterType(p)
  <2>1. pc[p] = "register" /\ pc'[p] = "waitRegistration" /\ UNCHANGED default
    BY <1>5 DEF RegisterType, Goto, TypeOK
  <2>2. VersionOf' = [VersionOf EXCEPT ![p] = "pending"]
    <3>1. \A q \in Procs \ {p} : reg'[q] = reg[q]
      BY OthersKeep
    <3>2. reg'[p].status = "IN_PROGRESS"
      BY <1>5 DEF RegisterType, TypeOK, Registration
    <3> QED BY <3>1, <3>2, VersionChange DEF VersionState
  <2>3. VersionOf[p] = "none" /\ ~WishOf[p].dryRun
    BY <2>1, ExitChange DEF VersionOf, VersionState, WishOf
  <2>4. OutcomeOf[p] = "none" /\ OutcomeOf' = OutcomeOf
    <3>1. OutcomeOf[p] = "none" /\ OutcomeOf'[p] = "none"
      BY <2>1, OutcomeChange
    <3> QED BY <3>1, OutcomeChange, OutcomeSame
  <2> QED BY <1>2, <2>1, <2>2, <2>3, <2>4 DEF P!Request
<1>6. CASE ~RegisterType(p)
  <2>1. VersionOf' = VersionOf
    <3>1. reg' = reg
      BY <1>6 DEF account, ProcStep, Start, CreateStack, UpdateStack, WaitForStack,
         GetStackOutput, StampKey, UploadFile, WaitForRegistration, DescribeRegistration,
         SetDefaultVersion, Finish, CallRefused, Crash
    <3> QED BY <3>1 DEF VersionOf
  <2>2. pc[p] \in {"describe", "setDefault", "finish"} => VersionOf[p] = "registered"
    BY <1>4 DEF Control, VersionOf, VersionState
  <2>3. CASE pc'[p] = "finish"
    <3>1. pc[p] = "setDefault" /\ default' = [default EXCEPT ![req[p].name] = p]
      BY <2>3, DefaultChange, ExitAfterCall
    <3>2. req[p].setDefault /\ ~req[p].dryRun
      BY <1>4, <3>1 DEF Control
    <3>3. OutcomeOf[p] = "none" /\ OutcomeOf' = [OutcomeOf EXCEPT ![p] = "published"]
      BY <2>3, <3>1, OutcomeChange
    <3> QED BY <1>2, <1>3, <2>1, <2>2, <3>1, <3>2, <3>3 DEF P!SetDefault
  <2>4. CASE pc'[p] \notin {"finish", "done"}
    <3>1. pc[p] # "finish" /\ default' = default
      BY <2>4, DefaultChange, ExitAfterCall
    <3>2. OutcomeOf[p] = "none" /\ OutcomeOf'[p] = "none"
      BY <2>4, <3>1, OutcomeChange
    <3>3. OutcomeOf' = OutcomeOf
      BY <3>2, OutcomeChange, OutcomeSame
    <3> QED BY <1>2, <2>1, <3>1, <3>3 DEF P!vars
  <2>5. CASE pc'[p] = "done" /\ exit'[p] = "0"
    <3>1. default' = default
      BY <2>5, DefaultChange
    <3>2. OutcomeOf' = [OutcomeOf EXCEPT ![p] = "success"]
      BY <2>5, OutcomeChange
    <3>3. \/ req[p].dryRun /\ OutcomeOf[p] = "none"
          \/ ~req[p].setDefault /\ VersionOf[p] = "registered" /\ OutcomeOf[p] = "none"
          \/ OutcomeOf[p] = "published"
      <4>1. \/ req[p].dryRun /\ pc[p] # "finish"
            \/ pc[p] = "describe" /\ ~req[p].setDefault
            \/ pc[p] = "finish"
        BY <1>4, <2>5, ExitZero
      <4> QED BY <2>2, <4>1, OutcomeChange
    <3> QED BY <1>2, <1>3, <2>1, <3>1, <3>2, <3>3 DEF P!Succeed
  <2>6. CASE pc'[p] = "done" /\ exit'[p] # "0"
    <3>1. default' = default
      BY <2>6, DefaultChange
    <3>2. OutcomeOf[p] \in {"none", "published"} /\ OutcomeOf' = [OutcomeOf EXCEPT ![p] = "failure"]
      BY <2>6, OutcomeChange
    <3> QED BY <1>2, <2>1, <3>1, <3>2 DEF P!Fail
  <2> QED BY <2>3, <2>4, <2>5, <2>6
<1> QED BY <1>5, <1>6

LEMMA ReportNext == TypeOK /\ ControlInv /\ [Next]_vars => [P!Next]_(P!vars)
<1> SUFFICES ASSUME TypeOK, ControlInv, [Next]_vars PROVE [P!Next]_(P!vars)
  OBVIOUS
<1>1. ASSUME NEW p \in Procs, ProcStep(p) \/ CallRefused(p) \/ Crash(p)
      PROVE  [P!Next]_(P!vars)
  BY <1>1, ReportStep DEF P!Next
<1>2. ASSUME NEW p \in Procs, RegistrationEnds(p) PROVE P!Decide(p)
  <2>1. UNCHANGED <<req, pc, exit, default>> /\ reg[p].status = "IN_PROGRESS"
    BY <1>2 DEF RegistrationEnds, procVars
  <2>2. \A q \in Procs \ {p} : reg'[q] = reg[q]
    BY <1>2 DEF RegistrationEnds, TypeOK
  <2>3. reg'[p].status \in {"COMPLETE", "FAILED"}
    <3>1. \A c : /\ [reg[p] EXCEPT !.status = "COMPLETE", !.content = c].status = "COMPLETE"
                 /\ [reg[p] EXCEPT !.status = "FAILED"].status = "FAILED"
      BY DEF TypeOK, Registration
    <3>2. \/ reg'[p] = [reg[p] EXCEPT !.status = "COMPLETE", !.content = bucket[reg[p].key]]
          \/ reg'[p] = [reg[p] EXCEPT !.status = "FAILED"]
      BY <1>2 DEF RegistrationEnds, TypeOK
    <3> QED BY <3>1, <3>2
  <2>4. \E v \in {"registered", "rejected"} : VersionOf' = [VersionOf EXCEPT ![p] = v]
    <3>1. VersionState["COMPLETE"] = "registered" /\ VersionState["FAILED"] = "rejected"
      BY DEF VersionState
    <3>2. VersionOf' = [VersionOf EXCEPT ![p] = VersionState[reg'[p].status]]
      BY <2>2, VersionChange
    <3> QED BY <2>3, <3>1, <3>2
  <2>5. VersionOf[p] = "pending" /\ WishOf' = WishOf /\ OutcomeOf' = OutcomeOf
    BY <2>1 DEF VersionOf, VersionState, WishOf, OutcomeOf, Outcome
  <2> QED BY <2>1, <2>4, <2>5 DEF P!Decide
<1>3. CASE (\E s \in StackNames : StackOperationEnds(s)) \/ Tick \/ UNCHANGED vars
  <2>1. UNCHANGED <<req, pc, exit, reg, default>>
    BY <1>3 DEF StackOperationEnds, Tick, vars, account, procVars
  <2> QED BY <2>1 DEF P!vars, WishOf, VersionOf, OutcomeOf, Outcome
<1> QED BY <1>1, <1>2, <1>3 DEF Next, Service, P!Next

(* Every behaviour of Submit is one of Publication: each version is         *)
(* requested once, only a registered one becomes the default, once, and a   *)
(* report of success is true.                                               *)
THEOREM PublicationImplemented == Spec => ImplementsPublication
BY TypeCorrect, ControlCorrect, ReportInit, ReportNext, PTL
   DEF Spec, ImplementsPublication, P!Spec

-----------------------------------------------------------------------------
(* How long a submit takes.                                                 *)

(* How many steps process p can still make: it brings at most two stacks up *)
(* to date, first that of the role, and goes through the rest once.         *)
StepsLeft(p) ==
  CASE pc[p] = "start" -> 16
    [] pc[p] = "create" -> IF stackOf[p] = InfraStack THEN 11 ELSE 15
    [] pc[p] = "update" -> IF stackOf[p] = InfraStack THEN 10 ELSE 14
    [] pc[p] \in {"waitCreate", "waitUpdate"} -> IF stackOf[p] = InfraStack THEN 9 ELSE 13
    [] pc[p] = "output" -> IF stackOf[p] = InfraStack THEN 8 ELSE 12
    [] pc[p] = "stamp" -> 7
    [] pc[p] = "put" -> 6
    [] pc[p] = "register" -> 5
    [] pc[p] = "waitRegistration" -> 4
    [] pc[p] = "describe" -> 3
    [] pc[p] = "setDefault" -> 2
    [] pc[p] = "finish" -> 1
    [] pc[p] = "done" -> 0

(* Every step of a process brings it nearer to its end, and no step of      *)
(* another, of the services or of the clock sets it back: however submits   *)
(* compete for a stack, none tries again (Uploader._create_or_update_stack, *)
(* Uploader._wait_for_stack).                                               *)
SubmitIsBounded ==
  [][\A p \in Procs :
       /\ StepsLeft(p)' \in Nat /\ StepsLeft(p)' <= StepsLeft(p)
       /\ ProcStep(p) \/ CallRefused(p) \/ Crash(p) => StepsLeft(p)' < StepsLeft(p)]_vars

LEMMA StepFewer ==
  ASSUME TypeOK, TypeOK', NEW p \in Procs, ProcStep(p) \/ CallRefused(p) \/ Crash(p)
  PROVE  StepsLeft(p)' \in Nat /\ StepsLeft(p)' < StepsLeft(p)
<1>1. pc[p] \in Steps /\ pc'[p] \in Steps /\ stackOf[p] \in StackNames
  BY DEF TypeOK
<1>2. \/ pc[p] # "done" /\ pc'[p] = "done"
      \/ pc[p] = "start" /\ pc'[p] = "create"
      \/ /\ stackOf'[p] = stackOf[p]
         /\ <<pc[p], pc'[p]>> \in {<<"create", "waitCreate">>, <<"create", "update">>,
              <<"update", "waitUpdate">>, <<"update", "output">>,
              <<"waitCreate", "output">>, <<"waitUpdate", "output">>,
              <<"stamp", "put">>, <<"put", "register">>, <<"register", "waitRegistration">>,
              <<"waitRegistration", "describe">>, <<"describe", "setDefault">>,
              <<"setDefault", "finish">>}
      \/ pc[p] = "output" /\ pc'[p] = "stamp" /\ stackOf[p] = InfraStack
      \/ pc[p] = "output" /\ pc'[p] = "create" /\ stackOf[p] # InfraStack /\ stackOf'[p] = InfraStack
  <2> USE DEF TypeOK, Goto, Exit
  <2>1. CASE Start(p)
    BY <2>1 DEF Start, BeginUpload
  <2>2. CASE CreateStack(p) \/ UpdateStack(p) \/ WaitForStack(p)
    BY <2>2 DEF CreateStack, UpdateStack, WaitForStack
  <2>3. CASE GetStackOutput(p)
    BY <2>3 DEF GetStackOutput, BeginUpload
  <2>4. CASE StampKey(p) \/ UploadFile(p) \/ RegisterType(p)
    BY <2>4 DEF StampKey, UploadFile, RegisterType
  <2>5. CASE WaitForRegistration(p) \/ DescribeRegistration(p) \/ SetDefaultVersion(p) \/ Finish(p)
    BY <2>5 DEF WaitForRegistration, DescribeRegistration, SetDefaultVersion, Finish
  <2>6. CASE CallRefused(p) \/ Crash(p)
    BY <2>6 DEF CallRefused, Crash
  <2> QED BY <2>1, <2>2, <2>3, <2>4, <2>5, <2>6 DEF ProcStep
<1> QED BY <1>1, <1>2 DEF StepsLeft, Steps

LEMMA LeftIsNat ==
  TypeOK => \A p \in Procs : StepsLeft(p) \in Nat
<1> SUFFICES ASSUME TypeOK, NEW p \in Procs PROVE StepsLeft(p) \in Nat
  OBVIOUS
<1>1. pc[p] \in Steps
  BY DEF TypeOK
<1> QED BY <1>1 DEF StepsLeft, Steps

(* A submit ends after at most 16 steps of its own, for any number of       *)
(* submits at the same time and every fault (Project._upload).              *)
THEOREM BoundCorrect == Spec => SubmitIsBounded
<1>1. TypeOK /\ TypeOK' /\ [Next]_vars =>
        [\A p \in Procs :
           /\ StepsLeft(p)' \in Nat /\ StepsLeft(p)' <= StepsLeft(p)
           /\ ProcStep(p) \/ CallRefused(p) \/ Crash(p) => StepsLeft(p)' < StepsLeft(p)]_vars
  <2> SUFFICES ASSUME TypeOK, TypeOK', Next
               PROVE  \A p \in Procs :
                        /\ StepsLeft(p)' \in Nat /\ StepsLeft(p)' <= StepsLeft(p)
                        /\ ProcStep(p) \/ CallRefused(p) \/ Crash(p) =>
                             StepsLeft(p)' < StepsLeft(p)
    OBVIOUS
  <2>1. \A p \in Procs : StepsLeft(p) \in Nat /\ StepsLeft(p)' \in Nat
    BY LeftIsNat DEF TypeOK, StepsLeft, Steps
  <2>2. ASSUME NEW p \in Procs, ProcStep(p) \/ CallRefused(p) \/ Crash(p)
        PROVE  StepsLeft(p)' < StepsLeft(p)
    BY <2>2, StepFewer
  <2>3. ASSUME NEW p \in Procs PROVE StepsLeft(p)' <= StepsLeft(p)
    <3>1. \/ ProcStep(p) \/ CallRefused(p) \/ Crash(p)
          \/ pc'[p] = pc[p] /\ stackOf'[p] = stackOf[p]
      BY <2>3, OthersKeep DEF Next, Service, StackOperationEnds, RegistrationEnds, Tick, procVars, account
    <3>2. CASE pc'[p] = pc[p] /\ stackOf'[p] = stackOf[p]
      <4>1. StepsLeft(p)' = StepsLeft(p)
        BY <3>2 DEF StepsLeft
      <4> QED BY <2>1, <4>1
    <3> QED BY <2>1, <2>2, <3>1, <3>2
  <2> QED BY <2>1, <2>2, <2>3
<1> QED BY <1>1, TypeCorrect, PTL DEF Spec, SubmitIsBounded
=============================================================================
