------------------------ MODULE ContractSuiteProofs ------------------------
(***************************************************************************)
(* Theorems about the contract tests of resource types and the handlers    *)
(* they call: every defect that shows is caught, by a test that can be     *)
(* named, and the loss of a resource that the account held before goes     *)
(* never unreported.                                                       *)
(***************************************************************************)
EXTENDS ContractSuite, TLAPS

-----------------------------------------------------------------------------
(* The calls of the suite.                                                  *)

Arguments == {"request", "model", "second", "update"}
Outcomes == {"SUCCESS", "SUCCESS or NotFound", "NotFound", "AlreadyExists"}
Into == {"none", "model", "second"}
Checks == {"id", "echo", "secret", "listed", "unlisted", "noModel", "sameId"}
Calling == [act : Actions, arg : Arguments, expect : Outcomes, into : Into, check : SUBSET Checks]

(* One call or two.                                                         *)
BodyOK(calls) ==
  /\ calls = <<calls[1]>> \/ calls = <<calls[1], calls[2]>>
  /\ Len(calls) \in 1 .. 2
  /\ \A i \in 1 .. Len(calls) : calls[i] \in Calling
BlockOK(block) ==
  /\ BodyOK(block.body)
  /\ block.finally = <<>> \/ BodyOK(block.finally)

(* The three ways to write a call give a call.                              *)
LEMMA CallsOK ==
  /\ \A into \in Into, check \in SUBSET Checks : Create(into, check) \in Calling
  /\ \A arg \in Arguments, expect \in Outcomes : Delete(arg, expect) \in Calling
  /\ \A act \in Actions, arg \in Arguments, expect \in Outcomes, into \in Into, check \in SUBSET Checks :
       Call(act, arg, expect, into, check) \in Calling
BY DEF Create, Delete, Call, Calling, Actions, Arguments, Outcomes, Into

(* A body of one call, and of two.                                          *)
LEMMA OneOK == ASSUME NEW c \in Calling PROVE BodyOK(<<c>>)
BY DEF BodyOK

LEMMA TwoOK == ASSUME NEW c \in Calling, NEW d \in Calling PROVE BodyOK(<<c, d>>)
BY DEF BodyOK

(* Every test and fixture of the suite consists of calls.                   *)
LEMMA SuiteOK == \A i \in 1 .. 18 : BlockOK(Suite[i])
<1> USE CallsOK, OneOK, TwoOK DEF BlockOK, Test, Setup, Into, Checks, Arguments, Outcomes, Actions
<1>1. BlockOK(contract_create_delete)
  BY DEF contract_create_delete
<1>2. BlockOK(created_resource) /\ BlockOK(Teardown(created_resource))
  BY DEF created_resource, Teardown
<1>3. BlockOK(contract_create_create) /\ BlockOK(contract_create_read) /\ BlockOK(contract_create_list)
  BY DEF contract_create_create, contract_create_read, contract_create_list
<1>4. BlockOK(deleted_resource) /\ BlockOK(Teardown(deleted_resource))
  BY DEF deleted_resource, Teardown
<1>5. BlockOK(contract_delete_read) /\ BlockOK(contract_delete_list) /\ BlockOK(contract_delete_update)
  BY DEF contract_delete_read, contract_delete_list, contract_delete_update
<1>6. BlockOK(contract_delete_delete) /\ BlockOK(contract_delete_create)
  BY DEF contract_delete_delete, contract_delete_create
<1>7. BlockOK(updated_resource) /\ BlockOK(Teardown(updated_resource))
  BY DEF updated_resource, Teardown
<1>8. BlockOK(contract_update_read) /\ BlockOK(contract_update_list) /\ BlockOK(contract_update_without_create)
  BY DEF contract_update_read, contract_update_list, contract_update_without_create
<1> HIDE CallsOK, OneOK, TwoOK DEF BlockOK
<1> QED BY <1>1, <1>2, <1>3, <1>4, <1>5, <1>6, <1>7, <1>8 DEF Suite

-----------------------------------------------------------------------------
(* The outcome of an invocation.                                            *)

Op == [token : Nat, id : Ids \cup {NoId}]
Outcome == [live : [Ids -> Props], used : SUBSET Ids, op : Op, answer : Answer]

(* What an outcome says where the deviations and the next invocation rely   *)
(* on it: only a resource that exists refuses to be created.                *)
OutcomeOK(o) ==
  /\ o \in Outcome
  /\ o.op.token # 0 => o.op.id \in Ids
  /\ o.answer.code = "AlreadyExists" => request.model.id \in Ids

(* A call that is under way has a token, and the record of an operation has *)
(* a resource.                                                              *)
CallInv ==
  /\ phase # "idle" => request.token # 0
  /\ op.token # 0 => op.id \in Ids

(* The answers of a handler, and the codes they carry.                      *)
LEMMA AnswerTypes ==
  /\ \A m \in Model : Success(m) \in Answer
  /\ \A code \in {"none", "AlreadyExists", "NotFound", "ServiceLimitExceeded", "InternalFailure"} :
       Failed(code) \in Answer
  /\ \A m \in Model, left \in 0 .. MaxPolls : Progress(m, left) \in Answer
  /\ \A ids \in SUBSET Ids, more \in BOOLEAN : Listing(ids, more) \in Answer
  /\ NoModel \in Model
<1> USE PollsAssumption DEF Answer
<1>1. NoModel \in Model
  BY DEF NoModel, Model, Props
<1>2. \A m \in Model : Success(m) \in Answer
  BY DEF Success
<1> QED BY <1>1, <1>2 DEF Failed, Progress, Listing, Success

LEMMA AnswerCodes ==
  /\ \A m : Success(m).code = "none"
  /\ \A code : Failed(code).code = code
  /\ \A m, left : Progress(m, left).code = "none"
  /\ \A ids, more : Listing(ids, more).code = "none"
BY DEF Success, Failed, Progress, Listing

(* Whatever a conforming handler does gives an outcome: nothing, a step of  *)
(* an operation, a refusal.                                                 *)
LEMMA UnchangedOK ==
  ASSUME TypeOK, CallInv, NEW a \in Answer, a.code # "AlreadyExists"
  PROVE  OutcomeOK(Unchanged(a))
BY DEF Unchanged, OutcomeOK, Outcome, TypeOK, ClientTypeOK, CallInv, Op

LEMMA PerformOK ==
  ASSUME TypeOK, CallInv, phase = "sent", NEW i \in Ids, NEW left \in 0 .. MaxPolls
  PROVE  OutcomeOK(Perform(i, left))
<1> DEFINE props == CASE request.act = "DELETE" -> IF left = 0 THEN "none" ELSE live[i]
                      [] request.act = "CREATE" -> IF left = 0 THEN request.model.props ELSE "partial"
                      [] OTHER -> IF left = 0 THEN request.model.props ELSE live[i]
           answered == CASE left > 0 -> Progress([request.model EXCEPT !.id = i], left)
                         [] left = 0 /\ request.act = "DELETE" -> Success(NoModel)
                         [] OTHER -> Success([id |-> i, props |-> props, secret |-> FALSE])
<1>1. props \in Props
  BY DEF TypeOK, ClientTypeOK, Request, Model, Props
<1>2. answered \in Answer /\ answered.code = "none"
  <2>1. [request.model EXCEPT !.id = i] \in Model
    BY DEF TypeOK, ClientTypeOK, Request, Model
  <2>2. [id |-> i, props |-> props, secret |-> FALSE] \in Model
    BY <1>1 DEF Model
  <2> HIDE DEF props
  <2> QED BY <2>1, <2>2, AnswerTypes, AnswerCodes
<1>3. Perform(i, left) = [live |-> [live EXCEPT ![i] = props], used |-> used \cup {i},
                          op |-> [token |-> request.token, id |-> i], answer |-> answered]
  BY DEF Perform
<1> HIDE DEF props, answered
<1> QED BY <1>1, <1>2, <1>3 DEF OutcomeOK, Outcome, Op, TypeOK, ClientTypeOK, Request

LEMMA FreeIs == ASSUME NEW taken \in SUBSET Ids, HasFree(taken) PROVE Free(taken) \in Ids
BY DEF HasFree, Free

LEMMA ConformingOK ==
  ASSUME TypeOK, CallInv, phase = "sent", NEW left \in 0 .. MaxPolls, NEW page \in SUBSET Ids
  PROVE  OutcomeOK(Conforming(left, page))
<1> DEFINE free == Unchanged(Failed("ServiceLimitExceeded"))
<1>1. \A code \in {"NotFound", "ServiceLimitExceeded", "InternalFailure"} : OutcomeOK(Unchanged(Failed(code)))
  BY UnchangedOK, AnswerTypes, AnswerCodes
<1>2. CASE request.left > 0
  <2>1. request.left - 1 \in 0 .. MaxPolls
    BY <1>2, PollsAssumption DEF TypeOK, ClientTypeOK, Request
  <2>2. op.id # NoId => op.id \in Ids
    BY DEF TypeOK, ClientTypeOK
  <2>3. OutcomeOK(Continue)
    BY <1>1, <2>1, <2>2, PerformOK DEF Continue
  <2> QED BY <1>2, <2>3 DEF Conforming
<1>3. CASE request.left = 0 /\ request.act = "CREATE"
  <2>1. op.token = request.token => OutcomeOK(Perform(op.id, left))
    BY PerformOK DEF CallInv
  <2>2. Exists(request.model) => OutcomeOK(Unchanged(Failed("AlreadyExists")))
    BY AnswerTypes, AnswerCodes
    DEF Exists, OutcomeOK, Unchanged, Outcome, TypeOK, ClientTypeOK, CallInv, Op
  <2>3. request.model.id # NoId => OutcomeOK(Perform(request.model.id, left))
    BY PerformOK DEF TypeOK, ClientTypeOK, Request, Model
  <2>4. HasFree(used) => OutcomeOK(Perform(Free(used), left))
    BY PerformOK, FreeIs DEF TypeOK, ClientTypeOK
  <2>5. OutcomeOK(BeginCreate(left))
    BY <1>1, <2>1, <2>2, <2>3, <2>4 DEF BeginCreate
  <2> QED BY <1>3, <2>5 DEF Conforming
<1>4. CASE request.left = 0 /\ request.act = "LIST"
  <2>1. \A ids \in SUBSET Ids, more \in BOOLEAN : OutcomeOK(Unchanged(Listing(ids, more)))
    BY UnchangedOK, AnswerTypes, AnswerCodes
  <2>2. OutcomeOK(List(page))
    BY <2>1 DEF List
  <2> QED BY <1>4, <2>2 DEF Conforming
<1>5. CASE request.left = 0 /\ request.act \notin {"CREATE", "LIST"}
  <2>1. Exists(request.model) => OutcomeOK(Perform(request.model.id, left))
    BY PerformOK DEF Exists
  <2>2. Exists(request.model) =>
          OutcomeOK(Unchanged(Success([id |-> request.model.id, props |-> live[request.model.id],
                                       secret |-> FALSE])))
    <3>1. Exists(request.model) =>
            [id |-> request.model.id, props |-> live[request.model.id], secret |-> FALSE] \in Model
      BY DEF Exists, Model, TypeOK, ClientTypeOK
    <3> QED BY <3>1, UnchangedOK, AnswerTypes, AnswerCodes
  <2> QED BY <1>1, <1>5, <2>1, <2>2 DEF Conforming
<1> QED BY <1>2, <1>3, <1>4, <1>5 DEF TypeOK, ClientTypeOK, Request

(* A defective handler gives an outcome, and keeps the record of the        *)
(* operation.                                                               *)
LEMMA MovedType ==
  ASSUME NEW o \in Outcome, NEW i \in Ids, NEW p \in Props
  PROVE  Moved(o, i, p) \in Outcome /\ Moved(o, i, p).op = o.op
<1>1. [id |-> i, props |-> p, secret |-> FALSE] \in Model
  BY DEF Model
<1> QED BY <1>1, AnswerTypes DEF Moved, Outcome

LEMMA DeviationType ==
  ASSUME TypeOK, NEW o, OutcomeOK(o)
  PROVE  Deviation(o) \in Outcome /\ Deviation(o).op = o.op
<1> DEFINE m == request.model
<1>1. m \in Model /\ o \in Outcome /\ live \in [Ids -> Props] /\ used \subseteq Ids
  BY DEF TypeOK, ClientTypeOK, Request, OutcomeOK
<1>2. m.id \in Ids => Moved(o, m.id, m.props) \in Outcome /\ Moved(o, m.id, m.props).op = o.op
  BY <1>1, MovedType DEF Model
<1>3. o.answer \in Answer /\ o.live \in [Ids -> Props] /\ o.answer.model \in Model
  BY <1>1 DEF Outcome, Answer
<1>4. \A a \in Answer : [o EXCEPT !.answer = a] \in Outcome /\ [o EXCEPT !.answer = a].op = o.op
  BY <1>1 DEF Outcome
<1>5. \A l \in [Ids -> Props] : [o EXCEPT !.live = l] \in Outcome /\ [o EXCEPT !.live = l].op = o.op
  BY <1>1 DEF Outcome
<1>6. CASE defect = "createAgain" /\ Refused(o, "CREATE", "AlreadyExists")
  BY <1>2, <1>6 DEF Deviation, OutcomeOK, Refused
<1>7. CASE defect = "updateCreates" /\ Refused(o, "UPDATE", "NotFound")
           /\ (m.id \in Ids \/ HasFree(o.used))
  <2>1. (IF m.id \in Ids THEN m.id ELSE Free(o.used)) \in Ids
    BY <1>1, <1>7, FreeIs DEF Outcome
  <2>2. Deviation(o) = Moved(o, IF m.id \in Ids THEN m.id ELSE Free(o.used), m.props)
    BY <1>7 DEF Deviation
  <2> QED BY <1>1, <2>1, <2>2, MovedType DEF Model
<1>8. CASE defect = "updateNewId" /\ Ok(o, "UPDATE") /\ HasFree(o.used)
  <2> DEFINE without == [o EXCEPT !.live[o.answer.model.id] = "none"]
  <2> DEFINE l == [o.live EXCEPT ![o.answer.model.id] = "none"]
  <2>1. without \in Outcome /\ without.op = o.op
    <3>1. l \in [Ids -> Props]
      BY <1>3 DEF Props
    <3>2. without = [o EXCEPT !.live = l]
      OBVIOUS
    <3> HIDE DEF l, without
    <3> QED BY <1>5, <3>1, <3>2
  <2>2. Deviation(o) = Moved(without, Free(o.used), m.props)
    BY <1>8 DEF Deviation
  <2>3. Free(o.used) \in Ids /\ m.props \in Props
    BY <1>1, <1>8, FreeIs DEF Model, Outcome
  <2> HIDE DEF without, l, m
  <2>4. Moved(without, Free(o.used), m.props) \in Outcome
        /\ Moved(without, Free(o.used), m.props).op = without.op
    BY <2>1, <2>3, MovedType
  <2> QED BY <2>1, <2>2, <2>4
<1>9. CASE defect = "createPartial" /\ Ok(o, "CREATE")
  BY <1>1, <1>9 DEF Deviation, Outcome, Props
<1>10. CASE defect \in {"createFails", "createNoId", "progressNoId", "returnsSecret", "readGhost",
                        "readWaits", "deleteModel", "deleteGhost", "listGhost", "listMisses",
                        "slow", "slowLater"}
  <2> DEFINE given == o.answer
  <2>1. /\ \A n \in Model : [given EXCEPT !.model = n] \in Answer
        /\ \A ids \in SUBSET Ids : [given EXCEPT !.ids = ids] \in Answer
        /\ [given EXCEPT !.slow = TRUE] \in Answer
    BY <1>3 DEF Answer
  <2>2. [m EXCEPT !.secret = FALSE] \in Model
    BY <1>1 DEF Model
  <2>3. \A a \in {Failed("InternalFailure"), Success([m EXCEPT !.secret = FALSE]), Progress(m, 0),
                  Success(NoModel), Listing({}, FALSE)} : a \in Answer
    <3>1. 0 \in 0 .. MaxPolls
      BY PollsAssumption
    <3> DEFINE n == [m EXCEPT !.secret = FALSE]
    <3> HIDE DEF n, m
    <3>2. /\ Failed("InternalFailure") \in Answer /\ Success(n) \in Answer /\ Progress(m, 0) \in Answer
          /\ Success(NoModel) \in Answer /\ Listing({}, FALSE) \in Answer
      BY <1>1, <2>2, <3>1, AnswerTypes DEF n
    <3> QED BY <3>2 DEF n
  <2>4. \/ Deviation(o) = o
        \/ \E a \in Answer : Deviation(o) = [o EXCEPT !.answer = a]
    <3>1. CASE defect \in {"createNoId", "progressNoId", "returnsSecret", "deleteModel"}
      <4>1. /\ [given.model EXCEPT !.id = NoId] \in Model
            /\ [given.model EXCEPT !.secret = TRUE] \in Model
        BY <1>3 DEF Model
      <4>2. \/ Deviation(o) = o
            \/ Deviation(o) = [o EXCEPT !.answer = [given EXCEPT !.model = [given.model EXCEPT !.id = NoId]]]
            \/ Deviation(o) = [o EXCEPT !.answer = [given EXCEPT !.model = [given.model EXCEPT !.secret = TRUE]]]
            \/ Deviation(o) = [o EXCEPT !.answer = [given EXCEPT !.model = [m EXCEPT !.secret = FALSE]]]
        BY <1>1, <3>1 DEF Deviation, Outcome, Answer
      <4> HIDE DEF given, m
      <4> QED BY <2>1, <2>2, <4>1, <4>2
    <3>3. CASE defect \in {"listGhost", "slow", "slowLater"}
      <4>1. \/ Deviation(o) = o
            \/ Deviation(o) = [o EXCEPT !.answer = [given EXCEPT !.ids = given.ids \cup used]]
            \/ Deviation(o) = [o EXCEPT !.answer = [given EXCEPT !.slow = TRUE]]
        BY <3>3 DEF Deviation
      <4>2. given.ids \cup used \in SUBSET Ids
        BY <1>1, <1>3 DEF Answer
      <4> HIDE DEF given
      <4> QED BY <2>1, <4>1, <4>2
    <3>2. CASE defect \in {"createFails", "readGhost", "readWaits", "deleteGhost", "listMisses"}
      BY <2>3, <3>2 DEF Deviation
    <3> QED BY <1>10, <3>1, <3>2, <3>3
  <2> HIDE DEF given, m
  <2>5. CASE Deviation(o) = o
    BY <1>1, <2>5
  <2>6. CASE \E a \in Answer : Deviation(o) = [o EXCEPT !.answer = a]
    <3>1. PICK a \in Answer : Deviation(o) = [o EXCEPT !.answer = a]
      BY <2>6
    <3> QED BY <1>4, <3>1
  <2> QED BY <2>4, <2>5, <2>6
<1>11. CASE defect \in {"updatePartial", "deleteKeeps"}
  BY <1>1, <1>5, <1>11 DEF Deviation
<1>12. CASE Deviation(o) = o
  BY <1>1, <1>12
<1>13. defect \in Defect \cup {"none"}
  BY DefectsAssumption DEF TypeOK, ClientTypeOK
<1>14. \/ Deviation(o) = o
       \/ defect \in {"createFails", "createNoId", "progressNoId", "returnsSecret", "readGhost",
                      "readWaits", "deleteModel", "deleteGhost", "listGhost", "listMisses",
                      "slow", "slowLater", "updatePartial", "deleteKeeps"}
       \/ defect = "createAgain" /\ Refused(o, "CREATE", "AlreadyExists")
       \/ defect = "updateCreates" /\ Refused(o, "UPDATE", "NotFound") /\ (m.id \in Ids \/ HasFree(o.used))
       \/ defect = "updateNewId" /\ Ok(o, "UPDATE") /\ HasFree(o.used)
       \/ defect = "createPartial" /\ Ok(o, "CREATE")
  BY <1>13 DEF Deviation, Defect
<1> QED BY <1>6, <1>7, <1>8, <1>9, <1>10, <1>11, <1>12, <1>14

-----------------------------------------------------------------------------
(* Types.                                                                   *)

(* There are 18 tests and fixtures.                                         *)
LEMMA SuiteIs == Len(Suite) = 18 /\ DOMAIN Suite = 1 .. 18
BY DEF Suite

(* A call is under way in a block only, and is one of its calls.            *)
BlockInv ==
  /\ step > 0 => at <= 18 /\ step <= Len(Calls)
  /\ cleaning = TRUE => step > 0 /\ Block.finally # <<>>
  /\ phase # "idle" => step > 0

(* TypeOK alone is not inductive: it does not say that the call under way   *)
(* is one of the block's, nor that an operation has a resource.             *)
TypeInv == TypeOK /\ CallInv /\ BlockInv

(* What is running is a block of the suite, and the call under way one of   *)
(* its calls.                                                               *)
LEMMA BlockIs ==
  ASSUME TypeInv, at <= 18
  PROVE  BlockOK(Block) /\ Block.name \in Names
<1>1. at \in 1 .. 18
  BY SuiteIs DEF TypeInv, TypeOK
<1> QED BY <1>1, SuiteOK, SuiteIs DEF Block, Names

LEMMA NowIs ==
  ASSUME TypeInv, step > 0
  PROVE  Now \in Calling /\ Len(Calls) \in 1 .. 2
<1>1. BlockOK(Block) /\ step \in Nat /\ step <= Len(Calls)
  <2>1. at <= 18 /\ step <= Len(Calls)
    BY DEF TypeInv, BlockInv
  <2>2. step \in Nat
    BY DEF TypeInv, TypeOK
  <2> QED BY <2>1, <2>2, BlockIs
<1>2. BodyOK(Calls)
  BY <1>1, Zenon DEF BlockOK, Calls, TypeInv, BlockInv, TypeOK
<1>3. Len(Calls) \in 1 .. 2
  BY <1>2 DEF BodyOK
<1> QED BY <1>1, <1>2, <1>3 DEF BodyOK, Now

(* What a call sends is a model.                                            *)
LEMMA ArgumentType ==
  ASSUME TypeInv, NEW c \in Calling
  PROVE  Argument(c) \in Model /\ Stale(c) \in Ids \cup {NoId}
<1>1. /\ model \in Model /\ second \in Model /\ type \in Type /\ stale \in Ids \cup {NoId}
      /\ Example \in Ids
  BY IdsAssumption DEF TypeInv, TypeOK, ClientTypeOK
<1>2. CreateExample \in Model
  BY <1>1 DEF CreateExample, Model, Props
<1>3. Stale(c) \in Ids \cup {NoId}
  BY <1>1 DEF Stale, Model
<1>4. [id |-> IF type.inputs THEN Stale(c) ELSE model.id, props |-> "update", secret |-> TRUE] \in Model
  BY <1>1, <1>3 DEF Model, Props
<1>5. c.arg \in {"request", "model", "second", "update"}
  BY DEF Calling, Arguments
<1> QED BY <1>1, <1>2, <1>3, <1>4, <1>5 DEF Argument

(* Going on, cleaning up and leaving keep the place within the suite.       *)
LEMMA AfterType ==
  ASSUME TypeInv, step > 0, NEW passed \in BOOLEAN, After(passed)
  PROVE  /\ at' \in 1 .. 19 /\ step' \in 0 .. 2 /\ cleaning' \in BOOLEAN
         /\ ready' \subseteq Names /\ failed' \subseteq Names
         /\ step' > 0 => at' <= 18 /\ step' <= Len(Calls')
         /\ cleaning' = TRUE => step' > 0 /\ Block'.finally # <<>>
<1>1. /\ at \in 1 .. 18 /\ step \in 1 .. 2 /\ step <= Len(Calls) /\ Len(Calls) \in 1 .. 2
      /\ cleaning \in BOOLEAN /\ ready \subseteq Names /\ failed \subseteq Names
      /\ cleaning = TRUE => Block.finally # <<>>
  <2>1. Len(Calls) \in 1 .. 2
    BY NowIs
  <2>2. at <= 18 /\ step <= Len(Calls) /\ (cleaning = TRUE => Block.finally # <<>>)
    BY DEF TypeInv, BlockInv
  <2>3. /\ at \in 1 .. 19 /\ step \in 0 .. 2
        /\ cleaning \in BOOLEAN /\ ready \subseteq Names /\ failed \subseteq Names
    BY SuiteIs DEF TypeInv, TypeOK
  <2> QED BY <2>1, <2>2, <2>3
<1>2. BlockOK(Block) /\ Block.name \in Names
  BY <1>1, BlockIs
<1>3. failed' \subseteq Names
  BY <1>1, <1>2 DEF After, Fail
<1> DEFINE last == step = Len(Calls)
           cleansUp == ~cleaning /\ Block.finally # <<>> /\ (passed => last /\ ~Block.fixture)
<1>4. \/ cleansUp /\ cleaning' = TRUE /\ step' = 1 /\ UNCHANGED <<at, ready>>
      \/ passed /\ ~last /\ step' = step + 1 /\ UNCHANGED <<at, cleaning, ready>>
      \/ /\ Leave
         /\ ready' = IF passed /\ Block.fixture /\ ~cleaning THEN ready \cup {Block.name} ELSE ready
  BY DEF After
<1>5. CASE cleansUp /\ cleaning' = TRUE /\ step' = 1 /\ UNCHANGED <<at, ready>>
  <2>1. Block' = Block /\ Calls' = Block.finally
    BY <1>5 DEF Block, Calls
  <2>2. Len(Block.finally) \in 1 .. 2
    BY <1>2, <1>5 DEF BlockOK, BodyOK
  <2> QED BY <1>1, <1>3, <1>5, <2>1, <2>2
<1>6. CASE passed /\ ~last /\ step' = step + 1 /\ UNCHANGED <<at, cleaning, ready>>
  <2>1. Block' = Block /\ Calls' = Calls
    BY <1>6 DEF Block, Calls
  <2>2. step' \in 1 .. 2 /\ step' <= Len(Calls')
    <3>1. step' = step + 1 /\ step # Len(Calls) /\ Calls' = Calls
      BY <1>6, <2>1
    <3>2. step \in 1 .. 2 /\ step <= Len(Calls) /\ Len(Calls) \in 1 .. 2
      BY <1>1
    <3>3. ASSUME NEW s, NEW n, s \in 1 .. 2, s <= n, n \in 1 .. 2, s # n
          PROVE  s + 1 \in 1 .. 2 /\ s + 1 <= n
      BY <3>3
    <3>4. step + 1 \in 1 .. 2 /\ step + 1 <= Len(Calls)
      BY <3>1, <3>2, <3>3
    <3> QED BY <3>1, <3>4, Zenon
  <2>3. at' \in 1 .. 19 /\ at' <= 18
    BY <1>1, <1>6
  <2>4. cleaning' \in BOOLEAN /\ ready' \subseteq Names /\ (cleaning' = TRUE => Block'.finally # <<>>)
    BY <1>1, <1>6, <2>1
  <2> QED BY <1>3, <2>2, <2>3, <2>4
<1>7. CASE /\ Leave
           /\ ready' = IF passed /\ Block.fixture /\ ~cleaning THEN ready \cup {Block.name} ELSE ready
  <2>1. at' \in 1 .. 19 /\ step' = 0 /\ cleaning' = FALSE
    BY <1>1, <1>7 DEF Leave
  <2>2. ready' \subseteq Names
    BY <1>1, <1>2, <1>7
  <2>3. at' \in 1 .. 19 /\ step' \in 0 .. 2 /\ cleaning' \in BOOLEAN /\ ~(step' > 0) /\ ~(cleaning' = TRUE)
    <3>1. 0 \in 0 .. 2 /\ ~(0 > 0)
      OBVIOUS
    <3> QED BY <2>1, <3>1, Zenon
  <2> QED BY <1>3, <2>2, <2>3
<1> QED BY <1>4, <1>5, <1>6, <1>7

(* A payload is a request, and carries a token.                             *)
LEMMA InvokeType ==
  ASSUME TypeInv, NEW act \in Actions, NEW m \in Model, NEW seen \in SUBSET Ids, Invoke(act, m, seen)
  PROVE  /\ tokens' \in Nat /\ phase' = "sent" /\ request' \in Request /\ answer' \in Answer
         /\ request'.token # 0
BY PollsAssumption DEF Invoke, Request, TypeInv, TypeOK, ClientTypeOK

(* The types hold at first, and every action keeps them.                    *)
LEMMA InitType == Init => TypeInv
<1> SUFFICES ASSUME Init PROVE TypeInv
  OBVIOUS
<1>1. NoModel \in Model /\ Success(NoModel) \in Answer
  BY AnswerTypes
<1>2. ClientTypeOK /\ CallInv
  <2>1. live \in [Ids -> Props] /\ used \subseteq Ids
    BY DEF Init, Props
  <2>2. request \in Request
    BY <1>1, PollsAssumption DEF Init, ClientInit, Request, Actions
  <2> QED BY <1>1, <2>1, <2>2 DEF Init, ClientInit, ClientTypeOK, CallInv
<1>3. TypeOK
  <2>1. at \in 1 .. Len(Suite) + 1 /\ step \in 0 .. 2 /\ cleaning \in BOOLEAN
    <3>1. at = 1 /\ step = 0 /\ cleaning = FALSE
      BY DEF Init
    <3>2. 1 \in 1 .. Len(Suite) + 1 /\ 0 \in 0 .. 2
      BY SuiteIs
    <3> QED BY <3>1, <3>2, Zenon
  <2>2. stale \in Ids \cup {NoId}
    BY IdsAssumption DEF Init
  <2> QED BY <1>1, <1>2, <2>1, <2>2 DEF Init, TypeOK
<1>4. BlockInv
  BY DEF Init, ClientInit, BlockInv
<1> QED BY <1>2, <1>3, <1>4 DEF TypeInv

LEMMA EnterType == TypeInv /\ Enter => TypeInv'
<1> SUFFICES ASSUME TypeInv, Enter PROVE TypeInv'
  OBVIOUS
<1>1. at \in 1 .. 18 /\ step = 0 /\ cleaning = FALSE /\ phase = "idle"
  BY SuiteIs DEF Enter, Done, TypeInv, TypeOK, ClientTypeOK, BlockInv
<1>2. BlockOK(Block) /\ Block.name \in Names
  BY <1>1, BlockIs
<1>3. ClientTypeOK' /\ CallInv' /\ foreign' = foreign /\ ready' = ready /\ stale' = stale /\ phase' = "idle"
  BY <1>1 DEF Enter, TypeInv, TypeOK, ClientTypeOK, CallInv, handlerVars, clientVars
<1>4. CreateExample \in Model /\ NoModel \in Model
  BY AnswerTypes, IdsAssumption DEF CreateExample, Model, Props
<1>5. CASE Leave /\ failed' \subseteq Names /\ UNCHANGED <<model, second>>
  <2>1. at' \in 1 .. Len(Suite) + 1 /\ step' = 0 /\ cleaning' = FALSE
    BY <1>1, <1>5, SuiteIs DEF Leave
  <2>2. BlockInv'
    BY <1>3, <2>1 DEF BlockInv
  <2>3. step' \in 0 .. 2 /\ cleaning' \in BOOLEAN
    <3>1. 0 \in 0 .. 2
      OBVIOUS
    <3> QED BY <2>1, <3>1, Zenon
  <2>4. model' \in Model /\ second' \in Model /\ failed' \subseteq Names /\ foreign' \in Foreign \cup {NoId}
        /\ ready' \subseteq Names /\ stale' \in Ids \cup {NoId}
    BY <1>3, <1>5 DEF TypeInv, TypeOK
  <2> QED BY <1>3, <2>1, <2>2, <2>3, <2>4 DEF TypeInv, TypeOK
<1>6. CASE /\ step' = 1 /\ UNCHANGED <<at, cleaning, failed>>
           /\ model' \in {model, NoModel, CreateExample} /\ second' \in {second, NoModel}
  <2>1. Calls' = Block.body /\ Len(Block.body) \in 1 .. 2
    BY <1>1, <1>2, <1>6 DEF Calls, Block, BlockOK, BodyOK
  <2>2. BlockInv'
    BY <1>1, <1>3, <1>6, <2>1 DEF BlockInv
  <2> QED BY <1>1, <1>3, <1>4, <1>6, <2>2 DEF TypeInv, TypeOK
<1> QED BY <1>2, <1>5, <1>6 DEF Enter, Fail, TypeInv, TypeOK

LEMMA CallHandlerType == TypeInv /\ CallHandler => TypeInv'
<1> SUFFICES ASSUME TypeInv, CallHandler PROVE TypeInv'
  OBVIOUS
<1>1. step > 0 /\ phase = "idle"
  BY DEF CallHandler
<1>2. Now \in Calling /\ Now.act \in Actions
  BY <1>1, NowIs DEF Calling
<1>3. Argument(Now) \in Model /\ Stale(Now) \in Ids \cup {NoId}
  BY <1>2, ArgumentType
<1>4. CASE /\ Invoke(Now.act, Argument(Now), {}) /\ stale' = Stale(Now)
           /\ UNCHANGED <<at, step, cleaning, ready, failed>>
  <2>1. /\ tokens' \in Nat /\ phase' = "sent" /\ request' \in Request /\ answer' \in Answer
        /\ request'.token # 0
    BY <1>2, <1>3, <1>4, InvokeType
  <2>2. ClientTypeOK' /\ CallInv'
    BY <2>1 DEF CallHandler, handlerVars, TypeInv, TypeOK, ClientTypeOK, CallInv
  <2>3. BlockInv'
    BY <1>1, <1>4 DEF TypeInv, BlockInv, Calls, Block
  <2> QED BY <1>3, <1>4, <2>2, <2>3 DEF CallHandler, TypeInv, TypeOK
<1>5. CASE After(FALSE) /\ UNCHANGED <<clientVars, stale>>
  <2>1. /\ at' \in 1 .. 19 /\ step' \in 0 .. 2 /\ cleaning' \in BOOLEAN
        /\ ready' \subseteq Names /\ failed' \subseteq Names
        /\ step' > 0 => at' <= 18 /\ step' <= Len(Calls')
        /\ cleaning' = TRUE => step' > 0 /\ Block'.finally # <<>>
    BY <1>1, <1>5, AfterType
  <2>2. ClientTypeOK' /\ CallInv' /\ phase' = "idle"
    BY <1>1, <1>5 DEF CallHandler, handlerVars, clientVars, TypeInv, TypeOK, ClientTypeOK, CallInv
  <2> QED BY <1>5, <2>1, <2>2, SuiteIs DEF CallHandler, TypeInv, TypeOK, BlockInv
<1> QED BY <1>4, <1>5 DEF CallHandler

LEMMA NextPageType == TypeInv /\ NextPage => TypeInv'
<1> SUFFICES ASSUME TypeInv, NextPage PROVE TypeInv'
  OBVIOUS
<1>1. request.model \in Model /\ Listed \in SUBSET Ids
  BY DEF TypeInv, TypeOK, ClientTypeOK, Request, Answer, Listed
<1>2. /\ tokens' \in Nat /\ phase' = "sent" /\ request' \in Request /\ answer' \in Answer
      /\ request'.token # 0
  BY <1>1, InvokeType DEF NextPage, Actions
<1>3. step > 0
  BY DEF NextPage, Returned, TypeInv, BlockInv
<1>4. ClientTypeOK' /\ CallInv'
  BY <1>2 DEF NextPage, handlerVars, TypeInv, TypeOK, ClientTypeOK, CallInv
<1>5. BlockInv'
  BY <1>3 DEF NextPage, suiteVars, TypeInv, BlockInv, Calls, Block
<1> QED BY <1>4, <1>5 DEF NextPage, suiteVars, TypeInv, TypeOK

LEMMA ConcludeType == TypeInv /\ Conclude => TypeInv'
<1> SUFFICES ASSUME TypeInv, Conclude PROVE TypeInv'
  OBVIOUS
<1>1. step > 0 /\ phase' = "idle"
  BY DEF Conclude, Returned, TypeInv, BlockInv
<1>2. answer.model \in Model /\ Passed(Now) \in BOOLEAN
  BY DEF TypeInv, TypeOK, ClientTypeOK, Answer, Passed, Accepted
<1>3. /\ at' \in 1 .. 19 /\ step' \in 0 .. 2 /\ cleaning' \in BOOLEAN
      /\ ready' \subseteq Names /\ failed' \subseteq Names
      /\ step' > 0 => at' <= 18 /\ step' <= Len(Calls')
      /\ cleaning' = TRUE => step' > 0 /\ Block'.finally # <<>>
  BY <1>1, <1>2, AfterType DEF Conclude
<1>4. ClientTypeOK' /\ CallInv'
  BY <1>1 DEF Conclude, handlerVars, TypeInv, TypeOK, ClientTypeOK, CallInv
<1>5. model' \in Model /\ second' \in Model /\ foreign' = foreign /\ stale' = stale
  BY <1>2 DEF Conclude, TypeInv, TypeOK
<1> QED BY <1>1, <1>3, <1>4, <1>5, SuiteIs DEF TypeInv, TypeOK, BlockInv

LEMMA ReinvokeType == TypeInv /\ Reinvoke /\ UNCHANGED suiteVars => TypeInv'
<1> SUFFICES ASSUME TypeInv, Reinvoke, UNCHANGED suiteVars PROVE TypeInv'
  OBVIOUS
<1>1. request' \in Request /\ request'.token = request.token
  BY DEF Reinvoke, TypeInv, TypeOK, ClientTypeOK, Request, Answer
<1>2. ClientTypeOK' /\ CallInv'
  BY <1>1 DEF Reinvoke, handlerVars, TypeInv, TypeOK, ClientTypeOK, CallInv
<1>3. BlockInv'
  BY DEF Reinvoke, suiteVars, TypeInv, BlockInv, Calls, Block
<1> QED BY <1>2, <1>3 DEF suiteVars, TypeInv, TypeOK

LEMMA HandlerType == TypeInv /\ HandlerAnswers /\ UNCHANGED suiteVars => TypeInv'
<1> SUFFICES ASSUME TypeInv, HandlerAnswers, UNCHANGED suiteVars PROVE TypeInv'
  OBVIOUS
<1>1. PICK left \in 0 .. MaxPolls, page \in {Ids} \cup {{i} : i \in Ids} :
        LET o == Conforming(left, page)
            d == Deviation(o)
        IN  /\ live' = d.live /\ used' = d.used /\ op' = d.op /\ answer' = d.answer
            /\ shown' = (shown \/ d # o)
  BY DEF HandlerAnswers
<1> DEFINE o == Conforming(left, page)
           d == Deviation(o)
<1>2. OutcomeOK(o)
  BY <1>1, ConformingOK DEF HandlerAnswers, TypeInv
<1>3. d \in Outcome /\ d.op = o.op
  <2> HIDE DEF o
  <2> QED BY <1>2, DeviationType DEF TypeInv
<1>4. /\ live' = d.live /\ used' = d.used /\ op' = d.op /\ answer' = d.answer
      /\ shown' = (shown \/ d # o)
  BY <1>1
<1> HIDE DEF o, d
<1>5. /\ live' \in [Ids -> Props] /\ used' \subseteq Ids /\ op' \in Op /\ answer' \in Answer
      /\ shown' \in BOOLEAN /\ (op'.token # 0 => op'.id \in Ids)
  BY <1>2, <1>3, <1>4 DEF Outcome, OutcomeOK, TypeInv, TypeOK, ClientTypeOK
<1>6. ClientTypeOK' /\ CallInv'
  BY <1>5 DEF HandlerAnswers, TypeInv, TypeOK, ClientTypeOK, CallInv, Op
<1>7. BlockInv'
  BY DEF HandlerAnswers, suiteVars, TypeInv, BlockInv, Calls, Block
<1> QED BY <1>6, <1>7 DEF suiteVars, TypeInv, TypeOK

LEMMA NextType == TypeInv /\ [Next]_vars => TypeInv'
<1>1. TypeInv /\ UNCHANGED vars => TypeInv'
  BY DEF vars, handlerVars, clientVars, suiteVars, TypeInv, TypeOK, ClientTypeOK, CallInv, BlockInv,
         Calls, Block
<1> QED BY <1>1, EnterType, CallHandlerType, NextPageType, ConcludeType, ReinvokeType, HandlerType
        DEF Next

(* Every variable of the suite and of the calls it makes keeps its type     *)
(* (suite/resource, ResourceClient.call).                                   *)
THEOREM TypeCorrect == Spec => []TypeOK
<1>1. TypeInv => TypeOK
  BY DEF TypeInv
<1> QED BY <1>1, InitType, NextType, PTL DEF Spec

-----------------------------------------------------------------------------
(* The suite as a table.                                                    *)

(* A test whose fixture is `needs` and that has no `finally`, and the part  *)
(* of a fixture before its yield.                                           *)
IsTest(b, needs, marks, body) ==
  b.needs = needs /\ b.marks = marks /\ b.body = body /\ b.finally = <<>> /\ b.fixture = FALSE
IsSetup(b, name, marks, body, finally) ==
  /\ b.name = name /\ b.needs = "none" /\ b.marks = marks /\ b.body = body
  /\ b.finally = finally /\ b.fixture = TRUE /\ b.writable = FALSE

LEMMA Blocks ==
  /\ Suite[1] = contract_create_delete /\ Suite[2] = created_resource
  /\ Suite[3] = contract_create_create /\ Suite[4] = contract_create_read
  /\ Suite[5] = contract_create_list /\ Suite[6] = Teardown(created_resource)
  /\ Suite[7] = deleted_resource /\ Suite[8] = contract_delete_read
  /\ Suite[9] = contract_delete_list /\ Suite[10] = contract_delete_update
  /\ Suite[11] = contract_delete_delete /\ Suite[12] = contract_delete_create
  /\ Suite[13] = Teardown(deleted_resource) /\ Suite[14] = updated_resource
  /\ Suite[15] = contract_update_read /\ Suite[16] = contract_update_list
  /\ Suite[17] = Teardown(updated_resource) /\ Suite[18] = contract_update_without_create
BY DEF Suite

LEMMA CreateTests ==
  /\ Suite[1].needs = "none" /\ Suite[1].marks = {} /\ Suite[1].body = <<Create("model", {"id", "echo"})>>
  /\ Suite[1].finally = <<Delete("model", "SUCCESS")>> /\ Suite[1].fixture = FALSE
  /\ Suite[1].writable = FALSE /\ Suite[1].name = "contract_create_delete"
  /\ IsSetup(Suite[2], "created_resource", {}, <<Create("model", {"echo"})>>, <<Delete("model", "SUCCESS")>>)
  /\ IsTest(Suite[3], "created_resource", {}, <<Call("CREATE", "request", "AlreadyExists", "none", {})>>)
  /\ Suite[3].writable = TRUE
  /\ IsTest(Suite[4], "created_resource", {},
            <<Call("READ", "model", "SUCCESS", "none", {"id", "secret", "echo"})>>)
  /\ Suite[4].writable = FALSE
  /\ IsTest(Suite[5], "created_resource", {"list"},
            <<Call("LIST", "model", "SUCCESS", "none", {"listed"}),
              Call("READ", "model", "SUCCESS", "none", {"id", "secret", "echo"})>>)
  /\ Suite[5].writable = FALSE
  /\ IsTest(Suite[6], "created_resource", {}, <<Delete("model", "SUCCESS")>>)
  /\ Suite[6].writable = FALSE
<1> USE Blocks DEF IsTest, IsSetup, Test, Setup, Teardown
<1>1. /\ Suite[1].needs = "none" /\ Suite[1].marks = {} /\ Suite[1].body = <<Create("model", {"id", "echo"})>>
      /\ Suite[1].finally = <<Delete("model", "SUCCESS")>> /\ Suite[1].fixture = FALSE
      /\ Suite[1].writable = FALSE /\ Suite[1].name = "contract_create_delete"
  BY DEF contract_create_delete
<1>2. /\ IsSetup(Suite[2], "created_resource", {}, <<Create("model", {"echo"})>>, <<Delete("model", "SUCCESS")>>)
      /\ IsTest(Suite[6], "created_resource", {}, <<Delete("model", "SUCCESS")>>)
      /\ Suite[6].writable = FALSE
  BY DEF created_resource
<1>3. /\ IsTest(Suite[3], "created_resource", {}, <<Call("CREATE", "request", "AlreadyExists", "none", {})>>)
      /\ Suite[3].writable = TRUE
  BY DEF contract_create_create
<1>4. /\ IsTest(Suite[4], "created_resource", {},
                <<Call("READ", "model", "SUCCESS", "none", {"id", "secret", "echo"})>>)
      /\ Suite[4].writable = FALSE
  BY DEF contract_create_read
<1>5. /\ IsTest(Suite[5], "created_resource", {"list"},
                <<Call("LIST", "model", "SUCCESS", "none", {"listed"}),
                  Call("READ", "model", "SUCCESS", "none", {"id", "secret", "echo"})>>)
      /\ Suite[5].writable = FALSE
  BY DEF contract_create_list
<1> HIDE DEF IsTest, IsSetup
<1> QED BY <1>1, <1>2, <1>3, <1>4, <1>5

LEMMA DeleteTests ==
  /\ IsSetup(Suite[7], "deleted_resource", {},
             <<Create("model", {"echo"}), Call("DELETE", "model", "SUCCESS", "none", {"noModel"})>>,
             <<Delete("model", "SUCCESS or NotFound")>>)
  /\ IsTest(Suite[8], "deleted_resource", {}, <<Call("READ", "model", "NotFound", "none", {})>>)
  /\ IsTest(Suite[9], "deleted_resource", {"list"},
            <<Call("LIST", "model", "SUCCESS", "none", {"unlisted"})>>)
  /\ IsTest(Suite[10], "deleted_resource", {"update"}, <<Call("UPDATE", "update", "NotFound", "none", {})>>)
  /\ IsTest(Suite[11], "deleted_resource", {}, <<Delete("model", "NotFound")>>)
  /\ IsTest(Suite[12], "deleted_resource", {}, <<Create("second", {"id"}), Delete("second", "SUCCESS")>>)
  /\ IsTest(Suite[13], "deleted_resource", {}, <<Delete("model", "SUCCESS or NotFound")>>)
  /\ Suite[12].writable = TRUE
  /\ \A k \in {8, 9, 10, 11, 13} : Suite[k].writable = FALSE
<1> USE Blocks DEF IsTest, IsSetup, Test, Setup, Teardown
<1>1. /\ IsSetup(Suite[7], "deleted_resource", {},
                 <<Create("model", {"echo"}), Call("DELETE", "model", "SUCCESS", "none", {"noModel"})>>,
                 <<Delete("model", "SUCCESS or NotFound")>>)
      /\ IsTest(Suite[13], "deleted_resource", {}, <<Delete("model", "SUCCESS or NotFound")>>)
      /\ Suite[13].writable = FALSE
  <2> DEFINE calls == <<Create("model", {"echo"}), Call("DELETE", "model", "SUCCESS", "none", {"noModel"})>>
             last == <<Delete("model", "SUCCESS or NotFound")>>
  <2>1. deleted_resource = Setup("deleted_resource", {}, calls, last)
    BY DEF deleted_resource
  <2> HIDE DEF calls, last
  <2>2. /\ IsSetup(Suite[7], "deleted_resource", {}, calls, last)
        /\ IsTest(Suite[13], "deleted_resource", {}, last)
        /\ Suite[13].writable = FALSE
    BY <2>1
  <2> QED BY <2>2 DEF calls, last
<1>2. /\ IsTest(Suite[8], "deleted_resource", {}, <<Call("READ", "model", "NotFound", "none", {})>>)
      /\ Suite[8].writable = FALSE
  BY DEF contract_delete_read
<1>3. /\ IsTest(Suite[9], "deleted_resource", {"list"},
                <<Call("LIST", "model", "SUCCESS", "none", {"unlisted"})>>)
      /\ Suite[9].writable = FALSE
  BY DEF contract_delete_list
<1>4. /\ IsTest(Suite[10], "deleted_resource", {"update"},
                <<Call("UPDATE", "update", "NotFound", "none", {})>>)
      /\ Suite[10].writable = FALSE
  BY DEF contract_delete_update
<1>5. /\ IsTest(Suite[11], "deleted_resource", {}, <<Delete("model", "NotFound")>>)
      /\ Suite[11].writable = FALSE
  BY DEF contract_delete_delete
<1>6. /\ IsTest(Suite[12], "deleted_resource", {},
                <<Create("second", {"id"}), Delete("second", "SUCCESS")>>)
      /\ Suite[12].writable = TRUE
  BY DEF contract_delete_create
<1> HIDE DEF IsTest, IsSetup
<1> QED BY <1>1, <1>2, <1>3, <1>4, <1>5, <1>6

LEMMA UpdateTests ==
  /\ IsSetup(Suite[14], "updated_resource", {"update"},
             <<Create("model", {"echo"}), Call("UPDATE", "update", "SUCCESS", "second", {"echo"})>>,
             <<Delete("model", "SUCCESS")>>)
  /\ IsTest(Suite[15], "updated_resource", {"update"},
            <<Call("READ", "second", "SUCCESS", "none", {"sameId", "id", "secret", "echo"})>>)
  /\ IsTest(Suite[16], "updated_resource", {"update", "list"},
            <<Call("LIST", "second", "SUCCESS", "none", {"sameId", "listed"})>>)
  /\ IsTest(Suite[17], "updated_resource", {"update"}, <<Delete("model", "SUCCESS")>>)
  /\ IsTest(Suite[18], "none", {"update"}, <<Call("UPDATE", "update", "NotFound", "none", {})>>)
  /\ Suite[18].name = "contract_update_without_create"
  /\ \A k \in 15 .. 18 : Suite[k].writable = FALSE
<1> USE Blocks DEF IsTest, IsSetup, Test, Setup, Teardown
<1>1. /\ IsSetup(Suite[14], "updated_resource", {"update"},
                 <<Create("model", {"echo"}), Call("UPDATE", "update", "SUCCESS", "second", {"echo"})>>,
                 <<Delete("model", "SUCCESS")>>)
      /\ IsTest(Suite[17], "updated_resource", {"update"}, <<Delete("model", "SUCCESS")>>)
      /\ Suite[17].writable = FALSE
  BY DEF updated_resource
<1>2. /\ IsTest(Suite[15], "updated_resource", {"update"},
                <<Call("READ", "second", "SUCCESS", "none", {"sameId", "id", "secret", "echo"})>>)
      /\ Suite[15].writable = FALSE
  BY DEF contract_update_read
<1>3. /\ IsTest(Suite[16], "updated_resource", {"update", "list"},
                <<Call("LIST", "second", "SUCCESS", "none", {"sameId", "listed"})>>)
      /\ Suite[16].writable = FALSE
  BY DEF contract_update_list
<1>4. /\ IsTest(Suite[18], "none", {"update"}, <<Call("UPDATE", "update", "NotFound", "none", {})>>)
      /\ Suite[18].name = "contract_update_without_create" /\ Suite[18].writable = FALSE
  BY DEF contract_update_without_create
<1> HIDE DEF IsTest, IsSetup
<1> QED BY <1>1, <1>2, <1>3, <1>4

(* The call under way, by the place in the suite.                           *)
Running(k, s, c) == at = k /\ step = s /\ cleaning = FALSE /\ Now = c
CleaningUp(k, c) == at = k /\ step = 1 /\ cleaning = TRUE /\ Now = c

LEMMA NowCases ==
  ASSUME TypeInv, step > 0
  PROVE  \/ Running(1, 1, Create("model", {"id", "echo"}))
         \/ CleaningUp(1, Delete("model", "SUCCESS"))
         \/ Running(2, 1, Create("model", {"echo"}))
         \/ CleaningUp(2, Delete("model", "SUCCESS"))
         \/ Running(3, 1, Call("CREATE", "request", "AlreadyExists", "none", {}))
         \/ Running(4, 1, Call("READ", "model", "SUCCESS", "none", {"id", "secret", "echo"}))
         \/ Running(5, 1, Call("LIST", "model", "SUCCESS", "none", {"listed"}))
         \/ Running(5, 2, Call("READ", "model", "SUCCESS", "none", {"id", "secret", "echo"}))
         \/ Running(6, 1, Delete("model", "SUCCESS"))
         \/ Running(7, 1, Create("model", {"echo"}))
         \/ Running(7, 2, Call("DELETE", "model", "SUCCESS", "none", {"noModel"}))
         \/ CleaningUp(7, Delete("model", "SUCCESS or NotFound"))
         \/ Running(8, 1, Call("READ", "model", "NotFound", "none", {}))
         \/ Running(9, 1, Call("LIST", "model", "SUCCESS", "none", {"unlisted"}))
         \/ Running(10, 1, Call("UPDATE", "update", "NotFound", "none", {}))
         \/ Running(11, 1, Delete("model", "NotFound"))
         \/ Running(12, 1, Create("second", {"id"}))
         \/ Running(12, 2, Delete("second", "SUCCESS"))
         \/ Running(13, 1, Delete("model", "SUCCESS or NotFound"))
         \/ Running(14, 1, Create("model", {"echo"}))
         \/ Running(14, 2, Call("UPDATE", "update", "SUCCESS", "second", {"echo"}))
         \/ CleaningUp(14, Delete("model", "SUCCESS"))
         \/ Running(15, 1, Call("READ", "second", "SUCCESS", "none", {"sameId", "id", "secret", "echo"}))
         \/ Running(16, 1, Call("LIST", "second", "SUCCESS", "none", {"sameId", "listed"}))
         \/ Running(17, 1, Delete("model", "SUCCESS"))
         \/ Running(18, 1, Call("UPDATE", "update", "NotFound", "none", {}))
<1>1. /\ at \in 1 .. 18 /\ step \in {1, 2} /\ step <= Len(Calls)
      /\ cleaning = TRUE \/ cleaning = FALSE
      /\ cleaning = TRUE => Block.finally # <<>>
  <2>1. at <= 18 /\ step <= Len(Calls) /\ (cleaning = TRUE => Block.finally # <<>>)
    BY DEF TypeInv, BlockInv
  <2>2. at \in 1 .. 19 /\ step \in 0 .. 2 /\ cleaning \in BOOLEAN
    BY SuiteIs DEF TypeInv, TypeOK
  <2> QED BY <2>1, <2>2
<1>2. cleaning = FALSE => Calls = Suite[at].body
  BY DEF Calls, Block
<1>3. cleaning = TRUE => Calls = Suite[at].finally /\ Suite[at].finally # <<>>
  BY <1>1 DEF Calls, Block
<1>4. ASSUME NEW c, Calls = <<c>> PROVE step = 1 /\ Now = c
  <2>1. Len(<<c>>) = 1 /\ <<c>>[1] = c
    OBVIOUS
  <2>2. step = 1
    BY <1>1, <1>4, <2>1
  <2> QED BY <1>4, <2>1, <2>2 DEF Now
<1>5. ASSUME NEW c, NEW d, Calls = <<c, d>> PROVE (step = 1 /\ Now = c) \/ (step = 2 /\ Now = d)
  <2>1. <<c, d>>[1] = c /\ <<c, d>>[2] = d
    OBVIOUS
  <2> QED BY <1>1, <1>5, <2>1 DEF Now
<1>6. ASSUME at = 1
      PROVE  \/ Running(1, 1, Create("model", {"id", "echo"}))
             \/ CleaningUp(1, Delete("model", "SUCCESS"))
  <2>1. Suite[1].body = <<Create("model", {"id", "echo"})>> /\ Suite[1].finally = <<Delete("model", "SUCCESS")>>
    BY CreateTests
  <2> QED BY <1>1, <1>2, <1>3, <1>4, <1>5, <1>6, <2>1, Zenon DEF Running, CleaningUp
<1>7. ASSUME at = 2
      PROVE  \/ Running(2, 1, Create("model", {"echo"}))
             \/ CleaningUp(2, Delete("model", "SUCCESS"))
  <2>1. Suite[2].body = <<Create("model", {"echo"})>> /\ Suite[2].finally = <<Delete("model", "SUCCESS")>>
    BY CreateTests DEF IsSetup
  <2> QED BY <1>1, <1>2, <1>3, <1>4, <1>5, <1>7, <2>1, Zenon DEF Running, CleaningUp
<1>8. ASSUME at = 3
      PROVE  Running(3, 1, Call("CREATE", "request", "AlreadyExists", "none", {}))
  <2>1. Suite[3].body = <<Call("CREATE", "request", "AlreadyExists", "none", {})>> /\ Suite[3].finally = <<>>
    BY CreateTests DEF IsTest
  <2> QED BY <1>1, <1>2, <1>3, <1>4, <1>5, <1>8, <2>1, Zenon DEF Running, CleaningUp
<1>9. ASSUME at = 4
      PROVE  Running(4, 1, Call("READ", "model", "SUCCESS", "none", {"id", "secret", "echo"}))
  <2>1. Suite[4].body = <<Call("READ", "model", "SUCCESS", "none", {"id", "secret", "echo"})>> /\ Suite[4].finally = <<>>
    BY CreateTests DEF IsTest
  <2> QED BY <1>1, <1>2, <1>3, <1>4, <1>5, <1>9, <2>1, Zenon DEF Running, CleaningUp
<1>10. ASSUME at = 5
      PROVE  \/ Running(5, 1, Call("LIST", "model", "SUCCESS", "none", {"listed"}))
             \/ Running(5, 2, Call("READ", "model", "SUCCESS", "none", {"id", "secret", "echo"}))
  <2>1. Suite[5].body = <<Call("LIST", "model", "SUCCESS", "none", {"listed"}), Call("READ", "model", "SUCCESS", "none", {"id", "secret", "echo"})>> /\ Suite[5].finally = <<>>
    BY CreateTests DEF IsTest
  <2> QED BY <1>1, <1>2, <1>3, <1>4, <1>5, <1>10, <2>1, Zenon DEF Running, CleaningUp
<1>11. ASSUME at = 6
      PROVE  Running(6, 1, Delete("model", "SUCCESS"))
  <2>1. Suite[6].body = <<Delete("model", "SUCCESS")>> /\ Suite[6].finally = <<>>
    BY CreateTests DEF IsTest
  <2> QED BY <1>1, <1>2, <1>3, <1>4, <1>5, <1>11, <2>1, Zenon DEF Running, CleaningUp
<1>12. ASSUME at = 7
      PROVE  \/ Running(7, 1, Create("model", {"echo"}))
             \/ Running(7, 2, Call("DELETE", "model", "SUCCESS", "none", {"noModel"}))
             \/ CleaningUp(7, Delete("model", "SUCCESS or NotFound"))
  <2>1. Suite[7].body = <<Create("model", {"echo"}), Call("DELETE", "model", "SUCCESS", "none", {"noModel"})>> /\ Suite[7].finally = <<Delete("model", "SUCCESS or NotFound")>>
    BY DeleteTests DEF IsSetup
  <2> QED BY <1>1, <1>2, <1>3, <1>4, <1>5, <1>12, <2>1, Zenon DEF Running, CleaningUp
<1>13. ASSUME at = 8
      PROVE  Running(8, 1, Call("READ", "model", "NotFound", "none", {}))
  <2>1. Suite[8].body = <<Call("READ", "model", "NotFound", "none", {})>> /\ Suite[8].finally = <<>>
    BY DeleteTests DEF IsTest
  <2> QED BY <1>1, <1>2, <1>3, <1>4, <1>5, <1>13, <2>1, Zenon DEF Running, CleaningUp
<1>14. ASSUME at = 9
      PROVE  Running(9, 1, Call("LIST", "model", "SUCCESS", "none", {"unlisted"}))
  <2>1. Suite[9].body = <<Call("LIST", "model", "SUCCESS", "none", {"unlisted"})>> /\ Suite[9].finally = <<>>
    BY DeleteTests DEF IsTest
  <2> QED BY <1>1, <1>2, <1>3, <1>4, <1>5, <1>14, <2>1, Zenon DEF Running, CleaningUp
<1>15. ASSUME at = 10
      PROVE  Running(10, 1, Call("UPDATE", "update", "NotFound", "none", {}))
  <2>1. Suite[10].body = <<Call("UPDATE", "update", "NotFound", "none", {})>> /\ Suite[10].finally = <<>>
    BY DeleteTests DEF IsTest
  <2> QED BY <1>1, <1>2, <1>3, <1>4, <1>5, <1>15, <2>1, Zenon DEF Running, CleaningUp
<1>16. ASSUME at = 11
      PROVE  Running(11, 1, Delete("model", "NotFound"))
  <2>1. Suite[11].body = <<Delete("model", "NotFound")>> /\ Suite[11].finally = <<>>
    BY DeleteTests DEF IsTest
  <2> QED BY <1>1, <1>2, <1>3, <1>4, <1>5, <1>16, <2>1, Zenon DEF Running, CleaningUp
<1>17. ASSUME at = 12
      PROVE  \/ Running(12, 1, Create("second", {"id"}))
             \/ Running(12, 2, Delete("second", "SUCCESS"))
  <2>1. Suite[12].body = <<Create("second", {"id"}), Delete("second", "SUCCESS")>> /\ Suite[12].finally = <<>>
    BY DeleteTests DEF IsTest
  <2> QED BY <1>1, <1>2, <1>3, <1>4, <1>5, <1>17, <2>1, Zenon DEF Running, CleaningUp
<1>18. ASSUME at = 13
      PROVE  Running(13, 1, Delete("model", "SUCCESS or NotFound"))
  <2>1. Suite[13].body = <<Delete("model", "SUCCESS or NotFound")>> /\ Suite[13].finally = <<>>
    BY DeleteTests DEF IsTest
  <2> QED BY <1>1, <1>2, <1>3, <1>4, <1>5, <1>18, <2>1, Zenon DEF Running, CleaningUp
<1>19. ASSUME at = 14
      PROVE  \/ Running(14, 1, Create("model", {"echo"}))
             \/ Running(14, 2, Call("UPDATE", "update", "SUCCESS", "second", {"echo"}))
             \/ CleaningUp(14, Delete("model", "SUCCESS"))
  <2>1. Suite[14].body = <<Create("model", {"echo"}), Call("UPDATE", "update", "SUCCESS", "second", {"echo"})>> /\ Suite[14].finally = <<Delete("model", "SUCCESS")>>
    BY UpdateTests DEF IsSetup
  <2> QED BY <1>1, <1>2, <1>3, <1>4, <1>5, <1>19, <2>1, Zenon DEF Running, CleaningUp
<1>20. ASSUME at = 15
      PROVE  Running(15, 1, Call("READ", "second", "SUCCESS", "none", {"sameId", "id", "secret", "echo"}))
  <2>1. Suite[15].body = <<Call("READ", "second", "SUCCESS", "none", {"sameId", "id", "secret", "echo"})>> /\ Suite[15].finally = <<>>
    BY UpdateTests DEF IsTest
  <2> QED BY <1>1, <1>2, <1>3, <1>4, <1>5, <1>20, <2>1, Zenon DEF Running, CleaningUp
<1>21. ASSUME at = 16
      PROVE  Running(16, 1, Call("LIST", "second", "SUCCESS", "none", {"sameId", "listed"}))
  <2>1. Suite[16].body = <<Call("LIST", "second", "SUCCESS", "none", {"sameId", "listed"})>> /\ Suite[16].finally = <<>>
    BY UpdateTests DEF IsTest
  <2> QED BY <1>1, <1>2, <1>3, <1>4, <1>5, <1>21, <2>1, Zenon DEF Running, CleaningUp
<1>22. ASSUME at = 17
      PROVE  Running(17, 1, Delete("model", "SUCCESS"))
  <2>1. Suite[17].body = <<Delete("model", "SUCCESS")>> /\ Suite[17].finally = <<>>
    BY UpdateTests DEF IsTest
  <2> QED BY <1>1, <1>2, <1>3, <1>4, <1>5, <1>22, <2>1, Zenon DEF Running, CleaningUp
<1>23. ASSUME at = 18
      PROVE  Running(18, 1, Call("UPDATE", "update", "NotFound", "none", {}))
  <2>1. Suite[18].body = <<Call("UPDATE", "update", "NotFound", "none", {})>> /\ Suite[18].finally = <<>>
    BY UpdateTests DEF IsTest
  <2> QED BY <1>1, <1>2, <1>3, <1>4, <1>5, <1>23, <2>1, Zenon DEF Running, CleaningUp
<1> QED
  <2>1. at = 1 \/ at = 2 \/ at = 3 \/ at = 4 \/ at = 5 \/ at = 6 \/ at = 7 \/ at = 8 \/ at = 9
        \/ at = 10 \/ at = 11 \/ at = 12 \/ at = 13 \/ at = 14 \/ at = 15 \/ at = 16 \/ at = 17 \/ at = 18
    BY <1>1
  <2> QED BY <2>1, <1>6, <1>7, <1>8, <1>9, <1>10, <1>11, <1>12, <1>13, <1>14, <1>15, <1>16, <1>17, <1>18, <1>19, <1>20, <1>21, <1>22, <1>23, Zenon

-----------------------------------------------------------------------------
(* The call under way.                                                      *)

(* The call s of the body of test k is over.                                *)
Past(k, s) == at > k \/ (at = k /\ (step > s \/ cleaning = TRUE))

SelectedAt(k) ==
  Suite[k].marks \subseteq type.handlers /\ (Suite[k].writable => type.writable)

(* A test runs only if it is selected, and as long as nothing failed its    *)
(* fixture yielded and only the first test is in its `finally`.             *)
ControlInv ==
  /\ step > 0 => Selected
  /\ cleaning = TRUE => at = 1 \/ failed # {}

(* Tokens are new, and only a re-invocation finds its token recorded.       *)
TokenInv ==
  /\ op.token <= tokens /\ request.token <= tokens
  /\ phase = "sent" /\ ~request.again => op.token < request.token

(* The request is that of the call, also when it is a re-invocation.        *)
RequestInv ==
  phase # "idle" =>
    /\ request.act = Now.act
    /\ (request.again <=> request.left > 0)
    /\ request.again => request.act \notin {"READ", "LIST"}
    /\ request.act = "CREATE" => request.model.props = "create"
    /\ request.act # "CREATE" => request.model = Argument(Now)

(* An answer that is re-invoked with goes on with the same model.           *)
ProgressInv ==
  phase = "answered" /\ answer.status = "IN_PROGRESS" /\ ~Raises =>
    /\ answer.left > 0
    /\ answer.model.props = request.model.props
    /\ request.act # "CREATE" => answer.model = request.model

(* Where the tests of a module have a resource that a CREATE returned.      *)
Holding ==
  \/ at = 1 /\ cleaning = TRUE
  \/ at \in 3 .. 6 \cup 8 .. 13
  \/ at \in {7, 14} /\ step = 2
  \/ at \in 15 .. 17 /\ "update" \in type.handlers

(* What the first tests let pass has an identifier and the properties       *)
(* asked for.                                                               *)
HoldingInv ==
  failed = {} /\ Holding =>
    /\ model.props = "create"
    /\ model.id \in used \cup {NoId}
    /\ defect # "createNoId" => model.id \in Ids
    /\ defect = "deleteKeeps" => live[model.id] # "none"
SecondInv ==
  failed = {} /\ at \in {15, 16} /\ "update" \in type.handlers => second.props = "update"

(* What the defects do to the resources.                                    *)
WorldInv ==
  /\ defect = "createPartial" => \A i \in Ids \ {foreign} : live[i] # "create"
  /\ defect = "updatePartial" => \A i \in Ids : live[i] # "update"

(* What they do to the answers.                                             *)
AnswerInv ==
  phase = "answered" =>
    /\ request.act = "CREATE" /\ answer.status = "SUCCESS" =>
         /\ defect # "createFails"
         /\ (defect = "createNoId" <=> answer.model.id = NoId)
         /\ defect # "createNoId" => answer.model.id \in used
         /\ defect = "returnsSecret" => answer.model.secret
         /\ defect = "deleteKeeps" => live[answer.model.id] # "none"
    /\ request.act = "CREATE" /\ defect = "createAgain" => answer.code # "AlreadyExists"
    /\ request.act = "READ" /\ answer.status = "SUCCESS" =>
         /\ defect # "readWaits"
         /\ defect = "createPartial" => request.model.id = foreign \/ answer.model.props # "create"
         /\ defect = "updatePartial" => answer.model.props # "update"
    /\ request.act = "READ" /\ answer.code = "NotFound" =>
         /\ defect # "readGhost"
         /\ defect = "deleteKeeps" /\ request.model.id \in Ids => live[request.model.id] = "none"
    /\ request.act = "UPDATE" /\ answer.code = "NotFound" /\ defect = "updateCreates" =>
         request.model.id \notin Ids
    /\ request.act = "DELETE" /\ answer.code = "NotFound" => defect # "deleteGhost"
    /\ request.act = "DELETE" /\ answer.status = "SUCCESS" /\ defect = "deleteModel" =>
         answer.model = [request.model EXCEPT !.secret = FALSE]
    /\ request.act = "LIST" /\ answer.status = "SUCCESS" =>
         /\ defect = "listGhost" => used \subseteq answer.ids
         /\ defect = "listMisses" => answer.ids = {} /\ ~answer.more
    /\ defect = "slow" => answer.slow = TRUE
    /\ answer.status = "SUCCESS" => answer.code = "none"
FirstInv ==
  phase # "idle" =>
    /\ defect = "slow" => ~request.again
    /\ defect = "listMisses" => request.seen = {}

(* Which defects can show.                                                  *)
ShownInv ==
  shown =>
    /\ defect # "none"
    /\ defect = "createAgain" => type.writable
    /\ defect \in {"updateCreates", "updatePartial", "updateNewId"} => "update" \in type.handlers
    /\ defect \in {"listGhost", "listMisses"} => "list" \in type.handlers

(* Two defects are caught wherever they show, by the call itself, or by the *)
(* test that finds the resource under another identifier.                   *)
PendingInv ==
  shown /\ failed = {} =>
    /\ defect = "progressNoId" => phase = "answered" /\ answer.status = "IN_PROGRESS" /\ answer.model.id = NoId
    /\ defect = "updateNewId" =>
         \/ /\ phase = "answered" /\ request.act = "UPDATE" /\ answer.status = "SUCCESS"
            /\ answer.model.id # request.model.id
         \/ at = 15 /\ phase = "idle" /\ second.id # model.id

(* The account's own resource.                                              *)
Apart == foreign # NoId /\ ~(type.writable /\ foreign = Example)
ForeignInv ==
  Apart =>
    /\ live[foreign] = "create" /\ foreign \in used
    /\ foreign \notin {model.id, second.id, stale, request.model.id, answer.model.id, op.id}

(* A CREATE that is refused in the first test.                              *)
TakenInv ==
  type.writable /\ foreign = Example /\ defect # "createAgain" /\ ~Past(1, 1) =>
    /\ live[Example] = "create"
    /\ phase # "idle" => ~request.again /\ request.model.id = Example
    /\ phase = "answered" => answer.status = "FAILED"

(* The test that catches a defect, and its call.                            *)
Caught(k, s) == SelectedAt(k) /\ Past(k, s) => failed # {}
CaughtInv ==
  /\ defect \in {"createFails", "createNoId", "returnsSecret", "slow"} => Caught(1, 1)
  /\ type.writable /\ foreign = Example /\ defect # "createAgain" => Caught(1, 1)
  /\ defect = "createAgain" => Caught(3, 1)
  /\ defect \in {"createPartial", "readWaits"} => Caught(4, 1)
  /\ defect = "listMisses" => Caught(5, 1)
  /\ defect = "deleteModel" => Caught(7, 2)
  /\ defect \in {"readGhost", "deleteKeeps"} => Caught(8, 1)
  /\ defect = "listGhost" => Caught(9, 1)
  /\ defect = "updateCreates" => Caught(10, 1)
  /\ defect = "deleteGhost" => Caught(11, 1)
  /\ defect = "updatePartial" => Caught(15, 1)

DetectionInv ==
  /\ TypeInv /\ ControlInv /\ TokenInv /\ RequestInv /\ ProgressInv
  /\ HoldingInv /\ SecondInv /\ WorldInv /\ AnswerInv /\ FirstInv /\ ShownInv /\ PendingInv
  /\ ForeignInv /\ TakenInv /\ CaughtInv
-----------------------------------------------------------------------------
(* Going through the suite.                                                 *)

LEMMA CallFields ==
  /\ \A act, arg, expect, into, check :
       LET c == Call(act, arg, expect, into, check) IN
       c.act = act /\ c.arg = arg /\ c.expect = expect /\ c.into = into /\ c.check = check
  /\ \A into, check :
       LET c == Create(into, check) IN
       /\ c.act = "CREATE" /\ c.arg = "request" /\ c.expect = "SUCCESS"
       /\ c.into = into /\ c.check = check
  /\ \A arg, expect :
       LET c == Delete(arg, expect) IN
       /\ c.act = "DELETE" /\ c.arg = arg /\ c.expect = expect
       /\ c.into = "none" /\ c.check = {}
BY DEF Call, Create, Delete

(* Updates and listings are made by tests with the marker, and the example  *)
(* is what a CREATE is given.                                               *)
LEMMA NowFits ==
  ASSUME TypeInv, step > 0
  PROVE  /\ Now.into = "model" =>
              at \in {1, 2, 7, 14} /\ step = 1 /\ Now.act = "CREATE" /\ Now.expect = "SUCCESS" /\ "echo" \in Now.check
         /\ Now.into = "second" =>
              \/ at = 12 /\ step = 1 /\ Now.act = "CREATE" /\ Now.expect = "SUCCESS"
              \/ at = 14 /\ step = 2 /\ Now.act = "UPDATE" /\ Now.expect = "SUCCESS" /\ "echo" \in Now.check
         /\ Now.act = "UPDATE" => Now.expect = "NotFound" \/ (at = 14 /\ step = 2 /\ Now.into = "second")
         /\ Now.act = "CREATE" <=> Now.arg = "request"
         /\ Now.act = "UPDATE" <=> Now.arg = "update"
         /\ Now.act = "UPDATE" => at \in {10, 14, 18} /\ "update" \in Block.marks
         /\ Now.act = "LIST" => at \in {5, 9, 16} /\ "list" \in Block.marks
<1> DEFINE Fits(k, s, c) ==
              /\ c.into = "model" =>
                   k \in {1, 2, 7, 14} /\ s = 1 /\ c.act = "CREATE" /\ c.expect = "SUCCESS" /\ "echo" \in c.check
              /\ c.into = "second" =>
                   \/ k = 12 /\ s = 1 /\ c.act = "CREATE" /\ c.expect = "SUCCESS"
                   \/ k = 14 /\ s = 2 /\ c.act = "UPDATE" /\ c.expect = "SUCCESS" /\ "echo" \in c.check
              /\ c.act = "UPDATE" => c.expect = "NotFound" \/ (k = 14 /\ s = 2 /\ c.into = "second")
              /\ c.act = "CREATE" <=> c.arg = "request"
              /\ c.act = "UPDATE" <=> c.arg = "update"
              /\ c.act = "UPDATE" => k \in {10, 14, 18}
              /\ c.act = "LIST" => k \in {5, 9, 16}
<1>1. /\ Fits(1, 1, Create("model", {"id", "echo"}))
      /\ Fits(1, 1, Delete("model", "SUCCESS"))
      /\ Fits(2, 1, Create("model", {"echo"}))
      /\ Fits(2, 1, Delete("model", "SUCCESS"))
      /\ Fits(3, 1, Call("CREATE", "request", "AlreadyExists", "none", {}))
      /\ Fits(4, 1, Call("READ", "model", "SUCCESS", "none", {"id", "secret", "echo"}))
      /\ Fits(5, 1, Call("LIST", "model", "SUCCESS", "none", {"listed"}))
      /\ Fits(5, 2, Call("READ", "model", "SUCCESS", "none", {"id", "secret", "echo"}))
      /\ Fits(6, 1, Delete("model", "SUCCESS"))
      /\ Fits(7, 1, Create("model", {"echo"}))
      /\ Fits(7, 2, Call("DELETE", "model", "SUCCESS", "none", {"noModel"}))
      /\ Fits(7, 1, Delete("model", "SUCCESS or NotFound"))
      /\ Fits(8, 1, Call("READ", "model", "NotFound", "none", {}))
      /\ Fits(9, 1, Call("LIST", "model", "SUCCESS", "none", {"unlisted"}))
      /\ Fits(10, 1, Call("UPDATE", "update", "NotFound", "none", {}))
      /\ Fits(11, 1, Delete("model", "NotFound"))
      /\ Fits(12, 1, Create("second", {"id"}))
      /\ Fits(12, 2, Delete("second", "SUCCESS"))
      /\ Fits(13, 1, Delete("model", "SUCCESS or NotFound"))
      /\ Fits(14, 1, Create("model", {"echo"}))
      /\ Fits(14, 2, Call("UPDATE", "update", "SUCCESS", "second", {"echo"}))
      /\ Fits(14, 1, Delete("model", "SUCCESS"))
      /\ Fits(15, 1, Call("READ", "second", "SUCCESS", "none", {"sameId", "id", "secret", "echo"}))
      /\ Fits(16, 1, Call("LIST", "second", "SUCCESS", "none", {"sameId", "listed"}))
      /\ Fits(17, 1, Delete("model", "SUCCESS"))
      /\ Fits(18, 1, Call("UPDATE", "update", "NotFound", "none", {}))
  BY DEF Call, Create, Delete
<1> HIDE DEF Fits
<1>2. Fits(at, step, Now)
  BY NowCases, <1>1, Zenon DEF Running, CleaningUp
<1>3. /\ \A k \in {10, 14, 18} : "update" \in Suite[k].marks
      /\ \A k \in {5, 9, 16} : "list" \in Suite[k].marks
  BY CreateTests, DeleteTests, UpdateTests DEF IsTest, IsSetup
<1>4. /\ Now.act = "UPDATE" => "update" \in Block.marks
      /\ Now.act = "LIST" => "list" \in Block.marks
  BY <1>2, <1>3 DEF Block, Fits
<1> QED BY <1>2, <1>4 DEF Fits

(* Only the first test cleans up after a body that passed.                  *)
LEMMA CleansUp ==
  ASSUME NEW k \in 1 .. 18, Suite[k].finally # <<>>, ~Suite[k].fixture
  PROVE  k = 1
<1>1. \A i \in {3, 4, 5, 6} : Suite[i].finally = <<>>
  BY CreateTests DEF IsTest
<1>2. \A i \in {8, 9, 10, 11, 12, 13} : Suite[i].finally = <<>>
  BY DeleteTests DEF IsTest
<1>3. \A i \in {15, 16, 17, 18} : Suite[i].finally = <<>>
  BY UpdateTests DEF IsTest
<1>4. \A i \in {2, 7, 14} : Suite[i].fixture = TRUE
  BY CreateTests, DeleteTests, UpdateTests DEF IsSetup
<1>5. k \in {1, 2, 3, 4, 5, 6, 7, 8, 9, 10, 11, 12, 13, 14, 15, 16, 17, 18}
  OBVIOUS
<1> QED BY <1>1, <1>2, <1>3, <1>4, <1>5

(* A step that leaves the place alone, or one of three that may not.        *)
LEMMA Steps ==
  ASSUME [Next]_vars
  PROVE  \/ UNCHANGED <<at, step, cleaning, ready, failed>>
         \/ Enter
         \/ CallHandler /\ After(FALSE) /\ UNCHANGED phase
         \/ Conclude
BY DEF Next, vars, suiteVars, clientVars, CallHandler, NextPage, Reinvoke, HandlerAnswers

LEMMA FailedStays ==
  ASSUME [Next]_vars
  PROVE  failed \subseteq failed'
BY Steps DEF Enter, Fail, Conclude, After

(* After a call that lets the suite go on without a failure.                *)
LEMMA AfterPassed ==
  ASSUME TypeInv, step > 0, NEW passed \in BOOLEAN, After(passed), failed' = {}
  PROVE  /\ passed /\ failed = {} /\ at \in 1 .. 18
         /\ \/ at = 1 /\ step = Len(Calls) /\ cleaning = FALSE /\ at' = 1 /\ cleaning' = TRUE /\ step' = 1
            \/ step # Len(Calls) /\ step' = step + 1 /\ UNCHANGED <<at, cleaning>>
            \/ step = Len(Calls) /\ Leave
<1>1. at \in 1 .. 18
  <2>1. at <= 18
    BY DEF TypeInv, BlockInv
  <2> QED BY <2>1, SuiteIs DEF TypeInv, TypeOK
<1>2. passed /\ failed = {}
  BY DEF After, Fail
<1>3. cleaning \in BOOLEAN
  BY DEF TypeInv, TypeOK
<1>4. Block.finally # <<>> /\ ~Block.fixture => at = 1
  BY <1>1, CleansUp DEF Block
<1>5. \/ /\ ~cleaning /\ Block.finally # <<>> /\ step = Len(Calls) /\ ~Block.fixture
         /\ cleaning' = TRUE /\ step' = 1 /\ UNCHANGED <<at, ready>>
      \/ step # Len(Calls) /\ step' = step + 1 /\ UNCHANGED <<at, cleaning, ready>>
      \/ step = Len(Calls) /\ Leave
  BY <1>2 DEF After
<1> QED BY <1>1, <1>2, <1>3, <1>4, <1>5, Zenon

LEMMA ControlStep ==
  ASSUME TypeInv, ControlInv, [Next]_vars
  PROVE  ControlInv'
<1>1. cleaning \in BOOLEAN /\ at \in Nat /\ step \in Nat
  BY SuiteIs DEF TypeInv, TypeOK
<1>2. type' = type
  BY DEF Next, vars, Enter, CallHandler, NextPage, Conclude, Reinvoke, HandlerAnswers
<1>3. CASE UNCHANGED <<at, step, cleaning, ready, failed>>
  BY <1>2, <1>3 DEF ControlInv, Selected, Block
<1>4. CASE Enter
  <2>1. cleaning = FALSE
    BY <1>4, <1>1 DEF Enter, TypeInv, BlockInv
  <2>2. CASE Leave
    BY <2>2 DEF Leave, ControlInv
  <2>3. CASE Selected /\ step' = 1 /\ UNCHANGED <<at, cleaning>>
    BY <1>2, <2>1, <2>3 DEF ControlInv, Selected, Block
  <2> QED BY <1>4, <2>2, <2>3 DEF Enter
<1>5. ASSUME NEW passed \in BOOLEAN, After(passed), step > 0 PROVE ControlInv'
  <2>1. Selected
    BY <1>5 DEF ControlInv
  <2>2. CASE failed' # {}
    <3>1. step' > 0 => at' = at
      BY <1>5 DEF After, Leave
    <3> QED BY <1>2, <2>1, <2>2, <3>1 DEF ControlInv, Selected, Block
  <2>3. CASE failed' = {}
    <3>1. \/ at = 1 /\ at' = 1 /\ cleaning' = TRUE
          \/ at' = at /\ cleaning' = cleaning
          \/ step' = 0 /\ cleaning' = FALSE
      BY <1>5, <2>3, AfterPassed DEF Leave
    <3>2. failed = {}
      BY <1>5, <2>3, AfterPassed
    <3> QED BY <1>2, <2>1, <3>1, <3>2 DEF ControlInv, Selected, Block
  <2> QED BY <2>2, <2>3
<1>6. Conclude => step > 0
  BY DEF Conclude, Returned, TypeInv, BlockInv
<1>7. Passed(Now) \in BOOLEAN
  BY DEF Passed, Accepted
<1> QED BY <1>3, <1>4, <1>5, <1>6, <1>7, Steps DEF CallHandler, Conclude

(* The call that catches a defect is passed over, by whatever step: then    *)
(* something failed, or the call passed.                                    *)
LEMMA PassedOver ==
  ASSUME TypeInv, ControlInv, [Next]_vars, NEW k \in 1 .. 18, NEW s \in 1 .. Len(Suite[k].body),
         SelectedAt(k), ~Past(k, s), Past(k, s)', failed' = {}
  PROVE  /\ Conclude /\ Passed(Now)
         /\ at = k /\ step = s /\ cleaning = FALSE
<1>1. cleaning \in BOOLEAN /\ at \in Nat /\ step \in Nat /\ s \in Nat /\ s > 0
  BY SuiteIs DEF TypeInv, TypeOK
<1>2. at < k \/ (at = k /\ step <= s /\ cleaning = FALSE)
  BY <1>1 DEF Past
<1>3. ~UNCHANGED <<at, step, cleaning, ready, failed>>
  BY DEF Past
<1>4. ~Enter
  <2> SUFFICES ASSUME Enter PROVE FALSE
    OBVIOUS
  <2>1. step = 0 /\ cleaning = FALSE
    BY <1>1 DEF Enter, TypeInv, BlockInv
  <2>2. CASE Leave /\ ~Selected
    <3>1. at # k
      BY <2>2 DEF Selected, SelectedAt, Block
    <3> QED BY <1>1, <1>2, <2>2, <3>1 DEF Leave, Past
  <2>3. CASE step' = 1 /\ UNCHANGED <<at, cleaning>>
    BY <1>1, <1>2, <2>1, <2>3 DEF Past
  <2> QED BY <2>2, <2>3 DEF Enter, Fail
<1>5. ASSUME NEW passed \in BOOLEAN, After(passed), step > 0
      PROVE  passed /\ at = k /\ step = s /\ cleaning = FALSE
  <2>1. passed
    BY <1>5, AfterPassed, Zenon
  <2>2. CASE at = 1 /\ step = Len(Calls) /\ cleaning = FALSE /\ at' = 1 /\ cleaning' = TRUE /\ step' = 1
    <3>1. at = k
      BY <1>1, <1>2, <2>2 DEF Past
    <3>2. Len(Calls) = Len(Suite[k].body)
      BY <2>2, <3>1 DEF Calls, Block
    <3>3. step = s
      BY <1>1, <1>2, <2>2, <3>1, <3>2
    <3> QED BY <2>1, <2>2, <3>1, <3>3
  <2>3. CASE step # Len(Calls) /\ step' = step + 1 /\ UNCHANGED <<at, cleaning>>
    <3>1. at = k /\ cleaning = FALSE /\ step = s
      BY <1>1, <1>2, <2>3 DEF Past
    <3> QED BY <2>1, <3>1
  <2>4. CASE step = Len(Calls) /\ Leave
    <3>1. at = k /\ cleaning = FALSE
      BY <1>1, <1>2, <2>4 DEF Past, Leave
    <3>2. Len(Calls) = Len(Suite[k].body)
      BY <3>1 DEF Calls, Block
    <3>3. step = s
      BY <1>1, <1>2, <2>4, <3>1, <3>2
    <3> QED BY <2>1, <3>1, <3>3
  <2> QED BY <1>5, <2>2, <2>3, <2>4, AfterPassed
<1>6. Conclude
  BY <1>3, <1>4, <1>5, Steps DEF CallHandler
<1>7. step > 0
  BY <1>6 DEF Conclude, Returned, TypeInv, BlockInv
<1>8. Passed(Now) \in BOOLEAN /\ After(Passed(Now))
  BY <1>6 DEF Passed, Accepted, Conclude
<1> QED BY <1>5, <1>6, <1>7, <1>8, Zenon

-----------------------------------------------------------------------------
(* What the handlers do.                                                    *)

(* An operation that goes on, and one that ends.                            *)
LEMMA PerformParts ==
  ASSUME NEW i, NEW n
  PROVE  \E props, answered :
           /\ Perform(i, n).live = [live EXCEPT ![i] = props] /\ Perform(i, n).answer = answered
           /\ props = CASE request.act = "DELETE" -> IF n = 0 THEN "none" ELSE live[i]
                        [] request.act = "CREATE" -> IF n = 0 THEN request.model.props ELSE "partial"
                        [] OTHER -> IF n = 0 THEN request.model.props ELSE live[i]
           /\ answered = CASE n > 0 -> Progress([request.model EXCEPT !.id = i], n)
                           [] n = 0 /\ request.act = "DELETE" -> Success(NoModel)
                           [] OTHER -> Success([id |-> i, props |-> props, secret |-> FALSE])
<1> DEFINE props == CASE request.act = "DELETE" -> IF n = 0 THEN "none" ELSE live[i]
                      [] request.act = "CREATE" -> IF n = 0 THEN request.model.props ELSE "partial"
                      [] OTHER -> IF n = 0 THEN request.model.props ELSE live[i]
           answered == CASE n > 0 -> Progress([request.model EXCEPT !.id = i], n)
                         [] n = 0 /\ request.act = "DELETE" -> Success(NoModel)
                         [] OTHER -> Success([id |-> i, props |-> props, secret |-> FALSE])
<1>1. Perform(i, n) = [live |-> [live EXCEPT ![i] = props], used |-> used \cup {i},
                       op |-> [token |-> request.token, id |-> i], answer |-> answered]
  BY DEF Perform
<1>2. Perform(i, n).live = [live EXCEPT ![i] = props] /\ Perform(i, n).answer = answered
  <2> HIDE DEF props, answered
  <2> QED BY <1>1
<1> QED BY <1>2, Zenon

LEMMA PerformGoesOn ==
  ASSUME NEW i, NEW n \in Nat, n > 0, request.act \in {"CREATE", "UPDATE", "DELETE"}
  PROVE  /\ Perform(i, n).answer = Progress([request.model EXCEPT !.id = i], n)
         /\ Perform(i, n).live = [live EXCEPT ![i] = IF request.act = "CREATE" THEN "partial" ELSE live[i]]
<1> DEFINE p == Progress([request.model EXCEPT !.id = i], n)
           going == IF request.act = "CREATE" THEN "partial" ELSE live[i]
           x(props) == Success([id |-> i, props |-> props, secret |-> FALSE])
<1>1. PICK props, answered :
        /\ Perform(i, n).live = [live EXCEPT ![i] = props] /\ Perform(i, n).answer = answered
        /\ props = CASE request.act = "DELETE" -> IF n = 0 THEN "none" ELSE live[i]
                     [] request.act = "CREATE" -> IF n = 0 THEN request.model.props ELSE "partial"
                     [] OTHER -> IF n = 0 THEN request.model.props ELSE live[i]
        /\ answered = CASE n > 0 -> p
                        [] n = 0 /\ request.act = "DELETE" -> Success(NoModel)
                        [] OTHER -> x(props)
  BY PerformParts, Zenon
<1>2. props = going
  BY <1>1
<1>3. answered = p
  <2> HIDE DEF p, x
  <2> QED BY <1>1
<1> QED BY <1>1, <1>2, <1>3, Zenon

LEMMA PerformEnds ==
  ASSUME NEW i
  PROVE  /\ request.act = "DELETE" =>
              /\ Perform(i, 0).answer = Success(NoModel)
              /\ Perform(i, 0).live = [live EXCEPT ![i] = "none"]
         /\ request.act \in {"CREATE", "UPDATE"} =>
              /\ Perform(i, 0).answer = Success([id |-> i, props |-> request.model.props, secret |-> FALSE])
              /\ Perform(i, 0).live = [live EXCEPT ![i] = request.model.props]
<1> DEFINE p == Progress([request.model EXCEPT !.id = i], 0)
           x(props) == Success([id |-> i, props |-> props, secret |-> FALSE])
           y == Success(NoModel)
<1>1. PICK props, answered :
        /\ Perform(i, 0).live = [live EXCEPT ![i] = props] /\ Perform(i, 0).answer = answered
        /\ props = CASE request.act = "DELETE" -> IF 0 = 0 THEN "none" ELSE live[i]
                     [] request.act = "CREATE" -> IF 0 = 0 THEN request.model.props ELSE "partial"
                     [] OTHER -> IF 0 = 0 THEN request.model.props ELSE live[i]
        /\ answered = CASE 0 > 0 -> p
                        [] 0 = 0 /\ request.act = "DELETE" -> y
                        [] OTHER -> x(props)
  BY PerformParts, Zenon
<1>2. CASE request.act = "DELETE"
  <2>1. props = "none"
    BY <1>1, <1>2
  <2>2. answered = y
    <3> HIDE DEF p, x, y
    <3> QED BY <1>1, <1>2
  <2> QED BY <1>1, <1>2, <2>1, <2>2, Zenon
<1>3. CASE request.act \in {"CREATE", "UPDATE"}
  <2>1. props = request.model.props
    BY <1>1, <1>3
  <2>2. answered = x(props)
    <3> HIDE DEF p, x, y
    <3> QED BY <1>1, <1>3
  <2>3. request.act # "DELETE"
    BY <1>3
  <2> QED BY <1>1, <1>3, <2>1, <2>2, <2>3, Zenon
<1>4. request.act = "DELETE" \/ request.act \in {"CREATE", "UPDATE"} \/ request.act \notin {"CREATE", "UPDATE", "DELETE"}
  OBVIOUS
<1> QED BY <1>2, <1>3, <1>4, Zenon

LEMMA PerformTakes ==
  ASSUME NEW i, NEW n
  PROVE  /\ Perform(i, n).used = used \cup {i}
         /\ Perform(i, n).op.token = request.token /\ Perform(i, n).op.id = i
BY DEF Perform

(* The resource that a CREATE makes.                                        *)
Creates(i) ==
  \/ request.left > 0 /\ op.token = request.token /\ op.id = i /\ i = request.model.id
  \/ request.left = 0 /\ type.writable = TRUE /\ i = request.model.id /\ live[i] = "none"
  \/ request.left = 0 /\ type.writable = FALSE /\ HasFree(used) /\ i = Free(used)

IsRefusal(o) ==
  \E code \in {"InternalFailure", "ServiceLimitExceeded", "AlreadyExists", "NotFound"} :
    /\ o = Unchanged(Failed(code))
    /\ code = "AlreadyExists" =>
         /\ request.act = "CREATE" /\ type.writable = TRUE /\ request.left = 0
         /\ request.model.id \in Ids /\ live[request.model.id] # "none"
    /\ code = "NotFound" =>
         /\ request.act \in {"READ", "UPDATE", "DELETE"} /\ request.left = 0
         /\ request.model.id \in Ids => live[request.model.id] = "none"
    /\ code = "ServiceLimitExceeded" =>
         request.act = "CREATE" /\ request.left = 0 /\ type.writable = FALSE /\ ~HasFree(used)
    /\ code = "InternalFailure" =>
         \/ request.left > 0 /\ ~(op = [token |-> request.token, id |-> request.model.id] /\ op.id # NoId)
         \/ request.act = "CREATE" /\ type.writable = TRUE /\ request.model.id = NoId
Unlisted == {i \in Ids : live[i] # "none"} \ request.seen
IsListing(o) ==
  /\ request.act = "LIST" /\ request.left = 0
  /\ \E ids \in SUBSET Ids, more \in BOOLEAN :
       /\ o = Unchanged(Listing(ids, more)) /\ ids \subseteq Unlisted
       /\ IF more = TRUE THEN ids # {} ELSE Unlisted \subseteq ids
IsReading(o) ==
  /\ request.act = "READ" /\ request.left = 0
  /\ request.model.id \in Ids /\ live[request.model.id] # "none"
  /\ o = Unchanged(Success([id |-> request.model.id, props |-> live[request.model.id], secret |-> FALSE]))
IsOperation(o) ==
  /\ request.act \in {"CREATE", "UPDATE", "DELETE"}
  /\ \E i \in Ids, n \in 0 .. MaxPolls :
       /\ o = Perform(i, n)
       /\ request.left > 0 => n < request.left /\ op.token = request.token
       /\ request.act = "CREATE" => Creates(i)
       /\ request.act # "CREATE" => i = request.model.id /\ (request.left = 0 => live[i] # "none")

(* A handler that keeps the contract refuses, lists, reads, or takes a step *)
(* of an operation.                                                         *)
LEMMA ConformingCases ==
  ASSUME TypeInv, TokenInv, RequestInv, phase = "sent",
         NEW left \in 0 .. MaxPolls, NEW page \in SUBSET Ids
  PROVE  LET o == Conforming(left, page) IN
         IsRefusal(o) \/ IsListing(o) \/ IsReading(o) \/ IsOperation(o)
<1> DEFINE o == Conforming(left, page)
<1> SUFFICES IsRefusal(o) \/ IsListing(o) \/ IsReading(o) \/ IsOperation(o)
  OBVIOUS
<1>1. /\ request \in Request /\ live \in [Ids -> Props] /\ used \subseteq Ids /\ MaxPolls \in Nat
      /\ op \in [token : Nat, id : Ids \cup {NoId}] /\ type \in Type
  BY PollsAssumption DEF TypeInv, TypeOK, ClientTypeOK
<1>2. /\ request.act \in Actions /\ request.left \in Nat /\ request.left <= MaxPolls
      /\ request.model \in Model /\ type.writable \in BOOLEAN
      /\ request.model.id \in Ids \cup {NoId} /\ NoId \notin Ids
  BY <1>1, IdsAssumption DEF Request, Model, Type
<1>3. request.left > 0 => request.act \in {"CREATE", "UPDATE", "DELETE"}
  BY <1>2 DEF RequestInv, Actions
<1>4. request.left = 0 => op.token # request.token
  BY <1>1, <1>2 DEF RequestInv, TokenInv, Request
<1>5. CASE request.left > 0
  <2>1. o = Continue
    BY <1>5 DEF Conforming
  <2>2. CASE op = [token |-> request.token, id |-> request.model.id] /\ op.id # NoId
    <3>1. o = Perform(request.model.id, request.left - 1) /\ op.token = request.token
          /\ op.id = request.model.id /\ request.model.id \in Ids
      BY <1>2, <2>1, <2>2 DEF Continue
    <3>2. request.left - 1 \in 0 .. MaxPolls /\ request.left - 1 < request.left
      BY <1>1, <1>2, <1>5
    <3> HIDE DEF o
    <3> QED BY <1>2, <1>3, <1>5, <3>1, <3>2 DEF IsOperation, Creates
  <2>3. CASE ~(op = [token |-> request.token, id |-> request.model.id] /\ op.id # NoId)
    <3>1. o = Unchanged(Failed("InternalFailure"))
      BY <2>1, <2>3 DEF Continue
    <3> HIDE DEF o
    <3> QED BY <1>5, <2>3, <3>1 DEF IsRefusal
  <2> QED BY <2>2, <2>3
<1>6. CASE request.left = 0 /\ request.act = "CREATE"
  <2>1. o = BeginCreate(left)
    BY <1>6 DEF Conforming
  <2>2. CASE type.writable = TRUE /\ request.model.id = NoId
    <3>1. o = Unchanged(Failed("InternalFailure"))
      BY <1>4, <1>6, <2>1, <2>2 DEF BeginCreate
    <3> HIDE DEF o
    <3> QED BY <1>6, <2>2, <3>1 DEF IsRefusal
  <2>3. CASE type.writable = TRUE /\ request.model.id # NoId /\ live[request.model.id] # "none"
    <3>1. o = Unchanged(Failed("AlreadyExists"))
      BY <1>2, <1>4, <1>6, <2>1, <2>3 DEF BeginCreate, Exists
    <3> HIDE DEF o
    <3> QED BY <1>2, <1>6, <2>3, <3>1 DEF IsRefusal
  <2>4. CASE type.writable = TRUE /\ request.model.id # NoId /\ live[request.model.id] = "none"
    <3>1. o = Perform(request.model.id, left)
      BY <1>2, <1>4, <1>6, <2>1, <2>4 DEF BeginCreate, Exists
    <3> HIDE DEF o
    <3> QED BY <1>2, <1>6, <2>4, <3>1 DEF IsOperation, Creates
  <2>5. CASE type.writable = FALSE /\ HasFree(used)
    <3>1. o = Perform(Free(used), left) /\ Free(used) \in Ids
      BY <1>1, <1>4, <1>6, <2>1, <2>5, FreeIs DEF BeginCreate
    <3> HIDE DEF o
    <3> QED BY <1>2, <1>6, <2>5, <3>1 DEF IsOperation, Creates
  <2>6. CASE type.writable = FALSE /\ ~HasFree(used)
    <3>1. o = Unchanged(Failed("ServiceLimitExceeded"))
      BY <1>4, <1>6, <2>1, <2>6 DEF BeginCreate
    <3> HIDE DEF o
    <3> QED BY <1>6, <2>6, <3>1 DEF IsRefusal
  <2> QED BY <1>2, <2>2, <2>3, <2>4, <2>5, <2>6
<1>7. CASE request.left = 0 /\ request.act = "LIST"
  <2> DEFINE ids == IF page \cap Unlisted = {} THEN Unlisted ELSE page \cap Unlisted
             more == Unlisted # ids
  <2>1. o = Unchanged(Listing(ids, more))
    BY <1>7 DEF Conforming, List, Unlisted
  <2>2. ids \in SUBSET Ids /\ ids \subseteq Unlisted
    BY DEF Unlisted
  <2>3. more \in BOOLEAN /\ IF more = TRUE THEN ids # {} ELSE Unlisted \subseteq ids
    OBVIOUS
  <2> HIDE DEF o, ids, more
  <2> QED BY <1>7, <2>1, <2>2, <2>3 DEF IsListing
<1>8. CASE request.left = 0 /\ request.act = "READ"
  <2>1. CASE Exists(request.model)
    <3>1. o = Unchanged(Success([id |-> request.model.id, props |-> live[request.model.id], secret |-> FALSE]))
      BY <1>8, <2>1 DEF Conforming
    <3> HIDE DEF o
    <3> QED BY <1>8, <2>1, <3>1 DEF IsReading, Exists
  <2>2. CASE ~Exists(request.model)
    <3>1. o = Unchanged(Failed("NotFound"))
      BY <1>8, <2>2 DEF Conforming
    <3> HIDE DEF o
    <3> QED BY <1>8, <2>2, <3>1 DEF IsRefusal, Exists
  <2> QED BY <2>1, <2>2
<1>9. CASE request.left = 0 /\ request.act \in {"UPDATE", "DELETE"}
  <2>1. CASE Exists(request.model)
    <3>1. o = Perform(request.model.id, left)
      BY <1>9, <2>1 DEF Conforming
    <3> HIDE DEF o
    <3> QED BY <1>9, <2>1, <3>1 DEF IsOperation, Exists
  <2>2. CASE ~Exists(request.model)
    <3>1. o = Unchanged(Failed("NotFound"))
      BY <1>9, <2>2 DEF Conforming
    <3> HIDE DEF o
    <3> QED BY <1>9, <2>2, <3>1 DEF IsRefusal, Exists
  <2> QED BY <2>1, <2>2
<1> QED BY <1>2, <1>5, <1>6, <1>7, <1>8, <1>9 DEF Actions

(* The outcome o with the answer a, or with the resources l.                *)
Answering(o, a) == [o EXCEPT !.answer = a]
Leaving(o, l) == [o EXCEPT !.live = l]

(* What each defect makes of an outcome.                                    *)
LEMMA DeviationIs ==
  ASSUME TypeInv, NEW o, OutcomeOK(o)
  PROVE  LET d == Deviation(o)
             a == o.answer
             m == request.model
         IN
         /\ defect = "none" => d = o
         /\ defect = "createAgain" =>
              d = IF Refused(o, "CREATE", "AlreadyExists") THEN Moved(o, m.id, m.props) ELSE o
         /\ defect = "createFails" =>
              d = IF Ok(o, "CREATE") THEN Answering(o, Failed("InternalFailure")) ELSE o
         /\ defect = "createNoId" =>
              d = IF Ok(o, "CREATE") THEN Answering(o, [a EXCEPT !.model = [a.model EXCEPT !.id = NoId]]) ELSE o
         /\ defect = "createPartial" =>
              d = IF Ok(o, "CREATE") THEN Leaving(o, [o.live EXCEPT ![a.model.id] = "partial"]) ELSE o
         /\ defect = "progressNoId" =>
              d = IF a.status = "IN_PROGRESS"
                  THEN Answering(o, [a EXCEPT !.model = [a.model EXCEPT !.id = NoId]]) ELSE o
         /\ defect = "returnsSecret" =>
              d = IF a.status = "SUCCESS" /\ a.model # NoModel
                  THEN Answering(o, [a EXCEPT !.model = [a.model EXCEPT !.secret = TRUE]]) ELSE o
         /\ defect = "readGhost" =>
              d = IF Refused(o, "READ", "NotFound")
                  THEN Answering(o, Success([m EXCEPT !.secret = FALSE])) ELSE o
         /\ defect = "readWaits" => d = IF Ok(o, "READ") THEN Answering(o, Progress(m, 0)) ELSE o
         /\ defect = "updateCreates" =>
              d = IF Refused(o, "UPDATE", "NotFound") /\ (m.id \in Ids \/ HasFree(o.used))
                  THEN Moved(o, IF m.id \in Ids THEN m.id ELSE Free(o.used), m.props) ELSE o
         /\ defect = "updatePartial" => d = IF Ok(o, "UPDATE") THEN Leaving(o, live) ELSE o
         /\ defect = "updateNewId" =>
              d = IF Ok(o, "UPDATE") /\ HasFree(o.used)
                  THEN Moved(Leaving(o, [o.live EXCEPT ![a.model.id] = "none"]), Free(o.used), m.props) ELSE o
         /\ defect = "deleteKeeps" => d = IF Ok(o, "DELETE") THEN Leaving(o, live) ELSE o
         /\ defect = "deleteModel" =>
              d = IF Ok(o, "DELETE")
                  THEN Answering(o, [a EXCEPT !.model = [m EXCEPT !.secret = FALSE]]) ELSE o
         /\ defect = "deleteGhost" =>
              d = IF Refused(o, "DELETE", "NotFound") THEN Answering(o, Success(NoModel)) ELSE o
         /\ defect = "listGhost" =>
              d = IF Ok(o, "LIST") THEN Answering(o, [a EXCEPT !.ids = a.ids \cup used]) ELSE o
         /\ defect = "listMisses" => d = IF Ok(o, "LIST") THEN Answering(o, Listing({}, FALSE)) ELSE o
         /\ defect = "slow" => d = IF request.left = 0 THEN Answering(o, [a EXCEPT !.slow = TRUE]) ELSE o
         /\ defect = "slowLater" => d = IF request.left > 0 THEN Answering(o, [a EXCEPT !.slow = TRUE]) ELSE o
<1> DEFINE d == Deviation(o)
           a == o.answer
           m == request.model
<1>1. /\ a \in Answer /\ o.live \in [Ids -> Props] /\ a.model \in Model /\ m \in Model /\ o \in Outcome
      /\ m.id \in Ids \cup {NoId}
  BY DEF OutcomeOK, Outcome, Answer, TypeInv, TypeOK, ClientTypeOK, Request, Model
<1>2. /\ defect = "none" => d = o
      /\ defect = "createAgain" =>
           d = IF Refused(o, "CREATE", "AlreadyExists") THEN Moved(o, m.id, m.props) ELSE o
      /\ defect = "createFails" =>
           d = IF Ok(o, "CREATE") THEN Answering(o, Failed("InternalFailure")) ELSE o
  BY DEF Deviation, Answering
<1>3. /\ defect = "createNoId" =>
           d = IF Ok(o, "CREATE") THEN Answering(o, [a EXCEPT !.model = [a.model EXCEPT !.id = NoId]]) ELSE o
      /\ defect = "createPartial" =>
           d = IF Ok(o, "CREATE") THEN Leaving(o, [o.live EXCEPT ![a.model.id] = "partial"]) ELSE o
      /\ defect = "progressNoId" =>
           d = IF a.status = "IN_PROGRESS"
               THEN Answering(o, [a EXCEPT !.model = [a.model EXCEPT !.id = NoId]]) ELSE o
  BY <1>1 DEF Deviation, Answering, Leaving, Outcome, Answer
<1>4. /\ defect = "returnsSecret" =>
           d = IF a.status = "SUCCESS" /\ a.model # NoModel
               THEN Answering(o, [a EXCEPT !.model = [a.model EXCEPT !.secret = TRUE]]) ELSE o
      /\ defect = "readGhost" =>
           d = IF Refused(o, "READ", "NotFound")
               THEN Answering(o, Success([m EXCEPT !.secret = FALSE])) ELSE o
      /\ defect = "readWaits" => d = IF Ok(o, "READ") THEN Answering(o, Progress(m, 0)) ELSE o
  BY <1>1 DEF Deviation, Answering, Outcome, Answer
<1>5. /\ defect = "updateCreates" =>
           d = IF Refused(o, "UPDATE", "NotFound") /\ (m.id \in Ids \/ HasFree(o.used))
               THEN Moved(o, IF m.id \in Ids THEN m.id ELSE Free(o.used), m.props) ELSE o
      /\ defect = "updatePartial" => d = IF Ok(o, "UPDATE") THEN Leaving(o, live) ELSE o
  BY <1>1 DEF Deviation, Leaving
<1>6. /\ defect = "updateNewId" =>
           d = IF Ok(o, "UPDATE") /\ HasFree(o.used)
               THEN Moved(Leaving(o, [o.live EXCEPT ![a.model.id] = "none"]), Free(o.used), m.props) ELSE o
      /\ defect = "deleteKeeps" => d = IF Ok(o, "DELETE") THEN Leaving(o, live) ELSE o
      /\ defect = "deleteModel" =>
           d = IF Ok(o, "DELETE")
               THEN Answering(o, [a EXCEPT !.model = [m EXCEPT !.secret = FALSE]]) ELSE o
      /\ defect = "deleteGhost" =>
           d = IF Refused(o, "DELETE", "NotFound") THEN Answering(o, Success(NoModel)) ELSE o
  BY <1>1 DEF Deviation, Leaving, Answering, Outcome, Answer
<1>7. /\ defect = "listGhost" =>
           d = IF Ok(o, "LIST") THEN Answering(o, [a EXCEPT !.ids = a.ids \cup used]) ELSE o
      /\ defect = "listMisses" => d = IF Ok(o, "LIST") THEN Answering(o, Listing({}, FALSE)) ELSE o
      /\ defect = "slow" => d = IF request.left = 0 THEN Answering(o, [a EXCEPT !.slow = TRUE]) ELSE o
      /\ defect = "slowLater" => d = IF request.left > 0 THEN Answering(o, [a EXCEPT !.slow = TRUE]) ELSE o
  BY <1>1 DEF Deviation, Answering, Outcome, Answer
<1> HIDE DEF d
<1> QED BY <1>2, <1>3, <1>4, <1>5, <1>6, <1>7 DEF d

(* The fields of what they make of it.                                      *)
LEMMA DeviationFields ==
  ASSUME NEW o \in Outcome
  PROVE  /\ \A a : /\ Answering(o, a).live = o.live /\ Answering(o, a).used = o.used
                   /\ Answering(o, a).op = o.op /\ Answering(o, a).answer = a
         /\ \A l : /\ Leaving(o, l).live = l /\ Leaving(o, l).used = o.used
                   /\ Leaving(o, l).op = o.op /\ Leaving(o, l).answer = o.answer
         /\ \A x, i, p : /\ Moved(x, i, p).live = [x.live EXCEPT ![i] = p]
                         /\ Moved(x, i, p).used = x.used \cup {i} /\ Moved(x, i, p).op = x.op
                         /\ Moved(x, i, p).answer = Success([id |-> i, props |-> p, secret |-> FALSE])
BY DEF Answering, Leaving, Moved, Outcome

(* What a conforming answer says about the resources.                       *)
IsConforming(o) ==
  OutcomeOK(o) /\ (IsRefusal(o) \/ IsListing(o) \/ IsReading(o) \/ IsOperation(o))

Sound(o) ==
  LET a == o.answer IN
  /\ a.slow = FALSE /\ used \subseteq o.used
  /\ \/ o.op = op
     \/ /\ o.op.token = request.token
        /\ o.op.id = request.model.id \/ (request.act = "CREATE" /\ a.status # "FAILED" /\ o.op.id = a.model.id)
  /\ a.status \in {"SUCCESS", "IN_PROGRESS"} => a.code = "none"
  /\ a.status = "FAILED" => a.model = NoModel /\ o.live = live
  /\ a.status = "IN_PROGRESS" =>
       /\ request.act \in {"CREATE", "UPDATE", "DELETE"}
       /\ a.left > 0 /\ a.model.id \in o.used /\ a.model.props = request.model.props
       /\ request.act = "CREATE" => o.live = [live EXCEPT ![a.model.id] = "partial"]
       /\ request.act # "CREATE" => a.model = request.model /\ o.live = live
  /\ request.act \in {"CREATE", "UPDATE"} /\ a.status = "SUCCESS" =>
       /\ a.model.id \in o.used /\ a.model.props = request.model.props /\ a.model.secret = FALSE
       /\ o.live = [live EXCEPT ![a.model.id] = request.model.props]
       /\ request.act = "UPDATE" => a.model.id = request.model.id
  /\ request.act = "DELETE" /\ a.status = "SUCCESS" =>
       a.model = NoModel /\ o.live = [live EXCEPT ![request.model.id] = "none"]
  /\ request.act = "READ" /\ a.status = "SUCCESS" =>
       /\ request.model.id \in Ids /\ live[request.model.id] # "none"
       /\ a.model = [id |-> request.model.id, props |-> live[request.model.id], secret |-> FALSE]
  /\ request.act \in {"READ", "LIST"} => o.live = live /\ o.used = used
  /\ request.act = "LIST" => a.model = NoModel
  /\ a.code = "AlreadyExists" =>
       /\ request.act = "CREATE" /\ type.writable = TRUE
       /\ request.model.id \in Ids /\ live[request.model.id] # "none"
  /\ a.code = "NotFound" =>
       /\ request.act \in {"READ", "UPDATE", "DELETE"}
       /\ request.model.id \in Ids => live[request.model.id] = "none"

LEMMA AnswerFields ==
  /\ \A m : LET a == Success(m) IN a.status = "SUCCESS" /\ a.code = "none" /\ a.model = m /\ a.slow = FALSE
  /\ \A code : LET a == Failed(code) IN
       a.status = "FAILED" /\ a.code = code /\ a.model = NoModel /\ a.slow = FALSE
  /\ \A m, n : LET a == Progress(m, n) IN
       a.status = "IN_PROGRESS" /\ a.code = "none" /\ a.model = m /\ a.left = n /\ a.slow = FALSE
  /\ \A ids, more : LET a == Listing(ids, more) IN
       /\ a.status = "SUCCESS" /\ a.code = "none" /\ a.model = NoModel /\ a.slow = FALSE
       /\ a.ids = ids /\ a.more = more
  /\ \A a : LET u == Unchanged(a) IN u.live = live /\ u.used = used /\ u.op = op /\ u.answer = a
BY DEF Success, Failed, Progress, Listing, Unchanged

LEMMA ConformingIsSound ==
  ASSUME TypeInv, RequestInv, NEW o, IsConforming(o)
  PROVE  Sound(o)
<1>1. /\ request.model \in Model /\ live \in [Ids -> Props] /\ used \subseteq Ids /\ MaxPolls \in Nat
      /\ NoId \notin Ids
  BY PollsAssumption, IdsAssumption DEF TypeInv, TypeOK, ClientTypeOK, Request
<1>2. CASE IsRefusal(o)
  <2>1. PICK code \in {"InternalFailure", "ServiceLimitExceeded", "AlreadyExists", "NotFound"} :
          /\ o = Unchanged(Failed(code))
          /\ code = "AlreadyExists" =>
               /\ request.act = "CREATE" /\ type.writable = TRUE
               /\ request.model.id \in Ids /\ live[request.model.id] # "none"
          /\ code = "NotFound" =>
               /\ request.act \in {"READ", "UPDATE", "DELETE"}
               /\ request.model.id \in Ids => live[request.model.id] = "none"
    BY <1>2 DEF IsRefusal
  <2>2. /\ o.answer.status = "FAILED" /\ o.answer.code = code /\ o.answer.model = NoModel
        /\ o.answer.slow = FALSE /\ o.live = live /\ o.used = used /\ o.op = op
    BY <2>1, AnswerFields
  <2> QED BY <2>1, <2>2 DEF Sound
<1>3. CASE IsListing(o)
  <2>1. /\ o.answer.status = "SUCCESS" /\ o.answer.code = "none" /\ o.answer.model = NoModel
        /\ o.answer.slow = FALSE /\ o.live = live /\ o.used = used /\ o.op = op /\ request.act = "LIST"
    BY <1>3, AnswerFields DEF IsListing
  <2> QED BY <2>1 DEF Sound
<1>4. CASE IsReading(o)
  <2>1. /\ o.answer.status = "SUCCESS" /\ o.answer.code = "none" /\ request.act = "READ"
        /\ o.answer.model = [id |-> request.model.id, props |-> live[request.model.id], secret |-> FALSE]
        /\ o.answer.slow = FALSE /\ o.live = live /\ o.used = used /\ o.op = op
    BY <1>4, AnswerFields DEF IsReading
  <2> QED BY <1>4, <2>1 DEF Sound, IsReading
<1>5. CASE IsOperation(o)
  <2>1. PICK i \in Ids, n \in 0 .. MaxPolls :
          /\ o = Perform(i, n)
          /\ request.act # "CREATE" => i = request.model.id
    BY <1>5 DEF IsOperation
  <2>2. request.act \in {"CREATE", "UPDATE", "DELETE"} /\ n \in Nat
    BY <1>1, <1>5 DEF IsOperation
  <2>3. o.used = used \cup {i} /\ o.op.token = request.token /\ o.op.id = i
    BY <2>1, PerformTakes
  <2>4. CASE n > 0
    <3> DEFINE m == [request.model EXCEPT !.id = i]
    <3>1. o.answer = Progress(m, n)
      BY <2>1, <2>2, <2>4, PerformGoesOn
    <3>2. /\ m.id = i /\ m.props = request.model.props
          /\ request.act # "CREATE" => m = request.model
      BY <1>1, <2>1 DEF Model
    <3>3. /\ request.act = "CREATE" => o.live = [live EXCEPT ![i] = "partial"]
          /\ request.act # "CREATE" => o.live = live
      <4>1. [live EXCEPT ![i] = live[i]] = live
        BY <1>1
      <4> QED BY <2>1, <2>2, <2>4, <4>1, PerformGoesOn
    <3> HIDE DEF m
    <3>4. /\ o.answer.status = "IN_PROGRESS" /\ o.answer.code = "none" /\ o.answer.model = m
          /\ o.answer.left = n /\ o.answer.slow = FALSE
      BY <3>1, AnswerFields
    <3> QED BY <2>2, <2>3, <2>4, <3>2, <3>3, <3>4 DEF Sound
  <2>5. CASE n = 0 /\ request.act = "DELETE"
    <3>1. o.answer = Success(NoModel) /\ o.live = [live EXCEPT ![i] = "none"]
      <4>1. o = Perform(i, 0) /\ request.act \in {"CREATE", "UPDATE", "DELETE"}
        BY <2>1, <2>5
      <4>2. Perform(i, 0).answer = Success(NoModel) /\ Perform(i, 0).live = [live EXCEPT ![i] = "none"]
        BY <2>5, PerformEnds, Zenon
      <4> QED BY <4>1, <4>2
    <3>2. /\ o.answer.status = "SUCCESS" /\ o.answer.code = "none" /\ o.answer.model = NoModel
          /\ o.answer.slow = FALSE
      BY <3>1, AnswerFields
    <3> QED BY <2>1, <2>3, <2>5, <3>1, <3>2 DEF Sound
  <2>6. CASE n = 0 /\ request.act \in {"CREATE", "UPDATE"}
    <3> DEFINE m == [id |-> i, props |-> request.model.props, secret |-> FALSE]
    <3>1. o = Perform(i, 0) /\ request.act \in {"CREATE", "UPDATE"}
      BY <2>1, <2>6
    <3>3. o.answer = Success(m) /\ o.live = [live EXCEPT ![i] = request.model.props]
      BY <3>1, PerformEnds, Zenon
    <3>4. m.id = i /\ m.props = request.model.props /\ m.secret = FALSE
      OBVIOUS
    <3> HIDE DEF m
    <3>5.. /\ o.answer.status = "SUCCESS" /\ o.answer.code = "none" /\ o.answer.model = m
          /\ o.answer.slow = FALSE
      BY <3>3, AnswerFields
    <3> QED BY <2>1, <2>3, <2>6, <3>3, <3>4, <3>5 DEF Sound
  <2> QED BY <2>2, <2>4, <2>5, <2>6
<1> QED BY <1>2, <1>3, <1>4, <1>5 DEF IsConforming

LEMMA HandlerOutcome ==
  ASSUME TypeInv, TokenInv, RequestInv, HandlerAnswers
  PROVE  \E o : /\ IsConforming(o) /\ Sound(o) /\ Deviation(o) \in Outcome
                /\ live' = Deviation(o).live /\ used' = Deviation(o).used
                /\ op' = o.op /\ answer' = Deviation(o).answer
                /\ shown' = (shown \/ Deviation(o) # o)
<1>1. PICK left \in 0 .. MaxPolls, page \in {Ids} \cup {{i} : i \in Ids} :
        LET o == Conforming(left, page)
            d == Deviation(o)
        IN  /\ live' = d.live /\ used' = d.used /\ op' = d.op /\ answer' = d.answer
            /\ shown' = (shown \/ d # o)
  BY DEF HandlerAnswers
<1> DEFINE o == Conforming(left, page)
<1>2. OutcomeOK(o)
  BY <1>1, ConformingOK DEF HandlerAnswers, TypeInv
<1>3. IsConforming(o)
  <2>1. page \in SUBSET Ids
    BY <1>1
  <2> QED BY <1>1, <1>2, <2>1, ConformingCases DEF HandlerAnswers, IsConforming
<1>4. /\ live' = Deviation(o).live /\ used' = Deviation(o).used
      /\ op' = Deviation(o).op /\ answer' = Deviation(o).answer
      /\ shown' = (shown \/ Deviation(o) # o)
  BY <1>1
<1> HIDE DEF o
<1>5. Deviation(o) \in Outcome /\ Deviation(o).op = o.op
  BY <1>2, DeviationType DEF TypeInv
<1>6. Sound(o)
  BY <1>3, ConformingIsSound
<1> QED BY <1>3, <1>4, <1>5, <1>6


-----------------------------------------------------------------------------
(* What the actions leave alone.                                            *)

LEMMA Settled ==
  ASSUME [Next]_vars
  PROVE  type' = type /\ defect' = defect /\ foreign' = foreign
BY DEF Next, vars, suiteVars, Enter, CallHandler, NextPage, Conclude, Reinvoke, HandlerAnswers

(* A call is sent, the answer comes, or the call and the resources stay as  *)
(* they are.                                                                *)
LEMMA Turns ==
  ASSUME [Next]_vars
  PROVE  \/ HandlerAnswers /\ UNCHANGED suiteVars
         \/ /\ UNCHANGED handlerVars
            /\ \/ UNCHANGED clientVars
               \/ phase' = "sent" /\ answer' = answer
               \/ phase' = "idle" /\ UNCHANGED <<request, answer, tokens>>
BY DEF Next, vars, handlerVars, clientVars, Enter, CallHandler, Invoke, NextPage, Conclude, Reinvoke

(* The three ways to send.                                                  *)
LEMMA Sends ==
  ASSUME [Next]_vars, phase' = "sent", ~UNCHANGED clientVars
  PROVE  \/ /\ step > 0 /\ phase = "idle" /\ Prepared(Now) /\ Invoke(Now.act, Argument(Now), {})
            /\ stale' = Stale(Now) /\ UNCHANGED <<at, step, cleaning, ready, failed, model, second>>
         \/ NextPage
         \/ Reinvoke /\ UNCHANGED suiteVars
BY DEF Next, vars, clientVars, Enter, CallHandler, Conclude, HandlerAnswers

LEMMA InvokeFields ==
  ASSUME NEW act, NEW m, NEW seen, Invoke(act, m, seen)
  PROVE  /\ request'.act = act /\ request'.model = m /\ request'.token = tokens + 1
         /\ request'.left = 0 /\ request'.seen = seen /\ ~request'.again
         /\ phase' = "sent" /\ tokens' = tokens + 1 /\ answer' = answer
BY DEF Invoke

LEMMA ReinvokeFields ==
  ASSUME TypeInv, Reinvoke
  PROVE  /\ request'.act = request.act /\ request'.model = answer.model /\ request'.token = request.token
         /\ request'.left = answer.left /\ request'.seen = request.seen /\ request'.again
         /\ phase' = "sent" /\ phase = "answered" /\ answer.status = "IN_PROGRESS" /\ ~Raises
         /\ UNCHANGED <<handlerVars, tokens, answer>>
<1>1. request \in Request
  BY DEF TypeInv, TypeOK, ClientTypeOK
<1> QED BY <1>1 DEF Reinvoke, Request

LEMMA Numbers ==
  ASSUME TypeInv
  PROVE  tokens \in Nat /\ op.token \in Nat /\ request.token \in Nat /\ request.left \in Nat /\ answer.left \in Nat
BY PollsAssumption DEF TypeInv, TypeOK, ClientTypeOK, Request, Answer

LEMMA TokenStep ==
  ASSUME TypeInv, TokenInv, RequestInv, [Next]_vars
  PROVE  TokenInv'
<1> USE Numbers
<1>1. CASE HandlerAnswers
  <2>1. PICK o : Sound(o) /\ op' = o.op
    BY <1>1, HandlerOutcome
  <2>2. op'.token \in {op.token, request.token} /\ UNCHANGED <<tokens, request>> /\ phase' = "answered"
    BY <1>1, <2>1 DEF Sound, HandlerAnswers
  <2> QED BY <2>2 DEF TokenInv
<1>2. CASE UNCHANGED handlerVars /\ UNCHANGED clientVars
  BY <1>2 DEF TokenInv, handlerVars, clientVars
<1>3. CASE phase' = "idle" /\ UNCHANGED handlerVars /\ UNCHANGED <<request, tokens>>
  BY <1>3 DEF TokenInv, handlerVars
<1>4. CASE phase' = "sent" /\ ~UNCHANGED clientVars /\ UNCHANGED handlerVars
  <2>1. ASSUME NEW act, NEW m, NEW seen, Invoke(act, m, seen) PROVE TokenInv'
    BY <1>4, <2>1, InvokeFields DEF TokenInv, handlerVars
  <2>2. ASSUME Reinvoke PROVE TokenInv'
    BY <2>2, ReinvokeFields DEF TokenInv, handlerVars
  <2> QED BY <1>4, <2>1, <2>2, Sends DEF NextPage
<1> QED BY <1>1, <1>2, <1>3, <1>4, Turns

(* What a call other than CREATE is given does not depend on how often      *)
(* generate_update_example was called.                                      *)
LEMMA ArgumentFields ==
  ASSUME TypeInv, step > 0
  PROVE  /\ Now.act = "CREATE" => Argument(Now) = CreateExample /\ CreateExample.props = "create"
         /\ Now.act = "UPDATE" =>
              /\ Argument(Now).props = "update"
              /\ model.id \in Ids => Argument(Now).id = model.id
         /\ Now.arg = "model" => Argument(Now) = model
         /\ Now.arg = "second" => Argument(Now) = second
<1>1. NoId \notin Ids
  BY IdsAssumption
<1> QED BY <1>1, NowFits DEF Argument, Stale, CreateExample

LEMMA RequestStep ==
  ASSUME TypeInv, RequestInv, ProgressInv, [Next]_vars
  PROVE  RequestInv'
<1> USE Numbers
<1>1. type' = type
  BY Settled
<1>2. CASE UNCHANGED suiteVars /\ UNCHANGED request /\ phase # "idle"
  BY <1>1, <1>2 DEF RequestInv, suiteVars, Now, Calls, Block, Argument, CreateExample, Stale
<1>3. CASE phase' = "idle"
  BY <1>3 DEF RequestInv
<1>4. CASE /\ step > 0 /\ Invoke(Now.act, Argument(Now), {})
           /\ stale' = Stale(Now) /\ UNCHANGED <<at, step, cleaning, ready, failed, model, second>>
  <2>1. Now' = Now
    BY <1>4 DEF Now, Calls, Block
  <2>2. Stale(Now)' = Stale(Now)
    BY <1>1, <1>4, <2>1 DEF Stale
  <2>3. Argument(Now)' = Argument(Now)
    BY <1>1, <1>4, <2>1, <2>2 DEF Argument, CreateExample
  <2>4. Now.act = "CREATE" => Argument(Now).props = "create"
    BY <1>4, ArgumentFields
  <2> QED BY <1>4, <2>1, <2>3, <2>4, InvokeFields DEF RequestInv
<1>5. CASE NextPage
  <2>1. Now' = Now /\ Argument(Now)' = Argument(Now)
    BY <1>1, <1>5 DEF NextPage, suiteVars, Now, Calls, Block, Argument, CreateExample, Stale
  <2>2. request.act = "LIST" /\ phase # "idle" /\ Invoke("LIST", request.model, Listed)
    BY <1>5 DEF NextPage, Returned
  <2> QED BY <2>1, <2>2, InvokeFields DEF RequestInv
<1>6. CASE Reinvoke /\ UNCHANGED suiteVars
  <2>1. Now' = Now /\ Argument(Now)' = Argument(Now)
    BY <1>1, <1>6 DEF suiteVars, Now, Calls, Block, Argument, CreateExample, Stale
  <2>2. request.act \notin {"READ", "LIST"}
    BY <1>6, ReinvokeFields DEF Raises
  <2> QED BY <1>6, <2>1, <2>2, ReinvokeFields DEF RequestInv, ProgressInv
<1>7. CASE HandlerAnswers /\ UNCHANGED suiteVars
  BY <1>2, <1>7 DEF HandlerAnswers
<1>8. CASE UNCHANGED clientVars /\ phase # "idle" /\ ~UNCHANGED suiteVars
  <2>1. phase' = phase /\ request' = request /\ answer' = answer
    BY <1>8 DEF clientVars
  <2>2. step > 0
    BY <1>8 DEF TypeInv, BlockInv
  <2>3. ~Enter /\ ~CallHandler /\ ~Conclude
    <3>1. ~Enter
      BY <2>2 DEF Enter
    <3>2. ~CallHandler
      BY <1>8 DEF CallHandler
    <3>3. ~Conclude
      BY <1>8, <2>1 DEF Conclude
    <3> QED BY <3>1, <3>2, <3>3
  <2>4. ~NextPage /\ ~Reinvoke /\ ~HandlerAnswers
    BY <1>8, <2>1 DEF NextPage, Reinvoke, HandlerAnswers, clientVars
  <2> QED BY <1>8, <2>3, <2>4 DEF Next, vars, suiteVars
<1>9. phase # "idle" /\ UNCHANGED clientVars /\ UNCHANGED suiteVars => RequestInv'
  BY <1>2 DEF clientVars
<1> QED BY <1>3, <1>4, <1>5, <1>6, <1>7, <1>8, <1>9, Turns, Sends DEF clientVars

-----------------------------------------------------------------------------
(* What the handlers do to the resources and to the answers.                *)

LEMMA OutcomeTypes ==
  ASSUME TypeInv, NEW o, IsConforming(o)
  PROVE  /\ o \in Outcome /\ o.answer \in Answer /\ o.answer.model \in Model /\ o.answer.model.id \in Ids \cup {NoId}
         /\ o.live \in [Ids -> Props] /\ o.used \subseteq Ids /\ live \in [Ids -> Props] /\ used \subseteq Ids
         /\ request \in Request /\ request.model \in Model /\ request.model.id \in Ids \cup {NoId}
         /\ request.act \in Actions /\ NoId \notin Ids
         /\ defect \in Defect \cup {"none"}
BY IdsAssumption, DefectsAssumption
DEF IsConforming, OutcomeOK, Outcome, Answer, Model, TypeInv, TypeOK, ClientTypeOK, Request

LEMMA FreeIsNot == ASSUME NEW taken \in SUBSET Ids, HasFree(taken) PROVE Free(taken) \notin taken /\ Free(taken) \in Ids
BY DEF HasFree, Free

(* Most defects are in the answer only.                                     *)
LEMMA DeviationLive ==
  ASSUME TypeInv, NEW o, IsConforming(o), Sound(o), NEW d, d = Deviation(o)
  PROVE  /\ o.used \subseteq d.used
         /\ defect \notin {"createAgain", "createPartial", "updateCreates", "updatePartial", "updateNewId", "deleteKeeps"} =>
              d.live = o.live
         /\ defect = "createAgain" =>
              \/ d.live = o.live
              \/ /\ request.act = "CREATE" /\ request.model.id \in Ids
                 /\ d.live = [o.live EXCEPT ![request.model.id] = request.model.props]
         /\ defect \notin {"createAgain", "updateCreates", "updateNewId"} => d.used = o.used
<1> DEFINE m == request.model
<1>1. OutcomeOK(o) /\ o \in Outcome
  BY OutcomeTypes DEF IsConforming
<1>2. defect \in Defect \cup {"none"}
  BY OutcomeTypes
<1>3. CASE defect = "createAgain"
  <2>1. d = o \/ (Refused(o, "CREATE", "AlreadyExists") /\ d = Moved(o, m.id, m.props))
    BY <1>1, <1>3, DeviationIs
  <2>2. Refused(o, "CREATE", "AlreadyExists") => request.act = "CREATE" /\ m.id \in Ids
    BY DEF Refused, Sound
  <2>3. Moved(o, m.id, m.props).live = [o.live EXCEPT ![m.id] = m.props]
        /\ Moved(o, m.id, m.props).used = o.used \cup {m.id}
    BY DEF Moved
  <2> QED BY <1>3, <2>1, <2>2, <2>3
<1>4. CASE defect = "updateCreates"
  <2>1. d = o \/ \E i, p : d = Moved(o, i, p)
    BY <1>1, <1>4, DeviationIs
  <2>2. \A i, p : Moved(o, i, p).used = o.used \cup {i}
    BY DEF Moved
  <2> QED BY <1>4, <2>1, <2>2
<1>5. CASE defect = "updateNewId"
  <2>1. d = o \/ \E i, p, l : d = Moved(Leaving(o, l), i, p)
    BY <1>1, <1>5, DeviationIs
  <2>2. \A i, p, l : Moved(Leaving(o, l), i, p).used = o.used \cup {i}
    BY <1>1 DEF Moved, Leaving, Outcome
  <2> QED BY <1>5, <2>1, <2>2
<1>6. CASE defect \in {"createPartial", "updatePartial", "deleteKeeps"}
  <2>1. d = o \/ \E l : d = Leaving(o, l)
    BY <1>1, <1>6, DeviationIs
  <2> QED BY <1>1, <1>6, <2>1, DeviationFields
<1>7. CASE defect \notin {"createAgain", "createPartial", "updateCreates", "updatePartial", "updateNewId", "deleteKeeps"}
  <2>1. d = o \/ \E a : d = Answering(o, a)
    BY <1>1, <1>2, <1>7, DeviationIs DEF Defect
  <2> QED BY <1>1, <1>7, <2>1, DeviationFields
<1> QED BY <1>3, <1>4, <1>5, <1>6, <1>7

(* What an operation that keeps the contract does to the resources.         *)
LEMMA SoundLive ==
  ASSUME TypeInv, RequestInv, phase = "sent", NEW o, IsConforming(o), Sound(o)
  PROVE  \/ o.live = live
         \/ /\ request.act = "CREATE" /\ o.answer.status \in {"SUCCESS", "IN_PROGRESS"}
            /\ o.live = [live EXCEPT ![o.answer.model.id] = IF o.answer.status = "SUCCESS" THEN "create" ELSE "partial"]
         \/ request.act = "UPDATE" /\ o.answer.status = "SUCCESS" /\ o.live = [live EXCEPT ![request.model.id] = "update"]
         \/ request.act = "DELETE" /\ o.answer.status = "SUCCESS" /\ o.live = [live EXCEPT ![request.model.id] = "none"]
<1>1. o.answer.status \in {"SUCCESS", "IN_PROGRESS", "FAILED"} /\ request.act \in Actions
  BY OutcomeTypes DEF Answer
<1>2. request.act = "CREATE" => request.model.props = "create"
  BY DEF RequestInv
<1>3. request.act = "UPDATE" => request.model.props = "update"
  <2>1. step > 0
    BY DEF TypeInv, BlockInv
  <2> QED BY <2>1, ArgumentFields DEF RequestInv
<1> QED BY <1>1, <1>2, <1>3 DEF Sound, Actions

LEMMA WorldStep ==
  ASSUME TypeInv, TokenInv, RequestInv, WorldInv, [Next]_vars
  PROVE  WorldInv'
<1>1. defect' = defect /\ foreign' = foreign
  BY Settled
<1>2. CASE UNCHANGED handlerVars
  BY <1>1, <1>2 DEF WorldInv, handlerVars
<1>3. CASE HandlerAnswers
  <2>1. PICK o : /\ IsConforming(o) /\ Sound(o) /\ live' = Deviation(o).live
    BY <1>3, HandlerOutcome
  <2> DEFINE i == o.answer.model.id
             l == o.live
  <2>2. OutcomeOK(o) /\ o \in Outcome /\ live \in [Ids -> Props] /\ l \in [Ids -> Props] /\ phase = "sent"
    BY <1>3, <2>1, OutcomeTypes DEF IsConforming, HandlerAnswers
  <2>3. \/ l = live
        \/ /\ request.act = "CREATE" /\ o.answer.status \in {"SUCCESS", "IN_PROGRESS"}
           /\ l = [live EXCEPT ![i] = IF o.answer.status = "SUCCESS" THEN "create" ELSE "partial"]
        \/ request.act = "UPDATE" /\ o.answer.status = "SUCCESS" /\ l = [live EXCEPT ![request.model.id] = "update"]
        \/ request.act = "DELETE" /\ o.answer.status = "SUCCESS" /\ l = [live EXCEPT ![request.model.id] = "none"]
    BY <2>1, <2>2, SoundLive
  <2>4. CASE defect = "createPartial"
    <3>1. live' = IF Ok(o, "CREATE") THEN [l EXCEPT ![i] = "partial"] ELSE l
      <4> DEFINE x == [l EXCEPT ![i] = "partial"]
      <4>1. Deviation(o) = IF Ok(o, "CREATE") THEN Leaving(o, x) ELSE o
        BY <2>2, <2>4, DeviationIs
      <4>2. live' = IF Ok(o, "CREATE") THEN x ELSE o.live
        <5> HIDE DEF x
        <5> QED BY <2>1, <2>2, <4>1, DeviationFields
      <4> QED BY <4>2
    <3> HIDE DEF i, l
    <3> QED BY <1>1, <2>2, <2>3, <2>4, <3>1 DEF Ok, WorldInv
  <2>5. CASE defect = "updatePartial"
    <3>1. live' = IF Ok(o, "UPDATE") THEN live ELSE l
      BY <2>1, <2>2, <2>5, DeviationIs, DeviationFields
    <3> HIDE DEF i, l
    <3> QED BY <1>1, <2>2, <2>3, <2>5, <3>1 DEF Ok, WorldInv
  <2> QED BY <1>1, <2>4, <2>5 DEF WorldInv
<1> QED BY <1>2, <1>3, Turns

(* Handlers whose DELETE keeps the resource let no resource go.             *)
LEMMA KeepsStep ==
  ASSUME TypeInv, TokenInv, RequestInv, [Next]_vars, defect = "deleteKeeps",
         NEW j \in Ids, live[j] # "none"
  PROVE  live'[j] # "none"
<1>1. CASE UNCHANGED handlerVars
  BY <1>1 DEF handlerVars
<1>2. CASE HandlerAnswers
  <2>1. PICK o : /\ IsConforming(o) /\ Sound(o) /\ live' = Deviation(o).live
    BY <1>2, HandlerOutcome
  <2>2. OutcomeOK(o) /\ o \in Outcome /\ live \in [Ids -> Props] /\ phase = "sent"
    BY <1>2, <2>1, OutcomeTypes DEF IsConforming, HandlerAnswers
  <2>3. live' = IF Ok(o, "DELETE") THEN live ELSE o.live
    BY <2>1, <2>2, DeviationIs, DeviationFields
  <2> QED BY <2>1, <2>2, <2>3, SoundLive DEF Ok
<1> QED BY <1>1, <1>2, Turns

LEMMA UsedStep ==
  ASSUME TypeInv, TokenInv, RequestInv, [Next]_vars
  PROVE  used \subseteq used'
<1>1. CASE HandlerAnswers
  <2>1. PICK o : IsConforming(o) /\ Sound(o) /\ used' = Deviation(o).used
    BY <1>1, HandlerOutcome
  <2> QED BY <2>1, DeviationLive DEF Sound
<1>2. CASE UNCHANGED handlerVars
  BY <1>2 DEF handlerVars
<1> QED BY <1>1, <1>2, Turns

(* What the defects do to an answer.                                        *)
LEMMA CreateAnswers ==
  ASSUME TypeInv, RequestInv, phase = "sent", request.act = "CREATE",
         NEW o, IsConforming(o), Sound(o), NEW d \in Outcome, d = Deviation(o)
  PROVE  /\ d.answer.status = "SUCCESS" =>
              /\ defect # "createFails"
              /\ defect = "createNoId" <=> d.answer.model.id = NoId
              /\ defect # "createNoId" => d.answer.model.id \in d.used
              /\ defect = "returnsSecret" => d.answer.model.secret
              /\ defect = "deleteKeeps" => d.live[d.answer.model.id] # "none"
         /\ defect = "createAgain" => d.answer.code # "AlreadyExists"
<1> DEFINE m == o.answer.model
<1>1. /\ OutcomeOK(o) /\ o \in Outcome /\ o.answer \in Answer /\ m \in Model /\ o.live \in [Ids -> Props]
      /\ o.used \subseteq Ids /\ NoId \notin Ids /\ d.used \subseteq Ids /\ live \in [Ids -> Props]
      /\ defect \in Defect \cup {"none"} /\ request.model.props = "create"
  BY OutcomeTypes DEF IsConforming, Outcome, RequestInv
<1>2. o.answer.status = "SUCCESS" =>
        /\ m.id \in o.used /\ m.props = "create" /\ m.secret = FALSE
        /\ o.live = [live EXCEPT ![m.id] = "create"]
  BY <1>1 DEF Sound
<1>3. o.used \subseteq d.used
  BY DeviationLive
<1>4. CASE defect = "createAgain"
  <2>1. CASE Refused(o, "CREATE", "AlreadyExists")
    <3>1. d.answer.status = "SUCCESS" => d.answer.model.id \in Ids
      <4>1. d = Moved(o, request.model.id, request.model.props) /\ request.model.id \in Ids
        BY <1>1, <1>4, <2>1, DeviationIs DEF Sound, Refused
      <4> QED BY <4>1 DEF Moved, Success
    <3>2. d.answer.code = "none" /\ d.answer.model.id \in d.used
      <4>1. d = Moved(o, request.model.id, request.model.props)
        BY <1>1, <1>4, <2>1, DeviationIs
      <4> QED BY <4>1 DEF Moved, Success
    <3> QED BY <1>1, <1>4, <3>1, <3>2
  <2>2. CASE ~Refused(o, "CREATE", "AlreadyExists")
    <3>1. d = o
      BY <1>1, <1>4, <2>2, DeviationIs
    <3> QED BY <1>1, <1>2, <1>4, <2>2, <3>1 DEF Refused
  <2> QED BY <2>1, <2>2
<1>5. CASE defect = "createFails"
  <2>1. d.answer = IF Ok(o, "CREATE") THEN Failed("InternalFailure") ELSE o.answer
    BY <1>1, <1>5, DeviationIs, DeviationFields
  <2>2. d.answer.status # "SUCCESS"
    BY <2>1, AnswerFields DEF Ok
  <2> QED BY <1>5, <2>2
<1>6. CASE defect = "createNoId"
  <2>1. d.answer.status = "SUCCESS" => d.answer.model.id = NoId
    <3> DEFINE x == [o.answer EXCEPT !.model = [m EXCEPT !.id = NoId]]
    <3>1. d = IF Ok(o, "CREATE") THEN Answering(o, x) ELSE o
      BY <1>1, <1>6, DeviationIs
    <3>2. x.model.id = NoId
      BY <1>1 DEF Answer, Model
    <3> HIDE DEF x
    <3> QED BY <1>1, <3>1, <3>2, DeviationFields DEF Ok
  <2> QED BY <1>6, <2>1
<1>7. CASE defect = "returnsSecret"
  <2> DEFINE x == [o.answer EXCEPT !.model = [m EXCEPT !.secret = TRUE]]
  <2>1. d = IF o.answer.status = "SUCCESS" /\ m # NoModel THEN Answering(o, x) ELSE o
    BY <1>1, <1>7, DeviationIs
  <2>2. x.model.id = m.id /\ x.model.secret
    BY <1>1 DEF Answer, Model
  <2>3. o.answer.status = "SUCCESS" => m # NoModel
    BY <1>2 DEF NoModel
  <2> HIDE DEF x
  <2>4. d.answer.status = "SUCCESS" => d.answer = x
    BY <1>1, <2>1, <2>3, DeviationFields
  <2>5. d.answer.status = "SUCCESS" => o.answer.status = "SUCCESS"
    BY <2>1, <2>3
  <2> QED BY <1>1, <1>2, <1>3, <1>7, <2>2, <2>4, <2>5
<1>8. CASE defect = "slow" \/ defect = "slowLater"
  <2> DEFINE x == [o.answer EXCEPT !.slow = TRUE]
  <2>1. d = o \/ d = Answering(o, x)
    BY <1>1, <1>8, DeviationIs
  <2>2. x.model = m /\ x.status = o.answer.status
    BY <1>1 DEF Answer
  <2> HIDE DEF x
  <2>3. d.answer.model = m /\ d.answer.status = o.answer.status
    BY <1>1, <2>1, <2>2, DeviationFields
  <2> QED BY <1>1, <1>2, <1>3, <1>8, <2>3
<1>9. CASE defect = "progressNoId"
  <2> DEFINE x == [o.answer EXCEPT !.model = [m EXCEPT !.id = NoId]]
  <2>1. d = IF o.answer.status = "IN_PROGRESS" THEN Answering(o, x) ELSE o
    BY <1>1, <1>9, DeviationIs
  <2>2. x.status = o.answer.status
    BY <1>1 DEF Answer
  <2> HIDE DEF x
  <2> QED BY <1>1, <1>2, <1>9, <2>1, <2>2, DeviationFields
<1>10. CASE defect = "createPartial"
  <2> DEFINE x == [o.live EXCEPT ![m.id] = "partial"]
  <2>1. d = IF Ok(o, "CREATE") THEN Leaving(o, x) ELSE o
    BY <1>1, <1>10, DeviationIs
  <2> HIDE DEF x
  <2>2. d.answer = o.answer
    BY <1>1, <2>1, DeviationFields
  <2> QED BY <1>1, <1>2, <1>3, <1>10, <2>2
<1>11. CASE defect \in {"none", "readGhost", "readWaits", "updateCreates", "updatePartial", "updateNewId", "deleteKeeps",
                        "deleteModel", "deleteGhost", "listGhost", "listMisses"}
  <2>1. ~Ok(o, "READ") /\ ~Ok(o, "UPDATE") /\ ~Ok(o, "DELETE") /\ ~Ok(o, "LIST")
    BY DEF Ok
  <2>2. ~Refused(o, "READ", "NotFound") /\ ~Refused(o, "UPDATE", "NotFound") /\ ~Refused(o, "DELETE", "NotFound")
    BY DEF Refused
  <2>3. d = o
    BY <1>1, <1>11, <2>1, <2>2, DeviationIs
  <2> QED BY <1>1, <1>2, <1>11, <2>3
<1> QED BY <1>1, <1>4, <1>5, <1>6, <1>7, <1>8, <1>9, <1>10, <1>11 DEF Defect

LEMMA ReadAnswers ==
  ASSUME TypeInv, WorldInv, phase = "sent", request.act = "READ",
         NEW o, IsConforming(o), Sound(o), NEW d \in Outcome, d = Deviation(o)
  PROVE  /\ d.answer.status = "SUCCESS" =>
              /\ defect # "readWaits"
              /\ defect = "createPartial" => request.model.id = foreign \/ d.answer.model.props # "create"
              /\ defect = "updatePartial" => d.answer.model.props # "update"
         /\ d.answer.code = "NotFound" =>
              /\ defect # "readGhost"
              /\ defect = "deleteKeeps" /\ request.model.id \in Ids => d.live[request.model.id] = "none"
<1> DEFINE m == request.model
<1>1. OutcomeOK(o) /\ o \in Outcome /\ m.id \in Ids \cup {NoId} /\ defect \in Defect \cup {"none"}
  BY OutcomeTypes DEF IsConforming
<1>2. ~Ok(o, "CREATE") /\ ~Ok(o, "UPDATE") /\ ~Ok(o, "DELETE") /\ ~Ok(o, "LIST")
  BY DEF Ok
<1>3. CASE defect = "readWaits"
  <2>1. d.answer = IF Ok(o, "READ") THEN Progress(m, 0) ELSE o.answer
    BY <1>1, <1>3, DeviationIs, DeviationFields
  <2> QED BY <1>3, <2>1, AnswerFields DEF Ok
<1>4. CASE defect = "readGhost"
  <2> DEFINE x == Success([m EXCEPT !.secret = FALSE])
  <2>1. d = IF Refused(o, "READ", "NotFound") THEN Answering(o, x) ELSE o
    BY <1>1, <1>4, DeviationIs
  <2>2. x.code = "none"
    BY AnswerFields
  <2> HIDE DEF x
  <2>3. d.answer.code # "NotFound"
    BY <1>1, <2>1, <2>2, DeviationFields DEF Refused
  <2> QED BY <1>4, <2>3
<1>5. CASE defect \in {"createPartial", "updatePartial", "deleteKeeps"}
  <2>1. d = o
    BY <1>1, <1>2, <1>5, DeviationIs
  <2>2. o.answer.status = "SUCCESS" => m.id \in Ids /\ o.answer.model.props = live[m.id]
    BY DEF Sound
  <2>3. o.answer.code = "NotFound" /\ m.id \in Ids => live[m.id] = "none" /\ o.live = live
    BY DEF Sound
  <2> QED BY <1>5, <2>1, <2>2, <2>3 DEF WorldInv
<1> QED BY <1>3, <1>4, <1>5

LEMMA UpdateAnswers ==
  ASSUME TypeInv, phase = "sent", request.act = "UPDATE", defect = "updateCreates",
         NEW o, IsConforming(o), Sound(o), NEW d \in Outcome, d = Deviation(o)
  PROVE  d.answer.code = "NotFound" => request.model.id \notin Ids
<1> SUFFICES ASSUME request.model.id \in Ids PROVE d.answer.code # "NotFound"
  OBVIOUS
<1>1. OutcomeOK(o) /\ o \in Outcome
  BY OutcomeTypes DEF IsConforming
<1>2. CASE Refused(o, "UPDATE", "NotFound")
  <2>1. d = Moved(o, request.model.id, request.model.props)
    BY <1>1, <1>2, DeviationIs
  <2> QED BY <2>1 DEF Moved, Success
<1>3. CASE ~Refused(o, "UPDATE", "NotFound")
  BY <1>1, <1>3, DeviationIs DEF Refused
<1> QED BY <1>2, <1>3

LEMMA DeleteAnswers ==
  ASSUME TypeInv, phase = "sent", request.act = "DELETE",
         NEW o, IsConforming(o), Sound(o), NEW d \in Outcome, d = Deviation(o)
  PROVE  /\ d.answer.code = "NotFound" => defect # "deleteGhost"
         /\ d.answer.status = "SUCCESS" /\ defect = "deleteModel" =>
              d.answer.model = [request.model EXCEPT !.secret = FALSE]
<1> DEFINE x == [request.model EXCEPT !.secret = FALSE]
<1>1. OutcomeOK(o) /\ o \in Outcome /\ o.answer \in Answer
  BY OutcomeTypes DEF IsConforming
<1>2. CASE defect = "deleteGhost"
  <2>1. d.answer = IF Refused(o, "DELETE", "NotFound") THEN Success(NoModel) ELSE o.answer
    BY <1>1, <1>2, DeviationIs, DeviationFields
  <2> QED BY <1>2, <2>1, AnswerFields DEF Refused
<1>3. CASE defect = "deleteModel"
  <2> DEFINE y == [o.answer EXCEPT !.model = x]
  <2>1. d = IF Ok(o, "DELETE") THEN Answering(o, y) ELSE o
    BY <1>1, <1>3, DeviationIs
  <2>2. y.model = x
    BY <1>1 DEF Answer
  <2> HIDE DEF x, y
  <2>3. d.answer.status = "SUCCESS" => d.answer.model = x
    BY <1>1, <2>1, <2>2, DeviationFields DEF Ok
  <2> QED BY <1>3, <2>3 DEF x
<1> QED BY <1>2, <1>3

LEMMA ListAnswers ==
  ASSUME TypeInv, phase = "sent", request.act = "LIST",
         NEW o, IsConforming(o), Sound(o), NEW d \in Outcome, d = Deviation(o), d.answer.status = "SUCCESS"
  PROVE  /\ defect = "listGhost" => d.used \subseteq d.answer.ids
         /\ defect = "listMisses" => d.answer.ids = {} /\ ~d.answer.more
<1>1. OutcomeOK(o) /\ o \in Outcome /\ o.answer \in Answer
  BY OutcomeTypes DEF IsConforming
<1>2. CASE defect = "listGhost"
  <2> DEFINE y == [o.answer EXCEPT !.ids = o.answer.ids \cup used]
  <2>1. d = IF Ok(o, "LIST") THEN Answering(o, y) ELSE o
    BY <1>1, <1>2, DeviationIs
  <2>2. used \subseteq y.ids
    BY <1>1 DEF Answer
  <2> HIDE DEF y
  <2>3. d.answer = y /\ d.used = used
    BY <1>1, <2>1, DeviationFields DEF Ok, Sound
  <2> QED BY <1>2, <2>2, <2>3
<1>3. CASE defect = "listMisses"
  <2> DEFINE x == Listing({}, FALSE)
  <2>1. d = IF Ok(o, "LIST") THEN Answering(o, x) ELSE o
    BY <1>1, <1>3, DeviationIs
  <2>2. x.ids = {} /\ ~x.more
    BY DEF Listing, Success
  <2> HIDE DEF x
  <2>3. d.answer = x
    BY <1>1, <2>1, DeviationFields DEF Ok
  <2> QED BY <1>3, <2>2, <2>3
<1> QED BY <1>2, <1>3

(* Only a defect answers with success and a code, and none does.            *)
LEMMA AllAnswers ==
  ASSUME TypeInv, phase = "sent", NEW o, IsConforming(o), Sound(o), NEW d \in Outcome, d = Deviation(o)
  PROVE  /\ d.answer.status = "SUCCESS" => d.answer.code = "none"
         /\ defect = "slow" /\ request.left = 0 => d.answer.slow = TRUE
<1>1. OutcomeOK(o) /\ o \in Outcome /\ o.answer \in Answer /\ defect \in Defect \cup {"none"} /\ o.answer.model \in Model
  BY OutcomeTypes DEF IsConforming
<1>2. o.answer.status = "SUCCESS" => o.answer.code = "none"
  BY DEF Sound
<1>3. \/ d.answer.status = o.answer.status /\ d.answer.code = o.answer.code
      \/ d.answer.code = "none" \/ d.answer.status = "FAILED"
  <2>1. CASE defect \in {"createAgain", "updateCreates", "updateNewId"}
    <3>1. d = o \/ \E x, i, p : d = Moved(x, i, p)
      BY <1>1, <2>1, DeviationIs
    <3>2. \A x, i, p : Moved(x, i, p).answer.code = "none"
      BY DEF Moved, Success
    <3> QED BY <3>1, <3>2
  <2>2. CASE defect \in {"createPartial", "updatePartial", "deleteKeeps", "none"}
    <3>1. d = o \/ \E l : d = Leaving(o, l)
      BY <1>1, <2>2, DeviationIs
    <3> QED BY <1>1, <3>1, DeviationFields
  <2>3. CASE defect \in {"createFails", "readGhost", "readWaits", "deleteGhost", "listMisses"}
    <3> DEFINE Plain(a) == a.code = "none" \/ a.status = "FAILED"
    <3>1. /\ Plain(Failed("InternalFailure")) /\ Plain(Listing({}, FALSE))
          /\ \A m : Plain(Success(m)) /\ Plain(Progress(m, 0))
      BY DEF Success, Failed, Listing, Progress
    <3> HIDE DEF Plain
    <3>2. CASE defect \in {"createFails", "listMisses"}
      <4>1. d = o \/ d = Answering(o, Failed("InternalFailure")) \/ d = Answering(o, Listing({}, FALSE))
        BY <1>1, <3>2, DeviationIs
      <4>2. d = o \/ \E a : d = Answering(o, a) /\ Plain(a)
        BY <3>1, <4>1
      <4> QED BY <1>1, <4>2, DeviationFields DEF Plain
    <3>3. CASE defect \in {"readGhost", "deleteGhost"}
      <4>1. d = o \/ \E m : d = Answering(o, Success(m))
        BY <1>1, <3>3, DeviationIs
      <4>2. d = o \/ \E a : d = Answering(o, a) /\ Plain(a)
        BY <3>1, <4>1
      <4> QED BY <1>1, <4>2, DeviationFields DEF Plain
    <3>4. CASE defect = "readWaits"
      <4>1. d = o \/ \E m : d = Answering(o, Progress(m, 0))
        BY <1>1, <3>4, DeviationIs
      <4>2. d = o \/ \E a : d = Answering(o, a) /\ Plain(a)
        BY <3>1, <4>1
      <4> QED BY <1>1, <4>2, DeviationFields DEF Plain
    <3> QED BY <2>3, <3>2, <3>3, <3>4
  <2>4. CASE defect \in {"createNoId", "progressNoId", "returnsSecret", "deleteModel", "listGhost", "slow", "slowLater"}
    <3> DEFINE Same(a) == a.status = o.answer.status /\ a.code = o.answer.code
    <3>1. /\ \A m : Same([o.answer EXCEPT !.model = m])
          /\ \A ids : Same([o.answer EXCEPT !.ids = ids])
          /\ Same([o.answer EXCEPT !.slow = TRUE])
      BY <1>1 DEF Answer
    <3> HIDE DEF Same
    <3>2. d = o \/ \E a : d = Answering(o, a) /\ Same(a)
      <4>1. CASE defect \in {"createNoId", "progressNoId", "returnsSecret", "deleteModel"}
        <5>1. d = o \/ \E m : d = Answering(o, [o.answer EXCEPT !.model = m])
          BY <1>1, <4>1, DeviationIs
        <5> QED BY <3>1, <5>1
      <4>2. CASE defect = "listGhost"
        <5>1. d = o \/ \E ids : d = Answering(o, [o.answer EXCEPT !.ids = ids])
          BY <1>1, <4>2, DeviationIs
        <5> QED BY <3>1, <5>1
      <4>3. CASE defect \in {"slow", "slowLater"}
        <5>1. d = o \/ d = Answering(o, [o.answer EXCEPT !.slow = TRUE])
          BY <1>1, <4>3, DeviationIs
        <5> QED BY <3>1, <5>1
      <4> QED BY <2>4, <4>1, <4>2, <4>3
    <3> QED BY <1>1, <3>2, DeviationFields DEF Same
  <2> QED BY <1>1, <2>1, <2>2, <2>3, <2>4 DEF Defect
<1>4. defect = "slow" /\ request.left = 0 => d.answer.slow = TRUE
  <2> SUFFICES ASSUME defect = "slow", request.left = 0 PROVE d.answer.slow = TRUE
    OBVIOUS
  <2> DEFINE x == [o.answer EXCEPT !.slow = TRUE]
  <2>1. d = Answering(o, x)
    BY <1>1, DeviationIs
  <2>2. x.slow = TRUE
    BY <1>1 DEF Answer
  <2> HIDE DEF x
  <2> QED BY <1>1, <2>1, <2>2, DeviationFields
<1> QED BY <1>2, <1>3, <1>4

-----------------------------------------------------------------------------
(* The invariants about the call and its answer.                            *)

LEMMA AnswerStep ==
  ASSUME TypeInv, TokenInv, RequestInv, WorldInv, AnswerInv, FirstInv, [Next]_vars
  PROVE  AnswerInv'
<1>1. defect' = defect /\ foreign' = foreign
  BY Settled
<1>2. CASE HandlerAnswers
  <2>1. PICK o : /\ IsConforming(o) /\ Sound(o) /\ Deviation(o) \in Outcome
                 /\ live' = Deviation(o).live /\ used' = Deviation(o).used
                 /\ answer' = Deviation(o).answer
    BY <1>2, HandlerOutcome
  <2> DEFINE d == Deviation(o)
  <2>2. d \in Outcome /\ live' = d.live /\ used' = d.used /\ answer' = d.answer
    BY <2>1
  <2>3. phase = "sent" /\ request' = request /\ (defect = "slow" => request.left = 0)
    BY <1>2, Numbers DEF HandlerAnswers, RequestInv, FirstInv
  <2>4. d = Deviation(o)
    OBVIOUS
  <2> HIDE DEF d
  <2>5. /\ d.answer.status = "SUCCESS" => d.answer.code = "none"
        /\ defect = "slow" => d.answer.slow = TRUE
    BY <2>1, <2>2, <2>3, <2>4, AllAnswers
  <2>6. CASE request.act = "CREATE"
    <3>1. /\ d.answer.status = "SUCCESS" =>
               /\ defect # "createFails"
               /\ defect = "createNoId" <=> d.answer.model.id = NoId
               /\ defect # "createNoId" => d.answer.model.id \in d.used
               /\ defect = "returnsSecret" => d.answer.model.secret
               /\ defect = "deleteKeeps" => d.live[d.answer.model.id] # "none"
          /\ defect = "createAgain" => d.answer.code # "AlreadyExists"
      BY <2>1, <2>2, <2>3, <2>4, <2>6, CreateAnswers
    <3> QED BY <1>1, <2>2, <2>3, <2>5, <2>6, <3>1 DEF AnswerInv
  <2>7. CASE request.act = "READ"
    <3>1. /\ d.answer.status = "SUCCESS" =>
               /\ defect # "readWaits"
               /\ defect = "createPartial" => request.model.id = foreign \/ d.answer.model.props # "create"
               /\ defect = "updatePartial" => d.answer.model.props # "update"
          /\ d.answer.code = "NotFound" =>
               /\ defect # "readGhost"
               /\ defect = "deleteKeeps" /\ request.model.id \in Ids => d.live[request.model.id] = "none"
      BY <2>1, <2>2, <2>3, <2>4, <2>7, ReadAnswers
    <3> QED BY <1>1, <2>2, <2>3, <2>5, <2>7, <3>1 DEF AnswerInv
  <2>8. CASE request.act = "UPDATE"
    <3>1. defect = "updateCreates" /\ d.answer.code = "NotFound" => request.model.id \notin Ids
      BY <2>1, <2>2, <2>3, <2>4, <2>8, UpdateAnswers
    <3> QED BY <1>1, <2>2, <2>3, <2>5, <2>8, <3>1 DEF AnswerInv
  <2>9. CASE request.act = "DELETE"
    <3>1. /\ d.answer.code = "NotFound" => defect # "deleteGhost"
          /\ d.answer.status = "SUCCESS" /\ defect = "deleteModel" =>
               d.answer.model = [request.model EXCEPT !.secret = FALSE]
      BY <2>1, <2>2, <2>3, <2>4, <2>9, DeleteAnswers
    <3> QED BY <1>1, <2>2, <2>3, <2>5, <2>9, <3>1 DEF AnswerInv
  <2>10. CASE request.act = "LIST"
    <3>1. d.answer.status = "SUCCESS" =>
            /\ defect = "listGhost" => d.used \subseteq d.answer.ids
            /\ defect = "listMisses" => d.answer.ids = {} /\ ~d.answer.more
      BY <2>1, <2>2, <2>3, <2>4, <2>10, ListAnswers
    <3> QED BY <1>1, <2>2, <2>3, <2>5, <2>10, <3>1 DEF AnswerInv
  <2>11. request.act \in Actions
    BY <2>1, OutcomeTypes
  <2> QED BY <2>6, <2>7, <2>8, <2>9, <2>10, <2>11 DEF Actions
<1>3. CASE UNCHANGED handlerVars /\ UNCHANGED clientVars
  BY <1>1, <1>3 DEF AnswerInv, handlerVars, clientVars
<1>4. CASE phase' # "answered"
  BY <1>4 DEF AnswerInv
<1> QED BY <1>2, <1>3, <1>4, Turns

LEMMA FirstStep ==
  ASSUME TypeInv, AnswerInv, FirstInv, [Next]_vars
  PROVE  FirstInv'
<1>1. defect' = defect
  BY Settled
<1>2. CASE HandlerAnswers
  BY <1>1, <1>2 DEF FirstInv, HandlerAnswers
<1>3. CASE UNCHANGED clientVars
  BY <1>1, <1>3 DEF FirstInv, clientVars
<1>4. CASE phase' = "idle"
  BY <1>4 DEF FirstInv
<1>5. CASE phase' = "sent" /\ ~UNCHANGED clientVars
  <2>1. ASSUME NEW act, NEW m, Invoke(act, m, {}) PROVE FirstInv'
    BY <2>1, InvokeFields DEF FirstInv
  <2>2. CASE NextPage
    <3>1. Invoke("LIST", request.model, Listed)
      BY <2>2 DEF NextPage
    <3>2. phase = "answered" /\ request.act = "LIST" /\ answer.status = "SUCCESS" /\ answer.more
      BY <2>2 DEF NextPage, Returned, Succeeded
    <3>3. defect # "listMisses"
      BY <3>2 DEF AnswerInv
    <3> QED BY <1>1, <3>1, <3>3, InvokeFields DEF FirstInv
  <2>3. CASE Reinvoke
    <3>1. /\ request'.seen = request.seen /\ phase = "answered" /\ ~Raises
      BY <2>3, ReinvokeFields
    <3>2. defect = "slow" => answer.slow = TRUE /\ ~request.again
      BY <3>1 DEF AnswerInv, FirstInv
    <3>3. defect # "slow"
      BY <3>1, <3>2 DEF Raises
    <3> QED BY <1>1, <3>1, <3>3 DEF FirstInv
  <2> QED BY <1>5, <2>1, <2>2, <2>3, Sends
<1> QED BY <1>2, <1>3, <1>4, <1>5, Turns

(* What a defect makes of an operation in progress: it leaves the answer,   *)
(* or makes the call raise, or end.                                         *)
LEMMA ProgressAnswers ==
  ASSUME TypeInv, NEW o, IsConforming(o), NEW d, d = Deviation(o)
  PROVE  \/ d.answer = o.answer
         \/ d.answer.status # "IN_PROGRESS" \/ d.answer.model.id = NoId \/ request.act \in {"READ", "LIST"}
         \/ d.answer = [o.answer EXCEPT !.slow = TRUE]
<1> DEFINE a == o.answer
<1>1. /\ OutcomeOK(o) /\ o \in Outcome /\ a \in Answer /\ defect \in Defect \cup {"none"} /\ a.model \in Model
  BY OutcomeTypes DEF IsConforming
<1>2. CASE defect \in {"createAgain", "updateCreates", "updateNewId"}
  <2>1. d = o \/ \E x, i, p : d = Moved(x, i, p)
    BY <1>1, <1>2, DeviationIs
  <2>2. \A x, i, p : Moved(x, i, p).answer.status = "SUCCESS"
    BY DEF Moved, Success
  <2> QED BY <2>1, <2>2
<1>3. CASE defect \in {"createPartial", "updatePartial", "deleteKeeps", "none"}
  <2>1. d = o \/ \E l : d = Leaving(o, l)
    BY <1>1, <1>3, DeviationIs
  <2> QED BY <1>1, <2>1, DeviationFields
<1>4. CASE defect \in {"createFails", "listMisses"}
  <2>1. d = o \/ \E x : d = Answering(o, x) /\ x.status # "IN_PROGRESS"
    <3>1. Failed("InternalFailure").status # "IN_PROGRESS" /\ Listing({}, FALSE).status # "IN_PROGRESS"
      BY AnswerFields
    <3>2. \/ d = o \/ d = Answering(o, Failed("InternalFailure"))
          \/ d = Answering(o, Listing({}, FALSE))
      BY <1>1, <1>4, DeviationIs
    <3> QED BY <3>1, <3>2
  <2> QED BY <1>1, <2>1, DeviationFields
<1>5. CASE defect \in {"readGhost", "readWaits"}
  <2>1. d = o \/ request.act = "READ"
    BY <1>1, <1>5, DeviationIs DEF Refused, Ok
  <2> QED BY <2>1
<1>6. CASE defect = "deleteGhost"
  <2>1. d = o \/ d = Answering(o, Success(NoModel))
    BY <1>1, <1>6, DeviationIs
  <2> QED BY <1>1, <2>1, DeviationFields, AnswerFields
<1>7. CASE defect \in {"createNoId", "returnsSecret", "deleteModel", "listGhost"}
  <2>1. \/ d = o
        \/ a.status = "SUCCESS" /\ \E m : d = Answering(o, [a EXCEPT !.model = m])
        \/ request.act = "LIST"
    BY <1>1, <1>7, DeviationIs DEF Ok
  <2>2. \A m : [a EXCEPT !.model = m].status = a.status
    BY <1>1 DEF Answer
  <2>3. \/ d = o \/ request.act = "LIST"
        \/ \E x : d = Answering(o, x) /\ x.status = "SUCCESS"
    BY <2>1, <2>2
  <2> QED BY <1>1, <2>3, DeviationFields
<1>8. CASE defect = "progressNoId"
  <2> DEFINE x == [a EXCEPT !.model = [a.model EXCEPT !.id = NoId]]
  <2>1. d = IF a.status = "IN_PROGRESS" THEN Answering(o, x) ELSE o
    BY <1>1, <1>8, DeviationIs
  <2>2. x.model.id = NoId
    BY <1>1 DEF Answer, Model
  <2> HIDE DEF x
  <2> QED BY <1>1, <2>1, <2>2, DeviationFields
<1>9. CASE defect \in {"slow", "slowLater"}
  <2> DEFINE x == [a EXCEPT !.slow = TRUE]
  <2>1. d = o \/ d = Answering(o, x)
    BY <1>1, <1>9, DeviationIs
  <2>2. d.answer = a \/ d.answer = x
    <3> HIDE DEF x
    <3> QED BY <1>1, <2>1, DeviationFields
  <2> QED BY <2>2
<1> QED BY <1>1, <1>2, <1>3, <1>4, <1>5, <1>6, <1>7, <1>8, <1>9 DEF Defect

LEMMA ProgressStep ==
  ASSUME TypeInv, TokenInv, RequestInv, ProgressInv, [Next]_vars
  PROVE  ProgressInv'
<1>1. CASE HandlerAnswers
  <2>1. PICK o : /\ IsConforming(o) /\ Sound(o) /\ Deviation(o) \in Outcome
                 /\ answer' = Deviation(o).answer
    BY <1>1, HandlerOutcome
  <2> DEFINE a == o.answer
  <2>2. /\ OutcomeOK(o) /\ o \in Outcome /\ a \in Answer /\ defect \in Defect \cup {"none"} /\ a.model \in Model
    BY <2>1, OutcomeTypes DEF IsConforming
  <2>3. request' = request
    BY <1>1 DEF HandlerAnswers
  <2>4. a.status = "IN_PROGRESS" =>
          /\ a.left > 0 /\ a.model.props = request.model.props
          /\ request.act # "CREATE" => a.model = request.model
    BY <2>1 DEF Sound
  <2>5. \/ answer' = a
        \/ answer'.status # "IN_PROGRESS" \/ answer'.model.id = NoId \/ request.act \in {"READ", "LIST"}
        \/ answer' = [a EXCEPT !.slow = TRUE]
    BY <2>1, ProgressAnswers
  <2>6. answer' = [a EXCEPT !.slow = TRUE] =>
          answer'.status = a.status /\ answer'.left = a.left /\ answer'.model = a.model
    BY <2>2 DEF Answer
  <2> HIDE DEF a
  <2> QED BY <2>3, <2>4, <2>5, <2>6 DEF ProgressInv, Raises
<1>2. CASE UNCHANGED clientVars
  BY <1>2 DEF ProgressInv, clientVars, Raises
<1>3. CASE phase' # "answered"
  BY <1>3 DEF ProgressInv
<1> QED BY <1>1, <1>2, <1>3, Turns

-----------------------------------------------------------------------------
(* The invariants about the resources the tests have.                       *)

(* Between the tests no call is under way.                                  *)
LEMMA AnsweredCreate ==
  ASSUME TypeInv, phase = "answered"
  PROVE  step > 0
BY DEF TypeInv, BlockInv

LEMMA Quiet == ASSUME TypeInv, step = 0 PROVE phase = "idle" /\ cleaning = FALSE
BY DEF TypeInv, TypeOK, BlockInv

(* How the suite goes on after a call that let nothing fail.                *)
Onward ==
  \/ at = 1 /\ cleaning = FALSE /\ step = 1 /\ at' = 1 /\ cleaning' = TRUE /\ step' = 1
  \/ at = 1 /\ cleaning = TRUE /\ step = 1 /\ at' = 2 /\ cleaning' = FALSE /\ step' = 0
  \/ at \in {5, 7, 12, 14} /\ cleaning = FALSE /\ step = 1 /\ at' = at /\ cleaning' = FALSE /\ step' = 2
  \/ at \in {5, 7, 12, 14} /\ cleaning = FALSE /\ step = 2 /\ at' = at + 1 /\ cleaning' = FALSE /\ step' = 0
  \/ at \in {2, 3, 4, 6, 8, 9, 10, 11, 13, 15, 16, 17, 18} /\ cleaning = FALSE /\ step = 1
     /\ at' = at + 1 /\ cleaning' = FALSE /\ step' = 0

LEMMA Lengths ==
  /\ \A k \in {1, 2, 3, 4, 6, 8, 9, 10, 11, 13, 15, 16, 17, 18} : Len(Suite[k].body) = 1
  /\ \A k \in {5, 7, 12, 14} : Len(Suite[k].body) = 2
  /\ Len(Suite[1].finally) = 1
<1>1. \A c, d : Len(<<c>>) = 1 /\ Len(<<c, d>>) = 2
  OBVIOUS
<1>2. /\ \A k \in {1, 2, 3, 4, 6} : \E c : Suite[k].body = <<c>>
      /\ \E c, d : Suite[5].body = <<c, d>>
      /\ \E c : Suite[1].finally = <<c>>
  BY CreateTests DEF IsTest, IsSetup
<1>3. /\ \A k \in {8, 9, 10, 11, 13} : \E c : Suite[k].body = <<c>>
      /\ \E c, d : Suite[7].body = <<c, d>>
      /\ \E c, d : Suite[12].body = <<c, d>>
  <2>1. \A k \in {8, 9, 10, 11, 13} : \E c : Suite[k].body = <<c>>
    <3>1. /\ Suite[8].body = <<Call("READ", "model", "NotFound", "none", {})>>
          /\ Suite[9].body = <<Call("LIST", "model", "SUCCESS", "none", {"unlisted"})>>
          /\ Suite[10].body = <<Call("UPDATE", "update", "NotFound", "none", {})>>
          /\ Suite[11].body = <<Delete("model", "NotFound")>>
          /\ Suite[13].body = <<Delete("model", "SUCCESS or NotFound")>>
      BY DeleteTests, Zenon DEF IsTest
    <3> QED BY <3>1, Zenon
  <2>2. \E c, d : Suite[7].body = <<c, d>>
    BY DeleteTests, Zenon DEF IsSetup
  <2>3. \E c, d : Suite[12].body = <<c, d>>
    <3>1. Suite[12].body = <<Create("second", {"id"}), Delete("second", "SUCCESS")>>
      BY DeleteTests DEF IsTest
    <3> QED BY <3>1, Zenon
  <2> QED BY <2>1, <2>2, <2>3
<1>4. /\ \A k \in {15, 16, 17, 18} : \E c : Suite[k].body = <<c>>
      /\ \E c, d : Suite[14].body = <<c, d>>
  BY UpdateTests DEF IsTest, IsSetup
<1>5. \A s : /\ (\E c : s = <<c>>) => Len(s) = 1
             /\ (\E c, d : s = <<c, d>>) => Len(s) = 2
  BY <1>1
<1>6. \A k \in {1, 2, 3, 4, 6, 8, 9, 10, 11, 13, 15, 16, 17, 18} : \E c : Suite[k].body = <<c>>
  BY <1>2, <1>3, <1>4
<1>7. \A k \in {5, 7, 12, 14} : \E c, d : Suite[k].body = <<c, d>>
  BY <1>2, <1>3, <1>4
<1> QED BY <1>2, <1>5, <1>6, <1>7, Zenon

LEMMA OnwardIs ==
  ASSUME TypeInv, ControlInv, Conclude, failed' = {}
  PROVE  Onward /\ failed = {} /\ Passed(Now) /\ step > 0
<1>1. step > 0
  BY DEF Conclude, Returned, TypeInv, BlockInv
<1>2. Passed(Now) \in BOOLEAN /\ After(Passed(Now))
  BY DEF Passed, Accepted, Conclude
<1>3. /\ Passed(Now) /\ failed = {} /\ at \in 1 .. 18
      /\ \/ at = 1 /\ step = Len(Calls) /\ cleaning = FALSE /\ at' = 1 /\ cleaning' = TRUE /\ step' = 1
         \/ step # Len(Calls) /\ step' = step + 1 /\ UNCHANGED <<at, cleaning>>
         \/ step = Len(Calls) /\ Leave
  BY <1>1, <1>2, AfterPassed, Zenon
<1>4. step \in 1 .. 2 /\ step <= Len(Calls) /\ (cleaning = TRUE \/ cleaning = FALSE)
  <2>1. step \in 0 .. 2 /\ cleaning \in BOOLEAN
    BY DEF TypeInv, TypeOK
  <2> QED BY <1>1, <2>1 DEF TypeInv, BlockInv
<1>5. cleaning = TRUE => at = 1
  BY <1>3 DEF ControlInv
<1>6. at \in {1, 2, 3, 4, 5, 6, 7, 8, 9, 10, 11, 12, 13, 14, 15, 16, 17, 18}
  BY <1>3
<1>7. CASE cleaning = TRUE
  <2>1. Len(Calls) = 1
    BY <1>5, <1>7, Lengths DEF Calls, Block
  <2>2. step = 1
    BY <1>4, <2>1
  <2> QED BY <1>1, <1>3, <1>5, <1>7, <2>1, <2>2 DEF Leave, Onward
<1>8. CASE cleaning = FALSE
  <2>1. Calls = Suite[at].body
    BY <1>8 DEF Calls, Block
  <2>2. CASE at \in {5, 7, 12, 14}
    <3>1. Len(Calls) = 2
      BY <2>1, <2>2, Lengths
    <3>2. CASE step = 1
      BY <1>1, <1>3, <1>8, <2>2, <3>1, <3>2 DEF Onward
    <3>3. CASE step = 2
      BY <1>1, <1>3, <1>8, <2>2, <3>1, <3>3 DEF Onward, Leave
    <3> QED BY <1>4, <3>2, <3>3
  <2>3. CASE at \in {2, 3, 4, 6, 8, 9, 10, 11, 13, 15, 16, 17, 18}
    <3>1. Len(Calls) = 1
      BY <2>1, <2>3, Lengths
    <3>2. step = 1
      BY <1>4, <3>1
    <3> QED BY <1>1, <1>3, <1>8, <2>3, <3>1, <3>2 DEF Onward, Leave
  <2>4. CASE at = 1
    <3>1. Len(Calls) = 1
      BY <2>1, <2>4, Lengths
    <3>2. step = 1
      BY <1>4, <3>1
    <3>3. Calls = <<Create("model", {"id", "echo"})>> /\ Block.finally # <<>> /\ Block.fixture = FALSE
      BY <2>1, <2>4, CreateTests DEF Block
    <3>4. ~Leave
      BY <1>2, <1>3, <1>8, <3>1, <3>2, <3>3 DEF After, Leave
    <3> QED BY <1>1, <1>3, <1>8, <2>4, <3>1, <3>2, <3>4 DEF Onward
  <2> QED BY <1>6, <2>2, <2>3, <2>4
<1> QED BY <1>4, <1>7, <1>8

(* What a call that passed says, by the test that made it.                  *)
LEMMA CreatePasses ==
  ASSUME TypeInv, RequestInv, AnswerInv, phase = "answered", Passed(Now), Now.act = "CREATE", Now.expect = "SUCCESS"
  PROVE  /\ answer.status = "SUCCESS" /\ request.act = "CREATE" /\ ~Raises
         /\ answer.model.id \in used \cup {NoId}
         /\ defect # "createNoId" => answer.model.id \in Ids
         /\ defect = "deleteKeeps" => live[answer.model.id] # "none"
         /\ "echo" \in Now.check => answer.model.props = "create"
<1>1. answer.status = "SUCCESS" /\ request.act = "CREATE" /\ ~Raises
  BY DEF Passed, Accepted, Expected, RequestInv
<1>2. step > 0
  BY AnsweredCreate
<1>3. Argument(Now).props = "create"
  BY <1>2, ArgumentFields
<1>4. "echo" \in Now.check => answer.model.props = "create"
  BY <1>3 DEF Passed, Echoed
<1>5. used \subseteq Ids /\ NoId \notin Ids
  BY IdsAssumption DEF TypeInv, TypeOK, ClientTypeOK
<1> QED BY <1>1, <1>4, <1>5 DEF AnswerInv

(* The calls of the bodies that make a resource or catch a defect.          *)
LEMMA NowRuns ==
  ASSUME TypeInv, step > 0, cleaning = FALSE
  PROVE  /\ at = 1 => Now = Create("model", {"id", "echo"})
         /\ at = 2 => Now = Create("model", {"echo"})
         /\ at = 3 => Now = Call("CREATE", "request", "AlreadyExists", "none", {})
         /\ at = 4 => Now = Call("READ", "model", "SUCCESS", "none", {"id", "secret", "echo"})
         /\ at = 5 /\ step = 1 => Now = Call("LIST", "model", "SUCCESS", "none", {"listed"})
         /\ at = 7 /\ step = 1 => Now = Create("model", {"echo"})
         /\ at = 7 /\ step = 2 => Now = Call("DELETE", "model", "SUCCESS", "none", {"noModel"})
         /\ at = 8 => Now = Call("READ", "model", "NotFound", "none", {})
         /\ at = 9 => Now = Call("LIST", "model", "SUCCESS", "none", {"unlisted"})
         /\ at = 10 => Now = Call("UPDATE", "update", "NotFound", "none", {})
         /\ at = 11 => Now = Delete("model", "NotFound")
         /\ at = 14 /\ step = 1 => Now = Create("model", {"echo"})
         /\ at = 14 /\ step = 2 => Now = Call("UPDATE", "update", "SUCCESS", "second", {"echo"})
         /\ at = 15 => Now = Call("READ", "second", "SUCCESS", "none", {"sameId", "id", "secret", "echo"})
<1>1. Now = Suite[at].body[step] /\ step \in 1 .. 2 /\ step <= Len(Suite[at].body)
  BY DEF Now, Calls, Block, TypeInv, TypeOK, BlockInv
<1>2. \A k, c : at = k /\ Suite[k].body = <<c>> => Now = c
  BY <1>1
<1>3. \A k, c, d : at = k /\ Suite[k].body = <<c, d>> => (step = 1 => Now = c) /\ (step = 2 => Now = d)
  BY <1>1
<1>4. at = 1 => Now = Create("model", {"id", "echo"})
  <2>1. Suite[1].body = <<Create("model", {"id", "echo"})>>
    BY CreateTests DEF IsTest, IsSetup
  <2> QED BY <1>2, <2>1, Zenon
<1>5. at = 2 => Now = Create("model", {"echo"})
  <2>1. Suite[2].body = <<Create("model", {"echo"})>>
    BY CreateTests DEF IsTest, IsSetup
  <2> QED BY <1>2, <2>1, Zenon
<1>6. at = 3 => Now = Call("CREATE", "request", "AlreadyExists", "none", {})
  <2>1. Suite[3].body = <<Call("CREATE", "request", "AlreadyExists", "none", {})>>
    BY CreateTests DEF IsTest, IsSetup
  <2> QED BY <1>2, <2>1, Zenon
<1>7. at = 4 => Now = Call("READ", "model", "SUCCESS", "none", {"id", "secret", "echo"})
  <2>1. Suite[4].body = <<Call("READ", "model", "SUCCESS", "none", {"id", "secret", "echo"})>>
    BY CreateTests DEF IsTest, IsSetup
  <2> QED BY <1>2, <2>1, Zenon
<1>8. at = 8 => Now = Call("READ", "model", "NotFound", "none", {})
  <2>1. Suite[8].body = <<Call("READ", "model", "NotFound", "none", {})>>
    BY DeleteTests DEF IsTest, IsSetup
  <2> QED BY <1>2, <2>1, Zenon
<1>9. at = 9 => Now = Call("LIST", "model", "SUCCESS", "none", {"unlisted"})
  <2>1. Suite[9].body = <<Call("LIST", "model", "SUCCESS", "none", {"unlisted"})>>
    BY DeleteTests DEF IsTest, IsSetup
  <2> QED BY <1>2, <2>1, Zenon
<1>10. at = 10 => Now = Call("UPDATE", "update", "NotFound", "none", {})
  <2>1. Suite[10].body = <<Call("UPDATE", "update", "NotFound", "none", {})>>
    BY DeleteTests DEF IsTest, IsSetup
  <2> QED BY <1>2, <2>1, Zenon
<1>11. at = 11 => Now = Delete("model", "NotFound")
  <2>1. Suite[11].body = <<Delete("model", "NotFound")>>
    BY DeleteTests DEF IsTest, IsSetup
  <2> QED BY <1>2, <2>1, Zenon
<1>12. at = 15 => Now = Call("READ", "second", "SUCCESS", "none", {"sameId", "id", "secret", "echo"})
  <2>1. Suite[15].body = <<Call("READ", "second", "SUCCESS", "none", {"sameId", "id", "secret", "echo"})>>
    BY UpdateTests DEF IsTest, IsSetup
  <2> QED BY <1>2, <2>1, Zenon
<1>13. at = 5 => (step = 1 => Now = Call("LIST", "model", "SUCCESS", "none", {"listed"}))
               /\ (step = 2 => Now = Call("READ", "model", "SUCCESS", "none", {"id", "secret", "echo"}))
  <2>1. Suite[5].body = <<Call("LIST", "model", "SUCCESS", "none", {"listed"}), Call("READ", "model", "SUCCESS", "none", {"id", "secret", "echo"})>>
    BY CreateTests DEF IsTest, IsSetup
  <2> QED BY <1>3, <2>1, Zenon
<1>14. at = 7 => (step = 1 => Now = Create("model", {"echo"}))
               /\ (step = 2 => Now = Call("DELETE", "model", "SUCCESS", "none", {"noModel"}))
  <2>1. Suite[7].body = <<Create("model", {"echo"}), Call("DELETE", "model", "SUCCESS", "none", {"noModel"})>>
    BY DeleteTests DEF IsTest, IsSetup
  <2> QED BY <1>3, <2>1, Zenon
<1>15. at = 14 => (step = 1 => Now = Create("model", {"echo"}))
               /\ (step = 2 => Now = Call("UPDATE", "update", "SUCCESS", "second", {"echo"}))
  <2>1. Suite[14].body = <<Create("model", {"echo"}), Call("UPDATE", "update", "SUCCESS", "second", {"echo"})>>
    BY UpdateTests DEF IsTest, IsSetup
  <2> QED BY <1>3, <2>1, Zenon
<1> QED BY <1>4, <1>5, <1>6, <1>7, <1>8, <1>9, <1>10, <1>11, <1>12, <1>13, <1>14, <1>15, Zenon

LEMMA Needs ==
  /\ \A k \in {3, 4, 5, 6, 8, 9, 10, 11, 12, 13, 15, 16, 17} : Suite[k].needs # "none"
  /\ \A k \in {2, 7} : SelectedAt(k)
  /\ \A k \in {14, 15, 16, 17} : SelectedAt(k) => "update" \in type.handlers
  /\ "update" \in type.handlers => SelectedAt(14) /\ SelectedAt(15)
<1>1. \A k \in {3, 4, 5, 6} : Suite[k].needs # "none"
  BY CreateTests DEF IsTest
<1>2. \A k \in {8, 9, 10, 11, 12, 13} : Suite[k].needs # "none"
  BY DeleteTests DEF IsTest
<1>3. \A k \in {15, 16, 17} : Suite[k].needs # "none"
  BY UpdateTests DEF IsTest
<1>4. \A k \in {2, 7} : SelectedAt(k)
  BY CreateTests, DeleteTests DEF IsSetup, SelectedAt
<1>5. /\ \A k \in {14, 15, 16, 17} : SelectedAt(k) => "update" \in type.handlers
      /\ "update" \in type.handlers => SelectedAt(14) /\ SelectedAt(15)
  BY UpdateTests DEF IsTest, IsSetup, SelectedAt
<1> QED BY <1>1, <1>2, <1>3, <1>4, <1>5

(* The place where a test begins, or is skipped.                            *)
LEMMA Enters ==
  ASSUME TypeInv, Enter, failed' = {}
  PROVE  /\ at \in 1 .. 18 /\ step = 0 /\ cleaning = FALSE /\ phase = "idle" /\ phase' = "idle"
         /\ \/ ~SelectedAt(at) /\ at' = at + 1 /\ step' = 0 /\ cleaning' = FALSE /\ UNCHANGED <<model, second>>
            \/ /\ SelectedAt(at) /\ at' = at /\ step' = 1 /\ cleaning' = FALSE
               /\ Suite[at].needs # "none" => UNCHANGED <<model, second>>
               /\ model' \in {model, NoModel, CreateExample} /\ second' \in {second, NoModel}
<1>1. step = 0 /\ cleaning = FALSE /\ phase = "idle" /\ phase' = "idle" /\ at \in 1 .. 18
  <2>1. step = 0 /\ phase' = phase /\ ~(at > 18)
    BY SuiteIs DEF Enter, clientVars, Done
  <2>2. at \in 1 .. 19
    BY SuiteIs DEF TypeInv, TypeOK
  <2> QED BY <2>1, <2>2, Quiet
<1>2. Selected <=> SelectedAt(at)
  BY DEF Selected, SelectedAt, Block
<1>3. \/ ~Selected /\ Leave /\ UNCHANGED <<failed, model, second>>
      \/ /\ Selected /\ step' = 1 /\ UNCHANGED <<at, cleaning, failed>>
         /\ model' = CASE Block.needs # "none" -> model
                       [] Block.needs = "none" /\ Block.name = "updated_resource" -> NoModel
                       [] OTHER -> CreateExample
         /\ second' = IF Block.needs # "none" THEN second ELSE NoModel
  BY DEF Enter, Fail
<1>4. CASE ~Selected /\ Leave /\ UNCHANGED <<failed, model, second>>
  BY <1>1, <1>2, <1>4 DEF Leave
<1>5. CASE /\ Selected /\ step' = 1 /\ UNCHANGED <<at, cleaning, failed>>
           /\ model' = CASE Block.needs # "none" -> model
                         [] Block.needs = "none" /\ Block.name = "updated_resource" -> NoModel
                         [] OTHER -> CreateExample
           /\ second' = IF Block.needs # "none" THEN second ELSE NoModel
  <2>1. /\ Block.needs # "none" => UNCHANGED <<model, second>>
        /\ model' \in {model, NoModel, CreateExample} /\ second' \in {second, NoModel}
    BY <1>5
  <2>2. Block.needs = Suite[at].needs
    BY DEF Block
  <2> QED BY <1>1, <1>2, <1>5, <2>1, <2>2
<1> QED BY <1>3, <1>4, <1>5

LEMMA HoldingStep ==
  ASSUME TypeInv, ControlInv, TokenInv, RequestInv, HoldingInv, AnswerInv, [Next]_vars
  PROVE  HoldingInv'
<1> SUFFICES ASSUME failed' = {}, Holding'
             PROVE  /\ model'.props = "create"
                    /\ model'.id \in used' \cup {NoId}
                    /\ defect' # "createNoId" => model'.id \in Ids
                    /\ defect' = "deleteKeeps" => live'[model'.id] # "none"
  BY DEF HoldingInv
<1>1. failed = {} /\ used \subseteq used' /\ type' = type /\ defect' = defect
  BY FailedStays, UsedStep, Settled
<1>2. at \in 1 .. 19 /\ step \in 0 .. 2 /\ cleaning \in BOOLEAN
  BY SuiteIs DEF TypeInv, TypeOK
<1>3. CASE Holding /\ model' = model
  <2>1. /\ model.props = "create" /\ model.id \in used \cup {NoId}
        /\ defect # "createNoId" => model.id \in Ids
        /\ defect = "deleteKeeps" => live[model.id] # "none"
    BY <1>1, <1>3 DEF HoldingInv
  <2>2. defect = "deleteKeeps" => live'[model.id] # "none"
    BY <2>1, KeepsStep
  <2> QED BY <1>1, <1>3, <2>1, <2>2
<1>4. CASE UNCHANGED <<at, step, cleaning, model>>
  <2>1. Holding
    BY <1>1, <1>4 DEF Holding
  <2> QED BY <1>3, <1>4, <2>1
<1>5. CASE Enter
  <2>1. CASE ~SelectedAt(at) /\ at' = at + 1 /\ step' = 0 /\ cleaning' = FALSE /\ model' = model
    <3>1. /\ ~SelectedAt(at) => at \notin {2, 7} /\ (at = 14 => "update" \notin type.handlers)
      BY Needs
    <3>2. Holding
      BY <1>1, <1>2, <2>1, <3>1 DEF Holding
    <3> QED BY <1>3, <2>1, <3>2
  <2>2. CASE /\ at' = at /\ step' = 1 /\ cleaning' = FALSE
             /\ Suite[at].needs # "none" => model' = model
    <3>1. /\ at \in {3, 4, 5, 6, 8, 9, 10, 11, 12, 13, 15, 16, 17}
          /\ at \in {15, 16, 17} => "update" \in type.handlers
      BY <1>1, <1>2, <2>2 DEF Holding
    <3>2. Holding
      BY <3>1 DEF Holding
    <3> QED BY <1>3, <2>2, <3>1, <3>2, Needs
  <2> QED BY <1>5, <2>1, <2>2, Enters
<1>6. CASE Conclude
  <2>1. Onward /\ Passed(Now) /\ step > 0 /\ phase = "answered" /\ UNCHANGED handlerVars
    BY <1>6, OnwardIs DEF Conclude, Returned
  <2>2. CASE Now.into = "model"
    <3>1. Now.act = "CREATE" /\ Now.expect = "SUCCESS" /\ "echo" \in Now.check
      BY <2>1, <2>2, NowFits
    <3>2. model' = answer.model
      BY <1>6, <2>1, <2>2 DEF Conclude, Passed
    <3> QED BY <1>1, <2>1, <3>1, <3>2, CreatePasses DEF handlerVars
  <2>3. CASE Now.into # "model"
    <3>1. model' = model
      BY <1>6, <2>3 DEF Conclude
    <3>2. cleaning = FALSE /\ step = 1 => at \notin {1, 2, 7, 14}
      <4>1. \A check : Create("model", check).into = "model"
        BY CallFields
      <4> QED BY <2>1, <2>3, <4>1, NowRuns
    <3>3. Holding
      BY <1>1, <2>1, <3>2 DEF Holding, Onward
    <3> QED BY <1>3, <3>1, <3>3
  <2> QED BY <2>2, <2>3
<1>7. ~(CallHandler /\ After(FALSE))
  BY DEF After, Fail
<1>8. CASE ~Enter /\ ~Conclude
  BY <1>4, <1>7, <1>8 DEF Next, vars, suiteVars, CallHandler, NextPage
<1> QED BY <1>5, <1>6, <1>8

LEMMA SecondStep ==
  ASSUME TypeInv, ControlInv, RequestInv, SecondInv, AnswerInv, [Next]_vars
  PROVE  SecondInv'
<1> SUFFICES ASSUME failed' = {}, at' \in {15, 16}, "update" \in type'.handlers
             PROVE  second'.props = "update"
  BY DEF SecondInv
<1>1. failed = {} /\ type' = type
  BY FailedStays, Settled
<1>2. CASE at \in {15, 16} /\ second' = second
  BY <1>1, <1>2 DEF SecondInv
<1>3. CASE Enter
  <2>1. at \in 1 .. 18 /\ (SelectedAt(14) <=> "update" \in type.handlers)
    BY <1>3, Enters, Needs
  <2>2. CASE ~SelectedAt(at) /\ at' = at + 1 /\ second' = second
    BY <1>1, <1>2, <2>1, <2>2
  <2>3. CASE at' = at /\ (Suite[at].needs # "none" => second' = second)
    <3>1. at \in {15, 16} /\ Suite[at].needs # "none"
      BY <2>3, Needs
    <3> QED BY <1>2, <2>3, <3>1
  <2> QED BY <1>3, <2>2, <2>3, Enters
<1>4. CASE Conclude
  <2>1. Onward /\ Passed(Now) /\ step > 0 /\ phase = "answered"
    BY <1>4, OnwardIs DEF Conclude, Returned
  <2>2. CASE Now.into = "second"
    <3>1. Now.act = "UPDATE" /\ "echo" \in Now.check
      BY <2>1, <2>2, NowFits DEF Onward
    <3>2. second' = answer.model
      BY <1>4, <2>1, <2>2 DEF Conclude, Passed
    <3>3. answer.model.props = Argument(Now).props
      BY <2>1, <3>1 DEF Passed, Echoed
    <3> QED BY <2>1, <3>1, <3>2, <3>3, ArgumentFields
  <2>3. CASE Now.into # "second"
    <3>1. second' = second
      BY <1>4, <2>3 DEF Conclude
    <3>2. ~(at = 14 /\ step = 2 /\ cleaning = FALSE)
      <4>1. Call("UPDATE", "update", "SUCCESS", "second", {"echo"}).into = "second"
        BY DEF Call
      <4> QED BY <2>1, <2>3, <4>1, NowRuns
    <3>3. at \in {15, 16}
      BY <2>1, <3>2 DEF Onward
    <3> QED BY <1>2, <3>1, <3>3
  <2> QED BY <2>2, <2>3
<1>5. ~(CallHandler /\ After(FALSE))
  BY DEF After, Fail
<1>6. CASE ~Enter /\ ~Conclude
  BY <1>2, <1>5, <1>6 DEF Next, vars, suiteVars, CallHandler, NextPage
<1> QED BY <1>3, <1>4, <1>6

(* When a call of an update or a listing is made, the type has the handler. *)
LEMMA Handlers ==
  ASSUME TypeInv, ControlInv, RequestInv, phase # "idle"
  PROVE  /\ request.act = "UPDATE" => "update" \in type.handlers
         /\ request.act = "LIST" => "list" \in type.handlers
<1>1. step > 0 /\ Selected
  BY DEF TypeInv, BlockInv, ControlInv
<1> QED BY <1>1, NowFits DEF Selected, RequestInv

(* What shows of a defect shows when the handler answers.                   *)
LEMMA Shows ==
  ASSUME TypeInv, TokenInv, RequestInv, PendingInv, [Next]_vars, shown' = TRUE, shown # TRUE
  PROVE  /\ HandlerAnswers
         /\ \E o : /\ IsConforming(o) /\ Sound(o) /\ Deviation(o) # o /\ Deviation(o) \in Outcome
                   /\ answer' = Deviation(o).answer
<1>1. ~UNCHANGED handlerVars
  BY DEF handlerVars
<1>2. HandlerAnswers
  BY <1>1, Turns
<1>3. shown \in BOOLEAN
  BY DEF TypeInv, TypeOK, ClientTypeOK
<1> QED BY <1>2, <1>3, HandlerOutcome

LEMMA ShownStep ==
  ASSUME TypeInv, ControlInv, TokenInv, RequestInv, PendingInv, ShownInv, [Next]_vars
  PROVE  ShownInv'
<1>1. defect' = defect /\ type' = type /\ shown \in BOOLEAN /\ shown' \in BOOLEAN
  BY Settled, NextType DEF TypeInv, TypeOK, ClientTypeOK
<1>2. CASE shown = TRUE
  BY <1>1, <1>2 DEF ShownInv
<1>3. CASE shown' # TRUE
  BY <1>1, <1>3 DEF ShownInv
<1>4. CASE shown' = TRUE /\ shown # TRUE
  <2>1. PICK o : IsConforming(o) /\ Sound(o) /\ Deviation(o) # o
    BY <1>4, Shows
  <2>2. phase = "sent" /\ OutcomeOK(o)
    BY <1>4, <2>1, Shows DEF HandlerAnswers, IsConforming
  <2>3. defect # "none"
    BY <2>1, <2>2, DeviationIs
  <2>4. defect = "createAgain" => type.writable
    <3>1. defect = "createAgain" => Refused(o, "CREATE", "AlreadyExists")
      BY <2>1, <2>2, DeviationIs
    <3> QED BY <2>1, <3>1 DEF Refused, Sound
  <2>5. defect \in {"updateCreates", "updatePartial", "updateNewId"} => request.act = "UPDATE"
    BY <2>1, <2>2, DeviationIs DEF Refused, Ok
  <2>6. defect \in {"listGhost", "listMisses"} => request.act = "LIST"
    BY <2>1, <2>2, DeviationIs DEF Ok
  <2> QED BY <1>1, <2>2, <2>3, <2>4, <2>5, <2>6, Handlers DEF ShownInv
<1> QED BY <1>2, <1>3, <1>4

(* A step after which nothing has failed does not go on as after a failure. *)
LEMMA NoFailedCall ==
  ASSUME failed' = {}
  PROVE  ~After(FALSE) /\ ~Fail
BY DEF After, Fail

LEMMA PendingStep ==
  ASSUME TypeInv, ControlInv, TokenInv, RequestInv, HoldingInv, AnswerInv, ShownInv, PendingInv, [Next]_vars
  PROVE  PendingInv'
<1> SUFFICES ASSUME shown' = TRUE, failed' = {}, defect \in {"progressNoId", "updateNewId"}
             PROVE  /\ defect = "progressNoId" =>
                         phase' = "answered" /\ answer'.status = "IN_PROGRESS" /\ answer'.model.id = NoId
                    /\ defect = "updateNewId" =>
                         \/ /\ phase' = "answered" /\ request'.act = "UPDATE" /\ answer'.status = "SUCCESS"
                            /\ answer'.model.id # request'.model.id
                         \/ at' = 15 /\ phase' = "idle" /\ second'.id # model'.id
  <2>1. defect' = defect /\ shown' \in BOOLEAN
    BY Settled, NextType DEF TypeInv, TypeOK, ClientTypeOK
  <2> QED BY <2>1 DEF PendingInv
<1>1. failed = {} /\ type' = type
  BY FailedStays, Settled
<1>2. ~After(FALSE)
  BY NoFailedCall
<1>3. CASE shown # TRUE
  <2>1. PICK o : /\ IsConforming(o) /\ Sound(o) /\ Deviation(o) # o /\ answer' = Deviation(o).answer
    BY <1>3, Shows
  <2>2. phase' = "answered" /\ request' = request
    BY <1>3, Shows DEF HandlerAnswers
  <2>3. /\ OutcomeOK(o) /\ o \in Outcome /\ o.answer \in Answer /\ o.answer.model \in Model /\ o.used \subseteq Ids
    BY <2>1, OutcomeTypes DEF IsConforming
  <2>4. CASE defect = "progressNoId"
    <3> DEFINE x == [o.answer EXCEPT !.model = [o.answer.model EXCEPT !.id = NoId]]
    <3>1. Deviation(o) = Answering(o, x) /\ o.answer.status = "IN_PROGRESS"
      BY <2>1, <2>3, <2>4, DeviationIs
    <3>2. x.status = o.answer.status /\ x.model.id = NoId
      BY <2>3 DEF Answer, Model
    <3> HIDE DEF x
    <3>3. answer' = x
      BY <2>1, <2>3, <3>1, DeviationFields
    <3> QED BY <2>2, <2>4, <3>1, <3>2, <3>3
  <2>5. CASE defect = "updateNewId"
    <3> DEFINE y == Leaving(o, [o.live EXCEPT ![o.answer.model.id] = "none"])
    <3>1. Ok(o, "UPDATE") /\ HasFree(o.used) /\ Deviation(o) = Moved(y, Free(o.used), request.model.props)
      BY <2>1, <2>3, <2>5, DeviationIs
    <3> HIDE DEF y
    <3>2. answer'.status = "SUCCESS" /\ answer'.model.id = Free(o.used)
      BY <2>1, <3>1 DEF Moved, Success
    <3>3. request.act = "UPDATE" /\ request.model.id \in o.used
      BY <2>1, <3>1 DEF Ok, Sound
    <3>4. Free(o.used) # request.model.id
      BY <2>3, <3>1, <3>3, FreeIsNot
    <3> QED BY <2>2, <2>5, <3>2, <3>3, <3>4
  <2> QED BY <2>4, <2>5
<1>4. CASE shown = TRUE /\ defect = "progressNoId"
  <2>1. phase = "answered" /\ answer.status = "IN_PROGRESS" /\ answer.model.id = NoId
    BY <1>1, <1>4 DEF PendingInv
  <2>2. Raises /\ step > 0
    BY <2>1 DEF Raises, TypeInv, BlockInv
  <2>3. ~Conclude
    BY <2>2, OnwardIs DEF Passed, Accepted, Expected
  <2>4. ~Enter /\ ~CallHandler
    BY <2>1, <2>2 DEF Enter, CallHandler
  <2>5. ~NextPage /\ ~Reinvoke /\ ~HandlerAnswers
    BY <2>1, <2>2 DEF NextPage, Succeeded, Reinvoke, HandlerAnswers
  <2>6. UNCHANGED vars
    BY <2>3, <2>4, <2>5 DEF Next
  <2> QED BY <1>4, <2>1, <2>6 DEF vars, clientVars
<1>5. CASE shown = TRUE /\ defect = "updateNewId"
  <2>1. "update" \in type.handlers
    BY <1>5 DEF ShownInv
  <2>2. CASE /\ phase = "answered" /\ request.act = "UPDATE" /\ answer.status = "SUCCESS"
             /\ answer.model.id # request.model.id
    <3>1. CASE Conclude
      <4>1. Onward /\ Passed(Now) /\ step > 0 /\ phase' = "idle"
        BY <3>1, OnwardIs DEF Conclude
      <4>2. Now.act = "UPDATE" /\ request.model = Argument(Now) /\ answer.code = "none"
        BY <2>2 DEF RequestInv, AnswerInv
      <4>3. Now.expect # "NotFound"
        BY <4>1, <4>2 DEF Passed, Accepted, Expected
      <4>4. at = 14 /\ step = 2 /\ Now.into = "second"
        BY <4>1, <4>2, <4>3, NowFits
      <4>5. second' = answer.model /\ model' = model
        BY <3>1, <4>1, <4>4 DEF Conclude, Passed
      <4>6. model.id \in Ids
        BY <1>1, <1>5, <4>4 DEF HoldingInv, Holding
      <4>7. request.model.id = model.id
        BY <4>1, <4>2, <4>6, ArgumentFields
      <4>8. at' = 15
        BY <4>1, <4>4 DEF Onward
      <4> QED BY <1>5, <2>2, <4>1, <4>5, <4>7, <4>8
    <3>2. CASE ~Conclude
      <4>1. ~Enter /\ ~CallHandler
        BY <2>2, Quiet DEF Enter, CallHandler
      <4>2. ~NextPage /\ ~Reinvoke /\ ~HandlerAnswers
        BY <2>2 DEF NextPage, Reinvoke, HandlerAnswers
      <4>3. UNCHANGED vars
        BY <3>2, <4>1, <4>2 DEF Next
      <4> QED BY <1>5, <2>2, <4>3 DEF vars, clientVars
    <3> QED BY <3>1, <3>2
  <2>3. CASE at = 15 /\ phase = "idle" /\ second.id # model.id
    <3>1. CASE Enter
      BY <1>1, <1>5, <2>1, <2>3, <3>1, Enters, Needs
    <3>2. ~CallHandler
      <4> SUFFICES ASSUME CallHandler PROVE FALSE
        OBVIOUS
      <4>1. step > 0 /\ Prepared(Now)
        BY <1>2 DEF CallHandler
      <4>2. cleaning = FALSE
        BY <1>1, <2>3 DEF ControlInv, TypeInv, TypeOK
      <4>3. "sameId" \in Now.check
        <5>1. Now = Call("READ", "second", "SUCCESS", "none", {"sameId", "id", "secret", "echo"})
          BY <2>3, <4>1, <4>2, NowRuns
        <5> QED BY <5>1 DEF Call
      <4> QED BY <2>3, <4>1, <4>3 DEF Prepared
    <3>3. ~Conclude /\ ~NextPage /\ ~Reinvoke /\ ~HandlerAnswers
      BY <2>3 DEF Conclude, Returned, NextPage, Reinvoke, HandlerAnswers
    <3>4. CASE UNCHANGED vars
      BY <1>5, <2>3, <3>4 DEF vars, clientVars, suiteVars
    <3> QED BY <3>1, <3>2, <3>3, <3>4 DEF Next
  <2> QED BY <1>1, <1>5, <2>2, <2>3 DEF PendingInv
<1>6. shown \in BOOLEAN
  BY DEF TypeInv, TypeOK, ClientTypeOK
<1> QED BY <1>3, <1>4, <1>5

-----------------------------------------------------------------------------
(* The resource that the account held before.                               *)

(* A handler that keeps the contract does not find by itself a resource     *)
(* that there is or whose identifier the developer did not choose.          *)
LEMMA ConformingApart ==
  ASSUME TypeInv, NEW f \in Ids, f \in used \/ type.writable = TRUE, f # request.model.id, f # op.id, NEW o, IsConforming(o)
  PROVE  /\ o.answer.model.id # f /\ o.op.id # f /\ o.live[f] = live[f]
<1>1. /\ request.model \in Model /\ live \in [Ids -> Props] /\ used \subseteq Ids /\ MaxPolls \in Nat
      /\ NoId \notin Ids /\ NoModel.id = NoId
  BY PollsAssumption, IdsAssumption DEF TypeInv, TypeOK, ClientTypeOK, Request, NoModel
<1>2. CASE IsRefusal(o) \/ IsListing(o)
  <2>1. o.answer.model = NoModel /\ o.op = op /\ o.live = live
    BY <1>2, AnswerFields DEF IsRefusal, IsListing
  <2> QED BY <1>1, <2>1
<1>3. CASE IsReading(o)
  <2> DEFINE m == [id |-> request.model.id, props |-> live[request.model.id], secret |-> FALSE]
  <2>1. o = Unchanged(Success(m)) /\ m.id = request.model.id
    BY <1>3 DEF IsReading
  <2> HIDE DEF m
  <2>2. o.answer.model = m /\ o.op = op /\ o.live = live
    BY <2>1, AnswerFields
  <2> QED BY <2>1, <2>2
<1>4. CASE IsOperation(o)
  <2>1. PICK i \in Ids, n \in 0 .. MaxPolls :
          /\ o = Perform(i, n)
          /\ request.act = "CREATE" => Creates(i)
          /\ request.act # "CREATE" => i = request.model.id
    BY <1>4 DEF IsOperation
  <2>2. i # f
    BY <2>1, FreeIsNot, <1>1 DEF Creates
  <2>3. o.op.id = i
    BY <2>1, PerformTakes
  <2>4. PICK props, answered :
          /\ Perform(i, n).live = [live EXCEPT ![i] = props] /\ Perform(i, n).answer = answered
          /\ props = CASE request.act = "DELETE" -> IF n = 0 THEN "none" ELSE live[i]
                       [] request.act = "CREATE" -> IF n = 0 THEN request.model.props ELSE "partial"
                       [] OTHER -> IF n = 0 THEN request.model.props ELSE live[i]
          /\ answered = CASE n > 0 -> Progress([request.model EXCEPT !.id = i], n)
                          [] n = 0 /\ request.act = "DELETE" -> Success(NoModel)
                          [] OTHER -> Success([id |-> i, props |-> props, secret |-> FALSE])
    BY PerformParts, Zenon
  <2>5. o.live[f] = live[f]
    BY <1>1, <2>1, <2>2, <2>4
  <2>6. answered.model.id \in {i, NoId}
    <3> DEFINE a == Progress([request.model EXCEPT !.id = i], n)
               b == Success(NoModel)
               c == Success([id |-> i, props |-> props, secret |-> FALSE])
    <3>1. a.model.id = i
      BY <1>1 DEF Progress, Success, Model
    <3>2. b.model.id = NoId
      BY <1>1 DEF Success
    <3>3. c.model.id = i
      BY DEF Success
    <3>4. answered = a \/ answered = b \/ answered = c
      <4> HIDE DEF a, b, c
      <4>1. n \in Nat
        BY <1>1
      <4> QED BY <2>4, <4>1 DEF a, b, c
    <3> HIDE DEF a, b, c
    <3> QED BY <3>1, <3>2, <3>3, <3>4
  <2> QED BY <1>1, <2>1, <2>2, <2>3, <2>4, <2>5, <2>6
<1> QED BY <1>2, <1>3, <1>4 DEF IsConforming

LEMMA DeviationApart ==
  ASSUME TypeInv, NEW f \in Ids, f \in used \/ defect \notin {"updateCreates", "updateNewId"}, f # request.model.id, NEW o, IsConforming(o), Sound(o),
         o.answer.model.id # f, NEW d, d = Deviation(o)
  PROVE  d.answer.model.id # f /\ (o.live[f] = live[f] => d.live[f] = live[f])
<1> DEFINE m == o.answer.model
<1>1. /\ OutcomeOK(o) /\ o \in Outcome /\ o.answer \in Answer /\ m \in Model /\ o.live \in [Ids -> Props]
      /\ o.used \subseteq Ids /\ NoId \notin Ids /\ live \in [Ids -> Props] /\ (f \in used => f \in o.used) /\ NoModel.id = NoId
      /\ defect \in Defect \cup {"none"} /\ request.model \in Model
  BY OutcomeTypes DEF IsConforming, Sound, NoModel
<1>2. CASE defect = "createAgain"
  <2>1. d = o \/ d = Moved(o, request.model.id, request.model.props)
    BY <1>1, <1>2, DeviationIs
  <2> QED BY <1>1, <2>1 DEF Moved, Success
<1>3. CASE defect = "updateCreates"
  <2>1. d = o \/ \E i : i # f /\ d = Moved(o, i, request.model.props)
    BY <1>1, <1>3, DeviationIs, FreeIsNot
  <2> QED BY <1>1, <2>1 DEF Moved, Success
<1>4. CASE defect = "updateNewId"
  <2> DEFINE l == [o.live EXCEPT ![m.id] = "none"]
  <2>1. d = o \/ \E i : i # f /\ d = Moved(Leaving(o, l), i, request.model.props)
    BY <1>1, <1>4, DeviationIs, FreeIsNot
  <2>2. l[f] = o.live[f] /\ l \in [Ids -> Props]
    BY <1>1 DEF Props
  <2>3. Leaving(o, l).live = l
    BY <1>1, DeviationFields
  <2> HIDE DEF l
  <2> QED BY <1>1, <2>1, <2>2, <2>3 DEF Moved, Success
<1>5. CASE defect \in {"createPartial", "updatePartial", "deleteKeeps"}
  <2>1. d = o \/ \E l : d = Leaving(o, l) /\ (l = live \/ l = [o.live EXCEPT ![m.id] = "partial"])
    BY <1>1, <1>5, DeviationIs
  <2> QED BY <1>1, <2>1, DeviationFields
<1>6. CASE defect \in {"createNoId", "progressNoId", "returnsSecret", "deleteModel"}
  <2>1. \/ d = o
        \/ \E x : d = Answering(o, [o.answer EXCEPT !.model = x]) /\ x.id # f
    <3>1. [m EXCEPT !.id = NoId].id = NoId /\ [m EXCEPT !.secret = TRUE].id = m.id
          /\ [request.model EXCEPT !.secret = FALSE].id = request.model.id
      BY <1>1 DEF Model
    <3>2. \/ d = o
          \/ \E x \in {[m EXCEPT !.id = NoId], [m EXCEPT !.secret = TRUE], [request.model EXCEPT !.secret = FALSE]} :
               d = Answering(o, [o.answer EXCEPT !.model = x])
      BY <1>1, <1>6, DeviationIs
    <3> QED BY <1>1, <3>1, <3>2
  <2>2. \A x : [o.answer EXCEPT !.model = x].model = x
    BY <1>1 DEF Answer
  <2>3. d = o \/ \E a : d = Answering(o, a) /\ a.model.id # f
    BY <2>1, <2>2
  <2> QED BY <1>1, <2>3, DeviationFields
<1>7. CASE defect \in {"listGhost", "slow", "slowLater"}
  <2>1. \/ d = o
        \/ \E ids : d = Answering(o, [o.answer EXCEPT !.ids = ids])
        \/ d = Answering(o, [o.answer EXCEPT !.slow = TRUE])
    BY <1>1, <1>7, DeviationIs
  <2>2. (\A ids : [o.answer EXCEPT !.ids = ids].model = m) /\ [o.answer EXCEPT !.slow = TRUE].model = m
    BY <1>1 DEF Answer
  <2>3. d = o \/ \E a : d = Answering(o, a) /\ a.model = m
    BY <2>1, <2>2
  <2> QED BY <1>1, <2>3, DeviationFields
<1>8. CASE defect \in {"createFails", "readGhost", "readWaits", "deleteGhost", "listMisses", "none"}
  <2>1. /\ Failed("InternalFailure").model.id = NoId /\ Listing({}, FALSE).model.id = NoId
        /\ Success(NoModel).model.id = NoId /\ Progress(request.model, 0).model.id = request.model.id
        /\ Success([request.model EXCEPT !.secret = FALSE]).model.id = request.model.id
    BY <1>1 DEF Failed, Listing, Success, Progress, Model
  <2>2. \/ d = o
        \/ \E a \in {Failed("InternalFailure"), Listing({}, FALSE), Success(NoModel), Progress(request.model, 0),
                     Success([request.model EXCEPT !.secret = FALSE])} : d = Answering(o, a)
    BY <1>1, <1>8, DeviationIs
  <2>3. d = o \/ \E a : d = Answering(o, a) /\ a.model.id # f
    BY <1>1, <2>1, <2>2
  <2> QED BY <1>1, <2>3, DeviationFields
<1> QED BY <1>1, <1>2, <1>3, <1>4, <1>5, <1>6, <1>7, <1>8 DEF Defect

(* No step turns to such a resource.                                        *)
Untouched(f) == f \notin {model.id, second.id, stale, request.model.id, answer.model.id, op.id}

LEMMA UntouchedStep ==
  ASSUME TypeInv, TokenInv, RequestInv, [Next]_vars, NEW f \in Ids, ~(type.writable /\ f = Example), Untouched(f),
         f \in used \/ (type.writable = TRUE /\ defect \notin {"updateCreates", "updateNewId"})
  PROVE  Untouched(f)' /\ live'[f] = live[f]
<1> SUFFICES /\ f \notin {model'.id, second'.id, stale', request'.model.id, answer'.model.id, op'.id}
             /\ live'[f] = live[f]
  BY DEF Untouched
<1>1. f \notin {model.id, second.id, stale, request.model.id, answer.model.id, op.id} /\ NoId \notin Ids
  BY IdsAssumption DEF Untouched
<1>2. f # NoModel.id /\ f # CreateExample.id
  BY <1>1 DEF NoModel, CreateExample
<1>4. CASE HandlerAnswers /\ UNCHANGED suiteVars
  <2>1. PICK o : /\ IsConforming(o) /\ Sound(o) /\ live' = Deviation(o).live /\ op' = o.op
                 /\ answer' = Deviation(o).answer
    BY <1>4, HandlerOutcome
  <2>2. o.answer.model.id # f /\ o.op.id # f /\ o.live[f] = live[f]
    BY <1>1, <2>1, ConformingApart
  <2>3. answer'.model.id # f /\ live'[f] = live[f]
    BY <1>1, <2>1, <2>2, DeviationApart
  <2> QED BY <1>1, <1>4, <2>1, <2>2, <2>3 DEF HandlerAnswers, suiteVars
<1>5. ASSUME UNCHANGED handlerVars PROVE live'[f] = live[f] /\ f # op'.id
  BY <1>1, <1>5 DEF handlerVars
<1>6. CASE Enter
  <2>1. model' \in {model, NoModel, CreateExample} /\ second' \in {second, NoModel}
    BY <1>6, Zenon DEF Enter
  <2>2. UNCHANGED handlerVars /\ UNCHANGED clientVars /\ stale' = stale
    BY <1>6 DEF Enter
  <2> QED BY <1>1, <1>2, <1>5, <2>1, <2>2 DEF clientVars
<1>7. CASE CallHandler
  <2>1. UNCHANGED handlerVars /\ model' = model /\ second' = second
    BY <1>7 DEF CallHandler
  <2>2. CASE UNCHANGED clientVars /\ stale' = stale
    BY <1>1, <1>5, <2>1, <2>2 DEF clientVars
  <2>3. CASE Invoke(Now.act, Argument(Now), {}) /\ stale' = Stale(Now)
    <3>1. stale' \in {model.id, stale}
      BY <2>3 DEF Stale
    <3>2. Now.arg \in {"request", "model", "second", "update"}
      BY <1>7, NowIs DEF CallHandler, Calling, Arguments
    <3>3. Argument(Now).id \in {CreateExample.id, model.id, second.id, stale}
      BY <3>2 DEF Argument, Stale
    <3>4. request'.model = Argument(Now) /\ answer' = answer
      BY <2>3, InvokeFields
    <3> QED BY <1>1, <1>2, <1>5, <2>1, <3>1, <3>3, <3>4
  <2> QED BY <1>7, <2>2, <2>3 DEF CallHandler
<1>8. CASE NextPage
  <2>1. UNCHANGED handlerVars /\ UNCHANGED suiteVars /\ Invoke("LIST", request.model, Listed)
    BY <1>8 DEF NextPage
  <2>2. request'.model = request.model /\ answer' = answer
    BY <2>1, InvokeFields
  <2> QED BY <1>1, <1>5, <2>1, <2>2 DEF suiteVars
<1>9. CASE Conclude
  <2>1. /\ UNCHANGED handlerVars /\ UNCHANGED <<request, answer, stale>>
        /\ model' \in {model, answer.model} /\ second' \in {second, answer.model}
    BY <1>9 DEF Conclude
  <2> QED BY <1>1, <1>5, <2>1
<1>10. CASE Reinvoke /\ UNCHANGED suiteVars
  <2>1. UNCHANGED handlerVars /\ request'.model = answer.model /\ answer' = answer
    BY <1>10, ReinvokeFields
  <2> QED BY <1>1, <1>5, <1>10, <2>1 DEF suiteVars
<1>11. CASE UNCHANGED vars
  BY <1>1, <1>11 DEF vars, handlerVars, clientVars, suiteVars
<1> QED BY <1>4, <1>6, <1>7, <1>8, <1>9, <1>10, <1>11 DEF Next

LEMMA ForeignStep ==
  ASSUME TypeInv, TokenInv, RequestInv, ForeignInv, [Next]_vars
  PROVE  ForeignInv'
<1> SUFFICES ASSUME Apart
             PROVE  /\ live'[foreign] = "create" /\ foreign \in used'
                    /\ foreign \notin {model'.id, second'.id, stale', request'.model.id, answer'.model.id, op'.id}
  BY Settled DEF Apart, ForeignInv
<1>1. live[foreign] = "create" /\ foreign \in used /\ foreign \in Ids /\ Untouched(foreign)
  BY ForeignAssumption DEF ForeignInv, Apart, TypeInv, TypeOK, Untouched
<1>2. ~(type.writable /\ foreign = Example)
  BY DEF Apart
<1>3. foreign \in used' /\ foreign' = foreign
  BY <1>1, UsedStep, Settled
<1> QED BY <1>1, <1>2, <1>3, UntouchedStep DEF Untouched

(* Nothing moves on before the first call is over.                          *)
LEMMA FirstCall ==
  ASSUME TypeInv, ~Past(1, 1)
  PROVE  at = 1 /\ cleaning = FALSE /\ step \in 0 .. 1
BY SuiteIs DEF Past, TypeInv, TypeOK

LEMMA TakenStep ==
  ASSUME TypeInv, ControlInv, TokenInv, RequestInv, TakenInv, [Next]_vars
  PROVE  TakenInv'
<1> SUFFICES ASSUME type.writable, foreign = Example, defect # "createAgain", ~Past(1, 1)'
             PROVE  /\ live'[Example] = "create"
                    /\ phase' # "idle" => ~request'.again /\ request'.model.id = Example
                    /\ phase' = "answered" => answer'.status = "FAILED"
  BY Settled DEF TakenInv
<1>1. /\ Example \in Ids /\ NoId \notin Ids /\ live \in [Ids -> Props] /\ request \in Request
      /\ at \in 1 .. 19 /\ step \in 0 .. 2 /\ cleaning \in BOOLEAN
  BY IdsAssumption, SuiteIs DEF TypeInv, TypeOK, ClientTypeOK
<1>2. ASSUME NEW passed \in BOOLEAN, After(passed), step > 0, ~Past(1, 1) PROVE FALSE
  <2>1. at = 1 /\ cleaning = FALSE /\ step = 1
    BY <1>2, FirstCall
  <2>2. Len(Calls) = 1 /\ at' \in {1, 2}
    <3>1. Calls = Suite[1].body
      BY <2>1 DEF Calls, Block
    <3>2. at' = at \/ at' = at + 1
      BY <1>2 DEF After, Leave
    <3> QED BY <2>1, <3>1, <3>2, Lengths
  <2>3. cleaning' = TRUE \/ at' = 2
    BY <1>2, <2>1, <2>2 DEF After, Leave
  <2> QED BY <1>1, <2>1, <2>2, <2>3 DEF Past
<1>3. ~Past(1, 1)
  <2> SUFFICES ASSUME Past(1, 1) PROVE Past(1, 1)'
    OBVIOUS
  <2>1. at > 1 \/ (at = 1 /\ (step > 1 \/ cleaning = TRUE))
    BY DEF Past
  <2>2. CASE UNCHANGED <<at, step, cleaning, ready, failed>>
    BY <2>1, <2>2 DEF Past
  <2>3. CASE Enter
    <3>1. step = 0 /\ ~Done
      BY <2>3 DEF Enter
    <3>2. cleaning = FALSE
      BY <3>1, Quiet
    <3>3. at > 1
      BY <1>1, <2>1, <3>1, <3>2
    <3>4. at' = at \/ at' = at + 1
      BY <2>3 DEF Enter, Leave
    <3> QED BY <1>1, <3>3, <3>4 DEF Past
  <2>4. ASSUME NEW passed \in BOOLEAN, After(passed) PROVE Past(1, 1)'
    <3>1. \/ at' = at /\ cleaning' = TRUE
          \/ at' = at /\ step' = step + 1 /\ cleaning' = cleaning
          \/ at' = at + 1
      BY <2>4 DEF After, Leave
    <3> QED BY <1>1, <2>1, <3>1 DEF Past
  <2>5. Passed(Now) \in BOOLEAN
    BY DEF Passed, Accepted
  <2> QED BY <2>2, <2>3, <2>4, <2>5, Steps DEF Conclude
<1>4. at = 1 /\ cleaning = FALSE /\ step \in 0 .. 1
  BY <1>3, FirstCall
<1>5. /\ live[Example] = "create"
      /\ phase # "idle" => ~request.again /\ request.model.id = Example
      /\ phase = "answered" => answer.status = "FAILED"
  BY <1>3 DEF TakenInv
<1>6. ~Conclude
  <2>1. Conclude => step > 0
    BY DEF Conclude, Returned, TypeInv, BlockInv
  <2>2. Passed(Now) \in BOOLEAN
    BY DEF Passed, Accepted
  <2> QED BY <1>2, <1>3, <2>1, <2>2 DEF Conclude
<1>7. ~Reinvoke /\ ~NextPage
  BY <1>5 DEF Reinvoke, NextPage, Succeeded, Returned
<1>8. step > 0 => Now.act = "CREATE" /\ Now.arg = "request"
  <2>1. step > 0 => Now = Create("model", {"id", "echo"})
    BY <1>4, NowRuns
  <2> QED BY <2>1, CallFields
<1>9. CASE HandlerAnswers
  <2>1. PICK o : /\ IsConforming(o) /\ Sound(o) /\ live' = Deviation(o).live /\ answer' = Deviation(o).answer
    BY <1>9, HandlerOutcome
  <2>2. phase = "sent" /\ step > 0 /\ UNCHANGED request
    BY <1>9 DEF HandlerAnswers, TypeInv, BlockInv
  <2>3. request.act = "CREATE" /\ request.left = 0 /\ request.model.id = Example /\ ~request.again
    BY <1>5, <1>8, <2>2, Numbers DEF RequestInv
  <2>4. IsRefusal(o)
    <3>1. ~IsListing(o) /\ ~IsReading(o)
      BY <2>3 DEF IsListing, IsReading
    <3>2. ~IsOperation(o)
      BY <1>5, <2>3 DEF IsOperation, Creates
    <3> QED BY <2>1, <3>1, <3>2 DEF IsConforming
  <2>5. o.answer.status = "FAILED" /\ o.live = live
    BY <2>4, AnswerFields DEF IsRefusal
  <2>6. /\ OutcomeOK(o) /\ o \in Outcome /\ o.answer \in Answer /\ defect \in Defect \cup {"none"}
    BY <2>1, OutcomeTypes DEF IsConforming
  <2>7. (\A act : ~Ok(o, act)) /\ (\A act, code : act # "CREATE" => ~Refused(o, act, code))
    BY <2>3, <2>5 DEF Ok, Refused
  <2> DEFINE late == [o.answer EXCEPT !.slow = TRUE]
  <2>8. Deviation(o) = o \/ Deviation(o) = Answering(o, late)
    <3>1. CASE defect \in {"slow", "slowLater"}
      BY <2>6, <3>1, DeviationIs
    <3>2. CASE defect \notin {"slow", "slowLater"}
      BY <2>5, <2>6, <2>7, <3>2, DeviationIs DEF Defect
    <3> QED BY <3>1, <3>2
  <2>9. late.status = "FAILED"
    BY <2>5, <2>6 DEF Answer
  <2> HIDE DEF Defect, late
  <2>10. answer'.status = "FAILED" /\ live' = live
    BY <2>1, <2>5, <2>6, <2>8, <2>9, DeviationFields
  <2> QED BY <1>5, <2>2, <2>3, <2>10
<1>10. CASE CallHandler /\ ~After(FALSE)
  <2>1. live' = live /\ phase' = "sent" /\ ~request'.again /\ request'.model = Argument(Now)
    BY <1>10, InvokeFields DEF CallHandler, handlerVars
  <2>2. Argument(Now).id = Example
    BY <1>8, <1>10, ArgumentFields DEF CallHandler, CreateExample
  <2> QED BY <1>5, <2>1, <2>2
<1>11. CASE Enter
  BY <1>5, <1>11 DEF Enter, handlerVars, clientVars
<1>12. CASE UNCHANGED vars
  BY <1>5, <1>12 DEF vars, handlerVars, clientVars
<1> QED BY <1>2, <1>3, <1>6, <1>7, <1>9, <1>10, <1>11, <1>12 DEF Next, CallHandler

(* When a test lets the call pass that should have caught a defect.         *)
Catching == {<<1, 1>>, <<3, 1>>, <<4, 1>>, <<5, 1>>, <<7, 2>>, <<8, 1>>, <<9, 1>>, <<10, 1>>, <<11, 1>>, <<15, 1>>}
LEMMA Uncaught ==
  ASSUME TypeInv, ControlInv, RequestInv, [Next]_vars,
         NEW k, NEW s, <<k, s>> \in Catching, Caught(k, s), ~Caught(k, s)'
  PROVE  /\ at = k /\ step = s /\ step > 0 /\ cleaning = FALSE /\ failed = {} /\ SelectedAt(k)
         /\ phase = "answered" /\ Passed(Now) /\ ~Past(k, s)
         /\ request.act = Now.act /\ (request.act # "CREATE" => request.model = Argument(Now))
<1>1. SelectedAt(k)' /\ Past(k, s)' /\ failed' = {} /\ k \in 1 .. 18
  BY DEF Caught, Catching
<1>2. SelectedAt(k)
  BY <1>1, Settled DEF SelectedAt
<1>3. failed = {}
  BY <1>1, FailedStays
<1>4. ~Past(k, s)
  BY <1>2, <1>3 DEF Caught
<1>5. Conclude /\ Passed(Now) /\ at = k /\ step = s /\ cleaning = FALSE
  <2>1. Len(Suite[k].body) \in {1, 2} /\ (k = 7 => Len(Suite[k].body) = 2)
    <3>1. CASE k \in {1, 3, 4, 8, 9, 10, 11, 15}
      BY <3>1, Lengths
    <3>2. CASE k \in {5, 7}
      BY <3>2, Lengths
    <3> QED BY <3>1, <3>2 DEF Catching
  <2>2. s \in 1 .. Len(Suite[k].body)
    <3> DEFINE n == Len(Suite[k].body)
    <3>1. n \in {1, 2} /\ (k = 7 => n = 2) /\ s \in {1, 2} /\ (s = 1 \/ k = 7)
      BY <2>1 DEF Catching
    <3> HIDE DEF n
    <3>2. s \in 1 .. n
      BY <3>1
    <3> QED BY <3>2 DEF n
  <2> QED BY <1>1, <1>2, <1>4, <2>2, PassedOver
<1>6. phase = "answered"
  BY <1>5 DEF Conclude, Returned
<1>7. step > 0
  BY <1>6, AnsweredCreate
<1> QED BY <1>2, <1>3, <1>4, <1>5, <1>6, <1>7 DEF RequestInv

(* What the first call, of contract_create_delete, catches.                 *)
LEMMA FirstCatches ==
  ASSUME TypeInv, ControlInv, RequestInv, AnswerInv, FirstInv, TakenInv, [Next]_vars, Caught(1, 1),
         \/ defect \in {"createFails", "createNoId", "returnsSecret", "slow"}
         \/ type.writable /\ foreign = Example /\ defect # "createAgain"
  PROVE  Caught(1, 1)'
<1> SUFFICES ASSUME ~Caught(1, 1)' PROVE FALSE
  OBVIOUS
<1>2. /\ at = 1 /\ step > 0 /\ cleaning = FALSE /\ phase = "answered" /\ Passed(Now) /\ ~Past(1, 1)
      /\ request.act = Now.act
  <2>1. <<1, 1>> \in Catching
    BY DEF Catching
  <2> QED BY <2>1, Uncaught, Zenon
<1>3. Now = Create("model", {"id", "echo"})
  BY <1>2, NowRuns
<1>4. Now.act = "CREATE" /\ Now.expect = "SUCCESS" /\ "id" \in Now.check
  BY <1>3, CallFields
<1>5. answer.status = "SUCCESS" /\ request.act = "CREATE" /\ ~Raises
  BY <1>2, <1>4, CreatePasses
<1>6. answer.model.id # NoId
  BY <1>2, <1>4 DEF Passed, Accepted
<1>7. defect \notin {"createFails", "createNoId"}
  BY <1>2, <1>5, <1>6 DEF AnswerInv
<1>8. defect # "returnsSecret"
  BY <1>2, <1>5, Zenon DEF AnswerInv, Raises
<1>9. defect # "slow"
  BY <1>2, <1>5, Zenon DEF AnswerInv, FirstInv, Raises
<1> QED BY <1>2, <1>5, <1>7, <1>8, <1>9 DEF TakenInv

(* What the tests of the created resource catch.                            *)
LEMMA CreatedCatch ==
  ASSUME TypeInv, ControlInv, RequestInv, HoldingInv, AnswerInv, FirstInv, ForeignInv, CaughtInv, [Next]_vars
  PROVE  /\ defect = "createAgain" => Caught(3, 1)'
         /\ defect \in {"createPartial", "readWaits"} => Caught(4, 1)'
         /\ defect = "listMisses" => Caught(5, 1)'
<1>2. ASSUME defect = "createAgain", ~Caught(3, 1)' PROVE FALSE
  <2>1. Caught(3, 1)
    BY <1>2 DEF CaughtInv
  <2>2. at = 3 /\ step > 0 /\ cleaning = FALSE /\ phase = "answered" /\ Passed(Now) /\ request.act = Now.act
    <3>1. <<3, 1>> \in Catching
      BY DEF Catching
    <3> QED BY <1>2, <2>1, <3>1, Uncaught, Zenon
  <2>3. Now.act = "CREATE" /\ Now.expect = "AlreadyExists"
    <3>1. Now = Call("CREATE", "request", "AlreadyExists", "none", {})
      BY <2>2, NowRuns
    <3> QED BY <3>1, CallFields
  <2>4. answer.code = "AlreadyExists"
    BY <2>2, <2>3 DEF Passed, Accepted, Expected
  <2> QED BY <1>2, <2>2, <2>3, <2>4 DEF AnswerInv
<1>3. ASSUME defect \in {"createPartial", "readWaits"}, ~Caught(4, 1)' PROVE FALSE
  <2>1. Caught(4, 1)
    BY <1>3 DEF CaughtInv
  <2>2. /\ at = 4 /\ step > 0 /\ cleaning = FALSE /\ phase = "answered" /\ Passed(Now) /\ request.act = Now.act
        /\ failed = {} /\ (request.act # "CREATE" => request.model = Argument(Now))
    <3>1. <<4, 1>> \in Catching
      BY DEF Catching
    <3> QED BY <1>3, <2>1, <3>1, Uncaught, Zenon
  <2>3. Now.act = "READ" /\ Now.arg = "model" /\ Now.expect = "SUCCESS" /\ "echo" \in Now.check
    <3>1. Now = Call("READ", "model", "SUCCESS", "none", {"id", "secret", "echo"})
      BY <2>2, NowRuns
    <3> QED BY <3>1, CallFields
  <2>4. answer.status = "SUCCESS"
    BY <2>2, <2>3 DEF Passed, Accepted, Expected
  <2>5. Argument(Now) = model
    BY <2>2, <2>3, ArgumentFields
  <2>6. answer.model.props = model.props
    BY <2>2, <2>3, <2>5 DEF Passed, Echoed
  <2>7. model.props = "create" /\ model.id \in Ids
    BY <1>3, <2>2 DEF HoldingInv, Holding
  <2>8. request.model.id = foreign /\ foreign = model.id /\ foreign \in Ids
    BY <1>3, <2>2, <2>3, <2>4, <2>5, <2>6, <2>7 DEF AnswerInv
  <2>9. foreign # NoId
    BY <2>8, IdsAssumption
  <2>10. type.writable /\ foreign = Example
    BY <2>8, <2>9 DEF ForeignInv, Apart
  <2>11. Caught(1, 1)
    BY <1>3, <2>10 DEF CaughtInv
  <2>12. SelectedAt(1) /\ Past(1, 1)
    BY <2>2, CreateTests DEF SelectedAt, Past
  <2> QED BY <2>2, <2>11, <2>12 DEF Caught
<1>4. ASSUME defect = "listMisses", ~Caught(5, 1)' PROVE FALSE
  <2>1. Caught(5, 1)
    BY <1>4 DEF CaughtInv
  <2>2. at = 5 /\ step = 1 /\ step > 0 /\ cleaning = FALSE /\ phase = "answered" /\ Passed(Now) /\ request.act = Now.act
    <3>1. <<5, 1>> \in Catching
      BY DEF Catching
    <3> QED BY <1>4, <2>1, <3>1, Uncaught, Zenon
  <2>3. Now.act = "LIST" /\ Now.expect = "SUCCESS" /\ "listed" \in Now.check
    <3>1. Now = Call("LIST", "model", "SUCCESS", "none", {"listed"})
      BY <2>2, NowRuns
    <3> QED BY <3>1, CallFields
  <2>4. answer.status = "SUCCESS" /\ Argument(Now).id \in Listed
    BY <2>2, <2>3 DEF Passed, Accepted, Expected
  <2>5. answer.ids = {} /\ request.seen = {}
    BY <1>4, <2>2, <2>3, <2>4 DEF AnswerInv, FirstInv
  <2> QED BY <2>4, <2>5 DEF Listed
<1> QED BY <1>2, <1>3, <1>4

(* What those of the deleted resource catch.                                *)
LEMMA DeletedCatch ==
  ASSUME TypeInv, ControlInv, RequestInv, HoldingInv, AnswerInv, CaughtInv, [Next]_vars
  PROVE  /\ defect = "deleteModel" => Caught(7, 2)'
         /\ defect \in {"readGhost", "deleteKeeps"} => Caught(8, 1)'
         /\ defect = "listGhost" => Caught(9, 1)'
         /\ defect = "updateCreates" => Caught(10, 1)'
         /\ defect = "deleteGhost" => Caught(11, 1)'
<1>2. ASSUME at \in {8, 9, 10, 11}, failed = {}, defect # "createNoId"
      PROVE  model.id \in Ids /\ model.id \in used
                /\ (defect = "deleteKeeps" => live[model.id] # "none")
  <2>1. Holding
    BY <1>2 DEF Holding
  <2> QED BY <1>2, <2>1, IdsAssumption DEF HoldingInv
<1>3. ASSUME defect = "deleteModel", ~Caught(7, 2)' PROVE FALSE
  <2>1. Caught(7, 2)
    BY <1>3 DEF CaughtInv
  <2>2. /\ at = 7 /\ step = 2 /\ step > 0 /\ cleaning = FALSE /\ phase = "answered" /\ Passed(Now) /\ request.act = Now.act
        /\ failed = {} /\ (request.act # "CREATE" => request.model = Argument(Now))
    <3>1. <<7, 2>> \in Catching
      BY DEF Catching
    <3> QED BY <1>3, <2>1, <3>1, Uncaught, Zenon
  <2>3. Now.act = "DELETE" /\ Now.arg = "model" /\ Now.expect = "SUCCESS" /\ "noModel" \in Now.check
    <3>1. Now = Call("DELETE", "model", "SUCCESS", "none", {"noModel"})
      BY <2>2, NowRuns
    <3> QED BY <3>1, CallFields
  <2>4. answer.status = "SUCCESS" /\ answer.model = NoModel
    BY <2>2, <2>3 DEF Passed, Accepted, Expected
  <2>5. request.model = model /\ model.props = "create" /\ model \in Model
    BY <2>2, <2>3, ArgumentFields DEF HoldingInv, Holding, TypeInv, TypeOK
  <2>6. NoModel = [model EXCEPT !.secret = FALSE]
    BY <1>3, <2>2, <2>3, <2>4, <2>5 DEF AnswerInv
  <2> QED BY <2>5, <2>6 DEF NoModel, Model
<1>4. ASSUME defect \in {"readGhost", "deleteKeeps"}, ~Caught(8, 1)' PROVE FALSE
  <2>1. Caught(8, 1)
    BY <1>4 DEF CaughtInv
  <2>2. /\ at = 8 /\ step > 0 /\ cleaning = FALSE /\ phase = "answered" /\ Passed(Now) /\ request.act = Now.act
        /\ failed = {} /\ (request.act # "CREATE" => request.model = Argument(Now))
    <3>1. <<8, 1>> \in Catching
      BY DEF Catching
    <3> QED BY <1>4, <2>1, <3>1, Uncaught, Zenon
  <2>3. Now.act = "READ" /\ Now.arg = "model" /\ Now.expect = "NotFound"
    <3>1. Now = Call("READ", "model", "NotFound", "none", {})
      BY <2>2, NowRuns
    <3> QED BY <3>1, CallFields
  <2>4. answer.code = "NotFound"
    BY <2>2, <2>3 DEF Passed, Accepted, Expected
  <2>5. request.model = model
    BY <2>2, <2>3, ArgumentFields
  <2> QED BY <1>2, <1>4, <2>2, <2>3, <2>4, <2>5 DEF AnswerInv
<1>5. ASSUME defect = "listGhost", ~Caught(9, 1)' PROVE FALSE
  <2>1. Caught(9, 1)
    BY <1>5 DEF CaughtInv
  <2>2. /\ at = 9 /\ step > 0 /\ cleaning = FALSE /\ phase = "answered" /\ Passed(Now) /\ request.act = Now.act
        /\ failed = {}
    <3>1. <<9, 1>> \in Catching
      BY DEF Catching
    <3> QED BY <1>5, <2>1, <3>1, Uncaught, Zenon
  <2>3. Now.act = "LIST" /\ Now.arg = "model" /\ Now.expect = "SUCCESS" /\ "unlisted" \in Now.check
    <3>1. Now = Call("LIST", "model", "SUCCESS", "none", {"unlisted"})
      BY <2>2, NowRuns
    <3> QED BY <3>1, CallFields
  <2>4. answer.status = "SUCCESS" /\ Argument(Now).id \notin Listed
    BY <2>2, <2>3 DEF Passed, Accepted, Expected
  <2>5. Argument(Now) = model
    BY <2>2, <2>3, ArgumentFields
  <2> QED BY <1>2, <1>5, <2>2, <2>3, <2>4, <2>5 DEF AnswerInv, Listed
<1>6. ASSUME defect = "updateCreates", ~Caught(10, 1)' PROVE FALSE
  <2>1. Caught(10, 1)
    BY <1>6 DEF CaughtInv
  <2>2. /\ at = 10 /\ step > 0 /\ cleaning = FALSE /\ phase = "answered" /\ Passed(Now) /\ request.act = Now.act
        /\ failed = {} /\ (request.act # "CREATE" => request.model = Argument(Now))
    <3>1. <<10, 1>> \in Catching
      BY DEF Catching
    <3> QED BY <1>6, <2>1, <3>1, Uncaught, Zenon
  <2>3. Now.act = "UPDATE" /\ Now.expect = "NotFound"
    <3>1. Now = Call("UPDATE", "update", "NotFound", "none", {})
      BY <2>2, NowRuns
    <3> QED BY <3>1, CallFields
  <2>4. answer.code = "NotFound"
    BY <2>2, <2>3 DEF Passed, Accepted, Expected
  <2>5. request.model.id \in Ids
    BY <1>2, <1>6, <2>2, <2>3, ArgumentFields
  <2> QED BY <1>6, <2>2, <2>3, <2>4, <2>5 DEF AnswerInv
<1>7. ASSUME defect = "deleteGhost", ~Caught(11, 1)' PROVE FALSE
  <2>1. Caught(11, 1)
    BY <1>7 DEF CaughtInv
  <2>2. at = 11 /\ step > 0 /\ cleaning = FALSE /\ phase = "answered" /\ Passed(Now) /\ request.act = Now.act
    <3>1. <<11, 1>> \in Catching
      BY DEF Catching
    <3> QED BY <1>7, <2>1, <3>1, Uncaught, Zenon
  <2>3. Now.act = "DELETE" /\ Now.expect = "NotFound"
    <3>1. Now = Delete("model", "NotFound")
      BY <2>2, NowRuns
    <3> QED BY <3>1, CallFields
  <2>4. answer.code = "NotFound"
    BY <2>2, <2>3 DEF Passed, Accepted, Expected
  <2> QED BY <1>7, <2>2, <2>3, <2>4 DEF AnswerInv
<1> QED BY <1>3, <1>4, <1>5, <1>6, <1>7

(* And contract_update_read.                                                *)
LEMMA UpdatedCatch ==
  ASSUME TypeInv, ControlInv, RequestInv, SecondInv, AnswerInv, CaughtInv, [Next]_vars, defect = "updatePartial"
  PROVE  Caught(15, 1)'
<1> SUFFICES ASSUME ~Caught(15, 1)' PROVE FALSE
  OBVIOUS
<1>1. Caught(15, 1)
  BY DEF CaughtInv
<1>2. /\ at = 15 /\ step > 0 /\ cleaning = FALSE /\ phase = "answered" /\ Passed(Now) /\ request.act = Now.act
      /\ failed = {} /\ SelectedAt(15)
  <2>1. <<15, 1>> \in Catching
    BY DEF Catching
  <2> QED BY <1>1, <2>1, Uncaught, Zenon
<1>3. Now.act = "READ" /\ Now.arg = "second" /\ Now.expect = "SUCCESS" /\ "echo" \in Now.check
  <2>1. Now = Call("READ", "second", "SUCCESS", "none", {"sameId", "id", "secret", "echo"})
    BY <1>2, NowRuns
  <2> QED BY <2>1, CallFields
<1>4. answer.status = "SUCCESS"
  BY <1>2, <1>3 DEF Passed, Accepted, Expected
<1>5. answer.model.props = second.props
  BY <1>2, <1>3, ArgumentFields DEF Passed, Echoed
<1>6. second.props = "update"
  BY <1>2, Needs DEF SecondInv
<1> QED BY <1>2, <1>3, <1>4, <1>5, <1>6 DEF AnswerInv

LEMMA CaughtStep == DetectionInv /\ [Next]_vars => CaughtInv'
<1> SUFFICES ASSUME DetectionInv, [Next]_vars PROVE CaughtInv'
  OBVIOUS
<1> USE DEF DetectionInv
<1>1. /\ defect' \in {"createFails", "createNoId", "returnsSecret", "slow"} => Caught(1, 1)'
      /\ type'.writable /\ foreign' = Example /\ defect' # "createAgain" => Caught(1, 1)'
  BY FirstCatches, Settled DEF CaughtInv
<1>2. /\ defect' = "createAgain" => Caught(3, 1)'
      /\ defect' \in {"createPartial", "readWaits"} => Caught(4, 1)'
      /\ defect' = "listMisses" => Caught(5, 1)'
  BY CreatedCatch, Settled
<1>3. /\ defect' = "deleteModel" => Caught(7, 2)'
      /\ defect' \in {"readGhost", "deleteKeeps"} => Caught(8, 1)'
      /\ defect' = "listGhost" => Caught(9, 1)'
      /\ defect' = "updateCreates" => Caught(10, 1)'
      /\ defect' = "deleteGhost" => Caught(11, 1)'
  BY DeletedCatch, Settled
<1>4. defect' = "updatePartial" => Caught(15, 1)'
  BY UpdatedCatch, Settled
<1> QED BY <1>1, <1>2, <1>3, <1>4 DEF CaughtInv

-----------------------------------------------------------------------------
(* The invariant and what follows from it.                                  *)

LEMMA DetectionInit == Init => DetectionInv
<1> SUFFICES ASSUME Init PROVE DetectionInv
  OBVIOUS
<1>1. TypeInv
  BY InitType
<1>2. /\ at = 1 /\ step = 0 /\ cleaning = FALSE /\ failed = {} /\ phase = "idle" /\ shown = FALSE
      /\ tokens = 0 /\ op.token = 0 /\ op.id = NoId /\ request.token = 0 /\ request.model = NoModel
      /\ answer = Success(NoModel) /\ model = NoModel /\ second = NoModel
      /\ live = [i \in Ids |-> IF i = foreign THEN "create" ELSE "none"] /\ used = {foreign} \cap Ids
      /\ stale = IF type.writable THEN Example ELSE NoId
  BY DEF Init, ClientInit
<1>3. NoModel.id = NoId /\ answer.model = NoModel
  BY <1>2, AnswerFields DEF NoModel
<1>4. foreign \in Ids \cup {NoId} /\ NoId \notin Ids
  BY ForeignAssumption, IdsAssumption DEF Init
<1>5. ControlInv /\ TokenInv /\ RequestInv /\ ProgressInv
  BY <1>2 DEF ControlInv, TokenInv, RequestInv, ProgressInv
<1>6. HoldingInv /\ SecondInv
  BY <1>2 DEF HoldingInv, Holding, SecondInv
<1>7. WorldInv
  BY <1>2 DEF WorldInv
<1>8. AnswerInv /\ FirstInv /\ ShownInv /\ PendingInv
  BY <1>2 DEF AnswerInv, FirstInv, ShownInv, PendingInv
<1>9. ForeignInv
  <2>1. Apart => foreign \in Ids
    BY <1>4 DEF Apart
  <2>2. Apart => foreign \notin {model.id, second.id, stale, request.model.id, answer.model.id, op.id}
    BY <1>2, <1>3 DEF Apart
  <2> QED BY <1>2, <2>1, <2>2 DEF ForeignInv
<1>10. TakenInv
  BY <1>2, IdsAssumption DEF TakenInv
<1>11. \A k \in 1 .. 18, s \in {1, 2} : ~Past(k, s)
  BY <1>2 DEF Past
<1>12. CaughtInv
  BY <1>11 DEF CaughtInv, Caught
<1> QED BY <1>1, <1>5, <1>6, <1>7, <1>8, <1>9, <1>10, <1>12 DEF DetectionInv

LEMMA DetectionStep == DetectionInv /\ [Next]_vars => DetectionInv'
<1> SUFFICES ASSUME DetectionInv, [Next]_vars PROVE DetectionInv'
  OBVIOUS
<1>1. TypeInv' /\ ControlInv' /\ TokenInv' /\ RequestInv' /\ ProgressInv'
  BY NextType, ControlStep, TokenStep, RequestStep, ProgressStep DEF DetectionInv
<1>2. HoldingInv' /\ SecondInv' /\ WorldInv' /\ AnswerInv' /\ FirstInv'
  BY HoldingStep, SecondStep, WorldStep, AnswerStep, FirstStep DEF DetectionInv
<1>3. ShownInv' /\ PendingInv' /\ ForeignInv' /\ TakenInv' /\ CaughtInv'
  BY ShownStep, PendingStep, ForeignStep, TakenStep, CaughtStep DEF DetectionInv
<1> QED BY <1>1, <1>2, <1>3 DEF DetectionInv

(* When the tests are over, every call of a test is.                        *)
LEMMA OverAtTheEnd ==
  ASSUME TypeInv, Done
  PROVE  at = 19 /\ step = 0 /\ phase = "idle" /\ \A k \in 1 .. 18, s \in {1, 2} : Past(k, s)
<1>1. at = 19
  BY SuiteIs DEF Done, TypeInv, TypeOK
<1>2. step = 0
  BY <1>1 DEF TypeInv, TypeOK, BlockInv
<1>3. phase = "idle"
  BY <1>2, Quiet
<1> QED BY <1>1, <1>2, <1>3 DEF Past

LEMMA Detects == DetectionInv => DefectIsDetected
<1> SUFFICES ASSUME DetectionInv, Done, shown, defect # "slowLater", failed = {} PROVE FALSE
  BY DEF DefectIsDetected
<1>1. at = 19 /\ step = 0 /\ phase = "idle" /\ \A k \in 1 .. 18, s \in {1, 2} : Past(k, s)
  BY OverAtTheEnd DEF DetectionInv
<1>2. \A k \in 1 .. 18, s \in {1, 2} : SelectedAt(k) => ~Caught(k, s)
  BY <1>1 DEF Caught
<1>3. SelectedAt(1) /\ SelectedAt(4) /\ SelectedAt(7) /\ SelectedAt(8) /\ SelectedAt(11)
  BY CreateTests, DeleteTests DEF SelectedAt, IsTest, IsSetup
<1>4. type.writable => SelectedAt(3)
  BY CreateTests DEF SelectedAt, IsTest
<1>5. "list" \in type.handlers => SelectedAt(5) /\ SelectedAt(9)
  BY CreateTests, DeleteTests DEF SelectedAt, IsTest
<1>6. "update" \in type.handlers => SelectedAt(10) /\ SelectedAt(15)
  BY DeleteTests, Needs DEF SelectedAt, IsTest
<1>7. defect \in Defect
  BY DefectsAssumption DEF DetectionInv, ShownInv, TypeInv, TypeOK, ClientTypeOK
<1>8. defect \notin {"progressNoId", "updateNewId"}
  BY <1>1 DEF DetectionInv, PendingInv
<1>9. defect \notin {"createFails", "createNoId", "returnsSecret", "slow", "createAgain",
                     "createPartial", "readWaits", "listMisses"}
  BY <1>2, <1>3, <1>4, <1>5 DEF DetectionInv, ShownInv, CaughtInv
<1>10. defect \notin {"deleteModel", "readGhost", "deleteKeeps", "listGhost", "updateCreates",
                      "deleteGhost", "updatePartial"}
  BY <1>2, <1>3, <1>5, <1>6 DEF DetectionInv, ShownInv, CaughtInv
<1> QED BY <1>7, <1>8, <1>9, <1>10 DEF Defect

LEMMA LossReports == DetectionInv => ForeignLossIsReported
<1> SUFFICES ASSUME DetectionInv, Done, foreign # NoId, live[foreign] # "create", failed = {} PROVE FALSE
  BY DEF ForeignLossIsReported
<1>1. \A k \in 1 .. 18, s \in {1, 2} : Past(k, s)
  BY OverAtTheEnd DEF DetectionInv
<1>2. ~Apart
  BY DEF DetectionInv, ForeignInv
<1>3. SelectedAt(1) /\ (type.writable => SelectedAt(3))
  BY CreateTests DEF SelectedAt, IsTest
<1>4. ~Caught(1, 1) /\ (type.writable => ~Caught(3, 1))
  BY <1>1, <1>3 DEF Caught
<1> QED BY <1>2, <1>4 DEF Apart, DetectionInv, CaughtInv

LEMMA DetectionAlways == Spec => []DetectionInv
BY DetectionInit, DetectionStep, PTL DEF Spec

(* A defect of the handlers that showed in an answer or in the resources    *)
(* makes some test fail, for any identifiers, any number of re-invocations  *)
(* and any resources that the account held before (all tests, call).        *)
THEOREM DefectCorrect == Spec => []DefectIsDetected
BY DetectionAlways, Detects, PTL

(* If the tests delete a resource that the account held before, some test   *)
(* failed (contract_create_delete, contract_create_create).                 *)
THEOREM ForeignLossCorrect == Spec => []ForeignLossIsReported
BY DetectionAlways, LossReports, PTL
=============================================================================
