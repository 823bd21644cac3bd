------------------------ MODULE ContractConformProofs ------------------------
(***************************************************************************)
(* No test fails handlers that keep the contract, the tests leave no       *)
(* resource behind, with such handlers and with some others, and they end, *)
(* with all.                                                               *)
(***************************************************************************)
EXTENDS ContractSuiteProofs, FiniteSetTheorems

-----------------------------------------------------------------------------
(* Handlers that keep the contract.                                         *)

Legit == defect = "none" /\ ~(type.writable /\ foreign = Example)

(* The resource of the tests between two calls, by the place in the suite:  *)
(* whether there is one, its identifier, and its properties.                *)
Keeping ==
  \/ at = 1 /\ cleaning = TRUE
  \/ at \in 3 .. 6
  \/ at \in {7, 12, 14} /\ step = 2
  \/ at \in 15 .. 17 /\ "update" \in type.handlers
Kept == IF at = 12 THEN second.id ELSE model.id
Base ==
  [j \in Ids |-> IF j = foreign THEN "create"
                 ELSE IF Keeping /\ j = Kept
                 THEN IF at \in 15 .. 17 THEN "update" ELSE "create"
                 ELSE "none"]

(* The models of the tests name that resource.                              *)
ModelsInv ==
  /\ Keeping => Kept \in Ids
  /\ at = 12 /\ step = 2 => second.props = "create"
  /\ type.writable =>
       /\ stale = Example
       /\ Holding => model.id = Example
       /\ at = 12 /\ step = 2 => second.id = Example
  /\ at \in {15, 16} /\ "update" \in type.handlers => second.id = model.id
  /\ at = 18 /\ step > 0 => model = CreateExample

(* The operation on resource i that the call began goes on.                 *)
GoesOn(i) ==
  /\ op.token = request.token /\ op.id = i /\ i \in Ids /\ i \in used
  /\ request.act \in {"CREATE", "UPDATE", "DELETE"}
  /\ request.act = "CREATE" =>
       Base[i] = "none" /\ (type.writable => i = Example) /\ live = [Base EXCEPT ![i] = "partial"]
  /\ request.act # "CREATE" => i = Argument(Now).id /\ Base[i] # "none" /\ live = Base

(* What the call found and answered when it is over.                        *)
Is(i) == i \in Ids /\ Base[i] # "none"
Answers(i, props) == answer = Success([id |-> i, props |-> props, secret |-> FALSE])
There == {j \in Ids : Base[j] # "none"}
CreateOver ==
  \/ /\ type.writable /\ Base[Example] # "none"
     /\ answer = Failed("AlreadyExists") /\ live = Base
  \/ \E i \in Ids :
       /\ Base[i] = "none" /\ (type.writable => i = Example) /\ Answers(i, "create")
       /\ live = [Base EXCEPT ![i] = "create"]
ReadOver(i) ==
  /\ live = Base
  /\ Is(i) => Answers(i, Base[i])
  /\ ~Is(i) => answer = Failed("NotFound")
UpdateOver(i) ==
  /\ Is(i) => Answers(i, "update") /\ live = [Base EXCEPT ![i] = "update"]
  /\ ~Is(i) => answer = Failed("NotFound") /\ live = Base
DeleteOver(i) ==
  /\ Is(i) => answer = Success(NoModel) /\ live = [Base EXCEPT ![i] = "none"]
  /\ ~Is(i) => answer = Failed("NotFound") /\ live = Base
ListOver ==
  /\ live = Base /\ answer.status = "SUCCESS" /\ answer.slow = FALSE
  /\ answer.ids \subseteq There
  /\ ~answer.more => There \subseteq request.seen \cup answer.ids

Over ==
  /\ request.act = "CREATE" => CreateOver
  /\ request.act = "READ" => ReadOver(Argument(Now).id)
  /\ request.act = "UPDATE" => UpdateOver(Argument(Now).id)
  /\ request.act = "DELETE" => DeleteOver(Argument(Now).id)
  /\ request.act = "LIST" => ListOver

ResourcesInv ==
  /\ phase = "idle" \/ (phase = "sent" /\ ~request.again) => live = Base
  /\ phase = "sent" /\ ~request.again /\ request.act = "CREATE" => request.model = CreateExample
  /\ phase = "sent" /\ request.again => GoesOn(request.model.id)
  /\ phase = "sent" => request.seen \subseteq There
  /\ phase = "answered" =>
       /\ answer.status = "IN_PROGRESS" => GoesOn(answer.model.id) /\ answer.slow = FALSE
       /\ answer.status # "IN_PROGRESS" => Over
       /\ request.seen \subseteq There
  /\ \A j \in Ids : live[j] # "none" => j \in used

(* Each fixture that the running test needs has yielded.                    *)
ReadyInv ==
  /\ at \in 3 .. 6 => "created_resource" \in ready
  /\ at \in 8 .. 13 => "deleted_resource" \in ready
  /\ at \in 15 .. 17 /\ "update" \in type.handlers => "updated_resource" \in ready

(* How many identifiers are taken.                                          *)
MadeAt(k, s, clean) ==
  CASE k = 1 /\ clean = FALSE -> 0
    [] (k = 1 /\ clean = TRUE) \/ k = 2 -> 1
    [] k \in 3 .. 6 \/ (k = 7 /\ s # 2) -> 2
    [] (k = 7 /\ s = 2) \/ k \in 8 .. 13 \/ (k = 14 /\ s # 2) -> 3
    [] OTHER -> 4
Made == MadeAt(at, step, cleaning)
Creating == step > 0 /\ Now.act = "CREATE" /\ (phase = "answered" \/ (phase = "sent" /\ request.again))
SupplyInv ==
  ~type.writable =>
    /\ IsFiniteSet(used)
    /\ Cardinality(used) <= 1 + Made + (IF Creating THEN 1 ELSE 0)

ConformInv ==
  /\ DetectionInv
  /\ Legit => failed = {} /\ ModelsInv /\ ResourcesInv /\ ReadyInv /\ SupplyInv

-----------------------------------------------------------------------------
(* Types whose identifier the developer chooses.                            *)

Own == type.writable /\ defect \in {"none", "createAgain", "createFails", "createPartial", "returnsSecret"}

(* Everything the tests make has the identifier of the example.             *)
OwnInv ==
  Own => \A f \in Ids \ {Example} : Untouched(f) /\ (f # foreign => live[f] = "none")

Tidy ==
  /\ type.writable /\ "update" \notin type.handlers /\ foreign # Example
  /\ defect \in {"createAgain", "createFails", "createPartial", "returnsSecret"}

(* A test or a fixture is there to delete it.                               *)
Open ==
  \/ at \in {1, 2, 7} /\ step > 0
  \/ at \in 3 .. 6 /\ "created_resource" \in ready
  \/ at \in 8 .. 13 /\ "deleted_resource" \in ready
(* The handlers know the deletion that the call began.                      *)
Deleting == op.token = request.token /\ op.id = Example
OpenInv ==
  Tidy =>
    /\ live[Example] # "none" => Open
    /\ Open => model.id = Example
    /\ at = 12 /\ step = 2 => second.id = Example
    /\ step > 0 => Block.needs \in ready \cup {"none"}
    /\ phase = "sent" /\ request.act = "DELETE" /\ request.again => Deleting
    /\ phase = "answered" /\ request.act = "DELETE" =>
         /\ ~Raises
         /\ answer.status = "IN_PROGRESS" => Deleting
         /\ answer.status # "IN_PROGRESS" => live[Example] = "none"
    /\ phase = "answered" /\ request.act = "CREATE" /\ answer.status = "SUCCESS" =>
         answer.model.id = Example

TidyInv == ConformInv /\ OwnInv /\ OpenInv

-----------------------------------------------------------------------------
(* The answers of handlers that keep the contract.                          *)

LEMMA ConformTypes ==
  ASSUME TypeInv
  PROVE  /\ live \in [Ids -> Props] /\ used \subseteq Ids /\ request.model \in Model
         /\ request.model.id \in Ids \cup {NoId} /\ Example \in Ids /\ NoId \notin Ids
         /\ request.act \in Actions /\ request.left \in Nat /\ type.writable \in BOOLEAN
         /\ foreign \in Ids \cup {NoId} /\ model \in Model /\ second \in Model
         /\ model.id \in Ids \cup {NoId} /\ second.id \in Ids \cup {NoId}
         /\ answer \in Answer /\ answer.model \in Model /\ answer.model.id \in Ids \cup {NoId}
         /\ op.token \in Nat /\ request.token \in Nat /\ stale \in Ids \cup {NoId}
         /\ type \in Type /\ request.seen \subseteq Ids /\ answer.ids \subseteq Ids
BY IdsAssumption, ForeignAssumption
   DEF TypeInv, TypeOK, ClientTypeOK, Request, Model, Answer, Type

LEMMA BaseFields ==
  /\ Base \in [Ids -> {"none", "create", "update"}]
  /\ \A j \in Ids :
       /\ j = foreign => Base[j] = "create"
       /\ j # foreign /\ ~(Keeping /\ j = Kept) => Base[j] = "none"
       /\ j # foreign /\ Keeping /\ j = Kept => Base[j] = IF at \in 15 .. 17 THEN "update" ELSE "create"
BY DEF Base

LEMMA BaseStays ==
  ASSUME UNCHANGED <<type, foreign, at, step, cleaning, model, second>>
  PROVE  Base' = Base /\ There' = There /\ (Keeping' <=> Keeping) /\ Kept' = Kept
<1>1. (Keeping' <=> Keeping) /\ Kept' = Kept
  BY DEF Keeping, Kept
<1>2. Base' = Base
  BY <1>1 DEF Base
<1> QED BY <1>1, <1>2 DEF There

LEMMA CallStays ==
  ASSUME UNCHANGED type, UNCHANGED suiteVars
  PROVE  Now' = Now /\ Argument(Now)' = Argument(Now)
BY DEF suiteVars, Now, Calls, Block, Argument, CreateExample, Stale

(* The outcome of such a handler.                                           *)
LEMMA LegitOutcome ==
  ASSUME TypeInv, TokenInv, RequestInv, HandlerAnswers, defect = "none"
  PROVE  \E o : /\ IsConforming(o) /\ live' = o.live /\ used' = o.used /\ op' = o.op /\ answer' = o.answer
<1>1. PICK o : /\ IsConforming(o) /\ live' = Deviation(o).live /\ used' = Deviation(o).used
               /\ op' = o.op /\ answer' = Deviation(o).answer
  BY HandlerOutcome
<1>2. Deviation(o) = o
  BY <1>1, DeviationIs DEF IsConforming
<1> QED BY <1>1, <1>2

(* Where the suite makes which calls, and what it expects of them.          *)
LEMMA ActsAt ==
  ASSUME TypeInv, step > 0
  PROVE  /\ Now.act = "CREATE" =>
              /\ at \in {1, 2, 3, 7, 12, 14} /\ cleaning = FALSE /\ (at \in {7, 12, 14} => step = 1)
              /\ Now.expect = IF at = 3 THEN "AlreadyExists" ELSE "SUCCESS"
              /\ Now.into = IF at = 3 THEN "none" ELSE IF at = 12 THEN "second" ELSE "model"
              /\ Now.check \subseteq {"id", "echo"} /\ (at = 3 => Now.check = {})
         /\ Now.act = "READ" =>
              /\ at \in {4, 5, 8, 15} /\ cleaning = FALSE /\ (at = 5 => step = 2)
              /\ Now.arg = IF at = 15 THEN "second" ELSE "model"
              /\ Now.expect = IF at = 8 THEN "NotFound" ELSE "SUCCESS"
              /\ Now.into = "none"
              /\ Now.check \subseteq {"id", "secret", "echo", "sameId"} /\ (at = 8 => Now.check = {})
         /\ Now.act = "LIST" =>
              /\ at \in {5, 9, 16} /\ cleaning = FALSE /\ (at = 5 => step = 1)
              /\ Now.arg = IF at = 16 THEN "second" ELSE "model"
              /\ Now.expect = "SUCCESS" /\ Now.into = "none"
              /\ Now.check \subseteq {"listed", "unlisted", "sameId"}
              /\ (at = 9 => Now.check = {"unlisted"}) /\ (at # 9 => "unlisted" \notin Now.check)
         /\ Now.act = "UPDATE" =>
              /\ at \in {10, 14, 18} /\ cleaning = FALSE /\ (at = 14 => step = 2)
              /\ Now.expect = IF at = 14 THEN "SUCCESS" ELSE "NotFound"
              /\ Now.into = IF at = 14 THEN "second" ELSE "none"
              /\ Now.check \subseteq {"echo"} /\ (at # 14 => Now.check = {})
         /\ Now.act = "DELETE" =>
              /\ \/ cleaning = TRUE /\ at \in {1, 2, 7, 14}
                 \/ cleaning = FALSE /\ at \in {6, 11, 13, 17}
                 \/ cleaning = FALSE /\ at \in {7, 12} /\ step = 2
              /\ Now.arg = IF at = 12 THEN "second" ELSE "model"
              /\ cleaning = FALSE => Now.expect = IF at = 11 THEN "NotFound" ELSE IF at = 13 THEN "SUCCESS or NotFound"
                                                  ELSE "SUCCESS"
              /\ at = 1 => Now.expect = "SUCCESS"
              /\ Now.into = "none"
              /\ Now.check \subseteq {"noModel"} /\ (at # 7 => Now.check = {})
         /\ "sameId" \in Now.check => at \in {15, 16}
<1> DEFINE Fits(k, s, clean, c) ==
              /\ c.act = "CREATE" =>
                   /\ k \in {1, 2, 3, 7, 12, 14} /\ clean = FALSE /\ (k \in {7, 12, 14} => s = 1)
                   /\ c.expect = IF k = 3 THEN "AlreadyExists" ELSE "SUCCESS"
                   /\ c.into = IF k = 3 THEN "none" ELSE IF k = 12 THEN "second" ELSE "model"
                   /\ c.check \subseteq {"id", "echo"} /\ (k = 3 => c.check = {})
              /\ c.act = "READ" =>
                   /\ k \in {4, 5, 8, 15} /\ clean = FALSE /\ (k = 5 => s = 2)
                   /\ c.arg = IF k = 15 THEN "second" ELSE "model"
                   /\ c.expect = IF k = 8 THEN "NotFound" ELSE "SUCCESS"
                   /\ c.into = "none"
                   /\ c.check \subseteq {"id", "secret", "echo", "sameId"} /\ (k = 8 => c.check = {})
              /\ c.act = "LIST" =>
                   /\ k \in {5, 9, 16} /\ clean = FALSE /\ (k = 5 => s = 1)
                   /\ c.arg = IF k = 16 THEN "second" ELSE "model"
                   /\ c.expect = "SUCCESS" /\ c.into = "none"
                   /\ c.check \subseteq {"listed", "unlisted", "sameId"}
                   /\ (k = 9 => c.check = {"unlisted"}) /\ (k # 9 => "unlisted" \notin c.check)
              /\ c.act = "UPDATE" =>
                   /\ k \in {10, 14, 18} /\ clean = FALSE /\ (k = 14 => s = 2)
                   /\ c.expect = IF k = 14 THEN "SUCCESS" ELSE "NotFound"
                   /\ c.into = IF k = 14 THEN "second" ELSE "none"
                   /\ c.check \subseteq {"echo"} /\ (k # 14 => c.check = {})
              /\ c.act = "DELETE" =>
                   /\ \/ clean = TRUE /\ k \in {1, 2, 7, 14}
                      \/ clean = FALSE /\ k \in {6, 11, 13, 17}
                      \/ clean = FALSE /\ k \in {7, 12} /\ s = 2
                   /\ c.arg = IF k = 12 THEN "second" ELSE "model"
                   /\ clean = FALSE => c.expect = IF k = 11 THEN "NotFound" ELSE IF k = 13 THEN "SUCCESS or NotFound"
                                                       ELSE "SUCCESS"
                   /\ k = 1 => c.expect = "SUCCESS"
                   /\ c.into = "none"
                   /\ c.check \subseteq {"noModel"} /\ (k # 7 => c.check = {})
              /\ "sameId" \in c.check => k \in {15, 16}
<1>1. /\ Fits(1, 1, FALSE, Create("model", {"id", "echo"}))
      /\ Fits(2, 1, FALSE, Create("model", {"echo"}))
      /\ Fits(3, 1, FALSE, Call("CREATE", "request", "AlreadyExists", "none", {}))
  BY DEF Call, Create, Delete
<1>2. /\ Fits(7, 1, FALSE, Create("model", {"echo"}))
      /\ Fits(12, 1, FALSE, Create("second", {"id"}))
      /\ Fits(14, 1, FALSE, Create("model", {"echo"}))
  BY DEF Call, Create, Delete
<1>3. /\ Fits(4, 1, FALSE, Call("READ", "model", "SUCCESS", "none", {"id", "secret", "echo"}))
      /\ Fits(5, 2, FALSE, Call("READ", "model", "SUCCESS", "none", {"id", "secret", "echo"}))
      /\ Fits(8, 1, FALSE, Call("READ", "model", "NotFound", "none", {}))
  BY DEF Call, Create, Delete
<1>4. /\ Fits(15, 1, FALSE, Call("READ", "second", "SUCCESS", "none", {"sameId", "id", "secret", "echo"}))
  BY DEF Call, Create, Delete
<1>5. /\ Fits(5, 1, FALSE, Call("LIST", "model", "SUCCESS", "none", {"listed"}))
      /\ Fits(9, 1, FALSE, Call("LIST", "model", "SUCCESS", "none", {"unlisted"}))
      /\ Fits(16, 1, FALSE, Call("LIST", "second", "SUCCESS", "none", {"sameId", "listed"}))
  BY DEF Call, Create, Delete
<1>6. /\ Fits(10, 1, FALSE, Call("UPDATE", "update", "NotFound", "none", {}))
      /\ Fits(14, 2, FALSE, Call("UPDATE", "update", "SUCCESS", "second", {"echo"}))
      /\ Fits(18, 1, FALSE, Call("UPDATE", "update", "NotFound", "none", {}))
  BY DEF Call, Create, Delete
<1>7. /\ Fits(1, 1, TRUE, Delete("model", "SUCCESS"))
      /\ Fits(2, 1, TRUE, Delete("model", "SUCCESS"))
      /\ Fits(6, 1, FALSE, Delete("model", "SUCCESS"))
  BY DEF Call, Create, Delete
<1>8. /\ Fits(7, 2, FALSE, Call("DELETE", "model", "SUCCESS", "none", {"noModel"}))
      /\ Fits(7, 1, TRUE, Delete("model", "SUCCESS or NotFound"))
      /\ Fits(11, 1, FALSE, Delete("model", "NotFound"))
  BY DEF Call, Create, Delete
<1>9. /\ Fits(12, 2, FALSE, Delete("second", "SUCCESS"))
      /\ Fits(13, 1, FALSE, Delete("model", "SUCCESS or NotFound"))
      /\ Fits(14, 1, TRUE, Delete("model", "SUCCESS"))
  BY DEF Call, Create, Delete
<1>10. /\ Fits(17, 1, FALSE, Delete("model", "SUCCESS"))
  BY DEF Call, Create, Delete
<1> HIDE DEF Fits
<1>11. Fits(at, step, cleaning, Now)
  BY NowCases, <1>1, <1>2, <1>3, <1>4, <1>5, <1>6, <1>7, <1>8, <1>9, <1>10, Zenon DEF Running, CleaningUp
<1> QED BY <1>11 DEF Fits

(* There is an identifier for every CREATE.                                 *)
LEMMA Supply ==
  ASSUME TypeInv, ControlInv, RequestInv, SupplyInv, failed = {},
         phase = "sent", request.act = "CREATE", ~request.again, type.writable = FALSE
  PROVE  HasFree(used)
<1>1. step > 0 /\ Now.act = "CREATE"
  BY DEF TypeInv, BlockInv, RequestInv
<1>2. at \in {1, 2, 3, 7, 12, 14} /\ cleaning = FALSE /\ (at \in {7, 12, 14} => step = 1)
  BY <1>1, ActsAt
<1>3. at \notin {3, 12}
  BY <1>1, CreateTests, DeleteTests DEF ControlInv, Selected, Block
<1>4. Made \in {0, 1, 2, 3}
  BY <1>2, <1>3 DEF Made, MadeAt
<1>5. ~Creating
  BY DEF Creating
<1>6. IsFiniteSet(used) /\ Cardinality(used) <= 1 + Made
  <2>1. /\ IsFiniteSet(used)
        /\ Cardinality(used) <= 1 + Made + (IF Creating THEN 1 ELSE 0)
    BY DEF SupplyInv
  <2>2. (IF Creating THEN 1 ELSE 0) = 0
    BY <1>5
  <2> QED BY <1>4, <2>1, <2>2
<1>7. Cardinality(used) \in Nat
  BY <1>6, FS_CardinalityType
<1>8. Cardinality(used) <= 4
  BY <1>4, <1>6, <1>7
<1>9. used \in SUBSET Ids
  BY ConformTypes
<1> QED BY <1>6, <1>8, <1>9, SupplyAssumption DEF HasFree

LEMMA LegitCreate ==
  ASSUME TypeInv, TokenInv, RequestInv, ResourcesInv, phase = "sent", request.act = "CREATE",
         ~request.again /\ type.writable = FALSE => HasFree(used),
         NEW o, IsConforming(o), live' = o.live, used' = o.used, op' = o.op, answer' = o.answer,
         UNCHANGED <<type, request>>, Base' = Base
  PROVE  /\ answer'.status = "IN_PROGRESS" => GoesOn(answer.model.id)' /\ answer'.slow = FALSE
         /\ answer'.status # "IN_PROGRESS" => CreateOver'
         /\ \A j \in Ids : live'[j] # "none" => j \in used'
<1>0. /\ live \in [Ids -> Props] /\ Base \in [Ids -> {"none", "create", "update"}] /\ request.model \in Model
      /\ request.model.id \in Ids \cup {NoId} /\ Example \in Ids /\ NoId \notin Ids /\ used \subseteq Ids
      /\ request.left \in Nat /\ type.writable \in BOOLEAN
  BY ConformTypes, BaseFields
<1>1. request.again => GoesOn(request.model.id) /\ request.left > 0
  BY DEF ResourcesInv, RequestInv
<1>2. ~request.again => request.left = 0 /\ live = Base /\ request.model = CreateExample
  BY <1>0 DEF ResourcesInv, RequestInv
<1>3. CreateExample.id = IF type.writable THEN Example ELSE NoId
  BY DEF CreateExample
<1>4. request.model.props = "create"
  BY DEF RequestInv
<1>5. \A j \in Ids : live[j] # "none" => j \in used
  BY DEF ResourcesInv
<1>6. CASE IsRefusal(o)
  <2>1. PICK code \in {"InternalFailure", "ServiceLimitExceeded", "AlreadyExists", "NotFound"} :
          /\ o = Unchanged(Failed(code))
          /\ code = "AlreadyExists" =>
               /\ type.writable = TRUE /\ request.left = 0
               /\ request.model.id \in Ids /\ live[request.model.id] # "none"
          /\ code = "NotFound" => request.act \in {"READ", "UPDATE", "DELETE"}
          /\ code = "ServiceLimitExceeded" =>
               request.left = 0 /\ type.writable = FALSE /\ ~HasFree(used)
          /\ code = "InternalFailure" =>
               \/ request.left > 0 /\ ~(op = [token |-> request.token, id |-> request.model.id] /\ op.id # NoId)
               \/ request.act = "CREATE" /\ type.writable = TRUE /\ request.model.id = NoId
    BY <1>6 DEF IsRefusal
  <2>2. code # "NotFound"
    BY <2>1
  <2>3. code # "ServiceLimitExceeded"
    BY <1>1, <2>1
  <2>4. code # "InternalFailure"
    <3>1. request.again => op.token = request.token /\ op.id = request.model.id /\ op.id \in Ids
      BY <1>1 DEF GoesOn
    <3>2. op \in [token : Nat, id : Ids \cup {NoId}]
      BY DEF TypeInv, TypeOK, ClientTypeOK
    <3>3. request.again => op = [token |-> request.token, id |-> request.model.id] /\ op.id # NoId
      BY <1>0, <3>1, <3>2
    <3>4. request.again => request.model.id # NoId
      BY <1>0, <3>1
    <3>5. ~request.again => request.left = 0 /\ (type.writable = TRUE => request.model.id # NoId)
      BY <1>0, <1>2, <1>3
    <3> QED BY <2>1, <3>3, <3>4, <3>5
  <2>5. code = "AlreadyExists" /\ ~request.again
    BY <1>1, <2>1, <2>2, <2>3, <2>4
  <2>6. o.answer = Failed("AlreadyExists") /\ o.live = live /\ o.used = used
    BY <2>1, <2>5, AnswerFields
  <2>7. type.writable = TRUE /\ Base[Example] # "none" /\ live = Base
    BY <1>0, <1>2, <1>3, <2>1, <2>5
  <2>8. answer'.status = "FAILED"
    BY <2>6, AnswerFields
  <2> QED BY <1>5, <2>6, <2>7, <2>8 DEF CreateOver
<1>7. CASE IsOperation(o)
  <2>1. PICK i \in Ids, n \in 0 .. MaxPolls : o = Perform(i, n) /\ Creates(i)
    BY <1>7 DEF IsOperation
  <2>2. /\ Base[i] = "none" /\ (type.writable => i = Example)
        /\ \A p : [live EXCEPT ![i] = p] = [Base EXCEPT ![i] = p]
    <3>1. CASE request.again
      <4>1. i = request.model.id
        BY <1>1, <2>1, <3>1 DEF Creates
      <4>2. Base[i] = "none" /\ (type.writable => i = Example) /\ live = [Base EXCEPT ![i] = "partial"]
        BY <1>1, <3>1, <4>1 DEF GoesOn
      <4> QED BY <4>2
    <3>2. CASE ~request.again
      <4>1. \/ type.writable = TRUE /\ i = request.model.id /\ live[i] = "none"
            \/ type.writable = FALSE /\ HasFree(used) /\ i = Free(used)
        BY <1>2, <2>1, <3>2 DEF Creates
      <4>2. live[i] = "none"
        BY <1>0, <1>5, <4>1, FreeIsNot
      <4> QED BY <1>0, <1>2, <1>3, <3>2, <4>1, <4>2
    <3> QED BY <3>1, <3>2
  <2>3. o.used = used \cup {i} /\ o.op.token = request.token /\ o.op.id = i
    BY <2>1, PerformTakes
  <2>4. n \in Nat
    BY PollsAssumption
  <2>5. CASE n > 0
    <3>1. /\ o.answer = Progress([request.model EXCEPT !.id = i], n)
          /\ o.live = [live EXCEPT ![i] = "partial"]
      BY <2>1, <2>4, <2>5, PerformGoesOn
    <3>2. o.live = [Base EXCEPT ![i] = "partial"]
      BY <2>2, <3>1, Zenon
    <3> DEFINE goes == [request.model EXCEPT !.id = i]
    <3>3. goes.id = i
      BY <1>0 DEF Model
    <3> HIDE DEF goes
    <3>4. answer' = Progress(goes, n)
      BY <3>1 DEF goes
    <3>5. answer'.status = "IN_PROGRESS" /\ answer'.model.id = i /\ answer'.slow = FALSE
      BY <3>3, <3>4, AnswerFields
    <3>6. GoesOn(answer.model.id)'
      BY <2>2, <2>3, <3>2, <3>5 DEF GoesOn
    <3>7. \A j \in Ids : live'[j] # "none" => j \in used'
      BY <1>0, <1>5, <2>2, <2>3, <3>1
    <3> QED BY <3>5, <3>6, <3>7
  <2>6. CASE n = 0
    <3>1. /\ o.answer = Success([id |-> i, props |-> "create", secret |-> FALSE])
          /\ o.live = [live EXCEPT ![i] = "create"]
      BY <1>4, <2>1, <2>6, PerformEnds
    <3>2. o.live = [Base EXCEPT ![i] = "create"]
      BY <2>2, <3>1, Zenon
    <3>3. answer'.status = "SUCCESS"
      BY <3>1, AnswerFields
    <3>4. CreateOver'
      BY <2>2, <3>1, <3>2 DEF CreateOver, Answers
    <3>5. \A j \in Ids : live'[j] # "none" => j \in used'
      BY <1>0, <1>5, <2>2, <2>3, <3>1
    <3> QED BY <3>3, <3>4, <3>5
  <2>7. n > 0 \/ n = 0
    BY <2>4
  <2> QED BY <2>5, <2>6, <2>7, Zenon
<1> QED BY <1>6, <1>7 DEF IsConforming, IsListing, IsReading

(* UPDATE and DELETE, of the resource that the test means.                  *)
LEMMA LegitOperation ==
  ASSUME TypeInv, TokenInv, RequestInv, ResourcesInv, phase = "sent", request.act \in {"UPDATE", "DELETE"},
         request.act = "UPDATE" => Argument(Now).props = "update",
         NEW o, IsConforming(o), live' = o.live, used' = o.used, op' = o.op, answer' = o.answer,
         UNCHANGED <<type, request>>, Base' = Base, Argument(Now)' = Argument(Now)
  PROVE  /\ answer'.status = "IN_PROGRESS" => GoesOn(answer.model.id)' /\ answer'.slow = FALSE
         /\ answer'.status # "IN_PROGRESS" =>
              /\ request.act = "UPDATE" => UpdateOver(Argument(Now).id)'
              /\ request.act = "DELETE" => DeleteOver(Argument(Now).id)'
         /\ \A j \in Ids : live'[j] # "none" => j \in used'
<1> DEFINE m == Argument(Now).id
<1>0. /\ live \in [Ids -> Props] /\ Base \in [Ids -> {"none", "create", "update"}] /\ request.model \in Model
      /\ request.model.id \in Ids \cup {NoId} /\ NoId \notin Ids /\ used \subseteq Ids /\ request.left \in Nat
  BY ConformTypes, BaseFields
<1>1. request.model = Argument(Now) /\ request.model.id = m
  BY DEF RequestInv
<1>2. live = Base
  BY DEF ResourcesInv, GoesOn
<1>3. request.again => GoesOn(m) /\ request.left > 0
  BY <1>1 DEF ResourcesInv, RequestInv
<1>4. request.left > 0 => GoesOn(m)
  BY <1>0, <1>1 DEF ResourcesInv, RequestInv
<1>5. \A j \in Ids : live[j] # "none" => j \in used
  BY DEF ResourcesInv
<1> HIDE DEF m
<1>6. CASE IsRefusal(o)
  <2>1. PICK code \in {"InternalFailure", "ServiceLimitExceeded", "AlreadyExists", "NotFound"} :
          /\ o = Unchanged(Failed(code))
          /\ code = "AlreadyExists" => request.act = "CREATE"
          /\ code = "NotFound" => (request.model.id \in Ids => live[request.model.id] = "none")
          /\ code = "ServiceLimitExceeded" => request.act = "CREATE"
          /\ code = "InternalFailure" =>
               \/ request.left > 0 /\ ~(op = [token |-> request.token, id |-> request.model.id] /\ op.id # NoId)
               \/ request.act = "CREATE"
    BY <1>6 DEF IsRefusal
  <2>2. code # "InternalFailure"
    <3>1. request.left > 0 => op.token = request.token /\ op.id = request.model.id /\ op.id \in Ids
      BY <1>1, <1>4 DEF GoesOn
    <3>2. op \in [token : Nat, id : Ids \cup {NoId}]
      BY DEF TypeInv, TypeOK, ClientTypeOK
    <3>3. request.left > 0 => op = [token |-> request.token, id |-> request.model.id] /\ op.id # NoId
      BY <1>0, <3>1, <3>2
    <3> QED BY <2>1, <3>3
  <2>3. code = "NotFound" /\ ~Is(m)
    BY <1>1, <1>2, <2>1, <2>2 DEF Is
  <2>4. answer' = Failed("NotFound") /\ live' = live /\ used' = used
    BY <2>1, <2>3, AnswerFields
  <2>5. answer'.status = "FAILED"
    BY <2>4, AnswerFields
  <2>6. UpdateOver(Argument(Now).id)' /\ DeleteOver(Argument(Now).id)'
    BY <1>2, <2>3, <2>4 DEF UpdateOver, DeleteOver, Is, m
  <2> QED BY <1>5, <2>4, <2>5, <2>6
<1>7. CASE IsOperation(o)
  <2>1. PICK i \in Ids, n \in 0 .. MaxPolls :
          o = Perform(i, n) /\ i = request.model.id /\ (request.left = 0 => live[i] # "none")
    BY <1>7 DEF IsOperation
  <2>2. i = m /\ Is(m)
    <3>1. CASE request.left = 0
      BY <1>1, <1>2, <2>1, <3>1 DEF Is
    <3>2. CASE request.left > 0
      BY <1>1, <1>4, <2>1, <3>2 DEF GoesOn, Is
    <3> QED BY <1>0, <3>1, <3>2
  <2>3. o.used = used \cup {i} /\ o.op.token = request.token /\ o.op.id = i
    BY <2>1, PerformTakes
  <2>4. n \in Nat
    BY PollsAssumption
  <2>5. CASE n > 0
    <3>1. /\ o.answer = Progress([request.model EXCEPT !.id = i], n)
          /\ o.live = [live EXCEPT ![i] = live[i]]
      BY <2>1, <2>4, <2>5, PerformGoesOn
    <3>2. o.live = Base
      BY <1>0, <1>2, <3>1
    <3> DEFINE goes == [request.model EXCEPT !.id = i]
    <3>3. goes.id = i
      BY <1>0 DEF Model
    <3> HIDE DEF goes
    <3>4. answer' = Progress(goes, n)
      BY <3>1 DEF goes
    <3>5. answer'.status = "IN_PROGRESS" /\ answer'.model.id = i /\ answer'.slow = FALSE
      BY <3>3, <3>4, AnswerFields
    <3>6. GoesOn(answer.model.id)'
      BY <2>2, <2>3, <3>2, <3>5 DEF GoesOn, Is, m
    <3>7. \A j \in Ids : live'[j] # "none" => j \in used'
      BY <1>0, <1>2, <1>5, <2>3, <3>2
    <3> QED BY <3>5, <3>6, <3>7
  <2>6. CASE n = 0
    <3>1. CASE request.act = "DELETE"
      <4>1. o.answer = Success(NoModel) /\ o.live = [live EXCEPT ![i] = "none"]
        BY <2>1, <2>6, <3>1, PerformEnds
      <4>2. answer'.status = "SUCCESS"
        BY <4>1, AnswerFields
      <4>3. DeleteOver(Argument(Now).id)'
        BY <1>2, <2>2, <4>1 DEF DeleteOver, Is, m
      <4>4. \A j \in Ids : live'[j] # "none" => j \in used'
        BY <1>0, <1>5, <2>3, <4>1
      <4> QED BY <3>1, <4>2, <4>3, <4>4
    <3>2. CASE request.act = "UPDATE"
      <4>1. request.model.props = "update"
        BY <1>1, <3>2
      <4>2. /\ o.answer = Success([id |-> i, props |-> "update", secret |-> FALSE])
            /\ o.live = [live EXCEPT ![i] = "update"]
        BY <2>1, <2>6, <3>2, <4>1, PerformEnds
      <4>3. answer'.status = "SUCCESS"
        BY <4>2, AnswerFields
      <4>4. UpdateOver(Argument(Now).id)'
        BY <1>2, <2>2, <4>2 DEF UpdateOver, Is, Answers, m
      <4>5. \A j \in Ids : live'[j] # "none" => j \in used'
        BY <1>0, <1>5, <2>3, <4>2
      <4> QED BY <3>2, <4>3, <4>4, <4>5
    <3> QED BY <3>1, <3>2
  <2>7. n > 0 \/ n = 0
    BY <2>4
  <2> QED BY <2>5, <2>6, <2>7, Zenon
<1> QED BY <1>6, <1>7 DEF IsConforming, IsListing, IsReading

(* READ and LIST.                                                           *)
LEMMA LegitLook ==
  ASSUME TypeInv, TokenInv, RequestInv, ResourcesInv, phase = "sent", request.act \in {"READ", "LIST"},
         NEW o, IsConforming(o), live' = o.live, used' = o.used, op' = o.op, answer' = o.answer,
         UNCHANGED <<type, request>>, Base' = Base, Argument(Now)' = Argument(Now)
  PROVE  /\ answer'.status # "IN_PROGRESS"
         /\ request.act = "READ" => ReadOver(Argument(Now).id)'
         /\ request.act = "LIST" => ListOver'
         /\ \A j \in Ids : live'[j] # "none" => j \in used'
<1> DEFINE m == Argument(Now).id
<1>0. /\ Base \in [Ids -> {"none", "create", "update"}] /\ request.left \in Nat /\ request.seen \subseteq Ids
  BY ConformTypes, BaseFields
<1>1. request.model.id = m /\ ~request.again /\ request.left = 0 /\ live = Base
  BY <1>0 DEF RequestInv, ResourcesInv
<1>2. \A j \in Ids : live[j] # "none" => j \in used
  BY DEF ResourcesInv
<1> HIDE DEF m
<1>3. CASE IsRefusal(o)
  <2>1. PICK code \in {"InternalFailure", "ServiceLimitExceeded", "AlreadyExists", "NotFound"} :
          /\ o = Unchanged(Failed(code))
          /\ code = "AlreadyExists" => request.act = "CREATE"
          /\ code = "NotFound" =>
               /\ request.act \in {"READ", "UPDATE", "DELETE"}
               /\ request.model.id \in Ids => live[request.model.id] = "none"
          /\ code = "ServiceLimitExceeded" => request.act = "CREATE"
          /\ code = "InternalFailure" => request.left > 0 \/ request.act = "CREATE"
    BY <1>3 DEF IsRefusal
  <2>2. code = "NotFound" /\ request.act = "READ" /\ ~Is(m)
    BY <1>1, <2>1 DEF Is
  <2>3. answer' = Failed("NotFound") /\ live' = live /\ used' = used
    BY <2>1, <2>2, AnswerFields
  <2>4. answer'.status = "FAILED"
    BY <2>3, AnswerFields
  <2>5. ReadOver(Argument(Now).id)'
    BY <1>1, <2>2, <2>3 DEF ReadOver, Is, m
  <2> QED BY <1>2, <2>2, <2>3, <2>4, <2>5
<1>4. CASE IsReading(o)
  <2>1. /\ request.act = "READ" /\ request.model.id \in Ids /\ live[request.model.id] # "none"
        /\ o = Unchanged(Success([id |-> request.model.id, props |-> live[request.model.id], secret |-> FALSE]))
    BY <1>4 DEF IsReading
  <2>2. /\ answer' = Success([id |-> m, props |-> Base[m], secret |-> FALSE])
        /\ live' = live /\ used' = used
    BY <1>1, <2>1, AnswerFields
  <2>3. answer'.status = "SUCCESS"
    BY <2>2, AnswerFields
  <2>4. ReadOver(Argument(Now).id)'
    BY <1>1, <2>1, <2>2 DEF ReadOver, Is, Answers, m
  <2> QED BY <1>2, <2>1, <2>2, <2>3, <2>4
<1>5. CASE IsListing(o)
  <2>1. PICK ids \in SUBSET Ids, more \in BOOLEAN :
          /\ o = Unchanged(Listing(ids, more)) /\ ids \subseteq Unlisted
          /\ more = FALSE => Unlisted \subseteq ids
    BY <1>5 DEF IsListing
  <2>2. answer' = Listing(ids, more) /\ live' = live /\ used' = used /\ request.act = "LIST"
    BY <1>5, <2>1, AnswerFields DEF IsListing
  <2>3. answer'.status = "SUCCESS" /\ answer'.slow = FALSE /\ answer'.ids = ids /\ answer'.more = more
    BY <2>2, AnswerFields
  <2>4. Unlisted = There \ request.seen
    BY <1>1 DEF Unlisted, There
  <2>5. ~answer'.more => more = FALSE
    BY <2>3, Zenon
  <2>6. There' = There
    BY DEF There
  <2>7. ListOver'
    BY <1>1, <2>1, <2>2, <2>3, <2>4, <2>5, <2>6 DEF ListOver
  <2> QED BY <1>2, <2>2, <2>3, <2>7
<1> QED BY <1>3, <1>4, <1>5 DEF IsConforming, IsOperation

LEMMA LegitHandler ==
  ASSUME TypeInv, ControlInv, TokenInv, RequestInv, ResourcesInv, SupplyInv, failed = {}, defect = "none",
         HandlerAnswers, UNCHANGED suiteVars
  PROVE  ResourcesInv'
<1>1. PICK o : /\ IsConforming(o) /\ live' = o.live /\ used' = o.used /\ op' = o.op /\ answer' = o.answer
  BY LegitOutcome
<1>2. UNCHANGED <<type, request>> /\ phase = "sent" /\ phase' = "answered"
  BY DEF HandlerAnswers
<1>3. Base' = Base /\ There' = There
  BY <1>2, BaseStays DEF suiteVars, HandlerAnswers
<1>4. Argument(Now)' = Argument(Now)
  BY <1>2, CallStays
<1>5. step > 0 /\ request.act = Now.act
  BY <1>2 DEF TypeInv, BlockInv, RequestInv
<1>6. ~request.again /\ type.writable = FALSE /\ request.act = "CREATE" => HasFree(used)
  BY <1>2, Supply
<1>7. request.act = "UPDATE" => Argument(Now).props = "update"
  BY <1>5, ArgumentFields
<1>8. request.seen \subseteq There
  BY <1>2 DEF ResourcesInv
<1>9. /\ answer'.status = "IN_PROGRESS" => GoesOn(answer.model.id)' /\ answer'.slow = FALSE
      /\ answer'.status # "IN_PROGRESS" => Over'
      /\ \A j \in Ids : live'[j] # "none" => j \in used'
  <2>1. CASE request.act = "CREATE"
    BY <1>1, <1>2, <1>3, <1>6, <2>1, LegitCreate DEF Over
  <2>2. CASE request.act \in {"UPDATE", "DELETE"}
    BY <1>1, <1>2, <1>3, <1>4, <1>7, <2>2, LegitOperation DEF Over
  <2>3. CASE request.act \in {"READ", "LIST"}
    BY <1>1, <1>2, <1>3, <1>4, <2>3, LegitLook DEF Over
  <2>4. request.act \in Actions
    BY ConformTypes
  <2> QED BY <2>1, <2>2, <2>3, <2>4 DEF Actions
<1> QED BY <1>2, <1>3, <1>8, <1>9 DEF ResourcesInv

-----------------------------------------------------------------------------
(* Such an answer passes.                                                   *)

(* The resource of the tests is not the account's own.                      *)
LEMMA Where ==
  ASSUME DetectionInv, ModelsInv, Legit, failed = {}
  PROVE  /\ Keeping => Kept \in Ids /\ Kept # foreign
         /\ Holding => model.id \in Ids /\ model.id # foreign /\ model.props = "create"
         /\ type.writable => Example # foreign /\ stale = Example
         /\ foreign # NoId => stale # foreign
<1>1. defect = "none" /\ ~(type.writable /\ foreign = Example)
  BY DEF Legit
<1>2. foreign # NoId => foreign \notin {model.id, second.id, stale}
  BY <1>1 DEF DetectionInv, ForeignInv, Apart
<1>3. Keeping => Kept \in Ids /\ Kept \in {model.id, second.id}
  BY DEF ModelsInv, Kept
<1>4. Holding => model.id \in Ids /\ model.props = "create"
  BY <1>1 DEF DetectionInv, HoldingInv
<1>5. NoId \notin Ids
  BY IdsAssumption
<1> QED BY <1>1, <1>2, <1>3, <1>4, <1>5 DEF ModelsInv

LEMMA NoRaise ==
  ASSUME TypeInv, RequestInv, ResourcesInv, phase = "answered"
  PROVE  ~Raises
<1>1. answer.model.id \in Ids \cup {NoId} /\ NoId \notin Ids /\ request.act \in Actions /\ answer \in Answer
  BY ConformTypes
<1>2. CASE answer.status = "IN_PROGRESS"
  <2>1. GoesOn(answer.model.id) /\ answer.slow = FALSE
    BY <1>2 DEF ResourcesInv
  <2>2. answer.model.id # NoId /\ request.act \notin {"READ", "LIST"}
    BY <1>1, <2>1 DEF GoesOn
  <2> QED BY <1>2, <2>1, <2>2, Zenon DEF Raises
<1>3. CASE answer.status # "IN_PROGRESS"
  <2>1. Over
    BY <1>3 DEF ResourcesInv
  <2>2. answer.slow = FALSE
    <3> DEFINE Plain == (\E m : answer = Success(m)) \/ (\E code : answer = Failed(code))
    <3>1. CreateOver => Plain
      BY DEF CreateOver, Answers
    <3>2. \A i : ReadOver(i) => Plain
      BY DEF ReadOver, Answers
    <3>3. \A i : UpdateOver(i) => Plain
      BY DEF UpdateOver, Answers
    <3>4. \A i : DeleteOver(i) => Plain
      BY DEF DeleteOver
    <3>5. Plain => answer.slow = FALSE
      BY AnswerFields
    <3> HIDE DEF Plain
    <3>6. ListOver => answer.slow = FALSE
      BY DEF ListOver
    <3> QED BY <1>1, <2>1, <3>1, <3>2, <3>3, <3>4, <3>5, <3>6 DEF Over, Actions
  <2>3. answer.status = "SUCCESS" /\ request.act \notin {"READ", "LIST"} => answer.model.secret = FALSE
    <3>1. request.act \in {"CREATE", "UPDATE", "DELETE"} /\ answer.status = "SUCCESS" =>
            answer = Success(NoModel) \/ \E i \in Ids, p \in Props : Answers(i, p)
      BY <2>1, AnswerFields DEF Over, CreateOver, UpdateOver, DeleteOver, Is, Props
    <3>2. NoModel.secret = FALSE
      BY DEF NoModel
    <3>3. \A i, p : Answers(i, p) => answer.model.secret = FALSE
      BY AnswerFields DEF Answers
    <3> QED BY <1>1, <3>1, <3>2, <3>3, AnswerFields DEF Actions
  <2> QED BY <1>3, <2>2, <2>3, Zenon DEF Raises
<1> QED BY <1>2, <1>3

(* A CREATE makes a resource, except that of contract_create_create.        *)
LEMMA CreatePassed ==
  ASSUME ConformInv, Legit, step > 0, phase = "answered", answer.status # "IN_PROGRESS", request.act = "CREATE"
  PROVE  /\ Passed(Now)
         /\ at = 3 => live = Base
         /\ at # 3 => \E i \in Ids :
              /\ i # foreign /\ (type.writable => i = Example)
              /\ answer.model.id = i /\ answer.model.props = "create"
              /\ live = [Base EXCEPT ![i] = "create"]
<1>1. DetectionInv /\ ModelsInv /\ ResourcesInv /\ failed = {} /\ TypeInv /\ RequestInv /\ ControlInv
  BY DEF ConformInv, DetectionInv
<1>2. Now.act = "CREATE"
  BY <1>1 DEF RequestInv
<1>3. /\ at \in {1, 2, 3, 7, 12, 14} /\ cleaning = FALSE /\ (at \in {7, 12, 14} => step = 1)
      /\ Now.expect = IF at = 3 THEN "AlreadyExists" ELSE "SUCCESS"
      /\ Now.into = IF at = 3 THEN "none" ELSE IF at = 12 THEN "second" ELSE "model"
      /\ Now.check \subseteq {"id", "echo"} /\ (at = 3 => Now.check = {})
  BY <1>1, <1>2, ActsAt
<1>4. CreateOver /\ ~Raises
  BY <1>1, NoRaise DEF ResourcesInv, Over
<1>5. Example \in Ids /\ NoId \notin Ids /\ type.writable \in BOOLEAN
  BY <1>1, ConformTypes
<1>6. type.writable => Example # foreign
  BY <1>1, Where
<1>7. CASE at = 3
  <2>1. type.writable
    BY <1>1, <1>7, CreateTests DEF ControlInv, Selected, Block
  <2>2. Keeping /\ Holding
    BY <1>7 DEF Keeping, Holding
  <2>3. Kept = Example
    BY <1>1, <1>7, <2>1, <2>2 DEF ModelsInv, Kept
  <2>4. Base[Example] = "create"
    BY <1>5, <1>6, <1>7, <2>1, <2>2, <2>3, BaseFields
  <2>5. answer = Failed("AlreadyExists") /\ live = Base
    BY <1>4, <1>5, <2>1, <2>4 DEF CreateOver
  <2>6. answer.code = "AlreadyExists"
    BY <2>5, AnswerFields
  <2>7. Passed(Now)
    BY <1>3, <1>4, <1>7, <2>6 DEF Passed, Accepted, Expected
  <2> QED BY <1>7, <2>5, <2>7
<1>8. CASE at # 3
  <2>1. ~Keeping
    BY <1>3, <1>8 DEF Keeping
  <2>2. type.writable => Base[Example] = "none"
    BY <1>5, <1>6, <2>1, BaseFields
  <2>3. PICK i \in Ids : /\ Base[i] = "none" /\ (type.writable => i = Example) /\ Answers(i, "create")
                         /\ live = [Base EXCEPT ![i] = "create"]
    BY <1>4, <2>2 DEF CreateOver
  <2>4. i # foreign
    BY <2>3, BaseFields
  <2>5. answer.status = "SUCCESS" /\ answer.model.id = i /\ answer.model.props = "create"
    BY <2>3, AnswerFields DEF Answers
  <2>6. Argument(Now).props = "create" /\ (type.writable => Argument(Now).id = Example)
    BY <1>1, <1>2, ArgumentFields DEF CreateExample
  <2>7. answer.model # NoModel /\ answer.model.id # NoId
    BY <1>5, <2>5 DEF NoModel
  <2>8. Passed(Now)
    BY <1>3, <1>4, <1>8, <2>3, <2>5, <2>6, <2>7 DEF Passed, Accepted, Expected, Echoed
  <2> QED BY <1>8, <2>3, <2>4, <2>5, <2>8
<1> QED BY <1>7, <1>8

(* A READ finds the resource unless the test has deleted it.                *)
LEMMA ReadPassed ==
  ASSUME ConformInv, Legit, step > 0, phase = "answered", answer.status # "IN_PROGRESS", request.act = "READ"
  PROVE  Passed(Now) /\ live = Base
<1>1. /\ DetectionInv /\ ModelsInv /\ ResourcesInv /\ failed = {} /\ TypeInv /\ RequestInv /\ ControlInv
      /\ SecondInv
  BY DEF ConformInv, DetectionInv
<1>2. Now.act = "READ"
  BY <1>1 DEF RequestInv
<1>3. /\ at \in {4, 5, 8, 15} /\ cleaning = FALSE /\ (at = 5 => step = 2)
      /\ Now.arg = IF at = 15 THEN "second" ELSE "model"
      /\ Now.expect = IF at = 8 THEN "NotFound" ELSE "SUCCESS"
      /\ Now.into = "none"
      /\ Now.check \subseteq {"id", "secret", "echo", "sameId"} /\ (at = 8 => Now.check = {})
  BY <1>1, <1>2, ActsAt
<1>4. ReadOver(Argument(Now).id) /\ ~Raises
  BY <1>1, NoRaise DEF ResourcesInv, Over
<1>5. NoId \notin Ids
  BY IdsAssumption
<1>6. CASE at = 8
  <2>1. Holding /\ ~Keeping /\ Argument(Now) = model
    BY <1>1, <1>3, <1>6, ArgumentFields DEF Holding, Keeping
  <2>2. ~Is(model.id)
    BY <1>1, <2>1, Where, BaseFields DEF Is
  <2>3. answer = Failed("NotFound") /\ live = Base
    BY <1>4, <2>1, <2>2 DEF ReadOver
  <2>4. answer.code = "NotFound"
    BY <2>3, AnswerFields
  <2> QED BY <1>3, <1>4, <1>6, <2>3, <2>4 DEF Passed, Accepted, Expected
<1>7. CASE at # 8
  <2>1. at = 15 => "update" \in type.handlers
    BY <1>1, UpdateTests DEF ControlInv, Selected, Block, IsTest
  <2>2. Keeping /\ Holding
    BY <1>3, <1>7, <2>1 DEF Keeping, Holding
  <2>3. Argument(Now) = IF at = 15 THEN second ELSE model
    BY <1>1, <1>3, ArgumentFields
  <2>4. Argument(Now).id = Kept /\ Kept \in Ids /\ Kept # foreign
    BY <1>1, <1>3, <1>7, <2>1, <2>2, <2>3, Where DEF ModelsInv, Kept
  <2>5. Base[Kept] = (IF at = 15 THEN "update" ELSE "create") /\ Is(Kept)
    BY <1>3, <1>7, <2>2, <2>4, BaseFields DEF Is
  <2>6. Argument(Now).props = Base[Kept]
    BY <1>1, <1>3, <1>7, <2>1, <2>2, <2>3, <2>5, Where DEF SecondInv
  <2>7. Answers(Kept, Base[Kept]) /\ live = Base
    BY <1>4, <2>4, <2>5 DEF ReadOver
  <2>8. /\ answer.status = "SUCCESS" /\ answer.model.id = Kept /\ answer.model.props = Base[Kept]
        /\ answer.model.secret = FALSE
    BY <2>7, AnswerFields DEF Answers
  <2>9. answer.model.id # NoId
    BY <1>5, <2>4, <2>8
  <2>10. Expected(Now) /\ ~answer.model.secret /\ Echoed(Now)
    BY <1>3, <1>4, <1>7, <2>4, <2>6, <2>8 DEF Expected, Echoed
  <2> QED BY <1>3, <2>7, <2>9, <2>10 DEF Passed, Accepted
<1> QED BY <1>6, <1>7

(* A listing holds the resource unless the test has deleted it.             *)
LEMMA ListPassed ==
  ASSUME ConformInv, Legit, step > 0, phase = "answered", answer.status # "IN_PROGRESS", request.act = "LIST",
         ~answer.more
  PROVE  Passed(Now) /\ live = Base
<1>1. /\ DetectionInv /\ ModelsInv /\ ResourcesInv /\ failed = {} /\ TypeInv /\ RequestInv /\ ControlInv
  BY DEF ConformInv, DetectionInv
<1>2. Now.act = "LIST"
  BY <1>1 DEF RequestInv
<1>3. /\ at \in {5, 9, 16} /\ cleaning = FALSE /\ (at = 5 => step = 1)
      /\ Now.arg = IF at = 16 THEN "second" ELSE "model"
      /\ Now.expect = "SUCCESS" /\ Now.into = "none"
      /\ Now.check \subseteq {"listed", "unlisted", "sameId"}
      /\ (at = 9 => Now.check = {"unlisted"}) /\ (at # 9 => "unlisted" \notin Now.check)
  BY <1>1, <1>2, ActsAt
<1>4. ListOver /\ ~Raises /\ request.seen \subseteq There
  BY <1>1, NoRaise DEF ResourcesInv, Over
<1>5. Listed = There /\ live = Base /\ answer.status = "SUCCESS"
  BY <1>4 DEF ListOver, Listed
<1>6. Accepted(Now)
  BY <1>3, <1>4, <1>5 DEF Accepted, Expected
<1>7. CASE at = 9
  <2>1. Holding /\ ~Keeping /\ Argument(Now) = model
    BY <1>1, <1>3, <1>7, ArgumentFields DEF Holding, Keeping
  <2>2. model.id \in Ids /\ model.id \notin There
    BY <1>1, <2>1, Where, BaseFields DEF There
  <2>3. Argument(Now).id # NoId
    BY <2>1, <2>2, IdsAssumption
  <2> QED BY <1>3, <1>5, <1>6, <1>7, <2>1, <2>2, <2>3 DEF Passed
<1>8. CASE at # 9
  <2>1. at = 16 => "update" \in type.handlers
    BY <1>1, UpdateTests DEF ControlInv, Selected, Block, IsTest
  <2>2. Keeping /\ Argument(Now) = IF at = 16 THEN second ELSE model
    BY <1>1, <1>3, <1>8, <2>1, ArgumentFields DEF Keeping
  <2>3. Argument(Now).id = Kept /\ Kept \in Ids /\ Kept # foreign
    BY <1>1, <1>3, <1>8, <2>1, <2>2, Where DEF ModelsInv, Kept
  <2>4. Kept \in There
    BY <2>2, <2>3, BaseFields DEF There
  <2> QED BY <1>3, <1>5, <1>6, <1>8, <2>3, <2>4 DEF Passed
<1> QED BY <1>7, <1>8

(* An UPDATE changes the resource of updated_resource, and finds none in    *)
(* the other tests.                                                         *)
LEMMA UpdatePassed ==
  ASSUME ConformInv, Legit, step > 0, phase = "answered", answer.status # "IN_PROGRESS", request.act = "UPDATE"
  PROVE  /\ Passed(Now)
         /\ at # 14 => live = Base
         /\ at = 14 =>
              /\ answer.model.id = Kept /\ answer.model.props = "update"
              /\ live = [Base EXCEPT ![Kept] = "update"]
<1>1. /\ DetectionInv /\ ModelsInv /\ ResourcesInv /\ failed = {} /\ TypeInv /\ RequestInv /\ ControlInv
  BY DEF ConformInv, DetectionInv
<1>2. Now.act = "UPDATE"
  BY <1>1 DEF RequestInv
<1>3. /\ at \in {10, 14, 18} /\ cleaning = FALSE /\ (at = 14 => step = 2)
      /\ Now.expect = IF at = 14 THEN "SUCCESS" ELSE "NotFound"
      /\ Now.into = IF at = 14 THEN "second" ELSE "none"
      /\ Now.check \subseteq {"echo"} /\ (at # 14 => Now.check = {})
  BY <1>1, <1>2, ActsAt
<1>4. UpdateOver(Argument(Now).id) /\ ~Raises
  BY <1>1, NoRaise DEF ResourcesInv, Over
<1>5. NoId \notin Ids /\ Example \in Ids /\ foreign \in Ids \cup {NoId}
  BY <1>1, ConformTypes
<1>6. Argument(Now).props = "update" /\ (model.id \in Ids => Argument(Now).id = model.id)
  BY <1>1, <1>2, ArgumentFields
<1>7. CASE at = 14
  <2>1. Keeping /\ Kept = model.id
    BY <1>3, <1>7 DEF Keeping, Kept
  <2>2. Kept \in Ids /\ Kept # foreign /\ Argument(Now).id = Kept
    BY <1>1, <1>6, <2>1, Where
  <2>3. Is(Kept)
    BY <1>7, <2>1, <2>2, BaseFields DEF Is
  <2>4. Answers(Kept, "update") /\ live = [Base EXCEPT ![Kept] = "update"]
    BY <1>4, <2>2, <2>3 DEF UpdateOver
  <2>5. answer.status = "SUCCESS" /\ answer.model.id = Kept /\ answer.model.props = "update"
    BY <2>4, AnswerFields DEF Answers
  <2>6. answer.model # NoModel
    BY <1>5, <2>2, <2>5 DEF NoModel
  <2>7. Accepted(Now) /\ Echoed(Now)
    BY <1>3, <1>4, <1>6, <1>7, <2>2, <2>5, <2>6 DEF Accepted, Expected, Echoed
  <2>8. Passed(Now)
    BY <1>3, <2>7 DEF Passed
  <2> QED BY <1>7, <2>4, <2>5, <2>8
<1>8. CASE at # 14
  <2>1. ~Keeping
    BY <1>3, <1>8 DEF Keeping
  <2>2. Argument(Now).id \notin Ids \/ Argument(Now).id # foreign
    <3>1. CASE at = 10
      <4>1. Holding
        BY <3>1 DEF Holding
      <4> QED BY <1>1, <1>6, <4>1, Where
    <3>2. CASE at = 18
      <4>1. model = CreateExample
        BY <1>1, <3>2 DEF ModelsInv
      <4>2. CASE type.writable
        <5>1. model.id = Example /\ Example # foreign
          BY <1>1, <4>1, <4>2, Where DEF CreateExample
        <5> QED BY <1>5, <1>6, <5>1
      <4>3. CASE ~type.writable
        <5>1. model.id = NoId
          BY <4>1, <4>3 DEF CreateExample
        <5>2. Now.arg = "update"
          BY <1>1, <1>2, NowFits
        <5>3. Argument(Now).id \in {stale, NoId}
          BY <5>1, <5>2 DEF Argument, Stale
        <5> QED BY <1>1, <1>5, <5>3, Where
      <4> QED BY <4>2, <4>3
    <3> QED BY <1>3, <1>8, <3>1, <3>2
  <2>3. ~Is(Argument(Now).id)
    BY <2>1, <2>2, BaseFields DEF Is
  <2>4. answer = Failed("NotFound") /\ live = Base
    BY <1>4, <2>3 DEF UpdateOver
  <2>5. answer.code = "NotFound"
    BY <2>4, AnswerFields
  <2>6. Passed(Now)
    BY <1>3, <1>4, <1>8, <2>5 DEF Passed, Accepted, Expected
  <2> QED BY <1>8, <2>4, <2>6
<1> QED BY <1>7, <1>8

(* A DELETE removes the resource there is, and finds none after one.        *)
LEMMA DeletePassed ==
  ASSUME ConformInv, Legit, step > 0, phase = "answered", answer.status # "IN_PROGRESS", request.act = "DELETE"
  PROVE  /\ Passed(Now)
         /\ at \in {11, 13} => live = Base
         /\ at \notin {11, 13} => Keeping /\ live = [Base EXCEPT ![Kept] = "none"]
<1>1. /\ DetectionInv /\ ModelsInv /\ ResourcesInv /\ failed = {} /\ TypeInv /\ RequestInv /\ ControlInv
  BY DEF ConformInv, DetectionInv
<1>2. Now.act = "DELETE"
  BY <1>1 DEF RequestInv
<1>3. /\ \/ cleaning = TRUE /\ at = 1
         \/ cleaning = FALSE /\ at \in {6, 11, 13, 17}
         \/ cleaning = FALSE /\ at \in {7, 12} /\ step = 2
      /\ Now.arg = IF at = 12 THEN "second" ELSE "model"
      /\ Now.into = "none"
      /\ Now.check \subseteq {"noModel"} /\ (at # 7 => Now.check = {})
  BY <1>1, <1>2, ActsAt DEF ControlInv
<1>4. Now.expect = IF at = 11 THEN "NotFound" ELSE IF at = 13 THEN "SUCCESS or NotFound" ELSE "SUCCESS"
  <2>1. /\ cleaning = FALSE => Now.expect = IF at = 11 THEN "NotFound"
                                             ELSE IF at = 13 THEN "SUCCESS or NotFound" ELSE "SUCCESS"
        /\ at = 1 => Now.expect = "SUCCESS"
    BY <1>1, <1>2, ActsAt
  <2>2. CASE cleaning = FALSE
    BY <2>1, <2>2
  <2>3. CASE cleaning = TRUE
    <3>1. at = 1
      BY <1>3, <2>3
    <3>2. at # 11 /\ at # 13
      BY <3>1
    <3> QED BY <2>1, <3>1, <3>2
  <2> QED BY <1>3, <2>2, <2>3
<1>5. DeleteOver(Argument(Now).id) /\ ~Raises
  BY <1>1, NoRaise DEF ResourcesInv, Over
<1>6. Argument(Now) = IF at = 12 THEN second ELSE model
  BY <1>1, <1>3, ArgumentFields
<1>7. CASE at \in {11, 13}
  <2>1. Holding /\ ~Keeping
    BY <1>3, <1>7 DEF Holding, Keeping
  <2>2. ~Is(Argument(Now).id)
    BY <1>1, <1>6, <1>7, <2>1, Where, BaseFields DEF Is
  <2>3. answer = Failed("NotFound") /\ live = Base
    BY <1>5, <2>2 DEF DeleteOver
  <2>4. answer.code = "NotFound"
    BY <2>3, AnswerFields
  <2>5. Now.check = {} /\ Now.expect \in {"NotFound", "SUCCESS or NotFound"}
    <3>1. at # 7
      BY <1>7
    <3> QED BY <1>3, <1>4, <1>7, <3>1
  <2>6. Expected(Now)
    BY <1>5, <2>4, <2>5 DEF Expected
  <2>7. Passed(Now)
    BY <1>3, <2>5, <2>6 DEF Passed, Accepted
  <2> QED BY <1>7, <2>3, <2>7
<1>8. CASE at \notin {11, 13}
  <2>1. Keeping
    <3>1. at = 17 => "update" \in type.handlers
      BY <1>1, UpdateTests DEF ControlInv, Selected, Block, IsTest
    <3> QED BY <1>3, <1>8, <3>1 DEF Keeping
  <2>2. Argument(Now).id = Kept /\ Kept \in Ids /\ Kept # foreign
    BY <1>1, <1>6, <2>1, Where DEF Kept
  <2>3. Is(Kept)
    BY <2>1, <2>2, BaseFields DEF Is
  <2>4. answer = Success(NoModel) /\ live = [Base EXCEPT ![Kept] = "none"]
    BY <1>5, <2>2, <2>3 DEF DeleteOver
  <2>5. answer.status = "SUCCESS" /\ answer.model = NoModel
    BY <2>4, AnswerFields
  <2>6. Passed(Now)
    BY <1>3, <1>4, <1>5, <1>8, <2>5 DEF Passed, Accepted, Expected
  <2> QED BY <1>8, <2>1, <2>4, <2>6
<1> QED BY <1>7, <1>8

(* Every call passes, so that the suite goes on.                            *)
LEMMA AllPassed ==
  ASSUME ConformInv, Legit, Conclude
  PROVE  /\ Passed(Now) /\ step > 0 /\ phase = "answered" /\ answer.status # "IN_PROGRESS"
         /\ request.act = Now.act /\ failed' = {} /\ Onward /\ (request.act = "LIST" => ~answer.more)
         /\ model' = (IF Now.into = "model" THEN answer.model ELSE model)
         /\ second' = (IF Now.into = "second" THEN answer.model ELSE second)
         /\ phase' = "idle" /\ UNCHANGED <<type, defect, handlerVars, foreign, stale>>
<1>1. TypeInv /\ ControlInv /\ RequestInv /\ ResourcesInv /\ failed = {}
  BY DEF ConformInv, DetectionInv
<1>2. phase = "answered" /\ step > 0
  BY <1>1, AnsweredCreate DEF Conclude, Returned
<1>3. ~Raises
  BY <1>1, <1>2, NoRaise
<1>4. answer.status # "IN_PROGRESS"
  BY <1>3 DEF Conclude, Returned
<1>5. request.act = Now.act /\ request.act \in Actions
  BY <1>1, <1>2, ConformTypes DEF RequestInv
<1>6. request.act = "LIST" => ~answer.more
  <2>1. request.act = "LIST" => answer.status = "SUCCESS"
    BY <1>1, <1>2, <1>4 DEF ResourcesInv, Over, ListOver
  <2> QED BY <1>3, <2>1, Zenon DEF Conclude, Succeeded
<1>7. Passed(Now)
  <2>1. CASE request.act = "CREATE"
    BY <1>2, <1>4, <2>1, CreatePassed
  <2>2. CASE request.act = "READ"
    BY <1>2, <1>4, <2>2, ReadPassed
  <2>3. CASE request.act = "UPDATE"
    BY <1>2, <1>4, <2>3, UpdatePassed
  <2>4. CASE request.act = "DELETE"
    BY <1>2, <1>4, <2>4, DeletePassed
  <2>5. CASE request.act = "LIST"
    BY <1>2, <1>4, <1>6, <2>5, ListPassed
  <2> QED BY <1>5, <2>1, <2>2, <2>3, <2>4, <2>5 DEF Actions
<1>8. Accepted(Now)
  BY <1>7 DEF Passed
<1>9. failed' = {}
  BY <1>1, <1>7 DEF Conclude, After
<1>10. Onward
  BY <1>1, <1>9, OnwardIs
<1>11. /\ model' = (IF Now.into = "model" THEN answer.model ELSE model)
       /\ second' = (IF Now.into = "second" THEN answer.model ELSE second)
       /\ phase' = "idle" /\ UNCHANGED <<type, defect, handlerVars, foreign, stale>>
  BY <1>8 DEF Conclude
<1> QED BY <1>2, <1>4, <1>5, <1>6, <1>7, <1>9, <1>10, <1>11

(* The resources between two calls, before and after one.                   *)
LEMMA BaseSame ==
  ASSUME Keeping' <=> Keeping, Keeping => Kept' = Kept /\ (at' \in 15 .. 17 <=> at \in 15 .. 17),
         foreign' = foreign
  PROVE  Base' = Base
<1>1. \A j \in Ids : Base'[j] = Base[j]
  <2> TAKE j \in Ids
  <2>1. CASE j = foreign
    BY <2>1 DEF Base
  <2>2. CASE j # foreign /\ Keeping /\ j = Kept
    BY <2>2 DEF Base
  <2>3. CASE j # foreign /\ ~(Keeping /\ j = Kept)
    BY <2>3 DEF Base
  <2> QED BY <2>1, <2>2, <2>3
<1> QED BY <1>1 DEF Base

LEMMA BaseMade ==
  ASSUME ~Keeping, Keeping', Kept' \in Ids, Kept' # foreign, at' \notin 15 .. 17, foreign' = foreign
  PROVE  Base' = [Base EXCEPT ![Kept'] = "create"]
BY DEF Base

LEMMA BaseUpdated ==
  ASSUME Keeping, Keeping', Kept' = Kept, Kept \in Ids, Kept # foreign, at \notin 15 .. 17, at' \in 15 .. 17,
         foreign' = foreign
  PROVE  Base' = [Base EXCEPT ![Kept] = "update"]
BY DEF Base

LEMMA BaseGone ==
  ASSUME Keeping, ~Keeping', Kept \in Ids, Kept # foreign, foreign' = foreign
  PROVE  Base' = [Base EXCEPT ![Kept] = "none"]
BY DEF Base

(* What a call leaves behind is what the tests expect.                      *)
LEMMA ConcludeLive ==
  ASSUME ConformInv, Legit, Conclude
  PROVE  live' = Base' /\ ModelsInv'
<1>1. /\ DetectionInv /\ ModelsInv /\ ResourcesInv /\ failed = {} /\ TypeInv /\ RequestInv /\ ControlInv
  BY DEF ConformInv, DetectionInv
<1>2. /\ Passed(Now) /\ step > 0 /\ phase = "answered" /\ answer.status # "IN_PROGRESS"
      /\ request.act = Now.act /\ failed' = {} /\ Onward /\ (request.act = "LIST" => ~answer.more)
      /\ model' = (IF Now.into = "model" THEN answer.model ELSE model)
      /\ second' = (IF Now.into = "second" THEN answer.model ELSE second)
      /\ type' = type /\ foreign' = foreign /\ stale' = stale /\ live' = live
  BY AllPassed DEF handlerVars
<1>3. /\ Keeping => Kept \in Ids /\ Kept # foreign
      /\ Holding => model.id \in Ids /\ model.id # foreign /\ model.props = "create"
      /\ type.writable => Example # foreign /\ stale = Example
  BY <1>1, Where
<1>4. at \in {15, 16, 17} => "update" \in type.handlers
  BY <1>1, <1>2, UpdateTests DEF ControlInv, Selected, Block, IsTest
<1>5. at = 14 => "update" \in type.handlers
  BY <1>1, <1>2, UpdateTests DEF ControlInv, Selected, Block, IsSetup
<1>6. /\ type.writable =>
           /\ stale = Example
           /\ Holding => model.id = Example
           /\ at = 12 /\ step = 2 => second.id = Example
      /\ at \in {15, 16} /\ "update" \in type.handlers => second.id = model.id
  BY <1>1 DEF ModelsInv
<1>7. ASSUME Now.into = "none", live = Base, Keeping' <=> Keeping,
             Keeping => at \in {3, 4, 5, 15, 16} /\ at' \in {at, at + 1},
             Holding' => Holding,
             ~(at' = 12 /\ step' = 2), at' \in {15, 16} => at \in {15, 16}, ~(at' = 18 /\ step' > 0)
      PROVE  live' = Base' /\ ModelsInv'
  <2>1. model' = model /\ second' = second
    BY <1>2, <1>7
  <2>2. Keeping => Kept' = Kept /\ (at' \in 15 .. 17 <=> at \in 15 .. 17)
    BY <1>7, <2>1 DEF Kept
  <2>3. Base' = Base
    BY <1>2, <1>7, <2>2, BaseSame
  <2> QED BY <1>2, <1>3, <1>4, <1>6, <1>7, <2>1, <2>2, <2>3 DEF ModelsInv
<1>8. CASE request.act = "CREATE"
  <2>1. /\ at \in {1, 2, 3, 7, 12, 14} /\ cleaning = FALSE /\ (at \in {7, 12, 14} => step = 1)
        /\ Now.into = IF at = 3 THEN "none" ELSE IF at = 12 THEN "second" ELSE "model"
    BY <1>1, <1>2, <1>8, ActsAt
  <2>2. CASE at = 3
    <3>1. live = Base /\ Now.into = "none"
      BY <1>2, <1>8, <2>1, <2>2, CreatePassed
    <3>2. at' = 4 /\ step' = 0
      BY <1>2, <2>2 DEF Onward
    <3> QED BY <1>7, <2>2, <3>1, <3>2 DEF Keeping, Holding
  <2>3. CASE at # 3
    <3>1. PICK i \in Ids : /\ i # foreign /\ (type.writable => i = Example)
                           /\ answer.model.id = i /\ answer.model.props = "create"
                           /\ live = [Base EXCEPT ![i] = "create"]
      BY <1>2, <1>8, <2>3, CreatePassed
    <3>2. \/ at = 1 /\ at' = 1 /\ cleaning' = TRUE /\ step' = 1
          \/ at = 2 /\ at' = 3 /\ step' = 0
          \/ at = 7 /\ at' = 7 /\ step' = 2
          \/ at = 12 /\ at' = 12 /\ step' = 2
          \/ at = 14 /\ at' = 14 /\ step' = 2
      BY <1>2, <2>1, <2>3 DEF Onward
    <3>3. ~Keeping /\ Keeping' /\ at' \notin 15 .. 17
      BY <2>1, <3>2 DEF Keeping
    <3>4. (IF at = 12 THEN second' ELSE model') = answer.model /\ (at = 12 => model' = model)
      BY <1>2, <2>1, <2>3
    <3>5. Kept' = i
      BY <3>1, <3>2, <3>4 DEF Kept
    <3>6. live' = Base'
      BY <1>2, <3>1, <3>3, <3>5, BaseMade
    <3>7. type.writable => model'.id = Example /\ (at' = 12 => second'.id = Example)
      <4>1. at = 12 => Holding
        BY DEF Holding
      <4> QED BY <1>6, <3>1, <3>2, <3>4, <4>1
    <3>8. at' = 12 => second'.props = "create"
      BY <3>1, <3>2, <3>4
    <3>9. at' \notin {15, 16, 18}
      BY <3>2
    <3>10. Keeping' => Kept' \in Ids
      BY <3>1, <3>5
    <3>11. type'.writable => stale' = Example
      BY <1>2, <1>6
    <3> QED BY <1>2, <3>6, <3>7, <3>8, <3>9, <3>10, <3>11 DEF ModelsInv
  <2> QED BY <2>2, <2>3
<1>9. CASE request.act = "READ"
  <2>1. at \in {4, 5, 8, 15} /\ cleaning = FALSE /\ (at = 5 => step = 2) /\ Now.into = "none"
    BY <1>1, <1>2, <1>9, ActsAt
  <2>2. live = Base
    BY <1>2, <1>9, ReadPassed
  <2>3. at' = at + 1 /\ step' = 0
    BY <1>2, <2>1 DEF Onward
  <2>4. (Keeping' <=> Keeping) /\ (Keeping => at \in {4, 5, 15}) /\ (Holding' => Holding)
    BY <1>2, <1>4, <2>1, <2>3 DEF Keeping, Holding
  <2> QED BY <1>7, <2>1, <2>2, <2>3, <2>4
<1>10. CASE request.act = "LIST"
  <2>1. at \in {5, 9, 16} /\ cleaning = FALSE /\ (at = 5 => step = 1) /\ Now.into = "none"
    BY <1>1, <1>2, <1>10, ActsAt
  <2>2. live = Base
    BY <1>2, <1>10, ListPassed
  <2>3. (at = 5 /\ at' = 5 /\ step' = 2) \/ (at # 5 /\ at' = at + 1 /\ step' = 0)
    BY <1>2, <2>1 DEF Onward
  <2>4. (Keeping' <=> Keeping) /\ (Keeping => at \in {5, 16}) /\ (Holding' => Holding)
    BY <1>2, <1>4, <2>1, <2>3 DEF Keeping, Holding
  <2> QED BY <1>7, <2>1, <2>2, <2>3, <2>4
<1>11. CASE request.act = "UPDATE"
  <2>1. /\ at \in {10, 14, 18} /\ cleaning = FALSE /\ (at = 14 => step = 2)
        /\ Now.into = IF at = 14 THEN "second" ELSE "none"
    BY <1>1, <1>2, <1>11, ActsAt
  <2>2. at' = at + 1 /\ step' = 0
    BY <1>2, <2>1 DEF Onward
  <2>3. CASE at # 14
    <3>1. live = Base
      BY <1>2, <1>11, <2>3, UpdatePassed
    <3>2. ~Keeping' /\ ~Keeping /\ (Holding' => Holding)
      BY <2>1, <2>2, <2>3 DEF Keeping, Holding
    <3> QED BY <1>7, <2>1, <2>2, <2>3, <3>1, <3>2
  <2>4. CASE at = 14
    <3>1. /\ answer.model.id = Kept /\ live = [Base EXCEPT ![Kept] = "update"]
      BY <1>2, <1>11, <2>4, UpdatePassed
    <3>2. model' = model /\ second' = answer.model
      BY <1>2, <2>1, <2>4
    <3>3. Keeping /\ Keeping' /\ Kept = model.id /\ Kept' = model.id /\ Holding
      BY <1>2, <1>5, <2>1, <2>2, <2>4, <3>2 DEF Keeping, Kept, Holding
    <3>4. live' = Base'
      BY <1>2, <1>3, <2>2, <2>4, <3>1, <3>3, BaseUpdated
    <3>5. at' = 15
      BY <2>2, <2>4
    <3>6. Keeping' => Kept' \in Ids
      BY <1>3, <3>3
    <3>7. type'.writable => stale' = Example /\ model'.id = Example
      BY <1>2, <1>6, <3>2, <3>3
    <3>8. second'.id = model'.id
      BY <3>1, <3>2, <3>3
    <3> QED BY <3>4, <3>5, <3>6, <3>7, <3>8 DEF ModelsInv
  <2> QED BY <2>3, <2>4
<1>12. CASE request.act = "DELETE"
  <2>1. /\ \/ cleaning = TRUE /\ at = 1
           \/ cleaning = FALSE /\ at \in {6, 11, 13, 17}
           \/ cleaning = FALSE /\ at \in {7, 12} /\ step = 2
        /\ Now.into = "none"
    BY <1>1, <1>2, <1>12, ActsAt DEF ControlInv
  <2>2. at' = at + 1 /\ step' = 0 /\ cleaning' = FALSE
    BY <1>2, <2>1 DEF Onward
  <2>3. model' = model /\ second' = second
    BY <1>2, <2>1
  <2>4. ~Keeping' /\ (Holding' => Holding)
    BY <2>1, <2>2 DEF Keeping, Holding
  <2>5. live' = Base'
    <3>1. CASE at \in {11, 13}
      <4>1. ~Keeping
        BY <2>1, <3>1 DEF Keeping
      <4>2. live = Base
        BY <1>2, <1>12, <3>1, DeletePassed
      <4> QED BY <1>2, <2>4, <4>1, <4>2, BaseSame
    <3>2. CASE at \notin {11, 13}
      <4>1. Keeping /\ live = [Base EXCEPT ![Kept] = "none"]
        BY <1>2, <1>12, <3>2, DeletePassed
      <4> QED BY <1>2, <1>3, <2>4, <4>1, BaseGone
    <3> QED BY <3>1, <3>2
  <2>6. at' \in {2, 7, 12, 14, 18, 8, 13}
    BY <2>1, <2>2
  <2> QED BY <1>2, <1>6, <2>2, <2>3, <2>4, <2>5, <2>6 DEF ModelsInv
<1>13. request.act \in Actions
  BY <1>1, ConformTypes
<1> QED BY <1>8, <1>9, <1>10, <1>11, <1>12, <1>13 DEF Actions

LEMMA ConcludeReady ==
  ASSUME ConformInv, Legit, Conclude
  PROVE  ReadyInv'
<1>1. TypeInv /\ ControlInv /\ failed = {} /\ ReadyInv
  BY DEF ConformInv, DetectionInv
<1>2. Passed(Now) /\ step > 0 /\ Onward /\ type' = type /\ step \in 0 .. 2
  BY <1>1, AllPassed DEF TypeInv, TypeOK
<1>3. /\ ready \subseteq ready'
      /\ step' = 0 /\ Block.fixture /\ ~cleaning => Block.name \in ready'
  BY <1>2 DEF Conclude, After, Leave
<1>4. at \in {15, 16, 17} => "update" \in type.handlers
  BY <1>1, <1>2, UpdateTests DEF ControlInv, Selected, Block, IsTest
<1>5. /\ at = 2 => Block.fixture /\ Block.name = "created_resource"
      /\ at = 7 => Block.fixture /\ Block.name = "deleted_resource"
      /\ at = 14 => Block.fixture /\ Block.name = "updated_resource"
  BY CreateTests, DeleteTests, UpdateTests DEF Block, IsSetup
<1>6. at' \in 3 .. 6 => "created_resource" \in ready'
  BY <1>1, <1>2, <1>3, <1>5 DEF Onward, ReadyInv
<1>7. at' \in 8 .. 13 => "deleted_resource" \in ready'
  BY <1>1, <1>2, <1>3, <1>5 DEF Onward, ReadyInv
<1>8. at' \in 15 .. 17 /\ "update" \in type.handlers => "updated_resource" \in ready'
  BY <1>1, <1>2, <1>3, <1>5 DEF Onward, ReadyInv
<1> QED BY <1>2, <1>6, <1>7, <1>8 DEF ReadyInv

(* The identifiers taken, by the place in the suite.                        *)
LEMMA MadeIs ==
  ASSUME NEW k \in 1 .. 19, NEW s, NEW clean \in BOOLEAN
  PROVE  /\ MadeAt(k, s, clean) \in Nat
         /\ k = 1 /\ clean = FALSE => MadeAt(k, s, clean) = 0
         /\ k = 1 /\ clean = TRUE => MadeAt(k, s, clean) = 1
         /\ k = 2 => MadeAt(k, s, clean) = 1
         /\ k \in 3 .. 6 \/ (k = 7 /\ s # 2) => MadeAt(k, s, clean) = 2
         /\ (k = 7 /\ s = 2) \/ k \in 8 .. 13 \/ (k = 14 /\ s # 2) => MadeAt(k, s, clean) = 3
         /\ (k = 14 /\ s = 2) \/ k \in 15 .. 19 => MadeAt(k, s, clean) = 4
<1>1. CASE k = 1 /\ clean = FALSE
  BY <1>1 DEF MadeAt
<1>2. CASE (k = 1 /\ clean = TRUE) \/ k = 2
  BY <1>2 DEF MadeAt
<1>3. CASE k \in 3 .. 6 \/ (k = 7 /\ s # 2)
  BY <1>3 DEF MadeAt
<1>4. CASE (k = 7 /\ s = 2) \/ k \in 8 .. 13 \/ (k = 14 /\ s # 2)
  BY <1>4 DEF MadeAt
<1>5. CASE (k = 14 /\ s = 2) \/ k \in 15 .. 19
  BY <1>5 DEF MadeAt
<1>6. (k = 1 /\ (clean = TRUE \/ clean = FALSE)) \/ k = 2 \/ k \in 3 .. 6 \/ k = 7 \/ k \in 8 .. 13 \/ k = 14 \/ k \in 15 .. 19
  OBVIOUS
<1> QED BY <1>1, <1>2, <1>3, <1>4, <1>5, <1>6

(* More identifiers were taken, and the suite is further on by as many.     *)
LEMMA SupplyGoesOn ==
  ASSUME TypeInv, TypeInv', ~type.writable => SupplyInv, type' = type, used' = used,
         ~Creating', Made' >= Made + (IF Creating THEN 1 ELSE 0)
  PROVE  SupplyInv'
<1> SUFFICES ASSUME ~type.writable
             PROVE  IsFiniteSet(used) /\ Cardinality(used) <= 1 + Made' + 0
  BY DEF SupplyInv
<1>1. IsFiniteSet(used) /\ Cardinality(used) <= 1 + Made + (IF Creating THEN 1 ELSE 0)
  BY DEF SupplyInv
<1>2. Cardinality(used) \in Nat
  BY <1>1, FS_CardinalityType
<1>3. at \in 1 .. 19 /\ cleaning \in BOOLEAN /\ at' \in 1 .. 19 /\ cleaning' \in BOOLEAN
  BY SuiteIs DEF TypeInv, TypeOK
<1>4. Made \in Nat /\ Made' \in Nat
  BY <1>3, MadeIs DEF Made
<1> QED BY <1>1, <1>2, <1>4

LEMMA ConcludeSupply ==
  ASSUME ConformInv, Legit, Conclude, TypeInv'
  PROVE  SupplyInv'
<1>1. TypeInv /\ ControlInv /\ SupplyInv
  BY DEF ConformInv, DetectionInv
<1>2. /\ step > 0 /\ Onward /\ type' = type /\ used' = used /\ phase' = "idle"
      /\ at \in 1 .. 19 /\ cleaning \in BOOLEAN /\ at' \in 1 .. 19 /\ cleaning' \in BOOLEAN
  BY <1>1, AllPassed, SuiteIs DEF TypeInv, TypeOK, handlerVars
<1>3. ~Creating'
  BY <1>2 DEF Creating
<1>4. Made = MadeAt(at, step, cleaning) /\ Made' = MadeAt(at', step', cleaning')
  BY DEF Made
<1>5. Made' >= Made
  <2>1. CASE at = 1 /\ cleaning = FALSE /\ at' = 1 /\ cleaning' = TRUE
    <3>1. MadeAt(at, step, cleaning) = 0 /\ MadeAt(at', step', cleaning') = 1
      BY <1>2, <2>1, MadeIs
    <3> QED BY <1>4, <3>1
  <2>2. CASE at = 1 /\ cleaning = TRUE /\ at' = 2
    <3>1. MadeAt(at, step, cleaning) = 1 /\ MadeAt(at', step', cleaning') = 1
      BY <1>2, <2>2, MadeIs
    <3> QED BY <1>4, <3>1
  <2>3. CASE at \in {5, 7, 12, 14} /\ step = 1 /\ at' = at /\ step' = 2
    BY <1>2, <1>4, <2>3, MadeIs
  <2>4. CASE at \in {5, 7, 12, 14} /\ step = 2 /\ at' = at + 1 /\ step' = 0
    BY <1>2, <1>4, <2>4, MadeIs
  <2>5. CASE at \in {2, 3, 4, 6, 8, 9, 10, 11, 13} /\ step = 1 /\ at' = at + 1 /\ step' = 0
    BY <1>2, <1>4, <2>5, MadeIs
  <2>6. CASE at \in {15, 16, 17, 18} /\ step = 1 /\ at' = at + 1 /\ step' = 0
    BY <1>2, <1>4, <2>6, MadeIs
  <2> QED BY <1>2, <2>1, <2>2, <2>3, <2>4, <2>5, <2>6 DEF Onward
<1>6. Creating /\ type.writable = FALSE => Made' >= Made + 1
  <2> SUFFICES ASSUME Creating, type.writable = FALSE PROVE Made' >= Made + 1
    OBVIOUS
  <2>1. at \in {1, 2, 3, 7, 12, 14} /\ cleaning = FALSE /\ (at \in {7, 12, 14} => step = 1)
    BY <1>1, ActsAt DEF Creating
  <2>2. at \notin {3, 12}
    BY <1>1, <1>2, CreateTests, DeleteTests DEF ControlInv, Selected, Block
  <2>3. CASE at = 1
    <3>1. at' = 1 /\ cleaning' = TRUE
      BY <1>2, <2>1, <2>3 DEF Onward
    <3>2. MadeAt(at, step, cleaning) = 0 /\ MadeAt(at', step', cleaning') = 1
      BY <1>2, <2>1, <2>3, <3>1, MadeIs
    <3> QED BY <1>4, <3>2
  <2>4. CASE at = 2
    BY <1>2, <1>4, <2>1, <2>4, MadeIs DEF Onward
  <2>5. CASE at = 7
    BY <1>2, <1>4, <2>1, <2>5, MadeIs DEF Onward
  <2>6. CASE at = 14
    BY <1>2, <1>4, <2>1, <2>6, MadeIs DEF Onward
  <2> QED BY <2>1, <2>2, <2>3, <2>4, <2>5, <2>6
<1>7. Made \in Nat /\ Made' \in Nat
  BY <1>2, <1>4, MadeIs
<1>8. CASE type.writable = TRUE
  BY <1>2, <1>8 DEF SupplyInv
<1>9. CASE type.writable = FALSE
  <2>1. Made' >= Made + (IF Creating THEN 1 ELSE 0)
    BY <1>5, <1>6, <1>7, <1>9
  <2> QED BY <1>1, <1>2, <1>3, <2>1, SupplyGoesOn
<1>10. type.writable \in BOOLEAN
  BY <1>1, ConformTypes
<1> QED BY <1>8, <1>9, <1>10

LEMMA ConcludeConforms ==
  ASSUME ConformInv, Legit, Conclude, DetectionInv'
  PROVE  failed' = {} /\ ModelsInv' /\ ResourcesInv' /\ ReadyInv' /\ SupplyInv'
<1>1. failed' = {} /\ phase' = "idle" /\ live' = live /\ used' = used
  BY AllPassed DEF handlerVars
<1>2. live' = Base' /\ ModelsInv'
  BY ConcludeLive
<1>3. \A j \in Ids : live[j] # "none" => j \in used
  BY DEF ConformInv, ResourcesInv
<1>4. ResourcesInv'
  BY <1>1, <1>2, <1>3 DEF ResourcesInv
<1> QED BY <1>1, <1>2, <1>4, ConcludeReady, ConcludeSupply DEF DetectionInv

-----------------------------------------------------------------------------
(* The other steps.                                                         *)

(* A fixture yielded when a test asks for it.                               *)
LEMMA FixtureIsReady ==
  ASSUME TypeInv, ReadyInv, at \in 1 .. 18, SelectedAt(at)
  PROVE  Block.needs \in ready \cup {"none"}
<1>1. /\ at \in {1, 2, 7, 14, 18} => Block.needs = "none"
      /\ at \in 3 .. 6 => Block.needs = "created_resource"
      /\ at \in 8 .. 13 => Block.needs = "deleted_resource"
      /\ at \in 15 .. 17 => Block.needs = "updated_resource"
  <2>1. /\ Suite[1].needs = "none" /\ Suite[2].needs = "none" /\ Suite[7].needs = "none"
        /\ Suite[14].needs = "none" /\ Suite[18].needs = "none"
    BY CreateTests, DeleteTests, UpdateTests DEF IsTest, IsSetup
  <2>2. /\ Suite[3].needs = "created_resource" /\ Suite[4].needs = "created_resource"
        /\ Suite[5].needs = "created_resource" /\ Suite[6].needs = "created_resource"
    BY CreateTests DEF IsTest
  <2>3. /\ Suite[8].needs = "deleted_resource" /\ Suite[9].needs = "deleted_resource"
        /\ Suite[10].needs = "deleted_resource" /\ Suite[11].needs = "deleted_resource"
        /\ Suite[12].needs = "deleted_resource" /\ Suite[13].needs = "deleted_resource"
    BY DeleteTests, Zenon DEF IsTest
  <2>4. /\ Suite[15].needs = "updated_resource" /\ Suite[16].needs = "updated_resource"
        /\ Suite[17].needs = "updated_resource"
    BY UpdateTests DEF IsTest
  <2>5. at \in 3 .. 6 => at \in {3, 4, 5, 6}
    OBVIOUS
  <2>6. at \in 8 .. 13 => at \in {8, 9, 10, 11, 12, 13}
    OBVIOUS
  <2>7. at \in 15 .. 17 => at \in {15, 16, 17}
    OBVIOUS
  <2> QED BY <2>1, <2>2, <2>3, <2>4, <2>5, <2>6, <2>7 DEF Block
<1>2. at \in 15 .. 17 => "update" \in type.handlers
  BY Needs
<1>3. at \in {1, 2, 7, 14, 18} \/ at \in 3 .. 6 \/ at \in 8 .. 13 \/ at \in 15 .. 17
  OBVIOUS
<1> QED BY <1>1, <1>2, <1>3 DEF ReadyInv

LEMMA EnterConforms ==
  ASSUME ConformInv, Legit, Enter, DetectionInv'
  PROVE  failed' = {} /\ ModelsInv' /\ ResourcesInv' /\ ReadyInv' /\ SupplyInv'
<1>1. /\ DetectionInv /\ ModelsInv /\ ResourcesInv /\ ReadyInv /\ SupplyInv /\ failed = {} /\ TypeInv
      /\ at \in 1 .. 19 /\ cleaning \in BOOLEAN /\ at' \in 1 .. 19 /\ cleaning' \in BOOLEAN
      /\ type.writable \in BOOLEAN
  BY ConformTypes, SuiteIs DEF ConformInv, DetectionInv, TypeInv, TypeOK
<1>2. at \in 1 .. 18
  BY <1>1, SuiteIs DEF Enter, Done
<1>3. failed' = {}
  <2>1. Selected => SelectedAt(at)
    BY DEF Selected, SelectedAt, Block
  <2> QED BY <1>1, <1>2, <2>1, FixtureIsReady DEF Enter
<1>4. /\ step = 0 /\ cleaning = FALSE /\ phase = "idle" /\ phase' = "idle"
      /\ \/ ~SelectedAt(at) /\ at' = at + 1 /\ step' = 0 /\ cleaning' = FALSE /\ UNCHANGED <<model, second>>
         \/ /\ SelectedAt(at) /\ at' = at /\ step' = 1 /\ cleaning' = FALSE
            /\ Suite[at].needs # "none" => UNCHANGED <<model, second>>
            /\ model' \in {model, NoModel, CreateExample} /\ second' \in {second, NoModel}
  BY <1>1, <1>3, Enters
<1>5. UNCHANGED <<type, handlerVars, foreign, ready, stale>>
  BY DEF Enter
<1>6. at \in {2, 6, 7} => SelectedAt(at)
  <2>1. SelectedAt(6)
    BY CreateTests DEF IsTest, SelectedAt
  <2> QED BY <2>1, Needs
<1>7. /\ at \in 14 .. 17 /\ SelectedAt(at) => "update" \in type.handlers
      /\ at \in {14, 17} /\ "update" \in type.handlers => SelectedAt(at)
  <2>1. "update" \in type.handlers => SelectedAt(17)
    BY UpdateTests DEF IsTest, SelectedAt
  <2> QED BY <2>1, Needs
<1>8. (Keeping' <=> Keeping) /\ (Holding' => Holding) /\ ~(at' = 12 /\ step' = 2)
  <2>1. CASE ~SelectedAt(at) /\ at' = at + 1 /\ step' = 0 /\ cleaning' = FALSE
    BY <1>1, <1>2, <1>4, <1>5, <1>6, <1>7, <2>1 DEF Keeping, Holding
  <2>2. CASE at' = at /\ step' = 1 /\ cleaning' = FALSE
    BY <1>1, <1>2, <1>4, <1>5, <2>2 DEF Keeping, Holding
  <2> QED BY <1>4, <2>1, <2>2
<1>9. Holding' \/ Keeping' => UNCHANGED <<model, second>>
  <2>1. CASE at' = at /\ step' = 1 /\ cleaning' = FALSE /\ (Suite[at].needs # "none" => UNCHANGED <<model, second>>)
    <3>1. Holding' \/ Keeping' => at \in {3, 4, 5, 6, 8, 9, 10, 11, 12, 13, 15, 16, 17}
      BY <1>2, <2>1 DEF Keeping, Holding
    <3> QED BY <2>1, <3>1, Needs
  <2> QED BY <1>4, <2>1
<1>10. Keeping => Kept' = Kept /\ (at' \in 15 .. 17 <=> at \in 15 .. 17)
  <2>1. Keeping => at' # 12 /\ at # 12
    BY <1>4, <1>8 DEF Keeping
  <2>2. Keeping => (at' \in 15 .. 17 <=> at \in 15 .. 17)
    <3>1. CASE at' = at
      BY <3>1
    <3>2. CASE at' = at + 1 /\ step' = 0 /\ cleaning' = FALSE
      <4>1. Keeping => at # 14 /\ Keeping'
        BY <1>4, <1>8 DEF Keeping
      <4>2. Keeping' /\ at = 17 => FALSE
        BY <3>2 DEF Keeping
      <4> QED BY <1>2, <3>2, <4>1, <4>2
    <3> QED BY <1>4, <3>1, <3>2
  <2> QED BY <1>8, <1>9, <2>1, <2>2 DEF Kept
<1>11. Base' = Base
  BY <1>5, <1>8, <1>10, BaseSame
<1>12. ResourcesInv'
  BY <1>1, <1>4, <1>5, <1>11 DEF ResourcesInv, handlerVars
<1>13. ModelsInv'
  <2>1. Keeping' => Kept' \in Ids
    BY <1>1, <1>8, <1>10 DEF ModelsInv
  <2>2. type'.writable => stale' = Example /\ (Holding' => model'.id = Example)
    BY <1>1, <1>5, <1>8, <1>9 DEF ModelsInv
  <2>3. at' \in {15, 16} /\ "update" \in type'.handlers => second'.id = model'.id
    <3> SUFFICES ASSUME at' \in {15, 16}, "update" \in type.handlers PROVE second'.id = model'.id
      BY <1>5
    <3>1. Holding'
      BY <1>5 DEF Holding
    <3>2. Keeping
      BY <1>5, <1>8 DEF Keeping
    <3>3. at \in {15, 16}
      BY <1>2, <1>4, <1>7, <3>2 DEF Keeping
    <3> QED BY <1>1, <1>9, <3>1, <3>3 DEF ModelsInv
  <2>4. at' = 18 /\ step' > 0 => model' = CreateExample'
    <3> SUFFICES ASSUME at' = 18, step' > 0 PROVE model' = CreateExample'
      OBVIOUS
    <3>1. at = 18 /\ step' = 1
      BY <1>4
    <3>2. Block.needs = "none" /\ Block.name = "contract_update_without_create"
      BY <3>1, UpdateTests DEF Block, IsTest
    <3>3. model' = CreateExample
      BY <3>1, <3>2 DEF Enter, Leave
    <3> QED BY <1>5, <3>3 DEF CreateExample
  <2> QED BY <1>8, <2>1, <2>2, <2>3, <2>4 DEF ModelsInv
<1>14. ReadyInv'
  <2>1. at' = at \/ (at' = at + 1 /\ at \notin {2, 7} /\ (at = 14 => "update" \notin type.handlers))
    BY <1>4, <1>6, <1>7
  <2> QED BY <1>1, <1>2, <1>5, <2>1 DEF ReadyInv
<1>15. SupplyInv'
  <2>1. ~Creating' /\ ~Creating
    BY <1>4 DEF Creating
  <2>2. Made = MadeAt(at, step, cleaning) /\ Made' = MadeAt(at', step', cleaning')
    BY DEF Made
  <2>3. Made' >= Made
    <3>1. CASE at' = at /\ step' = 1 /\ cleaning' = cleaning
      <4>1. MadeAt(at, step, cleaning) = MadeAt(at, step', cleaning)
        BY <1>4, <3>1 DEF MadeAt
      <4>2. MadeAt(at, step, cleaning) \in Nat
        BY <1>1, MadeIs
      <4> QED BY <2>2, <3>1, <4>1, <4>2
    <3>2. CASE at' = at + 1 /\ step' = 0 /\ cleaning' = FALSE
      <4>1. at # 1
        BY <1>4, <3>2, CreateTests DEF SelectedAt
      <4>2. CASE at \in 2 .. 7
        BY <1>1, <1>4, <2>2, <3>2, <4>2, MadeIs
      <4>3. CASE at \in 8 .. 18
        BY <1>1, <1>4, <2>2, <3>2, <4>3, MadeIs
      <4> QED BY <1>2, <4>1, <4>2, <4>3
    <3> QED BY <1>4, <3>1, <3>2
  <2>4. Made \in Nat /\ Made' \in Nat
    BY <1>1, <2>2, MadeIs
  <2>5. Made' >= Made + (IF Creating THEN 1 ELSE 0)
    BY <2>1, <2>3, <2>4
  <2>6. TypeInv'
    BY DEF DetectionInv
  <2> QED BY <1>1, <1>5, <2>1, <2>5, <2>6, SupplyGoesOn DEF handlerVars
<1> QED BY <1>3, <1>12, <1>13, <1>14, <1>15

(* Before a call, the models are as the tests assert them to be.            *)
LEMMA CallIsPrepared ==
  ASSUME ConformInv, Legit, step > 0
  PROVE  Prepared(Now) /\ (type.writable => Stale(Now) = Example)
<1>1. DetectionInv /\ ModelsInv /\ failed = {} /\ TypeInv /\ ControlInv
  BY DEF ConformInv, DetectionInv
<1>2. Now.arg = "update" => at \in {10, 14, 18}
  BY <1>1, NowFits
<1>3. at = 14 /\ Now.act = "UPDATE" => step = 2
  BY <1>1, ActsAt
<1>4. Now.arg = "update" <=> Now.act = "UPDATE"
  BY <1>1, NowFits
<1>5. type.writable => stale = Example
  BY <1>1 DEF ModelsInv
<1>6. type.writable /\ Now.arg = "update" => model.id = Example
  <2> SUFFICES ASSUME type.writable, Now.arg = "update" PROVE model.id = Example
    OBVIOUS
  <2>1. CASE at = 18
    BY <1>1, <2>1 DEF ModelsInv, CreateExample
  <2>2. CASE at # 18
    <3>1. Holding
      BY <1>2, <1>3, <1>4, <2>2 DEF Holding
    <3> QED BY <1>1, <3>1 DEF ModelsInv
  <2> QED BY <2>1, <2>2
<1>7. "sameId" \in Now.check => model.id = second.id /\ model.id # NoId
  <2> SUFFICES ASSUME "sameId" \in Now.check PROVE model.id = second.id /\ model.id # NoId
    OBVIOUS
  <2>1. at \in {15, 16}
    BY <1>1, ActsAt
  <2>2. "update" \in type.handlers
    BY <1>1, <2>1, UpdateTests DEF ControlInv, Selected, Block, IsTest
  <2>3. Holding
    BY <2>1, <2>2 DEF Holding
  <2> QED BY <1>1, <2>1, <2>2, <2>3, Where, IdsAssumption DEF ModelsInv
<1> QED BY <1>5, <1>6, <1>7 DEF Prepared, Stale

(* Steps that leave the place and the models alone.                         *)
LEMMA PlaceStays ==
  ASSUME ConformInv, Legit, UNCHANGED <<type, foreign, at, step, cleaning, ready, failed, model, second>>,
         type.writable => stale' = Example
  PROVE  failed' = {} /\ ModelsInv' /\ ReadyInv' /\ Base' = Base /\ There' = There /\ Made' = Made /\ Now' = Now
<1>1. failed = {} /\ ModelsInv /\ ReadyInv
  BY DEF ConformInv
<1>2. Base' = Base /\ There' = There /\ (Keeping' <=> Keeping) /\ Kept' = Kept
  BY BaseStays
<1>3. ModelsInv'
  BY <1>1, <1>2 DEF ModelsInv, Holding, CreateExample
<1>4. ReadyInv'
  BY <1>1 DEF ReadyInv
<1>5. Made' = Made /\ Now' = Now
  BY DEF Made, Now, Calls, Block
<1> QED BY <1>1, <1>2, <1>3, <1>4, <1>5

LEMMA CallConforms ==
  ASSUME ConformInv, Legit, CallHandler
  PROVE  failed' = {} /\ ModelsInv' /\ ResourcesInv' /\ ReadyInv' /\ SupplyInv'
<1>1. DetectionInv /\ ResourcesInv /\ SupplyInv /\ TypeInv
  BY DEF ConformInv, DetectionInv
<1>2. step > 0 /\ phase = "idle"
  BY DEF CallHandler
<1>3. Prepared(Now) /\ (type.writable => Stale(Now) = Example)
  BY <1>2, CallIsPrepared
<1>4. /\ Invoke(Now.act, Argument(Now), {}) /\ stale' = Stale(Now)
      /\ UNCHANGED <<type, handlerVars, foreign, at, step, cleaning, ready, failed, model, second>>
  BY <1>3 DEF CallHandler
<1>5. /\ request'.act = Now.act /\ request'.model = Argument(Now) /\ request'.seen = {} /\ ~request'.again
      /\ phase' = "sent"
  BY <1>4, InvokeFields
<1>6. /\ failed' = {} /\ ModelsInv' /\ ReadyInv' /\ Base' = Base /\ Made' = Made /\ Now' = Now
  BY <1>3, <1>4, PlaceStays
<1>7. Now.act = "CREATE" => Argument(Now) = CreateExample
  BY <1>1, <1>2, ArgumentFields
<1>8. CreateExample' = CreateExample
  BY <1>4 DEF CreateExample
<1>9. ResourcesInv'
  BY <1>1, <1>2, <1>4, <1>5, <1>6, <1>7, <1>8 DEF ResourcesInv, handlerVars
<1>10. ~Creating /\ ~Creating'
  BY <1>2, <1>5 DEF Creating
<1>11. SupplyInv'
  BY <1>1, <1>4, <1>6, <1>10 DEF SupplyInv, handlerVars
<1> QED BY <1>6, <1>9, <1>11

LEMMA PageConforms ==
  ASSUME ConformInv, Legit, NextPage
  PROVE  failed' = {} /\ ModelsInv' /\ ResourcesInv' /\ ReadyInv' /\ SupplyInv'
<1>1. DetectionInv /\ ModelsInv /\ ResourcesInv /\ SupplyInv /\ TypeInv /\ RequestInv
  BY DEF ConformInv, DetectionInv
<1>2. /\ phase = "answered" /\ answer.status = "SUCCESS" /\ request.act = "LIST"
      /\ Invoke("LIST", request.model, Listed)
      /\ UNCHANGED <<type, handlerVars, foreign, at, step, cleaning, ready, failed, model, second, stale>>
  BY DEF NextPage, Returned, Succeeded, suiteVars
<1>3. /\ request'.act = "LIST" /\ request'.seen = Listed /\ ~request'.again /\ phase' = "sent"
  BY <1>2, InvokeFields
<1>4. /\ failed' = {} /\ ModelsInv' /\ ReadyInv' /\ Base' = Base /\ There' = There /\ Made' = Made /\ Now' = Now
  <2>1. type.writable => stale' = Example
    BY <1>1, <1>2 DEF ModelsInv
  <2> QED BY <1>2, <2>1, PlaceStays
<1>5. ListOver /\ request.seen \subseteq There
  BY <1>1, <1>2 DEF ResourcesInv, Over
<1>6. live = Base /\ Listed \subseteq There
  BY <1>5 DEF ListOver, Listed
<1>7. ResourcesInv'
  BY <1>1, <1>2, <1>3, <1>4, <1>6 DEF ResourcesInv, handlerVars
<1>8. Now.act = "LIST"
  BY <1>1, <1>2 DEF RequestInv
<1>9. ~Creating /\ ~Creating'
  BY <1>4, <1>8 DEF Creating
<1>10. SupplyInv'
  BY <1>1, <1>2, <1>4, <1>9 DEF SupplyInv, handlerVars
<1> QED BY <1>4, <1>7, <1>10

LEMMA ReinvokeConforms ==
  ASSUME ConformInv, Legit, Reinvoke, UNCHANGED suiteVars
  PROVE  failed' = {} /\ ModelsInv' /\ ResourcesInv' /\ ReadyInv' /\ SupplyInv'
<1>1. DetectionInv /\ ModelsInv /\ ResourcesInv /\ SupplyInv /\ TypeInv /\ RequestInv
  BY DEF ConformInv, DetectionInv
<1>2. /\ request'.act = request.act /\ request'.model = answer.model /\ request'.token = request.token
      /\ request'.seen = request.seen /\ request'.again
      /\ phase' = "sent" /\ phase = "answered" /\ answer.status = "IN_PROGRESS"
      /\ UNCHANGED handlerVars
  BY <1>1, ReinvokeFields
<1>3. UNCHANGED <<type, foreign, at, step, cleaning, ready, failed, model, second, stale>>
  BY DEF Reinvoke, suiteVars
<1>4. /\ failed' = {} /\ ModelsInv' /\ ReadyInv' /\ Base' = Base /\ There' = There /\ Made' = Made /\ Now' = Now
  <2>1. type.writable => stale' = Example
    BY <1>1, <1>3 DEF ModelsInv
  <2> QED BY <1>3, <2>1, PlaceStays
<1>5. GoesOn(answer.model.id) /\ request.seen \subseteq There
  BY <1>1, <1>2 DEF ResourcesInv
<1>6. Argument(Now)' = Argument(Now)
  BY <1>3, CallStays
<1>7. GoesOn(request.model.id)'
  BY <1>2, <1>3, <1>4, <1>5, <1>6 DEF GoesOn, handlerVars
<1>8. ResourcesInv'
  BY <1>1, <1>2, <1>4, <1>5, <1>7 DEF ResourcesInv, handlerVars
<1>9. Creating <=> Creating'
  BY <1>2, <1>3, <1>4 DEF Creating
<1>10. SupplyInv'
  BY <1>1, <1>2, <1>3, <1>4, <1>9 DEF SupplyInv, handlerVars
<1> QED BY <1>4, <1>8, <1>10

LEMMA HandlerSupply ==
  ASSUME ConformInv, Legit, HandlerAnswers, UNCHANGED suiteVars
  PROVE  SupplyInv'
<1>1. /\ ResourcesInv /\ SupplyInv /\ TypeInv /\ RequestInv /\ TokenInv /\ phase = "sent" /\ phase' = "answered"
      /\ step > 0 /\ type' = type /\ used \subseteq Ids /\ type.writable \in BOOLEAN
  BY ConformTypes DEF ConformInv, DetectionInv, HandlerAnswers, TypeInv, BlockInv
<1>2. PICK o : IsConforming(o) /\ live' = o.live /\ used' = o.used
  BY <1>1, LegitOutcome DEF Legit
<1>3. Made' = Made /\ Now' = Now /\ step' = step
  BY <1>1 DEF suiteVars, Made, Now, Calls, Block
<1>4. (Creating' <=> Now.act = "CREATE") /\ (Creating <=> Now.act = "CREATE" /\ request.again)
  BY <1>1, <1>3 DEF Creating
<1>5. request.act = Now.act /\ (request.again <=> request.left > 0) /\ request.left \in Nat
  BY <1>1, ConformTypes DEF RequestInv
<1>6. \/ used' = used
      \/ Creating' /\ ~Creating /\ \E i \in Ids : used' = used \cup {i}
  <2>1. CASE IsRefusal(o) \/ IsListing(o) \/ IsReading(o)
    BY <1>2, <2>1, AnswerFields DEF IsRefusal, IsListing, IsReading
  <2>2. CASE IsOperation(o)
    <3>1. PICK i \in Ids, n \in 0 .. MaxPolls :
            /\ o = Perform(i, n) /\ request.act \in {"CREATE", "UPDATE", "DELETE"}
            /\ request.act = "CREATE" => Creates(i)
            /\ request.act # "CREATE" => i = request.model.id /\ (request.left = 0 => live[i] # "none")
      BY <2>2 DEF IsOperation
    <3>2. used' = used \cup {i}
      BY <1>2, <3>1, PerformTakes
    <3>3. CASE request.left > 0
      <4>1. GoesOn(request.model.id)
        BY <1>1, <1>5, <3>3 DEF ResourcesInv
      <4>2. i = request.model.id
        BY <3>1, <3>3 DEF Creates
      <4>3. i \in used
        BY <4>1, <4>2 DEF GoesOn
      <4> QED BY <3>2, <4>3
    <3>4. CASE request.left = 0 /\ request.act # "CREATE"
      <4>1. i \in used
        BY <1>1, <3>1, <3>4 DEF ResourcesInv
      <4> QED BY <3>2, <4>1
    <3>5. CASE request.left = 0 /\ request.act = "CREATE"
      <4>1. ~request.again
        BY <1>5, <3>5
      <4>2. Creating' /\ ~Creating
        BY <1>4, <1>5, <3>5, <4>1
      <4> QED BY <3>2, <4>2
    <3>6. request.left > 0 \/ request.left = 0
      BY <1>5
    <3> QED BY <3>3, <3>4, <3>5, <3>6
  <2> QED BY <1>2, <2>1, <2>2 DEF IsConforming
<1>7. CASE type.writable = TRUE
  BY <1>1, <1>7 DEF SupplyInv
<1>8. CASE type.writable = FALSE
  <2>1. /\ IsFiniteSet(used)
        /\ Cardinality(used) <= 1 + Made + (IF Creating THEN 1 ELSE 0)
    BY <1>1, <1>8 DEF SupplyInv
  <2>2. Cardinality(used) \in Nat /\ Made \in Nat
    <3>1. at \in 1 .. 19 /\ cleaning \in BOOLEAN
      BY <1>1, SuiteIs DEF TypeInv, TypeOK
    <3> QED BY <2>1, <3>1, FS_CardinalityType, MadeIs DEF Made
  <2> SUFFICES IsFiniteSet(used') /\ Cardinality(used') <= 1 + Made + (IF Creating' THEN 1 ELSE 0)
    BY <1>3 DEF SupplyInv
  <2>3. CASE used' = used
    <3>1. Creating => Creating'
      BY <1>4
    <3> QED BY <2>1, <2>2, <2>3, <3>1
  <2>4. CASE Creating' /\ ~Creating /\ \E i \in Ids : used' = used \cup {i}
    <3>1. PICK i \in Ids : used' = used \cup {i}
      BY <2>4
    <3>2. IsFiniteSet(used') /\ (Cardinality(used') = Cardinality(used) \/ Cardinality(used') = Cardinality(used) + 1)
      BY <2>1, <3>1, FS_AddElement
    <3>3. (IF Creating THEN 1 ELSE 0) = 0 /\ (IF Creating' THEN 1 ELSE 0) = 1
      BY <2>4
    <3> QED BY <2>1, <2>2, <3>2, <3>3
  <2> QED BY <1>6, <2>3, <2>4
<1> QED BY <1>1, <1>7, <1>8

LEMMA HandlerConforms ==
  ASSUME ConformInv, Legit, HandlerAnswers, UNCHANGED suiteVars
  PROVE  failed' = {} /\ ModelsInv' /\ ResourcesInv' /\ ReadyInv' /\ SupplyInv'
<1>1. /\ DetectionInv /\ ModelsInv /\ ResourcesInv /\ SupplyInv /\ TypeInv /\ RequestInv /\ ControlInv /\ TokenInv
      /\ failed = {} /\ defect = "none"
  BY DEF ConformInv, DetectionInv, Legit
<1>2. UNCHANGED <<type, foreign, at, step, cleaning, ready, failed, model, second, stale>>
  BY DEF HandlerAnswers, suiteVars
<1>3. failed' = {} /\ ModelsInv' /\ ReadyInv'
  <2>1. type.writable => stale' = Example
    BY <1>1, <1>2 DEF ModelsInv
  <2> QED BY <1>2, <2>1, PlaceStays
<1>4. ResourcesInv'
  BY <1>1, LegitHandler
<1> QED BY <1>3, <1>4, HandlerSupply

LEMMA NothingConforms ==
  ASSUME ConformInv, Legit, UNCHANGED vars
  PROVE  failed' = {} /\ ModelsInv' /\ ResourcesInv' /\ ReadyInv' /\ SupplyInv'
<1>1. ResourcesInv /\ SupplyInv /\ ModelsInv
  BY DEF ConformInv
<1>2. /\ UNCHANGED <<type, foreign, at, step, cleaning, ready, failed, model, second, stale, live, used, op>>
      /\ UNCHANGED <<phase, request, answer>>
  BY DEF vars, suiteVars, handlerVars, clientVars
<1>3. /\ failed' = {} /\ ModelsInv' /\ ReadyInv' /\ Base' = Base /\ There' = There /\ Made' = Made /\ Now' = Now
  <2>1. type.writable => stale' = Example
    BY <1>1, <1>2 DEF ModelsInv
  <2> QED BY <1>2, <2>1, PlaceStays
<1>4. Argument(Now)' = Argument(Now)
  BY <1>2, CallStays DEF suiteVars
<1>5. /\ (GoesOn(request.model.id)' <=> GoesOn(request.model.id))
      /\ (GoesOn(answer.model.id)' <=> GoesOn(answer.model.id))
  BY <1>2, <1>3, <1>4 DEF GoesOn
<1>6. Over' <=> Over
  BY <1>2, <1>3, <1>4 DEF Over, CreateOver, ReadOver, UpdateOver, DeleteOver, ListOver, Is, Answers
<1>7. ResourcesInv'
  <2>1. /\ phase' = "idle" \/ (phase' = "sent" /\ ~request'.again) => live' = Base'
        /\ phase' = "sent" /\ ~request'.again /\ request'.act = "CREATE" => request'.model = CreateExample'
        /\ phase' = "sent" => request'.seen \subseteq There'
        /\ phase' = "answered" => request'.seen \subseteq There'
        /\ \A j \in Ids : live'[j] # "none" => j \in used'
    BY <1>1, <1>2, <1>3 DEF ResourcesInv, CreateExample
  <2>2. /\ phase = "sent" /\ request.again => GoesOn(request.model.id)
        /\ phase = "answered" /\ answer.status = "IN_PROGRESS" => GoesOn(answer.model.id) /\ answer.slow = FALSE
        /\ phase = "answered" /\ answer.status # "IN_PROGRESS" => Over
    BY <1>1 DEF ResourcesInv
  <2>3. /\ phase' = "sent" /\ request'.again => GoesOn(request.model.id)'
        /\ phase' = "answered" /\ answer'.status = "IN_PROGRESS" => GoesOn(answer.model.id)' /\ answer'.slow = FALSE
        /\ phase' = "answered" /\ answer'.status # "IN_PROGRESS" => Over'
    <3>1. phase' = phase /\ request' = request /\ answer' = answer
      BY <1>2
    <3> QED BY <1>5, <1>6, <2>2, <3>1, Zenon
  <2> QED BY <2>1, <2>3 DEF ResourcesInv
<1>8. SupplyInv'
  BY <1>1, <1>2, <1>3 DEF SupplyInv, Creating
<1> QED BY <1>3, <1>7, <1>8

LEMMA ConformStep == ConformInv /\ [Next]_vars => ConformInv'
<1> SUFFICES ASSUME ConformInv, [Next]_vars PROVE ConformInv'
  OBVIOUS
<1>1. DetectionInv'
  BY DetectionStep DEF ConformInv
<1>2. type' = type /\ defect' = defect /\ foreign' = foreign
  BY Settled
<1>3. ASSUME Legit PROVE failed' = {} /\ ModelsInv' /\ ResourcesInv' /\ ReadyInv' /\ SupplyInv'
  BY <1>1, <1>3, ConcludeConforms, EnterConforms, CallConforms, PageConforms, ReinvokeConforms,
     HandlerConforms, NothingConforms DEF Next
<1>4. Legit' <=> Legit
  BY <1>2 DEF Legit
<1> QED BY <1>1, <1>3, <1>4 DEF ConformInv

LEMMA ConformInit == Init => ConformInv
<1> SUFFICES ASSUME Init PROVE ConformInv
  OBVIOUS
<1>1. DetectionInv /\ TypeInv
  BY DetectionInit DEF DetectionInv
<1>2. /\ at = 1 /\ step = 0 /\ cleaning = FALSE /\ failed = {} /\ phase = "idle" /\ used = {foreign} \cap Ids
      /\ live = [i \in Ids |-> IF i = foreign THEN "create" ELSE "none"]
      /\ stale = IF type.writable THEN Example ELSE NoId
  BY DEF Init, ClientInit
<1>3. ~Keeping /\ ~Holding
  BY <1>2 DEF Keeping, Holding
<1>4. ModelsInv
  BY <1>2, <1>3 DEF ModelsInv
<1>5. live = Base
  BY <1>2, <1>3 DEF Base
<1>6. ResourcesInv
  BY <1>2, <1>5 DEF ResourcesInv
<1>7. ReadyInv
  BY <1>2 DEF ReadyInv
<1>8. SupplyInv
  <2>1. Made = 0 /\ ~Creating
    <3>1. MadeAt(1, 0, FALSE) = 0
      BY DEF MadeAt
    <3> QED BY <1>2, <3>1 DEF Made, Creating
  <2>2. IsFiniteSet(used) /\ Cardinality(used) \in {0, 1}
    <3>1. used = {} \/ used = {foreign}
      BY <1>2
    <3> QED BY <3>1, FS_EmptySet, FS_Singleton
  <2> QED BY <2>1, <2>2 DEF SupplyInv
<1> QED BY <1>1, <1>2, <1>4, <1>6, <1>7, <1>8 DEF ConformInv

LEMMA ConformAlways == Spec => []ConformInv
BY ConformInit, ConformStep, PTL DEF Spec

LEMMA Conforms == ConformInv => ConformingHandlerPasses
BY DEF ConformInv, Legit, ConformingHandlerPasses

(* No test fails handlers that keep the contract, however often an          *)
(* operation is in progress and however a listing is cut into pages, unless *)
(* the account held the example's resource before (all tests, call).        *)
THEOREM ConformingCorrect == Spec => []ConformingHandlerPasses
BY ConformAlways, Conforms, PTL

-----------------------------------------------------------------------------
(* What is left behind.                                                     *)

LEMMA OwnStep ==
  ASSUME DetectionInv, OwnInv, [Next]_vars
  PROVE  OwnInv'
<1> SUFFICES ASSUME Own, NEW f \in Ids \ {Example}
             PROVE  Untouched(f)' /\ (f # foreign => live'[f] = "none")
  BY Settled DEF OwnInv, Own
<1>1. Untouched(f) /\ (f # foreign => live[f] = "none")
  BY DEF OwnInv
<1>2. type.writable = TRUE /\ defect \notin {"updateCreates", "updateNewId"}
  BY ConformTypes DEF Own, DetectionInv
<1> QED BY <1>1, <1>2, UntouchedStep DEF DetectionInv

(* While such a test runs, something is there to delete its resource.       *)
LEMMA RunsOpen ==
  ASSUME TypeInv, ControlInv, OpenInv, Tidy, step > 0
  PROVE  /\ Open /\ model.id = Example /\ at \in {1, 2, 3, 4, 5, 6, 7, 8, 9, 11, 12, 13}
         /\ at \in 3 .. 6 => "created_resource" \in ready
         /\ at \in 8 .. 13 => "deleted_resource" \in ready
<1>1. at \in 1 .. 18 /\ SelectedAt(at)
  <2>1. at <= 18
    BY DEF TypeInv, BlockInv
  <2>2. Selected <=> SelectedAt(at)
    BY DEF Selected, SelectedAt, Block
  <2> QED BY <2>1, <2>2, SuiteIs DEF TypeInv, TypeOK, ControlInv
<1>2. at \notin {10, 14, 15, 16, 17, 18}
  <2>1. "update" \in Suite[10].marks /\ "update" \in Suite[18].marks
    BY DeleteTests, UpdateTests DEF IsTest
  <2>2. "update" \notin type.handlers
    BY DEF Tidy
  <2> QED BY <1>1, <2>1, <2>2, Needs DEF SelectedAt
<1>3. /\ at \in {3, 4, 5, 6} => Block.needs = "created_resource"
      /\ at \in {8, 9, 11, 12, 13} => Block.needs = "deleted_resource"
  <2>1. /\ Suite[3].needs = "created_resource" /\ Suite[4].needs = "created_resource"
        /\ Suite[5].needs = "created_resource" /\ Suite[6].needs = "created_resource"
    BY CreateTests DEF IsTest
  <2>2. /\ Suite[8].needs = "deleted_resource" /\ Suite[9].needs = "deleted_resource"
        /\ Suite[11].needs = "deleted_resource"
        /\ Suite[12].needs = "deleted_resource" /\ Suite[13].needs = "deleted_resource"
    BY DeleteTests, Zenon DEF IsTest
  <2> QED BY <2>1, <2>2 DEF Block
<1>4. Block.needs \in ready \cup {"none"}
  BY DEF OpenInv
<1>5. /\ at \in {3, 4, 5, 6} => "created_resource" \in ready
      /\ at \in {8, 9, 11, 12, 13} => "deleted_resource" \in ready
  BY <1>3, <1>4
<1>6. at \in {1, 2, 3, 4, 5, 6, 7, 8, 9, 11, 12, 13}
  BY <1>1, <1>2
<1>7. Open
  BY <1>5, <1>6 DEF Open
<1> QED BY <1>5, <1>6, <1>7 DEF OpenInv

(* The request of a DELETE names the resource.                              *)
LEMMA DeletesIt ==
  ASSUME TypeInv, ControlInv, RequestInv, OpenInv, Tidy, phase # "idle", request.act = "DELETE"
  PROVE  request.model.id = Example
<1>1. step > 0 /\ Now.act = "DELETE" /\ request.model = Argument(Now)
  BY DEF TypeInv, BlockInv, RequestInv
<1>2. Now.arg = (IF at = 12 THEN "second" ELSE "model")
  BY <1>1, ActsAt, RunsOpen
<1>4. at = 12 => step = 2
  BY <1>1, ActsAt
<1>3. Argument(Now) = IF at = 12 THEN second ELSE model
  BY <1>1, <1>2, ArgumentFields
<1> QED BY <1>1, <1>3, <1>4, RunsOpen DEF OpenInv

(* What the handlers answer to a DELETE.                                    *)
LEMMA TidyDelete ==
  ASSUME TypeInv, ControlInv, TokenInv, RequestInv, OpenInv, Tidy, HandlerAnswers, request.act = "DELETE"
  PROVE  /\ ~Raises'
         /\ answer'.status = "IN_PROGRESS" => Deleting'
         /\ answer'.status # "IN_PROGRESS" => live'[Example] = "none"
<1>1. /\ phase = "sent" /\ request' = request /\ live \in [Ids -> Props] /\ Example \in Ids /\ NoId \notin Ids
      /\ request.left \in Nat /\ request.model \in Model /\ (request.again <=> request.left > 0)
      /\ op \in [token : Nat, id : Ids \cup {NoId}]
  BY ConformTypes DEF HandlerAnswers, TypeInv, TypeOK, ClientTypeOK, RequestInv
<1>2. request.model.id = Example
  BY <1>1, DeletesIt
<1>3. PICK o : /\ IsConforming(o) /\ Sound(o) /\ live' = Deviation(o).live
               /\ op' = o.op /\ answer' = Deviation(o).answer
  BY HandlerOutcome
<1>4. OutcomeOK(o) /\ (o.answer.status = "SUCCESS" => o.answer.model = NoModel)
  BY <1>3 DEF IsConforming, Sound
<1>5. Deviation(o) = o
  BY <1>4, DeviationIs DEF Tidy, Refused, Ok
<1>6. request.again => Deleting
  BY <1>1 DEF OpenInv
<1>7. CASE IsRefusal(o)
  <2>1. PICK code \in {"InternalFailure", "ServiceLimitExceeded", "AlreadyExists", "NotFound"} :
          /\ o = Unchanged(Failed(code))
          /\ code = "AlreadyExists" => request.act = "CREATE"
          /\ code = "NotFound" => live[request.model.id] = "none"
          /\ code = "ServiceLimitExceeded" => request.act = "CREATE"
          /\ code = "InternalFailure" =>
               \/ request.left > 0 /\ ~(op = [token |-> request.token, id |-> request.model.id] /\ op.id # NoId)
               \/ request.act = "CREATE"
    BY <1>1, <1>2, <1>7 DEF IsRefusal
  <2>2. code # "InternalFailure"
    BY <1>1, <1>2, <1>6, <2>1 DEF Deleting
  <2>3. answer' = Failed(code) /\ live'[Example] = "none"
    BY <1>2, <1>3, <1>5, <2>1, <2>2, AnswerFields
  <2>4. answer'.status = "FAILED" /\ answer'.slow = FALSE
    BY <2>3, AnswerFields
  <2> QED BY <2>3, <2>4 DEF Raises
<1>8. CASE IsOperation(o)
  <2>1. PICK n \in 0 .. MaxPolls : o = Perform(Example, n)
    BY <1>2, <1>8 DEF IsOperation
  <2>2. op'.token = request.token /\ op'.id = Example
    BY <1>3, <2>1, PerformTakes
  <2>3. n \in Nat
    BY PollsAssumption
  <2>4. CASE n > 0
    <3> DEFINE goes == [request.model EXCEPT !.id = Example]
    <3>1. goes.id = Example
      BY <1>1 DEF Model
    <3>2. answer' = Progress(goes, n)
      BY <1>3, <1>5, <2>1, <2>3, <2>4, PerformGoesOn
    <3> HIDE DEF goes
    <3>3. answer'.status = "IN_PROGRESS" /\ answer'.model.id = Example /\ answer'.slow = FALSE
      BY <3>1, <3>2, AnswerFields
    <3> QED BY <1>1, <2>2, <3>3 DEF Raises, Deleting
  <2>5. CASE n = 0
    <3>1. answer' = Success(NoModel) /\ live' = [live EXCEPT ![Example] = "none"]
      BY <1>3, <1>5, <2>1, <2>5, PerformEnds
    <3>2. answer'.status = "SUCCESS" /\ answer'.model.secret = FALSE /\ answer'.slow = FALSE
      BY <3>1, AnswerFields DEF NoModel
    <3>3. live'[Example] = "none"
      BY <1>1, <3>1
    <3> QED BY <3>2, <3>3 DEF Raises
  <2>6. n > 0 \/ n = 0
    BY <2>3
  <2> QED BY <2>4, <2>5, <2>6, Zenon
<1> QED BY <1>3, <1>7, <1>8 DEF IsConforming, IsListing, IsReading

(* What they answer to a CREATE names the example.                          *)
LEMMA TidyCreate ==
  ASSUME TypeInv, TokenInv, RequestInv, OwnInv, OwnInv', Tidy, HandlerAnswers, TypeInv',
         request.act = "CREATE", answer'.status = "SUCCESS"
  PROVE  answer'.model.id = Example
<1>1. PICK o : /\ IsConforming(o) /\ Sound(o) /\ Deviation(o) \in Outcome /\ answer' = Deviation(o).answer
  BY HandlerOutcome
<1>2. /\ OutcomeOK(o) /\ o \in Outcome /\ o.answer \in Answer /\ o.answer.model \in Model /\ o.used \subseteq Ids
      /\ NoId \notin Ids /\ request.model \in Model
  BY <1>1, OutcomeTypes DEF IsConforming
<1>3. o.answer.status = "SUCCESS" => o.answer.model.id \in Ids
  BY <1>1, <1>2 DEF Sound
<1>4. answer'.model.id # NoId
  <2>1. CASE defect = "createAgain" /\ Refused(o, "CREATE", "AlreadyExists")
    <3>4. Deviation(o) = Moved(o, request.model.id, request.model.props)
      BY <1>2, <2>1, DeviationIs
    <3>1. answer' = Success([id |-> request.model.id, props |-> request.model.props, secret |-> FALSE])
      <4>1. Moved(o, request.model.id, request.model.props).answer
              = Success([id |-> request.model.id, props |-> request.model.props, secret |-> FALSE])
        BY DEF Moved
      <4> QED BY <1>1, <3>4, <4>1, Zenon
    <3>2. answer'.model.id = request.model.id
      BY <3>1, AnswerFields
    <3>3. request.model.id \in Ids
      BY <1>1, <2>1 DEF Refused, Sound
    <3> QED BY <1>2, <3>2, <3>3
  <2>2. CASE defect = "createFails" /\ Ok(o, "CREATE")
    <3>1. answer' = Failed("InternalFailure")
      BY <1>1, <1>2, <2>2, DeviationIs, DeviationFields
    <3> QED BY <3>1, AnswerFields
  <2>3. CASE defect = "returnsSecret" /\ o.answer.status = "SUCCESS" /\ o.answer.model # NoModel
    <3> DEFINE secretly == [o.answer EXCEPT !.model = [o.answer.model EXCEPT !.secret = TRUE]]
    <3>1. secretly.model.id = o.answer.model.id
      BY <1>2 DEF Answer, Model
    <3>2. Deviation(o) = Answering(o, secretly)
      BY <1>2, <2>3, DeviationIs
    <3> HIDE DEF secretly
    <3>3. answer' = secretly
      BY <1>1, <1>2, <3>2, DeviationFields
    <3> QED BY <1>2, <1>3, <2>3, <3>1, <3>3
  <2>4. CASE answer' = o.answer
    BY <1>2, <1>3, <2>4
  <2>5. \/ Deviation(o) = o \/ \E l : Deviation(o) = Leaving(o, l)
        \/ defect = "createAgain" /\ Refused(o, "CREATE", "AlreadyExists")
        \/ defect = "createFails" /\ Ok(o, "CREATE")
        \/ defect = "returnsSecret" /\ o.answer.status = "SUCCESS" /\ o.answer.model # NoModel
    BY <1>2, DeviationIs DEF Tidy
  <2> QED BY <1>1, <1>2, <2>1, <2>2, <2>3, <2>4, <2>5, DeviationFields
<1>5. answer'.model.id \in Ids \cup {NoId}
  BY DEF TypeInv, TypeOK, ClientTypeOK, Answer, Model
<1>6. Own' /\ \A f \in Ids \ {Example} : answer'.model.id # f
  BY DEF OwnInv, Untouched, Own, Tidy, HandlerAnswers
<1> QED BY <1>4, <1>5, <1>6

(* How a block goes on or is left.                                          *)
LEMMA Moves ==
  ASSUME NEW passed \in BOOLEAN, After(passed), cleaning \in BOOLEAN
  PROVE  \/ cleaning' = TRUE /\ step' = 1 /\ at' = at /\ ready' = ready
         \/ passed /\ step' = step + 1 /\ at' = at /\ cleaning' = cleaning /\ ready' = ready
         \/ /\ at' = at + 1 /\ step' = 0 /\ cleaning' = FALSE /\ ready \subseteq ready'
            /\ \/ cleaning = TRUE
               \/ Block.finally = <<>>
               \/ cleaning = FALSE /\ Block.fixture /\ Block.name \in ready'
BY DEF After, Leave

(* The call ends, and with it perhaps the block.                            *)
LEMMA ConcludeOpen ==
  ASSUME DetectionInv, OpenInv, Tidy, Conclude
  PROVE  OpenInv'
<1>1. /\ TypeInv /\ ControlInv /\ RequestInv /\ step > 0 /\ phase = "answered" /\ request.act = Now.act
      /\ cleaning \in BOOLEAN /\ at \in Nat /\ step \in Nat /\ request.act \in Actions /\ phase' = "idle"
      /\ live' = live
  <2>1. TypeInv /\ ControlInv /\ RequestInv /\ phase = "answered" /\ phase' = "idle" /\ live' = live
    BY DEF DetectionInv, Conclude, Returned, handlerVars
  <2>2. step > 0 /\ request.act = Now.act
    BY <2>1 DEF TypeInv, BlockInv, RequestInv
  <2>3. request.act \in Actions
    BY <2>1, ConformTypes
  <2>4. cleaning \in BOOLEAN /\ at \in Nat /\ step \in Nat
    BY <2>1, SuiteIs DEF TypeInv, TypeOK
  <2> QED BY <2>1, <2>2, <2>3, <2>4
<1>2. /\ Open /\ model.id = Example /\ at \in {1, 2, 3, 4, 5, 6, 7, 8, 9, 11, 12, 13}
      /\ at \in 3 .. 6 => "created_resource" \in ready
      /\ at \in 8 .. 13 => "deleted_resource" \in ready
  BY <1>1, RunsOpen
<1>3. Now.act = "CREATE" /\ Accepted(Now) /\ Now.expect = "SUCCESS" => answer.model.id = Example
  BY <1>1 DEF OpenInv, Accepted, Expected
<1>4. model'.id = Example
  BY <1>1, <1>2, <1>3, NowFits DEF Conclude
<1>5. PICK passed \in BOOLEAN : After(passed) /\ passed = Passed(Now)
  BY DEF Conclude, Passed, Accepted
<1>6. \/ cleaning' = TRUE /\ step' = 1 /\ at' = at /\ ready' = ready
      \/ passed /\ step' = step + 1 /\ at' = at /\ cleaning' = cleaning /\ ready' = ready
      \/ /\ at' = at + 1 /\ step' = 0 /\ cleaning' = FALSE /\ ready \subseteq ready'
         /\ \/ cleaning = TRUE
            \/ Block.finally = <<>>
            \/ cleaning = FALSE /\ Block.fixture /\ Block.name \in ready'
  BY <1>1, <1>5, Moves
<1>7. at' = 12 /\ step' = 2 => second'.id = Example
  <2> SUFFICES ASSUME at' = 12, step' = 2 PROVE second'.id = Example
    OBVIOUS
  <2>1. at = 12 /\ step = 1 /\ passed
    BY <1>1, <1>6
  <2>2. Now.act = "CREATE" /\ Now.expect = "SUCCESS" /\ Now.into = "second"
    <3>1. Now.act = "CREATE"
      BY <1>1, <2>1, ActsAt DEF Actions
    <3> QED BY <1>1, <2>1, <3>1, ActsAt
  <2>3. Accepted(Now)
    BY <1>5, <2>1 DEF Passed
  <2> QED BY <1>3, <2>2, <2>3 DEF Conclude
<1>8. step' > 0 => Block'.needs \in ready' \cup {"none"}
  <2>1. step' > 0 => at' = at /\ ready' = ready
    BY <1>6
  <2> QED BY <1>1, <2>1 DEF OpenInv, Block
<1>9. live[Example] # "none" => Open'
  <2> SUFFICES ASSUME live[Example] # "none" PROVE Open'
    OBVIOUS
  <2>1. Now.act # "DELETE"
    BY <1>1 DEF OpenInv, Conclude, Returned
  <2>2. cleaning = FALSE /\ at \in {1, 2, 3, 4, 5, 7, 8, 9, 12}
    <3>1. Now.act \in {"CREATE", "READ", "LIST", "UPDATE"}
      BY <1>1, <2>1 DEF Actions
    <3>2. Now.act = "CREATE" => cleaning = FALSE /\ at \in {1, 2, 3, 7, 12, 14}
      BY <1>1, ActsAt
    <3>3. Now.act = "READ" => cleaning = FALSE /\ at \in {4, 5, 8, 15}
      BY <1>1, ActsAt
    <3>4. Now.act = "LIST" => cleaning = FALSE /\ at \in {5, 9, 16}
      BY <1>1, ActsAt
    <3>5. Now.act = "UPDATE" => at \in {10, 14, 18}
      BY <1>1, ActsAt
    <3> QED BY <1>2, <3>1, <3>2, <3>3, <3>4, <3>5
  <2>3. CASE step' # 0
    BY <1>1, <1>2, <1>6, <2>3 DEF Open
  <2>4. CASE step' = 0
    <3>1. at' = at + 1 /\ ready \subseteq ready' /\ (Block.finally = <<>> \/ (Block.fixture /\ Block.name \in ready'))
      BY <1>1, <1>6, <2>2, <2>4
    <3> DEFINE one == <<Delete("model", "SUCCESS")>>
               other == <<Delete("model", "SUCCESS or NotFound")>>
    <3>7. one # <<>> /\ other # <<>>
      OBVIOUS
    <3>8. /\ Suite[1].finally = one /\ Suite[1].fixture = FALSE
          /\ Suite[2].finally = one /\ Suite[2].name = "created_resource"
          /\ Suite[7].finally = other /\ Suite[7].name = "deleted_resource"
      BY CreateTests, DeleteTests, Zenon DEF IsSetup
    <3> HIDE DEF one, other
    <3>2. at # 1
      BY <3>1, <3>7, <3>8 DEF Block
    <3>3. at = 2 => "created_resource" \in ready'
      BY <3>1, <3>7, <3>8 DEF Block
    <3>4. at = 7 => "deleted_resource" \in ready'
      BY <3>1, <3>7, <3>8 DEF Block
    <3>5. at \in {2, 3, 4, 5} => at' \in 3 .. 6 /\ "created_resource" \in ready'
      BY <1>2, <3>1, <3>3
    <3>6. at \in {7, 8, 9, 12} => at' \in 8 .. 13 /\ "deleted_resource" \in ready'
      BY <1>2, <3>1, <3>4
    <3> QED BY <2>2, <3>2, <3>5, <3>6 DEF Open
  <2> QED BY <2>3, <2>4
<1> QED BY <1>1, <1>4, <1>7, <1>8, <1>9 DEF OpenInv

(* A test begins, is skipped, or fails without its fixture.                 *)
LEMMA EnterOpen ==
  ASSUME DetectionInv, OpenInv, Tidy, Enter
  PROVE  OpenInv'
<1>1. /\ TypeInv /\ ControlInv /\ step = 0 /\ at \in 1 .. 18 /\ phase' = "idle" /\ live' = live
      /\ ready' = ready /\ type.writable = TRUE
  <2>1. TypeInv /\ ControlInv /\ step = 0 /\ ~Done /\ phase' = phase /\ live' = live /\ ready' = ready
    BY DEF DetectionInv, Enter, handlerVars, clientVars
  <2>2. phase = "idle"
    BY <2>1, Quiet
  <2>3. at \in 1 .. 18
    BY <2>1, SuiteIs DEF TypeInv, TypeOK, Done
  <2>4. type.writable = TRUE
    BY <2>1, ConformTypes DEF Tidy
  <2> QED BY <2>1, <2>2, <2>3, <2>4
<1>2. Selected <=> SelectedAt(at)
  BY DEF Selected, SelectedAt, Block
<1>3. /\ Block.needs = Suite[at].needs /\ Block.name = Suite[at].name
  BY DEF Block
<1>4. /\ at \in {1, 2, 7} => Block.needs = "none" /\ Block.name # "updated_resource" /\ SelectedAt(at)
      /\ at = 6 => Block.needs = "created_resource" /\ SelectedAt(at)
      /\ at = 13 => Block.needs = "deleted_resource" /\ SelectedAt(at)
  <2>1. /\ Suite[1].needs = "none" /\ Suite[1].name = "contract_create_delete" /\ SelectedAt(1)
        /\ Suite[2].needs = "none" /\ Suite[2].name = "created_resource" /\ SelectedAt(2)
        /\ Suite[6].needs = "created_resource" /\ SelectedAt(6)
    BY CreateTests DEF SelectedAt, IsTest, IsSetup
  <2>2. /\ Suite[7].needs = "none" /\ Suite[7].name = "deleted_resource" /\ SelectedAt(7)
        /\ Suite[13].needs = "deleted_resource" /\ SelectedAt(13)
    <3>1. Suite[13].writable = FALSE
      BY DeleteTests
    <3>2. /\ Suite[7].needs = "none" /\ Suite[7].name = "deleted_resource" /\ Suite[7].marks = {}
          /\ Suite[7].writable = FALSE /\ Suite[13].needs = "deleted_resource" /\ Suite[13].marks = {}
      BY DeleteTests, Zenon DEF IsTest, IsSetup
    <3> QED BY <3>1, <3>2 DEF SelectedAt
  <2> QED BY <1>3, <2>1, <2>2
<1>5. at \in {3, 4, 5, 6, 8, 9, 10, 11, 12, 13} => Block.needs # "none"
  BY Needs DEF Block
<1>6. live[Example] # "none" => Open
  BY DEF OpenInv
<1>7. Open => model.id = Example
  BY DEF OpenInv
<1>8. \/ at' = at + 1 /\ step' = 0 /\ model' = model
         /\ ~(SelectedAt(at) /\ Block.needs \in ready \cup {"none"})
      \/ /\ at' = at /\ step' = 1 /\ Block.needs \in ready \cup {"none"}
         /\ Block.needs # "none" => model' = model
         /\ Block.needs = "none" /\ Block.name # "updated_resource" => model' = CreateExample
  BY <1>2 DEF Enter, Leave
<1>9. CASE at' = at + 1 /\ step' = 0 /\ model' = model /\ ~(SelectedAt(at) /\ Block.needs \in ready \cup {"none"})
  <2>1. at \notin {1, 2, 7}
    BY <1>4, <1>9
  <2>2. Open' => Open
    BY <1>1, <1>9, <2>1 DEF Open
  <2>3. Open => at \notin {6, 13}
    BY <1>1, <1>4, <1>9 DEF Open
  <2>4. Open => Open'
    BY <1>1, <1>9, <2>1, <2>3 DEF Open
  <2> QED BY <1>1, <1>6, <1>7, <1>9, <2>2, <2>4 DEF OpenInv
<1>10. CASE /\ at' = at /\ step' = 1 /\ Block.needs \in ready \cup {"none"}
            /\ Block.needs # "none" => model' = model
            /\ Block.needs = "none" /\ Block.name # "updated_resource" => model' = CreateExample
  <2>1. Block' = Block
    BY <1>10 DEF Block
  <2>2. Open => Open'
    BY <1>1, <1>10 DEF Open
  <2>3. Open' => model'.id = Example
    <3>1. CASE at \in {1, 2, 7}
      BY <1>1, <1>4, <1>10, <3>1 DEF CreateExample
    <3>2. CASE at \notin {1, 2, 7}
      <4>1. Open' => Open /\ at \in {3, 4, 5, 6, 8, 9, 10, 11, 12, 13}
        BY <1>1, <1>10, <3>2 DEF Open
      <4> QED BY <1>5, <1>7, <1>10, <4>1
    <3> QED BY <3>1, <3>2
  <2> QED BY <1>1, <1>6, <1>10, <2>1, <2>2, <2>3 DEF OpenInv
<1> QED BY <1>8, <1>9, <1>10

(* Steps that leave the suite and the resources alone.                      *)
LEMMA SuiteStays ==
  ASSUME UNCHANGED <<at, step, cleaning, ready, model, second>>
  PROVE  (Open' <=> Open) /\ Block' = Block /\ Now' = Now
BY DEF Open, Block, Now, Calls

LEMMA CallOpen ==
  ASSUME DetectionInv, OpenInv, Tidy, CallHandler
  PROVE  OpenInv'
<1>1. TypeInv /\ ControlInv /\ step > 0 /\ phase = "idle" /\ NoId \notin Ids
  BY IdsAssumption DEF DetectionInv, CallHandler
<1>2. at \notin {10, 14, 15, 16, 18}
  BY <1>1, RunsOpen
<1>3. Prepared(Now)
  <2>1. Now.arg # "update"
    BY <1>1, <1>2, NowFits
  <2>2. "sameId" \notin Now.check
    BY <1>1, <1>2, ActsAt
  <2> QED BY <2>1, <2>2 DEF Prepared
<1>4. Invoke(Now.act, Argument(Now), {}) /\ UNCHANGED <<live, at, step, cleaning, ready, model, second>>
  BY <1>3 DEF CallHandler, handlerVars
<1>5. ~request'.again /\ phase' = "sent"
  BY <1>4, InvokeFields
<1>6. (Open' <=> Open) /\ Block' = Block
  BY <1>4, SuiteStays
<1> QED BY <1>4, <1>5, <1>6 DEF OpenInv

LEMMA PageOpen ==
  ASSUME OpenInv, Tidy, NextPage
  PROVE  OpenInv'
<1>1. Invoke("LIST", request.model, Listed) /\ UNCHANGED <<live, at, step, cleaning, ready, model, second>>
  BY DEF NextPage, handlerVars, suiteVars
<1>2. request'.act = "LIST" /\ phase' = "sent"
  BY <1>1, InvokeFields
<1>3. (Open' <=> Open) /\ Block' = Block
  BY <1>1, SuiteStays
<1> QED BY <1>1, <1>2, <1>3 DEF OpenInv

LEMMA ReinvokeOpen ==
  ASSUME TypeInv, OpenInv, Tidy, Reinvoke, UNCHANGED suiteVars
  PROVE  OpenInv'
<1>1. /\ request'.act = request.act /\ request'.token = request.token /\ phase' = "sent"
      /\ phase = "answered" /\ answer.status = "IN_PROGRESS" /\ live' = live /\ op' = op
      /\ UNCHANGED <<at, step, cleaning, ready, model, second>>
  BY ReinvokeFields DEF handlerVars, suiteVars
<1>2. (Open' <=> Open) /\ Block' = Block
  BY <1>1, SuiteStays
<1>3. request.act = "DELETE" => Deleting /\ Deleting'
  BY <1>1 DEF OpenInv, Deleting
<1> QED BY <1>1, <1>2, <1>3 DEF OpenInv

LEMMA HandlerOpen ==
  ASSUME DetectionInv, TypeInv', OwnInv, OwnInv', OpenInv, Tidy, HandlerAnswers, UNCHANGED suiteVars
  PROVE  OpenInv'
<1>1. /\ TypeInv /\ ControlInv /\ TokenInv /\ RequestInv /\ phase = "sent" /\ phase' = "answered"
      /\ request' = request /\ UNCHANGED <<at, step, cleaning, ready, model, second>>
  BY DEF DetectionInv, HandlerAnswers, suiteVars
<1>2. step > 0
  BY <1>1 DEF TypeInv, BlockInv
<1>3. Open
  BY <1>1, <1>2, RunsOpen
<1>4. (Open' <=> Open) /\ Block' = Block
  BY <1>1, SuiteStays
<1>5. request.act = "DELETE" =>
        /\ ~Raises'
        /\ answer'.status = "IN_PROGRESS" => Deleting'
        /\ answer'.status # "IN_PROGRESS" => live'[Example] = "none"
  BY <1>1, TidyDelete
<1>6. request.act = "CREATE" /\ answer'.status = "SUCCESS" => answer'.model.id = Example
  BY <1>1, TidyCreate
<1> QED BY <1>1, <1>3, <1>4, <1>5, <1>6 DEF OpenInv

LEMMA OpenStep ==
  ASSUME DetectionInv, TypeInv', OwnInv, OwnInv', OpenInv, [Next]_vars
  PROVE  OpenInv'
<1>1. Tidy' <=> Tidy
  BY Settled DEF Tidy
<1> SUFFICES ASSUME Tidy PROVE OpenInv'
  BY <1>1 DEF OpenInv
<1>2. CASE UNCHANGED vars
  <2>1. /\ UNCHANGED <<at, step, cleaning, ready, model, second, live, op, phase, request, answer>>
    BY <1>2 DEF vars, handlerVars, clientVars, suiteVars
  <2>2. (Open' <=> Open) /\ Block' = Block /\ (Deleting' <=> Deleting) /\ (Raises' <=> Raises)
    BY <2>1, SuiteStays DEF Deleting, Raises
  <2> QED BY <2>1, <2>2 DEF OpenInv
<1>3. TypeInv
  BY DEF DetectionInv
<1> QED BY <1>2, <1>3, EnterOpen, CallOpen, PageOpen, ConcludeOpen, ReinvokeOpen, HandlerOpen DEF Next

LEMMA TidyInit == Init => TidyInv
<1> SUFFICES ASSUME Init PROVE TidyInv
  OBVIOUS
<1>1. /\ at = 1 /\ step = 0 /\ phase = "idle" /\ request.model = NoModel /\ answer = Success(NoModel)
      /\ model = NoModel /\ second = NoModel /\ op.id = NoId
      /\ live = [i \in Ids |-> IF i = foreign THEN "create" ELSE "none"]
      /\ stale = IF type.writable THEN Example ELSE NoId
  BY DEF Init, ClientInit
<1>2. answer.model = NoModel /\ NoModel.id = NoId /\ NoId \notin Ids /\ Example \in Ids
  BY <1>1, AnswerFields, IdsAssumption DEF NoModel
<1>3. OwnInv
  BY <1>1, <1>2 DEF OwnInv, Own, Untouched
<1>4. ~Open
  BY <1>1 DEF Open
<1>5. OpenInv
  BY <1>1, <1>2, <1>4 DEF OpenInv, Tidy
<1> QED BY <1>3, <1>5, ConformInit DEF TidyInv

LEMMA TidyStep == TidyInv /\ [Next]_vars => TidyInv'
<1> SUFFICES ASSUME TidyInv, [Next]_vars PROVE TidyInv'
  OBVIOUS
<1>1. ConformInv /\ OwnInv /\ OpenInv /\ DetectionInv
  BY DEF TidyInv, ConformInv
<1>2. ConformInv' /\ DetectionInv' /\ TypeInv'
  BY <1>1, ConformStep DEF ConformInv, DetectionInv
<1>3. OwnInv'
  BY <1>1, OwnStep
<1>4. OpenInv'
  BY <1>1, <1>2, <1>3, OpenStep
<1> QED BY <1>2, <1>3, <1>4 DEF TidyInv

(* When the tests are over nothing is there to delete a resource of theirs, *)
(* so there is none.                                                        *)
LEMMA LeavesNothing == TidyInv => NothingLeftBehind
<1> SUFFICES ASSUME TidyInv, Done, NEW i \in Ids, live[i] # "none", i # foreign,
                    \/ defect = "none"
                    \/ /\ type.writable /\ "update" \notin type.handlers
                       /\ defect \in {"createAgain", "createFails", "createPartial", "returnsSecret"}
             PROVE  FALSE
  BY DEF NothingLeftBehind, LeftBehind
<1>1. ConformInv /\ OwnInv /\ OpenInv /\ DetectionInv /\ TypeInv
  BY DEF TidyInv, ConformInv, DetectionInv
<1>2. at = 19 /\ step = 0 /\ phase = "idle"
  BY <1>1, OverAtTheEnd
<1>3. Own => i = Example
  BY <1>1 DEF OwnInv
<1>4. ~Legit
  <2>1. ~Keeping
    BY <1>2 DEF Keeping
  <2>2. Legit => live = Base
    BY <1>1, <1>2 DEF ConformInv, ResourcesInv
  <2> QED BY <2>1, <2>2, BaseFields
<1>5. ~Tidy
  <2>1. ~Open
    BY <1>2 DEF Open
  <2> QED BY <1>1, <1>3, <2>1 DEF OpenInv, Tidy, Own
<1> QED BY <1>3, <1>4, <1>5 DEF Legit, Tidy, Own

(* The tests delete what they made, for any identifiers and any number of   *)
(* re-invocations: with handlers that keep the contract, and with a faulty  *)
(* CREATE where the example has the identifier (the `finally` clauses of    *)
(* the tests and fixtures).                                                 *)
THEOREM CleanCorrect == Spec => []NothingLeftBehind
<1>1. Spec => []TidyInv
  BY TidyInit, TidyStep, PTL DEF Spec
<1> QED BY <1>1, LeavesNothing, PTL

-----------------------------------------------------------------------------
(* How long the tests take.                                                 *)

(* The resources there are, and those that a listing has not returned.      *)
Existing == {i \in Ids : live[i] # "none"}

(* The blocks still to come; the calls of this block, with its `finally`;   *)
(* the pages of this listing, and the invocations of this call.             *)
BlocksLeft == Len(Suite) + 1 - at
CallsLeft == IF cleaning = TRUE THEN 2 - step ELSE 5 - step
PagesLeft == IF phase = "idle" THEN Cardinality(Existing) + 1
             ELSE IF request.act = "LIST" THEN Cardinality(Unlisted) ELSE 0
PollsLeft == IF phase = "sent"
             THEN IF request.left > 0 THEN 2 * request.left + 1 ELSE 2 * MaxPolls + 3
             ELSE IF phase = "answered" /\ answer.status = "IN_PROGRESS" /\ ~Raises
             THEN 2 * answer.left + 2 ELSE 0

(* The tests are nearer to their end.                                       *)
Nearer ==
  \/ BlocksLeft' < BlocksLeft
  \/ BlocksLeft' = BlocksLeft /\ CallsLeft' < CallsLeft
  \/ BlocksLeft' = BlocksLeft /\ CallsLeft' = CallsLeft /\ PagesLeft' < PagesLeft
  \/ /\ BlocksLeft' = BlocksLeft /\ CallsLeft' = CallsLeft /\ PagesLeft' = PagesLeft
     /\ PollsLeft' < PollsLeft

(* Every step brings the tests nearer to their end, whatever the handlers   *)
(* do: no block comes again, no call of a block, each page of a listing has *)
(* a resource that no page before had, and each invocation of a call has    *)
(* less left to wait for than the one before (all tests, call,              *)
(* get_resource_model_list).                                                *)
SuiteIsBounded ==
  [][{BlocksLeft, CallsLeft, PagesLeft, PollsLeft} \subseteq Nat /\ Nearer]_vars

(* There are finitely many resources, though not identifiers, and what a    *)
(* page that is not the last returns is new.                                *)
PagingInv ==
  /\ IsFiniteSet(Existing)
  /\ phase = "answered" /\ request.act = "LIST" /\ answer.more = TRUE =>
       answer.ids \cap Unlisted # {}
BoundInv == DetectionInv /\ PagingInv

(* A defect adds one resource at most, and takes nothing from a page.       *)
LEMMA DeviationAdds ==
  ASSUME TypeInv, NEW o, IsConforming(o), NEW d, d = Deviation(o)
  PROVE  /\ \E k : \A i \in Ids \ {k} : d.live[i] # "none" => o.live[i] # "none" \/ live[i] # "none"
         /\ request.act = "LIST" =>
              /\ d.live = o.live
              /\ d.answer.more = TRUE => o.answer.more = TRUE /\ o.answer.ids \subseteq d.answer.ids
<1> DEFINE a == o.answer
<1>1. /\ OutcomeOK(o) /\ o \in Outcome /\ a \in Answer /\ o.live \in [Ids -> Props] /\ live \in [Ids -> Props]
      /\ defect \in Defect \cup {"none"}
  BY OutcomeTypes DEF IsConforming
<1>2. CASE defect \in {"createAgain", "updateCreates"}
  <2>1. d = o \/ (request.act # "LIST" /\ \E i, p : d = Moved(o, i, p))
    BY <1>1, <1>2, DeviationIs DEF Refused
  <2>2. \A i, p : Moved(o, i, p).live = [o.live EXCEPT ![i] = p]
    BY DEF Moved
  <2>3. CASE d # o
    <3>1. PICK i, p : d = Moved(o, i, p)
      BY <2>1, <2>3
    <3>2. d.live = [o.live EXCEPT ![i] = p]
      BY <2>2, <3>1
    <3> QED BY <1>1, <2>1, <2>3, <3>2
  <2> QED BY <2>3
<1>3. CASE defect = "updateNewId"
  <2> DEFINE l == [o.live EXCEPT ![a.model.id] = "none"]
             x == Leaving(o, l)
             i == Free(o.used)
  <2>1. d = o \/ (request.act # "LIST" /\ d = Moved(x, i, request.model.props))
    BY <1>1, <1>3, DeviationIs DEF Ok
  <2>2. l \in [Ids -> Props] /\ \A j \in Ids : l[j] # "none" => o.live[j] # "none"
    BY <1>1 DEF Props
  <2>3. x.live = l
    BY <1>1, DeviationFields
  <2> HIDE DEF l, x, i
  <2>4. Moved(x, i, request.model.props).live = [x.live EXCEPT ![i] = request.model.props]
    BY DEF Moved
  <2> QED BY <1>1, <2>1, <2>2, <2>3, <2>4
<1>4. CASE defect \in {"createPartial", "updatePartial", "deleteKeeps"}
  <2>1. d = o \/ (request.act # "LIST" /\ \E l : /\ d = Leaving(o, l)
                                                 /\ l = live \/ \E j : l = [o.live EXCEPT ![j] = "partial"])
    BY <1>1, <1>4, DeviationIs DEF Ok
  <2>2. CASE d # o
    <3>1. PICK l : d = Leaving(o, l) /\ (l = live \/ \E j : l = [o.live EXCEPT ![j] = "partial"])
      BY <2>1, <2>2
    <3>2. d.live = l
      BY <1>1, <3>1, DeviationFields
    <3> QED BY <1>1, <2>1, <2>2, <3>1, <3>2
  <2> QED BY <2>2
<1>5. CASE defect \in {"none", "createFails", "createNoId", "progressNoId", "returnsSecret", "readGhost",
                       "readWaits", "deleteModel", "deleteGhost", "listGhost", "listMisses", "slow", "slowLater"}
  <2> DEFINE Keeps(x) == x.more = TRUE => a.more = TRUE /\ a.ids \subseteq x.ids
  <2>1. /\ \A m : Keeps([a EXCEPT !.model = m]) /\ \A ids : Keeps([a EXCEPT !.ids = a.ids \cup ids])
        /\ Keeps([a EXCEPT !.slow = TRUE]) /\ Keeps(Listing({}, FALSE))
    BY <1>1 DEF Answer, Listing, Success
  <2>2. d = o \/ \E x : d = Answering(o, x) /\ (request.act = "LIST" => Keeps(x))
    <3> HIDE DEF Keeps
    <3>1. CASE defect \in {"none", "createFails", "createNoId", "readGhost", "readWaits", "deleteModel", "deleteGhost"}
      BY <1>1, <3>1, DeviationIs DEF Ok, Refused
    <3>2. CASE defect \in {"progressNoId", "returnsSecret"}
      <4>1. d = o \/ \E m : d = Answering(o, [a EXCEPT !.model = m])
        BY <1>1, <3>2, DeviationIs
      <4> QED BY <2>1, <4>1
    <3>3. CASE defect = "listGhost"
      <4>1. d = o \/ \E ids : d = Answering(o, [a EXCEPT !.ids = a.ids \cup ids])
        BY <1>1, <3>3, DeviationIs
      <4> QED BY <2>1, <4>1
    <3>4. CASE defect = "listMisses"
      BY <1>1, <2>1, <3>4, DeviationIs
    <3>5. CASE defect \in {"slow", "slowLater"}
      <4>1. d = o \/ d = Answering(o, [a EXCEPT !.slow = TRUE])
        BY <1>1, <3>5, DeviationIs
      <4> QED BY <2>1, <4>1
    <3> QED BY <1>5, <3>1, <3>2, <3>3, <3>4, <3>5
  <2>3. d.live = o.live /\ (request.act = "LIST" => Keeps(d.answer))
    <3>1. Keeps(a)
      OBVIOUS
    <3> HIDE DEF Keeps
    <3> QED BY <1>1, <2>2, <3>1, DeviationFields
  <2> QED BY <2>3
<1> QED BY <1>1, <1>2, <1>3, <1>4, <1>5 DEF Defect

(* What an answer of the handlers leaves to wait for, and to list.          *)
LEMMA HandlerMoves ==
  ASSUME TypeInv, TokenInv, RequestInv, HandlerAnswers
  PROVE  /\ \E j, k : \A i \in Ids \ {j, k} : live'[i] # "none" => live[i] # "none"
         /\ request.act = "LIST" =>
              live' = live /\ (answer'.more = TRUE => answer'.ids \cap Unlisted # {})
         /\ answer'.status = "IN_PROGRESS" /\ ~Raises' =>
              answer'.left \in 1 .. MaxPolls /\ (request.left > 0 => answer'.left < request.left)
<1>1. PICK o : /\ IsConforming(o) /\ Sound(o) /\ Deviation(o) \in Outcome
               /\ live' = Deviation(o).live /\ answer' = Deviation(o).answer
  BY HandlerOutcome
<1> DEFINE d == Deviation(o)
           a == o.answer
<1>2. /\ OutcomeOK(o) /\ o \in Outcome /\ a \in Answer /\ o.live \in [Ids -> Props] /\ live \in [Ids -> Props]
      /\ phase = "sent" /\ request' = request
  BY <1>1, OutcomeTypes DEF IsConforming, HandlerAnswers
<1>3. /\ \E k : \A i \in Ids \ {k} : live'[i] # "none" => o.live[i] # "none" \/ live[i] # "none"
      /\ request.act = "LIST" =>
           /\ live' = o.live
           /\ answer'.more = TRUE => a.more = TRUE /\ a.ids \subseteq answer'.ids
  BY <1>1, DeviationAdds
<1>4. \E j : \A i \in Ids \ {j} : o.live[i] = live[i]
  <2>1. o.live = live \/ \E j, p : o.live = [live EXCEPT ![j] = p]
    BY <1>1, <1>2, SoundLive
  <2> QED BY <1>2, <2>1
<1>5. \E j, k : \A i \in Ids \ {j, k} : live'[i] # "none" => live[i] # "none"
  BY <1>3, <1>4
<1>6. request.act = "LIST" => live' = live /\ (answer'.more = TRUE => answer'.ids \cap Unlisted # {})
  <2> SUFFICES ASSUME request.act = "LIST"
               PROVE  live' = live /\ (answer'.more = TRUE => answer'.ids \cap Unlisted # {})
    OBVIOUS
  <2>1. live' = live
    BY <1>1, <1>3 DEF Sound
  <2>2. a.more = TRUE => a.ids \cap Unlisted # {}
    <3>1. \A code : Failed(code).more = FALSE
      BY DEF Failed, Success
    <3>2. CASE IsRefusal(o)
      BY <3>1, <3>2, AnswerFields DEF IsRefusal
    <3>3. CASE IsListing(o)
      BY <3>3, AnswerFields DEF IsListing
    <3> QED BY <1>1, <3>2, <3>3 DEF IsConforming, IsReading, IsOperation
  <2> QED BY <1>3, <2>1, <2>2
<1>7. answer'.status = "IN_PROGRESS" /\ ~Raises' =>
        answer'.left \in 1 .. MaxPolls /\ (request.left > 0 => answer'.left < request.left)
  <2> SUFFICES ASSUME answer'.status = "IN_PROGRESS", ~Raises'
               PROVE  answer'.left \in 1 .. MaxPolls /\ (request.left > 0 => answer'.left < request.left)
    OBVIOUS
  <2>1. answer'.model.id # NoId /\ request.act \notin {"READ", "LIST"}
    BY <1>2 DEF Raises
  <2>2. answer' = a \/ answer' = [a EXCEPT !.slow = TRUE]
    BY <1>1, <2>1, ProgressAnswers
  <2>3. a.status = "IN_PROGRESS" /\ answer'.left = a.left
    BY <1>2, <2>2 DEF Answer
  <2>4. IsOperation(o)
    BY <1>1, <2>3, AnswerFields DEF IsConforming, IsRefusal, IsListing, IsReading
  <2>5. PICK i \in Ids, n \in 0 .. MaxPolls : o = Perform(i, n) /\ (request.left > 0 => n < request.left)
    BY <2>4 DEF IsOperation
  <2>6. a.left = n
    <3>1. n > 0
      <4>1. \A m : Success(m).status # "IN_PROGRESS"
        BY AnswerFields
      <4>2. n = 0 \/ n > 0
        BY <2>5, PollsAssumption
      <4> QED BY <2>3, <2>5, <4>1, <4>2 DEF Perform
    <3>2. a = Progress([request.model EXCEPT !.id = i], n)
      BY <2>5, <3>1 DEF Perform
    <3> QED BY <3>2, AnswerFields
  <2>7. a.left > 0
    BY <1>1, <2>3 DEF Sound
  <2> QED BY <2>3, <2>5, <2>6, <2>7, PollsAssumption
<1> QED BY <1>5, <1>6, <1>7

LEMMA PagingInit == Init => PagingInv
<1> SUFFICES ASSUME Init PROVE PagingInv
  OBVIOUS
<1>1. Existing \subseteq {foreign}
  BY DEF Init, Existing
<1>2. IsFiniteSet(Existing)
  BY <1>1, FS_Singleton, FS_Subset
<1> QED BY <1>2 DEF Init, ClientInit, PagingInv

LEMMA PagingStep ==
  ASSUME TypeInv, TokenInv, RequestInv, PagingInv, [Next]_vars
  PROVE  PagingInv'
<1>1. CASE HandlerAnswers
  <2>1. PICK j, k : \A i \in Ids \ {j, k} : live'[i] # "none" => live[i] # "none"
    BY <1>1, HandlerMoves
  <2>2. Existing' \subseteq Existing \cup {j, k}
    BY <2>1 DEF Existing
  <2>3. IsFiniteSet(Existing \cup {j, k})
    <3>1. IsFiniteSet(Existing \cup {j})
      BY FS_AddElement DEF PagingInv
    <3>2. IsFiniteSet((Existing \cup {j}) \cup {k})
      BY <3>1, FS_AddElement
    <3>3. (Existing \cup {j}) \cup {k} = Existing \cup {j, k}
      OBVIOUS
    <3> QED BY <3>2, <3>3
  <2>4. IsFiniteSet(Existing')
    BY <2>2, <2>3, FS_Subset
  <2>5. request' = request
    BY <1>1 DEF HandlerAnswers
  <2>6. request.act = "LIST" /\ answer'.more = TRUE => answer'.ids \cap Unlisted' # {}
    BY <1>1, <2>5, HandlerMoves DEF Unlisted
  <2> QED BY <2>4, <2>5, <2>6 DEF PagingInv
<1>2. CASE UNCHANGED handlerVars /\ UNCHANGED clientVars
  BY <1>2 DEF handlerVars, clientVars, PagingInv, Existing, Unlisted
<1>3. CASE UNCHANGED handlerVars /\ phase' # "answered"
  BY <1>3 DEF handlerVars, PagingInv, Existing
<1> QED BY <1>1, <1>2, <1>3, Turns

(* The measures are numbers.                                                *)
LEMMA LeftAreNat ==
  ASSUME TypeInv, PagingInv
  PROVE  /\ {BlocksLeft, CallsLeft, PagesLeft, PollsLeft} \subseteq Nat
         /\ IsFiniteSet(Unlisted) /\ Cardinality(Unlisted) \in Nat /\ Cardinality(Existing) \in Nat
<1>1. BlocksLeft \in Nat /\ CallsLeft \in Nat
  BY SuiteIs DEF TypeInv, TypeOK, BlocksLeft, CallsLeft
<1>2. IsFiniteSet(Unlisted)
  BY FS_Subset DEF PagingInv, Unlisted, Existing
<1>3. Cardinality(Unlisted) \in Nat /\ Cardinality(Existing) \in Nat
  BY <1>2, FS_CardinalityType DEF PagingInv
<1>4. PagesLeft \in Nat
  BY <1>3 DEF PagesLeft
<1>5. PollsLeft \in Nat
  BY Numbers, PollsAssumption DEF PollsLeft
<1> QED BY <1>1, <1>2, <1>3, <1>4, <1>5

(* A block goes on, or is left.                                             *)
LEMMA AfterNearer ==
  ASSUME TypeInv, step > 0, NEW passed \in BOOLEAN, After(passed)
  PROVE  Nearer
<1>1. /\ at \in Nat /\ step \in 1 .. 2 /\ cleaning \in BOOLEAN /\ Len(Suite) = 18
  BY SuiteIs DEF TypeInv, TypeOK
<1>2. \/ cleaning = FALSE /\ cleaning' = TRUE /\ step' = 1 /\ at' = at
      \/ step' = step + 1 /\ UNCHANGED <<at, cleaning>>
      \/ at' = at + 1
  BY <1>1 DEF After, Leave
<1>3. CASE at' = at + 1
  BY <1>1, <1>3 DEF Nearer, BlocksLeft
<1>4. CASE at' = at
  <2>1. BlocksLeft' = BlocksLeft
    BY <1>4 DEF BlocksLeft
  <2>2. CallsLeft' < CallsLeft
    BY <1>1, <1>2, <1>4 DEF CallsLeft
  <2> QED BY <2>1, <2>2 DEF Nearer
<1> QED BY <1>2, <1>3, <1>4

LEMMA EnterNearer ==
  ASSUME TypeInv, Enter
  PROVE  Nearer
<1>1. step = 0
  BY DEF Enter
<1>2. at \in Nat /\ cleaning = FALSE /\ Len(Suite) = 18
  <2>1. cleaning = FALSE
    BY <1>1, Quiet DEF TypeInv, TypeOK
  <2> QED BY <2>1, SuiteIs DEF TypeInv, TypeOK
<1>3. CASE at' = at + 1
  BY <1>2, <1>3 DEF Nearer, BlocksLeft
<1>4. CASE step' = 1 /\ UNCHANGED <<at, cleaning>>
  <2>1. BlocksLeft' = BlocksLeft
    BY <1>4 DEF BlocksLeft
  <2>2. CallsLeft' < CallsLeft
    BY <1>1, <1>2, <1>4 DEF CallsLeft
  <2> QED BY <2>1, <2>2 DEF Nearer
<1> QED BY <1>3, <1>4 DEF Enter, Leave

(* A call begins, the next page of a listing is asked for, or an invocation *)
(* of the call goes out or comes back.                                      *)
LEMMA CallNearer ==
  ASSUME TypeInv, PagingInv, phase = "idle", NEW act, NEW m, Invoke(act, m, {}),
         UNCHANGED <<at, step, cleaning, live>>
  PROVE  Nearer
<1>1. BlocksLeft' = BlocksLeft /\ CallsLeft' = CallsLeft
  BY DEF BlocksLeft, CallsLeft
<1>2. phase' = "sent" /\ request'.seen = {}
  BY InvokeFields
<1>3. Unlisted' = Existing
  BY <1>2 DEF Unlisted, Existing
<1>4. PagesLeft' < PagesLeft
  BY <1>2, <1>3, LeftAreNat DEF PagesLeft
<1> QED BY <1>1, <1>4 DEF Nearer

LEMMA PageNearer ==
  ASSUME TypeInv, PagingInv, NextPage
  PROVE  Nearer
<1>1. /\ phase = "answered" /\ request.act = "LIST" /\ answer.more = TRUE
      /\ Invoke("LIST", request.model, Listed) /\ UNCHANGED <<at, step, cleaning, live>>
  <2>1. answer.more \in BOOLEAN
    BY DEF TypeInv, TypeOK, ClientTypeOK, Answer
  <2> QED BY <2>1 DEF NextPage, Returned, suiteVars, handlerVars
<1>2. BlocksLeft' = BlocksLeft /\ CallsLeft' = CallsLeft
  BY <1>1 DEF BlocksLeft, CallsLeft
<1>3. phase' = "sent" /\ request'.act = "LIST" /\ request'.seen = request.seen \cup answer.ids
  BY <1>1, InvokeFields DEF Listed
<1>4. Unlisted' \subseteq Unlisted /\ Unlisted' # Unlisted
  BY <1>1, <1>3 DEF Unlisted, PagingInv
<1>5. Cardinality(Unlisted') < Cardinality(Unlisted)
  <2>1. PICK i \in Unlisted : i \notin Unlisted'
    BY <1>4
  <2>2. /\ IsFiniteSet(Unlisted \ {i}) /\ Cardinality(Unlisted \ {i}) = Cardinality(Unlisted) - 1
        /\ Cardinality(Unlisted) \in Nat
    BY <2>1, LeftAreNat, FS_RemoveElement
  <2>3. Unlisted' \subseteq Unlisted \ {i}
    BY <1>4, <2>1
  <2>4. Cardinality(Unlisted') <= Cardinality(Unlisted \ {i}) /\ IsFiniteSet(Unlisted')
    BY <2>2, <2>3, FS_Subset
  <2>5. Cardinality(Unlisted') \in Nat
    BY <2>4, FS_CardinalityType
  <2> QED BY <2>2, <2>4, <2>5
<1>6. PagesLeft' < PagesLeft
  BY <1>1, <1>3, <1>5 DEF PagesLeft
<1> QED BY <1>2, <1>6 DEF Nearer

LEMMA InvocationNearer ==
  ASSUME TypeInv, TokenInv, RequestInv, ProgressInv, PagingInv, Reinvoke \/ HandlerAnswers, UNCHANGED suiteVars
  PROVE  Nearer
<1>1. BlocksLeft' = BlocksLeft /\ CallsLeft' = CallsLeft
  BY DEF suiteVars, BlocksLeft, CallsLeft
<1>2. PollsLeft' < PollsLeft /\ PagesLeft' = PagesLeft
  <2>1. request.left \in Nat /\ answer.left \in Nat /\ MaxPolls \in Nat
    BY Numbers, PollsAssumption
  <2>2. CASE Reinvoke
    <3>1. /\ request'.act = request.act /\ request'.left = answer.left /\ request'.seen = request.seen
          /\ phase' = "sent" /\ phase = "answered" /\ answer.status = "IN_PROGRESS" /\ ~Raises /\ live' = live
      BY <2>2, ReinvokeFields DEF handlerVars
    <3>2. answer.left > 0
      BY <3>1 DEF ProgressInv
    <3>3. PollsLeft' = 2 * answer.left + 1
      BY <3>1, <3>2 DEF PollsLeft
    <3>4. PollsLeft = 2 * answer.left + 2
      BY <3>1 DEF PollsLeft
    <3>5. PagesLeft' = PagesLeft
      BY <3>1 DEF PagesLeft, Unlisted
    <3> QED BY <2>1, <3>3, <3>4, <3>5
  <2>3. CASE HandlerAnswers
    <3>1. phase = "sent" /\ phase' = "answered" /\ request' = request
      BY <2>3 DEF HandlerAnswers
    <3>2. PollsLeft = IF request.left > 0 THEN 2 * request.left + 1 ELSE 2 * MaxPolls + 3
      BY <3>1 DEF PollsLeft
    <3>3. PollsLeft' < PollsLeft
      <4>1. CASE answer'.status = "IN_PROGRESS" /\ ~Raises'
        <5>1. PollsLeft' = 2 * answer'.left + 2
          BY <3>1, <4>1 DEF PollsLeft
        <5>2. answer'.left \in 1 .. MaxPolls /\ (request.left > 0 => answer'.left < request.left)
          BY <2>3, <4>1, HandlerMoves
        <5> QED BY <2>1, <3>2, <5>1, <5>2
      <4>2. CASE ~(answer'.status = "IN_PROGRESS" /\ ~Raises')
        <5>1. PollsLeft' = 0
          BY <3>1, <4>2 DEF PollsLeft
        <5> QED BY <2>1, <3>2, <5>1
      <4> QED BY <4>1, <4>2
    <3>4. PagesLeft' = PagesLeft
      BY <2>3, <3>1, HandlerMoves DEF PagesLeft, Unlisted
    <3> QED BY <3>3, <3>4
  <2> QED BY <2>2, <2>3
<1> QED BY <1>1, <1>2 DEF Nearer

LEMMA BoundInit == Init => BoundInv
BY DetectionInit, PagingInit DEF BoundInv

LEMMA BoundStep == BoundInv /\ [Next]_vars => BoundInv'
BY DetectionStep, PagingStep DEF BoundInv, DetectionInv

LEMMA NextNearer ==
  ASSUME BoundInv, Next
  PROVE  Nearer
<1>1. TypeInv /\ TokenInv /\ RequestInv /\ ProgressInv /\ PagingInv
  BY DEF BoundInv, DetectionInv
<1>2. CASE Enter
  BY <1>1, <1>2, EnterNearer
<1>3. CASE CallHandler
  <2>1. CASE After(FALSE)
    BY <1>1, <1>3, <2>1, AfterNearer DEF CallHandler
  <2>2. CASE Invoke(Now.act, Argument(Now), {}) /\ UNCHANGED <<at, step, cleaning>>
    BY <1>1, <1>3, <2>2, CallNearer DEF CallHandler, handlerVars
  <2> QED BY <1>3, <2>1, <2>2 DEF CallHandler
<1>4. CASE NextPage
  BY <1>1, <1>4, PageNearer
<1>5. CASE Conclude
  <2>1. step > 0
    BY <1>1, <1>5 DEF Conclude, Returned, TypeInv, BlockInv
  <2>2. Passed(Now) \in BOOLEAN
    BY DEF Passed, Accepted
  <2> QED BY <1>1, <1>5, <2>1, <2>2, AfterNearer DEF Conclude
<1>6. CASE (Reinvoke \/ HandlerAnswers) /\ UNCHANGED suiteVars
  BY <1>1, <1>6, InvocationNearer
<1> QED BY <1>2, <1>3, <1>4, <1>5, <1>6 DEF Next

(* The tests end after a number of steps that their calls, the resources    *)
(* and the answers in progress bound, whatever the defect of the handlers   *)
(* (all tests, call, get_resource_model_list).                              *)
THEOREM BoundCorrect == Spec => SuiteIsBounded
<1>1. BoundInv /\ [Next]_vars => [{BlocksLeft, CallsLeft, PagesLeft, PollsLeft} \subseteq Nat /\ Nearer]_vars
  BY NextNearer, LeftAreNat DEF BoundInv, DetectionInv
<1> QED BY <1>1, BoundInit, BoundStep, PTL DEF Spec, SuiteIsBounded
=============================================================================
