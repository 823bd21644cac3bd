--------------------------- MODULE ContractSuite ---------------------------
(***************************************************************************)
(* The contract tests of `cfn test` for resource types: the tests of       *)
(* suite/resource in the order pytest runs them, the fixtures that create  *)
(* the resources the tests of a module share, and the cleanup.             *)
(*                                                                         *)
(* A test or the part of a fixture before or after its yield is a block: a *)
(* sequence of handler calls (the body), and calls in its `finally`.       *)
(***************************************************************************)
EXTENDS ResourceClient, Sequences

CONSTANTS Foreign   \* resources the account may hold before the tests

ASSUME ForeignAssumption == Foreign \subseteq Ids

(* The handlers do not run out of identifiers: they need one for each of    *)
(* four resources, beside the one the account held before.                  *)
ASSUME SupplyAssumption ==
  \A taken \in SUBSET Ids : IsFiniteSet(taken) /\ Cardinality(taken) <= 4 => taken # Ids

VARIABLES
  foreign,   \* the resource the account held before the tests, or NoId
  at,        \* index of the block that runs
  step,      \* index of the call it makes, 0 before its first
  cleaning,  \* whether it is in its `finally`
  ready,     \* fixtures that yielded
  failed,    \* blocks that failed
  model,     \* what the block or its fixture deletes in the end
  second,    \* the updated model of a fixture, the created model of a test
  stale      \* identifier in the client's UPDATE input

suiteVars == <<foreign, at, step, cleaning, ready, failed, model, second, stale>>
vars == <<type, defect, handlerVars, clientVars, suiteVars>>

-----------------------------------------------------------------------------
(* The calls.  `arg` says which model the request has and `into` which      *)
(* variable takes the model returned; `expect` is the outcome asserted and  *)
(* `check` what else is.                                                    *)

Call(act, arg, expect, into, check) ==
  [act |-> act, arg |-> arg, expect |-> expect, into |-> into, check |-> check]

Create(into, check) == Call("CREATE", "request", "SUCCESS", into, check)
Delete(arg, expect) == Call("DELETE", arg, expect, "none", {})

Test(name, needs, marks, body) ==
  [name |-> name, needs |-> needs, fixture |-> FALSE, marks |-> marks, writable |-> FALSE,
   body |-> body, finally |-> <<>>]
Setup(name, marks, body, finally) ==
  [Test(name, "none", marks, body) EXCEPT !.fixture = TRUE, !.finally = finally]

contract_create_delete ==
  [Test("contract_create_delete", "none", {}, <<Create("model", {"id", "echo"})>>)
     EXCEPT !.finally = <<Delete("model", "SUCCESS")>>]

created_resource ==
  Setup("created_resource", {}, <<Create("model", {"echo"})>>, <<Delete("model", "SUCCESS")>>)
contract_create_create ==
  [Test("contract_create_create", "created_resource", {},
        <<Call("CREATE", "request", "AlreadyExists", "none", {})>>) EXCEPT !.writable = TRUE]
contract_create_read ==
  Test("contract_create_read", "created_resource", {},
       <<Call("READ", "model", "SUCCESS", "none", {"id", "secret", "echo"})>>)
contract_create_list ==
  Test("contract_create_list", "created_resource", {"list"},
       <<Call("LIST", "model", "SUCCESS", "none", {"listed"}),
         Call("READ", "model", "SUCCESS", "none", {"id", "secret", "echo"})>>)

deleted_resource ==
  Setup("deleted_resource", {},
        <<Create("model", {"echo"}), Call("DELETE", "model", "SUCCESS", "none", {"noModel"})>>,
        <<Delete("model", "SUCCESS or NotFound")>>)
contract_delete_read ==
  Test("contract_delete_read", "deleted_resource", {},
       <<Call("READ", "model", "NotFound", "none", {})>>)
contract_delete_list ==
  Test("contract_delete_list", "deleted_resource", {"list"},
       <<Call("LIST", "model", "SUCCESS", "none", {"unlisted"})>>)
contract_delete_update ==
  Test("contract_delete_update", "deleted_resource", {"update"},
       <<Call("UPDATE", "update", "NotFound", "none", {})>>)
contract_delete_delete ==
  Test("contract_delete_delete", "deleted_resource", {}, <<Delete("model", "NotFound")>>)
contract_delete_create ==
  [Test("contract_delete_create", "deleted_resource", {},
        <<Create("second", {"id"}), Delete("second", "SUCCESS")>>) EXCEPT !.writable = TRUE]

updated_resource ==
  Setup("updated_resource", {"update"},
        <<Create("model", {"echo"}), Call("UPDATE", "update", "SUCCESS", "second", {"echo"})>>,
        <<Delete("model", "SUCCESS")>>)
contract_update_read ==
  Test("contract_update_read", "updated_resource", {"update"},
       <<Call("READ", "second", "SUCCESS", "none", {"sameId", "id", "secret", "echo"})>>)
contract_update_list ==
  Test("contract_update_list", "updated_resource", {"update", "list"},
       <<Call("LIST", "second", "SUCCESS", "none", {"sameId", "listed"})>>)

contract_update_without_create ==
  Test("contract_update_without_create", "none", {"update"},
       <<Call("UPDATE", "update", "NotFound", "none", {})>>)

(* The part of a fixture after its yield, when the tests of its module ran. *)
Teardown(fixture) ==
  Test(fixture.name, fixture.name, fixture.marks, fixture.finally)

Suite ==
  <<contract_create_delete,
    created_resource, contract_create_create, contract_create_read, contract_create_list,
    Teardown(created_resource),
    deleted_resource, contract_delete_read, contract_delete_list, contract_delete_update,
    contract_delete_delete, contract_delete_create, Teardown(deleted_resource),
    updated_resource, contract_update_read, contract_update_list, Teardown(updated_resource),
    contract_update_without_create>>

Names == {Suite[i].name : i \in DOMAIN Suite}
Done == at > Len(Suite)

TypeOK ==
  /\ ClientTypeOK
  /\ foreign \in Foreign \cup {NoId}
  /\ at \in 1 .. Len(Suite) + 1
  /\ step \in 0 .. 2
  /\ cleaning \in BOOLEAN
  /\ ready \subseteq Names
  /\ failed \subseteq Names
  /\ model \in Model
  /\ second \in Model
  /\ stale \in Ids \cup {NoId}

-----------------------------------------------------------------------------
(* generate_create_example: the same model every time, without the          *)
(* properties the handlers choose.                                          *)
CreateExample ==
  [id |-> IF type.writable THEN Example ELSE NoId, props |-> "create", secret |-> TRUE]

Init ==
  /\ type \in Type
  /\ defect \in Defects \cup {"none"}
  /\ foreign \in Foreign \cup {NoId}
  /\ live = [i \in Ids |-> IF i = foreign THEN "create" ELSE "none"]
  /\ used = {foreign} \cap Ids
  /\ ClientInit
  /\ at = 1
  /\ step = 0
  /\ cleaning = FALSE
  /\ ready = {}
  /\ failed = {}
  /\ model = NoModel
  /\ second = NoModel
  /\ stale = IF type.writable THEN Example ELSE NoId

Block == Suite[at]
Calls == IF cleaning THEN Block.finally ELSE Block.body
Now == Calls[step]

(* generate_update_example keeps the identifiers of the models it was given *)
(* in the client's UPDATE input.                                            *)
Stale(c) == IF c.arg = "update" /\ type.inputs /\ model.id # NoId THEN model.id ELSE stale

Argument(c) ==
  CASE c.arg = "request" -> CreateExample
    [] c.arg = "model" -> model
    [] c.arg = "second" -> second
    [] c.arg = "update" ->
         [id |-> IF type.inputs THEN Stale(c) ELSE model.id, props |-> "update", secret |-> TRUE]

(* What is asserted before the call: validate_update_example_keys, and that *)
(* an update left the identifier alone.                                     *)
Prepared(c) ==
  /\ c.arg = "update" /\ type.inputs /\ type.writable => model.id = stale
  /\ "sameId" \in c.check => model.id = second.id /\ model.id # NoId

(* The markers and the skip decorators.                                     *)
Selected == Block.marks \subseteq type.handlers /\ (Block.writable => type.writable)

Leave == at' = at + 1 /\ step' = 0 /\ cleaning' = FALSE
Fail == failed' = failed \cup {Block.name}

(* Mutant: the cleanup is skipped when an assertion of the body failed.     *)
AfterNoFinally(passed) ==
  /\ IF passed THEN UNCHANGED failed ELSE Fail
  /\ LET last == step = Len(Calls)
         cleansUp == ~cleaning /\ Block.finally # <<>> /\ passed /\ last /\ ~Block.fixture
     IN  \/ cleansUp /\ cleaning' = TRUE /\ step' = 1 /\ UNCHANGED <<at, ready>>
         \/ passed /\ ~last /\ step' = step + 1 /\ UNCHANGED <<at, cleaning, ready>>
         \/ /\ ~cleansUp
            /\ ~passed \/ last
            /\ Leave
            /\ ready' = IF passed /\ Block.fixture /\ ~cleaning
                        THEN ready \cup {Block.name} ELSE ready

(* Mutant: a cleanup that passes swallows the failure of the body.          *)
AfterFinallyWins(passed) ==
  /\ failed' = IF passed THEN failed \ {Block.name} ELSE failed \cup {Block.name}
  /\ LET last == step = Len(Calls)
         cleansUp == ~cleaning /\ Block.finally # <<>> /\ (passed => last /\ ~Block.fixture)
     IN  \/ cleansUp /\ cleaning' = TRUE /\ step' = 1 /\ UNCHANGED <<at, ready>>
         \/ passed /\ ~last /\ step' = step + 1 /\ UNCHANGED <<at, cleaning, ready>>
         \/ /\ ~cleansUp
            /\ ~passed \/ last
            /\ Leave
            /\ ready' = IF passed /\ Block.fixture /\ ~cleaning
                        THEN ready \cup {Block.name} ELSE ready

(* The call passed or failed: go on, clean up, or leave the block.          *)
After(passed) ==
  /\ IF passed THEN UNCHANGED failed ELSE Fail
  /\ LET last == step = Len(Calls)
         cleansUp == ~cleaning /\ Block.finally # <<>> /\ (passed => last /\ ~Block.fixture)
     IN  \/ cleansUp /\ cleaning' = TRUE /\ step' = 1 /\ UNCHANGED <<at, ready>>
         \/ passed /\ ~last /\ step' = step + 1 /\ UNCHANGED <<at, cleaning, ready>>
         \/ /\ ~cleansUp
            /\ ~passed \/ last
            /\ Leave
            /\ ready' = IF passed /\ Block.fixture /\ ~cleaning
                        THEN ready \cup {Block.name} ELSE ready

(* A test begins; without its fixture it fails.                             *)
Enter ==
  /\ ~Done /\ step = 0
  /\ \/ ~Selected /\ Leave /\ UNCHANGED <<failed, model, second>>
     \/ /\ Selected /\ Block.needs \notin ready \cup {"none"}
        /\ Fail /\ Leave /\ UNCHANGED <<model, second>>
     \/ /\ Selected /\ Block.needs \in ready \cup {"none"}
        /\ step' = 1
        /\ model' = CASE Block.needs # "none" -> model
                      [] Block.needs = "none" /\ Block.name = "updated_resource" -> NoModel
                      [] OTHER -> CreateExample
        /\ second' = IF Block.needs # "none" THEN second ELSE NoModel
        /\ UNCHANGED <<at, cleaning, failed>>
  /\ UNCHANGED <<type, defect, handlerVars, clientVars, foreign, ready, stale>>

CallHandler ==
  /\ step > 0 /\ phase = "idle"
  /\ \/ /\ Prepared(Now)
        /\ Invoke(Now.act, Argument(Now), {})
        /\ stale' = Stale(Now)
        /\ UNCHANGED <<at, step, cleaning, ready, failed>>
     \/ /\ ~Prepared(Now)
        /\ After(FALSE)
        /\ UNCHANGED <<clientVars, stale>>
  /\ UNCHANGED <<type, defect, handlerVars, foreign, model, second>>

(* What the caller makes of the answer of a call that returned.             *)
Succeeded == answer.status = "SUCCESS" /\ ~Raises
Expected(c) ==
  /\ ~Raises
  /\ CASE c.expect = "SUCCESS" -> answer.status = "SUCCESS"
       [] c.expect = "SUCCESS or NotFound" -> answer.status = "SUCCESS" \/ answer.code = "NotFound"
       [] OTHER -> answer.code = c.expect

Listed == request.seen \cup answer.ids

(* The assertions that hold before the model is taken from the response,    *)
(* and those made after.                                                    *)
Accepted(c) ==
  /\ Expected(c)
  /\ c.into # "none" => answer.model # NoModel
  /\ "id" \in c.check => answer.model.id # NoId
  /\ "secret" \in c.check => ~answer.model.secret
Echoed(c) ==
  /\ answer.model.props = Argument(c).props
  /\ type.writable => answer.model.id = Argument(c).id
Passed(c) ==
  /\ Accepted(c)
  /\ "echo" \in c.check => Echoed(c)
  /\ "noModel" \in c.check => answer.model = NoModel
  /\ "listed" \in c.check => Argument(c).id \in Listed
  /\ "unlisted" \in c.check => Argument(c).id \notin Listed /\ (Argument(c).id # NoId \/ Listed = {})

(* get_resource_model_list asks for the next page; nothing bounds the loop. *)
NextPage ==
  /\ Returned /\ Succeeded /\ request.act = "LIST" /\ answer.more
  /\ Invoke("LIST", request.model, Listed)
  /\ UNCHANGED <<type, defect, handlerVars, suiteVars>>

Conclude ==
  /\ Returned
  /\ ~(Succeeded /\ request.act = "LIST" /\ answer.more)
  /\ phase' = "idle"
  /\ model' = IF Accepted(Now) /\ Now.into = "model" THEN answer.model ELSE model
  /\ second' = IF Accepted(Now) /\ Now.into = "second" THEN answer.model ELSE second
  /\ After(Passed(Now))
  /\ UNCHANGED <<type, defect, handlerVars, tokens, request, answer, foreign, stale>>

Next ==
  \/ Enter \/ CallHandler \/ NextPage \/ Conclude
  \/ (Reinvoke \/ HandlerAnswers) /\ UNCHANGED suiteVars

Spec == Init /\ [][Next]_vars

(* The command runs on, and the handlers answer every invocation.           *)
FairSpec == Spec /\ WF_vars(Next)

-----------------------------------------------------------------------------
(* Correctness.                                                             *)

(* No test fails a handler that keeps the contract, in whatever order it    *)
(* waits and pages, unless the account holds a resource with the identifier *)
(* of the example before the tests (all tests of suite/resource).           *)
ConformingHandlerPasses ==
  defect = "none" /\ ~(type.writable /\ foreign = Example) => failed = {}

(* A defect that showed in an answer or in the resources makes some test    *)
(* fail; a slow re-invocation is the exception (all tests, call).           *)
DefectIsDetected == Done /\ shown /\ defect # "slowLater" => failed # {}

LeftBehind == {i \in Ids : live[i] # "none"} \ {foreign}

(* The tests leave no resource behind if the handlers keep the contract.    *)
(* Where the example has the identifier, not even the resources of a faulty *)
(* CREATE stay, except that of updated_resource, whose `finally` forgets    *)
(* the request (the `finally` clauses of the tests and fixtures).           *)
NothingLeftBehind ==
  /\ Done
  /\ \/ defect = "none"
     \/ /\ type.writable /\ "update" \notin type.handlers
        /\ defect \in {"createAgain", "createFails", "createPartial", "returnsSecret"}
  => LeftBehind = {}

(* The tests may delete a resource the account held before, by cleaning up  *)
(* after a CREATE that was refused; the loss never goes without a failed    *)
(* test (contract_create_delete and the fixtures).                          *)
ForeignLossIsReported ==
  Done /\ foreign # NoId /\ live[foreign] # "create" => failed # {}

(* Every run of the tests ends, given that an operation is in progress for  *)
(* a bounded time and a listing has a last page.                            *)
SuiteEnds == <>Done
=============================================================================
