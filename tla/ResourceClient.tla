--------------------------- MODULE ResourceClient ---------------------------
(***************************************************************************)
(* One caller of resource type handlers: ResourceClient.call invokes a     *)
(* handler, and re-invokes it while it answers IN_PROGRESS.                *)
(*                                                                         *)
(* The handlers are not part of this code.  They are modelled by what the  *)
(* handler contract asks of them and by a menu of defects, each a way to   *)
(* break one clause of the contract.                                       *)
(*                                                                         *)
(* A resource model is abstracted to its primary identifier, the state of  *)
(* its other properties, and whether it holds write-only properties.       *)
(***************************************************************************)
EXTENDS Naturals, FiniteSets

CONSTANTS
  Ids,       \* physical identifiers
  Example,   \* the identifier in the example, where the developer chooses it
  NoId,      \* a model without primary identifier
  MaxPolls,  \* bound on the IN_PROGRESS answers of one operation
  Defects    \* which defects the handlers may have

Defect == {"createAgain", "createFails", "createNoId", "createPartial", "progressNoId",
           "returnsSecret", "readGhost", "readWaits", "updateCreates", "updatePartial",
           "updateNewId", "deleteKeeps", "deleteModel", "deleteGhost", "listGhost",
           "listMisses", "slow", "slowLater"}

ASSUME IdsAssumption == Example \in Ids /\ NoId \notin Ids
ASSUME PollsAssumption == MaxPolls \in Nat
ASSUME DefectsAssumption == Defects \subseteq Defect

VARIABLES
  type,     \* the resource type: what its schema and its test inputs say
  defect,   \* the defect of its handlers, or "none"
  live,     \* live[i]: properties of resource i, "none" if there is no such resource
  used,     \* identifiers that were ever taken
  op,       \* the handlers' record of the operation they began last
  shown,    \* whether the defect has shown in an answer or in the resources
  tokens,   \* number of idempotency tokens generated
  phase,    \* where the call is
  request,  \* the payload of the handler invocation
  answer    \* the progress event it returned

handlerVars == <<live, used, op, shown>>
clientVars == <<tokens, phase, request, answer>>

Props == {"none", "partial", "create", "update"}
Model == [id : Ids \cup {NoId}, props : Props, secret : BOOLEAN]
NoModel == [id |-> NoId, props |-> "none", secret |-> FALSE]

Type == [writable : BOOLEAN, handlers : SUBSET {"update", "list"}, inputs : BOOLEAN]

Actions == {"CREATE", "READ", "UPDATE", "DELETE", "LIST"}
Request == [act : Actions, model : Model, token : Nat, left : 0 .. MaxPolls,
            seen : SUBSET Ids, again : BOOLEAN]
Answer == [status : {"IN_PROGRESS", "SUCCESS", "FAILED"},
           code : {"none", "AlreadyExists", "NotFound", "ServiceLimitExceeded",
                   "InternalFailure"},
           model : Model, ids : SUBSET Ids, more : BOOLEAN, left : 0 .. MaxPolls,
           slow : BOOLEAN]

Success(m) == [status |-> "SUCCESS", code |-> "none", model |-> m, ids |-> {},
                   more |-> FALSE, left |-> 0, slow |-> FALSE]
Failed(code) == [Success(NoModel) EXCEPT !.status = "FAILED", !.code = code]
Progress(m, left) == [Success(m) EXCEPT !.status = "IN_PROGRESS", !.left = left]
Listing(ids, more) == [Success(NoModel) EXCEPT !.ids = ids, !.more = more]

ClientTypeOK ==
  /\ type \in Type
  /\ defect \in Defects \cup {"none"}
  /\ live \in [Ids -> Props]
  /\ used \subseteq Ids
  /\ op \in [token : Nat, id : Ids \cup {NoId}]
  /\ shown \in BOOLEAN
  /\ tokens \in Nat
  /\ phase \in {"idle", "sent", "answered"}
  /\ request \in Request
  /\ answer \in Answer

ClientInit ==
  /\ op = [token |-> 0, id |-> NoId]
  /\ shown = FALSE
  /\ tokens = 0
  /\ phase = "idle"
  /\ request = [act |-> "READ", model |-> NoModel, token |-> 0, left |-> 0,
                seen |-> {}, again |-> FALSE]
  /\ answer = Success(NoModel)

-----------------------------------------------------------------------------
(* The client.                                                              *)

(* _make_payload and the first _call: every call has a token of its own.    *)
Invoke(act, m, seen) ==
  /\ phase' = "sent"
  /\ tokens' = tokens + 1
  /\ request' = [act |-> act, model |-> m, token |-> tokens + 1, left |-> 0,
                 seen |-> seen, again |-> FALSE]
  /\ UNCHANGED answer

(* Mutant: the time of the first invocation is not checked.                 *)
RaisesUntimed ==
  \/ request.act \in {"READ", "LIST"} /\ answer.status = "IN_PROGRESS"
  \/ answer.status = "IN_PROGRESS" /\ answer.model.id = NoId
  \/ request.act \notin {"READ", "LIST"} /\ answer.status = "SUCCESS" /\ answer.model.secret

(* call raises AssertionError on a first invocation that took too long, a   *)
(* READ or LIST in progress, progress without the primary identifier, and a *)
(* final model with write-only properties.                                  *)
Raises ==
  \/ answer.slow /\ ~request.again
  \/ request.act \in {"READ", "LIST"} /\ answer.status = "IN_PROGRESS"
  \/ answer.status = "IN_PROGRESS" /\ answer.model.id = NoId
  \/ request.act \notin {"READ", "LIST"} /\ answer.status = "SUCCESS" /\ answer.model.secret

(* Mutant: the re-invocation has the original model.                        *)
ReinvokeOriginal ==
  /\ phase = "answered" /\ answer.status = "IN_PROGRESS" /\ ~Raises
  /\ request' = [request EXCEPT !.left = answer.left, !.again = TRUE]
  /\ phase' = "sent"
  /\ UNCHANGED <<type, defect, handlerVars, tokens, answer>>

(* Mutant: the callback context is not passed on.                           *)
ReinvokeNoContext ==
  /\ phase = "answered" /\ answer.status = "IN_PROGRESS" /\ ~Raises
  /\ request' = [request EXCEPT !.model = answer.model, !.again = TRUE]
  /\ phase' = "sent"
  /\ UNCHANGED <<type, defect, handlerVars, tokens, answer>>

(* Mutant: the client counts in the callback context.                       *)
ReinvokeCounting ==
  /\ phase = "answered" /\ answer.status = "IN_PROGRESS" /\ ~Raises
  /\ request' = [request EXCEPT !.model = answer.model, !.left = answer.left + 1, !.again = TRUE]
  /\ phase' = "sent"
  /\ UNCHANGED <<type, defect, handlerVars, tokens, answer>>

(* The loop of call: the next invocation has the same token, and the model  *)
(* and the callback context of the answer.  Nothing bounds the loop.        *)
Reinvoke ==
  /\ phase = "answered" /\ answer.status = "IN_PROGRESS" /\ ~Raises
  /\ request' = [request EXCEPT !.model = answer.model, !.left = answer.left, !.again = TRUE]
  /\ phase' = "sent"
  /\ UNCHANGED <<type, defect, handlerVars, tokens, answer>>

(* call has returned, or raised.                                            *)
Returned == phase = "answered" /\ (Raises \/ answer.status # "IN_PROGRESS")

-----------------------------------------------------------------------------
(* The handlers.  An outcome is what an invocation leaves behind: the       *)
(* resources, the identifiers taken, the operation recorded, the answer.    *)

Unchanged(a) == [live |-> live, used |-> used, op |-> op, answer |-> a]

HasFree(taken) == taken # Ids
Free(taken) == CHOOSE i \in Ids : i \notin taken

(* The operation on resource i ends if nothing is left to wait for.         *)
Perform(i, left) ==
  LET props == CASE request.act = "DELETE" -> IF left = 0 THEN "none" ELSE live[i]
                 [] request.act = "CREATE" -> IF left = 0 THEN request.model.props ELSE "partial"
                 [] OTHER -> IF left = 0 THEN request.model.props ELSE live[i]
  IN  [live |-> [live EXCEPT ![i] = props],
       used |-> used \cup {i},
       op |-> [token |-> request.token, id |-> i],
       answer |-> CASE left > 0 -> Progress([request.model EXCEPT !.id = i], left)
                    [] left = 0 /\ request.act = "DELETE" -> Success(NoModel)
                    [] OTHER -> Success([id |-> i, props |-> props, secret |-> FALSE])]

Exists(m) == m.id \in Ids /\ live[m.id] # "none"

(* CREATE is idempotent for a token, and otherwise refuses to create what   *)
(* exists.  Identifiers that are not writable are the handler's choice.     *)
BeginCreate(left) ==
  CASE op.token = request.token -> Perform(op.id, left)
    [] op.token # request.token /\ type.writable ->
         IF request.model.id = NoId THEN Unchanged(Failed("InternalFailure"))
         ELSE IF Exists(request.model) THEN Unchanged(Failed("AlreadyExists"))
         ELSE Perform(request.model.id, left)
    [] OTHER -> IF HasFree(used) THEN Perform(Free(used), left)
                ELSE Unchanged(Failed("ServiceLimitExceeded"))

(* A handler that finds a callback context goes on with that operation, on  *)
(* the resource the model names.                                            *)
Continue ==
  IF op = [token |-> request.token, id |-> request.model.id] /\ op.id # NoId
  THEN Perform(op.id, request.left - 1)
  ELSE Unchanged(Failed("InternalFailure"))

List(page) ==
  LET rest == {i \in Ids : live[i] # "none"} \ request.seen
      ids == IF page \cap rest = {} THEN rest ELSE page \cap rest
  IN  Unchanged(Listing(ids, rest # ids))

(* What a handler that keeps the contract does: it chooses how often it     *)
(* answers IN_PROGRESS and how long a page of a listing is.                 *)
Conforming(left, page) ==
  CASE request.left > 0 -> Continue
    [] request.left = 0 /\ request.act = "CREATE" -> BeginCreate(left)
    [] request.left = 0 /\ request.act = "LIST" -> List(page)
    [] request.left = 0 /\ request.act = "READ" ->
         IF Exists(request.model)
         THEN Unchanged(Success([id |-> request.model.id, props |-> live[request.model.id],
                                 secret |-> FALSE]))
         ELSE Unchanged(Failed("NotFound"))
    [] OTHER -> IF Exists(request.model) THEN Perform(request.model.id, left)
                ELSE Unchanged(Failed("NotFound"))

(* The outcome o with a resource whose properties are p where the answer    *)
(* says, or at a fresh identifier.                                          *)
Moved(o, i, p) ==
  [live |-> [o.live EXCEPT ![i] = p], used |-> o.used \cup {i}, op |-> o.op,
   answer |-> Success([id |-> i, props |-> p, secret |-> FALSE])]

Ok(o, act) == request.act = act /\ o.answer.status = "SUCCESS"
Refused(o, act, code) == request.act = act /\ o.answer.code = code

(* What the handlers do instead because of their defect.                    *)
Deviation(o) ==
  LET m == request.model
      a == o.answer
  IN
  CASE defect = "createAgain" /\ Refused(o, "CREATE", "AlreadyExists") -> Moved(o, m.id, m.props)
    [] defect = "createFails" /\ Ok(o, "CREATE") ->
         [o EXCEPT !.answer = Failed("InternalFailure")]
    [] defect = "createNoId" /\ Ok(o, "CREATE") -> [o EXCEPT !.answer.model.id = NoId]
    [] defect = "createPartial" /\ Ok(o, "CREATE") -> [o EXCEPT !.live[a.model.id] = "partial"]
    [] defect = "progressNoId" /\ a.status = "IN_PROGRESS" -> [o EXCEPT !.answer.model.id = NoId]
    [] defect = "returnsSecret" /\ a.status = "SUCCESS" /\ a.model # NoModel ->
         [o EXCEPT !.answer.model.secret = TRUE]
    [] defect = "readGhost" /\ Refused(o, "READ", "NotFound") ->
         [o EXCEPT !.answer = Success([m EXCEPT !.secret = FALSE])]
    [] defect = "readWaits" /\ Ok(o, "READ") -> [o EXCEPT !.answer = Progress(m, 0)]
    [] defect = "updateCreates" /\ Refused(o, "UPDATE", "NotFound")
       /\ (m.id \in Ids \/ HasFree(o.used)) ->
         Moved(o, IF m.id \in Ids THEN m.id ELSE Free(o.used), m.props)
    [] defect = "updatePartial" /\ Ok(o, "UPDATE") -> [o EXCEPT !.live = live]
    [] defect = "updateNewId" /\ Ok(o, "UPDATE") /\ HasFree(o.used) ->
         Moved([o EXCEPT !.live[a.model.id] = "none"], Free(o.used), m.props)
    [] defect = "deleteKeeps" /\ Ok(o, "DELETE") -> [o EXCEPT !.live = live]
    [] defect = "deleteModel" /\ Ok(o, "DELETE") ->
         [o EXCEPT !.answer.model = [m EXCEPT !.secret = FALSE]]
    [] defect = "deleteGhost" /\ Refused(o, "DELETE", "NotFound") ->
         [o EXCEPT !.answer = Success(NoModel)]
    [] defect = "listGhost" /\ Ok(o, "LIST") -> [o EXCEPT !.answer.ids = a.ids \cup used]
    [] defect = "listMisses" /\ Ok(o, "LIST") -> [o EXCEPT !.answer = Listing({}, FALSE)]
    [] defect = "slow" /\ request.left = 0 -> [o EXCEPT !.answer.slow = TRUE]
    [] defect = "slowLater" /\ request.left > 0 -> [o EXCEPT !.answer.slow = TRUE]
    [] OTHER -> o

HandlerAnswers ==
  /\ phase = "sent"
  /\ \E left \in 0 .. MaxPolls, page \in {Ids} \cup {{i} : i \in Ids} :
       LET o == Conforming(left, page)
           d == Deviation(o)
       IN  /\ live' = d.live /\ used' = d.used /\ op' = d.op /\ answer' = d.answer
           /\ shown' = (shown \/ d # o)
  /\ phase' = "answered"
  /\ UNCHANGED <<type, defect, tokens, request>>
=============================================================================
