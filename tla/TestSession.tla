---------------------------- MODULE TestSession ----------------------------
(***************************************************************************)
(* `cfn test`: the input files and the overrides of a project, one pytest  *)
(* session per set of input files, and in the session of a hook the tests  *)
(* of suite/hook, which call the handlers through HookClient.  The session *)
(* of a resource is one step here; ContractSuite models it.                *)
(*                                                                         *)
(* Meanwhile the developer may edit the type configuration file.           *)
(***************************************************************************)
EXTENDS HookClient, SequencesExt

CONSTANTS
  Folders,     \* the contents the inputs folder may have
  NoFolder,    \* there is no inputs folder
  Generated,   \* the CLI generates inputs
  Artifacts,   \* the kinds of project
  Overrides,   \* the states overrides.json may be in
  Files,       \* the states the type configuration file may be in
  Edits,       \* the states the developer may bring it to
  MaxSet,      \* bound on the numbers of input sets
  Faults       \* what may go wrong outside the program

(* What get_type makes of a file name.                                      *)
Kind == [valid : BOOLEAN, of : Points \cup {"CREATE", "UPDATE", "any"}]
Valid(point) == [valid |-> TRUE, of |-> point]
Invalid(point) == [valid |-> FALSE, of |-> point]

(* An input file: the number in its name, its kind, and the targets its     *)
(* content is for; `broken` if it is no JSON.                               *)
InputFile == [n : 1 .. MaxSet, kind : Kind, targets : SUBSET Targets, broken : BOOLEAN]

ConfigurationFile == Configurations \cup {"noHook", "broken"}

ASSUME FoldersAssumption ==
  \A folder \in Folders \ {NoFolder} :
    folder \subseteq InputFile /\ \A files \in SUBSET folder : files # Generated
ASSUME ArtifactsAssumption == Artifacts \subseteq {"RESOURCE", "HOOK", "MODULE"}
ASSUME OverridesAssumption == Overrides \subseteq {"absent", "valid", "invalid", "broken"}
ASSUME FilesAssumption == Files \subseteq ConfigurationFile /\ Edits \subseteq ConfigurationFile
ASSUME MaxSetAssumption == MaxSet \in 1 .. 99
ASSUME FaultsAssumption == Faults \subseteq {"unavailable"}

VARIABLES
  project,   \* what the command finds: artifact, inputs folder, overrides, configuration
  file,      \* the type configuration file now
  cached,    \* TypeConfiguration.TYPE_CONFIGURATION
  stage,     \* what the command is doing
  index,     \* number of the input set
  inputs,    \* the files read for it, one of a kind, or Generated
  test,      \* position of the test in the suite, 0 outside of a session
  todo,      \* the targets the test has still to call, with their models
  failures,  \* whether a test of this session failed
  tested,    \* calls that passed, by input set
  passed,    \* input sets whose session passed
  exit,      \* exit code
  unavailable \* whether something was missing: credentials, exports, target info, the endpoint

sessionVars == <<project, file, cached, stage, index, inputs, test, todo, failures, tested,
                 passed, exit, unavailable>>
vars == <<schema, defect, shown, callVars, sessionVars>>

Test == [point : Points, expect : {"success", "failed", "unsupported"}]
On(point) == <<[point |-> point, expect |-> "success"], [point |-> point, expect |-> "failed"],
               [point |-> point, expect |-> "unsupported"]>>
Suite == On("CREATE_PRE_PROVISION") \o On("DELETE_PRE_PROVISION") \o On("UPDATE_PRE_PROVISION")

TypeOK ==
  /\ ClientTypeOK
  /\ project \in [artifact : Artifacts, folder : Folders, overrides : Overrides, file : Files]
  /\ file \in Files \cup Edits
  /\ cached \in Configurations \cup {"noHook"}
  /\ stage \in {"load", "inputs", "client", "session", "done"}
  /\ index \in 1 .. MaxSet + 1
  /\ inputs = Generated \/ inputs \subseteq InputFile
  /\ test \in 0 .. Len(Suite) + 1
  /\ todo \subseteq Targets \cup {Unsupported}
  /\ failures \in BOOLEAN
  /\ tested \subseteq (1 .. MaxSet) \X Points \X Targets \X BOOLEAN
  /\ passed \subseteq 1 .. MaxSet
  /\ exit \in {"none", "0", "1", "2", "127"}
  /\ unavailable \in BOOLEAN

Init ==
  /\ ClientInit
  /\ project \in [artifact : Artifacts, folder : Folders, overrides : Overrides, file : Files]
  /\ file = project.file
  /\ cached = "absent"
  /\ stage = "load"
  /\ index = 1
  /\ inputs = Generated
  /\ test = 0
  /\ todo = {}
  /\ failures = FALSE
  /\ tested = {}
  /\ passed = {}
  /\ exit = "none"
  /\ unavailable = FALSE

Exit(code) == stage' = "done" /\ exit' = code
Goto(next) == stage' = next /\ UNCHANGED exit

clientVars == <<schema, defect, shown, callVars>>
readOnly == <<project, file>>

-----------------------------------------------------------------------------
(* The loop over the input sets.                                            *)

(* Something the command needs before a session cannot be had: there is no  *)
(* region or no credentials, or the target info is no JSON (exit code 1), a *)
(* role cannot be assumed or a schema not be loaded (2), another call fails. *)
Lacks ==
  /\ "unavailable" \in Faults
  /\ unavailable' = TRUE
  /\ \E code \in {"1", "2", "127"} : Exit(code)

(* test begins: nothing is done for a module; an overrides file that is no  *)
(* JSON ends the command, an invalid one is ignored.  Overrides that name   *)
(* exports of stacks need credentials.                                      *)
Load ==
  /\ stage = "load"
  /\ \/ project.artifact = "MODULE" /\ Exit("0") /\ UNCHANGED unavailable
     \/ project.artifact # "MODULE" /\ project.overrides # "absent" /\ Lacks
     \/ /\ project.artifact # "MODULE" /\ project.overrides = "broken"
        /\ Exit("127") /\ UNCHANGED unavailable
     \/ /\ project.artifact # "MODULE" /\ project.overrides # "broken"
        /\ Goto("inputs") /\ UNCHANGED unavailable
  /\ UNCHANGED <<clientVars, readOnly, cached, index, inputs, test, todo, failures, tested, passed>>

Decimal(n) == IF n < 10 THEN <<n>> ELSE <<n \div 10, n % 10>>

(* The files whose name begins with inputs_ and the number.                 *)
Matching(n) ==
  IF project.folder = NoFolder THEN {}
  ELSE {f \in project.folder : IsPrefix(Decimal(n), Decimal(f.n))}

(* get_inputs: of the files of one kind the one that os.listdir gives last  *)
(* is used.  Without a first set the inputs are generated.  Files that name *)
(* exports of stacks need credentials.                                      *)
GetInputs ==
  /\ stage = "inputs"
  /\ LET files == Matching(index) IN
     \/ /\ files # {} /\ Lacks
        /\ UNCHANGED inputs
     \/ /\ \E f \in files : f.broken
        /\ Exit("127")
        /\ UNCHANGED <<inputs, unavailable>>
     \/ /\ files = {}
        /\ inputs' = Generated
        /\ IF index = 1 THEN Goto("client") ELSE Exit("0")
        /\ UNCHANGED unavailable
     \/ /\ files # {} /\ \A f \in files : ~f.broken
        /\ \E chosen \in SUBSET files :
             /\ \A f \in files : Cardinality({g \in chosen : g.kind = f.kind}) = 1
             /\ inputs' = chosen
        /\ Goto("client")
        /\ UNCHANGED unavailable
  /\ UNCHANGED <<clientVars, readOnly, cached, index, test, todo, failures, tested, passed>>

(* get_contract_plugin_client: needs credentials, and for hooks the target  *)
(* info.                                                                    *)
MakeClient ==
  /\ stage = "client"
  /\ \/ /\ test' = 1
        /\ failures' = FALSE
        /\ Goto("session")
        /\ UNCHANGED unavailable
     \/ /\ Lacks
        /\ UNCHANGED <<test, failures>>
  /\ UNCHANGED <<clientVars, readOnly, cached, index, inputs, todo, tested, passed>>

(* invoke_test raises if the session failed; the next set comes after one   *)
(* that passed, and generated inputs have no next set.                      *)
Conclusion(ok) ==
  /\ test' = 0
  /\ IF ok
     THEN /\ passed' = passed \cup {index}
          /\ IF inputs = Generated THEN Exit("0") /\ UNCHANGED index
             ELSE Goto("inputs") /\ index' = index + 1
     ELSE Exit("1") /\ UNCHANGED <<passed, index>>

(* The session of a resource.  Most of its tests need the CREATE input, but *)
(* not all: a schema may deselect the others.                               *)
ResourceSession ==
  /\ stage = "session" /\ project.artifact = "RESOURCE"
  /\ \E ok \in BOOLEAN : Conclusion(ok)
  /\ UNCHANGED <<clientVars, readOnly, cached, inputs, todo, failures, tested, unavailable>>

(* Mutant: the exit code of pytest is forgotten.                            *)
EndSessionForgets ==
  /\ stage = "session" /\ project.artifact = "HOOK" /\ test > Len(Suite)
  /\ Conclusion(TRUE)
  /\ UNCHANGED <<clientVars, readOnly, cached, inputs, todo, failures, tested, unavailable>>

EndSession ==
  /\ stage = "session" /\ project.artifact = "HOOK" /\ test > Len(Suite)
  /\ Conclusion(~failures)
  /\ UNCHANGED <<clientVars, readOnly, cached, inputs, todo, failures, tested, unavailable>>

-----------------------------------------------------------------------------
(* The session of a hook.                                                   *)

InTest == stage = "session" /\ project.artifact = "HOOK" /\ test \in 1 .. Len(Suite)
Now == Suite[test]

(* _generate_target_model finds a model: in the inputs, where an invalid    *)
(* model may also be in the file for all invocation points; or generated.   *)
HasModel(point, target, valid) ==
  LET holds(kind) == \E f \in inputs : f.kind = kind /\ target \in f.targets
  IN  inputs # Generated =>
        \/ valid /\ holds(Valid(point))
        \/ ~valid /\ (holds(Invalid(point)) \/ holds(Invalid("any")))

(* The test ends, with what is left of its targets not called.              *)
FailTest == failures' = TRUE /\ todo' = {} /\ test' = test + 1

(* The test fails because something cannot be had, whatever the hook does.  *)
TestLacks == "unavailable" \in Faults /\ unavailable' = TRUE /\ FailTest

(* A test begins: it may be deselected or skipped; the models of all        *)
(* targets are made before the first call, in payloads that need            *)
(* credentials, and one that is missing fails the test.                     *)
BeginTest ==
  /\ InTest /\ todo = {}
  /\ LET runs == Now.point \in DOMAIN schema
         skips == Now.expect = "unsupported" /\ ~HasWildcardTargets(Now.point)
         targets == IF Now.expect = "unsupported" THEN {Unsupported} ELSE HandlerTargets(Now.point)
         models == Now.expect = "unsupported" \/
                   \A t \in targets : HasModel(Now.point, t, Now.expect = "success")
     IN
     \/ /\ ~ (runs /\ ~skips /\ targets # {})
        /\ test' = test + 1
        /\ UNCHANGED <<todo, failures, unavailable>>
     \/ /\ runs /\ ~skips /\ targets # {} /\ models
        /\ todo' = targets
        /\ UNCHANGED <<test, failures, unavailable>>
     \/ /\ runs /\ ~skips /\ ~models
        /\ FailTest
        /\ UNCHANGED unavailable
     \/ /\ runs /\ Now.expect # "unsupported" /\ targets # {}
        /\ TestLacks
  /\ UNCHANGED <<clientVars, readOnly, cached, stage, index, inputs, tested, passed, exit>>

(* Mutant: the file is read for every call.                                 *)
ReadConfigurationAfresh == file

(* get_type_configuration: what was read once stays, a file that is absent  *)
(* is looked for again.                                                     *)
ReadConfiguration == IF cached = "absent" THEN file ELSE cached

(* Mutant: a file that is no JSON is kept as well.                          *)
RememberAll(read) == read

Remember(read) == IF read = "broken" THEN cached ELSE read

NextTarget == CHOOSE t \in todo : \A u \in todo : t <= u

(* call: the configuration is read, credentials are obtained, the handler   *)
(* is invoked.                                                              *)
CallTarget ==
  /\ InTest /\ todo # {} /\ phase = "idle"
  /\ LET read == ReadConfiguration IN
     /\ cached' = Remember(read)
     /\ \/ /\ read \in Configurations
           /\ Invoke(Now.point, NextTarget, Now.expect # "failed", read)
           /\ UNCHANGED <<test, todo, failures, unavailable>>
        \/ /\ read \notin Configurations
           /\ FailTest
           /\ UNCHANGED <<callVars, unavailable>>
        \/ /\ read \in Configurations
           /\ TestLacks
           /\ UNCHANGED callVars
  /\ UNCHANGED <<schema, defect, shown, readOnly, stage, index, inputs, tested, passed, exit>>

(* _call raises: the handler's endpoint cannot be reached.                  *)
CallRaises ==
  /\ InTest /\ phase = "sent"
  /\ TestLacks
  /\ phase' = "idle"
  /\ UNCHANGED <<schema, defect, shown, tokens, request, answer, readOnly, cached, stage, index,
                 inputs, tested, passed, exit>>

Passes ==
  CASE Now.expect = "success" -> AssertSuccess
    [] Now.expect = "failed" -> AssertFailed
    [] Now.expect = "unsupported" -> AssertFailed /\ answer.code = "UnsupportedTarget"

(* Mutant: the test returns after its first target.                         *)
ConcludeFirst ==
  /\ InTest /\ Returned
  /\ phase' = "idle"
  /\ IF Passes
     THEN /\ todo' = {}
          /\ test' = test + 1
          /\ tested' = IF Now.expect = "unsupported" THEN tested
                       ELSE tested \cup {<<index, Now.point, request.target, request.valid>>}
          /\ UNCHANGED failures
     ELSE FailTest /\ UNCHANGED tested
  /\ UNCHANGED <<schema, defect, shown, tokens, request, answer, readOnly, cached, stage, index,
                 inputs, passed, exit, unavailable>>

(* The call returned: the next target, or the next test.                    *)
Conclude ==
  /\ InTest /\ Returned
  /\ phase' = "idle"
  /\ IF Passes
     THEN /\ todo' = todo \ {request.target}
          /\ test' = IF todo = {request.target} THEN test + 1 ELSE test
          /\ tested' = IF Now.expect = "unsupported" THEN tested
                       ELSE tested \cup {<<index, Now.point, request.target, request.valid>>}
          /\ UNCHANGED failures
     ELSE FailTest /\ UNCHANGED tested
  /\ UNCHANGED <<schema, defect, shown, tokens, request, answer, readOnly, cached, stage, index,
                 inputs, passed, exit, unavailable>>

(* The developer edits the type configuration file.                         *)
Edit ==
  /\ file = project.file /\ stage # "done"
  /\ file' \in Edits
  /\ UNCHANGED <<clientVars, project, cached, stage, index, inputs, test, todo, failures, tested,
                 passed, exit, unavailable>>

Step ==
  \/ Load \/ GetInputs \/ MakeClient \/ ResourceSession \/ EndSession
  \/ BeginTest \/ CallTarget \/ CallRaises \/ Conclude
  \/ (Reinvoke \/ HandlerAnswers) /\ UNCHANGED sessionVars

Next == Step \/ Edit

Spec == Init /\ [][Next]_vars

(* The command runs on, and the handlers answer every invocation.           *)
FairSpec == Spec /\ WF_vars(Step)

-----------------------------------------------------------------------------
(* Correctness.                                                             *)

(* Every input file is complete, and every number that occurs has the files *)
(* the schema's invocation points need.                                     *)
Complete ==
  project.folder # NoFolder =>
    \A f \in project.folder :
      /\ f.targets = Targets /\ ~f.broken
      /\ \A point \in DOMAIN schema :
           \A kinds \in {{Valid(point)}, {Invalid(point), Invalid("any")}} :
             \E g \in project.folder : g.n = f.n /\ g.kind \in kinds

(* No test fails a hook that keeps the contract, if its inputs are complete, *)
(* its configuration can be read, and credentials, exports, target info and *)
(* the handlers could be had (suite/hook, HookClient).                      *)
ConformingHookPasses ==
  /\ project.artifact = "HOOK" /\ defect = "none" /\ ~unavailable
  /\ Complete
  /\ {project.file, file} \subseteq Configurations
  => exit # "1"

(* A defect that showed in an answer fails the command, unless it is a slow *)
(* re-invocation, or another error code for an invalid model, which the     *)
(* tests do not compare (suite/hook, HookClient).                           *)
DefectIsDetected == shown /\ defect \notin {"slowLater", "otherFailure"} => exit # "0"

(* Exit code 0 means that every set of inputs up to the first gap was       *)
(* tested, and for a hook that every target of every invocation point was   *)
(* called with a valid and with an invalid model in each of them (test,     *)
(* test_hook_handlers_success, test_hook_handlers_failed).                  *)
PassMeansTested ==
  exit = "0" /\ project.artifact # "MODULE" =>
    /\ 1 \in passed
    /\ project.folder # NoFolder =>
         \A n \in 1 .. MaxSet :
           (\A k \in 1 .. n : \E f \in project.folder : f.n = k) => n \in passed
    /\ project.artifact = "HOOK" =>
         \A n \in passed, point \in DOMAIN schema, valid \in BOOLEAN :
           \A t \in HandlerTargets(point) : <<n, point, t, valid>> \in tested

(* Every call of the command carries the type configuration that was read   *)
(* first, also in later sessions and after an edit (TypeConfiguration).     *)
ConfigurationIsStable ==
  [][request.configuration # "absent" => request'.configuration = request.configuration]_vars

(* Every test session ends, given that a call is in progress for a bounded  *)
(* time.                                                                    *)
SessionEnds == <>(stage = "done")

(* "To specify multiple sets of input data for contract tests, increment    *)
(* the integer in the file names": the session of a set uses the files that *)
(* have its number.                                                         *)
SetsAreSeparate ==
  stage = "session" /\ inputs # Generated => \A f \in inputs : f.n = index
=============================================================================
