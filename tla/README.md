# A TLA+ model of the CloudFormation CLI

This directory models `cfn`, the command line tool for the developers of
CloudFormation resource types, hooks and modules, from its source under
`src/src/rpdk/core`. The tool is a Python program that runs one command and
exits; what makes it hard is what it talks to. Several developers submit the
same type to one AWS account, stacks and registrations take their own time, and
the contract tests drive handlers that may do anything.

`PROJECT.json` lists components, runs, the source lines of every definition,
the hazards and the theorems.

## The system

| component | state | operations | hard behaviour |
|---|---|---|---|
| submission (`submit.py`, `project.py` `_upload`, `_wait_for_registration`, `upload.py`) | local: role ARN, object key, stack being waited for; shared: infrastructure stack, role stacks, artifact bucket, type registry, default versions | package, bring stacks up to date, upload, register, wait, set the default version | concurrent submits on the same stacks and keys, waiters that give up before the service does, failures after earlier calls took effect |
| exit codes (`cli.py`) | - | turns exceptions into exit codes 1, 2, 127 | an exit code must not claim more or less than what happened |
| resource handler client (`contract/resource_client.py`) | the schema's property paths, the inputs (changed in place), the request | `call`, `call_and_assert`, examples for create and update | re-invocation while IN_PROGRESS: token, model and callback context come from different places |
| resource contract suite (`contract/suite/resource`) | the models of the shared fixtures | about fifteen tests over three fixtures, with cleanup in `finally` | a failed assertion must neither skip the cleanup nor be hidden by it |
| hook client and suite (`contract/hook_client.py`, `suite/hook`) | cache of resolved wildcard targets | one call per target of an invocation point | the re-invocation loop; a test stops at the first target that fails |
| direct invocation (`invoke.py`) | the payload, a counter | invoke, re-invoke | off by one at `--max-reinvoke`; two kinds of artifact in one loop |
| test session (`test.py`, `type_configuration.py`) | class-level type configuration, temporary ini file, index of the input set | read inputs and overrides, one pytest session per input set | input files chosen by prefix and in directory order |
| project files (`project.py`, `init.py`, `generate.py`, `package.py`, `validate.py`) | `.rpdk-config`, schema, templates, target info, generated code | init, load, generate, package | a failure between two files; a second init |
| target information (`project.py` `_load_target_info`, `type_schema_loader.py`, `type_name_resolver.py`) | `target-info.json`, schema documents, the table that is being loaded | resolve names and patterns, list the registry page by page, read documents, describe types | three sources of one table, a registry that changes between two calls, a fallback half way |
| schema algorithms (`jsonutils`, `data_loaders.py`, the comparison in `contract/resource_client.py`) | the schema, which flattening writes to | traverse, merge, flatten, name models, prune, compare | references in cycles, repeated names, combiners, two flattenings of one schema |
| documentation, canaries, modules' fragments | cache of rendered properties | generate files | one name for two properties |
| plugins, docker, credentials, templates | - | lookups and I/O | - |

A command calls `Project`, which loads the settings and the schema; `submit`
gives the packaged project to `Uploader` and then to the registry; `test` and
`invoke` build a client and call handlers in docker, SAM or Lambda. Commands
of one project share its files; commands of one account share its stacks,
bucket and registry. Nothing runs concurrently inside one process.

## Modules

| module | what it models |
|---|---|
| `Publication` | what `cfn submit` promises: a version is requested once, the registry decides, only a registered version becomes the default, a submitter that reports success tells the truth; one that reports failure may have published |
| `Submit` | `cfn submit`: any number of processes, the stacks, the bucket and the registry they share, faults, deaths, a clock; its mapping onto `Publication` |
| `ResourceClient` | `ResourceClient.call` and the handlers it calls |
| `ContractSuite` | extends `ResourceClient`: the contract tests, fixtures and cleanup |
| `HookClient` | `HookClient.call` and the hook handlers it calls |
| `TestSession` | extends `HookClient`: `cfn test` over the input sets, the type configuration, the hook suite |
| `Invoke` | `cfn invoke`: the loop, its limit, the payload of a re-invocation |
| `ProjectFiles` | the files of a project under init, generate, validate and package |
| `TypeNames` | type names, patterns, and the prefix a listing is asked for |
| `TargetInfo` | extends `TypeNames`: loading a hook's target info, beside a registry that changes |
| `ModelComparison` | how a contract test compares an answer with a request: pruning, path by path, and the comparison of what is left |
| `SchemaFlattening` | the flattener, and `schema_merge` |
| `SchemaModels` | extends `SchemaFlattening`: the models a plugin makes classes of |
| `SchemaAlgorithms` | extends the last two: a schema that is loaded and then made models of |

`MCSubmit`, `MCContractSuite`, `MCTestSession`, `MCInvoke`, `MCProjectFiles`,
`MCTargetInfo`, `MCModelComparison` and `MCSchemaAlgorithms` hold the instances
for TLC; `SubmitProofs`, `ContractSuiteProofs`, `ContractConformProofs`,
`TestSessionProofs`, `InvokeProofs`, `ProjectFilesProofs`, `TargetInfoProofs`
and `ModelComparisonProofs` hold the theorems.

### Submit

One action per remote call. `pc[p]` names the next call of process `p`; its
local variables are `stackOf` (the stack that `_create_or_update_stack` is at),
`arn` (`role_arn`) and `key` (the S3 object). `Start` is everything before the
first call: the dry run's exit, the missing role template, the choice whether a
role stack is needed, and, where it fails (a project that does not load, a
session without region or credentials, a plugin that cannot package), exit code
1, 2 or 127. `CreateStack`, `UpdateStack`, `WaitForStack` and
`GetStackOutput` serve both stacks, in the order role stack, infrastructure
stack. `StampKey` and `UploadFile` are two steps because the clock and other
processes move between them. `RegisterType`, `WaitForRegistration`,
`DescribeRegistration` and `SetDefaultVersion` are the rest of
`_upload`. `SetDefaultVersion` is the call as the registry carries it out;
`Finish` is its answer and the end of the command. `CallRefused` is a
ClientError that the code catches (exit code 2); `Crash` is everything nothing
catches (127): at `"finish"` it is an answer that is lost after the version
became the default, since only ClientError is caught (`project.py:1271`). A call
and the retries that botocore makes of it are one step: either it takes effect
and its answer comes or is lost, or it is refused without effect.

The services are external and modelled from what the code asks of them: a stack
has a status, a template and an operation in progress, an update of a stack in
progress is refused, a template that is already deployed is "no updates are to
be performed"; a registration reads its package some time after the request.
A waiter polls the stack, not the operation: `waitCreate` accepts what another
process's update made of the stack, as botocore's `stack_create_complete` does.

Packaging is one step without effect outside the process. Arguments are records
(`Request`); templates are model values, told apart by whether they declare the
outputs the CLI reads.

### ResourceClient and ContractSuite

`Invoke`, `Reinvoke` and `Raises` are `call`; `Returned` says that it returned
or raised. The handlers are the environment. `Conforming` is any behaviour the
handler contract allows: how often an operation answers IN_PROGRESS (at most
`MaxPolls`) and how long a page of a listing is are free choices. `Deviation`
turns an outcome into that of one of eighteen defects, each a breach of one
clause of the contract; `shown` records whether the defect made a difference.

The suite is a constant sequence of blocks in pytest's order: a test, or the
part of a fixture before or after its `yield`. A block has a body and a
`finally` of calls, the markers that deselect it and the fixture it needs.
`Enter` begins a block or skips it, `CallHandler` makes its next call or fails
on what is asserted before it, `NextPage` follows a nextToken, `Conclude`
evaluates the assertions on the response and decides through `After` what comes
next. A resource model is its primary identifier, the state of its other
properties, and whether it holds write-only properties; `type` says whether the
identifier is writable, which optional handlers exist and whether the inputs
come from a folder. `stale` is the identifier that `generate_update_example`
left in the UPDATE input.

### HookClient and TestSession

`HookClient` has the shape of `ResourceClient`: `Invoke`, `Reinvoke`, `Raises`
and `Returned` are `call`, `Conforming` any behaviour a correct hook may have,
`Deviation` one of twelve defects. A hook schema gives each invocation point a
set of target names; a name is a type or a pattern, and a pattern is the set of
types it matches. `HandlerTargets` resolves patterns against the target info
(`Info`). The target info of a client never changes, so the client's cache of
resolved patterns is left out.

`TestSession` is the command around it. `Load` reads the overrides, `GetInputs`
the files whose names begin with `inputs_` and the number of the set, of which
the one listed last counts for each kind: the listing order is free.
`MakeClient` begins a pytest session. The session of a resource is one step,
`ResourceSession`, since `ContractSuite` models its tests. In the session of a
hook `BeginTest` deselects, skips or fails a test before its first call (a
target without a model), `CallTarget` reads the type configuration and invokes
the handler for the next target, `Conclude` evaluates the assertions;
`EndSession` goes on with the next set or ends the command.

What a command needs from outside may be missing. `Lacks` ends it before a
session: with exit code 1 if there is no region or no credentials
(`CLIMisconfiguredError`, `boto_helpers.py:17`) or the target info is no JSON
(`test.py:383`), with 2 if a role cannot be assumed (`boto_helpers.py:66`) or a
schema cannot be loaded, with 127 if nothing catches the failure. It may happen
where overrides or inputs name exports of stacks, and in `MakeClient`. Within a
session the same makes a test fail (`TestLacks`): credentials are asked for
again for each payload and each call, and `CallRaises` is an endpoint that
cannot be reached. `unavailable` remembers that something was missing; the
command may then end with 1 however the hook behaves, so `ConformingHookPasses`
speaks of the runs where nothing was. `Edit` is the
developer, who may change the type configuration file once while the command
runs.

### Invoke

`Load` reads the request file, `Loop` decides whether to call, `HandlerAnswers`
is the handler, `ReadStatus` looks at its answer, `Prepare` makes the next
payload, `Interrupt` is Ctrl-C. A context is the work an operation has left,
so a handler that is given none, or not the model it made, begins a new
operation: `operations` counts them. `HasStatus` says which answers have the
key the command reads.

### ProjectFiles

`files` is what is on disk; a file is absent, partial (its writer was
interrupted) or holds content. `project` is the `Project` object of the running
command, with the schema in memory, which need not be the one on disk. A schema
is its kind and the permissions its handlers ask for; role template and docs
are the permissions of the schema they were generated from, a package is what it
was made of. The type configuration of a hook, from which its docs are made, is
taken to have properties.

`Begin` starts a command. For init the steps follow `Project.init` or
`init_hook` (`CheckForExistingProject`, `WriteExampleSchema`, `ClearInputs`,
`WriteInputs`, `InitPlugin`, `WriteSettings`) and then `Project.generate` and
`generate_docs` (`WriteRole`, `LoadTargetInfo`, `GenerateCode`, `ClearDocs`,
`WriteDocs`), which generate runs too; init of a module ends with
`WriteSample`. The other commands begin with `Load`, which fails with 1, or with
127 where the schema cannot be made sense of, and for a module goes on
to `WriteModuleSchema`, which does not validate the fragment again; package then
opens and fills the archive. `Safewrite`
is `safewrite`; `Written` says which file a step writes. `Interrupt` is Ctrl-C
or a full disk at any step: the command ends, and the file it was writing may
be partial. `Edit` is the developer, who writes schemas and fragments or
removes a fragment, also while a command runs. Target information is free to
load or to fail (`TargetInfo` says how); the plugin's own files are left out.

### TypeNames and TargetInfo

A type name is a sequence of characters, so that patterns are matched and
prefixes are cut as `TypeNameResolver` does it. `Matches` says of a match where
in the name the part begins that each character of the pattern stands for.
`TargetInfo` follows
`_load_target_info` and the two commands that call it, generate and submit.
`Read` reads `target-info.json`, decides whether the load is local and, unless a
pattern needs the registry, resolves the names; `ListTypes` is one page of the
listing of public types, then of private ones; `LoadDocument` adds the schemas
of one document; `LoadTypeInfo` looks one type up, in the documents, in
`target-info.json` or in the registry, and ends the load when none is left.
`Fail` is every exception: generate ends with the exit code, submit tries again
with `local` and then packages without target info. `CallRefused` and
`FetchFails` are the failures of the services. `RegistryChanges` changes the
entry of one type between any two steps; `touched` remembers which. A schema is
a version; a document is a sequence of typed schemas, so that it may hold two
schemas of one type.

### ModelComparison

`test_input_equals_output` as a machine: `PruneInput`, `PruneOutput` and
`PruneIfNotExist` prune one path each, `Compare` gives the verdict. The paths are
Python sets, so the steps take them in any order. A path is pruned where it can
be followed to its end in every member of the lists on its way; `Traversal` says
whether it can, or else whether what goes wrong first is a missing key, which is
passed over, or a list taken for a dict, which crashes the test.
`CompareModel` is `compare_model`, which asks `TraverseRawSchema` whether a list
is ordered and compares unordered ones by `ItemHash`.

A document is a function from its positions to what is there, not a nested
value, and a schema and each of its definitions is the sequence of its nodes
with their paths, in the order of the document. What the code computes by
recursion over nested dicts becomes a statement about positions: a list is
compared member by member if it is `Reached`, an item's hash is the set of what
is below it with its place. `traverse_raw_schema` and the first reference or
first object that `nested_lookup` finds are a recursive function over the path
and the least index.

The reference definitions share nothing with the code but reading one node of a
schema. `Meant` is the node that a path means, one step after the other;
`HashTells` alone speaks of `ItemHash`. `Conforms` says that an
answer holds what can be read back of a request, and no more, for some order of
the lists whose order is free; `HasAll` drops the second half. Both are claimed
where the code's own restrictions hold: `LookupIsSafe` is what
`traverse_raw_schema` relies on, `HashTells` that an item's hash tells the
members of an unordered list apart, and `IsComparable` what else a handler and a
schema must keep to for a conforming answer to be accepted.

Left out: the spelling of JSON pointers, `propertyTransform`.

### SchemaFlattening, SchemaModels, SchemaAlgorithms

The functions of `jsonutils` are operators here. `Flatten` is `flatten_schema`:
`Walk` carries the schema map with its placeholders and the full schema, which
`Squash` writes to, because the node the combiners are merged into is a shallow
copy. `ResolveModels` is `ModelResolver`: `ModelName` gives each path of the map
a name, `LangType` each property a type.

`SchemaAlgorithms` is the program around them. `Load` is `load_resource_spec`,
which flattens a schema to look for mistakes, passes a failure over and goes on
with what flattening made of the schema. It fails where that cannot be printed
(a set of types, `HoldsTypeSet`) or resolved (a walked reference,
`HoldsWalked`), and it may fail where the schema was changed, as the changed one
is validated again. `GenerateModels` flattens what was loaded once more and
resolves models.

The reference definitions do not share a function with the code: `Leaves` says
which types a schema allows where, to `Depth`, following references and uniting
combiners; `FlatLeaves` and `ModelLeaves` say the same of a schema map and of
models.

Left out: references into a branch of a combiner (no model can be named after
one, `base_class_from_ref` fails), references to other documents, the spelling
of JSON pointers, keywords that nothing reads.

## Runs

| run | instance | shows |
|---|---|---|
| `submit` | two processes, two types, seven kinds of request, every fault, the clock moves once, services without fairness | `TypeOK`, `DefaultIsRegistered`, `ExitCodeIsTruthful`, `PackageIsOwn`, `RoleStackIsReady`, `ImplementsPublication`, and that a submit that has begun ends (`SubmitTerminates`) |
| `submit_race` | three processes of one type, no fault, services that finish | `SomeoneSucceeds`: somebody publishes |
| `contract` | conforming handlers and each defect, every kind of type, up to two re-invocations per operation, any paging, an account with or without a resource of the example's identifier | `TypeOK`, `ConformingHandlerPasses`, `DefectIsDetected`, `NothingLeftBehind`, `ForeignLossIsReported`, `SuiteEnds` |
| `session` | hooks that conform and each defect, resources, a module; seven input folders, two hook schemas, an edit of the type configuration, credentials, exports, target info or an endpoint that are missing at any point | `TypeOK`, `ConformingHookPasses`, `DefectIsDetected`, `PassMeansTested`, `ConfigurationIsStable`, `SessionEnds` |
| `session_sets` | a resource with ten sets of inputs | counterexample to `SetsAreSeparate` |
| `invoke` | resource and hook, limits 0, 1, 3 and none, endless handlers, answers without a status, Ctrl-C | `TypeOK`, `ReinvocationsAreExact`, `OneOperation`, `InvokeEnds` |
| `invoke_hook` | hook handlers | counterexample to `ProgressIsUnderstood` |
| `project` | three commands, one interrupt and one edit anywhere; two type names and a module, three schemas of the developer's own | `TypeOK`, `SettingsComeLast`, `OverwritingInitRepairs`, `GeneratedFilesFollow`, `PackageIsConsistent`, `SchemaIsKept`, `CommandEnds` |
| `targets` | generate and submit, four types, six sets of names and patterns, four contents of `target-info.json`, three of `target-schemas`, four lists of documents on the command line, three registries, one type that changes, every fault | `TypeOK`, `ResolutionIsExact`, `SchemasAreRight`, `PackageIsWhole`, `LoadEnds` |
| `comparison` | all pairs of an input and an output of seven schemas, pruned in every order | `ConformingAnswerIsAccepted`, `MismatchIsReported` |
| `exactness` | the same pairs | counterexample to `AcceptedMatchesExactly` |
| `schemas` | some 3700 schemas of two definitions that are flattened and made models of | `FlatteningIsFaithful`, `ModelsDescribeTheSchema` |

### Bounds

*Submit.* Two processes suffice for every property about a pair (whose package,
whose default, whose template); the third in `submit_race` makes a queue of
two behind one stack. Two types give two role stacks and one shared
infrastructure stack. `MaxSecond = 1` makes both "the same second" and
"a later second" happen. The old state of the account is chosen freely: each
stack missing or deployed with an earlier template. No symmetry is used, since
the requests are not symmetric.

*ContractSuite.* Seven identifiers are more than any run of the tests creates
(a handler that runs out of them would answer ServiceLimitExceeded, which
`ConformingHandlerPasses` would show); `SupplyAssumption` asks for as many, and
`ContractConformProofs` counts that they suffice. `MaxPolls = 2` gives a re-invocation
whose successor is a re-invocation. `Foreign = {1}` is the identifier of the
example.

*TestSession.* Input sets have numbers up to 10, the first that another number
is a prefix of. Of three target types one is unknown to the target info, so
that patterns match known, unknown and no types; the two schemas have exact
names, a pattern next to a name it matches, and a pattern that matches nothing
known. `MaxPolls = 1` makes one re-invocation per call.

*Invoke.* `MaxCalls = 6` is more than the largest limit allows, 3 + 1, so the
bound is met only without a limit. `MaxPolls = 3` uses up every limit that is
tried.

*ProjectFiles.* Three commands are an init that is interrupted, an init that
finds what the first left, and a command that uses the result, with the
developer's edit between any two or in the middle of one. Two type names make
settings that name another type than the schema on disk belongs to. The own
schemas are one with permissions, one without handlers and an invalid one.

*TargetInfo.* Four types are one family of two, a type that shares only its
first letter with them, and a type that shares none; a prefix of two characters
is the shortest that is used, so that the common prefix of the sets of names is
too short, long enough, or cut at `*` or at `?`. `PageSize = 2` makes a listing
of two to four pages, and the one change of the registry falls before, between
or after any of them.

*ModelComparison.* The seven schemas have an unordered list, a nested object
behind two references, ordered and unordered lists of objects, a list within an
object within a list, a list of lists, and a create-only path that enters a list;
the paths to prune are at the root, in objects behind references and in members
of lists, one of them within another. With one or two values and lists of up to
two or three members each comparison has members that are equal, permuted,
repeated and missing.

*Schemas.* The flattened schemas combine nine definitions, among them
recursive ones, arrays, maps and combiners, with sixteen properties, among them
combiners beside and without properties of their own; about 2100 of them have
the recursion `FlatteningIsFaithful` speaks of, and 255 are made models of under
the condition of `ModelsDescribeTheSchema`. `Depth = 3` goes once around every
cycle of two definitions.

### Fairness

`SubmitTerminates` needs weak fairness of each process after it has begun: its
calls return and its waiters have a fixed number of attempts, which is what
boto's waiters guarantee. The services need none: that is the point, and the
run `submit` gives them none. `SomeoneSucceeds` adds fairness of the services, that an accepted operation
ends. `SuiteEnds` assumes that the command runs on and that handlers answer; an
operation that is in progress forever is excluded by `MaxPolls`, and the code
has no bound of its own.

`SessionEnds` and `InvokeEnds` assume likewise that the command runs on and the
handlers answer (or their calls raise); the developer's edit and Ctrl-C
have no fairness. `InvokeEnds` is
claimed only where the number of re-invocations is limited or the handler
finishes: without a limit the loop is endless by intent. `CommandEnds` assumes
that a command's steps go on; nothing makes the developer begin, edit or
interrupt. `LoadEnds` assumes that the load goes on (`WF_vars(Load)`); a call
that is refused, a document that cannot be fetched and a change of the registry
may happen or not. The comparison and the
schema algorithms are claimed no liveness and need none.

Deadlock checking is off: a command ends, a comparison has its verdict, and
with it the system ends.

## Proofs

All theorems hold for every value of the constants that satisfies the named
assumptions of the modules.

`SubmitProofs`, for every number of processes, types, templates, requests,
seconds, and every choice of faults:

| theorem | says |
|---|---|
| `TypeCorrect` | `Spec => []TypeOK` |
| `ControlCorrect` | `Spec => []ControlInv` |
| `DefaultCorrect` | `Spec => []DefaultIsRegistered` |
| `ExitCodeCorrect` | `Spec => []ExitCodeIsTruthful` |
| `PackageCorrect` | `Spec => []PackageIsOwn` |
| `RoleCorrect` | `Spec => []RoleStackIsReady` |
| `PublicationImplemented` | `Spec => ImplementsPublication` |
| `BoundCorrect` | `Spec => SubmitIsBounded` |

*ControlInv.* Neither `DefaultIsRegistered` nor `ExitCodeIsTruthful` is
inductive: nothing in them says that a process about to call
set_type_default_version has a completed registration. `Control(p)` relates the
program counter of a process to what it has done to the registry and to its
exit code. `DefaultCalled` says that the default version of a type belongs to a
process that made the call and was not refused: it waits for the answer
(`"finish"`), or it has ended with 0, or with 127 because the answer was lost.
This is why exit codes 1 and 2 never hide a default, while 127 may. `Answered`
says that a process at `"finish"` has made its type have a default, which is
what its exit code 0 will claim.

*PackageInv.* An object's key is the key its uploader stamped, and neither
changes once the object exists; so whichever object the registry reads under a
process's key was stamped with that key.

*RoleInv.* A waiter sees the status of whichever operation is the last one, so
a process cannot know that its own template was deployed. The invariant tracks
who wrote a stack: a finished operation leaves the template of some writer, the
waiting process is a writer itself, and where all writers want one template
that is the process's own.

*The refinement.* The mapping is at the end of `Submit`: a wish is a part of
the request, the state of a version that of the registration, an outcome the
exit code, or "published" for a process that waits for the answer to
set_type_default_version. `RegisterType` is a Request, `RegistrationEnds` a
Decide, `SetDefaultVersion` a SetDefault, a step that ends with exit code 0 a
Succeed and one that ends otherwise a Fail, also a Fail of what is already
published; every other step stutters. `ControlInv` gives what `Publication` asks
of each: no version is requested twice, a default is set and success reported
only after the registration completed.

`ContractSuiteProofs` and `ContractConformProofs`, for every set of identifiers,
any number of polls and every choice of defects:

| theorem | says |
|---|---|
| `TypeCorrect` | `Spec => []TypeOK` |
| `DefectCorrect` | `Spec => []DefectIsDetected` |
| `ForeignLossCorrect` | `Spec => []ForeignLossIsReported` |
| `ConformingCorrect` | `Spec => []ConformingHandlerPasses` |
| `CleanCorrect` | `Spec => []NothingLeftBehind` |
| `BoundCorrect` | `Spec => SuiteIsBounded` |

*TypeInv* adds to `TypeOK` that a call under way is one of the calls of the
running block, that cleanup runs only in a block that has one (`BlockInv`), and
that an operation the handler has accepted has a resource (`CallInv`). The proof
goes through the eighteen blocks of the suite, the outcomes of a conforming
handler and each way to deviate from them.

A defect is made in one call, and it is often another call, of another test,
that notices it, so `DefectIsDetected` is not inductive. *DetectionInv* carries
a defect from the one to the other. `CaughtInv` names for each defect the call
whose assertions catch it: if that test is selected and the call is behind,
some test has failed. Two defects may show at several calls and are caught at
once or by the next test (`PendingInv`); `ShownInv` says for which types a
defect can show at all, which are those whose catching test is selected. The
rest is what the catching call relies on: that the request is the block's and
that its token and model survive re-invocations (`ControlInv`, `TokenInv`,
`RequestInv`, `ProgressInv`), that the models of the fixtures have an identifier
and the properties asked for as long as nothing failed (`HoldingInv`,
`SecondInv`), and what each defect does to the resources and the answers
(`WorldInv`, `AnswerInv`, `FirstInv`). `ForeignInv` says that nothing the tests
do reaches the account's own resource unless its identifier is the example's;
`TakenInv` and `CaughtInv`, that then the first test fails.

*ConformInv* is about a handler that keeps the contract. `Base` is the resources
that exist between two calls, read off from where the suite is; `ModelsInv`
relates the models of the tests to them, and `ResourcesInv` what the handler has
made so far of the call under way and its answers, however often it was in
progress. `ReadyInv` says that no fixture is missing, and `SupplyInv` counts the
identifiers taken, so that a create finds one. *TidyInv* adds what
`NothingLeftBehind` says of faulty handlers: that all the tests make bears the
example's identifier (`OwnInv`), and that as long as it exists a deletion of it
is still to come (`OpenInv`).

The arms of a case distinction must exclude each other to be reasoned about, not
follow each other: those of `Enter`, where the teardown of a fixture bears the
fixture's name, now do.

`TestSessionProofs`, for every set of targets, hook schemas, input folders,
overrides and configuration files, any number of answers and input sets, and
every choice of defects:

| theorem | says |
|---|---|
| `TypeCorrect` | `Spec => []TypeOK` |
| `ConfigurationCorrect` | `Spec => ConfigurationIsStable` |
| `DefectCorrect` | `Spec => []DefectIsDetected` |
| `ConformingCorrect` | `Spec => []ConformingHookPasses` |
| `PassCorrect` | `Spec => []PassMeansTested` |
| `BoundCorrect` | `Spec => SessionIsBounded` |

*TypeInv* adds to `TypeOK` that the index of a test and of a target stay within
what they index (`IndexInv`), what a pending call looks like (`CallInv`), and
when there is an exit code. *ConfigurationInv* says that a call carries the
configuration that is cached. *DefectInv* follows a defect from the answer to
the failed test to the exit code. *ConformInv* has three parts: no test has
failed, the inputs of the session are complete, and the answer of a handler
that keeps the contract is one that the assertions of the running test accept,
however often it was in progress. It holds as long as nothing was
`unavailable`, which once true stays true. *CoverInv* says which targets and tests of
the running session are behind it, that a set that counts as tested was, and
that there is no gap below it; the sets of generated inputs are set apart.

`InvokeProofs`, for every limit, any number of answers and calls, and every
choice of faults:

| theorem | says |
|---|---|
| `TypeCorrect` | `Spec => []TypeOK` |
| `ReinvocationsCorrect` | `Spec => []ReinvocationsAreExact` |
| `OperationCorrect` | `Spec => []OneOperation` |
| `BoundCorrect` | `Spec => InvokeIsBounded` |

*CountInv* says that a call is made only where the limit allows one, and why
the command ended. *OperationInv* follows the model and the context of a
resource's operation from the answer into the payload: an answer may leave the
model out, and then it must still be in the payload from an earlier one.

`ProjectFilesProofs`, for every set of type names and own schemas and any
number of commands, edits and interrupts:

| theorem | says |
|---|---|
| `TypeCorrect` | `Spec => []TypeOK` |
| `SettingsCorrect` | `Spec => []SettingsComeLast` |
| `SchemaCorrect` | `Spec => SchemaIsKept` |
| `RepairCorrect` | `Spec => []OverwritingInitRepairs` |
| `GeneratedCorrect` | `Spec => []GeneratedFilesFollow` |
| `PackageCorrect` | `Spec => []PackageIsConsistent` |
| `BoundCorrect` | `Spec => CommandIsBounded` |

*TypeInv* adds to `TypeOK` which kind of project a step belongs to and from
where on the `Project` object holds settings and a schema. *SettingsInv* adds
`SchemaThere`: between writing the schema and writing the settings there is a
schema file, whoever wrote it, and `SchemaStays` says that no step removes one.
`SchemaCorrect` needs that only an init comes to write a schema (`InitRuns`),
and what `Safewrite` does to each file (`SchemaWrite`). The last three are about
a command that ended with 0 while nobody edited; *OutInv* says, step by step,
which of its files an init that may overwrite, a generate or a package has
brought up to date so far, and `FieldsWritten` what each write leaves alone.

`TargetInfoProofs`, for every set of types, documents, patterns and registries,
any length of names, any size of pages and any number of changes:

| theorem | says |
|---|---|
| `TypeCorrect` | `Spec => []TypeOK` |
| `SchemasCorrect` | `Spec => []SchemasAreRight` |
| `PackageCorrect` | `Spec => []PackageIsWhole` |
| `ResolutionCorrect` | `Spec => []ResolutionIsExact` |
| `BoundCorrect` | `Spec => LoadIsBounded` |

*LoadInv* relates the load to its sources: `schemas` is what the documents read
so far say, with one schema per type; a type that has info has the schema of
its sources; a type that the hook names has info or is among those to look up;
and what a failed attempt had loaded is gone.

*ResolutionInv* adds which types a listing has kept: up to the name it has
passed, and of those that did not change, the ones that can be used and begin
with the prefix it was asked for (`ListInv`); and after that, that the types to
look up and those that have info are the ones meant (`ResolvedInv`). Between the
two stands `PrefixFits`: every name that a pattern matches begins with
`FilterPrefix` of all names and patterns. It holds because the longest common
prefix exists and begins each of them (`CommonPrefixIs`), is cut before its
first wildcard (`FilterPrefixIs`), and what a pattern holds before its first
wildcard a name that it matches holds too (`LiteralBeginning`). The inductions
are over natural numbers, by a least counterexample. That a hook's names are
sequences of characters is an assumption on the constants
(`TargetsAssumption`).

*How long a command takes.* Under fairness each command ends; those liveness
properties stay with TLC. Their other half needs no fairness: no command goes
round in circles. Six theorems called `BoundCorrect` prove it. Each names a
measure, a natural number or several compared one after the other, which every
step of the command makes smaller and no step of anybody else makes larger. The
statements stand with their proofs.

* `SubmitIsBounded`: at most 16 steps of a submit. It brings up to date two
  stacks, that of the role first, and passes every other place once.
* `CommandIsBounded`: at most 13 steps of init, generate or a package. An init
  that generates a second time does so with local target information, and then
  not again.
* `InvokeIsBounded`: five steps for each invocation that the limit leaves, also
  where the handler never finishes. Without a limit there is no bound.
* `LoadIsBounded`: `StepsLeft` counts the pages, documents and types of this
  attempt, and those of a second one that a failed submit makes (`LoadFewer`,
  `FailFewer`). A page passes at least one name of the registry, also where it
  returns none: a listing that never moved on would not end.
* `SessionIsBounded`: the input sets, the tests of a session, the targets of a
  test and the invocations of a call, in this order. `ProgressInv` says that
  each invocation has less left to wait for than the one before.
* `SuiteIsBounded`: the blocks of the suite, the calls of a block, the pages of
  a listing and the invocations of a call. There may be infinitely many
  identifiers, but the resources there are, are finitely many, and a page that
  is not the last one has one of them that no page before had (`PagingInv`);
  this holds for the handlers with a defect as well.

`ModelComparisonProofs`, for every set of schemas and of documents:

| theorem | says |
|---|---|
| `LookupIs` | where `traverse_raw_schema`'s restrictions hold, it finds the `insertionOrder` that a list's path means |
| `PruningTheorem` | `Spec => []PrunedIsPart` |
| `MismatchTheorem` | `Spec => []MismatchIsReported` |
| `ConformingTheorem` | `Spec => []ConformingAnswerIsAccepted` |

The one assumption, `DocumentsAssumption`, says that schemas are schemas and that
documents are models of them: each node but the root has its parent before it,
each position but the root its parent in the document, a list has the members
that its length says, and what is at a position is of the kind its path means.
The documents may be infinite in number and of any depth and length.

*The lookup.* `ResolveRef` follows the first reference anywhere inside a node,
and goes on from the first object. That this is the node the path means is an
induction over the length of the path: in a schema without references inside
objects, a node with a reference inside is the reference itself or an array that
ends in one, and the object it leads to is the root of its definition.

*PrunedIsPart* says that what is left of a document is the document without some
paths that it is allowed to lack: of the input only those that cannot be read
back. A document that is not accepted needs nothing more. One that is has, for
each unordered list, the same set of hashes on both sides; as the lists are of
one length and the hashes of the input's members differ, the members correspond
one to one, and `Moved` along these correspondences is the order that `HasAll`
asks for. It is chosen for all lists at once: the unordered lists hold no lists,
so that no list moves within another.

*ConformingIsKept* says exactly what is left: `pruned_input` is the input
without the paths pruned so far, the same of the output, and nothing has failed.
A path that is to be pruned is uniform in what is left, if it was in the whole,
so it can be followed everywhere or nowhere, and pruning it does what `Without`
says, also where a path pruned before is its beginning; a path of
`createOnlyProperties` is in the output only if the input has it, so
`PruneIfNotExist` finds nothing to prune. At the end `CompareModel` holds with
the order that `Conforms` names, since equal members have equal hashes.

Trying to prove it corrected the statements. Two members of an unordered list
that differ may be equal once their write-only properties are pruned, so
`HashTells` speaks of what is compared, not of what was given. A list in an
ordered list is compared with `==` whatever its own `insertionOrder` says
(`resource_client.py:499`), so `IsComparable` excludes it; that is a hazard now.
And which of two members is wrong first decides whether a test passes a path
over or crashes, which `Traversal` now says.

Only model-checked: the liveness properties, which are beyond the prover;
`FlatteningIsFaithful` and `ModelsDescribeTheSchema`, whose `Walk` and
`Leaves` are recursive operators: what they compute of every schema would need
induction over schemas.

## Findings

* "To specify multiple sets of input data for contract tests, increment the
  integer in the file names" (`resource-type-test.md:134`). The files of set 10
  and above also count as files of set 1, and which of two is used depends on
  the order in which the directory lists them.
* "The function is re-invoked while the IN_PROGRESS status is returned"
  (`invoke.py:1`). A hook handler's status is in `hookStatus`; the command
  reads `status` and ends with a KeyError.
* "All properties specified in the request MUST be present in the model
  returned, and they MUST match exactly" (`resource_client.py:461`).
  `item_hash` hashes what `list.sort()` returns, which is None: in an unordered
  collection every list is taken for every other.

The properties are stated around some limits; the hazards in `PROJECT.json`
name their lines. Re-invocations of a handler are not timed. A registration
waiter that gives up ends a submit with exit code 2, also if the registration
succeeds later, and then no default is set. A submit whose last answer is lost
ends with 127 although its version is the default. A definition that leads to itself
and is no object with properties leaves a reference in the schema map that
leads nowhere. A list of which some members lack a property to prune keeps it
in all of them. The copy that the flattener makes "to avoid modifying the
schema" (`flattener.py:44`) shares its properties with the schema, so that the
schema `load_resource_spec` returns is not the one it read where a combiner
adds to properties; flattened again for the models it gives other types, or
does not load. `Load` does that, and `ModelsDescribeTheSchema` asks for
combiners beside no properties of their own. An init beside a schema that the
developer wrote keeps the file and derives role template and docs from the
example.

## Plan

What would be added next, in this order:

1. The pages of the documentation, with their cache of rendered properties by
   bare name (`project.py:994`), on top of `SchemaFlattening`.
2. References into combiners, and the inliner for documents that refer to each
   other.

## Not modelled

Text: prompts, logging, generated code, the pages of the documentation,
templates; with the pages their cache of rendered properties. Canary input files
are written one after the other from templates. Plugins, docker and SAM are one
call each, and so are the requests for credentials. Schema validation and
example generation are libraries (jsonschema, hypothesis) behind a thin layer.
What a package holds besides settings, schema and fragment is left out. Each
component that is left out is listed in `PROJECT.json` with the reason.
