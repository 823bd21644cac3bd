----------------------------- MODULE TargetInfo -----------------------------
(***************************************************************************)
(* The target info of a hook: which resource types its handlers target,    *)
(* and the schema of each.  _load_target_info resolves the target names of *)
(* the hook's schema (TypeNameResolver) and loads a schema for every type  *)
(* (TypeSchemaLoader) from three sources: target-info.json, the schema     *)
(* documents given on the command line or kept in target-schemas, and the  *)
(* CloudFormation registry.                                                *)
(*                                                                         *)
(* The registry is not part of this code.  Publishers register, activate,  *)
(* deprecate and deregister types while the command pages through it and   *)
(* describes one type after the other.                                     *)
(***************************************************************************)
EXTENDS TypeNames, FiniteSets

CONSTANTS
  Sorted,      \* the names of all types, in alphabetical order
  Special,     \* HOOK_SPECIAL_TARGET_NAMES, which are no types
  Versions,    \* the schemas that a type may have
  TargetSets,  \* the sets of target names that a hook's schema may have
  InfoFiles,   \* the contents of target-info.json
  Folders,     \* the documents in target-schemas
  Arguments,   \* the documents given with --target-schemas
  Registries,  \* the initial contents of the registry
  PageSize,    \* bound on the size of a page of the registry
  MaxChanges,  \* bound on the number of types that change meanwhile
  Faults,      \* what may go wrong outside the program
  None,        \* no schema
  Bare         \* an entry of target-info.json without a schema

Names == ToSet(Sorted)

(* A type of the registry: AWS's own, one of a third party that is          *)
(* activated in the account or not, a private one; deprecated, or absent.   *)
Status == {"aws", "activated", "inactive", "private", "deprecated", "absent"}
Entry == [status : Status, schema : Versions]

InfoFile == [state : {"absent", "broken", "valid"}, types : [Names -> Versions \cup {None, Bare}]]
Document == [at : {"file", "url"}, broken : BOOLEAN, types : Seq([name : Names, schema : Versions])]
Command == {"generate", "submit"}

ASSUME NamesAssumption ==
  /\ Sorted \in Seq(Seq(STRING))
  /\ \A t \in Names \cup Special : ~ContainsWildcard(t)
ASSUME VersionsAssumption == None # Bare /\ {None, Bare} \cap Versions = {}
ASSUME FilesAssumption ==
  /\ InfoFiles \subseteq InfoFile
  /\ Folders \cup Arguments \subseteq Seq(Document)
  /\ \A file \in InfoFiles : file.state = "valid" \/ \A t \in Names : file.types[t] = None
ASSUME TargetsAssumption ==
  \A s \in TargetSets : \A t \in s : t \in Seq(STRING) /\ (t \in Names \cup Special \/ ContainsWildcard(t))
ASSUME RegistriesAssumption == Registries \subseteq [Names -> Entry]
ASSUME BoundsAssumption == PageSize \in Nat \ {0} /\ MaxChanges \in Nat
ASSUME FaultsAssumption == Faults \subseteq {"noSession", "clientError", "httpError"}

VARIABLES
  command,    \* the command that loads the target info
  project,    \* what it finds on disk
  local,      \* local_only
  pc,         \* the step that comes next
  passed,     \* how many of the names a listing has passed
  applicable, \* the types listed so far
  read,       \* how many of the documents are read
  schemas,    \* the schemas that are in them
  todo,       \* the resolved types that have no info yet, by their positions
  info,       \* type_info
  outcome,    \* how the command fared
  registry,   \* the CloudFormation registry
  touched     \* the types that changed since the command began

attempt == <<pc, passed, applicable, read, schemas, todo, info>>
vars == <<command, project, local, attempt, outcome, registry, touched>>

NoSchemas == [t \in Names |-> None]
NoInfo == [state |-> "absent", types |-> NoSchemas]

TypeOK ==
  /\ command \in Command
  /\ project \in [targets : TargetSets, infoFile : InfoFiles, arguments : Arguments \cup {<<>>},
                  folder : Folders]
  /\ local \in BOOLEAN
  /\ pc \in {"read", "public", "private", "schemas", "describe", "done"}
  /\ passed \in 0 .. Len(Sorted)
  /\ applicable \subseteq Names
  /\ read \in Nat
  /\ schemas \in [Names -> Versions \cup {None}]
  /\ todo \subseteq DOMAIN Sorted
  /\ info \in [Names -> Versions \cup {None}]
  /\ outcome \in {"none", "loaded", "ignored", "1", "2", "127"}
  /\ registry \in [Names -> Entry]
  /\ touched \subseteq Names

(* Only generate knows --local-only and --target-schemas; without them it   *)
(* loads like the test command.                                             *)
Init ==
  /\ command \in Command
  /\ project \in [targets : TargetSets, infoFile : InfoFiles,
                  arguments : IF command = "generate" THEN Arguments ELSE {<<>>},
                  folder : Folders]
  /\ local \in IF command = "generate" THEN BOOLEAN ELSE {FALSE}
  /\ pc = "read"
  /\ passed = 0
  /\ applicable = {}
  /\ read = 0
  /\ schemas = NoSchemas
  /\ todo = {}
  /\ info = NoSchemas
  /\ outcome = "none"
  /\ registry \in Registries
  /\ touched = {}

-----------------------------------------------------------------------------
(* One attempt.                                                             *)

Targets == project.targets \ Special
HasWildcard == \E t \in Targets : ContainsWildcard(t)
InInfoFile == {t \in Names : project.infoFile.types[t] # None}

Goto(step) == pc' = step /\ UNCHANGED outcome

(* Mutants: what was loaded stays; the second attempt is not local.         *)
FailKeeps(code) ==
  /\ UNCHANGED info
  /\ passed' = 0
  /\ applicable' = {}
  /\ read' = 0
  /\ schemas' = NoSchemas
  /\ todo' = {}
  /\ IF command = "submit" /\ ~local
     THEN local' = TRUE /\ pc' = "read" /\ UNCHANGED outcome
     ELSE /\ pc' = "done"
          /\ outcome' = IF command = "submit" THEN "ignored" ELSE code
          /\ UNCHANGED local
FailStaysRemote(code) ==
  /\ info' = NoSchemas
  /\ passed' = 0
  /\ applicable' = {}
  /\ read' = 0
  /\ schemas' = NoSchemas
  /\ todo' = {}
  /\ IF command = "submit" /\ ~local
     THEN pc' = "read" /\ UNCHANGED outcome
     ELSE pc' = "done" /\ outcome' = code
  /\ UNCHANGED local

(* An exception ends generate with this exit code.  A submit tries again    *)
(* with what is there locally, and then packages without target info        *)
(* (_add_hooks_content_to_zip).                                             *)
Fail(code) ==
  /\ info' = NoSchemas
  /\ passed' = 0
  /\ applicable' = {}
  /\ read' = 0
  /\ schemas' = NoSchemas
  /\ todo' = {}
  /\ IF command = "submit" /\ ~local
     THEN local' = TRUE /\ pc' = "read" /\ UNCHANGED outcome
     ELSE /\ pc' = "done"
          /\ outcome' = IF command = "submit" THEN "ignored" ELSE code
          /\ UNCHANGED local

(* The resolved types are sorted.                                           *)
Resolved(types) ==
  LET resolved == ResolveTypes(Targets, types) IN
  todo' = {i \in DOMAIN Sorted : Sorted[i] \in resolved}

(* _load_target_info up to the resolution of the names: the files of        *)
(* target-schemas are appended to the list of documents, target-info.json   *)
(* is read, a session is created unless the load is local.  Patterns are    *)
(* resolved locally against target-info.json alone.                         *)
Read ==
  /\ pc = "read"
  /\ \/ /\ project.infoFile.state = "broken"
        /\ Fail("1")
     \/ /\ ~local /\ "noSession" \in Faults
        /\ Fail("1")
     \/ /\ local /\ HasWildcard /\ InInfoFile = {} /\ project.infoFile.state # "broken"
        /\ Fail("127")
     \/ /\ project.infoFile.state # "broken"
        /\ local /\ HasWildcard => InInfoFile # {}
        /\ IF HasWildcard /\ ~local THEN Goto("public") /\ UNCHANGED todo
           ELSE Goto("schemas") /\ Resolved(InInfoFile)
        /\ UNCHANGED <<local, passed, applicable, read, schemas, info>>
  /\ UNCHANGED <<command, project, registry, touched>>

(* What the listing is asked for.                                           *)
Prefix == [s \in TargetSets |-> IF s \subseteq Special THEN <<>> ELSE FilterPrefix(s \ Special)]

(* Which types a listing returns, and which of those list_types keeps.      *)
Visible(t) ==
  IF pc = "private" THEN registry[t].status = "private"
  ELSE registry[t].status \in {"aws", "activated", "inactive"}
TypeEnabled(t) == pc = "private" \/ registry[t].status # "inactive"

(* list_types: a page of the listing of public or private types.  The       *)
(* private types follow the public ones; then the names are resolved.       *)
ListTypes ==
  /\ pc \in {"public", "private"}
  /\ LET prefix == Prefix[project.targets] IN
     \E n \in 1 .. PageSize :
       LET upto == IF passed + n > Len(Sorted) THEN Len(Sorted) ELSE passed + n
           page == {t \in ToSet(SubSeq(Sorted, passed + 1, upto)) :
                      Visible(t) /\ IsPrefix(prefix, t) /\ TypeEnabled(t)}
       IN  /\ applicable' = applicable \cup page
           /\ IF upto < Len(Sorted)
              THEN passed' = upto /\ UNCHANGED <<pc, todo, outcome>>
              ELSE /\ passed' = 0
                   /\ IF pc = "public" THEN Goto("private") /\ UNCHANGED todo
                      ELSE Goto("schemas") /\ Resolved(applicable')
  /\ UNCHANGED <<command, project, local, read, schemas, info, registry, touched>>

(* Those given come before those in target-schemas.                         *)
Documents == project.arguments \o project.folder

(* Mutant: of the schemas that a type has in two documents the last counts. *)
ContradictsNot(types) == FALSE

(* The schemas of a document that the ones already read contradict, or that *)
(* contradict each other.                                                   *)
Contradicts(types) ==
  \E i \in DOMAIN types :
    \/ schemas[types[i].name] \notin {None, types[i].schema}
    \/ \E j \in DOMAIN types : types[j].name = types[i].name /\ types[j].schema # types[i].schema

(* The schemas after the ones of a document are added.                      *)
Added(types) ==
  [t \in Names |->
     IF \E i \in DOMAIN types : types[i].name = t
     THEN types[CHOOSE i \in DOMAIN types : types[i].name = t].schema
     ELSE schemas[t]]

(* load_type_schemas reads one document after the other.  A local load      *)
(* takes nothing from a URL.  A type that has two schemas is an error, and  *)
(* so is a document that cannot be read or is no JSON.                      *)
LoadDocument ==
  /\ pc = "schemas"
  /\ \/ /\ read = Len(Documents)
        /\ Goto("describe")
        /\ UNCHANGED <<local, passed, applicable, read, schemas, todo, info>>
     \/ /\ read < Len(Documents)
        /\ LET d == Documents[read + 1]
               usable == ~d.broken /\ (d.at = "file" \/ ~local) /\ ~Contradicts(d.types)
           IN
           \/ ~usable /\ Fail("127")
           \/ /\ usable
              /\ schemas' = Added(d.types)
              /\ read' = read + 1
              /\ UNCHANGED <<local, pc, passed, applicable, todo, info, outcome>>
  /\ UNCHANGED <<command, project, registry, touched>>

Known(t) == schemas[t] # None \/ t \in InInfoFile

(* Mutant: an entry of target-info.json needs no schema.                    *)
AgreeBare(t) ==
  LET local_info == project.infoFile.types[t] IN
  local_info \in Versions => schemas[t] \in {None, local_info}

(* The schema in target-info.json and the one in a document must be equal,  *)
(* and a type that is known locally must have one of them.                  *)
Agree(t) ==
  LET local_info == project.infoFile.types[t] IN
  /\ {schemas[t], local_info} \cap Versions # {}
  /\ local_info \in Versions => schemas[t] \in {None, local_info}
LocalSchema(t) == IF schemas[t] # None THEN schemas[t] ELSE project.infoFile.types[t]

(* What describe_type answers with a schema for, also if it is deprecated.  *)
Described(t) == registry[t].status \notin {"inactive", "absent"}

IsFirst(i) == \A j \in todo : i <= j

(* load_type_info, one type: a type that is known locally is not looked up, *)
(* and without an answer of the registry there is no info at all.  After    *)
(* the last type the table is complete.                                     *)
LoadTypeInfo ==
  /\ pc = "describe"
  /\ \/ /\ todo = {}
        /\ pc' = "done"
        /\ outcome' = "loaded"
        /\ UNCHANGED <<local, passed, applicable, read, schemas, todo, info>>
     \/ \E i \in todo :
          LET t == Sorted[i] IN
          /\ IsFirst(i)
          /\ \/ (IF Known(t) THEN ~Agree(t) ELSE local) /\ Fail("127")
             \/ ~Known(t) /\ ~local /\ ~Described(t) /\ Fail("2")
             \/ /\ IF Known(t) THEN Agree(t) ELSE ~local /\ Described(t)
                /\ info' = [info EXCEPT ![t] =
                              IF Known(t) THEN LocalSchema(t) ELSE registry[t].schema]
                /\ todo' = todo \ {i}
                /\ UNCHANGED <<local, pc, passed, applicable, read, schemas, outcome>>
  /\ UNCHANGED <<command, project, registry, touched>>

(* A call to CloudFormation fails: DownstreamError.                         *)
CallRefused ==
  /\ "clientError" \in Faults
  /\ \/ pc \in {"public", "private"}
     \/ pc = "describe" /\ ~local /\ \E i \in todo : IsFirst(i) /\ ~Known(Sorted[i])
  /\ Fail("2")
  /\ UNCHANGED <<command, project, registry, touched>>

(* A document cannot be fetched from its URL: DownstreamError.              *)
FetchFails ==
  /\ "httpError" \in Faults
  /\ pc = "schemas" /\ ~local /\ read < Len(Documents) /\ Documents[read + 1].at = "url"
  /\ Fail("2")
  /\ UNCHANGED <<command, project, registry, touched>>

(* A publisher changes a type.                                              *)
RegistryChanges ==
  /\ pc # "done" /\ Cardinality(touched) < MaxChanges
  /\ \E t \in Names \ touched, e \in Entry :
       /\ registry' = [registry EXCEPT ![t] = e]
       /\ touched' = touched \cup {t}
  /\ UNCHANGED <<command, project, local, attempt, outcome>>

-----------------------------------------------------------------------------
Load == Read \/ ListTypes \/ LoadDocument \/ LoadTypeInfo

Next == Load \/ CallRefused \/ FetchFails \/ RegistryChanges

Spec == Init /\ [][Next]_vars

(* The command goes on; nothing makes the registry rest.                    *)
FairSpec == Spec /\ WF_vars(Load)

-----------------------------------------------------------------------------
(* Correctness.                                                             *)

(* The target info of a load that succeeds holds the types that the hook    *)
(* names and those its patterns stand for, all of them and no others: all   *)
(* that could be used throughout the load if the registry was asked, those  *)
(* of target-info.json if not (_load_target_info).  Of a type that changed  *)
(* meanwhile nothing is said.                                               *)
ResolutionIsExact ==
  outcome = "loaded" =>
    LET usable == IF local THEN InInfoFile
                  ELSE {t \in Names : registry[t].status \in {"aws", "activated", "private"}}
        meant(t) == t \in Targets \/
                    (t \in usable /\ \E p \in Targets : ContainsWildcard(p) /\ Matches(p, t))
    IN  \A t \in IF local THEN Names ELSE Names \ touched : info[t] # None <=> meant(t)

(* The schemas that target-info.json and the documents have for a type.     *)
OwnSchemas(t) ==
  ({project.infoFile.types[t]} \cap Versions) \cup
  {v \in Versions : \E i \in DOMAIN Documents :
                     Contains(Documents[i].types, [name |-> t, schema |-> v])}

(* The schema of a type is the one that the project or the command line     *)
(* has for it, whatever the registry says, and a load never chooses between *)
(* two of them; only a load that is not local has others, from the registry *)
(* (load_type_info, load_type_schemas).                                     *)
SchemasAreRight ==
  outcome = "loaded" =>
    \A t \in {x \in Names : info[x] # None} :
      IF OwnSchemas(t) # {} THEN OwnSchemas(t) = {info[t]}
      ELSE ~local /\ (t \notin touched => registry[t].schema = info[t])

(* A hook is packaged with the schemas of all its targets or without target *)
(* info: what an attempt had loaded when it failed is not used, and a       *)
(* target that the hook names is there (_add_hooks_content_to_zip).         *)
PackageIsWhole ==
  pc = "done" =>
    \/ \A t \in Names : info[t] = None
    \/ outcome = "loaded" /\ \A t \in Targets : ContainsWildcard(t) \/ info[t] # None

(* Every load ends, however often the registry changes meanwhile.           *)
LoadEnds == <>(outcome # "none")
=============================================================================
