---------------------------- MODULE ProjectFiles ----------------------------
(***************************************************************************)
(* The files of one project, and the commands that read and write them one *)
(* after the other: init, generate, validate and package.  A command may   *)
(* be interrupted anywhere, also while it writes a file.  The developer    *)
(* edits schemas and fragments before, between and during commands.        *)
(*                                                                         *)
(* A schema is abstracted to its kind and to the permissions its handlers  *)
(* ask for: those of the example, the developer's own, none if it has no   *)
(* handlers, invalid if it does not pass validation.                       *)
(***************************************************************************)
EXTENDS Naturals

CONSTANTS
  Absent,        \* there is no such file
  Partial,       \* the writer was interrupted
  Types,         \* type names of resources and hooks
  Modules,       \* type names of modules
  Names,         \* the commands that are used
  OwnSchemas,    \* the schemas that the developer may write
  MaxCommands,   \* bound on the number of commands
  MaxEdits,      \* bound on the number of edits
  MaxInterrupts  \* bound on the number of interrupts

Handlers == {"RESOURCE", "HOOK"}   \* the artifacts that have handlers
Permissions == {"example", "own", "none", "invalid"}
Schema == [kind : Handlers, permissions : Permissions]
Example(kind) == [kind |-> kind, permissions |-> "example"]

Settings == [artifact : Handlers, type : Types] \cup [artifact : {"MODULE"}, type : Modules]
Fragments == {"sample", "own", "broken"}

Command == [name : Names, force : BOOLEAN]

ASSUME MissingAssumption ==
  /\ Absent # Partial
  /\ {Absent, Partial} \cap (Schema \cup Settings \cup Permissions \cup Fragments) = {}
ASSUME TypesAssumption == Types \cap Modules = {}
ASSUME NamesAssumption ==
  "init" \in Names /\ Names \subseteq {"init", "generate", "validate", "package"}
ASSUME OwnSchemasAssumption ==
  OwnSchemas \subseteq [kind : Handlers, permissions : Permissions \ {"example"}]
ASSUME BoundsAssumption == {MaxCommands, MaxEdits, MaxInterrupts} \subseteq Nat

VARIABLES
  files,    \* what is on disk
  pc,       \* the step the command is at, or "idle"
  cmd,      \* the command that runs, or ran last
  project,  \* the Project object of the command
  exit,     \* its exit code
  edited,   \* whether the developer edited a file while it ran
  used      \* commands, edits and interrupts so far

vars == <<files, pc, cmd, project, exit, edited, used>>

Missing == {Absent, Partial}
Package == [settings : Settings, schema : Schema \cup Missing,
            moduleSchema : Fragments \cup Missing, fragment : Fragments \cup Missing]
ASSUME PackageAssumption == Partial \notin Package
Files ==
  [settings : Settings \cup Missing,               \* .rpdk-config
   schema : [Types -> Schema \cup Missing],        \* the schema file of a type
   inputs : Missing \cup {"example"},              \* example_inputs
   role : [Handlers -> Permissions \cup Missing],  \* resource-role.yaml, hook-role.yaml
   docs : Permissions \cup Missing,                \* docs
   sample : Fragments \cup Missing,                \* fragments/sample.json
   other : {Absent, "own"},                        \* another file in fragments
   moduleSchema : Fragments \cup Missing,          \* schema.json, by its fragment
   zip : [Types \cup Modules -> Package \cup Missing]]

Steps == {"check", "schema", "clearInputs", "inputs", "initPlugin", "settings", "sample",
          "load", "moduleSchema", "role", "targets", "code", "clearDocs", "docs", "open", "zip"}

(* The steps that need a schema in the Project object.                      *)
NeedSchema == {"role", "targets", "code", "clearDocs", "docs"}

TypeOK ==
  /\ files \in Files
  /\ pc \in Steps \cup {"idle"}
  /\ cmd \in Command
  /\ project \in [overwrite : BOOLEAN, local : BOOLEAN, settings : Settings \cup {Absent},
                  schema : Schema \cup Missing]
  /\ pc \in NeedSchema => project.schema \in Schema
  /\ exit \in {"none", "0", "1", "2", "127", "interrupted"}
  /\ edited \in BOOLEAN
  /\ used \in [commands : 0 .. MaxCommands, edits : 0 .. MaxEdits, interrupts : 0 .. MaxInterrupts]

NewProject(force) ==
  [overwrite |-> force, local |-> FALSE, settings |-> Absent, schema |-> Absent]

Init ==
  /\ files = [settings |-> Absent, schema |-> [t \in Types |-> Absent], inputs |-> Absent,
              role |-> [k \in Handlers |-> Absent], docs |-> Absent, sample |-> Absent,
              other |-> Absent, moduleSchema |-> Absent,
              zip |-> [t \in Types \cup Modules |-> Absent]]
  /\ pc = "idle"
  /\ cmd = [name |-> "init", force |-> FALSE]
  /\ project = NewProject(FALSE)
  /\ exit = "none"
  /\ edited = FALSE
  /\ used = [commands |-> 0, edits |-> 0, interrupts |-> 0]

Exit(code) == pc' = "idle" /\ exit' = code
Goto(step) == pc' = step /\ UNCHANGED exit
NoChange == UNCHANGED <<cmd, edited, used>>

Kind == project.settings.artifact
Type == project.settings.type

(* Mutants: files are always overwritten; files that exist never are; a     *)
(* file is only written if it may be overwritten.                           *)
SafewriteAlways(old, new) == new
SafewriteForced(old, new) == IF project.overwrite THEN new ELSE old
SafewriteNever(old, new) == IF old = Absent THEN new ELSE old

(* safewrite leaves a file alone that exists, unless overwriting is allowed. *)
Safewrite(old, new) == IF project.overwrite \/ old = Absent THEN new ELSE old

(* The files after the step has written this content to its file.           *)
Written(step, content) ==
  CASE step = "schema" -> [files EXCEPT !.schema[Type] = Safewrite(@, content)]
    [] step = "inputs" -> [files EXCEPT !.inputs = Safewrite(@, content)]
    [] step = "settings" -> [files EXCEPT !.settings = content]
    [] step = "sample" -> [files EXCEPT !.sample = content]
    [] step = "moduleSchema" -> [files EXCEPT !.moduleSchema = content]
    [] step = "role" -> [files EXCEPT !.role[Kind] = content]
    [] step = "docs" -> [files EXCEPT !.docs = Safewrite(@, content)]
    [] step \in {"open", "zip"} -> [files EXCEPT !.zip[Type] = content]

Writes == {"schema", "inputs", "settings", "sample", "moduleSchema", "role", "docs", "zip"}

-----------------------------------------------------------------------------
(* The developer starts a command.                                          *)
Begin ==
  /\ pc = "idle" /\ used.commands < MaxCommands
  /\ cmd' \in Command
  /\ cmd'.name # "init" => ~cmd'.force
  /\ IF cmd'.name = "init"
     THEN \E s \in Settings : project' = [NewProject(cmd'.force) EXCEPT !.settings = s]
     ELSE project' = NewProject(FALSE)
  /\ pc' = IF cmd'.name = "init" THEN "check" ELSE "load"
  /\ exit' = "none"
  /\ edited' = FALSE
  /\ used' = [used EXCEPT !.commands = @ + 1]
  /\ UNCHANGED files

(* check_for_existing_project: settings that are no JSON end the command    *)
(* even with --force; for settings that load the wizard asks, and           *)
(* overwrites everything if the answer is yes.                              *)
CheckForExistingProject ==
  /\ pc = "check"
  /\ LET first == IF Kind = "MODULE" THEN "settings" ELSE "schema" IN
     \/ files.settings = Absent /\ Goto(first) /\ UNCHANGED project
     \/ files.settings = Partial /\ Exit("1") /\ UNCHANGED project
     \/ /\ files.settings \notin Missing
        /\ \/ project' = [project EXCEPT !.overwrite = TRUE] /\ Goto(first)
           \/ ~cmd.force /\ Exit("1") /\ UNCHANGED project
  /\ UNCHANGED files /\ NoChange

(* Mutant: the command goes on with what is on disk.                        *)
WriteExampleSchemaAndRead ==
  /\ pc = "schema"
  /\ files' = Written(pc, Example(Kind))
  /\ project' = [project EXCEPT !.schema = files'.schema[Type]]
  /\ Goto(IF Kind = "RESOURCE" THEN "clearInputs" ELSE "initPlugin")
  /\ NoChange

(* _write_example_schema, _write_example_hook_schema: the command goes on   *)
(* with the example, whether or not it was written.                         *)
WriteExampleSchema ==
  /\ pc = "schema"
  /\ files' = Written(pc, Example(Kind))
  /\ project' = [project EXCEPT !.schema = Example(Kind)]
  /\ Goto(IF Kind = "RESOURCE" THEN "clearInputs" ELSE "initPlugin")
  /\ NoChange

(* _write_example_inputs, which removes the folder first.                   *)
ClearInputs ==
  /\ pc = "clearInputs"
  /\ files' = [files EXCEPT !.inputs = Absent]
  /\ Goto("inputs")
  /\ UNCHANGED project /\ NoChange

WriteInputs ==
  /\ pc = "inputs"
  /\ files' = Written(pc, "example")
  /\ Goto("initPlugin")
  /\ UNCHANGED project /\ NoChange

(* The plugin writes files of its own, or raises.                           *)
InitPlugin ==
  /\ pc = "initPlugin"
  /\ Goto("settings") \/ Exit("127")
  /\ UNCHANGED <<files, project>> /\ NoChange

(* write_settings: the last file of init, but for modules.                  *)
WriteSettings ==
  /\ pc = "settings"
  /\ files' = Written(pc, project.settings)
  /\ Goto(IF Kind = "MODULE" THEN "sample" ELSE "role")
  /\ UNCHANGED project /\ NoChange

(* generate_sample_fragment                                                 *)
WriteSample ==
  /\ pc = "sample"
  /\ files' = Written(pc, "sample")
  /\ Exit("0")
  /\ UNCHANGED project /\ NoChange

-----------------------------------------------------------------------------
(* Loading a project.                                                       *)

Valid(schema, kind) ==
  schema \notin Missing /\ schema.kind = kind /\ schema.permissions # "invalid"

(* _get_fragment_file: the only file with the extension of a template.      *)
Fragment ==
  IF files.sample = Absent THEN files.other
  ELSE IF files.other = Absent THEN files.sample ELSE Absent

(* validate_fragments; a partial file is no template.                       *)
ValidFragment == Fragment \notin Missing \cup {"broken"}

(* What each command does with a project that is loaded.                    *)
AfterLoad(artifact) ==
  CASE cmd.name = "validate" -> Exit("0")
    [] cmd.name = "generate" /\ artifact = "MODULE" -> Exit("0")
    [] cmd.name = "generate" /\ artifact # "MODULE" -> Goto("role")
    [] cmd.name = "package" -> Goto("open")

(* Nothing catches what a fragment without content raises, and a resource   *)
(* schema that is valid only before its references are inlined.             *)
Load ==
  /\ pc = "load"
  /\ \/ files.settings \in Missing /\ Exit("1") /\ UNCHANGED project
     \/ /\ files.settings \notin Missing
        /\ LET s == files.settings
               schema == IF s.artifact = "MODULE" THEN Absent ELSE files.schema[s.type]
           IN
           /\ project' = [project EXCEPT !.settings = s, !.schema = schema]
           /\ \/ s.artifact = "MODULE" /\ ValidFragment /\ Goto("moduleSchema")
              \/ s.artifact = "MODULE" /\ ~ValidFragment /\ Exit("1")
              \/ s.artifact = "MODULE" /\ Fragment = Partial /\ Exit("127")
              \/ s.artifact # "MODULE" /\ Valid(schema, s.artifact) /\ AfterLoad(s.artifact)
              \/ s.artifact # "MODULE" /\ ~Valid(schema, s.artifact) /\ Exit("1")
              \/ s.artifact = "RESOURCE" /\ schema \notin Missing
                 /\ ~Valid(schema, s.artifact) /\ Exit("127")
  /\ UNCHANGED files /\ NoChange

(* Mutant: a module schema that exists is kept.                             *)
WriteModuleSchemaOnce ==
  /\ pc = "moduleSchema"
  /\ files' = IF files.moduleSchema = Absent THEN Written(pc, Fragment) ELSE files
  /\ AfterLoad("MODULE")
  /\ UNCHANGED project /\ NoChange

(* generate_schema reads the fragment again and does not validate it; what  *)
(* it raises nothing catches.                                               *)
WriteModuleSchema ==
  /\ pc = "moduleSchema"
  /\ \/ ~ValidFragment /\ Exit("127") /\ UNCHANGED files
     \/ /\ Fragment \notin Missing
        /\ files' = Written(pc, Fragment)
        /\ AfterLoad("MODULE")
  /\ UNCHANGED project /\ NoChange

-----------------------------------------------------------------------------
(* Project.generate and generate_docs.                                      *)

(* Mutant: a role template that exists is kept.                             *)
WriteRoleOnce ==
  /\ pc = "role"
  /\ IF project.schema.permissions = "none" \/ files.role[Kind] # Absent
     THEN Goto("code") /\ UNCHANGED files
     ELSE Goto("targets") /\ files' = Written(pc, project.schema.permissions)
  /\ UNCHANGED project /\ NoChange

(* Without handlers in the schema there is no role template to write, and   *)
(* no target information to load.                                           *)
WriteRole ==
  /\ pc = "role"
  /\ IF project.schema.permissions = "none"
     THEN Goto("code") /\ UNCHANGED files
     ELSE Goto("targets") /\ files' = Written(pc, project.schema.permissions)
  /\ UNCHANGED project /\ NoChange

(* Mutant: every failure for want of credentials is tried again.            *)
LoadTargetInfoAgain ==
  /\ pc = "targets"
  /\ \/ Goto("code") /\ UNCHANGED project
     \/ /\ Kind = "HOOK"
        /\ IF cmd.name = "init"
           THEN Goto("role") /\ project' = [project EXCEPT !.local = TRUE]
           ELSE Exit("1") /\ UNCHANGED project
  /\ UNCHANGED files /\ NoChange

(* _load_target_info, for hooks only: it may fail, for want of credentials  *)
(* or otherwise.  In the first case init generates again, from local        *)
(* target information.                                                      *)
LoadTargetInfo ==
  /\ pc = "targets"
  /\ \/ Goto("code") /\ UNCHANGED project
     \/ /\ Kind = "HOOK" /\ ~project.local
        /\ IF cmd.name = "init"
           THEN Goto("role") /\ project' = [project EXCEPT !.local = TRUE]
           ELSE Exit("1") /\ UNCHANGED project
     \/ /\ Kind = "HOOK"
        /\ \E code \in {"1", "2", "127"} : Exit(code)
        /\ UNCHANGED project
  /\ UNCHANGED files /\ NoChange

(* The plugin generates code, or raises.                                    *)
GenerateCode ==
  /\ pc = "code"
  /\ Goto("clearDocs") \/ Exit("127")
  /\ UNCHANGED <<files, project>> /\ NoChange

ClearDocs ==
  /\ pc = "clearDocs"
  /\ files' = [files EXCEPT !.docs = Absent]
  /\ Goto("docs")
  /\ UNCHANGED project /\ NoChange

WriteDocs ==
  /\ pc = "docs"
  /\ files' = Written(pc, project.schema.permissions)
  /\ Exit("0")
  /\ UNCHANGED project /\ NoChange

-----------------------------------------------------------------------------
(* submit --dry-run: the archive is opened and filled; the settings and the *)
(* schema are read from disk again.  A fragment that cannot be found, and   *)
(* a plugin that fails, end the command.                                    *)
OpenPackage ==
  /\ pc = "open"
  /\ files' = Written(pc, Partial)
  /\ Goto("zip")
  /\ UNCHANGED project /\ NoChange

FillPackage ==
  /\ pc = "zip"
  /\ \/ /\ Kind = "MODULE" => Fragment # Absent
        /\ files' = Written(pc,
             IF Kind = "MODULE"
             THEN [settings |-> files.settings, schema |-> Absent,
                   moduleSchema |-> files.moduleSchema, fragment |-> Fragment]
             ELSE [settings |-> files.settings, schema |-> files.schema[Type],
                   moduleSchema |-> Absent, fragment |-> Absent])
        /\ Exit("0")
     \/ /\ Kind = "MODULE" => Fragment = Absent
        /\ Exit("127")
        /\ UNCHANGED files
  /\ UNCHANGED project /\ NoChange

-----------------------------------------------------------------------------
(* Ctrl-C, or a full disk: the file that is being written stays partial.    *)
Interrupt ==
  /\ pc # "idle" /\ used.interrupts < MaxInterrupts
  /\ \/ UNCHANGED files
     \/ pc \in Writes /\ files' = Written(pc, Partial)
  /\ Exit("interrupted")
  /\ used' = [used EXCEPT !.interrupts = @ + 1]
  /\ UNCHANGED <<cmd, project, edited>>

(* The developer writes a schema, or writes or removes a fragment.          *)
Edit ==
  /\ used.edits < MaxEdits
  /\ \/ \E t \in Types, s \in OwnSchemas : files' = [files EXCEPT !.schema[t] = s]
     \/ \E f \in {"own", "broken", Absent} : files' = [files EXCEPT !.sample = f]
     \/ \E f \in {"own", Absent} : files' = [files EXCEPT !.other = f]
  /\ edited' = TRUE
  /\ used' = [used EXCEPT !.edits = @ + 1]
  /\ UNCHANGED <<pc, cmd, project, exit>>

Step ==
  \/ CheckForExistingProject
  \/ WriteExampleSchema \/ ClearInputs \/ WriteInputs \/ InitPlugin \/ WriteSettings \/ WriteSample
  \/ Load \/ WriteModuleSchema
  \/ WriteRole \/ LoadTargetInfo \/ GenerateCode \/ ClearDocs \/ WriteDocs
  \/ OpenPackage \/ FillPackage

Next == Begin \/ Step \/ Interrupt \/ Edit

Spec == Init /\ [][Next]_vars

(* A command that runs goes on; nobody need start one.                      *)
FairSpec == Spec /\ WF_vars(Step)

-----------------------------------------------------------------------------
(* Correctness.                                                             *)

(* A schema that the developer wrote is changed by nobody else, unless      *)
(* --force or an answer in the wizard allows it (safewrite,                 *)
(* check_for_existing_project).                                             *)
SchemaIsKept ==
  [][\A t \in Types :
       files.schema[t] \notin Missing \cup {Example(k) : k \in Handlers}
       /\ files'.schema[t] # files.schema[t]
       => used'.edits > used.edits \/ (cmd.name = "init" /\ project.overwrite)]_vars

(* Whatever was interrupted, the settings of a resource or a hook never     *)
(* name a type that has no schema file (Project.init, init_hook).           *)
SettingsComeLast ==
  files.settings \notin Missing /\ files.settings.artifact # "MODULE" =>
    files.schema[files.settings.type] # Absent

(* The project on disk would be loaded.                                     *)
Loads ==
  /\ files.settings \notin Missing
  /\ IF files.settings.artifact = "MODULE" THEN ValidFragment
     ELSE Valid(files.schema[files.settings.type], files.settings.artifact)

Undisturbed(name) == pc = "idle" /\ exit = "0" /\ cmd.name = name /\ ~edited

(* An init of a resource or a hook that may overwrite repairs whatever      *)
(* interrupted commands and edits left: the project loads, and what was     *)
(* generated belongs to the schema on disk (init_resource, init_hook).      *)
OverwritingInitRepairs ==
  Undisturbed("init") /\ project.overwrite /\ Kind # "MODULE" =>
    /\ Loads
    /\ files.settings = project.settings
    /\ {files.role[Kind], files.docs} = {files.schema[Type].permissions}

(* After generate the role template and the docs are those of the schema,   *)
(* if it has handlers (Project.generate, generate_docs).                    *)
GeneratedFilesFollow ==
  Undisturbed("generate") /\ Kind # "MODULE" =>
    /\ files.docs = files.schema[Type].permissions
    /\ files.schema[Type].permissions # "none" =>
         files.role[Kind] = files.schema[Type].permissions

(* A package that was made holds the settings and a valid schema; that of a *)
(* module was made from the fragment that is in the package (submit).       *)
PackageIsConsistent ==
  Undisturbed("package") =>
    LET package == files.zip[Type] IN
    /\ package # Partial /\ package.settings = files.settings
    /\ IF Kind = "MODULE" THEN package.moduleSchema = package.fragment
       ELSE Valid(package.schema, Kind)

(* Every command ends, whatever fails (the retry in init_hook).             *)
CommandEnds == pc # "idle" ~> pc = "idle"
=============================================================================
