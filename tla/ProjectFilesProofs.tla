------------------------- MODULE ProjectFilesProofs -------------------------
(***************************************************************************)
(* Theorems about ProjectFiles, for any types, any sequence of commands,   *)
(* edits and interrupts.                                                   *)
(***************************************************************************)
EXTENDS ProjectFiles, TLAPS

LEMMA MissingFacts ==
  /\ Absent # Partial
  /\ \A k \in Handlers : Example(k) \in Schema
  /\ \A s \in OwnSchemas : s \in Schema
  /\ \A s \in Schema \cup Settings : s \notin Missing
<1>1. \A k \in Handlers : Example(k) \in Schema
  BY DEF Example, Schema, Permissions
<1>2. \A s \in OwnSchemas : s \in Schema
  BY OwnSchemasAssumption DEF Schema
<1> QED BY <1>1, <1>2, MissingAssumption DEF Missing

LEMMA SettingsFacts ==
  ASSUME NEW s \in Settings
  PROVE  /\ s.artifact \in Handlers \cup {"MODULE"} /\ "MODULE" \notin Handlers
         /\ s.artifact # "MODULE" => s.artifact \in Handlers /\ s.type \in Types
         /\ s.artifact = "MODULE" => s.type \in Modules
  BY DEF Settings, Handlers

(* What a command writes, file by file.                                     *)
LEMMA WrittenIs ==
  \A c :
    /\ Written("schema", c) = [files EXCEPT !.schema[Type] = Safewrite(@, c)]
    /\ Written("inputs", c) = [files EXCEPT !.inputs = Safewrite(@, c)]
    /\ Written("settings", c) = [files EXCEPT !.settings = c]
    /\ Written("sample", c) = [files EXCEPT !.sample = c]
    /\ Written("moduleSchema", c) = [files EXCEPT !.moduleSchema = c]
    /\ Written("role", c) = [files EXCEPT !.role[Kind] = c]
    /\ Written("docs", c) = [files EXCEPT !.docs = Safewrite(@, c)]
    /\ Written("open", c) = [files EXCEPT !.zip[Type] = c]
    /\ Written("zip", c) = [files EXCEPT !.zip[Type] = c]
  BY DEF Written

-----------------------------------------------------------------------------
(* Types.                                                                   *)

(* The settings in the Project object, once a step depends on them.         *)
ProjectInv ==
  /\ pc \notin {"idle", "load"} => project.settings \in Settings
  /\ pc \in NeedSchema \cup {"schema", "clearInputs", "inputs"} => Kind # "MODULE"
  /\ pc \in {"initPlugin"} => Kind # "MODULE" /\ project.schema \in Schema
  /\ pc \in {"clearInputs", "inputs"} => project.schema \in Schema
  /\ pc = "settings" /\ Kind # "MODULE" => project.schema \in Schema
  /\ pc \in {"sample", "moduleSchema"} => Kind = "MODULE"
  /\ pc \in {"load", "moduleSchema"} => cmd.name # "init"
  /\ pc \in {"moduleSchema", "open", "zip"} => files.settings \in Settings

TypeInv == TypeOK /\ ProjectInv

LEMMA InitType == Init => TypeInv
<1> SUFFICES ASSUME Init PROVE TypeInv
  OBVIOUS
<1>1. files \in Files
  BY DEF Init, Files, Missing
<1>2. cmd \in Command
  BY NamesAssumption DEF Init, Command
<1>3. used \in [commands : 0 .. MaxCommands, edits : 0 .. MaxEdits, interrupts : 0 .. MaxInterrupts]
  BY BoundsAssumption DEF Init
<1>4. project \in [overwrite : BOOLEAN, local : BOOLEAN, settings : Settings \cup {Absent},
                   schema : Schema \cup Missing]
  BY DEF Init, NewProject, Missing
<1>5. /\ pc = "idle" /\ exit = "none" /\ edited = FALSE
  BY DEF Init
<1> QED BY <1>1, <1>2, <1>3, <1>4, <1>5 DEF TypeInv, TypeOK, ProjectInv, NeedSchema

(* A write of content of the right type keeps the type of the files.        *)
LEMMA WrittenType ==
  ASSUME TypeInv, NEW c
  PROVE  /\ pc = "schema" /\ c \in Schema \cup Missing => Written("schema", c) \in Files
         /\ c \in Missing \cup {"example"} => Written("inputs", c) \in Files
         /\ c \in Settings \cup Missing => Written("settings", c) \in Files
         /\ c \in Fragments \cup Missing => Written("sample", c) \in Files
         /\ c \in Fragments \cup Missing => Written("moduleSchema", c) \in Files
         /\ pc = "role" /\ c \in Permissions \cup Missing => Written("role", c) \in Files
         /\ c \in Permissions \cup Missing => Written("docs", c) \in Files
         /\ pc \in {"open", "zip"} /\ c \in Package \cup Missing => Written(pc, c) \in Files
<1> USE WrittenIs DEF TypeInv, TypeOK
<1>1. pc = "schema" /\ c \in Schema \cup Missing => Written("schema", c) \in Files
  BY SettingsFacts DEF ProjectInv, Files, Safewrite
<1>2. c \in Missing \cup {"example"} => Written("inputs", c) \in Files
  BY DEF Files, Safewrite
<1>3. c \in Settings \cup Missing => Written("settings", c) \in Files
  BY DEF Files
<1>4. c \in Fragments \cup Missing =>
        Written("sample", c) \in Files /\ Written("moduleSchema", c) \in Files
  BY DEF Files
<1>5. pc = "role" /\ c \in Permissions \cup Missing => Written("role", c) \in Files
  BY SettingsFacts DEF ProjectInv, NeedSchema, Files
<1>6. c \in Permissions \cup Missing => Written("docs", c) \in Files
  BY DEF Files, Safewrite
<1>7. pc \in {"open", "zip"} /\ c \in Package \cup Missing => Written(pc, c) \in Files
  BY SettingsFacts DEF ProjectInv, Files
<1> QED BY <1>1, <1>2, <1>3, <1>4, <1>5, <1>6, <1>7

(* What every step of a command keeps; pc and exit are left to each action. *)
LEMMA StepType ==
  ASSUME TypeInv, NoChange, files' \in Files,
         pc' \in Steps \cup {"idle"}, exit' \in {"none", "0", "1", "2", "127", "interrupted"},
         project' \in [overwrite : BOOLEAN, local : BOOLEAN, settings : Settings \cup {Absent},
                       schema : Schema \cup Missing],
         pc' \in NeedSchema => project'.schema \in Schema
  PROVE  TypeOK'
  BY DEF TypeInv, TypeOK, NoChange

LEMMA BeginType == TypeInv /\ Begin => TypeInv'
<1> SUFFICES ASSUME TypeInv, Begin PROVE TypeInv'
  OBVIOUS
<1>1. /\ cmd' \in Command /\ pc' \in {"check", "load"} /\ exit' = "none" /\ edited' = FALSE
      /\ UNCHANGED files
  BY DEF Begin
<1>2. used' \in [commands : 0 .. MaxCommands, edits : 0 .. MaxEdits, interrupts : 0 .. MaxInterrupts]
  BY BoundsAssumption DEF Begin, TypeInv, TypeOK
<1>3. /\ project' \in [overwrite : BOOLEAN, local : BOOLEAN, settings : Settings \cup {Absent},
                        schema : Schema \cup Missing]
      /\ pc' # "load" => project'.settings \in Settings
  <2>1. cmd'.force \in BOOLEAN
    BY <1>1 DEF Command
  <2>2. CASE cmd'.name = "init"
    <3>1. PICK s \in Settings : project' = [NewProject(cmd'.force) EXCEPT !.settings = s]
      BY <2>2 DEF Begin
    <3>2. project' = [overwrite |-> cmd'.force, local |-> FALSE, settings |-> s, schema |-> Absent]
      BY <3>1 DEF NewProject
    <3> QED BY <2>1, <3>2 DEF Missing
  <2>3. CASE cmd'.name # "init"
    <3>1. pc' = "load" /\ project' = NewProject(FALSE)
      BY <2>3 DEF Begin
    <3> QED BY <3>1 DEF NewProject, Missing
  <2> QED BY <2>2, <2>3
<1>4. TypeOK'
  BY <1>1, <1>2, <1>3 DEF TypeInv, TypeOK, Steps, NeedSchema
<1>5. ProjectInv'
  BY <1>1, <1>3 DEF Begin, ProjectInv, NeedSchema, Kind
<1> QED BY <1>4, <1>5 DEF TypeInv

LEMMA CheckForExistingProjectType == TypeInv /\ CheckForExistingProject => TypeInv'
<1> SUFFICES ASSUME TypeInv, CheckForExistingProject PROVE TypeInv'
  OBVIOUS
<1> USE DEF Kind, CheckForExistingProject, Exit, Goto
<1>1. TypeOK'
  BY StepType DEF TypeInv, TypeOK, ProjectInv, Steps, NeedSchema
<1>2. ProjectInv'
  BY DEF TypeInv, TypeOK, ProjectInv, NeedSchema
<1> QED BY <1>1, <1>2 DEF TypeInv

LEMMA InitPluginType == TypeInv /\ InitPlugin => TypeInv'
<1> SUFFICES ASSUME TypeInv, InitPlugin PROVE TypeInv'
  OBVIOUS
<1> USE DEF Kind, InitPlugin, Exit, Goto
<1>1. TypeOK'
  BY StepType DEF TypeInv, TypeOK, ProjectInv, Steps, NeedSchema
<1>2. ProjectInv'
  BY DEF TypeInv, ProjectInv, NeedSchema
<1> QED BY <1>1, <1>2 DEF TypeInv

LEMMA GenerateCodeType == TypeInv /\ GenerateCode => TypeInv'
<1> SUFFICES ASSUME TypeInv, GenerateCode PROVE TypeInv'
  OBVIOUS
<1> USE DEF Kind, GenerateCode, Exit, Goto
<1>1. TypeOK'
  BY StepType DEF TypeInv, TypeOK, ProjectInv, Steps, NeedSchema
<1>2. ProjectInv'
  BY DEF TypeInv, ProjectInv, NeedSchema
<1> QED BY <1>1, <1>2 DEF TypeInv

LEMMA LoadTargetInfoType == TypeInv /\ LoadTargetInfo => TypeInv'
<1> SUFFICES ASSUME TypeInv, LoadTargetInfo PROVE TypeInv'
  OBVIOUS
<1>1. /\ pc = "targets" /\ UNCHANGED files /\ NoChange
      /\ project.settings \in Settings /\ project.schema \in Schema /\ Kind # "MODULE"
  BY DEF LoadTargetInfo, TypeInv, TypeOK, ProjectInv, NeedSchema
<1>2. /\ pc' \in {"code", "role", "idle"}
      /\ exit' \in {exit, "1", "2", "127"}
  BY DEF LoadTargetInfo, Exit, Goto
<1>3. project' = project \/ project' = [project EXCEPT !.local = TRUE]
  BY DEF LoadTargetInfo
<1>4. /\ project' \in [overwrite : BOOLEAN, local : BOOLEAN, settings : Settings \cup {Absent},
                       schema : Schema \cup Missing]
      /\ project'.settings = project.settings /\ project'.schema = project.schema
  BY <1>3 DEF TypeInv, TypeOK
<1>5. TypeOK'
  BY <1>1, <1>2, <1>4, StepType DEF TypeInv, TypeOK, Steps
<1>6. ProjectInv'
  BY <1>1, <1>2, <1>4 DEF ProjectInv, Kind
<1> QED BY <1>5, <1>6 DEF TypeInv

LEMMA WriteExampleSchemaType == TypeInv /\ WriteExampleSchema => TypeInv'
<1> SUFFICES ASSUME TypeInv, WriteExampleSchema PROVE TypeInv'
  OBVIOUS
<1> USE DEF Kind, WriteExampleSchema, Exit, Goto
<1>1. files' \in Files
  BY WrittenType, MissingFacts, SettingsFacts DEF TypeInv, ProjectInv, TypeOK, NeedSchema, Schema, Missing, Fragments
<1>2. TypeOK'
  BY <1>1, StepType, MissingFacts, SettingsFacts DEF TypeInv, TypeOK, ProjectInv, Steps, NeedSchema
<1>3. ProjectInv'
  BY MissingFacts, SettingsFacts DEF TypeInv, ProjectInv, NeedSchema
<1> QED BY <1>2, <1>3 DEF TypeInv

LEMMA WriteInputsType == TypeInv /\ WriteInputs => TypeInv'
<1> SUFFICES ASSUME TypeInv, WriteInputs PROVE TypeInv'
  OBVIOUS
<1> USE DEF Kind, WriteInputs, Exit, Goto
<1>1. files' \in Files
  BY WrittenType, MissingFacts, SettingsFacts DEF TypeInv, ProjectInv, TypeOK, NeedSchema, Schema, Missing, Fragments
<1>2. TypeOK'
  BY <1>1, StepType, MissingFacts, SettingsFacts DEF TypeInv, TypeOK, ProjectInv, Steps, NeedSchema
<1>3. ProjectInv'
  BY MissingFacts, SettingsFacts DEF TypeInv, ProjectInv, NeedSchema
<1> QED BY <1>2, <1>3 DEF TypeInv

LEMMA WriteSettingsType == TypeInv /\ WriteSettings => TypeInv'
<1> SUFFICES ASSUME TypeInv, WriteSettings PROVE TypeInv'
  OBVIOUS
<1> USE DEF Kind, WriteSettings, Exit, Goto
<1>1. files' \in Files
  BY WrittenType, MissingFacts, SettingsFacts DEF TypeInv, ProjectInv, TypeOK, NeedSchema, Schema, Missing, Fragments
<1>2. TypeOK'
  BY <1>1, StepType, MissingFacts, SettingsFacts DEF TypeInv, TypeOK, ProjectInv, Steps, NeedSchema
<1>3. ProjectInv'
  BY MissingFacts, SettingsFacts DEF TypeInv, ProjectInv, NeedSchema
<1> QED BY <1>2, <1>3 DEF TypeInv

LEMMA WriteSampleType == TypeInv /\ WriteSample => TypeInv'
<1> SUFFICES ASSUME TypeInv, WriteSample PROVE TypeInv'
  OBVIOUS
<1> USE DEF Kind, WriteSample, Exit, Goto
<1>1. files' \in Files
  BY WrittenType, MissingFacts, SettingsFacts DEF TypeInv, ProjectInv, TypeOK, NeedSchema, Schema, Missing, Fragments
<1>2. TypeOK'
  BY <1>1, StepType, MissingFacts, SettingsFacts DEF TypeInv, TypeOK, ProjectInv, Steps, NeedSchema
<1>3. ProjectInv'
  BY MissingFacts, SettingsFacts DEF TypeInv, ProjectInv, NeedSchema
<1> QED BY <1>2, <1>3 DEF TypeInv

LEMMA WriteRoleType == TypeInv /\ WriteRole => TypeInv'
<1> SUFFICES ASSUME TypeInv, WriteRole PROVE TypeInv'
  OBVIOUS
<1> USE DEF Kind, WriteRole, Exit, Goto
<1>1. files' \in Files
  BY WrittenType, MissingFacts, SettingsFacts DEF TypeInv, ProjectInv, TypeOK, NeedSchema, Schema, Missing, Fragments
<1>2. TypeOK'
  BY <1>1, StepType, MissingFacts, SettingsFacts DEF TypeInv, TypeOK, ProjectInv, Steps, NeedSchema
<1>3. ProjectInv'
  BY MissingFacts, SettingsFacts DEF TypeInv, ProjectInv, NeedSchema
<1> QED BY <1>2, <1>3 DEF TypeInv

LEMMA WriteDocsType == TypeInv /\ WriteDocs => TypeInv'
<1> SUFFICES ASSUME TypeInv, WriteDocs PROVE TypeInv'
  OBVIOUS
<1> USE DEF Kind, WriteDocs, Exit, Goto
<1>1. files' \in Files
  BY WrittenType, MissingFacts, SettingsFacts DEF TypeInv, ProjectInv, TypeOK, NeedSchema, Schema, Missing, Fragments
<1>2. TypeOK'
  BY <1>1, StepType, MissingFacts, SettingsFacts DEF TypeInv, TypeOK, ProjectInv, Steps, NeedSchema
<1>3. ProjectInv'
  BY MissingFacts, SettingsFacts DEF TypeInv, ProjectInv, NeedSchema
<1> QED BY <1>2, <1>3 DEF TypeInv

LEMMA ClearInputsType == TypeInv /\ ClearInputs => TypeInv'
<1> SUFFICES ASSUME TypeInv, ClearInputs PROVE TypeInv'
  OBVIOUS
<1> USE DEF Kind, ClearInputs, Exit, Goto
<1>1. files' \in Files
  BY DEF TypeInv, TypeOK, Files, Missing
<1>2. TypeOK'
  BY <1>1, StepType DEF TypeInv, TypeOK, ProjectInv, Steps, NeedSchema
<1>3. ProjectInv'
  BY DEF TypeInv, ProjectInv, NeedSchema
<1> QED BY <1>2, <1>3 DEF TypeInv

LEMMA ClearDocsType == TypeInv /\ ClearDocs => TypeInv'
<1> SUFFICES ASSUME TypeInv, ClearDocs PROVE TypeInv'
  OBVIOUS
<1> USE DEF Kind, ClearDocs, Exit, Goto
<1>1. files' \in Files
  BY DEF TypeInv, TypeOK, Files, Missing
<1>2. TypeOK'
  BY <1>1, StepType DEF TypeInv, TypeOK, ProjectInv, Steps, NeedSchema
<1>3. ProjectInv'
  BY DEF TypeInv, ProjectInv, NeedSchema
<1> QED BY <1>2, <1>3 DEF TypeInv

(* What a loaded project is used for.                                       *)
LEMMA AfterLoadIs ==
  ASSUME TypeInv, pc \in {"load", "moduleSchema"}, NEW artifact, AfterLoad(artifact)
  PROVE  /\ pc' \in {"idle", "role", "open"}
         /\ exit' \in {"none", "0", "1", "2", "127", "interrupted"}
         /\ pc' = "role" => artifact # "MODULE"
<1>1. cmd.name \in {"generate", "validate", "package"}
  BY NamesAssumption DEF TypeInv, TypeOK, ProjectInv, Command
<1> QED BY <1>1 DEF AfterLoad, Exit, Goto, TypeInv, TypeOK

LEMMA LoadType == TypeInv /\ Load => TypeInv'
<1> SUFFICES ASSUME TypeInv, Load PROVE TypeInv'
  OBVIOUS
<1>1. pc = "load" /\ UNCHANGED files /\ NoChange
  BY DEF Load
<1>2. CASE files.settings \in Missing
  <2>1. pc' = "idle" /\ exit' = "1" /\ UNCHANGED project
    BY <1>2 DEF Load, Exit
  <2>2. TypeOK'
    BY <1>1, <2>1, StepType DEF TypeInv, TypeOK, NeedSchema
  <2> QED BY <2>1, <2>2 DEF TypeInv, ProjectInv, NeedSchema
<1>3. CASE files.settings \notin Missing
  <2> DEFINE s == files.settings
             schema == IF s.artifact = "MODULE" THEN Absent ELSE files.schema[s.type]
  <2>1. s \in Settings
    BY <1>3 DEF TypeInv, TypeOK, Files
  <2>2. schema \in Schema \cup Missing
    BY <2>1, SettingsFacts DEF TypeInv, TypeOK, Files, Missing
  <2>3. /\ project' = [project EXCEPT !.settings = s, !.schema = schema]
        /\ \/ s.artifact = "MODULE" /\ Goto("moduleSchema")
           \/ \E code \in {"1", "127"} : Exit(code)
           \/ s.artifact # "MODULE" /\ Valid(schema, s.artifact) /\ AfterLoad(s.artifact)
    BY <1>3 DEF Load
  <2>4. /\ pc' \in {"idle", "role", "open", "moduleSchema"}
        /\ exit' \in {"none", "0", "1", "2", "127", "interrupted"}
        /\ pc' = "role" => s.artifact # "MODULE" /\ schema \in Schema
        /\ pc' = "moduleSchema" => s.artifact = "MODULE"
    BY <1>1, <2>2, <2>3, AfterLoadIs DEF Goto, Exit, Valid, TypeInv, TypeOK
  <2>5. /\ project' \in [overwrite : BOOLEAN, local : BOOLEAN, settings : Settings \cup {Absent},
                          schema : Schema \cup Missing]
        /\ project'.settings = s /\ project'.schema = schema
    BY <2>1, <2>2, <2>3 DEF TypeInv, TypeOK
  <2> HIDE DEF s, schema
  <2>6. TypeOK'
    BY <1>1, <2>4, <2>5, StepType DEF TypeInv, TypeOK, Steps, NeedSchema
  <2>7. files'.settings = s
    BY <1>1 DEF s
  <2>8. ProjectInv'
    BY <1>1, <2>1, <2>4, <2>5, <2>7 DEF TypeInv, ProjectInv, NeedSchema, Kind, NoChange
  <2> QED BY <2>6, <2>8 DEF TypeInv
<1> QED BY <1>2, <1>3

LEMMA FragmentType == TypeOK => Fragment \in Fragments \cup Missing
  BY DEF TypeOK, Files, Fragment, Fragments, Missing

LEMMA WriteModuleSchemaType == TypeInv /\ WriteModuleSchema => TypeInv'
<1> SUFFICES ASSUME TypeInv, WriteModuleSchema PROVE TypeInv'
  OBVIOUS
<1>1. /\ pc = "moduleSchema" /\ UNCHANGED project /\ NoChange /\ Kind = "MODULE"
      /\ files.settings \in Settings
  BY DEF WriteModuleSchema, TypeInv, ProjectInv
<1>2. /\ pc' \in {"idle", "open"}
      /\ exit' \in {"none", "0", "1", "2", "127", "interrupted"}
  BY <1>1, AfterLoadIs DEF WriteModuleSchema, Exit
<1>3. files' \in Files /\ files'.settings = files.settings
  <2>1. CASE files' = files
    BY <2>1 DEF TypeInv, TypeOK
  <2>2. CASE files' = Written("moduleSchema", Fragment)
    <3>1. files' \in Files
      BY <2>2, WrittenType, FragmentType DEF TypeInv
    <3> QED BY <2>2, <3>1, WrittenIs DEF TypeInv, TypeOK, Files
  <2> QED BY <1>1, <2>1, <2>2 DEF WriteModuleSchema
<1>4. TypeOK'
  BY <1>1, <1>2, <1>3, StepType DEF TypeInv, TypeOK, Steps, NeedSchema
<1>5. ProjectInv'
  BY <1>1, <1>2, <1>3 DEF TypeInv, ProjectInv, NeedSchema
<1> QED BY <1>4, <1>5 DEF TypeInv

LEMMA OpenPackageType == TypeInv /\ OpenPackage => TypeInv'
<1> SUFFICES ASSUME TypeInv, OpenPackage PROVE TypeInv'
  OBVIOUS
<1>1. /\ pc = "open" /\ pc' = "zip" /\ UNCHANGED <<project, exit>> /\ NoChange
      /\ files' = Written("open", Partial)
  BY DEF OpenPackage, Goto
<1>2. files' \in Files /\ files'.settings = files.settings
  <2>1. files' \in Files
    BY <1>1, WrittenType DEF Missing
  <2> QED BY <1>1, <2>1, WrittenIs DEF TypeInv, TypeOK, Files
<1>3. TypeOK'
  BY <1>1, <1>2, StepType DEF TypeInv, TypeOK, Steps, NeedSchema
<1>4. ProjectInv'
  BY <1>1, <1>2 DEF TypeInv, ProjectInv, NeedSchema
<1> QED BY <1>3, <1>4 DEF TypeInv

LEMMA FillPackageType == TypeInv /\ FillPackage => TypeInv'
<1> SUFFICES ASSUME TypeInv, FillPackage PROVE TypeInv'
  OBVIOUS
<1>1. /\ pc = "zip" /\ pc' = "idle" /\ exit' \in {"0", "127"} /\ UNCHANGED project /\ NoChange
  BY DEF FillPackage, Exit
<1>2. files' \in Files
  <2>1. files.settings \in Settings /\ project.settings \in Settings
    BY <1>1 DEF TypeInv, ProjectInv
  <2>2. Fragment \in Fragments \cup Missing /\ files.moduleSchema \in Fragments \cup Missing
    BY FragmentType DEF TypeInv, TypeOK, Files
  <2>3. Kind # "MODULE" => files.schema[Type] \in Schema \cup Missing
    BY <2>1, SettingsFacts DEF TypeInv, TypeOK, Files, Kind, Type
  <2>4. files' = files \/ \E c \in Package : files' = Written("zip", c)
    BY <1>1, <2>1, <2>2, <2>3 DEF FillPackage, Package, Missing
  <2> QED BY <1>1, <2>4, WrittenType DEF TypeInv, TypeOK
<1>3. TypeOK'
  BY <1>1, <1>2, StepType DEF TypeInv, TypeOK, Steps, NeedSchema
<1>4. ProjectInv'
  BY <1>1 DEF ProjectInv, NeedSchema
<1> QED BY <1>3, <1>4 DEF TypeInv

LEMMA InterruptType == TypeInv /\ Interrupt => TypeInv'
<1> SUFFICES ASSUME TypeInv, Interrupt PROVE TypeInv'
  OBVIOUS
<1>1. pc' = "idle" /\ exit' = "interrupted" /\ UNCHANGED <<cmd, project, edited>>
  BY DEF Interrupt, Exit
<1>2. files' \in Files
  <2>1. files' = files \/ (pc \in Writes /\ files' = Written(pc, Partial))
    BY DEF Interrupt
  <2> QED BY <2>1, WrittenType DEF TypeInv, TypeOK, Writes, Missing
<1>3. used' \in [commands : 0 .. MaxCommands, edits : 0 .. MaxEdits, interrupts : 0 .. MaxInterrupts]
  BY BoundsAssumption DEF Interrupt, TypeInv, TypeOK
<1>4. TypeOK'
  BY <1>1, <1>2, <1>3 DEF TypeInv, TypeOK, NeedSchema
<1>5. ProjectInv'
  BY <1>1 DEF ProjectInv, NeedSchema
<1> QED BY <1>4, <1>5 DEF TypeInv

LEMMA EditType == TypeInv /\ Edit => TypeInv'
<1> SUFFICES ASSUME TypeInv, Edit PROVE TypeInv'
  OBVIOUS
<1>1. edited' = TRUE /\ UNCHANGED <<pc, cmd, project, exit>>
  BY DEF Edit
<1>2. files' \in Files /\ files'.settings = files.settings
  BY MissingFacts DEF Edit, TypeInv, TypeOK, Files, Fragments, Missing
<1>3. used' \in [commands : 0 .. MaxCommands, edits : 0 .. MaxEdits, interrupts : 0 .. MaxInterrupts]
  BY BoundsAssumption DEF Edit, TypeInv, TypeOK
<1>4. TypeOK'
  BY <1>1, <1>2, <1>3 DEF TypeInv, TypeOK
<1>5. ProjectInv'
  BY <1>1, <1>2 DEF TypeInv, ProjectInv, Kind
<1> QED BY <1>4, <1>5 DEF TypeInv

LEMMA NextType == TypeInv /\ [Next]_vars => TypeInv'
<1>1. TypeInv /\ UNCHANGED vars => TypeInv'
  BY DEF vars, TypeInv, TypeOK, ProjectInv, Kind
<1> QED
  BY <1>1, BeginType, CheckForExistingProjectType, WriteExampleSchemaType, ClearInputsType,
     WriteInputsType, InitPluginType, WriteSettingsType, WriteSampleType, LoadType,
     WriteModuleSchemaType, WriteRoleType, LoadTargetInfoType, GenerateCodeType, ClearDocsType,
     WriteDocsType, OpenPackageType, FillPackageType, InterruptType, EditType
  DEF Next, Step

LEMMA TypeInvariant == Spec => []TypeInv
  BY InitType, NextType, PTL DEF Spec

(* Whatever is interrupted and edited, every file, and the Project object   *)
(* of a command, keeps its type (Project).                                  *)
THEOREM TypeCorrect == Spec => []TypeOK
  BY TypeInvariant, PTL DEF TypeInv

-----------------------------------------------------------------------------
(* The schema files.                                                        *)

LEMMA ExampleIs ==
  \A k \in Handlers : Example(k) \in Schema /\ Example(k) # Absent
  BY MissingFacts DEF Missing

(* Only an init writes a schema file, and only of its own type.             *)
LEMMA OtherWrites ==
  ASSUME TypeInv, NEW step \in Writes \cup {"open"}, step # "schema", NEW c
  PROVE  Written(step, c).schema = files.schema
<1>1. files = [settings |-> files.settings, schema |-> files.schema, inputs |-> files.inputs,
               role |-> files.role, docs |-> files.docs, sample |-> files.sample,
               other |-> files.other, moduleSchema |-> files.moduleSchema, zip |-> files.zip]
  BY DEF TypeInv, TypeOK, Files
<1> HIDE DEF Written
<1>2. step \in {"inputs", "settings", "sample", "moduleSchema", "role", "docs", "open", "zip"}
  BY DEF Writes
<1> QED BY <1>1, <1>2, WrittenIs

LEMMA SchemaChanges ==
  ASSUME TypeInv, [Next]_vars
  PROVE  \/ files'.schema = files.schema
         \/ Edit
         \/ /\ pc = "schema"
            /\ \E c \in Schema \cup {Partial} : files' = Written("schema", c)
<1>1. CASE WriteExampleSchema
  <2>1. pc = "schema" /\ Kind \in Handlers
    BY <1>1, SettingsFacts DEF WriteExampleSchema, TypeInv, ProjectInv, Kind
  <2> QED BY <1>1, <2>1, ExampleIs DEF WriteExampleSchema
<1>2. CASE Interrupt
  BY <1>2, OtherWrites DEF Interrupt
<1>3. CASE ClearInputs \/ ClearDocs
  BY <1>3 DEF ClearInputs, ClearDocs, TypeInv, TypeOK, Files
<1>4. CASE \/ WriteInputs \/ WriteSettings \/ WriteSample \/ WriteModuleSchema \/ WriteRole
           \/ WriteDocs \/ OpenPackage \/ FillPackage
  BY <1>4, OtherWrites
  DEF WriteInputs, WriteSettings, WriteSample, WriteModuleSchema, WriteRole, WriteDocs,
      OpenPackage, FillPackage, Writes
<1>5. CASE \/ Begin \/ CheckForExistingProject \/ InitPlugin \/ Load \/ LoadTargetInfo
           \/ GenerateCode \/ UNCHANGED vars
  BY <1>5 DEF Begin, CheckForExistingProject, InitPlugin, Load, LoadTargetInfo, GenerateCode, vars
<1> QED BY <1>1, <1>2, <1>3, <1>4, <1>5 DEF Next, Step

(* What a write of the schema does to the schema files.                     *)
LEMMA SchemaWrite ==
  ASSUME TypeInv, pc = "schema", NEW c, files' = Written("schema", c), NEW t \in Types
  PROVE  /\ files'.schema[t] \in {files.schema[t], c}
         /\ files'.schema[t] # files.schema[t] => project.overwrite \/ files.schema[t] = Absent
         /\ t = Type => files'.schema[t] = Safewrite(files.schema[t], c)
<1>1. files' = [files EXCEPT !.schema = [files.schema EXCEPT ![Type] = Safewrite(files.schema[Type], c)]]
  BY WrittenIs
<1>2. files'.schema = [files.schema EXCEPT ![Type] = Safewrite(files.schema[Type], c)]
  BY <1>1 DEF TypeInv, TypeOK, Files
<1>3. files'.schema[t] = IF t = Type THEN Safewrite(files.schema[t], c) ELSE files.schema[t]
  BY <1>2 DEF TypeInv, TypeOK, Files
<1> QED BY <1>3 DEF Safewrite

(* A schema file that is there stays there.                                 *)
LEMMA SchemaStays ==
  ASSUME TypeInv, [Next]_vars, NEW t \in Types, files.schema[t] # Absent
  PROVE  files'.schema[t] # Absent
<1>1. CASE Edit
  <2>1. CASE \E u \in Types, s \in OwnSchemas : files' = [files EXCEPT !.schema[u] = s]
    <3>1. PICK u \in Types, s \in OwnSchemas : files' = [files EXCEPT !.schema[u] = s]
      BY <2>1
    <3>2. s # Absent
      BY MissingFacts DEF Missing
    <3>3. files'.schema = [files.schema EXCEPT ![u] = s]
      BY <3>1 DEF TypeInv, TypeOK, Files
    <3> QED BY <3>2, <3>3 DEF TypeInv, TypeOK, Files
  <2>2. CASE \E f : files' = [files EXCEPT !.sample = f] \/ files' = [files EXCEPT !.other = f]
    BY <2>2 DEF TypeInv, TypeOK, Files
  <2> QED BY <1>1, <2>1, <2>2 DEF Edit
<1>2. CASE pc = "schema" /\ \E c \in Schema \cup {Partial} : files' = Written("schema", c)
  BY <1>2, SchemaWrite, MissingFacts DEF Missing
<1> QED BY <1>1, <1>2, SchemaChanges

-----------------------------------------------------------------------------
(* Settings come last.                                                      *)

(* Once init has dealt with the schema file, there is one.                  *)
SchemaThere ==
  pc \in {"clearInputs", "inputs", "initPlugin", "settings"} /\ Kind # "MODULE" =>
    files.schema[Type] # Absent

(* How a step reaches these places.                                         *)
LEMMA SchemaDone ==
  ASSUME TypeInv, [Next]_vars, pc' \in {"clearInputs", "inputs", "initPlugin", "settings"},
         Kind' # "MODULE"
  PROVE  /\ project'.settings = project.settings /\ project.settings \in Settings
         /\ \/ pc \in {"clearInputs", "inputs", "initPlugin", "settings"}
            \/ WriteExampleSchema
<1> USE DEF Exit, Goto
<1>1. CASE Begin \/ CheckForExistingProject
  BY <1>1 DEF Begin, CheckForExistingProject, Kind, TypeInv, TypeOK
<1>2. CASE WriteExampleSchema
  BY <1>2 DEF WriteExampleSchema, TypeInv, TypeOK, ProjectInv
<1>3. CASE \/ ClearInputs \/ WriteInputs \/ InitPlugin
  BY <1>3 DEF ClearInputs, WriteInputs, InitPlugin, TypeInv, ProjectInv
<1>4. CASE \/ WriteSettings \/ WriteSample \/ WriteRole \/ LoadTargetInfo \/ GenerateCode
           \/ ClearDocs \/ WriteDocs \/ OpenPackage \/ FillPackage \/ Interrupt
  BY <1>4 DEF WriteSettings, WriteSample, WriteRole, LoadTargetInfo, GenerateCode, ClearDocs,
              WriteDocs, OpenPackage, FillPackage, Interrupt
<1>5. CASE Load \/ WriteModuleSchema
  <2>1. pc \in {"load", "moduleSchema"}
    BY <1>5 DEF Load, WriteModuleSchema
  <2>2. pc' \in {"moduleSchema", "idle", "role", "open"}
    BY <1>5, <2>1, AfterLoadIs DEF Load, WriteModuleSchema
  <2> QED BY <2>2
<1>6. CASE Edit \/ UNCHANGED vars
  BY <1>6 DEF Edit, vars, TypeInv, ProjectInv
<1> QED BY <1>1, <1>2, <1>3, <1>4, <1>5, <1>6 DEF Next, Step

LEMMA SchemaThereNext == TypeInv /\ SchemaThere /\ [Next]_vars => SchemaThere'
<1> SUFFICES ASSUME TypeInv, SchemaThere, [Next]_vars,
                    pc' \in {"clearInputs", "inputs", "initPlugin", "settings"},
                    Kind' # "MODULE"
             PROVE  files'.schema[Type'] # Absent
  BY DEF SchemaThere
<1>1. Type' = Type /\ Kind = Kind' /\ Type \in Types
  BY SchemaDone, SettingsFacts DEF Type, Kind
<1>2. CASE pc \in {"clearInputs", "inputs", "initPlugin", "settings"}
  BY <1>1, <1>2, SchemaStays DEF SchemaThere
<1>3. CASE WriteExampleSchema
  <2>1. pc = "schema" /\ files' = Written("schema", Example(Kind)) /\ Kind \in Handlers
    BY <1>3, SettingsFacts, SchemaDone, <1>1 DEF WriteExampleSchema, Kind
  <2>2. files'.schema[Type] = Safewrite(files.schema[Type], Example(Kind))
    BY <1>1, <2>1, SchemaWrite
  <2> QED BY <1>1, <2>1, <2>2, ExampleIs DEF Safewrite
<1> QED BY <1>2, <1>3, SchemaDone

(* Only an init writes the settings.                                        *)
LEMMA SettingsChange ==
  ASSUME TypeInv, [Next]_vars
  PROVE  \/ files'.settings \in {files.settings, Partial}
         \/ pc = "settings" /\ files'.settings = project.settings
<1>0. files = [settings |-> files.settings, schema |-> files.schema, inputs |-> files.inputs,
               role |-> files.role, docs |-> files.docs, sample |-> files.sample,
               other |-> files.other, moduleSchema |-> files.moduleSchema, zip |-> files.zip]
  BY DEF TypeInv, TypeOK, Files
<1>1. \A step \in Writes \cup {"open"} : \A c :
        Written(step, c).settings = IF step = "settings" THEN c ELSE files.settings
  <2> HIDE DEF Written
  <2> TAKE step \in Writes \cup {"open"}
  <2> TAKE c
  <2>1. step \in {"schema", "inputs", "settings", "sample", "moduleSchema", "role", "docs",
                  "open", "zip"}
    BY DEF Writes
  <2> QED BY <1>0, <2>1, WrittenIs
<1>2. CASE \/ WriteExampleSchema \/ WriteInputs \/ WriteSettings \/ WriteSample
           \/ WriteModuleSchema \/ WriteRole \/ WriteDocs \/ OpenPackage \/ FillPackage
           \/ Interrupt
  BY <1>1, <1>2
  DEF WriteExampleSchema, WriteInputs, WriteSettings, WriteSample, WriteModuleSchema, WriteRole,
      WriteDocs, OpenPackage, FillPackage, Interrupt, Writes
<1>3. CASE ClearInputs \/ ClearDocs \/ Edit
  BY <1>0, <1>3 DEF ClearInputs, ClearDocs, Edit
<1>4. CASE \/ Begin \/ CheckForExistingProject \/ InitPlugin \/ Load \/ LoadTargetInfo
           \/ GenerateCode \/ UNCHANGED vars
  BY <1>4 DEF Begin, CheckForExistingProject, InitPlugin, Load, LoadTargetInfo, GenerateCode, vars
<1> QED BY <1>2, <1>3, <1>4 DEF Next, Step

SettingsInv == TypeInv /\ SchemaThere /\ SettingsComeLast

LEMMA SettingsNext == SettingsInv /\ [Next]_vars => SettingsInv'
<1> SUFFICES ASSUME SettingsInv, [Next]_vars PROVE SettingsInv'
  OBVIOUS
<1>1. TypeInv' /\ SchemaThere'
  BY NextType, SchemaThereNext DEF SettingsInv
<1>2. SettingsComeLast'
  <2> SUFFICES ASSUME files'.settings \notin Missing, files'.settings.artifact # "MODULE"
               PROVE  files'.schema[files'.settings.type] # Absent
    BY DEF SettingsComeLast
  <2>1. files'.settings \in Settings /\ files'.settings.type \in Types
    BY <1>1, SettingsFacts DEF TypeInv, TypeOK, Files
  <2>2. files.schema[files'.settings.type] # Absent
    <3>1. CASE files'.settings = files.settings
      BY <3>1 DEF SettingsInv, SettingsComeLast
    <3>2. CASE pc = "settings" /\ files'.settings = project.settings
      BY <3>2 DEF SettingsInv, SchemaThere, Kind, Type
    <3> QED BY <3>1, <3>2, SettingsChange DEF SettingsInv, Missing
  <2> QED BY <2>1, <2>2, SchemaStays DEF SettingsInv
<1> QED BY <1>1, <1>2 DEF SettingsInv

(* Whatever is interrupted, the settings of a resource or a hook never name *)
(* a type that has no schema file (Project.init, init_hook).                *)
THEOREM SettingsCorrect == Spec => []SettingsComeLast
<1>1. Init => SettingsInv
  BY InitType, MissingAssumption DEF Init, SettingsInv, SchemaThere, SettingsComeLast, Missing
<1>2. SettingsInv => SettingsComeLast
  BY DEF SettingsInv
<1> QED BY <1>1, <1>2, SettingsNext, PTL DEF Spec

-----------------------------------------------------------------------------
(* A schema is kept.                                                        *)

(* An init comes to its schema file with its own command.                   *)
InitRuns == pc \in {"check", "schema"} => cmd.name = "init"

LEMMA InitRunsNext == TypeInv /\ InitRuns /\ [Next]_vars => InitRuns'
<1> SUFFICES ASSUME TypeInv, InitRuns, [Next]_vars PROVE InitRuns'
  OBVIOUS
<1> USE DEF InitRuns, Exit, Goto, NoChange
<1>1. CASE Begin \/ CheckForExistingProject
  BY <1>1 DEF Begin, CheckForExistingProject
<1>2. CASE \/ WriteExampleSchema \/ ClearInputs \/ WriteInputs \/ InitPlugin \/ WriteSettings
           \/ WriteSample
  BY <1>2 DEF WriteExampleSchema, ClearInputs, WriteInputs, InitPlugin, WriteSettings, WriteSample
<1>3. CASE \/ WriteRole \/ LoadTargetInfo \/ GenerateCode \/ ClearDocs \/ WriteDocs
           \/ OpenPackage \/ FillPackage \/ Interrupt
  BY <1>3 DEF WriteRole, LoadTargetInfo, GenerateCode, ClearDocs, WriteDocs, OpenPackage,
              FillPackage, Interrupt
<1>4. CASE Load \/ WriteModuleSchema
  <2>1. pc' \in {"moduleSchema", "idle", "role", "open"}
    BY <1>4, AfterLoadIs DEF Load, WriteModuleSchema
  <2> QED BY <2>1
<1>5. CASE Edit \/ UNCHANGED vars
  BY <1>5 DEF Edit, vars
<1> QED BY <1>1, <1>2, <1>3, <1>4, <1>5 DEF Next, Step

(* A schema that the developer wrote is changed by nobody else, unless      *)
(* --force or an answer in the wizard allows it (safewrite,                 *)
(* check_for_existing_project).                                             *)
THEOREM SchemaCorrect == Spec => SchemaIsKept
<1> DEFINE Kept == \A t \in Types :
       files.schema[t] \notin Missing \cup {Example(k) : k \in Handlers}
       /\ files'.schema[t] # files.schema[t]
       => used'.edits > used.edits \/ (cmd.name = "init" /\ project.overwrite)
<1>1. Init => InitRuns
  BY DEF Init, InitRuns
<1>2. ASSUME TypeInv, InitRuns, [Next]_vars PROVE Kept
  <2> SUFFICES ASSUME NEW t \in Types, files.schema[t] # Absent, files'.schema[t] # files.schema[t]
               PROVE  used'.edits > used.edits \/ (cmd.name = "init" /\ project.overwrite)
    BY DEF Missing
  <2>1. CASE Edit
    <3>1. used.edits \in Nat /\ used'.edits = used.edits + 1
      BY <1>2, <2>1, BoundsAssumption DEF Edit, TypeInv, TypeOK
    <3> QED BY <3>1
  <2>2. CASE pc = "schema" /\ \E c \in Schema \cup {Partial} : files' = Written("schema", c)
    BY <1>2, <2>2, SchemaWrite DEF InitRuns
  <2> QED BY <1>2, <2>1, <2>2, SchemaChanges
<1>3. Spec => [](TypeInv /\ InitRuns)
  BY <1>1, InitType, NextType, InitRunsNext, PTL DEF Spec
<1>4. ASSUME TypeInv, InitRuns, [Next]_vars PROVE [Kept]_vars
  BY <1>2, <1>4
<1> QED BY <1>3, <1>4, PTL DEF Spec, SchemaIsKept

-----------------------------------------------------------------------------
(* What a command has written when it ends.                                 *)

(* What each write changes, and that it changes nothing else.               *)
LEMMA FieldsWritten ==
  ASSUME TypeInv, NEW c
  PROVE  /\ \A step \in {"schema", "inputs", "settings", "sample", "moduleSchema", "role", "docs",
                         "open", "zip"} :
              LET f == Written(step, c) IN
              /\ step # "schema" => f.schema = files.schema
              /\ f.settings = IF step = "settings" THEN c ELSE files.settings
              /\ f.role = IF step = "role" THEN [files.role EXCEPT ![Kind] = c] ELSE files.role
              /\ f.docs = IF step = "docs" THEN Safewrite(files.docs, c) ELSE files.docs
              /\ f.sample = IF step = "sample" THEN c ELSE files.sample
              /\ f.other = files.other
              /\ f.moduleSchema = IF step = "moduleSchema" THEN c ELSE files.moduleSchema
              /\ f.zip = IF step \in {"open", "zip"} THEN [files.zip EXCEPT ![Type] = c] ELSE files.zip
<1>1. files = [settings |-> files.settings, schema |-> files.schema, inputs |-> files.inputs,
               role |-> files.role, docs |-> files.docs, sample |-> files.sample,
               other |-> files.other, moduleSchema |-> files.moduleSchema, zip |-> files.zip]
  BY DEF TypeInv, TypeOK, Files
<1> HIDE DEF Written
<1> QED BY <1>1, WrittenIs

(* Which commands reach which steps.                                        *)
CommandInv ==
  /\ pc \in {"check", "schema", "clearInputs", "inputs", "initPlugin", "settings", "sample"} =>
       cmd.name = "init"
  /\ pc \in {"load", "moduleSchema"} => cmd.name # "init"
  /\ pc \in NeedSchema => cmd.name \in {"init", "generate"}
  /\ pc \in {"open", "zip"} => cmd.name = "package"

LEMMA AfterLoadRuns ==
  ASSUME NEW artifact, AfterLoad(artifact), TypeInv, pc \in {"load", "moduleSchema"}
  PROVE  /\ pc' = "role" => cmd.name = "generate" /\ artifact # "MODULE"
         /\ pc' = "open" => cmd.name = "package"
         /\ pc' = "idle" => cmd.name = "validate" \/ (cmd.name = "generate" /\ artifact = "MODULE")
         /\ pc' \in {"role", "open", "idle"}
<1>1. cmd.name \in {"generate", "validate", "package"}
  BY NamesAssumption DEF TypeInv, TypeOK, ProjectInv, Command
<1> QED BY <1>1 DEF AfterLoad, Exit, Goto

LEMMA CommandNext == TypeInv /\ CommandInv /\ [Next]_vars => CommandInv'
<1> SUFFICES ASSUME TypeInv, CommandInv, [Next]_vars PROVE CommandInv'
  OBVIOUS
<1>1. CASE Load
  <2>1. pc = "load" /\ cmd' = cmd
    BY <1>1 DEF Load, NoChange
  <2>2. \/ pc' = "moduleSchema" \/ pc' = "idle"
        \/ \E artifact : AfterLoad(artifact)
    BY <1>1 DEF Load, Exit, Goto
  <2> QED BY <2>1, <2>2, AfterLoadRuns DEF CommandInv, NeedSchema
<1>2. CASE WriteModuleSchema
  <2>1. pc = "moduleSchema" /\ cmd' = cmd
    BY <1>2 DEF WriteModuleSchema, NoChange
  <2>2. pc' = "idle" \/ AfterLoad("MODULE")
    BY <1>2 DEF WriteModuleSchema, Exit
  <2> QED BY <2>1, <2>2, AfterLoadRuns DEF CommandInv, NeedSchema
<1>3. CASE Begin \/ Interrupt \/ Edit \/ UNCHANGED vars
  BY <1>3 DEF Begin, Interrupt, Edit, vars, CommandInv, NeedSchema, Exit
<1>4. CASE \/ CheckForExistingProject \/ WriteExampleSchema \/ ClearInputs \/ WriteInputs
           \/ InitPlugin \/ WriteSettings \/ WriteSample
  BY <1>4 DEF CheckForExistingProject, WriteExampleSchema, ClearInputs, WriteInputs, InitPlugin,
              WriteSettings, WriteSample, CommandInv, NeedSchema, Exit, Goto, NoChange
<1>5. CASE WriteRole \/ LoadTargetInfo \/ GenerateCode \/ ClearDocs \/ WriteDocs
  BY <1>5 DEF WriteRole, LoadTargetInfo, GenerateCode, ClearDocs, WriteDocs, CommandInv, NeedSchema,
              Exit, Goto, NoChange
<1>6. CASE OpenPackage \/ FillPackage
  BY <1>6 DEF OpenPackage, FillPackage, CommandInv, NeedSchema, Exit, Goto, NoChange
<1> QED BY <1>1, <1>2, <1>3, <1>4, <1>5, <1>6 DEF Next, Step

(* The command goes on, or has succeeded, and the developer edited nothing. *)
Succeeding(name) == ~edited /\ cmd.name = name /\ (pc = "idle" => exit = "0")

Generated == {"targets", "code", "clearDocs", "docs", "idle"}

(* An init that may overwrite, step by step.                                *)
InitDone ==
  /\ project.settings \in Settings /\ Kind \in Handlers /\ Type \in Types
  /\ pc # "schema" => files.schema[Type] = Example(Kind) /\ project.schema = Example(Kind)
  /\ pc \in NeedSchema \cup {"idle"} => files.settings = project.settings
  /\ pc \in Generated => files.role[Kind] = "example"
  /\ pc = "idle" => files.docs = "example"
InitOut ==
  Succeeding("init") /\ project.overwrite = TRUE /\ pc # "check" /\ Kind # "MODULE" => InitDone

(* A generate, from the load on.                                            *)
GenerateOut ==
  Succeeding("generate") /\ pc \notin {"load", "moduleSchema"} /\ Kind # "MODULE" =>
    /\ Kind \in Handlers
    /\ project.schema = files.schema[Type]
    /\ pc \in Generated /\ project.schema.permissions # "none" =>
         files.role[Kind] = project.schema.permissions
    /\ pc = "docs" => files.docs = Absent
    /\ pc = "idle" => files.docs = project.schema.permissions

(* A package, from the load on.                                             *)
PackageOut ==
  Succeeding("package") /\ pc # "load" =>
    /\ project.settings = files.settings
    /\ pc # "idle" => IF Kind = "MODULE"
                      THEN pc = "moduleSchema" \/ files.moduleSchema = Fragment
                      ELSE Valid(files.schema[Type], Kind)
    /\ pc = "idle" =>
         /\ files.zip[Type] # Partial /\ files.zip[Type].settings = files.settings
         /\ IF Kind = "MODULE" THEN files.zip[Type].moduleSchema = files.zip[Type].fragment
            ELSE Valid(files.zip[Type].schema, Kind)

OutInv == InitOut /\ GenerateOut /\ PackageOut

(* Steps after which nothing is claimed, or nothing has changed.            *)
LEMMA OutDisturbed ==
  ASSUME TypeInv, OutInv, Begin \/ Interrupt \/ Edit \/ UNCHANGED vars
  PROVE  OutInv'
<1>1. CASE Begin
  BY <1>1 DEF Begin, OutInv, InitOut, GenerateOut, PackageOut, Succeeding
<1>2. CASE Interrupt
  BY <1>2 DEF Interrupt, Exit, OutInv, InitOut, GenerateOut, PackageOut, Succeeding
<1>3. CASE Edit
  BY <1>3 DEF Edit, OutInv, InitOut, GenerateOut, PackageOut, Succeeding
<1>4. CASE UNCHANGED vars
  BY <1>4 DEF vars, OutInv, InitOut, InitDone, GenerateOut, PackageOut, Succeeding, Kind, Type, Valid, Fragment
<1> QED BY <1>1, <1>2, <1>3, <1>4

(* A command that fails claims nothing.                                     *)
LEMMA OutFailed ==
  ASSUME pc' = "idle", exit' # "0"
  PROVE  OutInv'
BY DEF OutInv, InitOut, GenerateOut, PackageOut, Succeeding

LEMMA OutInit ==
  ASSUME TypeInv, CommandInv, OutInv,
         \/ CheckForExistingProject \/ WriteExampleSchema \/ ClearInputs \/ WriteInputs
         \/ InitPlugin \/ WriteSettings \/ WriteSample
  PROVE  OutInv'
<1>1. cmd.name = "init" /\ cmd' = cmd /\ edited' = edited /\ project'.settings = project.settings
  BY DEF CheckForExistingProject, WriteExampleSchema, ClearInputs, WriteInputs, InitPlugin,
         WriteSettings, WriteSample, NoChange, CommandInv, TypeInv, TypeOK
<1>2. GenerateOut' /\ PackageOut'
  BY <1>1 DEF GenerateOut, PackageOut, Succeeding
<1> SUFFICES ASSUME ~edited, pc' = "idle" => exit' = "0", project'.overwrite = TRUE, pc' # "check",
                    Kind # "MODULE"
             PROVE  InitDone'
  BY <1>1, <1>2 DEF OutInv, InitOut, Succeeding, Kind
<1>3. Kind' = Kind /\ Type' = Type
  BY <1>1 DEF Kind, Type
<1>4. pc \notin {"check", "idle"} /\ project.overwrite = TRUE => InitDone
  BY <1>1 DEF OutInv, InitOut, Succeeding
<1>5. CASE CheckForExistingProject
  <2>1. pc' = "schema" /\ project.settings \in Settings
    BY <1>5 DEF CheckForExistingProject, Exit, Goto, TypeInv, ProjectInv
  <2>2. Kind \in Handlers /\ Type \in Types
    BY <2>1, SettingsFacts DEF Kind, Type
  <2> QED BY <1>1, <1>3, <2>1, <2>2 DEF InitDone, NeedSchema, Generated
<1>6. CASE WriteExampleSchema
  <2>1. /\ pc = "schema" /\ project'.schema = Example(Kind) /\ project.overwrite = TRUE
        /\ files' = Written("schema", Example(Kind)) /\ pc' \in {"clearInputs", "initPlugin"}
    BY <1>6 DEF WriteExampleSchema, Goto, TypeInv, TypeOK
  <2>2. Kind \in Handlers /\ Type \in Types
    BY <1>4, <2>1 DEF InitDone
  <2>3. files'.schema[Type] = Example(Kind)
    BY <2>1, <2>2, SchemaWrite DEF Safewrite
  <2> QED BY <1>1, <1>3, <1>4, <2>1, <2>2, <2>3 DEF InitDone, NeedSchema, Generated
<1>7. CASE ClearInputs \/ WriteInputs \/ InitPlugin
  <2>1. /\ pc \in {"clearInputs", "inputs", "initPlugin"} /\ project' = project
        /\ pc' \in {"inputs", "initPlugin", "settings", "idle"} /\ (pc' = "idle" => exit' = "127")
    BY <1>7 DEF ClearInputs, WriteInputs, InitPlugin, Exit, Goto
  <2>2. files'.schema = files.schema
    <3>1. CASE WriteInputs
      BY <3>1, FieldsWritten DEF WriteInputs
    <3>2. CASE ClearInputs \/ InitPlugin
      BY <3>2 DEF ClearInputs, InitPlugin, TypeInv, TypeOK, Files
    <3> QED BY <1>7, <3>1, <3>2
  <2> QED BY <1>1, <1>3, <1>4, <2>1, <2>2 DEF InitDone, NeedSchema, Generated
<1>8. CASE WriteSettings
  <2>1. /\ pc = "settings" /\ project' = project /\ pc' = "role"
        /\ files' = Written("settings", project.settings)
    BY <1>8 DEF WriteSettings, Goto
  <2>2. files'.schema = files.schema /\ files'.settings = project.settings
    BY <2>1, FieldsWritten
  <2> QED BY <1>1, <1>3, <1>4, <2>1, <2>2 DEF InitDone, NeedSchema, Generated
<1>9. CASE WriteSample
  BY <1>9 DEF WriteSample, TypeInv, ProjectInv
<1> QED BY <1>5, <1>6, <1>7, <1>8, <1>9

(* Project.generate and generate_docs, of either command.                   *)
LEMMA OutGenerate ==
  ASSUME TypeInv, CommandInv, OutInv,
         WriteRole \/ LoadTargetInfo \/ GenerateCode \/ ClearDocs \/ WriteDocs
  PROVE  OutInv'
<1>1. /\ pc \in NeedSchema /\ cmd.name \in {"init", "generate"}
      /\ cmd' = cmd /\ edited' = edited /\ project'.settings = project.settings
      /\ project'.schema = project.schema /\ project'.overwrite = project.overwrite
      /\ project.settings \in Settings /\ Kind \in Handlers /\ Kind # "MODULE" /\ Type \in Types
  <2>1. pc \in NeedSchema
    BY DEF WriteRole, LoadTargetInfo, GenerateCode, ClearDocs, WriteDocs, NeedSchema
  <2>2. project.settings \in Settings /\ Kind # "MODULE"
    BY <2>1 DEF TypeInv, ProjectInv, NeedSchema
  <2> QED
    BY <2>1, <2>2, SettingsFacts
    DEF WriteRole, LoadTargetInfo, GenerateCode, ClearDocs, WriteDocs, NoChange, CommandInv,
        TypeInv, TypeOK, Kind, Type
<1>2. Kind' = Kind /\ Type' = Type /\ PackageOut'
  BY <1>1 DEF Kind, Type, PackageOut, Succeeding
<1>3. /\ files'.schema = files.schema /\ files'.settings = files.settings
      /\ pc # "role" => files'.role = files.role
  <2>1. CASE WriteRole \/ WriteDocs
    <3> DEFINE c == project.schema.permissions
    <3>1. \/ files' = files
          \/ pc = "role" /\ files' = Written("role", c)
          \/ files' = Written("docs", c)
      BY <2>1 DEF WriteRole, WriteDocs
    <3> HIDE DEF c
    <3>2. CASE files' = files
      BY <3>2
    <3>3. CASE pc = "role" /\ files' = Written("role", c)
      <4>1. Written("role", c).schema = files.schema /\ Written("role", c).settings = files.settings
        BY FieldsWritten
      <4> QED BY <3>3, <4>1
    <3>4. CASE files' = Written("docs", c)
      <4>1. /\ Written("docs", c).schema = files.schema
            /\ Written("docs", c).settings = files.settings
            /\ Written("docs", c).role = files.role
        BY FieldsWritten
      <4> QED BY <3>4, <4>1
    <3> QED BY <3>1, <3>2, <3>3, <3>4
  <2>2. CASE LoadTargetInfo \/ GenerateCode \/ ClearDocs
    BY <2>2 DEF LoadTargetInfo, GenerateCode, ClearDocs, TypeInv, TypeOK, Files
  <2> QED BY <2>1, <2>2
<1>4. CASE pc' = "idle" /\ exit' # "0"
  BY <1>4, OutFailed
<1>5. ASSUME ~ (pc' = "idle" /\ exit' # "0"), ~edited
      PROVE  /\ pc' \in NeedSchema \cup {"idle"}
             /\ pc' \in Generated /\ project.schema.permissions # "none" =>
                  \/ pc = "role" /\ files'.role[Kind] = project.schema.permissions
                  \/ pc \in Generated /\ files'.role = files.role
             /\ pc' = "docs" => files'.docs = Absent
             /\ pc' = "idle" => pc = "docs" /\ files'.docs = Safewrite(files.docs, project.schema.permissions)
  <2>1. CASE WriteRole
    <3>1. ASSUME project.schema.permissions # "none"
          PROVE  files'.role[Kind] = project.schema.permissions
      <4>1. files' = Written("role", project.schema.permissions)
        BY <2>1, <3>1 DEF WriteRole
      <4>2. files'.role = [files.role EXCEPT ![Kind] = project.schema.permissions]
        BY <4>1, FieldsWritten
      <4> QED BY <1>1, <4>2 DEF TypeInv, TypeOK, Files
    <3> QED BY <2>1, <3>1 DEF WriteRole, Goto, NeedSchema
  <2>2. CASE LoadTargetInfo
    BY <1>5, <2>2 DEF LoadTargetInfo, Goto, Exit, NeedSchema, Generated
  <2>3. CASE GenerateCode
    BY <1>5, <2>3 DEF GenerateCode, Goto, Exit, NeedSchema, Generated
  <2>4. CASE ClearDocs
    <3>1. files'.docs = Absent
      BY <2>4 DEF ClearDocs, TypeInv, TypeOK, Files
    <3> QED BY <1>3, <2>4, <3>1 DEF ClearDocs, Goto, NeedSchema, Generated
  <2>5. CASE WriteDocs
    <3>1. files'.docs = Safewrite(files.docs, project.schema.permissions)
      BY <2>5, FieldsWritten DEF WriteDocs
    <3> QED BY <1>3, <2>5, <3>1 DEF WriteDocs, Exit, NeedSchema, Generated
  <2> QED BY <2>1, <2>2, <2>3, <2>4, <2>5
<1>6. pc # "idle" /\ pc # "schema" /\ pc # "check" /\ pc \notin {"load", "moduleSchema"}
  BY <1>1 DEF NeedSchema
<1>7. ASSUME ~ (pc' = "idle" /\ exit' # "0") PROVE InitOut'
  <2> SUFFICES ASSUME cmd.name = "init", ~edited, project.overwrite = TRUE
               PROVE  InitOut'
    BY <1>1 DEF InitOut, Succeeding
  <2>1. /\ files.schema[Type] = Example(Kind) /\ project.schema = Example(Kind)
        /\ files.settings = project.settings
        /\ pc \in Generated => files.role[Kind] = "example"
    BY <1>1, <1>6 DEF OutInv, InitOut, InitDone, Succeeding
  <2>2. project.schema.permissions = "example"
    BY <2>1 DEF Example
  <2>3. pc' \in Generated => files'.role[Kind] = "example"
    BY <1>5, <1>7, <2>1, <2>2
  <2>4. pc' = "idle" => files'.docs = "example"
    BY <1>5, <1>7, <2>2 DEF Safewrite
  <2> QED BY <1>1, <1>2, <1>3, <2>1, <2>3, <2>4 DEF InitOut, InitDone
<1>8. ASSUME ~ (pc' = "idle" /\ exit' # "0") PROVE GenerateOut'
  <2> SUFFICES ASSUME cmd.name = "generate", ~edited
               PROVE  GenerateOut'
    BY <1>1 DEF GenerateOut, Succeeding
  <2>1. /\ project.schema = files.schema[Type]
        /\ pc \in Generated /\ project.schema.permissions # "none" =>
             files.role[Kind] = project.schema.permissions
        /\ pc = "docs" => files.docs = Absent
    BY <1>1, <1>6 DEF OutInv, GenerateOut, Succeeding
  <2>2. pc' \in Generated /\ project.schema.permissions # "none" =>
          files'.role[Kind] = project.schema.permissions
    BY <1>5, <1>8, <2>1
  <2>3. /\ pc' = "docs" => files'.docs = Absent
        /\ pc' = "idle" => files'.docs = project.schema.permissions
    BY <1>5, <1>8, <2>1 DEF Safewrite
  <2> QED BY <1>1, <1>2, <1>3, <2>1, <2>2, <2>3 DEF GenerateOut
<1> QED BY <1>2, <1>4, <1>7, <1>8 DEF OutInv

LEMMA OutLoad ==
  ASSUME TypeInv, CommandInv, OutInv, Load
  PROVE  OutInv'
<1>1. pc = "load" /\ cmd.name # "init" /\ cmd' = cmd /\ files' = files
  BY DEF Load, NoChange, CommandInv
<1>2. InitOut'
  BY <1>1 DEF InitOut, Succeeding
<1>3. CASE pc' = "idle" /\ exit' # "0"
  BY <1>3, OutFailed
<1>4. CASE ~ (pc' = "idle" /\ exit' # "0")
  <2> DEFINE s == files.settings
             schema == IF s.artifact = "MODULE" THEN Absent ELSE files.schema[s.type]
  <2>1. /\ s \in Settings
        /\ project' = [project EXCEPT !.settings = s, !.schema = schema]
        /\ \/ s.artifact = "MODULE" /\ pc' = "moduleSchema"
           \/ s.artifact # "MODULE" /\ Valid(schema, s.artifact) /\ AfterLoad(s.artifact)
    BY <1>4 DEF Load, Goto, Exit, TypeInv, TypeOK, Files
  <2>2. project'.settings = s /\ project'.schema = schema
    BY <2>1 DEF TypeInv, TypeOK
  <2>3. Kind' = s.artifact /\ Type' = s.type
    BY <2>2 DEF Kind, Type
  <2>4. CASE s.artifact = "MODULE" /\ pc' = "moduleSchema"
    BY <1>1, <1>2, <2>2, <2>3, <2>4 DEF OutInv, GenerateOut, PackageOut
  <2>5. CASE s.artifact # "MODULE" /\ Valid(schema, s.artifact) /\ AfterLoad(s.artifact)
    <3>1. /\ pc' = "role" => cmd.name = "generate"
          /\ pc' = "open" => cmd.name = "package"
          /\ pc' = "idle" => cmd.name = "validate"
          /\ pc' \in {"role", "open", "idle"}
      BY <1>1, <2>5, AfterLoadRuns
    <3>2. s.artifact \in Handlers /\ schema = files'.schema[Type']
      BY <1>1, <2>1, <2>3, <2>5, SettingsFacts
    <3>3. GenerateOut'
      BY <1>1, <2>2, <2>3, <3>1, <3>2 DEF GenerateOut, Succeeding, Generated
    <3>4. PackageOut'
      BY <1>1, <2>2, <2>3, <2>5, <3>1, <3>2 DEF PackageOut, Succeeding, Valid
    <3> QED BY <1>2, <3>3, <3>4 DEF OutInv
  <2> QED BY <2>1, <2>4, <2>5
<1> QED BY <1>3, <1>4

LEMMA OutModuleSchema ==
  ASSUME TypeInv, CommandInv, OutInv, WriteModuleSchema
  PROVE  OutInv'
<1>1. /\ pc = "moduleSchema" /\ cmd.name # "init" /\ cmd' = cmd /\ edited' = edited
      /\ project' = project /\ Kind = "MODULE" /\ Kind' = Kind
  BY DEF WriteModuleSchema, NoChange, CommandInv, TypeInv, ProjectInv, Kind
<1>2. InitOut' /\ GenerateOut'
  BY <1>1 DEF InitOut, GenerateOut, Succeeding
<1>3. CASE pc' = "idle" /\ exit' # "0"
  BY <1>3, OutFailed
<1>4. CASE ~ (pc' = "idle" /\ exit' # "0")
  <2>1. files' = Written("moduleSchema", Fragment) /\ AfterLoad("MODULE")
    BY <1>1, <1>4 DEF WriteModuleSchema, Exit
  <2>2. /\ files'.settings = files.settings /\ files'.moduleSchema = Fragment
        /\ files'.sample = files.sample /\ files'.other = files.other
    BY <2>1, FieldsWritten
  <2>3. Fragment' = Fragment
    BY <2>2 DEF Fragment
  <2>4. pc' = "idle" => cmd.name # "package"
    BY <1>1, <2>1, AfterLoadRuns
  <2>5. PackageOut'
    BY <1>1, <2>2, <2>3, <2>4 DEF OutInv, PackageOut, Succeeding
  <2> QED BY <1>2, <2>5 DEF OutInv
<1> QED BY <1>3, <1>4

LEMMA OutPackage ==
  ASSUME TypeInv, CommandInv, OutInv, OpenPackage \/ FillPackage
  PROVE  OutInv'
<1>1. /\ pc \in {"open", "zip"} /\ cmd.name = "package" /\ cmd' = cmd /\ edited' = edited
      /\ project' = project /\ Kind' = Kind /\ Type' = Type /\ project.settings \in Settings
  BY DEF OpenPackage, FillPackage, NoChange, CommandInv, TypeInv, ProjectInv, Kind, Type
<1>2. InitOut' /\ GenerateOut'
  BY <1>1 DEF InitOut, GenerateOut, Succeeding
<1>3. CASE pc' = "idle" /\ exit' # "0"
  BY <1>3, OutFailed
<1>4. ASSUME ~edited
      PROVE  /\ project.settings = files.settings
             /\ IF Kind = "MODULE" THEN files.moduleSchema = Fragment
                ELSE Valid(files.schema[Type], Kind)
  BY <1>1, <1>4 DEF OutInv, PackageOut, Succeeding
<1>5. CASE OpenPackage
  <2>1. pc' = "zip" /\ files' = Written("open", Partial)
    BY <1>5 DEF OpenPackage, Goto
  <2>2. /\ files'.settings = files.settings /\ files'.moduleSchema = files.moduleSchema
        /\ files'.sample = files.sample /\ files'.other = files.other
        /\ files'.schema = files.schema
    BY <2>1, FieldsWritten
  <2>3. Fragment' = Fragment
    BY <2>2 DEF Fragment
  <2>4. PackageOut'
    BY <1>1, <1>4, <2>1, <2>2, <2>3 DEF PackageOut, Succeeding, Valid
  <2> QED BY <1>2, <2>4 DEF OutInv
<1>6. CASE FillPackage /\ ~ (pc' = "idle" /\ exit' # "0")
  <2> DEFINE package ==
         IF Kind = "MODULE"
         THEN [settings |-> files.settings, schema |-> Absent,
               moduleSchema |-> files.moduleSchema, fragment |-> Fragment]
         ELSE [settings |-> files.settings, schema |-> files.schema[Type],
               moduleSchema |-> Absent, fragment |-> Absent]
  <2>1. pc = "zip" /\ pc' = "idle" /\ files' = Written("zip", package)
    BY <1>6 DEF FillPackage, Exit
  <2>2. package \in Package
    <3>1. files.settings \in Settings
      BY <2>1 DEF TypeInv, ProjectInv
    <3>2. Fragment \in Fragments \cup Missing /\ files.moduleSchema \in Fragments \cup Missing
      BY FragmentType DEF TypeInv, TypeOK, Files
    <3>3. Kind # "MODULE" => files.schema[Type] \in Schema \cup Missing
      BY <1>1, SettingsFacts DEF TypeInv, TypeOK, Files, Kind, Type
    <3> QED BY <3>1, <3>2, <3>3 DEF Package, Missing
  <2>3. /\ package.settings = files.settings
        /\ Kind = "MODULE" => package.moduleSchema = files.moduleSchema /\ package.fragment = Fragment
        /\ Kind # "MODULE" => package.schema = files.schema[Type]
    OBVIOUS
  <2> HIDE DEF package
  <2>4. files'.settings = files.settings /\ files'.zip = [files.zip EXCEPT ![Type] = package]
    BY <2>1, FieldsWritten
  <2>5. Type \in Types \cup Modules
    BY <1>1, SettingsFacts DEF Kind, Type, Handlers
  <2>6. files'.zip[Type] = package
    BY <2>4, <2>5 DEF TypeInv, TypeOK, Files
  <2>7. package # Partial
    BY <2>2, PackageAssumption
  <2>8. PackageOut'
    BY <1>1, <1>4, <2>1, <2>3, <2>4, <2>6, <2>7 DEF PackageOut, Succeeding, Valid
  <2> QED BY <1>2, <2>8 DEF OutInv
<1> QED BY <1>3, <1>5, <1>6

LEMMA OutNext == TypeInv /\ CommandInv /\ OutInv /\ [Next]_vars => OutInv'
BY OutInit, OutGenerate, OutLoad, OutModuleSchema, OutPackage, OutDisturbed DEF Next, Step

LEMMA OutInvariant == Spec => [](TypeInv /\ OutInv)
<1>1. Init => CommandInv /\ OutInv
  BY DEF Init, CommandInv, NeedSchema, OutInv, InitOut, GenerateOut, PackageOut, Succeeding
<1> QED BY <1>1, InitType, NextType, CommandNext, OutNext, PTL DEF Spec

(* An init of a resource or a hook that may overwrite repairs whatever      *)
(* interrupted commands and edits left: the project loads, and what was     *)
(* generated belongs to the schema on disk (init_resource, init_hook).      *)
THEOREM RepairCorrect == Spec => []OverwritingInitRepairs
<1>1. ASSUME TypeInv, OutInv PROVE OverwritingInitRepairs
  <2> SUFFICES ASSUME Undisturbed("init"), project.overwrite, Kind # "MODULE"
               PROVE  /\ Loads
                      /\ files.settings = project.settings
                      /\ {files.role[Kind], files.docs} = {files.schema[Type].permissions}
    BY DEF OverwritingInitRepairs
  <2>1. pc = "idle" /\ InitDone
    BY <1>1 DEF Undisturbed, OutInv, InitOut, Succeeding, TypeInv, TypeOK
  <2>2. /\ files.settings = project.settings /\ Kind \in Handlers
        /\ files.schema[Type] = Example(Kind)
        /\ files.role[Kind] = "example" /\ files.docs = "example"
    BY <2>1 DEF InitDone, NeedSchema, Generated
  <2>3. Loads
    <3>1. project.settings # Absent /\ project.settings # Partial
      BY <2>1, MissingFacts DEF InitDone, Missing
    <3>2. Valid(Example(Kind), Kind)
      BY <2>2, MissingFacts DEF Valid, Example
    <3> QED BY <2>2, <3>1, <3>2 DEF Loads, Kind, Type, Missing
  <2> QED BY <2>2, <2>3 DEF Example
<1> QED BY <1>1, OutInvariant, PTL

(* After generate the role template and the docs are those of the schema,   *)
(* if it has handlers (Project.generate, generate_docs).                    *)
THEOREM GeneratedCorrect == Spec => []GeneratedFilesFollow
<1>1. ASSUME OutInv PROVE GeneratedFilesFollow
  BY <1>1 DEF GeneratedFilesFollow, Undisturbed, OutInv, GenerateOut, Succeeding, Generated
<1> QED BY <1>1, OutInvariant, PTL

(* A package that was made holds the settings and a valid schema; that of a *)
(* module was made from the fragment that is in the package (submit).       *)
THEOREM PackageCorrect == Spec => []PackageIsConsistent
<1>1. ASSUME OutInv PROVE PackageIsConsistent
  BY <1>1 DEF PackageIsConsistent, Undisturbed, OutInv, PackageOut, Succeeding
<1> QED BY <1>1, OutInvariant, PTL

-----------------------------------------------------------------------------
(* How long a command takes.                                                *)

(* How many steps the command can still make.  Role template and target     *)
(* information come again in the generate that init makes from local        *)
(* target information.                                                      *)
StepsLeft ==
  CASE pc = "idle" -> 0
    [] pc = "check" -> 13
    [] pc = "schema" -> 12
    [] pc = "clearInputs" -> 11
    [] pc = "inputs" -> 10
    [] pc = "initPlugin" -> 9
    [] pc = "load" -> 9
    [] pc \in {"settings", "moduleSchema"} -> 8
    [] pc = "role" -> IF project.local = TRUE THEN 5 ELSE 7
    [] pc = "targets" -> IF project.local = TRUE THEN 4 ELSE 6
    [] pc = "code" -> 3
    [] pc \in {"clearDocs", "open"} -> 2
    [] pc \in {"docs", "zip", "sample"} -> 1

(* Every step of a command brings it nearer to its end, an edit of the      *)
(* developer's never sets it back, and init generates again once at most    *)
(* (init_hook, Project.generate).                                           *)
CommandIsBounded ==
  [][pc # "idle" =>
       IF used'.edits = used.edits THEN StepsLeft' \in Nat /\ StepsLeft' < StepsLeft
       ELSE StepsLeft' = StepsLeft]_vars

(* Where a command goes next.                                               *)
Goes(from, to) == pc = from /\ pc' = to

LEMMA StepGoes ==
  ASSUME TypeInv, Step
  PROVE  /\ used' = used
         /\ \/ pc # "idle" /\ pc' = "idle"
            \/ Goes("check", "schema") \/ Goes("check", "settings")
            \/ Goes("schema", "clearInputs") \/ Goes("schema", "initPlugin")
            \/ Goes("clearInputs", "inputs") \/ Goes("inputs", "initPlugin")
            \/ Goes("initPlugin", "settings")
            \/ Goes("settings", "sample") \/ Goes("settings", "role")
            \/ Goes("load", "moduleSchema") \/ Goes("load", "role") \/ Goes("load", "open")
            \/ Goes("moduleSchema", "role") \/ Goes("moduleSchema", "open")
            \/ Goes("role", "targets") /\ project' = project
            \/ Goes("role", "code") \/ Goes("targets", "code")
            \/ Goes("targets", "role") /\ project.local = FALSE /\ project'.local = TRUE
            \/ Goes("code", "clearDocs") \/ Goes("clearDocs", "docs") \/ Goes("open", "zip")
<1> USE DEF Goes, Goto, Exit, NoChange
<1>1. CASE CheckForExistingProject
  BY <1>1 DEF CheckForExistingProject
<1>2. CASE WriteExampleSchema \/ ClearInputs \/ WriteInputs
  BY <1>2 DEF WriteExampleSchema, ClearInputs, WriteInputs
<1>3. CASE InitPlugin \/ WriteSettings \/ WriteSample
  BY <1>3 DEF InitPlugin, WriteSettings, WriteSample
<1>4. CASE Load
  <2>1. pc = "load" /\ used' = used
    BY <1>4 DEF Load
  <2>2. \/ pc' = "moduleSchema" \/ pc' = "idle"
        \/ \E a : a # "MODULE" /\ AfterLoad(a)
    BY <1>4 DEF Load
  <2> QED BY <2>1, <2>2, AfterLoadIs DEF TypeInv, ProjectInv
<1>5. CASE WriteModuleSchema
  BY <1>5, AfterLoadIs DEF WriteModuleSchema, TypeInv, ProjectInv
<1>6. CASE WriteRole
  BY <1>6 DEF WriteRole
<1>7. CASE LoadTargetInfo
  <2>1. project' = [project EXCEPT !.local = TRUE] => project'.local = TRUE
    BY DEF TypeInv, TypeOK
  <2>2. project.local \in BOOLEAN
    BY DEF TypeInv, TypeOK
  <2> QED BY <1>7, <2>1, <2>2 DEF LoadTargetInfo
<1>8. CASE GenerateCode \/ ClearDocs \/ WriteDocs
  BY <1>8 DEF GenerateCode, ClearDocs, WriteDocs
<1>9. CASE OpenPackage \/ FillPackage
  BY <1>9 DEF OpenPackage, FillPackage
<1> QED BY <1>1, <1>2, <1>3, <1>4, <1>5, <1>6, <1>7, <1>8, <1>9 DEF Step

(* A command ends after at most 13 steps, whatever fails, is interrupted or *)
(* is edited meanwhile (the retry in init_hook).                            *)
THEOREM BoundCorrect == Spec => CommandIsBounded
<1>1. TypeInv /\ [Next]_vars =>
        [pc # "idle" =>
           IF used'.edits = used.edits THEN StepsLeft' \in Nat /\ StepsLeft' < StepsLeft
           ELSE StepsLeft' = StepsLeft]_vars
  <2> SUFFICES ASSUME TypeInv, Next, pc # "idle"
               PROVE  IF used'.edits = used.edits THEN StepsLeft' \in Nat /\ StepsLeft' < StepsLeft
                      ELSE StepsLeft' = StepsLeft
    OBVIOUS
  <2>1. CASE Step
    <3>1. used' = used
      BY <2>1, StepGoes
    <3>2. CASE pc' = "idle"
      <4>1. pc \in Steps
        BY DEF TypeInv, TypeOK
      <4> QED BY <3>1, <3>2, <4>1 DEF StepsLeft, Steps
    <3>3. CASE Goes("targets", "role") /\ project.local = FALSE /\ project'.local = TRUE
      BY <3>1, <3>3 DEF Goes, StepsLeft
    <3>4. CASE Goes("role", "targets") /\ project' = project
      BY <3>1, <3>4 DEF Goes, StepsLeft
    <3>5. CASE \/ Goes("check", "schema") \/ Goes("check", "settings")
               \/ Goes("schema", "clearInputs") \/ Goes("schema", "initPlugin")
               \/ Goes("clearInputs", "inputs") \/ Goes("inputs", "initPlugin")
               \/ Goes("initPlugin", "settings") \/ Goes("settings", "sample")
      BY <3>1, <3>5 DEF Goes, StepsLeft
    <3>6. CASE \/ Goes("settings", "role") \/ Goes("load", "moduleSchema")
               \/ Goes("load", "role") \/ Goes("load", "open")
               \/ Goes("moduleSchema", "role") \/ Goes("moduleSchema", "open")
      BY <3>1, <3>6 DEF Goes, StepsLeft
    <3>7. CASE \/ Goes("role", "code") \/ Goes("targets", "code") \/ Goes("code", "clearDocs")
               \/ Goes("clearDocs", "docs") \/ Goes("open", "zip")
      BY <3>1, <3>7 DEF Goes, StepsLeft
    <3> QED BY <2>1, <3>2, <3>3, <3>4, <3>5, <3>6, <3>7, StepGoes
  <2>2. CASE Interrupt
    <3>1. pc' = "idle" /\ used'.edits = used.edits
      BY <2>2 DEF Interrupt, Exit, TypeInv, TypeOK
    <3>2. pc \in Steps
      BY DEF TypeInv, TypeOK
    <3> QED BY <3>1, <3>2 DEF StepsLeft, Steps
  <2>3. CASE Edit
    <3>1. UNCHANGED <<pc, project>> /\ used'.edits = used.edits + 1 /\ used.edits \in Nat
      BY <2>3, BoundsAssumption DEF Edit, TypeInv, TypeOK
    <3>2. StepsLeft' = StepsLeft
      BY <3>1 DEF StepsLeft
    <3> QED BY <3>1, <3>2
  <2>4. ~Begin
    BY DEF Begin
  <2> QED BY <2>1, <2>2, <2>3, <2>4 DEF Next
<1> QED BY <1>1, TypeInvariant, PTL DEF Spec, CommandIsBounded
=============================================================================
