SPECIFICATION FairSpec
CONSTANTS
  Targets = {1, 2, 3}
  Unsupported = 0
  Schemas <- HookSchemas
  Info = {1, 2}
  NoFolder = NoFolder
  Generated = Generated
  MaxSet = 10
  MaxPolls = 1
  Defects <- AllDefects
  Folders <- InputFolders
  Artifacts = {"RESOURCE", "HOOK", "MODULE"}
  Overrides = {"valid", "broken"}
  Files = {"absent", "v1", "noHook", "broken"}
  Edits = {"v2"}
  Faults = {"unavailable"}
INVARIANTS TypeOK ConformingHookPasses DefectIsDetected PassMeansTested
PROPERTIES ConfigurationIsStable SessionEnds
CHECK_DEADLOCK FALSE
