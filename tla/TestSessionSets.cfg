SPECIFICATION Spec
CONSTANTS
  Targets = {1, 2, 3}
  Unsupported = 0
  Schemas <- HookSchemas
  Info = {1, 2}
  NoFolder = NoFolder
  Generated = Generated
  MaxSet = 10
  MaxPolls = 0
  Defects = {}
  Folders <- TenSets
  Artifacts = {"RESOURCE"}
  Overrides = {"absent"}
  Files = {"absent"}
  Edits = {"absent"}
  Faults = {}
INVARIANT SetsAreSeparate
CHECK_DEADLOCK FALSE
