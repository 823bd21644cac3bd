SPECIFICATION FairSpec
CONSTANTS
  Absent = Absent
  Partial = Partial
  a = a
  b = b
  m = m
  Types = {a, b}
  Modules = {m}
  OwnSchemas <- SomeSchemas
  Names = {"init", "generate", "validate", "package"}
  MaxCommands = 3
  MaxEdits = 1
  MaxInterrupts = 1
INVARIANTS TypeOK SettingsComeLast OverwritingInitRepairs GeneratedFilesFollow PackageIsConsistent
PROPERTIES SchemaIsKept CommandEnds
CHECK_DEADLOCK FALSE
