SPECIFICATION FairSpec
CONSTANTS
  v1 = v1  v2 = v2
  None = None
  Bare = Bare
  Versions = {v1, v2}
  Sorted <- SortedNames
  Special <- SpecialNames
  TargetSets <- SomeTargets
  InfoFiles <- SomeInfoFiles
  Folders <- SomeFolders
  Arguments <- SomeArguments
  Registries <- SomeRegistries
  MinPrefix = 2
  PageSize = 2
  MaxChanges = 1
  Faults = {"noSession", "clientError", "httpError"}
INVARIANTS TypeOK ResolutionIsExact SchemasAreRight PackageIsWhole
PROPERTY LoadEnds
CHECK_DEADLOCK FALSE
