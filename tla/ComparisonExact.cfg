SPECIFICATION Spec
CONSTANTS
  Schemas <- SomeSchemas
  Documents <- SomeDocuments
INVARIANT AcceptedMatchesExactly
CHECK_DEADLOCK FALSE
