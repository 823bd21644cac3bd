SPECIFICATION Spec
CONSTANTS
  Schemas <- SomeSchemas
  Documents <- SomeDocuments
INVARIANTS
  ConformingAnswerIsAccepted MismatchIsReported
CHECK_DEADLOCK FALSE
