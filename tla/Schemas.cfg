SPECIFICATION Spec
CONSTANTS
  Specs <- SomeSpecs
  Uppercase <- SomeUppercase
  Depth = 3
INVARIANTS
  FlatteningIsFaithful ModelsDescribeTheSchema
CHECK_DEADLOCK FALSE
