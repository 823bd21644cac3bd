SPECIFICATION Spec
CONSTANTS
  NoLimit = NoLimit
  Unlimited = NoLimit
  Limits <- SomeLimits
  MaxPolls = 2
  MaxCalls = 6
  Artifacts = {"RESOURCE", "HOOK"}
  Faults = {}
INVARIANT ProgressIsUnderstood
CHECK_DEADLOCK FALSE
