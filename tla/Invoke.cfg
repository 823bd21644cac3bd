SPECIFICATION FairSpec
CONSTANTS
  NoLimit = NoLimit
  Unlimited = NoLimit
  Limits <- SomeLimits
  MaxPolls = 3
  MaxCalls = 6
  Artifacts = {"RESOURCE", "HOOK"}
  Faults = {"forever", "garbage", "interrupt"}
INVARIANTS TypeOK ReinvocationsAreExact OneOperation
PROPERTY InvokeEnds
CHECK_DEADLOCK FALSE
