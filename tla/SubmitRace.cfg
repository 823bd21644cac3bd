SPECIFICATION FairServicesSpec
CONSTANTS
  p1 = p1  p2 = p2  p3 = p3  A = A  B = B  t1 = t1  t2 = t2  noOut = noOut
  Procs = {p1, p2, p3}
  Names = {A}
  InfraStack = InfraStack
  Templates = {t1, t2, noOut}
  OldTemplates = {t1}
  HasOutputs = {t1, t2}
  NoTemplate = NoTemplate
  Nobody = Nobody
  NoRole = NoRole
  GivenRole = GivenRole
  MaxSecond = 0
  Requests <- CrowdRequests
  Faults = {}
PROPERTY SomeoneSucceeds
CHECK_DEADLOCK FALSE
