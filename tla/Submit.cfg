SPECIFICATION FairSpec
CONSTANTS
  p1 = p1  p2 = p2  p3 = p3  A = A  B = B  t1 = t1  t2 = t2  noOut = noOut
  Procs = {p1, p2}
  Names = {A, B}
  InfraStack = InfraStack
  Templates = {t1, t2, noOut}
  OldTemplates = {t1}
  HasOutputs = {t1, t2}
  NoTemplate = NoTemplate
  Nobody = Nobody
  NoRole = NoRole
  GivenRole = GivenRole
  MaxSecond = 1
  Requests <- SafetyRequests
  Faults = {"notReady", "clientError", "crash", "stackFails", "waiterTimesOut", "registrationFails"}
INVARIANTS TypeOK DefaultIsRegistered ExitCodeIsTruthful PackageIsOwn RoleStackIsReady
PROPERTIES ImplementsPublication SubmitTerminates
CHECK_DEADLOCK FALSE
