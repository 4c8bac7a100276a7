SPECIFICATION FairSpec
CONSTANTS
  None = None
  m1 = m1  m2 = m2  i1 = i1  i2 = i2
  Messages = {m1}
  Invocations = {i1, i2}
  Outcomes = {"completed", "blocked"}
  MaxAttempts = 3
  MaxFaults = 1
CHECK_DEADLOCK FALSE
INVARIANTS RunIsCharged ServedIsVerified ProcessingNamesRelease SoleExecutionAgrees
PROPERTIES DispatchedIsSettled
