SPECIFICATION Spec
CONSTANTS
  c1 = c1  c2 = c2  r1 = r1  r2 = r2
  None = None
  Runs = {r1, r2}
  Clients = {c1, c2}
  Epsilon <- MCEpsilon
  Budget = 2
  MaxFaults = 1
SYMMETRY ClientSymmetry
INVARIANTS BudgetKept ApprovalIsCharged ExportedIsCharged
           CompletedJobHasRun
PROPERTY RejectionSticks
