SPECIFICATION Spec
CONSTANTS
  c1 = c1  c2 = c2
  a0 = a0  b0 = b0  a1 = a1  x0 = x0  y0 = y0
  s1 = s1  s2 = s2  g1 = g1  g2 = g2  p0 = p0  p1 = p1
  None = None
  MaxReleases = 3
  Callers = {c1, c2}
  Releases = {a0, b0, a1, x0, y0}
  Scopes = {s1, s2}
  Groups = {g1, g2}
  Partitions = {p0, p1}
  ScopeOf <- MCScopeOf
  GroupOf <- MCGroupOf
  PartitionOf <- MCPartitionOf
  MaxEpsilon = 2
  Budget <- MCBudget
SYMMETRY MCSymmetry
CONSTRAINT FewReleases
INVARIANTS BudgetNeverExceeded ParallelCompositionCovered
PROPERTIES ReservationsAreFrozen KeepsTheLedger
