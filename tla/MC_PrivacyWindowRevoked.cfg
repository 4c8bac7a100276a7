SPECIFICATION Spec
CONSTANTS
  a = a  b = b  c = c  p0 = p0  p1 = p1  q1 = q1  q2 = q2
  None = None
  Deliveries = {a, b}
  Partitions = {p0, p1}
  PartitionOf <- MCPartitionOf
  Supersedes <- MCSupersedes
  Requests = {q1}
  Overlapping = {q1}
  MaxFaults = 0
CHECK_DEADLOCK FALSE
INVARIANT RevokedServesNothing
