SPECIFICATION Spec
CONSTANTS
  a = a  b = b  c = c  p0 = p0  p1 = p1  q1 = q1  q2 = q2
  None = None
  Deliveries = {a, b, c}
  Partitions = {p0, p1}
  PartitionOf <- MCPartitionOf
  Supersedes <- MCSupersedes
  Requests = {q1, q2}
  Overlapping = {q1}
  MaxFaults = 2
CHECK_DEADLOCK FALSE
INVARIANTS SealedIsComplete OpenServesNothing SealedServesCurrent
PROPERTY RevocationIsFinal
