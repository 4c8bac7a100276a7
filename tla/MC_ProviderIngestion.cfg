SPECIFICATION Spec
CONSTANTS
  w1 = w1  w2 = w2  o1 = o1  m1 = m1  m2 = m2  r1 = r1
  None = None
  Workers = {w1, w2}
  Objects = {o1}
  Notifications = {m1}
  Replays = {r1}
  ObjectOf <- MCObjectOf
  MaxReceiveCount = 2
  MaxFaults = 1
  MaxDelays = 1
SYMMETRY WorkerSymmetry
INVARIANTS CompletedHasOutput NoObjectLeftBehind
