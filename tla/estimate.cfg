SPECIFICATION Spec
CONSTANTS
  NumPods = 2
  Requests = {r1}
  Sessions = {s1}
  NoSession = NoSession
  Modes = {"dedicated"}
  Slots = 1
  MaxFaults = 0
INVARIANTS
  IdleEstimateHolds
