SPECIFICATION Spec
CONSTANTS
  NumPods = 2
  Requests = {r1, r2}
  Sessions = {s1}
  NoSession = NoSession
  Modes = {"stateless", "dedicated"}
  Slots = 1
  MaxFaults = 1
SYMMETRY RequestSymmetry
INVARIANTS
  InFlightCounts
  OtherPodEachTime
  SessionServedAtHome
  TableNamesHome
