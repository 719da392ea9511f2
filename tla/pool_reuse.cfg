SPECIFICATION Spec
CONSTANTS
  Contexts = {c1, c2, c3}
  Requests = {r1, r2}
  NoContext = NoContext
  Modes = {"always_new", "reusable"}
  MaxContexts = 2
  MinContexts = 1
  MaxRequests = 2
  CountLimit = 4
  Strategy = "RequestBasedOnly"
  Origins = {o1}
  NoOrigin = NoOrigin
  CountryCodes = {FALSE, TRUE}
SYMMETRY PoolSymmetry
VIEW PoolView
INVARIANTS
  Capacity
  PendingCounts
  ExclusiveUse
  UsedStaysInPool
  QuotaOvershoot
  MonitorKeepsItsSlots
PROPERTIES
  LostOnlyAfterRelease
  ImplementsSlotPool
