SPECIFICATION Spec
CONSTANTS
  Loads = {l1, l2}
  MaxDocs = 2
  MaxTracked = 2
  MaxCounted = 4
  MaxRequests = 1
  MaxPending = 1
SYMMETRY LoadSymmetry
INVARIANTS
  ObserversAgree
PROPERTIES
  NotFoundIsFinal
  IncompleteIsExplained
