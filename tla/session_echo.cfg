SPECIFICATION Spec
CONSTANTS
  Contexts = {c1, c2, c3}
  Requests = {r1, r2}
  NoContext = NoContext
  Modes = {"dedicated"}
  MaxContexts = 2
  MinContexts = 1
  MaxRequests = 1
  CountLimit = 2
  Strategy = "Hybrid"
  Origins = {}
  NoOrigin = NoOrigin
  CountryCodes = {FALSE}
SYMMETRY PoolSymmetry
VIEW PoolView
PROPERTIES
  EchoedSessionExists
