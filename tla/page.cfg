SPECIFICATION PageFairSpec
CONSTANTS
  Calls = {create_tab}
  Modes = {"always_new", "dedicated"}
  Timeouts = {1, 3}
  Windows = {0, 1}
  Budget = 3
  Margin = 1
  Step = 1
  ReadyMax = 2
  Patience = 2
  MaxDocs = 2
  Kinds = {"page", "json", "challenge"}
INVARIANTS
  NamedContextExists
  NothingLost
  ReceivedIsKept
PROPERTIES
  SkipNotOverlooked
  AbandonedResultUndone
  PageEnds
