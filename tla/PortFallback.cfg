SPECIFICATION Spec
CONSTANTS
  b1 = b1
  d1 = d1
  p1 = p1
  p2 = p2
  p3 = p3
  NoJob = NoJob
  Base <- OneBase
  Dynamic <- OneDynamic
  Jobs <- MoreClients
  LastPort = 3
  KeepAliveMax = 2
INVARIANT GivesUpOnlyWhenAllTaken
CHECK_DEADLOCK FALSE
