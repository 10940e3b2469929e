SPECIFICATION FairSpec
CONSTANTS
  b1 = b1
  d1 = d1
  p1 = p1
  p2 = p2
  p3 = p3
  NoJob = NoJob
  Base <- OneBase
  Dynamic <- OneDynamic
  Jobs <- MoreClients
  LastPort = 2
  KeepAliveMax = 2
INVARIANT WebTypeOK
INVARIANT IdleIsExact
INVARIANT NoJobBesideASleeper
INVARIANT NoThreadOutlivesListen
INVARIANT ServedOnce
INVARIANT NoSleeperInShutdown
PROPERTY ImplementsJobQueue
PROPERTY EveryRequestAnswered
PROPERTY ShutdownEnds
CHECK_DEADLOCK FALSE
