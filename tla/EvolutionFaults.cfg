SPECIFICATION FairSpec
CONSTANTS
  r1 = r1
  r2 = r2
  c0 = c0
  c1 = c1
  bad = bad
  tagged = tagged
  ApiError = ApiError
  Torn = Torn
  NoFile = NoFile
  Free = Free
  Requests <- MCRequests
  Code = {c0, c1, bad}
  Compiling = {c0, c1}
  QuotesTag = {}
  Original = c0
  Faults <- ThreadFaults
INVARIANT OneEvolution
INVARIANT FlagMeansRunning
INVARIANT JournalAgrees
INVARIANT SuccessIsBuilt
INVARIANT EndsJudged
PROPERTY EvolutionEnds
PROPERTY EvolutionIsJudged
PROPERTY LossHasACause
