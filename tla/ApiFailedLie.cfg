SPECIFICATION Spec
CONSTANTS
  r1 = r1
  r2 = r2
  c0 = c0
  c1 = c1
  bad = bad
  tagged = tagged
  ApiError = ApiError
  Torn = Torn
  NoFile = NoFile
  Free = Free
  Requests <- MCRequests
  Code <- MCCode
  Compiling <- MCCompiling
  QuotesTag <- MCQuotesTag
  Original = c0
  Faults <- NoFaults
INVARIANT ApiFailedMeansFailed
