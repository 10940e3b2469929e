SPECIFICATION DashboardSpec
CONSTANTS
  r1 = r1
  r2 = r2
  p1 = p1
  p2 = p2
  c0 = c0
  bad = bad
  ApiError = ApiError
  Torn = Torn
  NoFile = NoFile
  Free = Free
  Requests = {r1}
  Polls = {p1}
  Code = {c0}
  Compiling = {c0}
  QuotesTag = {}
  Original = c0
  Faults = {}
  MaxPosts = 1
  MaxOutages = 0
  BreaksJson = {"response"}
PROPERTY ButtonComesBack
