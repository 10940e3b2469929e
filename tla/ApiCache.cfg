SPECIFICATION Spec
CONSTANTS
  c1 = c1
  c2 = c2
  today = today
  tomorrow = tomorrow
  Calls = {c1, c2}
  Params = {today, tomorrow}
  Minute = 1
  MaxTime = 2
  Never = Never
  NoEntry = NoEntry
INVARIANT CacheTypeOK
INVARIANT FinishedIsTrue
