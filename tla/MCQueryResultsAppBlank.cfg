SPECIFICATION Spec
CONSTANTS
  a = a
  b = b
  c = c
  d = d
  q1 = q1
  q2 = q2
  Calls = {a, b}
  Input <- BlankInput
  Blank = Blank
  Unknown = Unknown
  NoQuery = NoQuery
  NoEntry = NoEntry
  MaxHistory = 3
  MaxRefreshes = 2
INVARIANT EntriesNameTheirRequest
CHECK_DEADLOCK FALSE
