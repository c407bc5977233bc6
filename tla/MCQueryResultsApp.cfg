SPECIFICATION Spec
CONSTANTS
  a = a
  b = b
  c = c
  d = d
  q1 = q1
  q2 = q2
  Calls = {a, b, c, d}
  Input <- MCInput
  Blank = Blank
  Unknown = Unknown
  NoQuery = NoQuery
  NoEntry = NoEntry
  MaxHistory = 3
  MaxRefreshes = 2
INVARIANTS EntriesNameTheirRequest CandidatesHoldTheRequest PendingIsBalanced SpinnerTellsOpen
CHECK_DEADLOCK FALSE
