SPECIFICATION HostSpec
CONSTANTS
  a = a
  b = b
  q1 = q1
  Calls = {a, b}
  Input <- MCInput
  Blank = Blank
  Unknown = Unknown
  NoQuery = NoQuery
  NoEntry = NoEntry
  MaxHistory = 3
  MaxRefreshes = 2
  MaxRepeats = 2
  LastMount = 2
INVARIANTS NoResultTwice ConnectionIsCurrent
\* The host may have nothing more to tell.
CHECK_DEADLOCK FALSE
