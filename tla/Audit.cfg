\* Two handlers, four records over three days: enough to roll forward, back
\* and forward again, with two faults of the disk on the way.  Two slots: the
\* ring wraps twice, so every value of next is seen before and after full.
SPECIFICATION AuditSpec
CONSTANTS
  Callers = {c1, c2}
  MaxLogs = 4
  LastDay = 2
  MaxFaults = 2
  Entries <- Records
  Readers = {s1}
  RingSize = 2
  Zero <- NoRecord
  MaxAdds = 4
INVARIANTS EveryRecordOnce LinesOnTheirDay LossNeedsCause NoHandleLeak ContentsAreLatest
PROPERTY ImplementsWindow
\* A behaviour ends when MaxLogs calls have returned and the logger is closed.
CHECK_DEADLOCK FALSE
