\* Three profiles, of which each may fail to open half-way, and three
\* requests that run while the process starts to stop.
SPECIFICATION FairSpec
CONSTANTS
  N = 3
  Handlers = {h1, h2, h3}
INVARIANT CutOffIsReported
PROPERTIES SignalEnds ImplementsContract
