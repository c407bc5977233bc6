SPECIFICATION Spec
CONSTANTS
  Calls = {c1, c2}
  p1 = p1
  p2 = p2
  t1 = t1
  t2 = t2
  Profiles = {p1, p2}
  Tables = {t1, t2}
  MaxOpen = 1
  Security <- MCSecurity
  Requests <- MCRequests
  NoRequest = NoRequest
  NoJob = NoJob
INVARIANT ExecutedIsAudited
