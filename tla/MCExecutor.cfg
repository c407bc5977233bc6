SPECIFICATION FairSpec
CONSTANTS
  Calls = {c1, c2}
  p1 = p1
  p2 = p2
  Profiles = {p1, p2}
  MaxOpen = 1
  Jobs <- MCJobs
  NoJob = NoJob
INVARIANTS TypeOK ScriptAtomic AnswersAreTrue QueryNeverWrites NoConnectionLeak
PROPERTIES ImplementsContract EveryCallReturns ConnectionsComeBack
