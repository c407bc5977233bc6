SPECIFICATION Spec
CONSTANTS
  DefaultDB = "DB"
  Lower <- MCLower
  Walks <- MCWalks
  Snapshots = {}
  Ddls = {}
  Listings = {}
  Profiles = {}
  StatTables = {}
  StatRules = {}
INVARIANT NoTableIsMissed
\* A behaviour is one computation.
CHECK_DEADLOCK FALSE
