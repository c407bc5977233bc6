SPECIFICATION Spec
CONSTANTS
  DefaultDB = "DB"
  Lower <- MCLower
  Walks <- MCWalks
  Snapshots <- MCSnapshots
  Ddls <- MCDdls
  Listings <- MCListings
  Profiles <- MCProfiles
  StatTables = {"t", "u"}
  StatRules = {"wrong_tool", "table_whitelist"}
INVARIANTS TablesAreReal StatsDescribeTheWindow OnlyTheCounterGoes ListIsAPrefix AcceptedIsUsable
\* A behaviour is one computation.
CHECK_DEADLOCK FALSE
