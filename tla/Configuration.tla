---------------------------- MODULE Configuration ----------------------------
(***************************************************************************)
(* internal/config: the defaults and the validation of a profile.  Load    *)
(* applies them to the file, NewManager once more to what it is given.  A  *)
(* number is itself, with 0 for a field left out; a text or a list is what *)
(* the rules tell apart: "" or << >>, valid, invalid.                      *)
(***************************************************************************)
EXTENDS Integers, Sequences

\* The fields of a profile that the rules look at.
Profile == [user : STRING, database : STRING, allowed : SUBSET STRING, whitelist : STRING,
            maxOpen : Int, maxIdle : Int, maxRows : Int, queryTimeout : Int,
            maxScriptStatements : Int, slowQueryThreshold : Int, ringBufferSize : Int,
            logDir : STRING]

Statements == {"select", "insert", "update", "delete", "ddl"}

Default == [maxOpen |-> 5, maxIdle |-> 2, maxRows |-> 1000, queryTimeout |-> 30000,
            maxScriptStatements |-> 50, slowQueryThreshold |-> 1000, ringBufferSize |-> 1000]

Or(value, unset, default) == IF value = unset THEN default ELSE value

\* ~/ is expanded when the home directory is known.
ExpandHome(dir, home) == IF dir = "~/logs" /\ home # "" THEN "home/logs" ELSE dir

\* Without a home directory the default is a path relative to the process.
DefaultDir(home) == IF home = "" THEN "relative" ELSE "home/default"

\* A profile with the fields that were left out set to their defaults.
Filled(p, default, home) ==
  [f \in DOMAIN p |->
     CASE f \in DOMAIN default -> Or(p[f], 0, default[f])
       [] f = "allowed"        -> Or(p[f], {}, {"select"})
       [] f = "logDir"         -> ExpandHome(Or(p[f], "", DefaultDir(home)), home)
       [] OTHER                -> p[f]]

\* Mutant: the limit of a script has no default.
NormalizeScriptUnset(p, home) ==
  Filled(p, [f \in DOMAIN Default \ {"maxScriptStatements"} |-> Default[f]], home)

\* NormalizeAndValidateProfile, up to validateProfile.
Normalize(p, home) == Filled(p, Default, home)

\* validateProfile: what it looks at, and nothing else.
Valid(p) == /\ p.user # "" /\ p.database # ""
            /\ p.allowed \subseteq Statements
            /\ p.whitelist # "invalid"
            /\ p.maxScriptStatements >= 0
            /\ p.ringBufferSize >= 1

ValidName(name) == name # "invalid"

Rejected == [ok |-> FALSE]

\* NormalizeAndValidate: the profiles in any order, the first bad one decides.
Load(profiles, home) ==
  IF \/ DOMAIN profiles = {}
     \/ \E name \in DOMAIN profiles : ~ValidName(name) \/ ~Valid(Normalize(profiles[name], home))
  THEN Rejected
  ELSE [ok |-> TRUE, profiles |-> [name \in DOMAIN profiles |-> Normalize(profiles[name], home)]]

-----------------------------------------------------------------------------
\* What the other parts take for granted of a profile they are given: newRing's
\* size, the guard's classes and limit, a pool, a row limit and a deadline that
\* are set (to a negative number too, which the rules accept).
Usable(p) == /\ p.ringBufferSize >= 1
             /\ p.maxScriptStatements >= 1
             /\ p.allowed # {} /\ p.allowed \subseteq Statements
             /\ p.database # ""
             /\ p.maxOpen # 0 /\ p.maxRows # 0 /\ p.queryTimeout # 0
             /\ p.logDir # ""
=============================================================================
