SPECIFICATION Spec
CONSTANTS
  t1 = t1
  Tables = {t1}
  Cases <- AllCases
INVARIANTS ReadToolsChangeNothing ChangesAreEnabled AdmittedIsClean ExplainFormatsAgree ScriptAgreesWithTools
\* A behaviour is one decision.
CHECK_DEADLOCK FALSE
