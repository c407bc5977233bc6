--------------------------- MODULE GuardDecisions ---------------------------
(***************************************************************************)
(* One text put before every way into the guard, under one configuration:  *)
(* the agreement of the answers is what the tools rely on.  The guard has  *)
(* no memory, so a behaviour is one decision.                              *)
(***************************************************************************)
EXTENDS Guard

CONSTANT Cases   \* <<the security section of a profile, a text sent to it>>

ASSUME CasesAssumption ==
  \A case \in Cases : /\ case[1] \in Configs
                      /\ case[2].parses \in BOOLEAN
                      /\ case[2].stmts \in Seq(Stmts)
                      /\ ~case[2].parses => case[2].stmts = << >>

VARIABLES cfg, text, verdict

Undecided == [tool |-> "none"]

Init == /\ \E case \in Cases : cfg = case[1] /\ text = case[2]
        /\ verdict = Undecided

Decide == /\ verdict = Undecided
          /\ verdict' = [query   |-> Check(cfg, text, "query"),
                         execute |-> Check(cfg, text, "execute"),
                         script  |-> CheckScript(cfg, text),
                         explain |-> [f \in Formats |-> Explain(cfg, text, f)]]
          /\ UNCHANGED <<cfg, text>>

vars == <<cfg, text, verdict>>
Spec == Init /\ [][Decide]_vars

-----------------------------------------------------------------------------
Decided == verdict # Undecided

Only == text.stmts[1]
Each == {text.stmts[i] : i \in 1..Len(text.stmts)}

\* mysql_query and mysql_explain, both annotated read-only, never run a
\* statement that changes data, whatever the configuration enables: the
\* statement that EXPLAIN ANALYZE wraps counts, the one EXPLAIN plans does not.
ReadToolsChangeNothing ==
  Decided =>
    /\ verdict.query.allowed => ~Mutates(Only)
    /\ verdict.explain["analyze"].allowed => Only.kind = "select"

\* Nothing changes data in a way allowed_statements does not list; a REPLACE
\* needs delete and an upsert needs update (classify.go:17).
ChangesAreEnabled ==
  Decided =>
    /\ verdict.execute.allowed /\ Mutates(Only) =>
         StrongestEffect(Only) \in cfg.allowed
    /\ ~verdict.script.denied =>
         \A s \in Each : Mutates(s) => StrongestEffect(s) \in cfg.allowed

\* Whichever way a text came in, what is admitted touches whitelisted tables
\* only and has no dangerous construct in it.
AdmittedIsClean ==
  LET Clean(s) == s.tables \subseteq cfg.whitelist /\ ~s.danger
  IN Decided =>
       /\ verdict.query.allowed \/ verdict.execute.allowed => Clean(Only)
       /\ \A f \in Formats : verdict.explain[f].allowed => Clean(Only)
       /\ ~verdict.script.denied => \A s \in Each : Clean(s)

Alone(s) == [parses |-> TRUE, stmts |-> <<s>>]
OwnTool(s) == IF IsReadClass(Classify(s)) THEN "query" ELSE "execute"
AdmittedAlone(s) == Check(cfg, Alone(s), OwnTool(s)).allowed

\* mysql_script admits a script exactly when each of its statements, DDL
\* apart, would be admitted by the tool it belongs to, and the count is legal:
\* the two paths through the rules do not drift apart.
ScriptAgreesWithTools ==
  Decided =>
    (~verdict.script.denied
       <=> /\ text.parses
           /\ Len(text.stmts) \in 1..cfg.maxStatements
           /\ \A s \in Each : Classify(s) # "ddl" /\ AdmittedAlone(s))

\* For a bare statement the formats of mysql_explain agree, although tree is
\* checked without its prefix and the others with theirs.
ExplainFormatsAgree ==
  Decided /\ text.parses /\ Len(text.stmts) = 1 /\ Only.wrap = "none" =>
    \A f \in Formats \ {"other"} :
      verdict.explain[f].allowed = verdict.explain[""].allowed

=============================================================================
