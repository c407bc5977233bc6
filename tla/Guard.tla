-------------------------------- MODULE Guard --------------------------------
(***************************************************************************)
(* internal/guard: the decision on a text that a tool was given.  The      *)
(* guard has no state; what can go wrong is the order of its rules and the *)
(* agreement of its three ways in: Check (mysql_query, mysql_execute),     *)
(* CheckScript (mysql_script) and ClassifyOne followed by Check            *)
(* (mysql_explain).  The parser is a library: a text is what it returns, a *)
(* failure or a sequence of statements, and a statement is the facts the   *)
(* rules ask of its AST.                                                   *)
(***************************************************************************)
EXTENDS Integers, Sequences

CONSTANTS Tables       \* the tables that statements may name

(***************************************************************************)
(* A statement: the kind of its root, or of the root inside EXPLAIN and    *)
(* EXPLAIN ANALYZE; whether it has a WHERE; whether some node of it is a   *)
(* SELECT ... INTO or LOAD_FILE(); the tables ExtractTables finds.         *)
(***************************************************************************)
RootKinds == {"select", "insert", "replace", "upsert", "update", "delete",
              "show", "ddl", "other"}
Wraps == {"none", "explain", "analyze"}

Stmts == [kind : RootKinds, wrap : Wraps, where : BOOLEAN, danger : BOOLEAN,
          tables : SUBSET Tables]

\* A text as the parser sees it.
Texts(n) == [parses : BOOLEAN, stmts : UNION {[1..k -> Stmts] : k \in 0..n}]

\* SecurityConfig, as New reads it.
Classes == {"select", "insert", "update", "delete", "ddl"}
Configs == [allowed : SUBSET Classes, whitelist : SUBSET Tables,
            blockUnfiltered : BOOLEAN, maxStatements : Nat]

-----------------------------------------------------------------------------
(***************************************************************************)
(* classify: an allowlist, so that what it does not name is unsupported.   *)
(***************************************************************************)
RootClass == [select |-> "select", insert |-> "insert", replace |-> "delete",
              upsert |-> "update", update |-> "update", delete |-> "delete",
              show |-> "utility", ddl |-> "ddl", other |-> "unsupported"]

\* Mutants: EXPLAIN ANALYZE is taken for a plan; REPLACE for an INSERT.
ClassifyAnalyzeAsPlan(s) == IF s.wrap = "none" THEN RootClass[s.kind] ELSE "utility"
ClassifyReplaceAsInsert(s) == IF s.wrap = "explain" THEN "utility"
                              ELSE IF s.kind = "replace" THEN "insert"
                              ELSE RootClass[s.kind]

\* EXPLAIN is a plan; EXPLAIN ANALYZE runs what is inside it.
Classify(s) == IF s.wrap = "explain" THEN "utility" ELSE RootClass[s.kind]

IsReadClass(class) == class \in {"select", "utility"}

Enabled(cfg, class) == (IF IsReadClass(class) THEN "select" ELSE class) \in cfg.allowed

\* Mutant: the search for dangerous nodes does not enter an EXPLAIN.
DangerousAtRoot(s) == s.danger /\ s.wrap = "none"

\* checkDangerous walks the whole AST.
Dangerous(s) == s.danger

\* checkUnfiltered looks at the root of the statement only.
Unfiltered(s) == s.wrap = "none" /\ s.kind \in {"update", "delete"} /\ ~s.where

-----------------------------------------------------------------------------
\* A denial, or the admission of a statement.
Deny(rule) == [allowed |-> FALSE, rule |-> rule, class |-> "", tables |-> {}]
Admit(s) == [allowed |-> TRUE, rule |-> "", class |-> Classify(s), tables |-> s.tables]

\* The rule that decides: the first of the sequence that is broken, or "".
FirstBroken(rules) ==
  LET broken == {i \in 1..Len(rules) : rules[i].broken}
  IN IF broken = {} THEN ""
     ELSE rules[CHOOSE i \in broken : \A k \in broken : i <= k].name

Rule(name, broken) == [name |-> name, broken |-> broken]

\* The rules of checkClassified, in the order in which it applies them.
ClassifiedRules(cfg, s) ==
  << Rule("statement_not_enabled", ~Enabled(cfg, Classify(s))),
     Rule("dangerous_construct", Dangerous(s)),
     Rule("unfiltered_write", cfg.blockUnfiltered /\ Unfiltered(s)),
     Rule("table_whitelist", ~(s.tables \subseteq cfg.whitelist)) >>

\* Only a denial by the whitelist carries the class and the tables on.
Outcome(s, rule) ==
  IF rule = "" THEN Admit(s)
  ELSE IF rule = "table_whitelist"
       THEN [Admit(s) EXCEPT !.allowed = FALSE, !.rule = rule]
       ELSE Deny(rule)

CheckClassified(cfg, s) == Outcome(s, FirstBroken(ClassifiedRules(cfg, s)))

(***************************************************************************)
(* Check: one statement, of a class that the tool is for, that passes      *)
(* checkClassified.                                                        *)
(***************************************************************************)
WrongTool(s, tool) == (tool = "query") # IsReadClass(Classify(s))

Check(cfg, text, tool) ==
  LET rule == FirstBroken(
        << Rule("parse_error", ~text.parses \/ text.stmts = << >>),
           Rule("multi_statement", Len(text.stmts) > 1) >>)
      s == text.stmts[1]
  IN IF rule # "" THEN Deny(rule)
     ELSE IF Classify(s) = "unsupported" THEN Deny("unsupported_statement")
     ELSE IF WrongTool(s, tool) THEN Deny("wrong_tool")
     ELSE CheckClassified(cfg, s)

-----------------------------------------------------------------------------
\* Mutant: a script may hold what mysql_execute may run.
CheckInScriptWithDDL(cfg, s) ==
  IF Classify(s) = "unsupported" THEN Deny("unsupported_statement")
  ELSE CheckClassified(cfg, s)

\* One statement of a script: no tool to match, and no DDL.
CheckInScript(cfg, s) ==
  IF Classify(s) = "unsupported" THEN Deny("unsupported_statement")
  ELSE IF Classify(s) = "ddl" THEN Deny("script_ddl")
  ELSE CheckClassified(cfg, s)

TooLong(cfg, text) == Len(text.stmts) > cfg.maxStatements

FirstOf(bad) == CHOOSE i \in bad : \A k \in bad : i <= k

(***************************************************************************)
(* CheckScript: the rules on the whole script, then each statement in      *)
(* turn; the first denial is the script's.                                 *)
(***************************************************************************)
CheckScript(cfg, text) ==
  LET rule == FirstBroken(
        << Rule("parse_error", ~text.parses),
           Rule("script_empty", text.stmts = << >>),
           Rule("script_too_long", TooLong(cfg, text)) >>)
      bad == {i \in 1..Len(text.stmts) : ~CheckInScript(cfg, text.stmts[i]).allowed}
      Denied(i, decision) == [denied |-> TRUE, index |-> i, decision |-> decision]
  IN IF rule # "" THEN Denied(1, Deny(rule))
     ELSE IF bad # {} THEN Denied(FirstOf(bad),
                                  CheckInScript(cfg, text.stmts[FirstOf(bad)]))
     ELSE [denied |-> FALSE, index |-> 0, decision |-> Deny("")]

-----------------------------------------------------------------------------
(***************************************************************************)
(* mysql_explain (internal/server/explain.go): ClassifyOne on the bare     *)
(* text, then Check on the text that is to be run.  The parser knows       *)
(* EXPLAIN and EXPLAIN ANALYZE but no EXPLAIN FORMAT=TREE, so that format  *)
(* has the bare text checked instead.                                      *)
(***************************************************************************)
Formats == {"", "traditional", "json", "tree", "analyze", "other"}

\* The error of ClassifyOne, or the class.
ClassifyOne(text) ==
  IF ~text.parses \/ Len(text.stmts) # 1 THEN "error"
  ELSE IF Classify(text.stmts[1]) = "unsupported" THEN "error"
  ELSE Classify(text.stmts[1])

\* A constant EXPLAIN prefix before a text that parses to one statement; the
\* grammar has no EXPLAIN of an EXPLAIN.
Prefixed(text, wrap) ==
  LET s == text.stmts[1]
  IN IF s.wrap # "none" THEN [parses |-> FALSE, stmts |-> << >>]
     ELSE [parses |-> TRUE, stmts |-> << [s EXCEPT !.wrap = wrap] >>]

\* Mutant: the tree format goes to the executor as ClassifyOne left it.
TreeUnchecked(cfg, text) == Admit(text.stmts[1])

\* runExplainTree: the decision on the bare text.
ExplainTree(cfg, text) == Check(cfg, text, "query")

Explain(cfg, text, format) ==
  IF ClassifyOne(text) = "error" THEN Deny("invalid_query")
  ELSE IF ClassifyOne(text) # "select" THEN Deny("not_select")
  ELSE IF format = "analyze" THEN Check(cfg, Prefixed(text, "analyze"), "query")
  ELSE IF format = "tree" THEN ExplainTree(cfg, text)
  ELSE IF format = "other" THEN Deny("invalid_format")
  ELSE Check(cfg, Prefixed(text, "explain"), "query")

-----------------------------------------------------------------------------
\* What a statement does to the database when it runs, in MySQL's terms and
\* not in classify's: a plan changes nothing, ANALYZE runs its statement.
Mutates(s) == s.wrap # "explain" /\ s.kind \notin {"select", "show"}

\* The strongest change it can make to rows that exist.
StrongestEffect(s) == CASE s.kind \in {"replace", "delete"} -> "delete"
                        [] s.kind \in {"upsert", "update"}  -> "update"
                        [] OTHER                            -> s.kind
=============================================================================
