----------------------------- MODULE GuardProofs -----------------------------
(***************************************************************************)
(* The properties of GuardDecisions hold for every set of tables, every    *)
(* configuration and every text.  First, what each way into the guard      *)
(* admits is computed once as a formula (CheckAdmits, ScriptAdmits,        *)
(* ExplainAdmits); the order of the rules decides which one is reported,   *)
(* and not whether the text is admitted.                                   *)
(***************************************************************************)
EXTENDS GuardDecisions, TLAPS

IsText(t) == /\ t.parses \in BOOLEAN
             /\ t.stmts \in Seq(Stmts)
             /\ ~t.parses => t.stmts = << >>

\* A statement breaks none of the rules of checkClassified.
Passes(c, s) == /\ Enabled(c, Classify(s))
                /\ ~Dangerous(s)
                /\ ~(c.blockUnfiltered /\ Unfiltered(s))
                /\ s.tables \subseteq c.whitelist

-----------------------------------------------------------------------------
LEMMA Least ==
  ASSUME NEW S \in SUBSET (1..4), S # {}
  PROVE  (CHOOSE i \in S : \A k \in S : i <= k) \in S
<1>1. \E i \in S : \A k \in S : i <= k
  <2>1. CASE 1 \in S
    BY <2>1
  <2>2. CASE 1 \notin S /\ 2 \in S
    BY <2>2
  <2>3. CASE 1 \notin S /\ 2 \notin S /\ 3 \in S
    BY <2>3
  <2>4. CASE 1 \notin S /\ 2 \notin S /\ 3 \notin S
    <3>1. \A i \in S : i = 4
      BY <2>4
    <3>2. PICK i \in S : TRUE
      OBVIOUS
    <3> QED  BY <3>1, <3>2
  <2> QED  BY <2>1, <2>2, <2>3, <2>4
<1> QED  BY <1>1

LEMMA Short == \A n \in 0..4 : 1..n \subseteq 1..4
OBVIOUS

\* Nothing is reported exactly when no rule is broken.
LEMMA FirstBrokenNone ==
  ASSUME NEW rules, Len(rules) \in 0..4,
         \A i \in 1..Len(rules) : rules[i].name # ""
  PROVE  FirstBroken(rules) = "" <=> \A i \in 1..Len(rules) : ~rules[i].broken
<1> DEFINE broken == {i \in 1..Len(rules) : rules[i].broken}
<1>1. CASE broken = {}
  BY <1>1 DEF FirstBroken
<1>2. CASE broken # {}
  <2>1. broken \subseteq 1..Len(rules) /\ 1..Len(rules) \subseteq 1..4
    BY Short
  <2>2. (CHOOSE i \in broken : \A k \in broken : i <= k) \in broken
    BY <1>2, <2>1, Least
  <2>3. rules[CHOOSE i \in broken : \A k \in broken : i <= k].name # ""
    BY <2>2
  <2> QED  BY <1>2, <2>3 DEF FirstBroken
<1> QED  BY <1>1, <1>2

LEMMA RootClassValues ==
  ASSUME NEW k \in RootKinds
  PROVE  /\ RootClass[k] \in Classes \cup {"utility", "unsupported"}
         /\ RootClass[k] = "select" <=> k = "select"
         /\ RootClass[k] = "insert" <=> k = "insert"
         /\ RootClass[k] = "update" <=> k \in {"upsert", "update"}
         /\ RootClass[k] = "delete" <=> k \in {"replace", "delete"}
         /\ RootClass[k] = "ddl" <=> k = "ddl"
         /\ RootClass[k] = "utility" <=> k = "show"
BY DEF RootKinds, RootClass, Classes

\* checkClassified admits exactly what breaks none of its rules.
LEMMA ClassifiedAdmits ==
  ASSUME NEW c \in Configs, NEW s \in Stmts
  PROVE  /\ CheckClassified(c, s).allowed \in BOOLEAN
         /\ CheckClassified(c, s).allowed <=> Passes(c, s)
<1> DEFINE rules == ClassifiedRules(c, s)
<1>0. /\ Len(rules) = 4
      /\ rules[1].name = "statement_not_enabled" /\ rules[2].name = "dangerous_construct"
      /\ rules[3].name = "unfiltered_write" /\ rules[4].name = "table_whitelist"
      /\ rules[1].broken <=> ~Enabled(c, Classify(s))
      /\ rules[2].broken <=> Dangerous(s)
      /\ rules[3].broken <=> c.blockUnfiltered /\ Unfiltered(s)
      /\ rules[4].broken <=> ~(s.tables \subseteq c.whitelist)
  BY DEF ClassifiedRules, Rule
<1> HIDE DEF rules
<1>1. Len(rules) \in 0..4 /\ \A i \in 1..Len(rules) : rules[i].name # ""
  <2>1. \A i \in 1..Len(rules) : i = 1 \/ i = 2 \/ i = 3 \/ i = 4
    BY <1>0
  <2>2. rules[1].name # "" /\ rules[2].name # "" /\ rules[3].name # "" /\ rules[4].name # ""
    BY <1>0
  <2>3. \A i \in 1..Len(rules) : rules[i].name # ""
    BY <2>1, <2>2
  <2>4. \A n : n = 4 => n \in 0..4
    OBVIOUS
  <2> QED  BY <1>0, <2>3, <2>4, Zenon
<1>2. (\A i \in 1..Len(rules) : ~rules[i].broken) <=> Passes(c, s)
  <2>1. (\A i \in 1..Len(rules) : ~rules[i].broken)
          <=> ~rules[1].broken /\ ~rules[2].broken /\ ~rules[3].broken /\ ~rules[4].broken
    BY <1>0
  <2> QED  BY <1>0, <2>1, Zenon DEF Passes
<1>3. FirstBroken(rules) = "" <=> Passes(c, s)
  BY <1>1, <1>2, FirstBrokenNone
<1>4. \A rule : /\ Outcome(s, rule).allowed \in BOOLEAN
                /\ Outcome(s, rule).allowed <=> rule = ""
  BY DEF Outcome, Admit, Deny
<1> QED  BY <1>3, <1>4 DEF CheckClassified, rules

-----------------------------------------------------------------------------
\* What Check admits: one statement, for this tool, that breaks no rule.
LEMMA CheckAdmits ==
  ASSUME NEW c \in Configs, NEW t, IsText(t), NEW tool
  PROVE  Check(c, t, tool).allowed
           <=> /\ Len(t.stmts) = 1
               /\ Classify(t.stmts[1]) # "unsupported"
               /\ ~WrongTool(t.stmts[1], tool)
               /\ Passes(c, t.stmts[1])
<1> DEFINE rules == << Rule("parse_error", ~t.parses \/ t.stmts = << >>),
                       Rule("multi_statement", Len(t.stmts) > 1) >>
<1>1. /\ Len(rules) = 2
      /\ rules[1].name = "parse_error" /\ rules[2].name = "multi_statement"
      /\ rules[1].broken <=> ~t.parses \/ t.stmts = << >>
      /\ rules[2].broken <=> Len(t.stmts) > 1
  BY DEF Rule
<1> HIDE DEF rules
<1>2. FirstBroken(rules) = "" <=> ~rules[1].broken /\ ~rules[2].broken
  <2>1. \A i \in 1..Len(rules) : i = 1 \/ i = 2
    BY <1>1
  <2>2. rules[1].name # "" /\ rules[2].name # ""
    BY <1>1
  <2>3. \A i \in 1..Len(rules) : rules[i].name # ""
    BY <2>1, <2>2
  <2>4. \A n : n = 2 => n \in 0..4
    OBVIOUS
  <2>5. Len(rules) \in 0..4
    BY <1>1, <2>4, Zenon
  <2>6. FirstBroken(rules) = "" <=> \A i \in 1..Len(rules) : ~rules[i].broken
    BY <2>3, <2>5, FirstBrokenNone
  <2>7. 1 \in 1..Len(rules) /\ 2 \in 1..Len(rules)
    BY <1>1
  <2> QED  BY <2>1, <2>6, <2>7
<1>3. ~rules[1].broken /\ ~rules[2].broken <=> Len(t.stmts) = 1
  <2>1. /\ Len(t.stmts) \in Nat
        /\ t.stmts = << >> <=> Len(t.stmts) = 0
        /\ ~t.parses => t.stmts = << >>
    BY DEF IsText
  <2>2. ~rules[1].broken <=> Len(t.stmts) # 0
    BY <1>1, <2>1, Zenon
  <2>3. ~rules[2].broken <=> ~(Len(t.stmts) > 1)
    BY <1>1, Zenon
  <2>4. Len(t.stmts) # 0 /\ ~(Len(t.stmts) > 1) <=> Len(t.stmts) = 1
    <3>1. \A n \in Nat : n # 0 /\ ~(n > 1) <=> n = 1
      OBVIOUS
    <3> QED  BY <2>1, <3>1, Zenon
  <2> QED  BY <2>2, <2>3, <2>4, Zenon
<1>4. CASE Len(t.stmts) # 1
  <2>1. Check(c, t, tool) = Deny(FirstBroken(rules))
    BY <1>2, <1>3, <1>4 DEF Check, rules
  <2>2. \A rule : ~Deny(rule).allowed
    BY DEF Deny
  <2> QED  BY <2>1, <2>2, <1>4
<1>5. CASE Len(t.stmts) = 1
  <2>1. t.stmts[1] \in Stmts
    BY <1>5 DEF IsText
  <2>2. Check(c, t, tool) =
          IF Classify(t.stmts[1]) = "unsupported" THEN Deny("unsupported_statement")
          ELSE IF WrongTool(t.stmts[1], tool) THEN Deny("wrong_tool")
          ELSE CheckClassified(c, t.stmts[1])
    BY <1>2, <1>3, <1>5 DEF Check, rules
  <2>3. \A rule : ~Deny(rule).allowed
    BY DEF Deny
  <2> QED  BY <1>5, <2>1, <2>2, <2>3, ClassifiedAdmits
<1> QED  BY <1>4, <1>5

\* What CheckScript admits: a legal number of statements, none of them DDL,
\* each of which breaks no rule.
LEMMA ScriptAdmits ==
  ASSUME NEW c \in Configs, NEW t, IsText(t)
  PROVE  ~CheckScript(c, t).denied
           <=> /\ t.parses
               /\ Len(t.stmts) \in 1..c.maxStatements
               /\ \A i \in 1..Len(t.stmts) :
                    /\ Classify(t.stmts[i]) \notin {"unsupported", "ddl"}
                    /\ Passes(c, t.stmts[i])
<1> DEFINE rules == << Rule("parse_error", ~t.parses),
                       Rule("script_empty", t.stmts = << >>),
                       Rule("script_too_long", TooLong(c, t)) >>
           bad == {i \in 1..Len(t.stmts) : ~CheckInScript(c, t.stmts[i]).allowed}
<1>1. /\ Len(rules) = 3
      /\ rules[1].name = "parse_error" /\ rules[2].name = "script_empty"
      /\ rules[3].name = "script_too_long"
      /\ rules[1].broken <=> ~t.parses
      /\ rules[2].broken <=> t.stmts = << >>
      /\ rules[3].broken <=> TooLong(c, t)
  BY DEF Rule
<1>2. ~CheckScript(c, t).denied <=> FirstBroken(rules) = "" /\ bad = {}
  <2> HIDE DEF rules, bad
  <2>1. CheckScript(c, t).denied = TRUE \/ CheckScript(c, t).denied = FALSE
    BY DEF CheckScript
  <2> QED  BY DEF CheckScript, rules, bad
<1> HIDE DEF rules
<1>3. FirstBroken(rules) = "" <=> ~rules[1].broken /\ ~rules[2].broken /\ ~rules[3].broken
  <2>1. \A i \in 1..Len(rules) : i = 1 \/ i = 2 \/ i = 3
    BY <1>1
  <2>2. rules[1].name # "" /\ rules[2].name # "" /\ rules[3].name # ""
    BY <1>1
  <2>3. \A i \in 1..Len(rules) : rules[i].name # ""
    BY <2>1, <2>2
  <2>4. \A n : n = 3 => n \in 0..4
    OBVIOUS
  <2>5. Len(rules) \in 0..4
    BY <1>1, <2>4, Zenon
  <2>6. FirstBroken(rules) = "" <=> \A i \in 1..Len(rules) : ~rules[i].broken
    BY <2>3, <2>5, FirstBrokenNone
  <2>7. 1 \in 1..Len(rules) /\ 2 \in 1..Len(rules) /\ 3 \in 1..Len(rules)
    BY <1>1
  <2> QED  BY <2>1, <2>6, <2>7
<1>4. /\ Len(t.stmts) \in Nat /\ c.maxStatements \in Nat
      /\ t.stmts = << >> <=> Len(t.stmts) = 0
  BY DEF IsText, Configs
<1>5. ~rules[1].broken /\ ~rules[2].broken /\ ~rules[3].broken
        <=> t.parses /\ Len(t.stmts) \in 1..c.maxStatements
  BY <1>1, <1>4 DEF TooLong
<1>6. \A i \in 1..Len(t.stmts) :
        CheckInScript(c, t.stmts[i]).allowed
          <=> /\ Classify(t.stmts[i]) \notin {"unsupported", "ddl"}
              /\ Passes(c, t.stmts[i])
  <2> TAKE i \in 1..Len(t.stmts)
  <2>1. t.stmts[i] \in Stmts
    BY DEF IsText
  <2>2. \A rule : ~Deny(rule).allowed
    BY DEF Deny
  <2> QED  BY <2>1, <2>2, ClassifiedAdmits DEF CheckInScript
<1>7. bad = {} <=> \A i \in 1..Len(t.stmts) : CheckInScript(c, t.stmts[i]).allowed
  OBVIOUS
<1> QED  BY <1>2, <1>3, <1>5, <1>6, <1>7

\* What mysql_explain admits, in a format the handler knows: one statement of
\* class select, that breaks no rule as it is put to Check.
ExplainPasses(c, s, format) ==
  /\ s.wrap # "none" => format = "tree"
  /\ "select" \in c.allowed /\ ~Dangerous(s) /\ s.tables \subseteq c.whitelist

LEMMA ExplainAdmits ==
  ASSUME NEW c \in Configs, NEW t, IsText(t), NEW format \in Formats \ {"other"}
  PROVE  Explain(c, t, format).allowed
           <=> /\ Len(t.stmts) = 1 /\ Classify(t.stmts[1]) = "select"
               /\ ExplainPasses(c, t.stmts[1], format)
<1> DEFINE s == t.stmts[1]
<1>1. \A rule : ~Deny(rule).allowed
  BY DEF Deny
<1>2. ~t.parses => Len(t.stmts) # 1
  <2>1. ~t.parses => t.stmts = << >>
    BY DEF IsText
  <2>2. Len(<< >>) # 1
    OBVIOUS
  <2> QED  BY <2>1, <2>2, Zenon
<1>3. CASE Len(t.stmts) # 1 \/ Classify(s) # "select"
  <2>1. ClassifyOne(t) # "select"
    BY <1>3 DEF ClassifyOne
  <2>2. Explain(c, t, format) \in {Deny("invalid_query"), Deny("not_select")}
    BY <2>1 DEF Explain
  <2> QED  BY <1>1, <1>3, <2>2
<1>4. CASE Len(t.stmts) = 1 /\ Classify(s) = "select"
  <2>0. s \in Stmts
    BY <1>4 DEF IsText
  <2>1. s \in Stmts /\ s.wrap # "explain" /\ s.wrap \in Wraps /\ s.kind = "select"
    <3>1. s.kind \in RootKinds /\ s.wrap \in Wraps
      BY <2>0 DEF Stmts
    <3> QED  BY <1>4, <2>0, <3>1, RootClassValues DEF Classify
  <2>2. ClassifyOne(t) = "select"
    BY <1>2, <1>4 DEF ClassifyOne
  <2>3. CASE format = "tree"
    <3>1. Explain(c, t, format) = Check(c, t, "query")
      BY <2>2, <2>3 DEF Explain, ExplainTree
    <3>2. Passes(c, s) <=> ExplainPasses(c, s, format)
      BY <1>4, <2>1, <2>3 DEF Passes, ExplainPasses, Enabled, IsReadClass, Unfiltered
    <3>3. ~WrongTool(s, "query")
      BY <1>4 DEF WrongTool, IsReadClass
    <3> QED  BY <1>4, <3>1, <3>2, <3>3, CheckAdmits
  <2>4. CASE format # "tree"
    <3> DEFINE wrap == IF format = "analyze" THEN "analyze" ELSE "explain"
               p == [s EXCEPT !.wrap = wrap]
    <3>1. Explain(c, t, format) = Check(c, Prefixed(t, wrap), "query")
      BY <2>2, <2>4 DEF Explain
    <3>2. CASE s.wrap # "none"
      <4>1. Prefixed(t, wrap) = [parses |-> FALSE, stmts |-> << >>]
        BY <3>2 DEF Prefixed
      <4>2. IsText(Prefixed(t, wrap)) /\ Len(Prefixed(t, wrap).stmts) = 0
        <5>1. Prefixed(t, wrap).parses = FALSE /\ Prefixed(t, wrap).stmts = << >>
          BY <4>1
        <5>2. << >> \in Seq(Stmts) /\ Len(<< >>) = 0
          OBVIOUS
        <5> QED  BY <5>1, <5>2, Zenon DEF IsText
      <4> QED  BY <3>1, <3>2, <2>4, <4>2, CheckAdmits DEF ExplainPasses
    <3>3. CASE s.wrap = "none"
      <4>1. Prefixed(t, wrap) = [parses |-> TRUE, stmts |-> <<p>>]
        BY <3>3 DEF Prefixed
      <4>2. /\ p \in Stmts /\ p.wrap \in {"analyze", "explain"} /\ p.kind = "select"
            /\ p.danger = s.danger /\ p.tables = s.tables
        BY <2>1 DEF Stmts, Wraps
      <4>3. IsText(Prefixed(t, wrap)) /\ Prefixed(t, wrap).stmts = <<p>>
        <5> HIDE DEF p
        <5>1. Prefixed(t, wrap).parses = TRUE /\ Prefixed(t, wrap).stmts = <<p>>
          BY <4>1
        <5>2. <<p>> \in Seq(Stmts)
          BY <4>2
        <5> QED  BY <5>1, <5>2, Zenon DEF IsText
      <4>4. Classify(p) \in {"select", "utility"}
        BY <4>2, RootClassValues DEF Classify, RootKinds
      <4>5. Passes(c, p) <=> ExplainPasses(c, s, format)
        BY <3>3, <4>2, <4>4 DEF Passes, ExplainPasses, Enabled, IsReadClass, Unfiltered, Dangerous
      <4>6. ~WrongTool(p, "query")
        BY <4>4 DEF WrongTool, IsReadClass
      <4>7. Check(c, Prefixed(t, wrap), "query").allowed <=> Passes(c, p)
        BY <4>3, <4>4, <4>6, CheckAdmits
      <4> QED  BY <1>4, <3>1, <4>5, <4>7
    <3> QED  BY <3>2, <3>3
  <2> QED  BY <2>3, <2>4
<1> QED  BY <1>3, <1>4

LEMMA ExplainDecides == \A c, t, format : Explain(c, t, format).allowed \in BOOLEAN
<1>1. \A rule : Deny(rule).allowed \in BOOLEAN
  BY DEF Deny
<1>2. \A c, s : CheckClassified(c, s).allowed \in BOOLEAN
  BY DEF CheckClassified, Outcome, Admit, Deny
<1>3. \A c, t, tool : Check(c, t, tool).allowed \in BOOLEAN
  BY <1>1, <1>2 DEF Check
<1> QED  BY <1>1, <1>3 DEF Explain, ExplainTree

-----------------------------------------------------------------------------
Verdict == [query   |-> Check(cfg, text, "query"),
            execute |-> Check(cfg, text, "execute"),
            script  |-> CheckScript(cfg, text),
            explain |-> [f \in Formats |-> Explain(cfg, text, f)]]

Inv == /\ cfg \in Configs /\ IsText(text)
       /\ verdict # Undecided => verdict = Verdict

\* A verdict is what the guard says of the text, and stays.
THEOREM Inductive == Spec => []Inv
<1>1. Init => Inv
  BY CasesAssumption DEF Init, Inv, IsText
<1>2. Inv /\ [Decide]_vars => Inv'
  <2> SUFFICES ASSUME Inv, [Decide]_vars PROVE Inv'
    OBVIOUS
  <2>1. CASE UNCHANGED vars
    BY <2>1, Zenon DEF vars, Inv, Verdict
  <2>2. CASE Decide
    <3>1. cfg' = cfg /\ text' = text /\ verdict' = Verdict
      BY <2>2 DEF Decide, Verdict
    <3>2. verdict' = Verdict'
      BY <3>1 DEF Verdict
    <3> QED  BY <3>1, <3>2 DEF Inv
  <2> QED  BY <2>1, <2>2
<1> QED  BY <1>1, <1>2, PTL DEF Spec

LEMMA VerdictFields ==
  ASSUME Inv, Decided
  PROVE  /\ verdict.query = Check(cfg, text, "query")
         /\ verdict.execute = Check(cfg, text, "execute")
         /\ verdict.script = CheckScript(cfg, text)
         /\ \A f \in Formats : verdict.explain[f] = Explain(cfg, text, f)
BY DEF Inv, Decided, Verdict

\* What a statement may change is bounded by its class.
LEMMA EffectOfClass ==
  ASSUME NEW s \in Stmts, Classify(s) # "unsupported"
  PROVE  /\ Mutates(s) => /\ ~IsReadClass(Classify(s))
                          /\ StrongestEffect(s) = Classify(s)
         /\ Classify(s) = "select" => s.kind = "select"
<1>1. s.kind \in RootKinds /\ s.wrap \in Wraps
  BY DEF Stmts
<1>2. CASE s.wrap = "explain"
  BY <1>2 DEF Mutates, Classify
<1>3. CASE s.wrap # "explain"
  <2>1. Classify(s) = RootClass[s.kind]
    BY <1>3 DEF Classify
  <2>2. CASE s.kind \in {"select", "show"}
    BY <1>1, <2>1, <2>2, RootClassValues DEF Mutates
  <2>3. CASE s.kind \notin {"select", "show"}
    <3>1. s.kind \in {"insert", "replace", "upsert", "update", "delete", "ddl"}
      BY <1>1, <2>1, <2>3 DEF RootKinds, RootClass
    <3>2. StrongestEffect(s) = RootClass[s.kind]
      BY <3>1 DEF StrongestEffect, RootClass
    <3>3. RootClass[s.kind] \notin {"select", "utility"}
      BY <3>1 DEF RootClass
    <3> QED  BY <2>1, <3>2, <3>3 DEF IsReadClass
  <2> QED  BY <2>2, <2>3
<1> QED  BY <1>2, <1>3

-----------------------------------------------------------------------------
\* No configuration lets a tool that is annotated read-only run a statement
\* that changes data.
THEOREM ReadsAreReads == Spec => []ReadToolsChangeNothing
<1>1. Inv => ReadToolsChangeNothing
  <2> SUFFICES ASSUME Inv, Decided PROVE ReadToolsChangeNothing
    BY DEF ReadToolsChangeNothing
  <2>1. cfg \in Configs /\ IsText(text)
    BY DEF Inv
  <2>2. Len(text.stmts) = 1 => Only \in Stmts
    BY <2>1 DEF IsText, Only
  <2>3. verdict.query.allowed => ~Mutates(Only)
    <3> SUFFICES ASSUME Check(cfg, text, "query").allowed PROVE ~Mutates(Only)
      BY VerdictFields
    <3>1. /\ Len(text.stmts) = 1 /\ Classify(Only) # "unsupported"
          /\ ~WrongTool(Only, "query")
      BY <2>1, CheckAdmits DEF Only
    <3> QED  BY <2>2, <3>1, EffectOfClass DEF WrongTool
  <2>4. verdict.explain["analyze"].allowed => Only.kind = "select"
    <3> SUFFICES ASSUME Explain(cfg, text, "analyze").allowed PROVE Only.kind = "select"
      BY VerdictFields DEF Formats
    <3>1. Len(text.stmts) = 1 /\ Classify(Only) = "select"
      BY <2>1, ExplainAdmits DEF Only, Formats
    <3> QED  BY <2>2, <3>1, EffectOfClass
  <2> QED  BY <2>3, <2>4 DEF ReadToolsChangeNothing
<1> QED  BY <1>1, Inductive, PTL

\* Data changes only in ways that allowed_statements lists.
THEOREM ChangesEnabled == Spec => []ChangesAreEnabled
<1>1. Inv => ChangesAreEnabled
  <2> SUFFICES ASSUME Inv, Decided PROVE ChangesAreEnabled
    BY DEF ChangesAreEnabled
  <2>1. cfg \in Configs /\ IsText(text)
    BY DEF Inv
  <2>2. ASSUME NEW s \in Stmts, Classify(s) # "unsupported", Passes(cfg, s), Mutates(s)
        PROVE  StrongestEffect(s) \in cfg.allowed
    BY <2>2, EffectOfClass DEF Passes, Enabled
  <2>3. verdict.execute.allowed /\ Mutates(Only) => StrongestEffect(Only) \in cfg.allowed
    <3> SUFFICES ASSUME Check(cfg, text, "execute").allowed, Mutates(Only)
                 PROVE  StrongestEffect(Only) \in cfg.allowed
      BY VerdictFields
    <3>1. /\ Len(text.stmts) = 1 /\ Classify(Only) # "unsupported"
          /\ Passes(cfg, Only)
      BY <2>1, CheckAdmits DEF Only
    <3>2. Only \in Stmts
      BY <2>1, <3>1 DEF IsText, Only
    <3> QED  BY <2>2, <3>1, <3>2
  <2>4. ~verdict.script.denied => \A s \in Each : Mutates(s) => StrongestEffect(s) \in cfg.allowed
    <3> SUFFICES ASSUME ~CheckScript(cfg, text).denied, NEW i \in 1..Len(text.stmts),
                        Mutates(text.stmts[i])
                 PROVE  StrongestEffect(text.stmts[i]) \in cfg.allowed
      BY VerdictFields DEF Each
    <3>1. Classify(text.stmts[i]) # "unsupported" /\ Passes(cfg, text.stmts[i])
      BY <2>1, ScriptAdmits
    <3>2. text.stmts[i] \in Stmts
      BY <2>1 DEF IsText
    <3> QED  BY <2>2, <3>1, <3>2
  <2> QED  BY <2>3, <2>4 DEF ChangesAreEnabled
<1> QED  BY <1>1, Inductive, PTL

\* No way in admits a table off the whitelist or a dangerous construct.
THEOREM AdmittedClean == Spec => []AdmittedIsClean
<1> DEFINE Clean(s) == s.tables \subseteq cfg.whitelist /\ ~s.danger
<1>1. Inv => AdmittedIsClean
  <2> SUFFICES ASSUME Inv, Decided
               PROVE  /\ verdict.query.allowed \/ verdict.execute.allowed => Clean(Only)
                      /\ \A f \in Formats : verdict.explain[f].allowed => Clean(Only)
                      /\ ~verdict.script.denied => \A s \in Each : Clean(s)
    BY Zenon DEF AdmittedIsClean
  <2>1. cfg \in Configs /\ IsText(text)
    BY DEF Inv
  <2>2. \A s : Passes(cfg, s) => Clean(s)
    BY DEF Passes, Dangerous
  <2>3. verdict.query.allowed \/ verdict.execute.allowed => Clean(Only)
    <3>1. \A tool : Check(cfg, text, tool).allowed => Passes(cfg, Only)
      BY <2>1, CheckAdmits DEF Only
    <3> QED  BY <2>2, <3>1, VerdictFields
  <2>4. \A f \in Formats : verdict.explain[f].allowed => Clean(Only)
    <3> SUFFICES ASSUME NEW f \in Formats, Explain(cfg, text, f).allowed PROVE Clean(Only)
      BY VerdictFields
    <3>1. CASE f = "other"
      BY <3>1 DEF Explain, Deny
    <3>2. CASE f # "other"
      <4>1. ExplainPasses(cfg, Only, f)
        BY <2>1, <3>2, ExplainAdmits DEF Only
      <4> QED  BY <4>1 DEF ExplainPasses, Dangerous
    <3> QED  BY <3>1, <3>2
  <2>5. ~verdict.script.denied => \A s \in Each : Clean(s)
    <3>1. ~CheckScript(cfg, text).denied => \A i \in 1..Len(text.stmts) : Passes(cfg, text.stmts[i])
      BY <2>1, ScriptAdmits
    <3> QED  BY <2>2, <3>1, VerdictFields DEF Each
  <2> QED  BY <2>3, <2>4, <2>5
<1> QED  BY <1>1, Inductive, PTL

\* mysql_script and the tools for one statement admit the same statements.
THEOREM ScriptAgrees == Spec => []ScriptAgreesWithTools
<1>1. Inv => ScriptAgreesWithTools
  <2> SUFFICES ASSUME Inv, Decided PROVE ScriptAgreesWithTools
    BY DEF ScriptAgreesWithTools
  <2>1. cfg \in Configs /\ IsText(text)
    BY DEF Inv
  <2>2. ASSUME NEW s \in Stmts
        PROVE  AdmittedAlone(s) <=> Classify(s) # "unsupported" /\ Passes(cfg, s)
    <3>1. Alone(s).parses = TRUE /\ Alone(s).stmts = <<s>>
      BY DEF Alone
    <3>2. <<s>> \in Seq(Stmts) /\ Len(<<s>>) = 1 /\ <<s>>[1] = s
      OBVIOUS
    <3>3. IsText(Alone(s)) /\ Len(Alone(s).stmts) = 1 /\ Alone(s).stmts[1] = s
      BY <3>1, <3>2, Zenon DEF IsText
    <3>4. ~WrongTool(s, OwnTool(s))
      BY DEF WrongTool, OwnTool, IsReadClass
    <3> QED  BY <2>1, <3>3, <3>4, CheckAdmits DEF AdmittedAlone
  <2>3. \A i \in 1..Len(text.stmts) : text.stmts[i] \in Stmts
    BY <2>1 DEF IsText
  <2>4. (\A s \in Each : Classify(s) # "ddl" /\ AdmittedAlone(s))
          <=> \A i \in 1..Len(text.stmts) : /\ Classify(text.stmts[i]) \notin {"unsupported", "ddl"}
                                           /\ Passes(cfg, text.stmts[i])
    BY <2>2, <2>3 DEF Each
  <2> QED  BY <2>1, <2>4, ScriptAdmits, VerdictFields DEF ScriptAgreesWithTools
<1> QED  BY <1>1, Inductive, PTL

\* The formats of mysql_explain agree on a bare statement.
THEOREM FormatsAgree == Spec => []ExplainFormatsAgree
<1>1. Inv => ExplainFormatsAgree
  <2> SUFFICES ASSUME Inv, Decided, Len(text.stmts) = 1, Only.wrap = "none",
                      NEW f \in Formats \ {"other"}
               PROVE  verdict.explain[f].allowed = verdict.explain[""].allowed
    BY DEF ExplainFormatsAgree
  <2>1. cfg \in Configs /\ IsText(text)
    BY DEF Inv
  <2>2. ASSUME NEW g \in Formats \ {"other"}
        PROVE  Explain(cfg, text, g).allowed
                 <=> /\ Classify(Only) = "select" /\ "select" \in cfg.allowed
                     /\ ~Dangerous(Only) /\ Only.tables \subseteq cfg.whitelist
    BY <2>1, ExplainAdmits DEF ExplainPasses, Only
  <2>3. "" \in Formats \ {"other"}
    BY DEF Formats
  <2>4. verdict.explain[f] = Explain(cfg, text, f) /\ verdict.explain[""] = Explain(cfg, text, "")
    BY <2>3, VerdictFields
  <2>5. Explain(cfg, text, f).allowed \in BOOLEAN /\ Explain(cfg, text, "").allowed \in BOOLEAN
    BY ExplainDecides
  <2>6. Explain(cfg, text, f).allowed <=> Explain(cfg, text, "").allowed
    BY <2>2, <2>3
  <2> QED  BY <2>4, <2>5, <2>6
<1> QED  BY <1>1, Inductive, PTL
=============================================================================
