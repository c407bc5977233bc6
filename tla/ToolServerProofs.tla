--------------------------- MODULE ToolServerProofs ---------------------------
(***************************************************************************)
(* Guard and executor composed.  Nothing of either is proved again: every  *)
(* request that the guard admits makes a job as the executor expects it    *)
(* (ServedJobs), every step of the server is a step of the executors or    *)
(* leaves them alone (ExecutorStep), so that the executor's invariant      *)
(* holds here, and Handler ties each of its calls to the request it        *)
(* serves.  The properties follow from the two together.                   *)
(***************************************************************************)
EXTENDS ToolServer, TLAPS

EP == INSTANCE ExecutorProofs
GP == INSTANCE GuardProofs WITH Cases <- {}, cfg <- req, text <- req, verdict <- req

-----------------------------------------------------------------------------
\* The operators of the guard are the same under both names: first its classes,
LEMMA SameClasses == \A s : G!Classify(s) = GP!Classify(s)
BY DEF G!Classify, G!RootClass, GP!Classify, GP!RootClass

\* the rule that decides,
LEMMA SameFirst == \A rules : G!FirstBroken(rules) = GP!FirstBroken(rules)
BY DEF G!FirstBroken, GP!FirstBroken

\* what comes of it,
LEMMA SameOutcome ==
  /\ \A rule : G!Deny(rule) = GP!Deny(rule)
  /\ \A s, rule : G!Outcome(s, rule) = GP!Outcome(s, rule)
BY SameClasses DEF G!Deny, G!Admit, G!Outcome, GP!Deny, GP!Admit, GP!Outcome

\* and the checks built from these: of a classified statement,
LEMMA SameClassified ==
  \A c, s : G!CheckClassified(c, s) = GP!CheckClassified(c, s)
<1> SUFFICES ASSUME NEW c, NEW s
             PROVE  G!CheckClassified(c, s) = GP!CheckClassified(c, s)
  OBVIOUS
<1>1. G!ClassifiedRules(c, s) = GP!ClassifiedRules(c, s)
  BY SameClasses
     DEF G!ClassifiedRules, G!Rule, G!Enabled, G!IsReadClass, G!Dangerous, G!Unfiltered,
         GP!ClassifiedRules, GP!Rule, GP!Enabled, GP!IsReadClass, GP!Dangerous,
         GP!Unfiltered
<1> QED  BY <1>1, SameFirst, SameOutcome DEF G!CheckClassified, GP!CheckClassified

\* of a single statement,
LEMMA SameCheck ==
  \A c, t, tool : G!Check(c, t, tool) = GP!Check(c, t, tool)
BY SameClasses, SameFirst, SameOutcome, SameClassified
   DEF G!Check, G!Rule, G!WrongTool, G!IsReadClass,
       GP!Check, GP!Rule, GP!WrongTool, GP!IsReadClass

\* of a statement of a script,
LEMMA SameCheckInScript ==
  \A c, s : G!CheckInScript(c, s) = GP!CheckInScript(c, s)
BY SameClasses, SameOutcome, SameClassified DEF G!CheckInScript, GP!CheckInScript

\* and of a whole script.
LEMMA SameCheckScript ==
  ASSUME NEW c, NEW t
  PROVE  G!CheckScript(c, t).denied <=> GP!CheckScript(c, t).denied
<1>1. << G!Rule("parse_error", ~t.parses), G!Rule("script_empty", t.stmts = << >>),
         G!Rule("script_too_long", G!TooLong(c, t)) >>
      = << GP!Rule("parse_error", ~t.parses), GP!Rule("script_empty", t.stmts = << >>),
           GP!Rule("script_too_long", GP!TooLong(c, t)) >>
  BY DEF G!Rule, G!TooLong, GP!Rule, GP!TooLong
<1>2. {i \in 1..Len(t.stmts) : ~G!CheckInScript(c, t.stmts[i]).allowed}
      = {i \in 1..Len(t.stmts) : ~GP!CheckInScript(c, t.stmts[i]).allowed}
  BY SameCheckInScript
<1> QED  BY <1>1, <1>2, SameFirst DEF G!CheckScript, GP!CheckScript

\* The sets that texts and configurations come from, and the effects, are the same.
LEMMA SameFacts ==
  /\ G!Stmts = GP!Stmts /\ G!Configs = GP!Configs
  /\ \A s : /\ G!Classify(s) = GP!Classify(s) /\ G!Mutates(s) = GP!Mutates(s)
            /\ G!StrongestEffect(s) = GP!StrongestEffect(s)
BY DEF G!Stmts, G!RootKinds, G!Wraps, G!Configs, G!Classes, G!Classify, G!RootClass,
       G!Mutates, G!StrongestEffect,
       GP!Stmts, GP!RootKinds, GP!Wraps, GP!Configs, GP!Classes, GP!Classify, GP!RootClass,
       GP!Mutates, GP!StrongestEffect

\* A statement changes no more than q's profile permits.
Permitted(q, s) == /\ G!StrongestEffect(s) \in Config(q).allowed
                   /\ s.tables \subseteq Config(q).whitelist

\* What the guard lets pass changes the database as permitted, and is DDL only
\* if it is classified so.
LEMMA PassedIsPermitted ==
  ASSUME NEW q, Config(q) \in G!Configs, NEW s \in G!Stmts,
         G!Classify(s) # "unsupported", GP!Passes(Config(q), s)
  PROVE  /\ G!Mutates(s) => Permitted(q, s)
         /\ DataKind(s) = "ddl" => G!Classify(s) = "ddl"
<1>1. /\ GP!Mutates(s) => /\ ~GP!IsReadClass(GP!Classify(s))
                          /\ GP!StrongestEffect(s) = GP!Classify(s)
  BY SameFacts, GP!EffectOfClass DEF GP!EffectOfClass
<1>2. G!Mutates(s) => Permitted(q, s)
  BY <1>1, SameFacts DEF GP!Passes, GP!Enabled, Permitted
<1>3. DataKind(s) = "ddl" => G!Classify(s) = "ddl"
  <2> SUFFICES ASSUME DataKind(s) = "ddl" PROVE G!Classify(s) = "ddl"
    OBVIOUS
  <2>1. G!Mutates(s) /\ s.kind = "ddl"
    BY DEF DataKind
  <2> QED  BY <2>1 DEF G!Mutates, G!Classify, G!RootClass
<1> QED  BY <1>2, <1>3

\* A request comes with a profile's configuration and with a text.
LEMMA RequestFacts ==
  ASSUME NEW q \in Requests, q.profile \in Profiles
  PROVE  Config(q) \in G!Configs /\ GP!IsText(q.text) /\ q.text.stmts \in Seq(G!Stmts)
BY RequestsAssumption, SameFacts DEF Config, GP!IsText

\* What mysql_execute gets through the guard.
LEMMA ExecuteServed ==
  ASSUME NEW q \in Served, q.tool = "execute"
  PROVE  /\ Len(q.text.stmts) = 1
         /\ \A i \in 1..Len(q.text.stmts) :
              G!Mutates(q.text.stmts[i]) => Permitted(q, q.text.stmts[i])
<1>1. q \in Requests /\ q.profile \in Profiles /\ GP!Check(Config(q), q.text, "execute").allowed
  BY SameCheck DEF Served, Admitted
<1>2. Config(q) \in GP!Configs /\ GP!IsText(q.text) /\ q.text.stmts \in Seq(G!Stmts)
  BY <1>1, RequestFacts, SameFacts
<1>3. /\ Len(q.text.stmts) = 1
      /\ GP!Classify(q.text.stmts[1]) # "unsupported"
      /\ GP!Passes(Config(q), q.text.stmts[1])
  BY <1>1, <1>2, GP!CheckAdmits DEF GP!CheckAdmits
<1>4. q.text.stmts[1] \in G!Stmts
  BY <1>2, <1>3
<1>5. G!Mutates(q.text.stmts[1]) => Permitted(q, q.text.stmts[1])
  BY <1>2, <1>3, <1>4, PassedIsPermitted, SameFacts
<1> QED  BY <1>3, <1>5

\* What mysql_script gets through the guard: no DDL, above all.
LEMMA ScriptServed ==
  ASSUME NEW q \in Served, q.tool = "script"
  PROVE  /\ Len(q.text.stmts) >= 1
         /\ \A i \in 1..Len(q.text.stmts) :
              /\ G!Mutates(q.text.stmts[i]) => Permitted(q, q.text.stmts[i])
              /\ DataKind(q.text.stmts[i]) # "ddl"
<1>1. q \in Requests /\ q.profile \in Profiles /\ ~GP!CheckScript(Config(q), q.text).denied
  BY SameCheckScript DEF Served, Admitted
<1>2. Config(q) \in GP!Configs /\ GP!IsText(q.text) /\ q.text.stmts \in Seq(G!Stmts)
  BY <1>1, RequestFacts, SameFacts
<1>3. /\ Len(q.text.stmts) \in 1..Config(q).maxStatements
      /\ \A i \in 1..Len(q.text.stmts) :
           /\ GP!Classify(q.text.stmts[i]) \notin {"unsupported", "ddl"}
           /\ GP!Passes(Config(q), q.text.stmts[i])
  BY <1>1, <1>2, GP!ScriptAdmits DEF GP!ScriptAdmits
<1>4. ASSUME NEW i \in 1..Len(q.text.stmts)
      PROVE  /\ G!Mutates(q.text.stmts[i]) => Permitted(q, q.text.stmts[i])
             /\ DataKind(q.text.stmts[i]) # "ddl"
  <2>1. q.text.stmts[i] \in G!Stmts
    BY <1>2
  <2> QED  BY <1>2, <1>3, <2>1, PassedIsPermitted, SameFacts
<1> QED  BY <1>3, <1>4

\* Every other tool runs one statement.
LEMMA ReadServed ==
  ASSUME NEW q \in Served, q.tool \notin {"execute", "script"}
  PROVE  Len(q.text.stmts) = 1
<1>1. q \in Requests /\ q.profile \in Profiles /\ ~Unaudited(q) /\ Admitted(q)
  BY DEF Served
<1>2. Config(q) \in GP!Configs /\ GP!IsText(q.text)
  BY <1>1, RequestFacts, SameFacts
<1>3. CASE q.tool = "explain"
  <2>1. G!ClassifyOne(q.text) = "select"
    BY <1>1, <1>3 DEF Unaudited
  <2> QED  BY <2>1 DEF G!ClassifyOne
<1>4. CASE q.tool = "listTables"
  BY <1>1, <1>4, RequestsAssumption
<1>5. CASE q.tool \notin {"explain", "listTables"}
  <2>1. GP!Check(Config(q), q.text, "query").allowed
    BY <1>1, <1>5, SameCheck DEF Admitted
  <2> QED  BY <1>2, <2>1, GP!CheckAdmits DEF GP!CheckAdmits
<1> QED  BY <1>3, <1>4, <1>5

\* The jobs that the handlers make are as the executor expects them.
LEMMA ServedJobs == EP!JobsAssumption
<1>1. ASSUME NEW q \in Served
      PROVE  /\ JobOf(q) \in [profile : Profiles, mode : EP!Modes, stmts : Seq(EP!Kinds)]
             /\ Len(JobOf(q).stmts) >= 1
             /\ JobOf(q).mode # "script" => Len(JobOf(q).stmts) = 1
  <2>1. q \in Requests /\ q.profile \in Profiles
    BY DEF Served
  <2>2. q.text.stmts \in Seq(G!Stmts)
    BY <2>1, RequestFacts
  <2>3. \A s : DataKind(s) \in {"read", "write", "ddl"}
    BY DEF DataKind
  <2>4. JobOf(q).stmts \in Seq({"read", "write", "ddl"}) /\ Len(JobOf(q).stmts) = Len(q.text.stmts)
    BY <2>2, <2>3 DEF JobOf
  <2>5. Mode(q) \in {"query", "execute", "script"} /\ (Mode(q) = "script" <=> q.tool = "script")
    BY DEF Mode
  <2>6. Len(q.text.stmts) >= 1 /\ (q.tool # "script" => Len(q.text.stmts) = 1)
    BY ExecuteServed, ScriptServed, ReadServed
  <2> QED  BY <2>1, <2>4, <2>5, <2>6 DEF JobOf, EP!Modes, EP!Kinds
<1> QED  BY <1>1, PoolAssumption DEF EP!JobsAssumption, Jobs

-----------------------------------------------------------------------------
Refusals == {"invalidProfile", "refused", "denied"}

\* The request that a call serves, and the call of the executor it became.
Handler(c) ==
  /\ hpc[c] = "resolved" => req[c] \in Requests /\ req[c].profile \in Profiles
  /\ hpc[c] \in {"idle", "resolved"} => pc[c] = "idle"
  /\ pc[c] # "idle" => req[c] \in Served /\ job[c] = JobOf(req[c])
  /\ reply[c] \in Refusals => hpc[c] = "done" /\ pc[c] = "idle"

Types == /\ req \in [Calls -> Requests \cup {NoRequest}]
         /\ hpc \in [Calls -> {"idle", "resolved", "running", "done"}]
         /\ reply \in [Calls -> Refusals \cup EP!Answers]

Inv == EP!IInv /\ Types /\ \A c \in Calls : Handler(c)

\* The assumptions of the executor hold here.
LEMMA Assumptions == EP!IsFiniteSet(Calls) /\ MaxOpen \in Nat \ {0} /\ EP!JobsAssumption
BY PoolAssumption, ServedJobs DEF IsFiniteSet, EP!IsFiniteSet

\* So is the cardinality of the library.
LEMMA SameCardinality == \A S : Ex!Cardinality(S) = EP!Cardinality(S)
BY DEF Ex!Cardinality, EP!Cardinality

\* The actions of the executor are the same under both names.
LEMMA SameStep == ASSUME NEW c \in Calls, Ex!Step(c) PROVE EP!Step(c)
<1>1. Ex!Cancel(c) => EP!Cancel(c)
  BY DEF Ex!Cancel, Ex!Active, EP!Cancel, EP!Active
<1>2. Ex!Acquire(c) => EP!Acquire(c)
  BY SameCardinality DEF Ex!Acquire, Ex!Mode, Ex!Effect, Ex!Holders, Ex!Goto,
         EP!Acquire, EP!Mode, EP!Effect, EP!Holders, EP!Goto
<1>3. Ex!SendStmt(c) => EP!SendStmt(c)
  BY DEF Ex!SendStmt, Ex!Count, Ex!Goto, EP!SendStmt, EP!Count, EP!Goto
<1>4. Ex!RefuseStmt(c) => EP!RefuseStmt(c)
  BY DEF Ex!RefuseStmt, Ex!Count, Ex!Goto, EP!RefuseStmt, EP!Count, EP!Goto
<1>5. Ex!FinishQuery(c) => EP!FinishQuery(c)
  BY DEF Ex!FinishQuery, Ex!Mode, Ex!Count, Ex!Goto, EP!FinishQuery, EP!Mode,
         EP!Count, EP!Goto
<1>6. Ex!SendCommit(c) => EP!SendCommit(c)
  BY DEF Ex!SendCommit, Ex!Mode, Ex!Count, Ex!Goto, EP!SendCommit, EP!Mode, EP!Count,
         EP!Goto
<1>7. Ex!RefuseCommit(c) => EP!RefuseCommit(c)
  BY DEF Ex!RefuseCommit, Ex!Mode, Ex!Count, Ex!Goto, EP!RefuseCommit, EP!Mode,
         EP!Count, EP!Goto
<1>8. Ex!GiveUp(c) => EP!GiveUp(c)
  BY DEF Ex!GiveUp, Ex!Return, Ex!Goto, Ex!Refusal, Ex!Mode, EP!GiveUp, EP!Return,
         EP!Goto, EP!Refusal, EP!Mode
<1>9. Ex!BeginOk(c) => EP!BeginOk(c)
  BY DEF Ex!BeginOk, Ex!Goto, EP!BeginOk, EP!Goto
<1>10. Ex!BeginFails(c) => EP!BeginFails(c)
  BY DEF Ex!BeginFails, Ex!Return, Ex!Goto, Ex!Refusal, Ex!Mode, EP!BeginFails,
         EP!Return, EP!Goto, EP!Refusal, EP!Mode
<1>11. Ex!CommitFails(c) => EP!CommitFails(c)
  BY DEF Ex!CommitFails, Ex!Return, Ex!Goto, EP!CommitFails, EP!Return, EP!Goto
<1>12. Ex!Rollback(c) => EP!Rollback(c)
  BY DEF Ex!Rollback, Ex!Return, Ex!Goto, Ex!Verdict, Ex!Mode, Ex!Count, EP!Rollback,
         EP!Return, EP!Goto, EP!Verdict, EP!Mode, EP!Count
<1>13. Ex!Land(c) => EP!Land(c)
  BY DEF Ex!Land, Ex!InTx, Ex!Mode, Ex!Goto, EP!Land, EP!InTx, EP!Mode, EP!Goto
<1>14. Ex!Reply(c) => EP!Reply(c)
  BY DEF Ex!Reply, Ex!Return, Ex!Goto, Ex!InTx, Ex!Mode, EP!Reply, EP!Return, EP!Goto,
         EP!InTx, EP!Mode
<1>15. Ex!LoseReply(c) => EP!LoseReply(c)
  BY DEF Ex!LoseReply, Ex!Return, Ex!Goto, Ex!Refusal, Ex!Mode, EP!LoseReply,
         EP!Return, EP!Goto, EP!Refusal, EP!Mode
<1>16. Ex!StmtDone(c) => EP!StmtDone(c)
  BY DEF Ex!StmtDone, Ex!InTx, Ex!Mode, Ex!Kind, Ex!Current, Ex!Effect, Ex!Goto,
         EP!StmtDone, EP!InTx, EP!Mode, EP!Kind, EP!Current, EP!Effect, EP!Goto
<1>17. Ex!StmtFails(c) => EP!StmtFails(c)
  BY DEF Ex!StmtFails, Ex!InTx, Ex!Mode, Ex!Return, Ex!Goto, EP!StmtFails, EP!InTx,
         EP!Mode, EP!Return, EP!Goto
<1>18. Ex!StmtCut(c) => EP!StmtCut(c)
  BY DEF Ex!StmtCut, Ex!InTx, Ex!Mode, Ex!Return, Ex!Goto, EP!StmtCut, EP!InTx,
         EP!Mode, EP!Return, EP!Goto
<1>19. Ex!AwaitDone(c) => EP!AwaitDone(c)
  BY DEF Ex!AwaitDone, EP!AwaitDone
<1>20. Ex!LateLands(c) => EP!LateLands(c)
  BY DEF Ex!LateLands, EP!LateLands
<1>21. Ex!LateDropped(c) => EP!LateDropped(c)
  BY DEF Ex!LateDropped, EP!LateDropped
<1>22. Ex!InTx(c) => EP!InTx(c)
  BY DEF Ex!InTx, Ex!Mode, EP!InTx, EP!Mode
<1> QED  BY <1>1, <1>2, <1>3, <1>4, <1>5, <1>6, <1>7, <1>8, <1>9, <1>10, <1>11,
           <1>12, <1>13, <1>14, <1>15, <1>16, <1>17, <1>18, <1>19, <1>20, <1>21,
           <1>22
   DEF Ex!Step, Ex!Proceed, Ex!ControlReply, EP!Step, EP!Proceed, EP!ControlReply

\* A step of an executor belongs to a call that was submitted, and stays with it.
LEMMA StepFacts ==
  ASSUME EP!IInv, NEW c \in Calls, EP!Step(c)
  PROVE  /\ pc[c] # "idle" /\ job' = job
         /\ pc' \in [Calls -> EP!Labels]
         /\ pc'[c] # "idle"
         /\ \A d \in Calls \ {c} : pc'[d] = pc[d]
<1>0. /\ pc \in [Calls -> EP!Labels] /\ late \subseteq Calls
      /\ c \in late => pc[c] = "done"
  BY DEF EP!IInv, EP!TypeOK, EP!Good, EP!Untouched
<1> QED  BY <1>0 DEF EP!Step, EP!Cancel, EP!Active, EP!Acquire, EP!Goto, EP!Return,
            EP!GiveUp, EP!BeginOk, EP!BeginFails, EP!SendStmt, EP!RefuseStmt, EP!StmtDone,
            EP!StmtFails, EP!StmtCut, EP!FinishQuery, EP!SendCommit, EP!RefuseCommit,
            EP!Land, EP!Reply, EP!LoseReply, EP!CommitFails, EP!LateLands,
            EP!LateDropped, EP!Rollback, EP!AwaitDone, EP!Proceed, EP!ControlReply,
            EP!Labels

\* What the server does is what its executors do, or leaves them alone.
LEMMA ExecutorStep ==
  ASSUME Inv, [Next]_vars
  PROVE  [EP!Next]_(EP!vars)
<1>1. ASSUME NEW c \in Calls, NEW q \in Requests, Receive(c, q) PROVE UNCHANGED EP!vars
  BY <1>1 DEF Receive, executors, EP!vars
<1>2. ASSUME NEW c \in Calls, Run(c) PROVE EP!Next
  <2>1. req[c] \in Served
    BY <1>2 DEF Run, Inv, Handler, Served
  <2>2. EP!Submit(c, JobOf(req[c]))
    BY <1>2 DEF Run, Ex!Submit, Ex!Goto, EP!Submit, EP!Goto
  <2> QED  BY <2>1, <2>2 DEF Jobs, EP!Next
<1>3. ASSUME NEW c \in Calls, Handle(c) PROVE EP!Next \/ UNCHANGED EP!vars
  BY <1>2, <1>3 DEF Handle, RefuseUnaudited, Deny, LogNext, Respond, executors, EP!vars
<1>4. ASSUME NEW c \in Calls, Execute(c) PROVE EP!Next
  BY <1>4, SameStep DEF Execute, EP!Next
<1>5. CASE UNCHANGED vars
  BY <1>5 DEF vars, executors, EP!vars
<1> QED  BY <1>1, <1>3, <1>4, <1>5 DEF Next, Finished

\* What is so of the handler of a call stays so while others act.
LEMMA Others ==
  ASSUME NEW d \in Calls, Handler(d),
         req'[d] = req[d], hpc'[d] = hpc[d], pc'[d] = pc[d], job'[d] = job[d],
         reply'[d] = reply[d]
  PROVE  Handler(d)'
BY DEF Handler

\* The handlers' part of the invariant, action by action.
LEMMA HandlersNext ==
  ASSUME Inv, [Next]_vars
  PROVE  Types' /\ \A d \in Calls : Handler(d)'
<1>0. /\ EP!IInv /\ Types /\ \A c \in Calls : Handler(c)
      /\ pc \in [Calls -> EP!Labels] /\ answer \in [Calls -> EP!Answers]
      /\ job \in [Calls -> Jobs \cup {NoJob}]
  BY DEF Inv, EP!IInv, EP!TypeOK
<1>1. ASSUME NEW c \in Calls, NEW q \in Requests, Receive(c, q)
      PROVE  Types' /\ \A d \in Calls : Handler(d)'
  <2>1. /\ req' = [req EXCEPT ![c] = q] /\ pc' = pc /\ job' = job
        /\ \/ q.profile \in Profiles /\ hpc' = [hpc EXCEPT ![c] = "resolved"] /\ reply' = reply
           \/ /\ hpc' = [hpc EXCEPT ![c] = "done"]
              /\ reply' = [reply EXCEPT ![c] = "invalidProfile"]
    BY <1>1 DEF Receive, Goto, Reply, executors
  <2>2. hpc[c] = "idle" /\ pc[c] = "idle" /\ reply[c] \notin Refusals
    BY <1>0, <1>1 DEF Receive, Handler
  <2>3. Types'
    BY <1>0, <2>1 DEF Types, Refusals
  <2>4. Handler(c)'
    BY <1>0, <2>1, <2>2 DEF Types, Handler
  <2>5. ASSUME NEW d \in Calls \ {c} PROVE Handler(d)'
    BY <1>0, <2>1, Others DEF Types
  <2> QED  BY <2>3, <2>4, <2>5
<1>2. ASSUME NEW c \in Calls, RefuseUnaudited(c) \/ Deny(c)
      PROVE  Types' /\ \A d \in Calls : Handler(d)'
  <2>1. /\ req' = req /\ pc' = pc /\ job' = job
        /\ hpc' = [hpc EXCEPT ![c] = "done"]
        /\ \E a \in Refusals : reply' = [reply EXCEPT ![c] = a]
    BY <1>2 DEF RefuseUnaudited, Deny, Goto, Reply, executors, Refusals
  <2>2. pc[c] = "idle"
    BY <1>0, <1>2 DEF RefuseUnaudited, Deny, Handler
  <2>3. Types'
    BY <1>0, <2>1 DEF Types
  <2>4. Handler(c)'
    BY <1>0, <2>1, <2>2 DEF Types, Handler
  <2>5. ASSUME NEW d \in Calls \ {c} PROVE Handler(d)'
    BY <1>0, <2>1, Others DEF Types
  <2> QED  BY <2>3, <2>4, <2>5
<1>3. ASSUME NEW c \in Calls, Run(c)
      PROVE  Types' /\ \A d \in Calls : Handler(d)'
  <2>1. /\ req' = req /\ reply' = reply
        /\ hpc' = [hpc EXCEPT ![c] = "running"]
        /\ pc' = [pc EXCEPT ![c] = "waiting"]
        /\ job' = [job EXCEPT ![c] = JobOf(req[c])]
    BY <1>3 DEF Run, Goto, Ex!Submit, Ex!Goto
  <2>2. req[c] \in Served /\ hpc[c] = "resolved"
    BY <1>0, <1>3 DEF Run, Handler, Served
  <2>3. Types'
    BY <1>0, <2>1 DEF Types
  <2>4. Handler(c)'
    BY <1>0, <2>1, <2>2 DEF Types, Handler
  <2>5. ASSUME NEW d \in Calls \ {c} PROVE Handler(d)'
    BY <1>0, <2>1, Others DEF Types
  <2> QED  BY <2>3, <2>4, <2>5
<1>4. ASSUME NEW c \in Calls, LogNext(c)
      PROVE  Types' /\ \A d \in Calls : Handler(d)'
  <2>1. req' = req /\ reply' = reply /\ hpc' = hpc /\ pc' = pc /\ job' = job
    BY <1>4 DEF LogNext, executors
  <2> QED  BY <1>0, <2>1, Others DEF Types
<1>5. ASSUME NEW c \in Calls, Respond(c)
      PROVE  Types' /\ \A d \in Calls : Handler(d)'
  <2>1. /\ req' = req /\ pc' = pc /\ job' = job
        /\ hpc' = [hpc EXCEPT ![c] = "done"] /\ reply' = [reply EXCEPT ![c] = answer[c]]
    BY <1>5 DEF Respond, Reply, Goto, executors
  <2>2. answer[c] \in EP!Answers /\ answer[c] \notin Refusals
    BY <1>0 DEF EP!Answers, Refusals
  <2>3. Types'
    BY <1>0, <2>1, <2>2 DEF Types
  <2>4. Handler(c)'
    BY <1>0, <2>1, <2>2 DEF Types, Handler
  <2>5. ASSUME NEW d \in Calls \ {c} PROVE Handler(d)'
    BY <1>0, <2>1, Others DEF Types
  <2> QED  BY <2>3, <2>4, <2>5
<1>6. ASSUME NEW c \in Calls, Execute(c)
      PROVE  Types' /\ \A d \in Calls : Handler(d)'
  <2>1. EP!Step(c) /\ req' = req /\ hpc' = hpc /\ reply' = reply
    BY <1>6, SameStep DEF Execute, handlers
  <2>2. /\ pc[c] # "idle" /\ job' = job /\ pc'[c] # "idle"
        /\ \A d \in Calls \ {c} : pc'[d] = pc[d]
    BY <1>0, <2>1, StepFacts
  <2>3. Types'
    BY <1>0, <2>1 DEF Types
  <2>4. Handler(c)'
    BY <1>0, <2>1, <2>2 DEF Handler
  <2>5. ASSUME NEW d \in Calls \ {c} PROVE Handler(d)'
    BY <1>0, <2>1, <2>2, Others
  <2> QED  BY <2>3, <2>4, <2>5
<1>7. CASE UNCHANGED vars
  <2>1. req' = req /\ reply' = reply /\ hpc' = hpc /\ pc' = pc /\ job' = job
    BY <1>7 DEF vars, executors, handlers
  <2> QED  BY <1>0, <2>1, Others DEF Types
<1> QED  BY <1>1, <1>2, <1>3, <1>4, <1>5, <1>6, <1>7 DEF Next, Handle, Finished

\* No call has a request or a job yet.
LEMMA Initial == Init => Inv
<1> SUFFICES ASSUME Init PROVE Inv
  OBVIOUS
<1>1. EP!Init
  BY DEF Init, Ex!Init, EP!Init
<1>2. EP!IInv
  BY <1>1, Assumptions, EP!InitInv DEF EP!InitInv, EP!JobsAssumption
<1>3. Types /\ \A c \in Calls : Handler(c)
  BY <1>1 DEF Init, EP!Init, Types, Handler, Refusals, EP!Answers
<1> QED  BY <1>2, <1>3 DEF Inv

\* A step keeps the executor's part and the handlers'.
LEMMA Stepwise == Inv /\ [Next]_vars => Inv'
<1> SUFFICES ASSUME Inv, [Next]_vars PROVE Inv'
  OBVIOUS
<1>1. EP!IInv /\ [EP!Next]_(EP!vars)
  BY ExecutorStep DEF Inv
<1>2. EP!IInv'
  BY <1>1, Assumptions, EP!NextInv DEF EP!NextInv, EP!JobsAssumption
<1> QED  BY <1>2, HandlersNext DEF Inv

\* The executor's invariant, and every call of it serves a request.
THEOREM Inductive == Spec => []Inv
BY Initial, Stepwise, PTL DEF Spec

-----------------------------------------------------------------------------
\* What the executor's invariant says of one call.
LEMMA Calling ==
  ASSUME Inv, NEW c \in Calls
  PROVE  /\ Handler(c) /\ db \subseteq Calls \X Nat
         /\ EP!Phase(c) /\ EP!Untouched(c) /\ EP!Reads(c) /\ EP!Writes(c)
         /\ pc[c] \in EP!Labels /\ (answer[c] = "none" <=> pc[c] # "done")
BY DEF Inv, EP!IInv, EP!Good, EP!TypeOK

\* A script that was submitted has no DDL in it, because the guard admits none.
LEMMA NoDDLServed ==
  ASSUME NEW q \in Served
  PROVE  EP!NoDDL(JobOf(q))
<1>1. CASE q.tool = "script"
  <2>1. q.text.stmts \in Seq(G!Stmts)
    BY RequestFacts DEF Served
  <2>2. \A i \in 1..Len(q.text.stmts) : JobOf(q).stmts[i] # "ddl"
    BY <1>1, <2>1, ScriptServed DEF JobOf
  <2>3. Len(JobOf(q).stmts) = Len(q.text.stmts)
    BY <2>1 DEF JobOf
  <2> QED  BY <2>2, <2>3 DEF EP!NoDDL
<1>2. CASE q.tool # "script"
  BY <1>2 DEF JobOf, Mode, EP!NoDDL
<1> QED  BY <1>1, <1>2

\* What is durable of a call is a statement of its request that writes, and
\* all of them if one is, once the call has its job.
LEMMA DurableOf ==
  ASSUME Inv, NEW c \in Calls, pc[c] # "idle"
  PROVE  /\ EP!Mode(c) = "query" => EP!Landed(c) = {}
         /\ EP!Landed(c) \in {{}, EP!Effect(job[c])}
<1>1. EP!NoDDL(job[c])
  BY Calling, NoDDLServed DEF Handler
<1>2. CASE EP!Mode(c) = "query"
  BY <1>2, Calling DEF EP!Reads
<1>3. CASE EP!Mode(c) # "query"
  <2>1. CASE pc[c] \notin {"landed", "done"}
    BY <1>1, <1>3, <2>1, Calling DEF EP!Writes
  <2>2. CASE pc[c] \in {"landed", "done"}
    BY <1>1, <1>3, <2>2, Calling DEF EP!Writes
  <2> QED  BY <1>3, <2>1, <2>2
<1> QED  BY <1>2, <1>3

\* Whatever clients ask for and whatever fails, a database holds no change that
\* the configuration of its profile does not permit.
THEOREM WritesPermitted == Spec => []WritesWerePermitted
<1>1. Inv => WritesWerePermitted
  <2> SUFFICES ASSUME Inv, NEW w \in db
               PROVE  /\ req[w[1]].profile \in Profiles
                      /\ Permitted(req[w[1]], req[w[1]].text.stmts[w[2]])
    BY DEF WritesWerePermitted, Permitted
  <2>1. db \subseteq Calls \X Nat
    BY DEF Inv, EP!IInv, EP!TypeOK
  <2>2. PICK c \in Calls, i \in Nat : w = <<c, i>>
    BY <2>1
  <2> DEFINE q == req[c]
  <2>3. i \in EP!Landed(c)
    BY <2>2 DEF EP!Landed
  <2>4. pc[c] # "idle"
    BY <2>3, Calling DEF EP!Untouched
  <2>5. q \in Served /\ job[c] = JobOf(q)
    BY <2>4, Calling DEF Handler
  <2>6. EP!Mode(c) # "query" /\ i \in EP!Effect(JobOf(q))
    BY <2>3, <2>4, <2>5, DurableOf
  <2>7. q.tool \in {"execute", "script"}
    BY <2>5, <2>6 DEF EP!Mode, JobOf, Mode
  <2>8. q \in Requests /\ q.profile \in Profiles
    BY <2>5 DEF Served
  <2>9. q.text.stmts \in Seq(G!Stmts)
    BY <2>8, RequestFacts
  <2>10. i \in 1..Len(q.text.stmts) /\ G!Mutates(q.text.stmts[i])
    BY <2>6, <2>9 DEF EP!Effect, JobOf, DataKind
  <2>11. Permitted(q, q.text.stmts[i])
    BY <2>5, <2>7, <2>10, ExecuteServed, ScriptServed
  <2> QED  BY <2>2, <2>8, <2>11
<1> QED  BY <1>1, Inductive, PTL

\* Scripts are atomic without the proviso of ScriptAtomic: the guard fulfils it.
THEOREM ScriptsWhole == Spec => []ScriptsAreAtomic
<1>1. Inv => ScriptsAreAtomic
  <2> SUFFICES ASSUME Inv, NEW c \in Calls, job[c] # NoJob
               PROVE  Ex!Durable(c) \in {{}, Ex!Effect(job[c])}
    BY DEF ScriptsAreAtomic, Ex!Submitted
  <2>1. pc[c] # "idle"
    BY Calling DEF EP!Phase
  <2>2. EP!Landed(c) \in {{}, EP!Effect(job[c])}
    BY <2>1, DurableOf
  <2>3. Ex!Effect(job[c]) = EP!Effect(job[c])
    BY DEF Ex!Effect, EP!Effect
  <2>4. Ex!Durable(c) = EP!Landed(c) \cap EP!Effect(job[c])
    <3>1. EP!Effect(job[c]) \subseteq Nat
      <4>1. job[c] \in Jobs
        BY <2>1, Calling DEF Handler, Jobs
      <4> QED  BY <4>1, Assumptions, EP!JobFacts DEF EP!JobFacts, EP!JobsAssumption
    <3> QED  BY <2>3, <3>1 DEF Ex!Durable, EP!Landed
  <2> QED  BY <2>2, <2>3, <2>4
<1> QED  BY <1>1, Inductive, PTL

\* A refusal and a rollback leave nothing in a database, then or later.
THEOREM RefusalsTraceless == Spec => []RefusalsLeaveNoTrace
<1>1. Inv => RefusalsLeaveNoTrace
  <2> SUFFICES ASSUME Inv, NEW c \in Calls,
                      reply[c] \in Refusals \/ answer[c] = "rolledBack"
               PROVE  (\A w \in db : w[1] # c) /\ c \notin late
    BY DEF RefusalsLeaveNoTrace, Refusals
  <2>1. EP!Landed(c) = {} /\ c \notin late
    <3>1. CASE reply[c] \in Refusals
      BY <3>1, Calling DEF Handler, EP!Untouched
    <3>2. CASE answer[c] = "rolledBack"
      <4>1. pc[c] = "done"
        BY <3>2, Calling
      <4>2. EP!Mode(c) # "query" /\ EP!NoDDL(job[c])
        BY <3>2, <4>1, Calling, NoDDLServed DEF Handler, EP!Reads
      <4> QED  BY <3>2, <4>1, <4>2, Calling DEF EP!Writes, EP!Untouched
    <3> QED  BY <3>1, <3>2
  <2>2. db \subseteq Calls \X Nat
    BY DEF Inv, EP!IInv, EP!TypeOK
  <2> QED  BY <2>1, <2>2 DEF EP!Landed
<1> QED  BY <1>1, Inductive, PTL

-----------------------------------------------------------------------------
(***************************************************************************)
(* The audit log.  Two more facts of the executor are needed, that an      *)
(* answer "committed" stands for every statement, and that an answer stays *)
(* as it is (Completed, DoneStays); the rest says of each call which       *)
(* records of it there are (Recorded).                                     *)
(***************************************************************************)
Completed(c) ==
  /\ pc[c] = "landed" /\ EP!InTx(c) => results[c] = EP!Count(c)
  /\ answer[c] = "committed" => results[c] = EP!Count(c)

Entries == [call : Calls, stmt : Nat, decision : {"denied", "allowed"}, error : BOOLEAN]

\* The record with the number k of what has become of the request of c.
Entry(c, k) == IF pc[c] = "idle" THEN Record(c, 1, "denied", FALSE)
               ELSE Record(c, k, "allowed", Erred(c, k))

\* How many records c has, and what its reply can be.
Progress(c) ==
  /\ logged[c] > 0 => pc[c] = "done" \/ reply[c] = "denied"
  /\ reply[c] = "denied" => logged[c] = 1
  /\ hpc[c] = "done" /\ reply[c] \notin Refusals =>
       pc[c] = "done" /\ reply[c] = answer[c] /\ logged[c] = Attempted(c)

\* They are in the log of its profile, each in one place, in their order.
Recorded(c) ==
  /\ \A p \in Profiles : \A i \in Places(c, p) :
       /\ p = req[c].profile
       /\ log[p][i].stmt \in 1..logged[c]
       /\ \A k \in 1..logged[c] : log[p][i].stmt = k => log[p][i] = Entry(c, k)
  /\ \A p \in Profiles : \A i, j \in Places(c, p) : i < j => log[p][i].stmt < log[p][j].stmt
  /\ \A k \in 1..logged[c] :
       /\ req[c].profile \in Profiles
       /\ \E i \in Places(c, req[c].profile) : log[req[c].profile][i].stmt = k

AuditTypes == /\ logged \in [Calls -> Nat]
              /\ log \in [Profiles -> Seq(Entries)]

AuditInv == /\ Inv /\ AuditTypes
            /\ \A c \in Calls : Completed(c) /\ Progress(c) /\ Recorded(c)

\* An executor's step leaves the result of a call that has returned as it is,
\* and those of the other calls; it does not answer for more than it has done.
LEMMA DoneStays ==
  ASSUME EP!IInv, NEW c \in Calls, EP!Step(c), Completed(c)
  PROVE  /\ Completed(c)'
         /\ pc[c] = "done" => /\ pc'[c] = "done" /\ answer'[c] = answer[c]
                              /\ results'[c] = results[c]
         /\ \A d \in Calls \ {c} : answer'[d] = answer[d] /\ results'[d] = results[d]
<1>0. /\ pc \in [Calls -> EP!Labels] /\ late \subseteq Calls
      /\ results \in [Calls -> Nat] /\ answer \in [Calls -> EP!Answers]
      /\ job' = job
      /\ c \in late => pc[c] = "done"
      /\ pc[c] = "commit" => EP!Mode(c) = "script" /\ results[c] = EP!Count(c)
      /\ answer[c] = "none" <=> pc[c] # "done"
  BY StepFacts DEF EP!IInv, EP!TypeOK, EP!Good, EP!Untouched, EP!Phase
<1>1. CASE EP!Cancel(c) \/ EP!Acquire(c) \/ EP!AwaitDone(c) \/ EP!LateLands(c) \/ EP!LateDropped(c)
  BY <1>0, <1>1 DEF EP!Cancel, EP!Active, EP!Acquire, EP!AwaitDone, EP!LateLands,
       EP!LateDropped, EP!Goto, Completed, EP!InTx, EP!Mode, EP!Count
<1>2. CASE EP!Proceed(c)
  BY <1>0, <1>2 DEF EP!Proceed, EP!SendStmt, EP!RefuseStmt, EP!FinishQuery, EP!SendCommit,
       EP!RefuseCommit, EP!GiveUp, EP!Return, EP!Goto, EP!Refusal, Completed, EP!InTx,
       EP!Mode, EP!Count
<1>3. CASE EP!BeginOk(c) \/ EP!BeginFails(c) \/ EP!CommitFails(c) \/ EP!Rollback(c)
  BY <1>0, <1>3 DEF EP!BeginOk, EP!BeginFails, EP!CommitFails, EP!Rollback, EP!Return,
       EP!Goto, EP!Refusal, EP!Verdict, Completed, EP!InTx, EP!Mode, EP!Count
<1>4. CASE EP!Land(c) \/ EP!Reply(c) \/ EP!LoseReply(c)
  BY <1>0, <1>4 DEF EP!Land, EP!Reply, EP!LoseReply, EP!Return, EP!Goto, EP!Refusal,
       Completed, EP!InTx, EP!Mode, EP!Count
<1>5. CASE EP!StmtDone(c) \/ EP!StmtFails(c) \/ EP!StmtCut(c)
  BY <1>0, <1>5 DEF EP!StmtDone, EP!StmtFails, EP!StmtCut, EP!Return, EP!Goto,
       Completed, EP!InTx, EP!Mode, EP!Count
<1> QED  BY <1>1, <1>2, <1>3, <1>4, <1>5 DEF EP!Step, EP!ControlReply

\* What is so of the records of a call stays so as long as none is added and
\* its own state, or what it comes to, is the same.
LEMMA SameRecords ==
  ASSUME NEW d \in Calls, Recorded(d), logged[d] \in Nat,
         \A p \in Profiles : Places(d, p)' = Places(d, p),
         \A p \in Profiles : \A i \in Places(d, p) : log'[p][i] = log[p][i],
         logged'[d] = logged[d],
         logged[d] > 0 => /\ req'[d] = req[d] /\ pc'[d] = pc[d]
                          /\ answer'[d] = answer[d] /\ results'[d] = results[d]
  PROVE  Recorded(d)'
<1>2. \A k : logged[d] > 0 => Entry(d, k)' = Entry(d, k)
  BY DEF Entry, Record, Erred
<1>3. CASE logged[d] > 0
  BY <1>2, <1>3 DEF Recorded
<1>4. CASE ~(logged[d] > 0)
  <2>1. 1..logged[d] = {}
    BY <1>4
  <2>2. \A p \in Profiles : Places(d, p) = {}
    BY <2>1 DEF Recorded
  <2> QED  BY <2>1, <2>2 DEF Recorded
<1> QED  BY <1>3, <1>4

\* With the log as it was, the places are as they were.
LEMMA SameLog ==
  ASSUME log' = log
  PROVE  \A d, p : /\ Places(d, p)' = Places(d, p)
                   /\ \A i \in Places(d, p) : log'[p][i] = log[p][i]
BY DEF Places

\* A handler adds the next record of its call: it is the last of its profile's
\* log, and everything else is where it was.
LEMMA OneMore ==
  ASSUME AuditTypes, NEW c \in Calls, NEW q \in Profiles, q = req[c].profile,
         NEW rec \in Entries, rec.call = c, Log(c, rec)
  PROVE  /\ AuditTypes'
         /\ \A d \in Calls \ {c} : \A p \in Profiles :
              /\ Places(d, p)' = Places(d, p)
              /\ \A i \in Places(d, p) : log'[p][i] = log[p][i]
         /\ \A p \in Profiles \ {q} :
              Places(c, p)' = Places(c, p) /\ log'[p] = log[p]
         /\ LET n == Len(log[q]) + 1
            IN /\ Places(c, q)' = Places(c, q) \cup {n}
               /\ log'[q][n] = rec
               /\ \A i \in Places(c, q) : i < n /\ log'[q][i] = log[q][i]
<1> DEFINE n == Len(log[q]) + 1
<1>0. logged \in [Calls -> Nat] /\ log \in [Profiles -> Seq(Entries)]
  BY DEF AuditTypes
<1>1. /\ log' = [log EXCEPT ![q] = Append(log[q], rec)]
      /\ logged' = [logged EXCEPT ![c] = logged[c] + 1]
  BY DEF Log
<1>2. /\ log[q] \in Seq(Entries) /\ Len(log[q]) \in Nat
      /\ log'[q] = Append(log[q], rec)
      /\ \A p \in Profiles \ {q} : log'[p] = log[p]
  BY <1>0, <1>1
<1>3. /\ Len(log'[q]) = n
      /\ \A i \in 1..Len(log[q]) : log'[q][i] = log[q][i]
      /\ log'[q][n] = rec
  BY <1>2
<1>4. AuditTypes'
  BY <1>0, <1>1, <1>2 DEF AuditTypes
<1>5. 1..Len(log'[q]) = (1..Len(log[q])) \cup {n} /\ n \notin 1..Len(log[q])
  BY <1>2, <1>3
<1>6. ASSUME NEW d \in Calls, NEW p \in Profiles, NEW i
      PROVE  i \in Places(d, p)' <=> i \in Places(d, p) \/ (d = c /\ p = q /\ i = n)
  <2>1. i \in Places(d, p) <=> i \in 1..Len(log[p]) /\ log[p][i].call = d
    BY DEF Places
  <2>2. i \in Places(d, p)' <=> i \in 1..Len(log'[p]) /\ log'[p][i].call = d
    BY DEF Places
  <2>3. CASE p # q
    <3>1. log'[p] = log[p]
      BY <1>2, <2>3
    <3> QED  BY <2>1, <2>2, <2>3, <3>1
  <2>4. CASE p = q /\ i = n
    BY <1>3, <1>5, <2>1, <2>2, <2>4
  <2>5. CASE p = q /\ i # n
    BY <1>3, <1>5, <2>1, <2>2, <2>5
  <2> QED  BY <2>3, <2>4, <2>5
<1>7. \A d \in Calls : \A p \in Profiles : \A i \in Places(d, p) : log'[p][i] = log[p][i]
  BY <1>2, <1>3 DEF Places
<1>8. \A i \in Places(c, q) : i < n /\ log'[q][i] = log[q][i]
  BY <1>2, <1>3 DEF Places
<1>9. \A d \in Calls \ {c} : \A p \in Profiles : Places(d, p)' = Places(d, p)
  BY <1>6
<1>10. \A p \in Profiles \ {q} : Places(c, p)' = Places(c, p)
  BY <1>6
<1>11. Places(c, q)' = Places(c, q) \cup {n}
  BY <1>6
<1> QED  BY <1>2, <1>3, <1>4, <1>7, <1>8, <1>9, <1>10, <1>11

\* If it is the record that was due, all of them are as they should be.
LEMMA NextRecord ==
  ASSUME AuditTypes, NEW c \in Calls, NEW q \in Profiles, q = req[c].profile,
         NEW rec \in Entries, rec.call = c, Log(c, rec), Recorded(c),
         req'[c] = req[c], rec.stmt = logged[c] + 1,
         \A k \in 1..logged[c] : Entry(c, k)' = Entry(c, k),
         \A k : k = logged[c] + 1 => rec = Entry(c, k)'
  PROVE  Recorded(c)'
<1> DEFINE n == Len(log[q]) + 1
           m == logged[c]
<1>0. m \in Nat /\ logged'[c] = m + 1
  BY DEF AuditTypes, Log
<1>1. /\ \A p \in Profiles \ {q} : Places(c, p)' = Places(c, p) /\ log'[p] = log[p]
      /\ Places(c, q)' = Places(c, q) \cup {n}
      /\ log'[q][n] = rec
      /\ \A i \in Places(c, q) : i < n /\ log'[q][i] = log[q][i]
  BY OneMore
<1>2. \A p \in Profiles : \A i \in Places(c, p) :
        /\ p = q /\ log[p][i].stmt \in 1..m
        /\ \A k \in 1..m : log[p][i].stmt = k => log[p][i] = Entry(c, k)
  BY DEF Recorded
<1>3. ASSUME NEW p \in Profiles, NEW i \in Places(c, p)'
      PROVE  /\ p = q
             /\ log'[p][i].stmt \in 1..(m + 1)
             /\ \A k \in 1..(m + 1) : log'[p][i].stmt = k => log'[p][i] = Entry(c, k)'
  <2>1. p = q
    BY <1>1, <1>2
  <2>2. CASE i = n
    BY <1>0, <1>1, <2>1, <2>2
  <2>3. CASE i # n
    <3>1. i \in Places(c, q) /\ log'[p][i] = log[p][i]
      BY <1>1, <2>1, <2>3
    <3>2. log[p][i].stmt \in 1..m /\ m + 1 \in Nat
      BY <1>0, <1>2, <2>1, <3>1
    <3>3. ASSUME NEW k \in 1..(m + 1), log[p][i].stmt = k
          PROVE  log[p][i] = Entry(c, k)'
      <4>1. k \in 1..m
        BY <3>2, <3>3
      <4> QED  BY <1>2, <2>1, <3>1, <3>3, <4>1
    <3>4. log[p][i].stmt \in 1..(m + 1)
      BY <1>0, <3>2
    <3> QED  BY <2>1, <3>1, <3>3, <3>4
  <2> QED  BY <2>1, <2>2, <2>3
<1>4. ASSUME NEW p \in Profiles, NEW i \in Places(c, p)', NEW j \in Places(c, p)', i < j
      PROVE  log'[p][i].stmt < log'[p][j].stmt
  <2>1. p = q
    BY <1>3
  <2>2. n \in Nat /\ \A k \in Places(c, q) : k \in Nat
    BY DEF AuditTypes, Places
  <2>3. i \in Places(c, q)
    BY <1>1, <1>4, <2>1, <2>2
  <2>4. CASE j = n
    <3>1. log'[p][j].stmt = m + 1 /\ log'[p][i] = log[p][i]
      BY <1>1, <2>1, <2>3, <2>4
    <3>2. log[p][i].stmt \in 1..m
      BY <1>2, <2>1, <2>3
    <3> QED  BY <1>0, <3>1, <3>2
  <2>5. CASE j # n
    BY <1>1, <1>4, <2>1, <2>3, <2>5 DEF Recorded
  <2> QED  BY <2>4, <2>5
<1>5. ASSUME NEW k \in 1..(m + 1)
      PROVE  \E i \in Places(c, q)' : log'[q][i].stmt = k
  <2>1. CASE k = m + 1
    BY <1>1, <2>1
  <2>2. CASE k # m + 1
    <3>1. k \in 1..m
      BY <1>0, <2>2
    <3>2. PICK i \in Places(c, q) : log[q][i].stmt = k
      BY <3>1 DEF Recorded
    <3> QED  BY <1>1, <3>2
  <2> QED  BY <2>1, <2>2
<1> QED  BY <1>0, <1>3, <1>4, <1>5 DEF Recorded

\* Where the handler of a call can be when it has records, and when its
\* executor has returned.
LEMMA HandlerFacts ==
  ASSUME AuditInv, NEW c \in Calls
  PROVE  /\ Handler(c) /\ Completed(c) /\ Progress(c) /\ Recorded(c)
         /\ logged[c] \in Nat /\ results[c] \in Nat
         /\ logged[c] > 0 => hpc[c] \notin {"idle", "resolved"}
         /\ answer[c] \in EP!Answers /\ (answer[c] = "none" <=> pc[c] # "done")
         /\ pc[c] # "idle" => /\ req[c] \in Served /\ req[c].profile \in Profiles
                              /\ job[c] = JobOf(req[c])
<1>1. Inv /\ Handler(c) /\ Completed(c) /\ Progress(c) /\ Recorded(c)
  BY DEF AuditInv, Inv
<1>2. logged[c] \in Nat
  BY DEF AuditInv, AuditTypes
<1>3. /\ results[c] \in Nat /\ answer[c] \in EP!Answers
      /\ answer[c] = "none" <=> pc[c] # "done"
  BY <1>1 DEF Inv, EP!IInv, EP!TypeOK, EP!Good
<1>4. logged[c] > 0 => hpc[c] \notin {"idle", "resolved"}
  BY <1>1 DEF Handler, Progress, Refusals
<1>5. pc[c] # "idle" => /\ req[c] \in Served /\ req[c].profile \in Profiles
                        /\ job[c] = JobOf(req[c])
  BY <1>1 DEF Handler, Served
<1> QED  BY <1>1, <1>2, <1>3, <1>4, <1>5

\* Nothing is logged yet.
LEMMA InitAudit == Init => AuditInv
<1> SUFFICES ASSUME Init, Inv PROVE AuditInv
  BY Initial
<1>1. /\ hpc = [c \in Calls |-> "idle"] /\ logged = [c \in Calls |-> 0]
      /\ log = [p \in Profiles |-> << >>] /\ reply = [c \in Calls |-> "none"]
      /\ pc = [c \in Calls |-> "idle"] /\ answer = [c \in Calls |-> "none"]
  BY DEF Init, Ex!Init
<1>2. AuditTypes
  BY <1>1 DEF AuditTypes
<1>3. ASSUME NEW c \in Calls PROVE Completed(c) /\ Progress(c) /\ Recorded(c)
  <2>1. Completed(c)
    BY <1>1 DEF Completed
  <2>2. Progress(c)
    BY <1>1 DEF Progress
  <2>3. \A p \in Profiles : Places(c, p) = {}
    BY <1>1 DEF Places
  <2>4. 1..logged[c] = {}
    BY <1>1
  <2> QED  BY <2>1, <2>2, <2>3, <2>4 DEF Recorded
<1> QED  BY <1>2, <1>3 DEF AuditInv

\* What an action of c leaves alone of the audit of d.
Alone(d) == /\ req'[d] = req[d] /\ hpc'[d] = hpc[d] /\ pc'[d] = pc[d] /\ job'[d] = job[d]
            /\ results'[d] = results[d] /\ answer'[d] = answer[d]
            /\ reply'[d] = reply[d] /\ logged'[d] = logged[d]
            /\ \A p \in Profiles : /\ Places(d, p)' = Places(d, p)
                                   /\ \A i \in Places(d, p) : log'[p][i] = log[p][i]

LEMMA LeftAlone ==
  ASSUME AuditInv, NEW d \in Calls, Alone(d)
  PROVE  Completed(d)' /\ Progress(d)' /\ Recorded(d)'
<1>1. Completed(d)'
  BY HandlerFacts DEF Alone, Completed, EP!InTx, EP!Mode, EP!Count
<1>2. Progress(d)'
  BY HandlerFacts DEF Alone, Progress, Attempted
<1>3. Recorded(d)'
  BY HandlerFacts, SameRecords DEF Alone
<1> QED  BY <1>1, <1>2, <1>3

\* The audit's part of the invariant, action by action: a request arrives,
LEMMA ReceiveAudit ==
  ASSUME AuditInv, NEW c \in Calls, NEW q \in Requests, Receive(c, q)
  PROVE  AuditTypes' /\ \A d \in Calls : Completed(d)' /\ Progress(d)' /\ Recorded(d)'
<1>1. /\ req' = [req EXCEPT ![c] = q] /\ pc' = pc /\ job' = job
      /\ results' = results /\ answer' = answer /\ log' = log /\ logged' = logged
      /\ \/ hpc' = [hpc EXCEPT ![c] = "resolved"] /\ reply' = reply
         \/ /\ hpc' = [hpc EXCEPT ![c] = "done"]
            /\ reply' = [reply EXCEPT ![c] = "invalidProfile"]
  BY DEF Receive, Goto, Reply, executors
<1>2. AuditTypes /\ Types
  BY DEF AuditInv, Inv
<1>3. logged[c] = 0
  BY HandlerFacts DEF Receive
<1>4. Completed(c)'
  BY <1>1, HandlerFacts DEF Completed, EP!InTx, EP!Mode, EP!Count
<1>5. Progress(c)'
  <2>1. hpc[c] = "idle"
    BY DEF Receive
  <2>2. reply[c] # "denied"
    BY <2>1, HandlerFacts DEF Handler, Refusals
  <2> QED  BY <1>1, <1>2, <1>3, <2>2 DEF Types, Progress, Refusals
<1>6. Recorded(c)'
  BY <1>1, <1>3, HandlerFacts, SameLog, SameRecords
<1>7. ASSUME NEW d \in Calls \ {c} PROVE Alone(d)
  BY <1>1, <1>2, SameLog DEF Types, Alone
<1>8. AuditTypes'
  BY <1>1, <1>2 DEF AuditTypes
<1> QED  BY <1>4, <1>5, <1>6, <1>7, <1>8, LeftAlone

\* it is refused before the guard is asked,
LEMMA RefuseAudit ==
  ASSUME AuditInv, NEW c \in Calls, RefuseUnaudited(c)
  PROVE  AuditTypes' /\ \A d \in Calls : Completed(d)' /\ Progress(d)' /\ Recorded(d)'
<1>1. /\ req' = req /\ pc' = pc /\ job' = job
      /\ results' = results /\ answer' = answer /\ log' = log /\ logged' = logged
      /\ hpc' = [hpc EXCEPT ![c] = "done"]
      /\ reply' = [reply EXCEPT ![c] = "refused"]
  BY DEF RefuseUnaudited, Goto, Reply, executors
<1>2. AuditTypes /\ Types
  BY DEF AuditInv, Inv
<1>3. logged[c] = 0
  BY HandlerFacts DEF RefuseUnaudited
<1>4. Completed(c)'
  BY <1>1, HandlerFacts DEF Completed, EP!InTx, EP!Mode, EP!Count
<1>5. Progress(c)'
  BY <1>1, <1>2, <1>3 DEF Types, Progress, Refusals
<1>6. Recorded(c)'
  BY <1>1, <1>3, HandlerFacts, SameLog, SameRecords
<1>7. ASSUME NEW d \in Calls \ {c} PROVE Alone(d)
  BY <1>1, <1>2, SameLog DEF Types, Alone
<1>8. AuditTypes'
  BY <1>1, <1>2 DEF AuditTypes
<1> QED  BY <1>4, <1>5, <1>6, <1>7, <1>8, LeftAlone

\* the guard denies it,
LEMMA DenyAudit ==
  ASSUME AuditInv, NEW c \in Calls, Deny(c)
  PROVE  AuditTypes' /\ \A d \in Calls : Completed(d)' /\ Progress(d)' /\ Recorded(d)'
<1> DEFINE rec == Record(c, 1, "denied", FALSE)
<1>1. /\ req' = req /\ pc' = pc /\ job' = job
      /\ results' = results /\ answer' = answer
      /\ hpc[c] = "resolved" /\ Log(c, rec)
      /\ hpc' = [hpc EXCEPT ![c] = "done"]
      /\ reply' = [reply EXCEPT ![c] = "denied"]
  BY DEF Deny, Goto, Reply, executors
<1>2. AuditTypes /\ Types
  BY DEF AuditInv, Inv
<1>3. logged[c] = 0 /\ pc[c] = "idle" /\ req[c].profile \in Profiles
  BY <1>1, HandlerFacts DEF Handler
<1>4. rec \in Entries /\ rec.call = c /\ rec.stmt = logged[c] + 1
  BY <1>3 DEF Record, Entries
<1>5. logged' = [logged EXCEPT ![c] = 1]
  BY <1>1, <1>3 DEF Log
<1>6. Completed(c)'
  BY <1>1, HandlerFacts DEF Completed, EP!InTx, EP!Mode, EP!Count
<1>7. Progress(c)'
  BY <1>1, <1>2, <1>5 DEF Types, AuditTypes, Progress, Refusals
<1>8. Recorded(c)'
  <2>1. \A k : k = logged[c] + 1 => rec = Entry(c, k)'
    BY <1>1, <1>3 DEF Entry, Record
  <2>2. \A k \in 1..logged[c] : Entry(c, k)' = Entry(c, k)
    BY <1>3
  <2>3. PICK q \in Profiles : q = req[c].profile
    BY <1>3
  <2> QED  BY <1>1, <1>2, <1>4, <2>1, <2>2, <2>3, HandlerFacts, NextRecord
<1>9. AuditTypes' /\ \A d \in Calls \ {c} : Alone(d)
  <2>1. PICK q \in Profiles : q = req[c].profile
    BY <1>3
  <2>2. /\ AuditTypes'
        /\ \A d \in Calls \ {c} : \A p \in Profiles :
             /\ Places(d, p)' = Places(d, p)
             /\ \A i \in Places(d, p) : log'[p][i] = log[p][i]
    BY <1>1, <1>2, <1>4, <2>1, OneMore
  <2> QED  BY <1>1, <1>2, <1>5, <2>2 DEF Types, AuditTypes, Alone
<1> QED  BY <1>6, <1>7, <1>8, <1>9, LeftAlone

\* or it goes to an executor,
LEMMA RunAudit ==
  ASSUME AuditInv, NEW c \in Calls, Run(c)
  PROVE  AuditTypes' /\ \A d \in Calls : Completed(d)' /\ Progress(d)' /\ Recorded(d)'
<1>1. /\ req' = req /\ results' = results /\ answer' = answer /\ log' = log
      /\ logged' = logged /\ reply' = reply
      /\ hpc[c] = "resolved" /\ hpc' = [hpc EXCEPT ![c] = "running"]
      /\ pc' = [pc EXCEPT ![c] = "waiting"]
      /\ job' = [job EXCEPT ![c] = JobOf(req[c])]
  BY DEF Run, Goto, Ex!Submit, Ex!Goto
<1>2. /\ AuditTypes /\ Types /\ pc \in [Calls -> EP!Labels]
      /\ job \in [Calls -> Jobs \cup {NoJob}]
  BY DEF AuditInv, Inv, EP!IInv, EP!TypeOK
<1>3. logged[c] = 0 /\ pc[c] = "idle" /\ answer[c] = "none" /\ reply[c] # "denied"
  BY <1>1, HandlerFacts DEF Handler, Refusals
<1>4. Completed(c)'
  BY <1>1, <1>2, <1>3 DEF Completed
<1>5. Progress(c)'
  BY <1>1, <1>2, <1>3 DEF Types, Progress
<1>6. Recorded(c)'
  BY <1>1, <1>3, HandlerFacts, SameLog, SameRecords
<1>7. ASSUME NEW d \in Calls \ {c} PROVE Alone(d)
  BY <1>1, <1>2, SameLog DEF Types, Alone
<1>8. AuditTypes'
  BY <1>1, <1>2 DEF AuditTypes
<1> QED  BY <1>4, <1>5, <1>6, <1>7, <1>8, LeftAlone

\* the handler logs what the executor has returned,
LEMMA LogNextAudit ==
  ASSUME AuditInv, NEW c \in Calls, LogNext(c)
  PROVE  AuditTypes' /\ \A d \in Calls : Completed(d)' /\ Progress(d)' /\ Recorded(d)'
<1> DEFINE m == logged[c]
           rec == Record(c, m + 1, "allowed", Erred(c, m + 1))
<1>1. /\ req' = req /\ pc' = pc /\ job' = job /\ hpc' = hpc /\ reply' = reply
      /\ results' = results /\ answer' = answer
      /\ hpc[c] = "running" /\ pc[c] = "done" /\ Log(c, rec)
  BY DEF LogNext, Returned, executors
<1>2. AuditTypes /\ Types
  BY DEF AuditInv, Inv
<1>3. m \in Nat /\ req[c].profile \in Profiles /\ reply[c] \notin Refusals
  BY <1>1, HandlerFacts DEF Handler
<1>4. rec \in Entries /\ rec.call = c /\ rec.stmt = m + 1
  <2>1. Erred(c, m + 1) \in BOOLEAN
    BY DEF Erred
  <2> QED  BY <1>3, <2>1 DEF Record, Entries
<1>5. logged' = [logged EXCEPT ![c] = m + 1]
  BY <1>1 DEF Log
<1>6. Completed(c)'
  BY <1>1, HandlerFacts DEF Completed, EP!InTx, EP!Mode, EP!Count
<1>7. Progress(c)'
  BY <1>1, <1>3 DEF Progress, Refusals
<1>8. Recorded(c)'
  <2>1. \A k : Entry(c, k)' = Record(c, k, "allowed", Erred(c, k))
    BY <1>1 DEF Entry, Record, Erred
  <2>2. \A k : Entry(c, k) = Record(c, k, "allowed", Erred(c, k))
    BY <1>1 DEF Entry
  <2>3. PICK q \in Profiles : q = req[c].profile
    BY <1>3
  <2>4. /\ \A k : k = logged[c] + 1 => rec = Entry(c, k)'
        /\ \A k \in 1..logged[c] : Entry(c, k)' = Entry(c, k)
    BY <2>1, <2>2
  <2>5. req'[c] = req[c] /\ rec.stmt = logged[c] + 1 /\ Recorded(c)
    BY <1>1, <1>4, HandlerFacts
  <2> HIDE DEF rec
  <2> QED  BY <1>1, <1>2, <1>4, <2>3, <2>4, <2>5, NextRecord
<1>9. AuditTypes' /\ \A d \in Calls \ {c} : Alone(d)
  <2>1. PICK q \in Profiles : q = req[c].profile
    BY <1>3
  <2> HIDE DEF rec
  <2>2. /\ AuditTypes'
        /\ \A d \in Calls \ {c} : \A p \in Profiles :
             /\ Places(d, p)' = Places(d, p)
             /\ \A i \in Places(d, p) : log'[p][i] = log[p][i]
    BY <1>1, <1>2, <1>4, <2>1, OneMore
  <2> QED  BY <1>1, <1>2, <1>5, <2>2 DEF AuditTypes, Alone
<1> QED  BY <1>6, <1>7, <1>8, <1>9, LeftAlone

\* and replies when all of it is logged;
LEMMA RespondAudit ==
  ASSUME AuditInv, NEW c \in Calls, Respond(c)
  PROVE  AuditTypes' /\ \A d \in Calls : Completed(d)' /\ Progress(d)' /\ Recorded(d)'
<1>1. /\ req' = req /\ pc' = pc /\ job' = job
      /\ results' = results /\ answer' = answer /\ log' = log /\ logged' = logged
      /\ pc[c] = "done" /\ logged[c] = Attempted(c)
      /\ hpc' = [hpc EXCEPT ![c] = "done"]
      /\ reply' = [reply EXCEPT ![c] = answer[c]]
  BY DEF Respond, Returned, Goto, Reply, executors
<1>2. AuditTypes /\ Types
  BY DEF AuditInv, Inv
<1>3. answer[c] \notin Refusals
  BY HandlerFacts DEF EP!Answers, Refusals
<1>4. Completed(c)'
  BY <1>1, HandlerFacts DEF Completed, EP!InTx, EP!Mode, EP!Count
<1>5. Progress(c)'
  <2>1. Attempted(c)' = Attempted(c)
    BY <1>1 DEF Attempted
  <2> QED  BY <1>1, <1>2, <1>3, <2>1 DEF Types, Progress, Refusals
<1>6. Recorded(c)'
  BY <1>1, HandlerFacts, SameLog, SameRecords
<1>7. ASSUME NEW d \in Calls \ {c} PROVE Alone(d)
  BY <1>1, <1>2, SameLog DEF Types, Alone
<1>8. AuditTypes'
  BY <1>1, <1>2 DEF AuditTypes
<1> QED  BY <1>4, <1>5, <1>6, <1>7, <1>8, LeftAlone

\* meanwhile executors go on with the calls that have not returned.
LEMMA ExecuteAudit ==
  ASSUME AuditInv, NEW c \in Calls, Execute(c)
  PROVE  AuditTypes' /\ \A d \in Calls : Completed(d)' /\ Progress(d)' /\ Recorded(d)'
<1>0. AuditTypes /\ Types /\ EP!IInv /\ Completed(c)
  BY DEF AuditInv, Inv
<1>1. /\ req' = req /\ hpc' = hpc /\ reply' = reply /\ log' = log /\ logged' = logged
      /\ EP!Step(c)
  BY SameStep DEF Execute, handlers
<1>2. /\ pc[c] # "idle" /\ job' = job /\ pc'[c] # "idle"
      /\ \A d \in Calls \ {c} : pc'[d] = pc[d]
  BY <1>0, <1>1, StepFacts
<1>3. /\ Completed(c)'
      /\ pc[c] = "done" => /\ pc'[c] = "done" /\ answer'[c] = answer[c]
                           /\ results'[c] = results[c]
      /\ \A d \in Calls \ {c} : answer'[d] = answer[d] /\ results'[d] = results[d]
  BY <1>0, <1>1, DoneStays
<1>4. reply[c] # "denied"
  BY <1>2, HandlerFacts DEF Handler, Refusals
<1>5. Progress(c)'
  <2>1. pc[c] = "done" => Attempted(c)' = Attempted(c)
    BY <1>3 DEF Attempted
  <2> QED  BY <1>1, <1>3, <1>4, <2>1, HandlerFacts DEF Progress
<1>6. Recorded(c)'
  <2>1. logged[c] > 0 => pc[c] = "done"
    BY <1>4, HandlerFacts DEF Progress
  <2> QED  BY <1>1, <1>3, <2>1, HandlerFacts, SameLog, SameRecords
<1>7. ASSUME NEW d \in Calls \ {c} PROVE Alone(d)
  BY <1>1, <1>2, <1>3, SameLog DEF Alone
<1>8. AuditTypes'
  BY <1>0, <1>1 DEF AuditTypes
<1> QED  BY <1>3, <1>5, <1>6, <1>7, <1>8, LeftAlone

\* Every step keeps the records what they have to be.
LEMMA NextAudit == AuditInv /\ [Next]_vars => AuditInv'
<1> SUFFICES ASSUME AuditInv, [Next]_vars PROVE AuditInv'
  OBVIOUS
<1>1. Inv'
  BY Stepwise DEF AuditInv
<1>2. CASE UNCHANGED vars
  <2>1. ASSUME NEW d \in Calls PROVE Alone(d)
    BY <1>2, SameLog DEF vars, executors, handlers, Alone
  <2>2. AuditTypes'
    BY <1>2 DEF AuditInv, AuditTypes, vars, handlers
  <2> QED  BY <1>1, <2>1, <2>2, LeftAlone DEF AuditInv
<1>3. CASE Next
  <2> DEFINE Kept == AuditTypes' /\ \A d \in Calls : Completed(d)' /\ Progress(d)' /\ Recorded(d)'
  <2>1. ASSUME NEW c \in Calls, NEW q \in Requests, Receive(c, q) PROVE Kept
    BY <2>1, ReceiveAudit
  <2>2. ASSUME NEW c \in Calls, Handle(c) PROVE Kept
    BY <2>2, RefuseAudit, DenyAudit, RunAudit, LogNextAudit, RespondAudit DEF Handle
  <2>3. ASSUME NEW c \in Calls, Execute(c) PROVE Kept
    BY <2>3, ExecuteAudit
  <2>4. Kept \/ UNCHANGED vars
    BY <1>3, <2>1, <2>2, <2>3 DEF Next, Finished
  <2> QED  BY <1>1, <1>2, <2>4 DEF AuditInv
<1> QED  BY <1>1, <1>2, <1>3 DEF AuditInv

\* When a call has its reply, it has as many records as the reply stands for,
\* and each is the one expected at its place.
LEMMA RepliedRecords ==
  ASSUME AuditInv, NEW c \in Calls, hpc[c] = "done", reply[c] # "txFailed"
  PROVE  /\ Len(ExpectedRecords(c)) = logged[c]
         /\ \A k \in 1..logged[c] : ExpectedRecords(c)[k] = Entry(c, k)
<1>0. /\ Handler(c) /\ Completed(c) /\ Progress(c)
      /\ logged[c] \in Nat /\ results[c] \in Nat
      /\ answer[c] \in EP!Answers /\ (answer[c] = "none" <=> pc[c] # "done")
      /\ pc[c] # "idle" => /\ req[c] \in Served /\ req[c].profile \in Profiles
                           /\ job[c] = JobOf(req[c])
  BY HandlerFacts
<1>1. CASE reply[c] \in {"invalidProfile", "refused"}
  <2>1. logged[c] = 0
    BY <1>0, <1>1 DEF Handler, Progress, Refusals
  <2>2. ExpectedRecords(c) = << >>
    BY <1>1 DEF ExpectedRecords
  <2> QED  BY <2>1, <2>2
<1>2. CASE reply[c] = "denied"
  <2>1. logged[c] = 1 /\ pc[c] = "idle"
    BY <1>0, <1>2 DEF Handler, Progress, Refusals
  <2> QED  BY <1>2, <2>1 DEF ExpectedRecords, Entry
<1>3. CASE reply[c] \notin Refusals
  <2>1. /\ pc[c] = "done" /\ reply[c] = answer[c] /\ logged[c] = Attempted(c)
        /\ reply[c] \in {"ok", "failed", "committed", "rolledBack"}
    BY <1>0, <1>3 DEF Progress, EP!Answers
  <2>2. \A k : Entry(c, k) = Record(c, k, "allowed", Erred(c, k))
    BY <2>1 DEF Entry
  <2>4. CASE reply[c] \in {"ok", "failed"}
    <3>1. logged[c] = 1
      BY <2>1, <2>4 DEF Attempted
    <3>2. Erred(c, 1) = (reply[c] = "failed")
      BY <2>1, <2>4 DEF Erred
    <3>3. \A x : Len(<< x >>) = 1 /\ << x >>[1] = x
      OBVIOUS
    <3>4. CASE reply[c] = "ok"
      <4>1. ExpectedRecords(c) = << Record(c, 1, "allowed", FALSE) >>
        BY <3>4 DEF ExpectedRecords
      <4>2. Erred(c, 1) = FALSE
        BY <2>1, <3>4 DEF Erred
      <4>3. Entry(c, 1) = Record(c, 1, "allowed", FALSE)
        BY <2>2, <4>2
      <4> QED  BY <3>1, <3>3, <4>1, <4>3 DEF Record
    <3>5. CASE reply[c] = "failed"
      <4>1. ExpectedRecords(c) = << Record(c, 1, "allowed", TRUE) >>
        BY <3>5 DEF ExpectedRecords
      <4>2. Erred(c, 1) = TRUE
        BY <2>1, <3>5 DEF Erred
      <4>3. Entry(c, 1) = Record(c, 1, "allowed", TRUE)
        BY <2>2, <4>2
      <4> QED  BY <3>1, <3>3, <4>1, <4>3 DEF Record
    <3> QED  BY <2>4, <3>4, <3>5
  <2>5. CASE reply[c] = "rolledBack"
    <3>1. logged[c] = results[c] + 1
      BY <2>1, <2>5 DEF Attempted
    <3>3. ExpectedRecords(c)
          = [k \in 1..(results[c] + 1) |->
               IF k <= results[c] THEN Record(c, k, "allowed", FALSE)
                                  ELSE Record(c, k, "allowed", TRUE)]
      BY <2>5 DEF ExpectedRecords
    <3>4. ASSUME NEW k \in 1..logged[c] PROVE ExpectedRecords(c)[k] = Entry(c, k)
      <4>1. CASE k <= results[c]
        <5>1. Erred(c, k) = FALSE
          BY <1>0, <2>1, <2>5, <4>1 DEF Erred
        <5>2. Entry(c, k) = Record(c, k, "allowed", FALSE)
          BY <2>2, <5>1
        <5>3. ExpectedRecords(c)[k] = Record(c, k, "allowed", FALSE)
          BY <3>1, <3>3, <4>1
        <5> QED  BY <5>2, <5>3, Zenon
      <4>2. CASE ~(k <= results[c])
        <5>1. Erred(c, k) = TRUE
          BY <1>0, <2>1, <2>5, <3>1, <4>2 DEF Erred
        <5>2. Entry(c, k) = Record(c, k, "allowed", TRUE)
          BY <2>2, <5>1
        <5>3. ExpectedRecords(c)[k] = Record(c, k, "allowed", TRUE)
          BY <3>1, <3>3, <4>2
        <5> QED  BY <5>2, <5>3, Zenon
      <4> QED  BY <4>1, <4>2
    <3>5. DOMAIN ExpectedRecords(c) = 1..(results[c] + 1)
      BY <3>3, Zenon
    <3>6. Len(ExpectedRecords(c)) = results[c] + 1
      BY <1>0, <3>5
    <3> QED  BY <3>1, <3>4, <3>6
  <2>6. CASE reply[c] = "committed"
    <3>1. req[c].text.stmts \in Seq(G!Stmts)
      BY <1>0, <2>1, RequestFacts DEF Served
    <3>2. logged[c] = Len(req[c].text.stmts)
      BY <1>0, <2>1, <2>6, <3>1 DEF Attempted, Completed, EP!Count, JobOf
    <3>3. ExpectedRecords(c)
          = [i \in 1..Len(req[c].text.stmts) |-> Record(c, i, "allowed", FALSE)]
      BY <2>6 DEF ExpectedRecords
    <3>4. ASSUME NEW k \in 1..logged[c] PROVE ExpectedRecords(c)[k] = Entry(c, k)
      <4>1. Erred(c, k) = FALSE
        BY <2>1, <2>6 DEF Erred
      <4>2. Entry(c, k) = Record(c, k, "allowed", FALSE)
        BY <2>2, <4>1
      <4>3. ExpectedRecords(c)[k] = Record(c, k, "allowed", FALSE)
        BY <3>2, <3>3
      <4> QED  BY <4>2, <4>3, Zenon
    <3>5. DOMAIN ExpectedRecords(c) = 1..Len(req[c].text.stmts)
      BY <3>3, Zenon
    <3>6. Len(ExpectedRecords(c)) = Len(req[c].text.stmts)
      BY <3>1, <3>5
    <3> QED  BY <3>2, <3>4, <3>6
  <2> QED  BY <2>1, <2>4, <2>5, <2>6
<1> QED  BY <1>1, <1>2, <1>3 DEF Refusals

\* What a client is told is what the audit log of its profile says, record for
\* record, whatever other calls log in between; only of a script whose transaction
\* failed this says no more than that its records are in order and in no other log.
THEOREM RepliesAudited == Spec => []AuditMatchesReply
<1>1. AuditInv => AuditMatchesReply
  <2> SUFFICES ASSUME AuditInv, NEW c \in Calls, NEW p \in Profiles, hpc[c] = "done"
               PROVE  /\ \A i, j \in Places(c, p) : i < j => log[p][i].stmt < log[p][j].stmt
                      /\ p # req[c].profile => Places(c, p) = {}
                      /\ p = req[c].profile /\ reply[c] # "txFailed" =>
                           LET expected == ExpectedRecords(c)
                           IN {log[p][i] : i \in Places(c, p)}
                                = {expected[k] : k \in 1..Len(expected)}
    BY DEF AuditMatchesReply
  <2>1. Recorded(c) /\ logged[c] \in Nat
    BY HandlerFacts
  <2>2. \A i, j \in Places(c, p) : i < j => log[p][i].stmt < log[p][j].stmt
    BY <2>1 DEF Recorded
  <2>3. p # req[c].profile => Places(c, p) = {}
    BY <2>1 DEF Recorded
  <2>4. ASSUME p = req[c].profile, reply[c] # "txFailed"
        PROVE  {log[p][i] : i \in Places(c, p)}
                 = {ExpectedRecords(c)[k] : k \in 1..Len(ExpectedRecords(c))}
    <3> DEFINE e == ExpectedRecords(c)
    <3>1. Len(e) = logged[c] /\ \A k \in 1..logged[c] : e[k] = Entry(c, k)
      BY <2>4, RepliedRecords
    <3>2. \A i \in Places(c, p) : \E k \in 1..logged[c] : log[p][i] = Entry(c, k)
      BY <2>1 DEF Recorded
    <3>3. \A k \in 1..logged[c] : \E i \in Places(c, p) : log[p][i] = Entry(c, k)
      BY <2>1, <2>4 DEF Recorded
    <3> HIDE DEF e
    <3>4. {log[p][i] : i \in Places(c, p)} = {e[k] : k \in 1..Len(e)}
      BY <3>1, <3>2, <3>3
    <3> QED  BY <3>4 DEF e
  <2> QED  BY <2>2, <2>3, <2>4
<1> QED  BY <1>1, InitAudit, NextAudit, Initial, PTL DEF Spec
=============================================================================
