----------------------------- MODULE ToolServer -----------------------------
(***************************************************************************)
(* internal/server: the tool handlers, from the request to the reply, over *)
(* the guard and the executors.  Requests run concurrently, each in a      *)
(* goroutine of its own; they share the pools, the databases and the audit *)
(* logs of their profiles.                                                 *)
(***************************************************************************)
EXTENDS Integers, Sequences, FiniteSets

CONSTANTS Calls,      \* tool calls
          Profiles,   \* configured profiles
          MaxOpen,    \* mysql.pool.max_open
          Tables,     \* tables that statements may name
          Security,   \* Security[p]: the security section of profile p
          Requests,   \* what clients ask for: [profile, tool, format, text]
          NoRequest, NoJob

VARIABLES job, pc, results, ctxDone, held, pending, late, db, answer,
          req,        \* req[c]: the request that c serves
          hpc,        \* hpc[c]: where its handler is
          logged,     \* logged[c]: audit records the handler has written
          log,        \* log[p]: records of profile p, in the order logged
          reply       \* reply[c]: what the client was told, or "none"

executors == <<job, pc, results, ctxDone, held, pending, late, db, answer>>
handlers == <<req, hpc, logged, log, reply>>
vars == <<executors, handlers>>

G == INSTANCE Guard

-----------------------------------------------------------------------------
(***************************************************************************)
(* What a request may not even be checked for: mysql_explain's own denials *)
(* and the name check of mysql_describe_table.  These are not audited.     *)
(***************************************************************************)
Config(q) == Security[q.profile]

Unaudited(q) ==
  \/ q.tool = "explain" /\ \/ G!ClassifyOne(q.text) # "select"
                           \/ q.format = "other"
  \/ q.tool = "describe" /\ ~(q.text.stmts[1].tables \subseteq Config(q).whitelist)

\* mysql_list_tables asks the guard about the tables it found, not about SQL.
Admitted(q) ==
  CASE q.tool = "script"     -> ~G!CheckScript(Config(q), q.text).denied
    [] q.tool = "execute"    -> G!Check(Config(q), q.text, "execute").allowed
    [] q.tool = "explain"    -> G!Explain(Config(q), q.text, q.format).allowed
    [] q.tool = "listTables" -> TRUE
    [] OTHER                 -> G!Check(Config(q), q.text, "query").allowed

\* What MySQL makes of a statement.
DataKind(s) == IF ~G!Mutates(s) THEN "read"
               ELSE IF s.kind = "ddl" THEN "ddl" ELSE "write"

\* The call of the executor that an admitted request becomes.
Mode(q) == CASE q.tool = "execute" -> "execute"
             [] q.tool = "script"  -> "script"
             [] OTHER              -> "query"
JobOf(q) == [profile |-> q.profile, mode |-> Mode(q),
             stmts |-> [i \in 1..Len(q.text.stmts) |-> DataKind(q.text.stmts[i])]]

\* The requests that get as far as an executor.
Served == {q \in Requests : q.profile \in Profiles /\ ~Unaudited(q) /\ Admitted(q)}
Jobs == {JobOf(q) : q \in Served}

\* A text that does not parse has no statements; the handlers' own SQL has one.
ASSUME RequestsAssumption ==
  /\ Security \in [Profiles -> G!Configs]
  /\ \A q \in Requests :
       /\ q.text.parses \in BOOLEAN /\ q.text.stmts \in Seq(G!Stmts)
       /\ ~q.text.parses => q.text.stmts = << >>
       /\ q.tool = "listTables" => Len(q.text.stmts) = 1
ASSUME PoolAssumption == IsFiniteSet(Calls) /\ MaxOpen \in Nat \ {0} /\ NoJob \notin Jobs

Ex == INSTANCE Executor

-----------------------------------------------------------------------------
Init == /\ Ex!Init
        /\ req = [c \in Calls |-> NoRequest]
        /\ hpc = [c \in Calls |-> "idle"]
        /\ logged = [c \in Calls |-> 0]
        /\ log = [p \in Profiles |-> << >>]
        /\ reply = [c \in Calls |-> "none"]

Goto(c, l) == hpc' = [hpc EXCEPT ![c] = l]
Reply(c, a) == Goto(c, "done") /\ reply' = [reply EXCEPT ![c] = a]

\* A request arrives and its profile is resolved: a blank or unknown name is
\* answered without touching any profile.
Receive(c, q) == /\ hpc[c] = "idle"
                 /\ req' = [req EXCEPT ![c] = q]
                 /\ IF q.profile \in Profiles
                    THEN Goto(c, "resolved") /\ UNCHANGED reply
                    ELSE Reply(c, "invalidProfile")
                 /\ UNCHANGED <<executors, logged, log>>

RefuseUnaudited(c) == /\ hpc[c] = "resolved"
                      /\ Unaudited(req[c])
                      /\ Reply(c, "refused")
                      /\ UNCHANGED <<executors, req, logged, log>>

Log(c, rec) == /\ log' = [log EXCEPT ![req[c].profile] = Append(@, rec)]
               /\ logged' = [logged EXCEPT ![c] = @ + 1]

Record(c, i, decision, error) ==
  [call |-> c, stmt |-> i, decision |-> decision, error |-> error]

\* Mutant: the denial is returned before it is logged.
DenyUnlogged(c) == /\ hpc[c] = "resolved"
                   /\ ~Unaudited(req[c]) /\ ~Admitted(req[c])
                   /\ Reply(c, "denied")
                   /\ UNCHANGED <<executors, req, logged, log>>

\* The guard denies: one record, for the whole script where it is one.
Deny(c) == /\ hpc[c] = "resolved"
           /\ ~Unaudited(req[c]) /\ ~Admitted(req[c])
           /\ Log(c, Record(c, 1, "denied", FALSE))
           /\ Reply(c, "denied")
           /\ UNCHANGED <<executors, req>>

\* Mutant: a denied statement is run all the same.
RunDenied(c) == /\ hpc[c] = "resolved"
                /\ ~Unaudited(req[c])
                /\ Ex!Submit(c, JobOf(req[c]))
                /\ Goto(c, "running")
                /\ UNCHANGED <<req, logged, log, reply>>

\* The guard admits: the executor of the profile is called.
Run(c) == /\ hpc[c] = "resolved"
          /\ ~Unaudited(req[c]) /\ Admitted(req[c])
          /\ Ex!Submit(c, JobOf(req[c]))
          /\ Goto(c, "running")
          /\ UNCHANGED <<req, logged, log, reply>>

(***************************************************************************)
(* The executor has returned.  A single statement has one record; a script *)
(* one for each statement up to the one that failed.  handleScript counts  *)
(* them by the failed index, which is 0 when BEGIN or COMMIT failed.       *)
(***************************************************************************)
Returned(c) == hpc[c] = "running" /\ pc[c] = "done"

Attempted(c) == CASE answer[c] = "rolledBack" -> results[c] + 1
                  [] answer[c] = "txFailed"   -> 0
                  [] answer[c] = "committed"  -> results[c]
                  [] OTHER                    -> 1

Erred(c, i) == \/ answer[c] = "failed"
               \/ answer[c] = "rolledBack" /\ i = results[c] + 1

LogNext(c) == /\ Returned(c)
              /\ logged[c] < Attempted(c)
              /\ Log(c, Record(c, logged[c] + 1, "allowed", Erred(c, logged[c] + 1)))
              /\ UNCHANGED <<executors, req, hpc, reply>>

Respond(c) == /\ Returned(c)
              /\ logged[c] = Attempted(c)
              /\ Reply(c, answer[c])
              /\ UNCHANGED <<executors, req, logged, log>>

Handle(c) == \/ RefuseUnaudited(c) \/ Deny(c) \/ Run(c) \/ LogNext(c) \/ Respond(c)

\* The executors, their connections and MySQL go on by themselves.
Execute(c) == Ex!Step(c) /\ UNCHANGED handlers

\* The workload is over: every request has its reply.
Finished == /\ \A c \in Calls : hpc[c] = "done"
            /\ UNCHANGED vars

Next == \/ \E c \in Calls : \/ \E q \in Requests : Receive(c, q)
                            \/ Handle(c)
                            \/ Execute(c)
        \/ Finished

Spec == Init /\ [][Next]_vars

-----------------------------------------------------------------------------
\* End to end, every write that reached a database is one its profile's
\* configuration permits: of an enabled class and on whitelisted tables.
WritesWerePermitted ==
  \A w \in db :
    LET q == req[w[1]]
        s == q.text.stmts[w[2]]
    IN /\ q.profile \in Profiles
       /\ G!StrongestEffect(s) \in Config(q).allowed
       /\ s.tables \subseteq Config(q).whitelist

\* Every script that gets as far as the database is all in or not at all in.
\* The executor alone cannot promise it: it takes the guard's ban on DDL.
ScriptsAreAtomic ==
  \A c \in Ex!Submitted :
    job[c].mode = "script" => Ex!Durable(c) \in {{}, Ex!Effect(job[c])}

\* The records that a reply stands for, but for a failed transaction.
ExpectedRecords(c) ==
  CASE reply[c] \in {"invalidProfile", "refused"} -> << >>
    [] reply[c] = "denied"     -> << Record(c, 1, "denied", FALSE) >>
    [] reply[c] = "ok"         -> << Record(c, 1, "allowed", FALSE) >>
    [] reply[c] = "failed"     -> << Record(c, 1, "allowed", TRUE) >>
    [] reply[c] = "committed"  ->
         [i \in 1..Len(req[c].text.stmts) |-> Record(c, i, "allowed", FALSE)]
    [] reply[c] = "rolledBack" ->
         [i \in 1..(results[c] + 1) |->
            IF i <= results[c] THEN Record(c, i, "allowed", FALSE)
                               ELSE Record(c, i, "allowed", TRUE)]

\* The places in the log of p where the records of c are.
Places(c, p) == {i \in 1..Len(log[p]) : log[p][i].call = c}

\* By the time a client has its reply, the log of its profile holds exactly
\* the records that the reply stands for, each once and in the order of the
\* statements, and no other profile's log holds any of them.  Which records a
\* script whose transaction failed leaves is not for this property to say: the
\* documents promise some where the code writes none (ExecutedIsAudited).
AuditMatchesReply ==
  \A c \in Calls, p \in Profiles : hpc[c] = "done" =>
    /\ \A i, j \in Places(c, p) : i < j => log[p][i].stmt < log[p][j].stmt
    /\ p # req[c].profile => Places(c, p) = {}
    /\ p = req[c].profile /\ reply[c] # "txFailed" =>
         LET expected == ExpectedRecords(c)
         IN {log[p][i] : i \in Places(c, p)} = {expected[k] : k \in 1..Len(expected)}

\* script.go:57 "audited one by one: those executed successfully, and the one
\* that failed (if any)": no statement that was executed goes unrecorded.
ExecutedIsAudited ==
  \A c \in Calls : hpc[c] = "done" /\ job[c] # NoJob => logged[c] >= results[c]

\* A refusal, whoever makes it, and "rolled back" from the moment the executor
\* says it, mean what they say: nothing is in a database or on its way there.
RefusalsLeaveNoTrace ==
  \A c \in Calls :
    reply[c] \in {"invalidProfile", "refused", "denied"} \/ answer[c] = "rolledBack" =>
      /\ \A w \in db : w[1] # c
      /\ c \notin late
=============================================================================
