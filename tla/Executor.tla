------------------------------ MODULE Executor ------------------------------
(***************************************************************************)
(* internal/executor: the connection pools, transactions and deadlines of  *)
(* the process, one executor per profile.  A call is one use of Query (and *)
(* the metadata readers, built the same way), Execute or RunScript; its    *)
(* Go statements, the database/sql goroutine that watches the context of a *)
(* transaction, and the MySQL server at the other end all take steps of    *)
(* their own, so a reply may cross a deadline and a write may land after    *)
(* the caller was told that it failed.                                     *)
(***************************************************************************)
EXTENDS Integers, Sequences, FiniteSets

CONSTANTS Calls,      \* tool calls in flight (each identifier is used once)
          Profiles,   \* one executor, hence one pool, per profile
          MaxOpen,    \* mysql.pool.max_open
          Jobs,       \* what calls are asked to do: [profile, mode, stmts]
          NoJob

Modes == {"query", "execute", "script"}
Kinds == {"read", "write", "ddl"}

ASSUME CallsAssumption == IsFiniteSet(Calls)
ASSUME MaxOpenAssumption == MaxOpen \in Nat \ {0}
ASSUME JobsAssumption ==
  /\ Jobs \subseteq [profile : Profiles, mode : Modes, stmts : Seq(Kinds)]
  /\ NoJob \notin Jobs
  /\ \A j \in Jobs : /\ Len(j.stmts) >= 1
                     /\ j.mode # "script" => Len(j.stmts) = 1

VARIABLES job,      \* job[c]
          pc,       \* pc[c]: where the call's goroutine is
          results,  \* results[c]: statements that succeeded (len(results))
          ctxDone,  \* calls whose context has ended: cancelled or timed out
          held,     \* calls that hold a connection of their profile's pool
          pending,  \* pending[c]: writes at the server, not yet durable
          late,     \* calls that left a write behind on a closed connection
          db,       \* durable writes, as <<call, statement number>>
          answer    \* answer[c]: what the call returned, or "none"

vars == <<job, pc, results, ctxDone, held, pending, late, db, answer>>

Init == /\ job = [c \in Calls |-> NoJob]
        /\ pc = [c \in Calls |-> "idle"]
        /\ results = [c \in Calls |-> 0]
        /\ ctxDone = {}
        /\ held = {}
        /\ pending = [c \in Calls |-> {}]
        /\ late = {}
        /\ db = {}
        /\ answer = [c \in Calls |-> "none"]

Mode(c) == job[c].mode
Count(c) == Len(job[c].stmts)

\* The statements of a job that change data.
Effect(j) == {i \in 1..Len(j.stmts) : j.stmts[i] # "read"}

Holders(p) == {c \in held : job[c].profile = p}

Goto(c, l) == pc' = [pc EXCEPT ![c] = l]

\* The call gives its connection back and returns a to its caller.
Return(c, a) == /\ Goto(c, "done")
                /\ answer' = [answer EXCEPT ![c] = a]
                /\ held' = held \ {c}

-----------------------------------------------------------------------------
(***************************************************************************)
(* A handler calls Query, Execute or RunScript.                            *)
(***************************************************************************)
Submit(c, j) == /\ pc[c] = "idle"
                /\ job' = [job EXCEPT ![c] = j]
                /\ Goto(c, "waiting")
                /\ UNCHANGED <<results, ctxDone, held, pending, late, db, answer>>

Active(c) == pc[c] \notin {"idle", "done"}

\* The client cancels the request, or its connection goes away.
Cancel(c) == /\ Active(c)
             /\ ctxDone' = ctxDone \cup {c}
             /\ UNCHANGED <<job, pc, results, held, pending, late, db, answer>>

\* query_timeout: Query and Execute put one deadline on the whole call,
\* RunScript only on each statement (see StmtTimeout).
Deadline(c) == /\ Cancel(c)
               /\ Mode(c) # "script"

(***************************************************************************)
(* database/sql hands out a connection, at most MaxOpen per executor.      *)
(* Execute sends its statement at once: autocommit, no transaction.        *)
(***************************************************************************)
Acquire(c) ==
  /\ pc[c] = "waiting"
  /\ c \notin ctxDone
  /\ Cardinality(Holders(job[c].profile)) < MaxOpen
  /\ held' = held \cup {c}
  /\ IF Mode(c) = "execute"
     THEN /\ Goto(c, "run")
          /\ pending' = [pending EXCEPT ![c] = Effect(job[c])]
     ELSE /\ Goto(c, "begin")
          /\ UNCHANGED pending
  /\ UNCHANGED <<job, results, ctxDone, late, db, answer>>

\* The error a call returns when it got no further than BeginTx.
Refusal(c) == IF Mode(c) = "script" THEN "txFailed" ELSE "failed"

\* The context ends while the call waits for a connection.
GiveUp(c) == /\ pc[c] = "waiting"
             /\ c \in ctxDone
             /\ Return(c, Refusal(c))
             /\ UNCHANGED <<job, results, ctxDone, pending, late, db>>

BeginOk(c) == /\ pc[c] = "begin"
              /\ Goto(c, "next")
              /\ UNCHANGED <<job, results, ctxDone, held, pending, late, db, answer>>

\* BeginTx fails: the server refuses, the connection or the context ends.
BeginFails(c) == /\ pc[c] = "begin"
                 /\ Return(c, Refusal(c))
                 /\ UNCHANGED <<job, results, ctxDone, pending, late, db>>

-----------------------------------------------------------------------------
(***************************************************************************)
(* The statement loop.  A transaction whose context has ended takes no     *)
(* further statement: tx.QueryContext and tx.ExecContext return the error. *)
(***************************************************************************)
SendStmt(c) == /\ pc[c] = "next"
               /\ results[c] < Count(c)
               /\ c \notin ctxDone
               /\ Goto(c, "run")
               /\ UNCHANGED <<job, results, ctxDone, held, pending, late, db, answer>>

RefuseStmt(c) == /\ pc[c] = "next"
                 /\ results[c] < Count(c)
                 /\ c \in ctxDone
                 /\ Goto(c, "rollback")
                 /\ UNCHANGED <<job, results, ctxDone, held, pending, late, db, answer>>

InTx(c) == Mode(c) # "execute"

\* The statement that runs, and its kind.
Current(c) == results[c] + 1
Kind(c) == job[c].stmts[Current(c)]

\* Mutant: Query begins a transaction that is not read-only.
StmtDoneReadWrite(c) ==
  /\ pc[c] = "run" /\ InTx(c)
  /\ results' = [results EXCEPT ![c] = @ + 1]
  /\ Goto(c, "next")
  /\ IF Kind(c) = "ddl"
     THEN /\ db' = db \cup ({c} \X (pending[c] \cup {Current(c)}))
          /\ pending' = [pending EXCEPT ![c] = {}]
     ELSE /\ pending' = [pending EXCEPT ![c] = @ \cup ({Current(c)} \cap Effect(job[c]))]
          /\ UNCHANGED db
  /\ UNCHANGED <<job, ctxDone, held, late, answer>>

\* Mutant: a script statement goes to the pool (db) instead of the transaction.
StmtDoneOutsideTx(c) ==
  /\ pc[c] = "run" /\ InTx(c)
  /\ Mode(c) = "query" => Kind(c) = "read"
  /\ results' = [results EXCEPT ![c] = @ + 1]
  /\ Goto(c, "next")
  /\ db' = db \cup ({c} \X ({Current(c)} \cap Effect(job[c])))
  /\ UNCHANGED <<job, ctxDone, held, pending, late, answer>>

(***************************************************************************)
(* A statement of a transaction succeeds.  The read-only transaction of    *)
(* Query takes nothing but reads; DDL commits what precedes it, and itself.*)
(***************************************************************************)
StmtDone(c) ==
  /\ pc[c] = "run" /\ InTx(c)
  /\ Mode(c) = "query" => Kind(c) = "read"
  /\ results' = [results EXCEPT ![c] = @ + 1]
  /\ Goto(c, "next")
  /\ LET writes == pending[c] \cup ({Current(c)} \cap Effect(job[c]))
     IN IF Kind(c) = "ddl"
        THEN /\ db' = db \cup ({c} \X writes)
             /\ pending' = [pending EXCEPT ![c] = {}]
        ELSE /\ pending' = [pending EXCEPT ![c] = writes]
             /\ UNCHANGED db
  /\ UNCHANGED <<job, ctxDone, held, late, answer>>

\* Mutant: the script loop goes on after a statement that failed.
StmtFailsGoesOn(c) ==
  /\ pc[c] = "run" /\ InTx(c)
  /\ results' = [results EXCEPT ![c] = @ + 1]
  /\ Goto(c, "next")
  /\ UNCHANGED <<job, ctxDone, held, pending, late, db, answer>>

(***************************************************************************)
(* The server rejects the statement; it may have rolled the transaction    *)
(* back by itself (a deadlock victim) or only undone the statement.        *)
(***************************************************************************)
StmtFails(c) ==
  /\ pc[c] = "run"
  /\ IF InTx(c)
     THEN /\ Goto(c, "rollback")
          /\ \E left \in {pending[c], {}} : pending' = [pending EXCEPT ![c] = left]
          /\ UNCHANGED <<held, answer>>
     ELSE /\ Return(c, "failed")
          /\ pending' = [pending EXCEPT ![c] = {}]
  /\ UNCHANGED <<job, results, ctxDone, late, db>>

(***************************************************************************)
(* The connection goes away under the statement: the driver closes it when *)
(* the statement's context ends, or the network does.  A transaction dies  *)
(* with its connection; an autocommitted statement may still be running.   *)
(***************************************************************************)
StmtCut(c) ==
  /\ pc[c] = "run"
  /\ IF InTx(c)
     THEN /\ Goto(c, "rollback")
          /\ pending' = [pending EXCEPT ![c] = {}]
          /\ UNCHANGED <<held, late, answer>>
     ELSE /\ Return(c, "failed")
          /\ late' = late \cup {c}
          /\ UNCHANGED pending
  /\ UNCHANGED <<job, results, ctxDone, db>>

\* Mutant: RunScript gives its statements the request's context as it is.
StmtTimeoutOfRequest(c) == StmtCut(c) /\ c \in ctxDone

\* The cut that the code itself brings about, at the end of query_timeout.
StmtTimeout(c) == StmtCut(c) /\ (c \in ctxDone \/ Mode(c) = "script")

-----------------------------------------------------------------------------
\* Query has its rows; the deferred tx.Rollback is what is left.
FinishQuery(c) == /\ pc[c] = "next"
                  /\ Mode(c) = "query"
                  /\ results[c] = Count(c)
                  /\ Goto(c, "rollback")
                  /\ UNCHANGED <<job, results, ctxDone, held, pending, late, db, answer>>

\* tx.Commit looks at the context first and sends nothing if it has ended.
SendCommit(c) == /\ pc[c] = "next"
                 /\ Mode(c) = "script"
                 /\ results[c] = Count(c)
                 /\ c \notin ctxDone
                 /\ Goto(c, "commit")
                 /\ UNCHANGED <<job, results, ctxDone, held, pending, late, db, answer>>

\* Mutant: the error of Commit is swallowed on this path.
RefuseCommitSilently(c) == /\ pc[c] = "next"
                           /\ Mode(c) = "script"
                           /\ results[c] = Count(c)
                           /\ c \in ctxDone
                           /\ Goto(c, "done")
                           /\ UNCHANGED <<job, results, ctxDone, held, pending,
                                          late, db, answer>>

\* Otherwise RunScript returns at once, with no Rollback of its own: the
\* transaction and its connection are left to the goroutine of AwaitDone.
RefuseCommit(c) == /\ pc[c] = "next"
                   /\ Mode(c) = "script"
                   /\ results[c] = Count(c)
                   /\ c \in ctxDone
                   /\ Goto(c, "done")
                   /\ answer' = [answer EXCEPT ![c] = "txFailed"]
                   /\ UNCHANGED <<job, results, ctxDone, held, pending, late, db>>

\* The server makes the call's writes durable, all of them at once: it
\* executes COMMIT, or the autocommitted statement of Execute.
Land(c) == /\ pc[c] = "commit" \/ (pc[c] = "run" /\ ~InTx(c))
           /\ Goto(c, "landed")
           /\ db' = db \cup ({c} \X pending[c])
           /\ pending' = [pending EXCEPT ![c] = {}]
           /\ UNCHANGED <<job, results, ctxDone, held, late, answer>>

Reply(c) == /\ pc[c] = "landed"
            /\ Return(c, IF InTx(c) THEN "committed" ELSE "ok")
            /\ UNCHANGED <<job, results, ctxDone, pending, late, db>>

\* The reply is lost: the caller is told of a failure though the writes are in.
LoseReply(c) == /\ pc[c] = "landed"
                /\ Return(c, Refusal(c))
                /\ UNCHANGED <<job, results, ctxDone, pending, late, db>>

\* Mutant: a failed Commit is reported the way a failed statement is.
CommitFailsAsRollback(c) == /\ pc[c] = "commit"
                            /\ Return(c, "rolledBack")
                            /\ late' = late \cup {c}
                            /\ UNCHANGED <<job, results, ctxDone, pending, db>>

\* COMMIT fails: refused by the server, or lost on its way there.
CommitFails(c) == /\ pc[c] = "commit"
                  /\ Return(c, "txFailed")
                  /\ \/ /\ pending' = [pending EXCEPT ![c] = {}]
                        /\ UNCHANGED late
                     \/ /\ late' = late \cup {c}
                        /\ UNCHANGED pending
                  /\ UNCHANGED <<job, results, ctxDone, db>>

\* What a statement or COMMIT on a closed connection comes to at the server.
LateLands(c) == /\ c \in late
                /\ late' = late \ {c}
                /\ db' = db \cup ({c} \X pending[c])
                /\ pending' = [pending EXCEPT ![c] = {}]
                /\ UNCHANGED <<job, pc, results, ctxDone, held, answer>>

LateDropped(c) == /\ c \in late
                  /\ late' = late \ {c}
                  /\ pending' = [pending EXCEPT ![c] = {}]
                  /\ UNCHANGED <<job, pc, results, ctxDone, held, db, answer>>

-----------------------------------------------------------------------------
\* What Query and RunScript return once they have rolled back.
Verdict(c) == CASE Mode(c) = "script" -> "rolledBack"
                [] Mode(c) = "query" /\ results[c] = Count(c) -> "ok"
                [] OTHER -> "failed"

\* Mutant: an error path that returns without tx.Rollback.
RollbackForgotten(c) ==
  /\ pc[c] = "rollback"
  /\ Goto(c, "done")
  /\ answer' = [answer EXCEPT ![c] = Verdict(c)]
  /\ UNCHANGED <<job, results, ctxDone, held, pending, late, db>>

(***************************************************************************)
(* tx.Rollback, deferred in Query and on every error path of RunScript.    *)
(* When the goroutine of AwaitDone has marked the transaction as done, the *)
(* call returns without waiting for it to give the connection back.        *)
(***************************************************************************)
Rollback(c) ==
  /\ pc[c] = "rollback"
  /\ \/ /\ Return(c, Verdict(c))
        /\ pending' = [pending EXCEPT ![c] = {}]
     \/ /\ c \in ctxDone /\ c \in held
        /\ Goto(c, "done")
        /\ answer' = [answer EXCEPT ![c] = Verdict(c)]
        /\ UNCHANGED <<held, pending>>
  /\ UNCHANGED <<job, results, ctxDone, late, db>>

\* Mutant: nobody looks after the transaction once its call has returned.
AwaitDoneWhileActive(c) == /\ pc[c] \in {"next", "rollback"}
                           /\ c \in ctxDone /\ c \in held
                           /\ held' = held \ {c}
                           /\ pending' = [pending EXCEPT ![c] = {}]
                           /\ UNCHANGED <<job, pc, results, ctxDone, late, db, answer>>

(***************************************************************************)
(* Tx.awaitDone: when the context of an open transaction ends, a goroutine *)
(* of database/sql rolls it back and returns the connection, at any moment *)
(* when no statement of the transaction runs.                              *)
(***************************************************************************)
AwaitDone(c) == /\ pc[c] \in {"next", "rollback", "done"}
                /\ c \in ctxDone /\ c \in held
                /\ held' = held \ {c}
                /\ pending' = [pending EXCEPT ![c] = {}]
                /\ UNCHANGED <<job, pc, results, ctxDone, late, db, answer>>

-----------------------------------------------------------------------------
\* The goroutine of the call: what it does without anybody's answer.
Proceed(c) == \/ SendStmt(c) \/ RefuseStmt(c) \/ FinishQuery(c)
              \/ SendCommit(c) \/ RefuseCommit(c) \/ GiveUp(c)

\* The server's answer to BEGIN, COMMIT and ROLLBACK, or the loss of it.
ControlReply(c) == \/ BeginOk(c) \/ BeginFails(c) \/ CommitFails(c) \/ Rollback(c)
                   \/ (Land(c) /\ InTx(c)) \/ Reply(c) \/ LoseReply(c)

Step(c) == \/ Cancel(c) \/ Acquire(c) \/ Proceed(c) \/ ControlReply(c)
           \/ StmtDone(c) \/ StmtFails(c) \/ StmtCut(c) \/ Land(c)
           \/ AwaitDone(c) \/ LateLands(c) \/ LateDropped(c)

\* The workload is over: every call has returned.
Finished == /\ \A c \in Calls : pc[c] = "done"
            /\ UNCHANGED vars

Next == \/ \E c \in Calls : \/ \E j \in Jobs : Submit(c, j)
                            \/ Step(c)
        \/ Finished

(***************************************************************************)
(* A goroutine that can run does; a timer fires; database/sql serves a     *)
(* waiter when a connection stays free; the server answers BEGIN, COMMIT   *)
(* and ROLLBACK, which the code sends without a deadline.  Nothing is      *)
(* assumed of how long a statement runs.                                   *)
(***************************************************************************)
Fairness == \A c \in Calls : /\ WF_vars(Acquire(c))
                             /\ WF_vars(Proceed(c))
                             /\ WF_vars(Deadline(c))
                             /\ WF_vars(StmtTimeout(c))
                             /\ WF_vars(ControlReply(c))
                             /\ WF_vars(AwaitDone(c))

Spec == Init /\ [][Next]_vars
FairSpec == Spec /\ Fairness

-----------------------------------------------------------------------------
Labels == {"idle", "waiting", "begin", "next", "run", "commit", "landed",
           "rollback", "done"}
Answers == {"none", "ok", "failed", "committed", "rolledBack", "txFailed"}

TypeOK == /\ job \in [Calls -> Jobs \cup {NoJob}]
          /\ pc \in [Calls -> Labels]
          /\ results \in [Calls -> Nat]
          /\ ctxDone \subseteq Calls
          /\ held \subseteq Calls
          /\ pending \in [Calls -> SUBSET Nat]
          /\ late \subseteq Calls
          /\ db \subseteq Calls \X Nat
          /\ answer \in [Calls -> Answers]
          /\ \A c \in Calls : answer[c] = "none" <=> pc[c] # "done"

Submitted == {c \in Calls : job[c] # NoJob}
Durable(c) == {i \in Effect(job[c]) : <<c, i>> \in db}

\* The guard lets no DDL into a script (rule script_ddl).
NoDDL(j) == j.mode = "script" => \A i \in 1..Len(j.stmts) : j.stmts[i] # "ddl"

\* A script is all in or not at all in, at every moment and whatever fails:
\* "any failure rolls back everything" (README.md:30, script.go:28).
ScriptAtomic ==
  \A c \in Submitted :
    Mode(c) = "script" /\ NoDDL(job[c]) => Durable(c) \in {{}, Effect(job[c])}

\* What a caller is told is true and stays true: "COMMIT" when every write is
\* in, "nothing was committed" when none is, nor can still land.
AnswersAreTrue ==
  \A c \in Submitted : NoDDL(job[c]) =>
    /\ answer[c] = "committed" => Durable(c) = Effect(job[c])
    /\ answer[c] = "ok" /\ Mode(c) = "execute" => Durable(c) = Effect(job[c])
    /\ answer[c] = "rolledBack" => Durable(c) = {} /\ c \notin late

\* The second line of defence (executor.go:59): whatever statement the guard
\* lets through to Query, the database is what it was.
QueryNeverWrites ==
  \A c \in Submitted : Mode(c) = "query" => Durable(c) = {}

\* No path out of Query, Execute or RunScript forgets a connection: one that
\* outlives its call is already on its way back through awaitDone.
NoConnectionLeak ==
  \A c \in held : Active(c) \/ (pc[c] = "done" /\ c \in ctxDone)

\* No tool call hangs, although the database may never answer a statement:
\* every wait for a connection or a statement is bounded by a deadline, or by
\* the deadlines of the calls that hold the connections.
EveryCallReturns == \A c \in Calls : pc[c] = "waiting" ~> pc[c] = "done"

\* The pool recovers: what a call held is free again some time after it.
ConnectionsComeBack == \A c \in Calls : pc[c] = "done" ~> c \notin held

\* All of this is the contract that the tool handlers rely on.
Contract == INSTANCE ExecutorContract
ImplementsContract == Contract!Spec
=============================================================================
