--------------------------- MODULE ExecutorProofs ---------------------------
(***************************************************************************)
(* Proofs about Executor, for any number of calls, profiles, connections   *)
(* and statements.  Every action belongs to one call and leaves the others *)
(* alone, so the inductive invariant is one predicate of a single call,    *)
(* Good(c), and Compose is the step from it to the whole system.           *)
(***************************************************************************)
EXTENDS Executor, TLAPS

\* The statements of c that are durable, and those that its open transaction
\* has taken so far.
Landed(c) == {i \in Nat : <<c, i>> \in db}
Sent(c) == Effect(job[c]) \cap (1..results[c])

\* Where a call of each kind can be, and how many of its statements are done.
Phase(c) ==
  /\ job[c] = NoJob <=> pc[c] = "idle"
  /\ pc[c] \in {"begin", "next", "rollback"} => Mode(c) # "execute"
  /\ pc[c] = "commit" => Mode(c) = "script"
  /\ pc[c] = "landed" => Mode(c) # "query"
  /\ pc[c] \in {"idle", "waiting", "begin"} => results[c] = 0
  /\ pc[c] # "idle" => results[c] <= Count(c)
  /\ pc[c] = "run" => results[c] < Count(c)
  /\ pc[c] = "commit" => results[c] = Count(c)

\* Who has a connection.
Holding(c) ==
  /\ pc[c] \in {"begin", "run", "commit", "landed"} => c \in held
  /\ pc[c] \in {"idle", "waiting"} => c \notin held
  /\ pc[c] = "next" /\ c \notin held => c \in ctxDone
  /\ pc[c] = "done" /\ c \in held => c \in ctxDone

\* Nothing is written before the first statement, and only a call that has
\* failed leaves something behind.
Untouched(c) ==
  /\ pc[c] \in {"idle", "waiting", "begin"} => pending[c] = {} /\ Landed(c) = {}
  /\ c \in late => /\ pc[c] = "done" /\ c \notin held
                   /\ answer[c] \in {"failed", "txFailed"}

Reads(c) ==
  pc[c] # "idle" /\ Mode(c) = "query" =>
    /\ pending[c] = {} /\ Landed(c) = {} /\ c \notin late
    /\ answer[c] \in {"none", "ok", "failed"}

\* Where the writes of a call without DDL are.
Writes(c) ==
  pc[c] # "idle" /\ Mode(c) # "query" /\ NoDDL(job[c]) =>
    /\ pc[c] \notin {"landed", "done"} => Landed(c) = {}
    /\ pc[c] = "next" /\ c \in held => pending[c] = Sent(c)
    /\ pc[c] = "run" /\ InTx(c) => pending[c] = Sent(c)
    /\ pc[c] = "run" /\ ~InTx(c) => pending[c] = Effect(job[c])
    /\ pc[c] = "commit" => pending[c] = Effect(job[c])
    /\ pc[c] = "landed" => Landed(c) = Effect(job[c])
    /\ pc[c] = "done" => Landed(c) \in {{}, Effect(job[c])}
    /\ answer[c] \in {"ok", "committed"} => Landed(c) = Effect(job[c])
    /\ answer[c] = "rolledBack" => Landed(c) = {}
    /\ c \in late => pending[c] = Effect(job[c]) /\ Landed(c) = {}

Good(c) == Phase(c) /\ Holding(c) /\ Untouched(c) /\ Reads(c) /\ Writes(c)

IInv == TypeOK /\ \A c \in Calls : Good(c)

\* What an action of c is to every other call.
Others(c) ==
  \A d \in Calls \ {c} :
    /\ job'[d] = job[d] /\ pc'[d] = pc[d] /\ results'[d] = results[d]
    /\ pending'[d] = pending[d] /\ answer'[d] = answer[d]
    /\ (d \in ctxDone' <=> d \in ctxDone) /\ (d \in held' <=> d \in held)
    /\ (d \in late' <=> d \in late) /\ Landed(d)' = Landed(d)

-----------------------------------------------------------------------------
\* A job that was submitted has statements, and writes some of them.
LEMMA JobFacts ==
  ASSUME NEW j \in Jobs
  PROVE  /\ j \in [profile : Profiles, mode : Modes, stmts : Seq(Kinds)]
         /\ Len(j.stmts) \in Nat /\ Len(j.stmts) >= 1
         /\ j.mode \in Modes
         /\ j.mode # "script" => Len(j.stmts) = 1
         /\ j # NoJob
         /\ Effect(j) \subseteq 1..Len(j.stmts)
         /\ Effect(j) \subseteq Nat
<1>1. j \in [profile : Profiles, mode : Modes, stmts : Seq(Kinds)]
  BY JobsAssumption
<1>2. /\ j # NoJob /\ Len(j.stmts) >= 1
      /\ j.mode # "script" => Len(j.stmts) = 1
  BY JobsAssumption
<1>3. Len(j.stmts) \in Nat /\ j.mode \in Modes
  BY <1>1
<1>4. Effect(j) \subseteq 1..Len(j.stmts)
  BY DEF Effect
<1>5. Effect(j) \subseteq Nat
  BY <1>3, <1>4
<1> QED BY <1>1, <1>2, <1>3, <1>4, <1>5

\* The transaction has taken one statement more ...
LEMMA OneMoreSent ==
  ASSUME NEW E, NEW n \in Nat
  PROVE  E \cap (1..(n + 1)) = (E \cap (1..n)) \cup ({n + 1} \cap E)
OBVIOUS

\* ... and at the end that is all of them.
LEMMA AllSent ==
  ASSUME NEW n \in Nat, NEW E \in SUBSET (1..n)
  PROVE  E \cap (1..n) = E
OBVIOUS

\* Writes of c are added to the database: nobody else's change.
LEMMA LandingAdds ==
  ASSUME TypeOK, NEW c \in Calls, NEW S \in SUBSET Nat, db' = db \cup ({c} \X S)
  PROVE  /\ db' \subseteq Calls \X Nat
         /\ Landed(c)' = Landed(c) \cup S
         /\ \A d \in Calls \ {c} : Landed(d)' = Landed(d)
<1>1. db' \subseteq Calls \X Nat
  BY DEF TypeOK
<1>2. Landed(c)' = Landed(c) \cup S
  BY DEF Landed
<1>3. ASSUME NEW d \in Calls \ {c} PROVE Landed(d)' = Landed(d)
  <2>1. \A i : <<d, i>> \in db' <=> <<d, i>> \in db
    BY <1>3
  <2> QED BY <2>1 DEF Landed
<1> QED BY <1>1, <1>2, <1>3

\* What is good about a call stays good while the others act.
LEMMA Compose ==
  ASSUME IInv, NEW c \in Calls, TypeOK', Good(c)', Others(c)
  PROVE  IInv'
<1>1. ASSUME NEW d \in Calls \ {c} PROVE Good(d)'
  <2>1. Good(d)
    BY DEF IInv
  <2>2. /\ job'[d] = job[d] /\ pc'[d] = pc[d] /\ results'[d] = results[d]
        /\ pending'[d] = pending[d] /\ answer'[d] = answer[d]
        /\ (d \in ctxDone' <=> d \in ctxDone) /\ (d \in held' <=> d \in held)
        /\ (d \in late' <=> d \in late) /\ Landed(d)' = Landed(d)
    BY DEF Others
  <2>3. Phase(d)'
    BY <2>1, <2>2 DEF Good, Phase, Mode, Count
  <2>4. Holding(d)' /\ Untouched(d)'
    BY <2>1, <2>2 DEF Good, Holding, Untouched
  <2>5. Reads(d)'
    BY <2>1, <2>2 DEF Good, Reads, Mode
  <2>6. Writes(d)'
    BY <2>1, <2>2 DEF Good, Writes, Mode, InTx, Sent
  <2> QED BY <2>3, <2>4, <2>5, <2>6 DEF Good
<1> QED BY <1>1 DEF IInv
-----------------------------------------------------------------------------
\* What the invariant says of a call and of its job.
LEMMA CallFacts ==
  ASSUME IInv, NEW c \in Calls
  PROVE  /\ TypeOK /\ Phase(c) /\ Holding(c) /\ Untouched(c) /\ Reads(c) /\ Writes(c)
         /\ pc[c] # "idle" =>
              /\ job[c] \in Jobs
              /\ Mode(c) \in Modes
              /\ Count(c) \in Nat /\ Count(c) >= 1
              /\ Mode(c) # "script" => Count(c) = 1
              /\ Effect(job[c]) \subseteq 1..Count(c)
              /\ Effect(job[c]) \subseteq Nat
<1>1. TypeOK /\ Phase(c) /\ Holding(c) /\ Untouched(c) /\ Reads(c) /\ Writes(c)
  BY DEF IInv, Good
<1>2. pc[c] # "idle" => job[c] \in Jobs
  BY <1>1 DEF TypeOK, Phase
<1> QED BY <1>1, <1>2, JobFacts DEF Mode, Count

\* A step that leaves the database alone leaves everybody's writes alone.
LEMMA LandedKept == ASSUME db' = db PROVE \A d \in Calls : Landed(d)' = Landed(d)
BY DEF Landed

\* The context ends: only who waits for it cares.
LEMMA CancelInv == ASSUME IInv, NEW c \in Calls, Cancel(c) PROVE IInv'
<1>1. TypeOK'
  BY CallFacts DEF Cancel, TypeOK
<1>2. Others(c)
  BY LandedKept DEF Cancel, Others
<1>3. Phase(c)' /\ Holding(c)'
  BY CallFacts DEF Cancel, Phase, Holding, Mode, Count
<1>4. Untouched(c)' /\ Reads(c)'
  BY CallFacts, LandedKept DEF Cancel, Untouched, Reads, Mode
<1>5. Writes(c)'
  BY CallFacts, LandedKept DEF Cancel, Writes, Mode, InTx, Sent
<1> QED BY <1>1, <1>2, <1>3, <1>4, <1>5, Compose DEF Good

\* An autocommitted statement is at the server from here on.
LEMMA AcquireInv == ASSUME IInv, NEW c \in Calls, Acquire(c) PROVE IInv'
<1>1. TypeOK'
  BY CallFacts DEF Acquire, Goto, TypeOK, Labels
<1>2. Others(c)
  BY CallFacts, LandedKept DEF Acquire, Goto, TypeOK, Others
<1>3. Phase(c)' /\ Holding(c)'
  BY CallFacts DEF Acquire, Goto, TypeOK, Phase, Holding, Mode, Count
<1>4. Untouched(c)' /\ Reads(c)'
  BY CallFacts, LandedKept DEF Acquire, Goto, TypeOK, Untouched, Reads, Mode
<1>5. Writes(c)'
  BY CallFacts, LandedKept DEF Acquire, Goto, TypeOK, Writes, Mode, InTx
<1> QED BY <1>1, <1>2, <1>3, <1>4, <1>5, Compose DEF Good

\* A call that waited in vain has done nothing.
LEMMA GiveUpInv == ASSUME IInv, NEW c \in Calls, GiveUp(c) PROVE IInv'
<1>1. TypeOK'
  BY CallFacts DEF GiveUp, Return, Refusal, Goto, TypeOK, Labels, Answers
<1>2. Others(c)
  BY LandedKept DEF GiveUp, Return, Goto, Others
<1>3. Phase(c)' /\ Holding(c)'
  BY CallFacts DEF GiveUp, Return, Goto, Phase, Holding, Count
<1>4. Untouched(c)' /\ Reads(c)'
  BY CallFacts, LandedKept DEF GiveUp, Return, Refusal, Untouched, Reads, Mode
<1>5. Writes(c)'
  BY CallFacts, LandedKept DEF GiveUp, Return, Refusal, Goto, Writes, Mode
<1> QED BY <1>1, <1>2, <1>3, <1>4, <1>5, Compose DEF Good

\* The transaction is open and empty.
LEMMA BeginOkInv == ASSUME IInv, NEW c \in Calls, BeginOk(c) PROVE IInv'
<1>1. TypeOK'
  BY CallFacts DEF BeginOk, Goto, TypeOK, Labels
<1>2. Others(c)
  BY LandedKept DEF BeginOk, Goto, Others
<1>3. Phase(c)' /\ Holding(c)'
  BY CallFacts DEF BeginOk, Goto, Phase, Holding, Mode, Count
<1>4. Untouched(c)' /\ Reads(c)'
  BY CallFacts, LandedKept DEF BeginOk, Untouched, Reads, Mode
<1>5. Writes(c)'
  BY CallFacts, LandedKept DEF BeginOk, Goto, Phase, Untouched, Writes, Mode,
     Sent
<1> QED BY <1>1, <1>2, <1>3, <1>4, <1>5, Compose DEF Good

\* So has one whose BEGIN failed.
LEMMA BeginFailsInv == ASSUME IInv, NEW c \in Calls, BeginFails(c) PROVE IInv'
<1>1. TypeOK'
  BY CallFacts DEF BeginFails, Return, Refusal, Goto, TypeOK, Labels, Answers
<1>2. Others(c)
  BY LandedKept DEF BeginFails, Return, Goto, Others
<1>3. Phase(c)' /\ Holding(c)'
  BY CallFacts DEF BeginFails, Return, Goto, TypeOK, Phase, Holding, Count
<1>4. Untouched(c)' /\ Reads(c)'
  BY CallFacts, LandedKept DEF BeginFails, Return, Refusal, Untouched, Reads,
     Mode
<1>5. Writes(c)'
  BY CallFacts, LandedKept DEF BeginFails, Return, Refusal, Goto, Writes, Mode
<1> QED BY <1>1, <1>2, <1>3, <1>4, <1>5, Compose DEF Good

\* A statement is sent on a live transaction only, which still has its
\* connection: awaitDone acts on a context that has ended.
LEMMA SendStmtInv == ASSUME IInv, NEW c \in Calls, SendStmt(c) PROVE IInv'
<1>1. TypeOK'
  BY CallFacts DEF SendStmt, Goto, TypeOK, Labels
<1>2. Others(c)
  BY LandedKept DEF SendStmt, Goto, Others
<1>3. Phase(c)' /\ Holding(c)'
  BY CallFacts DEF SendStmt, Goto, Phase, Holding, Mode, Count
<1>4. Untouched(c)' /\ Reads(c)'
  BY CallFacts, LandedKept DEF SendStmt, Goto, Untouched, Reads, Mode
<1>5. Writes(c)'
  BY CallFacts, LandedKept DEF SendStmt, Goto, Phase, Holding, Writes, Mode,
     InTx, Sent
<1> QED BY <1>1, <1>2, <1>3, <1>4, <1>5, Compose DEF Good

\* A transaction whose context has ended takes no further statement.
LEMMA RefuseStmtInv == ASSUME IInv, NEW c \in Calls, RefuseStmt(c) PROVE IInv'
<1>1. TypeOK'
  BY CallFacts DEF RefuseStmt, Goto, TypeOK, Labels
<1>2. Others(c)
  BY LandedKept DEF RefuseStmt, Goto, Others
<1>3. Phase(c)' /\ Holding(c)'
  BY CallFacts DEF RefuseStmt, Goto, Phase, Holding, Mode, Count
<1>4. Untouched(c)' /\ Reads(c)'
  BY CallFacts, LandedKept DEF RefuseStmt, Goto, Untouched, Reads, Mode
<1>5. Writes(c)'
  BY CallFacts, LandedKept DEF RefuseStmt, Goto, Writes, Mode, Sent
<1> QED BY <1>1, <1>2, <1>3, <1>4, <1>5, Compose DEF Good

\* The statement is undone, or the whole transaction is.
LEMMA StmtFailsInv == ASSUME IInv, NEW c \in Calls, StmtFails(c) PROVE IInv'
<1>1. TypeOK'
  BY CallFacts DEF StmtFails, Return, Goto, TypeOK, Labels, Answers
<1>2. Others(c)
  BY CallFacts, LandedKept DEF StmtFails, Return, Goto, TypeOK, Others
<1>3. Phase(c)' /\ Holding(c)'
  BY CallFacts DEF StmtFails, Return, Goto, InTx, TypeOK, Phase, Holding, Mode,
     Count
<1>4. Untouched(c)' /\ Reads(c)'
  BY CallFacts, LandedKept DEF StmtFails, Return, Goto, TypeOK, Untouched,
     Reads, Mode
<1>5. Writes(c)'
  BY CallFacts, LandedKept DEF StmtFails, Return, Goto, TypeOK, Untouched,
     Writes, Mode
<1> QED BY <1>1, <1>2, <1>3, <1>4, <1>5, Compose DEF Good

\* Outside a transaction the write stays behind, with a caller that was told
\* of a failure.
LEMMA StmtCutInv == ASSUME IInv, NEW c \in Calls, StmtCut(c) PROVE IInv'
<1>1. TypeOK'
  BY CallFacts DEF StmtCut, Return, Goto, TypeOK, Labels, Answers
<1>2. Others(c)
  BY CallFacts, LandedKept DEF StmtCut, Return, Goto, TypeOK, Others
<1>3. Phase(c)' /\ Holding(c)'
  BY CallFacts DEF StmtCut, Return, Goto, InTx, TypeOK, Phase, Holding, Mode,
     Count
<1>4. Untouched(c)' /\ Reads(c)'
  BY CallFacts, LandedKept DEF StmtCut, Return, Goto, InTx, TypeOK, Untouched,
     Reads, Mode
<1>5. Writes(c)'
  BY CallFacts, LandedKept DEF StmtCut, Return, Goto, TypeOK, Untouched, Writes,
     Mode
<1> QED BY <1>1, <1>2, <1>3, <1>4, <1>5, Compose DEF Good

\* A Query that has its rows has nothing to commit.
LEMMA FinishQueryInv == ASSUME IInv, NEW c \in Calls, FinishQuery(c) PROVE IInv'
<1>1. TypeOK'
  BY CallFacts DEF FinishQuery, Goto, TypeOK, Labels
<1>2. Others(c)
  BY LandedKept DEF FinishQuery, Goto, Others
<1>3. Phase(c)' /\ Holding(c)'
  BY CallFacts DEF FinishQuery, Goto, Phase, Holding, Mode, Count
<1>4. Untouched(c)' /\ Reads(c)'
  BY CallFacts, LandedKept DEF FinishQuery, Untouched, Reads
<1>5. Writes(c)'
  BY DEF FinishQuery, Writes, Mode
<1> QED BY <1>1, <1>2, <1>3, <1>4, <1>5, Compose DEF Good

\* By now the transaction has taken every write of the script.
LEMMA SendCommitInv == ASSUME IInv, NEW c \in Calls, SendCommit(c) PROVE IInv'
<1>1. TypeOK'
  BY CallFacts DEF SendCommit, Goto, TypeOK, Labels
<1>2. Others(c)
  BY LandedKept DEF SendCommit, Goto, Others
<1>3. Phase(c)' /\ Holding(c)'
  BY CallFacts DEF SendCommit, Goto, Phase, Holding, Mode, Count
<1>4. Untouched(c)' /\ Reads(c)'
  BY CallFacts DEF SendCommit, Goto, Untouched, Reads, Mode
<1>5. Writes(c)'
  <2>1. Mode(c) # "query" /\ NoDDL(job[c]) => pending[c] = Effect(job[c])
    <3>1. Sent(c) = Effect(job[c])
      BY CallFacts, AllSent DEF SendCommit, Sent
    <3> QED BY <3>1, CallFacts DEF SendCommit, Holding, Writes
  <2> QED BY <2>1, CallFacts, LandedKept DEF SendCommit, Goto, TypeOK,
     Untouched,
            Writes, Mode, InTx
<1> QED BY <1>1, <1>2, <1>3, <1>4, <1>5, Compose DEF Good

\* COMMIT is not even sent: nothing is durable, and the connection goes back
\* through awaitDone.
LEMMA RefuseCommitInv == ASSUME IInv, NEW c \in Calls, RefuseCommit(c) PROVE IInv'
<1>1. TypeOK'
  BY CallFacts DEF RefuseCommit, Goto, TypeOK, Labels, Answers
<1>2. Others(c)
  BY LandedKept DEF RefuseCommit, Goto, Others
<1>3. Phase(c)' /\ Holding(c)'
  BY CallFacts DEF RefuseCommit, Goto, Phase, Holding, Mode, Count
<1>4. Untouched(c)' /\ Reads(c)'
  BY CallFacts DEF RefuseCommit, Goto, Untouched, Reads, Mode
<1>5. Writes(c)'
  BY CallFacts, LandedKept DEF RefuseCommit, Goto, Writes, Sent
<1> QED BY <1>1, <1>2, <1>3, <1>4, <1>5, Compose DEF Good

\* The reply is sent after the writes are in, so it is true.
LEMMA ReplyInv == ASSUME IInv, NEW c \in Calls, Reply(c) PROVE IInv'
<1>1. TypeOK'
  BY CallFacts DEF Reply, Return, Goto, TypeOK, Labels, Answers
<1>2. Others(c)
  BY LandedKept DEF Reply, Return, Goto, Others
<1>3. Phase(c)' /\ Holding(c)'
  BY CallFacts DEF Reply, Return, Goto, TypeOK, Phase, Holding, Count
<1>4. Untouched(c)' /\ Reads(c)'
  BY CallFacts DEF Reply, Return, Goto, Phase, Untouched, Reads, Mode
<1>5. Writes(c)'
  BY CallFacts, LandedKept DEF Reply, Return, Goto, Writes, Mode
<1> QED BY <1>1, <1>2, <1>3, <1>4, <1>5, Compose DEF Good

\* The failure that is reported promises nothing.
LEMMA LoseReplyInv == ASSUME IInv, NEW c \in Calls, LoseReply(c) PROVE IInv'
<1>1. TypeOK'
  BY CallFacts DEF LoseReply, Return, Refusal, Goto, TypeOK, Labels, Answers
<1>2. Others(c)
  BY LandedKept DEF LoseReply, Return, Goto, Others
<1>3. Phase(c)' /\ Holding(c)'
  BY CallFacts DEF LoseReply, Return, Goto, TypeOK, Phase, Holding, Count
<1>4. Untouched(c)' /\ Reads(c)'
  BY CallFacts DEF LoseReply, Return, Goto, Phase, Untouched, Reads, Mode
<1>5. Writes(c)'
  BY CallFacts, LandedKept DEF LoseReply, Return, Refusal, Goto, Writes, Mode
<1> QED BY <1>1, <1>2, <1>3, <1>4, <1>5, Compose DEF Good

\* The transaction is dropped, or its writes stay behind, all of them.
LEMMA CommitFailsInv == ASSUME IInv, NEW c \in Calls, CommitFails(c) PROVE IInv'
<1>1. TypeOK'
  BY CallFacts DEF CommitFails, Return, Goto, TypeOK, Labels, Answers
<1>2. Others(c)
  BY CallFacts, LandedKept DEF CommitFails, Return, Goto, TypeOK, Others
<1>3. Phase(c)' /\ Holding(c)'
  BY CallFacts DEF CommitFails, Return, Goto, TypeOK, Phase, Holding, Count
<1>4. Untouched(c)' /\ Reads(c)'
  BY CallFacts DEF CommitFails, Return, Goto, TypeOK, Phase, Untouched, Reads,
     Mode
<1>5. Writes(c)'
  BY CallFacts, LandedKept DEF CommitFails, Return, Goto, TypeOK, Phase,
     Untouched, Writes
<1> QED BY <1>1, <1>2, <1>3, <1>4, <1>5, Compose DEF Good

\* What was left behind comes to nothing.
LEMMA LateDroppedInv == ASSUME IInv, NEW c \in Calls, LateDropped(c) PROVE IInv'
<1>1. TypeOK'
  BY CallFacts DEF LateDropped, TypeOK
<1>2. Others(c)
  BY LandedKept DEF LateDropped, Others
<1>3. Phase(c)' /\ Holding(c)'
  BY CallFacts DEF LateDropped, Phase, Holding, Mode, Count
<1>4. Untouched(c)' /\ Reads(c)'
  BY CallFacts DEF LateDropped, Untouched, Reads, Mode
<1>5. Writes(c)'
  BY CallFacts, LandedKept DEF LateDropped, Untouched, Writes, Mode
<1> QED BY <1>1, <1>2, <1>3, <1>4, <1>5, Compose DEF Good

\* Nothing of the call is durable, so "rolled back" is true.
LEMMA RollbackInv == ASSUME IInv, NEW c \in Calls, Rollback(c) PROVE IInv'
<1>1. TypeOK'
  BY CallFacts DEF Rollback, Return, Verdict, Goto, TypeOK, Labels, Answers
<1>2. Others(c)
  BY CallFacts, LandedKept DEF Rollback, Return, Goto, TypeOK, Others
<1>3. Phase(c)' /\ Holding(c)'
  BY CallFacts DEF Rollback, Return, Goto, TypeOK, Phase, Holding, Count
<1>4. Untouched(c)' /\ Reads(c)'
  BY CallFacts, LandedKept DEF Rollback, Return, Verdict, Goto, TypeOK,
     Untouched, Reads, Mode
<1>5. Writes(c)'
  BY CallFacts, LandedKept DEF Rollback, Return, Verdict, Goto, TypeOK,
     Untouched, Writes, Mode
<1> QED BY <1>1, <1>2, <1>3, <1>4, <1>5, Compose DEF Good

\* A transaction that is rolled back by database/sql takes nothing more.
LEMMA AwaitDoneInv == ASSUME IInv, NEW c \in Calls, AwaitDone(c) PROVE IInv'
<1>1. TypeOK'
  BY CallFacts DEF AwaitDone, TypeOK
<1>2. Others(c)
  BY LandedKept DEF AwaitDone, Others
<1>3. Phase(c)' /\ Holding(c)'
  BY CallFacts DEF AwaitDone, Phase, Holding, Mode, Count
<1>4. Untouched(c)' /\ Reads(c)'
  BY CallFacts, LandedKept DEF AwaitDone, Untouched, Reads, Mode
<1>5. Writes(c)'
  BY CallFacts, LandedKept DEF AwaitDone, Untouched, Writes, Mode
<1> QED BY <1>1, <1>2, <1>3, <1>4, <1>5, Compose DEF Good

\* A job is handed over; nothing of it is done yet.
LEMMA SubmitInv ==
  ASSUME IInv, NEW c \in Calls, NEW j \in Jobs, Submit(c, j) PROVE IInv'
<1>1. TypeOK'
  BY CallFacts DEF Submit, Goto, TypeOK, Labels
<1>2. Others(c)
  BY LandedKept DEF Submit, Goto, Others
<1>3. Phase(c)' /\ Holding(c)'
  BY CallFacts, JobFacts DEF Submit, Goto, TypeOK, Phase, Holding, Count
<1>4. Untouched(c)' /\ Reads(c)' /\ Writes(c)'
  BY CallFacts, LandedKept DEF Submit, Goto, TypeOK, Untouched, Reads, Writes
<1> QED BY <1>1, <1>2, <1>3, <1>4, Compose DEF Good

\* A statement succeeds: the transaction has taken one more.  Only DDL makes
\* anything durable, and there is none in a Query or a script that counts.
LEMMA StmtDoneInv == ASSUME IInv, NEW c \in Calls, StmtDone(c) PROVE IInv'
<1> DEFINE writes == pending[c] \cup ({Current(c)} \cap Effect(job[c]))
<1>1. TypeOK /\ pc[c] = "run" /\ InTx(c) /\ job[c] \in Jobs
  BY CallFacts DEF StmtDone
<1>2. Effect(job[c]) \subseteq Nat /\ results[c] \in Nat /\ writes \in SUBSET Nat
  BY <1>1, CallFacts DEF TypeOK
<1>3. CASE Kind(c) = "ddl"
  <2>1. /\ db' \subseteq Calls \X Nat
        /\ \A d \in Calls \ {c} : Landed(d)' = Landed(d)
    BY <1>1, <1>2, <1>3, LandingAdds DEF StmtDone
  <2>2. TypeOK'
    BY <1>1, <1>3, <2>1 DEF StmtDone, Goto, TypeOK, Labels
  <2>3. Others(c)
    BY <1>1, <1>3, <2>1 DEF StmtDone, Goto, TypeOK, Others
  <2>4. Phase(c)' /\ Holding(c)'
    BY <1>1, <1>3, CallFacts DEF StmtDone, Goto, TypeOK, Phase, Holding, Mode,
       Count, InTx
  <2>5. Mode(c) # "query" /\ ~NoDDL(job[c])
    <3>1. Current(c) \in 1..Count(c) /\ job[c].stmts[Current(c)] = "ddl"
      BY <1>1, <1>2, <1>3, CallFacts DEF Phase, Current, Kind
    <3>2. Mode(c) = "script"
      BY <1>1, <1>3, CallFacts DEF StmtDone, InTx, Modes
    <3> QED BY <3>1, <3>2 DEF NoDDL, Mode, Count
  <2>6. Untouched(c)' /\ Reads(c)' /\ Writes(c)'
    BY <1>1, <1>3, <2>5, CallFacts DEF StmtDone, Goto, TypeOK, Untouched, Reads,
       Writes, Mode
  <2> QED BY <2>2, <2>3, <2>4, <2>6, Compose DEF Good
<1>4. CASE Kind(c) # "ddl"
  <2>1. db' = db /\ pending' = [pending EXCEPT ![c] = writes]
    BY <1>4 DEF StmtDone
  <2>2. TypeOK'
    BY <1>1, <1>2, <2>1 DEF StmtDone, Goto, TypeOK, Labels
  <2>3. Others(c)
    BY <1>1, <2>1, LandedKept DEF StmtDone, Goto, TypeOK, Others
  <2>4. Phase(c)' /\ Holding(c)'
    BY <1>1, CallFacts DEF StmtDone, Goto, TypeOK, Phase, Holding, Mode, Count,
       InTx
  <2>5. Untouched(c)'
    BY <1>1, CallFacts, LandedKept, <2>1 DEF StmtDone, Goto, TypeOK, Untouched
  <2>6. Mode(c) = "query" => writes = {}
    <3>1. Mode(c) = "query" => job[c].stmts[Current(c)] = "read"
      BY DEF StmtDone, Kind
    <3>2. Mode(c) = "query" => Current(c) \notin Effect(job[c])
      BY <3>1 DEF Effect
    <3> QED BY <1>1, <3>2, CallFacts DEF Reads
  <2>7. Reads(c)'
    BY <1>1, <2>1, <2>6, CallFacts, LandedKept DEF StmtDone, Goto, TypeOK,
       Reads, Mode
  <2>8. pending[c] = Sent(c) => writes = Sent(c)'
    <3>1. results'[c] = results[c] + 1 /\ job' = job
      BY <1>1 DEF StmtDone, TypeOK
    <3> QED BY <1>2, <3>1, OneMoreSent DEF Sent, Current
  <2>9. Writes(c)'
    BY <1>1, <2>1, <2>8, CallFacts, LandedKept
       DEF StmtDone, Goto, TypeOK, Writes, Mode, InTx
  <2> QED BY <2>2, <2>3, <2>4, <2>5, <2>7, <2>9, Compose DEF Good
<1> QED BY <1>3, <1>4

\* COMMIT, or an autocommitted write, takes effect: everything at once.
LEMMA LandInv == ASSUME IInv, NEW c \in Calls, Land(c) PROVE IInv'
<1>1. pending[c] \in SUBSET Nat
  BY CallFacts DEF TypeOK
<1>2. /\ db' \subseteq Calls \X Nat
      /\ Landed(c)' = Landed(c) \cup pending[c]
      /\ \A d \in Calls \ {c} : Landed(d)' = Landed(d)
  BY <1>1, CallFacts, LandingAdds DEF Land
<1>3. TypeOK'
  BY CallFacts DEF Land, Goto, TypeOK, Labels
<1>4. Others(c)
  BY <1>2 DEF Land, Goto, Others
<1>5. Phase(c)' /\ Holding(c)'
  BY CallFacts DEF Land, Goto, Phase, Holding, Mode, Count, InTx
<1>6. Untouched(c)' /\ Reads(c)'
  BY <1>2, CallFacts DEF Land, Goto, Untouched, Reads, Mode
<1>7. Writes(c)'
  BY <1>2, CallFacts DEF Land, Goto, TypeOK, Untouched, Writes, Mode
<1> QED BY <1>3, <1>4, <1>5, <1>6, <1>7, Compose DEF Good

\* A write that was left behind takes effect after all, everything at once.
LEMMA LateLandsInv == ASSUME IInv, NEW c \in Calls, LateLands(c) PROVE IInv'
<1>1. pending[c] \in SUBSET Nat
  BY CallFacts DEF TypeOK
<1>2. /\ db' \subseteq Calls \X Nat
      /\ Landed(c)' = Landed(c) \cup pending[c]
      /\ \A d \in Calls \ {c} : Landed(d)' = Landed(d)
  BY <1>1, CallFacts, LandingAdds DEF LateLands
<1>3. TypeOK'
  BY CallFacts DEF LateLands, TypeOK
<1>4. Others(c)
  BY <1>2 DEF LateLands, Others
<1>5. Phase(c)' /\ Holding(c)'
  BY CallFacts DEF LateLands, Phase, Holding, Mode, Count
<1>6. Untouched(c)' /\ Reads(c)'
  BY CallFacts DEF LateLands, Untouched, Reads, Mode
<1>7. Writes(c)'
  BY <1>2, CallFacts DEF LateLands, Untouched, Writes, Mode
<1> QED BY <1>3, <1>4, <1>5, <1>6, <1>7, Compose DEF Good

-----------------------------------------------------------------------------
\* Every call starts good.
LEMMA InitInv == Init => IInv
<1> SUFFICES ASSUME Init PROVE IInv
  OBVIOUS
<1>1. TypeOK
  BY DEF Init, TypeOK, Labels, Answers
<1>2. ASSUME NEW c \in Calls PROVE Good(c)
  <2>1. /\ job[c] = NoJob /\ pc[c] = "idle" /\ results[c] = 0 /\ pending[c] = {}
        /\ c \notin held /\ c \notin late /\ answer[c] = "none" /\ Landed(c) = {}
    BY DEF Init, Landed
  <2> QED BY <2>1 DEF Good, Phase, Holding, Untouched, Reads, Writes
<1> QED BY <1>1, <1>2 DEF IInv

\* A step of a call, whichever it is.
LEMMA StepInv == ASSUME IInv, NEW c \in Calls, Step(c) PROVE IInv'
<1>1. CASE Proceed(c)
  BY <1>1, SendStmtInv, RefuseStmtInv, FinishQueryInv, SendCommitInv,
     RefuseCommitInv, GiveUpInv DEF Proceed
<1>2. CASE ControlReply(c)
  BY <1>2, BeginOkInv, BeginFailsInv, CommitFailsInv, RollbackInv, LandInv,
     ReplyInv, LoseReplyInv DEF ControlReply
<1> QED
  BY <1>1, <1>2, CancelInv, AcquireInv, StmtDoneInv, StmtFailsInv, StmtCutInv,
     LandInv, AwaitDoneInv, LateLandsInv, LateDroppedInv DEF Step

\* Nothing changes.
LEMMA StutterInv == IInv /\ UNCHANGED vars => IInv'
<1> SUFFICES ASSUME IInv, UNCHANGED vars PROVE IInv'
  OBVIOUS
<1>1. TypeOK'
  BY DEF IInv, TypeOK, vars
<1>2. ASSUME NEW c \in Calls PROVE Good(c)'
  BY CallFacts DEF vars, Good, Phase, Holding, Untouched, Reads, Writes, Landed,
     Sent, Mode, Count, InTx
<1> QED BY <1>1, <1>2 DEF IInv

\* The invariant is inductive.
LEMMA NextInv == IInv /\ [Next]_vars => IInv'
<1> SUFFICES ASSUME IInv, [Next]_vars PROVE IInv'
  OBVIOUS
<1>1. ASSUME NEW c \in Calls, NEW j \in Jobs, Submit(c, j) PROVE IInv'
  BY <1>1, SubmitInv
<1>2. ASSUME NEW c \in Calls, Step(c) PROVE IInv'
  BY <1>2, StepInv
<1>3. CASE Finished \/ UNCHANGED vars
  BY <1>3, StutterInv DEF Finished
<1> QED BY <1>1, <1>2, <1>3 DEF Next

\* The inductive invariant holds throughout.
THEOREM Invariant == Spec => []IInv
BY InitInv, NextInv, PTL DEF Spec

\* The types of the executor's state, and an answer exactly for who is done.
THEOREM TypeCorrect == Spec => []TypeOK
<1>1. IInv => TypeOK
  BY DEF IInv
<1> QED BY <1>1, Invariant, PTL

\* The properties speak of the durable statements among the writing ones.
LEMMA DurableIsLanded ==
  ASSUME NEW c \in Calls, job[c] \in Jobs
  PROVE  Durable(c) = Landed(c) \cap Effect(job[c])
BY JobFacts DEF Durable, Landed

\* What the properties quantify over.
LEMMA SubmittedFacts ==
  ASSUME IInv, NEW c \in Submitted
  PROVE  /\ c \in Calls /\ pc[c] # "idle" /\ job[c] \in Jobs
         /\ Durable(c) = Landed(c) \cap Effect(job[c])
BY CallFacts, DurableIsLanded DEF Submitted, Phase

\* A script is all in or not at all in, whatever fails around it.
THEOREM ScriptsAtomic == Spec => []ScriptAtomic
<1>1. ASSUME IInv PROVE ScriptAtomic
  BY <1>1, SubmittedFacts, CallFacts DEF ScriptAtomic, Writes, Phase
<1> QED BY <1>1, Invariant, PTL

\* What callers are told is true, and stays true.
THEOREM AnswersTrue == Spec => []AnswersAreTrue
<1>1. ASSUME IInv PROVE AnswersAreTrue
  BY <1>1, SubmittedFacts, CallFacts DEF AnswersAreTrue, Writes, Reads,
     Untouched
<1> QED BY <1>1, Invariant, PTL

\* Query leaves the database as it was, whatever statement it is given.
THEOREM QueriesNeverWrite == Spec => []QueryNeverWrites
<1>1. ASSUME IInv PROVE QueryNeverWrites
  BY <1>1, SubmittedFacts, CallFacts DEF QueryNeverWrites, Reads
<1> QED BY <1>1, Invariant, PTL

\* A connection is held by a call in progress or is on its way back.
THEOREM NoLeak == Spec => []NoConnectionLeak
<1>1. ASSUME IInv, NEW c \in held PROVE Active(c) \/ (pc[c] = "done" /\ c \in ctxDone)
  <2>1. c \in Calls
    BY <1>1 DEF IInv, TypeOK
  <2> QED BY <1>1, <2>1, CallFacts DEF Holding, Active
<1>2. IInv => NoConnectionLeak
  BY <1>1 DEF NoConnectionLeak
<1> QED BY <1>2, Invariant, PTL

-----------------------------------------------------------------------------
(***************************************************************************)
(* The refinement.  An executor that is given no script with DDL in it,    *)
(* which is what the guard sees to, implements the contract: a write that  *)
(* lands, in time or late, is Apply, a return is Answer, and everything    *)
(* else the contract does not see.                                         *)
(***************************************************************************)
\* A return whose answer is true is the contract's Answer.
LEMMA AnswerStep ==
  ASSUME IInv, NEW c \in Calls, NEW a \in Answers \ {"none"},
         pc[c] \notin {"idle", "done"},
         a \in Contract!Answers[Mode(c)],
         a \in {"ok", "committed"} /\ Mode(c) # "query" => Landed(c) = Effect(job[c]),
         a = "rolledBack" => Landed(c) = {},
         job' = job, db' = db, answer' = [answer EXCEPT ![c] = a]
  PROVE  Contract!Next
<1>1. job[c] # NoJob /\ answer[c] = "none"
  BY CallFacts DEF Phase, TypeOK
<1>2. a \in {"ok", "committed"} /\ Mode(c) # "query" => Contract!Writes(c) \subseteq db
  <2>1. Contract!Writes(c) = {c} \X Effect(job[c])
    BY DEF Contract!Writes
  <2> QED BY <2>1 DEF Landed
<1>3. a = "rolledBack" => \A w \in db : w[1] # c
  BY CallFacts DEF TypeOK, Landed
<1>4. Contract!Answer(c, a)
  BY <1>1, <1>2, <1>3 DEF Contract!Answer, Mode
<1> QED BY <1>4 DEF Contract!Next, Answers

\* Writes that land are the contract's Apply.
LEMMA ApplyStep ==
  ASSUME IInv, NEW c \in Calls, pc[c] # "idle", Mode(c) # "query",
         answer[c] \in {"none", "failed", "txFailed"},
         pending[c] = Effect(job[c]),
         db' = db \cup ({c} \X pending[c]), job' = job, answer' = answer
  PROVE  Contract!Next
<1>1. Contract!Apply(c)
  BY CallFacts DEF Contract!Apply, Contract!Writes, Phase, Mode
<1> QED BY <1>1 DEF Contract!Next

\* Each step of the executor is one of the contract or none.
LEMMA StepRefines ==
  ASSUME \A j \in Jobs : NoDDL(j), IInv, NEW c \in Calls, Step(c)
  PROVE  [Contract!Next]_(Contract!vars)
<1> USE DEF Contract!vars
<1>1. CASE pc[c] = "idle"
  BY <1>1, CallFacts DEF Step, Proceed, ControlReply, Cancel, Active, Acquire,
     SendStmt, RefuseStmt, FinishQuery, SendCommit, RefuseCommit, GiveUp, BeginOk,
     BeginFails, CommitFails, Rollback, Land, Reply, LoseReply, StmtDone, StmtFails,
     StmtCut, AwaitDone, LateLands, LateDropped, Untouched
<1>2. CASE pc[c] # "idle"
  <2> DEFINE quiet == UNCHANGED <<job, db, answer>>
  <2>1. job[c] \in Jobs /\ Mode(c) \in Modes /\ NoDDL(job[c]) /\ TypeOK
    BY <1>2, CallFacts
  <2>2. CASE \/ Cancel(c) \/ Acquire(c) \/ SendStmt(c) \/ RefuseStmt(c)
             \/ FinishQuery(c) \/ SendCommit(c) \/ BeginOk(c) \/ AwaitDone(c)
             \/ LateDropped(c)
    BY <2>2 DEF Cancel, Acquire, SendStmt, RefuseStmt, FinishQuery, SendCommit,
       BeginOk, AwaitDone, LateDropped
  <2>3. CASE StmtDone(c)
    <3>1. Kind(c) # "ddl"
      <4>1. Current(c) \in 1..Count(c)
        BY <1>2, <2>3, CallFacts DEF StmtDone, Phase, TypeOK, Current
      <4> QED BY <2>1, <2>3, <4>1 DEF StmtDone, NoDDL, Kind, Mode, Count, InTx,
         Modes
    <3> QED BY <2>3, <3>1 DEF StmtDone
  <2>4. CASE GiveUp(c) \/ BeginFails(c)
    BY <1>2, <2>1, <2>4, AnswerStep, CallFacts
       DEF GiveUp, BeginFails, Return, Refusal, Contract!Answers, Answers, Modes
  <2>5. CASE StmtFails(c) \/ StmtCut(c)
    <3>1. CASE InTx(c)
      BY <2>5, <3>1 DEF StmtFails, StmtCut
    <3>2. CASE ~InTx(c)
      BY <1>2, <2>5, <3>2, AnswerStep
         DEF StmtFails, StmtCut, Return, Contract!Answers, Answers, InTx
    <3> QED BY <3>1, <3>2
  <2>6. CASE RefuseCommit(c) \/ CommitFails(c)
    BY <1>2, <2>6, AnswerStep, CallFacts
       DEF RefuseCommit, CommitFails, Return, Contract!Answers, Answers, Phase
  <2>7. CASE Rollback(c)
    <3>1. Mode(c) # "execute" /\ pc[c] = "rollback"
      BY <2>7, CallFacts DEF Rollback, Phase
    <3>2. Mode(c) = "script" => Landed(c) = {}
      BY <1>2, <2>1, <3>1, CallFacts DEF Writes
    <3>3. /\ Verdict(c) \in Contract!Answers[Mode(c)]
          /\ Verdict(c) \in Answers \ {"none"}
          /\ Verdict(c) = "rolledBack" => Mode(c) = "script"
          /\ Verdict(c) \in {"ok", "committed"} => Mode(c) = "query"
      BY <2>1, <3>1 DEF Verdict, Contract!Answers, Answers, Modes
    <3>4. job' = job /\ db' = db /\ answer' = [answer EXCEPT ![c] = Verdict(c)]
      BY <2>7 DEF Rollback, Return
    <3> QED BY <3>1, <3>2, <3>3, <3>4, AnswerStep
  <2>8. CASE Reply(c) \/ LoseReply(c)
    <3>1. Landed(c) = Effect(job[c]) /\ Mode(c) # "query"
      BY <1>2, <2>1, <2>8, CallFacts DEF Reply, LoseReply, Phase, Writes
    <3> QED BY <1>2, <2>1, <2>8, <3>1, AnswerStep
           DEF Reply, LoseReply, Return, Refusal, InTx, Contract!Answers, Answers, Modes
  <2>9. CASE Land(c)
    <3>1. Mode(c) # "query" /\ pending[c] = Effect(job[c]) /\ answer[c] = "none"
      BY <1>2, <2>1, <2>9, CallFacts DEF Land, InTx, Phase, Writes, TypeOK
    <3> QED BY <1>2, <2>9, <3>1, ApplyStep DEF Land
  <2>10. CASE LateLands(c)
    <3>1. /\ Mode(c) # "query" /\ pending[c] = Effect(job[c])
          /\ answer[c] \in {"failed", "txFailed"}
      BY <1>2, <2>1, <2>10, CallFacts DEF LateLands, Untouched, Reads, Writes
    <3> QED BY <1>2, <2>10, <3>1, ApplyStep DEF LateLands
  <2> QED BY <2>2, <2>3, <2>4, <2>5, <2>6, <2>7, <2>8, <2>9, <2>10
         DEF Step, Proceed, ControlReply
<1> QED BY <1>1, <1>2

\* The executor is what its callers take it for.
THEOREM ExecutorImplementsContract ==
  ASSUME \A j \in Jobs : NoDDL(j)
  PROVE  Spec => ImplementsContract
<1>1. Init => Contract!Init
  BY DEF Init, Contract!Init
<1>2. IInv /\ [Next]_vars => [Contract!Next]_(Contract!vars)
  <2> SUFFICES ASSUME IInv, [Next]_vars PROVE [Contract!Next]_(Contract!vars)
    OBVIOUS
  <2>1. ASSUME NEW c \in Calls, NEW j \in Jobs, Submit(c, j)
        PROVE  Contract!Next
    <3>1. job[c] = NoJob
      BY <2>1, CallFacts DEF Submit, Phase
    <3> QED BY <2>1, <3>1 DEF Submit, Contract!Submit, Contract!Next
  <2>2. ASSUME NEW c \in Calls, Step(c) PROVE [Contract!Next]_(Contract!vars)
    BY <2>2, StepRefines
  <2>3. CASE Finished \/ UNCHANGED vars
    BY <2>3 DEF Finished, vars, Contract!vars
  <2> QED BY <2>1, <2>2, <2>3 DEF Next
<1> QED BY <1>1, <1>2, Invariant, PTL DEF Spec, ImplementsContract, Contract!Spec
=============================================================================
