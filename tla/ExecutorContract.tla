-------------------------- MODULE ExecutorContract --------------------------
(***************************************************************************)
(* What internal/executor promises its caller, with no pool, transaction   *)
(* or connection in it.  A call's writes reach the database in one step or *)
(* never; the answer says which where the code can know it:                *)
(*   "ok"         a read finished, or the autocommitted write is in        *)
(*   "committed"  every statement of the script is in                      *)
(*   "rolledBack" no statement of the script is in or will ever be         *)
(*   "failed", "txFailed"  nothing is promised: the call was cut short,    *)
(*                and its write may land even after the answer             *)
(***************************************************************************)
CONSTANTS Calls,       \* tool calls that reach an executor
          Jobs,        \* what a call may be asked to do
          NoJob,       \* not asked yet
          Effect(_)    \* the statement numbers of a job that write

VARIABLES job,         \* job[c]: what c was asked to do
          db,          \* writes in the database, as <<call, statement>>
          answer       \* answer[c]: what c's caller was told, or "none"

Init == /\ job = [c \in Calls |-> NoJob]
        /\ db = {}
        /\ answer = [c \in Calls |-> "none"]

Writes(c) == {c} \X Effect(job[c])

Submit(c, j) == /\ job[c] = NoJob
                /\ job' = [job EXCEPT ![c] = j]
                /\ UNCHANGED <<db, answer>>

\* All of the call's writes together.
Apply(c) == /\ job[c] # NoJob
            /\ job[c].mode # "query"
            /\ answer[c] \in {"none", "failed", "txFailed"}
            /\ db' = db \cup Writes(c)
            /\ UNCHANGED <<job, answer>>

\* The answers each kind of call has.
Answers == [query   |-> {"ok", "failed"},
            execute |-> {"ok", "failed"},
            script  |-> {"committed", "rolledBack", "txFailed"}]

Answer(c, a) ==
  /\ job[c] # NoJob
  /\ answer[c] = "none"
  /\ a \in Answers[job[c].mode]
  /\ a \in {"ok", "committed"} /\ job[c].mode # "query" => Writes(c) \subseteq db
  /\ a = "rolledBack" => \A w \in db : w[1] # c
  /\ answer' = [answer EXCEPT ![c] = a]
  /\ UNCHANGED <<job, db>>

Next == \E c \in Calls : \/ \E j \in Jobs : Submit(c, j)
                         \/ Apply(c)
                         \/ \E a \in {"ok", "failed", "committed",
                                    "rolledBack", "txFailed"} : Answer(c, a)

vars == <<job, db, answer>>
Spec == Init /\ [][Next]_vars
=============================================================================
