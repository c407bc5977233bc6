----------------------------- MODULE MCExecutor -----------------------------
(***************************************************************************)
(* Two calls that compete for the one connection of a profile or use one   *)
(* each, and are any of: a read, a DDL statement that slipped into Query,  *)
(* a single write, and scripts of a write and a read and of two writes.    *)
(***************************************************************************)
EXTENDS Executor

CONSTANTS p1, p2

Job(mode, stmts) == [profile |-> p1, mode |-> mode, stmts |-> stmts]
OtherJob(mode, stmts) == [profile |-> p2, mode |-> mode, stmts |-> stmts]

MCJobs == { Job("query", <<"read">>), Job("query", <<"ddl">>),
            Job("execute", <<"write">>),
            Job("script", <<"write", "read">>),
            Job("script", <<"write", "write">>),
            OtherJob("query", <<"write">>),
            OtherJob("script", <<"read", "write">>) }
=============================================================================
