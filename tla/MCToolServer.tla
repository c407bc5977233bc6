---------------------------- MODULE MCToolServer ----------------------------
(***************************************************************************)
(* Two concurrent requests over a profile that may write and one that may  *)
(* not, chosen so that every tool and every kind of denial occurs.         *)
(***************************************************************************)
EXTENDS ToolServer

CONSTANTS p1, p2, t1, t2

MCSecurity ==
  [p \in {p1, p2} |->
     [allowed |-> IF p = p1 THEN {"select", "insert", "update", "ddl"} ELSE {"select"},
      whitelist |-> {t1}, blockUnfiltered |-> TRUE, maxStatements |-> 2]]

Stmt(kind, t) == [kind |-> kind, wrap |-> "none", where |-> TRUE,
                  danger |-> FALSE, tables |-> {t}]

Ask(p, tool, stmts) == [profile |-> p, tool |-> tool, format |-> "",
                        text |-> [parses |-> TRUE, stmts |-> stmts]]

ReadRequests == {
  Ask(p1, "query", <<Stmt("select", t1)>>),
  Ask(p1, "query", <<Stmt("update", t1)>>),
  Ask("unknown", "query", <<Stmt("select", t1)>>),
  Ask(p1, "explain", <<Stmt("update", t1)>>),
  [Ask(p1, "explain", <<Stmt("select", t1)>>) EXCEPT !.format = "analyze"],
  Ask(p1, "describe", <<Stmt("show", t2)>>),
  Ask(p1, "listTables", <<Stmt("select", t2)>>) }

WriteRequests == {
  Ask(p1, "execute", <<Stmt("update", t1)>>),
  Ask(p1, "execute", <<Stmt("insert", t2)>>),
  Ask(p2, "execute", <<Stmt("insert", t1)>>),
  Ask(p1, "script", <<Stmt("insert", t1), Stmt("update", t1)>>),
  Ask(p1, "script", <<Stmt("ddl", t1), Stmt("update", t1)>>),
  Ask(p2, "script", <<Stmt("select", t1)>>) }

MCRequests == ReadRequests \cup WriteRequests
=============================================================================
