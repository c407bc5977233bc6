------------------------------- MODULE MCGuard -------------------------------
(***************************************************************************)
(* Every single statement under every configuration over one table, and    *)
(* every script of up to three of a few statements under fewer.            *)
(***************************************************************************)
EXTENDS GuardDecisions

CONSTANT t1

AllConfigs == [allowed : SUBSET Classes, whitelist : SUBSET Tables,
               blockUnfiltered : BOOLEAN, maxStatements : {2}]
SingleTexts == {[parses |-> TRUE, stmts |-> <<s>>] : s \in Stmts}
               \cup {[parses |-> FALSE, stmts |-> << >>],
                     [parses |-> TRUE, stmts |-> << >>]}

Stmt(kind, where, tables) == [kind |-> kind, wrap |-> "none", where |-> where,
                              danger |-> FALSE, tables |-> tables]
ScriptStmts == {Stmt("select", FALSE, {t1}), Stmt("insert", FALSE, {}),
                Stmt("replace", FALSE, {}), Stmt("update", FALSE, {}),
                Stmt("ddl", FALSE, {}), Stmt("other", FALSE, {})}
ScriptConfigs == [allowed : {{"select"}, {"select", "insert", "update"},
                             {"insert", "delete", "ddl"}, Classes},
                  whitelist : SUBSET Tables, blockUnfiltered : BOOLEAN,
                  maxStatements : {2, 3}]
ScriptTexts == {[parses |-> TRUE, stmts |-> q] :
                  q \in UNION {[1..n -> ScriptStmts] : n \in 0..3}}
AllCases == (AllConfigs \X SingleTexts) \cup (ScriptConfigs \X ScriptTexts)
=============================================================================
