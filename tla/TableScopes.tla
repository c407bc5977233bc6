----------------------------- MODULE TableScopes -----------------------------
(***************************************************************************)
(* internal/guard/tables.go: which tables a statement names.  The visitor  *)
(* is walked over the AST once and keeps two stacks, the names of the      *)
(* common table expressions in scope and whether each open WITH is         *)
(* recursive; a name that is not in scope is a table.  A walk is the       *)
(* sequence of calls the parser makes, [enter, at, node]: Enter or Leave,  *)
(* the place of the node's Enter, and the node.  A node is its kind, the   *)
(* place where the node around it was entered, and what the visitor asks   *)
(* of its kind; a "block" is any statement that has a WITH clause.         *)
(***************************************************************************)
EXTENDS Integers, Sequences, SequencesExt

CONSTANTS DefaultDB,    \* mysql.database
          Lower         \* Lower[name]: the name in lower case

Names == DOMAIN Lower

ASSUME NamesAssumption == Lower \in [Names -> Names] /\ DefaultDB \in Names

Collector == [scopes |-> << >>, recursive |-> << >>, tables |-> {}]

InScope(c, name) == \E i \in 1..Len(c.scopes) : name \in c.scopes[i]

CurRecursive(c) == c.recursive # << >> /\ Last(c.recursive)

AddCTE(c, name) ==
  IF c.scopes = << >> THEN c
  ELSE [c EXCEPT !.scopes[Len(c.scopes)] = @ \cup {name}]

PushScope(c) == [c EXCEPT !.scopes = Append(@, {})]
PopScope(c) == [c EXCEPT !.scopes = Front(@)]

\* Mutant: one flag that the innermost WITH leaves behind.
EnterWithFlag(c, with) == [c EXCEPT !.recursive = <<with.recursive>>]

EnterWith(c, with) == [c EXCEPT !.recursive = Append(@, with.recursive)]
LeaveWith(c) == IF c.recursive = << >> THEN c ELSE [c EXCEPT !.recursive = Front(@)]

Resolve(ref) == <<Lower[IF ref.db = "" THEN DefaultDB ELSE ref.db], Lower[ref.name]>>

\* Enter of a TableName: a table, unless it is a bare name in scope.
EnterTable(c, ref) ==
  IF ref.db = "" /\ InScope(c, Lower[ref.name]) THEN c
  ELSE [c EXCEPT !.tables = @ \cup {Resolve(ref)}]

\* A recursive expression is in scope in its own body, another after it.
EnterCTE(c, cte) == IF CurRecursive(c) THEN AddCTE(c, Lower[cte.name]) ELSE c
LeaveCTE(c, cte) == IF CurRecursive(c) THEN c ELSE AddCTE(c, Lower[cte.name])

Enter(c, node) == CASE node.kind = "block" -> PushScope(c)
                    [] node.kind = "with"  -> EnterWith(c, node)
                    [] node.kind = "cte"   -> EnterCTE(c, node)
                    [] node.kind = "table" -> EnterTable(c, node)
                    [] OTHER               -> c

Leave(c, node) == CASE node.kind = "block" -> PopScope(c)
                    [] node.kind = "with"  -> LeaveWith(c)
                    [] node.kind = "cte"   -> LeaveCTE(c, node)
                    [] OTHER               -> c

\* The visitor after the first k calls of a walk.
Visitor(walk) ==
  LET after[k \in 0..Len(walk)] ==
        IF k = 0 THEN Collector
        ELSE IF walk[k].enter THEN Enter(after[k - 1], walk[k].node)
        ELSE Leave(after[k - 1], walk[k].node)
  IN after

\* ExtractTables, with the stacks it leaves behind.
ExtractTables(walk) == Visitor(walk)[Len(walk)]

-----------------------------------------------------------------------------
(***************************************************************************)
(* The walks of Accept: a node is left before the one around it, and left  *)
(* once; the WITH clause comes first in its block and holds expressions.   *)
(***************************************************************************)
Open(walk, k) == {p \in 1..k : walk[p].enter /\ \A q \in p..k : ~walk[q].enter => walk[q].at # p}

Innermost(walk, k) == IF Open(walk, k) = {} THEN 0 ELSE Max(Open(walk, k))

Nodes == [kind : {"block", "other"}, around : Nat]
         \cup [kind : {"with"}, around : Nat, recursive : BOOLEAN]
         \cup [kind : {"cte"}, around : Nat, name : Names]
         \cup [kind : {"table"}, around : Nat, name : Names, db : Names \cup {""}]
Calls == [enter : BOOLEAN, at : Nat, node : Nodes]

Entered(walk, kind) == {p \in 1..Len(walk) : walk[p].enter /\ walk[p].node.kind = kind}
Around(walk, p) == walk[p].node.around

WellNested(walk) ==
  /\ \A k \in 1..Len(walk) :
       IF walk[k].enter
       THEN walk[k].at = k /\ Around(walk, k) = Innermost(walk, k - 1)
       ELSE /\ walk[k].at = Innermost(walk, k - 1) /\ walk[k].at # 0
            /\ walk[k].node = walk[walk[k].at].node
  /\ Innermost(walk, Len(walk)) = 0
  /\ \A p \in Entered(walk, "with") : Around(walk, p) = p - 1 /\ p - 1 \in Entered(walk, "block")
  /\ \A p \in 1..Len(walk) :
       walk[p].enter => (walk[p].node.kind = "cte" <=> Around(walk, p) \in Entered(walk, "with"))

(***************************************************************************)
(* MySQL's own rule: a bare name is an expression that is visible where it *)
(* stands.  The block of a WITH clause sees its expressions; the clause    *)
(* itself, in the body of one of them, the earlier ones, and the           *)
(* expression itself if it is recursive.  Names are compared as they are   *)
(* spelled where lower_case_table_names is 0, and in lower case elsewhere. *)
(***************************************************************************)
Visible(walk, m, k) ==
  LET with == Around(walk, m)
      open == Open(walk, k)
  IN /\ Around(walk, with) \in open
     /\ with \in open =>
          \E body \in open : /\ Around(walk, body) = with
                             /\ m < body \/ (m = body /\ walk[with].node.recursive)

SameName(walk, m, k, spelled) ==
  IF spelled THEN walk[m].node.name = walk[k].node.name
  ELSE Lower[walk[m].node.name] = Lower[walk[k].node.name]

Hidden(walk, k, spelled) == /\ walk[k].node.db = ""
                            /\ \E m \in Entered(walk, "cte") :
                                 SameName(walk, m, k, spelled) /\ Visible(walk, m, k)

TablesOf(walk, spelled) ==
  {Resolve(walk[k].node) : k \in {p \in Entered(walk, "table") : ~Hidden(walk, p, spelled)}}

\* No expression differs from a table in case alone.
OneSpelling(walk) ==
  \A m \in Entered(walk, "cte"), k \in Entered(walk, "table") :
    SameName(walk, m, k, FALSE) => SameName(walk, m, k, TRUE)
=============================================================================
