--------------------------- MODULE MCComputations ---------------------------
(***************************************************************************)
(* Cases for every computation: query blocks nested three deep over two    *)
(* names, snapshots of every length up to 41 and every mixture of up to    *)
(* four records, table texts of every quoting, lists around the limit, and *)
(* profiles with every field left out, legal or at its edge.               *)
(***************************************************************************)
EXTENDS Computations

Upto(S, n) == UNION {[1..k -> S] : k \in 0..n}
Distinct(with) == \A i, k \in 1..Len(with) : with[i].name = with[k].name => i = k

Ref(db, name) == [db |-> db, name |-> name]
Refs == {<<Ref("", "a")>>, <<Ref("", "b")>>, <<Ref("DB2", "a")>>}
\* Names and the same in upper case.
MCLower == [n \in {"a", "b", "A", "DB", "db", "DB2", "db2"} |->
              CASE n = "A" -> "a" [] n = "DB" -> "db" [] n = "DB2" -> "db2" [] OTHER -> n]
Block(recursive, with, refs, subs) ==
  [recursive |-> recursive, with |-> with, refs |-> refs, subs |-> subs]
CTEs(bodies) == [name : {"a", "b"}, body : bodies]
Withs(bodies, n) == {w \in Upto(CTEs(bodies), n) : Distinct(w)}
\* WITH clauses, with RECURSIVE and without, around the blocks given.
Nested(withs, refs, subs) ==
  {Block(r, w, f, s) : r \in BOOLEAN, w \in withs, f \in refs, s \in subs}

Flat == {Block(FALSE, << >>, f, << >>) : f \in Refs}
FlatBare == {Block(FALSE, << >>, f, << >>) : f \in {<<Ref("", "a")>>, <<Ref("", "b")>>}}
Once == Nested(Withs(FlatBare, 2), Refs, {<< >>})
OnceOne == Nested(Withs(FlatBare, 1) \ {<< >>}, {<<Ref("", "a")>>}, {<< >>})
Twice == Nested(Withs(OnceOne \cup FlatBare, 2), {<<Ref("", "a")>>}, {<< >>} \cup {<<s>> : s \in OnceOne})
Thrice == Nested(Withs(Nested(Withs(OnceOne, 1), {<<Ref("", "b")>>}, {<< >>}), 1), Refs, {<< >>})

\* The calls that the parser makes for a block, the first being call p.
In(p, node) == [enter |-> TRUE, at |-> p, node |-> node]
Out(p, node) == [enter |-> FALSE, at |-> p, node |-> node]
RECURSIVE WalkFrom(_, _, _)
WalkFrom(block, p, around) ==
  LET node == [kind |-> IF block.with = << >> THEN "other" ELSE "block", around |-> around]
      with == [kind |-> "with", around |-> p, recursive |-> block.recursive]
      Put(w, n, inside) == LET q == p + Len(w)
                           IN w \o <<In(q, n)>> \o inside \o <<Out(q, n)>>
      PutCTE(w, cte) == Put(w, [kind |-> "cte", around |-> p + 1, name |-> cte.name],
                            WalkFrom(cte.body, p + Len(w) + 1, p + Len(w)))
      PutRef(w, ref) == Put(w, [kind |-> "table", around |-> p, name |-> ref.name, db |-> ref.db], << >>)
      PutSub(w, sub) == w \o WalkFrom(sub, p + Len(w), p)
      Clause(w) == IF block.with = << >> THEN w
                   ELSE FoldLeft(PutCTE, Append(w, In(p + 1, with)), block.with) \o <<Out(p + 1, with)>>
  IN FoldLeft(PutSub, FoldLeft(PutRef, Clause(<<In(p, node)>>), block.refs), block.subs)
     \o <<Out(p, node)>>

\* Statements that spell one name in two ways.
Spelled == [name : {"a", "A"},
            body : {Block(FALSE, << >>, <<Ref("", n)>>, << >>) : n \in {"a", "A", "b"}}]
Mixed == Nested({w \in Upto(Spelled, 2) : Distinct(w)},
                {<<Ref(d, n)>> : d \in {"", "db"}, n \in {"a", "A"}}, {<< >>})

MCWalks == {WalkFrom(b, 1, 0) : b \in Flat \cup Once \cup Twice \cup Thrice \cup Mixed}

Rec(denied, rule, ms, tables) == [denied |-> denied, rule |-> rule, ms |-> ms, tables |-> tables]
Spread(n, k) == [i \in 1..n |-> Rec(FALSE, "", (i * k) % 23, {})]
SomeRecs == {Rec(TRUE, "wrong_tool", 0, {}), Rec(TRUE, "table_whitelist", 9, {"t"}),
             Rec(FALSE, "", 1, {"t"}), Rec(FALSE, "", 5, {}), Rec(FALSE, "", 7, {"t", "u"})}
Snapshot(recs, topN) == [recs |-> recs, threshold |-> 5, topN |-> topN]
MCSnapshots == {Snapshot(Spread(n, k), 3) : n \in 0..41, k \in {1, 7, 10}}
               \cup {Snapshot(q, topN) : q \in Upto(SomeRecs, 4), topN \in {1, 2}}

Quoted(q, inside) == <<q>> \o inside \o <<q>>
Plainly(symbols) == [i \in 1..Len(symbols) |-> <<symbols[i]>>]
\* What else may stand in the column list or among the options, token by token.
Items == { <<<<Blank>>, Quoted("quote", <<Option, "=", Number>>)>>,
           <<<<Blank>>, Quoted("quote", <<"backslash", "quote", Blank, Option, "=", Number>>)>>,
           <<<<Blank>>, Quoted("quote", <<"quote", "quote", ")", Option, "=", Number>>)>>,
           <<<<Blank>>, Quoted("backtick", <<"backslash">>)>>,
           <<<<Blank>>, Quoted("backtick", <<"(", "quote", "backtick", "backtick">>)>>,
           <<<<"slashStar", "quote", Option, "=", Number, "starSlash">>>>,
           Plainly(<<Blank, Word, Option, "=", Number>>),
           Plainly(<<Blank, Option, Blank, Word, Number>>) }
\* What the column list may have besides.
Columns == Items \cup {Plainly(<<"(", Number, ")">>), Plainly(<<"other", Blank, Option, "=", Number>>)}
\* The texts of MySQL, the counter after any of the items that may stand before it.
Concat(tokens) == FoldLeft(LAMBDA s, t : s \o t, << >>, tokens)
Ends(tokens) == FoldLeft(LAMBDA S, t : S \cup {Max(S) + Len(t)}, {0}, tokens)
Ddl(name, columns, before, after, shown) ==
  LET head == Plainly(<<Word, Blank>>) \o <<name, <<"(">>>> \o columns \o <<<<")">>>>
      tokens == head \o before \o after
  IN [text |-> Concat(tokens), ends |-> Ends(tokens), columns |-> Len(Concat(head)),
      counter |-> IF shown THEN Len(Concat(head \o before)) ELSE 0]
Made(items) == {Concat(q) : q \in items}
TableNames == {<<Word>>, Quoted("backtick", <<"(", ")">>)}
Ddls1(columns, before, after) ==
  {Ddl(n, c, b, a, shown) : n \in TableNames, c \in Made(columns), b \in Made(before),
                            a \in Made(after), shown \in BOOLEAN}
MCDdls == Ddls1(Upto(Columns, 1), Upto(Items, 1), Upto(Items, 1))
          \cup Ddls1([1..2 -> Columns], {<< >>}, Upto(Items, 1))
          \cup Ddls1({<< >>}, [1..2 -> Items], {<< >>})

MCListings == {[tables |-> [i \in 1..n |-> i], allowed |-> a, max |-> m, fails |-> f] :
                 n \in 0..4, a \in SUBSET (1..4), m \in -1..5, f \in BOOLEAN}

Settings == [user : {"", "u"}, database : {"d"}, allowed : {{}, {"select"}, {"all"}},
             whitelist : {"none", "invalid"}, maxOpen : {-1, 0}, maxIdle : {0}, maxRows : {0, 7},
             queryTimeout : {0}, maxScriptStatements : {-1, 0, 1}, slowQueryThreshold : {0},
             ringBufferSize : {-1, 0, 1}, logDir : {"", "~/logs", "/logs"}]
Plain == [user |-> "u", database |-> "d", allowed |-> {"select"}, whitelist |-> "none",
          maxOpen |-> 0, maxIdle |-> 0, maxRows |-> 0, queryTimeout |-> 0,
          maxScriptStatements |-> 0, slowQueryThreshold |-> 0, ringBufferSize |-> 0,
          logDir |-> ""]
MCProfiles ==
  {[profiles |-> [name \in {"p1"} |-> s], home |-> h] : s \in Settings, h \in {"", "home"}}
  \cup {[profiles |-> [name \in names |-> IF name = "p2" THEN s ELSE Plain], home |-> "home"] :
          s \in Settings, names \in {{"p1", "p2"}, {"p2", "invalid"}, {}}}
=============================================================================
