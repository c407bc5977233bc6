---------------------------- MODULE Computations ----------------------------
(***************************************************************************)
(* The parts of the program that compute an answer and keep no state, each *)
(* put to a case and compared with a second, independent definition of     *)
(* what it should say.  A behaviour is one computation.                    *)
(***************************************************************************)
EXTENDS TableScopes, AuditStats, TableTextGrammar, TableListing, Configuration

CONSTANTS Walks,      \* statements, as walks over their trees
          Snapshots,  \* [recs, threshold, topN] put to Stats
          Ddls,       \* [text, ends, columns, counter]: a CREATE TABLE without the counter,
                      \* where its tokens end, where the list of columns is closed,
                      \* and after which place a counter is shown; 0 for no counter
          Listings,   \* [tables, allowed, max, fails]
          Profiles,   \* [profiles, home]
          StatTables, StatRules

\* The parser visits every statement in this order.
ASSUME WalksAssumption == \A w \in Walks : w \in Seq(Calls) /\ WellNested(w)

\* Stats is asked for some of the slow queries (server.go:355).
ASSUME SnapshotsAssumption ==
  \A x \in Snapshots :
    /\ x.recs \in Seq(ToSet(x.recs)) /\ x.threshold \in Int /\ x.topN \in Nat
    /\ \A rec \in ToSet(x.recs) : rec.denied \in BOOLEAN /\ rec.ms \in Int

ASSUME ListingsAssumption ==
  \A x \in Listings : x.tables \in Seq(ToSet(x.tables)) /\ x.max \in Int

ASSUME ProfilesAssumption ==
  \A x \in Profiles : x.profiles \in [DOMAIN x.profiles -> Profile] /\ x.home \in STRING

\* What MySQL shows: tokens; after the list of columns no word AUTO_INCREMENT that is
\* followed by "="; and, between two tokens there, at most one counter, which has no
\* blank before it but its own.
Legible(x) ==
  /\ Lexed(x.text, x.ends) /\ ClosesFirst(x.text, x.ends, x.columns)
  /\ \A i \in (x.columns + 1)..Len(x.text) :
       i - 1 \in x.ends /\ x.text[i] = Option /\ ~IsIdentifier(x.text[i - 1])
       => \A e \in (i + 1)..Len(x.text) :
            x.text[e] = "=" => \E m \in (i + 1)..(e - 1) : x.text[m] # Blank
  /\ x.counter # 0 => /\ x.counter \in x.ends /\ x.counter >= x.columns
                       /\ x.text[x.counter] # Blank /\ ~At(x.text, x.counter + 1, Number)

ASSUME DdlsAssumption == \A x \in Ddls : Legible(x)

VARIABLES kind, input, done, answer

Start(k, x) == kind = k /\ input = x

Init == /\ \/ \E x \in Walks : Start("scopes", x)
           \/ \E x \in Snapshots : Start("stats", x)
           \/ \E x \in Ddls : Start("ddl", x)
           \/ \E x \in Listings : Start("listing", x)
           \/ \E x \in Profiles : Start("config", x)
        /\ done = FALSE
        /\ answer = << >>

Finish(k, a) == /\ kind = k /\ ~done
                /\ answer' = a
                /\ done' = TRUE
                /\ UNCHANGED <<kind, input>>

\* The text of SHOW CREATE TABLE.
Counter == <<Blank, Option, "=", Number>>
WithCounter(text, at) == SubSeq(text, 1, at) \o Counter \o SubSeq(text, at + 1, Len(text))
ShowCreateTable(x) == IF x.counter = 0 THEN x.text ELSE WithCounter(x.text, x.counter)

Extract == Finish("scopes", ExtractTables(input))
Report == Finish("stats", Stats(input.recs, input.threshold, input.topN, StatTables, StatRules))
Normal == Finish("ddl", NormalizeCreateTableDDL(ShowCreateTable(input)))
List == Finish("listing",
               [scan |-> ScanRows(input.tables, input.max, input.fails),
                upTo |-> ListUpTo(input.tables, input.allowed, input.max),
                all  |-> ListAll(input.tables, input.allowed)])
Configure == Finish("config", Load(input.profiles, input.home))

Next == Extract \/ Report \/ Normal \/ List \/ Configure

vars == <<kind, input, done, answer>>
Spec == Init /\ [][Next]_vars

-----------------------------------------------------------------------------
Answered(k) == done /\ kind = k

\* The tables that the whitelist is asked about are those the statement names
\* in MySQL's scoping, none hidden by an expression out of scope and none that
\* is only an expression; and the two stacks are empty at the end, so that no
\* Leave took from an empty one (tables.go:83-108).  The visitor lower-cases
\* every name.  A server that compares names as they are spelled reads no other
\* tables as long as no expression differs from a table in case alone; and
\* whatever the statement, it reads every table that the visitor finds.
TablesAreReal ==
  Answered("scopes") =>
    /\ answer.tables = TablesOf(input, FALSE)
    /\ answer.tables \subseteq TablesOf(input, TRUE)
    /\ OneSpelling(input) => answer.tables = TablesOf(input, TRUE)
    /\ answer.scopes = << >> /\ answer.recursive = << >>

\* README.md:25 "Every table reference is extracted from the AST": so is every
\* table of a statement at a server that compares names as they are spelled
\* (lower_case_table_names = 0), to which tables.go:22 adds that in doubt a
\* name is a table.
NoTableIsMissed == Answered("scopes") => TablesOf(input, TRUE) \subseteq answer.tables

\* mysql_stats describes the snapshot: what it counts, of all records, of the
\* denied ones and their rules, and of the tables, is how many there are; P95 is
\* the nearest rank of the executed ones at every count (logger.go:160), and the
\* slow list is the slowest.
StatsDescribeTheWindow ==
  Answered("stats") =>
    LET recs == input.recs
    IN /\ answer.total = Len(recs) /\ answer.denied = Cardinality(Denied(recs))
       /\ \A x \in StatRules :
            answer.deniedByRule[x] = Cardinality({i \in Denied(recs) : recs[i].rule = x})
       /\ \A t \in StatTables :
            answer.tableCounts[t] = Cardinality({i \in 1..Len(recs) : t \in recs[i].tables})
       /\ IsP95(recs, answer.p95)
       /\ IsSlowest(recs, input.threshold, input.topN, answer.slowQueries)

\* Only the counter goes, wherever it stands among the options and whatever
\* quotes, comments and column attributes spell the same word; the result is
\* stable, so two reads of a table differ only if the table does (resource.go:173).
OnlyTheCounterGoes ==
  Answered("ddl") =>
    /\ answer = input.text
    /\ NormalizeCreateTableDDL(answer) = answer

\* mysql_list_tables shows a prefix of what the resources show, says that it is
\* one exactly when it is, and agrees at the limit itself; so do the rows of a
\* query, of which an error leaves nothing.
ListIsAPrefix ==
  Answered("listing") =>
    LET Cut(shown, all) == /\ IsPrefix(shown.rows, all)
                           /\ shown.truncated <=> Len(shown.rows) < Len(all)
                           /\ shown.truncated => Len(shown.rows) = (IF input.max < 0 THEN 0 ELSE input.max)
    IN /\ Cut(answer.upTo, answer.all)
       /\ IF answer.scan.ok THEN Cut(answer.scan, input.tables) ELSE answer.scan.rows = << >>

\* What Load accepts NewManager accepts unchanged, and every other part can
\* rely on it: defaults never fall foul of the rules (config.go:144).
AcceptedIsUsable ==
  Answered("config") /\ answer.ok =>
    /\ Load(answer.profiles, input.home) = answer
    /\ \A name \in DOMAIN answer.profiles : Usable(answer.profiles[name])
=============================================================================
