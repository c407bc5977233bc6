----------------------------- MODULE TableListing -----------------------------
(***************************************************************************)
(* How many rows and tables are shown.  scanRows (internal/executor) stops *)
(* at security.max_rows; listVisibleBaseTablesUpTo (internal/server), for  *)
(* mysql_list_tables, stops the walk over information_schema at the same   *)
(* limit; listVisibleBaseTables, for the resources, has none.  A row or a  *)
(* table is its number in the order of the server.                         *)
(***************************************************************************)
EXTENDS Integers, Sequences, SequencesExt

Scan == [rows |-> << >>, truncated |-> FALSE]

\* Mutant: the last row that fits is taken for one that does not.
TakeUnmarked(scan, row, max) ==
  IF scan.truncated THEN scan
  ELSE IF Len(scan.rows) + 1 >= max
       THEN [rows |-> IF max <= Len(scan.rows) THEN scan.rows ELSE Append(scan.rows, row),
             truncated |-> TRUE]
  ELSE [scan EXCEPT !.rows = Append(@, row)]

\* One turn of the loop: the row that does not fit marks the result and ends it.
Take(scan, row, max) ==
  IF scan.truncated THEN scan
  ELSE IF Len(scan.rows) >= max THEN [rows |-> scan.rows, truncated |-> TRUE]
  ELSE [rows |-> Append(scan.rows, row), truncated |-> FALSE]

\* The loop over the rows; those that are not kept are passed over.
Capped(rows, kept, max) ==
  LET after[i \in 0..Len(rows)] ==
        IF i = 0 THEN Scan
        ELSE IF rows[i] \in kept THEN Take(after[i - 1], rows[i], max)
        ELSE after[i - 1]
  IN after[Len(rows)]

\* scanRows; an error of the driver after some rows drops them all.
ScanRows(rows, max, fails) ==
  LET scan == Capped(rows, ToSet(rows), max)
  IN IF fails /\ ~scan.truncated THEN [ok |-> FALSE, rows |-> << >>, truncated |-> FALSE]
     ELSE [ok |-> TRUE, rows |-> scan.rows, truncated |-> scan.truncated]

\* listVisibleBaseTablesUpTo: the visitor passes over what the whitelist hides,
\* and a negative limit is none at all.
ListUpTo(tables, allowed, max) ==
  LET scan == Capped(tables, allowed, IF max < 0 THEN 0 ELSE max)
  IN [rows |-> scan.rows, truncated |-> scan.truncated]

\* listVisibleBaseTables
ListAll(tables, allowed) ==
  LET after[i \in 0..Len(tables)] ==
        IF i = 0 THEN << >>
        ELSE IF tables[i] \in allowed THEN Append(after[i - 1], tables[i])
        ELSE after[i - 1]
  IN after[Len(tables)]
=============================================================================
