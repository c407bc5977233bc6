------------------------- MODULE MCQueryResultsApp -------------------------
(***************************************************************************)
(* Four overlapping calls, three of which ask the same, in a view that     *)
(* keeps three entries; and two calls, one with a blank profile.          *)
(***************************************************************************)
EXTENDS QueryResultsApp

CONSTANTS a, b, c, d, q1, q2

MCInput == [k \in {a, b, c, d} |-> IF k = b THEN q2 ELSE q1]
BlankInput == [k \in {a, b} |-> IF k = b THEN Blank ELSE q1]
=============================================================================
