---------------------------- MODULE MCHostedView ----------------------------
(***************************************************************************)
(* A view in StrictMode, whose first connection is disposed of, and two    *)
(* calls, one with a blank profile, whose results may be delivered again.  *)
(***************************************************************************)
EXTENDS HostedView

CONSTANTS a, b, q1

MCInput == [k \in {a, b} |-> IF k = b THEN Blank ELSE q1]
=============================================================================
