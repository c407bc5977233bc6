-------------------------- MODULE MCTableResources --------------------------
(***************************************************************************)
(* Two clients and two profiles, of which one may see one table, the other *)
(* two; tables change and a discovery may fail at any moment.              *)
(***************************************************************************)
EXTENDS TableResources

CONSTANTS p1, p2, t1, t2

MCList == <<p1, p2>>
MCWhitelist == [p \in {p1, p2} |-> IF p = p1 THEN {t1} ELSE {t1, t2}]
=============================================================================
