-------------------------------- MODULE Audit --------------------------------
(***************************************************************************)
(* internal/audit as a whole: the calls of Log with the ring they write.   *)
(* l.ring.add is a part of Log before, and outside, the file section;      *)
(* mysql_stats takes snapshots of the ring whatever the calls are at.      *)
(***************************************************************************)
EXTENDS AuditLogger, AuditRing

auditVars == <<vars, ringVars>>

AuditInit == Init /\ RingInit

LogToRing(c) == AddToRing(c) /\ Add(rec[c])

TakeSnapshot(reader) == Snapshot(reader) /\ UNCHANGED vars

\* What leaves the ring alone.
Elsewhere == /\ \/ Midnight \/ Close
                \/ \E c \in Callers : Stamp(c) \/ LogClosed(c) \/ OpenFails(c) \/ Write(c)
             /\ UNCHANGED ringVars

AuditNext == \/ \E c \in Callers : LogToRing(c)
             \/ \E reader \in Readers : TakeSnapshot(reader)
             \/ Elsewhere

AuditSpec == AuditInit /\ [][AuditNext]_auditVars
=============================================================================
