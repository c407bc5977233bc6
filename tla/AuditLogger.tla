----------------------------- MODULE AuditLogger -----------------------------
(***************************************************************************)
(* internal/audit/logger.go: Log, called by concurrent tool handlers, and  *)
(* Close, called when the process shuts down.  A record enters the ring    *)
(* before, and outside, the mutex of the file section, so the two orders   *)
(* may differ; its file is named by the date it was stamped with when the  *)
(* request arrived, so a slow request of yesterday rolls the file back.    *)
(***************************************************************************)
EXTENDS Integers, Sequences, FiniteSets

CONSTANTS Callers,    \* concurrent tool handlers of the profile
          MaxLogs,    \* bound: calls of Log in a behaviour
          LastDay,    \* bound: how far the calendar advances
          MaxFaults   \* bound: how many times the disk fails

ASSUME BoundsAssumption == MaxLogs \in Nat /\ LastDay \in Nat /\ MaxFaults \in Nat

Days == 0..LastDay
Records == [id : 1..MaxLogs, day : Days]
NoRecord == [id |-> 0, day |-> 0]
NoDay == -1          \* Logger.curDate = ""
NoFile == [day |-> NoDay, open |-> FALSE]   \* Logger.f = nil

VARIABLES enabled,    \* audit.enabled, fixed by NewLogger
          today,      \* the calendar
          pc, rec,    \* per caller: where it is in Log, and with what record
          started,    \* calls made so far; numbers the records
          ring,       \* what l.ring has been given, in order
          curDate, f, closed,   \* the fields of Logger under its mutex
          handles,    \* days whose log file the process holds open
          files,      \* files[d]: lines of audit-<profile>-<d>.jsonl
          lost,       \* records that reached no file
          faults      \* failures of the disk so far

calls == <<pc, rec, started>>
logger == <<enabled, curDate, f, closed, handles, files, lost, faults>>
vars == <<today, calls, ring, logger>>

Init == /\ enabled \in BOOLEAN
        /\ today = 0
        /\ pc = [c \in Callers |-> "idle"]
        /\ rec = [c \in Callers |-> NoRecord]
        /\ started = 0
        /\ ring = << >>
        /\ curDate = NoDay /\ f = NoFile /\ closed = FALSE
        /\ handles = {}
        /\ files = [d \in Days |-> << >>]
        /\ lost = {}
        /\ faults = 0

Midnight == /\ today < LastDay
            /\ today' = today + 1
            /\ UNCHANGED <<calls, ring, logger>>

\* A handler starts: the record takes its timestamp before anything is run.
Stamp(c) == /\ pc[c] = "idle"
            /\ started < MaxLogs
            /\ started' = started + 1
            /\ rec' = [rec EXCEPT ![c] = [id |-> started + 1, day |-> today]]
            /\ pc' = [pc EXCEPT ![c] = "stamped"]
            /\ UNCHANGED <<today, ring, logger>>

\* Mutant: audit.enabled gates the ring as well.
AddIfEnabled(c) == /\ pc[c] = "stamped"
                   /\ ring' = IF enabled THEN Append(ring, rec[c]) ELSE ring
                   /\ pc' = [pc EXCEPT ![c] = IF enabled THEN "added" ELSE "idle"]
                   /\ UNCHANGED <<today, rec, started, logger>>

\* Log, up to l.ring.add; with audit.enabled off it returns here.
AddToRing(c) == /\ pc[c] = "stamped"
                /\ ring' = Append(ring, rec[c])
                /\ pc' = [pc EXCEPT ![c] = IF enabled THEN "added" ELSE "idle"]
                /\ UNCHANGED <<today, rec, started, logger>>

-----------------------------------------------------------------------------
\* The file section of Log, one caller at a time under l.mu.
InFileSection(c) == /\ pc[c] = "added"
                    /\ pc' = [pc EXCEPT ![c] = "idle"]
                    /\ UNCHANGED <<enabled, today, rec, started, ring, closed>>

\* Mutant: the log only ever rolls forward.
MustRollForward(c) == rec[c].day > curDate

MustRoll(c) == rec[c].day # curDate

\* What is still open once l.f.Close() has closed the file rolled away.
OtherHandles == handles \ {f.day}

LogClosed(c) == /\ InFileSection(c)
                /\ closed
                /\ lost' = lost \cup {rec[c]}
                /\ UNCHANGED <<curDate, f, handles, files, faults>>

\* The old file is closed and the new one cannot be opened: the record is
\* dropped, l.f stays the closed file and curDate its day.
OpenFails(c) == /\ InFileSection(c)
                /\ ~closed /\ MustRoll(c)
                /\ faults < MaxFaults
                /\ faults' = faults + 1
                /\ f' = [f EXCEPT !.open = FALSE]
                /\ handles' = OtherHandles
                /\ lost' = lost \cup {rec[c]}
                /\ UNCHANGED <<curDate, files>>

\* Mutant: the file is closed after l.f was set to the new one.
RollThenClose(c) == IF MustRoll(c)
                    THEN /\ curDate' = rec[c].day
                         /\ f' = [day |-> rec[c].day, open |-> FALSE]
                         /\ handles' = handles
                    ELSE UNCHANGED <<curDate, f, handles>>

\* Mutant: the old file is not closed.
RollWithoutClose(c) == IF MustRoll(c)
                       THEN /\ curDate' = rec[c].day
                            /\ f' = [day |-> rec[c].day, open |-> TRUE]
                            /\ handles' = handles \cup {rec[c].day}
                       ELSE UNCHANGED <<curDate, f, handles>>

\* Roll, when the record is of another day: close l.f, open the day's file.
Roll(c) == IF MustRoll(c)
           THEN /\ curDate' = rec[c].day
                /\ f' = [day |-> rec[c].day, open |-> TRUE]
                /\ handles' = OtherHandles \cup {rec[c].day}
           ELSE UNCHANGED <<curDate, f, handles>>

\* l.f.Write: appends the line, or fails, as it always does on a closed file.
Write(c) == /\ InFileSection(c)
            /\ ~closed
            /\ Roll(c)
            /\ \/ /\ f'.open
                  /\ files' = [files EXCEPT ![f'.day] = Append(@, rec[c])]
                  /\ UNCHANGED <<lost, faults>>
               \/ /\ f'.open => faults < MaxFaults
                  /\ faults' = IF f'.open THEN faults + 1 ELSE faults
                  /\ lost' = lost \cup {rec[c]}
                  /\ UNCHANGED files

\* Close: idempotent, and the only place where l.f becomes nil again.
Close == /\ ~closed
         /\ closed' = TRUE
         /\ f' = NoFile
         /\ handles' = OtherHandles
         /\ UNCHANGED <<enabled, today, calls, ring, curDate, files, lost, faults>>

Next == \/ Midnight \/ Close
        \/ \E c \in Callers : \/ Stamp(c) \/ AddToRing(c)
                              \/ LogClosed(c) \/ OpenFails(c) \/ Write(c)

Spec == Init /\ [][Next]_vars

-----------------------------------------------------------------------------
Places(s, id) == {i \in 1..Len(s) : s[i].id = id}
Lines(id) == UNION {{d} \X Places(files[d], id) : d \in Days}
InHand(id, l) == \E c \in Callers : rec[c].id = id /\ pc[c] \in l

\* Every call of Log leaves its record in the statistics ring exactly once,
\* and, with the log on, on exactly one line or, best effort, on none.
EveryRecordOnce ==
  \A id \in 1..started :
    /\ Cardinality(Places(ring, id)) = (IF InHand(id, {"stamped"}) THEN 0 ELSE 1)
    /\ enabled /\ ~InHand(id, {"stamped", "added"}) =>
         Cardinality(Lines(id)) + Cardinality({r \in lost : r.id = id}) = 1

\* Log files hold the records of their own day, although requests overtake
\* each other around midnight (records roll by their own timestamp).
LinesOnTheirDay == \A d \in Days : \A i \in 1..Len(files[d]) : files[d][i].day = d

\* As long as the disk works and the logger is open, nothing is dropped.
LossNeedsCause == lost # {} => faults > 0 \/ closed

\* Rolling, failing to roll and closing never leave a descriptor behind, and a
\* handler that outlives Close opens none (logger.go:71).
NoHandleLeak == handles = IF f.open /\ ~closed THEN {f.day} ELSE {}
=============================================================================
