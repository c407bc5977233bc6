------------------------------ MODULE AuditRing ------------------------------
(***************************************************************************)
(* internal/audit/ring.go: the fixed ring buffer behind mysql_stats.  Both *)
(* methods hold ring.mu from their first to their last line, so each is    *)
(* one atomic step whatever the number of callers; a reader keeps the copy *)
(* it was given while writers go on.                                       *)
(***************************************************************************)
EXTENDS Integers, Sequences

CONSTANTS Entries,   \* the audit records that callers log
          Readers,   \* concurrent mysql_stats requests
          RingSize,  \* audit.ring_buffer_size, validated positive by config
          Zero,      \* the zero Record that make([]Record, size) fills in
          MaxAdds    \* bound: how many records a behaviour logs

ASSUME RingSizeAssumption == RingSize \in Nat \ {0}
ASSUME ZeroAssumption == Zero \notin Entries

VARIABLES buf,       \* ring.buf, indexed from 0 as in the code
          next,      \* ring.next: the slot the next record goes to
          full,      \* ring.full: the buffer has wrapped at least once
          copy,      \* copy[reader]: what snapshot last returned to it
          history    \* every record added so far, in order (ghost)

ringVars == <<buf, next, full, copy, history>>

RingInit == /\ buf = [i \in 0..(RingSize - 1) |-> Zero]
            /\ next = 0
            /\ full = FALSE
            /\ copy = [reader \in Readers |-> << >>]
            /\ history = << >>

\* Mutant: full follows the index instead of latching.
AddForgetsFull(r) ==
  /\ Len(history) < MaxAdds
  /\ buf' = [buf EXCEPT ![next] = r]
  /\ next' = (next + 1) % RingSize
  /\ full' = (next' = 0)
  /\ history' = Append(history, r)
  /\ UNCHANGED copy

(***************************************************************************)
(* add: store, step the index, and remember that it came round to zero.    *)
(***************************************************************************)
Add(r) == /\ Len(history) < MaxAdds
          /\ buf' = [buf EXCEPT ![next] = r]
          /\ next' = (next + 1) % RingSize
          /\ full' = (full \/ next' = 0)
          /\ history' = Append(history, r)
          /\ UNCHANGED copy

\* The Go slice expression buf[lo:hi].
Slice(lo, hi) == [i \in 1..(hi - lo) |-> buf[lo + i - 1]]

\* Mutant: the two halves are joined in slot order, not in write order.
ContentsInSlotOrder == IF full THEN Slice(0, next) \o Slice(next, RingSize)
                               ELSE Slice(0, next)

\* What snapshot returns in the current state.
Contents == IF full THEN Slice(next, RingSize) \o Slice(0, next)
                    ELSE Slice(0, next)

(***************************************************************************)
(* snapshot: the reader receives its own copy; the ring does not change.   *)
(***************************************************************************)
Snapshot(reader) == /\ copy' = [copy EXCEPT ![reader] = Contents]
                    /\ UNCHANGED <<buf, next, full, history>>

RingNext == \/ \E r \in Entries : Add(r)
            \/ \E reader \in Readers : Snapshot(reader)

RingSpec == RingInit /\ [][RingNext]_ringVars

-----------------------------------------------------------------------------
\* Among the types: no zero Record ever leaves the ring in a copy.
TypeOK == /\ buf \in [0..(RingSize - 1) -> Entries \cup {Zero}]
          /\ next \in 0..(RingSize - 1)
          /\ full \in BOOLEAN
          /\ copy \in [Readers -> Seq(Entries)]
          /\ history \in Seq(Entries)

\* The abstract window of recent records, read off the ring.
Window == INSTANCE RecentWindow WITH N <- RingSize, window <- Contents

\* A snapshot is exactly the latest RingSize records in the order they were
\* written: never a zero Record, a duplicate, a gap or a rotation
\* (ring.go:31 "returns the current records in write order").
ContentsAreLatest == Contents = Window!Latest(history, RingSize)

\* The ring implements the abstract window: add pushes one record and drops
\* the oldest at most, and snapshot changes nothing.
ImplementsWindow == Window!Spec
=============================================================================
