------------------------------ MODULE AuditStats ------------------------------
(***************************************************************************)
(* internal/audit/logger.go, Stats: what mysql_stats reports of a snapshot *)
(* of the ring.  A record is [denied, rule, ms, tables]; of a slow query   *)
(* the report keeps its duration.  The average is left out.                *)
(***************************************************************************)
EXTENDS Integers, Sequences, FiniteSets, SequencesExt

\* Log marks an allowed record that took at least the threshold.
Slow(rec, threshold) == ~rec.denied /\ rec.ms >= threshold

Untallied(tables, rules) ==
  [denied |-> 0, deniedByRule |-> [x \in rules |-> 0], tableCounts |-> [t \in tables |-> 0],
   durs |-> << >>, slows |-> << >>]

\* The body of the loop, which goes no further with a record that was denied.
Tally(sofar, rec, threshold) ==
  LET counted == [sofar EXCEPT !.tableCounts =
                    [t \in DOMAIN @ |-> IF t \in rec.tables THEN @[t] + 1 ELSE @[t]]]
  IN IF rec.denied
     THEN [counted EXCEPT !.denied = @ + 1, !.deniedByRule[rec.rule] = @ + 1]
     ELSE [counted EXCEPT !.durs = Append(@, rec.ms),
                          !.slows = IF Slow(rec, threshold) THEN Append(@, rec.ms) ELSE @]

Tallied(recs, threshold, tables, rules) ==
  LET after[k \in 0..Len(recs)] == IF k = 0 THEN Untallied(tables, rules)
                                   ELSE Tally(after[k - 1], recs[k], threshold)
  IN after[Len(recs)]

\* sort.Slice: before the first element that is greater, one after the other.
Insert(s, x) == InsertAt(s, Min({i \in 1..(Len(s) + 1) : i <= Len(s) => s[i] > x}), x)

Ascending(s) ==
  LET sorted[k \in 0..Len(s)] == IF k = 0 THEN << >> ELSE Insert(sorted[k - 1], s[k])
  IN sorted[Len(s)]

Descending(s) == Reverse(Ascending(s))

\* Mutant: the index is rounded down.
P95IndexFloor(n) == LET idx == (n * 95) \div 100 IN IF idx < 1 THEN 1 ELSE idx

\* The position, from 1, of the 95th percentile among n sorted durations.
P95Index(n) == LET idx == (n * 95 + 99) \div 100 IN IF idx < 1 THEN 1 ELSE idx

P95(durs) == IF durs = << >> THEN 0 ELSE Ascending(durs)[P95Index(Len(durs))]

\* The slowest queries, slowest first, at most topN of them.
Slowest(slows, topN) ==
  SubSeq(Descending(slows), 1, IF Len(slows) > topN THEN topN ELSE Len(slows))

Stats(recs, threshold, topN, tables, rules) ==
  LET sum == Tallied(recs, threshold, tables, rules)
  IN [total        |-> Len(recs),
      denied       |-> sum.denied,
      p95          |-> P95(sum.durs),
      slowQueries  |-> Slowest(sum.slows, topN),
      tableCounts  |-> sum.tableCounts,
      deniedByRule |-> sum.deniedByRule]

-----------------------------------------------------------------------------
\* The records of a snapshot, by their places.
Denied(recs) == {i \in 1..Len(recs) : recs[i].denied}
Executed(recs) == (1..Len(recs)) \ Denied(recs)

\* The 95th percentile by nearest rank, without sorting or an index: the
\* least duration that at least 95 of 100 executed records do not exceed.
IsP95(recs, ms) ==
  LET ran == Executed(recs)
      Within(d) == Cardinality({i \in ran : recs[i].ms <= d}) * 100 >= 95 * Cardinality(ran)
  IN IF ran = {} THEN ms = 0
     ELSE /\ ms \in {recs[i].ms : i \in ran} /\ Within(ms)
          /\ \A i \in ran : recs[i].ms < ms => ~Within(recs[i].ms)

\* The latencies that were left out are none that was kept by mistake.
IsSlowest(recs, threshold, topN, report) ==
  LET slow == {i \in Executed(recs) : recs[i].ms >= threshold}
      All(d) == Cardinality({i \in slow : recs[i].ms = d})
      Shown(d) == Cardinality({i \in 1..Len(report) : report[i] = d})
  IN /\ Len(report) = (IF Cardinality(slow) < topN THEN Cardinality(slow) ELSE topN)
     /\ \A i \in 1..Len(report) : \A k \in i..Len(report) : report[i] >= report[k]
     /\ \A d \in {recs[i].ms : i \in slow} \cup ToSet(report) :
          /\ Shown(d) <= All(d)
          /\ Shown(d) < All(d) => \A i \in 1..Len(report) : report[i] >= d
=============================================================================
