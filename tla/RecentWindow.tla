---------------------------- MODULE RecentWindow ----------------------------
(***************************************************************************)
(* What internal/audit promises of its ring buffer, with no ring in it:    *)
(* "keeps only the latest N records", readable in the order they were      *)
(* written.                                                                *)
(***************************************************************************)
EXTENDS Integers, Sequences

CONSTANTS Entries,  \* the audit records that callers log
          N         \* how many of them are kept, at least one

VARIABLE window     \* the kept records, oldest first

\* The last n elements of s, or all of s when it is shorter.
Latest(s, n) == IF Len(s) <= n THEN s
                ELSE [i \in 1..n |-> s[Len(s) - n + i]]

Init == window = << >>

Push(rec) == window' = Latest(Append(window, rec), N)

Next == \E rec \in Entries : Push(rec)

Spec == Init /\ [][Next]_window
=============================================================================
