-------------------------- MODULE ComputationsProofs --------------------------
(***************************************************************************)
(* Proofs about the parts that only compute: what Load accepts, what the   *)
(* lists show, which tables a statement names, what the statistics say of  *)
(* a snapshot, and what is left of a table's text.  A theorem about a loop *)
(* is one about a recursive function over the places of a sequence: the    *)
(* first lemmas say that such a function exists and is unique, and that    *)
(* what holds at the start and after each turn holds at the end. The       *)
(* longest argument, about the table visitor, follows a walk of any length *)
(* call by call: the open nodes of a walk are a chain, the two stacks hold *)
(* what belongs to the open blocks and to the open WITH clauses, in their  *)
(* order, and an expression is in a scope exactly while MySQL sees it. The *)
(* statistics are compared by counting: how many numbers are at most each  *)
(* d. The scanner of a table's text is compared with MySQL's lexical       *)
(* grammar: it is in the text itself exactly between two tokens, and up to *)
(* where the counter is it reads a text with the counter as it reads the   *)
(* one without.                                                            *)
(***************************************************************************)
EXTENDS Computations, FiniteSetTheorems, WellFoundedInduction, TLAPS

\* The least element of a set of numbers, from the well-foundedness of
\* inclusion between the intervals that end there.
LEMMA LeastNumber ==
  ASSUME NEW S \in SUBSET Nat, S # {}
  PROVE  \E x \in S : \A y \in S : x <= y
<1> DEFINE F == {1..x : x \in S}
<1>1. F \subseteq FiniteSubsetsOf(Nat) /\ F # {}
  <2>1. \A x \in S : 1..x \in FiniteSubsetsOf(Nat)
    <3> TAKE x \in S
    <3>1. IsFiniteSet(1..x) /\ 1..x \subseteq Nat
      BY FS_Interval
    <3> QED  BY <3>1 DEF FiniteSubsetsOf
  <2> QED  BY <2>1
<1>2. \E s \in F : \A t \in F : <<t, s>> \notin StrictSubsetOrdering(Nat)
  <2> HIDE DEF F
  <2> QED  BY <1>1, FS_StrictSubsetOrderingWellFounded, WFMin
<1>3. PICK x \in S : \A y \in S : <<1..y, 1..x>> \notin StrictSubsetOrdering(Nat)
  BY <1>2
<1>4. ASSUME NEW y \in S, y < x PROVE FALSE
  <2>1. 1..y \subseteq 1..x /\ x \in 1..x /\ x \notin 1..y
    BY <1>4
  <2>2. 1..y \in SUBSET Nat /\ 1..x \in SUBSET Nat /\ 1..y # 1..x
    BY <2>1
  <2>3. <<1..y, 1..x>> \in StrictSubsetOrdering(Nat)
    BY <2>1, <2>2 DEF StrictSubsetOrdering
  <2> QED  BY <2>3, <1>3
<1> QED  BY <1>4

\* Induction on numbers, for a set of them rather than a predicate.
LEMMA Induction ==
  ASSUME NEW n \in Nat, NEW S, 0 \in S, \A i \in 1..n : i - 1 \in S => i \in S
  PROVE  \A i \in 0..n : i \in S
<1> SUFFICES ASSUME NEW k \in 0..n, k \notin S PROVE FALSE
  OBVIOUS
<1>1. {i \in 0..n : i \notin S} \in SUBSET Nat /\ {i \in 0..n : i \notin S} # {}
  OBVIOUS
<1>2. PICK x \in {i \in 0..n : i \notin S} : \A y \in {i \in 0..n : i \notin S} : x <= y
  BY <1>1, LeastNumber
<1>3. x \in 1..n /\ x - 1 \in 0..n /\ x - 1 \notin {i \in 0..n : i \notin S}
  BY <1>2
<1> QED  BY <1>2, <1>3

\* A recursive function over the places of a sequence: first, then step by step.
Steps(n, X) == [1..n -> [X -> X]]
Follows(f, n, first, step) == f[0] = first /\ \A i \in 1..n : f[i] = step[i][f[i - 1]]

\* A step that maps values to values can be taken n times, so there is what a
\* recursive function is defined to be.
LEMMA Recursion ==
  ASSUME NEW n \in Nat, NEW X, NEW first \in X, NEW step \in Steps(n, X)
  PROVE  \E f \in [0..n -> X] : Follows(f, n, first, step)
<1> DEFINE S == {k \in 0..n : \E f \in [0..k -> X] : Follows(f, k, first, step)}
<1>1. 0 \in S
  <2> DEFINE g == [i \in 0..0 |-> first]
  <2>1. g \in [0..0 -> X] /\ g[0] = first
    OBVIOUS
  <2>2. \A i \in 1..0 : FALSE
    OBVIOUS
  <2> HIDE DEF g
  <2>3. Follows(g, 0, first, step)
    BY <2>1, <2>2 DEF Follows
  <2> QED  BY <2>1, <2>3
<1>2. ASSUME NEW k \in 1..n, k - 1 \in S PROVE k \in S
  <2>1. PICK f \in [0..(k - 1) -> X] : Follows(f, k - 1, first, step)
    BY <1>2
  <2> DEFINE g == [i \in 0..k |-> IF i = k THEN step[k][f[k - 1]] ELSE f[i]]
  <2>2. f[k - 1] \in X /\ step[k][f[k - 1]] \in X
    <3>1. f[k - 1] \in X
      OBVIOUS
    <3>2. step[k] \in [X -> X]
      BY DEF Steps
    <3> QED  BY <3>1, <3>2
  <2>3. g \in [0..k -> X] /\ g[0] = first
    BY <2>1, <2>2 DEF Follows
  <2>4. ASSUME NEW i \in 1..k PROVE g[i] = step[i][g[i - 1]]
    <3>1. g[i - 1] = f[i - 1]
      OBVIOUS
    <3>2. CASE i = k
      <4>1. g[k] = step[k][f[k - 1]]
        OBVIOUS
      <4> QED  BY <3>1, <3>2, <4>1, Zenon
    <3>3. CASE i # k
      <4>1. i \in 1..(k - 1) /\ g[i] = f[i]
        BY <3>3
      <4> HIDE DEF g
      <4> QED  BY <2>1, <3>1, <4>1, Zenon DEF Follows
    <3> QED  BY <3>2, <3>3
  <2> HIDE DEF g
  <2>5. Follows(g, k, first, step)
    BY <2>3, <2>4 DEF Follows
  <2> QED  BY <2>3, <2>5
<1> HIDE DEF S
<1>3. \A k \in 0..n : k \in S
  BY <1>1, <1>2, Induction
<1> QED  BY <1>3 DEF S

\* What is computed, of what is put to the program.
Computed ==
  /\ kind = "scopes" => input \in Walks /\ (done => answer = ExtractTables(input))
  /\ kind = "listing" =>
       /\ input \in Listings
       /\ done => answer = [scan |-> ScanRows(input.tables, input.max, input.fails),
                            upTo |-> ListUpTo(input.tables, input.allowed, input.max),
                            all  |-> ListAll(input.tables, input.allowed)]
  /\ kind = "stats" =>
       /\ input \in Snapshots
       /\ done => answer = Stats(input.recs, input.threshold, input.topN, StatTables, StatRules)
  /\ kind = "ddl" => input \in Ddls /\ (done => answer = NormalizeCreateTableDDL(ShowCreateTable(input)))
  /\ kind = "config" => input \in Profiles /\ (done => answer = Load(input.profiles, input.home))

\* An answer is never changed after it is given.
LEMMA ComputedAlways == Spec => []Computed
<1>1. Init => Computed
  BY DEF Init, Start, Computed
<1>2. Computed /\ [Next]_vars => Computed'
  <2> SUFFICES ASSUME Computed, [Next]_vars PROVE Computed'
    OBVIOUS
  <2>1. CASE Extract
    BY <2>1 DEF Extract, Finish, Computed
  <2>2. CASE Report
    BY <2>2 DEF Report, Finish, Computed
  <2>3. CASE Normal
    BY <2>3 DEF Normal, Finish, Computed
  <2>4. CASE List
    BY <2>4 DEF List, Finish, Computed
  <2>5. CASE Configure
    BY <2>5 DEF Configure, Finish, Computed
  <2>6. CASE UNCHANGED vars
    BY <2>6 DEF vars, Computed
  <2> QED  BY <2>1, <2>2, <2>3, <2>4, <2>5, <2>6 DEF Next
<1> QED  BY <1>1, <1>2, PTL DEF Spec

-----------------------------------------------------------------------------
\* normalize expands a log directory once: what it made of one it leaves
\* (config.go:152).
LEMMA DirOfProfile ==
  ASSUME NEW d \in STRING, NEW home \in STRING
  PROVE  LET e == ExpandHome(Or(d, "", DefaultDir(home)), home)
         IN  e # "" /\ ExpandHome(Or(e, "", DefaultDir(home)), home) = e
<1>1. CASE d = "" /\ home = ""
  BY <1>1 DEF ExpandHome, Or, DefaultDir
<1>2. CASE d = "" /\ home # ""
  BY <1>2 DEF ExpandHome, Or, DefaultDir
<1>3. CASE d # "" /\ d = "~/logs" /\ home # ""
  BY <1>3 DEF ExpandHome, Or, DefaultDir
<1>4. CASE d # "" /\ ~(d = "~/logs" /\ home # "")
  BY <1>4 DEF ExpandHome, Or, DefaultDir
<1> QED  BY <1>1, <1>2, <1>3, <1>4

\* The fields of a profile, and those of them that are numbers with a default.
Numbers == {"maxOpen", "maxIdle", "maxRows", "queryTimeout", "maxScriptStatements",
            "slowQueryThreshold", "ringBufferSize"}
Fields == Numbers \cup {"user", "database", "allowed", "whitelist", "logDir"}

\* A profile is a function over its fields.
LEMMA FieldsOf ==
  ASSUME NEW p \in Profile
  PROVE  /\ DOMAIN p = Fields
         /\ \A f \in Numbers : p[f] \in Int
         /\ p.logDir \in STRING /\ p = [f \in Fields |-> p[f]]
<1>1. DOMAIN p = Fields
  BY Zenon DEF Profile, Fields, Numbers
<1>2. \A f \in Numbers : p[f] \in Int
  BY DEF Profile, Numbers
<1>3. p.logDir \in STRING
  BY DEF Profile
<1>4. p = [f \in DOMAIN p |-> p[f]]
  BY Zenon DEF Profile
<1> QED  BY <1>1, <1>2, <1>3, <1>4

\* Every number has a default, which is not the zero that asks for one.
LEMMA DefaultsOf == /\ DOMAIN Default = Numbers
                    /\ \A f \in Numbers : Default[f] \in Int \ {0}
<1>1. DOMAIN Default = Numbers
  BY DEF Default, Numbers
<1>2. \A f \in Numbers : Default[f] \in Int \ {0}
  BY DEF Default, Numbers
<1> QED  BY <1>1, <1>2

\* normalize has nothing to do on its own result, which, once accepted by the
\* rules, has no field that a user of it would have to check.
LEMMA NormalizeProfile ==
  ASSUME NEW p \in Profile, NEW home \in STRING
  PROVE  /\ Normalize(Normalize(p, home), home) = Normalize(p, home)
         /\ Valid(Normalize(p, home)) => Usable(Normalize(p, home))
<1> DEFINE q == Normalize(p, home)
           r == Normalize(q, home)
<1>1. DOMAIN q = Fields /\ DOMAIN r = Fields
  BY FieldsOf DEF Normalize, Filled
<1>2. /\ "allowed" \in Fields \ Numbers /\ "logDir" \in Fields \ Numbers
      /\ "allowed" # "logDir" /\ Numbers \subseteq Fields
  BY DEF Fields, Numbers
<1>3. /\ \A f \in Numbers : q[f] = Or(p[f], 0, Default[f]) /\ r[f] = Or(q[f], 0, Default[f])
      /\ q["allowed"] = Or(p["allowed"], {}, {"select"})
      /\ r["allowed"] = Or(q["allowed"], {}, {"select"})
      /\ q["logDir"] = ExpandHome(Or(p["logDir"], "", DefaultDir(home)), home)
      /\ r["logDir"] = ExpandHome(Or(q["logDir"], "", DefaultDir(home)), home)
      /\ \A f \in Fields \ (Numbers \cup {"allowed", "logDir"}) : q[f] = p[f] /\ r[f] = q[f]
  BY <1>1, <1>2, FieldsOf, DefaultsOf DEF Normalize, Filled
<1>4. \A f \in Numbers : q[f] \in Int \ {0} /\ r[f] = q[f]
  BY <1>3, FieldsOf, DefaultsOf DEF Or
<1>5. q["allowed"] # {} /\ r["allowed"] = q["allowed"]
  BY <1>3 DEF Or
<1>6. q["logDir"] # "" /\ r["logDir"] = q["logDir"]
  BY <1>3, FieldsOf, DirOfProfile
<1>7. \A f \in Fields : r[f] = q[f]
  BY <1>2, <1>3, <1>4, <1>5, <1>6
<1>8. r = q
  <2>1. q = [f \in DOMAIN q |-> q[f]] /\ r = [f \in DOMAIN r |-> r[f]]
    BY DEF Normalize, Filled
  <2> HIDE DEF q, r
  <2> QED  BY <1>1, <1>7, <2>1
<1>9. Valid(q) => Usable(q)
  <2>1. /\ q.maxOpen # 0 /\ q.maxRows # 0 /\ q.queryTimeout # 0
        /\ q.maxScriptStatements \in Int \ {0} /\ q.allowed # {} /\ q.logDir # ""
    BY <1>4, <1>5, <1>6 DEF Numbers
  <2> HIDE DEF q, r
  <2> SUFFICES ASSUME Valid(q) PROVE Usable(q)
    OBVIOUS
  <2>2. /\ q.ringBufferSize >= 1 /\ q.database # "" /\ q.allowed \subseteq Statements
        /\ q.maxScriptStatements >= 0
    BY Zenon DEF Valid
  <2>3. q.maxScriptStatements >= 1
    <3>1. \A n \in Int \ {0} : n >= 0 => n >= 1
      OBVIOUS
    <3> QED  BY <2>1, <2>2, <3>1, Zenon
  <2> QED  BY <2>1, <2>2, <2>3, Zenon DEF Usable
<1> QED  BY <1>8, <1>9

\* Load of what Load accepted accepts it unchanged.
LEMMA LoadAgain ==
  ASSUME NEW x \in Profiles, NEW a, a = Load(x.profiles, x.home), a.ok
  PROVE  /\ Load(a.profiles, x.home) = a
         /\ \A name \in DOMAIN a.profiles : Usable(a.profiles[name])
<1> DEFINE ps == x.profiles
           h == x.home
           again == [name \in DOMAIN ps |-> Normalize(ps[name], h)]
<1>1. /\ DOMAIN ps # {}
      /\ \A name \in DOMAIN ps : ValidName(name) /\ Valid(Normalize(ps[name], h))
      /\ a = [ok |-> TRUE, profiles |-> again]
  BY DEF Load, Rejected
<1>2. \A name \in DOMAIN ps : ps[name] \in Profile /\ h \in STRING
  BY ProfilesAssumption
<1>3. a.profiles = again /\ DOMAIN again = DOMAIN ps
  BY <1>1
<1>4. \A name \in DOMAIN ps : /\ again[name] = Normalize(ps[name], h)
                              /\ Normalize(again[name], h) = again[name]
                              /\ Usable(again[name])
  BY <1>1, <1>2, NormalizeProfile
<1>5. [name \in DOMAIN again |-> Normalize(again[name], h)] = again
  BY <1>3, <1>4
<1>6. \A name \in DOMAIN again : ValidName(name) /\ Valid(Normalize(again[name], h))
  BY <1>1, <1>3, <1>4
<1>7. Load(again, h) = [ok |-> TRUE, profiles |-> again]
  BY <1>1, <1>3, <1>5, <1>6 DEF Load
<1> QED  BY <1>1, <1>3, <1>4, <1>7

\* Whatever profiles a file has, those that Load accepts are accepted unchanged
\* by NewManager, and are usable as they are (config.go:144-192).
THEOREM ConfigurationUsable == Spec => []AcceptedIsUsable
<1>1. Computed => AcceptedIsUsable
  BY LoadAgain DEF Computed, AcceptedIsUsable, Answered
<1> QED  BY <1>1, ComputedAlways, PTL

-----------------------------------------------------------------------------
\* A scan that was marked as cut, and one that was not.
Cut(r) == [rows |-> r, truncated |-> TRUE]
Whole(r) == [rows |-> r, truncated |-> FALSE]
Scans(S) == {Cut(r) : r \in Seq(S)} \cup {Whole(r) : r \in Seq(S)}

\* The three things that a turn of the loop can do.
LEMMA TakeCases ==
  ASSUME NEW S, NEW r \in Seq(S), NEW row \in S, NEW max \in Int
  PROVE  /\ Take(Cut(r), row, max) = Cut(r)
         /\ Len(r) >= max => Take(Whole(r), row, max) = Cut(r)
         /\ Len(r) < max => Take(Whole(r), row, max) = Whole(Append(r, row))
<1>1. Take(Cut(r), row, max) = Cut(r)
  BY DEF Take, Cut
<1>2. ASSUME Len(r) >= max PROVE Take(Whole(r), row, max) = Cut(r)
  BY <1>2 DEF Take, Cut, Whole
<1>3. ASSUME Len(r) < max PROVE Take(Whole(r), row, max) = Whole(Append(r, row))
  <2>1. ~(Len(r) >= max)
    BY <1>3
  <2> QED  BY <2>1 DEF Take, Whole
<1> QED  BY <1>1, <1>2, <1>3

\* A turn of the loop makes a scan of a scan.
LEMMA TakeScans ==
  ASSUME NEW S, NEW scan \in Scans(S), NEW row \in S, NEW max \in Int
  PROVE  Take(scan, row, max) \in Scans(S)
<1>1. PICK r \in Seq(S) : scan = Cut(r) \/ scan = Whole(r)
  BY Zenon DEF Scans
<1>2. Append(r, row) \in Seq(S) /\ (Len(r) >= max \/ Len(r) < max)
  OBVIOUS
<1>3. Take(scan, row, max) \in {Cut(r), Whole(Append(r, row))}
  BY <1>1, <1>2, TakeCases
<1> QED  BY <1>2, <1>3, Zenon DEF Scans

\* The loop of Capped, turn by turn.
CappedLoop(f, rows, kept, max, S) ==
  /\ f \in [0..Len(rows) -> Scans(S)]
  /\ f[0] = Scan
  /\ \A i \in 1..Len(rows) :
       f[i] = IF rows[i] \in kept THEN Take(f[i - 1], rows[i], max) ELSE f[i - 1]
  /\ Capped(rows, kept, max) = f[Len(rows)]

\* There is a function that goes through the turns.
LEMMA CappedTurns ==
  ASSUME NEW S, NEW rows \in Seq(S), NEW kept, NEW max \in Int
  PROVE  \E f : CappedLoop(f, rows, kept, max, S)
<1> DEFINE n == Len(rows)
           Turn(i, scan) == IF rows[i] \in kept THEN Take(scan, rows[i], max) ELSE scan
           step == [i \in 1..n |-> [scan \in Scans(S) |-> Turn(i, scan)]]
           Body(f) == [i \in 0..n |-> IF i = 0 THEN Scan
                                       ELSE IF rows[i] \in kept THEN Take(f[i - 1], rows[i], max)
                                       ELSE f[i - 1]]
<1>1. n \in Nat /\ Scan \in Scans(S)
  <2>1. Scan = Whole(<< >>) /\ << >> \in Seq(S)
    BY DEF Scan, Whole
  <2>2. Scan \in Scans(S)
    BY <2>1, Zenon DEF Scans
  <2> QED  BY <2>2
<1>2. step \in Steps(n, Scans(S))
  BY TakeScans DEF Steps
<1>3. PICK f \in [0..n -> Scans(S)] : Follows(f, n, Scan, step)
  <2> HIDE DEF step, n
  <2> QED  BY <1>1, <1>2, Recursion
<1>4. f[0] = Scan /\ \A i \in 1..n : f[i] = Turn(i, f[i - 1])
  <2>1. ASSUME NEW i \in 1..n PROVE f[i] = Turn(i, f[i - 1])
    <3>1. f[i - 1] \in Scans(S) /\ f[i] = step[i][f[i - 1]]
      BY <1>1, <1>3 DEF Follows
    <3>2. \A scan \in Scans(S) : step[i][scan] = Turn(i, scan)
      OBVIOUS
    <3> HIDE DEF step, Turn
    <3> QED  BY <3>1, <3>2, Zenon
  <2> QED  BY <1>3, <2>1 DEF Follows
<1>5. f = Body(f)
  BY <1>1, <1>3, <1>4
<1>6. ASSUME NEW g, g = Body(g) PROVE g = f
  <2> DEFINE h == Body(g)
  <2>1. DOMAIN h = 0..n /\ h[0] = Scan /\ \A i \in 1..n : h[i] = Turn(i, g[i - 1])
    BY <1>1
  <2>2. h = [i \in DOMAIN h |-> h[i]]
    OBVIOUS
  <2> HIDE DEF h, Turn
  <2>3. g = h
    BY <1>6 DEF h
  <2> DEFINE P == {i \in 0..n : h[i] = f[i]}
  <2>4. 0 \in P
    BY <1>1, <1>4, <2>1
  <2>5. ASSUME NEW i \in 1..n, i - 1 \in P PROVE i \in P
    BY <1>4, <2>1, <2>3, <2>5
  <2>6. \A i \in 0..n : i \in P
    <3> HIDE DEF P, n
    <3> QED  BY <2>4, <2>5, <1>1, Induction
  <2> QED  BY <1>3, <2>1, <2>2, <2>3, <2>6
<1>7. Capped(rows, kept, max) = f[n]
  <2> DEFINE h == CHOOSE g : g = Body(g)
  <2>1. h = f
    BY <1>5, <1>6
  <2>2. Capped(rows, kept, max) = h[n]
    BY DEF Capped
  <2> QED  BY <2>1, <2>2
<1> QED  BY <1>3, <1>4, <1>7 DEF CappedLoop

\* The same of the list without a limit.
ListAllLoop(f, rows, kept, S) ==
  /\ f \in [0..Len(rows) -> Seq(S)]
  /\ f[0] = << >>
  /\ \A i \in 1..Len(rows) :
       f[i] = IF rows[i] \in kept THEN Append(f[i - 1], rows[i]) ELSE f[i - 1]
  /\ ListAll(rows, kept) = f[Len(rows)]

\* There is a function that goes through the turns.
LEMMA ListAllTurns ==
  ASSUME NEW S, NEW rows \in Seq(S), NEW kept
  PROVE  \E f : ListAllLoop(f, rows, kept, S)
<1> DEFINE n == Len(rows)
           Turn(i, scan) == IF rows[i] \in kept THEN Append(scan, rows[i]) ELSE scan
           step == [i \in 1..n |-> [scan \in Seq(S) |-> Turn(i, scan)]]
           Body(f) == [i \in 0..n |-> IF i = 0 THEN << >>
                                       ELSE IF rows[i] \in kept THEN Append(f[i - 1], rows[i])
                                       ELSE f[i - 1]]
<1>1. n \in Nat /\ << >> \in Seq(S)
  OBVIOUS
<1>2. step \in Steps(n, Seq(S))
  BY DEF Steps
<1>3. PICK f \in [0..n -> Seq(S)] : Follows(f, n, << >>, step)
  <2> HIDE DEF step, n
  <2> QED  BY <1>1, <1>2, Recursion
<1>4. f[0] = << >> /\ \A i \in 1..n : f[i] = Turn(i, f[i - 1])
  <2>1. ASSUME NEW i \in 1..n PROVE f[i] = Turn(i, f[i - 1])
    <3>0. i - 1 \in 0..n /\ f[i] = step[i][f[i - 1]]
      <4>1. i - 1 \in 0..n
        BY <1>1
      <4>2. f[i] = step[i][f[i - 1]]
        BY <1>3, Zenon DEF Follows
      <4> QED  BY <4>1, <4>2
    <3>1. f[i - 1] \in Seq(S) /\ f[i] = step[i][f[i - 1]]
      BY <1>3, <3>0, Zenon
    <3>2. \A scan \in Seq(S) : step[i][scan] = Turn(i, scan)
      OBVIOUS
    <3> HIDE DEF step, Turn
    <3> QED  BY <3>1, <3>2, Zenon
  <2> QED  BY <1>3, <2>1 DEF Follows
<1>5. f = Body(f)
  <2> DEFINE h == Body(f)
  <2>1. DOMAIN h = 0..n /\ h = [i \in DOMAIN h |-> h[i]]
    BY Zenon
  <2>4. ASSUME NEW i \in 0..n PROVE h[i] = f[i]
    <3>1. CASE i = 0
      BY <3>1, <1>4
    <3>2. CASE i # 0
      <4>1. i \in 1..n
        BY <3>2, <1>1
      <4>2. f[i] = Turn(i, f[i - 1])
        BY <4>1, <1>4, Zenon
      <4> QED  BY <3>2, <4>2
    <3> QED  BY <3>1, <3>2
  <2>2. DOMAIN f = 0..n /\ f = [i \in DOMAIN f |-> f[i]]
    BY <1>3, Zenon
  <2> HIDE DEF h
  <2>3. f = h
    BY <2>1, <2>2, <2>4
  <2> QED  BY <2>3 DEF h
<1>6. ASSUME NEW g, g = Body(g) PROVE g = f
  <2> DEFINE h == Body(g)
  <2>1. DOMAIN h = 0..n /\ h[0] = << >> /\ \A i \in 1..n : h[i] = Turn(i, g[i - 1])
    BY <1>1
  <2>2. h = [i \in DOMAIN h |-> h[i]]
    OBVIOUS
  <2> HIDE DEF h, Turn
  <2>3. g = h
    BY <1>6 DEF h
  <2> DEFINE P == {i \in 0..n : h[i] = f[i]}
  <2>4. 0 \in P
    BY <1>1, <1>4, <2>1
  <2>5. ASSUME NEW i \in 1..n, i - 1 \in P PROVE i \in P
    BY <1>4, <2>1, <2>3, <2>5
  <2>6. \A i \in 0..n : i \in P
    <3> HIDE DEF P, n
    <3> QED  BY <2>4, <2>5, <1>1, Induction
  <2> QED  BY <1>3, <2>1, <2>2, <2>3, <2>6
<1>7. ListAll(rows, kept) = f[n]
  <2> DEFINE h == CHOOSE g : g = Body(g)
  <2>1. h = f
    BY <1>5, <1>6
  <2>2. ListAll(rows, kept) = h[n]
    BY DEF ListAll
  <2> QED  BY <2>1, <2>2
<1> QED  BY <1>3, <1>4, <1>7 DEF ListAllLoop

\* A list that is cut is shorter than the whole, agrees with it as far as it
\* goes, and goes as far as the limit.
IsCut(p, a, max) == /\ Len(p) < Len(a) /\ \A j \in 1..Len(p) : p[j] = a[j]
                    /\ Len(p) = IF max < 0 THEN 0 ELSE max

\* The scan has all rows that are kept so far, or the first ones and a mark.
LEMMA CappedCuts ==
  ASSUME NEW S, NEW rows \in Seq(S), NEW kept, NEW max \in Int
  PROVE  LET a == ListAll(rows, kept)
             scan == Capped(rows, kept, max)
         IN  /\ a \in Seq(S)
             /\ \/ scan = Whole(a)
                \/ \E p \in Seq(S) : scan = Cut(p) /\ IsCut(p, a, max)
<1> DEFINE n == Len(rows)
<1>8. PICK f : CappedLoop(f, rows, kept, max, S)
  BY CappedTurns, Zenon
<1>9. PICK g : ListAllLoop(g, rows, kept, S)
  BY ListAllTurns, Zenon
<1>1. /\ f \in [0..n -> Scans(S)] /\ f[0] = Scan
      /\ \A i \in 1..n :
           f[i] = IF rows[i] \in kept THEN Take(f[i - 1], rows[i], max) ELSE f[i - 1]
      /\ Capped(rows, kept, max) = f[n]
  BY <1>8, Zenon DEF CappedLoop
<1>2. /\ g \in [0..n -> Seq(S)] /\ g[0] = << >>
      /\ \A i \in 1..n :
           g[i] = IF rows[i] \in kept THEN Append(g[i - 1], rows[i]) ELSE g[i - 1]
      /\ ListAll(rows, kept) = g[n]
  BY <1>9, Zenon DEF ListAllLoop
<1> DEFINE Good(i) == \/ f[i] = Whole(g[i]) /\ (Len(g[i]) <= max \/ Len(g[i]) = 0)
                      \/ \E p \in Seq(S) : f[i] = Cut(p) /\ IsCut(p, g[i], max)
           P == {i \in 0..n : Good(i)}
<1>3. n \in Nat
  OBVIOUS
<1>4. 0 \in P
  BY <1>1, <1>2, <1>3 DEF Scan, Whole
<1>5. ASSUME NEW i \in 1..n, i - 1 \in P PROVE i \in P
  <2>1. g[i - 1] \in Seq(S) /\ rows[i] \in S /\ i - 1 \in 0..n /\ i \in 0..n
    <3>1. rows[i] \in S /\ i - 1 \in 0..n /\ i \in 0..n
      BY <1>3
    <3> QED  BY <1>2, <3>1
  <2>2. CASE rows[i] \notin kept
    <3>1. f[i] = f[i - 1] /\ g[i] = g[i - 1]
      BY <1>1, <1>2, <2>2
    <3> QED  BY <1>5, <3>1, <2>1
  <2>3. CASE rows[i] \in kept
    <3> DEFINE b == g[i - 1]
               c == Append(b, rows[i])
    <3>1. f[i] = Take(f[i - 1], rows[i], max) /\ g[i] = c
      BY <1>1, <1>2, <2>3
    <3>2. /\ b \in Seq(S) /\ c \in Seq(S) /\ Len(c) = Len(b) + 1 /\ Len(b) \in Nat
          /\ \A j \in 1..Len(b) : c[j] = b[j]
      BY <2>1
    <3>3. \/ f[i - 1] = Whole(b) /\ (Len(b) <= max \/ Len(b) = 0)
          \/ \E p \in Seq(S) : f[i - 1] = Cut(p) /\ IsCut(p, b, max)
      BY <1>5
    <3> HIDE DEF b, c
    <3>4. CASE f[i - 1] = Whole(b) /\ Len(b) < max
      <4>1. f[i] = Whole(c)
        BY <3>1, <3>2, <3>4, <2>1, TakeCases DEF c
      <4>2. Len(c) <= max
        BY <3>2, <3>4
      <4> QED  BY <3>1, <4>1, <4>2, <2>1
    <3>5. CASE f[i - 1] = Whole(b) /\ Len(b) >= max /\ (Len(b) <= max \/ Len(b) = 0)
      <4>1. f[i] = Cut(b)
        BY <3>1, <3>2, <3>5, <2>1, TakeCases
      <4>2. IsCut(b, c, max)
        BY <3>2, <3>5 DEF IsCut
      <4> QED  BY <3>1, <3>2, <4>1, <4>2, <2>1
    <3>6. CASE \E p \in Seq(S) : f[i - 1] = Cut(p) /\ IsCut(p, b, max)
      <4>1. PICK p \in Seq(S) : f[i - 1] = Cut(p) /\ IsCut(p, b, max)
        BY <3>6
      <4>2. f[i] = Cut(p)
        BY <3>1, <4>1, <2>1, TakeCases
      <4>3. Len(p) \in Nat /\ Len(p) < Len(b) /\ \A j \in 1..Len(p) : p[j] = b[j]
        BY <4>1 DEF IsCut
      <4>4. Len(p) < Len(c) /\ \A j \in 1..Len(p) : p[j] = c[j]
        <5>1. \A j \in 1..Len(p) : j \in 1..Len(b)
          BY <3>2, <4>3
        <5>2. \A j \in 1..Len(p) : p[j] = c[j]
          BY <3>2, <4>3, <5>1, Zenon
        <5>3. Len(p) < Len(c)
          BY <3>2, <4>3
        <5> QED  BY <5>2, <5>3
      <4>5. IsCut(p, c, max)
        <5>1. Len(p) = IF max < 0 THEN 0 ELSE max
          BY <4>1 DEF IsCut
        <5> QED  BY <4>4, <5>1 DEF IsCut
      <4> QED  BY <3>1, <4>2, <4>5, <2>1
    <3> QED  BY <3>2, <3>3, <3>4, <3>5, <3>6
  <2> QED  BY <2>2, <2>3
<1>6. n \in P
  <2> HIDE DEF P, n
  <2>1. \A i \in 0..n : i \in P
    BY <1>3, <1>4, <1>5, Induction
  <2> QED  BY <1>3, <2>1
<1> QED  BY <1>1, <1>2, <1>3, <1>6

\* A list of which every element is kept is kept whole.
LEMMA AllKept ==
  ASSUME NEW S, NEW rows \in Seq(S), NEW kept, \A i \in 1..Len(rows) : rows[i] \in kept
  PROVE  ListAll(rows, kept) = rows
<1> DEFINE n == Len(rows)
<1>7. PICK g : ListAllLoop(g, rows, kept, S)
  BY ListAllTurns, Zenon
<1>1. /\ g \in [0..n -> Seq(S)] /\ g[0] = << >>
      /\ \A i \in 1..n :
           g[i] = IF rows[i] \in kept THEN Append(g[i - 1], rows[i]) ELSE g[i - 1]
      /\ ListAll(rows, kept) = g[n]
  BY <1>7, Zenon DEF ListAllLoop
<1>2. n \in Nat /\ \A i \in 1..n : rows[i] \in S
  OBVIOUS
<1> DEFINE P == {i \in 0..n : Len(g[i]) = i /\ \A j \in 1..i : g[i][j] = rows[j]}
<1>3. 0 \in P
  BY <1>1, <1>2
<1>4. ASSUME NEW i \in 1..n, i - 1 \in P PROVE i \in P
  <2> DEFINE b == g[i - 1]
             c == Append(b, rows[i])
  <2>1. b \in Seq(S) /\ rows[i] \in S /\ i - 1 \in 0..n /\ i \in 0..n
    <3>1. rows[i] \in S /\ i - 1 \in 0..n /\ i \in 0..n
      BY <1>2
    <3> QED  BY <1>1, <3>1
  <2>2. Len(b) = i - 1 /\ \A j \in 1..(i - 1) : b[j] = rows[j]
    BY <1>4
  <2>3. g[i] = c
    BY <1>1
  <2> HIDE DEF b
  <2>4. Len(c) = i /\ \A j \in 1..i : c[j] = rows[j]
    BY <2>1, <2>2
  <2> HIDE DEF c
  <2> QED  BY <2>1, <2>3, <2>4
<1>5. n \in P
  <2> HIDE DEF P, n
  <2>1. \A i \in 0..n : i \in P
    BY <1>2, <1>3, <1>4, Induction
  <2> QED  BY <1>2, <2>1
<1>6. g[n] \in Seq(S) /\ Len(g[n]) = n /\ \A j \in 1..n : g[n][j] = rows[j]
  BY <1>1, <1>2, <1>5
<1> QED  BY <1>1, <1>6

\* What is cut, or whole, is a prefix.
LEMMA CutIsPrefix ==
  ASSUME NEW S, NEW p \in Seq(S), NEW a \in Seq(S), NEW max \in Int,
         p = a \/ IsCut(p, a, max)
  PROVE  IsPrefix(p, a) /\ Len(p) <= Len(a)
<1>1. Len(p) \in Nat /\ Len(a) \in Nat /\ Len(p) <= Len(a) /\ \A j \in 1..Len(p) : p[j] = a[j]
  BY DEF IsCut
<1>2. SubSeq(p, 1, Len(p)) = SubSeq(a, 1, Len(p))
  BY <1>1
<1> QED  BY <1>1, <1>2 DEF IsPrefix

\* What the answer of a listing has to be.
LEMMA ListingIsCut ==
  ASSUME NEW x \in Listings
  PROVE  LET S == ToSet(x.tables)
             all == ListAll(x.tables, x.allowed)
             upTo == ListUpTo(x.tables, x.allowed, x.max)
             scan == ScanRows(x.tables, x.max, x.fails)
         IN  /\ x.tables \in Seq(S) /\ x.max \in Int /\ all \in Seq(S)
             /\ \/ upTo = Whole(all)
                \/ \E p \in Seq(S) : upTo = Cut(p) /\ IsCut(p, all, x.max)
             /\ \/ scan.ok = FALSE /\ scan.rows = << >>
                \/ scan.ok = TRUE /\ scan.rows = x.tables /\ scan.truncated = FALSE
                \/ \E p \in Seq(S) : /\ scan.ok = TRUE /\ scan.rows = p /\ scan.truncated = TRUE
                                     /\ IsCut(p, x.tables, x.max)
<1> DEFINE S == ToSet(x.tables)
           rows == x.tables
           max == x.max
           limit == IF max < 0 THEN 0 ELSE max
           all == ListAll(rows, x.allowed)
           found == Capped(rows, x.allowed, limit)
           upTo == ListUpTo(rows, x.allowed, max)
           read == Capped(rows, S, max)
           scan == ScanRows(rows, max, x.fails)
<1>1. rows \in Seq(S) /\ max \in Int
  BY ListingsAssumption
<1>2. \A i \in 1..Len(rows) : rows[i] \in S
  BY <1>1
<1>3. limit \in Int /\ \A p, a : IsCut(p, a, limit) <=> IsCut(p, a, max)
  BY <1>1 DEF IsCut
<1> HIDE DEF S, rows, max, limit
<1>4. /\ all \in Seq(S)
      /\ found = Whole(all) \/ \E p \in Seq(S) : found = Cut(p) /\ IsCut(p, all, limit)
  BY <1>1, <1>3, CappedCuts
<1>5. upTo = found
  <2>1. upTo = [rows |-> found.rows, truncated |-> found.truncated]
    BY DEF ListUpTo, limit
  <2> QED  BY <2>1, <1>4 DEF Whole, Cut
<1>6. read = Whole(rows) \/ \E p \in Seq(S) : read = Cut(p) /\ IsCut(p, rows, max)
  <2>1. ListAll(rows, S) = rows
    BY <1>1, <1>2, AllKept
  <2> QED  BY <1>1, <2>1, CappedCuts
<1>7. scan = IF x.fails /\ ~read.truncated THEN [ok |-> FALSE, rows |-> << >>, truncated |-> FALSE]
             ELSE [ok |-> TRUE, rows |-> read.rows, truncated |-> read.truncated]
  BY Zenon DEF ScanRows, S, rows
<1>8. \/ scan.ok = FALSE /\ scan.rows = << >>
      \/ scan.ok = TRUE /\ scan.rows = rows /\ scan.truncated = FALSE
      \/ \E p \in Seq(S) : /\ scan.ok = TRUE /\ scan.rows = p /\ scan.truncated = TRUE
                           /\ IsCut(p, rows, max)
  BY <1>6, <1>7 DEF Whole, Cut
<1> QED  BY <1>1, <1>3, <1>4, <1>5, <1>8 DEF S, rows, max

\* ListIsAPrefix for every list, every whitelist and every limit: the tables
\* shown and the rows scanned are all there are, or the first of them, as many
\* as the limit allows, with a mark.
THEOREM ListsArePrefixes == Spec => []ListIsAPrefix
<1>1. Computed => ListIsAPrefix
  <2> SUFFICES ASSUME Computed, Answered("listing") PROVE ListIsAPrefix
    BY Zenon DEF ListIsAPrefix
  <2> DEFINE S == ToSet(input.tables)
             all == ListAll(input.tables, input.allowed)
             upTo == ListUpTo(input.tables, input.allowed, input.max)
             scan == ScanRows(input.tables, input.max, input.fails)
  <2>1. /\ input \in Listings /\ answer.all = all /\ answer.upTo = upTo /\ answer.scan = scan
    <3>1. input \in Listings /\ answer = [scan |-> scan, upTo |-> upTo, all |-> all]
      BY Zenon DEF Computed, Answered
    <3> HIDE DEF all, upTo, scan
    <3> QED  BY <3>1
  <2>2. /\ input.tables \in Seq(S) /\ input.max \in Int /\ all \in Seq(S)
        /\ \/ upTo = Whole(all)
           \/ \E p \in Seq(S) : upTo = Cut(p) /\ IsCut(p, all, input.max)
        /\ \/ scan.ok = FALSE /\ scan.rows = << >>
           \/ scan.ok = TRUE /\ scan.rows = input.tables /\ scan.truncated = FALSE
           \/ \E p \in Seq(S) : /\ scan.ok = TRUE /\ scan.rows = p /\ scan.truncated = TRUE
                                /\ IsCut(p, input.tables, input.max)
    BY <2>1, ListingIsCut
  <2> HIDE DEF S, all, upTo, scan
  <2> DEFINE cap == IF input.max < 0 THEN 0 ELSE input.max
             Right(shown, list) ==
               /\ IsPrefix(shown.rows, list)
               /\ shown.truncated <=> Len(shown.rows) < Len(list)
               /\ shown.truncated => Len(shown.rows) = cap
  <2>3. Right(upTo, all)
    <3>1. CASE upTo = Whole(all)
      <4>1. upTo.rows = all /\ upTo.truncated = FALSE
        BY <3>1 DEF Whole
      <4>2. IsPrefix(all, all) /\ ~(Len(all) < Len(all))
        BY <2>2, CutIsPrefix
      <4> QED  BY <4>1, <4>2, Zenon
    <3>2. ASSUME NEW p \in Seq(S), upTo = Cut(p), IsCut(p, all, input.max)
          PROVE  Right(upTo, all)
      <4>1. upTo.rows = p /\ upTo.truncated = TRUE
        BY <3>2 DEF Cut
      <4>2. IsPrefix(p, all) /\ Len(p) < Len(all) /\ Len(p) = cap
        BY <2>2, <3>2, CutIsPrefix DEF IsCut
      <4> QED  BY <4>1, <4>2, Zenon
    <3> QED  BY <2>2, <3>1, <3>2
  <2>4. IF scan.ok THEN Right(scan, input.tables) ELSE scan.rows = << >>
    <3>1. CASE scan.ok = FALSE /\ scan.rows = << >>
      BY <3>1, Zenon
    <3>2. CASE scan.ok = TRUE /\ scan.rows = input.tables /\ scan.truncated = FALSE
      <4>1. IsPrefix(input.tables, input.tables) /\ ~(Len(input.tables) < Len(input.tables))
        BY <2>2, CutIsPrefix
      <4> QED  BY <3>2, <4>1, Zenon
    <3>3. ASSUME NEW p \in Seq(S), scan.ok = TRUE, scan.rows = p, scan.truncated = TRUE,
                 IsCut(p, input.tables, input.max)
          PROVE  Right(scan, input.tables)
      <4>1. IsPrefix(p, input.tables) /\ Len(p) < Len(input.tables) /\ Len(p) = cap
        BY <2>2, <3>3, CutIsPrefix DEF IsCut
      <4> QED  BY <3>3, <4>1, Zenon
    <3> QED  BY <2>2, <3>1, <3>2, <3>3
  <2> QED  BY <2>1, <2>3, <2>4, Zenon DEF ListIsAPrefix
<1> QED  BY <1>1, ComputedAlways, PTL

-----------------------------------------------------------------------------
\* A set of numbers with a bound has a greatest.
LEMMA MaxOfUpto ==
  ASSUME NEW k \in Nat, NEW S \in SUBSET (1..k), S # {}
  PROVE  Max(S) \in S /\ \A y \in S : y <= Max(S)
<1> DEFINE T == {t \in 0..k : k - t \in S}
<1>1. \A y \in S : k - y \in T
  <2> TAKE y \in S
  <2>1. k - y \in 0..k /\ k - (k - y) = y
    OBVIOUS
  <2> QED  BY <2>1
<1>2. PICK t \in T : \A u \in T : t <= u
  <2>1. T \in SUBSET Nat /\ T # {}
    <3>1. PICK y : y \in S
      BY Zenon
    <3>2. k - y \in T
      BY <1>1, <3>1
    <3> QED  BY <3>2
  <2> HIDE DEF T
  <2> QED  BY <2>1, LeastNumber
<1>3. PICK x \in S : x = k - t
  OBVIOUS
<1>4. \A y \in S : x >= y
  <2> TAKE y \in S
  <2>1. t <= k - y /\ t \in 0..k /\ y \in 1..k
    BY <1>1, <1>2
  <2> QED  BY <1>3, <2>1
<1>5. \E z \in S : \A y \in S : z >= y
  BY <1>4
<1>6. Max(S) \in S /\ \A y \in S : Max(S) >= y
  BY <1>5, Zenon DEF Max
<1> QED  BY <1>6

\* The last of the nodes of S, or 0.
Top(S, x) == IF S = {} THEN x = 0 ELSE x \in S /\ \A p \in S : p <= x

\* How the set of open nodes grows and shrinks along a walk.
LEMMA OpenSteps ==
  ASSUME NEW w \in Walks
  PROVE  /\ Len(w) \in Nat /\ Open(w, 0) = {} /\ Open(w, Len(w)) = {}
         /\ \A k \in 0..Len(w) : Open(w, k) \subseteq 1..k /\ \A p \in Open(w, k) : w[p].enter
         /\ \A k \in 1..Len(w) : w[k].enter =>
              Open(w, k) = Open(w, k - 1) \cup {k} /\ Top(Open(w, k - 1), Around(w, k))
         /\ \A k \in 1..Len(w) : ~w[k].enter =>
              /\ w[k].at \in Open(w, k - 1) /\ \A p \in Open(w, k - 1) : p <= w[k].at
              /\ Open(w, k) = Open(w, k - 1) \ {w[k].at}
              /\ w[k].node = w[w[k].at].node
<1> DEFINE n == Len(w)
<1>1. w \in Seq(Calls) /\ WellNested(w) /\ n \in Nat
  BY WalksAssumption
<1>2. ASSUME NEW k \in 0..n
      PROVE  /\ Open(w, k) \subseteq 1..k
             /\ Top(Open(w, k), Innermost(w, k))
             /\ \A p \in Open(w, k) : w[p].enter
  <2>1. Open(w, k) \subseteq 1..k /\ \A p \in Open(w, k) : w[p].enter
    BY Zenon DEF Open
  <2>2. CASE Open(w, k) = {}
    BY <2>1, <2>2, Zenon DEF Top, Innermost
  <2>3. CASE Open(w, k) # {}
    <3>1. k \in Nat
      BY <1>1
    <3>2. Max(Open(w, k)) \in Open(w, k) /\ \A y \in Open(w, k) : y <= Max(Open(w, k))
      BY <2>1, <2>3, <3>1, MaxOfUpto
    <3> QED  BY <2>1, <2>3, <3>2, Zenon DEF Top, Innermost
  <2> QED  BY <2>2, <2>3
<1>3. Open(w, 0) = {}
  BY <1>1, <1>2
<1>4. Open(w, n) = {}
  <2>1. Innermost(w, n) = 0
    BY <1>1, Zenon DEF WellNested
  <2>2. n \in 0..n
    BY <1>1
  <2> QED  BY <1>2, <2>1, <2>2 DEF Top
<1>5. ASSUME NEW k \in 1..n, w[k].enter
      PROVE  Open(w, k) = Open(w, k - 1) \cup {k} /\ Top(Open(w, k - 1), Around(w, k))
  <2>1. Around(w, k) = Innermost(w, k - 1)
    BY <1>1, <1>5, Zenon DEF WellNested
  <2>2. k - 1 \in 0..n
    BY <1>1
  <2>3. Open(w, k) = Open(w, k - 1) \cup {k}
    BY <1>1, <1>5 DEF Open
  <2> QED  BY <1>2, <2>1, <2>2, <2>3
<1>6. ASSUME NEW k \in 1..n, ~w[k].enter
      PROVE  /\ w[k].at \in Open(w, k - 1) /\ \A p \in Open(w, k - 1) : p <= w[k].at
             /\ Open(w, k) = Open(w, k - 1) \ {w[k].at}
             /\ w[k].node = w[w[k].at].node
  <2>1. w[k].at = Innermost(w, k - 1) /\ w[k].at # 0 /\ w[k].node = w[w[k].at].node
    BY <1>1, <1>6, Zenon DEF WellNested
  <2>2. k - 1 \in 0..n
    BY <1>1
  <2>3. Open(w, k) = Open(w, k - 1) \ {w[k].at}
    BY <1>1, <1>6 DEF Open
  <2> QED  BY <1>2, <2>1, <2>2, <2>3 DEF Top
<1> QED  BY <1>1, <1>2, <1>3, <1>4, <1>5, <1>6

\* The open nodes are a chain: the node around an open one is open, and is the
\* last of those that were opened before.
LEMMA Chained ==
  ASSUME NEW w \in Walks
  PROVE  \A k \in 0..Len(w) : \A x \in Open(w, k) :
           /\ Around(w, x) = 0 \/ Around(w, x) \in Open(w, k)
           /\ Around(w, x) \in 0..(x - 1)
           /\ \A y \in Open(w, k) : y < x => y <= Around(w, x)
<1> DEFINE n == Len(w)
           O(k) == Open(w, k)
           A(p) == Around(w, p)
           Chain(k) == \A x \in O(k) : /\ A(x) = 0 \/ A(x) \in O(k)
                                       /\ A(x) \in 0..(x - 1)
                                       /\ \A y \in O(k) : y < x => y <= A(x)
           P == {k \in 0..n : Chain(k)}
<1>1. /\ n \in Nat /\ O(0) = {}
      /\ \A k \in 0..n : O(k) \subseteq 1..k
      /\ \A k \in 1..n : w[k].enter => O(k) = O(k - 1) \cup {k} /\ Top(O(k - 1), A(k))
      /\ \A k \in 1..n : ~w[k].enter =>
           /\ w[k].at \in O(k - 1) /\ \A p \in O(k - 1) : p <= w[k].at
           /\ O(k) = O(k - 1) \ {w[k].at}
  BY OpenSteps
<1>2. 0 \in P
  BY <1>1
<1>3. ASSUME NEW k \in 1..n, k - 1 \in P PROVE k \in P
  <2>1. Chain(k - 1) /\ O(k - 1) \subseteq 1..(k - 1)
    BY <1>1, <1>3
  <2> HIDE DEF O, A
  <2>2. CASE w[k].enter
    <3>1. O(k) = O(k - 1) \cup {k} /\ Top(O(k - 1), A(k))
      BY <1>1, <2>2
    <3>2. A(k) \in 0..(k - 1) /\ (A(k) = 0 \/ A(k) \in O(k - 1)) /\ \A y \in O(k - 1) : y <= A(k)
      BY <2>1, <3>1 DEF Top
    <3> QED  BY <1>1, <2>1, <3>1, <3>2
  <2>3. CASE ~w[k].enter
    <3>1. /\ w[k].at \in O(k - 1) /\ \A p \in O(k - 1) : p <= w[k].at
          /\ O(k) = O(k - 1) \ {w[k].at}
      BY <1>1, <2>3
    <3> QED  BY <1>1, <2>1, <3>1
  <2> QED  BY <2>2, <2>3
<1>4. \A k \in 0..n : k \in P
  <2> HIDE DEF P, n
  <2> QED  BY <1>1, <1>2, <1>3, Induction
<1> QED  BY <1>4

\* A node that is open was open ever since it was entered.
LEMMA OpenSince ==
  ASSUME NEW w \in Walks, NEW k \in 0..Len(w), NEW j \in 0..k,
         NEW p \in Open(w, k), p <= j
  PROVE  p \in Open(w, j)
<1>1. Len(w) \in Nat /\ Open(w, k) \subseteq 1..k
  BY OpenSteps
<1> QED  BY <1>1 DEF Open

\* Where an expression stands: in a WITH clause, at the head of a block.
LEMMA Expressions ==
  ASSUME NEW w \in Walks, NEW m \in Entered(w, "cte")
  PROVE  LET v == Around(w, m)
         IN  /\ m \in 1..Len(w) /\ v \in Entered(w, "with") /\ v \in 1..(m - 1)
             /\ v \in Open(w, m - 1) /\ \A y \in Open(w, m - 1) : y <= v
             /\ Around(w, v) = v - 1 /\ v - 1 \in Entered(w, "block") /\ v - 1 \in 1..Len(w)
<1> DEFINE v == Around(w, m)
<1>1. WellNested(w) /\ m \in 1..Len(w) /\ w[m].enter /\ w[m].node.kind = "cte"
  BY WalksAssumption DEF Entered
<1>2. v \in Entered(w, "with")
  BY <1>1, Zenon DEF WellNested
<1>3. Around(w, v) = v - 1 /\ v - 1 \in Entered(w, "block")
  BY <1>1, <1>2, Zenon DEF WellNested
<1>4. v \in 1..Len(w) /\ v - 1 \in 1..Len(w)
  BY <1>2, <1>3 DEF Entered
<1>5. Len(w) \in Nat /\ Top(Open(w, m - 1), v) /\ Open(w, m - 1) \subseteq 1..(m - 1)
  <2>1. m - 1 \in 0..Len(w)
    BY <1>1
  <2> QED  BY <1>1, <2>1, OpenSteps
<1> QED  BY <1>1, <1>2, <1>3, <1>4, <1>5 DEF Top

\* The expressions that the visitor has taken into a scope after k calls.
Added(w, m, k) == m <= k /\ (w[Around(w, m)].node.recursive \/ m \notin Open(w, k))

\* The block at whose head the WITH clause of an expression stands.
BlockOf(w, m) == Around(w, Around(w, m))

\* At a table, the expressions that MySQL sees are those in an open scope.
LEMMA VisibleIsAdded ==
  ASSUME NEW w \in Walks, NEW k \in Entered(w, "table"), NEW m \in Entered(w, "cte")
  PROVE  Visible(w, m, k) <=> BlockOf(w, m) \in Open(w, k - 1) /\ Added(w, m, k - 1)
<1> DEFINE n == Len(w)
           v == Around(w, m)
           O(i) == Open(w, i)
<1>1. /\ n \in Nat /\ k \in 1..n /\ w[k].enter /\ w[k].node.kind = "table"
      /\ k - 1 \in 0..n /\ O(k - 1) \subseteq 1..(k - 1)
      /\ O(k) = O(k - 1) \cup {k} /\ Top(O(k - 1), Around(w, k))
  <2>1. n \in Nat /\ k \in 1..n /\ w[k].enter /\ w[k].node.kind = "table"
    BY OpenSteps DEF Entered
  <2>2. k - 1 \in 0..n
    BY <2>1
  <2> QED  BY <2>1, <2>2, OpenSteps
<1>2. /\ m \in 1..n /\ v \in Entered(w, "with") /\ v \in 1..(m - 1) /\ v \in O(m - 1)
      /\ \A y \in O(m - 1) : y <= v
      /\ Around(w, v) = v - 1 /\ v - 1 \in Entered(w, "block") /\ v - 1 \in 1..n
  BY Expressions
<1>3. k # m /\ k # v /\ k # v - 1
  BY <1>1, <1>2 DEF Entered
<1>4. \A x \in O(k - 1) : /\ Around(w, x) = 0 \/ Around(w, x) \in O(k - 1)
                          /\ Around(w, x) \in 0..(x - 1)
                          /\ \A y \in O(k - 1) : y < x => y <= Around(w, x)
  BY <1>1, Chained
<1>5. \A x \in O(k - 1) : x \in 1..n /\ w[x].enter
  BY <1>1, OpenSteps
<1>6. \A x \in O(k - 1) : x <= m - 1 /\ m - 1 <= k - 1 => x \in O(m - 1)
  BY <1>1, <1>2, OpenSince
<1>7. \A x \in 1..n : w[x].enter /\ Around(w, x) = v => x \in Entered(w, "cte")
  <2>1. WellNested(w)
    BY WalksAssumption
  <2>2. \A x \in 1..n : w[x].enter => (w[x].node.kind = "cte" <=> Around(w, x) \in Entered(w, "with"))
    BY <2>1, Zenon DEF WellNested
  <2> QED  BY <1>2, <2>2, Zenon DEF Entered
<1>8. Around(w, k) # v
  BY <1>1, <1>7 DEF Entered
<1> DEFINE Body(c) == Around(w, c) = v /\ (m < c \/ (m = c /\ w[v].node.recursive))
<1>9. Visible(w, m, k) <=> v - 1 \in O(k) /\ (v \in O(k) => \E c \in O(k) : Body(c))
  BY <1>2, Zenon DEF Visible
<1>10. Visible(w, m, k) <=>
         v - 1 \in O(k - 1) /\ (v \in O(k - 1) => \E c \in O(k - 1) : Body(c))
  BY <1>1, <1>3, <1>8, <1>9
<1> HIDE DEF O, v, n
<1>11. ASSUME v - 1 \in O(k - 1), Added(w, m, k - 1), v \in O(k - 1)
       PROVE  \E c \in O(k - 1) : Body(c)
  <2> DEFINE C == {x \in O(k - 1) : x > v}
  <2>1. Around(w, k) \in C
    BY <1>1, <1>8, <1>11 DEF Top
  <2>2. PICK c \in C : \A x \in C : c <= x
    <3>1. C \in SUBSET Nat /\ C # {}
      BY <1>1, <2>1
    <3> HIDE DEF C
    <3> QED  BY <3>1, LeastNumber
  <2>3. Around(w, c) = v
    <3>1. v <= Around(w, c) /\ Around(w, c) < c /\ Around(w, c) \in O(k - 1)
      BY <1>1, <1>2, <1>4, <1>11, <2>2
    <3> QED  BY <1>1, <1>2, <2>2, <3>1
  <2>4. m <= k - 1 /\ (w[v].node.recursive \/ m \notin O(k - 1))
    BY <1>11, Zenon DEF Added, v, O
  <2>5. CASE m \in O(k - 1)
    <3>1. m \in C /\ (c < m => c <= v)
      <4>1. Around(w, m) = v
        BY DEF v
      <4> QED  BY <1>2, <1>4, <2>2, <2>5, <4>1
    <3>2. m = c
      BY <1>1, <1>2, <2>2, <3>1
    <3> QED  BY <2>2, <2>3, <2>4, <2>5, <3>2
  <2>6. CASE m \notin O(k - 1)
    <3>1. c <= m - 1 => c <= v
      BY <1>2, <1>6, <2>2, <2>4, <2>6
    <3>2. m < c
      BY <1>1, <1>2, <2>2, <2>6, <3>1
    <3> QED  BY <2>2, <2>3, <3>2
  <2> QED  BY <2>5, <2>6
<1>12. ASSUME v - 1 \in O(k - 1), v \in O(k - 1), NEW c \in O(k - 1), Body(c)
       PROVE  Added(w, m, k - 1)
  <2>1. m <= k - 1
    BY <1>1, <1>2, <1>12
  <2>2. CASE m = c /\ w[v].node.recursive
    BY <2>1, <2>2, Zenon DEF Added, v
  <2>3. CASE m < c /\ Around(w, c) = v
    <3>1. m \notin O(k - 1)
      BY <1>1, <1>2, <1>4, <1>12, <2>3
    <3> QED  BY <2>1, <3>1, Zenon DEF Added, O
  <2> QED  BY <1>12, <2>2, <2>3
<1>13. ASSUME v - 1 \in O(k - 1), v \notin O(k - 1)
       PROVE  Added(w, m, k - 1)
  <2>1. m \notin O(k - 1)
    <3>1. Around(w, m) = v
      BY DEF v
    <3> QED  BY <1>2, <1>4, <1>13, <3>1
  <2>2. m <= k - 1
    <3>1. SUFFICES ASSUME m > k - 1 PROVE FALSE
      BY <1>1, <1>2
    <3>2. k - 1 \in 0..(m - 1) /\ v <= k - 1 /\ m - 1 \in 0..n
      BY <1>1, <1>2, <1>3, <1>13, <3>1
    <3>3. v \in O(k - 1)
      BY <1>2, <3>2, OpenSince DEF O, n
    <3> QED  BY <1>13, <3>3
  <2> QED  BY <2>1, <2>2, Zenon DEF Added, O
<1> QED
  <2>1. BlockOf(w, m) = v - 1
    BY <1>2 DEF BlockOf, v
  <2> HIDE DEF Body
  <2>2. BlockOf(w, m) \in Open(w, k - 1) <=> v - 1 \in O(k - 1)
    BY <2>1 DEF O
  <2> QED  BY <1>10, <1>11, <1>12, <1>13, <2>2, Zenon

-----------------------------------------------------------------------------
\* The visitor, by its three fields.
Coll(sc, rc, tb) == [scopes |-> sc, recursive |-> rc, tables |-> tb]

\* Its fields, and what it is with one of them replaced.
LEMMA CollFields ==
  ASSUME NEW sc, NEW rc, NEW tb, NEW c, c = Coll(sc, rc, tb)
  PROVE  /\ c.scopes = sc /\ c.recursive = rc /\ c.tables = tb
         /\ \A x : [c EXCEPT !.scopes = x] = Coll(x, rc, tb)
         /\ \A x : [c EXCEPT !.recursive = x] = Coll(sc, x, tb)
         /\ \A x : [c EXCEPT !.tables = x] = Coll(sc, rc, x)
<1>1. c.scopes = sc /\ c.recursive = rc /\ c.tables = tb
  BY DEF Coll
<1>2. \A x : [c EXCEPT !.scopes = x] = Coll(x, rc, tb)
  BY DEF Coll
<1>3. \A x : [c EXCEPT !.recursive = x] = Coll(sc, x, tb)
  BY DEF Coll
<1>4. \A x : [c EXCEPT !.tables = x] = Coll(sc, rc, x)
  BY DEF Coll
<1> QED  BY <1>1, <1>2, <1>3, <1>4

\* What each operation does to the visitor's three fields.
LEMMA StackOperations ==
  ASSUME NEW sc, NEW rc, NEW tb, NEW c, c = Coll(sc, rc, tb)
  PROVE  /\ PushScope(c) = Coll(Append(sc, {}), rc, tb)
         /\ PopScope(c) = Coll(Front(sc), rc, tb)
         /\ LeaveWith(c) = IF rc = << >> THEN c ELSE Coll(sc, Front(rc), tb)
         /\ CurRecursive(c) <=> rc # << >> /\ rc[Len(rc)]
<1>0. /\ c.scopes = sc /\ c.recursive = rc /\ c.tables = tb
      /\ \A x : [c EXCEPT !.scopes = x] = Coll(x, rc, tb)
      /\ \A x : [c EXCEPT !.recursive = x] = Coll(sc, x, tb)
      /\ \A x : [c EXCEPT !.tables = x] = Coll(sc, rc, x)
  BY CollFields
<1>1. PushScope(c) = Coll(Append(sc, {}), rc, tb)
  BY <1>0, Zenon DEF PushScope
<1>2. PopScope(c) = Coll(Front(sc), rc, tb)
  BY <1>0, Zenon DEF PopScope
<1>3. LeaveWith(c) = IF rc = << >> THEN c ELSE Coll(sc, Front(rc), tb)
  BY <1>0, Zenon DEF LeaveWith
<1>4. CurRecursive(c) <=> rc # << >> /\ rc[Len(rc)]
  BY <1>0, Zenon DEF CurRecursive, Last
<1> QED  BY <1>1, <1>2, <1>3, <1>4

\* Enter of a WITH clause appends its flag.
LEMMA EnterWithOf ==
  ASSUME NEW sc, NEW rc, NEW tb, NEW node
  PROVE  EnterWith(Coll(sc, rc, tb), node) = Coll(sc, Append(rc, node.recursive), tb)
<1> DEFINE c == Coll(sc, rc, tb)
<1>0. /\ c.scopes = sc /\ c.recursive = rc /\ c.tables = tb
      /\ \A x : [c EXCEPT !.scopes = x] = Coll(x, rc, tb)
      /\ \A x : [c EXCEPT !.recursive = x] = Coll(sc, x, tb)
      /\ \A x : [c EXCEPT !.tables = x] = Coll(sc, rc, x)
  BY CollFields
<1> HIDE DEF c
<1>1. EnterWith(c, node) = Coll(sc, Append(rc, node.recursive), tb)
  BY <1>0, Zenon DEF EnterWith
<1> QED  BY <1>1 DEF c

\* An expression is added to the innermost scope, if there is one.
LEMMA AddCTEOf ==
  ASSUME NEW sc, NEW rc, NEW tb, NEW name
  PROVE  AddCTE(Coll(sc, rc, tb), name) =
           IF sc = << >> THEN Coll(sc, rc, tb)
           ELSE Coll([sc EXCEPT ![Len(sc)] = @ \cup {name}], rc, tb)
<1> DEFINE c == Coll(sc, rc, tb)
<1>0. /\ c.scopes = sc /\ c.recursive = rc /\ c.tables = tb
      /\ \A x : [c EXCEPT !.scopes = x] = Coll(x, rc, tb)
      /\ \A x : [c EXCEPT !.recursive = x] = Coll(sc, x, tb)
      /\ \A x : [c EXCEPT !.tables = x] = Coll(sc, rc, x)
  BY CollFields
<1> HIDE DEF c
<1>1. AddCTE(c, name) = IF sc = << >> THEN c
                        ELSE Coll([sc EXCEPT ![Len(sc)] = @ \cup {name}], rc, tb)
  BY <1>0, Zenon DEF AddCTE
<1> QED  BY <1>1 DEF c

\* A table name that stands for an expression in scope.
Bare(sc, node) == node.db = "" /\ \E i \in 1..Len(sc) : Lower[node.name] \in sc[i]

\* Any other is a table.
LEMMA EnterTableOf ==
  ASSUME NEW sc, NEW rc, NEW tb, NEW node
  PROVE  EnterTable(Coll(sc, rc, tb), node) =
           IF Bare(sc, node) THEN Coll(sc, rc, tb)
           ELSE Coll(sc, rc, tb \cup {Resolve(node)})
<1> DEFINE c == Coll(sc, rc, tb)
<1>0. /\ c.scopes = sc /\ c.recursive = rc /\ c.tables = tb
      /\ \A x : [c EXCEPT !.scopes = x] = Coll(x, rc, tb)
      /\ \A x : [c EXCEPT !.recursive = x] = Coll(sc, x, tb)
      /\ \A x : [c EXCEPT !.tables = x] = Coll(sc, rc, x)
  BY CollFields
<1> HIDE DEF c
<1>1. EnterTable(c, node) =
        IF Bare(sc, node) THEN c
        ELSE Coll(sc, rc, tb \cup {Resolve(node)})
  BY <1>0, Zenon DEF EnterTable, InScope, Bare
<1> QED  BY <1>1 DEF c

\* A stack of places: the members of S, in the order they were entered.
Stack(b, S) == /\ b \in Seq(Nat)
               /\ \A i \in 1..Len(b) : b[i] \in S
               /\ \A p \in S : \E i \in 1..Len(b) : b[i] = p
               /\ \A i, j \in 1..Len(b) : i < j => b[i] < b[j]

\* Entering a node pushes its place.
LEMMA StackPush ==
  ASSUME NEW S, NEW b, Stack(b, S), NEW x \in Nat, \A p \in S : p < x
  PROVE  Stack(Append(b, x), S \cup {x})
<1> DEFINE d == Append(b, x)
<1>1. /\ d \in Seq(Nat) /\ Len(d) = Len(b) + 1 /\ Len(b) \in Nat /\ d[Len(d)] = x
      /\ \A i \in 1..Len(b) : d[i] = b[i]
  BY DEF Stack
<1> HIDE DEF d
<1>2. \A i \in 1..Len(d) : i = Len(d) \/ i \in 1..Len(b)
  BY <1>1
<1>3. \A i \in 1..Len(d) : d[i] \in S \cup {x}
  BY <1>1, <1>2 DEF Stack
<1>4. ASSUME NEW p \in S \cup {x} PROVE \E i \in 1..Len(d) : d[i] = p
  <2>1. CASE p = x
    BY <1>1, <2>1
  <2>2. CASE p \in S
    <3>1. PICK i \in 1..Len(b) : b[i] = p
      BY <2>2 DEF Stack
    <3> QED  BY <1>1, <3>1
  <2> QED  BY <2>1, <2>2
<1>5. ASSUME NEW i \in 1..Len(d), NEW j \in 1..Len(d), i < j PROVE d[i] < d[j]
  <2>1. i \in 1..Len(b) /\ d[i] = b[i] /\ b[i] \in S
    BY <1>1, <1>5 DEF Stack
  <2>2. CASE j = Len(d)
    BY <1>1, <2>1, <2>2
  <2>3. CASE j \in 1..Len(b)
    BY <1>1, <1>5, <2>1, <2>3 DEF Stack
  <2> QED  BY <1>2, <2>2, <2>3
<1>6. Stack(d, S \cup {x})
  BY <1>1, <1>3, <1>4, <1>5 DEF Stack
<1> QED  BY <1>6 DEF d

\* The innermost open node is on top, and only there.
LEMMA StackTop ==
  ASSUME NEW S, NEW b, Stack(b, S), NEW x \in S, \A p \in S : p <= x
  PROVE  /\ Len(b) \in Nat \ {0} /\ b[Len(b)] = x
         /\ \A i \in 1..(Len(b) - 1) : b[i] # x
<1>1. PICK i \in 1..Len(b) : b[i] = x
  BY DEF Stack
<1>2. Len(b) \in Nat /\ Len(b) \in 1..Len(b) /\ b[Len(b)] \in S /\ b[Len(b)] \in Nat /\ x \in Nat
  BY <1>1 DEF Stack
<1>3. i = Len(b)
  <2> SUFFICES ASSUME i < Len(b) PROVE FALSE
    BY <1>2
  <2>1. b[i] < b[Len(b)]
    BY <1>2, Zenon DEF Stack
  <2>2. b[Len(b)] <= x
    BY <1>2
  <2> QED  BY <1>1, <1>2, <2>1, <2>2
<1>4. ASSUME NEW j \in 1..(Len(b) - 1) PROVE b[j] # x
  <2>1. j \in 1..Len(b) /\ j < Len(b)
    BY <1>2
  <2>2. b[j] < b[Len(b)]
    BY <1>2, <2>1, Zenon DEF Stack
  <2>3. b[j] \in Nat
    BY <2>1 DEF Stack
  <2> QED  BY <1>1, <1>2, <1>3, <2>2
<1> QED  BY <1>1, <1>2, <1>3, <1>4

\* Leaving it pops its place.
LEMMA StackPop ==
  ASSUME NEW S, NEW b, Stack(b, S), NEW x \in S, \A p \in S : p <= x
  PROVE  Stack(Front(b), S \ {x}) /\ Len(Front(b)) = Len(b) - 1
         /\ \A i \in 1..(Len(b) - 1) : Front(b)[i] = b[i]
<1> DEFINE d == Front(b)
<1>1. /\ Len(b) \in Nat \ {0} /\ b[Len(b)] = x
      /\ \A i \in 1..(Len(b) - 1) : b[i] # x
  BY StackTop
<1>2. /\ d \in Seq(Nat) /\ Len(d) = Len(b) - 1
      /\ \A i \in 1..(Len(b) - 1) : d[i] = b[i]
  <2> DEFINE m == Len(b) - 1
             e == SubSeq(b, 1, m)
  <2>1. b \in Seq(Nat) /\ m \in Nat /\ m <= Len(b)
    BY <1>1 DEF Stack
  <2>2. e \in Seq(Nat) /\ Len(e) = m /\ \A i \in 1..m : e[i] = b[i]
    <3> HIDE DEF m
    <3> QED  BY <2>1
  <2>3. d = e
    BY Zenon DEF Front
  <2> HIDE DEF d, e
  <2> QED  BY <2>2, <2>3
<1> HIDE DEF d
<1>3. \A i \in 1..Len(d) : d[i] \in S \ {x}
  <2> TAKE i \in 1..Len(d)
  <2>1. i \in 1..Len(b) /\ i \in 1..(Len(b) - 1)
    BY <1>1, <1>2
  <2>2. b[i] \in S
    BY <2>1, Zenon DEF Stack
  <2> QED  BY <1>1, <1>2, <2>1, <2>2
<1>4. ASSUME NEW p \in S \ {x} PROVE \E i \in 1..Len(d) : d[i] = p
  <2>1. PICK i \in 1..Len(b) : b[i] = p
    BY DEF Stack
  <2>2. i \in 1..Len(d)
    BY <1>1, <1>2, <2>1
  <2> QED  BY <1>2, <2>1, <2>2
<1>5. ASSUME NEW i \in 1..Len(d), NEW j \in 1..Len(d), i < j PROVE d[i] < d[j]
  <2>1. i \in 1..Len(b) /\ j \in 1..Len(b) /\ d[i] = b[i] /\ d[j] = b[j]
    BY <1>1, <1>2
  <2> QED  BY <1>5, <2>1 DEF Stack
<1>6. Stack(d, S \ {x})
  BY <1>2, <1>3, <1>4, <1>5 DEF Stack
<1> QED  BY <1>2, <1>6 DEF d

\* What a function says of each entry of a stack.
Images(b, G) == [i \in 1..Len(b) |-> G[b[i]]]

\* It is a sequence as long as the stack.
LEMMA ImagesOf ==
  ASSUME NEW b \in Seq(Nat), NEW G
  PROVE  /\ Images(b, G) \in Seq({G[y] : y \in Nat})
         /\ Len(Images(b, G)) = Len(b) /\ Len(b) \in Nat
         /\ \A i \in 1..Len(b) : Images(b, G)[i] = G[b[i]]
<1> DEFINE T == {G[y] : y \in Nat}
           n == Len(b)
           g == [i \in 1..n |-> G[b[i]]]
<1>1. n \in Nat /\ \A i \in 1..n : G[b[i]] \in T
  OBVIOUS
<1>2. \A i \in 1..n : g[i] = G[b[i]]
  OBVIOUS
<1> HIDE DEF T, n
<1>3. g \in [1..n -> T]
  BY <1>1
<1>5. \A i \in 1..n : g[i] = G[b[i]]
  OBVIOUS
<1> HIDE DEF g
<1>4. g \in Seq(T) /\ Len(g) = n
  BY <1>1, <1>3
<1> QED  BY <1>1, <1>4, <1>5 DEF Images, T, n, g

\* A push on the stack is a push on its images.
LEMMA ImagesAppend ==
  ASSUME NEW b \in Seq(Nat), NEW x \in Nat, NEW G
  PROVE  Images(Append(b, x), G) = Append(Images(b, G), G[x])
<1> DEFINE T == {G[y] : y \in Nat}
           s == Images(b, G)
<1>1. s \in Seq(T) /\ Len(s) = Len(b) /\ \A i \in 1..Len(b) : s[i] = G[b[i]]
  <2>1. s \in Seq(T)
    BY ImagesOf
  <2> QED  BY <2>1, ImagesOf
<1>2. G[x] \in T
  OBVIOUS
<1> HIDE DEF s
<1> DEFINE d == Append(b, x)
           e == Append(s, G[x])
<1>3. /\ d \in Seq(Nat) /\ Len(d) = Len(b) + 1 /\ d[Len(b) + 1] = x
      /\ \A i \in 1..Len(b) : d[i] = b[i]
  OBVIOUS
<1>4. /\ e \in Seq(T) /\ Len(e) = Len(b) + 1 /\ e[Len(b) + 1] = G[x]
      /\ \A i \in 1..Len(b) : e[i] = s[i]
  <2> HIDE DEF T
  <2> QED  BY <1>1, <1>2
<1> HIDE DEF d, e
<1>5. \A i \in 1..(Len(b) + 1) : e[i] = G[d[i]]
  <2> TAKE i \in 1..(Len(b) + 1)
  <2>1. i = Len(b) + 1 \/ i \in 1..Len(b)
    BY <1>3
  <2> QED  BY <1>1, <1>3, <1>4, <2>1
<1>6. e = [i \in 1..(Len(b) + 1) |-> G[d[i]]]
  <2>1. e = [i \in 1..Len(e) |-> e[i]]
    <3> HIDE DEF T
    <3> QED  BY <1>4
  <2> QED  BY <1>4, <1>5, <2>1
<1> QED  BY <1>3, <1>6, Zenon DEF Images, d, e, s

\* A pop of the stack is a pop of its images.
LEMMA ImagesFront ==
  ASSUME NEW b \in Seq(Nat), b # << >>, NEW d \in Seq(Nat), Len(d) = Len(b) - 1,
         \A i \in 1..(Len(b) - 1) : d[i] = b[i], NEW G
  PROVE  Front(Images(b, G)) = Images(d, G)
<1> DEFINE T == {G[y] : y \in Nat}
           s == Images(b, G)
           m == Len(b) - 1
           e == SubSeq(s, 1, m)
<1>1. s \in Seq(T) /\ Len(s) = Len(b) /\ \A i \in 1..Len(b) : s[i] = G[b[i]]
  <2>1. s \in Seq(T)
    BY ImagesOf
  <2>2. Len(s) = Len(b) /\ \A i \in 1..Len(b) : s[i] = G[b[i]]
    BY ImagesOf
  <2> QED  BY <2>1, <2>2
<1>2. m \in Nat /\ Len(b) = m + 1
  OBVIOUS
<1> HIDE DEF s, T
<1>3. e \in Seq(T) /\ Len(e) = m /\ \A i \in 1..m : e[i] = s[i]
  <2> HIDE DEF m
  <2> QED  BY <1>1, <1>2
<1>4. Front(s) = e
  BY <1>1, Zenon DEF Front
<1> HIDE DEF e
<1>5. e = [i \in 1..m |-> G[d[i]]]
  <2>1. e = [i \in 1..Len(e) |-> e[i]]
    BY <1>3
  <2>2. \A i \in 1..m : e[i] = G[d[i]]
    <3> TAKE i \in 1..m
    <3>1. i \in 1..(Len(b) - 1) /\ i \in 1..Len(b)
      BY <1>2
    <3>2. e[i] = s[i] /\ s[i] = G[b[i]] /\ d[i] = b[i]
      BY <1>1, <1>3, <3>1
    <3> QED  BY <3>2
  <2> QED  BY <1>3, <2>1, <2>2
<1> QED  BY <1>2, <1>4, <1>5 DEF Images, s

\* Only the entries count.
LEMMA ImagesSame ==
  ASSUME NEW b \in Seq(Nat), NEW G, NEW H, \A i \in 1..Len(b) : G[b[i]] = H[b[i]]
  PROVE  Images(b, G) = Images(b, H)
BY DEF Images

\* Where two functions differ only at the top of a stack, one entry changes.
LEMMA ImagesTop ==
  ASSUME NEW b \in Seq(Nat), b # << >>, NEW G, NEW H,
         \A i \in 1..(Len(b) - 1) : G[b[i]] = H[b[i]]
  PROVE  /\ Images(b, G) # << >> /\ Len(Images(b, G)) = Len(b)
         /\ Images(b, G)[Len(b)] = G[b[Len(b)]]
         /\ [Images(b, G) EXCEPT ![Len(b)] = H[b[Len(b)]]] = Images(b, H)
<1>1. Images(b, G) # << >> /\ Len(Images(b, G)) = Len(b)
  BY DEF Images
<1>2. Images(b, G)[Len(b)] = G[b[Len(b)]]
  BY DEF Images
<1>3. [Images(b, G) EXCEPT ![Len(b)] = H[b[Len(b)]]] = Images(b, H)
  <2>1. \A i \in 1..Len(b) : i = Len(b) \/ i \in 1..(Len(b) - 1)
    OBVIOUS
  <2> QED  BY <2>1 DEF Images
<1> QED  BY <1>1, <1>2, <1>3

\* Front stays within sequences, of the empty one too.
LEMMA FrontClosed ==
  ASSUME NEW T, NEW s \in Seq(T) PROVE Front(s) \in Seq(T)
<1> DEFINE m == Len(s) - 1
           e == SubSeq(s, 1, m)
<1>1. e \in Seq(T)
  <2>1. m \in Int /\ m <= Len(s)
    OBVIOUS
  <2>2. CASE m >= 1
     BY <2>1, <2>2
  <2>3. CASE m < 1
    <3>1. e = << >>
      BY <2>1, <2>3
    <3> QED BY <3>1
  <2> QED  BY <2>1, <2>2, <2>3
<1> QED  BY <1>1 DEF Front

\* What the visitor holds after k calls: the expressions in scope in each open
\* block, whether each open WITH clause is recursive, and the tables so far.
Within(w, sort, k) == Open(w, k) \cap Entered(w, sort)
ScopeOf(w, x, k) == {Lower[w[m].node.name] : m \in {m \in Entered(w, "cte") : BlockOf(w, m) = x /\ Added(w, m, k)}}
Scoped(w, k) == [x \in Nat |-> ScopeOf(w, x, k)]
Recursives(w) == [x \in Nat |-> w[x].node.recursive]
\* Names compared in lower case, as the visitor does.
HiddenName(w, k) == Hidden(w, k, FALSE)
TablesBy(w, k) == {Resolve(w[j].node) : j \in {j \in Entered(w, "table") : j <= k /\ ~HiddenName(w, j)}}

Holds(w, k, b, s) == Coll(Images(b, Scoped(w, k)), Images(s, Recursives(w)), TablesBy(w, k))
After(w, k, c) ==
  \E b, s \in Seq(Nat) : /\ Stack(b, Within(w, "block", k)) /\ Stack(s, Within(w, "with", k))
                         /\ c = Holds(w, k, b, s)

\* A call for a node of another kind leaves what the stacks hold.
LEMMA ScopedSame ==
  ASSUME NEW w \in Walks, NEW k \in 1..Len(w), w[k].node.kind # "cte"
  PROVE  Scoped(w, k) = Scoped(w, k - 1)
<1> DEFINE O(i) == Open(w, i)
<1>1. \A m \in Entered(w, "cte") : Added(w, m, k) <=> Added(w, m, k - 1)
  <2> TAKE m \in Entered(w, "cte")
  <2>1. m \in 1..Len(w) /\ w[m].enter /\ w[m].node.kind = "cte"
    BY DEF Entered
  <2>3. m # k
    BY <2>1
  <2>4. m \in O(k) <=> m \in O(k - 1)
    <3>1. w[k].enter => O(k) = O(k - 1) \cup {k}
      BY OpenSteps
    <3>2. ~w[k].enter => O(k) = O(k - 1) \ {w[k].at} /\ w[k].node = w[w[k].at].node
      BY OpenSteps
    <3> QED  BY <2>1, <2>3, <3>1, <3>2
  <2>5. m <= k <=> m <= k - 1
    BY <2>1, <2>3
  <2> QED  BY <2>4, <2>5, Zenon DEF Added
<1>2. \A x : ScopeOf(w, x, k) = ScopeOf(w, x, k - 1)
  BY <1>1, Zenon DEF ScopeOf
<1> QED  BY <1>2, Zenon DEF Scoped

\* It leaves the open nodes of every kind but its own.
LEMMA WithinSame ==
  ASSUME NEW w \in Walks, NEW k \in 1..Len(w), NEW sort, w[k].node.kind # sort
  PROVE  Within(w, sort, k) = Within(w, sort, k - 1)
<1>1. CASE w[k].enter
  <2>1. Open(w, k) = Open(w, k - 1) \cup {k} /\ k \notin Entered(w, sort)
    BY <1>1, OpenSteps DEF Entered
  <2> QED  BY <2>1 DEF Within
<1>2. CASE ~w[k].enter
  <2> DEFINE x == w[k].at
  <2>1. Open(w, k) = Open(w, k - 1) \ {x} /\ w[k].node = w[x].node
    BY <1>2, OpenSteps
  <2>2. x \notin Entered(w, sort)
    BY <2>1 DEF Entered
  <2> QED  BY <2>1, <2>2 DEF Within
<1> QED  BY <1>1, <1>2

\* Only the Enter of a table adds one.
LEMMA TablesSame ==
  ASSUME NEW w \in Walks, NEW k \in 1..Len(w), ~(w[k].enter /\ w[k].node.kind = "table")
  PROVE  TablesBy(w, k) = TablesBy(w, k - 1)
<1>1. \A j \in Entered(w, "table") : j <= k <=> j <= k - 1
  BY DEF Entered
<1> QED  BY <1>1, Zenon DEF TablesBy

\* Where an expression is entered or left, the innermost WITH clause is the one
\* it belongs to, and the innermost block the one that will see it.
LEMMA AtExpression ==
  ASSUME NEW w \in Walks, NEW k \in 1..Len(w), w[k].node.kind = "cte"
  PROVE  \E m \in Entered(w, "cte") :
           /\ w[k].node = w[m].node /\ m <= k
           /\ w[k].enter => m = k
           /\ ~w[k].enter => m <= k - 1 /\ m \in Open(w, k - 1)
           /\ Open(w, k) = IF w[k].enter THEN Open(w, k - 1) \cup {m} ELSE Open(w, k - 1) \ {m}
           /\ Around(w, m) \in Within(w, "with", k - 1)
           /\ \A p \in Within(w, "with", k - 1) : p <= Around(w, m)
           /\ BlockOf(w, m) \in Within(w, "block", k - 1)
           /\ \A p \in Within(w, "block", k - 1) : p <= BlockOf(w, m)
<1> DEFINE O(i) == Open(w, i)
           m == IF w[k].enter THEN k ELSE w[k].at
           v == Around(w, m)
<1>1. /\ Len(w) \in Nat /\ k - 1 \in 0..Len(w) /\ O(k - 1) \subseteq 1..(k - 1)
      /\ \A p \in O(k - 1) : w[p].enter
  <2>1. Len(w) \in Nat /\ k - 1 \in 0..Len(w)
    BY OpenSteps
  <2> QED  BY <2>1, OpenSteps
<1>2. /\ m \in 1..Len(w) /\ w[m].enter /\ w[k].node = w[m].node /\ m <= k
      /\ ~w[k].enter => m <= k - 1 /\ m \in O(k - 1)
      /\ O(k) = IF w[k].enter THEN O(k - 1) \cup {m} ELSE O(k - 1) \ {m}
  <2>1. CASE w[k].enter
    <3>1. O(k) = O(k - 1) \cup {k}
      BY <2>1, OpenSteps
    <3> QED  BY <2>1, <3>1
  <2>2. CASE ~w[k].enter
    <3>1. w[k].at \in O(k - 1) /\ O(k) = O(k - 1) \ {w[k].at} /\ w[k].node = w[w[k].at].node
      BY <2>2, OpenSteps
    <3> QED  BY <1>1, <2>2, <3>1
  <2> QED  BY <2>1, <2>2
<1>3. m \in Entered(w, "cte")
  BY <1>2, Zenon DEF Entered
<1>4. /\ v \in Entered(w, "with") /\ v \in 1..(m - 1)
      /\ v = Around(w, m) /\ Around(w, v) = v - 1 /\ v - 1 \in Entered(w, "block") /\ v - 1 \in 1..Len(w)
  BY <1>3, Expressions
<1>5. \A x \in O(k - 1) : /\ Around(w, x) = 0 \/ Around(w, x) \in O(k - 1)
                          /\ Around(w, x) \in 0..(x - 1)
                          /\ \A y \in O(k - 1) : y < x => y <= Around(w, x)
  BY <1>1, Chained
<1>6. v \in O(k - 1) /\ \A y \in O(k - 1) : y <= v \/ y = m
  <2>1. CASE w[k].enter
    <3>1. Top(O(k - 1), Around(w, k))
      BY <2>1, OpenSteps
    <3> QED  BY <1>4, <2>1, <3>1 DEF Top
  <2>2. CASE ~w[k].enter
    <3>1. m \in O(k - 1) /\ \A p \in O(k - 1) : p <= m
      BY <2>2, OpenSteps
    <3>2. v # 0
      BY <1>4
    <3> HIDE DEF m
    <3>3. \A y \in O(k - 1) : y <= m /\ y # m => y < m
      BY <1>1, <1>2
    <3> QED  BY <1>5, <3>1, <3>2, <3>3
  <2> QED  BY <2>1, <2>2
<1> HIDE DEF m, v
<1>7. v - 1 \in O(k - 1) /\ \A y \in O(k - 1) : y < v => y <= v - 1
  BY <1>1, <1>4, <1>5, <1>6
<1>8. v \notin Entered(w, "block") /\ m \notin Entered(w, "block") /\ m \notin Entered(w, "with")
  BY <1>3, <1>4 DEF Entered
<1>9. v \in Within(w, "with", k - 1) /\ \A p \in Within(w, "with", k - 1) : p <= v
  BY <1>4, <1>6, <1>8 DEF Within
<1>10. v - 1 \in Within(w, "block", k - 1)
  BY <1>4, <1>7 DEF Within
<1>11. ASSUME NEW p \in Within(w, "block", k - 1) PROVE p <= v - 1
  <2>1. p \in O(k - 1) /\ p # v /\ p # m
    BY <1>8 DEF Within
  <2>2. p <= v /\ p \in Nat /\ v \in Nat
    BY <1>1, <1>4, <1>6, <2>1
  <2> QED  BY <1>7, <2>1, <2>2
<1>12. v = Around(w, m) /\ BlockOf(w, m) = v - 1
  BY <1>4, Zenon DEF BlockOf
<1>13. w[k].enter => m = k
  BY DEF m
<1> QED  BY <1>2, <1>3, <1>9, <1>10, <1>11, <1>12, <1>13

\* One call of the walk.
Turn(w, k, c) == IF w[k].enter THEN Enter(c, w[k].node) ELSE Leave(c, w[k].node)

\* A block pushes an empty scope, since its expressions come later, and pops it.
LEMMA BlockTurn ==
  ASSUME NEW w \in Walks, NEW k \in 1..Len(w), NEW c, After(w, k - 1, c), w[k].node.kind = "block"
  PROVE  After(w, k, Turn(w, k, c))
<1> DEFINE O(i) == Open(w, i)
           B == Within(w, "block", k - 1)
           V == Within(w, "with", k - 1)
           G == Scoped(w, k - 1)
           R == Recursives(w)
           T == TablesBy(w, k - 1)
<1>1. PICK b, s \in Seq(Nat) : Stack(b, B) /\ Stack(s, V) /\ c = Coll(Images(b, G), Images(s, R), T)
  BY Zenon DEF After, Holds
<1>2. Scoped(w, k) = G /\ TablesBy(w, k) = T
  BY ScopedSame, TablesSame
<1>3. /\ k \in Nat /\ k - 1 \in 0..Len(w) /\ O(k - 1) \subseteq 1..(k - 1)
      /\ \A p \in O(k - 1) : p \in 1..Len(w) /\ w[p].enter
  <2>1. k \in Nat /\ k - 1 \in 0..Len(w)
    BY OpenSteps
  <2> QED  BY <2>1, OpenSteps
<1>4. CASE w[k].enter
  <2>1. O(k) = O(k - 1) \cup {k}
    BY <1>4, OpenSteps
  <2>2. k \in Entered(w, "block")
    BY <1>4 DEF Entered
  <2>3. Within(w, "block", k) = B \cup {k} /\ Within(w, "with", k) = V
    BY <2>1, <2>2, WithinSame DEF Within
  <2>4. Stack(Append(b, k), B \cup {k}) /\ Append(b, k) \in Seq(Nat)
    <3>1. \A p \in B : p < k
      BY <1>3 DEF Within
    <3> QED  BY <1>1, <1>3, <3>1, StackPush
  <2>5. G[k] = {}
    <3>1. \A m \in Entered(w, "cte") : BlockOf(w, m) = k => ~Added(w, m, k - 1)
      <4> TAKE m \in Entered(w, "cte")
      <4>1. Around(w, m) \in 1..(m - 1) /\ BlockOf(w, m) = Around(w, m) - 1 /\ m \in 1..Len(w)
        BY Expressions DEF BlockOf
      <4>2. BlockOf(w, m) = k => ~(m <= k - 1)
        BY <1>3, <4>1
      <4> QED  BY <4>2, Zenon DEF Added
    <3>2. G[k] = ScopeOf(w, k, k - 1)
      BY <1>3, Zenon DEF Scoped
    <3> QED  BY <3>1, <3>2, Zenon DEF ScopeOf
  <2>6. Turn(w, k, c) = PushScope(c)
    BY <1>4 DEF Turn, Enter
  <2>7. PushScope(c) = Coll(Append(Images(b, G), {}), Images(s, R), T)
    BY <1>1, StackOperations
  <2>8. Images(Append(b, k), G) = Append(Images(b, G), {})
    <3>1. Images(Append(b, k), G) = Append(Images(b, G), G[k])
      BY <1>3, ImagesAppend
    <3> QED  BY <2>5, <3>1, Zenon
  <2>9. Turn(w, k, c) = Holds(w, k, Append(b, k), s)
    BY <1>2, <2>6, <2>7, <2>8, Zenon DEF Holds
  <2> QED  BY <1>1, <2>3, <2>4, <2>9, Zenon DEF After
<1>5. CASE ~w[k].enter
  <2> DEFINE x == w[k].at
  <2>1. /\ x \in O(k - 1) /\ \A p \in O(k - 1) : p <= x
        /\ O(k) = O(k - 1) \ {x} /\ w[k].node = w[x].node
    BY <1>5, OpenSteps
  <2>2. x \in Entered(w, "block")
    <3>1. x \in 1..Len(w) /\ w[x].enter
      BY <1>3, <2>1, Zenon
    <3> QED  BY <2>1, <3>1 DEF Entered
  <2> HIDE DEF x
  <2>3. Within(w, "block", k) = B \ {x} /\ Within(w, "with", k) = V /\ x \in B
    BY <2>1, <2>2, WithinSame DEF Within
  <2>4. \A p \in B : p <= x
    BY <2>1 DEF Within
  <2>5. /\ Stack(Front(b), B \ {x}) /\ Len(Front(b)) = Len(b) - 1
        /\ \A i \in 1..(Len(b) - 1) : Front(b)[i] = b[i]
    BY <1>1, <2>3, <2>4, StackPop
  <2>6. b # << >> /\ Front(b) \in Seq(Nat)
    <3>1. Len(b) # 0
      BY <1>1, <2>3, <2>4, StackTop
    <3> QED  BY <2>5, <3>1 DEF Stack
  <2>7. Turn(w, k, c) = PopScope(c)
    BY <1>5 DEF Turn, Leave
  <2>8. PopScope(c) = Coll(Front(Images(b, G)), Images(s, R), T)
    BY <1>1, StackOperations
  <2>9. Front(Images(b, G)) = Images(Front(b), G)
    BY <2>5, <2>6, ImagesFront
  <2>10. Turn(w, k, c) = Holds(w, k, Front(b), s)
    BY <1>2, <2>7, <2>8, <2>9 DEF Holds
  <2> QED  BY <1>1, <2>3, <2>5, <2>6, <2>10, Zenon DEF After
<1> QED  BY <1>4, <1>5

\* A WITH clause pushes whether it is recursive, and pops that.
LEMMA WithTurn ==
  ASSUME NEW w \in Walks, NEW k \in 1..Len(w), NEW c, After(w, k - 1, c), w[k].node.kind = "with"
  PROVE  After(w, k, Turn(w, k, c))
<1> DEFINE O(i) == Open(w, i)
           B == Within(w, "block", k - 1)
           V == Within(w, "with", k - 1)
           G == Scoped(w, k - 1)
           R == Recursives(w)
           T == TablesBy(w, k - 1)
<1>1. PICK b, s \in Seq(Nat) : Stack(b, B) /\ Stack(s, V) /\ c = Coll(Images(b, G), Images(s, R), T)
  BY Zenon DEF After, Holds
<1>2. Scoped(w, k) = G /\ TablesBy(w, k) = T
  BY ScopedSame, TablesSame
<1>3. /\ k \in Nat /\ k - 1 \in 0..Len(w) /\ O(k - 1) \subseteq 1..(k - 1)
      /\ \A p \in O(k - 1) : p \in 1..Len(w) /\ w[p].enter
  <2>1. k \in Nat /\ k - 1 \in 0..Len(w)
    BY OpenSteps
  <2> QED  BY <2>1, OpenSteps
<1>4. CASE w[k].enter
  <2>1. O(k) = O(k - 1) \cup {k}
    BY <1>4, OpenSteps
  <2>2. k \in Entered(w, "with")
    BY <1>4 DEF Entered
  <2>3. Within(w, "with", k) = V \cup {k} /\ Within(w, "block", k) = B
    BY <2>1, <2>2, WithinSame DEF Within
  <2>4. Stack(Append(s, k), V \cup {k}) /\ Append(s, k) \in Seq(Nat)
    <3>1. \A p \in V : p < k
      BY <1>3 DEF Within
    <3> QED  BY <1>1, <1>3, <3>1, StackPush
  <2>5. R[k] = w[k].node.recursive
    BY <1>3, Zenon DEF Recursives
  <2>6. Turn(w, k, c) = EnterWith(c, w[k].node)
    BY <1>4 DEF Turn, Enter
  <2>7. EnterWith(c, w[k].node) = Coll(Images(b, G), Append(Images(s, R), w[k].node.recursive), T)
    <3> HIDE DEF B, V, G, R, T
    <3> QED  BY <1>1, EnterWithOf
  <2>8. Images(Append(s, k), R) = Append(Images(s, R), R[k])
    BY <1>1, <1>3, ImagesAppend
  <2>9. Turn(w, k, c) = Holds(w, k, b, Append(s, k))
    BY <1>2, <2>5, <2>6, <2>7, <2>8, Zenon DEF Holds
  <2> QED  BY <1>1, <2>3, <2>4, <2>9, Zenon DEF After
<1>5. CASE ~w[k].enter
  <2> DEFINE x == w[k].at
  <2>1. /\ x \in O(k - 1) /\ \A p \in O(k - 1) : p <= x
        /\ O(k) = O(k - 1) \ {x} /\ w[k].node = w[x].node
    BY <1>5, OpenSteps
  <2>2. x \in Entered(w, "with")
    <3>1. x \in 1..Len(w) /\ w[x].enter
      BY <1>3, <2>1, Zenon
    <3> QED  BY <2>1, <3>1 DEF Entered
  <2> HIDE DEF x
  <2>3. Within(w, "with", k) = V \ {x} /\ Within(w, "block", k) = B /\ x \in V
    BY <2>1, <2>2, WithinSame DEF Within
  <2>4. \A p \in V : p <= x
    BY <2>1 DEF Within
  <2>5. /\ Stack(Front(s), V \ {x}) /\ Len(Front(s)) = Len(s) - 1
        /\ \A i \in 1..(Len(s) - 1) : Front(s)[i] = s[i]
    BY <1>1, <2>3, <2>4, StackPop
  <2>6. s # << >> /\ Len(s) # 0 /\ Front(s) \in Seq(Nat)
    <3>1. Len(s) # 0
      BY <1>1, <2>3, <2>4, StackTop
    <3> QED  BY <2>5, <3>1 DEF Stack
  <2>7. Turn(w, k, c) = LeaveWith(c)
    BY <1>5 DEF Turn, Leave
  <2>8. LeaveWith(c) = Coll(Images(b, G), Front(Images(s, R)), T)
    <3>1. Len(Images(s, R)) = Len(s) /\ Len(s) # 0
      <4>1. s \in Seq(Nat)
        BY <1>1
      <4> HIDE DEF R
      <4> QED  BY <2>6, <4>1, ImagesOf
    <3>2. Images(s, R) # << >>
      BY <3>1
    <3> QED  BY <1>1, <3>2, StackOperations
  <2>9. Front(Images(s, R)) = Images(Front(s), R)
    BY <2>5, <2>6, ImagesFront
  <2>10. Turn(w, k, c) = Holds(w, k, b, Front(s))
    BY <1>2, <2>7, <2>8, <2>9 DEF Holds
  <2> QED  BY <1>1, <2>3, <2>5, <2>6, <2>10, Zenon DEF After
<1> QED  BY <1>4, <1>5

\* An expression goes into the scope of its block: at Enter if its WITH clause
\* is recursive, at Leave if not.
LEMMA CTETurn ==
  ASSUME NEW w \in Walks, NEW k \in 1..Len(w), NEW c, After(w, k - 1, c), w[k].node.kind = "cte"
  PROVE  After(w, k, Turn(w, k, c))
<1> DEFINE O(i) == Open(w, i)
           B == Within(w, "block", k - 1)
           V == Within(w, "with", k - 1)
           G == Scoped(w, k - 1)
           H == Scoped(w, k)
           R == Recursives(w)
           T == TablesBy(w, k - 1)
           name == Lower[w[k].node.name]
<1>1. PICK b, s \in Seq(Nat) : Stack(b, B) /\ Stack(s, V) /\ c = Coll(Images(b, G), Images(s, R), T)
  BY Zenon DEF After, Holds
<1>2. PICK m \in Entered(w, "cte") :
           /\ w[k].node = w[m].node /\ m <= k
           /\ w[k].enter => m = k
           /\ ~w[k].enter => m <= k - 1 /\ m \in O(k - 1)
           /\ O(k) = IF w[k].enter THEN O(k - 1) \cup {m} ELSE O(k - 1) \ {m}
           /\ Around(w, m) \in V /\ \A p \in V : p <= Around(w, m)
           /\ BlockOf(w, m) \in B /\ \A p \in B : p <= BlockOf(w, m)
  BY AtExpression
<1> DEFINE v == Around(w, m)
           x == BlockOf(w, m)
           rec == w[v].node.recursive
<1>3. /\ Len(b) \in Nat \ {0} /\ b[Len(b)] = x /\ \A i \in 1..(Len(b) - 1) : b[i] # x
      /\ Len(s) \in Nat \ {0} /\ s[Len(s)] = v
  BY <1>1, <1>2, StackTop
<1>4. Within(w, "block", k) = B /\ Within(w, "with", k) = V /\ TablesBy(w, k) = T
  <2>1. m \notin Entered(w, "block") /\ m \notin Entered(w, "with")
    BY DEF Entered
  <2>2. TablesBy(w, k) = T
    BY TablesSame
  <2> QED  BY <1>2, <2>1, <2>2 DEF Within
<1>5. x \in Nat /\ v \in Nat /\ b # << >> /\ s # << >> /\ m \in Nat /\ m \in 1..Len(w)
  <2>1. m \in 1..Len(w) /\ v \in 1..(m - 1) /\ x = v - 1
    BY Expressions DEF BlockOf
  <2>2. b # << >> /\ s # << >>
    BY <1>3
  <2> QED  BY <2>1, <2>2
\* The expression is taken into the scope of its block: at its Enter if its WITH
\* is recursive, at its Leave if not.
<1>6. \A p \in Entered(w, "cte") : p # m => (Added(w, p, k) <=> Added(w, p, k - 1))
  <2> TAKE p \in Entered(w, "cte")
  <2> SUFFICES ASSUME p # m PROVE Added(w, p, k) <=> Added(w, p, k - 1)
    OBVIOUS
  <2>1. p \in 1..Len(w) /\ w[p].enter
    BY DEF Entered
  <2>2. p # k
    BY <1>2, <2>1
  <2>3. p <= k <=> p <= k - 1
    BY <2>1, <2>2
  <2>4. p \in O(k) <=> p \in O(k - 1)
    BY <1>2
  <2> QED  BY <2>3, <2>4, Zenon DEF Added
<1>7. w[k].enter => ~Added(w, m, k - 1) /\ (Added(w, m, k) <=> rec)
  <2> SUFFICES ASSUME w[k].enter PROVE ~Added(w, m, k - 1) /\ (Added(w, m, k) <=> rec)
    OBVIOUS
  <2>1. m = k /\ ~(m <= k - 1) /\ m <= k /\ m \in O(k)
    BY <1>2, <1>5
  <2> QED  BY <2>1, Zenon DEF Added
<1>8. ~w[k].enter => (Added(w, m, k - 1) <=> rec) /\ Added(w, m, k)
  <2> SUFFICES ASSUME ~w[k].enter PROVE (Added(w, m, k - 1) <=> rec) /\ Added(w, m, k)
    OBVIOUS
  <2>1. m <= k - 1 /\ m <= k /\ m \in O(k - 1) /\ m \notin O(k)
    BY <1>2
  <2> QED  BY <2>1, Zenon DEF Added
<1>9. \A y \in Nat : H[y] = ScopeOf(w, y, k) /\ G[y] = ScopeOf(w, y, k - 1)
  BY Zenon DEF Scoped
<1> HIDE DEF O, B, V, G, H, R, T, x, v, rec, name
<1>10. \A y \in Nat : y # x => H[y] = G[y]
  <2>1. \A y : y # x => ScopeOf(w, y, k) = ScopeOf(w, y, k - 1)
    <3> TAKE y
    <3> SUFFICES ASSUME y # x PROVE ScopeOf(w, y, k) = ScopeOf(w, y, k - 1)
      OBVIOUS
    <3>1. \A p \in Entered(w, "cte") :
            BlockOf(w, p) = y /\ Added(w, p, k) <=> BlockOf(w, p) = y /\ Added(w, p, k - 1)
      BY <1>6, Zenon DEF x
    <3> QED  BY <3>1, Zenon DEF ScopeOf
  <2> QED  BY <1>9, <2>1, Zenon
<1> DEFINE takes == w[k].enter <=> rec
<1>11. takes => H[x] = G[x] \cup {name}
  <2> SUFFICES ASSUME takes PROVE H[x] = G[x] \cup {name}
    OBVIOUS
  <2>1. Added(w, m, k)
    BY <1>7, <1>8
  <2>2. \A p \in Entered(w, "cte") :
          Added(w, p, k) <=> Added(w, p, k - 1) \/ p = m
    BY <1>6, <2>1, Zenon
  <2>3. BlockOf(w, m) = x /\ Lower[w[m].node.name] = name
    BY <1>2 DEF x, name
  <2>4. ScopeOf(w, x, k) = ScopeOf(w, x, k - 1) \cup {name}
    <3> DEFINE P(i) == {p \in Entered(w, "cte") : BlockOf(w, p) = x /\ Added(w, p, i)}
    <3>1. P(k) = P(k - 1) \cup {m}
      BY <2>2, <2>3
    <3>2. ScopeOf(w, x, k) = {Lower[w[p].node.name] : p \in P(k)}
      BY Zenon DEF ScopeOf
    <3>3. ScopeOf(w, x, k - 1) = {Lower[w[p].node.name] : p \in P(k - 1)}
      BY Zenon DEF ScopeOf
    <3> HIDE DEF P
    <3> QED  BY <2>3, <3>1, <3>2, <3>3
  <2> QED  BY <1>5, <1>9, <2>4
<1>12. ~takes => H[x] = G[x]
  <2> SUFFICES ASSUME ~takes PROVE H[x] = G[x]
    OBVIOUS
  <2>1. Added(w, m, k) <=> Added(w, m, k - 1)
    BY <1>7, <1>8
  <2>2. \A p \in Entered(w, "cte") : Added(w, p, k) <=> Added(w, p, k - 1)
    BY <1>6, <2>1, Zenon
  <2>3. ScopeOf(w, x, k) = ScopeOf(w, x, k - 1)
    BY <2>2, Zenon DEF ScopeOf
  <2> QED  BY <1>5, <1>9, <2>3
<1>13. CurRecursive(c) <=> rec
  <2>1. /\ Len(Images(s, R)) = Len(s) /\ Images(s, R)[Len(s)] = R[v] /\ Images(s, R) # << >>
    BY <1>3, <1>5, ImagesTop
  <2>2. R[v] = rec
    BY <1>5, Zenon DEF R, Recursives, rec
  <2>3. CurRecursive(c) <=> Images(s, R) # << >> /\ Images(s, R)[Len(Images(s, R))]
    BY <1>1, StackOperations
  <2> QED  BY <2>1, <2>2, <2>3, Zenon
<1>14. AddCTE(c, name) = Coll([Images(b, G) EXCEPT ![Len(b)] = G[x] \cup {name}], Images(s, R), T)
  <2>1. Images(b, G) # << >> /\ Len(Images(b, G)) = Len(b) /\ Images(b, G)[Len(b)] = G[x]
    BY <1>3, <1>5, ImagesTop
  <2>2. AddCTE(Coll(Images(b, G), Images(s, R), T), name) =
          IF Images(b, G) = << >> THEN Coll(Images(b, G), Images(s, R), T)
          ELSE Coll([Images(b, G) EXCEPT ![Len(Images(b, G))] = @ \cup {name}], Images(s, R), T)
    BY AddCTEOf
  <2> QED  BY <1>1, <2>1, <2>2
<1>15. Turn(w, k, c) = IF takes THEN AddCTE(c, name) ELSE c
  <2>1. CASE w[k].enter
    <3>1. Turn(w, k, c) = EnterCTE(c, w[k].node)
      BY <2>1 DEF Turn, Enter
    <3> QED  BY <1>13, <2>1, <3>1, Zenon DEF EnterCTE, name
  <2>2. CASE ~w[k].enter
    <3>1. Turn(w, k, c) = LeaveCTE(c, w[k].node)
      BY <2>2 DEF Turn, Leave
    <3> QED  BY <1>13, <2>2, <3>1, Zenon DEF LeaveCTE, name
  <2> QED  BY <2>1, <2>2
<1>16. \A i \in 1..(Len(b) - 1) : G[b[i]] = H[b[i]]
  <2> TAKE i \in 1..(Len(b) - 1)
  <2>1. b[i] \in Nat
    <3>1. i \in 1..Len(b)
      BY <1>3
    <3> QED  BY <3>1
  <2>2. b[i] # x
    BY <1>3, Zenon
  <2> QED  BY <1>10, <2>1, <2>2, Zenon
<1>17. Turn(w, k, c) = Coll(Images(b, H), Images(s, R), T)
  <2>1. CASE takes
    <3>1. [Images(b, G) EXCEPT ![Len(b)] = H[x]] = Images(b, H)
      <4>1. b \in Seq(Nat) /\ b # << >> /\ b[Len(b)] = x
        BY <1>3, <1>5
      <4> QED  BY <1>16, <4>1, ImagesTop
    <3>2. H[x] = G[x] \cup {name}
      BY <1>11, <2>1
    <3>3. Turn(w, k, c) = AddCTE(c, name)
      BY <1>15, <2>1, Zenon
    <3> QED  BY <1>14, <3>1, <3>2, <3>3, Zenon
  <2>2. CASE ~takes
    <3>1. \A i \in 1..Len(b) : G[b[i]] = H[b[i]]
      <4> TAKE i \in 1..Len(b)
      <4>1. i = Len(b) \/ i \in 1..(Len(b) - 1)
        BY <1>3
      <4>2. G[x] = H[x]
        BY <1>12, <2>2
      <4> QED  BY <1>3, <1>16, <4>1, <4>2
    <3>2. Images(b, G) = Images(b, H)
      BY <3>1, ImagesSame
    <3> QED  BY <1>1, <1>15, <2>2, <3>2, Zenon
  <2> QED  BY <2>1, <2>2
<1> QED  BY <1>1, <1>4, <1>17, Zenon DEF After, Holds, B, V, H, R, T

\* A table name is looked up in every open scope, which is what MySQL does when
\* it compares names in lower case.
LEMMA TableTurn ==
  ASSUME NEW w \in Walks, NEW k \in 1..Len(w), NEW c, After(w, k - 1, c), w[k].node.kind = "table"
  PROVE  After(w, k, Turn(w, k, c))
<1> DEFINE O(i) == Open(w, i)
           B == Within(w, "block", k - 1)
           V == Within(w, "with", k - 1)
           G == Scoped(w, k - 1)
           R == Recursives(w)
           T == TablesBy(w, k - 1)
           node == w[k].node
<1>1. PICK b, s \in Seq(Nat) : Stack(b, B) /\ Stack(s, V) /\ c = Coll(Images(b, G), Images(s, R), T)
  BY Zenon DEF After, Holds
<1>2. Scoped(w, k) = G
  BY ScopedSame
<1>3. Within(w, "block", k) = B /\ Within(w, "with", k) = V
  BY WithinSame
<1>4. CASE w[k].enter
  <2>1. k \in Entered(w, "table")
    BY <1>4 DEF Entered
  <2>2. (\E i \in 1..Len(b) : Lower[node.name] \in G[b[i]]) <=>
        \E m \in Entered(w, "cte") : Lower[w[m].node.name] = Lower[node.name] /\ Visible(w, m, k)
    <3>0. \A y \in Nat : G[y] = ScopeOf(w, y, k - 1)
      BY Zenon DEF Scoped
    <3>1. ASSUME NEW i \in 1..Len(b), Lower[node.name] \in G[b[i]]
          PROVE  \E m \in Entered(w, "cte") : Lower[w[m].node.name] = Lower[node.name] /\ Visible(w, m, k)
      <4>1. b[i] \in Nat /\ b[i] \in B
        <5>1. b[i] \in Nat
          OBVIOUS
        <5>2. Stack(b, B)
          BY <1>1
        <5> HIDE DEF B
        <5> QED  BY <5>1, <5>2, Zenon DEF Stack
      <4>2. Lower[node.name] \in ScopeOf(w, b[i], k - 1)
        BY <3>0, <3>1, <4>1
      <4>3. PICK m \in Entered(w, "cte") : /\ Lower[node.name] = Lower[w[m].node.name]
                                           /\ BlockOf(w, m) = b[i] /\ Added(w, m, k - 1)
        BY <4>2, Zenon DEF ScopeOf
      <4>4. Visible(w, m, k)
        <5>1. BlockOf(w, m) \in Open(w, k - 1)
          BY <4>1, <4>3 DEF Within
        <5> QED  BY <2>1, <4>3, <5>1, VisibleIsAdded
      <4> QED  BY <4>3, <4>4
    <3>2. ASSUME NEW m \in Entered(w, "cte"), Lower[w[m].node.name] = Lower[node.name], Visible(w, m, k)
          PROVE  \E i \in 1..Len(b) : Lower[node.name] \in G[b[i]]
      <4>1. BlockOf(w, m) \in O(k - 1) /\ Added(w, m, k - 1)
        BY <2>1, <3>2, VisibleIsAdded
      <4>2. BlockOf(w, m) \in B
        <5>1. BlockOf(w, m) \in Entered(w, "block")
          BY Expressions, Zenon DEF BlockOf
        <5> QED  BY <4>1, <5>1 DEF Within
      <4>3. PICK i \in 1..Len(b) : b[i] = BlockOf(w, m)
        BY <1>1, <4>2 DEF Stack
      <4>4. Lower[node.name] \in ScopeOf(w, b[i], k - 1)
        BY <3>2, <4>1, <4>3, Zenon DEF ScopeOf
      <4>5. b[i] \in Nat
        OBVIOUS
      <4>6. G[b[i]] = ScopeOf(w, b[i], k - 1)
        BY <3>0, <4>5
      <4> QED  BY <4>4, <4>6
    <3> QED  BY <3>1, <3>2
  <2>3. (node.db = "" /\ \E i \in 1..Len(b) : Lower[node.name] \in G[b[i]]) <=> HiddenName(w, k)
    BY <2>2, Zenon DEF HiddenName, Hidden, SameName, node
  <2>4. /\ Len(Images(b, G)) = Len(b)
        /\ \A i \in 1..Len(b) : Images(b, G)[i] = G[b[i]]
    <3> HIDE DEF G
    <3> QED  BY ImagesOf
  <2>5. Turn(w, k, c) = EnterTable(c, node)
    BY <1>4 DEF Turn, Enter
  <2> HIDE DEF B, V, G, R, T
  <2>6. Bare(Images(b, G), node) <=> HiddenName(w, k)
    BY <2>3, <2>4 DEF Bare
  <2>7. EnterTable(c, node) = IF Bare(Images(b, G), node) THEN c
                              ELSE Coll(Images(b, G), Images(s, R), T \cup {Resolve(node)})
    <3>1. \A sc, rc : EnterTable(Coll(sc, rc, T), node) =
                        IF Bare(sc, node) THEN Coll(sc, rc, T)
                        ELSE Coll(sc, rc, T \cup {Resolve(node)})
      <4> HIDE DEF node
      <4> QED  BY EnterTableOf
    <3>2. c = Coll(Images(b, G), Images(s, R), T)
      BY <1>1
    <3> QED  BY <3>1, <3>2, Zenon
  <2>8. TablesBy(w, k) = IF HiddenName(w, k) THEN T ELSE T \cup {Resolve(node)}
    <3> DEFINE P(i) == {j \in Entered(w, "table") : j <= i /\ ~HiddenName(w, j)}
    <3>1. P(k) = IF HiddenName(w, k) THEN P(k - 1) ELSE P(k - 1) \cup {k}
      <4>1. \A j \in Entered(w, "table") : j <= k <=> j <= k - 1 \/ j = k
        BY DEF Entered
      <4>2. ~(k <= k - 1)
        OBVIOUS
      <4> QED  BY <2>1, <4>1, <4>2
    <3>2. TablesBy(w, k) = {Resolve(w[j].node) : j \in P(k)} /\ T = {Resolve(w[j].node) : j \in P(k - 1)}
      BY Zenon DEF TablesBy, T
    <3> HIDE DEF P
    <3> QED  BY <3>1, <3>2
  <2>9. Turn(w, k, c) = Coll(Images(b, G), Images(s, R), TablesBy(w, k))
    BY <1>1, <2>5, <2>6, <2>7, <2>8, Zenon
  <2> QED  BY <1>1, <1>2, <1>3, <2>9, Zenon DEF After, Holds, B, V, G, R
<1>5. CASE ~w[k].enter
  <2>1. Turn(w, k, c) = c
    BY <1>5 DEF Turn, Leave
  <2>2. TablesBy(w, k) = T
    BY <1>5, TablesSame
  <2> QED  BY <1>1, <1>2, <1>3, <2>1, <2>2, Zenon DEF After, Holds
<1> QED  BY <1>4, <1>5

\* Any other node changes nothing.
LEMMA OtherTurn ==
  ASSUME NEW w \in Walks, NEW k \in 1..Len(w), NEW c, After(w, k - 1, c),
         w[k].node.kind \notin {"block", "with", "cte", "table"}
  PROVE  After(w, k, Turn(w, k, c))
<1>1. Scoped(w, k) = Scoped(w, k - 1) /\ TablesBy(w, k) = TablesBy(w, k - 1)
  BY ScopedSame, TablesSame
<1>2. /\ Within(w, "block", k) = Within(w, "block", k - 1)
      /\ Within(w, "with", k) = Within(w, "with", k - 1)
  BY WithinSame
<1>3. Turn(w, k, c) = c
  BY DEF Turn, Enter, Leave
<1> QED  BY <1>1, <1>2, <1>3, Zenon DEF After, Holds

\* The visitor, call by call: any visitor can take any call, so the recursive
\* function is what its body says.
LEMMA VisitorTurns ==
  ASSUME NEW w \in Walks
  PROVE  LET f == Visitor(w)
         IN  f[0] = Collector /\ \A k \in 1..Len(w) : f[k] = Turn(w, k, f[k - 1])
<1> DEFINE n == Len(w)
           N == {Lower[w[k].node.name] : k \in 1..n}
           R == {w[k].node.recursive : k \in 1..n}
           T == {Resolve(w[k].node) : k \in 1..n}
           X == {Coll(x[1], x[2], x[3]) : x \in Seq(SUBSET N) \X Seq(R) \X SUBSET T}
           step == [k \in 1..n |-> [c \in X |-> Turn(w, k, c)]]
           Body(f) == [k \in 0..n |->
                        IF k = 0 THEN Collector
                        ELSE IF w[k].enter THEN Enter(f[k - 1], w[k].node)
                        ELSE Leave(f[k - 1], w[k].node)]
<1>1. n \in Nat
  BY OpenSteps
<1>2. \A sc \in Seq(SUBSET N), rc \in Seq(R), tb \in SUBSET T : Coll(sc, rc, tb) \in X
  <2> TAKE sc \in Seq(SUBSET N), rc \in Seq(R), tb \in SUBSET T
  <2> DEFINE x == <<sc, rc, tb>>
  <2>1. x \in Seq(SUBSET N) \X Seq(R) \X SUBSET T /\ x[1] = sc /\ x[2] = rc /\ x[3] = tb
    <3> HIDE DEF N, R, T
    <3> QED  OBVIOUS
  <2> HIDE DEF x, N, R, T
  <2> QED  BY <2>1, Zenon
<1>3. ASSUME NEW k \in 1..n, NEW c \in X PROVE Turn(w, k, c) \in X
  <2> DEFINE node == w[k].node
  <2>1. PICK sc \in Seq(SUBSET N), rc \in Seq(R), tb \in SUBSET T : c = Coll(sc, rc, tb)
    <3> HIDE DEF N, R, T
    <3> QED  OBVIOUS
  <2>2. Lower[node.name] \in N /\ node.recursive \in R /\ Resolve(node) \in T
    OBVIOUS
  <2> HIDE DEF N, R, T, X, node
  <2>3. PushScope(c) \in X /\ PopScope(c) \in X
    <3>1. Append(sc, {}) \in Seq(SUBSET N) /\ Front(sc) \in Seq(SUBSET N)
      BY FrontClosed
    <3>2. /\ PushScope(c) = Coll(Append(sc, {}), rc, tb)
          /\ PopScope(c) = Coll(Front(sc), rc, tb)
      BY <2>1, StackOperations
    <3> QED  BY <1>2, <3>1, <3>2
  <2>4. EnterWith(c, node) \in X
    <3>1. Append(rc, node.recursive) \in Seq(R)
      BY <2>2
    <3>2. EnterWith(c, node) = Coll(sc, Append(rc, node.recursive), tb)
      BY <2>1, EnterWithOf
    <3> QED  BY <1>2, <3>1, <3>2
  <2>5. LeaveWith(c) \in X
    <3>1. Front(rc) \in Seq(R)
      BY FrontClosed
    <3>2. LeaveWith(c) = c \/ LeaveWith(c) = Coll(sc, Front(rc), tb)
      BY <2>1, StackOperations
    <3> QED  BY <1>2, <3>1, <3>2
  <2>6. AddCTE(c, Lower[node.name]) \in X
    <3> DEFINE d == [sc EXCEPT ![Len(sc)] = @ \cup {Lower[node.name]}]
    <3>1. d \in Seq(SUBSET N)
      <4> DEFINE i == Len(sc)
                 e == [sc EXCEPT ![i] = @ \cup {Lower[node.name]}]
      <4>1. i \in Nat /\ sc \in [1..i -> SUBSET N]
        OBVIOUS
      <4>2. sc[i] \cup {Lower[node.name]} \in SUBSET N \/ i \notin 1..i
        BY <2>2, <4>1
      <4> HIDE DEF i
      <4>3. e \in [1..i -> SUBSET N]
        BY <4>1, <4>2
      <4>4. e \in Seq(SUBSET N)
        <5> HIDE DEF e
        <5> QED  BY <4>1, <4>3
      <4> QED  BY <4>4 DEF i
    <3>2. AddCTE(c, Lower[node.name]) = c \/ AddCTE(c, Lower[node.name]) = Coll(d, rc, tb)
      BY <2>1, AddCTEOf
    <3> HIDE DEF d
    <3> QED  BY <1>2, <3>1, <3>2
  <2>7. EnterTable(c, node) \in X
    <3>1. EnterTable(c, node) = c \/ EnterTable(c, node) = Coll(sc, rc, tb \cup {Resolve(node)})
      BY <2>1, EnterTableOf
    <3>2. tb \cup {Resolve(node)} \in SUBSET T
      BY <2>2
    <3> QED  BY <1>2, <3>1, <3>2
  <2>8. EnterCTE(c, node) \in X /\ LeaveCTE(c, node) \in X
    BY <2>6, Zenon DEF EnterCTE, LeaveCTE
  <2>9. Enter(c, node) \in X
    BY <2>3, <2>4, <2>7, <2>8 DEF Enter
  <2>10. Leave(c, node) \in X
    BY <2>3, <2>5, <2>8 DEF Leave
  <2> QED  BY <2>9, <2>10, Zenon DEF Turn, node
<1>4. Collector \in X
  <2>1. Collector = Coll(<< >>, << >>, {})
    BY DEF Collector, Coll
  <2>2. << >> \in Seq(SUBSET N) /\ << >> \in Seq(R) /\ {} \in SUBSET T
    <3> HIDE DEF N, R, T
    <3> QED  OBVIOUS
  <2> HIDE DEF N, R, T, X
  <2> QED  BY <1>2, <2>1, <2>2
<1> HIDE DEF N, R, T, X
<1>5. step \in Steps(n, X)
  BY <1>3 DEF Steps
<1>6. PICK f \in [0..n -> X] : Follows(f, n, Collector, step)
  <2> HIDE DEF step, n
  <2> QED  BY <1>1, <1>4, <1>5, Recursion
<1>7. f[0] = Collector /\ \A k \in 1..n : f[k] = Turn(w, k, f[k - 1])
  <2>1. ASSUME NEW k \in 1..n PROVE f[k] = Turn(w, k, f[k - 1])
    <3>1. k - 1 \in 0..n
      BY <1>1
    <3>2. f[k - 1] \in X /\ f[k] = step[k][f[k - 1]]
      BY <1>6, <3>1, Zenon DEF Follows
    <3>3. \A c \in X : step[k][c] = Turn(w, k, c)
      OBVIOUS
    <3> HIDE DEF step
    <3> QED  BY <3>2, <3>3, Zenon
  <2> QED  BY <1>6, <2>1 DEF Follows
<1>8. f = Body(f)
  BY <1>1, <1>6, <1>7 DEF Turn
<1>9. ASSUME NEW g, g = Body(g) PROVE g = f
  <2> DEFINE h == Body(g)
  <2>1. DOMAIN h = 0..n /\ h[0] = Collector /\ \A k \in 1..n : h[k] = Turn(w, k, g[k - 1])
    BY <1>1 DEF Turn
  <2>2. h = [k \in DOMAIN h |-> h[k]]
    OBVIOUS
  <2> HIDE DEF h
  <2>3. g = h
    BY <1>9 DEF h
  <2> DEFINE P == {k \in 0..n : h[k] = f[k]}
  <2>4. 0 \in P
    BY <1>1, <1>7, <2>1
  <2>5. ASSUME NEW k \in 1..n, k - 1 \in P PROVE k \in P
    BY <1>7, <2>1, <2>3, <2>5
  <2>6. \A k \in 0..n : k \in P
    <3> HIDE DEF P, n
    <3> QED  BY <2>4, <2>5, <1>1, Induction
  <2> QED  BY <1>6, <2>1, <2>2, <2>3, <2>6
<1>10. Visitor(w) = f
  <2> DEFINE h == CHOOSE g : g = Body(g)
  <2>1. h = f
    BY <1>8, <1>9
  <2>2. Visitor(w) = h
    BY DEF Visitor
  <2> QED  BY <2>1, <2>2
<1> QED  BY <1>7, <1>10

\* After the last call nothing is open, so that both stacks are empty.
LEMMA Extracted ==
  ASSUME NEW w \in Walks
  PROVE  /\ ExtractTables(w).tables = TablesOf(w, FALSE)
         /\ ExtractTables(w).scopes = << >> /\ ExtractTables(w).recursive = << >>
<1> DEFINE n == Len(w)
           f == Visitor(w)
           P == {k \in 0..n : After(w, k, f[k])}
<1>1. n \in Nat /\ Open(w, 0) = {} /\ Open(w, n) = {}
  BY OpenSteps
<1>2. f[0] = Collector /\ \A k \in 1..n : f[k] = Turn(w, k, f[k - 1])
  BY VisitorTurns
<1> HIDE DEF f
<1>3. 0 \in P
  <2>1. Within(w, "block", 0) = {} /\ Within(w, "with", 0) = {}
    BY <1>1 DEF Within
  <2>2. << >> \in Seq(Nat) /\ Stack(<< >>, {})
    BY DEF Stack
  <2>3. TablesBy(w, 0) = {}
    BY DEF TablesBy, Entered
  <2>4. \A G : Images(<< >>, G) = << >>
    BY DEF Images
  <2>5. Collector = Holds(w, 0, << >>, << >>)
    BY <2>3, <2>4 DEF Holds, Coll, Collector
  <2>6. After(w, 0, f[0])
    BY <1>2, <2>1, <2>2, <2>5, Zenon DEF After
  <2> QED  BY <1>1, <2>6
<1>4. ASSUME NEW k \in 1..n, k - 1 \in P PROVE k \in P
  <2>1. After(w, k - 1, f[k - 1]) /\ f[k] = Turn(w, k, f[k - 1])
    BY <1>2, <1>4
  <2>2. After(w, k, f[k])
    BY <2>1, BlockTurn, WithTurn, CTETurn, TableTurn, OtherTurn
  <2> QED  BY <2>2
<1>5. n \in P
  <2> HIDE DEF P, n
  <2> QED  BY <1>1, <1>3, <1>4, Induction
<1>6. PICK b, s \in Seq(Nat) : Stack(b, {}) /\ Stack(s, {}) /\ f[n] = Holds(w, n, b, s)
  <2>1. Within(w, "block", n) = {} /\ Within(w, "with", n) = {}
    BY <1>1 DEF Within
  <2> QED  BY <1>5, <2>1 DEF After
<1>7. b = << >> /\ s = << >>
  <2>1. Len(b) = 0 /\ Len(s) = 0
    BY <1>6 DEF Stack
  <2> QED  BY <2>1
<1>8. TablesBy(w, n) = TablesOf(w, FALSE)
  <2>1. \A j \in Entered(w, "table") : j <= n
    BY <1>1 DEF Entered
  <2> QED  BY <2>1, Zenon DEF TablesBy, TablesOf, HiddenName
<1>9. f[n] = Coll(<< >>, << >>, TablesOf(w, FALSE))
  <2>1. Images(<< >>, Scoped(w, n)) = << >> /\ Images(<< >>, Recursives(w)) = << >>
    BY DEF Images
  <2>2. f[n] = Holds(w, n, << >>, << >>)
    BY <1>6, <1>7
  <2>3. f[n] = Coll(<< >>, << >>, TablesBy(w, n))
    BY <2>1, <2>2 DEF Holds
  <2> QED  BY <1>8, <2>3, Zenon
<1> QED  BY <1>9 DEF ExtractTables, Coll, f

\* A name that is an expression as it is spelled is one in lower case too, and
\* where no expression differs from a table in case alone the two agree.
LEMMA TwoSpellings ==
  ASSUME NEW w
  PROVE  /\ TablesOf(w, FALSE) \subseteq TablesOf(w, TRUE)
         /\ OneSpelling(w) => TablesOf(w, FALSE) = TablesOf(w, TRUE)
<1>1. ASSUME NEW k, Hidden(w, k, TRUE) PROVE Hidden(w, k, FALSE)
  <2>1. \A m : SameName(w, m, k, TRUE) => SameName(w, m, k, FALSE)
    BY DEF SameName
  <2> QED  BY <1>1, <2>1, Zenon DEF Hidden
<1>2. ASSUME OneSpelling(w), NEW k \in Entered(w, "table"), Hidden(w, k, FALSE)
      PROVE  Hidden(w, k, TRUE)
  BY <1>2, Zenon DEF Hidden, OneSpelling
<1> QED  BY <1>1, <1>2, Zenon DEF TablesOf

\* Whatever WITH clauses a statement nests, the tables that ExtractTables finds
\* are those the statement names in MySQL's scoping, and both stacks are empty
\* at the end (tables.go:67-120).  A server that compares names as they are
\* spelled reads all of these, and others only where an expression and a table
\* differ in case alone.
THEOREM TablesReal == Spec => []TablesAreReal
<1>1. Computed => TablesAreReal
  BY Extracted, TwoSpellings DEF Computed, TablesAreReal, Answered
<1> QED  BY <1>1, ComputedAlways, PTL

-----------------------------------------------------------------------------
\* A function that takes the steps from the start, as far as it stays in X.
Repeats(g, n, X, first, step) ==
  /\ DOMAIN g = 0..n /\ g = [i \in DOMAIN g |-> g[i]] /\ g[0] = first
  /\ \A i \in 1..n : g[i - 1] \in X => g[i] = step[i][g[i - 1]]

\* Two functions that take the same steps from the same start are one.
LEMMA SameSteps ==
  ASSUME NEW n \in Nat, NEW X, NEW first \in X, NEW step \in Steps(n, X),
         NEW f \in [0..n -> X], Follows(f, n, first, step),
         NEW g, Repeats(g, n, X, first, step)
  PROVE  g = f
<1>0. /\ DOMAIN g = 0..n /\ g = [i \in DOMAIN g |-> g[i]] /\ g[0] = first
      /\ \A i \in 1..n : g[i - 1] \in X => g[i] = step[i][g[i - 1]]
  BY Zenon DEF Repeats
<1> DEFINE P == {i \in 0..n : g[i] = f[i]}
<1>1. 0 \in P
  BY <1>0 DEF Follows
<1>2. ASSUME NEW i \in 1..n, i - 1 \in P PROVE i \in P
  <2>1. i - 1 \in 0..n /\ i \in 0..n /\ g[i - 1] = f[i - 1]
    BY <1>2
  <2>2. f[i - 1] \in X
    BY <2>1
  <2>3. f[i] = step[i][f[i - 1]] /\ g[i] = step[i][g[i - 1]]
    BY <1>0, <2>1, <2>2, Zenon DEF Follows
  <2> QED  BY <2>1, <2>3
<1>3. \A i \in 0..n : i \in P
  <2> HIDE DEF P
  <2> QED  BY <1>1, <1>2, Induction
<1> QED  BY <1>0, <1>3

\* How many of the first k numbers are in a set.
Count(P, k) == Cardinality(P \cap (1..k))

\* Counting one number after the other.
LEMMA CountSteps ==
  ASSUME NEW P, NEW k \in Nat
  PROVE  /\ Count(P, k) \in Nat /\ IsFiniteSet(P \cap (1..k))
         /\ k = 0 => Count(P, k) = 0
         /\ k > 0 => Count(P, k) = Count(P, k - 1) + (IF k \in P THEN 1 ELSE 0)
<1>1. \A j \in Nat : IsFiniteSet(P \cap (1..j)) /\ Count(P, j) \in Nat
  <2> TAKE j \in Nat
  <2>1. IsFiniteSet(1..j)
    BY FS_Interval
  <2>2. IsFiniteSet(P \cap (1..j))
    BY <2>1, FS_Subset
  <2> QED  BY <2>2, FS_CardinalityType DEF Count
<1>2. ASSUME k = 0 PROVE Count(P, k) = 0
  <2>1. P \cap (1..k) = {}
    BY <1>2
  <2> QED  BY <2>1, FS_EmptySet DEF Count
<1>3. ASSUME k > 0 PROVE Count(P, k) = Count(P, k - 1) + (IF k \in P THEN 1 ELSE 0)
  <2> DEFINE Q == P \cap (1..(k - 1))
  <2>1. k - 1 \in Nat /\ k \notin Q /\ IsFiniteSet(Q)
    BY <1>1, <1>3
  <2>2. CASE k \in P
    <3>1. P \cap (1..k) = Q \cup {k}
      BY <1>3, <2>2
    <3>2. Cardinality(Q \cup {k}) = Cardinality(Q) + 1
      <4> HIDE DEF Q
      <4> QED  BY <2>1, FS_AddElement
    <3> QED  BY <2>2, <3>1, <3>2 DEF Count
  <2>3. CASE k \notin P
    <3>1. P \cap (1..k) = Q
      BY <1>3, <2>3
    <3>2. Count(P, k - 1) \in Nat
      BY <1>1, <2>1
    <3> QED  BY <2>3, <3>1, <3>2 DEF Count
  <2> QED  BY <2>2, <2>3
<1> QED  BY <1>1, <1>2, <1>3

\* How many numbers of a sequence are at most d.
AtMost(s, d) == {i \in 1..Len(s) : s[i] <= d}
Below(s, d) == Cardinality(AtMost(s, d))

\* The sequence r is s and one more number, at place p.
Put(r, s, p, x) == /\ r \in Seq(Int) /\ Len(r) = Len(s) + 1
                   /\ p \in 1..(Len(s) + 1) /\ r[p] = x
                   /\ \A i \in 1..(p - 1) : r[i] = s[i]
                   /\ \A i \in p..Len(s) : r[i + 1] = s[i]

\* The number is counted once, at whatever place it was put.
LEMMA BelowPut ==
  ASSUME NEW s \in Seq(Int), NEW x \in Int, NEW p, NEW r, Put(r, s, p, x), NEW d \in Int
  PROVE  Below(r, d) = Below(s, d) + (IF x <= d THEN 1 ELSE 0)
<1> DEFINE A == AtMost(s, d)
           B == {i \in 1..Len(r) : i # p /\ r[i] <= d}
           Up(i) == IF i < p THEN i ELSE i + 1
           f == [i \in A |-> Up(i)]
<1>0. /\ Len(s) \in Nat /\ p \in Int
      /\ r \in Seq(Int) /\ Len(r) = Len(s) + 1
      /\ p \in 1..(Len(s) + 1) /\ r[p] = x
      /\ \A i \in 1..(p - 1) : r[i] = s[i]
      /\ \A i \in p..Len(s) : r[i + 1] = s[i]
  BY DEF Put
<1>1. IsFiniteSet(A) /\ IsFiniteSet(B) /\ Cardinality(A) \in Nat
  <2>1. IsFiniteSet(1..Len(s)) /\ IsFiniteSet(1..Len(r))
    BY <1>0, FS_Interval
  <2>2. A \subseteq 1..Len(s) /\ B \subseteq 1..Len(r)
    BY DEF AtMost
  <2> HIDE DEF A, B
  <2> QED  BY <2>1, <2>2, FS_Subset, FS_CardinalityType
<1>2. f \in Injection(A, B)
  <2>1. \A i \in A : i \in Nat /\ i >= 1 /\ i <= Len(s) /\ s[i] <= d
    BY DEF AtMost
  <2>2. ASSUME NEW i \in A PROVE Up(i) \in B
    <3>1. CASE i < p
      <4>1. i \in 1..(p - 1) /\ i \in 1..Len(r)
        BY <1>0, <2>1, <3>1
      <4>2. r[i] = s[i]
        BY <1>0, <4>1
      <4> QED  BY <2>1, <3>1, <4>1, <4>2
    <3>2. CASE ~(i < p)
      <4>1. i \in p..Len(s) /\ i + 1 \in 1..Len(r) /\ i + 1 # p
        BY <1>0, <2>1, <3>2
      <4>2. r[i + 1] = s[i]
        BY <1>0, <4>1
      <4> QED  BY <2>1, <3>2, <4>1, <4>2
    <3> QED  BY <3>1, <3>2
  <2>3. f \in [A -> B]
    <3> HIDE DEF A, B, Up
    <3> QED  BY <2>2
  <2>4. \A i, j \in A : f[i] = f[j] => i = j
    <3> TAKE i, j \in A
    <3>1. f[i] = Up(i) /\ f[j] = Up(j)
      OBVIOUS
    <3>2. i \in Nat /\ j \in Nat
      BY <2>1
    <3> HIDE DEF f, A
    <3> QED  BY <1>0, <3>1, <3>2
  <2> HIDE DEF A, B, f
  <2> QED  BY <2>3, <2>4 DEF Injection, IsInjective
<1>3. f \in Surjection(A, B)
  <2>1. ASSUME NEW j \in B PROVE \E i \in A : f[i] = j
    <3>1. CASE j < p
      <4>1. j \in 1..(p - 1) /\ j \in 1..Len(s)
        BY <1>0, <3>1
      <4>2. r[j] = s[j] /\ r[j] <= d
        BY <1>0, <4>1
      <4>3. j \in A /\ Up(j) = j
        BY <3>1, <4>1, <4>2 DEF AtMost
      <4> QED  BY <4>3
    <3>2. CASE ~(j < p)
      <4>1. j - 1 \in p..Len(s) /\ j - 1 \in 1..Len(s) /\ j - 1 + 1 = j
        BY <1>0, <3>2
      <4>2. r[j] = s[j - 1] /\ r[j] <= d
        <5>1. r[j - 1 + 1] = s[j - 1]
          BY <1>0, <4>1
        <5> QED  BY <4>1, <5>1
      <4>3. j - 1 \in A
        BY <4>1, <4>2 DEF AtMost
      <4>4. Up(j - 1) = j
        <5>1. ~(j - 1 < p)
          BY <1>0, <4>1
        <5> QED  BY <4>1, <5>1
      <4> QED  BY <4>3, <4>4
    <3> QED  BY <3>1, <3>2
  <2>2. f \in [A -> B]
    BY <1>2 DEF Injection
  <2> HIDE DEF A, B, f
  <2> QED  BY <2>1, <2>2 DEF Surjection
<1>4. Cardinality(A) = Cardinality(B)
  <2> HIDE DEF A, B, f
  <2> QED  BY <1>1, <1>2, <1>3, FS_Injection
<1>5. CASE x <= d
  <2>1. AtMost(r, d) = B \cup {p} /\ p \notin B
    BY <1>0, <1>5 DEF AtMost
  <2>2. Cardinality(B \cup {p}) = Cardinality(B) + 1
    <3> HIDE DEF B
    <3> QED  BY <1>1, <2>1, FS_AddElement
  <2> QED  BY <1>4, <1>5, <2>1, <2>2 DEF Below
<1>6. CASE ~(x <= d)
  <2>1. AtMost(r, d) = B
    BY <1>0, <1>6 DEF AtMost
  <2> QED  BY <1>1, <1>4, <1>6, <2>1 DEF Below
<1> QED  BY <1>5, <1>6

\* A number at the end.
LEMMA BelowAppend ==
  ASSUME NEW s \in Seq(Int), NEW x \in Int, NEW d \in Int
  PROVE  Below(Append(s, x), d) = Below(s, d) + (IF x <= d THEN 1 ELSE 0)
<1> DEFINE r == Append(s, x)
           p == Len(s) + 1
<1>1. r \in Seq(Int) /\ Len(r) = Len(s) + 1 /\ p \in 1..(Len(s) + 1) /\ r[p] = x
  OBVIOUS
<1>2. \A i \in 1..(p - 1) : r[i] = s[i]
  OBVIOUS
<1>3. \A i \in p..Len(s) : r[i + 1] = s[i]
  OBVIOUS
<1> HIDE DEF r, p
<1>5. Put(r, s, p, x)
  BY <1>1, <1>2, <1>3 DEF Put
<1>4. Below(r, d) = Below(s, d) + (IF x <= d THEN 1 ELSE 0)
  BY <1>5, BelowPut
<1> QED  BY <1>4 DEF r

\* There is such a number.
LEMMA BelowNat ==
  ASSUME NEW s \in Seq(Int), NEW d \in Int
  PROVE  IsFiniteSet(AtMost(s, d)) /\ Below(s, d) \in Nat
<1>1. AtMost(s, d) \in SUBSET (1..Len(s)) /\ IsFiniteSet(1..Len(s))
  BY FS_Interval DEF AtMost
<1>2. IsFiniteSet(AtMost(s, d))
  BY <1>1, FS_Subset
<1> QED  BY <1>2, FS_CardinalityType DEF Below

\* None of nothing.
LEMMA BelowNothing == \A d \in Int : Below(<< >>, d) = 0
<1> TAKE d \in Int
<1>1. AtMost(<< >>, d) = {}
  BY DEF AtMost
<1> QED  BY <1>1, FS_EmptySet DEF Below

\* No number of the sequence is before a smaller one.
Rising(s) == \A i, j \in 1..Len(s) : i <= j => s[i] <= s[j]

\* The place of Insert: all before it are at most x, and the next is greater.
LEMMA PlaceOf ==
  ASSUME NEW s \in Seq(Int), NEW x \in Int, Rising(s)
  PROVE  LET p == Min({i \in 1..(Len(s) + 1) : i <= Len(s) => s[i] > x})
         IN  /\ p \in 1..(Len(s) + 1)
             /\ \A i \in 1..(p - 1) : s[i] <= x
             /\ \A i \in p..Len(s) : s[i] > x
<1> DEFINE P == {i \in 1..(Len(s) + 1) : i <= Len(s) => s[i] > x}
           p == Min(P)
<1>1. P \in SUBSET Nat /\ Len(s) + 1 \in P
  OBVIOUS
<1>2. \E a \in P : \A b \in P : a <= b
  <2> HIDE DEF P
  <2> QED  BY <1>1, LeastNumber
<1>3. p \in P /\ \A b \in P : p <= b
  <2> HIDE DEF P
  <2> QED  BY <1>2 DEF Min
<1>4. p \in 1..(Len(s) + 1) /\ (p <= Len(s) => s[p] > x)
  BY <1>3
<1>5. ASSUME NEW i \in 1..(p - 1) PROVE s[i] <= x
  <2>1. i \in 1..Len(s) /\ i < p
    BY <1>4
  <2>2. i \notin P
    <3> HIDE DEF P
    <3> QED  BY <1>3, <1>4, <2>1
  <2>3. s[i] \in Int
    BY <2>1
  <2> HIDE DEF p
  <2> QED  BY <2>1, <2>2, <2>3
<1>6. ASSUME NEW i \in p..Len(s) PROVE s[i] > x
  <2> HIDE DEF p
  <2>1. p \in 1..Len(s) /\ i \in 1..Len(s) /\ p <= i
    BY <1>4
  <2>2. s[p] \in Int /\ s[i] \in Int /\ s[p] <= s[i]
    BY <2>1 DEF Rising
  <2> QED  BY <1>4, <2>1, <2>2
<1> HIDE DEF P
<1> QED  BY <1>4, <1>5, <1>6 DEF P

\* One sequence after another.
LEMMA JoinOf ==
  ASSUME NEW s \in Seq(Int), NEW t \in Seq(Int)
  PROVE  /\ s \o t \in Seq(Int) /\ Len(s \o t) = Len(s) + Len(t)
         /\ \A i \in 1..Len(s) : (s \o t)[i] = s[i]
         /\ \A i \in 1..Len(t) : (s \o t)[Len(s) + i] = t[i]
<1>1. s \o t \in Seq(Int) /\ Len(s \o t) = Len(s) + Len(t)
  OBVIOUS
<1>2. ASSUME NEW i \in 1..Len(s) PROVE (s \o t)[i] = s[i]
  OBVIOUS
<1>3. ASSUME NEW i \in 1..Len(t) PROVE (s \o t)[Len(s) + i] = t[i]
  OBVIOUS
<1> QED  BY <1>1, <1>2, <1>3

\* Insert puts one number more in its place.
LEMMA Inserted ==
  ASSUME NEW s \in Seq(Int), NEW x \in Int, Rising(s)
  PROVE  /\ Insert(s, x) \in Seq(Int) /\ Len(Insert(s, x)) = Len(s) + 1
         /\ Rising(Insert(s, x))
         /\ \A d \in Int : Below(Insert(s, x), d) = Below(s, d) + (IF x <= d THEN 1 ELSE 0)
<1> DEFINE p == Min({i \in 1..(Len(s) + 1) : i <= Len(s) => s[i] > x})
           r == InsertAt(s, p, x)
<1>1. /\ p \in 1..(Len(s) + 1)
      /\ \A i \in 1..(p - 1) : s[i] <= x
      /\ \A i \in p..Len(s) : s[i] > x
  BY PlaceOf
<1>2. Insert(s, x) = r
  BY DEF Insert
<1> HIDE DEF p
<1>3. /\ r \in Seq(Int) /\ Len(r) = Len(s) + 1 /\ r[p] = x
      /\ \A i \in 1..(p - 1) : r[i] = s[i]
      /\ \A i \in p..Len(s) : r[i + 1] = s[i]
  <2> DEFINE a == SubSeq(s, 1, p - 1)
             c == SubSeq(s, p, Len(s))
             b == a \o <<x>>
  <2>1. a \in Seq(Int) /\ Len(a) = p - 1 /\ \A i \in 1..(p - 1) : a[i] = s[i]
    BY <1>1
  <2>2. c \in Seq(Int) /\ Len(c) = Len(s) - p + 1 /\ \A i \in 1..(Len(s) - p + 1) : c[i] = s[p + i - 1]
    BY <1>1
  <2>3. r = b \o c
    BY DEF InsertAt
  <2>4. b \in Seq(Int) /\ Len(b) = p /\ b[p] = x /\ \A i \in 1..(p - 1) : b[i] = s[i]
    <3> DEFINE e == <<x>>
    <3>1. e \in Seq(Int) /\ Len(e) = 1 /\ e[1] = x
      OBVIOUS
    <3> HIDE DEF a, e
    <3>2. /\ a \o e \in Seq(Int) /\ Len(a \o e) = Len(a) + Len(e)
          /\ \A i \in 1..Len(a) : (a \o e)[i] = a[i]
          /\ \A i \in 1..Len(e) : (a \o e)[Len(a) + i] = e[i]
      BY <2>1, <3>1, JoinOf
    <3>3. (a \o e)[Len(a) + 1] = e[1]
      BY <3>1, <3>2
    <3>4. a \o e = b
      BY DEF e
    <3> HIDE DEF b
    <3>5. Len(b) = p /\ b[p] = x
      BY <1>1, <2>1, <3>1, <3>2, <3>3, <3>4
    <3>6. \A i \in 1..(p - 1) : b[i] = s[i]
      BY <2>1, <3>2, <3>4
    <3> QED  BY <3>2, <3>4, <3>5, <3>6
  <2> HIDE DEF b, c, r
  <2>11. /\ b \o c \in Seq(Int) /\ Len(b \o c) = Len(b) + Len(c)
         /\ \A i \in 1..Len(b) : (b \o c)[i] = b[i]
         /\ \A i \in 1..Len(c) : (b \o c)[Len(b) + i] = c[i]
    <3>1. b \in Seq(Int) /\ c \in Seq(Int)
      BY <2>2, <2>4
    <3> QED  BY <3>1, JoinOf
  <2>12. /\ r \in Seq(Int) /\ Len(r) = Len(b) + Len(c)
         /\ \A i \in 1..Len(b) : r[i] = b[i]
         /\ \A i \in 1..Len(c) : r[Len(b) + i] = c[i]
    BY <2>3, <2>11, Zenon
  <2>5. r \in Seq(Int) /\ Len(r) = Len(s) + 1
    BY <1>1, <2>2, <2>4, <2>12
  <2>6. \A i \in 1..p : r[i] = b[i]
    BY <2>4, <2>12
  <2>7. ASSUME NEW i \in p..Len(s) PROVE r[i + 1] = s[i]
    <3>1. i - p + 1 \in 1..(Len(s) - p + 1) /\ i + 1 = p + (i - p + 1) /\ p + (i - p + 1) - 1 = i
      BY <1>1
    <3>2. r[p + (i - p + 1)] = c[i - p + 1]
      BY <2>2, <2>4, <2>12, <3>1
    <3>3. c[i - p + 1] = s[p + (i - p + 1) - 1]
      BY <2>2, <3>1
    <3> QED  BY <3>1, <3>2, <3>3
  <2>8. \A i \in 1..(p - 1) : r[i] = s[i]
    BY <1>1, <2>4, <2>6
  <2>9. r[p] = x
    BY <1>1, <2>4, <2>6
  <2> QED  BY <2>5, <2>7, <2>8, <2>9
<1> HIDE DEF r
<1>4. Rising(r)
  <2> SUFFICES ASSUME NEW i \in 1..Len(r), NEW j \in 1..Len(r), i <= j PROVE r[i] <= r[j]
    BY DEF Rising
  <2>0. r[i] \in Int /\ r[j] \in Int
    BY <1>3
  <2>1. \A k \in 1..Len(r) : k < p => k \in 1..(p - 1) /\ k \in 1..Len(s)
    BY <1>1, <1>3
  <2>2. \A k \in 1..Len(r) : k > p => /\ k - 1 \in p..Len(s) /\ k - 1 \in 1..Len(s)
                                      /\ r[k] = s[k - 1]
    <3> TAKE k \in 1..Len(r)
    <3> HAVE k > p
    <3>1. k - 1 \in p..Len(s) /\ k - 1 \in 1..Len(s) /\ k - 1 + 1 = k
      BY <1>1, <1>3
    <3>2. r[k - 1 + 1] = s[k - 1]
      BY <1>3, <3>1
    <3> QED  BY <3>1, <3>2
  <2>3. i < p \/ i = p \/ i > p
    BY <1>1
  <2>4. j < p \/ j = p \/ j > p
    BY <1>1
  <2>5. CASE i < p /\ j < p
    <3>1. r[i] = s[i] /\ r[j] = s[j] /\ i \in 1..Len(s) /\ j \in 1..Len(s)
      BY <1>3, <2>1, <2>5
    <3> QED  BY <3>1 DEF Rising
  <2>6. CASE i < p /\ j = p
    BY <1>1, <1>3, <2>1, <2>6
  <2>7. CASE i < p /\ j > p
    <3>1. r[i] = s[i] /\ s[i] <= x /\ r[j] = s[j - 1] /\ s[j - 1] > x /\ s[j - 1] \in Int
      <4>1. r[i] = s[i] /\ s[i] <= x
        BY <1>1, <1>3, <2>1, <2>7
      <4>2. j - 1 \in p..Len(s) /\ j - 1 \in 1..Len(s) /\ r[j] = s[j - 1]
        BY <2>2, <2>7
      <4>3. s[j - 1] > x
        BY <1>1, <4>2
      <4> QED  BY <4>1, <4>2, <4>3
    <3> QED  BY <2>0, <3>1
  <2>8. CASE i = p /\ j = p
    BY <2>0, <2>8
  <2>9. CASE i = p /\ j > p
    <3>1. r[j] = s[j - 1] /\ j - 1 \in p..Len(s)
      BY <2>2, <2>9
    <3>2. s[j - 1] > x /\ r[i] = x
      BY <1>1, <1>3, <2>9, <3>1
    <3> QED  BY <2>0, <3>1, <3>2
  <2>10. CASE i > p /\ j > p
    <3>1. r[i] = s[i - 1] /\ r[j] = s[j - 1] /\ i - 1 \in 1..Len(s) /\ j - 1 \in 1..Len(s)
      BY <2>2, <2>10
    <3>2. i - 1 <= j - 1
      OBVIOUS
    <3> QED  BY <3>1, <3>2 DEF Rising
  <2>11. ~(i = p /\ j < p) /\ ~(i > p /\ j < p) /\ ~(i > p /\ j = p)
    BY <1>1
  <2> QED  BY <2>3, <2>4, <2>5, <2>6, <2>7, <2>8, <2>9, <2>10, <2>11
<1>5. \A d \in Int : Below(r, d) = Below(s, d) + (IF x <= d THEN 1 ELSE 0)
  <2> TAKE d \in Int
  <2>1. r \in Seq(Int) /\ Len(r) = Len(s) + 1 /\ r[p] = x
    BY <1>3
  <2>2. \A i \in 1..(p - 1) : r[i] = s[i]
    BY <1>3
  <2>3. \A i \in p..Len(s) : r[i + 1] = s[i]
    BY <1>3
  <2>4. p \in 1..(Len(s) + 1)
    BY <1>1
  <2>5. Put(r, s, p, x)
    BY <2>1, <2>2, <2>3, <2>4 DEF Put
  <2> QED  BY <2>5, BelowPut
<1> QED  BY <1>2, <1>3, <1>4, <1>5

SortedSeqs == {t \in Seq(Int) : Rising(t)}

\* The loop of Ascending, turn by turn.
AscendingLoop(f, s) ==
  /\ f \in [0..Len(s) -> SortedSeqs]
  /\ f[0] = << >>
  /\ \A i \in 1..Len(s) : f[i] = Insert(f[i - 1], s[i])
  /\ Ascending(s) = f[Len(s)]

\* There is a function that goes through the turns.
LEMMA AscendingTurns ==
  ASSUME NEW s \in Seq(Int)
  PROVE  \E f : AscendingLoop(f, s)
<1> DEFINE n == Len(s)
           step == [i \in 1..n |-> [t \in SortedSeqs |-> Insert(t, s[i])]]
           Body(f) == [i \in 0..n |-> IF i = 0 THEN << >> ELSE Insert(f[i - 1], s[i])]
<1>1. n \in Nat /\ << >> \in SortedSeqs
  BY DEF SortedSeqs, Rising
<1>2. step \in Steps(n, SortedSeqs)
  <2>1. ASSUME NEW i \in 1..n, NEW t \in SortedSeqs PROVE Insert(t, s[i]) \in SortedSeqs
    <3>1. t \in Seq(Int) /\ Rising(t) /\ s[i] \in Int
      BY DEF SortedSeqs
    <3>2. Insert(t, s[i]) \in Seq(Int) /\ Rising(Insert(t, s[i]))
      BY <3>1, Inserted
    <3> QED  BY <3>2 DEF SortedSeqs
  <2> HIDE DEF n
  <2> QED  BY <2>1 DEF Steps
<1>3. PICK f \in [0..n -> SortedSeqs] : Follows(f, n, << >>, step)
  <2> HIDE DEF step, n
  <2> QED  BY <1>1, <1>2, Recursion
<1>4. f[0] = << >> /\ \A i \in 1..n : f[i] = Insert(f[i - 1], s[i])
  <2>1. ASSUME NEW i \in 1..n PROVE f[i] = Insert(f[i - 1], s[i])
    <3>1. i - 1 \in 0..n
      BY <1>1
    <3>2. f[i - 1] \in SortedSeqs
      BY <1>3, <3>1
    <3>3. f[i] = step[i][f[i - 1]]
      BY <1>3, Zenon DEF Follows
    <3>4. \A t \in SortedSeqs : step[i][t] = Insert(t, s[i])
      OBVIOUS
    <3> HIDE DEF step
    <3> QED  BY <3>2, <3>3, <3>4, Zenon
  <2> QED  BY <1>3, <2>1 DEF Follows
<1>5. f = Body(f)
  <2> DEFINE h == Body(f)
  <2>1. DOMAIN h = 0..n /\ h = [i \in DOMAIN h |-> h[i]] /\ h[0] = << >>
    BY <1>1
  <2>2. ASSUME NEW i \in 1..n PROVE h[i] = step[i][f[i - 1]]
    <3>1. i \in 0..n /\ i # 0 /\ i - 1 \in 0..n
      BY <1>1
    <3>2. f[i - 1] \in SortedSeqs
      BY <1>3, <3>1
    <3>3. h[i] = Insert(f[i - 1], s[i])
      BY <3>1
    <3> HIDE DEF h
    <3> QED  BY <3>2, <3>3
  <2>3. \A i \in 0..n : h[i] = f[i]
    <3> TAKE i \in 0..n
    <3>1. CASE i = 0
      BY <1>4, <2>1, <3>1
    <3>2. CASE i # 0
      <4>1. i \in 1..n
        BY <1>1, <3>2
      <4> QED  BY <1>3, <2>2, <4>1, Zenon DEF Follows
    <3> QED  BY <3>1, <3>2
  <2>4. DOMAIN f = 0..n /\ f = [i \in DOMAIN f |-> f[i]]
    BY <1>3
  <2> HIDE DEF h
  <2>5. f = h
    BY <2>1, <2>3, <2>4
  <2> QED  BY <2>5 DEF h
<1>6. ASSUME NEW g, g = Body(g) PROVE g = f
  <2> DEFINE h == Body(g)
  <2>1. DOMAIN h = 0..n /\ h = [i \in DOMAIN h |-> h[i]] /\ h[0] = << >>
    BY <1>1
  <2>2. ASSUME NEW i \in 1..n, h[i - 1] \in SortedSeqs PROVE h[i] = step[i][h[i - 1]]
    <3>1. i \in 0..n /\ i # 0
      BY <1>1
    <3>2. h[i] = Insert(g[i - 1], s[i])
      BY <3>1
    <3>3. g = h
      BY <1>6
    <3>4. \A t \in SortedSeqs : step[i][t] = Insert(t, s[i])
      OBVIOUS
    <3> HIDE DEF h, step
    <3> QED  BY <2>2, <3>2, <3>3, <3>4
  <2> HIDE DEF h, step, n
  <2>3. Repeats(h, n, SortedSeqs, << >>, step)
    BY <2>1, <2>2, Zenon DEF Repeats
  <2>4. h = f
    BY <1>1, <1>2, <1>3, <2>3, SameSteps
  <2> QED  BY <1>6, <2>4 DEF h
<1>7. Ascending(s) = f[n]
  <2> DEFINE h == CHOOSE g : g = Body(g)
  <2>1. h = f
    BY <1>5, <1>6
  <2>2. Ascending(s) = h[n]
    BY DEF Ascending
  <2> QED  BY <2>1, <2>2
<1> QED  BY <1>3, <1>4, <1>7 DEF AscendingLoop

\* Ascending sorts: the same numbers, none before a smaller one.
LEMMA Sorted ==
  ASSUME NEW s \in Seq(Int)
  PROVE  /\ Ascending(s) \in Seq(Int) /\ Len(Ascending(s)) = Len(s)
         /\ Rising(Ascending(s))
         /\ \A d \in Int : Below(Ascending(s), d) = Below(s, d)
<1> DEFINE n == Len(s)
<1>7. PICK f : AscendingLoop(f, s)
  BY AscendingTurns, Zenon
<1>1. /\ f \in [0..n -> SortedSeqs] /\ f[0] = << >>
      /\ \A i \in 1..n : f[i] = Insert(f[i - 1], s[i])
      /\ Ascending(s) = f[n]
  BY <1>7, Zenon DEF AscendingLoop
<1>2. n \in Nat /\ n \in 0..n
  OBVIOUS
<1>3. \A i \in 0..n : f[i] \in Seq(Int) /\ Rising(f[i])
  BY <1>1 DEF SortedSeqs
<1>4. ASSUME NEW i \in 1..n
      PROVE  /\ Len(f[i]) = Len(f[i - 1]) + 1
             /\ \A d \in Int : Below(f[i], d) = Below(f[i - 1], d) + (IF s[i] <= d THEN 1 ELSE 0)
  <2>1. i - 1 \in 0..n /\ s[i] \in Int
    BY <1>2
  <2>2. f[i - 1] \in Seq(Int) /\ Rising(f[i - 1])
    BY <1>3, <2>1
  <2>3. f[i] = Insert(f[i - 1], s[i])
    BY <1>1
  <2> DEFINE t == f[i - 1]
             x == s[i]
  <2>4. t \in Seq(Int) /\ Rising(t) /\ x \in Int
    BY <2>1, <2>2
  <2> HIDE DEF t, x
  <2>5. /\ Len(Insert(t, x)) = Len(t) + 1
        /\ \A d \in Int : Below(Insert(t, x), d) = Below(t, d) + (IF x <= d THEN 1 ELSE 0)
    BY <2>4, Inserted
  <2> QED  BY <2>3, <2>5 DEF t, x
<1>5. \A i \in 0..n : i \in {j \in 0..n : Len(f[j]) = j}
  <2> DEFINE P == {j \in 0..n : Len(f[j]) = j}
  <2>1. 0 \in P
    BY <1>1, <1>2
  <2>2. ASSUME NEW i \in 1..n, i - 1 \in P PROVE i \in P
    BY <1>4, <2>2
  <2> HIDE DEF P, n
  <2>3. \A i \in 0..n : i \in P
    BY <1>2, <2>1, <2>2, Induction
  <2> QED  BY <2>3 DEF P
<1>6. ASSUME NEW d \in Int PROVE Below(f[n], d) = Below(s, d)
  <2> DEFINE Q == {i \in 1..n : s[i] <= d}
             P == {j \in 0..n : Below(f[j], d) = Count(Q, j)}
  <2>1. 0 \in P
    <3>1. Below(f[0], d) = 0
      BY <1>1, BelowNothing
    <3>2. Count(Q, 0) = 0
      <4> HIDE DEF Q
      <4> QED  BY CountSteps
    <3> QED  BY <1>2, <3>1, <3>2
  <2>2. ASSUME NEW i \in 1..n, i - 1 \in P PROVE i \in P
    <3>1. Below(f[i], d) = Below(f[i - 1], d) + (IF s[i] <= d THEN 1 ELSE 0)
      BY <1>4
    <3>2. i \in Nat /\ i > 0
      BY <1>2
    <3>3. Count(Q, i) = Count(Q, i - 1) + (IF i \in Q THEN 1 ELSE 0)
      <4> HIDE DEF Q
      <4> QED  BY <3>2, CountSteps
    <3>4. i \in Q <=> s[i] <= d
      OBVIOUS
    <3>5. Below(f[i - 1], d) = Count(Q, i - 1)
      BY <2>2
    <3> HIDE DEF Q
    <3> QED  BY <1>2, <3>1, <3>3, <3>4, <3>5
  <2>3. \A i \in 0..n : i \in P
    <3> HIDE DEF P, n
    <3> QED  BY <1>2, <2>1, <2>2, Induction
  <2>4. Below(f[n], d) = Count(Q, n)
    BY <1>2, <2>3
  <2>5. Q \cap (1..n) = AtMost(s, d)
    BY DEF AtMost
  <2> QED  BY <2>4, <2>5 DEF Count, Below
<1> QED  BY <1>1, <1>2, <1>3, <1>5, <1>6

\* The members of A with the number d, and those with at most d.
With(A, m, d) == {a \in A : m[a] = d}
UpTo(A, m, d) == {a \in A : m[a] <= d}

\* With is UpTo without what is up to the number before.
LEMMA Exactly ==
  ASSUME NEW A, IsFiniteSet(A), NEW m \in [A -> Int], NEW d \in Int
  PROVE  Cardinality(With(A, m, d)) = Cardinality(UpTo(A, m, d)) - Cardinality(UpTo(A, m, d - 1))
<1> DEFINE U == {a \in A : m[a] <= d}
           V == {a \in A : m[a] <= d - 1}
           E == {a \in A : m[a] = d}
<1>1. IsFiniteSet(U)
  <2>1. U \in SUBSET A
    OBVIOUS
  <2> HIDE DEF U
  <2> QED  BY <2>1, FS_Subset
<1>2. U \cap V = V
  BY SMT
<1>3. E = U \ V
  BY SMT
<1> HIDE DEF U, V, E
<1>4. Cardinality(U \ V) = Cardinality(U) - Cardinality(U \cap V)
  BY <1>1, FS_Difference
<1>5. Cardinality(E) = Cardinality(U) - Cardinality(V)
  BY <1>2, <1>3, <1>4
<1> QED  BY <1>5 DEF U, V, E, With, UpTo

\* The 95th percentile of sorted numbers: enough of them are up to it, not
\* enough up to any smaller number, and it is one of them.
LEMMA RankOf ==
  ASSUME NEW t \in Seq(Int), Rising(t), Len(t) > 0
  PROVE  LET v == t[P95Index(Len(t))]
         IN  /\ v \in Int
             /\ Below(t, v) * 100 >= 95 * Len(t)
             /\ \A d \in Int : d < v => ~(Below(t, d) * 100 >= 95 * Len(t))
             /\ Below(t, v - 1) < Below(t, v)
<1> DEFINE n == Len(t)
           k == P95Index(n)
           v == t[k]
<1>1. n \in Nat /\ n >= 1
  OBVIOUS
<1>2. k \in 1..n /\ k * 100 >= 95 * n /\ ~((k - 1) * 100 >= 95 * n)
  <2> HIDE DEF n
  <2> DEFINE q == (n * 95 + 99) \div 100
  <2>1. q \in Int /\ q * 100 <= n * 95 + 99 /\ n * 95 + 99 < (q + 1) * 100
    BY <1>1
  <2> HIDE DEF q
  <2>2. q >= 1 /\ q <= n /\ q * 100 >= 95 * n /\ ~((q - 1) * 100 >= 95 * n)
    BY <1>1, <2>1
  <2>3. k = q
    BY <2>1, <2>2 DEF P95Index, q
  <2> HIDE DEF k
  <2> QED  BY <1>1, <2>1, <2>2, <2>3
<1>3. v \in Int
  <2> HIDE DEF k
  <2> QED  BY <1>2
<1>4. \A d \in Int : IsFiniteSet(AtMost(t, d)) /\ Below(t, d) \in Nat
  BY BelowNat
<1> HIDE DEF k
<1>5. k <= Below(t, v)
  <2>1. 1..k \in SUBSET AtMost(t, v)
    <3> SUFFICES ASSUME NEW i \in 1..k PROVE i \in AtMost(t, v)
      OBVIOUS
    <3>1. i \in 1..n /\ i <= k
      BY <1>2
    <3>2. t[i] <= t[k]
      BY <1>2, <3>1 DEF Rising
    <3> QED  BY <3>1, <3>2 DEF AtMost
  <2>2. Cardinality(1..k) = k
    BY <1>2, FS_Interval
  <2>3. Cardinality(1..k) <= Cardinality(AtMost(t, v))
    BY <1>3, <1>4, <2>1, FS_Subset
  <2> QED  BY <2>2, <2>3 DEF Below
<1>6. ASSUME NEW d \in Int, d < v PROVE Below(t, d) <= k - 1
  <2>1. AtMost(t, d) \in SUBSET (1..(k - 1))
    <3> SUFFICES ASSUME NEW i \in AtMost(t, d) PROVE i \in 1..(k - 1)
      OBVIOUS
    <3>1. i \in 1..n /\ t[i] <= d /\ t[i] \in Int
      BY DEF AtMost
    <3>2. ~(k <= i)
      <4> SUFFICES ASSUME k <= i PROVE FALSE
        OBVIOUS
      <4>1. t[k] <= t[i]
        BY <1>2, <3>1 DEF Rising
      <4> QED  BY <1>3, <1>6, <3>1, <4>1
    <3> QED  BY <1>2, <3>1, <3>2
  <2>2. Cardinality(1..(k - 1)) = k - 1 /\ IsFiniteSet(1..(k - 1))
    <3>1. k - 1 \in Int /\ 1 \in Int /\ (1 > k - 1 => k - 1 = 0)
      BY <1>2
    <3> DEFINE b == k - 1
    <3> HIDE DEF b
    <3>2. Cardinality(1..b) = (IF 1 > b THEN 0 ELSE b - 1 + 1) /\ IsFiniteSet(1..b)
      BY <3>1, FS_Interval DEF b
    <3>3. Cardinality(1..b) = b
      BY <3>1, <3>2 DEF b
    <3> QED  BY <3>2, <3>3 DEF b
  <2>3. Cardinality(AtMost(t, d)) <= Cardinality(1..(k - 1))
    BY <2>1, <2>2, FS_Subset
  <2> QED  BY <2>2, <2>3 DEF Below
<1>7. Below(t, v) * 100 >= 95 * n
  <2>1. Below(t, v) \in Nat
    BY <1>3, <1>4
  <2> HIDE DEF v, n
  <2> QED  BY <1>1, <1>2, <1>5, <2>1
<1>8. ASSUME NEW d \in Int, d < v PROVE ~(Below(t, d) * 100 >= 95 * n)
  <2>1. Below(t, d) \in Nat /\ Below(t, d) <= k - 1
    BY <1>4, <1>6, <1>8
  <2> HIDE DEF v, n
  <2> QED  BY <1>1, <1>2, <2>1
<1>9. Below(t, v - 1) < Below(t, v)
  <2>1. v - 1 \in Int /\ v - 1 < v
    BY <1>3
  <2>2. Below(t, v - 1) <= k - 1 /\ Below(t, v - 1) \in Nat /\ Below(t, v) \in Nat
    BY <1>3, <1>4, <1>6, <2>1
  <2> HIDE DEF v
  <2> QED  BY <1>2, <1>5, <2>2
<1> QED  BY <1>3, <1>7, <1>8, <1>9 DEF k

\* How often a number is in a sequence.
Times(s, d) == Cardinality({k \in 1..Len(s) : s[k] = d})

\* It is how many are at most d, and not at most the number before.
LEMMA TimesIs ==
  ASSUME NEW s \in Seq(Int), NEW d \in Int
  PROVE  Times(s, d) = Below(s, d) - Below(s, d - 1)
<1> DEFINE A == 1..Len(s)
<1>1. IsFiniteSet(A)
  BY FS_Interval
<1>2. s \in [A -> Int]
  OBVIOUS
<1> HIDE DEF A
<1>3. Cardinality(With(A, s, d)) = Cardinality(UpTo(A, s, d)) - Cardinality(UpTo(A, s, d - 1))
  BY <1>1, <1>2, Exactly
<1> QED  BY <1>3 DEF A, Times, Below, AtMost, With, UpTo

\* A report of the greatest numbers, the greatest first: none is shown more
\* often than it is there, and what is left out is not greater than any shown.
LEMMA TopOf ==
  ASSUME NEW u \in Seq(Int), Rising(u), NEW m \in 0..Len(u),
         NEW report, report = SubSeq(Reverse(u), 1, m)
  PROVE  /\ report \in Seq(Int) /\ Len(report) = m
         /\ \A i \in 1..m : \A k \in i..m : report[i] >= report[k]
         /\ \A d \in Int :
              /\ Times(report, d) <= Times(u, d)
              /\ Times(report, d) < Times(u, d) => \A i \in 1..m : report[i] >= d
<1> DEFINE n == Len(u)
           Shown(d) == {k \in 1..m : report[k] = d}
           All(d) == {k \in 1..n : u[k] = d}
<1>1. n \in Nat /\ m \in Nat /\ m <= n
  OBVIOUS
<1>2. /\ report \in Seq(Int) /\ Len(report) = m
      /\ \A k \in 1..m : report[k] = u[n + 1 - k]
  <2> DEFINE w == Reverse(u)
  <2>1. w \in Seq(Int) /\ Len(w) = n /\ \A k \in 1..n : w[k] = u[n + 1 - k]
    <3>1. w = [k \in 1..n |-> u[n - k + 1]]
      BY DEF Reverse
    <3>2. \A k \in 1..n : n - k + 1 \in 1..n /\ n - k + 1 = n + 1 - k
      BY <1>1
    <3>3. \A k \in 1..n : u[n - k + 1] \in Int
      BY <3>2
    <3> HIDE DEF w, n
    <3>4. w \in Seq(Int) /\ Len(w) = n
      BY <1>1, <3>1, <3>3
    <3> QED  BY <3>1, <3>2, <3>4
  <2>2. report = SubSeq(w, 1, m)
    OBVIOUS
  <2> HIDE DEF w
  <2>3. report \in Seq(Int) /\ Len(report) = m /\ \A k \in 1..m : report[k] = w[k]
    <3> DEFINE c == SubSeq(w, 1, m)
    <3>1. w \in Seq(Int) /\ m \in 0..Len(w)
      BY <1>1, <2>1
    <3>2. c \in Seq(Int) /\ Len(c) = m
      BY <3>1
    <3>3. \A k \in 1..m : c[k] = w[k]
      BY <3>1
    <3> QED  BY <2>2, <3>2, <3>3, Zenon
  <2>4. \A k \in 1..m : k \in 1..n
    BY <1>1
  <2>5. \A k \in 1..m : report[k] = u[n + 1 - k]
    BY <2>1, <2>3, <2>4
  <2> QED  BY <2>3, <2>5
<1>3. \A k \in 1..m : n + 1 - k \in 1..n /\ report[k] \in Int /\ u[n + 1 - k] \in Int
  BY <1>1, <1>2
<1>4. ASSUME NEW i \in 1..m, NEW k \in i..m PROVE report[i] >= report[k]
  <2>1. k \in 1..m /\ n + 1 - k \in 1..n /\ n + 1 - i \in 1..n /\ n + 1 - k <= n + 1 - i
    BY <1>1
  <2>2. u[n + 1 - k] <= u[n + 1 - i]
    BY <2>1 DEF Rising
  <2> QED  BY <1>2, <1>3, <2>1, <2>2
<1>5. ASSUME NEW d \in Int
      PROVE  /\ Cardinality(Shown(d)) <= Cardinality(All(d))
             /\ Cardinality(Shown(d)) < Cardinality(All(d)) => \A i \in 1..m : report[i] >= d
  <2> DEFINE S == Shown(d)
             T == All(d)
             f == [k \in S |-> n + 1 - k]
  <2>1. IsFiniteSet(T)
    <3>1. T \in SUBSET (1..n) /\ IsFiniteSet(1..n)
      BY <1>1, FS_Interval
    <3> HIDE DEF T
    <3> QED  BY <3>1, FS_Subset
  <2>2. f \in Injection(S, T)
    <3>1. ASSUME NEW k \in S PROVE n + 1 - k \in T
      BY <1>2, <1>3
    <3>2. \A k \in S : k \in Nat
      OBVIOUS
    <3> HIDE DEF S, T
    <3>3. f \in [S -> T]
      BY <3>1
    <3>4. \A i, k \in S : f[i] = f[k] => i = k
      <4> TAKE i, k \in S
      <4>1. f[i] = n + 1 - i /\ f[k] = n + 1 - k
        OBVIOUS
      <4> HIDE DEF f
      <4> QED  BY <1>1, <3>2, <4>1
    <3> HIDE DEF f
    <3> QED  BY <3>3, <3>4 DEF Injection, IsInjective
  <2>3. /\ IsFiniteSet(S) /\ Cardinality(S) <= Cardinality(T)
        /\ Cardinality(S) = Cardinality(T) <=> f \in Surjection(S, T)
    <3> HIDE DEF S, T, f
    <3> QED  BY <2>1, <2>2, FS_Injection
  <2>4. ASSUME Cardinality(S) < Cardinality(T), NEW i \in 1..m PROVE report[i] >= d
    <3>1. Cardinality(S) \in Nat /\ Cardinality(T) \in Nat
      <4> HIDE DEF S, T
      <4> QED  BY <2>1, <2>3, FS_CardinalityType
    <3>2. f \notin Surjection(S, T)
      <4> HIDE DEF S, T, f
      <4> QED  BY <2>3, <2>4, <3>1
    <3>3. PICK j \in T : \A k \in S : f[k] # j
      <4>1. f \in [S -> T]
        BY <2>2 DEF Injection
      <4> HIDE DEF S, T, f
      <4> QED  BY <3>2, <4>1 DEF Surjection
    <3>4. j \in 1..n /\ u[j] = d
      OBVIOUS
    <3>5. ~(n + 1 - j <= m)
      <4> SUFFICES ASSUME n + 1 - j <= m PROVE FALSE
        OBVIOUS
      <4>1. n + 1 - j \in 1..m /\ n + 1 - (n + 1 - j) = j
        BY <1>1, <3>4
      <4>2. report[n + 1 - j] = d
        BY <1>2, <3>4, <4>1
      <4>3. n + 1 - j \in S /\ f[n + 1 - j] = j
        BY <4>1, <4>2
      <4> HIDE DEF f, S
      <4> QED  BY <3>3, <4>3
    <3>6. n + 1 - i \in 1..n /\ j <= n + 1 - i
      BY <1>1, <3>4, <3>5
    <3>7. u[j] <= u[n + 1 - i]
      BY <3>4, <3>6 DEF Rising
    <3> QED  BY <1>2, <1>3, <3>4, <3>7
  <2> QED  BY <2>3, <2>4
<1>6. \A d \in Int : Times(report, d) = Cardinality(Shown(d)) /\ Times(u, d) = Cardinality(All(d))
  BY <1>2 DEF Times
<1> HIDE DEF Shown, All
<1> QED  BY <1>2, <1>4, <1>5, <1>6

\* What the loop of Stats adds up.
Tallies(tables, rules) ==
  [denied : Nat, deniedByRule : [rules -> Nat], tableCounts : [tables -> Nat],
   durs : Seq(Int), slows : Seq(Int)]
Tallying(w, a, rec, threshold, tables, rules) ==
  /\ a.denied = w.denied + (IF rec.denied THEN 1 ELSE 0)
  /\ \A x \in rules :
       a.deniedByRule[x] = w.deniedByRule[x] + (IF rec.denied /\ rec.rule = x THEN 1 ELSE 0)
  /\ \A t \in tables : a.tableCounts[t] = w.tableCounts[t] + (IF t \in rec.tables THEN 1 ELSE 0)
  /\ a.durs = (IF rec.denied THEN w.durs ELSE Append(w.durs, rec.ms))
  /\ a.slows = (IF Slow(rec, threshold) THEN Append(w.slows, rec.ms) ELSE w.slows)

\* A turn of the loop, field by field.
LEMMA TallyOf ==
  ASSUME NEW tables, NEW rules, NEW w \in Tallies(tables, rules), NEW threshold \in Int,
         NEW rec, rec.ms \in Int
  PROVE  /\ Tally(w, rec, threshold) \in Tallies(tables, rules)
         /\ Tallying(w, Tally(w, rec, threshold), rec, threshold, tables, rules)
<1> DEFINE C == [t \in tables |-> IF t \in rec.tables THEN w.tableCounts[t] + 1
                                                      ELSE w.tableCounts[t]]
           R == [w.deniedByRule EXCEPT ![rec.rule] = @ + 1]
           D == Append(w.durs, rec.ms)
           L == IF Slow(rec, threshold) THEN Append(w.slows, rec.ms) ELSE w.slows
           counted == [w EXCEPT !.tableCounts = C]
           a == Tally(w, rec, threshold)
<1>1. /\ w.denied \in Nat /\ w.deniedByRule \in [rules -> Nat]
      /\ w.tableCounts \in [tables -> Nat] /\ w.durs \in Seq(Int) /\ w.slows \in Seq(Int)
  BY DEF Tallies
<1>2. C \in [tables -> Nat] /\ R \in [rules -> Nat] /\ D \in Seq(Int) /\ L \in Seq(Int)
  <2>1. C \in [tables -> Nat]
    <3>1. ASSUME NEW t \in tables
          PROVE  (IF t \in rec.tables THEN w.tableCounts[t] + 1 ELSE w.tableCounts[t]) \in Nat
      <4>1. w.tableCounts[t] \in Nat
        BY <1>1
      <4> QED  BY <4>1
    <3> QED  BY <3>1
  <2>2. R \in [rules -> Nat]
    <3>1. DOMAIN w.deniedByRule = rules /\ \A x \in rules : w.deniedByRule[x] \in Nat
      BY <1>1
    <3>2. DOMAIN R = rules /\ R = [x \in DOMAIN R |-> R[x]]
      BY <3>1
    <3>3. ASSUME NEW x \in rules PROVE R[x] \in Nat
      <4>1. R[x] = IF x = rec.rule THEN w.deniedByRule[x] + 1 ELSE w.deniedByRule[x]
        BY <3>1
      <4> HIDE DEF R
      <4> QED  BY <3>1, <4>1
    <3> HIDE DEF R
    <3> QED  BY <3>2, <3>3
  <2>3. D \in Seq(Int) /\ L \in Seq(Int)
    BY <1>1
  <2> QED  BY <2>1, <2>2, <2>3
<1>3. /\ \A t \in tables : C[t] = w.tableCounts[t] + (IF t \in rec.tables THEN 1 ELSE 0)
      /\ \A x \in rules : R[x] = w.deniedByRule[x] + (IF rec.rule = x THEN 1 ELSE 0)
  <2>1. ASSUME NEW t \in tables
        PROVE  C[t] = w.tableCounts[t] + (IF t \in rec.tables THEN 1 ELSE 0)
    <3>1. w.tableCounts[t] \in Nat
      BY <1>1
    <3> QED  BY <3>1
  <2>2. ASSUME NEW x \in rules
        PROVE  R[x] = w.deniedByRule[x] + (IF rec.rule = x THEN 1 ELSE 0)
    <3>1. w.deniedByRule[x] \in Nat /\ DOMAIN w.deniedByRule = rules
      BY <1>1
    <3> QED  BY <3>1
  <2> QED  BY <2>1, <2>2
<1>4. w = [denied |-> w.denied, deniedByRule |-> w.deniedByRule, tableCounts |-> w.tableCounts,
           durs |-> w.durs, slows |-> w.slows]
  BY DEF Tallies
<1>5. [t \in DOMAIN w.tableCounts |-> IF t \in rec.tables THEN w.tableCounts[t] + 1
                                                          ELSE w.tableCounts[t]] = C
  BY <1>1
<1> HIDE DEF C, R, D, L
<1>6. counted = [denied |-> w.denied, deniedByRule |-> w.deniedByRule, tableCounts |-> C,
                 durs |-> w.durs, slows |-> w.slows]
  BY <1>4
<1>7. a = IF rec.denied THEN [counted EXCEPT !.denied = @ + 1, !.deniedByRule[rec.rule] = @ + 1]
          ELSE [counted EXCEPT !.durs = Append(@, rec.ms),
                               !.slows = IF Slow(rec, threshold) THEN Append(@, rec.ms) ELSE @]
  BY <1>5, Zenon DEF Tally
<1> HIDE DEF counted, a
<1>8. CASE rec.denied
  <2>1. a = [denied |-> w.denied + 1, deniedByRule |-> R, tableCounts |-> C,
             durs |-> w.durs, slows |-> w.slows]
    BY <1>6, <1>7, <1>8 DEF R
  <2>2. a \in Tallies(tables, rules)
    BY <1>1, <1>2, <2>1 DEF Tallies
  <2>3. /\ a.denied = w.denied + 1 /\ a.deniedByRule = R /\ a.tableCounts = C
        /\ a.durs = w.durs /\ a.slows = w.slows
    BY <2>1
  <2>4. ~Slow(rec, threshold)
    BY <1>8, Zenon DEF Slow
  <2>5. Tallying(w, a, rec, threshold, tables, rules)
    BY <1>3, <1>8, <2>3, <2>4 DEF Tallying
  <2> QED  BY <2>2, <2>5 DEF a
<1>9. CASE ~rec.denied
  <2>1. a = [denied |-> w.denied, deniedByRule |-> w.deniedByRule, tableCounts |-> C,
             durs |-> D, slows |-> L]
    BY <1>6, <1>7, <1>9 DEF D, L
  <2>2. a \in Tallies(tables, rules)
    BY <1>1, <1>2, <2>1 DEF Tallies
  <2>3. /\ a.denied = w.denied /\ a.deniedByRule = w.deniedByRule /\ a.tableCounts = C
        /\ a.durs = D /\ a.slows = L
    BY <2>1
  <2>4. \A x \in rules : w.deniedByRule[x] \in Nat
    BY <1>1
  <2>5. Tallying(w, a, rec, threshold, tables, rules)
    BY <1>1, <1>3, <1>9, <2>3, <2>4 DEF Tallying, D, L
  <2> QED  BY <2>2, <2>5 DEF a
<1> QED  BY <1>8, <1>9

\* The records that Stats is given, as far as it looks at them.
Readable(recs) == /\ Len(recs) \in Nat
                  /\ \A i \in 1..Len(recs) : recs[i].denied \in BOOLEAN /\ recs[i].ms \in Int

\* The loop of Stats, turn by turn.
Loop(f, recs, threshold, tables, rules) ==
  /\ f \in [0..Len(recs) -> Tallies(tables, rules)]
  /\ f[0] = Untallied(tables, rules)
  /\ \A i \in 1..Len(recs) : f[i] = Tally(f[i - 1], recs[i], threshold)
  /\ Tallied(recs, threshold, tables, rules) = f[Len(recs)]

\* There is a function that goes through the turns.
LEMMA TalliedTurns ==
  ASSUME NEW tables, NEW rules, NEW threshold \in Int, NEW recs, Readable(recs)
  PROVE  \E f : Loop(f, recs, threshold, tables, rules)
<1> DEFINE n == Len(recs)
           X == Tallies(tables, rules)
           first == Untallied(tables, rules)
           step == [i \in 1..n |-> [w \in X |-> Tally(w, recs[i], threshold)]]
           Body(f) == [i \in 0..n |-> IF i = 0 THEN Untallied(tables, rules)
                                      ELSE Tally(f[i - 1], recs[i], threshold)]
<1>1. n \in Nat /\ first \in X
  <2>1. n \in Nat
    BY DEF Readable
  <2>2. [x \in rules |-> 0] \in [rules -> Nat] /\ [t \in tables |-> 0] \in [tables -> Nat]
    OBVIOUS
  <2>3. first \in X
    BY <2>2 DEF Untallied, Tallies
  <2> QED  BY <2>1, <2>3
<1> HIDE DEF X, first
<1>2. step \in Steps(n, X)
  <2>1. ASSUME NEW i \in 1..n, NEW w \in X PROVE Tally(w, recs[i], threshold) \in X
    <3>1. recs[i].ms \in Int /\ w \in Tallies(tables, rules)
      BY DEF Readable, X
    <3>2. Tally(w, recs[i], threshold) \in Tallies(tables, rules)
      BY <3>1, TallyOf
    <3> QED  BY <3>2 DEF X
  <2> HIDE DEF n
  <2> QED  BY <2>1 DEF Steps
<1>3. PICK f \in [0..n -> X] : Follows(f, n, first, step)
  <2> HIDE DEF step, n
  <2> QED  BY <1>1, <1>2, Recursion
<1>4. f[0] = first /\ \A i \in 1..n : f[i] = Tally(f[i - 1], recs[i], threshold)
  <2>1. ASSUME NEW i \in 1..n PROVE f[i] = Tally(f[i - 1], recs[i], threshold)
    <3>1. i - 1 \in 0..n
      BY <1>1
    <3>2. f[i - 1] \in X
      BY <1>3, <3>1
    <3>3. f[i] = step[i][f[i - 1]]
      BY <1>3, Zenon DEF Follows
    <3>4. \A w \in X : step[i][w] = Tally(w, recs[i], threshold)
      OBVIOUS
    <3> HIDE DEF step
    <3> QED  BY <3>2, <3>3, <3>4, Zenon
  <2> QED  BY <1>3, <2>1 DEF Follows
<1>5. f = Body(f)
  <2> DEFINE h == Body(f)
  <2>1. DOMAIN h = 0..n /\ h = [i \in DOMAIN h |-> h[i]] /\ h[0] = first
    BY <1>1 DEF first
  <2>2. ASSUME NEW i \in 1..n PROVE h[i] = f[i]
    <3>1. i \in 0..n /\ i # 0
      BY <1>1
    <3>2. h[i] = Tally(f[i - 1], recs[i], threshold)
      BY <3>1
    <3> HIDE DEF h
    <3> QED  BY <1>4, <3>2
  <2>3. \A i \in 0..n : h[i] = f[i]
    <3> TAKE i \in 0..n
    <3>1. CASE i = 0
      BY <1>4, <2>1, <3>1
    <3>2. CASE i # 0
      <4>1. i \in 1..n
        BY <1>1, <3>2
      <4> QED  BY <2>2, <4>1
    <3> QED  BY <3>1, <3>2
  <2>4. DOMAIN f = 0..n /\ f = [i \in DOMAIN f |-> f[i]]
    BY <1>3
  <2> HIDE DEF h
  <2>5. f = h
    BY <2>1, <2>3, <2>4
  <2> QED  BY <2>5 DEF h
<1>6. ASSUME NEW g, g = Body(g) PROVE g = f
  <2> DEFINE h == Body(g)
  <2>1. DOMAIN h = 0..n /\ h = [i \in DOMAIN h |-> h[i]] /\ h[0] = first
    BY <1>1 DEF first
  <2>2. ASSUME NEW i \in 1..n, h[i - 1] \in X PROVE h[i] = step[i][h[i - 1]]
    <3>1. i \in 0..n /\ i # 0
      BY <1>1
    <3>2. h[i] = Tally(g[i - 1], recs[i], threshold)
      BY <3>1
    <3>3. g = h
      BY <1>6
    <3>4. \A w \in X : step[i][w] = Tally(w, recs[i], threshold)
      OBVIOUS
    <3> HIDE DEF h, step
    <3> QED  BY <2>2, <3>2, <3>3, <3>4
  <2> HIDE DEF h, step, n
  <2>3. Repeats(h, n, X, first, step)
    BY <2>1, <2>2, Zenon DEF Repeats
  <2>4. h = f
    BY <1>1, <1>2, <1>3, <2>3, SameSteps
  <2> QED  BY <1>6, <2>4 DEF h
<1>7. Tallied(recs, threshold, tables, rules) = f[n]
  <2> DEFINE h == CHOOSE g : g = Body(g)
  <2>1. h = f
    BY <1>5, <1>6
  <2>2. Tallied(recs, threshold, tables, rules) = h[n]
    BY DEF Tallied
  <2> QED  BY <2>1, <2>2
<1> QED  BY <1>3, <1>4, <1>7 DEF Loop, X, first

\* What is nothing at first, and one more at each turn that is in P, is at the
\* end the number of turns in P.
LEMMA Counted ==
  ASSUME NEW n \in Nat, NEW g, NEW P, P \subseteq 1..n, g[0] = 0,
         \A i \in 1..n : g[i] = g[i - 1] + (IF i \in P THEN 1 ELSE 0)
  PROVE  g[n] = Cardinality(P)
<1> DEFINE E == {i \in 0..n : g[i] = Count(P, i)}
<1>1. 0 \in E
  <2>1. Count(P, 0) = 0
    BY CountSteps
  <2> QED  BY <2>1
<1>2. ASSUME NEW i \in 1..n, i - 1 \in E PROVE i \in E
  <2>1. Count(P, i) = Count(P, i - 1) + (IF i \in P THEN 1 ELSE 0)
    <3>1. i \in Nat /\ i > 0
      OBVIOUS
    <3> QED  BY <3>1, CountSteps
  <2> QED  BY <1>2, <2>1
<1>3. \A i \in 0..n : i \in E
  <2> HIDE DEF E
  <2> QED  BY <1>1, <1>2, Induction
<1>4. g[n] = Count(P, n)
  BY <1>3
<1>5. P \cap (1..n) = P
  OBVIOUS
<1> QED  BY <1>4, <1>5 DEF Count

SlowOnes(recs, threshold) == {i \in Executed(recs) : recs[i].ms >= threshold}
\* The tallies are numbers of records.
CountsOf(sum, recs, tables, rules) ==
  /\ sum.denied = Cardinality(Denied(recs))
  /\ \A x \in rules : sum.deniedByRule[x] = Cardinality({i \in Denied(recs) : recs[i].rule = x})
  /\ \A t \in tables :
       sum.tableCounts[t] = Cardinality({i \in 1..Len(recs) : t \in recs[i].tables})
\* The durations in s are those of the records at the places P.
DurationsOf(s, recs, P) ==
  /\ s \in Seq(Int) /\ Len(s) = Cardinality(P)
  /\ \A d \in Int : Below(s, d) = Cardinality({i \in P : recs[i].ms <= d})

\* What the loop of Stats has added up at its end.
LEMMA TalliedIs ==
  ASSUME NEW tables, NEW rules, NEW threshold \in Int, NEW recs, Readable(recs)
  PROVE  LET sum == Tallied(recs, threshold, tables, rules)
         IN  /\ CountsOf(sum, recs, tables, rules)
             /\ DurationsOf(sum.durs, recs, Executed(recs))
             /\ DurationsOf(sum.slows, recs, SlowOnes(recs, threshold))
<1> DEFINE n == Len(recs)
           ran == Executed(recs)
           slow == SlowOnes(recs, threshold)
<1>0. PICK f : Loop(f, recs, threshold, tables, rules)
  BY TalliedTurns, Zenon
<1>1. /\ f \in [0..n -> Tallies(tables, rules)]
      /\ f[0] = Untallied(tables, rules)
      /\ \A i \in 1..n : f[i] = Tally(f[i - 1], recs[i], threshold)
      /\ Tallied(recs, threshold, tables, rules) = f[n]
  BY <1>0, Zenon DEF Loop
<1>2. n \in Nat /\ n \in 0..n /\ 0 \in 0..n
  BY DEF Readable
<1>3. \A i \in 1..n : /\ i \in 0..n /\ i - 1 \in 0..n
                      /\ recs[i].ms \in Int /\ recs[i].denied \in BOOLEAN
  BY <1>2 DEF Readable
<1>4. \A i \in 0..n : /\ f[i].denied \in Nat /\ f[i].deniedByRule \in [rules -> Nat]
                      /\ f[i].tableCounts \in [tables -> Nat]
                      /\ f[i].durs \in Seq(Int) /\ f[i].slows \in Seq(Int)
  BY <1>1 DEF Tallies
<1>5. /\ f[0].denied = 0 /\ \A x \in rules : f[0].deniedByRule[x] = 0
      /\ \A t \in tables : f[0].tableCounts[t] = 0
      /\ f[0].durs = << >> /\ f[0].slows = << >>
  <2>1. f[0] = [denied |-> 0, deniedByRule |-> [x \in rules |-> 0],
                tableCounts |-> [t \in tables |-> 0], durs |-> << >>, slows |-> << >>]
    BY <1>1, Zenon DEF Untallied
  <2>2. /\ f[0].denied = 0 /\ f[0].deniedByRule = [x \in rules |-> 0]
        /\ f[0].tableCounts = [t \in tables |-> 0] /\ f[0].durs = << >> /\ f[0].slows = << >>
    BY <2>1
  <2> QED  BY <2>2
<1>6. ASSUME NEW i \in 1..n
      PROVE  Tallying(f[i - 1], f[i], recs[i], threshold, tables, rules)
  <2>1. f[i - 1] \in Tallies(tables, rules) /\ recs[i].ms \in Int
    BY <1>1, <1>3
  <2>2. f[i] = Tally(f[i - 1], recs[i], threshold)
    BY <1>1
  <2> QED  BY <2>1, <2>2, TallyOf
<1>7. \A i \in 1..n : /\ i \in Denied(recs) <=> recs[i].denied
                      /\ i \in ran <=> ~recs[i].denied
                      /\ i \in slow <=> Slow(recs[i], threshold)
  BY DEF Denied, Executed, SlowOnes, Slow
<1>8. Denied(recs) \subseteq 1..n /\ ran \subseteq 1..n /\ slow \subseteq 1..n
  BY DEF Denied, Executed, SlowOnes
<1> HIDE DEF n, ran, slow
<1>9. f[n].denied = Cardinality(Denied(recs))
  <2> DEFINE g == [i \in 0..n |-> f[i].denied]
             P == Denied(recs)
  <2>1. P \subseteq 1..n /\ g[0] = 0 /\ g[n] = f[n].denied
    BY <1>2, <1>5, <1>8
  <2>2. ASSUME NEW i \in 1..n PROVE g[i] = g[i - 1] + (IF i \in P THEN 1 ELSE 0)
    <3>1. f[i].denied = f[i - 1].denied + (IF recs[i].denied THEN 1 ELSE 0)
      BY <1>6 DEF Tallying
    <3> QED  BY <1>3, <1>7, <3>1
  <2> HIDE DEF g, P
  <2>3. g[n] = Cardinality(P)
    BY <1>2, <2>1, <2>2, Counted
  <2> QED  BY <2>1, <2>3 DEF P
<1>10. ASSUME NEW x \in rules
       PROVE  f[n].deniedByRule[x] = Cardinality({i \in Denied(recs) : recs[i].rule = x})
  <2> DEFINE g == [i \in 0..n |-> f[i].deniedByRule[x]]
             P == {i \in Denied(recs) : recs[i].rule = x}
  <2>1. P \subseteq 1..n /\ g[0] = 0 /\ g[n] = f[n].deniedByRule[x]
    BY <1>2, <1>5, <1>8
  <2>2. ASSUME NEW i \in 1..n PROVE g[i] = g[i - 1] + (IF i \in P THEN 1 ELSE 0)
    <3>1. f[i].deniedByRule[x] = f[i - 1].deniedByRule[x]
                                   + (IF recs[i].denied /\ recs[i].rule = x THEN 1 ELSE 0)
      BY <1>6 DEF Tallying
    <3> QED  BY <1>3, <1>7, <3>1
  <2> HIDE DEF g, P
  <2>3. g[n] = Cardinality(P)
    BY <1>2, <2>1, <2>2, Counted
  <2> QED  BY <2>1, <2>3 DEF P
<1>11. ASSUME NEW t \in tables
       PROVE  f[n].tableCounts[t] = Cardinality({i \in 1..n : t \in recs[i].tables})
  <2> DEFINE g == [i \in 0..n |-> f[i].tableCounts[t]]
             P == {i \in 1..n : t \in recs[i].tables}
  <2>1. P \subseteq 1..n /\ g[0] = 0 /\ g[n] = f[n].tableCounts[t]
    BY <1>2, <1>5
  <2>2. ASSUME NEW i \in 1..n PROVE g[i] = g[i - 1] + (IF i \in P THEN 1 ELSE 0)
    <3>1. f[i].tableCounts[t] = f[i - 1].tableCounts[t] + (IF t \in recs[i].tables THEN 1 ELSE 0)
      BY <1>6 DEF Tallying
    <3> QED  BY <1>3, <3>1
  <2> HIDE DEF g, P
  <2>3. g[n] = Cardinality(P)
    BY <1>2, <2>1, <2>2, Counted
  <2> QED  BY <2>1, <2>3 DEF P
<1>12. Len(f[n].durs) = Cardinality(ran)
  <2> DEFINE g == [i \in 0..n |-> Len(f[i].durs)]
  <2>1. g[0] = 0 /\ g[n] = Len(f[n].durs)
    BY <1>2, <1>5
  <2>2. ASSUME NEW i \in 1..n PROVE g[i] = g[i - 1] + (IF i \in ran THEN 1 ELSE 0)
    <3> DEFINE s == f[i - 1].durs
    <3>1. f[i].durs = IF recs[i].denied THEN s ELSE Append(s, recs[i].ms)
      BY <1>6 DEF Tallying
    <3>2. s \in Seq(Int) /\ recs[i].ms \in Int /\ g[i - 1] = Len(s) /\ g[i] = Len(f[i].durs)
      BY <1>3, <1>4
    <3> HIDE DEF s, g
    <3> QED  BY <1>7, <3>1, <3>2
  <2> HIDE DEF g
  <2>3. g[n] = Cardinality(ran)
    BY <1>2, <1>8, <2>1, <2>2, Counted
  <2> QED  BY <2>1, <2>3
<1>13. ASSUME NEW d \in Int
       PROVE  Below(f[n].durs, d) = Cardinality({i \in ran : recs[i].ms <= d})
  <2> DEFINE g == [i \in 0..n |-> Below(f[i].durs, d)]
             P == {i \in ran : recs[i].ms <= d}
  <2>1. P \subseteq 1..n /\ g[0] = 0 /\ g[n] = Below(f[n].durs, d)
    BY <1>2, <1>5, <1>8, BelowNothing
  <2>2. ASSUME NEW i \in 1..n PROVE g[i] = g[i - 1] + (IF i \in P THEN 1 ELSE 0)
    <3> DEFINE s == f[i - 1].durs
    <3>1. f[i].durs = IF recs[i].denied THEN s ELSE Append(s, recs[i].ms)
      BY <1>6 DEF Tallying
    <3>2. s \in Seq(Int) /\ recs[i].ms \in Int /\ g[i - 1] = Below(s, d) /\ g[i] = Below(f[i].durs, d)
      BY <1>3, <1>4
    <3>3. Below(Append(s, recs[i].ms), d) = Below(s, d) + (IF recs[i].ms <= d THEN 1 ELSE 0)
      BY <3>2, BelowAppend
    <3>4. Below(s, d) \in Nat
      BY <3>2, BelowNat
    <3>5. i \in P <=> ~recs[i].denied /\ recs[i].ms <= d
      BY <1>7
    <3> HIDE DEF s, g, P
    <3> QED  BY <3>1, <3>2, <3>3, <3>4, <3>5
  <2> HIDE DEF g, P
  <2>3. g[n] = Cardinality(P)
    BY <1>2, <2>1, <2>2, Counted
  <2> QED  BY <2>1, <2>3 DEF P
<1>14. Len(f[n].slows) = Cardinality(slow)
  <2> DEFINE g == [i \in 0..n |-> Len(f[i].slows)]
  <2>1. g[0] = 0 /\ g[n] = Len(f[n].slows)
    BY <1>2, <1>5
  <2>2. ASSUME NEW i \in 1..n PROVE g[i] = g[i - 1] + (IF i \in slow THEN 1 ELSE 0)
    <3> DEFINE s == f[i - 1].slows
    <3>1. f[i].slows = IF Slow(recs[i], threshold) THEN Append(s, recs[i].ms) ELSE s
      BY <1>6 DEF Tallying
    <3>2. s \in Seq(Int) /\ recs[i].ms \in Int /\ g[i - 1] = Len(s) /\ g[i] = Len(f[i].slows)
      BY <1>3, <1>4
    <3> HIDE DEF s, g
    <3> QED  BY <1>7, <3>1, <3>2
  <2> HIDE DEF g
  <2>3. g[n] = Cardinality(slow)
    BY <1>2, <1>8, <2>1, <2>2, Counted
  <2> QED  BY <2>1, <2>3
<1>15. ASSUME NEW d \in Int
       PROVE  Below(f[n].slows, d) = Cardinality({i \in slow : recs[i].ms <= d})
  <2> DEFINE g == [i \in 0..n |-> Below(f[i].slows, d)]
             P == {i \in slow : recs[i].ms <= d}
  <2>1. P \subseteq 1..n /\ g[0] = 0 /\ g[n] = Below(f[n].slows, d)
    BY <1>2, <1>5, <1>8, BelowNothing
  <2>2. ASSUME NEW i \in 1..n PROVE g[i] = g[i - 1] + (IF i \in P THEN 1 ELSE 0)
    <3> DEFINE s == f[i - 1].slows
    <3>1. f[i].slows = IF Slow(recs[i], threshold) THEN Append(s, recs[i].ms) ELSE s
      BY <1>6 DEF Tallying
    <3>2. s \in Seq(Int) /\ recs[i].ms \in Int /\ g[i - 1] = Below(s, d) /\ g[i] = Below(f[i].slows, d)
      BY <1>3, <1>4
    <3>3. Below(Append(s, recs[i].ms), d) = Below(s, d) + (IF recs[i].ms <= d THEN 1 ELSE 0)
      BY <3>2, BelowAppend
    <3>4. Below(s, d) \in Nat
      BY <3>2, BelowNat
    <3>5. i \in P <=> Slow(recs[i], threshold) /\ recs[i].ms <= d
      BY <1>7
    <3> HIDE DEF s, g, P
    <3> QED  BY <3>1, <3>2, <3>3, <3>4, <3>5
  <2> HIDE DEF g, P
  <2>3. g[n] = Cardinality(P)
    BY <1>2, <2>1, <2>2, Counted
  <2> QED  BY <2>1, <2>3 DEF P
<1>16. f[n].durs \in Seq(Int) /\ f[n].slows \in Seq(Int)
  BY <1>2, <1>4
<1>17. CountsOf(f[n], recs, tables, rules)
  BY <1>9, <1>10, <1>11, Zenon DEF CountsOf, n
<1>18. DurationsOf(f[n].durs, recs, ran) /\ DurationsOf(f[n].slows, recs, slow)
  BY <1>12, <1>13, <1>14, <1>15, <1>16, Zenon DEF DurationsOf
<1> QED  BY <1>1, <1>17, <1>18 DEF ran, slow

\* The executed records are finitely many, with a duration each.
LEMMA RanIs ==
  ASSUME NEW recs, Readable(recs)
  PROVE  /\ IsFiniteSet(Executed(recs)) /\ Executed(recs) \subseteq 1..Len(recs)
         /\ \A i \in Executed(recs) : recs[i].ms \in Int
<1>1. Executed(recs) \in SUBSET (1..Len(recs)) /\ Len(recs) \in Nat
  BY DEF Executed, Readable
<1>2. IsFiniteSet(1..Len(recs))
  BY <1>1, FS_Interval
<1>3. IsFiniteSet(Executed(recs))
  BY <1>1, <1>2, FS_Subset
<1>4. \A i \in Executed(recs) : recs[i].ms \in Int
  BY <1>1 DEF Readable
<1> QED  BY <1>1, <1>3, <1>4

\* The percentile that the program reads at an index is the nearest rank.
LEMMA P95Is ==
  ASSUME NEW recs, Readable(recs), NEW durs, DurationsOf(durs, recs, Executed(recs))
  PROVE  IsP95(recs, P95(durs))
<1> DEFINE ran == Executed(recs)
           t == Ascending(durs)
           v == t[P95Index(Len(t))]
           Upto(d) == {i \in ran : recs[i].ms <= d}
<1>0. /\ durs \in Seq(Int) /\ Len(durs) = Cardinality(ran)
      /\ \A d \in Int : Below(durs, d) = Cardinality({i \in ran : recs[i].ms <= d})
  BY Zenon DEF DurationsOf
<1>1. IsFiniteSet(ran) /\ \A i \in ran : recs[i].ms \in Int
  BY RanIs
<1>2. CASE ran = {}
  <2>1. Cardinality(ran) = 0
    BY <1>2, FS_EmptySet
  <2>2. durs = << >>
    BY <1>0, <2>1
  <2> QED  BY <1>2, <2>2 DEF P95, IsP95
<1>3. CASE ran # {}
  <2>1. Cardinality(ran) # 0 /\ Cardinality(ran) \in Nat
    <3> HIDE DEF ran
    <3> QED  BY <1>1, <1>3, FS_EmptySet, FS_CardinalityType
  <2>2. durs # << >> /\ Len(durs) > 0
    BY <1>0, <2>1
  <2>3. /\ t \in Seq(Int) /\ Len(t) = Len(durs) /\ Rising(t)
        /\ \A d \in Int : Below(t, d) = Below(durs, d)
    BY <1>0, Sorted
  <2>4. P95(durs) = v
    BY <2>2, <2>3 DEF P95
  <2>5. /\ v \in Int
        /\ Below(t, v) * 100 >= 95 * Len(t)
        /\ \A d \in Int : d < v => ~(Below(t, d) * 100 >= 95 * Len(t))
        /\ Below(t, v - 1) < Below(t, v)
    <3> HIDE DEF t
    <3> QED  BY <2>2, <2>3, RankOf
  <2> HIDE DEF t, v
  <2>6. \A d \in Int : Below(t, d) = Cardinality(Upto(d))
    BY <1>0, <2>3
  <2>7. Cardinality(Upto(v)) * 100 >= 95 * Cardinality(ran)
    <3>1. Below(t, v) = Cardinality(Upto(v)) /\ Len(t) = Cardinality(ran)
      BY <1>0, <2>3, <2>5, <2>6
    <3> HIDE DEF Upto, ran
    <3> QED  BY <2>5, <3>1
  <2>8. ASSUME NEW i \in ran, recs[i].ms < v
        PROVE  ~(Cardinality(Upto(recs[i].ms)) * 100 >= 95 * Cardinality(ran))
    <3> DEFINE d == recs[i].ms
    <3>1. d \in Int /\ d < v
      BY <1>1, <2>8
    <3> HIDE DEF d
    <3>2. Below(t, d) = Cardinality(Upto(d)) /\ Len(t) = Cardinality(ran)
      BY <1>0, <2>3, <2>6, <3>1
    <3>3. ~(Below(t, d) * 100 >= 95 * Len(t))
      BY <2>5, <3>1
    <3> HIDE DEF Upto, ran
    <3>4. ~(Cardinality(Upto(d)) * 100 >= 95 * Cardinality(ran))
      BY <3>2, <3>3
    <3> QED  BY <3>4 DEF d
  <2>9. v \in {recs[i].ms : i \in ran}
    <3> SUFFICES ASSUME \A i \in ran : recs[i].ms # v PROVE FALSE
      OBVIOUS
    <3>1. Upto(v - 1) = Upto(v)
      BY <1>1, <2>5
    <3>2. Below(t, v) = Cardinality(Upto(v)) /\ Below(t, v - 1) = Cardinality(Upto(v - 1))
      BY <2>5, <2>6
    <3>3. Below(t, v) \in Nat
      BY <2>3, <2>5, BelowNat
    <3> HIDE DEF Upto
    <3> QED  BY <2>5, <3>1, <3>2, <3>3
  <2> QED  BY <1>3, <2>4, <2>7, <2>8, <2>9 DEF IsP95
<1> QED  BY <1>2, <1>3

\* The report of slow queries.
LEMMA SlowestIs ==
  ASSUME NEW recs, Readable(recs), NEW threshold \in Int, NEW topN \in Nat,
         NEW slows, DurationsOf(slows, recs, SlowOnes(recs, threshold))
  PROVE  IsSlowest(recs, threshold, topN, Slowest(slows, topN))
<1> DEFINE slow == SlowOnes(recs, threshold)
           u == Ascending(slows)
           n == Len(slows)
           m == IF n > topN THEN topN ELSE n
           report == Slowest(slows, topN)
           AllOf(d) == {i \in slow : recs[i].ms = d}
<1>0. /\ slows \in Seq(Int) /\ Len(slows) = Cardinality(slow)
      /\ \A d \in Int : Below(slows, d) = Cardinality({i \in slow : recs[i].ms <= d})
  BY Zenon DEF DurationsOf
<1>1. IsFiniteSet(slow) /\ \A i \in slow : recs[i].ms \in Int
  <2>1. slow \in SUBSET Executed(recs)
    BY DEF SlowOnes
  <2>2. IsFiniteSet(Executed(recs)) /\ \A i \in Executed(recs) : recs[i].ms \in Int
    BY RanIs
  <2> HIDE DEF slow
  <2> QED  BY <2>1, <2>2, FS_Subset
<1>2. /\ u \in Seq(Int) /\ Len(u) = n /\ Rising(u)
      /\ \A d \in Int : Below(u, d) = Below(slows, d)
  BY <1>0, Sorted
<1>3. n \in Nat /\ m \in 0..Len(u)
  BY <1>0, <1>2
<1>4. report = SubSeq(Reverse(u), 1, m)
  BY DEF Slowest, Descending
<1>5. ASSUME NEW d \in Int PROVE Times(u, d) = Cardinality(AllOf(d))
  <2>1. Times(u, d) = Below(u, d) - Below(u, d - 1)
    <3> HIDE DEF u
    <3> QED  BY <1>2, TimesIs
  <2>2. Cardinality(AllOf(d)) =
          Cardinality({i \in slow : recs[i].ms <= d}) - Cardinality({i \in slow : recs[i].ms <= d - 1})
    <3> DEFINE f == [i \in slow |-> recs[i].ms]
    <3>1. f \in [slow -> Int] /\ \A i \in slow : f[i] = recs[i].ms
      BY <1>1
    <3> HIDE DEF f, slow
    <3>2. Cardinality(With(slow, f, d)) =
            Cardinality(UpTo(slow, f, d)) - Cardinality(UpTo(slow, f, d - 1))
      BY <1>1, <3>1, Exactly
    <3>3. /\ With(slow, f, d) = AllOf(d)
          /\ UpTo(slow, f, d) = {i \in slow : recs[i].ms <= d}
          /\ UpTo(slow, f, d - 1) = {i \in slow : recs[i].ms <= d - 1}
      BY <3>1 DEF With, UpTo
    <3> QED  BY <3>2, <3>3
  <2>3. /\ Below(u, d) = Cardinality({i \in slow : recs[i].ms <= d})
        /\ Below(u, d - 1) = Cardinality({i \in slow : recs[i].ms <= d - 1})
    <3>1. d - 1 \in Int
      OBVIOUS
    <3> HIDE DEF u
    <3>2. Below(u, d) = Below(slows, d) /\ Below(u, d - 1) = Below(slows, d - 1)
      BY <1>2, <3>1
    <3>3. \A e \in Int : Below(slows, e) = Cardinality({i \in slow : recs[i].ms <= e})
      BY <1>0
    <3> QED  BY <3>1, <3>2, <3>3
  <2> QED  BY <2>1, <2>2, <2>3
<1>6. /\ report \in Seq(Int) /\ Len(report) = m
      /\ \A i \in 1..m : \A k \in i..m : report[i] >= report[k]
      /\ \A d \in Int :
           /\ Times(report, d) <= Times(u, d)
           /\ Times(report, d) < Times(u, d) => \A i \in 1..m : report[i] >= d
  <2> HIDE DEF u, m, report
  <2> QED  BY <1>2, <1>3, <1>4, TopOf
<1> HIDE DEF u, report
<1>7. m = IF Cardinality(slow) < topN THEN Cardinality(slow) ELSE topN
  BY <1>0, <1>3
<1>8. {recs[i].ms : i \in slow} \cup ToSet(report) \subseteq Int
  <2>1. ToSet(report) \subseteq Int
    BY <1>6 DEF ToSet
  <2> QED  BY <1>1, <2>1
<1>9. slow = {i \in Executed(recs) : recs[i].ms >= threshold}
  BY DEF SlowOnes
<1> HIDE DEF m, slow
<1>10. \A d \in Int :
         /\ Times(report, d) <= Cardinality(AllOf(d))
         /\ Times(report, d) < Cardinality(AllOf(d)) => \A i \in 1..m : report[i] >= d
  BY <1>5, <1>6
<1>11. ASSUME NEW d \in {recs[i].ms : i \in slow} \cup ToSet(report)
       PROVE  LET All == Cardinality({i \in slow : recs[i].ms = d})
                  Seen == Cardinality({i \in 1..Len(report) : report[i] = d})
              IN  /\ Seen <= All
                  /\ Seen < All => \A i \in 1..Len(report) : report[i] >= d
  <2>1. d \in Int
    BY <1>8
  <2> HIDE DEF AllOf
  <2>2. /\ Times(report, d) <= Cardinality(AllOf(d))
        /\ Times(report, d) < Cardinality(AllOf(d)) => \A i \in 1..Len(report) : report[i] >= d
    BY <1>6, <1>10, <2>1
  <2>3. Times(report, d) = Cardinality({i \in 1..Len(report) : report[i] = d})
    BY DEF Times
  <2> QED  BY <2>2, <2>3 DEF AllOf
<1>12. Len(report) = IF Cardinality(slow) < topN THEN Cardinality(slow) ELSE topN
  BY <1>6, <1>7
<1>13. \A i \in 1..Len(report) : \A k \in i..Len(report) : report[i] >= report[k]
  BY <1>6
<1>14. IsSlowest(recs, threshold, topN, report)
  BY <1>11, <1>12, <1>13, Zenon DEF IsSlowest, SlowOnes, slow
<1> QED  BY <1>14 DEF report

\* The statistics of a snapshot of any length describe its records: the counts
\* are numbers of records, the percentile is the nearest rank of the executed
\* ones, and the slow list is the slowest, with none shown too often.
THEOREM StatsTrue == Spec => []StatsDescribeTheWindow
<1>1. Computed => StatsDescribeTheWindow
  <2> SUFFICES ASSUME Computed, Answered("stats") PROVE StatsDescribeTheWindow
    BY DEF StatsDescribeTheWindow
  <2> DEFINE recs == input.recs
             threshold == input.threshold
             topN == input.topN
             sum == Tallied(recs, threshold, StatTables, StatRules)
             slow == SlowOnes(recs, threshold)
  <2>1. input \in Snapshots /\ answer = Stats(recs, threshold, topN, StatTables, StatRules)
    BY DEF Computed, Answered
  <2>2. Readable(recs) /\ threshold \in Int /\ topN \in Nat
    <3>1. /\ recs \in Seq(ToSet(recs)) /\ threshold \in Int /\ topN \in Nat
          /\ \A rec \in ToSet(recs) : rec.denied \in BOOLEAN /\ rec.ms \in Int
      BY <2>1, SnapshotsAssumption
    <3> HIDE DEF recs
    <3>2. Len(recs) \in Nat /\ \A i \in 1..Len(recs) : recs[i] \in ToSet(recs)
      BY <3>1
    <3> QED  BY <3>1, <3>2 DEF Readable
  <2>3. /\ answer.total = Len(recs) /\ answer.denied = sum.denied /\ answer.p95 = P95(sum.durs)
        /\ answer.slowQueries = Slowest(sum.slows, topN)
        /\ answer.tableCounts = sum.tableCounts /\ answer.deniedByRule = sum.deniedByRule
    <3>1. answer = [total |-> Len(recs), denied |-> sum.denied, p95 |-> P95(sum.durs),
                    slowQueries |-> Slowest(sum.slows, topN), tableCounts |-> sum.tableCounts,
                    deniedByRule |-> sum.deniedByRule]
      BY <2>1, Zenon DEF Stats
    <3> HIDE DEF sum, recs, topN
    <3> QED  BY <3>1
  <2> HIDE DEF recs, threshold, topN
  <2>4. /\ CountsOf(sum, recs, StatTables, StatRules)
        /\ DurationsOf(sum.durs, recs, Executed(recs)) /\ DurationsOf(sum.slows, recs, slow)
    BY <2>2, TalliedIs, Zenon
  <2> HIDE DEF sum
  <2>5. IsP95(recs, answer.p95)
    BY <2>2, <2>3, <2>4, P95Is, Zenon
  <2>6. IsSlowest(recs, threshold, topN, answer.slowQueries)
    BY <2>2, <2>3, <2>4, SlowestIs, Zenon
  <2>7. /\ \A x \in StatRules :
             answer.deniedByRule[x] = Cardinality({i \in Denied(recs) : recs[i].rule = x})
        /\ \A t \in StatTables :
             answer.tableCounts[t] = Cardinality({i \in 1..Len(recs) : t \in recs[i].tables})
    BY <2>3, <2>4, Zenon DEF CountsOf
  <2>8. answer.denied = Cardinality(Denied(recs))
    BY <2>3, <2>4, Zenon DEF CountsOf
  <2> QED  BY <2>3, <2>5, <2>6, <2>7, <2>8, Zenon
           DEF StatsDescribeTheWindow, recs, threshold, topN
<1> QED  BY <1>1, ComputedAlways, PTL

-----------------------------------------------------------------------------
\* What the scanner of a table's text can be in.
Modes == Quotes \cup {"text", "comment", "skip", "backskip"}
Places == [mode : Modes, depth : Int]

\* A symbol takes the scanner from one of them to another.
LEMMA ReadOf ==
  ASSUME NEW text, NEW i, NEW at \in Places
  PROVE  Read(at, text, i) \in Places
<1>1. at.mode \in Modes /\ at.depth \in Int
  BY DEF Places
<1>2. ModeAfter(at.mode, text, i) \in Modes
  BY <1>1 DEF ModeAfter, Modes, Quotes, Opens
<1>3. DepthAfter(at.depth, text[i]) \in Int
  BY <1>1 DEF DepthAfter
<1> QED  BY <1>1, <1>2, <1>3 DEF Read, Places

\* The scan, symbol by symbol.
Scanning(f, text) ==
  /\ f \in [0..Len(text) -> Places]
  /\ f[0] = [mode |-> "text", depth |-> 0]
  /\ \A i \in 1..Len(text) : f[i] = Read(f[i - 1], text, i)
  /\ ScanText(text) = f

\* There is a function that reads one symbol after the other.
LEMMA ScanTurns ==
  ASSUME NEW text, Len(text) \in Nat
  PROVE  \E f : Scanning(f, text)
<1> DEFINE n == Len(text)
           first == [mode |-> "text", depth |-> 0]
           step == [i \in 1..n |-> [w \in Places |-> Read(w, text, i)]]
           Body(f) == [i \in 0..n |-> IF i = 0 THEN [mode |-> "text", depth |-> 0]
                                      ELSE Read(f[i - 1], text, i)]
<1>1. n \in Nat /\ first \in Places
  BY DEF Places, Modes
<1> HIDE DEF first
<1>2. step \in Steps(n, Places)
  <2>1. ASSUME NEW i \in 1..n, NEW w \in Places PROVE Read(w, text, i) \in Places
    BY ReadOf
  <2> HIDE DEF n
  <2> QED  BY <2>1 DEF Steps
<1>3. PICK f \in [0..n -> Places] : Follows(f, n, first, step)
  <2> HIDE DEF step, n
  <2> QED  BY <1>1, <1>2, Recursion
<1>4. f[0] = first /\ \A i \in 1..n : f[i] = Read(f[i - 1], text, i)
  <2>1. ASSUME NEW i \in 1..n PROVE f[i] = Read(f[i - 1], text, i)
    <3>1. i - 1 \in 0..n
      BY <1>1
    <3>2. f[i - 1] \in Places
      BY <1>3, <3>1
    <3>3. f[i] = step[i][f[i - 1]]
      BY <1>3, Zenon DEF Follows
    <3>4. \A w \in Places : step[i][w] = Read(w, text, i)
      OBVIOUS
    <3> HIDE DEF step
    <3> QED  BY <3>2, <3>3, <3>4, Zenon
  <2> QED  BY <1>3, <2>1 DEF Follows
<1>5. f = Body(f)
  <2> DEFINE h == Body(f)
  <2>1. DOMAIN h = 0..n /\ h = [i \in DOMAIN h |-> h[i]] /\ h[0] = first
    BY <1>1 DEF first
  <2>2. ASSUME NEW i \in 1..n PROVE h[i] = f[i]
    <3>1. i \in 0..n /\ i # 0
      BY <1>1
    <3>2. h[i] = Read(f[i - 1], text, i)
      BY <3>1
    <3> HIDE DEF h
    <3> QED  BY <1>4, <3>2
  <2>3. \A i \in 0..n : h[i] = f[i]
    <3> TAKE i \in 0..n
    <3>1. CASE i = 0
      BY <1>4, <2>1, <3>1
    <3>2. CASE i # 0
      <4>1. i \in 1..n
        BY <1>1, <3>2
      <4> QED  BY <2>2, <4>1
    <3> QED  BY <3>1, <3>2
  <2>4. DOMAIN f = 0..n /\ f = [i \in DOMAIN f |-> f[i]]
    BY <1>3
  <2> HIDE DEF h
  <2>5. f = h
    BY <2>1, <2>3, <2>4
  <2> QED  BY <2>5 DEF h
<1>6. ASSUME NEW g, g = Body(g) PROVE g = f
  <2> DEFINE h == Body(g)
  <2>1. DOMAIN h = 0..n /\ h = [i \in DOMAIN h |-> h[i]] /\ h[0] = first
    BY <1>1 DEF first
  <2>2. ASSUME NEW i \in 1..n, h[i - 1] \in Places PROVE h[i] = step[i][h[i - 1]]
    <3>1. i \in 0..n /\ i # 0
      BY <1>1
    <3>2. h[i] = Read(g[i - 1], text, i)
      BY <3>1
    <3>3. g = h
      BY <1>6
    <3>4. \A w \in Places : step[i][w] = Read(w, text, i)
      OBVIOUS
    <3> HIDE DEF h, step
    <3> QED  BY <2>2, <3>2, <3>3, <3>4
  <2> HIDE DEF h, step, n
  <2>3. Repeats(h, n, Places, first, step)
    BY <2>1, <2>2, Zenon DEF Repeats
  <2>4. h = f
    BY <1>1, <1>2, <1>3, <2>3, SameSteps
  <2> QED  BY <1>6, <2>4 DEF h
<1>7. ScanText(text) = f
  <2> DEFINE h == CHOOSE g : g = Body(g)
  <2>1. h = f
    BY <1>5, <1>6
  <2>2. ScanText(text) = h
    BY DEF ScanText
  <2> QED  BY <2>1, <2>2
<1> QED  BY <1>3, <1>4, <1>7 DEF Scanning, first

\* What the scanner is in after a symbol, and how deep in parentheses.
Mode(text, i) == ScanText(text)[i].mode
Depth(text, i) == ScanText(text)[i].depth

\* Symbol by symbol, for both of them.
LEMMA ScanSteps ==
  ASSUME NEW text, Len(text) \in Nat
  PROVE  /\ Mode(text, 0) = "text" /\ Depth(text, 0) = 0
         /\ \A i \in 0..Len(text) :
              /\ Mode(text, i) \in Modes /\ Depth(text, i) \in Int
              /\ ScanText(text)[i] = [mode |-> Mode(text, i), depth |-> Depth(text, i)]
         /\ \A i \in 1..Len(text) :
              /\ Mode(text, i) = ModeAfter(Mode(text, i - 1), text, i)
              /\ Depth(text, i) = IF Mode(text, i - 1) = "text"
                                  THEN DepthAfter(Depth(text, i - 1), text[i])
                                  ELSE Depth(text, i - 1)
<1>1. PICK f : Scanning(f, text)
  BY ScanTurns
<1>2. ScanText(text) = f /\ f[0] = [mode |-> "text", depth |-> 0]
  BY <1>1 DEF Scanning
<1>3. Mode(text, 0) = "text" /\ Depth(text, 0) = 0
  BY <1>2 DEF Mode, Depth
<1>4. ASSUME NEW i \in 0..Len(text)
      PROVE  /\ Mode(text, i) \in Modes /\ Depth(text, i) \in Int
             /\ ScanText(text)[i] = [mode |-> Mode(text, i), depth |-> Depth(text, i)]
  <2>1. f[i] \in Places
    BY <1>1 DEF Scanning
  <2> QED  BY <1>2, <2>1 DEF Places, Mode, Depth
<1>5. ASSUME NEW i \in 1..Len(text)
      PROVE  /\ Mode(text, i) = ModeAfter(Mode(text, i - 1), text, i)
             /\ Depth(text, i) = IF Mode(text, i - 1) = "text"
                                 THEN DepthAfter(Depth(text, i - 1), text[i])
                                 ELSE Depth(text, i - 1)
  <2>1. f[i] = Read(f[i - 1], text, i)
    BY <1>1, Zenon DEF Scanning
  <2> QED  BY <1>2, <2>1 DEF Read, Mode, Depth
<1> QED  BY <1>3, <1>4, <1>5

\* A symbol that is a token of its own leaves the scanner in the text.
LEMMA PlainModes ==
  ASSUME NEW text, Len(text) \in Nat, NEW i \in 1..Len(text), Mode(text, i - 1) = "text",
         text[i] \notin Quotes \cup {"slashStar"}
  PROVE  Mode(text, i) = "text"
<1>1. Mode(text, i) = ModeAfter("text", text, i)
  BY ScanSteps
<1> QED  BY <1>1 DEF ModeAfter, Opens, Quotes

\* In a comment the scanner stays until it is closed.
LEMMA CommentModes ==
  ASSUME NEW text, Len(text) \in Nat, NEW i \in 1..Len(text), NEW k \in 1..Len(text),
         Mode(text, i - 1) = "text", IsComment(text, i, k)
  PROVE  /\ \A m \in i..(k - 1) : Mode(text, m) # "text"
         /\ Mode(text, k) = "text"
<1>1. /\ i < k /\ text[k] = "starSlash" /\ text[i] = "slashStar"
      /\ \A m \in (i + 1)..(k - 1) : text[m] # "starSlash"
  BY DEF IsComment
<1> DEFINE S == {j \in 0..(k - 1 - i) : Mode(text, i + j) = "comment"}
<1>2. 0 \in S
  <2>1. Mode(text, i) = ModeAfter("text", text, i)
    BY ScanSteps
  <2>2. Mode(text, i) = "comment"
    BY <1>1, <2>1 DEF ModeAfter, Opens, Quotes
  <2>3. i + 0 = i /\ 0 \in 0..(k - 1 - i)
    BY <1>1
  <2> QED  BY <2>2, <2>3
<1>3. ASSUME NEW j \in 1..(k - 1 - i), j - 1 \in S PROVE j \in S
  <2>1. i + j \in 1..Len(text) /\ i + j \in (i + 1)..(k - 1) /\ (i + j) - 1 = i + (j - 1)
    BY <1>1
  <2>2. Mode(text, i + (j - 1)) = "comment"
    BY <1>3
  <2>3. Mode(text, i + j) = ModeAfter("comment", text, i + j)
    BY <2>1, <2>2, ScanSteps
  <2>4. Mode(text, i + j) = "comment"
    BY <1>1, <2>1, <2>3 DEF ModeAfter, Quotes
  <2> QED  BY <2>4
<1>4. \A j \in 0..(k - 1 - i) : j \in S
  <2>1. k - 1 - i \in Nat
    BY <1>1
  <2> HIDE DEF S
  <2> QED  BY <1>2, <1>3, <2>1, Induction
<1>5. ASSUME NEW m \in i..(k - 1) PROVE Mode(text, m) = "comment"
  <2>1. m - i \in 0..(k - 1 - i) /\ i + (m - i) = m
    OBVIOUS
  <2> QED  BY <1>4, <2>1
<1>6. Mode(text, k) = ModeAfter("comment", text, k)
  <2>1. k - 1 \in i..(k - 1)
    BY <1>1
  <2>2. Mode(text, k - 1) = "comment"
    BY <1>5, <2>1
  <2> QED  BY <2>2, ScanSteps
<1>7. Mode(text, k) = "text"
  BY <1>1, <1>6 DEF ModeAfter, Quotes
<1> QED  BY <1>5, <1>7

\* The mode in which the scanner skips a symbol of a string.
Skipping(q) == IF q = "quote" THEN "skip" ELSE "backskip"

\* In a string of quote q, symbol by symbol: a pair is skipped, and nothing else
\* leaves the string but its last symbol.
LEMMA QuoteSteps ==
  ASSUME NEW text, Len(text) \in Nat, NEW q \in Quotes, NEW m \in 1..Len(text)
  PROVE  /\ Mode(text, m - 1) = Skipping(q) => Mode(text, m) = q
         /\ Mode(text, m - 1) = q =>
              /\ text[m] \notin Escapes(q) => Mode(text, m) = q
              /\ text[m] \in Escapes(q) /\ (text[m] = q => At(text, m + 1, q))
                 => Mode(text, m) = Skipping(q)
              /\ text[m] = q /\ ~At(text, m + 1, q) => Mode(text, m) = "text"
<1>1. Mode(text, m) = ModeAfter(Mode(text, m - 1), text, m)
  BY ScanSteps
<1>2. CASE q = "quote"
  BY <1>1, <1>2 DEF ModeAfter, Skipping, Escapes, Skips, Quotes
<1>3. CASE q = "backtick"
  BY <1>1, <1>3 DEF ModeAfter, Skipping, Escapes, Skips, Quotes
<1> QED  BY <1>2, <1>3 DEF Quotes

\* The scanner is in a string until the string ends.
LEMMA StringModes ==
  ASSUME NEW text, Len(text) \in Nat, NEW i \in 1..Len(text), NEW k \in 1..Len(text),
         Mode(text, i - 1) = "text", IsString(text, i, k)
  PROVE  /\ \A m \in i..(k - 1) : Mode(text, m) # "text"
         /\ Mode(text, k) = "text"
<1> DEFINE q == text[i]
           special == {m \in (i + 1)..(k - 1) : text[m] \in Escapes(q)}
<1>1. q \in Quotes /\ i < k /\ text[k] = q /\ ~At(text, k + 1, q)
  BY DEF IsString
<1>2. PICK pairs \in SUBSET (special \ {k - 1}) :
        /\ \A m \in pairs : m + 1 \notin pairs /\ (text[m] = q => text[m + 1] = q)
        /\ \A m \in special : m \in pairs \/ m - 1 \in pairs
  BY DEF IsString
<1>3. q # "text" /\ Skipping(q) # "text"
  BY <1>1 DEF Skipping, Quotes
<1> DEFINE Here(m) == IF m \in pairs THEN Skipping(q) ELSE q
           S == {j \in 0..(k - 1 - i) : Mode(text, i + j) = Here(i + j)}
<1>4. 0 \in S
  <2>1. Mode(text, i) = ModeAfter("text", text, i)
    BY ScanSteps
  <2>2. Mode(text, i) = q
    BY <1>1, <2>1 DEF ModeAfter, Opens, Quotes
  <2>3. i + 0 = i /\ 0 \in 0..(k - 1 - i) /\ i \notin pairs
    BY <1>1, <1>2
  <2> QED  BY <2>2, <2>3
<1>5. ASSUME NEW j \in 1..(k - 1 - i), j - 1 \in S PROVE j \in S
  <2> DEFINE m == i + j
  <2>1. m \in 1..Len(text) /\ m \in (i + 1)..(k - 1) /\ m - 1 = i + (j - 1) /\ m + 1 <= Len(text)
    BY <1>1
  <2>2. Mode(text, m - 1) = Here(m - 1)
    <3>1. Mode(text, i + (j - 1)) = Here(i + (j - 1))
      BY <1>5
    <3> HIDE DEF Here
    <3> QED  BY <2>1, <3>1
  <2>3. m \in special <=> text[m] \in Escapes(q)
    BY <2>1
  <2>4. Mode(text, m) = Here(m)
    <3> HIDE DEF m, special, q
    <3>1. /\ Mode(text, m - 1) = Skipping(q) => Mode(text, m) = q
          /\ Mode(text, m - 1) = q =>
               /\ text[m] \notin Escapes(q) => Mode(text, m) = q
               /\ text[m] \in Escapes(q) /\ (text[m] = q => At(text, m + 1, q))
                  => Mode(text, m) = Skipping(q)
      BY <1>1, <2>1, QuoteSteps
    <3>2. CASE m - 1 \in pairs
      <4>1. m \notin pairs
        <5>1. (m - 1) + 1 \notin pairs
          BY <1>2, <3>2, Zenon
        <5>2. (m - 1) + 1 = m
          BY <2>1
        <5> QED  BY <5>1, <5>2
      <4> QED  BY <2>2, <3>1, <3>2, <4>1
    <3>3. CASE m - 1 \notin pairs /\ m \in pairs
      <4>1. text[m] \in Escapes(q) /\ (text[m] = q => text[m + 1] = q)
        BY <1>2, <2>3, <3>3
      <4>2. text[m] = q => At(text, m + 1, q)
        BY <2>1, <4>1 DEF At
      <4> QED  BY <2>2, <3>1, <3>3, <4>1, <4>2
    <3>4. CASE m - 1 \notin pairs /\ m \notin pairs
      <4>1. text[m] \notin Escapes(q)
        BY <1>2, <2>3, <3>4
      <4> QED  BY <2>2, <3>1, <3>4, <4>1
    <3> QED  BY <3>2, <3>3, <3>4
  <2> QED  BY <2>4
<1>6. \A j \in 0..(k - 1 - i) : j \in S
  <2>1. k - 1 - i \in Nat
    BY <1>1
  <2> HIDE DEF S
  <2> QED  BY <1>4, <1>5, <2>1, Induction
<1>7. ASSUME NEW m \in i..(k - 1) PROVE Mode(text, m) = Here(m)
  <2>1. m - i \in 0..(k - 1 - i) /\ i + (m - i) = m
    OBVIOUS
  <2>2. Mode(text, i + (m - i)) = Here(i + (m - i))
    BY <1>6, <2>1
  <2> HIDE DEF Here
  <2> QED  BY <2>1, <2>2
<1>8. Mode(text, k) = "text"
  <2>1. k - 1 \in i..(k - 1) /\ k - 1 \notin pairs
    BY <1>1, <1>2
  <2>2. Mode(text, k - 1) = q
    BY <1>7, <2>1
  <2> HIDE DEF q
  <2> QED  BY <1>1, <2>2, QuoteSteps
<1> QED  BY <1>3, <1>7, <1>8

\* Between the ends of tokens the scanner is never in the text, and at the ends
\* it always is: so it tells the tokens of any text of MySQL.
LEMMA TextAtEnds ==
  ASSUME NEW text, NEW ends, Lexed(text, ends)
  PROVE  \A i \in 0..Len(text) : Mode(text, i) = "text" <=> i \in ends
<1>0. /\ Len(text) \in Nat /\ {0, Len(text)} \subseteq ends /\ ends \subseteq 0..Len(text)
      /\ \A k \in ends \ {0} : \E j \in ends : j < k /\ IsToken(text, j + 1, k)
  BY DEF Lexed
<1>1. ASSUME NEW j \in ends, NEW k \in ends, j < k, IsToken(text, j + 1, k), Mode(text, j) = "text"
      PROVE  Mode(text, k) = "text" /\ \A m \in (j + 1)..(k - 1) : Mode(text, m) # "text"
  <2>1. j + 1 \in 1..Len(text) /\ k \in 1..Len(text) /\ (j + 1) - 1 = j
    BY <1>0, <1>1
  <2>2. Mode(text, (j + 1) - 1) = "text"
    BY <1>1, <2>1
  <2>3. CASE j + 1 = k /\ text[j + 1] \notin Quotes \cup {"slashStar"}
    <3>1. Mode(text, j + 1) = "text"
      BY <1>0, <2>1, <2>2, <2>3, PlainModes
    <3>2. \A m \in (j + 1)..(k - 1) : FALSE
      BY <2>1, <2>3
    <3> QED  BY <2>3, <3>1, <3>2
  <2>4. CASE IsString(text, j + 1, k)
    BY <1>0, <2>1, <2>2, <2>4, StringModes
  <2>5. CASE IsComment(text, j + 1, k)
    BY <1>0, <2>1, <2>2, <2>5, CommentModes
  <2> QED  BY <1>1, <2>3, <2>4, <2>5, Zenon DEF IsToken
<1> DEFINE S == {k \in 0..Len(text) : \A j \in ends : j <= k => Mode(text, j) = "text"}
<1>2. 0 \in S
  BY <1>0, ScanSteps
<1>3. ASSUME NEW k \in 1..Len(text), k - 1 \in S PROVE k \in S
  <2>1. \A j \in ends : j < k => Mode(text, j) = "text"
    BY <1>0, <1>3
  <2>2. k \in ends => Mode(text, k) = "text"
    <3> SUFFICES ASSUME k \in ends PROVE Mode(text, k) = "text"
      OBVIOUS
    <3>1. PICK j \in ends : j < k /\ IsToken(text, j + 1, k)
      BY <1>0
    <3> QED  BY <1>1, <2>1, <3>1
  <2> QED  BY <1>0, <2>1, <2>2
<1>4. \A k \in 0..Len(text) : k \in S
  <2> HIDE DEF S
  <2> QED  BY <1>0, <1>2, <1>3, Induction
<1>5. \A j \in ends : Mode(text, j) = "text"
  BY <1>0, <1>4
<1>6. ASSUME NEW i \in 0..Len(text), i \notin ends PROVE Mode(text, i) # "text"
  <2> DEFINE later == {k \in ends : k > i}
  <2>1. later \in SUBSET Nat /\ later # {}
    <3>1. \A k \in ends : k \in Nat
      BY <1>0
    <3>2. Len(text) \in ends /\ Len(text) > i
      BY <1>0, <1>6
    <3> QED  BY <3>1, <3>2
  <2>2. PICK k \in later : \A y \in later : k <= y
    BY <2>1, LeastNumber
  <2>3. PICK j \in ends : j < k /\ IsToken(text, j + 1, k)
    BY <1>0, <2>2
  <2>4. j \in Nat /\ k \in Nat /\ j # i /\ ~(j > i) /\ k > i
    BY <1>0, <1>6, <2>2, <2>3
  <2>5. i \in (j + 1)..(k - 1)
    BY <2>4
  <2> QED  BY <1>1, <1>5, <2>2, <2>3, <2>5
<1> QED  BY <1>0, <1>5, <1>6

\* The tokens up to a place are counted one after the other.
TokensOf(text, ends, x) == {i \in 1..Len(text) : i - 1 \in ends /\ text[i] = x}

LEMMA TokensAreCounted ==
  ASSUME NEW text, Len(text) \in Nat, NEW ends, NEW x, NEW k \in 0..Len(text)
  PROVE  Tokens(text, ends, k, x) = Count(TokensOf(text, ends, x), k)
<1>1. {i \in 1..k : i - 1 \in ends /\ text[i] = x} = TokensOf(text, ends, x) \cap (1..k)
  BY DEF TokensOf
<1> QED  BY <1>1, Zenon DEF Tokens, Count

\* The scanner's depth is the number of parentheses that are open, so it is one
\* before the parenthesis that closes the list of columns, and before no earlier
\* one that is closed.
LEMMA DepthIs ==
  ASSUME NEW text, NEW ends, NEW c, Lexed(text, ends), ClosesFirst(text, ends, c)
  PROVE  /\ c \in 1..Len(text) /\ c - 1 \in ends /\ text[c] = ")" /\ Depth(text, c - 1) = 1
         /\ \A i \in 1..(c - 1) : ~(text[i] = ")" /\ i - 1 \in ends /\ Depth(text, i - 1) = 1)
<1> DEFINE n == Len(text)
           O == TokensOf(text, ends, "(")
           C == TokensOf(text, ends, ")")
<1>1. n \in Nat /\ ends \subseteq 0..n
  BY DEF Lexed
<1>2. c \in 1..n /\ c - 1 \in ends /\ text[c] = ")"
  <2>1. c \in ends /\ c - 1 \in ends /\ text[c] = ")"
    BY DEF ClosesFirst
  <2> QED  BY <1>1, <2>1
<1>3. /\ Tokens(text, ends, c, "(") = Tokens(text, ends, c, ")") /\ Tokens(text, ends, c, "(") > 0
      /\ \A i \in 1..(c - 1) : \/ Tokens(text, ends, i, "(") > Tokens(text, ends, i, ")")
                               \/ Tokens(text, ends, i, "(") = 0 /\ Tokens(text, ends, i, ")") = 0
  BY Zenon DEF ClosesFirst
<1>4. \A i \in 0..n : i - 1 \in ends <=> i \in 1..n /\ Mode(text, i - 1) = "text"
  <2> TAKE i \in 0..n
  <2>1. CASE i = 0
    BY <1>1, <2>1
  <2>2. CASE i # 0
    <3>1. i \in 1..n /\ i - 1 \in 0..n
      BY <1>1, <2>2
    <3>2. Mode(text, i - 1) = "text" <=> i - 1 \in ends
      BY <3>1, TextAtEnds
    <3> QED  BY <3>1, <3>2
  <2> QED  BY <2>1, <2>2
<1>5. \A i \in 1..n : (i \in O <=> i - 1 \in ends /\ text[i] = "(")
                   /\ (i \in C <=> i - 1 \in ends /\ text[i] = ")")
  BY DEF TokensOf
<1>6. \A i \in 0..n : Tokens(text, ends, i, "(") = Count(O, i) /\ Tokens(text, ends, i, ")") = Count(C, i)
  BY <1>1, TokensAreCounted
<1> HIDE DEF O, C
<1>7. /\ Count(O, c) = Count(C, c) /\ Count(O, c) > 0
      /\ \A i \in 1..(c - 1) : Count(O, i) > Count(C, i) \/ (Count(O, i) = 0 /\ Count(C, i) = 0)
  <2>1. c \in 0..n /\ \A i \in 1..(c - 1) : i \in 0..n
    BY <1>1, <1>2
  <2> HIDE DEF n
  <2> QED  BY <1>3, <1>6, <2>1
<1>8. /\ Count(O, 0) = 0 /\ Count(C, 0) = 0
      /\ \A i \in 0..n : Count(O, i) \in Nat /\ Count(C, i) \in Nat
      /\ \A i \in 1..n : /\ Count(O, i) = Count(O, i - 1) + (IF i \in O THEN 1 ELSE 0)
                         /\ Count(C, i) = Count(C, i - 1) + (IF i \in C THEN 1 ELSE 0)
  <2>1. \A i \in 0..n : i \in Nat
    BY <1>1
  <2>2. Count(O, 0) = 0 /\ Count(C, 0) = 0
    BY CountSteps
  <2>3. \A i \in 0..n : Count(O, i) \in Nat /\ Count(C, i) \in Nat
    BY <2>1, CountSteps
  <2>4. ASSUME NEW i \in 1..n
        PROVE  /\ Count(O, i) = Count(O, i - 1) + (IF i \in O THEN 1 ELSE 0)
               /\ Count(C, i) = Count(C, i - 1) + (IF i \in C THEN 1 ELSE 0)
    <3>1. i \in Nat /\ i > 0
      BY <1>1
    <3> QED  BY <3>1, CountSteps
  <2> QED  BY <2>2, <2>3, <2>4
<1> DEFINE S == {k \in 0..(c - 1) : Depth(text, k) = Count(O, k) - Count(C, k)}
<1>9. 0 \in S
  BY <1>1, <1>2, <1>8, ScanSteps
<1>10. ASSUME NEW k \in 1..(c - 1), k - 1 \in S PROVE k \in S
  <2>1. k \in 1..n /\ k \in 0..n /\ k - 1 \in 0..n
    BY <1>1, <1>2
  <2>2. /\ Depth(text, k - 1) = Count(O, k - 1) - Count(C, k - 1)
        /\ Count(O, k - 1) \in Nat /\ Count(C, k - 1) \in Nat
        /\ Count(O, k) = Count(O, k - 1) + (IF k \in O THEN 1 ELSE 0)
        /\ Count(C, k) = Count(C, k - 1) + (IF k \in C THEN 1 ELSE 0)
    BY <1>8, <1>10, <2>1
  <2>3. Count(O, k) > Count(C, k) \/ (Count(O, k) = 0 /\ Count(C, k) = 0)
    BY <1>7
  <2>4. Depth(text, k) = IF k - 1 \in ends THEN DepthAfter(Depth(text, k - 1), text[k])
                         ELSE Depth(text, k - 1)
    BY <1>1, <1>4, <2>1, ScanSteps
  <2>5. CASE k - 1 \notin ends
    <3>1. k \notin O /\ k \notin C
      BY <1>5, <2>1, <2>5
    <3> QED  BY <2>2, <2>4, <2>5, <3>1
  <2>6. CASE k - 1 \in ends /\ text[k] = "("
    <3>1. k \in O /\ k \notin C
      BY <1>5, <2>1, <2>6
    <3> QED  BY <2>2, <2>4, <2>6, <3>1 DEF DepthAfter
  <2>7. CASE k - 1 \in ends /\ text[k] = ")"
    <3>1. k \in C /\ k \notin O
      BY <1>5, <2>1, <2>7
    <3> QED  BY <2>2, <2>3, <2>4, <2>7, <3>1 DEF DepthAfter
  <2>8. CASE k - 1 \in ends /\ text[k] # "(" /\ text[k] # ")"
    <3>1. k \notin C /\ k \notin O
      BY <1>5, <2>1, <2>8
    <3> QED  BY <2>2, <2>4, <2>8, <3>1 DEF DepthAfter
  <2> QED  BY <2>5, <2>6, <2>7, <2>8
<1>11. \A k \in 0..(c - 1) : k \in S
  <2>1. c - 1 \in Nat
    BY <1>2
  <2> HIDE DEF S
  <2> QED  BY <1>9, <1>10, <2>1, Induction
<1>12. Depth(text, c - 1) = 1
  <2>1. c - 1 \in 0..(c - 1) /\ c - 1 \in 0..n
    BY <1>1, <1>2
  <2>2. Depth(text, c - 1) = Count(O, c - 1) - Count(C, c - 1)
    BY <1>11, <2>1
  <2>3. c \in C /\ c \notin O
    BY <1>2, <1>5
  <2>4. Count(O, c) = Count(O, c - 1) /\ Count(C, c) = Count(C, c - 1) + 1
        /\ Count(C, c - 1) \in Nat /\ Count(O, c - 1) \in Nat
    <3>1. /\ Count(O, c) = Count(O, c - 1) + (IF c \in O THEN 1 ELSE 0)
          /\ Count(C, c) = Count(C, c - 1) + (IF c \in C THEN 1 ELSE 0)
      BY <1>2, <1>8
    <3>2. Count(C, c - 1) \in Nat /\ Count(O, c - 1) \in Nat
      BY <1>8, <2>1
    <3> QED  BY <2>3, <3>1, <3>2
  <2>5. Count(O, c) = Count(C, c)
    BY <1>7
  <2> QED  BY <2>2, <2>4, <2>5
<1>13. ASSUME NEW i \in 1..(c - 1), text[i] = ")", i - 1 \in ends, Depth(text, i - 1) = 1
       PROVE  FALSE
  <2>1. i - 1 \in 0..(c - 1) /\ i - 1 \in 0..n /\ i \in 1..n
    BY <1>1, <1>2
  <2>2. 1 = Count(O, i - 1) - Count(C, i - 1)
    BY <1>11, <1>13, <2>1
  <2>3. i \in C /\ i \notin O
    BY <1>5, <1>13, <2>1
  <2>4. Count(O, i) = Count(O, i - 1) /\ Count(C, i) = Count(C, i - 1) + 1
        /\ Count(C, i - 1) \in Nat /\ Count(O, i - 1) \in Nat
    BY <1>8, <2>1, <2>3
  <2> QED  BY <1>7, <2>2, <2>4
<1> QED  BY <1>2, <1>12, <1>13

\* Min, of a set of which the least element is known.
LEMMA MinIs ==
  ASSUME NEW S \in SUBSET Int, NEW x \in S, \A y \in S : x <= y
  PROVE  Min(S) = x
<1>1. \A y \in S : (\A z \in S : y <= z) => y = x
  <2> TAKE y \in S
  <2> HAVE \A z \in S : y <= z
  <2>1. y <= x /\ x <= y /\ x \in Int /\ y \in Int
    OBVIOUS
  <2> QED  BY <2>1
<1> QED  BY <1>1, Zenon DEF Min

\* The options start after the first parenthesis that closes one at depth 1.
LEMMA StartIs ==
  ASSUME NEW text, Len(text) \in Nat, NEW c \in 1..Len(text),
         text[c] = ")", Mode(text, c - 1) = "text", Depth(text, c - 1) = 1,
         \A i \in 1..(c - 1) :
           ~(text[i] = ")" /\ Mode(text, i - 1) = "text" /\ Depth(text, i - 1) = 1)
  PROVE  OptionsStart(text) = c + 1
<1> DEFINE scan == ScanText(text)
           closing == {i \in 1..Len(text) :
                         text[i] = ")" /\ scan[i - 1] = [mode |-> "text", depth |-> 1]}
<1>1. c \in closing
  <2>1. c - 1 \in 0..Len(text)
    OBVIOUS
  <2>2. scan[c - 1] = [mode |-> "text", depth |-> 1]
    BY <2>1, ScanSteps
  <2> QED  BY <2>2
<1>2. ASSUME NEW y \in closing PROVE c <= y
  <2>1. y \in 1..Len(text) /\ text[y] = ")" /\ scan[y - 1] = [mode |-> "text", depth |-> 1]
    OBVIOUS
  <2>2. Mode(text, y - 1) = "text" /\ Depth(text, y - 1) = 1
    BY <2>1 DEF Mode, Depth
  <2>3. y \notin 1..(c - 1)
    BY <2>1, <2>2
  <2> QED  BY <2>1, <2>3
<1>3. Min(closing) = c
  <2>1. closing \in SUBSET Int
    OBVIOUS
  <2> HIDE DEF closing
  <2> QED  BY <1>1, <1>2, <2>1, MinIs
<1>4. OptionsStart(text) = IF closing = {} THEN 0 ELSE Min(closing) + 1
  BY DEF OptionsStart
<1> HIDE DEF closing
<1> QED  BY <1>1, <1>3, <1>4

\* The first symbol that is no blank.
LEMMA BlanksSkipped ==
  ASSUME NEW text, Len(text) \in Nat, NEW i \in 1..(Len(text) + 2)
  PROVE  /\ SkipBlanks(text, i) \in i..(Len(text) + 2)
         /\ ~At(text, SkipBlanks(text, i), Blank)
         /\ \A m \in i..(SkipBlanks(text, i) - 1) : At(text, m, Blank)
<1> DEFINE S == {k \in i..(Len(text) + 2) : ~At(text, k, Blank)}
<1>1. S \in SUBSET Nat /\ S # {}
  <2>1. Len(text) + 2 \in S
    BY DEF At
  <2> QED  BY <2>1
<1>2. PICK k \in S : \A y \in S : k <= y
  <2> HIDE DEF S
  <2> QED  BY <1>1, LeastNumber
<1>3. SkipBlanks(text, i) = k
  <2>1. Min(S) = k
    <3> HIDE DEF S
    <3> QED  BY <1>1, <1>2, MinIs
  <2> QED  BY <2>1 DEF SkipBlanks
<1>4. \A m \in i..(k - 1) : At(text, m, Blank)
  <2> TAKE m \in i..(k - 1)
  <2>1. k \in i..(Len(text) + 2) /\ ~(k <= m) /\ m \in i..(Len(text) + 2)
    BY <1>2
  <2>2. m \notin S
    BY <1>2, <2>1
  <2> QED  BY <2>1, <2>2
<1> QED  BY <1>2, <1>3, <1>4

\* A symbol that is no blank is not skipped.
LEMMA NotSkipped ==
  ASSUME NEW text, Len(text) \in Nat, NEW i \in 1..Len(text), text[i] # Blank
  PROVE  SkipBlanks(text, i) = i
<1>1. ~At(text, i, Blank) /\ i \in 1..(Len(text) + 2)
  BY DEF At
<1>2. ~(SkipBlanks(text, i) > i)
  <2> SUFFICES ASSUME SkipBlanks(text, i) > i PROVE FALSE
    OBVIOUS
  <2>1. i \in i..(SkipBlanks(text, i) - 1)
    BY <1>1, BlanksSkipped
  <2> QED  BY <1>1, <2>1, BlanksSkipped
<1>3. SkipBlanks(text, i) \in i..(Len(text) + 2)
  BY <1>1, BlanksSkipped
<1> QED  BY <1>2, <1>3

\* A word AUTO_INCREMENT that no "=" follows is no option.
Followed(text, i) == \E e \in (i + 1)..Len(text) :
                       text[e] = "=" /\ \A m \in (i + 1)..(e - 1) : text[m] = Blank

LEMMA NoOption ==
  ASSUME NEW text, Len(text) \in Nat, NEW i \in 1..Len(text), NEW from,
         OptionEnd(text, i, from) # 0
  PROVE  Followed(text, i) /\ text[i] = Option /\ (i > from => ~IsIdentifier(text[i - 1]))
<1> DEFINE e == SkipBlanks(text, i + 1)
<1>1. At(text, e, "=") /\ text[i] = Option /\ (i > from => ~IsIdentifier(text[i - 1]))
  BY Zenon DEF OptionEnd
<1>2. i + 1 \in 1..(Len(text) + 2)
  OBVIOUS
<1>3. e \in (i + 1)..(Len(text) + 2) /\ \A m \in (i + 1)..(e - 1) : At(text, m, Blank)
  BY <1>2, BlanksSkipped
<1> HIDE DEF e
<1>4. e \in (i + 1)..Len(text) /\ text[e] = "=" /\ \A m \in (i + 1)..(e - 1) : text[m] = Blank
  BY <1>1, <1>3 DEF At
<1> QED  BY <1>1, <1>4 DEF Followed

\* Nothing is found where there is no option, and otherwise the first one.
Found(text, i, from) == OptionEnd(text, i, from) # 0 /\ Mode(text, i - 1) = "text"

LEMMA FindOptionIs ==
  ASSUME NEW text, Len(text) \in Nat, NEW from \in Nat
  PROVE  /\ (\A i \in from..Len(text) : ~Found(text, i, from)) => FindOption(text, from) = 0
         /\ \A i \in from..Len(text) :
              Found(text, i, from) /\ (\A j \in from..(i - 1) : ~Found(text, j, from))
              => FindOption(text, from) = i
<1> DEFINE found == {i \in from..Len(text) : Found(text, i, from)}
<1>1. FindOption(text, from) = IF found = {} THEN 0 ELSE Min(found)
  BY DEF FindOption, Found, Mode
<1>2. ASSUME \A i \in from..Len(text) : ~Found(text, i, from) PROVE FindOption(text, from) = 0
  BY <1>1, <1>2
<1>3. ASSUME NEW i \in from..Len(text), Found(text, i, from),
             \A j \in from..(i - 1) : ~Found(text, j, from)
      PROVE  FindOption(text, from) = i
  <2>1. i \in found /\ found \in SUBSET Int
    BY <1>3
  <2>2. ASSUME NEW y \in found PROVE i <= y
    <3>1. y \notin from..(i - 1) /\ y \in from..Len(text)
      BY <1>3
    <3> QED  BY <3>1
  <2> HIDE DEF found
  <2>3. Min(found) = i
    BY <2>1, <2>2, MinIs
  <2> QED  BY <1>1, <2>1, <2>3
<1> QED  BY <1>2, <1>3

\* One text after another.
LEMMA TextsJoined ==
  ASSUME NEW s \in Seq(Symbols), NEW t \in Seq(Symbols)
  PROVE  /\ s \o t \in Seq(Symbols) /\ Len(s \o t) = Len(s) + Len(t)
         /\ \A i \in 1..Len(s) : (s \o t)[i] = s[i]
         /\ \A i \in 1..Len(t) : (s \o t)[Len(s) + i] = t[i]
<1>1. s \o t \in Seq(Symbols) /\ Len(s \o t) = Len(s) + Len(t)
  OBVIOUS
<1>2. ASSUME NEW i \in 1..Len(s) PROVE (s \o t)[i] = s[i]
  OBVIOUS
<1>3. ASSUME NEW i \in 1..Len(t) PROVE (s \o t)[Len(s) + i] = t[i]
  OBVIOUS
<1> QED  BY <1>1, <1>2, <1>3

\* A text with the counter in it: the text up to a place, the counter, the rest.
Counting(t, text, at) ==
  /\ t \in Seq(Symbols) /\ Len(t) = Len(text) + 4
  /\ \A i \in 1..at : t[i] = text[i]
  /\ t[at + 1] = Blank /\ t[at + 2] = Option /\ t[at + 3] = "=" /\ t[at + 4] = Number

LEMMA CounterIn ==
  ASSUME NEW text \in Seq(Symbols), NEW at \in 1..Len(text)
  PROVE  /\ Counting(WithCounter(text, at), text, at)
         /\ LET t == WithCounter(text, at)
            IN  SubSeq(t, 1, at) \o SubSeq(t, at + 5, Len(t)) = text
<1> DEFINE b == SubSeq(text, 1, at)
           d == SubSeq(text, at + 1, Len(text))
           bc == b \o Counter
           t == bc \o d
<1>1. /\ b \in Seq(Symbols) /\ Len(b) = at /\ \A i \in 1..at : b[i] = text[i]
      /\ d \in Seq(Symbols) /\ Len(d) = Len(text) - at
      /\ \A i \in 1..(Len(text) - at) : d[i] = text[at + i]
  <2>1. b \in Seq(Symbols) /\ Len(b) = at
    OBVIOUS
  <2>2. \A i \in 1..at : b[i] = text[i]
    OBVIOUS
  <2>3. d \in Seq(Symbols) /\ Len(d) = Len(text) - at
    OBVIOUS
  <2>4. \A i \in 1..(Len(text) - at) : d[i] = text[at + i]
    OBVIOUS
  <2> QED  BY <2>1, <2>2, <2>3, <2>4
<1> HIDE DEF b, d
<1>2. /\ Counter \in Seq(Symbols) /\ Len(Counter) = 4 /\ Counter[1] = Blank
      /\ Counter[2] = Option /\ Counter[3] = "=" /\ Counter[4] = Number
  <2>1. Counter \in Seq(Symbols) /\ Len(Counter) = 4
    <3>1. Blank \in Symbols /\ Option \in Symbols /\ "=" \in Symbols /\ Number \in Symbols
      BY DEF Symbols
    <3> QED  BY <3>1 DEF Counter
  <2>2. Counter[1] = Blank /\ Counter[2] = Option /\ Counter[3] = "=" /\ Counter[4] = Number
    BY DEF Counter
  <2> QED  BY <2>1, <2>2
<1>3. /\ bc \in Seq(Symbols) /\ Len(bc) = at + 4
      /\ \A i \in 1..at : bc[i] = b[i]
      /\ bc[at + 1] = Blank /\ bc[at + 2] = Option /\ bc[at + 3] = "=" /\ bc[at + 4] = Number
  <2>1. /\ bc \in Seq(Symbols) /\ Len(bc) = Len(b) + Len(Counter)
        /\ \A i \in 1..Len(b) : bc[i] = b[i]
        /\ \A i \in 1..Len(Counter) : bc[Len(b) + i] = Counter[i]
    BY <1>1, <1>2, TextsJoined
  <2> HIDE DEF bc
  <2>2. 1 \in 1..4 /\ 2 \in 1..4 /\ 3 \in 1..4 /\ 4 \in 1..4
    OBVIOUS
  <2> QED  BY <1>1, <1>2, <2>1, <2>2
<1> HIDE DEF bc
<1>4. /\ t \in Seq(Symbols) /\ Len(t) = Len(text) + 4
      /\ \A i \in 1..(at + 4) : t[i] = bc[i]
      /\ \A i \in 1..(Len(text) - at) : t[at + 4 + i] = d[i]
  <2>1. /\ t \in Seq(Symbols) /\ Len(t) = Len(bc) + Len(d)
        /\ \A i \in 1..Len(bc) : t[i] = bc[i]
        /\ \A i \in 1..Len(d) : t[Len(bc) + i] = d[i]
    BY <1>1, <1>3, TextsJoined
  <2> HIDE DEF t
  <2> QED  BY <1>1, <1>3, <2>1
<1> HIDE DEF t
<1>5. Counting(t, text, at)
  <2>1. {at + 1, at + 2, at + 3, at + 4} \subseteq 1..(at + 4) /\ \A i \in 1..at : i \in 1..(at + 4)
    OBVIOUS
  <2> QED  BY <1>1, <1>3, <1>4, <2>1 DEF Counting
<1>6. SubSeq(t, 1, at) \o SubSeq(t, at + 5, Len(t)) = text
  <2> DEFINE u == SubSeq(t, 1, at)
             v == SubSeq(t, at + 5, Len(t))
  <2>1. /\ u \in Seq(Symbols) /\ Len(u) = at /\ \A i \in 1..at : u[i] = t[i]
        /\ v \in Seq(Symbols) /\ Len(v) = Len(text) - at
        /\ \A i \in 1..(Len(text) - at) : v[i] = t[at + 4 + i]
    <3>1. u \in Seq(Symbols) /\ Len(u) = at
      BY <1>4
    <3>2. \A i \in 1..at : u[i] = t[i]
      BY <1>4
    <3>3. v \in Seq(Symbols) /\ Len(v) = Len(text) - at
      BY <1>4
    <3>4. \A i \in 1..(Len(text) - at) : v[i] = t[at + 4 + i]
      BY <1>4
    <3> QED  BY <3>1, <3>2, <3>3, <3>4
  <2> HIDE DEF u, v
  <2> DEFINE w == u \o v
  <2>2. /\ w \in Seq(Symbols) /\ Len(w) = Len(u) + Len(v)
        /\ \A i \in 1..Len(u) : w[i] = u[i]
        /\ \A i \in 1..Len(v) : w[Len(u) + i] = v[i]
    BY <2>1, TextsJoined
  <2> HIDE DEF w
  <2>3. ASSUME NEW i \in 1..Len(text) PROVE w[i] = text[i]
    <3>1. CASE i <= at
      <4>1. i \in 1..at /\ i \in 1..(at + 4)
        BY <3>1
      <4> QED  BY <1>1, <1>3, <1>4, <2>1, <2>2, <4>1
    <3>2. CASE i > at
      <4>1. i - at \in 1..(Len(text) - at) /\ at + (i - at) = i
        BY <3>2
      <4>2. w[i] = v[i - at]
        BY <2>1, <2>2, <4>1
      <4>3. v[i - at] = t[at + 4 + (i - at)] /\ t[at + 4 + (i - at)] = d[i - at]
        BY <1>4, <2>1, <4>1
      <4>4. d[i - at] = text[at + (i - at)]
        BY <1>1, <4>1
      <4> QED  BY <4>1, <4>2, <4>3, <4>4
    <3> QED  BY <3>1, <3>2
  <2>4. Len(w) = Len(text)
    BY <2>1, <2>2
  <2>5. w = text
    BY <2>2, <2>3, <2>4
  <2> QED  BY <2>5 DEF w, u, v
<1> QED  BY <1>5, <1>6 DEF t, bc, b, d, WithCounter

\* Up to the counter the scanner reads the text with it as it reads the text
\* without it: it looks one symbol ahead, but only from within a string.
LEMMA SameScan ==
  ASSUME NEW text, Len(text) \in Nat, NEW at \in 1..Len(text), Mode(text, at) = "text",
         NEW t, Counting(t, text, at)
  PROVE  \A i \in 0..at : Mode(t, i) = Mode(text, i) /\ Depth(t, i) = Depth(text, i)
<1>1. /\ Len(t) \in Nat /\ at + 4 <= Len(t) /\ \A i \in 1..at : t[i] = text[i]
      /\ t[at + 1] \notin Quotes
  <2>1. t \in Seq(Symbols) /\ Len(t) = Len(text) + 4 /\ \A i \in 1..at : t[i] = text[i]
    BY Zenon DEF Counting
  <2>2. t[at + 1] \notin Quotes
    BY DEF Counting, Blank, Quotes
  <2> QED  BY <2>1, <2>2
<1> DEFINE S == {i \in 0..at : Mode(t, i) = Mode(text, i) /\ Depth(t, i) = Depth(text, i)}
<1>2. 0 \in S
  BY <1>1, ScanSteps
<1>3. ASSUME NEW i \in 1..at, i - 1 \in S PROVE i \in S
  <2> DEFINE m == Mode(text, i - 1)
  <2>1. i \in 1..Len(text) /\ i \in 1..Len(t) /\ t[i] = text[i]
    BY <1>1
  <2>2. Mode(t, i - 1) = m /\ Depth(t, i - 1) = Depth(text, i - 1)
    BY <1>3
  <2>3. Mode(t, i) = ModeAfter(m, t, i) /\ Mode(text, i) = ModeAfter(m, text, i)
    BY <1>1, <2>1, <2>2, ScanSteps
  <2>4. Depth(t, i) = Depth(text, i)
    BY <1>1, <2>1, <2>2, ScanSteps
  <2>5. m \in Modes
    <3>1. i - 1 \in 0..Len(text)
      BY <2>1
    <3> QED  BY <3>1, ScanSteps
  <2> HIDE DEF m
  <2>6. Mode(t, i) = Mode(text, i)
    <3>1. CASE m \notin Quotes
      BY <2>1, <2>3, <2>5, <3>1 DEF ModeAfter, Modes
    <3>2. CASE m \in Quotes /\ i < at
      <4>1. \A q \in Quotes : At(t, i + 1, q) <=> At(text, i + 1, q)
        <5>1. i + 1 \in 1..at /\ i + 1 <= Len(t) /\ i + 1 <= Len(text)
          BY <1>1, <3>2
        <5> QED  BY <1>1, <5>1 DEF At
      <4>2. Skips(t, i, m) <=> Skips(text, i, m)
        BY <2>1, <3>2, <4>1 DEF Skips
      <4> QED  BY <2>1, <2>3, <3>2, <4>2 DEF ModeAfter
    <3>3. CASE m \in Quotes /\ i = at
      <4>1. ModeAfter(m, text, i) = "text"
        BY <2>3, <3>3
      <4>2. ~Skips(text, i, m) /\ text[i] = m
        BY <3>3, <4>1 DEF ModeAfter, Quotes
      <4>3. ~At(t, i + 1, m)
        BY <1>1, <3>3 DEF At
      <4>4. ~Skips(t, i, m)
        BY <2>1, <4>2, <4>3 DEF Skips
      <4>5. ModeAfter(m, t, i) = "text"
        BY <2>1, <3>3, <4>2, <4>4 DEF ModeAfter, Quotes
      <4> QED  BY <2>3, <4>1, <4>5
    <3> QED  BY <3>1, <3>2, <3>3
  <2> QED  BY <2>4, <2>6
<1>4. \A i \in 0..at : i \in S
  <2>1. at \in Nat
    OBVIOUS
  <2> HIDE DEF S
  <2> QED  BY <1>2, <1>3, <2>1, Induction
<1> QED  BY <1>4

\* Without its counter, a text of MySQL is left as it is.
LEMMA LeftAlone ==
  ASSUME NEW x, Legible(x)
  PROVE  /\ x.columns \in 1..Len(x.text) /\ x.text[x.columns] = ")"
         /\ OptionsStart(x.text) = x.columns + 1
         /\ \A i \in (x.columns + 1)..Len(x.text) :
              i - 1 \in x.ends /\ x.text[i] = Option /\ ~IsIdentifier(x.text[i - 1])
              => ~Followed(x.text, i)
         /\ NormalizeCreateTableDDL(x.text) = x.text
<1> DEFINE text == x.text
           ends == x.ends
           c == x.columns
<1>1. Lexed(text, ends) /\ ClosesFirst(text, ends, c)
  BY DEF Legible
<1>2. \A i \in (c + 1)..Len(text) :
        i - 1 \in ends /\ text[i] = Option /\ ~IsIdentifier(text[i - 1]) => ~Followed(text, i)
  BY DEF Legible, Followed
<1> HIDE DEF text, ends, c
<1>3. Len(text) \in Nat
  BY <1>1 DEF Lexed
<1>4. \A i \in 0..Len(text) : Mode(text, i) = "text" <=> i \in ends
  BY <1>1, TextAtEnds
<1>5. /\ c \in 1..Len(text) /\ c - 1 \in ends /\ text[c] = ")" /\ Depth(text, c - 1) = 1
      /\ \A i \in 1..(c - 1) : ~(text[i] = ")" /\ i - 1 \in ends /\ Depth(text, i - 1) = 1)
  BY <1>1, DepthIs
<1>6. OptionsStart(text) = c + 1
  <2>1. Mode(text, c - 1) = "text"
    BY <1>3, <1>4, <1>5
  <2>2. \A i \in 1..(c - 1) :
          ~(text[i] = ")" /\ Mode(text, i - 1) = "text" /\ Depth(text, i - 1) = 1)
    BY <1>3, <1>4, <1>5
  <2> QED  BY <1>3, <1>5, <2>1, <2>2, StartIs
<1>7. ASSUME NEW i \in (c + 1)..Len(text), Found(text, i, c + 1) PROVE FALSE
  <2>1. i \in 1..Len(text) /\ OptionEnd(text, i, c + 1) # 0 /\ Mode(text, i - 1) = "text"
    BY <1>3, <1>5, <1>7 DEF Found
  <2>2. Followed(text, i) /\ text[i] = Option /\ (i > c + 1 => ~IsIdentifier(text[i - 1]))
    BY <1>3, <2>1, NoOption
  <2>3. i - 1 \in ends
    <3>1. i - 1 \in 0..Len(text)
      BY <2>1
    <3> QED  BY <1>4, <2>1, <3>1
  <2>4. ~IsIdentifier(text[i - 1])
    <3>1. CASE i = c + 1
      <4>1. text[i - 1] = ")"
        BY <1>3, <1>5, <3>1
      <4> QED  BY <4>1 DEF IsIdentifier, Word, Option, Number
    <3>2. CASE i # c + 1
      <4>1. i > c + 1
        BY <1>5, <3>2
      <4> QED  BY <2>2, <4>1
    <3> QED  BY <3>1, <3>2
  <2> QED  BY <1>2, <2>2, <2>3, <2>4
<1>8. FindOption(text, c + 1) = 0
  <2>1. c + 1 \in Nat
    BY <1>5
  <2> QED  BY <1>3, <1>7, <2>1, FindOptionIs
<1>9. NormalizeCreateTableDDL(text) = text
  <2>1. c + 1 # 0
    BY <1>5
  <2> QED  BY <1>6, <1>8, <2>1 DEF NormalizeCreateTableDDL
<1> QED  BY <1>2, <1>5, <1>6, <1>9 DEF text, ends, c

\* The counter is the first option that is found, and it goes with the blank
\* before it: the text that is left is the one without it.
LEMMA CounterGone ==
  ASSUME NEW x, Legible(x), x.counter # 0
  PROVE  NormalizeCreateTableDDL(WithCounter(x.text, x.counter)) = x.text
<1> DEFINE text == x.text
           ends == x.ends
           c == x.columns
           at == x.counter
           t == WithCounter(text, at)
<1>1. Lexed(text, ends) /\ ClosesFirst(text, ends, c) /\ at \in ends /\ at >= c /\ text[at] # Blank
  BY DEF Legible
<1>2. /\ c \in 1..Len(text) /\ text[c] = ")"
      /\ \A i \in (c + 1)..Len(text) :
           i - 1 \in ends /\ text[i] = Option /\ ~IsIdentifier(text[i - 1]) => ~Followed(text, i)
  BY LeftAlone
<1> HIDE DEF text, ends, c, at
<1>3. text \in Seq(Symbols) /\ Len(text) \in Nat /\ at \in 1..Len(text)
  <2>1. text \in Seq(Symbols) /\ Len(text) \in Nat /\ ends \subseteq 0..Len(text)
    BY <1>1 DEF Lexed
  <2> QED  BY <1>1, <1>2, <2>1
<1>4. Counting(t, text, at) /\ SubSeq(t, 1, at) \o SubSeq(t, at + 5, Len(t)) = text
  BY <1>3, CounterIn
<1> HIDE DEF t
<1>5. /\ Len(t) \in Nat /\ Len(t) = Len(text) + 4 /\ \A i \in 1..at : t[i] = text[i]
      /\ t[at + 1] = Blank /\ t[at + 2] = Option /\ t[at + 3] = "=" /\ t[at + 4] = Number
  BY <1>3, <1>4 DEF Counting
<1>6. \A i \in 0..Len(text) : Mode(text, i) = "text" <=> i \in ends
  BY <1>1, TextAtEnds
<1>7. \A i \in 0..at : Mode(t, i) = Mode(text, i) /\ Depth(t, i) = Depth(text, i)
  <2>1. Mode(text, at) = "text"
    BY <1>1, <1>3, <1>6
  <2> QED  BY <1>3, <1>4, <2>1, SameScan
<1>8. OptionsStart(t) = c + 1
  <2>1. /\ c - 1 \in ends /\ Depth(text, c - 1) = 1
        /\ \A i \in 1..(c - 1) : ~(text[i] = ")" /\ i - 1 \in ends /\ Depth(text, i - 1) = 1)
    BY <1>1, DepthIs
  <2>2. c \in 1..Len(t) /\ c \in 1..at /\ c - 1 \in 0..at /\ c - 1 \in 0..Len(text)
    BY <1>1, <1>2, <1>3, <1>5
  <2>3. t[c] = ")" /\ Mode(t, c - 1) = "text" /\ Depth(t, c - 1) = 1
    BY <1>2, <1>5, <1>6, <1>7, <2>1, <2>2
  <2>4. ASSUME NEW i \in 1..(c - 1), t[i] = ")", Mode(t, i - 1) = "text", Depth(t, i - 1) = 1
        PROVE  FALSE
    <3>1. i \in 1..at /\ i - 1 \in 0..at /\ i - 1 \in 0..Len(text)
      BY <1>3, <2>2
    <3>2. text[i] = ")" /\ i - 1 \in ends /\ Depth(text, i - 1) = 1
      BY <1>5, <1>6, <1>7, <2>4, <3>1
    <3> QED  BY <2>1, <3>2
  <2> QED  BY <1>5, <2>2, <2>3, <2>4, StartIs
<1> DEFINE from == c + 1
           i0 == at + 2
<1>9. from \in Nat /\ from <= at + 1 /\ i0 \in from..Len(t) /\ i0 \in 1..Len(t)
  BY <1>1, <1>2, <1>3, <1>5
<1>10. OptionEnd(t, i0, from) = at + 4
  <2>1. SkipBlanks(t, i0 + 1) = at + 3
    <3>1. at + 3 \in 1..Len(t) /\ i0 + 1 = at + 3
      BY <1>3, <1>5
    <3>2. t[at + 3] # Blank
      BY <1>5 DEF Blank
    <3>3. SkipBlanks(t, at + 3) = at + 3
      BY <1>5, <3>1, <3>2, NotSkipped
    <3> QED  BY <3>1, <3>3
  <2>2. SkipBlanks(t, at + 4) = at + 4
    <3>1. at + 4 \in 1..Len(t)
      BY <1>3, <1>5
    <3>2. t[at + 4] # Blank
      BY <1>5 DEF Blank, Number
    <3> QED  BY <1>5, <3>1, <3>2, NotSkipped
  <2>3. At(t, at + 3, "=") /\ At(t, at + 4, Number)
    BY <1>3, <1>5 DEF At
  <2>4. t[i0] = Option /\ ~IsIdentifier(t[i0 - 1])
    <3>1. i0 - 1 = at + 1
      BY <1>3
    <3> QED  BY <1>5, <3>1 DEF IsIdentifier, Word, Option, Number, Blank
  <2>5. (at + 3) + 1 = at + 4
    BY <1>3
  <2> HIDE DEF i0, from
  <2> QED  BY <2>1, <2>2, <2>3, <2>4, <2>5 DEF OptionEnd
<1>11. Mode(t, i0 - 1) = "text"
  <2>1. at \in 0..at /\ at \in 0..Len(text) /\ at + 1 \in 1..Len(t) /\ (at + 1) - 1 = at /\ i0 - 1 = at + 1
    BY <1>3, <1>5
  <2>2. Mode(t, (at + 1) - 1) = "text"
    BY <1>1, <1>6, <1>7, <2>1
  <2>3. t[at + 1] \notin Quotes \cup {"slashStar"}
    BY <1>5 DEF Blank, Quotes
  <2>4. Mode(t, at + 1) = "text"
    BY <1>5, <2>1, <2>2, <2>3, PlainModes
  <2> QED  BY <2>1, <2>4
<1>12. ASSUME NEW i \in from..(i0 - 1), Found(t, i, from) PROVE FALSE
  <2>1. /\ i \in 1..Len(t) /\ i \in Nat /\ i >= c + 1 /\ i <= at + 1
        /\ OptionEnd(t, i, from) # 0 /\ Mode(t, i - 1) = "text"
    BY <1>2, <1>3, <1>5, <1>12 DEF Found
  <2>2. Followed(t, i) /\ t[i] = Option /\ (i > c + 1 => ~IsIdentifier(t[i - 1]))
    BY <1>5, <2>1, NoOption
  <2>3. i # at + 1
    BY <1>5, <2>2 DEF Blank, Option
  <2>4. i \in 1..at /\ i - 1 \in 0..at /\ i \in (c + 1)..Len(text) /\ i - 1 \in 0..Len(text)
    BY <1>2, <1>3, <2>1, <2>3
  <2>5. text[i] = Option /\ i - 1 \in ends
    BY <1>5, <1>6, <1>7, <2>1, <2>2, <2>4
  <2>6. ~IsIdentifier(text[i - 1])
    <3>1. CASE i = c + 1
      <4>1. text[i - 1] = ")"
        BY <1>2, <3>1
      <4> QED  BY <4>1 DEF IsIdentifier, Word, Option, Number
    <3>2. CASE i # c + 1
      <4>1. i > c + 1 /\ i - 1 \in 1..at
        BY <1>2, <2>1, <2>4, <3>2
      <4> QED  BY <1>5, <2>2, <4>1
    <3> QED  BY <3>1, <3>2
  <2>7. PICK e \in (i + 1)..Len(t) : t[e] = "=" /\ \A m \in (i + 1)..(e - 1) : t[m] = Blank
    BY <2>2 DEF Followed
  <2>8. e <= at
    <3>1. e # at + 1 /\ e # at + 2
      BY <1>5, <2>7 DEF Blank, Option
    <3>2. ~(e > at + 2)
      <4> SUFFICES ASSUME e > at + 2 PROVE FALSE
        OBVIOUS
      <4>1. at + 2 \in (i + 1)..(e - 1)
        BY <1>3, <2>1, <2>7
      <4> QED  BY <1>5, <2>7, <4>1 DEF Blank, Option
    <3> QED  BY <1>3, <2>7, <3>1, <3>2
  <2>9. Followed(text, i)
    <3>1. e \in (i + 1)..Len(text) /\ e \in 1..at
      BY <1>3, <2>1, <2>7, <2>8
    <3>2. text[e] = "="
      BY <1>5, <2>7, <3>1
    <3>3. \A m \in (i + 1)..(e - 1) : text[m] = Blank
      <4> TAKE m \in (i + 1)..(e - 1)
      <4>1. m \in 1..at
        BY <1>3, <2>1, <3>1
      <4> QED  BY <1>5, <2>7, <4>1
    <3> QED  BY <3>1, <3>2, <3>3 DEF Followed
  <2> QED  BY <1>2, <2>4, <2>5, <2>6, <2>9
<1>13. FindOption(t, from) = i0
  <2>1. Found(t, i0, from)
    <3>1. at + 4 # 0
      BY <1>3
    <3> QED  BY <1>10, <1>11, <3>1 DEF Found
  <2> HIDE DEF i0, from
  <2> QED  BY <1>5, <1>9, <1>12, <2>1, FindOptionIs
<1>14. SkipBack(t, i0, from) = at + 1
  <2> DEFINE S == {k \in from..i0 : \A j \in k..(i0 - 1) : t[j] = Blank}
  <2>1. at + 1 \in S
    <3>1. at + 1 \in from..i0 /\ \A j \in (at + 1)..(i0 - 1) : j = at + 1
      BY <1>3, <1>9
    <3> QED  BY <1>5, <3>1
  <2>2. ASSUME NEW k \in S PROVE at + 1 <= k
    <3> SUFFICES ASSUME k < at + 1 PROVE FALSE
      BY <1>3, <1>9
    <3>1. at \in k..(i0 - 1)
      BY <1>3, <1>9
    <3>2. t[at] = Blank /\ t[at] = text[at]
      <4>1. \A j \in k..(i0 - 1) : t[j] = Blank
        OBVIOUS
      <4>2. at \in 1..at
        BY <1>3
      <4> QED  BY <1>5, <3>1, <4>1, <4>2
    <3> QED  BY <1>1, <3>2
  <2>3. Min(S) = at + 1
    <3>1. S \in SUBSET Int
      BY <1>9
    <3> HIDE DEF S
    <3> QED  BY <2>1, <2>2, <3>1, MinIs
  <2> QED  BY <2>3 DEF SkipBack
<1>15. NormalizeCreateTableDDL(t) = SubSeq(t, 1, at) \o SubSeq(t, at + 5, Len(t))
  <2>1. from # 0 /\ i0 # 0 /\ (at + 1) - 1 = at /\ (at + 4) + 1 = at + 5
    <3>1. at \in Nat /\ c \in Nat
      BY <1>2, <1>3
    <3> QED  BY <3>1
  <2>2. OptionsStart(t) = from
    BY <1>8
  <2> HIDE DEF from, i0
  <2>3. NormalizeCreateTableDDL(t) = SubSeq(t, 1, (at + 1) - 1) \o SubSeq(t, (at + 4) + 1, Len(t))
    BY <1>10, <1>13, <1>14, <2>1, <2>2 DEF NormalizeCreateTableDDL
  <2> QED  BY <2>1, <2>3
<1> QED  BY <1>4, <1>15 DEF t, text, at

\* Whatever strings, comments and words the text of a table has, the counter and
\* nothing else goes, and it goes once (resource.go:180).
THEOREM CounterGoes == Spec => []OnlyTheCounterGoes
<1>1. Computed => OnlyTheCounterGoes
  <2> SUFFICES ASSUME Computed, Answered("ddl") PROVE OnlyTheCounterGoes
    BY DEF OnlyTheCounterGoes
  <2>1. input \in Ddls /\ answer = NormalizeCreateTableDDL(ShowCreateTable(input))
    BY DEF Computed, Answered
  <2>2. Legible(input)
    BY <2>1, DdlsAssumption
  <2>3. NormalizeCreateTableDDL(input.text) = input.text
    BY <2>2, LeftAlone
  <2>4. answer = input.text
    <3>1. CASE input.counter = 0
      BY <2>1, <2>3, <3>1 DEF ShowCreateTable
    <3>2. CASE input.counter # 0
      <4>1. NormalizeCreateTableDDL(WithCounter(input.text, input.counter)) = input.text
        BY <2>2, <3>2, CounterGone
      <4> QED  BY <2>1, <3>2, <4>1 DEF ShowCreateTable
    <3> QED  BY <3>1, <3>2
  <2> QED  BY <2>3, <2>4, Zenon DEF OnlyTheCounterGoes
<1> QED  BY <1>1, ComputedAlways, PTL
=============================================================================
