-------------------------- MODULE QueryResultsProofs --------------------------
(***************************************************************************)
(* The invariants of QueryResultsApp hold for any number of calls, inputs, *)
(* entries and refreshes, as long as no input has a blank profile.  The    *)
(* view cannot see which input belongs to which call; what makes it right  *)
(* is that the open calls can be matched, one to one, with inputs that     *)
(* wait (Matched), and that the others are as many as the ends without an  *)
(* owner (PendingIsBalanced): with one input waiting and no such end, the  *)
(* one that waits is that of the one call that is open.  The two           *)
(* invariants of HostedView, at the end, need no such proviso.             *)
(***************************************************************************)
EXTENDS HostedView, FiniteSetTheorems, TLAPS

NoBlankInput == \A c \in Calls : Input[c] # Blank

OpenCalls == {c \in Calls : stage[c] = "open"}

\* The calls of O are matched with elements of p.
Match(O, p) == \E m \in [O -> 1..Len(p)] :
                 /\ \A c, d \in O : m[c] = m[d] => c = d
                 /\ \A c \in O : p[m[c]] = Input[c]

Balance(O, p, u) == IsFiniteSet(O) /\ Len(p) - u = Cardinality(O)

Ids == ({"result"} \X (Calls \cup Nat)) \cup ({"transient"} \X Nat)

\* Entries that blame the right request, or say that they do not know.
GoodEntries ==
  {e \in [id : Ids, status : {"success", "error", "cancelled"},
          source : Queries \cup {Unknown}, candidates : SUBSET Queries, asked : Queries] :
     /\ e.source \in {Unknown, e.asked}
     /\ e.source = Unknown => e.asked \in e.candidates /\ e.status # "success"}

Types == /\ stage \in [Calls -> {"new", "open", "answered", "ended"}]
         /\ pending \in Seq(Queries) /\ unattributed \in Nat
         /\ executing \in BOOLEAN
         /\ refreshing \in Queries \cup {NoQuery}
         /\ refreshes \in Nat /\ serial \in Nat

Matched == Match(OpenCalls, pending) /\ Balance(OpenCalls, pending, unattributed)
Spinner == ~interrupted => (executing <=> OpenCalls # {})

Inv == Types /\ history \in Seq(GoodEntries) /\ Matched /\ Spinner

-----------------------------------------------------------------------------
\* The least element of a set of numbers, from the well-foundedness of
\* inclusion between the intervals that end there.
LEMMA LeastNumber ==
  ASSUME NEW S \in SUBSET Nat, S # {}
  PROVE  \E x \in S : \A y \in S : x <= y
<1> DEFINE F == {1..x : x \in S}
<1>1. F \subseteq FiniteSubsetsOf(Nat) /\ F # {}
  <2>1. \A x \in S : 1..x \in FiniteSubsetsOf(Nat)
    <3> TAKE x \in S
    <3>1. IsFiniteSet(1..x) /\ 1..x \subseteq Nat
      BY FS_Interval
    <3> QED  BY <3>1 DEF FiniteSubsetsOf
  <2> QED  BY <2>1
<1>2. \E s \in F : \A t \in F : <<t, s>> \notin StrictSubsetOrdering(Nat)
  <2> HIDE DEF F
  <2> QED  BY <1>1, FS_StrictSubsetOrderingWellFounded, WFMin
<1>3. PICK x \in S : \A y \in S : <<1..y, 1..x>> \notin StrictSubsetOrdering(Nat)
  BY <1>2
<1>4. ASSUME NEW y \in S, y < x PROVE FALSE
  <2>1. 1..y \subseteq 1..x /\ x \in 1..x /\ x \notin 1..y
    BY <1>4
  <2>2. 1..y \in SUBSET Nat /\ 1..x \in SUBSET Nat /\ 1..y # 1..x
    BY <2>1
  <2>3. <<1..y, 1..x>> \in StrictSubsetOrdering(Nat)
    BY <2>1, <2>2 DEF StrictSubsetOrdering
  <2> QED  BY <2>3, <1>3
<1> QED  BY <1>4

LEMMA SplicedOut ==
  ASSUME NEW X, NEW s \in Seq(X), NEW j \in 1..Len(s)
  PROVE  LET t == SubSeq(s, 1, j - 1) \o SubSeq(s, j + 1, Len(s))
         IN  /\ t \in Seq(X) /\ Len(t) = Len(s) - 1
             /\ \A i \in 1..Len(t) : t[i] = IF i < j THEN s[i] ELSE s[i + 1]
<1> DEFINE a == SubSeq(s, 1, j - 1)
           b == SubSeq(s, j + 1, Len(s))
<1>1. /\ a \in Seq(X) /\ Len(a) = j - 1 /\ \A i \in 1..(j - 1) : a[i] = s[i]
      /\ b \in Seq(X) /\ Len(b) = Len(s) - j /\ \A i \in 1..(Len(s) - j) : b[i] = s[i + j]
  OBVIOUS
<1> HIDE DEF a, b
<1>2. /\ a \o b \in Seq(X) /\ Len(a \o b) = Len(s) - 1
      /\ \A i \in 1..(Len(s) - 1) : (a \o b)[i] = IF i < j THEN s[i] ELSE s[i + 1]
  <2>1. a \o b \in Seq(X) /\ Len(a \o b) = Len(s) - 1
    <3>1. a \in Seq(X) /\ b \in Seq(X) /\ Len(s) \in Nat
      BY <1>1
    <3>2. a \o b \in Seq(X) /\ Len(a \o b) = Len(a) + Len(b)
      BY <3>1
    <3> QED  BY <1>1, <3>1, <3>2
  <2>2. ASSUME NEW i \in 1..(Len(s) - 1) PROVE (a \o b)[i] = IF i < j THEN s[i] ELSE s[i + 1]
    <3>1. CASE i < j
      BY <1>1, <3>1
    <3>2. CASE ~(i < j)
      <4>1. (a \o b)[i] = b[i - (j - 1)] /\ i - (j - 1) \in 1..(Len(s) - j)
        BY <1>1, <3>2
      <4> QED  BY <1>1, <3>2, <4>1
    <3> QED  BY <3>1, <3>2
  <2> QED  BY <2>1, <2>2
<1> QED  BY <1>2 DEF a, b

\* What RemoveFirst of the community modules takes out.
LEMMA RemoveFirstOf ==
  ASSUME NEW X, NEW s \in Seq(X), NEW e, \E i \in 1..Len(s) : s[i] = e
  PROVE  LET t == RemoveFirst(s, e)
         IN  /\ t \in Seq(X) /\ Len(t) = Len(s) - 1
             /\ \E j \in 1..Len(s) :
                  /\ s[j] = e
                  /\ \A i \in 1..Len(t) : t[i] = IF i < j THEN s[i] ELSE s[i + 1]
<1> DEFINE I == {i \in 1..Len(s) : s[i] = e}
           t == RemoveFirst(s, e)
<1>1. I \in SUBSET Nat /\ I # {}
  OBVIOUS
<1>2. \E x \in I : \A y \in I : x <= y
  BY <1>1, LeastNumber
<1>3. SelectInSeq(s, LAMBDA v : v = e) \in I
  BY <1>1, <1>2 DEF SelectInSeq, Min
<1>4. PICK j \in 1..Len(s) : s[j] = e /\ t = SubSeq(s, 1, j - 1) \o SubSeq(s, j + 1, Len(s))
  BY <1>3 DEF RemoveFirst, RemoveAt
<1> HIDE DEF t, I
<1>5. /\ t \in Seq(X) /\ Len(t) = Len(s) - 1
      /\ \A i \in 1..Len(t) : t[i] = IF i < j THEN s[i] ELSE s[i + 1]
  <2> DEFINE u == SubSeq(s, 1, j - 1) \o SubSeq(s, j + 1, Len(s))
  <2>1. /\ u \in Seq(X) /\ Len(u) = Len(s) - 1
        /\ \A i \in 1..Len(u) : u[i] = IF i < j THEN s[i] ELSE s[i + 1]
    BY SplicedOut
  <2>2. t = u
    BY <1>4
  <2> HIDE DEF u
  <2> QED  BY <2>1, <2>2
<1>6. s[j] = e
  BY <1>4
<1> QED  BY <1>5, <1>6 DEF t

-----------------------------------------------------------------------------
\* A call that is open has an input that waits.
LEMMA MatchWaits ==
  ASSUME NEW O, NEW p, Match(O, p), NEW c \in O
  PROVE  \E i \in 1..Len(p) : p[i] = Input[c]
BY DEF Match

\* The first input like that of a call that ended goes; if it was matched with
\* another call, that one takes over what the ended call was matched with.
LEMMA MatchRemove ==
  ASSUME NEW O, NEW p \in Seq(Queries), Match(O, p), NEW c \in O
  PROVE  /\ RemoveFirst(p, Input[c]) \in Seq(Queries)
         /\ Len(RemoveFirst(p, Input[c])) = Len(p) - 1
         /\ Match(O \ {c}, RemoveFirst(p, Input[c]))
<1> PICK m \in [O -> 1..Len(p)] :
        /\ \A a, b \in O : m[a] = m[b] => a = b
        /\ \A a \in O : p[m[a]] = Input[a]
  BY DEF Match
<1>1. \E i \in 1..Len(p) : p[i] = Input[c]
  BY MatchWaits
<1> DEFINE t == RemoveFirst(p, Input[c])
<1> HIDE DEF t
<1>a. /\ t \in Seq(Queries) /\ Len(t) = Len(p) - 1
      /\ \E j \in 1..Len(p) :
           /\ p[j] = Input[c]
           /\ \A i \in 1..Len(t) : t[i] = IF i < j THEN p[i] ELSE p[i + 1]
  BY <1>1, RemoveFirstOf DEF t
<1> PICK j \in 1..Len(p) :
        /\ p[j] = Input[c]
        /\ \A i \in 1..Len(t) : t[i] = IF i < j THEN p[i] ELSE p[i + 1]
  BY <1>a
<1>2. /\ t \in Seq(Queries) /\ Len(t) = Len(p) - 1
      /\ \A i \in 1..Len(t) : t[i] = IF i < j THEN p[i] ELSE p[i + 1]
  BY <1>a
<1> DEFINE at(d) == IF m[d] = j THEN m[c] ELSE m[d]
           place(d) == IF at(d) < j THEN at(d) ELSE at(d) - 1
           n == [d \in O \ {c} |-> place(d)]
<1>3. \A d \in O \ {c} : at(d) \in 1..Len(p) /\ at(d) # j /\ p[at(d)] = Input[d]
  OBVIOUS
<1>4. \A d, e \in O \ {c} : at(d) = at(e) => d = e
  OBVIOUS
<1>5. Len(p) \in Nat
  OBVIOUS
<1> HIDE DEF at
<1>6. \A d \in O \ {c} : place(d) \in 1..Len(t) /\ t[place(d)] = Input[d]
  <2> TAKE d \in O \ {c}
  <2>1. at(d) \in 1..Len(p) /\ at(d) # j /\ p[at(d)] = Input[d]
    BY <1>3
  <2>2. CASE at(d) < j
    BY <1>2, <1>5, <2>1, <2>2
  <2>3. CASE ~(at(d) < j)
    <3>1. place(d) = at(d) - 1 /\ at(d) > j
      BY <1>5, <2>1, <2>3
    <3>2. at(d) - 1 \in 1..Len(t) /\ ~(at(d) - 1 < j) /\ (at(d) - 1) + 1 = at(d)
      BY <1>2, <1>5, <2>1, <3>1
    <3>3. t[at(d) - 1] = p[at(d)]
      BY <1>2, <3>2
    <3> QED  BY <2>1, <3>1, <3>2, <3>3
  <2> QED  BY <2>2, <2>3
<1>7. \A d, e \in O \ {c} : place(d) = place(e) => at(d) = at(e)
  BY <1>3, <1>5
<1> HIDE DEF place
<1>8. n \in [O \ {c} -> 1..Len(t)]
  BY <1>6
<1>9. /\ \A d, e \in O \ {c} : n[d] = n[e] => d = e
      /\ \A d \in O \ {c} : t[n[d]] = Input[d]
  BY <1>4, <1>6, <1>7
<1>10. Match(O \ {c}, t)
  BY <1>8, <1>9 DEF Match
<1> QED  BY <1>2, <1>10 DEF t

LEMMA MatchFewer ==
  ASSUME NEW O, NEW p, Match(O, p), NEW c
  PROVE  Match(O \ {c}, p)
<1> PICK m \in [O -> 1..Len(p)] :
        /\ \A a, b \in O : m[a] = m[b] => a = b
        /\ \A a \in O : p[m[a]] = Input[a]
  BY DEF Match
<1> DEFINE n == [d \in O \ {c} |-> m[d]]
<1>1. n \in [O \ {c} -> 1..Len(p)]
  OBVIOUS
<1>2. /\ \A d, e \in O \ {c} : n[d] = n[e] => d = e
      /\ \A d \in O \ {c} : p[n[d]] = Input[d]
  OBVIOUS
<1> QED  BY <1>1, <1>2 DEF Match

\* A new call is matched with its own input, at the end.
LEMMA MatchAppend ==
  ASSUME NEW O, NEW p \in Seq(Queries), Match(O, p), NEW c, c \notin O, Input[c] \in Queries
  PROVE  Match(O \cup {c}, Append(p, Input[c]))
<1> PICK m \in [O -> 1..Len(p)] :
        /\ \A a, b \in O : m[a] = m[b] => a = b
        /\ \A a \in O : p[m[a]] = Input[a]
  BY DEF Match
<1> DEFINE q == Append(p, Input[c])
           n == [d \in O \cup {c} |-> IF d = c THEN Len(p) + 1 ELSE m[d]]
<1>1. /\ Len(q) = Len(p) + 1 /\ q[Len(p) + 1] = Input[c] /\ Len(p) \in Nat
      /\ \A i \in 1..Len(p) : q[i] = p[i]
  OBVIOUS
<1> HIDE DEF q
<1>2. n \in [O \cup {c} -> 1..Len(q)]
  BY <1>1
<1>3. \A d \in O : m[d] \in 1..Len(p) /\ m[d] # Len(p) + 1
  BY <1>1
<1>4. /\ \A d, e \in O \cup {c} : n[d] = n[e] => d = e
      /\ \A d \in O \cup {c} : q[n[d]] = Input[d]
  BY <1>1, <1>3
<1>5. Match(O \cup {c}, q)
  BY <1>2, <1>4 DEF Match
<1> QED  BY <1>5 DEF q

\* An end without an owner, or the clearing of a batch, leaves what is open
\* matched and balanced.
LEMMA SynchronizeKeeps ==
  ASSUME NEW O, NEW p \in Seq(Queries), NEW u \in Nat, Match(O, p), Balance(O, p, u),
         Synchronize(p, u)
  PROVE  /\ pending' \in Seq(Queries) /\ unattributed' \in Nat /\ executing' \in BOOLEAN
         /\ Match(O, pending') /\ Balance(O, pending', unattributed')
         /\ executing' <=> O # {}
<1>1. IsFiniteSet(O) /\ Cardinality(O) \in Nat /\ Len(p) \in Nat /\ Len(p) - u = Cardinality(O)
      /\ (Cardinality(O) = 0 <=> O = {})
  BY FS_CardinalityType, FS_EmptySet DEF Balance
<1>2. CASE Settled(p, u)
  <2>1. O = {} /\ Cardinality(O) = 0
    BY <1>1, <1>2 DEF Settled
  <2>2. pending' = << >> /\ unattributed' = 0 /\ executing' = FALSE
    BY <1>2 DEF Synchronize
  <2>3. Match({}, << >>)
    <3> DEFINE m == [d \in {} |-> 0]
    <3>1. m \in [{} -> 1..Len(<< >>)]
      OBVIOUS
    <3> QED  BY <3>1 DEF Match
  <2>4. Match(O, pending')
    BY <2>1, <2>2, <2>3, Zenon
  <2>5. Balance(O, pending', unattributed')
    BY <1>1, <2>1, <2>2 DEF Balance
  <2>6. pending' \in Seq(Queries)
    BY <2>2
  <2> QED  BY <2>1, <2>2, <2>4, <2>5, <2>6
<1>3. CASE ~Settled(p, u)
  <2>1. O # {}
    BY <1>1, <1>3 DEF Settled
  <2>2. pending' = p /\ unattributed' = u /\ executing' = TRUE
    BY <1>3 DEF Synchronize
  <2>3. Match(O, pending')
    BY <2>2
  <2>4. Balance(O, pending', unattributed')
    BY <2>2
  <2> QED  BY <2>1, <2>2, <2>3, <2>4
<1> QED  BY <1>2, <1>3

-----------------------------------------------------------------------------
LEMMA AddGood ==
  ASSUME NEW e \in GoodEntries, history \in Seq(GoodEntries)
  PROVE  AddHistory(e) \in Seq(GoodEntries)
<1> DEFINE h == <<e>> \o history
           n == IF Len(history) < MaxHistory THEN Len(history) + 1 ELSE MaxHistory
<1>1. h \in Seq(GoodEntries) /\ Len(h) = Len(history) + 1 /\ Len(history) \in Nat
  OBVIOUS
<1>2. n \in 1..Len(h)
  BY <1>1, MaxHistoryAssumption
<1> HIDE DEF h, n
<1>3. SubSeq(h, 1, n) \in Seq(GoodEntries)
  BY <1>1, <1>2
<1> QED  BY <1>3 DEF AddHistory, h, n

\* An entry that names the input it is about, or that lists it.
LEMMA EntryGood ==
  ASSUME NEW id \in Ids, NEW status \in {"success", "error", "cancelled"},
         NEW source \in Queries \cup {Unknown}, NEW candidates \in SUBSET Queries,
         NEW asked \in Queries,
         \/ source = asked /\ Unknown \notin Queries
         \/ source = Unknown /\ asked \in candidates /\ status # "success"
  PROVE  Entry(id, status, source, candidates, asked) \in GoodEntries
BY DEF Entry, GoodEntries

LEMMA OpenInputs ==
  ASSUME NoBlankInput
  PROVE  /\ \A c \in Calls : Input[c] \in Queries
         /\ Unknown \notin Queries /\ NoQuery \notin Queries
         /\ \A c \in Calls : Open(c) <=> c \in OpenCalls
BY InputAssumption DEF NoBlankInput, Queries, Open, OpenCalls

LEMMA TransientIds == Types => TransientId \in Ids
BY DEF Types, TransientId, Ids

LEMMA InitInv == Init => Inv
<1> SUFFICES ASSUME Init PROVE Inv
  OBVIOUS
<1>1. OpenCalls = {}
  BY DEF Init, OpenCalls
<1>2. Match({}, << >>)
  <2> DEFINE m == [d \in {} |-> 0]
  <2>1. m \in [{} -> 1..Len(<< >>)]
    OBVIOUS
  <2> QED  BY <2>1 DEF Match
<1>3. Balance({}, << >>, 0)
  BY FS_EmptySet DEF Balance
<1>4. Types /\ history \in Seq(GoodEntries) /\ Spinner
  <2>1. << >> \in Seq(Queries) /\ << >> \in Seq(GoodEntries)
    OBVIOUS
  <2>2. Types
    BY <2>1 DEF Init, Types
  <2>3. Spinner
    BY <1>1 DEF Init, Spinner
  <2> QED  BY <2>1, <2>2, <2>3 DEF Init
<1>5. Matched
  BY <1>1, <1>2, <1>3, Zenon DEF Init, Matched
<1> QED  BY <1>4, <1>5 DEF Inv

\* A call that is told of, with its input.
LEMMA ToolInputInv ==
  ASSUME NoBlankInput, NEW c \in Calls, Inv, ToolInput(c)
  PROVE  Inv'
<1> DEFINE O == OpenCalls
<1>1. /\ Input[c] # Blank /\ Input[c] \in Queries
      /\ stage \in [Calls -> {"new", "open", "answered", "ended"}] /\ stage[c] = "new"
      /\ pending \in Seq(Queries) /\ unattributed \in Nat
  BY OpenInputs DEF NoBlankInput, Inv, Types, ToolInput
<1>2. /\ stage' = [stage EXCEPT ![c] = "open"]
      /\ pending' = Append(pending, Input[c]) /\ unattributed' = unattributed
      /\ executing' = (Len(pending) + 1 > unattributed)
      /\ interrupted' = FALSE
      /\ UNCHANGED <<shown, refreshing, counters>>
  BY <1>1 DEF ToolInput
<1>3. OpenCalls' = OpenCalls \cup {c} /\ c \notin OpenCalls
  BY <1>1, <1>2 DEF OpenCalls
<1>4. Match(OpenCalls, pending) /\ Balance(OpenCalls, pending, unattributed)
  BY DEF Inv, Matched
<1>5. Match(OpenCalls \cup {c}, Append(pending, Input[c]))
  BY <1>1, <1>3, <1>4, MatchAppend
<1>6. Match(OpenCalls', pending')
  BY <1>2, <1>3, <1>5
<1>7. /\ IsFiniteSet(OpenCalls \cup {c}) /\ Len(Append(pending, Input[c])) = Len(pending) + 1
      /\ Cardinality(OpenCalls \cup {c}) = Cardinality(OpenCalls) + 1
      /\ Len(pending) - unattributed = Cardinality(OpenCalls)
      /\ Cardinality(OpenCalls) \in Nat /\ Len(pending) \in Nat
  BY <1>1, <1>3, <1>4, FS_AddElement, FS_CardinalityType DEF Balance
<1>8. Balance(OpenCalls', pending', unattributed')
  BY <1>1, <1>2, <1>3, <1>7 DEF Balance
<1>9. executing' = TRUE
  <2>1. Len(pending) + 1 > unattributed
    BY <1>1, <1>7
  <2> QED  BY <1>2, <2>1
<1>10. Types'
  BY <1>1, <1>2, <1>9 DEF Inv, Types, counters
<1>11. Spinner' /\ history' \in Seq(GoodEntries)
  BY <1>2, <1>3, <1>9 DEF Inv, Spinner, shown
<1> QED  BY <1>6, <1>8, <1>10, <1>11 DEF Inv, Matched

(***************************************************************************)
(* The end of a call: the entry goes in, and what waits, p with u ends     *)
(* that have no owner, still matches the calls that remain open.           *)
(***************************************************************************)
LEMMA EndInv ==
  ASSUME NoBlankInput, NEW c \in Calls, NEW s \in {"answered", "ended"}, Inv, Ended(c, s),
         NEW e \in GoodEntries, PushEntry(e),
         NEW p \in Seq(Queries), NEW u \in Nat, Synchronize(p, u),
         Match(OpenCalls \ {c}, p), Len(p) - u = Len(pending) - unattributed - 1,
         serial' \in Nat
  PROVE  Inv'
<1> DEFINE O == OpenCalls \ {c}
<1>1. /\ stage \in [Calls -> {"new", "open", "answered", "ended"}] /\ stage[c] = "open"
      /\ stage' = [stage EXCEPT ![c] = s] /\ interrupted' = FALSE
      /\ UNCHANGED <<refreshing, refreshes>>
  BY DEF Inv, Types, Ended
<1>2. OpenCalls' = O /\ c \in OpenCalls
  BY <1>1 DEF OpenCalls
<1>3. Balance(O, p, u)
  <2>1. Balance(OpenCalls, pending, unattributed)
    BY DEF Inv, Matched
  <2>2. /\ IsFiniteSet(O) /\ Cardinality(O) = Cardinality(OpenCalls) - 1
        /\ Len(pending) - unattributed = Cardinality(OpenCalls)
    BY <1>2, <2>1, FS_RemoveElement DEF Balance
  <2> QED  BY <2>2 DEF Balance
<1> HIDE DEF O
<1>4. Match(O, p)
  BY DEF O
<1>5. /\ pending' \in Seq(Queries) /\ unattributed' \in Nat /\ executing' \in BOOLEAN
      /\ Match(O, pending') /\ Balance(O, pending', unattributed')
      /\ executing' <=> O # {}
  BY <1>3, <1>4, SynchronizeKeeps
<1>6. Matched'
  BY <1>2, <1>5 DEF Matched
<1>7. Types'
  BY <1>1, <1>5 DEF Inv, Types
<1>8. history' \in Seq(GoodEntries)
  BY AddGood DEF Inv, PushEntry
<1>9. Spinner'
  BY <1>2, <1>5 DEF Spinner
<1> QED  BY <1>6, <1>7, <1>8, <1>9 DEF Inv

\* What is known when the host says that call c ended.
LEMMA AtTheEnd ==
  ASSUME NoBlankInput, NEW c \in Calls, NEW s, Inv, Ended(c, s)
  PROVE  /\ pending \in Seq(Queries) /\ unattributed \in Nat /\ serial \in Nat
         /\ TransientId \in Ids /\ Input[c] \in Queries /\ Unknown \notin Queries
         /\ Match(OpenCalls, pending) /\ c \in OpenCalls
         /\ \E i \in 1..Len(pending) : pending[i] = Input[c]
         /\ Len(pending) \in Nat /\ Len(pending) # 0
<1>1. pending \in Seq(Queries) /\ unattributed \in Nat /\ serial \in Nat /\ TransientId \in Ids
  BY TransientIds DEF Inv, Types
<1>2. Input[c] \in Queries /\ Unknown \notin Queries
  BY OpenInputs
<1>3. Match(OpenCalls, pending) /\ c \in OpenCalls
  BY DEF Inv, Matched, Ended, OpenCalls
<1>4. \E i \in 1..Len(pending) : pending[i] = Input[c]
  BY <1>3, MatchWaits
<1> QED  BY <1>1, <1>2, <1>3, <1>4

\* An end whose input the view knows, or rightly infers.
LEMMA AttributedInv ==
  ASSUME NoBlankInput, NEW c \in Calls, NEW s \in {"answered", "ended"}, Inv, Ended(c, s),
         NEW status \in {"success", "error", "cancelled"}, NEW id \in Ids,
         Attributed(status, id, Input[c], Input[c]), serial' \in Nat
  PROVE  Inv'
<1> DEFINE e == Entry(id, status, Input[c], {}, Input[c])
           p == RemoveFirst(pending, Input[c])
<1>1. /\ pending \in Seq(Queries) /\ unattributed \in Nat /\ Match(OpenCalls, pending)
      /\ c \in OpenCalls /\ Input[c] \in Queries /\ Unknown \notin Queries /\ Len(pending) \in Nat
  BY AtTheEnd
<1>2. e \in GoodEntries
  BY <1>1, EntryGood
<1>3. p \in Seq(Queries) /\ Len(p) = Len(pending) - 1 /\ Match(OpenCalls \ {c}, p)
  BY <1>1, MatchRemove
<1>4. PushEntry(e) /\ Synchronize(p, unattributed)
  BY DEF Attributed
<1> HIDE DEF e, p
<1>5. Len(p) - unattributed = Len(pending) - unattributed - 1
  BY <1>1, <1>3
<1> QED  BY <1>1, <1>2, <1>3, <1>4, <1>5, EndInv

\* An end that stays without an owner.
LEMMA UndeterminedInv ==
  ASSUME NoBlankInput, NEW c \in Calls, Inv, Ended(c, "ended"),
         NEW status \in {"error", "cancelled"},
         Undetermined(status, Input[c]), serial' \in Nat
  PROVE  Inv'
<1> DEFINE e == Entry(TransientId, status, Unknown, Range(pending), Input[c])
           u == unattributed + 1
<1>1. /\ pending \in Seq(Queries) /\ unattributed \in Nat /\ Match(OpenCalls, pending)
      /\ c \in OpenCalls /\ Input[c] \in Queries /\ Len(pending) \in Nat /\ Len(pending) # 0
      /\ TransientId \in Ids /\ \E i \in 1..Len(pending) : pending[i] = Input[c]
  BY AtTheEnd
<1>2. Range(pending) \in SUBSET Queries /\ Input[c] \in Range(pending)
  BY <1>1 DEF Range
<1>3. e \in GoodEntries
  BY <1>1, <1>2, EntryGood
<1>4. PushEntry(e)
  BY DEF Undetermined
<1>5. Synchronize(pending, u)
  <2>1. pending # << >>
    BY <1>1
  <2> QED  BY <2>1 DEF Undetermined
<1>6. Match(OpenCalls \ {c}, pending)
  BY <1>1, MatchFewer
<1> HIDE DEF e
<1>7. Len(pending) - u = Len(pending) - unattributed - 1 /\ u \in Nat
  BY <1>1
<1> HIDE DEF u
<1> QED  BY <1>1, <1>3, <1>4, <1>5, <1>6, <1>7, EndInv

\* With one input waiting and all ends owned, that input is the call's.
LEMMA AnonymousInv ==
  ASSUME NoBlankInput, NEW c \in Calls, Inv, Ended(c, "ended"),
         NEW status \in {"error", "cancelled"}, Anonymous(status, Input[c])
  PROVE  Inv'
<1>1. serial' \in Nat /\ TransientId \in Ids
  BY AtTheEnd DEF Anonymous, NextTransient
<1>2. CASE OneIsMeant
  <2>1. Head(pending) = Input[c]
    <3>1. PICK i \in 1..Len(pending) : pending[i] = Input[c]
      BY AtTheEnd
    <3>2. i = 1 /\ pending \in Seq(Queries)
      BY <1>2, AtTheEnd DEF OneIsMeant
    <3>3. Head(pending) = pending[1]
      BY <1>2, <3>2 DEF OneIsMeant
    <3> QED  BY <3>1, <3>2, <3>3
  <2>2. Attributed(status, TransientId, Input[c], Input[c])
    BY <1>2, <2>1 DEF Anonymous
  <2> QED  BY <1>1, <2>2, AttributedInv
<1>3. CASE ~OneIsMeant
  <2>1. Undetermined(status, Input[c])
    BY <1>3 DEF Anonymous
  <2> QED  BY <1>1, <2>1, UndeterminedInv
<1> QED  BY <1>2, <1>3

LEMMA NotifiedInv == NoBlankInput /\ Inv /\ Notified => Inv'
<1> SUFFICES ASSUME NoBlankInput, Inv, NEW c \in Calls,
                    \/ ToolInput(c) \/ ToolResult(c) \/ ToolError(c)
                    \/ HostError(c) \/ ToolCancelled(c)
             PROVE  Inv'
  BY DEF Notified
<1>1. CASE ToolInput(c)
  BY <1>1, ToolInputInv
<1>2. CASE ToolResult(c)
  <2>1. /\ Ended(c, "answered") /\ serial' = serial
        /\ Attributed("success", ResultId(c), Input[c], Input[c])
    BY <1>2 DEF ToolResult
  <2>2. serial' \in Nat /\ ResultId(c) \in Ids
    BY <2>1 DEF Inv, Types, ResultId, Ids
  <2> QED  BY <2>1, <2>2, AttributedInv
<1>3. CASE ToolError(c)
  <2>1. /\ Ended(c, "ended") /\ serial' = serial + 1
        /\ Attributed("error", TransientId, Input[c], Input[c])
    BY <1>3 DEF ToolError, NextTransient, NoBlankInput
  <2>2. serial' \in Nat /\ TransientId \in Ids
    BY <2>1, AtTheEnd
  <2> QED  BY <2>1, <2>2, AttributedInv
<1>4. CASE HostError(c)
  BY <1>4, AnonymousInv DEF HostError
<1>5. CASE ToolCancelled(c)
  BY <1>5, AnonymousInv DEF ToolCancelled
<1> QED  BY <1>1, <1>2, <1>3, <1>4, <1>5

\* What is on display is in the history, so a refresh knows what to ask for.
LEMMA RefreshInv == NoBlankInput /\ Inv /\ Refresh => Inv'
<1> SUFFICES ASSUME NoBlankInput, Inv, Refresh PROVE Inv'
  OBVIOUS
<1> DEFINE I == {i \in 1..Len(history) : history[i].id = active}
           n == SelectInSeq(history, LAMBDA e : e.id = active)
<1>1. history \in Seq(GoodEntries) /\ history # << >>
  BY DEF Inv, Refresh
<1>2. n \in 1..Len(history) \/ n = 0
  <2>1. CASE I = {}
    BY <2>1 DEF SelectInSeq
  <2>2. CASE I # {}
    <3>1. \E x \in I : \A y \in I : x <= y
      <4>1. I \in SUBSET Nat
        OBVIOUS
      <4> QED  BY <2>2, <4>1, LeastNumber
    <3>2. n \in I
      BY <2>2, <3>1 DEF SelectInSeq, Min
    <3> QED  BY <3>2
  <2> QED  BY <2>1, <2>2
<1>3. Shown = history[IF n = 0 THEN 1 ELSE n]
  BY DEF Shown
<1> HIDE DEF n
<1>4. (IF n = 0 THEN 1 ELSE n) \in 1..Len(history)
  BY <1>1, <1>2
<1>5. Shown \in GoodEntries
  BY <1>1, <1>3, <1>4
<1>6. Shown.source \in Queries
  BY <1>5 DEF GoodEntries, Refresh
<1>7. /\ refreshing' = Shown.source /\ refreshes' = refreshes + 1
      /\ UNCHANGED <<stage, told, shown, serial, interrupted>>
  BY DEF Refresh
<1>8. Types'
  BY <1>6, <1>7 DEF Inv, Types, told
<1>9. history' \in Seq(GoodEntries) /\ Matched' /\ Spinner'
  BY <1>7 DEF Inv, Matched, Match, Balance, Spinner, OpenCalls, told, shown
<1> QED  BY <1>8, <1>9 DEF Inv

LEMMA EndRefreshInv ==
  ASSUME NoBlankInput, Inv, NEW status \in {"success", "error"}, NEW id \in Ids,
         EndRefresh(status, id), serial' \in Nat
  PROVE  Inv'
<1> DEFINE e == Entry(id, status, refreshing, {}, refreshing)
<1>1. refreshing \in Queries /\ Unknown \notin Queries
  BY OpenInputs DEF Inv, Types, EndRefresh
<1>2. e \in GoodEntries
  BY <1>1, EntryGood
<1>3. /\ PushEntry(e) /\ refreshing' = NoQuery /\ executing' = FALSE /\ interrupted' = TRUE
      /\ UNCHANGED <<stage, pending, unattributed, pendingInput, refreshes>>
  BY DEF EndRefresh
<1> HIDE DEF e
<1>4. history' \in Seq(GoodEntries)
  BY <1>2, <1>3, AddGood DEF Inv, PushEntry
<1>5. Types'
  BY <1>3 DEF Inv, Types
<1>6. Matched' /\ Spinner'
  BY <1>3 DEF Inv, Matched, Match, Balance, Spinner, OpenCalls
<1> QED  BY <1>4, <1>5, <1>6 DEF Inv

LEMMA LocalInv == NoBlankInput /\ Inv /\ Local => Inv'
<1> SUFFICES ASSUME NoBlankInput, Inv, Local PROVE Inv'
  OBVIOUS
<1>1. serial \in Nat /\ refreshes \in Nat /\ TransientId \in Ids
  BY TransientIds DEF Inv, Types
<1>2. CASE RefreshSucceeds
  <2>1. ResultId(refreshes) \in Ids /\ serial' \in Nat
    BY <1>1, <1>2 DEF RefreshSucceeds, ResultId, Ids
  <2> QED  BY <1>2, <2>1, EndRefreshInv DEF RefreshSucceeds
<1>3. CASE RefreshFails
  <2>1. serial' \in Nat
    BY <1>1, <1>3 DEF RefreshFails, NextTransient
  <2> QED  BY <1>1, <1>3, <2>1, EndRefreshInv DEF RefreshFails
<1>4. CASE \E i \in 1..MaxHistory : SelectHistory(i)
  <2>1. UNCHANGED <<stage, told, history, refreshing, counters, interrupted>>
    BY <1>4 DEF SelectHistory
  <2> QED  BY <2>1 DEF Inv, Types, Matched, Match, Balance, Spinner, OpenCalls, told, counters
<1> QED  BY <1>2, <1>3, <1>4 DEF Local

\* Inv holds in every reachable state, when every input has a profile.
THEOREM Inductive == ASSUME NoBlankInput PROVE Spec => []Inv
<1>1. Inv /\ [Next]_vars => Inv'
  <2> SUFFICES ASSUME Inv, [Next]_vars PROVE Inv'
    OBVIOUS
  <2>1. CASE UNCHANGED vars
    BY <2>1 DEF vars, told, shown, counters, Inv, Types, Matched, Match, Balance, Spinner, OpenCalls
  <2>2. CASE Next
    BY <2>2, NotifiedInv, RefreshInv, LocalInv DEF Next
  <2> QED  BY <2>1, <2>2
<1> QED  BY <1>1, InitInv, PTL DEF Spec

-----------------------------------------------------------------------------
\* An entry names the request it is about, or says that it does not know.
THEOREM EntriesNameTheirs ==
  ASSUME NoBlankInput PROVE Spec => []EntriesNameTheirRequest
<1>1. Inv => EntriesNameTheirRequest
  <2> SUFFICES ASSUME Inv, NEW i \in 1..Len(history)
               PROVE  history[i].source \in {Unknown, history[i].asked}
    BY DEF EntriesNameTheirRequest
  <2>1. history[i] \in GoodEntries
    BY DEF Inv
  <2> QED  BY <2>1 DEF GoodEntries
<1> QED  BY <1>1, Inductive, PTL

\* When it does not know, the request is among the candidates.
THEOREM CandidatesHold ==
  ASSUME NoBlankInput PROVE Spec => []CandidatesHoldTheRequest
<1>1. Inv => CandidatesHoldTheRequest
  <2> SUFFICES ASSUME Inv, NEW i \in 1..Len(history), history[i].source = Unknown
               PROVE  history[i].asked \in history[i].candidates
    BY DEF CandidatesHoldTheRequest
  <2>1. history[i] \in GoodEntries
    BY DEF Inv
  <2> QED  BY <2>1 DEF GoodEntries
<1> QED  BY <1>1, Inductive, PTL

\* The inputs that wait, less the ends without an owner, are the open calls.
THEOREM PendingBalanced ==
  ASSUME NoBlankInput PROVE Spec => []PendingIsBalanced
<1>1. Inv => PendingIsBalanced
  <2> SUFFICES ASSUME Inv PROVE PendingIsBalanced
    OBVIOUS
  <2>1. {c \in Calls : Open(c)} = OpenCalls
    BY OpenInputs DEF OpenCalls
  <2> QED  BY <2>1 DEF Inv, Matched, Balance, PendingIsBalanced
<1> QED  BY <1>1, Inductive, PTL

\* After a notification the spinner turns exactly while a call is open.
THEOREM SpinnerTells ==
  ASSUME NoBlankInput PROVE Spec => []SpinnerTellsOpen
<1>1. Inv => SpinnerTellsOpen
  BY OpenInputs DEF Inv, Spinner, SpinnerTellsOpen, OpenCalls
<1> QED  BY <1>1, Inductive, PTL
-----------------------------------------------------------------------------
(***************************************************************************)
(* The view on its host, whatever the inputs, a blank profile included.    *)
(* Connected says which instances exist, which are disposed of and what    *)
(* the connection of the current one has come to; Numbered, that no two    *)
(* entries share an identifier and that the next one of the view is new.   *)
(***************************************************************************)
Connected ==
  /\ mounted \in 0..LastMount
  /\ outcome \in [Mounts -> {"none", "connecting", "connected", "failed"}]
  /\ mounted = 0 => disposed = {}
  /\ mounted = 1 => disposed \subseteq (IF LastMount = 1 THEN {} ELSE {1})
  /\ mounted = 2 => disposed = {1}
  /\ listening = (1..mounted) \ disposed
  /\ mounted # 0 /\ mounted # LastMount => state = Connecting
  /\ mounted = 0 => state = Connecting
  /\ mounted = LastMount =>
       /\ outcome[mounted] # "none"
       /\ state.connecting <=> outcome[mounted] = "connecting"
       /\ state.connectionError <=> outcome[mounted] = "failed"
       /\ state.app = IF outcome[mounted] = "connected" THEN mounted ELSE NoApp

\* The connection on display is that of the instance that is mounted, in any
\* order of the outcomes of this one and of one that was disposed of.
THEOREM ConnectionCurrent == HostSpec => []ConnectionIsCurrent
<1>1. HostInit => Connected
  BY HostAssumption DEF HostInit, Connected, Mounts
<1>2. Connected /\ [HostNext]_<<host, repeats, vars>> => Connected'
  <2> SUFFICES ASSUME Connected, [HostNext]_<<host, repeats, vars>> PROVE Connected'
    OBVIOUS
  <2>0. LastMount \in {1, 2} /\ mounted \in {0, 1, 2} /\ Mounts = 1..LastMount
    BY HostAssumption DEF Connected, Mounts
  <2>1. CASE Mount
    <3>1. /\ mounted < LastMount /\ mounted \in disposed \cup {0}
          /\ mounted' = mounted + 1 /\ listening' = listening \cup {mounted + 1}
          /\ outcome' = [outcome EXCEPT ![mounted + 1] = "connecting"]
          /\ disposed' = disposed /\ state' = state
      BY <2>1 DEF Mount
    <3>2. CASE mounted = 0
      BY <2>0, <3>1, <3>2 DEF Connected, Connecting
    <3>3. CASE mounted = 1
      <4>1. /\ LastMount = 2 /\ disposed = {1} /\ listening = {} /\ state = Connecting
            /\ outcome \in [1..2 -> {"none", "connecting", "connected", "failed"}]
        <5>1. LastMount = 2 /\ 1 \in disposed
          BY <2>0, <3>1, <3>3
        <5>2. disposed = {1}
          BY <3>3, <5>1 DEF Connected
        <5>3. listening = (1..1) \ {1}
          BY <3>3, <5>2 DEF Connected
        <5>4. state = Connecting
          BY <3>3, <5>1 DEF Connected
        <5>5. outcome \in [1..2 -> {"none", "connecting", "connected", "failed"}]
          BY <2>0, <5>1 DEF Connected
        <5> QED  BY <5>1, <5>2, <5>3, <5>4, <5>5
      <4>2. /\ mounted' = 2 /\ disposed' = {1} /\ listening' = {2} /\ state' = Connecting
            /\ outcome' \in [1..2 -> {"none", "connecting", "connected", "failed"}]
            /\ outcome'[2] = "connecting"
        BY <3>1, <3>3, <4>1
      <4>3. (1..2) \ {1} = {2}
        OBVIOUS
      <4> QED  BY <2>0, <4>1, <4>2, <4>3 DEF Connected, Connecting
    <3> QED  BY <2>0, <3>1, <3>2, <3>3
  <2>2. CASE Unmount
    <3>1. /\ mounted < LastMount /\ mounted # 0
          /\ disposed' = disposed \cup {mounted} /\ listening' = listening \ {mounted}
          /\ mounted' = mounted /\ outcome' = outcome /\ state' = state
      BY <2>2 DEF Unmount
    <3> QED  BY <2>0, <3>1 DEF Connected
  <2>3. ASSUME NEW i \in Mounts, Settles(i) PROVE Connected'
    <3>1. PICK o \in {"connected", "failed"}, tools \in BOOLEAN :
            Settle(i, o, [app |-> IF o = "connected" THEN i ELSE NoApp,
                          connected |-> o = "connected", connecting |-> FALSE,
                          connectionError |-> o = "failed",
                          canCallTools |-> o = "connected" /\ tools])
      <4>1. CASE ConnectSucceeds(i)
        <5>1. PICK tools \in BOOLEAN :
                Settle(i, "connected", [app |-> i, connected |-> TRUE, connecting |-> FALSE,
                                        connectionError |-> FALSE, canCallTools |-> tools])
          BY <4>1 DEF ConnectSucceeds
        <5> QED  BY <5>1
      <4>2. CASE ConnectFails(i)
        BY <4>2 DEF ConnectFails
      <4> QED  BY <2>3, <4>1, <4>2 DEF Settles
    <3>2. /\ mounted = LastMount /\ mounted' = mounted
          /\ disposed' = disposed /\ listening' = listening
          /\ outcome' = [outcome EXCEPT ![i] = o]
      BY <3>1 DEF Settle
    <3>3. CASE i \in disposed
      <4>1. state' = state /\ i # mounted
        BY <2>0, <3>1, <3>2, <3>3 DEF Settle, Accept, Connected
      <4> QED  BY <2>0, <3>2, <4>1 DEF Connected
    <3>4. CASE i \notin disposed
      <4>1. /\ i = mounted
            /\ state' = [app |-> IF o = "connected" THEN i ELSE NoApp,
                         connected |-> o = "connected", connecting |-> FALSE,
                         connectionError |-> o = "failed",
                         canCallTools |-> o = "connected" /\ tools]
        BY <2>0, <3>1, <3>2, <3>4 DEF Settle, Accept, Connected
      <4> QED  BY <2>0, <3>2, <4>1 DEF Connected
    <3> QED  BY <3>3, <3>4
  <2>4. ASSUME UNCHANGED host PROVE Connected'
    BY <2>4 DEF host, Connected
  <2> QED  BY <2>1, <2>2, <2>3, <2>4 DEF HostNext, Heard, RefreshOnHost, HeardAgain
<1>3. Connected => ConnectionIsCurrent
  <2> SUFFICES ASSUME Connected PROVE ConnectionIsCurrent
    OBVIOUS
  <2>1. mounted = LastMount => listening = {mounted}
    BY HostAssumption DEF Connected
  <2> QED  BY <2>1 DEF Connected, ConnectionIsCurrent
<1> QED  BY <1>1, <1>2, <1>3, PTL DEF HostSpec

Numbered ==
  /\ serial \in Nat
  /\ history \in Seq(Range(history))
  /\ \A i \in 1..Len(history) : \A n :
       history[i].id = <<"transient", n>> => n \in Nat /\ n <= serial
  /\ NoResultTwice

\* The entry of a result, or one that the view numbers itself.
Pushed(e) == /\ history' = AddHistory(e)
             /\ \/ /\ e.status = "success" /\ \E x : e.id = ResultId(x)
                   /\ serial' = serial
                \/ /\ e.status # "success" /\ e.id = TransientId
                   /\ serial' = serial + 1

LEMMA PushedNumbered ==
  ASSUME Numbered, NEW e, Pushed(e)
  PROVE  Numbered'
<1>0. serial \in Nat /\ serial' \in Nat /\ serial <= serial'
  BY DEF Numbered, Pushed
<1>1. CASE e.status = "success" /\ Recorded(e)
  <2>1. history' = history
    BY <1>1 DEF Pushed, AddHistory
  <2> QED  BY <1>0, <2>1 DEF Numbered, NoResultTwice
<1>2. CASE ~(e.status = "success" /\ Recorded(e))
  <2> DEFINE X == Range(history) \cup {e}
             h == <<e>> \o history
             n == IF Len(history) < MaxHistory THEN Len(history) + 1 ELSE MaxHistory
  <2>1. /\ h \in Seq(X) /\ Len(h) = Len(history) + 1 /\ Len(history) \in Nat
        /\ h[1] = e /\ \A i \in 2..Len(h) : h[i] = history[i - 1]
    <3>1. history \in Seq(X)
      BY DEF Numbered
    <3> HIDE DEF X
    <3>2. e \in X
      BY DEF X
    <3> QED  BY <3>1, <3>2
  <2>2. n \in 1..Len(h)
    BY <2>1, MaxHistoryAssumption
  <2>3. history' = SubSeq(h, 1, n)
    BY <1>2 DEF Pushed, AddHistory
  <2> HIDE DEF h, n, X
  <2>4. /\ history' \in Seq(X) /\ Len(history') = n
        /\ \A i \in 1..n : history'[i] = h[i]
    BY <2>1, <2>2, <2>3
  <2>5. history' \in Seq(Range(history'))
    BY <2>4 DEF Range
  <2>6. \A i \in 1..Len(history) : history[i].id # e.id
    <3>1. CASE e.status = "success"
      BY <1>2, <3>1 DEF Recorded
    <3>2. CASE e.status # "success"
      BY <1>0, <3>2 DEF Pushed, Numbered, TransientId
    <3> QED  BY <3>1, <3>2
  <2>7. \A i \in 1..n : /\ i = 1 => history'[i] = e
                        /\ i # 1 => /\ history'[i] = history[i - 1]
                                    /\ i - 1 \in 1..Len(history)
    BY <2>1, <2>2, <2>4
  <2>8. NoResultTwice'
    <3> SUFFICES ASSUME NEW i \in 1..n, NEW k \in 1..n, history'[i].id = history'[k].id
                 PROVE  i = k
      BY <2>4 DEF NoResultTwice
    <3>1. CASE i = 1 /\ k = 1
      BY <3>1
    <3>2. CASE i # 1 /\ k # 1
      <4>1. i - 1 = k - 1
        BY <2>7, <3>2 DEF Numbered, NoResultTwice
      <4> QED  BY <2>1, <2>2, <4>1
    <3>3. CASE (i = 1) # (k = 1)
      BY <2>6, <2>7, <3>3
    <3> QED  BY <3>1, <3>2, <3>3
  <2>9. ASSUME NEW i \in 1..n, NEW k, history'[i].id = <<"transient", k>>
        PROVE  k \in Nat /\ k <= serial'
    <3>1. CASE i = 1
      BY <1>0, <2>7, <2>9, <3>1 DEF Pushed, TransientId, ResultId
    <3>2. CASE i # 1
      BY <1>0, <2>7, <2>9, <3>2 DEF Numbered
    <3> QED  BY <3>1, <3>2
  <2> QED  BY <1>0, <2>4, <2>5, <2>8, <2>9 DEF Numbered
<1> QED  BY <1>1, <1>2

\* What the handlers do to the history.
LEMMA NotifiedPushes ==
  ASSUME Notified
  PROVE  UNCHANGED <<history, serial>> \/ \E e : Pushed(e)
<1>1. ASSUME NEW c \in Calls, ToolInput(c) PROVE UNCHANGED <<history, serial>>
  BY <1>1 DEF ToolInput, shown, counters
<1>2. ASSUME NEW status \in {"error", "cancelled"}, NEW asked, Anonymous(status, asked)
      PROVE  \E e : Pushed(e)
  BY <1>2 DEF Anonymous, Attributed, Undetermined, PushEntry, NextTransient, Pushed, Entry
<1>3. ASSUME NEW c \in Calls, ToolResult(c) PROVE \E e : Pushed(e)
  BY <1>3 DEF ToolResult, Attributed, PushEntry, Pushed, Entry
<1>4. ASSUME NEW c \in Calls, ToolError(c) PROVE \E e : Pushed(e)
  <2>1. CASE Input[c] = Blank
    BY <1>2, <1>4, <2>1 DEF ToolError
  <2>2. CASE Input[c] # Blank
    BY <1>4, <2>2 DEF ToolError, Attributed, PushEntry, NextTransient, Pushed, Entry
  <2> QED  BY <2>1, <2>2
<1>5. ASSUME NEW c \in Calls, HostError(c) \/ ToolCancelled(c) PROVE \E e : Pushed(e)
  BY <1>2, <1>5 DEF HostError, ToolCancelled
<1> QED  BY <1>1, <1>3, <1>4, <1>5 DEF Notified

\* A result is in the history once, however often the host delivers it.
THEOREM NotTwice == HostSpec => []NoResultTwice
<1>1. HostInit => Numbered
  <2>1. \A X : << >> \in Seq(X)
    OBVIOUS
  <2> QED  BY <2>1 DEF HostInit, Init, Numbered, NoResultTwice
<1>2. Numbered /\ [HostNext]_<<host, repeats, vars>> => Numbered'
  <2> SUFFICES ASSUME Numbered, [HostNext]_<<host, repeats, vars>> PROVE Numbered'
    OBVIOUS
  <2>1. ASSUME UNCHANGED <<history, serial>> PROVE Numbered'
    BY <2>1 DEF Numbered, NoResultTwice
  <2>2. CASE Mount \/ Unmount \/ RefreshOnHost \/ \E i \in Mounts : Settles(i)
    <3>1. UNCHANGED <<history, serial>>
      BY <2>2 DEF Mount, Unmount, RefreshOnHost, Refresh, Settles, ConnectSucceeds,
                  ConnectFails, Settle, vars, shown, counters
    <3> QED  BY <2>1, <3>1
  <2>3. CASE Heard
    BY <2>1, <2>3, NotifiedPushes, PushedNumbered DEF Heard
  <2>4. ASSUME NEW c \in Calls, HeardAgain(c) PROVE Numbered'
    <3>1. \E e : Pushed(e)
      BY <2>4 DEF HeardAgain, Attributed, PushEntry, Pushed, Entry
    <3> QED  BY <3>1, PushedNumbered
  <2>5. CASE Local
    <3>1. CASE RefreshSucceeds \/ RefreshFails
      <4>1. \E e : Pushed(e)
        BY <3>1 DEF RefreshSucceeds, RefreshFails, EndRefresh, PushEntry, NextTransient,
                    Pushed, Entry
      <4> QED  BY <4>1, PushedNumbered
    <3>2. CASE \E i \in 1..MaxHistory : SelectHistory(i)
      BY <2>1, <3>2 DEF SelectHistory, counters
    <3> QED  BY <2>5, <3>1, <3>2 DEF Local
  <2>6. CASE UNCHANGED <<host, repeats, vars>>
    BY <2>1, <2>6 DEF vars, shown, counters
  <2> QED  BY <2>2, <2>3, <2>4, <2>5, <2>6 DEF HostNext
<1>3. Numbered => NoResultTwice
  BY DEF Numbered
<1> QED  BY <1>1, <1>2, <1>3, PTL DEF HostSpec
=============================================================================
