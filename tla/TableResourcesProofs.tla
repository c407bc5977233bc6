------------------------ MODULE TableResourcesProofs ------------------------
(***************************************************************************)
(* Proofs about TableResources, for any number of connections, profiles    *)
(* and tables.  Only the loader that holds the mutex touches the registry, *)
(* and only at its current profile: every other profile is kept as its     *)
(* last discovery left it.                                                 *)
(***************************************************************************)
EXTENDS TableResources, TLAPS

Loading == {"clear", "find", "add"}

TypeOK == /\ present \subseteq Profiles \X Tables
          /\ mu \in Clients \cup {Nobody}
          /\ pc \in [Clients -> {"new", "waiting", "done"} \cup Loading]
          /\ pos \in [Clients -> 1..Len(ProfileList)]
          /\ todo \subseteq Tables
          /\ uris \in [Profiles -> SUBSET Tables]
          /\ resources \subseteq Profiles \X Tables
          /\ found \in [Profiles -> SUBSET Tables]
          /\ fresh \in [Clients -> SUBSET Profiles]

Mutex == \A k \in Clients : pc[k] \in Loading <=> mu = k

\* What is registered for a profile, and recorded, is what was found last.
Kept(p) == Registered(p) = found[p] /\ uris[p] = found[p]

\* How far the loader is with its profile.
AtWork(k) ==
  /\ pc[k] = "clear" => Kept(Current(k))
  /\ pc[k] = "find" => Registered(Current(k)) = {} /\ uris[Current(k)] = {}
  /\ pc[k] = "add" => /\ todo \subseteq found[Current(k)]
                      /\ Registered(Current(k)) = found[Current(k)] \ todo

Registry == /\ \A p \in Profiles : ~InHand(p) => Kept(p)
            /\ mu # Nobody => AtWork(mu)

\* The first n profiles were discovered since k came.
Seen(k, n) == {ProfileList[i] : i \in 1..n} \subseteq fresh[k]

Freshness ==
  \A k \in Clients :
    /\ pc[k] \in {"new", "waiting"} => pos[k] = 1
    /\ pc[k] \in {"clear", "find"} => Seen(k, pos[k] - 1)
    /\ pc[k] = "add" => Seen(k, pos[k])
    /\ pc[k] = "done" => fresh[k] = Profiles

IInv == TypeOK /\ Mutex /\ Registry /\ Freshness

-----------------------------------------------------------------------------
LEMMA InitInv == Init => IInv
<1> SUFFICES ASSUME Init PROVE IInv
  OBVIOUS
<1> USE ListAssumption DEF Init
<1>1. TypeOK
  BY DEF TypeOK
<1>2. Mutex
  BY DEF Mutex, Loading
<1>3. Registry
  BY DEF Registry, Kept, Registered
<1>4. Freshness
  BY DEF Freshness
<1> QED BY <1>1, <1>2, <1>3, <1>4 DEF IInv

\* The profile in hand is one of the list.
LEMMA CurrentType ==
  ASSUME TypeOK, NEW k \in Clients
  PROVE  Current(k) \in Profiles
BY ListAssumption DEF TypeOK, Current, Profiles

LEMMA HolderType ==
  ASSUME TypeOK, Mutex, NEW k \in Clients, pc[k] \in Loading
  PROVE  mu = k /\ mu # Nobody /\ \A j \in Clients \ {k} : pc[j] \notin Loading
BY ListAssumption DEF Mutex

-----------------------------------------------------------------------------
\* Tables that come and go in MySQL, and clients that do, touch nothing here.
LEMMA ChangeInv == \A p \in Profiles, t \in Tables : IInv /\ Change(p, t) => IInv'
<1> SUFFICES ASSUME IInv, NEW p \in Profiles, NEW t \in Tables, Change(p, t) PROVE IInv'
  OBVIOUS
<1> USE DEF IInv, Change, registry, ghosts
<1>1. TypeOK'
  BY DEF TypeOK
<1>2. Mutex' /\ Freshness'
  BY DEF Mutex, Freshness, Seen
<1>3. Registry'
  BY DEF Registry, InHand, AtWork, Kept, Registered, Current
<1> QED BY <1>1, <1>2, <1>3

LEMMA ArriveInv == \A k \in Clients : IInv /\ Arrive(k) => IInv'
<1> SUFFICES ASSUME IInv, NEW k \in Clients, Arrive(k) PROVE IInv'
  OBVIOUS
<1> USE DEF IInv, Arrive, Goto, registry, ghosts
<1>1. TypeOK'
  BY DEF TypeOK
<1>2. Mutex'
  BY DEF TypeOK, Mutex, Loading
<1>3. Freshness'
  BY DEF TypeOK, Freshness, Seen
<1>4. Registry'
  <2>1. mu # Nobody => mu \in Clients /\ mu # k
    BY DEF TypeOK, Mutex, Loading
  <2> QED BY <2>1 DEF TypeOK, Registry, InHand, AtWork, Kept, Registered, Current
<1> QED BY <1>1, <1>2, <1>3, <1>4

LEMMA LockInv == \A k \in Clients : IInv /\ Lock(k) => IInv'
<1> SUFFICES ASSUME IInv, NEW k \in Clients, Lock(k) PROVE IInv'
  OBVIOUS
<1> USE ListAssumption DEF IInv, Lock, Goto, ghosts
<1>1. TypeOK'
  BY DEF TypeOK, Loading
<1>2. Mutex'
  BY DEF TypeOK, Mutex, Loading
<1>3. Freshness'
  <2>1. Seen(k, pos[k] - 1)
    BY DEF TypeOK, Freshness, Seen
  <2> QED BY <2>1 DEF TypeOK, Freshness, Seen
<1>4. Registry'
  <2>1. \A p \in Profiles : Kept(p)'
    BY DEF Registry, InHand, Kept, Registered
  <2>2. mu' = k /\ pc'[k] = "clear" /\ Current(k)' \in Profiles
    BY <1>1, CurrentType DEF TypeOK, Current
  <2> QED BY <2>1, <2>2 DEF Registry, AtWork
<1> QED BY <1>1, <1>2, <1>3, <1>4

\* A profile that is not in hand is as it was, when only p may have changed.
LEMMA OthersKept ==
  ASSUME Registry, NEW k \in Clients, k # Nobody, mu = k, NEW p, p = Current(k),
         \A q \in Profiles \ {p} : /\ Registered(q)' = Registered(q)
                                   /\ uris'[q] = uris[q] /\ found'[q] = found[q]
  PROVE  \A q \in Profiles \ {p} : Kept(q)'
BY DEF Registry, InHand, Kept

LEMMA ClearInv == \A k \in Clients : IInv /\ Clear(k) => IInv'
<1> SUFFICES ASSUME IInv, NEW k \in Clients, Clear(k) PROVE IInv'
  OBVIOUS
<1> DEFINE p == Current(k)
<1> USE DEF IInv, Clear, Goto, ghosts
<1>1. p \in Profiles /\ mu = k /\ mu # Nobody /\ pc[k] = "clear" /\ Current(k)' = p
  BY CurrentType, HolderType DEF Loading, Current
<1>2. TypeOK'
  BY <1>1 DEF TypeOK, Loading
<1>3. Mutex'
  BY DEF TypeOK, Mutex, Loading
<1>4. Freshness'
  BY DEF TypeOK, Freshness, Seen
<1>5. Registered(p) = uris[p]
  BY <1>1 DEF Registry, AtWork, Kept
<1>6. Registered(p)' = {} /\ uris'[p] = {}
  <2>1. \A t : <<p, t>> \in resources' <=> <<p, t>> \in resources /\ t \notin uris[p]
    BY DEF Of
  <2> QED BY <1>1, <1>5, <2>1 DEF Registered, TypeOK
<1>7. \A q \in Profiles \ {p} : Registered(q)' = Registered(q) /\ uris'[q] = uris[q]
  BY DEF TypeOK, Registered, Of
<1>8. \A q \in Profiles \ {p} : Kept(q)'
  <2> HIDE DEF p, Clear
  <2>1. found' = found
    BY DEF Clear
  <2> QED BY <1>1, <1>7, <2>1, OthersKept DEF p
<1>9. Registry'
  BY <1>1, <1>6, <1>8 DEF Registry, InHand, AtWork, TypeOK
<1> QED BY <1>2, <1>3, <1>4, <1>9

\* What every step of the loader may do to the knowledge of the others.
Learns(k) ==
  /\ fresh' \in [Clients -> SUBSET Profiles]
  /\ \A j \in Clients : fresh[j] \subseteq fresh'[j]
  /\ \A j \in Clients : pc[j] = "done" => fresh'[j] = fresh[j]
  /\ Current(k) \in fresh'[k]

LEMMA SeenMore ==
  ASSUME TypeOK, Mutex, Freshness, NEW k \in Clients, pc[k] \in {"find", "add"}, Learns(k)
  PROVE  {ProfileList[i] : i \in 1..pos[k]} \subseteq fresh'[k]
<1>1. pos[k] \in 1..Len(ProfileList) /\ Len(ProfileList) \in Nat
  BY ListAssumption DEF TypeOK
<1>2. 1..pos[k] = (1..(pos[k] - 1)) \cup {pos[k]}
  BY <1>1
<1>3. Seen(k, pos[k] - 1)
  BY <1>2 DEF Freshness, Seen
<1> QED BY <1>2, <1>3 DEF Learns, Seen, Current

\* Find and FindFails have seen the current profile, and forget nothing.
LEMMA LooksLearns ==
  ASSUME TypeOK, NEW k \in Clients, pc[k] = "find",
         fresh' = [j \in Clients |-> IF pc[j] \in {"new", "done"} THEN fresh[j]
                                    ELSE fresh[j] \cup {Current(k)}]
  PROVE  Learns(k)
BY CurrentType DEF TypeOK, Learns

\* The profile is finished as its last discovery has it: on to the next one.
LEMMA AdvanceInv ==
  ASSUME IInv, NEW k \in Clients, pc[k] \in {"find", "add"}, Advance(k), Learns(k),
         \A q \in Profiles : Kept(q)'
  PROVE  /\ mu' \in Clients \cup {Nobody}
         /\ pc' \in [Clients -> {"new", "waiting", "done"} \cup Loading]
         /\ pos' \in [Clients -> 1..Len(ProfileList)]
         /\ Mutex' /\ Registry' /\ Freshness'
<1> USE ListAssumption DEF IInv
<1>1. /\ mu = k /\ mu # Nobody /\ \A j \in Clients \ {k} : pc[j] \notin Loading
      /\ pos[k] \in 1..Len(ProfileList)
  BY HolderType DEF Loading, TypeOK
<1>2. {ProfileList[i] : i \in 1..pos[k]} \subseteq fresh'[k]
  BY SeenMore
<1>3. CASE pos[k] < Len(ProfileList)
  <2>1. /\ pos' = [pos EXCEPT ![k] = pos[k] + 1] /\ mu' = mu
        /\ pc' = [pc EXCEPT ![k] = "clear"]
    BY <1>3 DEF Advance, Goto
  <2>2. pos' \in [Clients -> 1..Len(ProfileList)]
    BY <1>1, <1>3, <2>1 DEF TypeOK
  <2>3. pc' \in [Clients -> {"new", "waiting", "done"} \cup Loading]
    BY <2>1 DEF TypeOK, Loading
  <2>4. Mutex'
    BY <1>1, <2>1 DEF TypeOK, Mutex, Loading
  <2>5. Registry'
    <3>1. Current(k)' \in Profiles
      BY <2>2 DEF Current, Profiles
    <3> QED BY <1>1, <2>1, <3>1 DEF Registry, AtWork, TypeOK
  <2>6. Seen(k, pos[k] - 1)'
    <3>1. pos'[k] - 1 = pos[k]
      BY <1>1, <2>1 DEF TypeOK
    <3> QED BY <1>2, <3>1 DEF Seen
  <2>7. Freshness'
    <3>1. ASSUME NEW j \in Clients \ {k}
          PROVE  pc'[j] = pc[j] /\ pos'[j] = pos[j] /\ pc[j] \notin Loading
      BY <1>1, <2>1 DEF TypeOK
    <3>2. pc'[k] = "clear"
      BY <2>1 DEF TypeOK
    <3> QED BY <2>6, <3>1, <3>2 DEF Freshness, Learns, Loading
  <2> QED BY <1>1, <2>1, <2>2, <2>3, <2>4, <2>5, <2>7
<1>4. CASE ~(pos[k] < Len(ProfileList))
  <2>1. pos' = pos /\ mu' = Nobody /\ pc' = [pc EXCEPT ![k] = "done"]
    BY <1>4 DEF Advance, Goto
  <2>2. pc' \in [Clients -> {"new", "waiting", "done"} \cup Loading]
    BY <2>1 DEF TypeOK
  <2>3. Mutex'
    BY <1>1, <2>1 DEF TypeOK, Mutex, Loading
  <2>4. Registry'
    BY <2>1 DEF Registry
  <2>5. fresh'[k] = Profiles
    <3>1. pos[k] = Len(ProfileList)
      BY <1>1, <1>4
    <3> QED BY <1>2, <3>1 DEF Learns, Profiles
  <2>6. Freshness'
    <3>1. ASSUME NEW j \in Clients \ {k}
          PROVE  pc'[j] = pc[j] /\ pos'[j] = pos[j] /\ pc[j] \notin Loading
      BY <1>1, <2>1 DEF TypeOK
    <3>2. pc'[k] = "done"
      BY <2>1 DEF TypeOK
    <3> QED BY <2>5, <3>1, <3>2 DEF Freshness, Learns, Loading
  <2> QED BY <2>1, <2>2, <2>3, <2>4, <2>6 DEF TypeOK
<1> QED BY <1>3, <1>4

-----------------------------------------------------------------------------
\* What a discovery finds is yet to be registered.
LEMMA FindInv == \A k \in Clients : IInv /\ Find(k) => IInv'
<1> SUFFICES ASSUME IInv, NEW k \in Clients, Find(k) PROVE IInv'
  OBVIOUS
<1> DEFINE p == Current(k)
<1>1. /\ p \in Profiles /\ mu = k /\ mu # Nobody /\ pc[k] = "find" /\ Current(k)' = p
      /\ \A j \in Clients \ {k} : pc[j] \notin Loading
  BY CurrentType, HolderType DEF Loading, Current, IInv, Find
<1>2. Learns(k)
  BY <1>1, LooksLearns DEF IInv, Find
<1>3. Visible(p) \subseteq Tables
  BY <1>1, WhitelistAssumption DEF Visible
<1>4. /\ found' = [found EXCEPT ![p] = Visible(p)] /\ todo' = Visible(p)
      /\ pc' = [pc EXCEPT ![k] = "add"] /\ pos' = pos /\ mu' = mu
      /\ uris' = uris /\ resources' = resources /\ present' = present
  BY DEF Find, Goto
<1> HIDE DEF p
<1> USE DEF IInv
<1>5. TypeOK'
  BY <1>1, <1>2, <1>3, <1>4 DEF TypeOK, Loading, Learns
<1>6. Mutex'
  BY <1>1, <1>4 DEF TypeOK, Mutex, Loading
<1>7. Freshness'
  <2>1. Seen(k, pos[k])'
    BY <1>1, <1>2, <1>4, SeenMore DEF Seen
  <2>2. ASSUME NEW j \in Clients \ {k}
        PROVE  pc'[j] = pc[j] /\ pc[j] \notin Loading
    BY <1>1, <1>4 DEF TypeOK
  <2>3. pc'[k] = "add"
    BY <1>4 DEF TypeOK
  <2> QED BY <1>2, <1>4, <2>1, <2>2, <2>3 DEF Freshness, Learns, Loading
<1>8. Registry'
  <2>1. \A q \in Profiles \ {p} : Kept(q)'
    BY <1>1, <1>4, OthersKept DEF TypeOK, Registered, p
  <2>2. Registered(p)' = {} /\ found'[p] = Visible(p) /\ todo' = Visible(p)
    BY <1>1, <1>4 DEF Registry, AtWork, Registered, TypeOK, p
  <2>3. AtWork(k)'
    BY <1>1, <1>4, <2>2 DEF AtWork, TypeOK, p
  <2> QED BY <1>1, <1>4, <2>1, <2>3 DEF Registry, InHand, p
<1> QED BY <1>5, <1>6, <1>7, <1>8

\* A discovery that fails has found nothing, and nothing is registered.
LEMMA FindFailsInv == \A k \in Clients : IInv /\ FindFails(k) => IInv'
<1> SUFFICES ASSUME IInv, NEW k \in Clients, FindFails(k) PROVE IInv'
  OBVIOUS
<1>0. PICK p \in Profiles : p = Current(k)
  BY CurrentType DEF IInv
<1>1. p = Current(k) /\ mu = k /\ mu # Nobody /\ pc[k] = "find"
  BY <1>0, HolderType DEF Loading, IInv, FindFails
<1>2. Learns(k)
  BY <1>1, LooksLearns DEF IInv, FindFails
<1>3. /\ found' = [found EXCEPT ![p] = {}] /\ todo' = todo /\ uris' = uris
      /\ resources' = resources /\ present' = present /\ Advance(k)
  BY <1>1 DEF FindFails
<1>4. \A q \in Profiles \ {p} : Kept(q)'
  BY <1>1, <1>3, OthersKept DEF IInv, TypeOK, Registered
<1>5. Kept(p)'
  BY <1>1, <1>3 DEF IInv, TypeOK, Registry, AtWork, Kept, Registered
<1>6. \A q \in Profiles : Kept(q)'
  BY <1>4, <1>5
<1>7. /\ mu' \in Clients \cup {Nobody}
      /\ pc' \in [Clients -> {"new", "waiting", "done"} \cup Loading]
      /\ pos' \in [Clients -> 1..Len(ProfileList)]
      /\ Mutex' /\ Registry' /\ Freshness'
  BY <1>1, <1>2, <1>3, <1>6, AdvanceInv
<1>8. found' \in [Profiles -> SUBSET Tables]
  BY <1>1, <1>3 DEF IInv, TypeOK
<1>9. TypeOK'
  BY <1>2, <1>3, <1>7, <1>8 DEF IInv, TypeOK, Learns
<1> QED BY <1>7, <1>9 DEF IInv

\* One table more is registered.
LEMMA AddInv == \A k \in Clients : IInv /\ Add(k) => IInv'
<1> SUFFICES ASSUME IInv, NEW k \in Clients, Add(k) PROVE IInv'
  OBVIOUS
<1>0. PICK p \in Profiles : p = Current(k)
  BY CurrentType DEF IInv
<1>1. p = Current(k) /\ mu = k /\ mu # Nobody /\ pc[k] = "add" /\ Current(k)' = p
  BY <1>0, HolderType DEF Loading, Current, IInv, Add
<1>2. PICK t \in todo : resources' = resources \cup ({p} \X {t}) /\ todo' = todo \ {t}
  BY <1>1 DEF Add, Of
<1>3. UNCHANGED <<present, pc, pos, mu, uris, found, fresh>> /\ t \in Tables
  BY DEF Add, ghosts, IInv, TypeOK
<1> USE DEF IInv
<1>4. TypeOK'
  BY <1>1, <1>2, <1>3 DEF TypeOK
<1>5. Mutex' /\ Freshness'
  BY <1>3 DEF Mutex, Freshness, Seen
<1>6. Registered(p)' = Registered(p) \cup {t}
  BY <1>2, <1>3 DEF Registered
<1>7. \A q \in Profiles \ {p} : Registered(q)' = Registered(q)
  BY <1>2 DEF Registered
<1>8. \A q \in Profiles \ {p} : Kept(q)'
  BY <1>1, <1>3, <1>7, OthersKept
<1>9. AtWork(k)'
  <2>1. todo \subseteq found[p] /\ Registered(p) = found[p] \ todo
    BY <1>1 DEF Registry, AtWork
  <2> QED BY <1>1, <1>2, <1>3, <1>6, <2>1 DEF AtWork
<1>10. Registry'
  BY <1>1, <1>3, <1>8, <1>9 DEF Registry, InHand
<1> QED BY <1>4, <1>5, <1>10

\* The last one was registered: the profile is as it was found.
LEMMA RecordInv == \A k \in Clients : IInv /\ Record(k) => IInv'
<1> SUFFICES ASSUME IInv, NEW k \in Clients, Record(k) PROVE IInv'
  OBVIOUS
<1>0. PICK p \in Profiles : p = Current(k)
  BY CurrentType DEF IInv
<1>1. p = Current(k) /\ mu = k /\ mu # Nobody /\ pc[k] = "add"
  BY <1>0, HolderType DEF Loading, IInv, Record
<1>2. /\ uris' = [uris EXCEPT ![p] = found[p]] /\ todo = {} /\ Advance(k)
      /\ UNCHANGED <<present, todo, resources, found, fresh>>
  BY <1>1 DEF Record, ghosts
<1>3. Learns(k)
  <2>1. pos[k] \in 1..pos[k]
    BY ListAssumption DEF IInv, TypeOK
  <2>2. Current(k) \in fresh[k]
    BY <1>1, <2>1 DEF IInv, Freshness, Seen, Current
  <2> QED BY <1>2, <2>2 DEF Learns, IInv, TypeOK
<1>4. \A q \in Profiles \ {p} : Kept(q)'
  BY <1>1, <1>2, OthersKept DEF IInv, TypeOK, Registered
<1>5. Kept(p)'
  BY <1>1, <1>2 DEF IInv, TypeOK, Registry, AtWork, Kept, Registered
<1>6. \A q \in Profiles : Kept(q)'
  BY <1>4, <1>5
<1>7. /\ mu' \in Clients \cup {Nobody}
      /\ pc' \in [Clients -> {"new", "waiting", "done"} \cup Loading]
      /\ pos' \in [Clients -> 1..Len(ProfileList)]
      /\ Mutex' /\ Registry' /\ Freshness'
  BY <1>1, <1>2, <1>3, <1>6, AdvanceInv
<1>8. uris' \in [Profiles -> SUBSET Tables]
  BY <1>1, <1>2 DEF IInv, TypeOK
<1>9. TypeOK'
  BY <1>2, <1>3, <1>7, <1>8 DEF IInv, TypeOK, Learns
<1> QED BY <1>7, <1>9 DEF IInv

LEMMA NextInv == IInv /\ [Next]_vars => IInv'
<1> SUFFICES ASSUME IInv, [Next]_vars PROVE IInv'
  OBVIOUS
<1>1. CASE UNCHANGED vars
  BY <1>1 DEF vars, registry, ghosts, IInv, TypeOK, Mutex, Registry, InHand, AtWork, Kept,
     Registered, Current, Freshness, Seen
<1>2. CASE \E p \in Profiles, t \in Tables : Change(p, t)
  BY <1>2, ChangeInv
<1>3. CASE \E k \in Clients : Arrive(k) \/ Load(k)
  BY <1>3, ArriveInv, LockInv, ClearInv, FindInv, FindFailsInv, AddInv, RecordInv DEF Load
<1> QED BY <1>1, <1>2, <1>3 DEF Next, Finished

-----------------------------------------------------------------------------
THEOREM Inductive == Spec => []IInv
BY InitInv, NextInv, PTL DEF Spec

\* The resources of a profile that no load is at work on are those its last
\* discovery found, for any number of connections that load at once.
THEOREM RegistryCorrect == Spec => []RegistryIsLastDiscovery
<1>1. IInv => RegistryIsLastDiscovery
  BY DEF IInv, Registry, Kept, RegistryIsLastDiscovery
<1> QED BY <1>1, Inductive, PTL

\* A connection is answered when every profile has been discovered since it came.
THEOREM AnswersFresh == Spec => []AnsweredAreFresh
<1>1. IInv => AnsweredAreFresh
  BY DEF IInv, Freshness, AnsweredAreFresh
<1> QED BY <1>1, Inductive, PTL
=============================================================================
