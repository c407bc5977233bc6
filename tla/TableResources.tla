--------------------------- MODULE TableResources ---------------------------
(***************************************************************************)
(* internal/server/resource.go: the registry of table resources.  Every    *)
(* connection that initializes, and every server/discover request, loads   *)
(* it anew: under one mutex, profile by profile, the resources of the last *)
(* load are removed, the visible tables discovered and registered one by   *)
(* one.  Tables come and go in MySQL meanwhile, and resources/list reads   *)
(* the server's resources at any moment, without that mutex.               *)
(***************************************************************************)
EXTENDS Integers, Sequences, FiniteSets

CONSTANTS Clients,      \* connections; each loads the registry once
          ProfileList,  \* profiles.List(): every profile, sorted by name
          Tables,       \* base tables there may be
          Whitelist,    \* Whitelist[p]: the tables Guard.TableAllowed admits
          Nobody,
          MaxChanges,   \* bound: tables created or dropped
          MaxFailures   \* bound: discoveries that fail

Profiles == {ProfileList[i] : i \in 1..Len(ProfileList)}

ASSUME ListAssumption == Len(ProfileList) \in Nat \ {0} /\ Nobody \notin Clients
ASSUME WhitelistAssumption == Whitelist \in [Profiles -> SUBSET Tables]
ASSUME BoundsAssumption == MaxChanges \in Nat /\ MaxFailures \in Nat

VARIABLES present,      \* tables that the accounts see now, as <<profile, table>>
          mu,           \* who holds the registry's mutex, or Nobody
          pc, pos,      \* per client: where it is in load, at which profile
          todo,         \* tables the loader has discovered but not registered
          uris,         \* tableResourceRegistry.uris
          resources,    \* the resources registered with the MCP server
          found,        \* ghost: what the last discovery of a profile returned
          fresh,        \* ghost: profiles discovered since the client came
          changes, failures

registry == <<mu, todo, uris, resources>>
ghosts == <<found, fresh>>
vars == <<present, pc, pos, registry, ghosts, changes, failures>>

Init == /\ present \in SUBSET (Profiles \X Tables)
        /\ mu = Nobody
        /\ pc = [k \in Clients |-> "new"]
        /\ pos = [k \in Clients |-> 1]
        /\ todo = {}
        /\ uris = [p \in Profiles |-> {}]
        /\ resources = {}
        /\ found = [p \in Profiles |-> {}]
        /\ fresh = [k \in Clients |-> {}]
        /\ changes = 0 /\ failures = 0

Goto(k, l) == pc' = [pc EXCEPT ![k] = l]
Current(k) == ProfileList[pos[k]]
Of(p, ts) == {p} \X ts

\* Somebody creates or drops a table.
Change(p, t) == /\ changes < MaxChanges
                /\ changes' = changes + 1
                /\ present' = IF <<p, t>> \in present THEN present \ {<<p, t>>}
                              ELSE present \cup {<<p, t>>}
                /\ UNCHANGED <<pc, pos, registry, ghosts, failures>>

\* A client sends notifications/initialized or server/discover.
Arrive(k) == /\ pc[k] = "new"
             /\ Goto(k, "waiting")
             /\ UNCHANGED <<present, pos, registry, ghosts, changes, failures>>

\* Mutant: a load that finds another one running is skipped.
TryLock(k) == /\ pc[k] = "waiting"
              /\ Goto(k, IF mu = Nobody THEN "clear" ELSE "done")
              /\ mu' = IF mu = Nobody THEN k ELSE mu
              /\ UNCHANGED <<present, pos, todo, uris, resources, ghosts, changes, failures>>

Lock(k) == /\ pc[k] = "waiting"
           /\ mu = Nobody
           /\ mu' = k
           /\ Goto(k, "clear")
           /\ UNCHANGED <<present, pos, todo, uris, resources, ghosts, changes, failures>>

\* Mutant: the resources of the last load are left where they are.
ClearRecordOnly(k) == /\ pc[k] = "clear"
                      /\ uris' = [uris EXCEPT ![Current(k)] = {}]
                      /\ Goto(k, "find")
                      /\ UNCHANGED <<present, pos, mu, todo, resources, ghosts, changes, failures>>

\* The resources that the last load registered for the profile are removed.
Clear(k) == /\ pc[k] = "clear"
            /\ resources' = resources \ Of(Current(k), uris[Current(k)])
            /\ uris' = [uris EXCEPT ![Current(k)] = {}]
            /\ Goto(k, "find")
            /\ UNCHANGED <<present, pos, mu, todo, ghosts, changes, failures>>

\* listVisibleBaseTables, on what one read-only transaction sees.
Visible(p) == {t \in Whitelist[p] : <<p, t>> \in present}

Find(k) == /\ pc[k] = "find"
           /\ todo' = Visible(Current(k))
           /\ found' = [found EXCEPT ![Current(k)] = Visible(Current(k))]
           /\ fresh' = [j \in Clients |-> IF pc[j] \in {"new", "done"} THEN fresh[j]
                                          ELSE fresh[j] \cup {Current(k)}]
           /\ Goto(k, "add")
           /\ UNCHANGED <<present, pos, mu, uris, resources, changes, failures>>

\* On to the next profile; after the last, the mutex is released.
Advance(k) == IF pos[k] < Len(ProfileList)
              THEN /\ pos' = [pos EXCEPT ![k] = @ + 1]
                   /\ Goto(k, "clear")
                   /\ UNCHANGED mu
              ELSE /\ Goto(k, "done")
                   /\ mu' = Nobody
                   /\ UNCHANGED pos

\* Mutant: a discovery that fails is tried again, for as long as it fails.
FindFailsRetries(k) == /\ pc[k] = "find"
                       /\ found' = [found EXCEPT ![Current(k)] = {}]
                       /\ Goto(k, "clear")
                       /\ UNCHANGED <<present, pos, registry, fresh, changes, failures>>

\* Discovery fails: the profile is left with no resource, the others go on.
FindFails(k) == /\ pc[k] = "find"
                /\ failures < MaxFailures
                /\ failures' = failures + 1
                /\ found' = [found EXCEPT ![Current(k)] = {}]
                /\ fresh' = [j \in Clients |-> IF pc[j] \in {"new", "done"} THEN fresh[j]
                                               ELSE fresh[j] \cup {Current(k)}]
                /\ Advance(k)
                /\ UNCHANGED <<present, todo, uris, resources, changes>>

Add(k) == /\ pc[k] = "add"
          /\ \E t \in todo : /\ resources' = resources \cup Of(Current(k), {t})
                             /\ todo' = todo \ {t}
          /\ UNCHANGED <<present, pc, pos, mu, uris, ghosts, changes, failures>>

\* Every table is registered: what was is remembered for the next load.
Record(k) == /\ pc[k] = "add"
             /\ todo = {}
             /\ uris' = [uris EXCEPT ![Current(k)] = found[Current(k)]]
             /\ Advance(k)
             /\ UNCHANGED <<present, todo, resources, ghosts, changes, failures>>

Load(k) == Lock(k) \/ Clear(k) \/ Find(k) \/ FindFails(k) \/ Add(k) \/ Record(k)

\* Every client has come and gone, and the tables have stopped changing.
Finished == /\ \A k \in Clients : pc[k] = "done"
            /\ UNCHANGED vars

Next == \/ \E p \in Profiles, t \in Tables : Change(p, t)
        \/ \E k \in Clients : Arrive(k) \/ Load(k)
        \/ Finished

Spec == Init /\ [][Next]_vars

\* A goroutine that can run does, sync.Mutex serves its waiters, and
\* discovery ends: it is bounded by query_timeout.
FairSpec == Spec /\ \A k \in Clients : WF_vars(Load(k))

-----------------------------------------------------------------------------
InHand(p) == mu # Nobody /\ Current(mu) = p
Registered(p) == {t \in Tables : <<p, t>> \in resources}

\* A profile that no load is at work on shows exactly what its last discovery
\* found: none of an earlier one, none missing, and nothing if it failed.
RegistryIsLastDiscovery ==
  \A p \in Profiles : ~InHand(p) => Registered(p) = found[p] /\ uris[p] = found[p]

\* A client that is answered has every profile discovered after it came, even
\* if another client was loading when it did.
AnsweredAreFresh == \A k \in Clients : pc[k] = "done" => fresh[k] = Profiles

\* No failure, and no other load, keeps a client from its answer.
EveryLoadEnds == \A k \in Clients : pc[k] = "waiting" ~> pc[k] = "done"
=============================================================================
