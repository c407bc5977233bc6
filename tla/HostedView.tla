------------------------------ MODULE HostedView ------------------------------
(***************************************************************************)
(* ui/query-results with its connection to the host, useMcpApp.ts.  The    *)
(* effect of the hook makes an instance of the protocol's App, listens to  *)
(* it and connects; its clean-up disposes of it.  In a build for           *)
(* development StrictMode runs effect, clean-up and effect in a row, so    *)
(* the outcome of the first connection comes when it is no longer asked    *)
(* for.  The preview, which has no host, is left out.                      *)
(***************************************************************************)
EXTENDS QueryResultsApp

CONSTANTS LastMount,  \* 1, or 2 in StrictMode
          MaxRepeats  \* bound: results the host delivers a second time

ASSUME HostAssumption == LastMount \in {1, 2} /\ MaxRepeats \in Nat

NoApp == 0
Mounts == 1..LastMount

VARIABLES mounted,    \* the instance of the latest run of the effect
          outcome,    \* outcome[i]: of the connection of instance i
          disposed,   \* instances whose clean-up has run
          listening,  \* instances whose notifications reach the handlers
          state,      \* MCPAppState
          repeats

host == <<mounted, outcome, disposed, listening, state>>

Connecting == [app |-> NoApp, connected |-> FALSE, connecting |-> TRUE,
               connectionError |-> FALSE, canCallTools |-> FALSE]

HostInit == /\ Init
            /\ mounted = 0
            /\ outcome = [i \in Mounts |-> "none"]
            /\ disposed = {} /\ listening = {}
            /\ state = Connecting
            /\ repeats = 0

\* The effect: listeners first, so that nothing is missed, then connect.
Mount == /\ mounted < LastMount
         /\ mounted \in disposed \cup {0}
         /\ mounted' = mounted + 1
         /\ listening' = listening \cup {mounted + 1}
         /\ outcome' = [outcome EXCEPT ![mounted + 1] = "connecting"]
         /\ UNCHANGED <<disposed, state, repeats, vars>>

\* The clean-up, at once.
Unmount == /\ mounted < LastMount
           /\ mounted # 0 /\ mounted \notin disposed
           /\ disposed' = disposed \cup {mounted}
           /\ listening' = listening \ {mounted}
           /\ UNCHANGED <<mounted, outcome, state, repeats, vars>>

\* Mutant: the outcome of a disposed instance is taken too.
AcceptAlways(i, s) == state' = s

\* "if (disposed) return"
Accept(i, s) == state' = IF i \in disposed THEN state ELSE s

\* No macrotask runs between a clean-up and the effect that follows it.
Settle(i, o, s) == /\ outcome[i] = "connecting"
                   /\ mounted = LastMount
                   /\ outcome' = [outcome EXCEPT ![i] = o]
                   /\ Accept(i, s)
                   /\ UNCHANGED <<mounted, disposed, listening, repeats, vars>>

ConnectSucceeds(i) ==
  \E tools \in BOOLEAN :
    Settle(i, "connected", [app |-> i, connected |-> TRUE, connecting |-> FALSE,
                            connectionError |-> FALSE, canCallTools |-> tools])

\* The host refuses, or the instance was closed while it was connecting.
ConnectFails(i) ==
  Settle(i, "failed", [app |-> NoApp, connected |-> FALSE, connecting |-> FALSE,
                       connectionError |-> TRUE, canCallTools |-> FALSE])

\* A notification may arrive before the promise of connect has been handled.
Hears == mounted = LastMount /\ \E i \in listening : outcome[i] # "failed"

Heard == Hears /\ Notified /\ UNCHANGED <<host, repeats>>

\* The host delivers a result again.
HeardAgain(c) == /\ Hears
                 /\ stage[c] = "answered"
                 /\ repeats < MaxRepeats
                 /\ repeats' = repeats + 1
                 /\ Attributed("success", ResultId(c), Input[c], Input[c])
                 /\ interrupted' = FALSE
                 /\ UNCHANGED <<stage, refreshing, refreshes, serial, host>>

\* The refresh calls the server through the host.
RefreshOnHost == /\ state.app # NoApp /\ state.canCallTools
                 /\ Refresh
                 /\ UNCHANGED <<host, repeats>>

Settles(i) == ConnectSucceeds(i) \/ ConnectFails(i)

HostNext == \/ Mount \/ Unmount \/ Heard \/ RefreshOnHost
            \/ Local /\ UNCHANGED <<host, repeats>>
            \/ \E c \in Calls : HeardAgain(c)
            \/ \E i \in Mounts : Settles(i)

HostSpec == HostInit /\ [][HostNext]_<<host, repeats, vars>>

-----------------------------------------------------------------------------
\* The view shows the connection of the instance that is mounted, whatever
\* becomes of an earlier one, and however late; and it hears that one alone, so
\* that no notification counts twice (useMcpApp.ts:97, 111, 124).
ConnectionIsCurrent ==
  mounted = LastMount =>
    /\ listening = {mounted}
    /\ state.connecting <=> outcome[mounted] = "connecting"
    /\ state.connectionError <=> outcome[mounted] = "failed"
    /\ state.app = IF outcome[mounted] = "connected" THEN mounted ELSE NoApp

\* A result that the host delivers twice is in the history once (model.ts:181).
NoResultTwice ==
  \A i, k \in 1..Len(history) : history[i].id = history[k].id => i = k
=============================================================================
