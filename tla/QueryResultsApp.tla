-------------------------- MODULE QueryResultsApp --------------------------
(***************************************************************************)
(* ui/query-results: the view of mysql_query results that a host embeds.   *)
(* The host tells the view of every call (its input) and of every end (a   *)
(* result, an error, a cancellation); ends carry no call identifier, so    *)
(* the view works out which input an end belongs to.  Handlers of one view *)
(* run one at a time; the calls, and a refresh the view itself asked for,  *)
(* end in any order.                                                       *)
(***************************************************************************)
EXTENDS Integers, Sequences, FiniteSets, SequencesExt

CONSTANTS Calls,        \* mysql_query calls the host shows to the view
          Input,        \* Input[c]: what call c asks, its {profile, sql}
          Blank,        \* an input whose profile is blank
          Unknown,      \* the source of an entry that could not be attributed
          NoQuery, NoEntry,
          MaxHistory,   \* MAX_HISTORY
          MaxRefreshes  \* bound: refreshes the user asks for

ASSUME InputAssumption == {NoQuery, Unknown} \cap {Input[c] : c \in Calls} = {}
ASSUME MaxHistoryAssumption == MaxHistory \in Nat \ {0}
ASSUME BoundsAssumption == MaxRefreshes \in Nat

VARIABLES stage,        \* stage[c]: what the host has told of call c
          pending,      \* pendingInputsRef
          unattributed, \* unattributedTerminalsRef
          pendingInput, executing,
          history,      \* newest first
          active,       \* activeID
          refreshing,   \* what the refresh in flight asks for, or NoQuery
          refreshes, serial,  \* counters; serial is transientSequence
          interrupted   \* ghost: a refresh ended after the last notification

told == <<pending, unattributed, pendingInput, executing>>
shown == <<history, active>>
counters == <<refreshes, serial>>
vars == <<stage, told, shown, refreshing, counters, interrupted>>

Queries == {Input[c] : c \in Calls} \ {Blank}
Open(c) == stage[c] = "open" /\ Input[c] # Blank

-----------------------------------------------------------------------------
Init == /\ stage = [c \in Calls |-> "new"]
        /\ pending = << >> /\ unattributed = 0
        /\ pendingInput = NoQuery /\ executing = FALSE
        /\ history = << >> /\ active = NoEntry
        /\ refreshing = NoQuery
        /\ refreshes = 0 /\ serial = 0
        /\ interrupted = FALSE

\* An entry; "asked" is the input it is really about, which the view does not see.
Entry(id, status, source, candidates, asked) ==
  [id |-> id, status |-> status, source |-> source,
   candidates |-> candidates, asked |-> asked]

ResultId(x) == <<"result", x>>
TransientId == <<"transient", serial + 1>>
NextTransient == serial' = serial + 1

Recorded(e) == \E i \in 1..Len(history) : history[i].id = e.id

\* Mutant: a result is added twice.
AddAgain(e) == SubSeq(<<e>> \o history, 1, IF Len(history) < MaxHistory
                                           THEN Len(history) + 1 ELSE MaxHistory)

AddHistory(e) ==
  IF e.status = "success" /\ Recorded(e) THEN history
  ELSE SubSeq(<<e>> \o history, 1, IF Len(history) < MaxHistory
                                   THEN Len(history) + 1 ELSE MaxHistory)

\* pushEntry, without its setExecuting(false), which the callers override.
PushEntry(e) == /\ history' = AddHistory(e)
                /\ active' = e.id

\* Mutant: the batch is forgotten at the first end that has no owner.
SettledEarly(p, u) == u > 0 \/ Len(p) = 0

\* Every input that is waiting is accounted for by an end without an owner.
Settled(p, u) == u >= Len(p)

\* Mutant: the entry is pushed, and the spinner stopped, after synchronizing.
SynchronizeThenStop(p, u) ==
  /\ pending' = IF Settled(p, u) THEN << >> ELSE p
  /\ unattributed' = IF Settled(p, u) THEN 0 ELSE u
  /\ pendingInput' = IF Settled(p, u) THEN NoQuery ELSE Head(p)
  /\ executing' = FALSE

\* synchronizePendingState, with p waiting and u ends unattributed.
Synchronize(p, u) ==
  /\ pending' = IF Settled(p, u) THEN << >> ELSE p
  /\ unattributed' = IF Settled(p, u) THEN 0 ELSE u
  /\ pendingInput' = IF Settled(p, u) THEN NoQuery ELSE Head(p)
  /\ executing' = ~Settled(p, u)

\* An end whose input is known.
Attributed(status, id, source, asked) ==
  /\ PushEntry(Entry(id, status, source, {}, asked))
  /\ Synchronize(RemoveFirst(pending, source), unattributed)

\* Mutant: the candidates are read after the batch may have been cleared.
UndeterminedAfterwards(status, asked) ==
  LET u == IF pending = << >> THEN unattributed ELSE unattributed + 1
  IN /\ PushEntry(Entry(TransientId, status, Unknown,
                        IF Settled(pending, u) THEN {} ELSE Range(pending), asked))
     /\ Synchronize(pending, u)

\* recordUnattributedTerminal
Undetermined(status, asked) ==
  /\ PushEntry(Entry(TransientId, status, Unknown, Range(pending), asked))
  /\ Synchronize(pending, IF pending = << >> THEN unattributed ELSE unattributed + 1)

\* Mutant: an end without a source belongs to the input that came first.
FirstIsTheOne == pending # << >>

\* Only one input can be meant.
OneIsMeant == Len(pending) = 1 /\ unattributed = 0

\* An end that names no input, about a call that asked "asked".
Anonymous(status, asked) ==
  /\ IF OneIsMeant THEN Attributed(status, TransientId, Head(pending), asked)
     ELSE Undetermined(status, asked)
  /\ NextTransient

-----------------------------------------------------------------------------
\* onToolInput; an input without a usable profile is dropped.
ToolInput(c) ==
  /\ stage[c] = "new"
  /\ stage' = [stage EXCEPT ![c] = "open"]
  /\ IF Input[c] = Blank THEN UNCHANGED told
     ELSE /\ pending' = Append(pending, Input[c])
          /\ pendingInput' = Input[c]
          /\ executing' = (Len(pending) + 1 > unattributed)
          /\ UNCHANGED unattributed
  /\ interrupted' = IF Input[c] = Blank THEN interrupted ELSE FALSE
  /\ UNCHANGED <<shown, refreshing, counters>>

Ended(c, s) == /\ stage[c] = "open"
               /\ stage' = [stage EXCEPT ![c] = s]
               /\ interrupted' = FALSE
               /\ UNCHANGED <<refreshing, refreshes>>

\* onToolResult with a valid payload, which names its profile and SQL.
ToolResult(c) == /\ Input[c] # Blank
                 /\ Ended(c, "answered")
                 /\ Attributed("success", ResultId(c), Input[c], Input[c])
                 /\ UNCHANGED serial

\* onToolResult with an error of the server, whose metadata repeats the input.
ToolError(c) == /\ Ended(c, "ended")
                /\ IF Input[c] = Blank THEN Anonymous("error", Input[c])
                   ELSE /\ Attributed("error", TransientId, Input[c], Input[c])
                        /\ NextTransient

\* onToolResult with an error of the host, or with a payload that is no result.
HostError(c) == Ended(c, "ended") /\ Anonymous("error", Input[c])

\* onToolCancelled
ToolCancelled(c) == Ended(c, "ended") /\ Anonymous("cancelled", Input[c])

-----------------------------------------------------------------------------
\* The entry on display: the active one, or the newest where there is none.
Shown == LET i == SelectInSeq(history, LAMBDA e : e.id = active)
         IN history[IF i = 0 THEN 1 ELSE i]

\* The user refreshes the result on display ...
Refresh == /\ history # << >> /\ Shown.status = "success"
           /\ refreshing = NoQuery
           /\ refreshes < MaxRefreshes
           /\ refreshing' = Shown.source
           /\ refreshes' = refreshes + 1
           /\ UNCHANGED <<stage, told, shown, serial, interrupted>>

\* ... and, perhaps after other entries were pushed or selected, it returns.
\* pushEntry stops the spinner, whatever else is still waiting.
EndRefresh(status, id) ==
  /\ refreshing # NoQuery
  /\ PushEntry(Entry(id, status, refreshing, {}, refreshing))
  /\ refreshing' = NoQuery
  /\ executing' = FALSE
  /\ interrupted' = TRUE
  /\ UNCHANGED <<stage, pending, unattributed, pendingInput, refreshes>>

RefreshSucceeds == EndRefresh("success", ResultId(refreshes)) /\ UNCHANGED serial
RefreshFails == EndRefresh("error", TransientId) /\ NextTransient

SelectHistory(i) == /\ i \in 1..Len(history)
                    /\ active' = history[i].id
                    /\ UNCHANGED <<stage, told, history, refreshing, counters, interrupted>>

\* What the host tells the view, and what the user and the server do.
Notified == \E c \in Calls : \/ ToolInput(c) \/ ToolResult(c) \/ ToolError(c)
                             \/ HostError(c) \/ ToolCancelled(c)
Local == RefreshSucceeds \/ RefreshFails \/ \E i \in 1..MaxHistory : SelectHistory(i)

Next == Notified \/ Refresh \/ Local

Spec == Init /\ [][Next]_vars

-----------------------------------------------------------------------------
\* An entry names the request it is about or says that it does not know:
\* "does not assign that notification to a profile based on arrival order".
EntriesNameTheirRequest ==
  \A i \in 1..Len(history) : history[i].source \in {Unknown, history[i].asked}

\* When the view does not know, the request is among the candidates it lists.
CandidatesHoldTheRequest ==
  \A i \in 1..Len(history) :
    history[i].source = Unknown => history[i].asked \in history[i].candidates

\* What waits, less the ends without an owner, is exactly what is still open:
\* the count that tells the view when a single input can be meant.
PendingIsBalanced ==
  Len(pending) - unattributed = Cardinality({c \in Calls : Open(c)})

\* After a notification the spinner turns exactly while a call is open.  (The
\* end of a refresh stops it whatever is open, until the next notification.)
SpinnerTellsOpen == ~interrupted => (executing <=> \E c \in Calls : Open(c))
=============================================================================
