--------------------------- MODULE LifecycleProofs ---------------------------
(***************************************************************************)
(* Proofs about Lifecycle, for any number of profiles and of requests.     *)
(* The invariant has two halves: Holdings says which resources are open,   *)
(* and which of them are recorded for closing, wherever the main goroutine *)
(* is; Requests says when a handler can be at work, or have met a closed   *)
(* resource.                                                               *)
(***************************************************************************)
EXTENDS Lifecycle, TLAPS

\* The resources of the profiles before n, and those recorded from i on.
Before(n) == (1..(n - 1)) \X Kinds
RecordedFrom(i) == {resources[j] : j \in i..Len(resources)}

Holdings ==
  /\ \A i, j \in 1..Len(resources) : resources[i] = resources[j] => i = j
  /\ pc \in {"build", "logger"} => at \in 1..N /\ RecordedFrom(1) = Before(at)
  /\ pc = "logger" => open = Before(at) \cup {<<at, "executor">>}
  /\ pc = "build" => open = Before(at)
  /\ pc \in {"start", "serve", "drain"} => RecordedFrom(1) = Resources /\ open = Resources
  /\ pc \notin {"close", "exited"} => next = 1
  /\ pc = "close" => open = RecordedFrom(next)

Requests ==
  /\ pc \in {"build", "logger", "start"} => ~Busy
  /\ pc \notin {"close", "exited"} => missed = {}
  /\ missed # {} \/ (pc \in {"close", "exited"} /\ Busy) => code = 1

IInv == TypeOK /\ Holdings /\ Requests

-----------------------------------------------------------------------------
\* What a process starts with.
LEMMA InitInv == Init => IInv
<1> SUFFICES ASSUME Init PROVE IInv
  OBVIOUS
<1> USE NAssumption DEF Init
<1>1. TypeOK
  <2>1. resources \in Seq(Resources) /\ Len(resources) = 0
    OBVIOUS
  <2>2. handler \in [Handlers -> [state : {"idle", "running", "logging", "done"},
                                 profile : Profiles]]
    BY DEF Profiles
  <2>3. at \in 1..(N + 1) /\ next \in 1..(Len(resources) + 1)
    BY <2>1
  <2> QED BY <2>1, <2>2, <2>3 DEF TypeOK
<1>2. Holdings
  BY DEF Holdings, Before, RecordedFrom
<1>3. Requests
  BY DEF Requests, Busy
<1> QED BY <1>1, <1>2, <1>3 DEF IInv

\* Steps of the handlers and of their clients leave the main goroutine alone.
LEMMA HoldingsKept ==
  ASSUME Holdings, UNCHANGED <<pc, build, next, open>>
  PROVE  Holdings'
BY DEF Holdings, RecordedFrom, Before, build

\* The resources of one profile more.
LEMMA BeforeNext ==
  ASSUME NEW n \in 1..N
  PROVE  /\ Before(n + 1) = Before(n) \cup {<<n, "executor">>, <<n, "logger">>}
         /\ <<n, "executor">> \notin Before(n) /\ <<n, "logger">> \notin Before(n)
<1> USE NAssumption
<1>1. 1..((n + 1) - 1) = (1..(n - 1)) \cup {n} /\ n \notin 1..(n - 1)
  OBVIOUS
<1> QED BY <1>1 DEF Before, Kinds

LEMMA BeforeEnd == Before(N + 1) = Resources
BY NAssumption DEF Before, Resources, Profiles

\* A resource that was not recorded yet is recorded at the end.
LEMMA RecordOne ==
  ASSUME NEW S, NEW s \in Seq(S), NEW x \in S,
         \A i, j \in 1..Len(s) : s[i] = s[j] => i = j,
         \A i \in 1..Len(s) : s[i] # x
  PROVE  LET t == Append(s, x)
         IN /\ t \in Seq(S)
            /\ \A i, j \in 1..Len(t) : t[i] = t[j] => i = j
            /\ {t[i] : i \in 1..Len(t)} = {s[i] : i \in 1..Len(s)} \cup {x}
<1> DEFINE t == Append(s, x)
<1>1. t \in Seq(S) /\ Len(t) = Len(s) + 1 /\ Len(s) \in Nat
  OBVIOUS
<1>2. t[Len(s) + 1] = x /\ \A i \in 1..Len(s) : t[i] = s[i]
  OBVIOUS
<1>3. 1..Len(t) = (1..Len(s)) \cup {Len(s) + 1}
  BY <1>1
<1>4. \A i, j \in 1..Len(t) : t[i] = t[j] => i = j
  BY <1>1, <1>2, <1>3
<1>5. {t[i] : i \in 1..Len(t)} = {s[i] : i \in 1..Len(s)} \cup {x}
  BY <1>2, <1>3
<1> QED BY <1>1, <1>4, <1>5

LEMMA AppendTwo ==
  ASSUME NEW S, NEW s \in Seq(S), NEW x \in S, NEW y \in S
  PROVE  s \o <<x, y>> = Append(Append(s, x), y)
<1> DEFINE t == s \o <<x, y>>  u == Append(Append(s, x), y)
<1>1. t \in Seq(S) /\ u \in Seq(S) /\ Len(t) = Len(s) + 2 /\ Len(u) = Len(s) + 2
  OBVIOUS
<1>2. ASSUME NEW i \in 1..(Len(s) + 2) PROVE t[i] = u[i]
  <2>1. CASE i \in 1..Len(s)
    BY <2>1
  <2>2. CASE i = Len(s) + 1
    BY <2>2
  <2>3. CASE i = Len(s) + 2
    BY <2>3
  <2> QED BY <2>1, <2>2, <2>3
<1> HIDE DEF t, u
<1>3. t = u
  BY <1>1, <1>2
<1> QED BY <1>3 DEF t, u

-----------------------------------------------------------------------------
LEMMA OpenExecutorInv == IInv /\ OpenExecutor => IInv'
<1> SUFFICES ASSUME IInv, OpenExecutor PROVE IInv'
  OBVIOUS
<1> USE DEF IInv, OpenExecutor, build, requests
<1>1. TypeOK'
  BY DEF TypeOK, Holdings, Resources, Profiles, Kinds
<1>2. Holdings'
  BY DEF Holdings, RecordedFrom, Before
<1>3. Requests'
  BY DEF Requests, Busy
<1> QED BY <1>1, <1>2, <1>3

\* Whatever makes run return leaves open what it has recorded.
LEMMA LeaveInv ==
  ASSUME IInv, NEW c \in {0, 1, 2}, Leave(c), open = RecordedFrom(1), next = 1,
         c # 1 => ~Busy, missed = {},
         UNCHANGED <<transport, build, next, open, signalled, eof, requests>>
  PROVE  IInv'
<1> USE DEF IInv, Leave, build, requests
<1>1. TypeOK'
  BY DEF TypeOK
<1>2. Holdings'
  BY DEF Holdings, RecordedFrom, Before
<1>3. Requests'
  BY DEF Requests, Busy
<1> QED BY <1>1, <1>2, <1>3

LEMMA ProfileFailsInv == IInv /\ ProfileFails => IInv'
<1> SUFFICES ASSUME IInv, ProfileFails PROVE IInv'
  OBVIOUS
<1>1. open = RecordedFrom(1) /\ next = 1 /\ missed = {}
  BY DEF IInv, Holdings, Requests, ProfileFails
<1> QED BY <1>1, LeaveInv DEF ProfileFails

\* The runtime is complete: the executor and the logger are recorded.
LEMMA OpenLoggerInv == IInv /\ OpenLogger => IInv'
<1> SUFFICES ASSUME IInv, OpenLogger PROVE IInv'
  OBVIOUS
<1> DEFINE e == <<at, "executor">>  l == <<at, "logger">>  s == Append(resources, e)
<1> USE NAssumption
<1>1. /\ at \in 1..N /\ RecordedFrom(1) = Before(at)
      /\ open = Before(at) \cup {e} /\ next = 1
  BY DEF IInv, Holdings, OpenLogger
<1>2. resources \in Seq(Resources) /\ e \in Resources /\ l \in Resources /\ e # l
  BY <1>1 DEF IInv, TypeOK, Resources, Profiles, Kinds
<1>3. e \notin RecordedFrom(1) /\ l \notin RecordedFrom(1) \cup {e}
  BY <1>1, <1>2, BeforeNext
<1>4. resources' = Append(s, l)
  <2>1. resources' = resources \o <<e, l>>
    BY DEF OpenLogger
  <2> HIDE DEF e, l
  <2> QED BY <1>2, <2>1, AppendTwo
<1>5. /\ s \in Seq(Resources)
      /\ \A i, j \in 1..Len(s) : s[i] = s[j] => i = j
      /\ {s[i] : i \in 1..Len(s)} = RecordedFrom(1) \cup {e}
  <2>1. \A i \in 1..Len(resources) : resources[i] # e
    BY <1>3 DEF RecordedFrom
  <2>2. \A i, j \in 1..Len(resources) : resources[i] = resources[j] => i = j
    BY DEF IInv, Holdings
  <2> HIDE DEF e, l
  <2> QED BY <1>2, <2>1, <2>2, RecordOne DEF RecordedFrom
<1>6. /\ resources' \in Seq(Resources)
      /\ (\A i, j \in 1..Len(resources) : resources[i] = resources[j] => i = j)'
      /\ RecordedFrom(1)' = RecordedFrom(1) \cup {e, l}
  <2> HIDE DEF e, l, s
  <2>1. \A i \in 1..Len(s) : s[i] # l
    BY <1>3, <1>5
  <2>2. \A i, j \in 1..Len(s) : s[i] = s[j] => i = j
    BY <1>5
  <2>3. /\ Append(s, l) \in Seq(Resources)
        /\ \A i, j \in 1..Len(Append(s, l)) : Append(s, l)[i] = Append(s, l)[j] => i = j
        /\ {Append(s, l)[i] : i \in 1..Len(Append(s, l))} = {s[i] : i \in 1..Len(s)} \cup {l}
    BY <1>2, <1>5, <2>1, <2>2, RecordOne
  <2> QED BY <1>4, <1>5, <2>3 DEF RecordedFrom
<1>7. RecordedFrom(1)' = Before(at + 1) /\ open' = Before(at + 1)
  BY <1>1, <1>6, BeforeNext DEF OpenLogger
<1>8. at' = at + 1 /\ next' = 1 /\ pc' = IF at = N THEN "start" ELSE "build"
  BY <1>1 DEF OpenLogger
<1>9. TypeOK'
  <2>1. next' \in 1..(Len(resources') + 1)
    BY <1>6, <1>8
  <2>2. open' \subseteq Resources
    BY <1>2 DEF OpenLogger, IInv, TypeOK
  <2> QED BY <1>1, <1>6, <1>8, <2>1, <2>2 DEF IInv, TypeOK, OpenLogger, requests
<1>10. Holdings'
  <2>1. CASE at = N
    BY <1>6, <1>7, <1>8, <2>1, BeforeEnd DEF Holdings
  <2>2. CASE at # N
    <3>1. at' \in 1..N /\ Before(at)' = Before(at + 1)
      BY <1>1, <1>8, <2>2 DEF Before
    <3> QED BY <1>6, <1>7, <1>8, <2>2, <3>1 DEF Holdings
  <2> QED BY <2>1, <2>2
<1>11. Requests'
  BY <1>8 DEF IInv, Requests, Busy, OpenLogger, requests
<1> QED BY <1>9, <1>10, <1>11 DEF IInv

\* The executor without a logger is recorded as well.
LEMMA LoggerFailsInv == IInv /\ LoggerFails => IInv'
<1> SUFFICES ASSUME IInv, LoggerFails PROVE IInv'
  OBVIOUS
<1> DEFINE e == <<at, "executor">>
<1> USE NAssumption
<1>1. /\ at \in 1..N /\ RecordedFrom(1) = Before(at)
      /\ open = Before(at) \cup {e} /\ next = 1
  BY DEF IInv, Holdings, LoggerFails
<1>2. resources \in Seq(Resources) /\ e \in Resources
  BY <1>1 DEF IInv, TypeOK, Resources, Profiles, Kinds
<1>3. \A i \in 1..Len(resources) : resources[i] # e
  BY <1>1, <1>2, BeforeNext DEF RecordedFrom
<1>4. \A i, j \in 1..Len(resources) : resources[i] = resources[j] => i = j
  BY DEF IInv, Holdings
<1>5. resources' = Append(resources, e)
  BY DEF LoggerFails
<1>6. /\ resources' \in Seq(Resources)
      /\ (\A i, j \in 1..Len(resources) : resources[i] = resources[j] => i = j)'
      /\ RecordedFrom(1)' = RecordedFrom(1) \cup {e}
  <2> HIDE DEF e
  <2> QED BY <1>2, <1>3, <1>4, <1>5, RecordOne DEF RecordedFrom
<1>7. pc' = "close" /\ code' = 1 /\ at' = at /\ next' = 1 /\ open' = open
  BY <1>1 DEF LoggerFails, Leave
<1>8. TypeOK'
  <2>1. next' \in 1..(Len(resources') + 1)
    BY <1>6, <1>7
  <2> QED BY <1>6, <1>7, <2>1 DEF IInv, TypeOK, LoggerFails, requests
<1>9. Holdings'
  <2>1. open' = RecordedFrom(next)'
    BY <1>1, <1>6, <1>7
  <2> QED BY <1>6, <1>7, <2>1 DEF Holdings
<1>10. Requests'
  BY <1>7 DEF IInv, Requests, Busy, LoggerFails, requests
<1> QED BY <1>8, <1>9, <1>10 DEF IInv

LEMMA ServeInv == IInv /\ Serve => IInv'
<1> SUFFICES ASSUME IInv, Serve PROVE IInv'
  OBVIOUS
<1>1. CASE transport = "other"
  <2>1. open = RecordedFrom(1) /\ next = 1 /\ missed = {} /\ ~Busy /\ Leave(2)
    BY <1>1 DEF IInv, Holdings, Requests, Serve
  <2> QED BY <2>1, LeaveInv DEF Serve
<1>2. CASE transport # "other"
  <2>1. pc' = "serve" /\ code' = code
    BY <1>2 DEF Serve
  <2> USE DEF IInv, Serve, build, requests
  <2>2. TypeOK'
    BY <2>1 DEF TypeOK
  <2>3. Holdings'
    BY <2>1 DEF Holdings, RecordedFrom
  <2>4. Requests'
    BY <2>1 DEF Requests, Busy
  <2> QED BY <2>2, <2>3, <2>4
<1> QED BY <1>1, <1>2

\* No request begins in a process that has reported success.
LEMMA BeginInv == \A h \in Handlers, p \in Profiles : IInv /\ Begin(h, p) => IInv'
<1> SUFFICES ASSUME IInv, NEW h \in Handlers, NEW p \in Profiles, Begin(h, p) PROVE IInv'
  OBVIOUS
<1> USE DEF IInv, Begin, build
<1>1. TypeOK'
  BY DEF TypeOK
<1>2. Holdings'
  BY HoldingsKept
<1>3. Requests'
  BY DEF Requests, Busy, Abandoned, TypeOK
<1> QED BY <1>1, <1>2, <1>3

\* While the process serves, everything is open.
LEMMA UseInv ==
  ASSUME IInv, NEW h \in Handlers, NEW kind \in Kinds,
         NEW from \in {"running", "logging"}, NEW to \in {"logging", "done"},
         Use(h, from, to, kind)
  PROVE  IInv'
<1> USE DEF IInv, Use, build
<1>1. handler' \in [Handlers -> [state : {"idle", "running", "logging", "done"},
                                profile : Profiles]]
  BY DEF TypeOK
<1>2. TypeOK'
  BY <1>1 DEF TypeOK
<1>3. Holdings'
  BY HoldingsKept
<1>4. Busy
  BY DEF Busy
<1>5. CASE pc \in {"serve", "drain"}
  <2>1. <<handler[h].profile, kind>> \in open
    BY <1>5 DEF TypeOK, Holdings, Resources
  <2>2. missed' = missed /\ pc' = pc
    BY <2>1
  <2> QED BY <1>2, <1>3, <1>5, <2>2 DEF Requests
<1>6. CASE pc \notin {"serve", "drain"}
  <2>1. pc = "close" /\ code = 1
    BY <1>4, <1>6 DEF Requests, TypeOK
  <2> QED BY <1>2, <1>3, <2>1 DEF Requests
<1> QED BY <1>5, <1>6

LEMMA WorkInv == \A h \in Handlers : IInv /\ Work(h) => IInv'
BY UseInv DEF Work, Kinds

\* A signal, the end of stdin, and the main goroutine that heeds them.
LEMMA StopInv == IInv /\ (Signal \/ ClientLeaves \/ StopServing) => IInv'
<1> SUFFICES ASSUME IInv, Signal \/ ClientLeaves \/ StopServing PROVE IInv'
  OBVIOUS
<1> USE DEF IInv, Signal, ClientLeaves, StopServing, build, requests
<1>1. TypeOK'
  BY DEF TypeOK
<1>2. Holdings'
  BY DEF Holdings, RecordedFrom, Before
<1>3. Requests'
  BY DEF Requests, Busy
<1> QED BY <1>1, <1>2, <1>3

LEMMA KilledInv == IInv /\ Killed => IInv'
<1> SUFFICES ASSUME IInv, Killed PROVE IInv'
  OBVIOUS
<1> USE DEF IInv, Killed, build, requests
<1>1. TypeOK'
  BY DEF TypeOK
<1>2. Holdings'
  BY DEF Holdings
<1>3. Requests'
  BY DEF Requests, Busy
<1> QED BY <1>1, <1>2, <1>3

\* The three ways in which serving ends.
LEMMA EndInv == IInv /\ (ListenerFails \/ Drained \/ DrainTimesOut) => IInv'
<1> SUFFICES ASSUME IInv, ListenerFails \/ Drained \/ DrainTimesOut PROVE IInv'
  OBVIOUS
<1>1. open = RecordedFrom(1) /\ next = 1 /\ missed = {}
  BY DEF IInv, Holdings, Requests, ListenerFails, Drained, DrainTimesOut
<1>2. CASE ListenerFails
  BY <1>1, <1>2, LeaveInv DEF ListenerFails
<1>3. CASE Drained
  <2>1. PICK c \in {0, 1} : Leave(c)
    BY <1>3 DEF Drained, DrainedCodes
  <2> QED BY <1>1, <1>3, <2>1, LeaveInv DEF Drained
<1>4. CASE DrainTimesOut
  BY <1>1, <1>4, LeaveInv DEF DrainTimesOut
<1> QED BY <1>2, <1>3, <1>4

\* What the loop of closeCreated closes is open until then.
LEMMA CloseOne ==
  ASSUME IInv, CloseNext
  PROVE  /\ resources[next] \in open
         /\ open' = RecordedFrom(next + 1)
<1>1. /\ next \in 1..Len(resources) /\ Len(resources) \in Nat
      /\ open = RecordedFrom(next) /\ open' = open \ {resources[next]}
      /\ \A i, j \in 1..Len(resources) : resources[i] = resources[j] => i = j
  BY DEF IInv, TypeOK, Holdings, CloseNext
<1>2. next..Len(resources) = {next} \cup ((next + 1)..Len(resources))
  BY <1>1
<1>3. \A i \in (next + 1)..Len(resources) : resources[i] # resources[next]
  BY <1>1
<1> QED BY <1>1, <1>2, <1>3 DEF RecordedFrom

LEMMA CloseNextInv == IInv /\ CloseNext => IInv'
<1> SUFFICES ASSUME IInv, CloseNext PROVE IInv'
  OBVIOUS
<1>1. pc = "close" /\ pc' = pc /\ next' = next + 1 /\ resources' = resources
  BY DEF CloseNext, build
<1>2. TypeOK'
  BY <1>1 DEF IInv, TypeOK, CloseNext, build, requests
<1>3. Holdings'
  BY <1>1, CloseOne DEF IInv, Holdings, RecordedFrom
<1>4. Requests'
  BY <1>1 DEF IInv, Requests, Busy, CloseNext, requests
<1> QED BY <1>2, <1>3, <1>4 DEF IInv

LEMMA ExitInv == IInv /\ Exit => IInv'
<1> SUFFICES ASSUME IInv, Exit PROVE IInv'
  OBVIOUS
<1> USE DEF IInv, Exit, build, requests
<1>1. TypeOK'
  BY DEF TypeOK
<1>2. Holdings'
  BY DEF Holdings
<1>3. Requests'
  BY DEF Requests, Busy
<1> QED BY <1>1, <1>2, <1>3

LEMMA NextInv == IInv /\ [Next]_vars => IInv'
<1> SUFFICES ASSUME IInv, [Next]_vars PROVE IInv'
  OBVIOUS
<1>1. CASE UNCHANGED vars
  BY <1>1 DEF vars, build, requests, IInv, TypeOK, Holdings, RecordedFrom, Before, Requests, Busy
<1>2. CASE Main
  BY <1>2, OpenExecutorInv, ProfileFailsInv, OpenLoggerInv, LoggerFailsInv, ServeInv, StopInv,
     EndInv, CloseNextInv, ExitInv DEF Main
<1>3. CASE DrainTimesOut \/ ListenerFails
  BY <1>3, EndInv
<1>4. CASE ClientLeaves \/ Signal
  BY <1>4, StopInv
<1>5. CASE Killed
  BY <1>5, KilledInv
<1>6. CASE \E h \in Handlers : Work(h) \/ \E p \in Profiles : Begin(h, p)
  BY <1>6, WorkInv, BeginInv
<1> QED BY <1>1, <1>2, <1>3, <1>4, <1>5, <1>6 DEF Next, Finished

-----------------------------------------------------------------------------
THEOREM Inductive == Spec => []IInv
BY InitInv, NextInv, PTL DEF Spec

\* The state of the process keeps its types, whatever fails and whenever the
\* signal comes, for any number of profiles and requests.
THEOREM TypeCorrect == Spec => []TypeOK
BY Inductive, PTL DEF IInv

\* A request that is cut off, in the middle or by the exit, is cut off by a
\* process that reports a failure.
THEOREM CutOffReported == Spec => []CutOffIsReported
<1>1. IInv => CutOffIsReported
  BY DEF IInv, Requests, CutOffIsReported
<1> QED BY <1>1, Inductive, PTL

-----------------------------------------------------------------------------
\* Every step is one of the contract's, or none.
LEMMA StepImplements == IInv /\ IInv' /\ [Next]_vars => [Contract!Next]_Contract!vars
<1> SUFFICES ASSUME IInv, IInv', [Next]_vars PROVE [Contract!Next]_Contract!vars
  OBVIOUS
<1> USE DEF Stage
<1>1. CASE UNCHANGED <<pc, open>>
  BY <1>1 DEF Contract!vars
<1>2. CASE OpenExecutor \/ OpenLogger
  <2>1. PICK r \in {<<at, "executor">>, <<at, "logger">>} :
          open' = open \cup {r} /\ r \notin open
    BY <1>2, BeforeNext DEF IInv, Holdings, OpenExecutor, OpenLogger
  <2>2. r \in Resources
    BY <1>2 DEF IInv, Holdings, OpenExecutor, OpenLogger, Resources, Profiles, Kinds
  <2>3. Stage = "starting" /\ Stage' = "starting"
    BY <1>2 DEF OpenExecutor, OpenLogger
  <2> QED BY <2>1, <2>2, <2>3 DEF Contract!Next, Contract!Open
<1>3. CASE ProfileFails \/ LoggerFails \/ ListenerFails \/ Drained \/ DrainTimesOut
  <2>1. Stage \in {"starting", "serving"} /\ Stage' = "ending" /\ open' = open
    BY <1>3 DEF ProfileFails, LoggerFails, ListenerFails, Drained, DrainTimesOut, Leave
  <2> QED BY <2>1 DEF Contract!Next, Contract!End
<1>4. CASE Serve
  <2>1. open = Resources
    BY <1>4 DEF IInv, Holdings, Serve
  <2> QED BY <1>4, <2>1 DEF Serve, Leave, Contract!Next, Contract!Serve, Contract!End
<1>5. CASE StopServing
  BY <1>5 DEF StopServing, Contract!vars
<1>6. CASE Killed
  BY <1>6 DEF Killed, Contract!Next, Contract!Die
<1>7. CASE CloseNext
  <2>1. resources[next] \in open /\ open \subseteq Resources
    BY <1>7, CloseOne DEF IInv, TypeOK
  <2> QED BY <1>7, <2>1 DEF CloseNext, Contract!Next, Contract!Close
<1>8. CASE Exit
  <2>1. open = {}
    BY <1>8 DEF IInv, TypeOK, Holdings, RecordedFrom, Exit
  <2> QED BY <1>8, <2>1 DEF Exit, Contract!Next, Contract!Finish
<1>9. CASE Signal \/ ClientLeaves \/ \E h \in Handlers : Work(h) \/ \E p \in Profiles : Begin(h, p)
  BY <1>1, <1>9 DEF Signal, ClientLeaves, Work, Use, Begin
<1> QED BY <1>1, <1>2, <1>3, <1>4, <1>5, <1>6, <1>7, <1>8, <1>9 DEF Next, Main, Finished, vars

\* The process serves with every resource of every profile or not at all, and
\* ends by itself only when each that it opened has been closed.
THEOREM LifecycleImplementsContract == Spec => ImplementsContract
<1>1. Init => Contract!Init
  BY DEF Init, Stage, Contract!Init
<1> QED BY <1>1, StepImplements, Inductive, PTL DEF Spec, ImplementsContract, Contract!Spec
=============================================================================
