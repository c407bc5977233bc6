------------------------------ MODULE Lifecycle ------------------------------
(***************************************************************************)
(* cmd, internal/profile and internal/transport: the life of the process.  *)
(* The main goroutine builds the profiles one by one, serves, and closes   *)
(* what it built; a signal, the end of the client, a failing listener and  *)
(* the five seconds of the HTTP shutdown end the serving, with request     *)
(* handlers at work on the resources all the while.                        *)
(***************************************************************************)
EXTENDS Integers, Sequences

CONSTANTS N,          \* how many profiles; in the order of their names, 1..N
          Handlers    \* requests that may arrive

ASSUME NAssumption == N \in Nat \ {0}

Profiles == 1..N
Kinds == {"executor", "logger"}
Resources == Profiles \X Kinds
Transports == {"stdio", "streamable-http", "other"}
NoCode == -1

VARIABLES transport,  \* --transport
          pc,         \* where the main goroutine is
          at,         \* the profile under construction
          resources,  \* Manager.resources: what closeCreated will close
          next,       \* the index of its loop
          open,       \* what is really open
          code,       \* the exit code that run has returned, or NoCode
          signalled,  \* the context of NotifyContext is done
          eof,        \* the client has closed stdin
          handler,    \* handler[h]: [state, profile]
          missed      \* handlers that found their profile's resource closed

build == <<at, resources>>
requests == <<handler, missed>>
vars == <<transport, pc, build, next, open, code, signalled, eof, requests>>

Init == /\ transport \in Transports
        /\ pc = "build" /\ at = 1 /\ resources = << >> /\ next = 1
        /\ open = {} /\ code = NoCode
        /\ signalled = FALSE /\ eof = FALSE
        /\ handler = [h \in Handlers |-> [state |-> "idle", profile |-> 1]]
        /\ missed = {}

-----------------------------------------------------------------------------
\* run returns c; what is left to do is closeCreated.
Leave(c) == pc' = "close" /\ code' = c

\* newManagerWithFactory, one turn: the profile's configuration is validated
\* and executor.New succeeds, or one of them fails with nothing opened.
OpenExecutor == /\ pc = "build"
                /\ pc' = "logger"
                /\ open' = open \cup {<<at, "executor">>}
                /\ UNCHANGED <<transport, build, next, code, signalled, eof, requests>>

ProfileFails == /\ pc = "build"
                /\ Leave(1)
                /\ UNCHANGED <<transport, build, next, open, signalled, eof, requests>>

\* audit.NewLogger succeeds: the runtime is complete; after the last one the
\* manager is published.
OpenLogger == /\ pc = "logger"
              /\ pc' = IF at = N THEN "start" ELSE "build"
              /\ at' = at + 1
              /\ open' = open \cup {<<at, "logger">>}
              /\ resources' = resources \o << <<at, "executor">>, <<at, "logger">> >>
              /\ UNCHANGED <<transport, next, code, signalled, eof, requests>>

\* Mutant: newRuntime returns no resource along with its error.
LoggerFailsUnrecorded == /\ pc = "logger"
                         /\ Leave(1)
                         /\ UNCHANGED <<transport, build, next, open, signalled, eof, requests>>

\* audit.NewLogger fails: the executor is handed over to be closed.
LoggerFails == /\ pc = "logger"
               /\ Leave(1)
               /\ resources' = Append(resources, <<at, "executor">>)
               /\ UNCHANGED <<transport, at, next, open, signalled, eof, requests>>

\* run, once the manager is there.
Serve == /\ pc = "start"
         /\ IF transport = "other" THEN Leave(2) ELSE pc' = "serve" /\ UNCHANGED code
         /\ UNCHANGED <<transport, build, next, open, signalled, eof, requests>>

-----------------------------------------------------------------------------
\* A handler is cut off from its process: the drain has given up on it, or
\* the listener has failed.
Abandoned == pc = "close" /\ code = 1 /\ transport = "streamable-http" /\ at > N

\* A request arrives; HTTP connections that are already there are served on
\* until Shutdown has seen them all idle.
Begin(h, p) == /\ handler[h].state = "idle"
               /\ \/ pc = "serve" /\ ~eof
                  \/ pc = "drain" /\ transport = "streamable-http"
                  \/ Abandoned
               /\ handler' = [handler EXCEPT ![h] = [state |-> "running", profile |-> p]]
               /\ UNCHANGED <<transport, pc, build, next, open, code, signalled, eof, missed>>

\* A handler uses the executor, then the logger, of its profile.
Use(h, from, to, kind) ==
  /\ pc # "exited"
  /\ handler[h].state = from
  /\ handler' = [handler EXCEPT ![h].state = to]
  /\ missed' = IF <<handler[h].profile, kind>> \in open THEN missed ELSE missed \cup {h}
  /\ UNCHANGED <<transport, pc, build, next, open, code, signalled, eof>>

Work(h) == Use(h, "running", "logging", "executor") \/ Use(h, "logging", "done", "logger")

Busy == \E h \in Handlers : handler[h].state \in {"running", "logging"}

-----------------------------------------------------------------------------
\* SIGINT or SIGTERM while NotifyContext is in force.
Signal == /\ pc \in {"start", "serve", "drain"}
          /\ signalled' = TRUE
          /\ UNCHANGED <<transport, pc, build, next, open, code, eof, requests>>

\* Before it, and after the deferred stop, a signal kills the process.
Killed == /\ pc \in {"build", "logger", "close"}
          /\ pc' = "exited" /\ open' = {}
          /\ UNCHANGED <<transport, build, next, code, signalled, eof, requests>>

\* The client closes stdin: the SDK reads no more and waits for its handlers.
ClientLeaves == /\ pc = "serve" /\ transport = "stdio" /\ ~eof
                /\ eof' = TRUE
                /\ UNCHANGED <<transport, pc, build, next, open, code, signalled, requests>>

\* ListenAndServe returns an error; RunHTTP returns it at once.
ListenerFails == /\ pc = "serve" /\ transport = "streamable-http"
                 /\ Leave(1)
                 /\ UNCHANGED <<transport, build, next, open, signalled, eof, requests>>

\* The context is done, or stdin at its end: nothing more is to be served.
StopServing == /\ pc = "serve" /\ (signalled \/ eof)
               /\ pc' = "drain"
               /\ UNCHANGED <<transport, build, next, open, code, signalled, eof, requests>>

\* The code run returns after a drain.  RunHTTP has no error then; the SDK's
\* Run reports the end of its context, and of stdin and it either one.
DrainedCodes == IF transport = "streamable-http" THEN {0}
                ELSE (IF signalled THEN {1} ELSE {}) \cup (IF eof THEN {0} ELSE {})

\* Every handler has ended: Shutdown, or the SDK's Run, returns.
Drained == /\ pc = "drain" /\ ~Busy
           /\ \E c \in DrainedCodes : Leave(c)
           /\ UNCHANGED <<transport, build, next, open, signalled, eof, requests>>

\* Mutants: the error of Shutdown is not returned; it is given no deadline.
DrainTimesOutSilently == /\ pc = "drain" /\ transport = "streamable-http"
                         /\ Leave(0)
                         /\ UNCHANGED <<transport, build, next, open, signalled, eof, requests>>
DrainForever == FALSE /\ UNCHANGED vars

\* Shutdown gives up after five seconds; stdio has no such limit.
DrainTimesOut == /\ pc = "drain" /\ transport = "streamable-http"
                 /\ Leave(1)
                 /\ UNCHANGED <<transport, build, next, open, signalled, eof, requests>>

\* closeCreated, one turn: an error is kept for the report, and the loop goes on.
CloseNext == /\ pc = "close" /\ next <= Len(resources)
             /\ open' = open \ {resources[next]}
             /\ next' = next + 1
             /\ UNCHANGED <<transport, pc, build, code, signalled, eof, requests>>

Exit == /\ pc = "close" /\ next > Len(resources)
        /\ pc' = "exited"
        /\ UNCHANGED <<transport, build, next, open, code, signalled, eof, requests>>

Main == \/ OpenExecutor \/ ProfileFails \/ OpenLogger \/ LoggerFails \/ Serve
        \/ StopServing \/ Drained \/ CloseNext \/ Exit

Finished == pc = "exited" /\ UNCHANGED vars

Next == \/ Main \/ DrainTimesOut \/ ListenerFails \/ ClientLeaves \/ Signal \/ Killed
        \/ \E h \in Handlers : Work(h) \/ \E p \in Profiles : Begin(h, p)
        \/ Finished

Spec == Init /\ [][Next]_vars

\* The main goroutine runs when it can, and timers fire.  Nothing is assumed
\* of the handlers: a COMMIT may hang, and RunScript gives it no deadline.
FairSpec == Spec /\ WF_vars(Main) /\ WF_vars(DrainTimesOut)

-----------------------------------------------------------------------------
TypeOK == /\ transport \in Transports
          /\ pc \in {"build", "logger", "start", "serve", "drain", "close", "exited"}
          /\ at \in 1..(N + 1)
          /\ resources \in Seq(Resources)
          /\ next \in 1..(Len(resources) + 1)
          /\ open \subseteq Resources
          /\ code \in {NoCode, 0, 1, 2}
          /\ signalled \in BOOLEAN /\ eof \in BOOLEAN
          /\ handler \in [Handlers -> [state : {"idle", "running", "logging", "done"},
                                       profile : Profiles]]
          /\ missed \subseteq Handlers

\* A request is cut off when it meets a closed executor, when it loses its line
\* of the audit log, and when the process exits under it.  That happens only in
\* a process that reports a failure: the drain gave up on the request, or the
\* listener failed under it (http.go:105, main.go:45).  Exit code 0 means that
\* every request was carried through.
CutOffIsReported == missed # {} \/ (pc = "exited" /\ Busy) => code = 1

\* A signal ends the process although handlers may never end; only stdio
\* waits for them, as long as it takes.
SignalEnds == \/ signalled ~> pc = "exited"
              \/ transport = "stdio" /\ <>[]Busy

\* All of the profiles or none, and no resource left open.
Stage == CASE pc \in {"build", "logger", "start"} -> "starting"
           [] pc \in {"serve", "drain"}           -> "serving"
           [] pc = "close"                        -> "ending"
           [] OTHER                               -> "over"
Contract == INSTANCE ServingContract WITH stage <- Stage
ImplementsContract == Contract!Spec
=============================================================================
