# Verification of mcp-server-mysql

A TLA+ development beside the Go server that gives MCP clients access to MySQL
(`src/cmd`, `src/internal`) and the React view that shows query results
(`src/ui/query-results`). TLC checks every model on a small instance; TLAPS
proves what the theorems state for every value of the constants.

## 1. The system

| Component | State it keeps | Operations | Talks to |
|---|---|---|---|
| Tool handlers, `internal/server/{server,script,explain}.go` | none of their own; one goroutine per request | resolve a profile, `run`, `handleScript`, `handleExplain`, `handleListTables`, `handleDescribe`, `handleStats` | guard, executor, audit logger of the profile |
| Guard, `internal/guard` | none (an immutable configuration) | `Check`, `CheckScript`, `ClassifyOne`, `TableAllowed` | the TiDB parser |
| Executor, `internal/executor` | a `sql.DB` pool per profile; a transaction per call | `Query`, `Execute`, `RunScript`, `WalkBaseTables`, `ShowCreateTable` | database/sql, its `awaitDone` goroutine, MySQL |
| Statistics ring, `internal/audit/ring.go` | `buf`, `next`, `full` under a mutex | `add`, `snapshot` | logger |
| Audit logger, `internal/audit/logger.go` | current file and date, `closed`, under a mutex | `Log`, `Close`, `Stats` | the file system, the calendar |
| Table resources, `internal/server/resource.go` | the URIs registered per profile, under a mutex | `load`, `tableResourceHandler` | the MCP server's resource list, executor, guard |
| Query view, `ui/query-results/src` | pending inputs, count of ends without an owner, history, active entry, selection | handlers of tool input, result, cancellation; refresh; select | its host connection |
| Host connection, `useMcpApp.ts` | the instance of the protocol's `App`, its state, `disposed` | effect, clean-up, outcome of `connect` | the host that embeds the view |
| Profile manager, `internal/profile` | runtimes and their resources, fixed after construction | `NewManager`, `Get`, `List`, `Close` | executor, guard, logger |
| Configuration, `internal/config` | none | `Load`, `NormalizeAndValidate` | the file, the profile manager |
| Life cycle and transports, `cmd`, `internal/transport` | the process, its context, its exit code | start, signal, shutdown with a limit | all of them |

Requests run concurrently in goroutines of their own. Of one profile they
share the pool, the databases behind it, the ring and the log file. What makes
the behaviour hard:

* **failure between two steps**: a COMMIT whose reply is lost, an autocommitted
  write that outlives its deadline, a file that is closed before the next one
  fails to open, a discovery that fails after the old resources were removed;
* **interleaving**: the deferred `Rollback` against `awaitDone`, handlers that
  reach the log in another order than their timestamps, two connections
  that reload the registry at once;
* **ordering without identifiers**: the view learns that *a* request ended,
  not which;
* **two lists of one rule**: scripts, single statements and the formats of
  `mysql_explain` are checked along different paths that must agree;
* **the end of the process**: profiles half constructed, and profiles closed under
  requests that still run;
* **computations with many cases**: the scopes of common table expressions, the
  rewriting of a table's DDL, percentiles, lists cut at a limit, defaults;
* **limits**: the pool, the ring, `max_script_statements`, `max_rows`, the history.

`PROJECT.json` lists these hazards at their lines, with the properties that
would show them going wrong, and every component, the ones not modelled too.

## 2. The modules

    RecentWindow     <---refines--- AuditRing ---.
                                    AuditLogger -+- Audit <--- AuditProofs
    ExecutorContract <---refines--- Executor  <--- ExecutorProofs ---.
                                        |                            |
                                    ToolServer <--- ToolServerProofs-+
                                        |                            |
                     Guard -------------'                            |
                       '--- GuardDecisions <--- GuardProofs ---------'
    ServingContract  <---refines--- Lifecycle <--- LifecycleProofs
    TableResources <--- TableResourcesProofs
    QueryResultsApp --- HostedView <--- QueryResultsProofs
    TableScopes, AuditStats, TableListing,
    CreateTableText --- TableTextGrammar,
    Configuration --- Computations <--- ComputationsProofs

`MC*` modules give the constants of their specification values for TLC.
In each component module a definition commented *Mutant* is what a plausible
slip in that code would make of the definition that follows it; no
specification uses one. They document what each property catches.

### Executor, ExecutorContract

`Executor` has one program counter per call and the steps of all who act on it:
the goroutine of the call (`SendStmt`, `FinishQuery`, `SendCommit`, ...), the
pool (`Acquire`), the server (`StmtDone`, `StmtFails`, `Land`, `Reply`, ...), the
network and the deadlines (`StmtCut`, `LoseReply`, `Cancel`, `Deadline`), and
database/sql's `awaitDone` (`AwaitDone`).

| Code | Model |
|---|---|
| `Query` and the metadata readers | mode `"query"`: `Acquire`, `BeginOk`, `SendStmt`, `StmtDone` (reads only: the transaction is READ ONLY), `FinishQuery`, `Rollback` |
| `Execute` | mode `"execute"`: `Acquire` sends the statement, `Land` makes it durable, `Reply` |
| `RunScript` | mode `"script"`: the loop of `SendStmt` and `StmtDone`, then `SendCommit`, `Land`, `Reply`, or `Rollback` from any failure |
| `query_timeout` | `Deadline` for the whole of `Query` and `Execute`; for a script, `StmtTimeout` of one statement |
| `SetMaxOpenConns` | the guard of `Acquire` |
| a connection given up with a write on it | `late`; `LateLands` or `LateDropped` decides later |

A statement is a read, a write or a DDL statement; results are their number.
`ExecutorContract` is what a caller may rely on: writes come all at once or
not at all; `"committed"` and `"ok"` mean that they are in, `"rolledBack"` that
they never will be, and a failure promises nothing.

### Guard, GuardDecisions

`Guard` holds the decisions as operators: a text is what the parser returns (a
failure or statements), a statement the facts the rules ask of its AST: the
kind of its root, an EXPLAIN around it, a WHERE, a dangerous node anywhere, its
tables. Lists of rules keep the order of the code, which decides the rule
that is reported. `GuardDecisions` puts one text before every way in and
compares the answers. `Mutates` and `StrongestEffect` say what MySQL does with
a statement and are independent of `Classify`, so a misclassification shows.
`ExplainFormatsAgree` speaks of statements without an EXPLAIN of their own:
`ClassifyOne` takes `EXPLAIN ANALYZE SELECT` for a select, so `format=tree`
admits it and MySQL rejects the doubled EXPLAIN.

### ToolServer

The handlers between request and reply, over `INSTANCE Guard` and `INSTANCE
Executor`: `Receive` (resolve), `RefuseUnaudited` (explain's own denials and
describe's name check), `Deny`, `Run`, `LogNext` for each audit record,
`Respond`. The database and the audit logs are shared by all requests.
`WritesWerePermitted` and `ScriptsAreAtomic` hold only of the two components
together: the executor alone does not promise atomicity to a script with DDL.
`AuditMatchesReply` ties the log to what the client was told. It leaves open which
records a script has whose transaction failed: there the code and its documents
disagree (section 6).

### AuditRing, RecentWindow, AuditLogger, Audit

`AuditRing` is the array, index and flag of the code, with the history of all
records as a ghost; `RecentWindow` is a sequence that keeps its last N
elements. `AuditLogger` has the two halves of `Log`: `AddToRing`, outside the
logger's mutex, and the file section (`LogClosed`, `OpenFails`, `Write` with
`Roll`), one step each because the mutex is held throughout; `Close` and
`Midnight` come in between. `f` and `curDate` are modelled separately, as in
the code, since a failed open leaves them apart. `Audit` is both at work: the
`Add` of the ring is a part of `AddToRing`, and snapshots are taken at any time.

### TableResources

`load`, profile by profile: `Lock`, `Clear`, `Find` or `FindFails`, `Add` one by
one, `Record`. Tables are created and dropped (`Change`) throughout.
The ghosts `found` and `fresh` remember what was discovered, and since when.

### Lifecycle, ServingContract

The main goroutine from `NewManager` to the exit code, with the requests that
use its resources.

| Code | Model |
|---|---|
| `newManagerWithFactory`, `newRuntime` | per profile `OpenExecutor`, `OpenLogger`, or `ProfileFails`, `LoggerFails`; a failure goes to `close` with what was recorded |
| `run`, `RunStdio`, `RunHTTP` | `Serve`, `StopServing`, `Drained`, `DrainTimesOut`, `ListenerFails`, `ClientLeaves` |
| `signal.NotifyContext`, its deferred `stop` | `Signal` while it is in force, `Killed` before and after |
| `closeCreated`, also as `Manager.Close` | `CloseNext`, `Exit` |
| a request | `Begin`, `Work`: the executor and then the logger of its profile |

stdio waits for its handlers without limit, HTTP for five seconds. After
`DrainTimesOut` and `ListenerFails` handlers run on while profiles are closed under them;
`missed` records which of them met a closed resource. `ServingContract` is what
the rest may rely on: all profiles or none, and no resource closed twice or
left open by a process that ends itself.

### QueryResultsApp, HostedView

The handlers of `App.tsx`. `Attributed` stands for `removePendingInput`,
`pushEntry` and `synchronizePendingState` in a row (synchronizing twice, as
the code does, is the same as once). Each entry carries in `asked` the request
it is really about, which the view cannot see; the properties compare the
two. `executing` may be off while requests are pending after a refresh has
returned (`pushEntry` clears it and the refresh does not synchronize): the
ghost `interrupted` marks these states, and `SpinnerTellsOpen` holds outside.

`HostedView` extends it with `useMcpApp.ts`: the effect (`Mount`), its clean-up
(`Unmount`), the outcome of `connect` (`Settle`), which may come for an instance
that is disposed. Only what a listening instance hears reaches the handlers (`Heard`), and
a refresh needs the host's capability (`RefreshOnHost`). The host may deliver a
result twice (`HeardAgain`).

### Computations and its parts

Code that keeps no state and computes an answer, each put beside a second
definition that does not share its method. A statement is the walk that the parser
makes over its tree, one call after the other (`Calls`), so that the visitor is a loop
over a sequence; `WellNested` says which sequences are walks. Every loop is a
recursive function over places, so that it can be reasoned about.

| Module | Code | Compared with |
|---|---|---|
| `TableScopes` | `tableCollector`: two stacks pushed and popped by `Enter` and `Leave` | the scoping rules of MySQL, by where a name stands in the tree, with names compared in lower case and as they are spelled |
| `AuditStats` | `Stats`: totals, rules, P95, slowest | numbers of records, the definition of the nearest rank, and of the N largest |
| `CreateTableText` | `normalizeCreateTableDDL`: its two loops skip strings and comments alike, so one scanner (`ScanText`) stands for both | `TableTextGrammar`, which says where the tokens of MySQL end without scanning, and the text without its counter |
| `TableListing` | `scanRows`, `listVisibleBaseTablesUpTo`, `listVisibleBaseTables` | each other, and the whole list |
| `Configuration` | defaults, normalization, validation | what the other modules assume of a profile |

## 3. What is checked

| Run | States | Shows |
|---|---|---|
| `executor` | 35,584 | two calls, one connection per profile, seven kinds of job: writes come whole, answers are true, no connection leaks, the contract is implemented; calls return and connections come back |
| `audit` | 767,640 | two handlers, four records, three days, two disk faults: each record once, on its day, lost only to a named cause; two slots (two wraps), one reader: a snapshot is the latest records in order |
| `guard` | 72,160 | every statement over one table with every configuration; scripts of up to three of six statements, limits of 2 and 3: no way in admits what another one would not |
| `tool_server` | 80,736 | two requests out of thirteen, two profiles: guard, executor and log together |
| `table_resources` | 24,338 | two connections, two profiles, two changes, one failure: the registry is what was last found, answers are fresh, every load ends |
| `lifecycle` | 87,211 | three profiles, three requests, all transports: failures at every step of the start, all ways to stop |
| `computations` | 39,402 | five computations, each beside its reference |
| `query_results` | 344,401 | four requests (three alike), history of three, two refreshes: no entry is attributed to another request |
| `query_results_repeated` | 4,221 | two mounts of the view, results delivered again, a blank profile |

Three more runs expect a violation; see section 6.

**Bounds.** Two concurrent calls suffice for every race in this code: each
shared object (pool, mutex, file, registry) is contended by pairs, and a third
participant only waits. `MaxOpen = 1` makes every call wait for another.
Scripts of two statements have a statement before and after the one that
fails. Two slots and four records take the ring around twice, and every position is
seen both before and after it is full. Three days let the log roll forward, back and forward again. Three
profiles, because the third one fails with two complete behind it. Four
view requests are needed so that two ends without an owner can overlap with
a new request; a history of three drops entries. `LastMount = 2` is the one
remount of StrictMode; both connections are at work at once then. The
computations take query blocks nested three deep over two names, so that each name
can be hidden and found again, and one name in two cases; snapshots of every length to 41, over two steps of
the P95 index, and all mixtures of up to four records; table texts of one or two
items, in the list of columns and on either side of the counter: each kind of
string with a parenthesis, a doubled quote or an escape in it, a comment with a counter in it, and
words that have the counter's name in them; lists
shorter than, as long as and longer than the limit; profiles with fields
left out, legal and at their edge. Every bound is a named constant (`MaxAdds`, `MaxLogs`,
`LastDay`, `MaxFaults`, `MaxChanges`, `MaxFailures`, `MaxRefreshes`,
`MaxRepeats`, `LastMount`) or a set in an `MC` module, and all but these come from the
configuration of the program.

**Deadlock** is checked wherever the system must not stop; `Finished` is the
end of a finite workload. It is off where the behaviour is simply over: one
guard decision, one computation, and the bounded ring, logger and view.

**Fairness.** `Executor!Fairness` assumes that a goroutine that can run does,
that timers fire, that database/sql serves a waiter when a connection stays free,
and that MySQL answers BEGIN, COMMIT and ROLLBACK, which the code sends with no
deadline of its own. It assumes nothing of how long a statement runs:
`query_timeout` must end it. `TableResources` assumes that `sync.Mutex` serves its
waiters and that discovery, bounded by `query_timeout`, ends. `Lifecycle` assumes
that the main goroutine runs and that the timer of the HTTP shutdown fires, and
nothing of the handlers: `SignalEnds` therefore allows stdio to wait for one that
never returns, and nothing else.

## 4. What is proved

Each theorem is of the form `Spec => []P` or `Spec => Contract` and holds for every
value of the constants that the named assumptions admit. `P` is seldom inductive;
each proof module defines the invariant it uses, and has one lemma per action.

**AuditProofs**, the ring (`RingSizeAssumption`, which `validateProfile` enforces, and that
the zero record is no logged one). `ContentsAreLatest` says nothing of which slot
holds which record. `IInv` does: `next` is the length of the history modulo the size, `full`
holds exactly when the history is at least as long as the ring, and each of the last
`RingSize` records sits in the slot of its number modulo the size. `Add` preserves it by
arithmetic on the remainder (`StepIndex`); from `IInv` the concatenation of the two
slices is computed element by element (`ConcatElements`, `IInvContents`). The refinement
(`RingImplementsWindow`) needs one more fact, that the window of a longer history is the
window pushed once (`LatestAppend`).

**ExecutorProofs** (`JobsAssumption`: a job has statements, and one only
unless it is a script; a finite set of calls, a pool of at least one). The five invariants of
the run `executor`, and `ExecutorImplementsContract`, for which no script may
have DDL in it; `CheckScript` sees to that. COMMIT makes durable what the
transaction has taken, so one has to know that this is every
write of the script. `IInv` adds, for each call, where it can be (`Phase`), when it
has a connection (`Holding`), and which of its writes are durable, which are at the
server and which were left behind (`Untouched`, `Reads`, `Writes`). The heart of it is
that a transaction in the loop has either taken exactly the writes among its first
`results` statements, or lost its connection to `awaitDone`, in which case its context
has ended and it can neither send a statement nor COMMIT (`SendStmtInv`, `SendCommitInv`).
An action touches one call and leaves the others alone (`Compose`). In the
refinement a write that lands, in time (`Land`) or late (`LateLands`), is the contract's
`Apply`, which needs that `pending` is then the whole effect of the job.

**GuardProofs** (`CasesAssumption`: the texts are what the parser can return).
All five properties of the run `guard`, for texts of any length and any set of tables. The
decisions are characterised once (`CheckAdmits`, `ScriptAdmits`, `ExplainAdmits`: what
must hold of a text that is let through), and `EffectOfClass` says what MySQL can do
with a statement of each class; the theorems follow from these.

**ToolServerProofs** (`RequestsAssumption`, `PoolAssumption`). `WritesPermitted`,
`ScriptsWhole` and `RefusalsTraceless` are put together from the two modules above:
the lemmas of `GuardProofs` say what an admitted text is, `ServedJobs` that such
requests satisfy the assumption of `ExecutorProofs`, `ExecutorStep` that a step of the server
is a step of its executor or leaves it alone, so that the executor's invariant holds of the server;
`Handler` says what a request at each stage has behind it. `RepliesAudited` needs more of
the log, which all handlers append to: the records of a call are in the log of its own
profile alone, one for each number up to `logged`, in their order (`AuditInv`). A log entry is never
touched again and an executor's answer never changes, so what was written for it
still fits it at the reply; and since `"committed"` stands for a script that went
through, and `"rolledBack"` for the statements up to the one that failed, these are all
the records there are to write. Of a failed transaction the theorem says only that
its records are in order and in no other log: what they should be is section 6's matter.

**AuditProofs**, the logger (`BoundsAssumption`). `RecordsOnce`, `LinesOfTheDay`, `LossHasCause`,
`NoLeak`: `Inv` says what each handler has in hand (`Hand`), how file, date and open
handles agree (`Fields`), why a file can be missing (`Broken`), and for each number
that its record is in exactly one of the places it can be (`OnceInRing`, `OnceInLog`).
`Composed`: their composition implements the logger and the ring, so what is proved of
either holds of the run's specification, `AuditSpec`; that a caller adds a record takes `Hand`.

**TableResourcesProofs** (`ListAssumption`, `WhitelistAssumption`). `RegistryCorrect` and
`AnswersFresh`: the client that loads holds the mutex (`Mutex`); the profile in
hand is between the old registry and the new one, in a way that depends on the stage of the load
(`Registry`); and what a waiting client has yet to see discovered is still ahead of
the loader or of itself (`Freshness`).

**LifecycleProofs** (`NAssumption`). `CutOffReported` and `LifecycleImplementsContract`:
at every stage the resources that are open are exactly those of the profiles done, plus
the one in hand, or those not yet closed (`Holdings`), and a request that misses
one has outlived a drain or a listener (`Requests`).

**QueryResultsProofs** (`InputAssumption`, `MaxHistoryAssumption`, `HostAssumption`).
`EntriesNameTheirs`, `CandidatesHold`, `PendingBalanced` and `SpinnerTells` hold of every
set of requests in which no profile is blank (`NoBlankInput`); with a blank one the first
fails, which is the finding of section 6. The open requests can be matched one to one
with waiting inputs of the same content, the inputs left over being those of ends
without an owner (`Matched`); so an only waiting input is that of the only
open request. `ConnectionCurrent` and `NotTwice` need no such proviso.

**ComputationsProofs** (`WalksAssumption`: the parser enters and leaves nodes in the order of a
tree, with the WITH clause first in its statement; `NamesAssumption`, `ListingsAssumption`, `ProfilesAssumption`
and `SnapshotsAssumption` are types). A loop is a recursive function, of which TLA+ only says
that it is chosen among those that satisfy its equation: `Recursion` builds one, `Induction`
shows that it is the only one, both for a set of numbers and not by an
induction rule, since the least element of a set comes from the well-foundedness of
inclusion (`LeastNumber`). `ConfigurationUsable`: `Filled` is idempotent, field by
field. `ListsArePrefixes`: a scan holds the kept rows so far, or the first ones and a mark
(`CappedCuts`). `TablesReal`: the open nodes of a walk are a chain (`Chained`); after
any call the two stacks hold, in the order in which they were entered, what belongs
to the open blocks and WITH clauses, a scope being the expressions of its block that
are over, or begun if they are recursive (`After`); and at a table those are exactly the
expressions that MySQL sees (`VisibleIsAdded`). This is with names in lower case; an expression that hides a
table as it is spelled hides it in lower case too, and the converse is what `OneSpelling`
asks of a statement (`TwoSpellings`). At the end nothing is open, so both
stacks are empty. `StatsTrue`: a sequence is described by how many of its numbers are at most
each `d` (`Below`). The loop of `Stats` keeps this in step with the records read so far
(`TalliedIs`), and an insertion adds one wherever it lands (`BelowPut`), so sorting
changes none of it (`Sorted`); of a sorted sequence it gives the nearest rank (`RankOf`) and
how often each number is there, to which the slow list is compared (`TopOf`).

`OnlyTheCounterGoes`: `DdlsAssumption` says what SHOW CREATE TABLE prints, in terms of MySQL's
grammar and not of the code's: the text is made of tokens, the list of columns ends at the
first parenthesis that balances, and of the options at most one, a token of its own behind
one blank, is the counter. The scanner is in the text, outside any string or comment,
exactly where a token ends (`TextAtEnds`, by `ModeAfter` through each kind of token), and its
depth is then the number of parentheses still open (`DepthIs`), so it starts to look for an option
behind the list of columns (`StartIs`). A word inside a token is never taken for the option
(`NoOption`), and the counter is, at its place (`FindOptionIs`, `CounterIn`). Up to the counter a
text reads as it does without it (`SameScan`), so what is cut out of it leaves that other text
(`CounterGone`), and a text that has no counter is left alone (`LeftAlone`).

Only model-checked: the liveness properties (`EveryCallReturns`, `ConnectionsComeBack`,
`EveryLoadEnds`, `SignalEnds`), which are out of this prover's reach.

## 5. What is not modelled, and why

* The text of SQL, results and errors; row scanning, formatting and schemas.
* The globs of the whitelist: `path.Match` of the Go library on the two parts of a
  name. In `Guard` a whitelist is a set of tables. A table is the pair of its lower-case
  names: the dot that joins them in the code could also be part of a quoted name.
* Storage engines without transactions: a table of such an engine keeps what a failed
  script wrote, and no model has one. `ScriptAtomic`, `ScriptsAreAtomic` and
  `AnswersAreTrue` are about transactional tables.
* A resource that is closed twice: the contract of `Lifecycle` says that each is closed,
  and a second Close would be a step that changes nothing.
* Reading of a resource: it changes no state and is one call of the executor with
  its own whitelist check. What it returns is `CreateTableText`.
* `query_app.go`, `format.go`, `ui/app.go`: a payload, a page and a random
  identifier; the view only relies on results having distinct ones.
* CORS and address checks of the HTTP transport: predicates on one request.
  Reading YAML and expanding the environment: libraries.
* Rendering, sorting, filtering, locales and the preview mode of the view.
* The average duration in `Stats`; the constants that `list_profile` prints.
* Negative limits and timeouts pass validation, and `Usable` takes them as set. A negative
  `max_open` means an unlimited pool;
  `MaxOpenAssumption` takes the positive case, which the default is.
* An audit file section is one step; a process crash inside it loses at most
  the line at hand, and nothing is read back, so there is no recovery to model.
* A client may see a registry half reloaded by another one: this is a transient
  state of `load` that the code accepts, so `RegistryIsLastDiscovery` speaks of
  profiles that no load is at work on.

## 6. Where the code and its documents disagree

* `audit_after_commit_failure`: `handleScript` counts the records to write by the
  failed index, which is 0 when COMMIT fails, so a script that ran completely,
  and may be durable, leaves no audit record (`script.go:58` against its own
  comment in line 57 and `README.md:260`). The same count leaves out an admitted
  script whose BEGIN fails, though records cover whatever reaches the guard, allowed
  and denied (`README.md:260`, whose exceptions do not name this), and a single
  statement has one; nothing of that script ran, so the run's property, which is about
  executed statements, does not show this half, and no property takes it for right.
* `names_by_spelling`: the visitor compares names in lower case (`tables.go:81`), so it
  takes a table for an expression whose name differs in case alone. Where
  `lower_case_table_names` is 0 MySQL tells the two apart and reads the table, so
  not every table reference is extracted (`README.md:25`), nor is a doubtful name taken
  for a table (`tables.go:22`). `TablesAreReal` says where this cannot happen.
* `blank_profile_misattributed`: the view drops the input of a request whose
  profile is blank; its error is then attributed to the one other request that
  is pending (`App.tsx:320` against `README.md:165-167`).

## 7. Plan

The order was: the executor and the ring with their abstract specifications, the
guard, the tool server over both, the logger, the resources, the view; then the
computations, the life cycle with its contract, the host connection; then a proof
module for each component, and last the composition. All of it is done.

What could follow: the life cycle composed with `AuditLogger` in place of its one bit per logger; matching of
globs, should the code come to do it itself; the query result payload, should it come
to keep state.
