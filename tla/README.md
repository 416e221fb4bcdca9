# Solstice Intelligence in TLA+

Solstice Intelligence answers natural-language questions about a certified DuckDB
warehouse: a language model proposes SQL, a validation gate judges and bounds it, an
executor runs it read-only, and a REST API (with a Streamlit frontend) returns a typed
answer. This directory models that system, checks it with TLC and proves part of it
with TLAPS. Source paths below are relative to the repository.

## Inventory

| component | state | operations | talks to |
|---|---|---|---|
| access guard `app/api/access_guard.py` | `_state`: key -> (window start, count), shared by the server's threads without a lock | `check` (token), `allow` (limiter) | called before `POST /v1/ask` |
| validation gate `app/validation/` | none: a pure function of SQL text, schema and settings | `validate` and its rules, `apply_limit` | called by the orchestrator |
| orchestrator `app/llm/orchestrator.py` | the schema of startup; the locals of one `ask` | `ask` with five outcomes | LLM client, gate, executor |
| executor `app/execution/`, `app/warehouse/connection.py` | one connection per request | open, execute, fetch, close | the warehouse file |
| schema `app/warehouse/schema.py` | the tables and columns introspected by `lifespan` | `introspect`, `has_table`, `has_column` | gate, prompt |
| formatter and mapping `app/formatting/`, `app/api/mapping.py` | none | `format_response`, `to_ask_response` | the public `AskResponse` |
| LLM client `app/llm/client.py` | SDK client with a timeout and the SDK's retries | `propose_query`, `_extract` | OpenAI |
| API server `app/api/main.py`, `routes.py`, `readiness.py` | `app.state` (assistant, probe, flag), the thread pool | startup, shutdown, `/health`, `/ready`, request ids | everything above |
| frontend `frontend/` | the Streamlit session: phase, transcript | `run` (one script run per interaction), `RealApiClient` | the API over HTTP |
| metadata and prompt `app/metadata/`, `app/semantic/grounding.py`, `app/llm/prompts.py` | authored, constant | `validate`, `raise_if_invalid`, the prompt text | the smoke test asks for the report, the LLM client sends the text; nobody calls the gate |
| settings `app/config.py` | one frozen object per load | `load_settings`, also at import | every program below and the server |
| diagnostic and smoke test `scripts/verify_env.py`, `scripts/smoke_test_openai.py` | none kept: a verdict, an exit code | the registry of checks; one live question | the environment, the warehouse file, the provider |
| release `scripts/check_version.py`, `.github/workflows/release.yml`, `app/api/build_info.py` | tags, runs, registry, Releases | verify, publish, release; `/version` | git, GitHub Actions, the registry |
| logging `app/api/logging_config.py`, `scripts/inspect_schema.py`, `ci.yml` | one handler; none; none | format, print, gate a merge | not modelled |

What is hard here:

* *Concurrency.* Routes and the guard are synchronous functions, so FastAPI runs them
  in a pool of threads. They share the limiter's dictionary, the warehouse file and DuckDB's
  instance of it. Nothing bounds how long a statement runs.
* *Staleness.* The gate judges by the schema read at startup while the executor opens the
  file as it is now, or joins an instance that an overlapping request or probe opened before the
  file was replaced. The limiter acts on a clock value and an entry it read earlier. The
  diagnostic and the startup each look at the file twice, at different moments. A release
  job builds the commit of an event while the branch moves on.
* *Failure.* The provider fails or times out, the file vanishes between approval and
  open, a statement fails after it reached DuckDB or never ends, a token cannot be compared,
  the frontend gives up before the backend,
  a restart forgets the limiter, a release job fails between two pushes and is run again.
* *Boundaries.* Window and quota comparisons, the two LIMIT settings, fetching one row
  more than the cap, alias and CTE names in nested scopes.

What makes each part correct: the guard never refuses a client early, never charges one
for a caller without a token, and bounds what is admitted; the gate approves only clean
statements, agrees with SQL scoping on plain names and bounds every LIMIT; the pipeline runs
only what was approved for this very request, once, discloses what ran, is honest about
truncation, leaks no connection and answers every question whose statement ends; the LLM client
returns within the time its timeout, if it has one, and the retries of the SDK allow; the server answers what it accepted before it
tears its state down; the page sends no question twice and tells what the backend did; the
drift report finds every drift, READY means that the server starts, and nothing is spent on
a drifted prompt; every published image was verified and answers its own version. `PROJECT.json` lists every hazard at its line.

## Modules

| module | models |
|---|---|
| `AccessGuard` | `check` and `allow`: one action per access to shared state (`Check`, `ReadClock`, `Lookup`, then `OpenWindow`, `CountRequest` or `Deny`), threads interleaving between them, `Tick`, and `Restart` |
| `QuotaWindow` | what the limiter promises, atomically: a meter of the requests really admitted |
| `WarehouseSchema` | the introspected schema: its lookups, and the columns its prompt text lists |
| `GateRules` | the gate as operators, one per rule, and DuckDB's name resolution as the reference |
| `Gate` | one candidate and its verdict, so that TLC enumerates candidates |
| `Pipeline` | `ask`, `execute`, `open_readonly`, then `format_response` and `to_ask_response` |
| `AskService` | what `POST /v1/ask` promises: one answer per question, in one step |
| `LLMClient` | one `propose_query`: the timeout, the attempts of the SDK, the walk over the output items |
| `Server` | the lifespan, the pool of threads, the guard dependency, `get_assistant`, and the routes `/v1/ask`, `/health`, `/ready` with its probe |
| `Frontend` | one Streamlit session: runs of the script and their interruption, the HTTP client, the transcript |
| `Metadata` | the drift report, the tables and columns the prompt names, and drift itself as the reference |
| `Preflight` | the diagnostic, the startup and the smoke test over one environment and one changing file; it extends `LLMClient` for the smoke test's question |
| `Release` | the release workflow with its version check: tags, dispatches, overlapping and repeated runs, the registry, the Releases |
| `MCAccessGuard`, `MCGate`, `MCPipeline`, `MCPreflight`, `MCRelease`, `MCServer` | the instances TLC checks (the other modules are checked as they are) |
| `AccessGuard_proofs`, `Gate_proofs`, `Pipeline_proofs`, `Server_proofs`, `Frontend_proofs`, `Preflight_proofs`, `Release_proofs` | the theorems (those about `Metadata` and `LLMClient` are in `Preflight_proofs`, which needs them) |
| `GateRules_proofs` | the lemmas about the gate's operators that the proofs of `Gate` and `Pipeline` share |

`Pipeline` and `Gate` extend `GateRules`, which shares `WarehouseSchema` with `Metadata`;
`Preflight` composes `Metadata`, `LLMClient` and the settings; `AccessGuard` and `Pipeline` each instantiate
their abstract specification with a refinement mapping. The operators whose comment
begins with *Mutant* are deliberate faults, one plausible bug each: no action uses them;
substituted for the definition that follows, they make the property they are listed with
in `PROJECT.json` fail.

### How state corresponds to code

* `AccessGuard`: `state` is `_state`, with an absent key written as a count of 0;
  `seen` and `entry` are the locals `now` and `entry` of `allow`; `pc` is the program
  point. `charged`, `admittedAt` and `authorised` are history: they record what really
  happened, which the lossy dictionary cannot tell. Reading the dictionary, and storing
  into it, are atomic as they are under the interpreter lock, and nothing else is.
  A token is right, missing or wrong, or one that `compare_digest` cannot read (a character
  outside ASCII in it or in the configured one), which ends in an exception and a 500.
  `Restart` empties the dictionary and every thread; the clock and the history go on, but for
  `charged`, which is emptied with the windows it counts.
* `GateRules`: SQL text is its syntax tree, and of the tree only what the rules inspect:
  root kind, LIMIT, and the query scopes in breadth-first order. A scope carries its parent and
  what it is there (a CTE's body, a correlated subquery), its CTE names in order, its tables
  with schema qualifier and alias, the aliases of its derived tables, its qualified columns, its
  function names and whether it writes. Parsing belongs to sqlglot: "unparsable" is one of the
  inputs. Case folding is left out: names are already lower-case.
* The reference in `GateRules` is external: DuckDB's name resolution, by which a CTE is visible
  in the query below its WITH and in the bodies of later CTEs, and in its own if it is RECURSIVE;
  an unqualified table is a CTE or a table of the schema `main`; and a qualifier means the
  innermost table or derived table of that name, through correlated subqueries outwards.
* `Pipeline`: `step` is the point reached in `ask`/`execute`, `known` the content
  introspected at startup, `warehouse` what the file holds now, `conn` says which requests have
  a connection open, `probing` whether readiness probes have one, and `instance` is the content
  they all read: `duckdb.connect` of a path joins the instance of that path that is open in the
  process, and opens the file only if there is none. A change of the file replaces it by
  another one of its name (a rename), so an open instance keeps its content. Rows are counted,
  not listed. `ran` (a sequence: nothing may run twice) and `seen` are history. A statement
  runs only if it resolves in the content that is open, any statement may fail at run time, with
  a `duckdb.Error` or with another exception (`raised`, a 500), and one in `Endless` never
  returns.
  NOT_APPROVED is absent: `ask` calls the executor only with an approved query.
  `LabelledExecuted` is the label that the frontend puts over `executed_sql`.
* `LLMClient`: `raw` is the environment variable, `timeout` is `self._timeout`, `attempts` and
  `elapsed` are the SDK's, `output` is `response.output` with one name per kind of item. The
  SQL held during the walk is the index of the item it came from. The SDK retries timeouts
  and transient errors because the client is built without `max_retries`. httpx applies the
  timeout to each wait of an attempt (connect, write, every piece read), so `Progress` may
  start the clock anew, `MaxPieces` times; `AttemptTimesOut` is one wait in full. The setting may
  be `inf`, which the code accepts: then no attempt times out, and a wait that does end is at
  most `Horizon` long (a bound of the model alone). What a socket makes of an infinite timeout
  (an OverflowError, hence a failed attempt, on CPython) is left open: `AttemptFails` is possible,
  and so is waiting.
* `Server`: `process` is the lifespan's point, `assistant` and `probe` say whether
  `app.state` holds them, `queue` and `threads` are anyio's limiter, `at` the synchronous call
  a request is in. What `/v1/ask` does in its route is `Pipeline`; here it ends with a 200, with
  a 500 (an exception nobody expected), or goes through `query`, with a connection open, where a
  `runaway` stays for ever. A probe that finds a connection open joins it, file or no file. Of the body, `Server` knows
  whether `AskRequest` accepts it; `/version` is in `Release`; the API key is set here, and
  `Preflight` has the other cases.
* `Frontend`: `phase` and `transcript` are session state; `script` is the statement the run is
  at, `pending` the event Streamlit has queued for the script, `enabled` what the browser
  shows of the button. `StartCall` begins the blocking call, during which no event can
  interrupt; every other point between two uses of `st` can be interrupted. `backend` is what
  really became of each call, which goes on after the client gave up.
* `Metadata`: a catalog is its facts and dimensions, of which the prose is left out; a column
  reference is a name or the sentinel, and a report holds pairs of table and column where the
  code holds their labels.
* `Preflight`: `env` is `os.environ` with what is installed, `warehouse` what WAREHOUSE_PATH
  leads to (a content, nothing, a directory, a file that does not open), `at` the point of the
  program that runs. The checks of the diagnostic that look at the process alone are one step;
  those that look at the file are a step each, as they are in the startup. `settled` is
  history: nobody replaced the file since the diagnostic's last look.
* `Release`: a commit is what the workflow reads of it (version, two digests, whether the
  gates accept it). `runs` holds for each run its name, its commit and the step it is at;
  the jobs of one run are sequential by their `needs`. What a job built is gone when it fails
  or ends, so a repetition starts at the job's first step. A tag is not moved once pushed.

## Runs

| run | question | result |
|---|---|---|
| `GuardConcurrent` | two racing threads, two keys, tokens good, bad and unreadable, a restart | `DenialJustified` and `UnauthorisedNeverCharged` hold whatever updates are lost |
| `GuardSequential` | one thread, a restart | the limiter implements `QuotaWindow`; at most `(2 + restarts) * MaxRequests - 1` admissions in any span of one window |
| `GuardQuotaRace` | is the quota kept by two threads? | violated |
| `GateVerdicts` | subqueries, derived tables, CTEs and set operations over small names, and every statement form and LIMIT | verdicts agree with SQL scoping on plain names; approved statements are clean; the LIMIT is bounded; the gate is a fixpoint on its own output |
| `GateMissedColumn` | must qualified columns exist? | violated |
| `PipelineService` | two requests and the probes, two changes of the file, an endless statement | safety, refinement of `AskService`, and every question ends but for the endless statement |
| `PipelineTruncation` | is `truncated` set when the cap hid rows? | violated |
| `ClientCall` | ten environments, two catalogs, a file replaced between any two looks; every timeout setting, fate of the attempts and response | READY means the server starts; no request on a drifted prompt; the exit codes tell; time bounded below and above and the call ends, but for an infinite timeout; the last telling `run_query` call decides |
| `Release` | two runs that overlap, fail and are repeated, six commits | every image verified, every Release backed by its image, only a dispatch deviates from a tag |
| `ServerLifecycle` | three requests (questions, runaways, probes, one of the other kinds), two threads, a signal or a kill, restarts, a file that comes or goes | nothing accepted fails for a shutdown, `/ready` is live, every request is answered and a drain ends, unless a runaway prevents it |
| `SessionLifecycle` | three events of the browser at any moment, a late, bad or silent backend | no duplicate question, an honest transcript, bounded spend, and Idle again if undisturbed |
| `SessionStuck` | does every wait end in Idle? | violated |

The four violated properties restate documentation, and are disagreements of the code
with it:

1. `allow` reads and writes its dictionary in two steps without a lock, so interleaved
   requests admit more than the quota (`app/api/access_guard.py:55-63`, against line 31 and
   ADR-012). Without interleaving the promise holds: `GuardSequential`.
2. `validate_columns` keeps one alias dictionary for the whole statement, so an alias
   used in two scopes makes it check a column against the wrong table
   (`app/validation/rules.py:189-198`, against `gate.py:11`). Where names are plain
   (`PlainNames`) it agrees with SQL: `AgreesWithScoping`.
3. The LIMIT the gate puts in keeps the executor from ever seeing the row that would
   tell it of truncation (`app/validation/bounds.py:29-41`, against `app/api/models.py:62`).
4. The page resets its phase in the last lines of the run that asked. An edit or a second
   click while the call is out (both widgets were drawn enabled) makes Streamlit end that run
   at its next use of `st`: the answer is dropped, and the session waits for ever with its
   button disabled (`frontend/streamlit_app.py:78-82`, against line 10).

Smaller ones have no run:

* One call may take `MaxRetries + 1` timeouts, not one (`app/llm/client.py:136`, against "exceeds
  the repository-owned request timeout", line 32): `CallTimeBounded` states the real bound. The
  frontend's 30 s (`frontend/config.py:22`) is below even one of them, so a question given up
  on is usually still being paid for: `SpendBounded` says how many may be.
* A table is judged by its bare name (`app/validation/rules.py:137`). `other.orders` passes as
  `orders`, and `information_schema.x`, or a table that is not visible as a CTE, passes where any
  WITH of the statement defines an `x`: the allowlist does not stop every system table, as line
  131 says. `ApprovedIsClean` has the premise `NamesInScope` for that, and TLC refutes it without.
* The alias of a derived table is no entry of the alias dictionary, so one that has the name of a
  warehouse table is taken for it and valid SQL is refused (`rules.py:198-208`, against "without
  risking false positives", line 184): `PlainNames` excludes it.
* A LIMIT that is no plain number (`LIMIT 2+3`, `FETCH FIRST 5 ROWS ONLY`) becomes MAX_ROWS, more
  than was asked for (`app/validation/bounds.py:36-38`): `LimitIsBounded` says so.
* Nothing bounds a statement (`app/execution/executor.py:64`), and WITH RECURSIVE passes the gate.
  A question whose statement never ends keeps its thread, its connection and the process. The
  comment on shutdown relies on uvicorn's `timeout-graceful-shutdown` (`app/api/main.py:91-93`;
  "a bounded grace period", ADR-013:59) set by no start command (`Dockerfile:35`, `render.yaml:13`).
  `EveryQuestionAnswered`, `EveryRequestReplied` and `ShutdownCompletes` name that exception.
* While connections overlap, DuckDB's instance of a replaced file stays in use
  (`app/warehouse/connection.py:53`): an answer may come from a content that was gone when the
  question came, and `/ready` ("can the service serve a request right now?", `routes.py:70`)
  may say yes of a removed file, on which `open_readonly` would fail. `CapIsHonest`,
  `AskService` and `ReadyIsLive` promise no more than that.
* `OPENAI_TIMEOUT_SECONDS=inf` passes for a number above 0 (`app/llm/client.py:49-52`), and the
  timeout is then none: `CallEnds` and `CallTimeBounded` exempt it.
* "Pipeline outcomes (including refusals and timeouts) return 200" (`routes.py:45`) holds of the
  outcomes; an exception that is no `duckdb.Error`, or a token that `secrets.compare_digest`
  cannot read (`app/api/access_guard.py:96`, "raises HTTPException(401)", line 70), is a 500.
* `ready()` "never raises" (`frontend/api_client.py:72`), but parses the body outside its try:
  `HeaderRaises`.
* A warehouse that cannot be opened yields `executed_sql` although nothing ran
  (`app/execution/executor.py:56-60`, against "null if none ran", `app/api/models.py:88`), and
  SQL that ran and failed is labelled "Proposed SQL (not run)" (`frontend/components.py:75`, 91,
  against "labeled by whether it actually ran", line 73). `RunIsDisclosed` states what does
  hold: all that ran is shown, nothing is called executed that was not, and SQL that never ran
  is shown only for a warehouse that did not open.
* `app/metadata/metadata.py:11-12` and ADR-004 let a build gate keep the metadata from drifting;
  `raise_if_invalid` has no caller in the application, so a server starts with a drifted prompt.
  Only the tests and the smoke test ask for the report: `GroundedSpend`.
* `verify_env` catches a malformed MAX_ROWS at its second try (`scripts/verify_env.py:117-120`),
  but the import before it raises first, and the diagnostic ends in a traceback: `LoadContext`.
* The smoke test exits 2 for a "setup/config error" and 1 when the "pipeline ran"
  (`scripts/smoke_test_openai.py:14-17`); malformed settings or a missing SDK give Python's own
  1. `ExitCodesTell` has that case. Its "no retries" (line 8) is against the SDK's two.
* The diagnostic strips the key and refuses DEFAULT_LIMIT above MAX_ROWS, the startup does
  neither; the tests of a blank OPENAI_MODEL in both can never fail, since `_env` has a default.
* The image is pushed as `:vX.Y.Z` (`release.yml:121`), not as `:X.Y.Z` (`Release_Guide.md:42`).
* A dispatch builds the head of the branch it is started on, not the tag's commit
  (`release.yml:45`, against "the tag is the source of truth", `Release_Guide.md:4`, and the
  recovery of lines 48-50): `OnlyRecoveryDeviates`.
* The provenance check compares two empty strings when both files are missing (`release.yml:69-73`),
  which passes; `EveryImageVerified` therefore only says that the digests agree.
* The local `docker run` of the `Deployment_Guide` sets no WAREHOUSE_PATH, and the default
  (`app/config.py:64`) is not the file the image bundles: that server fails at startup.
* A candidate with several statements reports only that, not
  "every categorized violation" (`gate.py:15`).
* The gate injects `DEFAULT_LIMIT` without comparing it with `MAX_ROWS` (`bounds.py:31`,
  against `config.py:40`); `PipelineService` runs with `DEFAULT_LIMIT` above `MAX_ROWS`, and
  `CapIsHonest` shows that the executor's own cap makes up for it.

### Bounds

* Guard: two threads suffice for a lost update and a stale overwrite; three calls each let
  one thread pass the quota while the other holds an old entry; four instants are two windows
  of two. `GuardSequential` gives one thread six calls in five instants: one more than the
  bound on a burst with its one restart, which is tight there. Threads are interchangeable, and so are keys.
* Gate: an expression's subquery, a derived table, a CTE and its body, and the arms of a set
  operation are the smallest statements in which the flat dictionaries and scoping differ.
  Tables: two known and one not, the schema `main` and another one, one alias, a table function;
  two columns of which one is missing from one table; a WITH of one or two CTEs, recursive or
  not, that hides a table or lends its name to an unknown one; a derived table named like a
  warehouse table. Limits run from none and odd through 0 to one above the cap.
* Pipeline: two requests that share the file, two changes (so a file may go and come back),
  contents with five rows and with one, proposals that are unbounded, bounded above the
  cap, bounded below, hallucinated, endless, and blank. The second request, or a probe, is
  what keeps a replaced content open. DEFAULT_LIMIT is 4 and MAX_ROWS 3, so the
  bound of the gate and that of the executor both matter.
* LLM client: two retries as in the SDK, timeouts of 0 (refused), 1, 2, the default 3 and infinity,
  a pause of at most 1, one sign of life in an attempt (so that an attempt can outlast its
  timeout), and up to two output items of seven kinds: whether a later item overrides,
  keeps or erases an earlier one is a matter of pairs, and the walk keeps nothing else.
* Preflight: ten environments, one sound and the others wrong in one way each (with the key
  unset in some, so that the smoke test does not multiply them); four contents: the certified
  one, one with a renamed column, one without the dimension that only a join names, one without
  the dimension that only the dimensions describe; a catalog with and one without an
  unresolved field; one change of the file, which falls between any two looks at it.
* Release: two runs are what overlaps; the commits are the release, one each that may not be
  released for its warehouse, its unreadable version, its red gates, a later commit of the same
  version, and one without a warehouse; three names, one of them malformed.
* Server: three requests and two threads are the least with which a runaway holds one thread
  while two requests compete for the other; a question queues three times, so a thread kept across
  two stops would deadlock. Requests are interchangeable, so `MCWorkloads` assigns the kinds in one
  order; it has at most two runaways and two probes, and one request of the other kinds. One change lets the file go or
  come during a probe, one stop is a signal or a kill.
* Frontend: a wait is disturbed by one event after a click, and a third event shows whether a
  later click helps. Calls are bounded by events: each needs a click.

Deadlock checking is off because the runs are bounded: calls, changes and questions end.

### Fairness

`FairSpec` assumes weak fairness of each request's next step, and nothing of the
environment. Each request has a thread of its own, and no step waits for another request. The
provider call is taken to end: the client is built with a timeout (`app/llm/client.py:136`), and
`CallEnds` shows what that takes, a timeout that is not infinite and a provider that does not
trickle for ever. A statement is taken to end only outside `Endless`: nothing in the code ends
it (`executor.py:64`), so `running` has no step at all. The guard has no liveness property: no step of it can block.

`Preflight` assumes that the smoke test, once started, goes on, and the SDK's clock
(`AttemptTimesOut`), never an answer of the provider. `Release` has no liveness property: a
run may fail for ever.
`Server` assumes that the pool hands out a free thread (`Dispatch`), that each thread runs
(`Work`, which has no step for a runaway in its query), and that a drained lifespan resumes
(`Teardown`); not that a process is restarted
or that a client calls. `Frontend` assumes that Streamlit runs the script and that httpx ends
the call at its timeout; not that the user stops clicking: `UndisturbedWaitEnds` has that as
its premise, and `WaitingEnds` fails without it.

## Proofs

Each theorem holds for every value of the constants that meets the named ASSUMEs. A property
that is not inductive is proved from an invariant that is; TLC checked each of those on the
instance of its run before it was proved.

Three properties are about something computed by recursion: a sum over time, a fold over the
items of a response, the chain of scopes around a scope. What such a function computes is
proved by induction on its length. The library's induction theorems have an operator for a
parameter, so the modules that need it derive `SetInduction` from `NatLessThanWellFounded`
and `WFMin`: a set that has 0, and with every n also n + 1, has every natural number. Each
recursive function is first shown to exist (`TotalExists`, `WalkExists`, `ChainExists`), since
TLA+ defines it by a CHOOSE. (Modules EXTEND each other along the model, so `SetInduction` and
`MaxIsMember` are stated once in each that needs them.)

`AccessGuard_proofs` (for all sets of threads and keys, quotas, windows and lengths of run):

* `TypeCorrect`: `Spec => []TypeOK`, which is inductive.
* `DenialsAreJustified`: `Spec => []DenialJustified`. The property is not inductive: a thread
  denies on an entry it read earlier. `IInv` adds that every entry in the dictionary, and
  every entry a thread still holds, counts at most as many requests as were really charged to
  its window (`charged`), and that a thread about to decide holds the entry of its own key. Stores
  may be lost, so counts only fall behind the history, and the history never decreases.
  `ChargeCovers` and `StoreKeepsInv` carry that step for the two ways to store.
* `TokenGateFirst`: `Spec => []UnauthorisedNeverCharged`, from the same shape: a thread past
  the token test serves an authorised key.
* `SequentialGuardIsQuota`: `Spec => ImplementsQuota`, the refinement of `QuotaWindow`, and
  `SequentialQuota`: `Spec => []QuotaPerWindow`, the very property that `GuardQuotaRace` finds
  violated. Both have two hypotheses. `OneAtATime` says that the limiter is switched off or
  served by one thread: with two, both are false. `Window > 0` is needed because a window of no
  length is over at once, and two windows that open at the same tick share one count.
  `MeterInv` turns the inequality of `IInv` into an equality: the dictionary's count is exactly
  what was charged to the window it names, no later window was charged, and what the thread
  holds is not stale. There is one lemma per action for its step of the meter (`OpenIsOpen`,
  `CountIsSpend`, `DenyIsRefuse`, `CheckIsAnswer`, `RestartIsForget`); the clock, the two reads
  and `Tick` are stutters.

* `BurstsAreBounded`: `Spec => []BurstBound`, with `OneAtATime` for its hypothesis and no
  condition on the window (a span of no length admits nothing). `BurstInv` says of every span of
  one window's length how much room is left in it: if the client's window opened before the span,
  what the span admitted is part of the window's count; if it opened inside, less than one
  quota came before; a client without an entry has a whole quota left, and each restart has
  granted one more. So a span that lies across two windows stays below two quotas, which the
  comment on the fixed window does not say. It needs that nothing is admitted later than
  the clock the thread inside the limiter has read (`NothingAfter`), and two facts on sums:
  one more admission inside the span is one more in the sum, none outside (`TotalCounts`).

`GateRules_proofs` has what the proofs of the gate and of the pipeline share, for any
candidate and schema: approval means no rule reported anything (`ApprovalMeansNoErrors`), and
so that none of the rules' conditions holds in any scope (`NoErrorsMeansNoViolation`); what
`ApplyLimit` returns (`LimitApplied`), that the rules do not read the LIMIT
(`RulesIgnoreLimit`), and that bounding twice is bounding once (`LimitIdempotent`). It also
compares the flat rules with SQL scoping: the scopes around a scope are scopes of the same
statement (`EnclosingAreScopes`, by induction along the breadth-first order), and only CTEs of
the statement are visible (`VisibleAreCtes`), so where names are used in scope a name the rules
know is one that resolution knows (`NamedIsKnown`). Where they are plain, too, the set of CTE
names decides as visibility does (`AllowlistAgrees`), no derived table is taken for a warehouse
table (`DerivedIsUnlisted`), and each qualifier offers the columns of its entry in the alias
dictionary and no others (`OfferedIsAliased`).

`Gate_proofs` (for every set of candidates, schema, denylist and settings), all from
`Faithful`: the verdict is undecided or exactly `Validate(sql, Schema)`:

* `ApprovalIsClean`: `Spec => []ApprovedIsClean`. That no scope writes or calls a denylisted
  function is the negation of two rules; that resolution finds no unknown table needs
  `NamedIsKnown`, and holds under `NamesInScope` only.
* `VerdictTyped`: `Spec => []TypeOK`: no combination of rules leaves a verdict that is approved
  with errors, or rejected with SQL.
* `ScopingAgrees`: `Spec => []AgreesWithScoping`, from `AllowlistAgrees` and `ColumnsAgree`, for
  any number of scopes nested to any depth. The run `GateMissedColumn` shows that the
  condition `PlainNames` is needed.
* `LimitsAreBounded`: `Spec => []LimitIsBounded`, and `SafeSqlIsFixpoint`:
  `Spec => []SafeIsFixpoint`, which has its own premise, DEFAULT_LIMIT at most MAX_ROWS.

`Pipeline_proofs` (for any requests, proposals, contents, schemas and changes of the file):

* `OnlyApprovedReaches` and `ConnectionsAreReleased`: `Spec => []OnlyApprovedRuns` and
  `[]ConnectionsReleased`, both from `RunInv`. Neither is inductive: a statement is run on a
  verdict stored two steps before. `RequestOK` adds that this verdict is still `Validate` of the
  request's own proposal under the schema of startup, and that nothing ran before the query.
  `FileInv` adds that an instance is open exactly while somebody has a connection to it.
  A step of one request touches no other (`OwnStep`, `UntouchedOK`), so each action is
  one case about one request.
* `AskTyped`, `RunsAreDisclosed` and `CapHolds`: `[]TypeOK`, `[]RunIsDisclosed` and
  `[]CapIsHonest`, from `AnswerInv`. It adds to `RunInv` what a concluded request's locals
  say of each other (`ServedOK`): the execution carries the safe SQL of the verdict, its rows
  were counted on a content that is in `seen` (the instance of a connection is, although it may
  be older than the request that joins it), and its stage is the one its verdict and its
  execution call for. `format_response` and `to_ask_response` are functions of these.
* `PipelineImplementsService`: `Spec => ImplementsService`. Every step of the pipeline is a
  step of `AskService` or a stutter: `Submit` is its `Submit` (`SubmitIsService`), a change of
  the file its `Change` (`ElsewhereIsService`), the first connection its `Open` and the last its
  `Close` (`OpensOrLetsGo`), the step that concludes a request its `Answer` (`AnswerIsService`)
  or, for an exception, its `Fail` (`FailIsService`), and all other steps are invisible
  (`QuietIsService`). `PromiseKept` derives from `AnswerInv` that the response is a refusal or a
  success on a content that the file had meanwhile or the process had open.

`Preflight_proofs` (for any environments, catalogs, files, changes, timeouts and retries):

* `DriftReportExact`: `IsShippable(ReportOf(catalog, schema)) <=> Aligned(catalog, schema)`. The
  report skips the columns of missing tables and the keys of missing joins, drift does not; the
  lemmas `FactOk` and `DimensionOk` show that what is skipped is then reported in another way.
  `ShippableGrounds`: under a shippable report the prompt names only what exists.
* `SpendIsGrounded`: `PreflightSpec => []GroundedSpend`, from `SpendInv`: what the smoke test
  established before it built its client stays true while it asks, whatever becomes of the file;
  `ShippableGrounds` then says what the prompt is worth.
* `ReadyIsEnough`: `PreflightSpec => []ReadyMeansStarts`, from `ReadyInv`: READY still implies
  all that the diagnostic checked of the process, and of the file as long as nobody replaced it;
  `ChecksSuffice` shows that this covers what the startup will ask with other tests.
* `CallTyped` and `CallIsBounded`: `PreflightSpec => []TypeOK` and `[]CallTimeBounded`, of
  `LLMClient`. `CallInv` says what each stage of a call has paid for: so many attempts of
  `MaxPieces + 1` waits, so many pauses, one less while an attempt is out, and of that one a wait
  for each sign of life (`WaitIsPaid`). The timeout is positive, or infinite where the variable says
  so (`PatienceIsPositive`); `CallIsBounded` leaves that one case out and no other. The programs around the call step it or leave it alone
  (`ProgramsKeepTheCall`).
* `LastWordDecides`: `PreflightSpec => []LastWordWins`, from `ProposalInv`: a call that proposed
  holds what `WalkedSql` computes of its output. By induction on the number of items, the fold
  holds the last item that tells of any SQL (`WalkedSqlHolds`); one item keeps or replaces it
  (`VisitHolds`).
* `PreflightTyped` and `ExitCodesAreHonest`: `[]PreflightTypeOK` and `[]ExitCodesTell`, from
  `PlaceInv` with `CallInv`: the client is built only while the smoke test is at its question,
  and a program that has exited stays so.

`Release_proofs` (for any history, names and number of runs):

* `ReleaseTypes` and `ImagesAreVerified`: `Spec => []ReleaseTypeOK` and `[]EveryImageVerified`,
  both from `IInv`. `PastVerify` is the strengthening: every run past its verification, failed
  or not, and wherever a repetition put it, carries a name and a commit that were verified.
* `ReleasesAreBacked` and `OnlyDispatchDeviates`: `Spec => []ReleaseIsBacked` and
  `[]OnlyRecoveryDeviates`, from `Ledger`: a run past a push left its image, a run that a tag
  started carries that tag's commit, a Release has its images and its tag, and behind every image
  is a run that publishes it. Tags, images and Releases are never lost (`NothingLost`), so a
  repetition that moves a run back disturbs none of this.

`Server_proofs` (for any number of requests, threads, signals, kills and changes):

* `ShutdownDrains`: `Spec => []DrainedBeforeTeardown`, through `DrainInv`: requests are in
  flight only while the process serves or drains, and `app.state` is set then. Every step of a
  request leaves the process alone (`RequestStep`); the steps of the process are one case each.
* `ServerTyped`: `Spec => []TypeOK`, through `PoolInv`: queue and threads are disjoint and
  together hold exactly the requests in flight, each once. `JoinsOnce` and `LeavesOnce` are its
  lemmas about the queue, `GivenBack` that about the threads.
* `ReadinessTells`: `Spec => []ReadyIsLive`, through `LiveInv`: the file as it is now has been
  seen by every request in flight, and so has an open connection.

`Frontend_proofs` (for any number of events):

* `SessionTypes`, `CallsAccounted`, `TranscriptIsHonest` and `SpendIsBounded`, all from
  `SessionInv`: type correctness, `Balanced` (at each point of the script, how many entries the
  transcript is behind the calls) and `Truthful` (an entry, and the outcome a run still holds,
  tells the state of its call in the backend). The backend may move on after the client gave
  up because a timeout tells nothing of that state.

### Assumptions

The named ASSUMEs say that the settings are integers, that the bounds of the model are
natural numbers, and three things more. `CandidateAssumption` and a conjunct of
`PipelineAssumption` give a candidate the shape that `parse_sql` can return (`IsCandidate`):
without it a statement might have no LIMIT field, or one that is neither a number nor a
marker, or a scope listed before the one around it. `SchemaAssumption` says that every table of
the warehouse has a name. `NullAssumption`, `NoneAssumption` and the like say that the value
written for Python's `None`, and the two LIMIT markers, are none of the values they stand
beside. TLC evaluates all of them in the runs.

### Only model-checked

* Liveness and fairness: `EveryQuestionAnswered`, `EveryRequestReplied`, `ShutdownCompletes`,
  `CallEnds` and `UndisturbedWaitEnds`. The prover has neither ENABLED nor fairness.
* The four violated properties, of which `QuotaPerWindow` is proved for one thread at a time.

## Not modelled

* Wording, headlines, severities and rendering; sqlglot's parsing and DuckDB's evaluation,
  taken as inputs; in the reference for the gate LATERAL, and columns reached through a
  schema, a database or a struct; a file overwritten in place rather than replaced by name, which
  an open DuckDB instance does not survive intact; negative MAX_ROWS in `Pipeline`, where the fetch is DuckDB's affair.
* `logging_config.py`: it formats lines, and keeps no state but one handler that it replaces
  by itself. `inspect_schema.py` prints. `ci.yml` is one job without state or order.
* A NaN window: every comparison with it is false, as with a window that never ends, which an
  integer `Window` above `MaxTime` already is.
* Eviction: the limiter's dictionary keeps one entry per key for ever. That is a matter of
  memory, and no decision depends on it.
* Frontend, guard and pipeline in one module: what crosses between them is in the modules
  that meet it (the label in `Pipeline`, duplicate spend in `Frontend`, the guard's order before
  body and route in `Server`), and their product adds states but no step that they lack.

## Plan

Done: every module, and a theorem for every safety property and every refinement that a run
checks. Next, variants of the proved invariants that a change of the code would ask for: the
limiter with a lock (any number of threads then implement `QuotaWindow`), a release with a
concurrency group.

Runs that answer one question are kept together, and instances stay under two minutes.
