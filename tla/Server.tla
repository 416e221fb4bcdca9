------------------------------- MODULE Server -------------------------------
(***************************************************************************)
(* The API process around the pipeline: lifespan and create_app            *)
(* (app/api/main.py), the routes, the readiness probe, and the thread pool *)
(* their synchronous code runs in.                                         *)
(*                                                                         *)
(* FastAPI hands every synchronous dependency and every synchronous route  *)
(* to one pool of threads, in the order in which they ask.  A question     *)
(* therefore queues three times (guard, get_assistant, route), a probe     *)
(* once, and none holds a thread while it queues.  uvicorn accepts while   *)
(* the lifespan serves, stops at a signal, waits for the requests it has   *)
(* accepted and only then resumes the lifespan.  All of that is external.  *)
(* A question and a probe have a DuckDB connection open for a while, and   *)
(* connections of one process share what the first of them opened.         *)
(***************************************************************************)
EXTENDS Naturals, Sequences, FiniteSets, SequencesExt

CONSTANTS
    Requests,   \* HTTP requests
    Workloads,  \* what they may ask for: members of [Requests -> Kinds]
    PoolSize,   \* threads of the pool (anyio's default is 40)
    MaxChanges, \* bound of the model: the warehouse file appears or disappears
    MaxStops    \* bound of the model: signals and crashes of the process

\* An invalid question is JSON that AskRequest refuses: empty, or too long.  A
\* runaway is one whose SQL, if it gets to DuckDB, never ends.
Questions == {"ask", "runaway"}
Kinds == Questions \cup {"invalid", "ready", "health"}

ASSUME ServerAssumption ==
    /\ Workloads \subseteq [Requests -> Kinds]
    /\ PoolSize \in Nat \ {0}
    /\ MaxChanges \in Nat
    /\ MaxStops \in Nat

VARIABLES
    process,    \* "stopped", "introspecting", "serving", "draining"
    file,       \* does the file at WAREHOUSE_PATH exist
    assistant,  \* is app.state.assistant set
    probe,      \* is app.state.readiness_probe set
    kind,       \* what each request asks for
    at,         \* where each request is
    queue,      \* requests that wait for a thread
    threads,    \* requests that hold one
    reply,      \* HTTP status of each reply, 0 before
    changes, stops,  \* counters for the bounds
    sawFile     \* history: the states of `file` since a request was accepted,
                \* and TRUE if the process had the warehouse open at that moment

app == <<assistant, probe>>
pool == <<queue, threads>>
vars == <<process, file, app, kind, at, pool, reply, changes, stops, sawFile>>

InFlight(r) == at[r] \notin {"idle", "replied", "lost"}

\* Is a connection to the warehouse open.
Connected == \E r \in Requests : at[r] \in {"query", "probing"}

Init ==
    /\ process = "stopped" /\ file \in BOOLEAN
    /\ assistant = FALSE /\ probe = FALSE
    /\ kind \in Workloads
    /\ at = [r \in Requests |-> "idle"]
    /\ queue = <<>> /\ threads = {}
    /\ reply = [r \in Requests |-> 0]
    /\ changes = 0 /\ stops = 0
    /\ sawFile = [r \in Requests |-> {}]
-----------------------------------------------------------------------------
(***************************************************************************)
(* The lifespan.  A ConfigError or a WarehouseUnavailableError ends the    *)
(* process, and the platform may start it again.                           *)
(***************************************************************************)
ValidateConfig ==
    /\ process = "stopped"
    /\ file
    /\ process' = "introspecting"
    /\ UNCHANGED <<file, app, kind, at, pool, reply, changes, stops, sawFile>>

Introspect ==
    /\ process = "introspecting"
    /\ IF file THEN process' = "serving" /\ assistant' = TRUE /\ probe' = TRUE
               ELSE process' = "stopped" /\ UNCHANGED app
    /\ UNCHANGED <<file, kind, at, pool, reply, changes, stops, sawFile>>

Signal ==
    /\ process = "serving"
    /\ stops < MaxStops
    /\ stops' = stops + 1
    /\ process' = "draining"
    /\ UNCHANGED <<file, app, kind, at, pool, reply, changes, sawFile>>

\* Mutant: the drain waits for clients that never asked, too.
TeardownAwaitsAll ==
    /\ process = "draining"
    /\ \A r \in Requests : reply[r] # 0
    /\ process' = "stopped"
    /\ assistant' = FALSE /\ probe' = FALSE
    /\ UNCHANGED <<file, kind, at, pool, reply, changes, stops, sawFile>>

\* Mutant: the lifespan clears its state without waiting for requests.
TeardownAtOnce ==
    /\ process = "draining"
    /\ process' = IF \E r \in Requests : InFlight(r) THEN process ELSE "stopped"
    /\ assistant' = FALSE /\ probe' = FALSE
    /\ UNCHANGED <<file, kind, at, pool, reply, changes, stops, sawFile>>

Teardown ==
    /\ process = "draining"
    /\ \A r \in Requests : ~InFlight(r)
    /\ process' = "stopped"
    /\ assistant' = FALSE /\ probe' = FALSE
    /\ UNCHANGED <<file, kind, at, pool, reply, changes, stops, sawFile>>

\* The process is killed: requests are lost, and so is app.state.
Crash ==
    /\ process # "stopped"
    /\ stops < MaxStops
    /\ stops' = stops + 1
    /\ process' = "stopped"
    /\ assistant' = FALSE /\ probe' = FALSE
    /\ at' = [r \in Requests |-> IF InFlight(r) THEN "lost" ELSE at[r]]
    /\ queue' = <<>> /\ threads' = {}
    /\ UNCHANGED <<file, kind, reply, changes, sawFile>>
-----------------------------------------------------------------------------
(***************************************************************************)
(* Requests.                                                               *)
(***************************************************************************)
FirstStop(k) == IF k \in Questions \cup {"invalid"} THEN "guard" ELSE "route"

Arrive(r) ==
    /\ process = "serving"
    /\ at[r] = "idle"
    /\ at' = [at EXCEPT ![r] = FirstStop(kind[r])]
    /\ queue' = Append(queue, r)
    /\ sawFile' = [sawFile EXCEPT ![r] = {file, file \/ Connected}]
    /\ UNCHANGED <<process, file, app, kind, threads, reply, changes, stops>>

Dispatch ==
    /\ queue # <<>>
    /\ Cardinality(threads) < PoolSize
    /\ threads' = threads \cup {Head(queue)}
    /\ queue' = Tail(queue)
    /\ UNCHANGED <<process, file, app, kind, at, reply, changes, stops, sawFile>>

RunsIn(r, stop) == r \in threads /\ at[r] = stop

\* Mutant: the thread is kept while the next call queues for another.
MoveOnHolding(r, stop) ==
    /\ at' = [at EXCEPT ![r] = stop]
    /\ queue' = Append(queue, r)
    /\ UNCHANGED <<process, file, app, kind, threads, reply, changes, stops, sawFile>>

\* The call in a thread returns, and the next synchronous call queues.
MoveOn(r, stop) ==
    /\ at' = [at EXCEPT ![r] = stop]
    /\ threads' = threads \ {r}
    /\ queue' = Append(queue, r)
    /\ UNCHANGED <<process, file, app, kind, reply, changes, stops, sawFile>>

\* The call goes on to its next stop, and keeps its thread.
Proceed(r, stop) ==
    /\ at' = [at EXCEPT ![r] = stop]
    /\ UNCHANGED <<process, file, app, kind, pool, reply, changes, stops, sawFile>>

Reply(r, status) ==
    /\ at' = [at EXCEPT ![r] = "replied"]
    /\ reply' = [reply EXCEPT ![r] = status]
    /\ threads' = threads \ {r}
    /\ UNCHANGED <<process, file, app, kind, queue, changes, stops, sawFile>>

\* Without the token, over the quota, or with a token whose comparison raises.
GuardRefuses(r) == RunsIn(r, "guard") /\ \E status \in {401, 429, 500} : Reply(r, status)
GuardAdmits(r) == RunsIn(r, "guard") /\ MoveOn(r, "inject")

\* get_assistant raises a RuntimeError, which no handler turns into a 503.  The
\* body is validated only after both dependencies: a question that cannot be
\* asked has been charged by the limiter.
GetAssistant(r) ==
    /\ RunsIn(r, "inject")
    /\ IF ~assistant THEN Reply(r, 500)
       ELSE IF kind[r] = "invalid" THEN Reply(r, 422)
       ELSE MoveOn(r, "route")

\* The pipeline ends before DuckDB with an outcome, which is always a 200, or
\* with an exception nobody expected; or else it opens the warehouse.
Ask(r) ==
    /\ RunsIn(r, "route")
    /\ kind[r] \in Questions
    /\ \/ \E status \in {200, 500} : Reply(r, status)
       \/ file /\ Proceed(r, "query")

\* No timeout interrupts DuckDB: a runaway has no answer.
Answer(r) ==
    /\ RunsIn(r, "query")
    /\ kind[r] # "runaway"
    /\ \E status \in {200, 500} : Reply(r, status)

Health(r) == RunsIn(r, "route") /\ kind[r] = "health" /\ Reply(r, 200)

\* Mutant: readiness reports the flag of startup.
ReadyByFlag(r) == RunsIn(r, "route") /\ kind[r] = "ready" /\ Reply(r, 200)

\* In the application a probe is set whenever an assistant is, so that the
\* fallback on warehouse_ok is not taken.
Ready(r) ==
    /\ RunsIn(r, "route")
    /\ kind[r] = "ready"
    /\ IF assistant /\ probe THEN Proceed(r, "probe")
       ELSE Reply(r, IF assistant THEN 200 ELSE 503)

\* duckdb.connect opens the file, or joins the connections that are open.
CheckReachable(r) ==
    /\ RunsIn(r, "probe")
    /\ IF file \/ Connected THEN Proceed(r, "probing") ELSE Reply(r, 503)

ProbeReturns(r) == RunsIn(r, "probing") /\ Reply(r, 200)

Work(r) ==
    \/ GuardRefuses(r) \/ GuardAdmits(r) \/ GetAssistant(r) \/ Ask(r) \/ Answer(r)
    \/ Health(r) \/ Ready(r) \/ CheckReachable(r) \/ ProbeReturns(r)

FileChanges ==
    /\ changes < MaxChanges
    /\ changes' = changes + 1
    /\ file' = ~file
    /\ sawFile' = [r \in Requests |->
                     IF InFlight(r) THEN sawFile[r] \cup {file'} ELSE sawFile[r]]
    /\ UNCHANGED <<process, app, kind, at, pool, reply, stops>>

Next ==
    \/ ValidateConfig \/ Introspect \/ Signal \/ Teardown \/ Crash
    \/ FileChanges \/ Dispatch
    \/ \E r \in Requests : Arrive(r) \/ Work(r)

\* Threads run, the pool hands them out, and a drained lifespan resumes.  The
\* provider's call ends by its timeout; a statement ends unless it is a runaway's.
\* Nothing is assumed of clients, signals or the file.
Fairness ==
    /\ WF_vars(Dispatch) /\ WF_vars(Teardown)
    /\ \A r \in Requests : WF_vars(Work(r))

Spec == Init /\ [][Next]_vars /\ Fairness
-----------------------------------------------------------------------------
\* Every variable has its type; a request queues or runs, never both, and only
\* requests in flight do either.
TypeOK ==
    /\ process \in {"stopped", "introspecting", "serving", "draining"}
    /\ at \in [Requests -> {"idle", "guard", "inject", "route", "query", "probe", "probing",
                            "replied", "lost"}]
    /\ reply \in [Requests -> {0, 200, 401, 422, 429, 500, 503}]
    /\ IsInjective(queue) /\ Cardinality(threads) <= PoolSize
    /\ ToSet(queue) \cap threads = {}
    /\ ToSet(queue) \cup threads = {r \in Requests : InFlight(r)}

\* Shutdown never pulls the assistant or the probe from under a request that was
\* accepted: the lifespan clears app.state after the last of them.
DrainedBeforeTeardown ==
    \A r \in Requests : InFlight(r) => assistant /\ probe

\* Readiness is live: a 503 means that the file was missing at some moment while
\* the probe was being served, and a 200 that it was there at some such moment, or
\* that the process had it open already when the probe came.
ReadyIsLive ==
    \A r \in Requests : kind[r] = "ready" /\ at[r] = "replied" =>
        (reply[r] = 200) \in sawFile[r]

\* The threads that are lost to statements which never end.
RunsAway(r) == kind[r] = "runaway" /\ at[r] = "query"
Exhausted == Cardinality({r \in Requests : RunsAway(r)}) >= PoolSize

\* However many requests compete for the threads, each one that was accepted is
\* answered: unless the process is killed, its own statement never ends, or such
\* statements hold every thread.
EveryRequestReplied ==
    \A r \in Requests :
        InFlight(r) ~> at[r] \in {"replied", "lost"} \/ RunsAway(r) \/ Exhausted

\* A signal is followed by the end of the process, unless a statement never ends.
ShutdownCompletes ==
    process = "draining" ~> process = "stopped" \/ \E r \in Requests : RunsAway(r)
=============================================================================
