------------------------------- MODULE Pipeline -------------------------------
(***************************************************************************)
(* The governed pipeline behind POST /v1/ask: AnalyticsAssistant.ask       *)
(* (model -> gate -> executor), then the formatter and the API mapping.    *)
(*                                                                         *)
(* The route is synchronous, so every request runs in a thread of its own  *)
(* and the requests interleave.  They share the assistant, whose schema    *)
(* was introspected once at startup, and the warehouse file, which other   *)
(* processes may replace or remove while a request is being served.  They  *)
(* also share DuckDB's instance of that file: while any connection of the  *)
(* process has it open, a readiness probe's included, duckdb.connect of    *)
(* the same path returns one more connection to what is open already.      *)
(***************************************************************************)
EXTENDS GateRules

CONSTANTS
    Requests, Contents, NoFile, SchemaOf, RowsOf, Proposals, None,
                 \* as in AskService
    Endless,     \* the statements that DuckDB never finishes
    MaxChanges   \* bound of the model: changes made to the warehouse file

ASSUME PipelineAssumption ==
    /\ NoFile \notin Contents
    /\ RowsOf \in [Contents -> Nat]
    /\ MaxRows \in Nat
    /\ MaxChanges \in Nat
    /\ \A p \in Proposals : IsCandidate(p)

Steps == {"idle", "propose", "validate", "open", "query", "running", "close", "unwind",
          "answered", "raised"}
Stages == {"completed", "no_query_proposed", "validation_rejected",
           "execution_failed", "api_error"}

\* The ValidationResults and ExecutionResults there can be.
Verdicts == {Validate(p, SchemaOf[c]) : p \in Proposals, c \in Contents}
SafeStatements == {v.safeSql[1] : v \in {w \in Verdicts : w.approved}}
Executions == [status : {"success", "connection_error", "execution_error"},
               executedSql : SafeStatements, rows : Int, truncated : BOOLEAN]

\* Null is none of the values it stands in for.
ASSUME NullAssumption ==
    /\ None \notin Int \cup BOOLEAN \cup Stages \cup Contents
    /\ None \notin Verdicts \cup SafeStatements \cup Executions

VARIABLES
    warehouse,  \* what the file at WAREHOUSE_PATH holds, or NoFile
    known,      \* the content introspected by lifespan; the assistant's schema
    step,       \* where each request is in AnalyticsAssistant.ask
    proposal,   \* candidate_sql
    verdict,    \* vresult
    conn,       \* has a request a connection open
    instance,   \* the content DuckDB has open for the process, or None
    probing,    \* has a readiness probe a connection open
    execution,  \* eresult
    result,     \* the OrchestrationResult, as its stage, or None
    changes,    \* changes of the file so far, for the bound MaxChanges
    seen,       \* history: contents the file had while a request was served,
                \* and the one the process had open when it came
    ran         \* history: statements a request handed to DuckDB, in order

localVars == <<step, proposal, verdict, execution, result, ran>>
dbVars == <<conn, instance, probing>>
fileVars == <<warehouse, known, changes, seen>>
vars == <<localVars, dbVars, fileVars>>

Init ==
    /\ known \in Contents
    /\ warehouse = known
    /\ step = [r \in Requests |-> "idle"]
    /\ proposal = [r \in Requests |-> None]
    /\ verdict = [r \in Requests |-> None]
    /\ conn = [r \in Requests |-> FALSE]
    /\ instance = None
    /\ probing = FALSE
    /\ execution = [r \in Requests |-> None]
    /\ result = [r \in Requests |-> None]
    /\ changes = 0
    /\ seen = [r \in Requests |-> {}]
    /\ ran = [r \in Requests |-> <<>>]
-----------------------------------------------------------------------------
\* introspect: what the assistant and DuckDB take a content's schema to be.
Introspected(content) == SchemaOf[content]

At(r, s) == step[r] = s
Goto(r, s) == step' = [step EXCEPT ![r] = s]

\* Mutant: a stage is left out of the result.
ConcludeSilently(r, stage) == Goto(r, "answered") /\ UNCHANGED result

\* return OrchestrationResult(stage=..., ...)
Conclude(r, stage) ==
    /\ Goto(r, "answered")
    /\ result' = [result EXCEPT ![r] = stage]

Submit(r) ==
    /\ At(r, "idle")
    /\ Goto(r, "propose")
    /\ seen' = [seen EXCEPT ![r] = {warehouse} \cup ({instance} \ {None})]
    /\ UNCHANGED <<warehouse, known, proposal, verdict, execution, result, ran, changes, dbVars>>

\* propose_query raised an LLMError (a timeout included).
ProviderFails(r) ==
    /\ At(r, "propose")
    /\ Conclude(r, "api_error")
    /\ UNCHANGED <<proposal, verdict, execution, ran, dbVars, fileVars>>

HasQuery(p) == p # None /\ p.kind # "blank"

ModelDeclines(r) ==
    /\ At(r, "propose")
    /\ \E p \in Proposals \cup {None} : ~HasQuery(p)
    /\ Conclude(r, "no_query_proposed")
    /\ UNCHANGED <<proposal, verdict, execution, ran, dbVars, fileVars>>

ModelProposes(r) ==
    /\ At(r, "propose")
    /\ \E p \in Proposals :
         /\ HasQuery(p)
         /\ proposal' = [proposal EXCEPT ![r] = p]
    /\ Goto(r, "validate")
    /\ UNCHANGED <<verdict, execution, result, ran, dbVars, fileVars>>

\* The gate judges by the schema of startup, never by the file of now.
ValidateProposal(r) ==
    /\ At(r, "validate")
    /\ verdict' = [verdict EXCEPT ![r] = Validate(proposal[r], Introspected(known))]
    /\ IF verdict'[r].approved
         THEN Goto(r, "open") /\ UNCHANGED result
         ELSE Conclude(r, "validation_rejected")
    /\ UNCHANGED <<proposal, execution, ran, dbVars, fileVars>>

SafeSql(r) == verdict[r].safeSql[1]

\* Mutant: a failed statement is not disclosed.
ExecutedIfRan(status, sql, rows, truncated) ==
    [status |-> status, executedSql |-> IF status = "success" THEN sql ELSE None,
     rows |-> rows, truncated |-> truncated]

Executed(status, sql, rows, truncated) ==
    [status |-> status, executedSql |-> sql, rows |-> rows, truncated |-> truncated]

\* Mutant: the request waits for the file to come back.
OpenRetries(r) == At(r, "open") /\ warehouse = NoFile /\ UNCHANGED vars

\* open_readonly: the existence test, or else duckdb.connect, fails with
\* WarehouseUnavailableError when the file is gone.
OpenFails(r) ==
    /\ At(r, "open")
    /\ warehouse = NoFile
    /\ execution' = [execution EXCEPT ![r] =
                       Executed("connection_error", SafeSql(r), 0, FALSE)]
    /\ Conclude(r, "execution_failed")
    /\ UNCHANGED <<proposal, verdict, ran, dbVars, fileVars>>

\* duckdb.connect: the instance of the path that is open, else the file of now.
Connected == IF instance = None THEN warehouse ELSE instance

\* Mutant: a connection opened at startup is reused.
OpenPooled(r) ==
    /\ At(r, "open")
    /\ conn' = [conn EXCEPT ![r] = TRUE]
    /\ instance' = IF instance = None THEN known ELSE instance
    /\ Goto(r, "query")
    /\ UNCHANGED <<proposal, verdict, execution, result, ran, probing, fileVars>>

OpenReadonly(r) ==
    /\ At(r, "open")
    /\ warehouse # NoFile
    /\ conn' = [conn EXCEPT ![r] = TRUE]
    /\ instance' = Connected
    /\ Goto(r, "query")
    /\ UNCHANGED <<proposal, verdict, execution, result, ran, probing, fileVars>>

\* Mutant: fetchmany(max_rows).
FetchedExactly(r) == Min({RowsOf[instance], SafeSql(r).limit, MaxRows})

\* fetchmany(max_rows + 1).
Fetched(r) == Min({RowsOf[instance], SafeSql(r).limit, MaxRows + 1})

\* What DuckDB answers: it refuses a statement that does not resolve in the file
\* it has open, any statement may fail while it runs (a cast, an overflow), and
\* an endless one does not return.
Executes(r) == Resolves(SafeSql(r), Introspected(instance))
Returns(r) == Executes(r) => SafeSql(r) \notin Endless

Outcome(r) ==
    \/ /\ Returns(r) /\ Executes(r)
       /\ Goto(r, "close")
       /\ execution' = [execution EXCEPT ![r] =
            Executed("success", SafeSql(r), Min({Fetched(r), MaxRows}), Fetched(r) > MaxRows)]
    \/ /\ Returns(r)
       /\ Goto(r, "close")
       /\ execution' = [execution EXCEPT ![r] =
            Executed("execution_error", SafeSql(r), 0, FALSE)]
    \/ Returns(r) /\ Goto(r, "unwind") /\ UNCHANGED execution   \* no duckdb.Error
    \/ ~Returns(r) /\ Goto(r, "running") /\ UNCHANGED execution

\* Mutant: a statement that failed is handed to DuckDB once more.
RunQueryRetries(r) ==
    /\ At(r, "query")
    /\ ran' = [ran EXCEPT ![r] = Append(@, SafeSql(r))]
    /\ Outcome(r) \/ (Goto(r, "query") /\ UNCHANGED execution)
    /\ UNCHANGED <<proposal, verdict, result, dbVars, fileVars>>

\* conn.execute(sql), and the rows fetched from its cursor.
RunQuery(r) ==
    /\ At(r, "query")
    /\ ran' = [ran EXCEPT ![r] = Append(@, SafeSql(r))]
    /\ Outcome(r)
    /\ UNCHANGED <<proposal, verdict, result, dbVars, fileVars>>

\* Mutant: the connection is closed on success only.
CloseOnSuccess(r) ==
    /\ At(r, "close")
    /\ conn' = [conn EXCEPT ![r] = execution[r].status # "success"]
    /\ Conclude(r, IF execution[r].status = "success" THEN "completed" ELSE "execution_failed")
    /\ UNCHANGED <<proposal, verdict, execution, ran, instance, probing, fileVars>>

\* finally: conn.close(), with which DuckDB lets go of the file unless another
\* connection has it open; and back in ask the stage of the outcome, or out of
\* it the exception (a response of status 500).
CloseConnection(r) ==
    /\ conn' = [conn EXCEPT ![r] = FALSE]
    /\ instance' = IF probing \/ \E q \in Requests \ {r} : conn[q] THEN instance ELSE None
    /\ \/ /\ At(r, "close")
          /\ Conclude(r, IF execution[r].status = "success" THEN "completed"
                         ELSE "execution_failed")
       \/ At(r, "unwind") /\ Goto(r, "raised") /\ UNCHANGED result
    /\ UNCHANGED <<proposal, verdict, execution, ran, probing, fileVars>>

Serve(r) ==
    \/ ProviderFails(r) \/ ModelDeclines(r) \/ ModelProposes(r)
    \/ ValidateProposal(r)
    \/ OpenFails(r) \/ OpenReadonly(r) \/ RunQuery(r) \/ CloseConnection(r)

\* GET /ready: warehouse_reachable has a connection open for a moment, and
\* overlapping probes have one open for longer.
ProbeOpens ==
    /\ ~probing
    /\ probing' = TRUE
    /\ Connected # NoFile
    /\ instance' = Connected
    /\ UNCHANGED <<conn, localVars, fileVars>>

ProbeCloses ==
    /\ probing
    /\ probing' = FALSE
    /\ instance' = IF \E q \in Requests : conn[q] THEN instance ELSE None
    /\ UNCHANGED <<conn, localVars, fileVars>>

Serving(r) == step[r] \notin {"idle", "answered", "raised"}

\* The environment: the file is replaced (by another one of its name), restored
\* or removed.
WarehouseChanges ==
    /\ changes < MaxChanges
    /\ changes' = changes + 1
    /\ warehouse' \in (Contents \cup {NoFile}) \ {warehouse}
    /\ seen' = [r \in Requests |->
                  IF Serving(r) THEN seen[r] \cup {warehouse'} ELSE seen[r]]
    /\ UNCHANGED <<known, localVars, dbVars>>

Next ==
    \/ WarehouseChanges \/ ProbeOpens \/ ProbeCloses
    \/ \E r \in Requests : Submit(r) \/ Serve(r)

\* A thread that serves a request keeps running, and the provider call ends:
\* with an answer, or after the finite timeouts of its attempts.  Nothing bounds
\* a statement, so nothing is assumed of a "running" one.
Fairness == \A r \in Requests : WF_vars(Serve(r))

Spec == Init /\ [][Next]_vars
FairSpec == Spec /\ Fairness
-----------------------------------------------------------------------------
(***************************************************************************)
(* format_response and to_ask_response: the public AskResponse.            *)
(***************************************************************************)
StatusOf(stage) ==
    CASE stage = "completed"           -> "success"
      [] stage = "no_query_proposed"   -> "no_query"
      [] stage = "validation_rejected" -> "validation_rejected"
      [] stage = "execution_failed"    -> "execution_failed"
      [] OTHER                         -> "api_error"

ToAskResponse(r) ==
    LET stage == result[r]
        ex == execution[r]
        success == stage = "completed" /\ ex # None
    IN  [status           |-> StatusOf(stage),
         success          |-> success,
         answer           |-> IF success THEN ex.rows ELSE None,
         executedSql      |-> IF ex # None THEN ex.executedSql ELSE None,
         rowCount         |-> IF ex # None THEN ex.rows ELSE None,
         truncated        |-> IF ex # None THEN ex.truncated ELSE None,
         validationPassed |-> IF verdict[r] # None THEN verdict[r].approved ELSE None]

\* AskResponse and ResponseMetadata: success and only success has an answer, and
\* the fields of an execution are null together.
IsAskResponse(resp) ==
    /\ resp.status \in {"success", "no_query", "validation_rejected",
                       "execution_failed", "api_error"}
    /\ resp.success <=> resp.status = "success"
    /\ resp.success <=> resp.answer # None
    /\ resp.executedSql # None <=> resp.rowCount # None /\ resp.truncated \in BOOLEAN
    /\ resp.executedSql # None => resp.validationPassed = TRUE

\* render_result: the label over executed_sql, "Executed SQL" or "Proposed SQL
\* (not run)", is taken from the status.
LabelledExecuted(resp) == resp.status = "success"

Answered(r) == At(r, "answered")
Response(r) == ToAskResponse(r)
-----------------------------------------------------------------------------
\* Each local of ask has its type, and is set exactly when ask has got that far.
TypeOK ==
    /\ warehouse \in Contents \cup {NoFile} /\ known \in Contents
    /\ instance \in Contents \cup {None} /\ probing \in BOOLEAN
    /\ conn \in [Requests -> BOOLEAN]
    /\ changes \in 0 .. MaxChanges
    /\ \A r \in Requests :
         /\ step[r] \in Steps
         /\ proposal[r] \in Proposals \cup {None}
         /\ At(r, "validate") => proposal[r] # None
         /\ step[r] \in {"open", "query", "running", "close", "unwind"} => verdict[r].approved
         /\ result[r] \in Stages \cup {None}
         /\ Answered(r) <=> result[r] # None
         /\ ran[r] # <<>> => verdict[r] # None
         /\ Answered(r) => IsAskResponse(Response(r))

\* What a request hands to DuckDB is nothing, or once the safe statement that the
\* gate made of this very request's proposal under the schema of startup.
OnlyApprovedRuns ==
    \A r \in Requests : ran[r] # <<>> =>
        /\ ran[r] = Validate(proposal[r], Introspected(known)).safeSql
        /\ Len(ran[r]) = 1

\* Whatever ran is disclosed by the response, if there is one, and nothing else
\* is disclosed as the answer: the response shows the statement that reached
\* DuckDB whether it succeeded or not; one that never reached it is shown only
\* where the warehouse could not be opened, and the page never calls that one
\* executed; and a refused proposal is not shown at all.
RunIsDisclosed ==
    \A r \in Requests : Answered(r) =>
        LET resp == Response(r) IN
        /\ \A sql \in Range(ran[r]) : resp.executedSql = sql
        /\ LabelledExecuted(resp) => resp.executedSql \in Range(ran[r])
        /\ resp.executedSql \notin Range(ran[r]) \cup {None} =>
              execution[r].status = "connection_error"
        /\ resp.validationPassed # TRUE => resp.executedSql = None

\* The hard cap holds even where DEFAULT_LIMIT exceeds MAX_ROWS, and an answer
\* that is not flagged as truncated holds every row its statement yields on one
\* content: one the file had while the question was served, or the one that the
\* process had open already when the question came.
CapIsHonest ==
    \A r \in Requests : Answered(r) /\ Response(r).success =>
        LET resp == Response(r) IN
        /\ resp.answer <= MaxRows
        /\ resp.truncated => resp.answer = MaxRows
        /\ ~resp.truncated => \E c \in seen[r] \ {NoFile} :
              resp.answer = Min({RowsOf[c], resp.executedSql.limit})

\* No connection outlives its request, on any path, and DuckDB has the file open
\* exactly as long as a connection does.
ConnectionsReleased ==
    /\ \A r \in Requests : conn[r] => step[r] \in {"query", "running", "close", "unwind"}
    /\ instance # None <=> probing \/ \E r \in Requests : conn[r]

\* Refinement: the pipeline implements the service it promises.
Phase(r) == IF Serving(r) THEN "pending" ELSE step[r]

Service == INSTANCE AskService WITH
    phase <- [r \in Requests |-> Phase(r)],
    open <- instance,
    response <- [r \in Requests |-> IF Answered(r) THEN Response(r) ELSE None]

\* A request is answered at most once, with a refusal or with a bounded answer of
\* an approved statement, as fresh as DuckDB's shared instance allows, however
\* the requests, the probes and the file's changes interleave.
ImplementsService == Service!Spec

\* Under every change of the warehouse and failure of the provider, a question
\* that reached the pipeline comes to an end, unless what it handed to DuckDB is
\* a statement that never does.
EveryQuestionAnswered ==
    \A r \in Requests :
        Serving(r) ~> ~Serving(r) \/ Range(ran[r]) \cap Endless # {}

(***************************************************************************)
(* A statement of the documentation that the code does not meet.           *)
(***************************************************************************)
\* ResponseMetadata.truncated: true if the row cap limited the result.  Here:
\* the candidate, as proposed, would have returned more rows than MAX_ROWS.
Asked(r, content) ==
    LET limit == proposal[r].stmts[1].limit
    IN IF limit \in {NoLimit, OddLimit} THEN RowsOf[content] ELSE Min({RowsOf[content], limit})

TruncationTold ==
    \A r \in Requests : Answered(r) /\ Response(r).success =>
        \/ Response(r).truncated
        \/ \E c \in seen[r] \ {NoFile} : Asked(r, c) <= MaxRows
=============================================================================
