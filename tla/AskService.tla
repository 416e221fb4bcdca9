------------------------------ MODULE AskService ------------------------------
(***************************************************************************)
(* What POST /v1/ask promises, without its pipeline: a question gets at    *)
(* most one answer, and a successful answer shows a bounded prefix of the  *)
(* rows of one approved read-only query, read from the warehouse as it was *)
(* at some moment while the question was being served, or as the process  *)
(* had it open already when the question came.                             *)
(***************************************************************************)
EXTENDS GateRules

CONSTANTS
    Requests,   \* questions being asked
    Contents,   \* contents the warehouse file may have
    NoFile,     \* the warehouse file is missing
    SchemaOf,   \* schema of each content
    RowsOf,     \* rows an unbounded query yields on each content
    Proposals,  \* SQL the model may propose
    None        \* null

VARIABLES
    warehouse,  \* what the file at WAREHOUSE_PATH holds now
    known,      \* the content that was introspected at startup
    open,       \* the content the process has open, or None
    phase,      \* [Requests -> {"idle", "pending", "answered", "raised"}]
    seen,       \* [Requests -> SUBSET]: contents a question may be answered from
    response    \* [Requests -> AskResponse or None]

svars == <<warehouse, known, open, phase, seen, response>>

RowsUpTo(content, bound) == Min({RowsOf[content], bound})

\* The outcomes that are answered with HTTP 200 and success = false.
Failures == {"no_query", "validation_rejected", "execution_failed", "api_error"}

\* A refusal carries no table, and never claims that SQL of the model ran
\* unless that very SQL was approved.
Refusal(resp) ==
    /\ resp.status \in Failures /\ ~resp.success /\ resp.answer = None
    /\ resp.executedSql # None => \E p \in Proposals :
          Validate(p, SchemaOf[known]).safeSql = <<resp.executedSql>>

Success(resp, contents) ==
    /\ resp.status = "success" /\ resp.success /\ resp.validationPassed = TRUE
    /\ \E p \in Proposals, c \in contents :
          LET v == Validate(p, SchemaOf[known]) IN
          /\ v.approved
          /\ <<resp.executedSql>> = v.safeSql
          /\ resp.answer = Min({RowsUpTo(c, resp.executedSql.limit), MaxRows})
          /\ resp.truncated <=> RowsUpTo(c, resp.executedSql.limit) > MaxRows

Init ==
    /\ known \in Contents
    /\ warehouse = known
    /\ open = None
    /\ phase = [r \in Requests |-> "idle"]
    /\ seen = [r \in Requests |-> {}]
    /\ response = [r \in Requests |-> None]

Submit(r) ==
    /\ phase[r] = "idle"
    /\ phase' = [phase EXCEPT ![r] = "pending"]
    /\ seen' = [seen EXCEPT ![r] = {warehouse} \cup ({open} \ {None})]
    /\ UNCHANGED <<warehouse, known, open, response>>

\* The file is opened as it is now; while it is open, everybody in the process
\* gets the content that is open.
Open ==
    /\ open = None /\ warehouse # NoFile
    /\ open' = warehouse
    /\ UNCHANGED <<warehouse, known, phase, seen, response>>

Close ==
    /\ open' = None
    /\ UNCHANGED <<warehouse, known, phase, seen, response>>

Answer(r) ==
    /\ phase[r] = "pending"
    /\ phase' = [phase EXCEPT ![r] = "answered"]
    /\ \A q \in Requests \ {r} : response'[q] = response[q]
    /\ Refusal(response'[r]) \/ Success(response'[r], seen[r] \ {NoFile})
    /\ open' \in {open, None}
    /\ UNCHANGED <<warehouse, known, seen>>

\* An exception nobody expected: a response of status 500, which tells nothing.
Fail(r) ==
    /\ phase[r] = "pending"
    /\ phase' = [phase EXCEPT ![r] = "raised"]
    /\ open' \in {open, None}
    /\ UNCHANGED <<warehouse, known, seen, response>>

\* The file is replaced or removed by someone else.
Change ==
    /\ warehouse' \in Contents \cup {NoFile}
    /\ seen' = [r \in Requests |->
                  IF phase[r] = "pending" THEN seen[r] \cup {warehouse'} ELSE seen[r]]
    /\ UNCHANGED <<known, open, phase, response>>

Next == Change \/ Open \/ Close \/ \E r \in Requests : Submit(r) \/ Answer(r) \/ Fail(r)

Spec == Init /\ [][Next]_svars
=============================================================================
