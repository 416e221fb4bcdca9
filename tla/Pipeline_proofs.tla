--------------------------- MODULE Pipeline_proofs ---------------------------
(***************************************************************************)
(* Proofs for any number of requests, any proposals, contents and schemas, *)
(* and any changes of the warehouse: only approved SQL runs, connections   *)
(* are released, an answer tells what ran and how far it was cut, and the  *)
(* whole implements the service of AskService.                             *)
(***************************************************************************)
EXTENDS Pipeline, GateRules_proofs

(***************************************************************************)
(* The inductive strengthening, request by request: nothing runs before    *)
(* the query, what a request carries from the gate to DuckDB is the gate's *)
(* verdict on its own proposal, and a connection is open only while it is  *)
(* used.                                                                   *)
(***************************************************************************)
Vetted(r) ==
    /\ verdict[r] = Validate(proposal[r], Introspected(known))
    /\ verdict[r].approved

RequestOK(r) ==
    /\ step[r] \in {"idle", "propose", "validate", "open", "query"} => ran[r] = <<>>
    /\ step[r] \in {"open", "query", "running", "close", "unwind"} => Vetted(r)
    /\ ran[r] # <<>> =>
          /\ ran[r] = Validate(proposal[r], Introspected(known)).safeSql
          /\ Len(ran[r]) = 1
    /\ conn[r] <=> step[r] \in {"query", "running", "close", "unwind"}

Domains ==
    /\ DOMAIN step = Requests /\ DOMAIN proposal = Requests
    /\ DOMAIN verdict = Requests /\ conn \in [Requests -> BOOLEAN] /\ DOMAIN ran = Requests

RunInv == Domains /\ \A r \in Requests : RequestOK(r)

\* A step that leaves a request's own variables alone.
Untouched(r) ==
    /\ step'[r] = step[r] /\ proposal'[r] = proposal[r] /\ verdict'[r] = verdict[r]
    /\ conn'[r] = conn[r] /\ ran'[r] = ran[r]

LEMMA UntouchedOK ==
    ASSUME NEW r \in Requests, RequestOK(r), Untouched(r), UNCHANGED known
    PROVE  RequestOK(r)'
  BY DEF RequestOK, Untouched, Vetted

\* A step of one request is a matter of that request.
LEMMA OwnStep ==
    ASSUME RunInv, NEW r \in Requests, Domains', UNCHANGED known, RequestOK(r)',
           \A s \in Requests \ {r} : Untouched(s)
    PROVE  RunInv'
<1>1. ASSUME NEW s \in Requests PROVE RequestOK(s)'
  <2>1. CASE s = r
    BY <2>1
  <2>2. CASE s # r
    BY <2>2, UntouchedOK DEF RunInv
  <2>3. QED
    BY <2>1, <2>2
<1>2. QED
  BY <1>1 DEF RunInv

LEMMA StepKeepsRunInv ==
    ASSUME RunInv, NEW r \in Requests, Submit(r) \/ Serve(r)
    PROVE  RunInv'
<1> USE DEF RunInv, dbVars, fileVars
<1>1. Domains /\ RequestOK(r)
  OBVIOUS
<1>2. CASE Submit(r)
  <2>1. Domains' /\ UNCHANGED known /\ (\A s \in Requests \ {r} : Untouched(s))
    BY <1>1, <1>2 DEF Submit, Goto, Domains, Untouched
  <2>2. RequestOK(r)'
    BY <1>1, <1>2 DEF Submit, Goto, At, Domains, RequestOK
  <2>3. QED
    BY <2>1, <2>2, OwnStep
<1>3. CASE ProviderFails(r)
  <2>1. Domains' /\ UNCHANGED known /\ (\A s \in Requests \ {r} : Untouched(s))
    BY <1>1, <1>3 DEF ProviderFails, Conclude, Goto, Domains, Untouched
  <2>2. RequestOK(r)'
    BY <1>1, <1>3 DEF ProviderFails, Conclude, Goto, At, Domains, RequestOK
  <2>3. QED
    BY <2>1, <2>2, OwnStep
<1>4. CASE ModelDeclines(r)
  <2>1. Domains' /\ UNCHANGED known /\ (\A s \in Requests \ {r} : Untouched(s))
    BY <1>1, <1>4 DEF ModelDeclines, Conclude, Goto, Domains, Untouched
  <2>2. RequestOK(r)'
    BY <1>1, <1>4 DEF ModelDeclines, Conclude, Goto, At, Domains, RequestOK
  <2>3. QED
    BY <2>1, <2>2, OwnStep
<1>5. CASE ModelProposes(r)
  <2>1. Domains' /\ UNCHANGED known /\ (\A s \in Requests \ {r} : Untouched(s))
    BY <1>1, <1>5 DEF ModelProposes, Goto, Domains, Untouched
  <2>2. RequestOK(r)'
    BY <1>1, <1>5 DEF ModelProposes, Goto, At, Domains, RequestOK
  <2>3. QED
    BY <2>1, <2>2, OwnStep
<1>6. CASE ValidateProposal(r)
  <2>1. Domains' /\ UNCHANGED known /\ (\A s \in Requests \ {r} : Untouched(s))
    BY <1>1, <1>6 DEF ValidateProposal, Conclude, Goto, Domains, Untouched
  <2>2. /\ ran[r] = <<>> /\ ran' = ran /\ ~conn[r] /\ conn' = conn
        /\ proposal' = proposal
        /\ verdict'[r] = Validate(proposal[r], Introspected(known))
        /\ step'[r] = IF verdict'[r].approved THEN "open" ELSE "answered"
    BY <1>1, <1>6 DEF ValidateProposal, Conclude, Goto, At, Domains, RequestOK
  <2>3. RequestOK(r)'
    BY <2>1, <2>2 DEF RequestOK, Vetted
  <2>4. QED
    BY <2>1, <2>3, OwnStep
<1>7. CASE OpenFails(r)
  <2>1. Domains' /\ UNCHANGED known /\ (\A s \in Requests \ {r} : Untouched(s))
    BY <1>1, <1>7 DEF OpenFails, Conclude, Goto, Domains, Untouched
  <2>2. RequestOK(r)'
    BY <1>1, <1>7 DEF OpenFails, Conclude, Goto, At, Domains, RequestOK
  <2>3. QED
    BY <2>1, <2>2, OwnStep
<1>8. CASE OpenReadonly(r)
  <2>1. Domains' /\ UNCHANGED known /\ (\A s \in Requests \ {r} : Untouched(s))
    BY <1>1, <1>8 DEF OpenReadonly, Goto, Domains, Untouched
  <2>2. RequestOK(r)'
    BY <1>1, <1>8 DEF OpenReadonly, Goto, At, Domains, RequestOK, Vetted
  <2>3. QED
    BY <2>1, <2>2, OwnStep
<1>9. CASE RunQuery(r)
  <2>1. Domains' /\ UNCHANGED known /\ (\A s \in Requests \ {r} : Untouched(s))
    BY <1>1, <1>9 DEF RunQuery, Outcome, Goto, Domains, Untouched
  <2>2. /\ step[r] = "query" /\ step'[r] \in {"close", "unwind", "running"}
        /\ UNCHANGED <<proposal, verdict, conn>>
        /\ ran'[r] = Append(ran[r], SafeSql(r))
    BY <1>1, <1>9 DEF RunQuery, Outcome, Goto, At, Domains
  <2>3. ran[r] = <<>> /\ Vetted(r) /\ conn[r]
    BY <1>1, <2>2 DEF RequestOK
  <2>4. Validate(proposal[r], Introspected(known)).safeSql = <<SafeSql(r)>>
    BY <2>3, ApprovedIsOne DEF Vetted, SafeSql
  <2>5. ran'[r] = <<SafeSql(r)>> /\ Len(ran'[r]) = 1
    BY <2>2, <2>3
  <2>6. Vetted(r)'
    BY <2>1, <2>2, <2>3 DEF Vetted
  <2>7. ran'[r] = Validate(proposal[r], Introspected(known)).safeSql'
    BY <2>1, <2>2, <2>4, <2>5
  <2>8. RequestOK(r)'
    BY <1>1, <2>2, <2>5, <2>6, <2>7 DEF RequestOK
  <2>9. QED
    BY <2>1, <2>8, OwnStep
<1>10. CASE CloseConnection(r)
  <2>1. Domains' /\ UNCHANGED known /\ (\A s \in Requests \ {r} : Untouched(s))
    BY <1>1, <1>10 DEF CloseConnection, Conclude, Goto, Domains, Untouched
  <2>2. RequestOK(r)'
    BY <1>1, <1>10 DEF CloseConnection, Conclude, Goto, At, Domains, RequestOK
  <2>3. QED
    BY <2>1, <2>2, OwnStep
<1>11. QED
  BY <1>2, <1>3, <1>4, <1>5, <1>6, <1>7, <1>8, <1>9, <1>10 DEF Serve

LEMMA RunInvInit ==
    ASSUME Init
    PROVE  RunInv
  BY DEF Init, RunInv, Domains, RequestOK, Vetted

\* A change of the file and a readiness probe touch no request.
Elsewhere == WarehouseChanges \/ ProbeOpens \/ ProbeCloses

LEMMA StutterKeepsRunInv ==
    ASSUME RunInv, Elsewhere \/ UNCHANGED vars
    PROVE  RunInv'
<1>1. UNCHANGED <<known, step, proposal, verdict, conn, ran>>
  BY DEF Elsewhere, WarehouseChanges, ProbeOpens, ProbeCloses, vars, localVars, dbVars, fileVars
<1>2. ASSUME NEW r \in Requests PROVE RequestOK(r)'
  BY <1>1, <1>2, UntouchedOK DEF RunInv, Untouched
<1>3. QED
  BY <1>1, <1>2 DEF RunInv, Domains

LEMMA RunInvInductive == Spec => []RunInv
<1>1. ASSUME RunInv, [Next]_vars PROVE RunInv'
  BY <1>1, StepKeepsRunInv, StutterKeepsRunInv DEF Next, Elsewhere
<1>2. QED
  BY <1>1, RunInvInit, PTL DEF Spec

\* Whatever reaches DuckDB (executor.py, execute) is, once, the safe statement
\* that the gate made of this request's own proposal, under the schema of startup:
\* for any number of requests and any interleaving with changes of the file.
THEOREM OnlyApprovedReaches == Spec => []OnlyApprovedRuns
<1>1. RunInv => OnlyApprovedRuns
  BY DEF RunInv, RequestOK, OnlyApprovedRuns
<1>2. QED
  BY <1>1, RunInvInductive, PTL

(***************************************************************************)
(* DuckDB's shared instance: it is open exactly while a connection is, and *)
(* what it reads is a content that every request being served has seen.    *)
(***************************************************************************)
FileInv ==
    /\ warehouse \in Contents \cup {NoFile} /\ instance \in Contents \cup {None}
    /\ probing \in BOOLEAN /\ DOMAIN seen = Requests
    /\ instance # None <=> probing \/ \E r \in Requests : conn[r]
    /\ \A r \in Requests : Serving(r) =>
          warehouse \in seen[r] /\ (instance # None => instance \in seen[r])

\* A step of Serve moves a request on that is being served, and looks at the
\* warehouse without a mark.
LEMMA ServeMoves ==
    ASSUME RunInv, NEW r \in Requests, Serve(r)
    PROVE  /\ Serving(r) /\ step'[r] # "idle" /\ UNCHANGED <<seen, warehouse, known, changes>>
           /\ \A q \in Requests \ {r} : step'[q] = step[q]
<1>1. Domains
  BY DEF RunInv
<1> USE DEF fileVars
<1>2. CASE ProviderFails(r) \/ ModelDeclines(r)
  BY <1>1, <1>2 DEF ProviderFails, ModelDeclines, Conclude, Goto, At, Serving, Domains
<1>3. CASE ModelProposes(r) \/ ValidateProposal(r)
  BY <1>1, <1>3 DEF ModelProposes, ValidateProposal, Conclude, Goto, At, Serving, Domains
<1>4. CASE OpenFails(r) \/ OpenReadonly(r)
  BY <1>1, <1>4 DEF OpenFails, OpenReadonly, Conclude, Goto, At, Serving, Domains
<1>5. CASE RunQuery(r) \/ CloseConnection(r)
  BY <1>1, <1>5 DEF RunQuery, Outcome, CloseConnection, Conclude, Goto, At, Serving, Domains
<1>6. QED
  BY <1>2, <1>3, <1>4, <1>5 DEF Serve

LEMMA QuietKeepsFileInv ==
    ASSUME FileInv, UNCHANGED <<warehouse, seen, conn, instance, probing>>,
           \A q \in Requests : Serving(q)' => Serving(q)
    PROVE  FileInv'
  BY DEF FileInv

\* Only the open and the close touch what DuckDB has open.
LEMMA OtherStepsAreQuiet ==
    ASSUME NEW r \in Requests, Serve(r), ~OpenReadonly(r), ~CloseConnection(r)
    PROVE  UNCHANGED <<conn, instance, probing>>
  BY DEF Serve, ProviderFails, ModelDeclines, ModelProposes, ValidateProposal, OpenFails,
         RunQuery, dbVars

LEMMA StepKeepsFileInv ==
    ASSUME RunInv, FileInv, NEW r \in Requests, Submit(r) \/ Serve(r)
    PROVE  FileInv'
<1>1. Domains /\ \A q \in Requests : RequestOK(q)
  BY DEF RunInv
<1>2. CASE Submit(r)
  <2>1. /\ UNCHANGED <<warehouse, conn, instance, probing>>
        /\ seen'[r] = {warehouse} \cup ({instance} \ {None}) /\ DOMAIN seen' = Requests
        /\ \A q \in Requests \ {r} : seen'[q] = seen[q] /\ step'[q] = step[q]
    BY <1>1, <1>2 DEF Submit, Goto, Domains, dbVars, FileInv
  <2>2. \A q \in Requests \ {r} : Serving(q)' => Serving(q)
    BY <2>1 DEF Serving
  <2>3. QED
    BY <2>1, <2>2 DEF FileInv
<1>3. CASE OpenReadonly(r)
  <2>1. Serving(r) /\ UNCHANGED <<seen, warehouse>>
        /\ \A q \in Requests \ {r} : step'[q] = step[q]
    BY <1>3, ServeMoves DEF Serve
  <2>2. /\ warehouse # NoFile /\ instance' = Connected /\ probing' = probing
        /\ conn' = [conn EXCEPT ![r] = TRUE]
    BY <1>3 DEF OpenReadonly
  <2>3. instance' \in Contents /\ instance' # None
    BY <2>2, NullAssumption DEF FileInv, Connected
  <2>4. \E q \in Requests : conn'[q]
    BY <1>1, <2>2 DEF Domains
  <2>5. ASSUME NEW q \in Requests, Serving(q)' PROVE Serving(q)
    BY <2>1, <2>5 DEF Serving
  <2>6. \A q \in Requests : Serving(q)' => warehouse' \in seen'[q] /\ instance' \in seen'[q]
    BY <2>1, <2>2, <2>5 DEF FileInv, Connected
  <2>7. QED
    BY <2>1, <2>2, <2>3, <2>4, <2>6 DEF FileInv
<1>4. CASE CloseConnection(r)
  <2>1. Serving(r) /\ UNCHANGED <<seen, warehouse>>
        /\ \A q \in Requests \ {r} : step'[q] = step[q]
    BY <1>4, ServeMoves DEF Serve
  <2>2. /\ instance' = IF probing \/ \E q \in Requests \ {r} : conn[q] THEN instance ELSE None
        /\ probing' = probing /\ conn' = [conn EXCEPT ![r] = FALSE]
    BY <1>4 DEF CloseConnection
  <2>3. \A q \in Requests : conn'[q] <=> q # r /\ conn[q]
    BY <1>1, <2>2 DEF Domains
  <2>4. instance' # None <=> probing' \/ \E q \in Requests : conn'[q]
    BY <2>2, <2>3 DEF FileInv
  <2>5. ASSUME NEW q \in Requests, Serving(q)' PROVE Serving(q)
    BY <2>1, <2>5 DEF Serving
  <2>6. instance' \in {instance, None}
    BY <2>2
  <2>7. QED
    BY <2>1, <2>2, <2>4, <2>5, <2>6 DEF FileInv
<1>5. CASE Serve(r) /\ ~OpenReadonly(r) /\ ~CloseConnection(r)
  <2>1. /\ Serving(r) /\ UNCHANGED <<seen, warehouse, conn, instance, probing>>
        /\ \A q \in Requests \ {r} : step'[q] = step[q]
    BY <1>5, ServeMoves, OtherStepsAreQuiet
  <2>2. \A q \in Requests : Serving(q)' => Serving(q)
    BY <2>1 DEF Serving
  <2>3. QED
    BY <2>1, <2>2, QuietKeepsFileInv
<1>6. QED
  BY <1>2, <1>3, <1>4, <1>5

LEMMA ElsewhereKeepsFileInv ==
    ASSUME RunInv, FileInv, Elsewhere \/ UNCHANGED vars
    PROVE  FileInv'
<1>1. UNCHANGED <<step, conn>>
  BY DEF Elsewhere, WarehouseChanges, ProbeOpens, ProbeCloses, vars, localVars, dbVars, fileVars
<1>2. \A q \in Requests : Serving(q)' <=> Serving(q)
  BY <1>1 DEF Serving
<1>3. CASE WarehouseChanges
  <2>1. /\ UNCHANGED <<instance, probing>> /\ warehouse' \in Contents \cup {NoFile}
        /\ seen' = [q \in Requests |->
                      IF Serving(q) THEN seen[q] \cup {warehouse'} ELSE seen[q]]
    BY <1>3 DEF WarehouseChanges, dbVars
  <2>2. QED
    BY <1>1, <1>2, <2>1 DEF FileInv
<1>4. CASE ProbeOpens
  <2>1. /\ probing' = TRUE /\ instance' = Connected /\ Connected # NoFile
        /\ UNCHANGED <<warehouse, seen>>
    BY <1>4 DEF ProbeOpens, fileVars
  <2>2. instance' \in Contents /\ instance' # None
    BY <2>1, NullAssumption DEF FileInv, Connected
  <2>3. \A q \in Requests : Serving(q) => instance' \in seen[q]
    BY <2>1 DEF FileInv, Connected
  <2>4. QED
    BY <1>1, <1>2, <2>1, <2>2, <2>3 DEF FileInv
<1>5. CASE ProbeCloses
  <2>1. /\ probing' = FALSE /\ UNCHANGED <<warehouse, seen>>
        /\ instance' = IF \E q \in Requests : conn[q] THEN instance ELSE None
    BY <1>5 DEF ProbeCloses, fileVars
  <2>2. QED
    BY <1>1, <1>2, <2>1 DEF FileInv
<1>6. CASE UNCHANGED vars
  BY <1>2, <1>6, QuietKeepsFileInv DEF vars, dbVars, fileVars
<1>7. QED
  BY <1>3, <1>4, <1>5, <1>6 DEF Elsewhere

LEMMA FileInvInit ==
    ASSUME Init
    PROVE  FileInv
  BY DEF Init, FileInv, Serving

LEMMA FileInvInductive == Spec => [](RunInv /\ FileInv)
<1>1. ASSUME RunInv, FileInv, [Next]_vars PROVE FileInv'
  BY <1>1, StepKeepsFileInv, ElsewhereKeepsFileInv DEF Next, Elsewhere
<1>2. QED
  BY <1>1, FileInvInit, RunInvInductive, PTL DEF Spec

\* The finally clause of execute: a request holds a connection only between the
\* open and the close, so none outlives its request, on any path; and the file is
\* open exactly while a request or a probe holds one.
THEOREM ConnectionsAreReleased == Spec => []ConnectionsReleased
<1>1. RunInv /\ FileInv => ConnectionsReleased
  BY DEF RunInv, RequestOK, FileInv, ConnectionsReleased
<1>2. QED
  BY <1>1, FileInvInductive, PTL

(***************************************************************************)
(* What a request holds at each step, on to its answer: the strengthening  *)
(* behind TypeOK, the disclosure, the cap and the refinement.              *)
(***************************************************************************)
FailedWith(r, status) == execution[r] = Executed(status, SafeSql(r), 0, FALSE)

\* The rows of content c, as RunQuery fetches them.
FetchedFrom(r, c) == Min({RowsOf[c], SafeSql(r).limit, MaxRows + 1})

ReadFrom(r, c) ==
    execution[r] = Executed("success", SafeSql(r), Min({FetchedFrom(r, c), MaxRows}),
                            FetchedFrom(r, c) > MaxRows)

Queried(r) == proposal[r] \in Proposals /\ Vetted(r) /\ ran[r] = <<SafeSql(r)>>

\* The ways to be answered.
Declined(r) ==
    /\ result[r] \in {"api_error", "no_query_proposed"}
    /\ verdict[r] = None /\ execution[r] = None /\ ran[r] = <<>>

Refused(r) ==
    /\ result[r] = "validation_rejected"
    /\ proposal[r] \in Proposals
    /\ verdict[r] = Validate(proposal[r], Introspected(known)) /\ ~verdict[r].approved
    /\ execution[r] = None /\ ran[r] = <<>>

Unavailable(r) ==
    /\ result[r] = "execution_failed"
    /\ proposal[r] \in Proposals /\ Vetted(r)
    /\ FailedWith(r, "connection_error") /\ ran[r] = <<>>

Failed(r) ==
    /\ result[r] = "execution_failed"
    /\ Queried(r) /\ FailedWith(r, "execution_error")

Completed(r) ==
    /\ result[r] = "completed"
    /\ Queried(r) /\ \E c \in seen[r] \cap Contents : ReadFrom(r, c)

Concluded(r) == Declined(r) \/ Refused(r) \/ Unavailable(r) \/ Failed(r) \/ Completed(r)

ServedOK(r) ==
    /\ step[r] \in Steps
    /\ proposal[r] \in Proposals \cup {None}
    /\ step[r] \in {"validate", "open", "query", "running", "close", "unwind"} =>
          proposal[r] \in Proposals /\ proposal[r] # None
    /\ step[r] \in {"idle", "propose", "validate"} => verdict[r] = None
    /\ step[r] \notin {"close", "answered"} => execution[r] = None
    /\ step[r] \in {"running", "close", "unwind", "raised"} => Queried(r)
    /\ step[r] = "close" =>
          (\E c \in seen[r] \cap Contents : ReadFrom(r, c)) \/ FailedWith(r, "execution_error")
    /\ step[r] # "answered" => result[r] = None
    /\ step[r] = "answered" => Concluded(r)

Shared ==
    /\ known \in Contents /\ changes \in 0 .. MaxChanges
    /\ DOMAIN execution = Requests /\ DOMAIN result = Requests

AnswerInv == RunInv /\ FileInv /\ Shared /\ \A r \in Requests : ServedOK(r)

\* A step that leaves everything a request holds alone.
Unserved(r) ==
    /\ Untouched(r)
    /\ execution'[r] = execution[r] /\ result'[r] = result[r] /\ seen[r] \subseteq seen'[r]

LEMMA ConcludedStays ==
    ASSUME NEW r \in Requests, Concluded(r), Unserved(r), UNCHANGED known
    PROVE  Concluded(r)'
<1>1. Vetted(r)' <=> Vetted(r)
  BY DEF Unserved, Untouched, Vetted
<1>2. SafeSql(r)' = SafeSql(r) /\ (Queried(r)' <=> Queried(r))
  BY <1>1 DEF Unserved, Untouched, SafeSql, Queried
<1>3. \A c : ReadFrom(r, c)' <=> ReadFrom(r, c)
  BY <1>2 DEF Unserved, Untouched, ReadFrom, FetchedFrom, Executed
<1>4. \A status : FailedWith(r, status)' <=> FailedWith(r, status)
  BY <1>2 DEF Unserved, Untouched, FailedWith, Executed
<1>5. Completed(r) => Completed(r)'
  BY <1>2, <1>3 DEF Unserved, Untouched, Completed
<1>6. (Failed(r)' <=> Failed(r)) /\ (Unavailable(r)' <=> Unavailable(r))
  BY <1>1, <1>2, <1>4 DEF Unserved, Untouched, Failed, Unavailable
<1>7. (Refused(r)' <=> Refused(r)) /\ (Declined(r)' <=> Declined(r))
  BY DEF Unserved, Untouched, Refused, Declined
<1>8. QED
  BY <1>5, <1>6, <1>7 DEF Concluded

LEMMA UnservedOK ==
    ASSUME NEW r \in Requests, ServedOK(r), Unserved(r), UNCHANGED known
    PROVE  ServedOK(r)'
<1>1. Vetted(r)' <=> Vetted(r)
  BY DEF Unserved, Untouched, Vetted
<1>2. SafeSql(r)' = SafeSql(r) /\ (Queried(r)' <=> Queried(r))
  BY <1>1 DEF Unserved, Untouched, SafeSql, Queried
<1>3. \A c : ReadFrom(r, c)' <=> ReadFrom(r, c)
  BY <1>2 DEF Unserved, Untouched, ReadFrom, FetchedFrom, Executed
<1>4. FailedWith(r, "execution_error")' <=> FailedWith(r, "execution_error")
  BY <1>2 DEF Unserved, Untouched, FailedWith, Executed
<1>5. step[r] = "answered" => Concluded(r)'
  BY ConcludedStays DEF ServedOK
<1>6. step[r] = "close" =>
         \/ \E c \in seen'[r] \cap Contents : ReadFrom(r, c)'
         \/ FailedWith(r, "execution_error")'
  BY <1>3, <1>4 DEF ServedOK, Unserved
<1>7. QED
  BY <1>2, <1>5, <1>6 DEF ServedOK, Unserved, Untouched

\* A step of one request, again, is a matter of that request.
Own(r) ==
    /\ Shared' /\ UNCHANGED <<known, warehouse>> /\ DOMAIN step' = Requests
    /\ \A s \in Requests \ {r} : Unserved(s)

LEMMA StepIsOwn ==
    ASSUME AnswerInv, NEW r \in Requests, Submit(r) \/ Serve(r)
    PROVE  Own(r)
<1>1. Domains /\ Shared /\ DOMAIN seen = Requests
  BY DEF AnswerInv, RunInv, FileInv
<1> USE <1>1 DEF Own, Goto, Domains, Shared, Unserved, Untouched, dbVars, fileVars
<1>2. CASE Submit(r)
  BY <1>2 DEF Submit
<1>3. CASE ProviderFails(r)
  BY <1>3 DEF ProviderFails, Conclude
<1>4. CASE ModelDeclines(r)
  BY <1>4 DEF ModelDeclines, Conclude
<1>5. CASE ModelProposes(r)
  BY <1>5 DEF ModelProposes
<1>6. CASE ValidateProposal(r)
  BY <1>6 DEF ValidateProposal, Conclude
<1>7. CASE OpenFails(r)
  BY <1>7 DEF OpenFails, Conclude
<1>8. CASE OpenReadonly(r)
  BY <1>8 DEF OpenReadonly
<1>9. CASE RunQuery(r)
  BY <1>9 DEF RunQuery, Outcome
<1>10. CASE CloseConnection(r)
  BY <1>10 DEF CloseConnection, Conclude
<1>11. QED
  BY <1>2, <1>3, <1>4, <1>5, <1>6, <1>7, <1>8, <1>9, <1>10 DEF Serve

LEMMA OwnServing ==
    ASSUME AnswerInv, NEW r \in Requests, Submit(r) \/ Serve(r), ServedOK(r)'
    PROVE  AnswerInv'
<1>1. RunInv' /\ FileInv'
  BY StepKeepsRunInv, StepKeepsFileInv DEF AnswerInv
<1>2. Shared' /\ UNCHANGED known /\ (\A s \in Requests \ {r} : Unserved(s))
  BY StepIsOwn DEF Own
<1>3. ASSUME NEW s \in Requests PROVE ServedOK(s)'
  <2>1. CASE s = r
    BY <2>1
  <2>2. CASE s # r
    BY <1>2, <2>2, UnservedOK DEF AnswerInv
  <2>3. QED
    BY <2>1, <2>2
<1>4. QED
  BY <1>1, <1>2, <1>3 DEF AnswerInv

LEMMA StepKeepsAnswerInv ==
    ASSUME AnswerInv, NEW r \in Requests, Submit(r) \/ Serve(r)
    PROVE  AnswerInv'
<1>1. Domains /\ Shared /\ FileInv /\ RequestOK(r) /\ ServedOK(r)
  BY DEF AnswerInv, RunInv
<1> USE DEF dbVars, fileVars
<1>2. CASE Submit(r)
  <2>1. ServedOK(r)'
    BY <1>1, <1>2 DEF Submit, Goto, At, Domains, Shared, ServedOK, Steps
  <2>2. QED
    BY <2>1, OwnServing
<1>3. CASE ProviderFails(r)
  <2>1. Declined(r)' /\ step'[r] = "answered" /\ proposal'[r] = proposal[r]
    BY <1>1, <1>3 DEF ProviderFails, Conclude, Goto, At, Domains, Shared, ServedOK, RequestOK,
                      Declined
  <2>2. ServedOK(r)'
    BY <1>1, <2>1 DEF ServedOK, Steps, Concluded
  <2>3. QED
    BY <1>3, <2>2, OwnServing DEF Serve
<1>4. CASE ModelDeclines(r)
  <2>1. Declined(r)' /\ step'[r] = "answered" /\ proposal'[r] = proposal[r]
    BY <1>1, <1>4 DEF ModelDeclines, Conclude, Goto, At, Domains, Shared, ServedOK, RequestOK,
                      Declined
  <2>2. ServedOK(r)'
    BY <1>1, <2>1 DEF ServedOK, Steps, Concluded
  <2>3. QED
    BY <1>4, <2>2, OwnServing DEF Serve
<1>5. CASE ModelProposes(r)
  <2>1. /\ step[r] = "propose" /\ step'[r] = "validate"
        /\ proposal'[r] \in Proposals /\ proposal'[r] # None
        /\ UNCHANGED <<verdict, execution, result, seen>>
    BY <1>1, <1>5 DEF ModelProposes, HasQuery, Goto, At, Domains
  <2>2. ServedOK(r)'
    BY <1>1, <2>1 DEF ServedOK, Steps
  <2>3. QED
    BY <1>5, <2>2, OwnServing DEF Serve
<1>6. CASE ValidateProposal(r)
  <2>1. /\ step[r] = "validate" /\ UNCHANGED <<known, proposal, execution, ran, seen>>
        /\ verdict'[r] = Validate(proposal[r], Introspected(known))
    BY <1>1, <1>6 DEF ValidateProposal, At, Domains
  <2>2. CASE verdict'[r].approved
    <3>1. step'[r] = "open" /\ result' = result
      BY <1>1, <1>6, <2>2 DEF ValidateProposal, Goto, Domains
    <3>2. ServedOK(r)'
      BY <1>1, <2>1, <3>1 DEF ServedOK, Steps
    <3>3. QED
      BY <1>6, <3>2, OwnServing DEF Serve
  <2>3. CASE ~verdict'[r].approved
    <3>1. step'[r] = "answered" /\ result'[r] = "validation_rejected"
      BY <1>1, <1>6, <2>3 DEF ValidateProposal, Conclude, Goto, Domains, Shared
    <3>2. Refused(r)'
      BY <1>1, <2>1, <2>3, <3>1 DEF Refused, ServedOK, RequestOK
    <3>3. ServedOK(r)'
      BY <1>1, <2>1, <3>1, <3>2 DEF ServedOK, Steps, Concluded
    <3>4. QED
      BY <1>6, <3>3, OwnServing DEF Serve
  <2>4. QED
    BY <2>2, <2>3
<1>7. CASE OpenFails(r)
  <2>1. /\ step[r] = "open" /\ step'[r] = "answered" /\ result'[r] = "execution_failed"
        /\ UNCHANGED <<known, proposal, verdict, ran, seen>>
        /\ execution'[r] = Executed("connection_error", SafeSql(r), 0, FALSE)
    BY <1>1, <1>7 DEF OpenFails, Conclude, Goto, At, Domains, Shared
  <2>2. SafeSql(r)' = SafeSql(r) /\ Vetted(r)' /\ ran[r] = <<>>
    BY <1>1, <2>1 DEF SafeSql, RequestOK, Vetted
  <2>3. Unavailable(r)'
    BY <1>1, <2>1, <2>2 DEF Unavailable, FailedWith, Executed, ServedOK
  <2>4. ServedOK(r)'
    BY <1>1, <2>1, <2>3 DEF ServedOK, Steps, Concluded
  <2>5. QED
    BY <1>7, <2>4, OwnServing DEF Serve
<1>8. CASE OpenReadonly(r)
  <2>1. /\ step[r] = "open" /\ step'[r] = "query"
        /\ UNCHANGED <<proposal, verdict, execution, result, seen>>
    BY <1>1, <1>8 DEF OpenReadonly, Goto, At, Domains
  <2>2. ServedOK(r)'
    BY <1>1, <2>1 DEF ServedOK, Steps
  <2>3. QED
    BY <1>8, <2>2, OwnServing DEF Serve
<1>9. CASE RunQuery(r)
  <2>1. /\ step[r] = "query" /\ UNCHANGED <<known, proposal, verdict, result, seen>>
        /\ step'[r] \in {"close", "unwind", "running"}
        /\ step'[r] # "close" => execution' = execution
        /\ step'[r] = "close" =>
              \/ execution'[r] = Executed("success", SafeSql(r), Min({Fetched(r), MaxRows}),
                                          Fetched(r) > MaxRows)
              \/ execution'[r] = Executed("execution_error", SafeSql(r), 0, FALSE)
    BY <1>1, <1>9 DEF RunQuery, Outcome, Goto, At, Domains, Shared
  <2>2. SafeSql(r)' = SafeSql(r)
    BY <2>1 DEF SafeSql
  <2>3. Queried(r)'
    <3>1. ran'[r] = Append(ran[r], SafeSql(r)) /\ ran[r] = <<>> /\ Vetted(r)
      BY <1>1, <1>9, <2>1 DEF RunQuery, Domains, RequestOK
    <3>2. Vetted(r)'
      BY <2>1, <3>1 DEF Vetted
    <3>3. ran'[r] = <<SafeSql(r)>>
      BY <3>1
    <3>4. QED
      BY <1>1, <2>1, <2>2, <3>2, <3>3 DEF Queried, ServedOK
  <2>4. instance \in seen[r] \cap Contents
    <3>1. conn[r] /\ Serving(r)
      BY <1>1, <2>1 DEF RequestOK, Serving
    <3>2. QED
      BY <1>1, <3>1 DEF FileInv
  <2>5. step'[r] = "close" =>
           (\E c \in seen'[r] \cap Contents : ReadFrom(r, c)') \/ FailedWith(r, "execution_error")'
    <3>1. execution'[r] = Executed("success", SafeSql(r), Min({Fetched(r), MaxRows}),
                                   Fetched(r) > MaxRows)
            => ReadFrom(r, instance)'
      <4>1. Fetched(r) = Min({RowsOf[instance], SafeSql(r).limit, MaxRows + 1})
        BY DEF Fetched
      <4>2. instance' = instance
        BY <1>9 DEF RunQuery
      <4>3. QED
        BY <2>2, <4>1, <4>2 DEF ReadFrom, FetchedFrom, Executed
    <3>2. execution'[r] = Executed("execution_error", SafeSql(r), 0, FALSE)
            => FailedWith(r, "execution_error")'
      BY <2>2 DEF FailedWith, Executed
    <3>3. instance' = instance
      BY <1>9 DEF RunQuery
    <3>4. QED
      BY <2>1, <2>4, <3>1, <3>2, <3>3
  <2>6. ServedOK(r)'
    BY <1>1, <2>1, <2>3, <2>5 DEF ServedOK, Steps
  <2>7. QED
    BY <1>9, <2>6, OwnServing DEF Serve
<1>10. CASE CloseConnection(r)
  <2>1. /\ UNCHANGED <<known, proposal, verdict, execution, ran, seen>>
        /\ \/ /\ step[r] = "close" /\ step'[r] = "answered"
              /\ result'[r] = IF execution[r].status = "success" THEN "completed"
                              ELSE "execution_failed"
           \/ step[r] = "unwind" /\ step'[r] = "raised" /\ result' = result
    BY <1>1, <1>10 DEF CloseConnection, Conclude, Goto, At, Domains, Shared
  <2>2. SafeSql(r)' = SafeSql(r) /\ Queried(r)'
    BY <1>1, <2>1 DEF SafeSql, ServedOK, Vetted, Queried
  <2>3. CASE step'[r] = "raised"
    <3>1. ServedOK(r)'
      BY <1>1, <2>1, <2>2, <2>3 DEF ServedOK, Steps
    <3>2. QED
      BY <1>10, <3>1, OwnServing DEF Serve
  <2>4. CASE step'[r] = "answered"
    <3>1. /\ step[r] = "close"
          /\ result'[r] = IF execution[r].status = "success" THEN "completed"
                          ELSE "execution_failed"
      BY <2>1, <2>4
    <3>2. ASSUME \E c \in seen[r] \cap Contents : ReadFrom(r, c) PROVE Concluded(r)'
      <4>1. PICK c \in seen[r] \cap Contents : ReadFrom(r, c)
        BY <3>2
      <4>2. result'[r] = "completed"
        BY <3>1, <4>1 DEF ReadFrom, Executed
      <4>3. ReadFrom(r, c)' <=> ReadFrom(r, c)
        BY <2>1, <2>2 DEF ReadFrom, FetchedFrom, Executed
      <4>4. Completed(r)'
        BY <2>1, <2>2, <4>1, <4>2, <4>3 DEF Completed
      <4>5. QED
        BY <4>4 DEF Concluded
    <3>3. ASSUME FailedWith(r, "execution_error") PROVE Concluded(r)'
      <4>1. result'[r] = "execution_failed" /\ FailedWith(r, "execution_error")'
        BY <2>1, <2>2, <3>1, <3>3 DEF FailedWith, Executed
      <4>2. QED
        BY <2>2, <4>1 DEF Failed, Concluded
    <3>4. Concluded(r)'
      BY <1>1, <3>1, <3>2, <3>3 DEF ServedOK
    <3>5. ServedOK(r)'
      BY <1>1, <2>1, <2>4, <3>4 DEF ServedOK, Steps
    <3>6. QED
      BY <1>10, <3>5, OwnServing DEF Serve
  <2>5. QED
    BY <2>1, <2>3, <2>4
<1>11. QED
  BY <1>2, <1>3, <1>4, <1>5, <1>6, <1>7, <1>8, <1>9, <1>10 DEF Serve

LEMMA AnswerInvInit ==
    ASSUME Init
    PROVE  AnswerInv
<1>1. Shared
  BY PipelineAssumption DEF Init, Shared
<1>2. ASSUME NEW r \in Requests PROVE ServedOK(r)
  BY DEF Init, ServedOK, Steps
<1>3. QED
  BY <1>1, <1>2, RunInvInit, FileInvInit DEF AnswerInv

\* A change of the file, a probe or nothing at all leaves what a request holds.
LEMMA ElsewhereKeepsAnswerInv ==
    ASSUME AnswerInv, Elsewhere \/ UNCHANGED vars
    PROVE  AnswerInv'
<1>1. /\ UNCHANGED <<known, step, proposal, verdict, conn, execution, result, ran>>
      /\ changes' \in 0 .. MaxChanges
  BY PipelineAssumption
     DEF Elsewhere, WarehouseChanges, ProbeOpens, ProbeCloses, vars, localVars, dbVars, fileVars,
         AnswerInv, Shared
<1>2. \A r \in Requests : seen[r] \subseteq seen'[r]
  BY DEF Elsewhere, WarehouseChanges, ProbeOpens, ProbeCloses, vars, fileVars
<1>3. ASSUME NEW r \in Requests PROVE ServedOK(r)'
  BY <1>1, <1>2, UnservedOK DEF AnswerInv, Unserved, Untouched
<1>4. RunInv' /\ FileInv'
  BY StutterKeepsRunInv, ElsewhereKeepsFileInv DEF AnswerInv
<1>5. QED
  BY <1>1, <1>3, <1>4 DEF AnswerInv, Shared

LEMMA AnswerInvInductive == Spec => []AnswerInv
<1>1. ASSUME AnswerInv, [Next]_vars PROVE AnswerInv'
  BY <1>1, StepKeepsAnswerInv, ElsewhereKeepsAnswerInv DEF Next, Elsewhere
<1>2. QED
  BY <1>1, AnswerInvInit, PTL DEF Spec

(***************************************************************************)
(* The answer, by how the request was concluded.                           *)
(***************************************************************************)
\* Min of three, as fetchmany's own bound comes on top of the other two.
LEMMA MinOfThree ==
    ASSUME NEW a \in Int, NEW b \in Int, NEW c \in Int
    PROVE  Min({a, b, c}) = Min({Min({a, b}), c})
<1> DEFINE least == IF a > b THEN (IF b > c THEN c ELSE b) ELSE (IF a > c THEN c ELSE a)
<1>1. least \in {a, b, c} /\ \A y \in {a, b, c} : least <= y
  OBVIOUS
<1>2. \A x \in {a, b, c} : (\A y \in {a, b, c} : x <= y) => x = least
  BY <1>1
<1>3. Min({a, b, c}) = least
  BY <1>1, <1>2 DEF Min
<1>4. Min({Min({a, b}), c}) = least
  BY MinOfTwo
<1>5. QED
  BY <1>3, <1>4

\* The one row that is fetched beyond MAX_ROWS is never kept.
LEMMA OneRowMoreIsDropped ==
    ASSUME NEW n \in Int, NEW m \in Int
    PROVE  Min({Min({n, m + 1}), m}) = Min({n, m})
<1>1. Min({n, m + 1}) = IF n > m + 1 THEN m + 1 ELSE n
  BY MinOfTwo
<1>2. Min({n, m}) = IF n > m THEN m ELSE n
  BY MinOfTwo
<1>3. Min({Min({n, m + 1}), m}) = IF Min({n, m + 1}) > m THEN m ELSE Min({n, m + 1})
  BY <1>1, MinOfTwo
<1>4. QED
  BY <1>1, <1>2, <1>3

LEMMA SafeSqlIsKnown ==
    ASSUME AnswerInv, NEW r \in Requests, Vetted(r), proposal[r] \in Proposals
    PROVE  /\ verdict[r] \in Verdicts /\ verdict[r].approved = TRUE
           /\ verdict[r].safeSql = <<SafeSql(r)>>
           /\ SafeSql(r) \in SafeStatements /\ SafeSql(r).limit \in Int
<1>1. verdict[r] \in Verdicts
  BY DEF AnswerInv, Shared, Vetted, Introspected, Verdicts
<1>2. verdict[r].approved = TRUE
  BY ApprovalMeansNoErrors DEF Vetted, Approve
<1>3. verdict[r].safeSql = <<SafeSql(r)>>
  BY ApprovedIsOne DEF Vetted, SafeSql
<1>4. SafeSql(r) \in SafeStatements
  BY <1>1, <1>2 DEF SafeSql, SafeStatements
<1>5. IsCandidate(proposal[r])
  BY PipelineAssumption
<1>6. SafeSql(r).limit \in Int
  BY <1>5, SafeLimitIsNumber DEF Vetted, SafeSql
<1>7. QED
  BY <1>1, <1>2, <1>3, <1>4, <1>6

\* The rows that a content's own bound and the gate's let through.
Yield(r, c) == Min({RowsOf[c], SafeSql(r).limit})

LEMMA ReadIsPrefix ==
    ASSUME NEW r \in Requests, NEW c \in Contents, SafeSql(r).limit \in Int, ReadFrom(r, c)
    PROVE  /\ Yield(r, c) \in Int
           /\ execution[r] = Executed("success", SafeSql(r), Min({Yield(r, c), MaxRows}),
                                      Yield(r, c) > MaxRows)
<1>1. RowsOf[c] \in Int /\ MaxRows \in Int
  BY PipelineAssumption
<1>2. Yield(r, c) \in Int
  BY <1>1, MinOfTwo DEF Yield
<1>3. FetchedFrom(r, c) = Min({Yield(r, c), MaxRows + 1})
  BY <1>1, MinOfThree DEF FetchedFrom, Yield
<1>4. Min({FetchedFrom(r, c), MaxRows}) = Min({Yield(r, c), MaxRows})
  BY <1>1, <1>2, <1>3, OneRowMoreIsDropped
<1>5. FetchedFrom(r, c) > MaxRows <=> Yield(r, c) > MaxRows
  <2>1. Min({Yield(r, c), MaxRows + 1})
          = IF Yield(r, c) > MaxRows + 1 THEN MaxRows + 1 ELSE Yield(r, c)
    BY <1>1, <1>2, MinOfTwo
  <2>2. QED
    BY <1>1, <1>2, <1>3, <2>1
<1>6. QED
  BY <1>2, <1>4, <1>5 DEF ReadFrom, Executed

\* The fields of the response, but for the flag that says truncated.
Answers(r, status, answer, sql, rows, passed) ==
    /\ Response(r).status = status /\ (Response(r).success <=> status = "success")
    /\ Response(r).answer = answer /\ Response(r).executedSql = sql
    /\ Response(r).rowCount = rows /\ Response(r).validationPassed = passed

LEMMA DeclinedResponse ==
    ASSUME NEW r \in Requests, Declined(r)
    PROVE  /\ Answers(r, StatusOf(result[r]), None, None, None, None)
           /\ Response(r).truncated = None
           /\ StatusOf(result[r]) \in {"api_error", "no_query"}
<1>1. result[r] # "completed"
  BY DEF Declined
<1>2. StatusOf(result[r]) \in {"api_error", "no_query"}
  BY DEF Declined, StatusOf
<1>3. QED
  BY <1>1, <1>2 DEF Declined, Answers, Response, ToAskResponse

LEMMA RefusedResponse ==
    ASSUME AnswerInv, NEW r \in Requests, Refused(r)
    PROVE  /\ Answers(r, "validation_rejected", None, None, None, FALSE)
           /\ Response(r).truncated = None
<1>1. verdict[r] \in Verdicts
  BY DEF AnswerInv, Shared, Refused, Introspected, Verdicts
<1>2. verdict[r] # None
  BY <1>1, NullAssumption
<1>3. verdict[r].approved = FALSE
  BY DEF Refused, Validate, ValidateStatement, Reject, Approve
<1>4. StatusOf(result[r]) = "validation_rejected" /\ result[r] # "completed"
  BY DEF Refused, StatusOf
<1>5. QED
  BY <1>2, <1>3, <1>4 DEF Refused, Answers, Response, ToAskResponse

LEMMA ExecutedResponse ==
    ASSUME AnswerInv, NEW r \in Requests, Vetted(r), proposal[r] \in Proposals,
           result[r] \in {"completed", "execution_failed"},
           execution[r] \in Executions, execution[r].executedSql = SafeSql(r)
    PROVE  /\ Answers(r, IF result[r] = "completed" THEN "success" ELSE "execution_failed",
                      IF result[r] = "completed" THEN execution[r].rows ELSE None,
                      SafeSql(r), execution[r].rows, TRUE)
           /\ Response(r).truncated = execution[r].truncated
<1>1. verdict[r] # None /\ verdict[r].approved = TRUE
  BY SafeSqlIsKnown, NullAssumption
<1>2. execution[r] # None
  BY NullAssumption
<1>3. StatusOf(result[r]) = IF result[r] = "completed" THEN "success" ELSE "execution_failed"
  BY DEF StatusOf
<1>4. QED
  BY <1>1, <1>2, <1>3 DEF Answers, Response, ToAskResponse

\* How an answered request got there, in the terms of its response.
LEMMA AnsweredCases ==
    ASSUME AnswerInv, NEW r \in Requests, Answered(r)
    PROVE  Declined(r) \/ Refused(r) \/ Unavailable(r) \/ Failed(r) \/ Completed(r)
  BY DEF AnswerInv, ServedOK, Answered, At, Concluded

LEMMA UnavailableResponse ==
    ASSUME AnswerInv, NEW r \in Requests, Unavailable(r)
    PROVE  /\ Answers(r, "execution_failed", None, SafeSql(r), 0, TRUE)
           /\ Response(r).truncated = FALSE
           /\ execution[r].status = "connection_error" /\ ran[r] = <<>>
<1>1. /\ execution[r] = Executed("connection_error", SafeSql(r), 0, FALSE)
      /\ Vetted(r) /\ proposal[r] \in Proposals /\ result[r] = "execution_failed"
  BY DEF Unavailable, FailedWith
<1>2. SafeSql(r) \in SafeStatements
  BY <1>1, SafeSqlIsKnown
<1>3. execution[r] \in Executions
  BY <1>1, <1>2 DEF Executed, Executions
<1>4. /\ execution[r].executedSql = SafeSql(r) /\ execution[r].rows = 0
      /\ execution[r].truncated = FALSE /\ execution[r].status = "connection_error"
  BY <1>1 DEF Executed
<1>5. /\ Answers(r, "execution_failed", None, SafeSql(r), 0, TRUE)
      /\ Response(r).truncated = execution[r].truncated
  BY <1>1, <1>3, <1>4, ExecutedResponse
<1>6. QED
  BY <1>4, <1>5 DEF Unavailable

LEMMA FailedResponse ==
    ASSUME AnswerInv, NEW r \in Requests, Failed(r)
    PROVE  /\ Answers(r, "execution_failed", None, SafeSql(r), 0, TRUE)
           /\ Response(r).truncated = FALSE
           /\ ran[r] = <<SafeSql(r)>>
<1>1. /\ execution[r] = Executed("execution_error", SafeSql(r), 0, FALSE)
      /\ Vetted(r) /\ proposal[r] \in Proposals /\ result[r] = "execution_failed"
  BY DEF Failed, FailedWith, Queried
<1>2. SafeSql(r) \in SafeStatements
  BY <1>1, SafeSqlIsKnown
<1>3. execution[r] \in Executions
  BY <1>1, <1>2 DEF Executed, Executions
<1>4. /\ execution[r].executedSql = SafeSql(r) /\ execution[r].rows = 0
      /\ execution[r].truncated = FALSE /\ execution[r].status = "execution_error"
  BY <1>1 DEF Executed
<1>5. /\ Answers(r, "execution_failed", None, SafeSql(r), 0, TRUE)
      /\ Response(r).truncated = execution[r].truncated
  BY <1>1, <1>3, <1>4, ExecutedResponse
<1>6. QED
  BY <1>4, <1>5 DEF Failed, Queried

\* An answer with a table, read from content c.
TableFrom(r, c) ==
    /\ Answers(r, "success", Min({Yield(r, c), MaxRows}), SafeSql(r),
               Min({Yield(r, c), MaxRows}), TRUE)
    /\ Response(r).truncated = (Yield(r, c) > MaxRows)
    /\ Yield(r, c) \in Int

LEMMA CompletedResponse ==
    ASSUME AnswerInv, NEW r \in Requests, Completed(r)
    PROVE  \E c \in seen[r] \cap Contents : TableFrom(r, c)
<1>1. PICK c \in seen[r] \cap Contents : ReadFrom(r, c)
  BY DEF Completed
<1>2. proposal[r] \in Proposals /\ Vetted(r) /\ result[r] = "completed"
  BY DEF Completed, Queried
<1>3. /\ Yield(r, c) \in Int
      /\ execution[r] = Executed("success", SafeSql(r), Min({Yield(r, c), MaxRows}),
                                 Yield(r, c) > MaxRows)
  BY <1>1, <1>2, SafeSqlIsKnown, ReadIsPrefix
<1>4. Min({Yield(r, c), MaxRows}) \in Int
  BY <1>3, MinOfTwo, GateAssumption
<1>5. SafeSql(r) \in SafeStatements
  BY <1>2, SafeSqlIsKnown
<1>6. execution[r] \in Executions
  BY <1>3, <1>4, <1>5 DEF Executed, Executions
<1>7. /\ execution[r].executedSql = SafeSql(r)
      /\ execution[r].rows = Min({Yield(r, c), MaxRows})
      /\ execution[r].truncated = (Yield(r, c) > MaxRows)
  BY <1>3 DEF Executed
<1>8. /\ Answers(r, "success", execution[r].rows, SafeSql(r), execution[r].rows, TRUE)
      /\ Response(r).truncated = execution[r].truncated
  BY <1>2, <1>6, <1>7, ExecutedResponse
<1>9. QED
  BY <1>3, <1>7, <1>8 DEF TableFrom

\* Each local of AnalyticsAssistant.ask is set exactly when ask has got that
\* far, and whatever ask ends in, format_response and to_ask_response make a
\* response whose fields agree with each other.
THEOREM AskTyped == Spec => []TypeOK
<1>1. ASSUME AnswerInv, NEW r \in Requests
      PROVE  /\ step[r] \in {"open", "query", "running", "close", "unwind"} =>
                   verdict[r].approved
             /\ result[r] \in Stages \cup {None}
             /\ Answered(r) <=> result[r] # None
             /\ ran[r] # <<>> => verdict[r] # None
  <2>1. RequestOK(r) /\ ServedOK(r)
    BY <1>1 DEF AnswerInv, RunInv
  <2>2. Answered(r) => result[r] \in Stages
    BY <2>1 DEF ServedOK, Answered, At, Concluded, Declined, Refused, Unavailable, Failed,
                Completed, Stages
  <2>3. result[r] \in Stages \cup {None} /\ (Answered(r) <=> result[r] # None)
    BY <2>1, <2>2, NullAssumption DEF ServedOK, Answered, At
  <2>4. ran[r] # <<>> => Vetted(r) /\ proposal[r] \in Proposals
    BY <2>1 DEF RequestOK, ServedOK, Steps, Concluded, Declined, Refused, Unavailable, Failed,
                Completed, Queried
  <2>5. ran[r] # <<>> => verdict[r] # None
    BY <1>1, <2>4, SafeSqlIsKnown, NullAssumption
  <2>6. QED
    BY <2>1, <2>3, <2>5 DEF RequestOK, ServedOK, Vetted
<1>2. ASSUME AnswerInv, NEW r \in Requests, Answered(r)
      PROVE  IsAskResponse(Response(r))
  <2>1. CASE Declined(r)
    BY <2>1, DeclinedResponse, NullAssumption DEF Answers, IsAskResponse
  <2>2. CASE Refused(r)
    BY <1>2, <2>2, RefusedResponse, NullAssumption DEF Answers, IsAskResponse
  <2>3. CASE Unavailable(r)
    <3>1. SafeSql(r) # None
      BY <1>2, <2>3, SafeSqlIsKnown, NullAssumption DEF Unavailable
    <3>2. Answers(r, "execution_failed", None, SafeSql(r), 0, TRUE)
      BY <1>2, <2>3, UnavailableResponse
    <3>3. Response(r).truncated \in BOOLEAN
      BY <1>2, <2>3, UnavailableResponse
    <3>4. 0 # None
      BY NullAssumption
    <3>5. QED
      BY <3>1, <3>2, <3>3, <3>4 DEF Answers, IsAskResponse
  <2>4. CASE Failed(r)
    <3>1. SafeSql(r) # None
      BY <1>2, <2>4, SafeSqlIsKnown, NullAssumption DEF Failed, Queried
    <3>2. Answers(r, "execution_failed", None, SafeSql(r), 0, TRUE)
      BY <1>2, <2>4, FailedResponse
    <3>3. Response(r).truncated \in BOOLEAN
      BY <1>2, <2>4, FailedResponse
    <3>4. 0 # None
      BY NullAssumption
    <3>5. QED
      BY <3>1, <3>2, <3>3, <3>4 DEF Answers, IsAskResponse
  <2>5. CASE Completed(r)
    <3>1. SafeSql(r) # None
      BY <1>2, <2>5, SafeSqlIsKnown, NullAssumption DEF Completed, Queried
    <3>2. PICK c \in seen[r] \cap Contents : TableFrom(r, c)
      BY <1>2, <2>5, CompletedResponse
    <3>3. Min({Yield(r, c), MaxRows}) # None
      BY <3>2, MinOfTwo, GateAssumption, NullAssumption DEF TableFrom
    <3>4. QED
      BY <3>1, <3>2, <3>3 DEF TableFrom, Answers, IsAskResponse
  <2>6. QED
    BY <1>2, <2>1, <2>2, <2>3, <2>4, <2>5, AnsweredCases
<1>3. AnswerInv => TypeOK
  <2>1. SUFFICES ASSUME AnswerInv PROVE TypeOK
    OBVIOUS
  <2>2. conn \in [Requests -> BOOLEAN]
    BY <2>1 DEF AnswerInv, RunInv, Domains
  <2>3. QED
    BY <1>1, <1>2, <2>1, <2>2 DEF AnswerInv, FileInv, Shared, ServedOK, TypeOK, At
<1>4. QED
  BY <1>3, AnswerInvInductive, PTL

LEMMA RangeOfNone == Range(<<>>) = {}
  BY DEF Range

LEMMA RangeOfOne ==
    ASSUME NEW x
    PROVE  Range(<<x>>) = {x}
<1>1. DOMAIN <<x>> = {1} /\ <<x>>[1] = x
  OBVIOUS
<1>2. QED
  BY <1>1 DEF Range

\* Whatever reached DuckDB is disclosed in the response, whether it succeeded or
\* not; nothing that did not run is labelled as executed; and a refused proposal
\* is not shown (executor.py, response.py, mapping.py and the page's renderer).
THEOREM RunsAreDisclosed == Spec => []RunIsDisclosed
<1>1. ASSUME AnswerInv, NEW r \in Requests, Answered(r)
      PROVE  LET resp == Response(r) IN
             /\ \A sql \in Range(ran[r]) : resp.executedSql = sql
             /\ LabelledExecuted(resp) => resp.executedSql \in Range(ran[r])
             /\ resp.executedSql \notin Range(ran[r]) \cup {None} =>
                   execution[r].status = "connection_error"
             /\ resp.validationPassed # TRUE => resp.executedSql = None
  <2>1. CASE Declined(r)
    <3>1. ran[r] = <<>> /\ Response(r).executedSql = None /\ Response(r).status # "success"
      BY <2>1, DeclinedResponse DEF Declined, Answers
    <3>2. QED
      BY <3>1, RangeOfNone DEF LabelledExecuted
  <2>2. CASE Refused(r)
    <3>1. ran[r] = <<>> /\ Response(r).executedSql = None /\ Response(r).status # "success"
      BY <1>1, <2>2, RefusedResponse DEF Refused, Answers
    <3>2. QED
      BY <3>1, RangeOfNone DEF LabelledExecuted
  <2>3. CASE Unavailable(r)
    <3>1. /\ ran[r] = <<>> /\ Response(r).status = "execution_failed"
          /\ Response(r).validationPassed = TRUE /\ execution[r].status = "connection_error"
      BY <1>1, <2>3, UnavailableResponse DEF Answers
    <3>2. QED
      BY <3>1, RangeOfNone DEF LabelledExecuted
  <2>4. CASE Failed(r)
    <3>1. /\ ran[r] = <<SafeSql(r)>> /\ Response(r).executedSql = SafeSql(r)
          /\ Response(r).validationPassed = TRUE
      BY <1>1, <2>4, FailedResponse DEF Answers
    <3>2. QED
      BY <3>1, RangeOfOne
  <2>5. CASE Completed(r)
    <3>1. ran[r] = <<SafeSql(r)>>
      BY <2>5 DEF Completed, Queried
    <3>2. Response(r).executedSql = SafeSql(r) /\ Response(r).validationPassed = TRUE
      BY <1>1, <2>5, CompletedResponse DEF TableFrom, Answers
    <3>3. QED
      BY <3>1, <3>2, RangeOfOne
  <2>6. QED
    BY <1>1, <2>1, <2>2, <2>3, <2>4, <2>5, AnsweredCases
<1>2. AnswerInv => RunIsDisclosed
  BY <1>1 DEF RunIsDisclosed
<1>3. QED
  BY <1>2, AnswerInvInductive, PTL

\* An answer has at most MAX_ROWS rows, exactly so many if it is flagged as
\* truncated, and otherwise every row its statement yields on one content: one the
\* file had while the question was served, or the one that the process had open
\* already when it came, since duckdb.connect (connection.py) joins the instance
\* that is open (executor.py, fetchmany(max_rows + 1)).
THEOREM CapHolds == Spec => []CapIsHonest
<1>1. ASSUME AnswerInv, NEW r \in Requests, Answered(r), Response(r).success
      PROVE  /\ Response(r).answer <= MaxRows
             /\ Response(r).truncated => Response(r).answer = MaxRows
             /\ ~Response(r).truncated => \E c \in seen[r] \ {NoFile} :
                   Response(r).answer = Min({RowsOf[c], Response(r).executedSql.limit})
  <2>1. Completed(r)
    BY <1>1, AnsweredCases, DeclinedResponse, RefusedResponse, UnavailableResponse,
       FailedResponse DEF Answers
  <2>2. PICK c \in seen[r] \cap Contents : TableFrom(r, c)
    BY <1>1, <2>1, CompletedResponse
  <2>3. Min({Yield(r, c), MaxRows}) = IF Yield(r, c) > MaxRows THEN MaxRows ELSE Yield(r, c)
    BY <2>2, MinOfTwo, GateAssumption DEF TableFrom
  <2>4. c \in seen[r] \ {NoFile}
    BY <2>2, PipelineAssumption
  <2>5. Yield(r, c) = Min({RowsOf[c], Response(r).executedSql.limit})
    BY <2>2 DEF Yield, TableFrom, Answers
  <2>6. /\ Response(r).answer = Min({Yield(r, c), MaxRows})
        /\ Response(r).truncated <=> Yield(r, c) > MaxRows
    BY <2>2 DEF TableFrom, Answers
  <2>7. Yield(r, c) \in Int /\ MaxRows \in Int
    BY <2>2, GateAssumption DEF TableFrom
  <2>8. Response(r).answer <= MaxRows /\ (Response(r).truncated => Response(r).answer = MaxRows)
    BY <2>3, <2>6, <2>7
  <2>9. ~Response(r).truncated => Response(r).answer = Yield(r, c)
    BY <2>3, <2>6, <2>7
  <2>10. QED
    BY <2>4, <2>5, <2>8, <2>9
<1>2. AnswerInv => CapIsHonest
  BY <1>1 DEF CapIsHonest
<1>3. QED
  BY <1>2, AnswerInvInductive, PTL

(***************************************************************************)
(* Refinement: every step of the pipeline is a step of AskService, or none *)
(* at all.  AskService brings its own copies of the gate and of Min, which *)
(* are the pipeline's.                                                     *)
(***************************************************************************)
LEMMA SameGate ==
    ASSUME NEW s, NEW schema
    PROVE  Service!Validate(s, schema) = Validate(s, schema)
<1>1. ASSUME NEW stmt
      PROVE  Service!StatementErrors(stmt, schema) = StatementErrors(stmt, schema)
  BY Zenon DEF Service!StatementErrors, StatementErrors, Service!ValidateStatementType,
     ValidateStatementType, Service!ValidateAllowlist, ValidateAllowlist,
     Service!ValidateColumns, ValidateColumns, Service!ValidateFunctions, ValidateFunctions,
     Service!Report, Report, Service!TablesOf, TablesOf, Service!ColumnsOf, ColumnsOf,
     Service!ScopesOf, ScopesOf, Service!CteNames, CteNames, Service!HasTable, HasTable,
     Service!HasColumn, HasColumn, Service!AliasToTable, AliasToTable, Service!Aliasing,
     Aliasing, Service!Max, Max, Service!Range, Range
<1>2. ASSUME NEW stmt PROVE Service!ApplyLimit(stmt) = ApplyLimit(stmt)
  BY Zenon DEF Service!ApplyLimit, ApplyLimit
<1>3. ASSUME NEW stmt
      PROVE  Service!ValidateStatement(stmt, schema) = ValidateStatement(stmt, schema)
  BY <1>1, <1>2, Zenon DEF Service!ValidateStatement, ValidateStatement, Service!Reject, Reject,
     Service!Approve, Approve
<1>4. /\ Service!ValidateNonEmpty(s) = ValidateNonEmpty(s)
      /\ Service!ParseFails(s) = ParseFails(s)
      /\ Service!ValidateSingleStatement(s.stmts) = ValidateSingleStatement(s.stmts)
  BY Zenon DEF Service!ValidateNonEmpty, ValidateNonEmpty, Service!ParseFails, ParseFails,
     Service!ValidateSingleStatement, ValidateSingleStatement, Service!Report, Report
<1>5. ASSUME NEW errors PROVE Service!Reject(errors) = Reject(errors)
  BY DEF Service!Reject, Reject
<1>6. QED
  BY <1>3, <1>4, <1>5, Zenon DEF Service!Validate, Validate

LEMMA SameMin ==
    ASSUME NEW S
    PROVE  Service!Min(S) = Min(S)
  BY Zenon DEF Service!Min, Min

\* What AskService promises of an answer.
Kept(r) ==
    Answered(r) => \/ Service!Refusal(Response(r))
                   \/ Service!Success(Response(r), seen[r] \ {NoFile})

LEMMA PromiseKept ==
    ASSUME AnswerInv, NEW r \in Requests
    PROVE  Kept(r)
<1>1. CASE Declined(r)
  BY <1>1, DeclinedResponse DEF Kept, Answers, Service!Refusal, Service!Failures
<1>2. CASE Refused(r)
  BY <1>2, RefusedResponse DEF Kept, Answers, Service!Refusal, Service!Failures
<1>3. ASSUME Unavailable(r) \/ Failed(r)
      PROVE  Kept(r)
  <2>1. proposal[r] \in Proposals /\ Vetted(r)
    BY <1>3 DEF Unavailable, Failed, Queried
  <2>2. Answers(r, "execution_failed", None, SafeSql(r), 0, TRUE)
    BY <1>3, UnavailableResponse, FailedResponse
  <2>3. Service!Validate(proposal[r], SchemaOf[known]).safeSql = <<Response(r).executedSql>>
    BY <2>1, <2>2, SameGate, SafeSqlIsKnown DEF Answers, Vetted, Introspected
  <2>4. QED
    BY <2>1, <2>2, <2>3 DEF Kept, Answers, Service!Refusal, Service!Failures
<1>4. CASE Completed(r)
  <2>1. proposal[r] \in Proposals /\ Vetted(r)
    BY <1>4 DEF Completed, Queried
  <2>2. PICK c \in seen[r] \cap Contents : TableFrom(r, c)
    BY <1>4, CompletedResponse
  <2>3. /\ Response(r).executedSql = SafeSql(r) /\ Response(r).validationPassed = TRUE
        /\ Response(r).status = "success" /\ Response(r).success
        /\ Response(r).answer = Min({Yield(r, c), MaxRows})
        /\ Response(r).truncated <=> Yield(r, c) > MaxRows
    BY <2>2 DEF TableFrom, Answers
  <2>4. /\ Service!Validate(proposal[r], SchemaOf[known]).approved
        /\ <<Response(r).executedSql>> = Service!Validate(proposal[r], SchemaOf[known]).safeSql
    BY <2>1, <2>3, SameGate, SafeSqlIsKnown DEF Vetted, Introspected
  <2>5. Service!RowsUpTo(c, Response(r).executedSql.limit) = Yield(r, c)
    BY <2>3, SameMin DEF Service!RowsUpTo, Yield
  <2>6. /\ Response(r).answer
             = Service!Min({Service!RowsUpTo(c, Response(r).executedSql.limit), MaxRows})
        /\ Response(r).truncated <=>
              Service!RowsUpTo(c, Response(r).executedSql.limit) > MaxRows
    BY <2>3, <2>5, SameMin
  <2>7. c \in seen[r] \ {NoFile}
    BY <2>2, PipelineAssumption
  <2>8. Service!Success(Response(r), seen[r] \ {NoFile})
    BY <2>1, <2>3, <2>4, <2>6, <2>7 DEF Service!Success
  <2>9. QED
    BY <2>8 DEF Kept
<1>5. QED
  BY <1>1, <1>2, <1>3, <1>4, AnsweredCases DEF Kept

\* What the service shows of a request: the two mapped variables.
Shown(r) == IF Answered(r) THEN Response(r) ELSE None

LEMMA UnservedIsUnseen ==
    ASSUME NEW r \in Requests, Unserved(r)
    PROVE  Phase(r)' = Phase(r) /\ Shown(r)' = Shown(r)
<1>1. step'[r] = step[r] /\ (Answered(r)' <=> Answered(r))
  BY DEF Unserved, Untouched, Answered, At
<1>2. Response(r)' = Response(r)
  BY DEF Unserved, Untouched, Response, ToAskResponse, StatusOf
<1>3. QED
  BY <1>1, <1>2 DEF Phase, Serving, Shown

\* Only an open opens the file, and any other step leaves it open or lets go of it.
LEMMA OpensOrLetsGo ==
    ASSUME NEW r \in Requests, Serve(r)
    PROVE  \/ OpenReadonly(r) /\ step' = [step EXCEPT ![r] = "query"]
           \/ CloseConnection(r) /\ instance' \in {instance, None}
           \/ UNCHANGED instance
<1>1. CASE OpenReadonly(r)
  BY <1>1 DEF OpenReadonly, Goto
<1>2. CASE CloseConnection(r)
  BY <1>2 DEF CloseConnection
<1>3. CASE ~OpenReadonly(r) /\ ~CloseConnection(r)
  BY <1>3, OtherStepsAreQuiet
<1>4. QED
  BY <1>1, <1>2, <1>3

LEMMA InitIsService ==
    ASSUME Init
    PROVE  Service!Init
<1>1. \A r \in Requests : Phase(r) = "idle" /\ ~Answered(r)
  BY DEF Init, Phase, Serving, Answered, At
<1>2. QED
  BY <1>1 DEF Init, Service!Init

LEMMA SubmitIsService ==
    ASSUME AnswerInv, NEW r \in Requests, Submit(r)
    PROVE  Service!Submit(r)
<1>1. Domains /\ Shared /\ Own(r)
  BY StepIsOwn DEF AnswerInv, RunInv
<1>2. /\ Phase(r) = "idle" /\ Phase(r)' = "pending" /\ Shown(r) = None /\ Shown(r)' = None
      /\ UNCHANGED <<warehouse, known, instance>>
      /\ seen' = [seen EXCEPT ![r] = {warehouse} \cup ({instance} \ {None})]
  BY <1>1 DEF Submit, Goto, At, Domains, Phase, Serving, Shown, Answered, dbVars
<1>3. \A q \in Requests \ {r} : Phase(q)' = Phase(q) /\ Shown(q)' = Shown(q)
  BY <1>1, UnservedIsUnseen DEF Own
<1>4. QED
  BY <1>2, <1>3 DEF Service!Submit, Shown

LEMMA AnswerIsService ==
    ASSUME AnswerInv, NEW r \in Requests, Serve(r), Answered(r)', Kept(r)'
    PROVE  Service!Answer(r)
<1>1. Own(r) /\ Serving(r) /\ seen' = seen
  BY StepIsOwn, ServeMoves DEF AnswerInv
<1>2. Phase(r) = "pending" /\ Phase(r)' = "answered" /\ Shown(r)' = Response(r)'
  BY <1>1 DEF Phase, Shown, Answered, At, Serving
<1>3. \A q \in Requests \ {r} : Phase(q)' = Phase(q) /\ Shown(q)' = Shown(q)
  BY <1>1, UnservedIsUnseen DEF Own
<1>4. UNCHANGED <<warehouse, known, seen>>
  BY <1>1 DEF Own
<1>5. instance' \in {instance, None}
  <2>1. DOMAIN step = Requests
    BY DEF AnswerInv, RunInv, Domains
  <2>2. QED
    BY <2>1, OpensOrLetsGo DEF Answered, At
<1>6. \/ Service!Refusal(Shown(r)')
      \/ Service!Success(Shown(r)', seen[r] \ {NoFile})
  BY <1>2, <1>4 DEF Kept, Service!Refusal, Service!Success
<1>7. QED
  BY <1>2, <1>3, <1>4, <1>5, <1>6 DEF Service!Answer, Shown

LEMMA FailIsService ==
    ASSUME AnswerInv, NEW r \in Requests, Serve(r), step'[r] = "raised"
    PROVE  Service!Fail(r)
<1>1. Own(r) /\ Serving(r) /\ seen' = seen
  BY StepIsOwn, ServeMoves DEF AnswerInv
<1>2. /\ Phase(r) = "pending" /\ Phase(r)' = "raised"
      /\ Shown(r) = None /\ Shown(r)' = None
  BY <1>1 DEF Phase, Shown, Answered, At, Serving
<1>3. \A q \in Requests \ {r} : Phase(q)' = Phase(q) /\ Shown(q)' = Shown(q)
  BY <1>1, UnservedIsUnseen DEF Own
<1>4. instance' \in {instance, None}
  <2>1. DOMAIN step = Requests
    BY DEF AnswerInv, RunInv, Domains
  <2>2. QED
    BY <2>1, OpensOrLetsGo
<1>5. \A q \in Requests : Shown(q)' = Shown(q)
  BY <1>2, <1>3
<1>6. QED
  BY <1>1, <1>2, <1>3, <1>4, <1>5 DEF Own, Service!Fail, Shown

\* In between, a request may be the one for which the file is opened.
LEMMA QuietIsService ==
    ASSUME AnswerInv, NEW r \in Requests, Serve(r), ~Answered(r)', step'[r] # "raised"
    PROVE  Service!Open \/ UNCHANGED Service!svars
<1>1. Own(r) /\ Serving(r) /\ seen' = seen /\ step'[r] # "idle"
  BY StepIsOwn, ServeMoves DEF AnswerInv
<1>2. Phase(r)' = Phase(r) /\ Shown(r)' = Shown(r)
  BY <1>1 DEF Phase, Shown, Answered, At, Serving
<1>3. \A q \in Requests : Phase(q)' = Phase(q) /\ Shown(q)' = Shown(q)
  BY <1>1, <1>2, UnservedIsUnseen DEF Own
<1>4. \/ instance' = instance
      \/ instance = None /\ warehouse # NoFile /\ instance' = warehouse
  <2>1. CASE OpenReadonly(r)
    BY <2>1 DEF OpenReadonly, Connected
  <2>2. CASE CloseConnection(r)
    <3>1. step'[r] \in {"answered", "raised"}
      BY <2>2 DEF CloseConnection, Conclude, Goto, AnswerInv, RunInv, Domains
    <3>2. QED
      BY <3>1 DEF Answered, At
  <2>3. QED
    BY <2>1, <2>2, OpensOrLetsGo
<1>5. CASE instance' = instance
  BY <1>1, <1>3, <1>5 DEF Own, Service!svars, Shown
<1>6. CASE instance = None /\ warehouse # NoFile /\ instance' = warehouse
  BY <1>1, <1>3, <1>6 DEF Own, Service!Open, Shown
<1>7. QED
  BY <1>4, <1>5, <1>6

LEMMA UnchangedIsUnseen ==
    ASSUME UNCHANGED localVars
    PROVE  \A q \in Requests : Phase(q)' = Phase(q) /\ Shown(q)' = Shown(q)
  BY DEF localVars, Phase, Serving, Shown, Answered, At, Response, ToAskResponse, StatusOf

LEMMA ElsewhereIsService ==
    ASSUME Elsewhere \/ UNCHANGED vars
    PROVE  Service!Change \/ Service!Open \/ Service!Close \/ UNCHANGED Service!svars
<1>1. \A q \in Requests : Phase(q)' = Phase(q) /\ Shown(q)' = Shown(q)
  BY UnchangedIsUnseen DEF Elsewhere, WarehouseChanges, ProbeOpens, ProbeCloses, vars
<1>2. CASE WarehouseChanges
  <2>1. \A q \in Requests : Serving(q) <=> Phase(q) = "pending"
    BY DEF Serving, Phase
  <2>2. QED
    BY <1>1, <1>2, <2>1 DEF WarehouseChanges, Service!Change, Shown, dbVars
<1>3. CASE ProbeOpens
  <2>1. /\ UNCHANGED <<warehouse, known, seen>>
        /\ \/ instance' = instance
           \/ instance = None /\ warehouse # NoFile /\ instance' = warehouse
    BY <1>3 DEF ProbeOpens, Connected, fileVars
  <2>2. QED
    BY <1>1, <2>1 DEF Service!Open, Service!svars, Shown
<1>4. CASE ProbeCloses
  <2>1. UNCHANGED <<warehouse, known, seen>> /\ instance' \in {instance, None}
    BY <1>4 DEF ProbeCloses, fileVars
  <2>2. QED
    BY <1>1, <2>1 DEF Service!Close, Service!svars, Shown
<1>5. CASE UNCHANGED vars
  BY <1>1, <1>5 DEF vars, dbVars, fileVars, Service!svars, Shown
<1>6. QED
  BY <1>2, <1>3, <1>4, <1>5 DEF Elsewhere

\* POST /v1/ask keeps the promise of AskService: a question is answered at most
\* once, with a refusal that claims nothing or with a bounded prefix of what one
\* approved statement yields on a content that the file had meanwhile, or that the
\* process had open already when the question came; for any number of concurrent
\* questions and probes, and any changes of the file.
THEOREM PipelineImplementsService == Spec => ImplementsService
<1> DEFINE AllKept == \A r \in Requests : Kept(r)
<1>1. AnswerInv => AllKept
  BY PromiseKept
<1>2. Spec => [](AnswerInv /\ AllKept)
  BY <1>1, AnswerInvInductive, PTL
<1>3. ASSUME AnswerInv, AllKept', [Next]_vars
      PROVE  [Service!Next]_Service!svars
  <2>1. ASSUME NEW r \in Requests, Submit(r) PROVE Service!Next
    BY <1>3, <2>1, SubmitIsService DEF Service!Next
  <2>2. ASSUME NEW r \in Requests, Serve(r) PROVE [Service!Next]_Service!svars
    <3>1. CASE Answered(r)'
      BY <1>3, <2>2, <3>1, AnswerIsService DEF Service!Next
    <3>2. CASE step'[r] = "raised"
      BY <1>3, <2>2, <3>2, FailIsService DEF Service!Next
    <3>3. CASE ~Answered(r)' /\ step'[r] # "raised"
      BY <1>3, <2>2, <3>3, QuietIsService DEF Service!Next
    <3>4. QED
      BY <3>1, <3>2, <3>3
  <2>3. CASE Elsewhere \/ UNCHANGED vars
    BY <2>3, ElsewhereIsService DEF Service!Next
  <2>4. QED
    BY <1>3, <2>1, <2>2, <2>3 DEF Next, Elsewhere
<1> HIDE DEF AllKept
<1>4. Spec => Service!Spec
  BY <1>2, <1>3, InitIsService, PTL DEF Spec, Service!Spec
<1>5. QED
  BY <1>4 DEF ImplementsService
==============================================================================
