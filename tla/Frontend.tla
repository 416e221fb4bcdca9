------------------------------ MODULE Frontend ------------------------------
(***************************************************************************)
(* One session of the Streamlit page (frontend/streamlit_app.py) and its   *)
(* HTTP client (frontend/api_client.py).                                   *)
(*                                                                         *)
(* Streamlit is external.  It runs the script from the top for each event  *)
(* of the browser, with session_state kept between runs.  An event that    *)
(* comes while the script runs ends that run at its next use of `st`, and  *)
(* a new run begins; the blocking call of httpx is not such a use.  What   *)
(* the browser shows stays as the last run drew it.                        *)
(***************************************************************************)
EXTENDS Naturals, Sequences

CONSTANT MaxEvents  \* bound of the model: events of the browser

ASSUME FrontendAssumption == MaxEvents \in Nat

VARIABLES
    phase,      \* st.session_state["phase"]
    transcript, \* st.session_state["transcript"]
    script,     \* where the current run of the script is
    clicked,    \* is the current run the one of a click on Ask
    enabled,    \* is the Ask button that the browser shows enabled
    pending,    \* event for the script: "none", "rerun", "click"
    backend,    \* what became of each call, in the order of the calls
    outcome,    \* what api.ask returned to the current run
    events      \* counter for the bound

vars == <<phase, transcript, script, clicked, enabled, pending, backend, outcome, events>>

Statuses == {"success", "no_query", "validation_rejected", "execution_failed", "api_error"}
TransportErrors == {"timeout", "network", "bad_response"}

\* An ApiResult by its status, or an ApiError by its kind.
AskOutcome == Statuses \cup TransportErrors

\* The backend has not got the call yet, works on it, has sent one of Statuses,
\* or has answered with another HTTP status or a body that is no AskResponse.
\* (No backend sends JSON that is not an object, which _parse would not catch.)
BackendStates == {"unreached", "working", "unusable"} \cup Statuses

This == Len(backend)    \* the latest call

Init ==
    /\ phase = "idle" /\ transcript = <<>>
    /\ script = "stopped" /\ clicked = FALSE
    /\ enabled = FALSE /\ pending = "rerun"
    /\ backend = <<>> /\ outcome = "none" /\ events = 0
-----------------------------------------------------------------------------
(***************************************************************************)
(* The browser.                                                            *)
(***************************************************************************)
Event ==
    /\ events < MaxEvents
    /\ events' = events + 1
    /\ UNCHANGED <<phase, transcript, script, clicked, enabled, backend, outcome>>

Click == enabled /\ Event /\ pending' = "click"

\* The question is edited, the page is refreshed by a hot key, ...  A click
\* that is still waiting is kept.
Rerun == Event /\ pending' = IF pending = "click" THEN "click" ELSE "rerun"
-----------------------------------------------------------------------------
(***************************************************************************)
(* The script.                                                             *)
(***************************************************************************)
FromTheTop ==
    /\ pending # "none"
    /\ script' = "header"
    /\ clicked' = (pending = "click")
    /\ pending' = "none"
    /\ outcome' = "none"
    /\ UNCHANGED <<phase, transcript, enabled, backend, events>>

BeginRun == script = "stopped" /\ FromTheTop

Interrupted == script \notin {"stopped", "calling"} /\ FromTheTop

\* Up to the next use of `st`, from which the run goes on only undisturbed.
Step(from, to) == script = from /\ pending = "none" /\ script' = to

\* ready() parses the body outside its try, and so does _fetch_version for all
\* but HTTP errors: a body that is no JSON ends the run with an exception, and
\* the page is left without a button.
HeaderRaises ==
    /\ Step("header", "stopped")
    /\ enabled' = FALSE
    /\ UNCHANGED <<phase, transcript, clicked, pending, backend, outcome, events>>

\* Mutant: the phase is not asked before the question is sent.
DrawInputAnyPhase(blank) ==
    LET submits == clicked /\ ~blank IN
    /\ Step("header", IF submits THEN "submitted" ELSE "stopped")
    /\ enabled' = ~blank
    /\ phase' = IF submits THEN "waiting" ELSE phase
    /\ UNCHANGED <<transcript, clicked, pending, backend, outcome, events>>

\* Mutant: the phase stays idle while the call is out.
DrawInputStaysIdle(blank) ==
    LET idle == phase = "idle" IN
    /\ Step("header", IF clicked /\ idle /\ ~blank THEN "submitted" ELSE "stopped")
    /\ enabled' = (idle /\ ~blank)
    /\ UNCHANGED <<phase, transcript, clicked, pending, backend, outcome, events>>

\* The input and the button, drawn by the phase as it is before the submission.
DrawInput(blank) ==
    LET idle == phase = "idle"
        submits == clicked /\ idle /\ ~blank
    IN  /\ Step("header", IF submits THEN "submitted" ELSE "stopped")
        /\ enabled' = (idle /\ ~blank)
        /\ phase' = IF submits THEN "waiting" ELSE phase
        /\ UNCHANGED <<transcript, clicked, pending, backend, outcome, events>>

\* The spinner is drawn and api.ask sends the question.
StartCall ==
    /\ Step("submitted", "calling")
    /\ backend' = Append(backend, "unreached")
    /\ UNCHANGED <<phase, transcript, clicked, enabled, pending, outcome, events>>

\* The backend takes a call, even one the client has given up, and ends it.
BackendTakes(n) ==
    /\ backend[n] = "unreached"
    /\ backend' = [backend EXCEPT ![n] = "working"]
    /\ UNCHANGED <<phase, transcript, script, clicked, enabled, pending, outcome, events>>

BackendReplies(n) ==
    /\ backend[n] = "working"
    /\ \E reply \in Statuses \cup {"unusable"} : backend' = [backend EXCEPT ![n] = reply]
    /\ UNCHANGED <<phase, transcript, script, clicked, enabled, pending, outcome, events>>

\* Mutant: an unusable reply is shown as an answer of the assistant.
AskOutcomesUnchecked(call) ==
    CASE call \in {"unreached", "working"} -> {"timeout", "network"}
      [] call = "unusable" -> {"api_error"}
      [] OTHER -> {call}

\* ask and _parse: what may be returned for a call in this state.
AskOutcomes(call) ==
    CASE call \in {"unreached", "working"} -> {"timeout", "network"}
      [] call = "unusable" -> {"bad_response"}
      [] OTHER -> {call}

CallReturns ==
    /\ script = "calling"
    /\ outcome' \in AskOutcomes(backend[This])
    /\ script' = "answered"
    /\ UNCHANGED <<phase, transcript, clicked, enabled, pending, backend, events>>

RecordOutcome ==
    /\ Step("answered", "recorded")
    /\ transcript' = Append(transcript, [call |-> This, outcome |-> outcome])
    /\ UNCHANGED <<phase, clicked, enabled, pending, backend, outcome, events>>

\* Mutant: only an answer leads back to Idle.
ResetPhaseIfAnswered ==
    /\ Step("recorded", "stopped")
    /\ phase' = IF outcome \in Statuses THEN "idle" ELSE phase
    /\ UNCHANGED <<transcript, clicked, enabled, pending, backend, outcome, events>>

\* The rest of the run renders the transcript and changes no state.
ResetPhase ==
    /\ Step("recorded", "stopped")
    /\ phase' = "idle"
    /\ UNCHANGED <<transcript, clicked, enabled, pending, backend, outcome, events>>

Script ==
    \/ BeginRun \/ Interrupted \/ HeaderRaises
    \/ \E blank \in BOOLEAN : DrawInput(blank)
    \/ StartCall \/ CallReturns \/ RecordOutcome \/ ResetPhase

Next ==
    \/ Click \/ Rerun \/ Script
    \/ \E n \in DOMAIN backend : BackendTakes(n) \/ BackendReplies(n)

\* Streamlit runs the script, and httpx ends a call at its timeout.  Nothing is
\* assumed of the user or of the backend.
Spec == Init /\ [][Next]_vars /\ WF_vars(Script)
-----------------------------------------------------------------------------
(***************************************************************************)
(* render_result and render_transport_error: what an entry claims.         *)
(***************************************************************************)
ClaimsExecuted(entry) == entry.outcome = "success"
ClaimsUnreachable(entry) == entry.outcome \in TransportErrors

Working == {n \in DOMAIN backend : backend[n] = "working"}
GivenUp == {n \in DOMAIN transcript : transcript[n].outcome \in {"timeout", "network"}}

\* Every variable has its type, and a run that is past the submission finds the
\* session waiting.
TypeOK ==
    /\ phase \in {"idle", "waiting"}
    /\ script \in {"stopped", "header", "submitted", "calling", "answered", "recorded"}
    /\ script \notin {"stopped", "header"} => phase = "waiting"
    /\ clicked \in BOOLEAN /\ enabled \in BOOLEAN
    /\ pending \in {"none", "rerun", "click"}
    /\ backend \in Seq(BackendStates)
    /\ transcript \in Seq([call : Nat, outcome : AskOutcome])
    /\ outcome \in {"none"} \cup AskOutcome

\* However clicks, edits and interruptions fall, an idle session shows one entry
\* for each question it ever sent, in the order they were sent: a question is
\* never sent twice for one entry, and no outcome is dropped silently.
EveryCallAccounted ==
    /\ phase = "idle" => Len(transcript) = Len(backend)
    /\ Len(backend) - Len(transcript) \in {0, 1}
    /\ \A i \in DOMAIN transcript : transcript[i].call = i

\* The page calls SQL executed only if the backend reported its success, shows a
\* refusal of the backend as that refusal, and a failure of the transport never
\* as an outcome of the assistant.
TranscriptHonest ==
    \A i \in DOMAIN transcript :
        LET entry == transcript[i] IN
        /\ ClaimsExecuted(entry) => backend[entry.call] = "success"
        /\ ~ClaimsUnreachable(entry) => backend[entry.call] = entry.outcome
        /\ entry.outcome = "bad_response" => backend[entry.call] = "unusable"

\* Duplicate spend is bounded: the backend works on no more questions of the
\* session than it gave up on, and the one it waits for.
SpendBounded ==
    \A n \in Working : (n = This /\ phase = "waiting") \/ n \in GivenUp

\* A user who leaves the page alone while the script runs gets back to Idle.
UndisturbedWaitEnds ==
    [](script # "stopped" => pending = "none") => (phase = "waiting" ~> phase = "idle")

\* The header of streamlit_app.py: Idle, Submitting, Waiting, Response, Idle.
WaitingEnds == phase = "waiting" ~> phase = "idle"
=============================================================================
