------------------------------ MODULE LLMClient ------------------------------
(***************************************************************************)
(* One OpenAIClient.propose_query (app/llm/client.py): the timeout the     *)
(* repository owns, the attempts the SDK makes with it, and the walk over  *)
(* the output of the response.                                             *)
(*                                                                         *)
(* The SDK and the provider are external.  The client is built without     *)
(* max_retries, so the SDK repeats an attempt that timed out or met a      *)
(* transient error, MaxRetries times, after a pause.  httpx applies the    *)
(* timeout to each wait of an attempt (to connect, to write, and for every *)
(* piece that is read), so an attempt lasts as long as the provider keeps  *)
(* giving signs of life.                                                   *)
(***************************************************************************)
EXTENDS Integers, Sequences, FiniteSetsExt, SequencesExt

CONSTANTS
    Unset, Garbage, \* OPENAI_TIMEOUT_SECONDS is absent or blank; is no number
    Values, Infinity, \* the finite numbers it may be; "inf" is a number, too
    DefaultTimeout, \* DEFAULT_TIMEOUT_SECONDS
    MaxRetries, \* the SDK's default, 2
    Backoff,    \* the longest pause before another attempt
    MaxPieces,  \* bound of the model: signs of life in one attempt
    Horizon,    \* bound of the model: a wait without any timeout, if it ends
    MaxItems    \* bound of the model: output items of a response

ASSUME LLMClientAssumption ==
    /\ Values \subseteq Int /\ Unset \notin Values /\ Garbage \notin Values
    /\ Infinity \notin Int \cup {Unset, Garbage}
    /\ DefaultTimeout \in Nat \ {0}
    /\ MaxRetries \in Nat /\ Backoff \in Nat
    /\ MaxPieces \in Nat /\ Horizon \in Nat /\ MaxItems \in Nat

VARIABLES
    raw,        \* the environment variable
    timeout,    \* self._timeout
    stage,      \* "unbuilt", "ready", "calling", "pausing", "answered", "done"
    attempts,   \* attempts sent to the provider
    pieces,     \* signs of life in this attempt
    elapsed,    \* time since propose_query was called
    output,     \* response.output
    outcome,    \* "none", "proposed", "LLMError", "LLMTimeoutError"
    proposal    \* the ProposedQuery

vars == <<raw, timeout, stage, attempts, pieces, elapsed, output, outcome, proposal>>

\* A run_query call whose sql is a text ("sql"), a blank text ("blank") or no
\* text ("no_sql"), or whose arguments are no JSON object ("malformed"); a call
\* of another tool; a message with and without text.
Items == {"sql", "blank", "no_sql", "malformed", "other_call", "text", "silence"}
RunQueryItems == {"sql", "blank", "no_sql", "malformed"}

\* Mutant: a number is taken as it is.
ResolveTimeoutUnchecked(setting) ==
    IF setting \in Values \cup {Infinity} THEN setting ELSE DefaultTimeout

\* `value > 0` holds of infinity; it does not of "-inf" and "nan".
Positive(setting) == setting = Infinity \/ (setting \in Values /\ setting > 0)

ResolveTimeout(setting) == IF Positive(setting) THEN setting ELSE DefaultTimeout

Init ==
    /\ raw \in Values \cup {Infinity, Unset, Garbage}
    /\ timeout = 0
    /\ stage = "unbuilt"
    /\ attempts = 0 /\ pieces = 0 /\ elapsed = 0
    /\ output = <<>>
    /\ outcome = "none"
    /\ proposal = [sql |-> 0, hasQuery |-> FALSE, message |-> FALSE]
-----------------------------------------------------------------------------
Build ==
    /\ stage = "unbuilt"
    /\ timeout' = ResolveTimeout(raw)
    /\ stage' = "ready"
    /\ UNCHANGED <<raw, attempts, pieces, elapsed, output, outcome, proposal>>

\* Mutant: what was to be repeated never is.
SendOnce ==
    /\ stage = "ready"
    /\ attempts' = attempts + 1
    /\ stage' = "calling"
    /\ UNCHANGED <<raw, timeout, pieces, elapsed, output, outcome, proposal>>

\* responses.create: the first attempt at once, another after a pause.
Send ==
    /\ stage \in {"ready", "pausing"}
    /\ attempts' = attempts + 1
    /\ pieces' = 0
    /\ stage' = "calling"
    /\ elapsed' \in elapsed .. elapsed + (IF stage = "pausing" THEN Backoff ELSE 0)
    /\ UNCHANGED <<raw, timeout, output, outcome, proposal>>

Raise(error) == stage' = "done" /\ outcome' = error

\* Mutant: the last attempt may be repeated too.
RetryOnceMore(error) ==
    IF attempts <= MaxRetries + 1
      THEN stage' = "pausing" /\ UNCHANGED outcome
      ELSE Raise(error)

RetryOrRaise(error) ==
    IF attempts <= MaxRetries
      THEN stage' = "pausing" /\ UNCHANGED outcome
      ELSE Raise(error)

\* How long a wait may be that ends before the timeout.
Longest == IF timeout = Infinity THEN Horizon ELSE timeout
Wait == elapsed' \in elapsed .. elapsed + Longest

\* The connection, or a piece of the response: the clock starts anew.
Progress ==
    /\ stage = "calling" /\ pieces < MaxPieces
    /\ pieces' = pieces + 1
    /\ Wait
    /\ UNCHANGED <<raw, timeout, stage, attempts, output, outcome, proposal>>

\* The provider has been silent for `timeout`: APITimeoutError in the end.
AttemptTimesOut ==
    /\ stage = "calling" /\ timeout # Infinity
    /\ elapsed' = elapsed + timeout
    /\ RetryOrRaise("LLMTimeoutError")
    /\ UNCHANGED <<raw, timeout, attempts, pieces, output, proposal>>

\* A connection error, a rate limit or a server error; for a socket, an infinite
\* timeout is one, too.
AttemptFails ==
    /\ stage = "calling"
    /\ Wait
    /\ RetryOrRaise("LLMError")
    /\ UNCHANGED <<raw, timeout, attempts, pieces, output, proposal>>

\* Any other exception, which the SDK does not retry.
ProviderRefuses ==
    /\ stage = "calling"
    /\ Wait
    /\ Raise("LLMError")
    /\ UNCHANGED <<raw, timeout, attempts, pieces, output, proposal>>

ProviderAnswers ==
    /\ stage = "calling"
    /\ Wait
    /\ output' \in SeqOf(Items, MaxItems)
    /\ stage' = "answered"
    /\ UNCHANGED <<raw, timeout, attempts, pieces, outcome, proposal>>
-----------------------------------------------------------------------------
(***************************************************************************)
(* The walk.  `sql` is the item whose SQL is held, 0 for None.             *)
(***************************************************************************)
\* Mutant: an item without SQL drops what an earlier one gave.
VisitDropping(items, i, sql) ==
    CASE items[i] \in {"sql", "blank"} -> i
      [] items[i] \in {"malformed", "no_sql"} -> 0
      [] OTHER -> sql

Visit(items, i, sql) ==
    CASE items[i] \in {"sql", "blank"} -> i
      [] items[i] = "malformed" -> 0
      [] OTHER -> sql

WalkedSql(items) ==
    FoldLeft(LAMBDA sql, i : Visit(items, i, sql), 0, [i \in DOMAIN items |-> i])

HasQuery(items, sql) == sql # 0 /\ items[sql] # "blank"

Extract ==
    /\ stage = "answered"
    /\ stage' = "done"
    /\ outcome' = "proposed"
    /\ LET sql == WalkedSql(output) IN
       proposal' = [sql |-> sql, hasQuery |-> HasQuery(output, sql),
                    message |-> Contains(output, "text")]
    /\ UNCHANGED <<raw, timeout, attempts, pieces, elapsed, output>>

Next ==
    \/ Build \/ Send \/ Progress \/ AttemptTimesOut \/ AttemptFails \/ ProviderRefuses
    \/ ProviderAnswers \/ Extract

\* The client's own steps, and the clock of the SDK.  The provider owes nothing.
Fairness == WF_vars(Build) /\ WF_vars(Send) /\ WF_vars(AttemptTimesOut) /\ WF_vars(Extract)

Spec == Init /\ [][Next]_vars /\ Fairness
-----------------------------------------------------------------------------
TypeOK ==
    /\ stage \in {"unbuilt", "ready", "calling", "pausing", "answered", "done"}
    /\ stage # "unbuilt" => timeout \in (Nat \ {0}) \cup {Infinity}
    /\ attempts \in 0 .. MaxRetries + 1 /\ pieces \in 0 .. MaxPieces /\ elapsed \in Nat
    /\ stage = "done" <=> outcome # "none"

\* Unless the environment says "inf", a call costs at most MaxRetries + 1 attempts
\* of MaxPieces + 1 waits each, none of them longer than the timeout, and the
\* pauses between the attempts; and a timeout is raised only after the provider
\* had that time once in full.  No other value makes the client give up at once.
CallTimeBounded ==
    LET patience == IF raw \in Values \cap (Nat \ {0}) THEN raw ELSE DefaultTimeout
        attempt == (MaxPieces + 1) * patience
    IN  raw # Infinity =>
          /\ elapsed <= (MaxRetries + 1) * attempt + MaxRetries * Backoff
          /\ outcome = "LLMTimeoutError" => elapsed >= patience

\* The SQL is that of the last run_query call that says anything about it: what
\* other tools, prose and calls without SQL say never becomes or erases a query.
LastWordWins ==
    outcome = "proposed" =>
      LET telling == {i \in DOMAIN output : output[i] \in RunQueryItems \ {"no_sql"}}
          last == Max(telling \cup {0})
      IN  /\ proposal.hasQuery <=> last # 0 /\ output[last] = "sql"
          /\ proposal.sql \in {0, last}

\* Whatever the provider does, or fails to do, the call returns or raises, after
\* however many repeats: unless the client has no timeout.
CallEnds == stage = "ready" /\ timeout # Infinity ~> stage = "done"
=============================================================================
