------------------------------ MODULE AccessGuard ------------------------------
(***************************************************************************)
(* The Deployment Access Guard of POST /v1/ask (app/api/access_guard.py):  *)
(* the optional demo token followed by the fixed-window rate limiter.      *)
(*                                                                         *)
(* enforce_deployment_guard is a synchronous FastAPI dependency, so every  *)
(* request runs it in a thread of the server's pool.  The limiter takes no *)
(* lock: reading the clock, reading the entry of the key and writing it    *)
(* back are three steps, and other threads run between them.  The state is *)
(* in memory: when the process restarts, it is gone, and so are the calls. *)
(***************************************************************************)
EXTENDS Integers

CONSTANTS
    Threads,          \* pool threads that run the guard
    Keys,             \* client keys (client_key: first forwarded hop, or peer)
    MaxRequests,      \* RATE_LIMIT_MAX_REQUESTS; not positive disables the limiter
    Window,           \* RATE_LIMIT_WINDOW_SECONDS, in ticks of the clock
    TokenConfigured,  \* is SOLSTICE_DEMO_TOKEN set to a non-empty string
    MaxTime,          \* bound of the model: the last tick of the clock
    MaxCalls,         \* bound of the model: calls made by each thread
    MaxRestarts       \* bound of the model: restarts of the process

ASSUME GuardAssumption ==
    /\ MaxRequests \in Int
    /\ Window \in Int
    /\ TokenConfigured \in BOOLEAN
    /\ MaxTime \in Nat
    /\ MaxCalls \in Nat
    /\ MaxRestarts \in Nat

VARIABLES
    now,         \* time.monotonic()
    state,       \* _state: key -> (window start, count)
    pc,          \* where each thread is in check/allow
    key,         \* the key of the call a thread is serving
    seen,        \* allow's local `now`
    entry,       \* allow's local `entry`
    verdict,     \* how the last call of a thread ended
    calls,       \* calls made so far, for the bound MaxCalls
    charged,     \* history: admissions of a key charged to a window start, by
                 \* this process
    admittedAt,  \* history: admissions of a key by the clock value they read
    authorised,  \* history: keys some caller presented a good token for
    restarts     \* history: restarts of the process

local == <<pc, key, seen, entry, verdict, calls>>
history == <<charged, admittedAt, authorised, restarts>>
vars == <<now, state, local, history>>

Time == 0 .. MaxTime

\* A missing entry of the dictionary is written as a count of 0: the code never
\* stores a count below 1.
Entry == [start : Time, count : Nat]
NoEntry == [start |-> 0, count |-> 0]

\* A token with a character outside ASCII, when it or the configured one has any,
\* is one that secrets.compare_digest cannot read.
Tokens == {"valid", "missing_or_wrong", "unreadable"}
Verdicts == {"none", "admitted", "denied", "unauthorised", "raised"}

Init ==
    /\ now = 0
    /\ state = [k \in Keys |-> NoEntry]
    /\ pc = [t \in Threads |-> "idle"]
    /\ key \in [Threads -> Keys]
    /\ seen = [t \in Threads |-> 0]
    /\ entry = [t \in Threads |-> NoEntry]
    /\ verdict = [t \in Threads |-> "none"]
    /\ calls = [t \in Threads |-> 0]
    /\ charged = [k \in Keys |-> [s \in Time |-> 0]]
    /\ admittedAt = [k \in Keys |-> [s \in Time |-> 0]]
    /\ authorised = {}
    /\ restarts = 0
-----------------------------------------------------------------------------
Goto(t, label) == pc' = [pc EXCEPT ![t] = label]

Return(t, v) ==
    /\ Goto(t, "idle")
    /\ verdict' = [verdict EXCEPT ![t] = v]

(***************************************************************************)
(* A request reaches the guard: the token is compared before the limiter   *)
(* is asked, and a disabled limiter admits without looking at its state.   *)
(* The comparison may raise a TypeError, which no handler turns into a 401.*)
(***************************************************************************)
NewCall(t, k) ==
    /\ pc[t] = "idle"
    /\ calls[t] < MaxCalls
    /\ calls' = [calls EXCEPT ![t] = @ + 1]
    /\ key' = [key EXCEPT ![t] = k]
    /\ UNCHANGED <<now, state, seen, entry, charged, admittedAt, restarts>>

TokenOK(token) == TokenConfigured => token = "valid"
Rejection(token) == IF token = "unreadable" THEN "raised" ELSE "unauthorised"

\* Mutant: no early return, the token is compared after the limiter.
CheckLimiterFirst(t, k, token) ==
    /\ NewCall(t, k)
    /\ authorised' = authorised \cup {c \in {k} : TokenOK(token)}
    /\ Goto(t, "clock")
    /\ verdict' = [verdict EXCEPT ![t] = "none"]

Check(t, k, token) ==
    /\ NewCall(t, k)
    /\ \/ /\ ~TokenOK(token)
          /\ Return(t, Rejection(token))
          /\ UNCHANGED authorised
       \/ /\ TokenOK(token)
          /\ authorised' = authorised \cup {k}
          /\ IF MaxRequests <= 0
               THEN Return(t, "admitted")
               ELSE /\ Goto(t, "clock")
                    /\ verdict' = [verdict EXCEPT ![t] = "none"]

\* Mutant: the clock is rounded up.
ReadClockCeiling(t) ==
    /\ pc[t] = "clock"
    /\ seen' = [seen EXCEPT ![t] = now + 1]
    /\ Goto(t, "lookup")
    /\ UNCHANGED <<now, state, key, entry, verdict, calls, history>>

\* now = self._now()
ReadClock(t) ==
    /\ pc[t] = "clock"
    /\ seen' = [seen EXCEPT ![t] = now]
    /\ Goto(t, "lookup")
    /\ UNCHANGED <<now, state, key, entry, verdict, calls, history>>

\* entry = self._state.get(key)
Lookup(t) ==
    /\ pc[t] = "lookup"
    /\ entry' = [entry EXCEPT ![t] = state[key[t]]]
    /\ Goto(t, "decide")
    /\ UNCHANGED <<now, state, key, seen, verdict, calls, history>>

\* Mutants: a window that ends one tick early; the count tested before and
\* after one more increment than the code makes.
ExpiredEarly(e, at) == e.count = 0 \/ at - e.start >= Window - 1
ExhaustedEarly(e) == e.count + 1 >= MaxRequests
ExhaustedLate(e) == e.count > MaxRequests

\* The two tests of allow, on the values the thread holds.
Expired(e, at) == e.count = 0 \/ at - e.start >= Window
Exhausted(e) == e.count >= MaxRequests

Charge(t, start) ==
    /\ charged' = [charged EXCEPT ![key[t]][start] = @ + 1]
    /\ admittedAt' = [admittedAt EXCEPT ![key[t]][seen[t]] = @ + 1]

Store(t, e) ==
    /\ pc[t] = "decide"
    /\ state' = [state EXCEPT ![key[t]] = e]
    /\ Charge(t, e.start)
    /\ Return(t, "admitted")
    /\ UNCHANGED <<now, key, seen, entry, calls, authorised, restarts>>

OpenWindow(t) ==
    /\ Expired(entry[t], seen[t])
    /\ Store(t, [start |-> seen[t], count |-> 1])

CountRequest(t) ==
    /\ ~Expired(entry[t], seen[t])
    /\ ~Exhausted(entry[t])
    /\ Store(t, [start |-> entry[t].start, count |-> entry[t].count + 1])

Deny(t) ==
    /\ pc[t] = "decide"
    /\ ~Expired(entry[t], seen[t])
    /\ Exhausted(entry[t])
    /\ Return(t, "denied")
    /\ UNCHANGED <<now, state, key, seen, entry, calls, history>>

Tick ==
    /\ now < MaxTime
    /\ now' = now + 1
    /\ UNCHANGED <<state, local, history>>

\* __init__ runs again: an empty dictionary, and no thread inside the guard.
Restart ==
    /\ restarts < MaxRestarts
    /\ restarts' = restarts + 1
    /\ state' = [k \in Keys |-> NoEntry]
    /\ pc' = [t \in Threads |-> "idle"]
    /\ seen' = [t \in Threads |-> 0]
    /\ entry' = [t \in Threads |-> NoEntry]
    /\ verdict' = [t \in Threads |-> "none"]
    /\ charged' = [k \in Keys |-> [s \in Time |-> 0]]
    /\ UNCHANGED <<now, key, calls, admittedAt, authorised>>

Next ==
    \/ Tick
    \/ Restart
    \/ \E t \in Threads :
         \/ \E k \in Keys, token \in Tokens : Check(t, k, token)
         \/ ReadClock(t)
         \/ Lookup(t)
         \/ OpenWindow(t)
         \/ CountRequest(t)
         \/ Deny(t)

Spec == Init /\ [][Next]_vars
-----------------------------------------------------------------------------
\* Every variable has its type; the clock values that the threads and the
\* dictionary hold are values the clock may have had.
TypeOK ==
    /\ now \in Time
    /\ state \in [Keys -> Entry]
    /\ pc \in [Threads -> {"idle", "clock", "lookup", "decide"}]
    /\ key \in [Threads -> Keys]
    /\ seen \in [Threads -> Time]
    /\ entry \in [Threads -> Entry]
    /\ verdict \in [Threads -> Verdicts]
    /\ calls \in [Threads -> Nat]
    /\ charged \in [Keys -> [Time -> Nat]]
    /\ admittedAt \in [Keys -> [Time -> Nat]]
    /\ authorised \subseteq Keys
    /\ restarts \in 0 .. MaxRestarts

\* No client is refused early: whoever got a 429 read an entry of a window that
\* was still open and to which at least MaxRequests requests of that same client
\* had really been charged.  Lost updates of the unlocked dictionary must never
\* invent requests.
DenialJustified ==
    \A t \in Threads : verdict[t] = "denied" =>
        /\ seen[t] - entry[t].start < Window
        /\ charged[key[t]][entry[t].start] >= MaxRequests

\* A caller turned away by the token gate costs the client nothing: the limiter
\* holds an entry only for keys that some authorised request used.
UnauthorisedNeverCharged ==
    \A k \in Keys : state[k].count > 0 => k \in authorised

\* The documented quota: at most MaxRequests requests of a client are admitted
\* in one window.
QuotaPerWindow ==
    MaxRequests > 0 => \A k \in Keys, s \in Time : charged[k][s] <= MaxRequests

\* Whatever the alignment of the windows, the requests of a client admitted in
\* any span of Window ticks number at most two quotas less one: a window starts
\* with the request that opens it, so a burst at its end and at the start of the
\* next one never includes both opening requests.  A restart forgets what was
\* admitted, and grants one more quota, but never more than one.
Total(f, span) ==
    LET sum[s \in -1 .. MaxTime] ==
          IF s = -1 THEN 0
          ELSE sum[s - 1] + (IF s \in span THEN f[s] ELSE 0)
    IN sum[MaxTime]

BurstBound ==
    MaxRequests > 0 => \A k \in Keys, s \in Time :
        Total(admittedAt[k], s .. (s + Window - 1)) <= (2 + restarts) * MaxRequests - 1
-----------------------------------------------------------------------------
(***************************************************************************)
(* What the limiter promises: a meter of the requests really admitted in   *)
(* the current window of each client.                                      *)
(***************************************************************************)
Quota == INSTANCE QuotaWindow WITH
    Callers <- Threads,
    window <- [k \in Keys |->
                 [start |-> state[k].start,
                  used |-> IF state[k].count = 0
                             THEN 0 ELSE charged[k][state[k].start]]],
    reply <- verdict

\* Run by one thread at a time, or with the limiter disabled by any number of
\* them, the guard implements the atomic quota meter: it admits only while the
\* window has room or has ended, counts each admission once, never moves a window
\* back, refuses only at the quota, and forgets all windows or none.
ImplementsQuota == Quota!Spec
=============================================================================
