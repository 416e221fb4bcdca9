------------------------------ MODULE QuotaWindow ------------------------------
(***************************************************************************)
(* The promise of the fixed-window rate limiter, stated atomically: the    *)
(* docstring of FixedWindowRateLimiter ("deterministic per-key fixed-      *)
(* window") and ADR-012.  No thread, no local copy, no stored counter:     *)
(* `used` is the number of requests really admitted.                       *)
(***************************************************************************)
EXTENDS Integers

CONSTANTS Callers, Keys, MaxRequests, Window, MaxTime

VARIABLES
    window,  \* [Keys -> [start, used]]: the current window of each client
    reply    \* [Callers -> verdict]: the latest answer to each caller

qvars == <<window, reply>>

Init ==
    /\ window = [k \in Keys |-> [start |-> 0, used |-> 0]]
    /\ reply = [c \in Callers |-> "none"]

Answer(c, v) == reply' = [reply EXCEPT ![c] = v]

\* A caller comes back, or is turned away before the meter is consulted.
Begin(c) == Answer(c, "none") /\ UNCHANGED window
TurnAway(c) == (Answer(c, "unauthorised") \/ Answer(c, "raised")) /\ UNCHANGED window
Bypass(c) == MaxRequests <= 0 /\ Answer(c, "admitted") /\ UNCHANGED window

\* The first request of a client, or the first after its window has ended.
Open(c, k, at) ==
    /\ MaxRequests > 0
    /\ window[k].used = 0 \/ at - window[k].start >= Window
    /\ window' = [window EXCEPT ![k] = [start |-> at, used |-> 1]]
    /\ Answer(c, "admitted")

Spend(c, k) ==
    /\ window[k].used \in 1 .. (MaxRequests - 1)
    /\ window' = [window EXCEPT ![k].used = @ + 1]
    /\ Answer(c, "admitted")

Refuse(c, k) ==
    /\ MaxRequests > 0
    /\ window[k].used = MaxRequests
    /\ Answer(c, "denied")
    /\ UNCHANGED window

\* A restart ends every window, and every caller comes back later.
Forget == Init'

Next ==
    \/ Forget
    \/ \E c \in Callers :
         \/ Begin(c) \/ TurnAway(c) \/ Bypass(c)
         \/ \E k \in Keys :
              \/ \E at \in 0 .. MaxTime : Open(c, k, at)
              \/ Spend(c, k)
              \/ Refuse(c, k)

Spec == Init /\ [][Next]_qvars
=============================================================================
