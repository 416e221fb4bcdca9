-------------------------- MODULE AccessGuard_proofs --------------------------
(***************************************************************************)
(* Proofs about AccessGuard, for any number of threads, any set of client  *)
(* keys, any quota and any window: no refusal before its time, nothing     *)
(* charged to callers without the token; and with one thread at a time,    *)
(* the atomic meter of QuotaWindow, the documented quota, and the bound on *)
(* bursts.                                                                 *)
(***************************************************************************)
EXTENDS AccessGuard, WellFoundedInduction, TLAPS

\* Writing back a well-typed entry and charging the request keeps the types.
LEMMA StoreKeepsTypes ==
    ASSUME TypeOK, NEW t \in Threads, NEW e \in Entry, Store(t, e)
    PROVE  TypeOK'
<1> USE DEF TypeOK, Entry
<1>1. PICK k \in Keys, at \in Time : k = key[t] /\ at = seen[t]
  OBVIOUS
<1>2. charged' = [charged EXCEPT ![k] = [charged[k] EXCEPT ![e.start] = charged[k][e.start] + 1]]
  BY <1>1 DEF Store, Charge
<1>3. charged' \in [Keys -> [Time -> Nat]]
  <2>1. [charged[k] EXCEPT ![e.start] = charged[k][e.start] + 1] \in [Time -> Nat]
    OBVIOUS
  <2>2. QED
    BY <1>2, <2>1
<1>4. admittedAt' = [admittedAt EXCEPT ![k] = [admittedAt[k] EXCEPT ![at] = admittedAt[k][at] + 1]]
  BY <1>1 DEF Store, Charge
<1>5. admittedAt' \in [Keys -> [Time -> Nat]]
  <2>1. [admittedAt[k] EXCEPT ![at] = admittedAt[k][at] + 1] \in [Time -> Nat]
    OBVIOUS
  <2>2. QED
    BY <1>4, <2>1
<1>6. state' \in [Keys -> Entry]
  BY DEF Store
<1>7. /\ pc' \in [Threads -> {"idle", "clock", "lookup", "decide"}]
      /\ verdict' \in [Threads -> Verdicts]
  BY DEF Store, Return, Goto, Verdicts
<1>8. QED
  BY <1>3, <1>5, <1>6, <1>7 DEF Store

\* The model's variables keep their types under every interleaving of threads.
THEOREM TypeCorrect == Spec => []TypeOK
<1>1. Init => TypeOK
  BY GuardAssumption DEF Init, TypeOK, Time, Entry, NoEntry, Verdicts
<1>2. TypeOK /\ [Next]_vars => TypeOK'
  <2> SUFFICES ASSUME TypeOK, [Next]_vars PROVE TypeOK'
    OBVIOUS
  <2>1. CASE Tick
    BY <2>1, GuardAssumption DEF Tick, TypeOK, Time, local, history
  <2>2. ASSUME NEW t \in Threads, NEW k \in Keys, NEW token \in Tokens,
               Check(t, k, token)
        PROVE  TypeOK'
    <3>1. /\ key' = [key EXCEPT ![t] = k]
          /\ calls' = [calls EXCEPT ![t] = @ + 1]
          /\ UNCHANGED <<now, state, seen, entry, charged, admittedAt, restarts>>
      BY <2>2 DEF Check, NewCall
    <3>2. /\ pc' \in [Threads -> {"idle", "clock", "lookup", "decide"}]
          /\ verdict' \in [Threads -> Verdicts]
          /\ authorised' \subseteq Keys
      BY <2>2 DEF Check, Return, Goto, Rejection, TypeOK, Verdicts
    <3>3. calls' \in [Threads -> Nat]
      <4>1. calls \in [Threads -> Nat]
        BY DEF TypeOK
      <4>2. QED
        BY <3>1, <4>1
    <3>4. QED
      BY <3>1, <3>2, <3>3 DEF TypeOK
  <2>3. ASSUME NEW t \in Threads, ReadClock(t) PROVE TypeOK'
    BY <2>3 DEF ReadClock, Goto, history, TypeOK
  <2>4. ASSUME NEW t \in Threads, Lookup(t) PROVE TypeOK'
    BY <2>4 DEF Lookup, Goto, history, TypeOK
  <2>5. ASSUME NEW t \in Threads, OpenWindow(t) PROVE TypeOK'
    <3>1. [start |-> seen[t], count |-> 1] \in Entry
      BY DEF TypeOK, Entry
    <3>2. QED
      BY <2>5, <3>1, StoreKeepsTypes DEF OpenWindow
  <2>6. ASSUME NEW t \in Threads, CountRequest(t) PROVE TypeOK'
    <3>1. [start |-> entry[t].start, count |-> entry[t].count + 1] \in Entry
      BY DEF TypeOK, Entry
    <3>2. QED
      BY <2>6, <3>1, StoreKeepsTypes DEF CountRequest
  <2>7. ASSUME NEW t \in Threads, Deny(t) PROVE TypeOK'
    BY <2>7 DEF Deny, Return, Goto, history, TypeOK, Verdicts
  <2>8. CASE UNCHANGED vars
    BY <2>8 DEF vars, local, history, TypeOK
  <2>9. CASE Restart
    <3>1. 0 \in Time /\ NoEntry \in Entry
      BY GuardAssumption DEF Time, Entry, NoEntry
    <3>2. restarts' \in 0 .. MaxRestarts
      BY <2>9, GuardAssumption DEF Restart, TypeOK
    <3>3. /\ state' \in [Keys -> Entry]
          /\ seen' \in [Threads -> Time]
          /\ entry' \in [Threads -> Entry]
          /\ charged' \in [Keys -> [Time -> Nat]]
      BY <2>9, <3>1 DEF Restart
    <3>4. /\ pc' \in [Threads -> {"idle", "clock", "lookup", "decide"}]
          /\ verdict' \in [Threads -> Verdicts]
      BY <2>9 DEF Restart, Verdicts
    <3>5. QED
      BY <2>9, <3>2, <3>3, <3>4 DEF Restart, TypeOK
  <2>10. QED
    BY <2>1, <2>2, <2>3, <2>4, <2>5, <2>6, <2>7, <2>8, <2>9 DEF Next
<1>3. QED
  BY <1>1, <1>2, PTL DEF Spec
-----------------------------------------------------------------------------
(***************************************************************************)
(* What makes DenialJustified inductive: the count of every entry, whether *)
(* it is in the dictionary or in the hands of a thread, is covered by      *)
(* requests really charged to its window (lost updates only lower counts), *)
(* and a call in progress has no answer yet.                               *)
(***************************************************************************)
Covered(k, e) == e.count <= charged[k][e.start]

CountsCovered ==
    /\ \A k \in Keys : Covered(k, state[k])
    /\ \A t \in Threads : pc[t] = "decide" => Covered(key[t], entry[t])

NoAnswerYet == \A t \in Threads : pc[t] # "idle" => verdict[t] = "none"

IInv == TypeOK /\ CountsCovered /\ NoAnswerYet /\ DenialJustified

\* Charging a request keeps every entry that was covered, covered.
LEMMA ChargeCovers ==
    ASSUME TypeOK, NEW t \in Threads, NEW s \in Time, Charge(t, s)
    PROVE  /\ charged'[key[t]][s] = charged[key[t]][s] + 1
           /\ \A k \in Keys, r \in Time : charged[k][r] <= charged'[k][r]
<1>1. PICK k \in Keys : k = key[t]
  BY DEF TypeOK
<1>2. charged \in [Keys -> [Time -> Nat]]
  BY DEF TypeOK
<1>3. charged' = [charged EXCEPT ![k] = [charged[k] EXCEPT ![s] = charged[k][s] + 1]]
  BY <1>1 DEF Charge
<1>4. charged'[k] = [charged[k] EXCEPT ![s] = charged[k][s] + 1]
  BY <1>2, <1>3
<1>5. charged'[k][s] = charged[k][s] + 1
  BY <1>2, <1>4
<1>6. ASSUME NEW j \in Keys, NEW r \in Time PROVE charged[j][r] <= charged'[j][r]
  <2>1. charged[j][r] \in Nat
    BY <1>2
  <2>2. CASE j = k /\ r = s
    BY <1>5, <2>1, <2>2
  <2>3. CASE j = k /\ r # s
    BY <1>2, <1>4, <2>1, <2>3
  <2>4. CASE j # k
    BY <1>2, <1>3, <2>1, <2>4
  <2>5. QED
    BY <2>2, <2>3, <2>4
<1>7. QED
  BY <1>1, <1>5, <1>6

\* Storing an entry whose count the new charge covers preserves IInv.
LEMMA StoreKeepsInv ==
    ASSUME IInv, TypeOK', NEW t \in Threads, NEW e \in Entry, Store(t, e),
           e.count <= charged[key[t]][e.start] + 1
    PROVE  CountsCovered' /\ NoAnswerYet' /\ DenialJustified'
<1> USE DEF IInv
<1>1. /\ charged'[key[t]][e.start] = charged[key[t]][e.start] + 1
      /\ \A k \in Keys, r \in Time : charged[k][r] <= charged'[k][r]
  <2>1. e.start \in Time /\ Charge(t, e.start)
    BY DEF Store, Entry
  <2>2. QED
    BY <2>1, ChargeCovers
<1>2. /\ charged \in [Keys -> [Time -> Nat]] /\ charged' \in [Keys -> [Time -> Nat]]
      /\ MaxRequests \in Int
  BY GuardAssumption DEF TypeOK
<1>3. ASSUME NEW k \in Keys, NEW f \in Entry, Covered(k, f)
      PROVE  f.count <= charged'[k][f.start]
  <2>1. f.start \in Time /\ f.count \in Nat
    BY DEF Entry
  <2>2. charged[k][f.start] \in Nat /\ charged'[k][f.start] \in Nat
    BY <1>2, <2>1
  <2>3. f.count <= charged[k][f.start] /\ charged[k][f.start] <= charged'[k][f.start]
    BY <1>1, <1>3, <2>1 DEF Covered
  <2>4. QED
    BY <2>1, <2>2, <2>3
<1>4. CountsCovered'
  <2>1. ASSUME NEW k \in Keys PROVE Covered(k, state[k])'
    <3>1. CASE k = key[t]
      BY <1>1, <3>1 DEF Store, Covered, TypeOK
    <3>2. CASE k # key[t]
      <4>1. state'[k] = state[k] /\ state[k] \in Entry /\ Covered(k, state[k])
        BY <3>2 DEF Store, TypeOK, CountsCovered
      <4>2. QED
        BY <1>3, <4>1 DEF Covered
    <3>3. QED
      BY <3>1, <3>2
  <2>2. ASSUME NEW u \in Threads, pc'[u] = "decide"
        PROVE  Covered(key[u], entry[u])'
    <3>1. /\ pc[u] = "decide" /\ key'[u] = key[u] /\ entry'[u] = entry[u]
          /\ key[u] \in Keys /\ entry[u] \in Entry
      BY <2>2 DEF Store, Return, Goto, TypeOK
    <3>2. QED
      BY <1>3, <3>1 DEF Covered, CountsCovered
  <2>3. QED
    BY <2>1, <2>2 DEF CountsCovered
<1>5. NoAnswerYet'
  BY DEF NoAnswerYet, Store, Return, Goto, TypeOK
<1>6. DenialJustified'
  <2> SUFFICES ASSUME NEW u \in Threads, verdict'[u] = "denied"
               PROVE  /\ seen'[u] - entry'[u].start < Window
                      /\ charged'[key'[u]][entry'[u].start] >= MaxRequests
    BY DEF DenialJustified
  <2>1. /\ verdict[u] = "denied" /\ key'[u] = key[u] /\ entry'[u] = entry[u]
        /\ seen'[u] = seen[u]
        /\ key[u] \in Keys /\ entry[u].start \in Time
    BY DEF Store, Return, TypeOK, Entry
  <2>2. /\ seen[u] - entry[u].start < Window
        /\ charged[key[u]][entry[u].start] >= MaxRequests
    BY <2>1 DEF DenialJustified
  <2>3. charged[key[u]][entry[u].start] <= charged'[key[u]][entry[u].start]
    BY <1>1, <2>1
  <2>4. charged[key[u]][entry[u].start] \in Nat /\ charged'[key[u]][entry[u].start] \in Nat
    BY <1>2, <2>1
  <2>5. QED
    BY <1>2, <2>1, <2>2, <2>3, <2>4
<1>7. QED
  BY <1>4, <1>5, <1>6

\* IInv holds initially and every step of every thread preserves it.
LEMMA InductiveInvariant == Spec => []IInv
<1>1. Init => IInv
  <2> SUFFICES ASSUME Init PROVE IInv
    OBVIOUS
  <2>1. TypeOK
    BY GuardAssumption DEF Init, TypeOK, Time, Entry, NoEntry, Verdicts
  <2>2. 0 \in Time
    BY GuardAssumption DEF Time
  <2>3. CountsCovered
    BY <2>2 DEF Init, CountsCovered, Covered, NoEntry
  <2>4. QED
    BY <2>1, <2>3 DEF Init, IInv, NoAnswerYet, DenialJustified
<1>2. TypeOK' /\ IInv /\ [Next]_vars => IInv'
  <2> SUFFICES ASSUME TypeOK', IInv, [Next]_vars
               PROVE  CountsCovered' /\ NoAnswerYet' /\ DenialJustified'
    BY DEF IInv
  <2> USE DEF IInv
  <2>1. CASE Tick \/ UNCHANGED vars
    BY <2>1 DEF Tick, vars, local, history, CountsCovered, Covered,
                NoAnswerYet, DenialJustified
  <2>2. ASSUME NEW t \in Threads, NEW k \in Keys, NEW token \in Tokens,
               Check(t, k, token)
        PROVE  CountsCovered' /\ NoAnswerYet' /\ DenialJustified'
    <3>1. /\ key' = [key EXCEPT ![t] = k]
          /\ UNCHANGED <<state, seen, entry, charged>>
      BY <2>2 DEF Check, NewCall
    <3>2. \/ /\ pc' = [pc EXCEPT ![t] = "idle"]
             /\ \/ verdict' = [verdict EXCEPT ![t] = "unauthorised"]
                \/ verdict' = [verdict EXCEPT ![t] = "raised"]
                \/ verdict' = [verdict EXCEPT ![t] = "admitted"]
          \/ /\ pc' = [pc EXCEPT ![t] = "clock"]
             /\ verdict' = [verdict EXCEPT ![t] = "none"]
      BY <2>2 DEF Check, Return, Goto, Rejection
    <3>3. CountsCovered'
      BY <3>1, <3>2 DEF CountsCovered, Covered, TypeOK
    <3>4. NoAnswerYet'
      BY <3>2 DEF NoAnswerYet, TypeOK
    <3>5. DenialJustified'
      BY <3>1, <3>2 DEF DenialJustified, TypeOK
    <3>6. QED
      BY <3>3, <3>4, <3>5
  <2>3. ASSUME NEW t \in Threads, ReadClock(t)
        PROVE  CountsCovered' /\ NoAnswerYet' /\ DenialJustified'
    <3>1. verdict[t] = "none"
      BY <2>3 DEF ReadClock, NoAnswerYet
    <3>2. QED
      BY <2>3, <3>1 DEF ReadClock, Goto, history, CountsCovered, Covered,
                        NoAnswerYet, DenialJustified, TypeOK
  <2>4. ASSUME NEW t \in Threads, Lookup(t)
        PROVE  CountsCovered' /\ NoAnswerYet' /\ DenialJustified'
    <3>1. verdict[t] = "none"
      BY <2>4 DEF Lookup, NoAnswerYet
    <3>2. QED
      BY <2>4, <3>1 DEF Lookup, Goto, history, CountsCovered, Covered,
                        NoAnswerYet, DenialJustified, TypeOK
  <2>5. ASSUME NEW t \in Threads, OpenWindow(t)
        PROVE  CountsCovered' /\ NoAnswerYet' /\ DenialJustified'
    <3>1. /\ [start |-> seen[t], count |-> 1] \in Entry
          /\ charged[key[t]][seen[t]] \in Nat
      BY DEF TypeOK, Entry
    <3>2. QED
      BY <2>5, <3>1, StoreKeepsInv DEF OpenWindow
  <2>6. ASSUME NEW t \in Threads, CountRequest(t)
        PROVE  CountsCovered' /\ NoAnswerYet' /\ DenialJustified'
    <3>1. /\ entry[t].start \in Time /\ entry[t].count \in Nat
          /\ charged[key[t]][entry[t].start] \in Nat
      BY DEF TypeOK, Entry
    <3>2. entry[t].count <= charged[key[t]][entry[t].start]
      BY <2>6 DEF CountRequest, Store, CountsCovered, Covered
    <3>3. [start |-> entry[t].start, count |-> entry[t].count + 1] \in Entry
      BY <3>1 DEF Entry
    <3>4. QED
      BY <2>6, <3>1, <3>2, <3>3, StoreKeepsInv DEF CountRequest
  <2>7. ASSUME NEW t \in Threads, Deny(t)
        PROVE  CountsCovered' /\ NoAnswerYet' /\ DenialJustified'
    <3>1. /\ entry[t].start \in Time /\ entry[t].count \in Nat /\ seen[t] \in Time
          /\ charged[key[t]][entry[t].start] \in Nat
          /\ MaxRequests \in Int /\ Window \in Int /\ MaxTime \in Nat
      BY GuardAssumption DEF TypeOK, Entry
    <3>2. entry[t].count <= charged[key[t]][entry[t].start]
      BY <2>7 DEF Deny, CountsCovered, Covered
    <3>3. /\ seen[t] - entry[t].start < Window
          /\ charged[key[t]][entry[t].start] >= MaxRequests
      BY <2>7, <3>1, <3>2 DEF Deny, Expired, Exhausted, Time
    <3>4. QED
      BY <2>7, <3>3 DEF Deny, Return, Goto, history, CountsCovered, Covered,
                        NoAnswerYet, DenialJustified, TypeOK
  <2>8. CASE Restart
    <3>1. \A k \in Keys : state'[k] = NoEntry /\ charged'[k][NoEntry.start] = 0
      BY <2>8, GuardAssumption DEF Restart, NoEntry, Time
    <3>2. CountsCovered'
      BY <2>8, <3>1 DEF Restart, CountsCovered, Covered, NoEntry
    <3>3. NoAnswerYet' /\ DenialJustified'
      BY <2>8 DEF Restart, NoAnswerYet, DenialJustified
    <3>4. QED
      BY <3>2, <3>3
  <2>9. QED
    BY <2>1, <2>2, <2>3, <2>4, <2>5, <2>6, <2>7, <2>8 DEF Next
<1>3. QED
  BY <1>1, <1>2, TypeCorrect, PTL DEF Spec

(***************************************************************************)
(* No client is ever refused before its quota was really spent in a window *)
(* that was still open, however many threads race on the unlocked          *)
(* dictionary of FixedWindowRateLimiter.allow.                             *)
(***************************************************************************)
THEOREM DenialsAreJustified == Spec => []DenialJustified
<1>1. IInv => DenialJustified
  BY DEF IInv
<1>2. QED
  BY <1>1, InductiveInvariant, PTL
-----------------------------------------------------------------------------
\* A thread is inside the limiter only for a key that passed the token gate.
OnlyAuthorisedInside == \A t \in Threads : pc[t] # "idle" => key[t] \in authorised

(***************************************************************************)
(* The token gate comes before the limiter: no caller without the token    *)
(* ever spends a slot of the key it claims (DeploymentAccessGuard.check).  *)
(***************************************************************************)
THEOREM TokenGateFirst == Spec => []UnauthorisedNeverCharged
<1> DEFINE Inv == UnauthorisedNeverCharged /\ OnlyAuthorisedInside
<1>1. Init => Inv
  BY DEF Init, UnauthorisedNeverCharged, OnlyAuthorisedInside, NoEntry
<1>2. TypeOK /\ Inv /\ [Next]_vars => Inv'
  <2> SUFFICES ASSUME TypeOK, Inv, [Next]_vars PROVE Inv'
    OBVIOUS
  <2> USE DEF UnauthorisedNeverCharged, OnlyAuthorisedInside
  <2>1. CASE Tick \/ UNCHANGED vars
    BY <2>1 DEF Tick, vars, local, history
  <2>2. ASSUME NEW t \in Threads, NEW k \in Keys, NEW token \in Tokens,
               Check(t, k, token)
        PROVE  Inv'
    <3>1. /\ key' = [key EXCEPT ![t] = k]
          /\ UNCHANGED state
          /\ authorised \subseteq authorised'
          /\ \/ pc' = [pc EXCEPT ![t] = "idle"]
             \/ pc' = [pc EXCEPT ![t] = "clock"] /\ k \in authorised'
      BY <2>2 DEF Check, NewCall, Return, Goto
    <3>2. QED
      BY <3>1 DEF TypeOK
  <2>3. ASSUME NEW t \in Threads, ReadClock(t) \/ Lookup(t) \/ Deny(t) PROVE Inv'
    BY <2>3 DEF ReadClock, Lookup, Deny, Return, Goto, history, TypeOK
  <2>4. ASSUME NEW t \in Threads, NEW e \in Entry, Store(t, e) PROVE Inv'
    BY <2>4 DEF Store, Return, Goto, TypeOK
  <2>5. ASSUME NEW t \in Threads, OpenWindow(t) \/ CountRequest(t) PROVE Inv'
    <3>1. /\ [start |-> seen[t], count |-> 1] \in Entry
          /\ [start |-> entry[t].start, count |-> entry[t].count + 1] \in Entry
      BY DEF TypeOK, Entry
    <3>2. QED
      BY <2>4, <2>5, <3>1 DEF OpenWindow, CountRequest
  <2>6. CASE Restart
    BY <2>6 DEF Restart, NoEntry
  <2>7. QED
    BY <2>1, <2>2, <2>3, <2>5, <2>6 DEF Next
<1>3. QED
  BY <1>1, <1>2, TypeCorrect, PTL DEF Spec
-----------------------------------------------------------------------------
(***************************************************************************)
(* One thread at a time, or the limiter disabled: the guard is the atomic  *)
(* meter.  The dictionary then counts exactly what was admitted, in        *)
(* windows that only move forward, and what a thread decides on is what    *)
(* the dictionary still holds.  A window of no ticks is no window: two     *)
(* would open in the same tick.                                            *)
(***************************************************************************)
OneAtATime == MaxRequests <= 0 \/ \A t, u \in Threads : t = u

Disabled == MaxRequests <= 0 => \A t \in Threads : pc[t] = "idle"

\* The entry of a key counts the admissions charged to its window, none was
\* charged to a later one, and no window was charged more than the quota.
Exact(k) ==
    /\ state[k].count = charged[k][state[k].start]
    /\ state[k].count > 0 => state[k].count <= MaxRequests
    /\ \A s \in Time : s > state[k].start => charged[k][s] = 0
    /\ \A s \in Time : MaxRequests > 0 => charged[k][s] <= MaxRequests
    /\ state[k].start <= now

\* What a thread holds is not stale.
Fresh(t) ==
    /\ pc[t] \in {"lookup", "decide"} =>
           seen[t] <= now /\ \A k \in Keys : state[k].start <= seen[t]
    /\ pc[t] = "decide" => entry[t] = state[key[t]]

MeterInv ==
    /\ Disabled
    /\ \A k \in Keys : Exact(k)
    /\ \A t \in Threads : Fresh(t)

LEMMA MeterInvInit == Init => MeterInv
<1> SUFFICES ASSUME Init PROVE MeterInv
  OBVIOUS
<1>1. 0 \in Time /\ now = 0
  BY GuardAssumption DEF Init, Time
<1>2. ASSUME NEW k \in Keys PROVE Exact(k)
  BY <1>1, GuardAssumption DEF Init, Exact, NoEntry, Time
<1>3. QED
  BY <1>2 DEF Init, MeterInv, Disabled, Fresh

\* Charging a request counts it once, in its window.
LEMMA ChargeCounts ==
    ASSUME TypeOK, NEW t \in Threads, NEW s \in Time, Charge(t, s)
    PROVE  \A k \in Keys, r \in Time :
               charged'[k][r] = IF k = key[t] /\ r = s THEN charged[k][r] + 1 ELSE charged[k][r]
<1>1. PICK k \in Keys : k = key[t]
  BY DEF TypeOK
<1>2. charged \in [Keys -> [Time -> Nat]]
  BY DEF TypeOK
<1>3. charged' = [charged EXCEPT ![k] = [charged[k] EXCEPT ![s] = charged[k][s] + 1]]
  BY <1>1 DEF Charge
<1>4. charged'[k] = [charged[k] EXCEPT ![s] = charged[k][s] + 1]
      /\ \A j \in Keys \ {k} : charged'[j] = charged[j]
  BY <1>2, <1>3
<1>5. QED
  BY <1>1, <1>2, <1>4

\* What the thread that stores an entry knows of it.
Stored(t, e) ==
    /\ Store(t, e)
    /\ e.start >= state[key[t]].start /\ e.start <= seen[t]
    /\ e.count = charged[key[t]][e.start] + 1 /\ e.count <= MaxRequests

LEMMA OpenStores ==
    ASSUME TypeOK, MeterInv, Window > 0, NEW t \in Threads, OpenWindow(t)
    PROVE  /\ Stored(t, [start |-> seen[t], count |-> 1])
           /\ MaxRequests > 0
           /\ state[key[t]].count = 0 \/ seen[t] - state[key[t]].start >= Window
<1>1. /\ pc[t] = "decide" /\ entry[t] = state[key[t]] /\ key[t] \in Keys
      /\ seen[t] >= state[key[t]].start
  BY DEF OpenWindow, Store, MeterInv, Fresh, TypeOK
<1>2. MaxRequests > 0
  BY <1>1, GuardAssumption DEF MeterInv, Disabled
<1>3. state[key[t]] \in Entry /\ seen[t] \in Time /\ Exact(key[t])
  BY <1>1 DEF TypeOK, MeterInv
<1>4. state[key[t]].count = 0 \/ seen[t] - state[key[t]].start >= Window
  BY <1>1 DEF OpenWindow, Expired
<1>5. charged[key[t]][seen[t]] = 0
  <2>1. CASE seen[t] > state[key[t]].start
    BY <1>3, <2>1 DEF Exact
  <2>2. CASE seen[t] = state[key[t]].start
    <3>1. state[key[t]].count = 0
      BY <1>3, <1>4, <2>2, GuardAssumption DEF Entry, Time
    <3>2. QED
      BY <1>3, <2>2, <3>1 DEF Exact
  <2>3. seen[t] \in Int /\ state[key[t]].start \in Int
    BY <1>3 DEF Entry, Time
  <2>4. QED
    BY <1>1, <2>1, <2>2, <2>3
<1>6. seen[t] <= seen[t] /\ 1 <= MaxRequests
  BY <1>2, <1>3, GuardAssumption DEF Time
<1>7. QED
  BY <1>1, <1>2, <1>4, <1>5, <1>6 DEF OpenWindow, Stored

LEMMA CountStores ==
    ASSUME TypeOK, MeterInv, NEW t \in Threads, CountRequest(t)
    PROVE  /\ Stored(t, [start |-> state[key[t]].start, count |-> state[key[t]].count + 1])
           /\ state[key[t]].count \in 1 .. MaxRequests - 1
<1>1. /\ pc[t] = "decide" /\ entry[t] = state[key[t]] /\ key[t] \in Keys
      /\ seen[t] >= state[key[t]].start
  BY DEF CountRequest, Store, MeterInv, Fresh, TypeOK
<1>2. /\ state[key[t]] \in Entry
      /\ state[key[t]].count = charged[key[t]][state[key[t]].start]
  BY <1>1 DEF TypeOK, MeterInv, Exact
<1>3. /\ state[key[t]].count # 0 /\ ~(state[key[t]].count >= MaxRequests)
      /\ state[key[t]].count \in Nat /\ state[key[t]].start \in Int
  BY <1>1, <1>2 DEF CountRequest, Expired, Exhausted, Entry, Time
<1>4. /\ state[key[t]].count \in 1 .. MaxRequests - 1
      /\ state[key[t]].count + 1 <= MaxRequests
      /\ state[key[t]].start >= state[key[t]].start
  BY <1>3, GuardAssumption
<1>5. Store(t, [start |-> state[key[t]].start, count |-> state[key[t]].count + 1])
  BY <1>1 DEF CountRequest
<1>6. QED
  BY <1>1, <1>2, <1>4, <1>5 DEF Stored

\* The only thread there is stores what it knows.
LEMMA StoreKeepsMeterInv ==
    ASSUME TypeOK, MeterInv, NEW t \in Threads, \A u \in Threads : u = t,
           NEW e \in Entry, Stored(t, e)
    PROVE  MeterInv'
<1>1. /\ state' = [state EXCEPT ![key[t]] = e] /\ pc[t] = "decide"
      /\ pc' = [pc EXCEPT ![t] = "idle"] /\ UNCHANGED <<now, key>>
      /\ e.start \in Time /\ e.count \in Nat
  BY DEF Stored, Store, Return, Goto, Entry
<1>2. Charge(t, e.start)
  BY DEF Stored, Store
<1>3. \A k \in Keys, r \in Time :
          charged'[k][r] = IF k = key[t] /\ r = e.start THEN charged[k][r] + 1 ELSE charged[k][r]
  BY <1>1, <1>2, ChargeCounts
<1>4. \A u \in Threads : pc'[u] = "idle"
  BY <1>1 DEF TypeOK
<1>5. ASSUME NEW k \in Keys PROVE Exact(k)'
  <2>1. Exact(k) /\ state[k] \in Entry /\ state[k].start \in Time /\ now \in Time
    BY DEF MeterInv, TypeOK, Entry
  <2>2. CASE k # key[t]
    <3>1. state'[k] = state[k] /\ \A r \in Time : charged'[k][r] = charged[k][r]
      BY <1>1, <1>3, <2>2 DEF TypeOK
    <3>2. QED
      BY <1>1, <2>1, <3>1 DEF Exact
  <2>3. CASE k = key[t]
    <3>1. /\ state'[k] = e /\ e.count = charged'[k][e.start] /\ e.count <= MaxRequests
      BY <1>1, <1>3, <2>3 DEF TypeOK, Stored
    <3>2. /\ e.start >= state[k].start /\ e.start <= seen[t] /\ seen[t] <= now
          /\ seen[t] \in Time
      BY <1>1, <2>3 DEF Stored, MeterInv, Fresh, TypeOK
    <3>3. e.start <= now
      BY <1>1, <2>1, <3>2 DEF Time
    <3>4. ASSUME NEW s \in Time, s > e.start PROVE charged'[k][s] = 0
      <4>1. s > state[k].start /\ s # e.start
        BY <1>1, <2>1, <3>2, <3>4 DEF Time
      <4>2. QED
        BY <1>3, <2>1, <4>1 DEF Exact
    <3>5. ASSUME NEW s \in Time, MaxRequests > 0 PROVE charged'[k][s] <= MaxRequests
      BY <1>3, <2>1, <2>3, <3>1, <3>5 DEF Exact
    <3>6. QED
      BY <1>1, <3>1, <3>3, <3>4, <3>5 DEF Exact
  <2>4. QED
    BY <2>2, <2>3
<1>6. Disabled' /\ \A u \in Threads : Fresh(u)'
  BY <1>4 DEF Disabled, Fresh
<1>7. QED
  BY <1>5, <1>6 DEF MeterInv

\* A step that charges nothing leaves the dictionary exact.
LEMMA QuietKeepsExact ==
    ASSUME MeterInv, NEW k \in Keys, UNCHANGED <<state, charged, now>>
    PROVE  Exact(k)'
  BY DEF MeterInv, Exact

\* A thread inside the limiter is alone.
LEMMA InsideIsAlone ==
    ASSUME OneAtATime, MeterInv, NEW t \in Threads, pc[t] # "idle"
    PROVE  \A u \in Threads : u = t
  BY DEF OneAtATime, MeterInv, Disabled

LEMMA ThreadKeepsMeterInv ==
    ASSUME OneAtATime, Window > 0, TypeOK, MeterInv, NEW t \in Threads,
           \/ \E k \in Keys, token \in Tokens : Check(t, k, token)
           \/ ReadClock(t) \/ Lookup(t) \/ OpenWindow(t) \/ CountRequest(t) \/ Deny(t)
    PROVE  MeterInv'
<1>1. ASSUME NEW k \in Keys, NEW token \in Tokens, Check(t, k, token)
      PROVE  MeterInv'
  <2>1. /\ UNCHANGED <<now, state, seen, entry, charged>> /\ key' = [key EXCEPT ![t] = k]
        /\ \/ pc' = [pc EXCEPT ![t] = "idle"]
           \/ pc' = [pc EXCEPT ![t] = "clock"] /\ ~(MaxRequests <= 0)
    BY <1>1 DEF Check, NewCall, Return, Goto
  <2>2. Disabled'
    BY <2>1 DEF Disabled, MeterInv, TypeOK
  <2>3. ASSUME NEW u \in Threads PROVE Fresh(u)'
    BY <2>1 DEF MeterInv, Fresh, TypeOK
  <2>4. QED
    BY <2>1, <2>2, <2>3, QuietKeepsExact DEF MeterInv
<1>2. CASE ReadClock(t)
  <2>1. /\ pc[t] = "clock" /\ pc' = [pc EXCEPT ![t] = "lookup"]
        /\ seen' = [seen EXCEPT ![t] = now]
        /\ UNCHANGED <<now, state, key, entry, charged>>
    BY <1>2 DEF ReadClock, Goto, history
  <2>2. \A u \in Threads : u = t
    BY <2>1, InsideIsAlone
  <2>3. Fresh(t)'
    BY <2>1 DEF MeterInv, Fresh, Exact, TypeOK, Time
  <2>4. Disabled'
    BY <2>1 DEF Disabled, MeterInv
  <2>5. QED
    BY <2>1, <2>2, <2>3, <2>4, QuietKeepsExact DEF MeterInv
<1>3. CASE Lookup(t)
  <2>1. /\ pc[t] = "lookup" /\ pc' = [pc EXCEPT ![t] = "decide"]
        /\ entry' = [entry EXCEPT ![t] = state[key[t]]]
        /\ UNCHANGED <<now, state, key, seen, charged>>
    BY <1>3 DEF Lookup, Goto, history
  <2>2. \A u \in Threads : u = t
    BY <2>1, InsideIsAlone
  <2>3. Fresh(t)'
    BY <2>1 DEF MeterInv, Fresh, TypeOK
  <2>4. Disabled'
    BY <2>1 DEF Disabled, MeterInv
  <2>5. QED
    BY <2>1, <2>2, <2>3, <2>4, QuietKeepsExact DEF MeterInv
<1>4. CASE OpenWindow(t)
  <2>1. Stored(t, [start |-> seen[t], count |-> 1])
    BY <1>4, OpenStores
  <2>2. [start |-> seen[t], count |-> 1] \in Entry /\ \A u \in Threads : u = t
    BY <2>1, InsideIsAlone DEF TypeOK, Entry, Stored, Store
  <2>3. QED
    BY <2>1, <2>2, StoreKeepsMeterInv
<1>5. CASE CountRequest(t)
  <2>1. Stored(t, [start |-> state[key[t]].start, count |-> state[key[t]].count + 1])
    BY <1>5, CountStores
  <2>2. /\ [start |-> state[key[t]].start, count |-> state[key[t]].count + 1] \in Entry
        /\ \A u \in Threads : u = t
    <3>1. state[key[t]] \in Entry
      BY DEF TypeOK
    <3>2. pc[t] # "idle"
      BY <2>1 DEF Stored, Store
    <3>3. QED
      BY <3>1, <3>2, InsideIsAlone DEF Entry
  <2>3. QED
    BY <2>1, <2>2, StoreKeepsMeterInv
<1>6. CASE Deny(t)
  <2>1. /\ pc' = [pc EXCEPT ![t] = "idle"]
        /\ UNCHANGED <<now, state, key, seen, entry, charged>>
    BY <1>6 DEF Deny, Return, Goto, history
  <2>2. Disabled' /\ \A u \in Threads : Fresh(u)'
    BY <2>1 DEF Disabled, MeterInv, Fresh, TypeOK
  <2>3. QED
    BY <2>1, <2>2, QuietKeepsExact DEF MeterInv
<1>7. QED
  BY <1>1, <1>2, <1>3, <1>4, <1>5, <1>6

\* The clock, a restart, or nothing.
LEMMA OthersKeepMeterInv ==
    ASSUME TypeOK, MeterInv, Tick \/ Restart \/ UNCHANGED vars
    PROVE  MeterInv'
<1>1. CASE Tick
  <2>1. /\ now' = now + 1 /\ now \in Time
        /\ UNCHANGED <<state, pc, key, seen, entry, charged>>
    BY <1>1 DEF Tick, local, history, TypeOK
  <2>2. ASSUME NEW k \in Keys PROVE Exact(k)'
    <3>1. Exact(k) /\ state[k].start \in Time
      BY DEF MeterInv, TypeOK, Entry
    <3>2. state[k].start <= now'
      BY <2>1, <3>1 DEF Exact, Time
    <3>3. QED
      BY <2>1, <3>1, <3>2 DEF Exact
  <2>3. ASSUME NEW u \in Threads PROVE Fresh(u)'
    <3>1. Fresh(u) /\ seen[u] \in Time
      BY DEF MeterInv, TypeOK
    <3>2. seen[u] <= now => seen[u] <= now'
      BY <2>1, <3>1 DEF Time
    <3>3. QED
      BY <2>1, <3>1, <3>2 DEF Fresh
  <2>4. QED
    BY <2>1, <2>2, <2>3 DEF MeterInv, Disabled
<1>2. CASE Restart
  <2>1. /\ state' = [k \in Keys |-> NoEntry] /\ pc' = [t \in Threads |-> "idle"]
        /\ charged' = [k \in Keys |-> [s \in Time |-> 0]]
        /\ now' = now /\ now \in Time /\ 0 \in Time
    BY <1>2, GuardAssumption DEF Restart, TypeOK, Time
  <2>2. ASSUME NEW k \in Keys PROVE Exact(k)'
    BY <2>1, GuardAssumption DEF Exact, NoEntry, Time
  <2>3. QED
    BY <2>1, <2>2 DEF MeterInv, Disabled, Fresh
<1>3. CASE UNCHANGED vars
  BY <1>3 DEF vars, local, history, MeterInv, Disabled, Exact, Fresh
<1>4. QED
  BY <1>1, <1>2, <1>3

LEMMA MeterInvInductive ==
    ASSUME OneAtATime, Window > 0
    PROVE  Spec => []MeterInv
<1>1. TypeOK /\ MeterInv /\ [Next]_vars => MeterInv'
  BY ThreadKeepsMeterInv, OthersKeepMeterInv DEF Next
<1>2. QED
  BY <1>1, MeterInvInit, TypeCorrect, PTL DEF Spec

\* The meter that the refinement shows, and what it shows of an exact dictionary.
Shown(k) ==
    [start |-> state[k].start,
     used |-> IF state[k].count = 0 THEN 0 ELSE charged[k][state[k].start]]
Meter == [k \in Keys |-> Shown(k)]

LEMMA ShownIsCount ==
    ASSUME MeterInv, NEW k \in Keys
    PROVE  Shown(k) = [start |-> state[k].start, used |-> state[k].count]
  BY DEF MeterInv, Exact, Shown

\* A step that changes no entry and charges nothing shows nothing.
LEMMA QuietShowsNothing ==
    ASSUME UNCHANGED <<state, charged>>
    PROVE  Meter' = Meter
  BY DEF Meter, Shown

\* An entry is stored, and the meter of its key, and of no other, shows it.
LEMMA StoreShows ==
    ASSUME TypeOK, MeterInv, MeterInv', NEW t \in Threads, NEW e \in Entry, Store(t, e)
    PROVE  /\ Meter' = [Meter EXCEPT ![key[t]] = [start |-> e.start, used |-> e.count]]
           /\ verdict' = [verdict EXCEPT ![t] = "admitted"]
<1>1. /\ state' = [state EXCEPT ![key[t]] = e] /\ key[t] \in Keys
      /\ verdict' = [verdict EXCEPT ![t] = "admitted"]
  BY DEF Store, Return, TypeOK
<1>2. ASSUME NEW k \in Keys
      PROVE  Shown(k)' = IF k = key[t] THEN [start |-> e.start, used |-> e.count] ELSE Shown(k)
  <2>1. Shown(k)' = [start |-> state'[k].start, used |-> state'[k].count]
    BY DEF MeterInv, Exact, Shown
  <2>2. Shown(k) = [start |-> state[k].start, used |-> state[k].count]
    BY ShownIsCount
  <2>3. state'[k] = IF k = key[t] THEN e ELSE state[k]
    BY <1>1 DEF TypeOK
  <2>4. QED
    BY <2>1, <2>2, <2>3
<1>3. QED
  BY <1>1, <1>2 DEF Meter

\* Init is the meter's, and a restart makes it so again.
LEMMA InitIsQuota == Init => Quota!Init
<1> SUFFICES ASSUME Init PROVE Quota!Init
  OBVIOUS
<1>1. /\ \A k \in Keys : state[k] = [start |-> 0, count |-> 0]
      /\ verdict = [t \in Threads |-> "none"]
  BY DEF Init, NoEntry
<1>2. QED
  BY <1>1 DEF Quota!Init

LEMMA RestartIsForget == Restart => Quota!Forget
<1> SUFFICES ASSUME Restart PROVE Quota!Forget
  OBVIOUS
<1>1. /\ \A k \in Keys : state'[k] = [start |-> 0, count |-> 0]
      /\ verdict' = [t \in Threads |-> "none"]
  BY DEF Restart, NoEntry
<1>2. QED
  BY <1>1 DEF Quota!Forget, Quota!Init

LEMMA CheckIsAnswer ==
    ASSUME NEW t \in Threads, NEW k \in Keys, NEW token \in Tokens, Check(t, k, token)
    PROVE  Quota!Begin(t) \/ Quota!TurnAway(t) \/ Quota!Bypass(t)
<1>1. /\ UNCHANGED <<state, charged>>
      /\ \/ verdict' = [verdict EXCEPT ![t] = "unauthorised"]
         \/ verdict' = [verdict EXCEPT ![t] = "raised"]
         \/ MaxRequests <= 0 /\ verdict' = [verdict EXCEPT ![t] = "admitted"]
         \/ verdict' = [verdict EXCEPT ![t] = "none"]
  BY DEF Check, NewCall, Return, Rejection
<1>2. QED
  BY <1>1 DEF Quota!Begin, Quota!TurnAway, Quota!Bypass, Quota!Answer

LEMMA OpenIsOpen ==
    ASSUME Window > 0, TypeOK, MeterInv, MeterInv', NEW t \in Threads, OpenWindow(t),
           NEW k \in Keys, k = key[t], NEW time \in 0 .. MaxTime, time = seen[t]
    PROVE  Quota!Open(t, k, time)
<1> DEFINE e == [start |-> seen[t], count |-> 1]
<1>1. /\ e \in Entry /\ key[t] \in Keys
      /\ Store(t, e) /\ MaxRequests > 0
      /\ state[key[t]].count = 0 \/ seen[t] - state[key[t]].start >= Window
  BY OpenStores DEF Stored, TypeOK, Entry
<1>2. Meter[key[t]] = [start |-> state[key[t]].start, used |-> state[key[t]].count]
  BY <1>1, ShownIsCount DEF Meter
<1>3. /\ Meter' = [Meter EXCEPT ![key[t]] = [start |-> seen[t], used |-> 1]]
      /\ verdict' = [verdict EXCEPT ![t] = "admitted"]
  BY <1>1, StoreShows
<1>4. Meter[key[t]].used = 0 \/ seen[t] - Meter[key[t]].start >= Window
  BY <1>1, <1>2
<1>5. QED
  BY <1>1, <1>3, <1>4 DEF Quota!Open, Quota!Answer, Meter, Shown

LEMMA CountIsSpend ==
    ASSUME TypeOK, MeterInv, MeterInv', NEW t \in Threads, CountRequest(t),
           NEW k \in Keys, k = key[t]
    PROVE  Quota!Spend(t, k)
<1> DEFINE e == [start |-> state[key[t]].start, count |-> state[key[t]].count + 1]
<1>1. /\ e \in Entry /\ key[t] \in Keys /\ Store(t, e)
      /\ state[key[t]].count \in 1 .. MaxRequests - 1
  <2>1. key[t] \in Keys /\ state[key[t]] \in Entry
    BY DEF TypeOK
  <2>2. QED
    BY <2>1, CountStores DEF Stored, Entry
<1>2. Meter[key[t]] = [start |-> state[key[t]].start, used |-> state[key[t]].count]
  BY <1>1, ShownIsCount DEF Meter
<1>3. /\ Meter' = [Meter EXCEPT ![key[t]] =
                      [start |-> state[key[t]].start, used |-> state[key[t]].count + 1]]
      /\ verdict' = [verdict EXCEPT ![t] = "admitted"]
  BY <1>1, StoreShows
<1>4. Meter' = [Meter EXCEPT ![key[t]].used = @ + 1]
  <2> DEFINE shown == [start |-> state[key[t]].start, used |-> state[key[t]].count]
  <2>1. [shown EXCEPT !.used = @ + 1]
          = [start |-> state[key[t]].start, used |-> state[key[t]].count + 1]
    OBVIOUS
  <2>2. [Meter EXCEPT ![key[t]].used = @ + 1]
          = [Meter EXCEPT ![key[t]] = [Meter[key[t]] EXCEPT !.used = @ + 1]]
    OBVIOUS
  <2>3. QED
    BY <1>2, <1>3, <2>1, <2>2
<1>5. Meter[key[t]].used \in 1 .. MaxRequests - 1
  BY <1>1, <1>2
<1>6. QED
  BY <1>3, <1>4, <1>5 DEF Quota!Spend, Quota!Answer, Meter, Shown

LEMMA DenyIsRefuse ==
    ASSUME TypeOK, MeterInv, NEW t \in Threads, Deny(t), NEW k \in Keys, k = key[t]
    PROVE  Quota!Refuse(t, k)
<1>1. /\ pc[t] = "decide" /\ entry[t] = state[key[t]] /\ key[t] \in Keys
      /\ verdict' = [verdict EXCEPT ![t] = "denied"]
      /\ UNCHANGED <<state, charged>>
  BY DEF Deny, Return, history, MeterInv, Fresh, TypeOK
<1>2. /\ state[key[t]].count \in Nat /\ state[key[t]].count # 0
      /\ state[key[t]].count >= MaxRequests
  BY <1>1 DEF Deny, Expired, Exhausted, TypeOK, Entry
<1>3. MaxRequests > 0
  BY <1>1, GuardAssumption DEF MeterInv, Disabled
<1>4. state[key[t]].count = MaxRequests
  BY <1>1, <1>2, GuardAssumption DEF MeterInv, Exact
<1>5. Meter[key[t]].used = MaxRequests
  BY <1>1, <1>4, ShownIsCount DEF Meter
<1>6. Meter' = Meter
  BY <1>1, QuietShowsNothing
<1>7. QED
  BY <1>1, <1>3, <1>5, <1>6 DEF Quota!Refuse, Quota!Answer, Meter, Shown

(***************************************************************************)
(* Served by one thread at a time, or disabled, FixedWindowRateLimiter is  *)
(* the atomic fixed-window meter of its docstring, for any keys, quota and *)
(* window: it refuses only at the quota, admits only below it or when the  *)
(* window has ended, and counts each admission exactly once.               *)
(***************************************************************************)
THEOREM SequentialGuardIsQuota ==
    ASSUME OneAtATime, Window > 0
    PROVE  Spec => ImplementsQuota
<1>1. ASSUME TypeOK, MeterInv, MeterInv', [Next]_vars
      PROVE  [Quota!Next]_Quota!qvars
  <2>1. CASE Tick \/ UNCHANGED vars
    <3>1. UNCHANGED <<state, charged, verdict>>
      BY <2>1 DEF Tick, vars, local, history
    <3>2. QED
      BY <3>1 DEF Quota!qvars
  <2>2. CASE Restart
    BY <2>2, RestartIsForget DEF Quota!Next
  <2>3. ASSUME NEW t \in Threads,
               \/ \E k \in Keys, token \in Tokens : Check(t, k, token)
               \/ OpenWindow(t) \/ CountRequest(t) \/ Deny(t)
        PROVE  Quota!Next
    <3>1. PICK k \in Keys, time \in 0 .. MaxTime : k = key[t] /\ time = seen[t]
      BY <1>1 DEF TypeOK, Time
    <3>2. CASE \E c \in Keys, token \in Tokens : Check(t, c, token)
      BY <3>2, CheckIsAnswer DEF Quota!Next
    <3>3. CASE OpenWindow(t)
      <4>1. Quota!Open(t, k, time)
        BY <1>1, <3>1, <3>3, OpenIsOpen
      <4>2. QED
        BY <4>1 DEF Quota!Next
    <3>4. CASE CountRequest(t)
      <4>1. Quota!Spend(t, k)
        BY <1>1, <3>1, <3>4, CountIsSpend
      <4>2. QED
        BY <4>1 DEF Quota!Next
    <3>5. CASE Deny(t)
      <4>1. Quota!Refuse(t, k)
        BY <1>1, <3>1, <3>5, DenyIsRefuse
      <4>2. QED
        BY <4>1 DEF Quota!Next
    <3>6. QED
      BY <2>3, <3>2, <3>3, <3>4, <3>5
  <2>4. ASSUME NEW t \in Threads, ReadClock(t) \/ Lookup(t)
        PROVE  UNCHANGED Quota!qvars
    <3>1. UNCHANGED <<state, charged, verdict>>
      BY <2>4 DEF ReadClock, Lookup, history
    <3>2. QED
      BY <3>1 DEF Quota!qvars
  <2>5. QED
    BY <1>1, <2>1, <2>2, <2>3, <2>4 DEF Next
<1>2. Spec => []MeterInv
  BY MeterInvInductive
<1>3. Spec => Quota!Spec
  BY <1>1, <1>2, InitIsQuota, TypeCorrect, PTL DEF Spec, Quota!Spec
<1>4. QED
  BY <1>3 DEF ImplementsQuota

(***************************************************************************)
(* The documented quota, at most MaxRequests admissions of a client in a   *)
(* window, is kept as long as one thread at a time runs the limiter: what  *)
(* breaks it with more (see the run GuardQuotaRace) is their interleaving, *)
(* and nothing in the arithmetic of FixedWindowRateLimiter.allow.          *)
(***************************************************************************)
THEOREM SequentialQuota ==
    ASSUME OneAtATime, Window > 0
    PROVE  Spec => []QuotaPerWindow
<1>1. MeterInv => QuotaPerWindow
  BY DEF MeterInv, Exact, QuotaPerWindow
<1>2. Spec => []MeterInv
  BY MeterInvInductive
<1>3. QED
  BY <1>1, <1>2, PTL
-----------------------------------------------------------------------------
(***************************************************************************)
(* What a sum over time amounts to.  Total is defined by recursion, and    *)
(* what it computes is proved by induction on the last instant added.      *)
(***************************************************************************)
\* The natural numbers are well-founded, so a set that has 0 and with n also n + 1
\* has them all.
LEMMA SetInduction ==
    ASSUME NEW S, 0 \in S, \A n \in Nat : n \in S => n + 1 \in S
    PROVE  Nat \subseteq S
<1> DEFINE Missing == Nat \ S
<1>1. SUFFICES ASSUME Missing # {} PROVE FALSE
  OBVIOUS
<1>2. IsWellFoundedOn({p \in Nat \X Nat : p[1] < p[2]}, Nat)
  BY NatLessThanWellFounded DEF OpToRel
<1>3. PICK n \in Missing : \A m \in Missing : <<m, n>> \notin {p \in Nat \X Nat : p[1] < p[2]}
  BY <1>1, <1>2, WFMin
<1>4. \A m \in Missing : ~(m < n)
  BY <1>3
<1>5. n - 1 \in Nat /\ n - 1 < n /\ n - 1 + 1 = n
  OBVIOUS
<1>6. QED
  BY <1>4, <1>5

\* What the instant s adds, and the sums that Total takes the last of.
Part(f, span, s) == IF s \in span THEN f[s] ELSE 0

IsTotal(f, span, sum) ==
    sum = [s \in -1 .. MaxTime |-> IF s = -1 THEN 0 ELSE sum[s - 1] + Part(f, span, s)]

LEMMA TotalExists ==
    ASSUME NEW f \in [Time -> Nat], NEW span
    PROVE  \E sum : IsTotal(f, span, sum)
<1> DEFINE Upto(n, sum) ==
      sum = [s \in -1 .. n |-> IF s = -1 THEN 0 ELSE sum[s - 1] + Part(f, span, s)]
<1> DEFINE Good == {n \in Nat : n <= MaxTime + 1 => \E sum : Upto(n - 1, sum)}
<1>1. 0 \in Good
  <2>1. -1 .. 0 - 1 = {-1}
    OBVIOUS
  <2>2. Upto(0 - 1, [s \in {-1} |-> 0])
    BY <2>1
  <2> HIDE DEF Upto
  <2>3. QED
    BY <2>2
<1>2. ASSUME NEW n \in Nat, n \in Good PROVE n + 1 \in Good
  <2>1. SUFFICES ASSUME n + 1 <= MaxTime + 1 PROVE \E sum : Upto(n, sum)
    OBVIOUS
  <2>2. PICK sum : Upto(n - 1, sum)
    BY <1>2, <2>1, GuardAssumption
  <2>3. DEFINE more == [s \in -1 .. n |-> IF s = n THEN sum[n - 1] + Part(f, span, n) ELSE sum[s]]
  <2>4. ASSUME NEW s \in -1 .. n
        PROVE  more[s] = IF s = -1 THEN 0 ELSE more[s - 1] + Part(f, span, s)
    <3> HIDE DEF Part
    <3>1. CASE s = n
      BY <3>1
    <3>2. CASE s # n
      <4>1. s \in -1 .. n - 1 /\ more[s] = sum[s]
        BY <3>2
      <4>2. sum[s] = IF s = -1 THEN 0 ELSE sum[s - 1] + Part(f, span, s)
        BY <2>2, <4>1
      <4>3. s # -1 => s - 1 \in -1 .. n /\ s - 1 # n /\ more[s - 1] = sum[s - 1]
        BY <4>1
      <4>4. QED
        BY <4>1, <4>2, <4>3
    <3>3. QED
      BY <3>1, <3>2
  <2>5. Upto(n, more)
    <3>1. more = [s \in -1 .. n |-> more[s]]
      OBVIOUS
    <3> HIDE DEF more
    <3>2. QED
      BY <2>4, <3>1
  <2>6. QED
    BY <2>5
<1>3. MaxTime + 1 \in Good
  <2> HIDE DEF Good
  <2>1. QED
    BY <1>1, <1>2, SetInduction, GuardAssumption
<1>4. \E sum : Upto(MaxTime, sum)
  BY <1>3, GuardAssumption
<1>5. QED
  BY <1>4 DEF IsTotal

LEMMA TotalIsTotal ==
    ASSUME NEW f \in [Time -> Nat], NEW span
    PROVE  \E sum : IsTotal(f, span, sum) /\ Total(f, span) = sum[MaxTime]
<1> DEFINE sum == CHOOSE sum : IsTotal(f, span, sum)
<1>1. IsTotal(f, span, sum)
  BY TotalExists
<1>2. Total(f, span) = sum[MaxTime]
  BY DEF Total, IsTotal, Part
<1>3. QED
  BY <1>1, <1>2

\* One admission more is one more in the spans that it falls in.
LEMMA TotalCounts ==
    ASSUME NEW f \in [Time -> Nat], NEW at \in Time, NEW span
    PROVE  Total([f EXCEPT ![at] = f[at] + 1], span)
             = Total(f, span) + (IF at \in span THEN 1 ELSE 0)
<1> DEFINE g == [f EXCEPT ![at] = f[at] + 1]
<1> DEFINE Extra(n) == IF at \in span /\ at <= n THEN 1 ELSE 0
<1>1. g \in [Time -> Nat]
  OBVIOUS
<1>2. PICK sum : IsTotal(f, span, sum) /\ Total(f, span) = sum[MaxTime]
  BY TotalIsTotal
<1> HIDE DEF g
<1>3. PICK more : IsTotal(g, span, more) /\ Total(g, span) = more[MaxTime]
  BY <1>1, TotalIsTotal
<1> DEFINE Good == {n \in Nat : n <= MaxTime + 1 =>
                      /\ sum[n - 1] \in Nat
                      /\ more[n - 1] = sum[n - 1] + Extra(n - 1)}
<1>4. 0 \in Good
  <2>1. sum[-1] = 0 /\ more[-1] = 0
    BY <1>2, <1>3, GuardAssumption DEF IsTotal
  <2>2. Extra(-1) = 0
    BY DEF Time
  <2>3. QED
    BY <2>1, <2>2
<1>5. ASSUME NEW n \in Nat, n \in Good PROVE n + 1 \in Good
  <2>1. SUFFICES ASSUME n + 1 <= MaxTime + 1
                 PROVE  sum[n] \in Nat /\ more[n] = sum[n] + Extra(n)
    OBVIOUS
  <2>2. n \in Time /\ n # -1 /\ n \in -1 .. MaxTime
    BY <2>1, GuardAssumption DEF Time
  <2>3. /\ sum[n] = sum[n - 1] + Part(f, span, n)
        /\ more[n] = more[n - 1] + Part(g, span, n)
    BY <1>2, <1>3, <2>2 DEF IsTotal
  <2>4. sum[n - 1] \in Nat /\ more[n - 1] = sum[n - 1] + Extra(n - 1)
    BY <1>5, <2>1, GuardAssumption
  <2>5. /\ Part(f, span, n) \in Nat
        /\ Part(g, span, n) = Part(f, span, n) + (IF n = at /\ at \in span THEN 1 ELSE 0)
    BY <2>2 DEF Part, g
  <2>6. /\ Extra(n - 1) \in Nat
        /\ Extra(n) = Extra(n - 1) + (IF n = at /\ at \in span THEN 1 ELSE 0)
    BY <2>2 DEF Time
  <2> HIDE DEF Extra
  <2>7. QED
    BY <2>3, <2>4, <2>5, <2>6
<1>6. MaxTime + 1 \in Good
  <2> HIDE DEF Good
  <2>1. QED
    BY <1>4, <1>5, SetInduction, GuardAssumption
<1>7. more[MaxTime] = sum[MaxTime] + Extra(MaxTime)
  BY <1>6, GuardAssumption
<1>8. Extra(MaxTime) = IF at \in span THEN 1 ELSE 0
  BY DEF Time
<1>9. QED
  BY <1>2, <1>3, <1>7, <1>8 DEF g

LEMMA TotalIsNat ==
    ASSUME NEW f \in [Time -> Nat], NEW span
    PROVE  Total(f, span) \in Nat
<1>1. PICK sum : IsTotal(f, span, sum) /\ Total(f, span) = sum[MaxTime]
  BY TotalIsTotal
<1> DEFINE Good == {n \in Nat : n <= MaxTime + 1 => sum[n - 1] \in Nat}
<1>2. 0 \in Good
  BY <1>1, GuardAssumption DEF IsTotal
<1>3. ASSUME NEW n \in Nat, n \in Good PROVE n + 1 \in Good
  <2>1. SUFFICES ASSUME n + 1 <= MaxTime + 1 PROVE sum[n] \in Nat
    OBVIOUS
  <2>2. n \in Time /\ n # -1 /\ n \in -1 .. MaxTime
    BY <2>1, GuardAssumption DEF Time
  <2>3. sum[n] = sum[n - 1] + Part(f, span, n) /\ Part(f, span, n) \in Nat
    BY <1>1, <2>2 DEF IsTotal, Part
  <2>4. QED
    BY <1>3, <2>1, <2>3, GuardAssumption
<1>4. MaxTime + 1 \in Good
  <2> HIDE DEF Good
  <2>1. QED
    BY <1>2, <1>3, SetInduction, GuardAssumption
<1>5. QED
  BY <1>1, <1>4, GuardAssumption

\* A span in which nothing was admitted has no total.
LEMMA TotalOfNone ==
    ASSUME NEW f \in [Time -> Nat], NEW span, \A s \in Time : s \in span => f[s] = 0
    PROVE  Total(f, span) = 0
<1>1. PICK sum : IsTotal(f, span, sum) /\ Total(f, span) = sum[MaxTime]
  BY TotalIsTotal
<1> DEFINE Good == {n \in Nat : n <= MaxTime + 1 => sum[n - 1] = 0}
<1>2. 0 \in Good
  BY <1>1, GuardAssumption DEF IsTotal
<1>3. ASSUME NEW n \in Nat, n \in Good PROVE n + 1 \in Good
  <2>1. SUFFICES ASSUME n + 1 <= MaxTime + 1 PROVE sum[n] = 0
    OBVIOUS
  <2>2. n \in Time /\ n # -1 /\ n \in -1 .. MaxTime
    BY <2>1, GuardAssumption DEF Time
  <2>3. sum[n] = sum[n - 1] + Part(f, span, n) /\ Part(f, span, n) = 0
    BY <1>1, <2>2 DEF IsTotal, Part
  <2>4. QED
    BY <1>3, <2>1, <2>3, GuardAssumption
<1>4. MaxTime + 1 \in Good
  <2> HIDE DEF Good
  <2>1. QED
    BY <1>2, <1>3, SetInduction, GuardAssumption
<1>5. QED
  BY <1>1, <1>4, GuardAssumption
-----------------------------------------------------------------------------
(***************************************************************************)
(* Bursts.  The spans that a window opened in, and those that it opened    *)
(* before, have room for what the window may still admit; a client without *)
(* an entry has a whole window ahead of it; and nothing was admitted later *)
(* than the clock that the thread inside the limiter has read.             *)
(***************************************************************************)
Span(s) == s .. (s + Window - 1)
Admitted(k, s) == Total(admittedAt[k], Span(s))
Quotas(n) == n * MaxRequests

Roomy(k, s) ==
    /\ Admitted(k, s) \in Int
    /\ Admitted(k, s) <= Quotas(2 + restarts) - 1
    /\ state[k].count = 0 => Admitted(k, s) <= Quotas(1 + restarts) - 1
    /\ state[k].count > 0 /\ state[k].start < s => Admitted(k, s) <= state[k].count - 1
    /\ state[k].count > 0 /\ state[k].start \in Span(s) =>
          Admitted(k, s) <= Quotas(1 + restarts) - 1 + state[k].count

NothingAfter(at) == \A k \in Keys, u \in Time : u > at => admittedAt[k][u] = 0

BurstInv ==
    /\ NothingAfter(now)
    /\ \A t \in Threads : pc[t] \in {"lookup", "decide"} => NothingAfter(seen[t])
    /\ \A k \in Keys, s \in Time : Roomy(k, s)

\* One more restart is one more quota.
LEMMA QuotasGrow ==
    ASSUME NEW n \in Nat, MaxRequests > 0
    PROVE  /\ Quotas(n) \in Nat /\ Quotas(1 + n) \in Nat /\ Quotas(2 + n) \in Nat
           /\ Quotas(1 + n) = Quotas(n) + MaxRequests
           /\ Quotas(2 + n) = Quotas(1 + n) + MaxRequests
           /\ MaxRequests <= Quotas(1 + n) /\ MaxRequests <= Quotas(2 + n)
<1>1. MaxRequests \in Nat
  BY GuardAssumption
<1>2. /\ n * MaxRequests \in Nat
      /\ (1 + n) * MaxRequests = n * MaxRequests + MaxRequests
      /\ (2 + n) * MaxRequests = (1 + n) * MaxRequests + MaxRequests
  BY <1>1
<1>3. QED
  BY <1>1, <1>2 DEF Quotas

LEMMA BurstInvInit ==
    ASSUME MaxRequests > 0, Init
    PROVE  BurstInv
<1>1. ASSUME NEW k \in Keys, NEW s \in Time PROVE Roomy(k, s)
  <2>1. admittedAt[k] \in [Time -> Nat] /\ \A u \in Time : admittedAt[k][u] = 0
    BY DEF Init
  <2>2. Admitted(k, s) = 0
    BY <2>1, TotalOfNone DEF Admitted
  <2>3. state[k].count = 0 /\ restarts = 0
    BY DEF Init, NoEntry
  <2>4. Quotas(2) - 1 \in Nat /\ Quotas(1) - 1 \in Nat
    BY GuardAssumption DEF Quotas
  <2>5. QED
    BY <2>2, <2>3, <2>4 DEF Roomy
<1>2. QED
  BY <1>1 DEF Init, BurstInv, NothingAfter

\* A step that admits nothing and leaves the dictionary leaves the room.
LEMMA QuietKeepsRoom ==
    ASSUME NEW k \in Keys, NEW s \in Time, Roomy(k, s),
           UNCHANGED <<admittedAt, state, restarts>>
    PROVE  Roomy(k, s)'
<1>1. Admitted(k, s)' = Admitted(k, s)
  BY DEF Admitted, Span
<1>2. QED
  BY <1>1 DEF Roomy, Span, Quotas

\* An admission counts once, in the spans that the clock value it read is in.
LEMMA StoreAdmits ==
    ASSUME TypeOK, NEW t \in Threads, NEW e \in Entry, Store(t, e)
    PROVE  \A k \in Keys, s \in Time :
              Admitted(k, s)' = Admitted(k, s)
                  + (IF k = key[t] /\ seen[t] \in Span(s) THEN 1 ELSE 0)
<1>1. PICK c \in Keys, at \in Time : c = key[t] /\ at = seen[t]
  BY DEF TypeOK
<1>2. admittedAt \in [Keys -> [Time -> Nat]]
  BY DEF TypeOK
<1>3. admittedAt' = [admittedAt EXCEPT ![c] = [admittedAt[c] EXCEPT ![at] = admittedAt[c][at] + 1]]
  BY <1>1 DEF Store, Charge
<1>4. ASSUME NEW k \in Keys, NEW s \in Time
      PROVE  Admitted(k, s)' = Admitted(k, s)
                  + (IF k = key[t] /\ seen[t] \in Span(s) THEN 1 ELSE 0)
  <2>1. admittedAt[k] \in [Time -> Nat]
    BY <1>2
  <2>2. Admitted(k, s)' = Total(admittedAt'[k], Span(s))
    BY DEF Admitted, Span
  <2>3. Admitted(k, s) \in Int
    BY <2>1, TotalIsNat DEF Admitted
  <2>4. CASE k = c
    <3>1. admittedAt'[k] = [admittedAt[k] EXCEPT ![at] = admittedAt[k][at] + 1]
      BY <1>2, <1>3, <2>4
    <3>2. QED
      BY <1>1, <2>1, <2>2, <2>4, <3>1, TotalCounts DEF Admitted
  <2>5. CASE k # c
    <3>1. admittedAt'[k] = admittedAt[k]
      BY <1>2, <1>3, <2>5
    <3>2. QED
      BY <1>1, <2>2, <2>3, <2>5, <3>1 DEF Admitted
  <2>6. QED
    BY <2>4, <2>5
<1>5. QED
  BY <1>4

\* What a step that admits a request finds and leaves, in numbers.
LEMMA OpenKeepsRoom ==
    ASSUME Window > 0, MaxRequests > 0, TypeOK, MeterInv, BurstInv,
           NEW t \in Threads, OpenWindow(t), NEW k \in Keys, NEW s \in Time
    PROVE  Roomy(k, s)'
<1>1. /\ Store(t, [start |-> seen[t], count |-> 1]) /\ pc[t] = "decide"
      /\ state[key[t]].count = 0 \/ seen[t] - state[key[t]].start >= Window
      /\ key[t] \in Keys /\ seen[t] \in Time
      /\ [start |-> seen[t], count |-> 1] \in Entry
  BY OpenStores DEF Stored, Store, TypeOK, Entry
<1>2. /\ state' = [state EXCEPT ![key[t]] = [start |-> seen[t], count |-> 1]]
      /\ UNCHANGED restarts
  BY <1>1 DEF Store
<1>3. Admitted(k, s)' = Admitted(k, s) + (IF k = key[t] /\ seen[t] \in Span(s) THEN 1 ELSE 0)
  BY <1>1, StoreAdmits
<1>4. Roomy(k, s) /\ state[k] \in Entry /\ restarts \in Nat
  BY DEF BurstInv, TypeOK
<1>5. CASE k # key[t]
  <2>1. state'[k] = state[k] /\ Admitted(k, s)' = Admitted(k, s)
    BY <1>2, <1>3, <1>4, <1>5 DEF TypeOK, Roomy
  <2>2. QED
    BY <1>2, <1>4, <2>1 DEF Roomy, Span, Quotas
<1>6. CASE k = key[t]
  <2>1. state'[k].start = seen[t] /\ state'[k].count = 1
    BY <1>2, <1>6 DEF TypeOK
  <2>2. /\ Quotas(1 + restarts) \in Nat /\ MaxRequests <= Quotas(1 + restarts)
        /\ Quotas(2 + restarts) = Quotas(1 + restarts) + MaxRequests
    BY <1>4, QuotasGrow
  <2>3. /\ state[k].count \in Nat /\ state[k].start \in Int /\ seen[t] \in Int /\ s \in Int
        /\ state[k].count <= MaxRequests
    BY <1>1, <1>4, GuardAssumption DEF Entry, Time, MeterInv, Exact
  <2>4. /\ Quotas(1 + restarts)' = Quotas(1 + restarts)
        /\ Quotas(2 + restarts)' = Quotas(2 + restarts)
    BY <1>2 DEF Quotas
  <2>5. CASE seen[t] < s
    <3>1. NothingAfter(seen[t])
      BY <1>1 DEF BurstInv
    <3>2. \A u \in Time : u \in Span(s) => admittedAt[k][u] = 0
      BY <2>3, <2>5, <3>1, GuardAssumption DEF NothingAfter, Span, Time
    <3>3. Admitted(k, s) = 0
      BY <3>2, TotalOfNone DEF Admitted, TypeOK
    <3>4. Admitted(k, s)' = 0 /\ seen[t] \notin Span(s)
      BY <1>3, <2>3, <2>5, <3>3 DEF Span
    <3>5. QED
      BY <2>1, <2>2, <2>4, <3>4, GuardAssumption DEF Roomy, Span
  <2>6. CASE seen[t] \in Span(s)
    <3>1. Admitted(k, s) \in Int /\ Admitted(k, s)' = Admitted(k, s) + 1
      BY <1>3, <1>4, <1>6, <2>6 DEF Roomy
    <3>2. Admitted(k, s) <= Quotas(1 + restarts) - 1
      <4>1. CASE state[k].count = 0
        BY <1>4, <4>1 DEF Roomy
      <4>2. CASE state[k].count > 0
        <5>1. state[k].start < s
          BY <1>1, <1>6, <2>3, <2>6, <4>2, GuardAssumption DEF Span
        <5>2. Admitted(k, s) <= state[k].count - 1
          BY <1>4, <4>2, <5>1 DEF Roomy
        <5>3. QED
          BY <2>2, <2>3, <3>1, <5>2, GuardAssumption
      <4>3. QED
        BY <2>3, <4>1, <4>2
    <3>3. ~(seen[t] < s)
      BY <2>3, <2>6 DEF Span
    <3>4. QED
      BY <2>1, <2>2, <2>4, <3>1, <3>2, <3>3, GuardAssumption DEF Roomy
  <2>7. CASE seen[t] >= s + Window
    <3>1. seen[t] \notin Span(s) /\ ~(seen[t] < s)
      BY <2>3, <2>7, GuardAssumption DEF Span
    <3>2. Admitted(k, s)' = Admitted(k, s) /\ Admitted(k, s) \in Int
      BY <1>3, <1>4, <3>1 DEF Roomy
    <3>3. QED
      BY <1>4, <2>1, <2>4, <3>1, <3>2 DEF Roomy, Span
  <2>8. QED
    BY <2>3, <2>5, <2>6, <2>7, GuardAssumption DEF Span
<1>7. QED
  BY <1>5, <1>6

LEMMA CountKeepsRoom ==
    ASSUME Window > 0, MaxRequests > 0, TypeOK, MeterInv, BurstInv,
           NEW t \in Threads, CountRequest(t), NEW k \in Keys, NEW s \in Time
    PROVE  Roomy(k, s)'
<1> DEFINE counted == [start |-> state[key[t]].start, count |-> state[key[t]].count + 1]
<1>1. /\ Store(t, counted) /\ pc[t] = "decide"
      /\ state[key[t]].count \in 1 .. MaxRequests - 1
      /\ key[t] \in Keys /\ seen[t] \in Time /\ state[key[t]] \in Entry
  BY CountStores DEF Stored, Store, TypeOK
<1>2. /\ state' = [state EXCEPT ![key[t]] = counted]
      /\ UNCHANGED restarts
  BY <1>1 DEF Store
<1>3. counted \in Entry
  BY <1>1 DEF Entry
<1>4. Admitted(k, s)' = Admitted(k, s) + (IF k = key[t] /\ seen[t] \in Span(s) THEN 1 ELSE 0)
  <2> HIDE DEF counted
  <2>1. QED
    BY <1>1, <1>3, StoreAdmits
<1>5. Roomy(k, s) /\ state[k] \in Entry /\ restarts \in Nat
  BY DEF BurstInv, TypeOK
<1>6. CASE k # key[t]
  <2>1. state'[k] = state[k] /\ Admitted(k, s)' = Admitted(k, s)
    BY <1>2, <1>4, <1>5, <1>6 DEF TypeOK, Roomy
  <2>2. QED
    BY <1>2, <1>5, <2>1 DEF Roomy, Span, Quotas
<1>7. CASE k = key[t]
  <2>1. state'[k].start = state[k].start /\ state'[k].count = state[k].count + 1
    BY <1>2, <1>7 DEF TypeOK
  <2>2. /\ Quotas(1 + restarts) \in Nat /\ MaxRequests <= Quotas(1 + restarts)
        /\ Quotas(2 + restarts) = Quotas(1 + restarts) + MaxRequests
    BY <1>5, QuotasGrow
  <2>3. /\ state[k].count \in 1 .. MaxRequests - 1
        /\ state[k].start \in Int /\ seen[t] \in Int /\ s \in Int
    BY <1>1, <1>5, <1>7, GuardAssumption DEF Entry, Time
  <2>4. state[k].start <= seen[t] /\ seen[t] - state[k].start < Window
    <3>1. entry[t] = state[k] /\ state[k].start <= seen[t]
      BY <1>1, <1>7 DEF MeterInv, Fresh
    <3>2. QED
      BY <2>3, <3>1, GuardAssumption DEF CountRequest, Expired
  <2>5. /\ Quotas(1 + restarts)' = Quotas(1 + restarts)
        /\ Quotas(2 + restarts)' = Quotas(2 + restarts)
    BY <1>2 DEF Quotas
  <2>6. CASE seen[t] \in Span(s)
    <3>1. Admitted(k, s) \in Int /\ Admitted(k, s)' = Admitted(k, s) + 1
      BY <1>4, <1>5, <1>7, <2>6 DEF Roomy
    <3>2. CASE state[k].start < s
      <4>1. Admitted(k, s) <= state[k].count - 1 /\ state[k].start \notin Span(s)
        BY <1>5, <2>3, <3>2 DEF Roomy, Span
      <4>2. QED
        BY <2>1, <2>2, <2>3, <2>5, <3>1, <4>1, GuardAssumption DEF Roomy, Span
    <3>3. CASE ~(state[k].start < s)
      <4>1. state[k].start \in Span(s)
        BY <2>3, <2>4, <2>6, <3>3, GuardAssumption DEF Span
      <4>2. Admitted(k, s) <= Quotas(1 + restarts) - 1 + state[k].count
        BY <1>5, <2>3, <4>1 DEF Roomy
      <4>3. QED
        BY <2>1, <2>2, <2>3, <2>5, <3>1, <3>3, <4>2, GuardAssumption DEF Roomy
    <3>4. QED
      BY <3>2, <3>3
  <2>7. CASE seen[t] \notin Span(s)
    <3>1. Admitted(k, s)' = Admitted(k, s) /\ Admitted(k, s) \in Int
      BY <1>4, <1>5, <2>7 DEF Roomy
    <3>2. QED
      BY <1>5, <2>1, <2>2, <2>3, <2>5, <3>1, GuardAssumption DEF Roomy, Span
  <2>8. QED
    BY <2>6, <2>7
<1>8. QED
  BY <1>6, <1>7

\* The only thread there is stores at the clock value that it read.
LEMMA StoreKeepsNothingAfter ==
    ASSUME TypeOK, MeterInv, BurstInv, NEW t \in Threads, \A u \in Threads : u = t,
           NEW e, Store(t, e)
    PROVE  /\ NothingAfter(now)'
           /\ \A u \in Threads : pc'[u] = "idle"
<1>1. /\ NothingAfter(now) /\ seen[t] <= now /\ seen[t] \in Time /\ now \in Time
      /\ key[t] \in Keys /\ admittedAt \in [Keys -> [Time -> Nat]]
  BY DEF Store, BurstInv, MeterInv, Fresh, TypeOK
<1>2. PICK c \in Keys, at \in Time : c = key[t] /\ at = seen[t]
  BY <1>1
<1>3. admittedAt' = [admittedAt EXCEPT ![c] = [admittedAt[c] EXCEPT ![at] = admittedAt[c][at] + 1]]
  BY <1>2 DEF Store, Charge
<1>4. UNCHANGED now
  BY DEF Store
<1>5. ASSUME NEW k \in Keys, NEW u \in Time, u > now PROVE admittedAt'[k][u] = 0
  <2>1. u # at /\ admittedAt[k][u] = 0
    BY <1>1, <1>2, <1>5 DEF NothingAfter, Time
  <2>2. QED
    BY <1>1, <1>3, <2>1
<1>6. \A u \in Threads : pc'[u] = "idle"
  BY DEF Store, Return, Goto, TypeOK
<1>7. QED
  BY <1>4, <1>5, <1>6 DEF NothingAfter

LEMMA AdmissionKeepsBurstInv ==
    ASSUME OneAtATime, Window > 0, MaxRequests > 0, TypeOK, MeterInv, BurstInv,
           NEW t \in Threads, OpenWindow(t) \/ CountRequest(t)
    PROVE  BurstInv'
<1>1. \A k \in Keys, s \in Time : Roomy(k, s)'
  BY OpenKeepsRoom, CountKeepsRoom
<1>2. PICK e : Store(t, e)
  BY DEF OpenWindow, CountRequest
<1>3. \A u \in Threads : u = t
  BY <1>2, InsideIsAlone DEF Store
<1>4. QED
  BY <1>1, <1>2, <1>3, StoreKeepsNothingAfter DEF BurstInv

\* The clock, a restart, a step of a thread that admits nothing, or no step.
LEMMA QuietKeepsBurstInv ==
    ASSUME MaxRequests > 0, TypeOK, MeterInv, BurstInv,
           \/ Tick \/ UNCHANGED vars
           \/ \E t \in Threads :
                 \/ \E k \in Keys, token \in Tokens : Check(t, k, token)
                 \/ ReadClock(t) \/ Lookup(t) \/ Deny(t)
    PROVE  BurstInv'
<1>1. UNCHANGED <<admittedAt, state, restarts>>
  BY DEF Tick, vars, local, history, Check, NewCall, ReadClock, Lookup, Deny
<1>2. \A k \in Keys, s \in Time : Roomy(k, s)'
  BY <1>1, QuietKeepsRoom DEF BurstInv
<1>3. NothingAfter(now)'
  <2>1. now' = now \/ now' = now + 1
    BY DEF Tick, vars, Check, NewCall, ReadClock, Lookup, Deny
  <2>2. now \in Int /\ now <= now' /\ now' \in Int
    BY <2>1 DEF TypeOK, Time
  <2>3. QED
    BY <1>1, <2>2 DEF BurstInv, NothingAfter, Time
<1>4. ASSUME NEW u \in Threads, pc'[u] \in {"lookup", "decide"}
      PROVE  NothingAfter(seen[u])'
  <2>1. \/ pc[u] \in {"lookup", "decide"} /\ seen'[u] = seen[u]
        \/ seen'[u] = now
    BY <1>4 DEF Tick, vars, local, Check, NewCall, ReadClock, Lookup, Deny, Return, Goto, TypeOK
  <2>2. QED
    BY <1>1, <2>1 DEF BurstInv, NothingAfter
<1>5. QED
  BY <1>2, <1>3, <1>4 DEF BurstInv

LEMMA RestartKeepsBurstInv ==
    ASSUME MaxRequests > 0, TypeOK, BurstInv, Restart
    PROVE  BurstInv'
<1>1. /\ UNCHANGED <<now, admittedAt>> /\ restarts' = restarts + 1 /\ restarts \in Nat
      /\ \A k \in Keys : state'[k].count = 0
      /\ \A t \in Threads : pc'[t] = "idle"
  BY DEF Restart, NoEntry, TypeOK
<1>2. ASSUME NEW k \in Keys, NEW s \in Time PROVE Roomy(k, s)'
  <2>1. Admitted(k, s)' = Admitted(k, s)
    BY <1>1 DEF Admitted, Span
  <2>2. Admitted(k, s) \in Int /\ Admitted(k, s) <= Quotas(2 + restarts) - 1
    BY DEF BurstInv, Roomy
  <2>3. 1 + restarts' = 2 + restarts /\ 2 + restarts' = 1 + (2 + restarts)
    BY <1>1
  <2>4. /\ Quotas(1 + restarts)' = Quotas(2 + restarts)
        /\ Quotas(2 + restarts)' = Quotas(1 + (2 + restarts))
    BY <2>3 DEF Quotas
  <2>5. /\ Quotas(2 + restarts) \in Nat
        /\ Quotas(1 + (2 + restarts)) = Quotas(2 + restarts) + MaxRequests
    <3>1. 2 + restarts \in Nat
      BY <1>1
    <3>2. QED
      BY <3>1, QuotasGrow
  <2>6. QED
    BY <1>1, <2>1, <2>2, <2>4, <2>5, GuardAssumption DEF Roomy
<1>3. QED
  BY <1>1, <1>2 DEF BurstInv, NothingAfter

(***************************************************************************)
(* Served by one thread at a time, FixedWindowRateLimiter.allow admits     *)
(* less than two quotas of a client in any span of one window's length,    *)
(* however the span lies to the windows, and one quota more for each       *)
(* restart: a window never opens in a span with another one's opening.     *)
(***************************************************************************)
THEOREM BurstsAreBounded ==
    ASSUME OneAtATime
    PROVE  Spec => []BurstBound
<1>1. CASE ~(MaxRequests > 0)
  <2>1. BurstBound
    BY <1>1 DEF BurstBound
  <2>2. QED
    BY <2>1, PTL
<1>2. CASE MaxRequests > 0 /\ ~(Window > 0)
  <2>1. TypeOK => BurstBound
    <3> SUFFICES ASSUME TypeOK, NEW k \in Keys, NEW s \in Time
                 PROVE  Total(admittedAt[k], s .. (s + Window - 1))
                            <= (2 + restarts) * MaxRequests - 1
      BY DEF BurstBound
    <3>1. admittedAt[k] \in [Time -> Nat] /\ restarts \in Nat
      BY DEF TypeOK
    <3>2. s .. (s + Window - 1) = {}
      BY <1>2, GuardAssumption DEF Time
    <3>3. Total(admittedAt[k], s .. (s + Window - 1)) = 0
      BY <3>1, <3>2, TotalOfNone
    <3>4. Quotas(2 + restarts) \in Nat /\ MaxRequests <= Quotas(2 + restarts)
      BY <1>2, <3>1, QuotasGrow
    <3>5. QED
      BY <1>2, <3>1, <3>3, <3>4, GuardAssumption DEF Quotas
  <2>2. QED
    BY <2>1, TypeCorrect, PTL
<1>3. CASE MaxRequests > 0 /\ Window > 0
  <2>1. Init => BurstInv
    BY <1>3, BurstInvInit
  <2>2. TypeOK /\ MeterInv /\ BurstInv /\ [Next]_vars => BurstInv'
    BY <1>3, AdmissionKeepsBurstInv, QuietKeepsBurstInv, RestartKeepsBurstInv DEF Next
  <2>3. BurstInv => BurstBound
    BY DEF BurstInv, Roomy, Admitted, Span, Quotas, BurstBound
  <2>4. Spec => []MeterInv
    BY <1>3, MeterInvInductive
  <2>5. QED
    BY <2>1, <2>2, <2>3, <2>4, TypeCorrect, PTL DEF Spec
<1>4. QED
  BY <1>1, <1>2, <1>3
=============================================================================
