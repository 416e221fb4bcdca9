---------------------------- MODULE Server_proofs ----------------------------
(***************************************************************************)
(* Proofs for any number of requests and threads and any number of         *)
(* signals, crashes and changes of the file: a shutdown never pulls the    *)
(* assistant from under a request, a request queues or runs but never      *)
(* both, and a readiness check tells what was so while it was served.      *)
(***************************************************************************)
EXTENDS Server, FiniteSetTheorems, TLAPS
-----------------------------------------------------------------------------
(***************************************************************************)
(* The shutdown.                                                           *)
(***************************************************************************)
\* The lifespan is between its yield and its end.
Up == process \in {"serving", "draining"}

Stops == {"idle", "guard", "inject", "route", "query", "probe", "probing", "replied", "lost"}

Codes == {200, 401, 422, 429, 500, 503}

\* The inductive strengthening: app.state is set exactly while the process
\* serves or drains, and requests are in flight only then.
DrainInv ==
    /\ at \in [Requests -> Stops]
    /\ reply \in [Requests -> Codes \cup {0}]
    /\ Up => assistant /\ probe
    /\ \A r \in Requests : InFlight(r) => Up

LEMMA DrainInvInit == Init => DrainInv
  BY DEF Init, DrainInv, Stops, InFlight, Up

\* The steps of the process itself.
LEMMA ProcessKeepsDrainInv ==
    ASSUME DrainInv,
           \/ ValidateConfig \/ Introspect \/ Signal \/ Teardown \/ Crash
           \/ FileChanges \/ Dispatch
    PROVE  DrainInv'
<1>1. CASE ValidateConfig
  BY <1>1 DEF ValidateConfig, DrainInv, Up, InFlight, app, pool
<1>2. CASE Introspect
  <2>1. /\ UNCHANGED <<at, reply>>
        /\ \A r \in Requests : ~InFlight(r)
        /\ Up' => assistant' /\ probe'
    BY <1>2 DEF Introspect, DrainInv, Up, app
  <2>2. QED
    BY <2>1 DEF DrainInv, InFlight
<1>3. CASE Signal
  BY <1>3 DEF Signal, DrainInv, Up, InFlight, app, pool
<1>4. CASE Teardown
  BY <1>4 DEF Teardown, DrainInv, Up, InFlight, pool
<1>5. CASE Crash
  <2>1. at' = [r \in Requests |-> IF InFlight(r) THEN "lost" ELSE at[r]]
    BY <1>5 DEF Crash
  <2>2. at' \in [Requests -> Stops]
    BY <2>1 DEF DrainInv, Stops
  <2>3. \A r \in Requests : ~InFlight(r)'
    BY <2>1 DEF InFlight
  <2>4. QED
    BY <1>5, <2>2, <2>3 DEF Crash, DrainInv, Up
<1>6. CASE FileChanges
  BY <1>6 DEF FileChanges, DrainInv, Up, InFlight, app, pool
<1>7. CASE Dispatch
  BY <1>7 DEF Dispatch, DrainInv, Up, InFlight, app
<1>8. QED
  BY <1>1, <1>2, <1>3, <1>4, <1>5, <1>6, <1>7

\* What every step of a request does to the state the invariant speaks of.
RequestStep(r) ==
    /\ UNCHANGED <<process, assistant, probe>>
    /\ \E stop \in Stops : at' = [at EXCEPT ![r] = stop]
    /\ \/ UNCHANGED reply
       \/ \E status \in Codes : reply' = [reply EXCEPT ![r] = status]

LEMMA MoveOnIsRequestStep ==
    ASSUME NEW r, NEW stop \in Stops, MoveOn(r, stop)
    PROVE  RequestStep(r)
  BY DEF MoveOn, RequestStep, app

LEMMA ProceedIsRequestStep ==
    ASSUME NEW r, NEW stop \in Stops, Proceed(r, stop)
    PROVE  RequestStep(r)
  BY DEF Proceed, RequestStep, app

LEMMA ReplyIsRequestStep ==
    ASSUME NEW r, NEW status \in Codes, Reply(r, status)
    PROVE  RequestStep(r)
<1>1. /\ UNCHANGED <<process, assistant, probe>>
      /\ at' = [at EXCEPT ![r] = "replied"]
      /\ reply' = [reply EXCEPT ![r] = status]
  BY DEF Reply, app
<1>2. "replied" \in Stops
  BY DEF Stops
<1>3. QED
  BY <1>1, <1>2 DEF RequestStep

\* A thread works only for a request in flight, and then the assistant is set:
\* get_assistant never raises.
LEMMA WorkIsRequestStep ==
    ASSUME DrainInv, NEW r \in Requests, Work(r)
    PROVE  Up /\ RequestStep(r)
<1>1. InFlight(r)
  BY DEF Work, GuardRefuses, GuardAdmits, GetAssistant, Ask, Answer, Health, Ready,
         CheckReachable, ProbeReturns, RunsIn, InFlight
<1>2. Up /\ assistant /\ probe
  BY <1>1 DEF DrainInv
<1>3. RequestStep(r)
  <2>1. CASE GuardRefuses(r)
    BY <2>1, ReplyIsRequestStep DEF GuardRefuses, Codes
  <2>2. CASE GuardAdmits(r)
    BY <2>2, MoveOnIsRequestStep DEF GuardAdmits, Stops
  <2>3. CASE GetAssistant(r)
    <3>1. Reply(r, 422) \/ MoveOn(r, "route")
      BY <1>2, <2>3 DEF GetAssistant
    <3>2. 422 \in Codes /\ "route" \in Stops
      BY DEF Codes, Stops
    <3>3. QED
      BY <3>1, <3>2, MoveOnIsRequestStep, ReplyIsRequestStep
  <2>4. CASE Ask(r) \/ Answer(r)
    BY <2>4, ReplyIsRequestStep, ProceedIsRequestStep DEF Ask, Answer, Codes, Stops
  <2>5. CASE Health(r)
    BY <2>5, ReplyIsRequestStep DEF Health, Codes
  <2>6. CASE Ready(r)
    BY <1>2, <2>6, ProceedIsRequestStep DEF Ready, Stops
  <2>7. CASE CheckReachable(r) \/ ProbeReturns(r)
    BY <2>7, ReplyIsRequestStep, ProceedIsRequestStep DEF CheckReachable, ProbeReturns, Codes,
                                                         Stops
  <2>8. QED
    BY <2>1, <2>2, <2>3, <2>4, <2>5, <2>6, <2>7 DEF Work
<1>4. QED
  BY <1>2, <1>3

LEMMA ArriveIsRequestStep ==
    ASSUME NEW r \in Requests, Arrive(r)
    PROVE  Up /\ RequestStep(r)
  BY DEF Arrive, Up, RequestStep, FirstStop, Stops, app

LEMMA RequestStepKeepsDrainInv ==
    ASSUME DrainInv, NEW r \in Requests, Up, RequestStep(r)
    PROVE  DrainInv'
<1>1. at' \in [Requests -> Stops]
  BY DEF DrainInv, RequestStep
<1>2. reply' \in [Requests -> Codes \cup {0}]
  BY DEF DrainInv, RequestStep
<1>3. Up' /\ assistant' /\ probe'
  BY DEF DrainInv, RequestStep, Up
<1>4. QED
  BY <1>1, <1>2, <1>3 DEF DrainInv

LEMMA DrainInvInductive == Spec => []DrainInv
<1>1. DrainInv /\ [Next]_vars => DrainInv'
  <2> SUFFICES ASSUME DrainInv, [Next]_vars PROVE DrainInv'
    OBVIOUS
  <2>1. CASE UNCHANGED vars
    BY <2>1 DEF vars, app, DrainInv, Up, InFlight
  <2>2. CASE \E r \in Requests : Arrive(r) \/ Work(r)
    BY <2>2, ArriveIsRequestStep, WorkIsRequestStep, RequestStepKeepsDrainInv
  <2>3. QED
    BY <2>1, <2>2, ProcessKeepsDrainInv DEF Next
<1>2. QED
  BY <1>1, DrainInvInit, PTL DEF Spec

(***************************************************************************)
(* Whatever requests are queued or running when a signal comes, the        *)
(* assistant and the probe stay until the last of them is answered, so     *)
(* that get_assistant never raises (main.py, routes.py, dependencies.py).  *)
(***************************************************************************)
THEOREM ShutdownDrains == Spec => []DrainedBeforeTeardown
<1>1. DrainInv => DrainedBeforeTeardown
  BY DEF DrainInv, DrainedBeforeTeardown
<1>2. QED
  BY <1>1, DrainInvInductive, PTL
-----------------------------------------------------------------------------
(***************************************************************************)
(* The thread pool: a request in flight is either in the queue, once, or   *)
(* in a thread, and no more threads are handed out than there are.         *)
(***************************************************************************)
PoolInv ==
    /\ queue \in Seq(Requests) /\ IsInjective(queue)
    /\ threads \subseteq Requests /\ IsFiniteSet(threads)
    /\ Cardinality(threads) <= PoolSize
    /\ ToSet(queue) \cap threads = {}
    /\ ToSet(queue) \cup threads = {r \in Requests : InFlight(r)}

\* A request that joins a queue it is not in is the last of it.
LEMMA JoinsOnce ==
    ASSUME NEW S, NEW q \in Seq(S), NEW x \in S, IsInjective(q), x \notin ToSet(q)
    PROVE  /\ Append(q, x) \in Seq(S) /\ IsInjective(Append(q, x))
           /\ ToSet(Append(q, x)) = ToSet(q) \cup {x}
<1> DEFINE j == Append(q, x)
<1>1. /\ j \in Seq(S) /\ Len(j) = Len(q) + 1 /\ Len(q) \in Nat
      /\ \A i \in 1 .. Len(q) : j[i] = q[i]
      /\ j[Len(q) + 1] = x
  OBVIOUS
<1>2. DOMAIN j = 1 .. Len(q) + 1 /\ DOMAIN q = 1 .. Len(q)
  BY <1>1
<1>3. \A i \in 1 .. Len(q) : q[i] # x
  BY <1>2 DEF ToSet
<1>4. IsInjective(j)
  BY <1>1, <1>2, <1>3 DEF IsInjective
<1>5. ToSet(j) = ToSet(q) \cup {x}
  BY <1>1, <1>2 DEF ToSet
<1>6. QED
  BY <1>1, <1>4, <1>5

\* The head of a queue without repetitions is not in what is left of it.
LEMMA LeavesOnce ==
    ASSUME NEW S, NEW q \in Seq(S), q # <<>>, IsInjective(q)
    PROVE  /\ Tail(q) \in Seq(S) /\ IsInjective(Tail(q))
           /\ Head(q) \in ToSet(q) /\ ToSet(Tail(q)) = ToSet(q) \ {Head(q)}
<1> DEFINE t == Tail(q)
<1>1. /\ t \in Seq(S) /\ Len(q) \in Nat \ {0} /\ Len(t) = Len(q) - 1
      /\ \A i \in 1 .. Len(t) : t[i] = q[i + 1]
      /\ Head(q) = q[1]
  OBVIOUS
<1>2. DOMAIN t = 1 .. Len(t) /\ DOMAIN q = 1 .. Len(q)
  BY <1>1
<1>3. IsInjective(t)
  BY <1>1, <1>2 DEF IsInjective
<1>4. Head(q) \in ToSet(q)
  BY <1>1, <1>2 DEF ToSet
<1>5. ToSet(t) \subseteq ToSet(q) \ {Head(q)}
  BY <1>1, <1>2 DEF ToSet, IsInjective
<1>6. ToSet(q) \ {Head(q)} \subseteq ToSet(t)
  <2>1. ASSUME NEW i \in 1 .. Len(q), q[i] # Head(q)
        PROVE  q[i] \in ToSet(t)
    <3>1. i - 1 \in 1 .. Len(t) /\ t[i - 1] = q[i]
      BY <1>1, <2>1
    <3>2. QED
      BY <1>2, <3>1 DEF ToSet
  <2>2. QED
    BY <1>2, <2>1 DEF ToSet
<1>7. QED
  BY <1>1, <1>3, <1>4, <1>5, <1>6

LEMMA PoolInvInit == Init => PoolInv
<1> SUFFICES ASSUME Init PROVE PoolInv
  OBVIOUS
<1>1. queue = <<>> /\ threads = {} /\ {r \in Requests : InFlight(r)} = {}
  BY DEF Init, InFlight
<1>2. IsInjective(queue) /\ ToSet(queue) = {}
  BY <1>1 DEF IsInjective, ToSet
<1>3. IsFiniteSet(threads) /\ Cardinality(threads) = 0
  BY <1>1, FS_EmptySet
<1>4. QED
  BY <1>1, <1>2, <1>3, ServerAssumption DEF PoolInv

\* A thread that is given back leaves room.
LEMMA GivenBack ==
    ASSUME PoolInv, NEW r
    PROVE  IsFiniteSet(threads \ {r}) /\ Cardinality(threads \ {r}) <= PoolSize
<1>1. /\ IsFiniteSet(threads \ {r}) /\ Cardinality(threads \ {r}) <= Cardinality(threads)
      /\ Cardinality(threads) \in Nat /\ Cardinality(threads \ {r}) \in Nat
  BY FS_Subset, FS_CardinalityType DEF PoolInv
<1>2. QED
  BY <1>1, ServerAssumption DEF PoolInv

\* The call in a thread returns, and the request queues again or is replied to.
LEMMA ReturnKeepsPool ==
    ASSUME DrainInv, PoolInv, NEW r \in Requests, r \in threads,
           NEW stop \in Stops \ {"idle", "lost"},
           at' = [at EXCEPT ![r] = stop], threads' = threads \ {r},
           queue' = IF stop = "replied" THEN queue ELSE Append(queue, r)
    PROVE  PoolInv'
<1>1. r \notin ToSet(queue)
  BY DEF PoolInv
<1>2. /\ queue' \in Seq(Requests) /\ IsInjective(queue')
      /\ ToSet(queue') = IF stop = "replied" THEN ToSet(queue) ELSE ToSet(queue) \cup {r}
  <2>1. queue \in Seq(Requests) /\ IsInjective(queue)
    BY DEF PoolInv
  <2>2. CASE stop = "replied"
    BY <2>1, <2>2
  <2>3. CASE stop # "replied"
    BY <1>1, <2>1, <2>3, JoinsOnce
  <2>4. QED
    BY <2>2, <2>3
<1>3. \A s \in Requests : InFlight(s)' <=> IF s = r THEN stop # "replied" ELSE InFlight(s)
  BY DEF DrainInv, InFlight, Stops
<1>4. /\ ToSet(queue') \cap threads' = {}
      /\ ToSet(queue') \cup threads' = {s \in Requests : InFlight(s)'}
  BY <1>1, <1>2, <1>3 DEF PoolInv
<1>5. QED
  BY <1>2, <1>4, GivenBack DEF PoolInv

LEMMA WorkKeepsPool ==
    ASSUME DrainInv, PoolInv, NEW r \in Requests, Work(r)
    PROVE  PoolInv'
<1>1. CASE \E status : Reply(r, status) /\ r \in threads
  <2>1. "replied" \in Stops \ {"idle", "lost"}
    BY DEF Stops
  <2>2. QED
    BY <1>1, <2>1, ReturnKeepsPool DEF Reply
<1>2. CASE \E stop \in {"inject", "route"} : MoveOn(r, stop) /\ r \in threads
  <2>1. PICK stop \in {"inject", "route"} : MoveOn(r, stop) /\ r \in threads
    BY <1>2
  <2>2. stop \in Stops \ {"idle", "lost"} /\ stop # "replied"
    BY DEF Stops
  <2>3. QED
    BY <2>1, <2>2, ReturnKeepsPool DEF MoveOn
<1>3. CASE \E stop \in {"query", "probe", "probing"} : Proceed(r, stop) /\ r \in threads
  <2>1. \A s \in Requests : InFlight(s)' <=> InFlight(s)
    BY <1>3 DEF DrainInv, PoolInv, InFlight, Proceed
  <2>2. QED
    BY <1>3, <2>1 DEF PoolInv, Proceed, pool
<1>4. QED
  BY <1>1, <1>2, <1>3 DEF Work, GuardRefuses, GuardAdmits, GetAssistant, Ask, Answer, Health,
     Ready, CheckReachable, ProbeReturns, RunsIn

LEMMA ArriveKeepsPool ==
    ASSUME DrainInv, PoolInv, NEW r \in Requests, Arrive(r)
    PROVE  PoolInv'
<1>1. /\ at[r] = "idle" /\ at' = [at EXCEPT ![r] = FirstStop(kind[r])]
      /\ FirstStop(kind[r]) \in {"guard", "route"}
      /\ queue' = Append(queue, r) /\ UNCHANGED threads
  BY DEF Arrive, FirstStop
<1>2. ~InFlight(r) /\ r \notin ToSet(queue) /\ r \notin threads
  BY <1>1 DEF PoolInv, InFlight
<1>3. /\ queue' \in Seq(Requests) /\ IsInjective(queue')
      /\ ToSet(queue') = ToSet(queue) \cup {r}
  BY <1>1, <1>2, JoinsOnce DEF PoolInv
<1>4. \A s \in Requests : InFlight(s)' <=> s = r \/ InFlight(s)
  BY <1>1 DEF DrainInv, InFlight
<1>5. QED
  BY <1>1, <1>2, <1>3, <1>4 DEF PoolInv

LEMMA DispatchKeepsPool ==
    ASSUME PoolInv, Dispatch
    PROVE  PoolInv'
<1>1. /\ queue # <<>> /\ Cardinality(threads) < PoolSize /\ UNCHANGED at
      /\ threads' = threads \cup {Head(queue)} /\ queue' = Tail(queue)
  BY DEF Dispatch
<1>2. /\ queue' \in Seq(Requests) /\ IsInjective(queue')
      /\ Head(queue) \in ToSet(queue) /\ ToSet(queue') = ToSet(queue) \ {Head(queue)}
  BY <1>1, LeavesOnce DEF PoolInv
<1>3. Head(queue) \notin threads
  BY <1>2 DEF PoolInv
<1>4. /\ IsFiniteSet(threads') /\ Cardinality(threads') = Cardinality(threads) + 1
      /\ Cardinality(threads) \in Nat
  BY <1>1, <1>3, FS_AddElement, FS_CardinalityType DEF PoolInv
<1>5. Cardinality(threads') <= PoolSize
  BY <1>1, <1>4, ServerAssumption
<1>6. \A s \in Requests : InFlight(s)' <=> InFlight(s)
  BY <1>1 DEF InFlight
<1>7. QED
  BY <1>1, <1>2, <1>3, <1>4, <1>5, <1>6 DEF PoolInv

LEMMA CrashKeepsPool ==
    ASSUME Crash
    PROVE  PoolInv'
<1>1. /\ queue' = <<>> /\ threads' = {}
      /\ at' = [r \in Requests |-> IF InFlight(r) THEN "lost" ELSE at[r]]
  BY DEF Crash
<1>2. IsInjective(queue') /\ ToSet(queue') = {}
  BY <1>1 DEF IsInjective, ToSet
<1>3. IsFiniteSet(threads') /\ Cardinality(threads') = 0
  BY <1>1, FS_EmptySet
<1>4. \A r \in Requests : ~InFlight(r)'
  BY <1>1 DEF InFlight
<1>5. QED
  BY <1>1, <1>2, <1>3, <1>4, ServerAssumption DEF PoolInv

LEMMA PoolInvInductive == Spec => []PoolInv
<1>1. DrainInv /\ PoolInv /\ [Next]_vars => PoolInv'
  <2> SUFFICES ASSUME DrainInv, PoolInv, [Next]_vars PROVE PoolInv'
    OBVIOUS
  <2>1. CASE UNCHANGED vars \/ ValidateConfig \/ Introspect \/ Signal \/ Teardown \/ FileChanges
    <3>1. UNCHANGED <<at, queue, threads>>
      BY <2>1 DEF vars, pool, ValidateConfig, Introspect, Signal, Teardown, FileChanges
    <3>2. \A s \in Requests : InFlight(s)' <=> InFlight(s)
      BY <3>1 DEF InFlight
    <3>3. QED
      BY <3>1, <3>2 DEF PoolInv
  <2>2. QED
    BY <2>1, WorkKeepsPool, ArriveKeepsPool, DispatchKeepsPool, CrashKeepsPool DEF Next
<1>2. QED
  BY <1>1, PoolInvInit, DrainInvInductive, PTL DEF Spec

\* The process has one of its four states.
LEMMA ProcessTyped ==
    Spec => [](process \in {"stopped", "introspecting", "serving", "draining"})
<1> DEFINE Typed == process \in {"stopped", "introspecting", "serving", "draining"}
<1>1. Init => Typed
  BY DEF Init
<1>2. Typed /\ [Next]_vars => Typed'
  BY DEF Next, vars, ValidateConfig, Introspect, Signal, Teardown, Crash, FileChanges,
     Dispatch, Arrive, Work, GuardRefuses, GuardAdmits, GetAssistant, Ask, Answer, Health,
     Ready, CheckReachable, ProbeReturns, MoveOn, Proceed, Reply
<1>3. QED
  BY <1>1, <1>2, PTL DEF Spec

(***************************************************************************)
(* A request queues or runs, never both and never twice, and only while it *)
(* is in flight: no thread is lost or handed out twice, whatever crashes,  *)
(* refusals and replies come in whatever order.                            *)
(***************************************************************************)
THEOREM ServerTyped == Spec => []TypeOK
<1>1. /\ DrainInv /\ PoolInv
      /\ process \in {"stopped", "introspecting", "serving", "draining"}
      => TypeOK
  BY DEF DrainInv, PoolInv, TypeOK, Stops, Codes
<1>2. QED
  BY <1>1, DrainInvInductive, PoolInvInductive, ProcessTyped, PTL
-----------------------------------------------------------------------------
(***************************************************************************)
(* Readiness: the file as it is now has been seen by every request in      *)
(* flight; while the process has the warehouse open, each of them has seen *)
(* it there, or came when it was open; and a readiness check goes nowhere  *)
(* but to its route and probe.                                             *)
(***************************************************************************)
LiveInv ==
    /\ file \in BOOLEAN
    /\ sawFile \in [Requests -> SUBSET BOOLEAN]
    /\ \A r \in Requests : InFlight(r) =>
          file \in sawFile[r] /\ (Connected => TRUE \in sawFile[r])
    /\ \A r \in Requests : kind[r] = "ready" => at[r] \notin {"guard", "inject", "query"}
    /\ ReadyIsLive

LEMMA LiveInvInit == Init => LiveInv
  BY DEF Init, LiveInv, InFlight, ReadyIsLive

\* What a thread does for a readiness check: it goes on to the probe, or replies.
ReadinessStep(r) ==
    \/ at'[r] \in {"probe", "probing"} /\ UNCHANGED reply
    \/ at'[r] = "replied" /\ reply'[r] = 503 /\ ~file
    \/ at'[r] = "replied" /\ reply'[r] = 200 /\ Connected

LEMMA WorkIsReadinessStep ==
    ASSUME DrainInv, LiveInv, NEW r \in Requests, Work(r), kind[r] = "ready"
    PROVE  ReadinessStep(r)
<1>1. at[r] \notin {"guard", "inject", "query"} /\ r \in DOMAIN at /\ r \in DOMAIN reply
  BY DEF LiveInv, DrainInv
<1>2. Ready(r) \/ CheckReachable(r) \/ ProbeReturns(r)
  BY <1>1 DEF Work, GuardRefuses, GuardAdmits, GetAssistant, Ask, Answer, Health, RunsIn,
              Questions
<1>3. CASE Ready(r)
  <2>1. assistant /\ probe
    BY <1>3 DEF Ready, RunsIn, InFlight, DrainInv
  <2>2. QED
    BY <1>1, <1>3, <2>1 DEF Ready, Proceed, ReadinessStep
<1>4. CASE CheckReachable(r)
  BY <1>1, <1>4 DEF CheckReachable, Proceed, Reply, ReadinessStep
<1>5. CASE ProbeReturns(r)
  BY <1>1, <1>5 DEF ProbeReturns, RunsIn, Reply, ReadinessStep, Connected
<1>6. QED
  BY <1>2, <1>3, <1>4, <1>5

\* A step of a request says nothing of the others and looks at no file twice, and
\* opens the warehouse only where there is a file or it is open already.
LEMMA WorkTouchesOne ==
    ASSUME DrainInv, NEW r \in Requests, Work(r)
    PROVE  /\ UNCHANGED <<file, kind, sawFile>> /\ InFlight(r)
           /\ \A s \in Requests \ {r} : at'[s] = at[s] /\ reply'[s] = reply[s]
           /\ at'[r] \in {"query", "probing"} => file \/ Connected
<1>1. InFlight(r) /\ UNCHANGED <<file, kind, sawFile>>
  BY DEF Work, GuardRefuses, GuardAdmits, GetAssistant, Ask, Answer, Health, Ready,
     CheckReachable, ProbeReturns, RunsIn, InFlight, MoveOn, Proceed, Reply
<1>2. RequestStep(r)
  BY WorkIsRequestStep
<1>3. at'[r] \in {"query", "probing"} => file \/ Connected
  <2>1. r \in DOMAIN at
    BY DEF DrainInv
  <2>2. QED
    BY <2>1 DEF Work, GuardRefuses, GuardAdmits, GetAssistant, Ask, Answer, Health, Ready,
       CheckReachable, ProbeReturns, MoveOn, Proceed, Reply
<1>4. QED
  BY <1>1, <1>2, <1>3 DEF RequestStep, DrainInv

LEMMA WorkKeepsLive ==
    ASSUME DrainInv, LiveInv, NEW r \in Requests, Work(r)
    PROVE  LiveInv'
<1>1. /\ UNCHANGED <<file, kind, sawFile>> /\ InFlight(r)
      /\ \A s \in Requests \ {r} : at'[s] = at[s] /\ reply'[s] = reply[s]
      /\ at'[r] \in {"query", "probing"} => file \/ Connected
  BY WorkTouchesOne
<1>2. file \in sawFile[r] /\ (Connected => TRUE \in sawFile[r])
  BY <1>1 DEF LiveInv
<1>3. kind[r] = "ready" => ReadinessStep(r)
  BY WorkIsReadinessStep
<1>4. ASSUME NEW s \in Requests, kind[s] = "ready", at'[s] = "replied"
      PROVE  (reply'[s] = 200) \in sawFile[s]
  <2>1. CASE s = r
    <3>1. \/ reply'[r] = 503 /\ ~file
          \/ reply'[r] = 200 /\ Connected
      BY <1>3, <1>4, <2>1 DEF ReadinessStep
    <3>2. CASE reply'[r] = 503 /\ ~file
      <4>1. (reply'[r] = 200) = FALSE /\ file = FALSE
        BY <3>2 DEF LiveInv
      <4>2. QED
        BY <1>2, <2>1, <4>1
    <3>3. CASE reply'[r] = 200 /\ Connected
      BY <1>2, <2>1, <3>3
    <3>4. QED
      BY <3>1, <3>2, <3>3
  <2>2. CASE s # r
    BY <1>1, <1>4, <2>2 DEF LiveInv, ReadyIsLive
  <2>3. QED
    BY <2>1, <2>2
<1>5. ASSUME NEW s \in Requests, kind[s] = "ready"
      PROVE  at'[s] \notin {"guard", "inject", "query"}
  <2>1. CASE s = r
    BY <1>3, <1>5, <2>1 DEF ReadinessStep
  <2>2. CASE s # r
    BY <1>1, <1>5, <2>2 DEF LiveInv
  <2>3. QED
    BY <2>1, <2>2
<1>6. \A s \in Requests : InFlight(s)' => InFlight(s)
  BY <1>1 DEF InFlight
<1>7. Connected' => file \/ Connected
  BY <1>1 DEF Connected
<1>8. ASSUME NEW s \in Requests, InFlight(s)'
      PROVE  file \in sawFile[s] /\ (Connected' => TRUE \in sawFile[s])
  <2>1. file \in sawFile[s] /\ (Connected => TRUE \in sawFile[s])
    BY <1>6, <1>8 DEF LiveInv
  <2>2. file => file = TRUE
    BY DEF LiveInv
  <2>3. QED
    BY <1>7, <2>1, <2>2
<1>9. QED
  BY <1>1, <1>4, <1>5, <1>8 DEF LiveInv, ReadyIsLive

LEMMA ArriveKeepsLive ==
    ASSUME DrainInv, LiveInv, NEW r \in Requests, Arrive(r)
    PROVE  LiveInv'
<1>1. /\ at' = [at EXCEPT ![r] = FirstStop(kind[r])]
      /\ sawFile' = [sawFile EXCEPT ![r] = {file, file \/ Connected}]
      /\ UNCHANGED <<file, kind, reply>>
  BY DEF Arrive
<1>2. /\ at'[r] \in {"guard", "route"} /\ (kind[r] = "ready" => at'[r] = "route")
      /\ \A s \in Requests \ {r} : at'[s] = at[s] /\ sawFile'[s] = sawFile[s]
      /\ sawFile'[r] = {file, file \/ Connected}
  BY <1>1 DEF DrainInv, LiveInv, FirstStop, Questions
<1>3. sawFile' \in [Requests -> SUBSET BOOLEAN] /\ file' \in BOOLEAN
  <2>1. file \in BOOLEAN /\ (file \/ Connected) \in BOOLEAN
    BY DEF LiveInv
  <2>2. QED
    BY <1>1, <2>1 DEF LiveInv
<1>4. Connected' => Connected
  BY <1>2 DEF Connected
<1>5. ASSUME NEW s \in Requests, InFlight(s)'
      PROVE  file' \in sawFile'[s] /\ (Connected' => TRUE \in sawFile'[s])
  <2>1. CASE s = r
    <3>1. Connected => (file \/ Connected) = TRUE
      OBVIOUS
    <3>2. QED
      BY <1>1, <1>2, <1>4, <2>1, <3>1
  <2>2. CASE s # r
    BY <1>1, <1>2, <1>4, <1>5, <2>2 DEF LiveInv, InFlight
  <2>3. QED
    BY <2>1, <2>2
<1>6. ReadyIsLive'
  BY <1>1, <1>2 DEF LiveInv, ReadyIsLive
<1>7. QED
  BY <1>1, <1>2, <1>3, <1>5, <1>6 DEF LiveInv

\* The file changes, and every request in flight has seen it so.
LEMMA FileKeepsLive ==
    ASSUME LiveInv, FileChanges
    PROVE  LiveInv'
<1>1. /\ file' = ~file /\ UNCHANGED <<at, kind, reply>>
      /\ sawFile' = [r \in Requests |->
                       IF InFlight(r) THEN sawFile[r] \cup {file'} ELSE sawFile[r]]
  BY DEF FileChanges
<1>2. file' \in BOOLEAN
  BY <1>1
<1>3. sawFile' \in [Requests -> SUBSET BOOLEAN]
  BY <1>1, <1>2 DEF LiveInv
<1>4. Connected' <=> Connected
  BY <1>1 DEF Connected
<1>5. \A r \in Requests : InFlight(r)' =>
         file' \in sawFile'[r] /\ (Connected' => TRUE \in sawFile'[r])
  BY <1>1, <1>4 DEF InFlight, LiveInv
<1>6. \A r \in Requests : at[r] = "replied" => sawFile'[r] = sawFile[r]
  BY <1>1 DEF InFlight
<1>7. ReadyIsLive'
  BY <1>1, <1>6 DEF LiveInv, ReadyIsLive
<1>8. QED
  BY <1>1, <1>2, <1>3, <1>5, <1>7 DEF LiveInv

\* The process and the pool neither reply nor change the file.
LEMMA ProcessKeepsLive ==
    ASSUME LiveInv,
           \/ ValidateConfig \/ Introspect \/ Signal \/ Teardown \/ Crash
           \/ Dispatch \/ UNCHANGED vars
    PROVE  LiveInv'
<1>1. UNCHANGED <<file, kind, reply, sawFile>>
  BY DEF ValidateConfig, Introspect, Signal, Teardown, Crash, Dispatch, vars
<1>2. \A r \in Requests : at'[r] = at[r] \/ at'[r] = "lost"
  BY DEF ValidateConfig, Introspect, Signal, Teardown, Crash, Dispatch, vars
<1>3. (\A r \in Requests : InFlight(r)' => InFlight(r)) /\ (Connected' => Connected)
  BY <1>2 DEF InFlight, Connected
<1>4. ReadyIsLive'
  BY <1>1, <1>2 DEF LiveInv, ReadyIsLive
<1>5. QED
  BY <1>1, <1>2, <1>3, <1>4 DEF LiveInv

(***************************************************************************)
(* Readiness is live: a 503 of GET /ready means that the warehouse was     *)
(* missing at some moment while the check was served, and a 200 that it    *)
(* was there at some such moment, or open in the process when the check    *)
(* came: however long the check queued and however often the file changed. *)
(***************************************************************************)
THEOREM ReadinessTells == Spec => []ReadyIsLive
<1>1. DrainInv /\ LiveInv /\ [Next]_vars => LiveInv'
  BY WorkKeepsLive, ArriveKeepsLive, FileKeepsLive, ProcessKeepsLive DEF Next
<1>2. LiveInv => ReadyIsLive
  BY DEF LiveInv
<1>3. QED
  BY <1>1, <1>2, LiveInvInit, DrainInvInductive, PTL DEF Spec
=============================================================================
