--------------------------- MODULE Frontend_proofs ---------------------------
(***************************************************************************)
(* Proofs about a session of the page, for any number of events of the     *)
(* browser and any behaviour of the backend.                               *)
(***************************************************************************)
EXTENDS Frontend, TLAPS

\* Calls and entries run in step: the call of the run that is under way is the
\* one that may still lack its entry, and a session that is idle lacks none.
Balanced ==
    /\ Len(backend) \in {Len(transcript), Len(transcript) + 1}
    /\ phase = "idle" => Len(backend) = Len(transcript)
    /\ script \in {"submitted", "recorded"} => Len(backend) = Len(transcript)
    /\ script \in {"calling", "answered"} => Len(backend) = Len(transcript) + 1
    /\ \A i \in DOMAIN transcript : transcript[i].call = i

\* What an outcome tells of the state the backend has the call in.
Tells(told, call) ==
    /\ told \in Statuses => call = told
    /\ told = "bad_response" => call = "unusable"

Truthful ==
    /\ \A i \in 1 .. Len(transcript) : Tells(transcript[i].outcome, backend[i])
    /\ script = "answered" => outcome \in AskOutcome /\ Tells(outcome, backend[Len(backend)])

SessionInv == TypeOK /\ Balanced /\ Truthful

LEMMA ElementOfSeq ==
    ASSUME NEW S, NEW s \in Seq(S), NEW i \in 1 .. Len(s)
    PROVE  s[i] \in S
  OBVIOUS

LEMMA SessionInvInit == Init => SessionInv
<1> SUFFICES ASSUME Init PROVE SessionInv
  OBVIOUS
<1>1. /\ transcript = <<>> /\ backend = <<>>
      /\ Len(transcript) = 0 /\ Len(backend) = 0
      /\ script = "stopped"
  BY DEF Init
<1>2. TypeOK
  <2>1. \A S : <<>> \in Seq(S)
    OBVIOUS
  <2>2. backend \in Seq(BackendStates) /\ transcript \in Seq([call : Nat, outcome : AskOutcome])
    BY <1>1, <2>1, Zenon
  <2>3. QED
    BY <2>2 DEF Init, TypeOK
<1>3. Balanced
  BY <1>1 DEF Balanced
<1>4. Truthful
  BY <1>1 DEF Truthful
<1>5. QED
  BY <1>2, <1>3, <1>4 DEF SessionInv

-----------------------------------------------------------------------------
\* Events, and runs of the script that begin or end without a question.
LEMMA QuietSteps ==
    ASSUME SessionInv, Click \/ Rerun \/ BeginRun \/ Interrupted \/ HeaderRaises
    PROVE  SessionInv'
<1>1. /\ UNCHANGED <<phase, transcript, backend>>
      /\ script' \in {"stopped", "header"} \/ UNCHANGED <<script, outcome>>
  BY DEF Click, Rerun, Event, BeginRun, Interrupted, FromTheTop, HeaderRaises, Step
<1>2. TypeOK'
  BY DEF SessionInv, TypeOK, Click, Rerun, Event, BeginRun, Interrupted,
         FromTheTop, HeaderRaises, Step
<1>3. Balanced'
  BY <1>1 DEF SessionInv, Balanced
<1>4. Truthful'
  BY <1>1 DEF SessionInv, Truthful
<1>5. QED
  BY <1>2, <1>3, <1>4 DEF SessionInv

LEMMA DrawInputStep ==
    ASSUME SessionInv, NEW blank \in BOOLEAN, DrawInput(blank)
    PROVE  SessionInv'
<1>1. /\ UNCHANGED <<transcript, backend, outcome, clicked, pending>>
      /\ \/ phase = "idle" /\ phase' = "waiting" /\ script' = "submitted"
         \/ phase' = phase /\ script' = "stopped"
      /\ enabled' \in BOOLEAN
  BY DEF DrawInput, Step
<1>2. TypeOK'
  BY <1>1 DEF SessionInv, TypeOK
<1>3. Balanced'
  BY <1>1 DEF SessionInv, Balanced
<1>4. Truthful'
  BY <1>1 DEF SessionInv, Truthful
<1>5. QED
  BY <1>2, <1>3, <1>4 DEF SessionInv

LEMMA StartCallStep ==
    ASSUME SessionInv, StartCall
    PROVE  SessionInv'
<1>1. /\ script = "submitted" /\ script' = "calling"
      /\ backend' = Append(backend, "unreached")
      /\ UNCHANGED <<phase, transcript, clicked, enabled, pending, outcome>>
  BY DEF StartCall, Step
<1>2. /\ backend \in Seq(BackendStates) /\ transcript \in Seq([call : Nat, outcome : AskOutcome])
      /\ Len(backend) = Len(transcript)
  BY <1>1 DEF SessionInv, TypeOK, Balanced
<1>3. /\ backend' \in Seq(BackendStates)
      /\ Len(backend') = Len(transcript) + 1
      /\ \A i \in 1 .. Len(transcript) : backend'[i] = backend[i]
  BY <1>1, <1>2 DEF BackendStates
<1>4. TypeOK'
  BY <1>1, <1>3 DEF SessionInv, TypeOK
<1>5. Balanced'
  BY <1>1, <1>3 DEF SessionInv, Balanced, TypeOK
<1>6. Truthful'
  BY <1>1, <1>3 DEF SessionInv, Truthful
<1>7. QED
  BY <1>4, <1>5, <1>6 DEF SessionInv

\* The backend moves on from states of which no outcome tells anything.
LEMMA BackendStep ==
    ASSUME SessionInv, NEW n \in DOMAIN backend, BackendTakes(n) \/ BackendReplies(n)
    PROVE  SessionInv'
<1>1. /\ backend[n] \in {"unreached", "working"}
      /\ \E state \in BackendStates : backend' = [backend EXCEPT ![n] = state]
      /\ UNCHANGED <<phase, transcript, script, clicked, enabled, pending, outcome>>
  BY DEF BackendTakes, BackendReplies, BackendStates
<1>2. backend \in Seq(BackendStates) /\ Len(transcript) \in Nat
  BY DEF SessionInv, TypeOK
<1>3. /\ backend' \in Seq(BackendStates)
      /\ Len(backend') = Len(backend)
      /\ \A i \in 1 .. Len(backend) : i # n => backend'[i] = backend[i]
  BY <1>1, <1>2
<1>4. TypeOK'
  BY <1>1, <1>3 DEF SessionInv, TypeOK
<1>5. Balanced'
  BY <1>1, <1>3 DEF SessionInv, Balanced
<1>6. \A told : Tells(told, backend[n]) => Tells(told, backend'[n])
  BY <1>1 DEF Tells, Statuses
<1>7. Truthful'
  <2>1. \A i \in 1 .. Len(transcript) : i \in 1 .. Len(backend)
    BY <1>2 DEF SessionInv, Balanced
  <2>2. \A i \in 1 .. Len(transcript) : Tells(transcript[i].outcome, backend'[i])
    BY <1>3, <1>6, <2>1 DEF SessionInv, Truthful
  <2>3. script = "answered" => Tells(outcome, backend'[Len(backend)])
    <3>1. script = "answered" => Len(backend) \in 1 .. Len(backend)
      BY <1>2 DEF SessionInv, Balanced
    <3>2. QED
      BY <1>3, <1>6, <3>1 DEF SessionInv, Truthful
  <2>4. QED
    BY <1>1, <1>3, <2>2, <2>3 DEF SessionInv, Truthful
<1>8. QED
  BY <1>4, <1>5, <1>7 DEF SessionInv

LEMMA CallReturnsStep ==
    ASSUME SessionInv, CallReturns
    PROVE  SessionInv'
<1>1. /\ script = "calling" /\ script' = "answered"
      /\ outcome' \in AskOutcomes(backend[Len(backend)])
      /\ UNCHANGED <<phase, transcript, clicked, enabled, pending, backend>>
  BY DEF CallReturns, This
<1>2. backend[Len(backend)] \in BackendStates
  BY <1>1 DEF SessionInv, TypeOK, Balanced
<1>3. outcome' \in AskOutcome /\ Tells(outcome', backend[Len(backend)])
  BY <1>1, <1>2 DEF AskOutcomes, AskOutcome, Tells, BackendStates, Statuses, TransportErrors
<1>4. TypeOK'
  BY <1>1, <1>3 DEF SessionInv, TypeOK
<1>5. Balanced'
  BY <1>1 DEF SessionInv, Balanced
<1>6. Truthful'
  BY <1>1, <1>3 DEF SessionInv, Truthful
<1>7. QED
  BY <1>4, <1>5, <1>6 DEF SessionInv

LEMMA RecordOutcomeStep ==
    ASSUME SessionInv, RecordOutcome
    PROVE  SessionInv'
<1> DEFINE entry == [call |-> Len(backend), outcome |-> outcome]
<1>1. /\ script = "answered" /\ script' = "recorded"
      /\ transcript' = Append(transcript, entry)
      /\ UNCHANGED <<phase, clicked, enabled, pending, backend, outcome>>
  BY DEF RecordOutcome, Step, This
<1>2. /\ transcript \in Seq([call : Nat, outcome : AskOutcome])
      /\ backend \in Seq(BackendStates)
      /\ Len(backend) = Len(transcript) + 1
      /\ outcome \in AskOutcome /\ Tells(outcome, backend[Len(backend)])
  BY <1>1 DEF SessionInv, TypeOK, Balanced, Truthful
<1>3. entry \in [call : Nat, outcome : AskOutcome]
  BY <1>2
<1>4. /\ transcript' \in Seq([call : Nat, outcome : AskOutcome])
      /\ Len(transcript') = Len(backend)
      /\ transcript'[Len(backend)] = entry
      /\ \A i \in 1 .. Len(transcript) : transcript'[i] = transcript[i]
  BY <1>1, <1>2, <1>3
<1>5. TypeOK'
  BY <1>1, <1>4 DEF SessionInv, TypeOK
<1>6. Balanced'
  BY <1>1, <1>2, <1>4 DEF SessionInv, Balanced
<1>7. Truthful'
  BY <1>1, <1>2, <1>4 DEF SessionInv, Truthful
<1>8. QED
  BY <1>5, <1>6, <1>7 DEF SessionInv

LEMMA ResetPhaseStep ==
    ASSUME SessionInv, ResetPhase
    PROVE  SessionInv'
<1>1. /\ script = "recorded" /\ script' = "stopped" /\ phase' = "idle"
      /\ UNCHANGED <<transcript, clicked, enabled, pending, backend, outcome>>
  BY DEF ResetPhase, Step
<1>2. TypeOK'
  BY <1>1 DEF SessionInv, TypeOK
<1>3. Balanced'
  BY <1>1 DEF SessionInv, Balanced
<1>4. Truthful'
  BY <1>1 DEF SessionInv, Truthful
<1>5. QED
  BY <1>2, <1>3, <1>4 DEF SessionInv

LEMMA SessionInvInductive == Spec => []SessionInv
<1>1. SessionInv /\ [Next]_vars => SessionInv'
  <2> SUFFICES ASSUME SessionInv, [Next]_vars PROVE SessionInv'
    OBVIOUS
  <2>1. CASE UNCHANGED vars
    BY <2>1 DEF vars, SessionInv, TypeOK, Balanced, Truthful
  <2>2. CASE Next
    BY <2>2, QuietSteps, DrawInputStep, StartCallStep, BackendStep,
       CallReturnsStep, RecordOutcomeStep, ResetPhaseStep DEF Next, Script
  <2>3. QED
    BY <2>1, <2>2
<1>2. QED
  BY <1>1, SessionInvInit, PTL DEF Spec
-----------------------------------------------------------------------------
\* Type correctness of the session (streamlit_app.py).
THEOREM SessionTypes == Spec => []TypeOK
<1>1. SessionInv => TypeOK
  BY DEF SessionInv
<1>2. QED
  BY <1>1, SessionInvInductive, PTL

\* However many events fall between whichever steps of the script, no question
\* is sent twice for one entry and an idle session has an entry for each.
THEOREM CallsAccounted == Spec => []EveryCallAccounted
<1>1. SessionInv => EveryCallAccounted
  BY DEF SessionInv, TypeOK, Balanced, EveryCallAccounted
<1>2. QED
  BY <1>1, SessionInvInductive, PTL

\* What the transcript claims of a call is what the backend did with it, even
\* if the backend goes on after the client has given up.
THEOREM TranscriptIsHonest == Spec => []TranscriptHonest
<1>1. SessionInv => TranscriptHonest
  <2> SUFFICES ASSUME SessionInv, NEW i \in DOMAIN transcript
               PROVE  LET entry == transcript[i] IN
                      /\ ClaimsExecuted(entry) => backend[entry.call] = "success"
                      /\ ~ClaimsUnreachable(entry) => backend[entry.call] = entry.outcome
                      /\ entry.outcome = "bad_response" => backend[entry.call] = "unusable"
    BY DEF TranscriptHonest
  <2>1. transcript \in Seq([call : Nat, outcome : AskOutcome]) /\ i \in 1 .. Len(transcript)
    BY DEF SessionInv, TypeOK
  <2>2. transcript[i].call = i /\ Tells(transcript[i].outcome, backend[i])
    BY <2>1 DEF SessionInv, Balanced, Truthful
  <2>3. transcript[i].outcome \in Statuses \cup TransportErrors
    <3>1. transcript[i] \in [call : Nat, outcome : AskOutcome]
      BY <2>1, ElementOfSeq
    <3>2. QED
      BY <3>1 DEF AskOutcome
  <2>4. QED
    BY <2>2, <2>3 DEF Tells, ClaimsExecuted, ClaimsUnreachable, Statuses
<1>2. QED
  BY <1>1, SessionInvInductive, PTL

\* The backend works on no question of the session but those it gave up on and
\* the one it waits for: clicks alone never make it work twice.
THEOREM SpendIsBounded == Spec => []SpendBounded
<1>1. SessionInv => SpendBounded
  <2> SUFFICES ASSUME SessionInv, NEW n \in Working
               PROVE  (n = This /\ phase = "waiting") \/ n \in GivenUp
    BY DEF SpendBounded
  <2>1. /\ n \in 1 .. Len(backend) /\ backend[n] = "working"
        /\ transcript \in Seq([call : Nat, outcome : AskOutcome])
        /\ backend \in Seq(BackendStates)
        /\ phase \in {"idle", "waiting"}
    BY DEF Working, SessionInv, TypeOK
  <2>2. CASE n \in 1 .. Len(transcript)
    <3>1. transcript[n] \in [call : Nat, outcome : AskOutcome]
      BY <2>1, <2>2, ElementOfSeq
    <3>2. Tells(transcript[n].outcome, "working")
      BY <2>1, <2>2 DEF SessionInv, Truthful
    <3>3. transcript[n].outcome \in {"timeout", "network"}
      BY <3>1, <3>2 DEF Tells, AskOutcome, Statuses, TransportErrors
    <3>4. QED
      BY <2>1, <2>2, <3>3 DEF GivenUp
  <2>3. CASE n \notin 1 .. Len(transcript)
    BY <2>1, <2>3 DEF SessionInv, Balanced, This
  <2>4. QED
    BY <2>2, <2>3
<1>2. QED
  BY <1>1, SessionInvInductive, PTL
=============================================================================
