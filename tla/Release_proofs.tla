---------------------------- MODULE Release_proofs ----------------------------
(***************************************************************************)
(* Proofs for any history, any names and any number of runs that overlap,  *)
(* fail and run again: every image of the registry was verified, no        *)
(* Release announces an image that does not exist, no image is left        *)
(* without a run to answer for it, and none strays from its tag by itself. *)
(***************************************************************************)
EXTENDS Release, TLAPS

RunsTyped == runs \in [Runs -> Run \cup {None}]

\* The run r, which has started, goes to another point, and no other run moves.
Moved(r, point) ==
    /\ runs[r] \in Run /\ runs'[r] \in Run
    /\ runs'[r].name = runs[r].name /\ runs'[r].padded = runs[r].padded
    /\ runs'[r].commit = runs[r].commit /\ runs'[r].by = runs[r].by
    /\ runs'[r].at = point
    /\ \A s \in Runs \ {r} : runs'[s] = runs[s]

LEMMA GoToMoves ==
    ASSUME RunsTyped, NEW r \in Runs, runs[r] # None, NEW point \in Points, GoTo(r, point)
    PROVE  RunsTyped' /\ Moved(r, point)
<1>1. runs[r] \in Run
  BY DEF RunsTyped
<1>2. /\ runs' = [runs EXCEPT ![r] = runs'[r]]
      /\ runs'[r] = [runs[r] EXCEPT !.at = point]
  BY DEF GoTo, RunsTyped
<1>3. /\ runs'[r] \in Run
      /\ runs'[r].name = runs[r].name /\ runs'[r].padded = runs[r].padded
      /\ runs'[r].commit = runs[r].commit /\ runs'[r].by = runs[r].by
      /\ runs'[r].at = point
  BY <1>1, <1>2 DEF Run
<1>4. QED
  BY <1>1, <1>2, <1>3 DEF RunsTyped, Moved

LEMMA FailMoves ==
    ASSUME RunsTyped, NEW r \in Runs, Fail(r)
    PROVE  RunsTyped' /\ Moved(r, runs[r].at)
<1>1. runs[r] \in Run
  BY DEF RunsTyped, Fail
<1>2. /\ runs' = [runs EXCEPT ![r] = runs'[r]]
      /\ runs'[r] = [runs[r] EXCEPT !.failed = TRUE]
  BY DEF Fail, RunsTyped
<1>3. /\ runs'[r] \in Run
      /\ runs'[r].name = runs[r].name /\ runs'[r].padded = runs[r].padded
      /\ runs'[r].commit = runs[r].commit /\ runs'[r].by = runs[r].by
      /\ runs'[r].at = runs[r].at
  BY <1>1, <1>2 DEF Run
<1>4. QED
  BY <1>1, <1>2, <1>3 DEF RunsTyped, Moved

\* A run that runs again begins with verify, or where it was past it.
LEMMA RerunMoves ==
    ASSUME RunsTyped, NEW r \in Runs, Rerun(r)
    PROVE  RunsTyped' /\ \E point \in {"verify", FirstStep(runs[r].at)} : Moved(r, point)
<1>1. runs[r] \in Run
  BY DEF RunsTyped, Rerun
<1>2. PICK point \in {"verify", FirstStep(runs[r].at)} :
        runs' = [runs EXCEPT ![r].at = point, ![r].failed = FALSE]
  BY DEF Rerun
<1>3. point \in Points
  BY <1>1 DEF FirstStep, Points, Run
<1>4. /\ runs' = [runs EXCEPT ![r] = runs'[r]]
      /\ runs'[r] = [[runs[r] EXCEPT !.at = point] EXCEPT !.failed = FALSE]
  BY <1>2 DEF RunsTyped
<1>5. /\ runs'[r] \in Run
      /\ runs'[r].name = runs[r].name /\ runs'[r].padded = runs[r].padded
      /\ runs'[r].commit = runs[r].commit /\ runs'[r].by = runs[r].by
      /\ runs'[r].at = point
  BY <1>1, <1>3, <1>4 DEF Run
<1>6. Moved(r, point)
  BY <1>1, <1>4, <1>5 DEF RunsTyped, Moved
<1>7. QED
  BY <1>4, <1>5, <1>6 DEF RunsTyped

\* A run that starts is about to be verified.
LEMMA StartTyped ==
    ASSUME RunsTyped, NEW r \in Runs, NEW n \in Names, NEW c \in Commits, NEW padded \in BOOLEAN,
           NEW by \in {"push", "dispatch"},
           runs' = [runs EXCEPT ![r] = NewRun(n, padded, c, by)]
    PROVE  /\ RunsTyped'
           /\ runs'[r] # None => runs'[r].at = "verify"
           /\ \A s \in Runs \ {r} : runs'[s] = runs[s]
<1>1. NewRun(n, padded, c, by) \in Run /\ NewRun(n, padded, c, by).at = "verify"
  BY DEF NewRun, Run, Points
<1>2. QED
  BY <1>1 DEF RunsTyped
-----------------------------------------------------------------------------
(***************************************************************************)
(* What makes the properties inductive: a run that got past verify is      *)
(* about a commit that may become the release it names, for ever, since    *)
(* neither the name nor the commit of a run changes.                       *)
(***************************************************************************)
PastVerify ==
    \A r \in Runs : runs[r] # None /\ runs[r].at # "verify" =>
        Releasable(runs[r].name, runs[r].commit)

PaddedStop ==
    \A r \in Runs : runs[r] # None /\ runs[r].padded => runs[r].at \in {"verify", "build"}

IInv == ReleaseTypeOK /\ PastVerify /\ EveryImageVerified

LEMMA MovedKeepsPast ==
    ASSUME PastVerify, NEW r \in Runs, NEW point, Moved(r, point),
           point # "verify" => Releasable(runs[r].name, runs[r].commit)
    PROVE  PastVerify'
  BY DEF PastVerify, Moved, Releasable, Consistent, Provenance

LEMMA MovedKeepsPadded ==
    ASSUME PaddedStop, NEW r \in Runs, NEW point, Moved(r, point),
           runs[r].padded => point \in {"verify", "build"}
    PROVE  PaddedStop'
  BY DEF PaddedStop, Moved

\* An image of a releasable commit under the name it was verified for, or latest.
LEMMA PushKeepsVerified ==
    ASSUME ReleaseTypeOK, EveryImageVerified, NEW n \in Names, NEW c \in Commits,
           NEW name \in {n, Latest}, Releasable(n, c),
           registry' = [registry EXCEPT ![name] = c]
    PROVE  /\ registry' \in [Names \cup {Latest} -> Commits \cup {None}]
           /\ EveryImageVerified'
<1>1. registry \in [Names \cup {Latest} -> Commits \cup {None}]
  BY DEF ReleaseTypeOK
<1>2. registry' \in [Names \cup {Latest} -> Commits \cup {None}]
  BY <1>1
<1>3. ASSUME NEW m \in Names \cup {Latest}, registry'[m] # None
      PROVE  History[registry'[m]].green /\ Provenance(registry'[m])
  BY <1>1, <1>3 DEF EveryImageVerified, Releasable
<1>4. AppVersion(c) = TagVersion[n]
  BY DEF Releasable, Consistent, AppVersion
<1>5. ASSUME NEW m \in Names, registry'[m] # None
      PROVE  AppVersion(registry'[m]) = TagVersion[m]
  <2>1. CASE m = name
    BY <1>1, <1>4, <2>1, ReleaseAssumption
  <2>2. CASE m # name
    BY <1>1, <1>5, <2>2 DEF EveryImageVerified
  <2>3. QED
    BY <2>1, <2>2
<1>6. QED
  BY <1>1, <1>2, <1>3, <1>5 DEF EveryImageVerified, Provenance, AppVersion

\* ReleaseTypeOK, part by part.
LEMMA TypeParts ==
    ReleaseTypeOK <=>
      /\ head \in Commits
      /\ tags \in [Names -> Commits \cup {None}]
      /\ RunsTyped
      /\ registry \in [Names \cup {Latest} -> Commits \cup {None}]
      /\ releases \subseteq Names
      /\ PaddedStop
  BY DEF ReleaseTypeOK, RunsTyped, PaddedStop

\* A step that moves one run and leaves the registry alone.
LEMMA QuietMove ==
    ASSUME IInv, NEW r \in Runs, NEW point, RunsTyped', Moved(r, point),
           point # "verify" => Releasable(runs[r].name, runs[r].commit),
           runs[r].padded => point \in {"verify", "build"},
           tags' \in [Names -> Commits \cup {None}], releases' \subseteq Names,
           UNCHANGED <<head, registry>>
    PROVE  IInv'
<1>1. PastVerify'
  BY MovedKeepsPast DEF IInv
<1>2. ReleaseTypeOK'
  BY TypeParts, MovedKeepsPadded DEF IInv, ReleaseTypeOK, RunsTyped, PaddedStop
<1>3. EveryImageVerified'
  BY DEF IInv, EveryImageVerified, Provenance, AppVersion
<1>4. QED
  BY <1>1, <1>2, <1>3 DEF IInv

\* A step that pushes the image of a verified run under one of its two names.
LEMMA PushMove ==
    ASSUME IInv, NEW r \in Runs, NEW from \in {"push", "push_latest"}, At(r, from),
           NEW name \in {runs[r].name, Latest}, NEW point \in {"push_latest", "release"},
           registry' = [registry EXCEPT ![name] = BuiltFrom(r)],
           GoTo(r, point), UNCHANGED <<head, tags, releases>>
    PROVE  IInv'
<1>1. RunsTyped /\ PaddedStop /\ runs[r] # None /\ runs[r].at = from
  BY TypeParts DEF IInv, At
<1>2. RunsTyped' /\ Moved(r, point)
  BY <1>1, GoToMoves DEF Points
<1>3. ~runs[r].padded
  BY <1>1 DEF PaddedStop
<1>4. Releasable(runs[r].name, runs[r].commit)
  BY <1>1 DEF IInv, PastVerify
<1>5. runs[r].name \in Names /\ runs[r].commit \in Commits
  BY <1>2 DEF Moved, Run
<1>6. /\ registry' \in [Names \cup {Latest} -> Commits \cup {None}]
      /\ EveryImageVerified'
  BY <1>4, <1>5, PushKeepsVerified DEF IInv, BuiltFrom
<1>7. PastVerify' /\ PaddedStop'
  BY <1>1, <1>2, <1>3, <1>4, MovedKeepsPast, MovedKeepsPadded DEF IInv
<1>8. ReleaseTypeOK'
  BY <1>2, <1>6, <1>7 DEF IInv, ReleaseTypeOK, RunsTyped, PaddedStop
<1>9. QED
  BY <1>6, <1>7, <1>8 DEF IInv

\* A step that starts a run.
LEMMA StartKeepsInv ==
    ASSUME IInv, NEW r \in Runs, Start(r)
    PROVE  IInv'
<1>1. PICK n \in Names, c \in Commits, padded \in BOOLEAN, by \in {"push", "dispatch"} :
        /\ runs' = [runs EXCEPT ![r] = NewRun(n, padded, c, by)]
        /\ tags' \in [Names -> Commits \cup {None}]
        /\ UNCHANGED <<head, registry, releases>>
  <2>1. tags \in [Names -> Commits \cup {None}]
    BY DEF IInv, ReleaseTypeOK
  <2>2. ASSUME NEW n \in Names, NEW c \in Commits, PushTag(r, n, c)
        PROVE  /\ runs' = [runs EXCEPT ![r] = NewRun(n, FALSE, c, "push")]
               /\ tags' \in [Names -> Commits \cup {None}]
               /\ UNCHANGED <<head, registry, releases>>
    BY <2>1, <2>2 DEF PushTag
  <2>3. ASSUME NEW n \in Names, NEW c \in Commits, NEW padded \in BOOLEAN,
               Dispatch(r, n, padded, c)
        PROVE  /\ runs' = [runs EXCEPT ![r] = NewRun(n, padded, c, "dispatch")]
               /\ tags' \in [Names -> Commits \cup {None}]
               /\ UNCHANGED <<head, registry, releases>>
    BY <2>1, <2>3 DEF Dispatch
  <2>4. PICK n \in Names, c \in Commits :
          PushTag(r, n, c) \/ \E padded \in BOOLEAN : Dispatch(r, n, padded, c)
    BY DEF Start
  <2>5. CASE PushTag(r, n, c)
    BY <2>2, <2>5
  <2>6. CASE \E padded \in BOOLEAN : Dispatch(r, n, padded, c)
    BY <2>3, <2>6
  <2>7. QED
    BY <2>4, <2>5, <2>6
<1>2. RunsTyped' /\ (runs'[r] # None => runs'[r].at = "verify")
      /\ \A s \in Runs \ {r} : runs'[s] = runs[s]
  BY <1>1, StartTyped, TypeParts DEF IInv
<1>3. PastVerify'
  BY <1>2 DEF IInv, PastVerify, Releasable, Consistent, Provenance
<1>4. PaddedStop'
  BY <1>2, TypeParts DEF IInv, PaddedStop
<1>5. ReleaseTypeOK'
  BY <1>1, <1>2, <1>4 DEF IInv, ReleaseTypeOK, RunsTyped, PaddedStop
<1>6. EveryImageVerified'
  BY <1>1 DEF IInv, EveryImageVerified, Provenance, AppVersion
<1>7. QED
  BY <1>3, <1>5, <1>6 DEF IInv

LEMMA IInvInit == Init => IInv
<1> SUFFICES ASSUME Init PROVE IInv
  OBVIOUS
<1>1. head \in Commits
  BY ReleaseAssumption DEF Init, Commits
<1>2. ReleaseTypeOK
  BY <1>1 DEF Init, ReleaseTypeOK
<1>3. PastVerify /\ EveryImageVerified
  BY DEF Init, PastVerify, EveryImageVerified
<1>4. QED
  BY <1>2, <1>3 DEF IInv

\* The steps of a run that was started, job by job.
LEMMA JobKeepsInv ==
    ASSUME IInv, NEW r \in Runs,
           \/ Verify(r) \/ Build(r) \/ PushVersion(r) \/ PushLatest(r)
           \/ CreateRelease(r) \/ Fail(r) \/ Rerun(r)
    PROVE  IInv'
<1>1. RunsTyped /\ PaddedStop /\ PastVerify
  BY TypeParts DEF IInv
<1>2. /\ tags \in [Names -> Commits \cup {None}] /\ releases \subseteq Names
      /\ head \in Commits
  BY DEF IInv, ReleaseTypeOK
<1>3. CASE Verify(r)
  <2>1. /\ runs[r] # None /\ runs[r].at = "verify" /\ GoTo(r, "build")
        /\ Releasable(runs[r].name, runs[r].commit)
        /\ UNCHANGED <<head, tags, registry, releases>>
    BY <1>3 DEF Verify, At
  <2>2. RunsTyped' /\ Moved(r, "build")
    BY <1>1, <2>1, GoToMoves DEF Points
  <2>3. QED
    BY <1>2, <2>1, <2>2, QuietMove
<1>4. CASE Build(r)
  <2>1. /\ runs[r] # None /\ runs[r].at = "build" /\ GoTo(r, "push") /\ ~runs[r].padded
        /\ UNCHANGED <<head, tags, registry, releases>>
    BY <1>4 DEF Build, At
  <2>2. RunsTyped' /\ Moved(r, "push")
    BY <1>1, <2>1, GoToMoves DEF Points
  <2>3. Releasable(runs[r].name, runs[r].commit)
    BY <1>1, <2>1 DEF PastVerify
  <2>4. QED
    BY <1>2, <2>1, <2>2, <2>3, QuietMove
<1>5. CASE PushVersion(r)
  BY <1>5, PushMove DEF PushVersion
<1>6. CASE PushLatest(r)
  BY <1>6, PushMove DEF PushLatest
<1>7. CASE CreateRelease(r)
  <2>1. /\ runs[r] # None /\ runs[r].at = "release" /\ GoTo(r, "done")
        /\ tags' = [tags EXCEPT ![runs[r].name] = IF @ = None THEN head ELSE @]
        /\ releases' = releases \cup {runs[r].name}
        /\ UNCHANGED <<head, registry>>
    BY <1>7 DEF CreateRelease, Released, At
  <2>2. RunsTyped' /\ Moved(r, "done")
    BY <1>1, <2>1, GoToMoves DEF Points
  <2>3. Releasable(runs[r].name, runs[r].commit) /\ ~runs[r].padded
    BY <1>1, <2>1 DEF PastVerify, PaddedStop
  <2>4. runs[r].name \in Names
    BY <2>2 DEF Moved, Run
  <2>5. tags' \in [Names -> Commits \cup {None}] /\ releases' \subseteq Names
    BY <1>2, <2>1, <2>4
  <2>6. QED
    BY <2>1, <2>2, <2>3, <2>5, QuietMove
<1>8. CASE Fail(r)
  <2>1. RunsTyped' /\ Moved(r, runs[r].at) /\ runs[r] # None
    BY <1>1, <1>8, FailMoves DEF Fail
  <2>2. /\ runs[r].at # "verify" => Releasable(runs[r].name, runs[r].commit)
        /\ runs[r].padded => runs[r].at \in {"verify", "build"}
    BY <1>1, <2>1 DEF PastVerify, PaddedStop
  <2>3. QED
    BY <1>2, <1>8, <2>1, <2>2, QuietMove DEF Fail
<1>9. CASE Rerun(r)
  <2>1. RunsTyped' /\ runs[r] # None
    BY <1>1, <1>9, RerunMoves DEF Rerun
  <2>2. PICK point \in {"verify", FirstStep(runs[r].at)} : Moved(r, point)
    BY <1>1, <1>9, RerunMoves
  <2>3. /\ point # "verify" => Releasable(runs[r].name, runs[r].commit)
        /\ runs[r].padded => point \in {"verify", "build"}
    BY <1>1, <2>1, <2>2 DEF PastVerify, PaddedStop, FirstStep
  <2>4. QED
    BY <1>2, <1>9, <2>1, <2>2, <2>3, QuietMove DEF Rerun
<1>10. QED
  BY <1>3, <1>4, <1>5, <1>6, <1>7, <1>8, <1>9

\* The branch moves on, or nothing happens.
LEMMA MergeKeepsInv ==
    ASSUME IInv, Merge \/ UNCHANGED vars
    PROVE  IInv'
<1>1. head' \in Commits /\ UNCHANGED <<tags, runs, registry, releases>>
  BY ReleaseAssumption DEF IInv, ReleaseTypeOK, Merge, vars, Commits
<1>2. QED
  BY <1>1 DEF IInv, ReleaseTypeOK, PastVerify, EveryImageVerified, Releasable, Consistent,
              Provenance, AppVersion

LEMMA InductiveInvariant == Spec => []IInv
<1>1. IInv /\ [Next]_vars => IInv'
  BY StartKeepsInv, JobKeepsInv, MergeKeepsInv DEF Next
<1>2. QED
  BY <1>1, IInvInit, PTL DEF Spec

(***************************************************************************)
(* Types, and no run of a name that docker refuses gets past the build.    *)
(***************************************************************************)
THEOREM ReleaseTypes == Spec => []ReleaseTypeOK
<1>1. IInv => ReleaseTypeOK
  BY DEF IInv
<1>2. QED
  BY <1>1, InductiveInvariant, PTL

(***************************************************************************)
(* A commit that the gates refuse, a drifted warehouse or another version  *)
(* never gets into the registry, under no name, however many runs of       *)
(* release.yml overlap, fail half-way and are run again while the branch   *)
(* moves on; and an image answers GET /version with the version it is      *)
(* published as.                                                           *)
(***************************************************************************)
THEOREM ImagesAreVerified == Spec => []EveryImageVerified
<1>1. IInv => EveryImageVerified
  BY DEF IInv
<1>2. QED
  BY <1>1, InductiveInvariant, PTL
-----------------------------------------------------------------------------
(***************************************************************************)
(* The ledger: what the registry, the tags and the Releases hold for every *)
(* point that a run is at.  None of them ever loses anything, and a run    *)
(* keeps its name, its commit and the event that started it.               *)
(***************************************************************************)
RunsBacked ==
    \A r \in Runs : runs[r] # None =>
        /\ runs[r].at \in {"push_latest", "release", "done"} => registry[runs[r].name] # None
        /\ runs[r].at \in {"release", "done"} => registry[Latest] # None
        /\ runs[r].at = "done" => runs[r].name \in releases

\* A run that a tag started is about the commit of that tag.
PushesTagged ==
    \A r \in Runs : runs[r] # None /\ runs[r].by = "push" => tags[runs[r].name] = runs[r].commit

ReleasesBacked ==
    \A n \in releases : registry[n] # None /\ registry[Latest] # None /\ tags[n] # None

\* The run r was started to publish the commit c as n.
Publishes(r, n, c) == runs[r] # None /\ runs[r].name = n /\ runs[r].commit = c

ImagesHaveRuns ==
    \A n \in Names : registry[n] # None => \E r \in Runs : Publishes(r, n, registry[n])

Ledger == RunsBacked /\ PushesTagged /\ ReleasesBacked /\ ImagesHaveRuns

\* Nothing is lost: an image stays an image, a tag stays where it is, a Release
\* stays one.
NothingLost ==
    /\ \A n \in Names \cup {Latest} : registry[n] # None => registry'[n] # None
    /\ \A n \in Names : tags[n] # None => tags'[n] = tags[n]
    /\ releases \subseteq releases'

LEMMA LedgerInit == Init => Ledger
  BY DEF Init, Ledger, RunsBacked, PushesTagged, ReleasesBacked, ImagesHaveRuns

\* What holds of a run that does not move, and of one that moves to a point whose
\* dues are paid.
LEMMA MovedKeepsBacked ==
    ASSUME IInv, RunsBacked, NothingLost, NEW r \in Runs, NEW point, Moved(r, point),
           point \in {"push_latest", "release", "done"} => registry'[runs[r].name] # None,
           point \in {"release", "done"} => registry'[Latest] # None,
           point = "done" => runs[r].name \in releases'
    PROVE  RunsBacked'
<1>1. ASSUME NEW s \in Runs \ {r}, runs'[s] # None
      PROVE  /\ runs'[s].at \in {"push_latest", "release", "done"} =>
                    registry'[runs'[s].name] # None
             /\ runs'[s].at \in {"release", "done"} => registry'[Latest] # None
             /\ runs'[s].at = "done" => runs'[s].name \in releases'
  <2>1. runs'[s] = runs[s] /\ runs[s] \in Run
    BY <1>1, TypeParts DEF Moved, IInv, RunsTyped
  <2>2. runs[s].name \in Names
    BY <2>1 DEF Run
  <2>3. QED
    BY <1>1, <2>1, <2>2 DEF RunsBacked, NothingLost
<1>2. QED
  BY <1>1 DEF RunsBacked, Moved

LEMMA MovedKeepsTagged ==
    ASSUME IInv, PushesTagged, NothingLost, NEW r \in Runs, NEW point, Moved(r, point)
    PROVE  PushesTagged'
<1>1. ASSUME NEW s \in Runs, runs'[s] # None, runs'[s].by = "push"
      PROVE  tags'[runs'[s].name] = runs'[s].commit
  <2>1. /\ runs'[s].name = runs[s].name /\ runs'[s].commit = runs[s].commit
        /\ runs'[s].by = runs[s].by /\ runs[s] \in Run
    BY <1>1, NoneAssumption, TypeParts DEF Moved, IInv, RunsTyped
  <2>2. runs[s] # None /\ runs[s].name \in Names /\ runs[s].commit \in Commits
    BY <2>1, NoneAssumption DEF Run
  <2>3. tags[runs[s].name] = runs[s].commit /\ runs[s].commit # None
    BY <1>1, <2>1, <2>2, ReleaseAssumption DEF PushesTagged, Commits
  <2>4. QED
    BY <2>1, <2>2, <2>3 DEF NothingLost
<1>2. QED
  BY <1>1 DEF PushesTagged

\* A run that moves goes on publishing what it publishes.
LEMMA MovedKeepsPublishing ==
    ASSUME NEW r \in Runs, NEW point, Moved(r, point), NEW s \in Runs, NEW n, NEW c,
           Publishes(s, n, c)
    PROVE  Publishes(s, n, c)'
  BY NoneAssumption DEF Moved, Publishes

\* A step that moves one run and nothing else.
LEMMA QuietMoveKeepsLedger ==
    ASSUME IInv, Ledger, NEW r \in Runs, NEW point, Moved(r, point), runs[r] # None,
           point \in {"verify", "build", "push", runs[r].at},
           UNCHANGED <<tags, registry, releases>>
    PROVE  Ledger'
<1>1. NothingLost
  BY DEF NothingLost
<1>2. RunsBacked'
  BY <1>1, MovedKeepsBacked DEF Ledger, RunsBacked
<1>3. PushesTagged'
  BY <1>1, MovedKeepsTagged DEF Ledger
<1>4. ImagesHaveRuns'
  BY MovedKeepsPublishing DEF Ledger, ImagesHaveRuns
<1>5. QED
  BY <1>2, <1>3, <1>4 DEF Ledger, ReleasesBacked

LEMMA StartKeepsLedger ==
    ASSUME IInv, Ledger, NEW r \in Runs, Start(r)
    PROVE  Ledger'
<1>1. PICK n \in Names, c \in Commits, padded \in BOOLEAN, by \in {"push", "dispatch"} :
        /\ runs[r] = None
        /\ runs' = [runs EXCEPT ![r] = NewRun(n, padded, c, by)]
        /\ \/ by = "push" /\ tags[n] = None /\ tags' = [tags EXCEPT ![n] = c]
           \/ by = "dispatch" /\ UNCHANGED tags
        /\ UNCHANGED <<registry, releases>>
  BY DEF Start, PushTag, Dispatch
<1>2. tags \in [Names -> Commits \cup {None}] /\ RunsTyped
  BY TypeParts DEF IInv
<1>3. /\ runs'[r] = NewRun(n, padded, c, by)
      /\ \A s \in Runs \ {r} : runs'[s] = runs[s]
  BY <1>1, <1>2 DEF RunsTyped
<1>4. /\ runs'[r].name = n /\ runs'[r].commit = c /\ runs'[r].by = by
      /\ runs'[r].at = "verify"
  BY <1>3 DEF NewRun
<1>5. \A m \in Names : tags[m] # None => tags'[m] = tags[m]
  BY <1>1, <1>2
<1>6. by = "push" => tags'[n] = c
  BY <1>1, <1>2
<1>7. RunsBacked'
  BY <1>1, <1>3, <1>4 DEF Ledger, RunsBacked
<1>8. PushesTagged'
  <2>1. ASSUME NEW s \in Runs \ {r}, runs[s] # None, runs[s].by = "push"
        PROVE  tags'[runs[s].name] = runs[s].commit
    <3>1. runs[s].name \in Names /\ runs[s].commit \in Commits
      BY <1>2, <2>1 DEF RunsTyped, Run
    <3>2. QED
      BY <1>5, <2>1, <3>1, ReleaseAssumption DEF Ledger, PushesTagged, Commits
  <2>2. QED
    BY <1>3, <1>4, <1>6, <2>1 DEF PushesTagged
<1>9. ReleasesBacked'
  BY <1>1, <1>5 DEF Ledger, ReleasesBacked, IInv, ReleaseTypeOK
<1>10. ImagesHaveRuns'
  <2>1. ASSUME NEW s \in Runs, NEW m, NEW d, Publishes(s, m, d)
        PROVE  Publishes(s, m, d)'
    BY <1>1, <1>3, <2>1 DEF Publishes
  <2>2. QED
    BY <1>1, <2>1 DEF Ledger, ImagesHaveRuns
<1>11. QED
  BY <1>7, <1>8, <1>9, <1>10 DEF Ledger

\* The image of a run gets one of its two names.
LEMMA PushKeepsLedger ==
    ASSUME IInv, Ledger, NEW r \in Runs, PushVersion(r) \/ PushLatest(r)
    PROVE  Ledger'
<1>1. RunsTyped /\ registry \in [Names \cup {Latest} -> Commits \cup {None}]
  BY TypeParts DEF IInv
<1>2. PICK point \in {"push_latest", "release"} :
        /\ runs[r] # None /\ GoTo(r, point) /\ UNCHANGED <<tags, releases>>
        /\ \/ /\ point = "push_latest"
              /\ registry' = [registry EXCEPT ![runs[r].name] = runs[r].commit]
           \/ /\ point = "release" /\ runs[r].at = "push_latest"
              /\ registry' = [registry EXCEPT ![Latest] = runs[r].commit]
  BY DEF PushVersion, PushLatest, At, BuiltFrom
<1>3. Moved(r, point)
  BY <1>1, <1>2, GoToMoves DEF Points
<1>4. runs[r].name \in Names /\ runs[r].commit \in Commits /\ runs[r].commit # None
  BY <1>3, ReleaseAssumption DEF Moved, Run, Commits
<1>5. NothingLost
  BY <1>1, <1>2, <1>4 DEF NothingLost
<1>6. /\ registry'[runs[r].name] # None
      /\ point = "release" => registry'[Latest] # None
  BY <1>1, <1>2, <1>4, <1>5 DEF Ledger, RunsBacked, NothingLost
<1>7. RunsBacked' /\ PushesTagged'
  BY <1>3, <1>5, <1>6, MovedKeepsBacked, MovedKeepsTagged DEF Ledger
<1>8. ReleasesBacked'
  BY <1>2, <1>5 DEF Ledger, ReleasesBacked, NothingLost, IInv, ReleaseTypeOK
<1>9. ImagesHaveRuns'
  <2>1. ASSUME NEW n \in Names, registry'[n] # None
        PROVE  \E s \in Runs : Publishes(s, n, registry[n])'
    <3>1. CASE n = runs[r].name /\ point = "push_latest"
      <4>1. registry'[n] = runs[r].commit
        BY <1>1, <1>2, <3>1
      <4>2. Publishes(r, n, registry[n])'
        BY <1>3, <3>1, <4>1, NoneAssumption DEF Moved, Publishes
      <4>3. QED
        BY <4>2
    <3>2. CASE ~(n = runs[r].name /\ point = "push_latest")
      <4>1. registry'[n] = registry[n]
        BY <1>1, <1>2, <3>2, ReleaseAssumption
      <4>2. PICK s \in Runs : Publishes(s, n, registry[n])
        BY <2>1, <4>1 DEF Ledger, ImagesHaveRuns
      <4>3. Publishes(s, n, registry[n])'
        BY <1>3, <4>1, <4>2, NoneAssumption DEF Moved, Publishes
      <4>4. QED
        BY <4>3
    <3>3. QED
      BY <3>1, <3>2
  <2>2. QED
    BY <2>1 DEF ImagesHaveRuns
<1>10. QED
  BY <1>7, <1>8, <1>9 DEF Ledger

\* The Release comes last, and a tag with it if there was none.
LEMMA ReleaseKeepsLedger ==
    ASSUME IInv, Ledger, NEW r \in Runs, CreateRelease(r)
    PROVE  Ledger'
<1>1. /\ runs[r] # None /\ runs[r].at = "release" /\ GoTo(r, "done")
      /\ tags' = [tags EXCEPT ![runs[r].name] = IF @ = None THEN head ELSE @]
      /\ releases' = releases \cup {runs[r].name}
      /\ UNCHANGED registry
  BY DEF CreateRelease, Released, At
<1>2. RunsTyped /\ tags \in [Names -> Commits \cup {None}] /\ head # None
  BY TypeParts, ReleaseAssumption DEF IInv, Commits
<1>3. Moved(r, "done")
  BY <1>1, <1>2, GoToMoves DEF Points
<1>4. runs[r].name \in Names
  BY <1>3 DEF Moved, Run
<1>5. NothingLost /\ tags'[runs[r].name] # None
  BY <1>1, <1>2, <1>4 DEF NothingLost
<1>6. registry[runs[r].name] # None /\ registry[Latest] # None
  BY <1>1 DEF Ledger, RunsBacked
<1>7. RunsBacked' /\ PushesTagged'
  BY <1>1, <1>3, <1>5, <1>6, MovedKeepsBacked, MovedKeepsTagged DEF Ledger
<1>8. ReleasesBacked'
  BY <1>1, <1>5, <1>6 DEF Ledger, ReleasesBacked, NothingLost, IInv, ReleaseTypeOK
<1>9. ImagesHaveRuns'
  BY <1>1, <1>3, MovedKeepsPublishing DEF Ledger, ImagesHaveRuns
<1>10. QED
  BY <1>7, <1>8, <1>9 DEF Ledger

LEMMA JobKeepsLedger ==
    ASSUME IInv, Ledger, NEW r \in Runs,
           \/ Verify(r) \/ Build(r) \/ PushVersion(r) \/ PushLatest(r)
           \/ CreateRelease(r) \/ Fail(r) \/ Rerun(r)
    PROVE  Ledger'
<1>1. RunsTyped
  BY TypeParts DEF IInv
<1>2. CASE Verify(r) \/ Build(r)
  <2>1. PICK point \in {"build", "push"} : GoTo(r, point)
    BY <1>2 DEF Verify, Build
  <2>2. runs[r] # None /\ UNCHANGED <<tags, registry, releases>>
    BY <1>2 DEF Verify, Build, At
  <2>3. Moved(r, point)
    BY <1>1, <2>1, <2>2, GoToMoves DEF Points
  <2>4. QED
    BY <2>2, <2>3, QuietMoveKeepsLedger
<1>3. CASE Fail(r)
  BY <1>1, <1>3, FailMoves, QuietMoveKeepsLedger DEF Fail
<1>4. CASE Rerun(r)
  <2>1. PICK point \in {"verify", FirstStep(runs[r].at)} : Moved(r, point)
    BY <1>1, <1>4, RerunMoves
  <2>2. point \in {"verify", "build", "push", runs[r].at}
    BY DEF FirstStep
  <2>3. QED
    BY <1>4, <2>1, <2>2, QuietMoveKeepsLedger DEF Rerun
<1>5. QED
  BY <1>2, <1>3, <1>4, PushKeepsLedger, ReleaseKeepsLedger

\* The branch moves on, or nothing happens.
LEMMA MergeKeepsLedger ==
    ASSUME Ledger, Merge \/ UNCHANGED vars
    PROVE  Ledger'
<1>1. UNCHANGED <<tags, runs, registry, releases>>
  BY DEF Merge, vars
<1>2. QED
  BY <1>1 DEF Ledger, RunsBacked, PushesTagged, ReleasesBacked, ImagesHaveRuns, Publishes

LEMMA LedgerInductive == Spec => []Ledger
<1>1. IInv /\ Ledger /\ [Next]_vars => Ledger'
  BY StartKeepsLedger, JobKeepsLedger, MergeKeepsLedger DEF Next
<1>2. QED
  BY <1>1, LedgerInit, InductiveInvariant, PTL DEF Spec

(***************************************************************************)
(* No Release announces an image that is not there, latest included, and   *)
(* no image is published without a Release unless a run of its name is     *)
(* still going or shown as failed: publish is before release, and a run    *)
(* that is done has made its Release (the `needs` of release.yml).         *)
(***************************************************************************)
THEOREM ReleasesAreBacked == Spec => []ReleaseIsBacked
<1>1. ASSUME Ledger, NEW n \in Names, registry[n] # None, n \notin releases
      PROVE  \E r \in Runs : runs[r] # None /\ runs[r].name = n /\ runs[r].at # "done"
  <2>1. PICK r \in Runs : Publishes(r, n, registry[n])
    BY <1>1 DEF Ledger, ImagesHaveRuns
  <2>2. runs[r] # None /\ runs[r].name = n /\ runs[r].at # "done"
    BY <1>1, <2>1 DEF Ledger, RunsBacked, Publishes
  <2>3. QED
    BY <2>2
<1>2. Ledger => ReleaseIsBacked
  BY <1>1 DEF Ledger, ReleasesBacked, ReleaseIsBacked
<1>3. QED
  BY <1>2, LedgerInductive, PTL

(***************************************************************************)
(* An image under the name of a tag that was not built from that tag was   *)
(* asked for by hand: no run that a tag started, late, failed or run again *)
(* however often, publishes another commit than its tag's.                 *)
(***************************************************************************)
THEOREM OnlyDispatchDeviates == Spec => []OnlyRecoveryDeviates
<1>1. ASSUME IInv, Ledger, NEW n \in Names,
             registry[n] # None, tags[n] \notin {None, registry[n]}
      PROVE  \E r \in Runs :
                /\ runs[r] # None
                /\ runs[r].by = "dispatch" /\ runs[r].name = n /\ runs[r].commit = registry[n]
  <2>1. PICK r \in Runs : Publishes(r, n, registry[n])
    BY <1>1 DEF Ledger, ImagesHaveRuns
  <2>2. runs[r] # None /\ runs[r].name = n /\ runs[r].commit = registry[n]
    BY <2>1 DEF Publishes
  <2>3. runs[r].by \in {"push", "dispatch"}
    BY <1>1, <2>2, TypeParts DEF IInv, RunsTyped, Run
  <2>4. runs[r].by # "push"
    BY <1>1, <2>2 DEF Ledger, PushesTagged
  <2>5. QED
    BY <2>2, <2>3, <2>4
<1>2. IInv /\ Ledger => OnlyRecoveryDeviates
  BY <1>1 DEF OnlyRecoveryDeviates
<1>3. QED
  BY <1>2, InductiveInvariant, LedgerInductive, PTL
===============================================================================
