------------------------------- MODULE Release -------------------------------
(***************************************************************************)
(* The release workflow (.github/workflows/release.yml) with its version   *)
(* check (scripts/check_version.py) and the version an image serves        *)
(* (app/api/build_info.py).                                                *)
(*                                                                         *)
(* Runs have no concurrency group, so they overlap; a job may fail after   *)
(* any of its steps, by its timeout too, and be run again later.  Every    *)
(* job checks out the commit of the event that started its run, while the  *)
(* branch moves on.  A pushed tag is not moved.                            *)
(***************************************************************************)
EXTENDS Naturals, Sequences

CONSTANTS
    Runs,          \* runs of the workflow
    History,       \* the commits of the default branch, oldest first
    Names,         \* tags and versions, as v1.2.4
    TagVersion,    \* the X.Y.Z of a name, NoVersion if it has another form
    NoVersion,
    None,
    Latest         \* the image tag that every release moves

(***************************************************************************)
(* A commit is [version, warehouse, sidecar, green]: what pyproject.toml   *)
(* says, the digest of the bundled warehouse and the recorded one ("" for  *)
(* a file that is missing), and whether Ruff, pytest and mypy accept it.   *)
(***************************************************************************)
ASSUME ReleaseAssumption ==
    /\ DOMAIN History = 1 .. Len(History) /\ Len(History) > 0
    /\ \A c \in DOMAIN History : History[c].green \in BOOLEAN
    /\ None \notin DOMAIN History \cup Runs
    /\ Latest \notin Names

VARIABLES
    head,      \* the newest commit of the branch
    tags,      \* the commit of every name that is a tag
    runs,      \* the runs that were started
    registry,  \* the commit an image was built from
    releases   \* GitHub Releases

vars == <<head, tags, runs, registry, releases>>

Commits == DOMAIN History
Points == {"verify", "build", "push", "push_latest", "release", "done"}
Run == [name : Names, padded : BOOLEAN, commit : Commits, by : {"push", "dispatch"},
        at : Points, failed : BOOLEAN]

\* What has not started is no run.
ASSUME NoneAssumption == None \notin Run

Init ==
    /\ head = 1
    /\ tags = [n \in Names |-> None]
    /\ runs = [r \in Runs |-> None]
    /\ registry = [n \in Names \cup {Latest} |-> None]
    /\ releases = {}
-----------------------------------------------------------------------------
(***************************************************************************)
(* Events.  The name that is given for a dispatch is typed, perhaps with   *)
(* blanks around it, and nothing relates it to the commit.                 *)
(***************************************************************************)
NewRun(name, padded, commit, by) ==
    [name |-> name, padded |-> padded, commit |-> commit, by |-> by,
     at |-> "verify", failed |-> FALSE]

Merge ==
    /\ head < Len(History)
    /\ head' = head + 1
    /\ UNCHANGED <<tags, runs, registry, releases>>

PushTag(r, n, c) ==
    /\ runs[r] = None /\ tags[n] = None /\ c <= head
    /\ tags' = [tags EXCEPT ![n] = c]
    /\ runs' = [runs EXCEPT ![r] = NewRun(n, FALSE, c, "push")]
    /\ UNCHANGED <<head, registry, releases>>

Dispatch(r, n, padded, c) ==
    /\ runs[r] = None /\ c <= head
    /\ runs' = [runs EXCEPT ![r] = NewRun(n, padded, c, "dispatch")]
    /\ UNCHANGED <<head, tags, registry, releases>>
-----------------------------------------------------------------------------
(***************************************************************************)
(* verify.  normalize_ref strips the blanks, so check_version sees the     *)
(* name; both digests are compared as the strings awk printed.             *)
(***************************************************************************)
\* Mutant: a well-formed tag and a readable pyproject.toml are not compared.
ConsistentByForm(n, c) == TagVersion[n] # NoVersion /\ History[c].version # NoVersion

Consistent(n, c) ==
    /\ TagVersion[n] # NoVersion
    /\ History[c].version # NoVersion
    /\ TagVersion[n] = History[c].version

Provenance(c) == History[c].sidecar = History[c].warehouse

Releasable(n, c) == Consistent(n, c) /\ Provenance(c) /\ History[c].green

At(r, point) == runs[r] # None /\ runs[r].at = point /\ ~runs[r].failed
GoTo(r, point) == runs' = [runs EXCEPT ![r].at = point]

Verify(r) ==
    /\ At(r, "verify")
    /\ Releasable(runs[r].name, runs[r].commit)
    /\ GoTo(r, "build")
    /\ UNCHANGED <<head, tags, registry, releases>>
-----------------------------------------------------------------------------
(***************************************************************************)
(* publish.  The two names of the image are pushed one after the other.    *)
(* The output of verify still has its blanks: docker refuses such a name.  *)
(***************************************************************************)
\* Mutant: the blanks reach docker push.
BuildPadded(r) ==
    /\ At(r, "build")
    /\ GoTo(r, "push")
    /\ UNCHANGED <<head, tags, registry, releases>>

Build(r) ==
    /\ At(r, "build") /\ ~runs[r].padded
    /\ GoTo(r, "push")
    /\ UNCHANGED <<head, tags, registry, releases>>

\* Mutant: publish checks the branch out, not the commit of the event.
BuiltFromBranch(r) == head

BuiltFrom(r) == runs[r].commit

PushVersion(r) ==
    /\ At(r, "push")
    /\ registry' = [registry EXCEPT ![runs[r].name] = BuiltFrom(r)]
    /\ GoTo(r, "push_latest")
    /\ UNCHANGED <<head, tags, releases>>

PushLatest(r) ==
    /\ At(r, "push_latest")
    /\ registry' = [registry EXCEPT ![Latest] = BuiltFrom(r)]
    /\ GoTo(r, "release")
    /\ UNCHANGED <<head, tags, releases>>
-----------------------------------------------------------------------------
(***************************************************************************)
(* release.  It updates a Release that exists, and GitHub makes a tag that *)
(* does not exist from the default branch.                                 *)
(***************************************************************************)
Released(r) ==
    /\ releases' = releases \cup {runs[r].name}
    /\ tags' = [tags EXCEPT ![runs[r].name] = IF @ = None THEN head ELSE @]
    /\ GoTo(r, "done")
    /\ UNCHANGED <<head, registry>>

\* Mutant: the job needs verify alone.
CreateReleaseUnpublished(r) == runs[r] # None /\ runs[r].at # "verify" /\ Released(r)

CreateRelease(r) == At(r, "release") /\ Released(r)
-----------------------------------------------------------------------------
\* A job fails after any of its steps: a check, the network, its timeout.
Fail(r) ==
    /\ runs[r] # None /\ runs[r].at # "done" /\ ~runs[r].failed
    /\ runs' = [runs EXCEPT ![r].failed = TRUE]
    /\ UNCHANGED <<head, tags, registry, releases>>

FirstStep(point) == IF point \in {"push", "push_latest"} THEN "build" ELSE point

\* Re-run the failed jobs of a run, or all of them: on the same commit.
Rerun(r) ==
    /\ runs[r] # None /\ (runs[r].failed \/ runs[r].at = "done")
    /\ \E point \in {"verify", FirstStep(runs[r].at)} :
           runs' = [runs EXCEPT ![r].at = point, ![r].failed = FALSE]
    /\ UNCHANGED <<head, tags, registry, releases>>

Start(r) ==
    \E n \in Names, c \in Commits :
        PushTag(r, n, c) \/ \E padded \in BOOLEAN : Dispatch(r, n, padded, c)

Next ==
    \/ Merge
    \/ \E r \in Runs :
           \/ Start(r) \/ Verify(r) \/ Build(r) \/ PushVersion(r) \/ PushLatest(r)
           \/ CreateRelease(r) \/ Fail(r) \/ Rerun(r)

Spec == Init /\ [][Next]_vars
-----------------------------------------------------------------------------
\* What GET /version answers in an image: the same value, read again there.
AppVersion(c) == IF History[c].version = NoVersion THEN "unknown" ELSE History[c].version

\* Every variable has its type, and a name that docker refuses gets no further
\* than the build.
ReleaseTypeOK ==
    /\ head \in Commits
    /\ tags \in [Names -> Commits \cup {None}]
    /\ runs \in [Runs -> Run \cup {None}]
    /\ registry \in [Names \cup {Latest} -> Commits \cup {None}]
    /\ releases \subseteq Names
    /\ \A r \in Runs :
           runs[r] # None /\ runs[r].padded => runs[r].at \in {"verify", "build"}

\* However runs overlap, fail and are run again while the branch moves on, every
\* image in the registry, latest included, was built from a commit that the gates
\* accept and whose digests agree (two that are missing do, too); and GET /version
\* in the image of a version answers that version (check_version's tag <-> /version).
EveryImageVerified ==
    /\ \A n \in DOMAIN registry : registry[n] # None =>
           History[registry[n]].green /\ Provenance(registry[n])
    /\ \A n \in Names : registry[n] # None => AppVersion(registry[n]) = TagVersion[n]

\* A GitHub Release names an image that exists, and latest with it; an image that
\* no Release announces has a run that is still going or shown as failed.
ReleaseIsBacked ==
    /\ \A n \in releases : registry[n] # None /\ registry[Latest] # None /\ tags[n] # None
    /\ \A n \in Names : registry[n] # None /\ n \notin releases =>
           \E r \in Runs : runs[r] # None /\ runs[r].name = n /\ runs[r].at # "done"

\* The tag is the source of truth, up to the recovery path: an image of a tagged
\* version that was built from another commit than the tag's is the work of a
\* dispatch that named that version for that commit.
OnlyRecoveryDeviates ==
    \A n \in Names :
        registry[n] # None /\ tags[n] \notin {None, registry[n]} =>
            \E r \in Runs :
                /\ runs[r] # None
                /\ runs[r].by = "dispatch" /\ runs[r].name = n /\ runs[r].commit = registry[n]
==============================================================================
