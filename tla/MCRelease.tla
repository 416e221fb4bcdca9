------------------------------ MODULE MCRelease ------------------------------
(***************************************************************************)
(* The instance of Release for TLC: a release, the commits after it that   *)
(* may not become one, each for a reason of its own, and two that may.     *)
(***************************************************************************)
EXTENDS Release, TLC

CommitOf(version, warehouse, sidecar, green) ==
    [version |-> version, warehouse |-> warehouse, sidecar |-> sidecar, green |-> green]

MCHistory ==
    <<CommitOf("1.2.4", "certified", "certified", TRUE),
      CommitOf("1.2.4", "drifted", "certified", TRUE),
      CommitOf("1.2.4", "certified", "certified", TRUE),
      CommitOf(NoVersion, "certified", "certified", TRUE),
      CommitOf("1.3.0", "certified", "certified", FALSE),
      CommitOf("1.3.0", "", "", TRUE)>>  \* no warehouse at all

MCTagVersion == [v124 |-> "1.2.4", v130 |-> "1.3.0", vNext |-> NoVersion]
MCNames == DOMAIN MCTagVersion

Symmetry == Permutations(Runs)
==============================================================================
