----------------------------- MODULE PullRequest ------------------------------
(***************************************************************************)
(* How the GitHub Action gets hold of the two commits of a pull request    *)
(* (github_action.py) and their files (git_snapshot.py), while the branch  *)
(* of the pull request may be pushed to at any time.                       *)
(*                                                                         *)
(* A revision is an object, a commit or a tag, which peels to a commit, or *)
(* the name of a branch, which the job may be given but must refuse: here  *)
(* one branch of the local repository.  A git command may fail or time out *)
(* at any time, and refs/pull/N/head may name another commit by now.       *)
(***************************************************************************)
EXTENDS Naturals, FiniteSets

CONSTANTS
  Commits,
  Tags,
  Peel(_),      \* the commit that an object names
  BRANCH,
  NONE

Objects == Commits \cup Tags

Events == [explicit : BOOLEAN, base : Objects \cup {BRANCH, NONE},
           head : Objects \cup {BRANCH, NONE}, number : BOOLEAN]

ASSUME PeelAssumption == /\ \A c \in Commits : Peel(c) = c
                         /\ \A t \in Tags : Peel(t) \in Commits
                         /\ {NONE, BRANCH} \cap Objects = {}

VARIABLES
  event,     \* [explicit, base, head, number]: what the job was started for
  pullRef,   \* the commit that refs/pull/N/head names on the server
  local,     \* the objects of the local repository
  branch,    \* the commit that the local branch names
  side,      \* the revision at hand: "base", then "head"
  stage,     \* where its preparation stands
  snapshot,  \* per revision the commit that was unpacked, or NONE
  exit       \* the exit status, or 3 as long as there is none

gitVars == <<event, pullRef, local, branch, side, stage, snapshot, exit>>

Sides == {"base", "head"}

GitStages == {"event", "lookup", "fetch", "fallback", "verify", "archive"}

PullRequestTypeOK ==
  /\ event \in Events
  /\ pullRef \in Commits
  /\ local \subseteq Objects
  /\ branch \in Commits
  /\ side \in Sides
  /\ snapshot \in [Sides -> Commits \cup {NONE}]
  /\ exit \in 0..3

PullRequestInit ==
  /\ side = "base"
  /\ stage = "event"
  /\ snapshot = [s \in Sides |-> NONE]
  /\ exit = 3

-----------------------------------------------------------------------------
Revision == event[side]

\* The object is there, and so is the commit that it peels to.
HasCommit(objects, o) == {o, Peel(o)} \subseteq objects

\* Wrong: any name will do.
ValidateName(o) == o # NONE

\* _validate_sha: a full object name, which nobody can make name another object.
ValidateSha(o) == o \in Objects

\* resolve_commit: the commits that git resolves a revision to: one, or none.
ResolveCommit(o) ==
  IF o = BRANCH THEN {branch} ELSE IF HasCommit(local, o) THEN {Peel(o)} ELSE {}

Running(at) == stage = at /\ exit = 3

Fail ==
  /\ exit' = 1
  /\ UNCHANGED <<event, pullRef, local, branch, side, stage, snapshot>>

\* The revision at hand is available: the head's turn, or the archives'.
Available ==
  /\ side' = IF side = "base" THEN "head" ELSE "base"
  /\ stage' = IF side = "base" THEN "lookup" ELSE "archive"
  /\ UNCHANGED <<event, pullRef, local, branch, snapshot, exit>>

\* Somebody pushes to the branch of the pull request, if the job is for one.
Push ==
  /\ exit = 3 /\ event.number
  /\ stage \in {"event", "lookup", "fetch", "fallback"}
  /\ \E c \in Commits \ {pullRef} : pullRef' = c
  /\ UNCHANGED <<event, local, branch, side, stage, snapshot, exit>>

\* resolve_pull_request_revisions: both revisions are given, by the job or by the
\* event, and are full object names.
ResolveRevisions ==
  /\ Running("event")
  /\ IF ~ValidateSha(event.base) \/ ~ValidateSha(event.head) THEN Fail
     ELSE /\ stage' = "lookup"
          /\ UNCHANGED <<event, pullRef, local, branch, side, snapshot, exit>>

\* ensure_commit_available, its first test: nothing more is asked of what is there.
Lookup ==
  /\ Running("lookup")
  /\ IF ResolveCommit(Revision) # {} THEN Available
     ELSE /\ stage' = "fetch"
          /\ UNCHANGED <<event, pullRef, local, branch, side, snapshot, exit>>

\* _fetch of the revision itself: a server may refuse an object that no ref names.
Fetch ==
  /\ Running("fetch")
  /\ \/ /\ Revision # BRANCH
        /\ local' = local \cup {Revision, Peel(Revision)}
        /\ stage' = "verify"
        /\ UNCHANGED <<event, pullRef, branch, side, snapshot, exit>>
     \/ /\ side = "head" /\ ~event.explicit /\ event.number
        /\ stage' = "fallback"
        /\ UNCHANGED <<event, pullRef, local, branch, side, snapshot, exit>>
     \/ /\ ~(side = "head" /\ ~event.explicit /\ event.number)
        /\ Fail

\* _fetch of refs/pull/N/head: what that names by now.
FetchPullRef ==
  /\ Running("fallback")
  /\ \/ /\ local' = local \cup {pullRef}
        /\ stage' = "verify"
        /\ UNCHANGED <<event, pullRef, branch, side, snapshot, exit>>
     \/ Fail

\* Wrong: what is still missing is fetched again.
VerifyOrRetry ==
  /\ Running("verify")
  /\ IF ResolveCommit(Revision) = {Revision} THEN Available
     ELSE /\ stage' = "fetch"
          /\ UNCHANGED <<event, pullRef, local, branch, side, snapshot, exit>>

\* The rest of ensure_commit_available: the revision is there now, and is a commit.
Verify ==
  /\ Running("verify")
  /\ IF ResolveCommit(Revision) = {Revision} THEN Available ELSE Fail

\* git times out or fails, at any of its commands.
GitFails ==
  /\ exit = 3
  /\ stage \in GitStages
  /\ Fail

\* Wrong: the object is taken for the commit that it peels to.
MaterializeUnpeeled ==
  /\ Running("archive")
  /\ snapshot' = [snapshot EXCEPT ![side] = Revision]
  /\ side' = IF side = "base" THEN "head" ELSE "base"
  /\ stage' = IF side = "base" THEN "archive" ELSE "scan"
  /\ UNCHANGED <<event, pullRef, local, branch, exit>>

\* materialize_git_ref: the commit's archive is unpacked, or is too large or unsafe.
Materialize ==
  /\ Running("archive")
  /\ \/ \E c \in ResolveCommit(Revision) :
          /\ snapshot' = [snapshot EXCEPT ![side] = c]
          /\ side' = IF side = "base" THEN "head" ELSE "base"
          /\ stage' = IF side = "base" THEN "archive" ELSE "scan"
          /\ UNCHANGED <<event, pullRef, local, branch, exit>>
     \/ ResolveCommit(Revision) = {} /\ Fail

Prepare ==
  \/ ResolveRevisions \/ Lookup \/ Fetch \/ FetchPullRef \/ Verify
  \/ GitFails \/ Materialize

\* The preparation by itself, of any event and any repository.
PreparationSpec ==
  PullRequestInit /\ PullRequestTypeOK /\ [][Prepare \/ Push]_gitVars

\* What is scanned, and hence every verdict, is about the two commits that the job was
\* started for, whatever was pushed since and whatever the names in the repository mean
\* (_validate_sha, ensure_commit_available).
ScansTheEvent ==
  stage \notin GitStages => \A s \in Sides : event[s] \in Objects /\ snapshot[s] = Peel(event[s])
=============================================================================
