-------------------------------- MODULE GitJobs --------------------------------
(***************************************************************************)
(* babysit_pr, prepare_git_copy and create_git_branch on one repository.   *)
(* Their jobs are tasks of one process and nothing keeps them apart: a     *)
(* branch created while a session runs is the constant Overlap.            *)
(***************************************************************************)
EXTENDS Babysitter, GitJanitor

CONSTANT Overlap  \* a branch may be created while a session runs

VARIABLE work  \* what the client is at: a pull request, or its commits

vars == <<repo, babysitter, janitor, work>>

Init ==
  /\ RepoInit /\ BabysitterInit /\ JanitorInit
  /\ \/ work = "pull_request" /\ toml = NoFile /\ json = NoFile
     \/ work = "commits" /\ comments = {} /\ check.bucket = "pass"

BabysitterRuns == phase = "running"
JanitorRuns == copyPhase = "running"

Babysits ==
  /\ work = "pull_request"
  /\ StartSession \/ SessionNext
  /\ UNCHANGED <<janitor, work>>
GithubMoves ==
  /\ work = "pull_request" /\ BabysitterRuns
  /\ GithubNext
  /\ UNCHANGED <<janitor, work>>
BranchesOff ==
  /\ work = "pull_request" /\ (phase = "idle" \/ (BabysitterRuns /\ Overlap))
  /\ \E name \in Branches : CreateGitBranch(name)
  /\ UNCHANGED <<babysitter, work>>
Prepares ==
  /\ work = "commits"
  /\ JanitorNext
  /\ UNCHANGED <<babysitter, work>>

Next == Babysits \/ GithubMoves \/ BranchesOff \/ Prepares

Spec == Init /\ [][Next]_vars
(* The loop of a session goes on by itself.                                *)
FairSpec == Spec /\ WF_vars(work = "pull_request" /\ SessionNext /\ UNCHANGED <<janitor, work>>)
                 /\ WF_vars(work = "commits" /\ CopyNext /\ UNCHANGED <<babysitter, work>>)

TypeOK == RepoTypeOK /\ BabysitterTypeOK /\ JanitorTypeOK

(* Every job ends: a session has its turns, and each takes one of them.    *)
JobsEnd == (BabysitterRuns ~> ~BabysitterRuns) /\ (JanitorRuns ~> ~JanitorRuns)
===============================================================================
