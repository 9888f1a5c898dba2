------------------------------ MODULE Babysitter ------------------------------
(***************************************************************************)
(* babysit_pr: the session that drives a pull request to a mergeable state *)
(* (src/src/agent/babysitter/mod.rs, tools/github.rs and                   *)
(* mcp/handlers/babysit_pr.rs).  The model chooses a tool each turn; what  *)
(* it may do is up to the harness.  Meanwhile reviewers comment and checks *)
(* change.  The nested triage is its outcome (module TriageAgent).         *)
(***************************************************************************)
EXTENDS GitWorkspace

CONSTANTS
  Comments,   \* root review comments
  Paths,      \* files
  PathOf,     \* PathOf[c]: the file of a comment
  CheckRuns,  \* the states a check run of the pull request goes through
  MaxTurns    \* BABYSITTER_MAX_ITERATIONS

(* What gh reports: the bucket follows from the state.                     *)
GhChecks ==
  [name : {"ci", "CodeRabbit"}, bucket : {"pass"}, state : {"SUCCESS"}]
  \cup [name : {"ci", "CodeRabbit"}, bucket : {"fail"}, state : {"FAILURE", "TIMED_OUT"}]
  \cup [name : {"ci", "CodeRabbit"}, bucket : {"pending"},
        state : {"IN_PROGRESS", "QUEUED", "EXPECTED"}]
  \cup [name : {"ci", "CodeRabbit"}, bucket : {"skipping", "cancel"},
        state : {"SKIPPED", "CANCELLED"}]

ASSUME BabysitterAssumption ==
  /\ PathOf \in [Comments -> Paths]
  /\ CheckRuns \subseteq GhChecks
  /\ MaxTurns \in Nat \ {0}

VARIABLES
  comments, check,       \* on GitHub: the root comments and the check run
  repliesOn, reportOn,   \* and what reached it: replies of a comment, a report
  phase, turn, lastCall, \* of the session
  reportPosted, idsSeen, idsReplied, pathsSeen, pathsHandled,
  triageGreen,
  result,                \* the JSON answered
  shown, triaged, untested  \* bookkeeping: comments the session was shown;
                         \* paths whose triage ran to its end, passed or not;
                         \* edits since a triage last passed

github == <<comments, check, repliesOn, reportOn>>
notes == <<reportPosted, idsSeen, idsReplied, pathsSeen, pathsHandled>>
babysitter == <<github, phase, turn, lastCall, notes, triageGreen, result, shown, triaged, untested>>

NoResult == [action |-> "none", checks |-> {}, skipped |-> {}]
PathsOf(cs) == {PathOf[c] : c \in cs}
Tools == {"github_get_pr_state", "run_log_analyzer", "invoke_child_triage",
          "git_push_changes", "github_reply_review_comment",
          "github_post_final_report", "finalize_session"}
NoArguments == {"github_get_pr_state", "git_push_changes"}

BabysitterInit ==
  /\ comments \in SUBSET Comments /\ check \in CheckRuns
  /\ repliesOn = [c \in Comments |-> FALSE] /\ reportOn = FALSE
  /\ phase = "idle" /\ turn = 0 /\ lastCall = "none"
  /\ reportPosted = FALSE /\ idsSeen = {} /\ idsReplied = {}
  /\ pathsSeen = {} /\ pathsHandled = {}
  /\ triageGreen = FALSE /\ untested = FALSE /\ shown = {} /\ triaged = {}
  /\ result = NoResult

-----------------------------------------------------------------------------
(* GitHub: reviewers comment, checks run.                                  *)
ReviewerComments(c) ==
  /\ c \notin comments /\ comments' = comments \cup {c}
  /\ UNCHANGED <<check, repliesOn, reportOn, repo, phase, turn, lastCall, notes,
                 triageGreen, result, shown, triaged, untested>>

CheckMoves(k) ==
  /\ check' = k
  /\ UNCHANGED <<comments, repliesOn, reportOn, repo, phase, turn, lastCall, notes,
                 triageGreen, result, shown, triaged, untested>>

Commits == PersonCommits /\ UNCHANGED babysitter

(* gh_pr_state: a checks or comments call that fails counts as none.       *)
ReadChecks == {{check}, {}}
ReadComments == {comments, {}}

CheckIsFailed(k) == k.bucket = "fail" \/ k.state \in {"FAILURE", "FAILED"}

CheckIsBlocking(k) ==
  /\ k.name # "CodeRabbit"
  /\ \/ CheckIsFailed(k) \/ k.bucket = "pending"
     \/ k.state \in {"IN_PROGRESS", "PENDING", "QUEUED", "WAITING"}

(* The label a check has in the answer.                                    *)
CheckStatusLabel(k) ==
  IF k.bucket = "pass" \/ k.state = "SUCCESS" THEN "success"
  ELSE IF k.bucket = "fail" \/ k.state \in {"FAILURE", "FAILED"} THEN "failure"
  ELSE IF k.bucket = "pending" \/ k.state = "IN_PROGRESS" THEN "pending"
  ELSE k.bucket

BabysitterResult(action, checks, skipped) ==
  [action |-> action, skipped |-> skipped,
   checks |-> {<<k.name, CheckStatusLabel(k)>> : k \in checks}]

-----------------------------------------------------------------------------
(* babysit_pr: gh must answer and the head branch be checked out.          *)
StartSession ==
  /\ phase = "idle"
  /\ \/ OnPrHeadBranch /\ phase' = "running"
     \/ phase' = "failed"
  /\ UNCHANGED <<github, repo, turn, lastCall, notes, triageGreen, result, shown, triaged, untested>>

(* One turn of the loop: a tool called, its name and arguments kept.       *)
Calls(tool) ==
  /\ phase = "running" /\ turn < MaxTurns
  /\ turn' = turn + 1
  /\ lastCall' = tool
  /\ tool \in NoArguments => lastCall # tool
Goes == phase' = phase /\ UNCHANGED result

\* Mutant: what a tool fails with is told the model, and the session goes on.
FedBack == phase' = phase /\ UNCHANGED result

(* What a tool fails with ends the session.                                *)
Fails == phase' = "failed" /\ UNCHANGED result

(* No tool called, or the very call of the turn before.                    *)
Nudged ==
  /\ phase = "running" /\ turn < MaxTurns /\ turn' = turn + 1
  /\ UNCHANGED <<github, repo, phase, lastCall, notes, triageGreen, result, shown, triaged, untested>>

\* Mutant: the comments of the last read replace those noted before.
RecordLastReviews(read) == pathsSeen' = PathsOf(read) /\ idsSeen' = read

RecordReviews(read) ==
  /\ pathsSeen' = pathsSeen \cup PathsOf(read)
  /\ idsSeen' = idsSeen \cup read

(* Every root comment read is shown, the answered ones too.                *)
GetPrState ==
  /\ Calls("github_get_pr_state")
  /\ \/ /\ OnPrHeadBranch
        /\ \E read \in ReadComments : RecordReviews(read) /\ shown' = shown \cup read
        /\ Goes
     \/ Fails /\ UNCHANGED <<pathsSeen, idsSeen, shown>>
  /\ UNCHANGED <<github, repo, reportPosted, idsReplied, pathsHandled, triageGreen, triaged, untested>>

RunLogAnalyzer ==
  /\ Calls("run_log_analyzer")
  /\ Goes \/ Fails
  /\ UNCHANGED <<github, repo, notes, triageGreen, shown, triaged, untested>>

\* Mutant: the flag stays once a triage has passed.
VerdictSticks(passed) == triageGreen \/ passed

Verdict(passed) == passed

(* The paths count as handled before the triage runs.  It may edit files,  *)
(* pass or not, or end in an error, which ends the session.                *)
InvokeChildTriage(paths) ==
  /\ Calls("invoke_child_triage")
  /\ pathsHandled' = pathsHandled \cup paths
  /\ \E edits, passed \in BOOLEAN :
       /\ IF edits THEN EditTree ELSE UNCHANGED repo
       /\ untested' = (~passed /\ (edits \/ untested))
       /\ \/ triageGreen' = Verdict(passed) /\ triaged' = triaged \cup paths /\ Goes
          \/ ~passed /\ UNCHANGED <<triageGreen, triaged>> /\ Fails
  /\ UNCHANGED <<github, reportPosted, idsSeen, idsReplied, pathsSeen, shown>>

GitPushChanges ==
  /\ Calls("git_push_changes")
  /\ \/ triageGreen /\ PushOriginHead /\ Goes
     \/ UNCHANGED repo /\ Fails
  /\ UNCHANGED <<github, notes, triageGreen, shown, triaged, untested>>

(* An unknown id is refused; a call that fails may have reached GitHub.    *)
ReplyReviewComment(c) ==
  /\ Calls("github_reply_review_comment")
  /\ \/ /\ c \in idsSeen
        /\ repliesOn' = [repliesOn EXCEPT ![c] = TRUE]
        /\ \/ idsReplied' = idsReplied \cup {c} /\ Goes
           \/ UNCHANGED idsReplied /\ Fails
     \/ UNCHANGED <<repliesOn, idsReplied>> /\ Fails
  /\ UNCHANGED <<comments, check, reportOn, repo, reportPosted, idsSeen, pathsSeen,
                 pathsHandled, triageGreen, shown, triaged, untested>>

PostFinalReport ==
  /\ Calls("github_post_final_report")
  /\ \/ /\ reportOn' = TRUE
        /\ \/ reportPosted' = TRUE /\ Goes
           \/ UNCHANGED reportPosted /\ Fails
     \/ UNCHANGED <<reportOn, reportPosted>> /\ Fails
  /\ UNCHANGED <<comments, check, repliesOn, repo, idsSeen, idsReplied, pathsSeen,
                 pathsHandled, triageGreen, shown, triaged, untested>>

(* check_finalize_allowed.                                                 *)
FinalizeAllowed(checks, skipped) ==
  /\ \A k \in checks : ~CheckIsBlocking(k)
  /\ reportPosted
  /\ skipped \subseteq pathsSeen
  /\ pathsSeen \subseteq pathsHandled \cup skipped
  /\ idsSeen \subseteq idsReplied

(* The checks are read again, the review comments are not: those are what  *)
(* the session has noted.                                                  *)
FinalizeSession(skipped) ==
  /\ Calls("finalize_session")
  /\ \/ \E checks \in ReadChecks :
          /\ FinalizeAllowed(checks, skipped)
          /\ result' = BabysitterResult("mergeable", checks, skipped)
          /\ phase' = "ended"
     \/ Fails
  /\ UNCHANGED <<github, repo, notes, triageGreen, shown, triaged, untested>>

(* Out of turns: the answer is built from the notes and a fresh read.      *)
OutOfTurns ==
  /\ phase = "running" /\ turn = MaxTurns
  /\ \/ \E checks \in ReadChecks :
          /\ result' = BabysitterResult("blocked", checks, {})
          /\ phase' = "ended"
     \/ Fails
  /\ UNCHANGED <<github, repo, turn, lastCall, notes, triageGreen, shown, triaged, untested>>

GithubNext ==
  \/ \E c \in Comments : ReviewerComments(c)
  \/ \E k \in CheckRuns : CheckMoves(k)
  \/ Commits
ToolCall ==
  \/ GetPrState \/ RunLogAnalyzer \/ GitPushChanges \/ PostFinalReport
  \/ \E paths \in SUBSET Paths \ {{}} : InvokeChildTriage(paths)
  \/ \E c \in Comments : ReplyReviewComment(c)
  \/ \E skipped \in SUBSET Paths : FinalizeSession(skipped)
SessionNext == Nudged \/ ToolCall \/ OutOfTurns
BabysitterNext == GithubNext \/ StartSession \/ SessionNext

-----------------------------------------------------------------------------
BabysitterTypeOK ==
  /\ comments \subseteq Comments /\ check \in CheckRuns
  /\ repliesOn \in [Comments -> BOOLEAN] /\ reportOn \in BOOLEAN
  /\ phase \in {"idle", "running", "ended", "failed"}
  /\ turn \in 0 .. MaxTurns /\ lastCall \in Tools \cup {"none"}
  /\ reportPosted \in BOOLEAN /\ idsSeen \subseteq Comments
  /\ idsReplied \subseteq Comments /\ pathsSeen \subseteq Paths
  /\ pathsHandled \subseteq Paths
  /\ triageGreen \in BOOLEAN /\ untested \in BOOLEAN /\ shown \subseteq Comments
  /\ result.action \in {"none", "mergeable", "blocked"}
  /\ result.skipped \subseteq Paths /\ triaged \subseteq Paths

(* What the answer "mergeable" stands for, on GitHub and in the tree: the  *)
(* report is posted, every root comment the session was shown has a reply, *)
(* its file is skipped by name or was given to a triage that ran to its    *)
(* end, however early the path is noted as handled, and of the checks that *)
(* could be read none but CodeRabbit's is red or pending, by the answer's  *)
(* own labels (check_finalize_allowed, finalize_session's schema).  That   *)
(* the triage passed, that checks could be read, and comments made since   *)
(* the last read are no part of it.                                        *)
MergeableIsAnswered ==
  result.action = "mergeable" =>
    /\ reportOn
    /\ \A c \in shown : repliesOn[c] /\ PathOf[c] \in triaged \cup result.skipped
    /\ result.skipped \subseteq PathsOf(shown)
    /\ \A check_label \in result.checks :
      check_label[2] \in {"failure", "pending"} => check_label[1] = "CodeRabbit"

(* A session ends as mergeable on green checks only ("Requires ... green   *)
(* CI (no failing/pending checks)", the babysitter's skill).               *)
MergeableMeansGreen ==
  [][(result.action = "none" /\ result'.action = "mergeable") =>
       ~CheckIsFailed(check) /\ check.bucket # "pending"]_<<repo, babysitter>>

(* What is pushed has been tested: no triage of the session has edited a   *)
(* file since one last passed ("Never git_push_changes until the latest    *)
(* invoke_child_triage observation contains [TRIAGE PASS]"), and while no  *)
(* other job changes the branch, HEAD is the pull request's at every push. *)
Pushes == /\ lastCall # "git_push_changes" /\ lastCall' = "git_push_changes"
          /\ phase' = "running"
PushFollowsPass == [][Pushes => ~untested /\ branch = PrHead]_<<repo, babysitter>>

(* A push delivers the tree that triage has tested ("Pushes the green      *)
(* local workspace state back to GitHub").                                 *)
PushDeliversTree ==
  [][Pushes => origin'[PrHead] = tree]_<<repo, babysitter>>
===============================================================================
