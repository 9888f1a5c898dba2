----------------------------- MODULE GitJobs_proofs -----------------------------
(***************************************************************************)
(* What holds of the pull request and commit-copy jobs for every number of *)
(* comments, files, branches and turns: the types, what mergeable means,   *)
(* what a push rests on, the way out of the branch gate, and that written  *)
(* conventions are read again.                                             *)
(***************************************************************************)
EXTENDS GitJobs, TLAPS

-----------------------------------------------------------------------------
\* Types.
LEMMA DefaultsType == Defaults \in Conventions
  BY DEF Defaults, Conventions

LEMMA LoadedType == LoadConventions \in Conventions
  BY DefaultsType DEF LoadConventions

LEMMA MergedType ==
  ASSUME NEW base \in Conventions, NEW patch \in Patches
  PROVE  MergeConventionsPatch(base, patch) \in Conventions
<1>1. PICK fs \in SUBSET Fields : patch \in [fs -> {"house", "team"}]
  BY DEF Patches
<1> QED
  BY <1>1 DEF MergeConventionsPatch, Conventions

LEMMA GateInputsType == \A i \in Requests : i \in Inputs
  BY JanitorAssumption

LEMMA InitTypes == Init => TypeOK
<1> SUFFICES ASSUME Init PROVE TypeOK
  OBVIOUS
<1>1. RepoTypeOK
  <2>1. branch \in Branches /\ known \subseteq Branches
    BY RepoAssumption DEF Init, RepoInit
  <2>2. 0 \in 0 .. MaxEdits
    BY RepoAssumption
  <2> QED
    BY <2>1, <2>2 DEF Init, RepoInit, RepoTypeOK
<1>2. BabysitterTypeOK
  <2>1. turn \in 0 .. MaxTurns
    BY BabysitterAssumption DEF Init, BabysitterInit
  <2>2. repliesOn \in [Comments -> BOOLEAN]
    BY DEF Init, BabysitterInit
  <2> QED
    BY <2>1, <2>2 DEF Init, BabysitterInit, BabysitterTypeOK, NoResult, Tools
<1>3. [feature_context |-> NoTicket, expected_ticket |-> NoTicket,
       user_instructions |-> NoTicket] \in Inputs
  BY DEF Inputs, ExpectedTickets, JiraTickets
<1>4. JanitorTypeOK
  <2>1. copyTurn \in 0 .. JanitorTurns
    BY JanitorAssumption DEF Init, JanitorInit
  <2>2. inputs \in Inputs
    BY <1>3 DEF Init, JanitorInit
  <2>3. toml \in {NoFile, Defaults} /\ json \in {NoFile, Defaults}
    BY DEF Init, JanitorInit
  <2> QED
    BY <2>1, <2>2, <2>3, DefaultsType DEF Init, JanitorInit, JanitorTypeOK
<1> QED
  BY <1>1, <1>2, <1>4 DEF TypeOK

\* The tools of a session, one by one.
LEMMA ToolTypes ==
  ASSUME TypeOK, ToolCall
  PROVE  RepoTypeOK' /\ BabysitterTypeOK'
<1> USE DEF TypeOK, BabysitterTypeOK, Calls, Goes, Fails, Tools
<1>1. turn' \in 0 .. MaxTurns
  BY BabysitterAssumption DEF ToolCall, GetPrState, RunLogAnalyzer, GitPushChanges,
     PostFinalReport, InvokeChildTriage, ReplyReviewComment, FinalizeSession
<1>2. \A cs \in SUBSET Comments : PathsOf(cs) \subseteq Paths
  BY BabysitterAssumption DEF PathsOf
<1>3. CASE GetPrState
  BY <1>1, <1>2, <1>3 DEF GetPrState, RecordReviews, ReadComments, github, repo, RepoTypeOK
<1>4. CASE RunLogAnalyzer
  BY <1>1, <1>4 DEF RunLogAnalyzer, github, repo, notes, RepoTypeOK
<1>5. CASE GitPushChanges
  BY <1>1, <1>5 DEF GitPushChanges, PushOriginHead, github, repo, notes, RepoTypeOK
<1>6. CASE PostFinalReport
  BY <1>1, <1>6 DEF PostFinalReport, repo, RepoTypeOK
<1>7. ASSUME NEW paths \in SUBSET Paths, InvokeChildTriage(paths)
      PROVE  RepoTypeOK' /\ BabysitterTypeOK'
  <2>1. RepoTypeOK'
    BY <1>7, RepoAssumption DEF InvokeChildTriage, EditTree, repo, RepoTypeOK
  <2> QED
    BY <1>1, <1>7, <2>1 DEF InvokeChildTriage, github, Verdict
<1>8. ASSUME NEW c \in Comments, ReplyReviewComment(c)
      PROVE  RepoTypeOK' /\ BabysitterTypeOK'
  BY <1>1, <1>8 DEF ReplyReviewComment, repo, RepoTypeOK
<1>9. ASSUME NEW skipped \in SUBSET Paths, FinalizeSession(skipped)
      PROVE  RepoTypeOK' /\ BabysitterTypeOK'
  BY <1>1, <1>9 DEF FinalizeSession, BabysitterResult, github, repo, notes, RepoTypeOK
<1> QED
  BY <1>3, <1>4, <1>5, <1>6, <1>7, <1>8, <1>9 DEF ToolCall

LEMMA SessionTypes ==
  ASSUME TypeOK, StartSession \/ SessionNext \/ GithubNext
  PROVE  RepoTypeOK' /\ BabysitterTypeOK'
<1> USE DEF TypeOK, BabysitterTypeOK, RepoTypeOK, github, repo, notes
<1>1. CASE StartSession
  BY <1>1 DEF StartSession
<1>2. CASE Nudged
  BY <1>2, BabysitterAssumption DEF Nudged
<1>3. CASE OutOfTurns
  BY <1>3 DEF OutOfTurns, BabysitterResult, Fails
<1>4. CASE GithubNext
  BY <1>4 DEF GithubNext, ReviewerComments, CheckMoves, Commits, PersonCommits, babysitter
<1> QED
  BY <1>1, <1>2, <1>3, <1>4, ToolTypes DEF SessionNext

LEMMA JanitorTypes ==
  ASSUME TypeOK, JanitorNext
  PROVE  RepoTypeOK' /\ JanitorTypeOK'
<1> USE DEF TypeOK, JanitorTypeOK
<1>1. CASE \E name \in Branches : CreateGitBranch(name)
  BY <1>1 DEF CreateGitBranch, CheckoutNew, RepoTypeOK, janitor, files, session, draft
<1>2. CASE EditToml(NoFile)
  BY <1>2 DEF EditToml, RepoTypeOK, repo, session, draft
<1>3. CASE \E i \in Requests, persist \in BOOLEAN : ScoutAndStart(i, persist)
  <2>1. 0 \in 0 .. JanitorTurns
    BY JanitorAssumption
  <2> QED
    BY <1>3, <2>1, LoadedType, GateInputsType DEF ScoutAndStart, RepoTypeOK, repo, files
<1>4. CASE CopyNext
  <2>1. RepoTypeOK'
    BY <1>4 DEF CopyNext, CopyNudged, EmitGitCopy, CopyOutOfTurns, CopyFails,
       ProposeConventionsPatch, UpdateGitConventions, RepoTypeOK, repo
  <2>2. copyTurn' \in 0 .. JanitorTurns
    BY <1>4, JanitorAssumption DEF CopyNext, CopyNudged, EmitGitCopy, CopyOutOfTurns, CopyFails,
       ProposeConventionsPatch, UpdateGitConventions, CopyTurn
  <2>3. CASE CopyNudged
    BY <2>1, <2>2, <2>3 DEF CopyNudged, files, draft
  <2>4. CASE EmitGitCopy
    BY <2>1, <2>2, <2>4 DEF EmitGitCopy, files, draft
  <2>5. CASE CopyOutOfTurns
    BY <2>1, <2>2, <2>5 DEF CopyOutOfTurns, files, draft
  <2>6. ASSUME NEW tool, CopyFails(tool)
        PROVE  JanitorTypeOK'
    BY <2>2, <2>6 DEF CopyFails, files, draft
  <2>7. ASSUME NEW p \in Patches, ProposeConventionsPatch(p)
        PROVE  JanitorTypeOK'
    <3>1. conventions' \in Conventions /\ suggestedToml' \in Conventions
      BY <2>7, MergedType DEF ProposeConventionsPatch, ApplyPatch
    <3> QED
      BY <2>2, <2>7, <3>1 DEF ProposeConventionsPatch, files
  <2>8. ASSUME NEW p \in Patches, UpdateGitConventions(p)
        PROVE  JanitorTypeOK'
    <3>1. conventions' \in Conventions /\ suggestedToml' \in Conventions
      BY <2>8, MergedType DEF UpdateGitConventions, ApplyPatch
    <3> QED
      BY <2>2, <2>8, <3>1 DEF UpdateGitConventions
  <2> QED
    BY <1>4, <2>1, <2>3, <2>4, <2>5, <2>6, <2>7, <2>8 DEF CopyNext
<1> QED
  BY <1>1, <1>2, <1>3, <1>4 DEF JanitorNext

LEMMA TypesStep == TypeOK /\ [Next]_vars => TypeOK'
<1> SUFFICES ASSUME TypeOK, [Next]_vars PROVE TypeOK'
  OBVIOUS
<1> USE DEF TypeOK
<1>1. UNCHANGED janitor => JanitorTypeOK'
  BY DEF janitor, files, session, draft, JanitorTypeOK
<1>2. UNCHANGED babysitter => BabysitterTypeOK'
  BY DEF babysitter, github, notes, BabysitterTypeOK
<1>3. CASE Babysits \/ GithubMoves
  BY <1>1, <1>3, SessionTypes DEF Babysits, GithubMoves
<1>4. CASE BranchesOff
  BY <1>1, <1>2, <1>4 DEF BranchesOff, CreateGitBranch, CheckoutNew, RepoTypeOK
<1>5. CASE Prepares
  BY <1>2, <1>5, JanitorTypes DEF Prepares
<1>6. CASE UNCHANGED vars
  BY <1>1, <1>2, <1>6 DEF vars, repo, RepoTypeOK
<1> QED
  BY <1>3, <1>4, <1>5, <1>6 DEF Next

(* Every variable keeps its type, for every repository and every limit.    *)
THEOREM TypeCorrect == Spec => []TypeOK
  BY InitTypes, TypesStep, PTL DEF Spec

-----------------------------------------------------------------------------
\* What the session has noted is what GitHub was seen to have, and what a
\* session that has not failed notes as handled was triaged to the end.
NotesInv ==
  /\ shown = idsSeen /\ pathsSeen = PathsOf(idsSeen)
  /\ \A c \in idsReplied : repliesOn[c]
  /\ reportPosted => reportOn
  /\ phase # "failed" => pathsHandled \subseteq triaged

\* A result is the end of a session, and nothing moves behind it.
ResultInv ==
  /\ phase # "ended" => result.action # "mergeable"
  /\ MergeableIsAnswered

\* While a session runs the flag says what it should, and the branch is the
\* pull request's unless another job may change it.
PushInv ==
  /\ phase = "idle" => ~triageGreen
  /\ phase = "running" /\ triageGreen => ~untested
  /\ work = "commits" => phase = "idle"
  /\ ~Overlap /\ phase = "running" => branch = PrHead

\* What the last job wrote is in the file until somebody edits it.
FilesInv == lastWritten # NoFile => toml = lastWritten

\* The gate of a job is that of its request on some branch.
GateInv == gate # NoGate => \E b \in Branches : gate = BranchGate(b, inputs)

IInv == TypeOK /\ NotesInv /\ ResultInv /\ PushInv /\ FilesInv /\ GateInv

-----------------------------------------------------------------------------
LEMMA InitIInv == Init => IInv
<1> SUFFICES ASSUME Init PROVE IInv
  OBVIOUS
<1>1. NotesInv
  BY DEF Init, BabysitterInit, NotesInv, PathsOf
<1>2. ResultInv /\ PushInv
  BY DEF Init, BabysitterInit, ResultInv, MergeableIsAnswered, PushInv, NoResult
<1>3. FilesInv /\ GateInv
  BY DEF Init, JanitorInit, FilesInv, GateInv
<1> QED
  BY InitTypes, <1>1, <1>2, <1>3 DEF IInv

\* No check that lets a session end is labelled red or pending, unless it is
\* CodeRabbit's.
LEMMA GateAgreesWithLabels ==
  ASSUME NEW k \in CheckRuns, ~CheckIsBlocking(k), CheckStatusLabel(k) \in {"failure", "pending"}
  PROVE  k.name = "CodeRabbit"
  BY BabysitterAssumption DEF GhChecks, CheckIsBlocking, CheckIsFailed, CheckStatusLabel

\* The tools keep the notes true.
LEMMA ToolNotes == IInv /\ ToolCall => NotesInv'
<1> SUFFICES ASSUME IInv, ToolCall PROVE NotesInv'
  OBVIOUS
<1> USE DEF IInv, NotesInv, notes, github
<1>1. CASE GetPrState
  BY <1>1 DEF GetPrState, Calls, RecordReviews, PathsOf
<1>2. CASE RunLogAnalyzer \/ GitPushChanges
  BY <1>2 DEF RunLogAnalyzer, GitPushChanges, Calls, PathsOf
<1>3. CASE PostFinalReport
  BY <1>3 DEF PostFinalReport, Calls, PathsOf
<1>4. CASE \E paths \in SUBSET Paths \ {{}} : InvokeChildTriage(paths)
  BY <1>4 DEF InvokeChildTriage, Calls, Goes, Fails, PathsOf
<1>5. ASSUME NEW c \in Comments, ReplyReviewComment(c)
      PROVE  NotesInv'
  <2>1. \A d \in idsReplied' : repliesOn'[d]
    BY <1>5 DEF ReplyReviewComment, TypeOK, BabysitterTypeOK
  <2> QED
    BY <1>5, <2>1 DEF ReplyReviewComment, Calls, PathsOf
<1>6. CASE \E skipped \in SUBSET Paths : FinalizeSession(skipped)
  BY <1>6 DEF FinalizeSession, Calls, PathsOf
<1> QED
  BY <1>1, <1>2, <1>3, <1>4, <1>5, <1>6 DEF ToolCall

LEMMA FinalizeAnswers ==
  ASSUME IInv, NEW skipped \in SUBSET Paths, FinalizeSession(skipped)
  PROVE  ResultInv'
<1> USE DEF IInv
<1>1. CASE Fails
  BY <1>1 DEF FinalizeSession, Fails, Calls, ResultInv, MergeableIsAnswered
<1>2. ASSUME NEW checks \in ReadChecks, FinalizeAllowed(checks, skipped),
             result' = BabysitterResult("mergeable", checks, skipped), phase' = "ended"
      PROVE  ResultInv'
  <2>1. result'.skipped = skipped
        /\ result'.checks = {<<k.name, CheckStatusLabel(k)>> : k \in checks}
    BY <1>2 DEF BabysitterResult
  <2>2. UNCHANGED <<repliesOn, reportOn, shown, triaged>>
    BY DEF FinalizeSession, github, notes
  <2>3. reportOn /\ \A c \in shown : repliesOn[c]
    BY <1>2 DEF FinalizeAllowed, NotesInv
  <2>4. \A c \in shown : PathOf[c] \in triaged \cup skipped
    BY <1>2 DEF FinalizeSession, Calls, FinalizeAllowed, NotesInv, PathsOf
  <2>5. skipped \subseteq PathsOf(shown)
    BY <1>2 DEF FinalizeAllowed, NotesInv
  <2>6. \A k \in checks : k \in CheckRuns /\ ~CheckIsBlocking(k)
    BY <1>2 DEF ReadChecks, FinalizeAllowed, TypeOK, BabysitterTypeOK
  <2>7. \A k \in checks : CheckStatusLabel(k) \in {"failure", "pending"} => k.name = "CodeRabbit"
    BY <2>6, GateAgreesWithLabels
  <2>8. \A l \in result'.checks : l[2] \in {"failure", "pending"} => l[1] = "CodeRabbit"
    BY <2>1, <2>7
  <2>9. PathsOf(shown)' = PathsOf(shown)
    BY <2>2 DEF PathsOf
  <2> QED
    BY <1>2, <2>1, <2>2, <2>3, <2>4, <2>5, <2>8, <2>9 DEF ResultInv, MergeableIsAnswered
<1> QED
  BY <1>1, <1>2 DEF FinalizeSession

\* Of the other steps, none is taken behind a result.
LEMMA SessionResult == IInv /\ (StartSession \/ SessionNext) => ResultInv'
<1> SUFFICES ASSUME IInv, StartSession \/ SessionNext PROVE ResultInv'
  OBVIOUS
<1>1. CASE \E skipped \in SUBSET Paths : FinalizeSession(skipped)
  BY <1>1, FinalizeAnswers
<1>2. CASE OutOfTurns
  BY <1>2 DEF OutOfTurns, BabysitterResult, Fails, IInv, ResultInv, MergeableIsAnswered
<1>3. CASE ~(\E skipped \in SUBSET Paths : FinalizeSession(skipped)) /\ ~OutOfTurns
  <2>1. phase \in {"idle", "running"} /\ UNCHANGED result
    BY <1>3 DEF SessionNext, StartSession, Nudged, ToolCall, GetPrState, RunLogAnalyzer,
       GitPushChanges, PostFinalReport, InvokeChildTriage, ReplyReviewComment, Calls, Goes, Fails
  <2> QED
    BY <2>1 DEF IInv, ResultInv, MergeableIsAnswered
<1> QED
  BY <1>1, <1>2, <1>3

\* A triage that edits and does not pass takes the flag with it, or ends the
\* session; only a triage edits.
LEMMA SessionPush == IInv /\ Babysits => PushInv'
<1> SUFFICES ASSUME IInv, Babysits PROVE PushInv'
  OBVIOUS
<1> USE DEF IInv, PushInv, Babysits, github, notes, repo
<1>1. CASE StartSession
  BY <1>1 DEF StartSession, OnPrHeadBranch, TypeOK, BabysitterTypeOK
<1>2. CASE SessionNext
  <2>1. phase = "running" /\ work' = work /\ work # "commits"
    BY <1>2 DEF SessionNext, Nudged, OutOfTurns, ToolCall, GetPrState, RunLogAnalyzer,
       GitPushChanges, PostFinalReport, InvokeChildTriage, ReplyReviewComment, FinalizeSession, Calls
  <2>2. branch' = branch
    BY <1>2 DEF SessionNext, Nudged, OutOfTurns, ToolCall, GetPrState, RunLogAnalyzer,
       GitPushChanges, PushOriginHead, PostFinalReport, InvokeChildTriage, EditTree,
       ReplyReviewComment, FinalizeSession
  <2>3. phase' = "running" /\ triageGreen' => ~untested'
    <3>1. CASE \E paths \in SUBSET Paths \ {{}} : InvokeChildTriage(paths)
      BY <2>1, <3>1 DEF InvokeChildTriage, Fails, Goes, Verdict
    <3>2. CASE ~(\E paths \in SUBSET Paths \ {{}} : InvokeChildTriage(paths))
      BY <1>2, <2>1, <3>2 DEF SessionNext, Nudged, OutOfTurns, ToolCall, Goes, Fails, GetPrState,
         RunLogAnalyzer, GitPushChanges, PostFinalReport, ReplyReviewComment, FinalizeSession
    <3> QED
      BY <3>1, <3>2
  <2>4. phase' # "idle"
    BY <1>2, <2>1 DEF SessionNext, Nudged, OutOfTurns, ToolCall, GetPrState, RunLogAnalyzer,
       GitPushChanges, PostFinalReport, InvokeChildTriage, ReplyReviewComment, FinalizeSession,
       Goes, Fails
  <2> QED
    BY <2>1, <2>2, <2>3, <2>4
<1> QED
  BY <1>1, <1>2

\* Written conventions stay in the file; the gate stays the request's.
LEMMA JanitorFiles == IInv /\ JanitorNext => FilesInv' /\ GateInv'
<1> SUFFICES ASSUME IInv, JanitorNext PROVE FilesInv' /\ GateInv'
  OBVIOUS
<1> USE DEF IInv, FilesInv, GateInv, janitor, files, session, draft
<1>1. CASE \E name \in Branches : CreateGitBranch(name)
  BY <1>1 DEF CreateGitBranch, BranchGate, BranchStatus
<1>2. CASE EditToml(NoFile)
  BY <1>2 DEF EditToml
<1>3. CASE \E i \in Requests, persist \in BOOLEAN : ScoutAndStart(i, persist)
  BY <1>3 DEF ScoutAndStart, TypeOK, RepoTypeOK
<1>4. CASE CopyNext
  <2>1. UNCHANGED <<gate, inputs>>
    BY <1>4 DEF CopyNext, CopyNudged, EmitGitCopy, CopyOutOfTurns, CopyFails,
       ProposeConventionsPatch, UpdateGitConventions
  <2>2. FilesInv'
    BY <1>4 DEF CopyNext, CopyNudged, EmitGitCopy, CopyOutOfTurns, CopyFails,
       ProposeConventionsPatch, UpdateGitConventions
  <2> QED
    BY <2>1, <2>2
<1> QED
  BY <1>1, <1>2, <1>3, <1>4 DEF JanitorNext

LEMMA StepIInv == IInv /\ [Next]_vars => IInv'
<1> SUFFICES ASSUME IInv, [Next]_vars PROVE IInv'
  OBVIOUS
<1>1. TypeOK'
  BY TypesStep DEF IInv
<1>2. UNCHANGED janitor => FilesInv' /\ GateInv'
  BY DEF IInv, FilesInv, GateInv, janitor, files, session, draft
<1>3. UNCHANGED babysitter => NotesInv' /\ ResultInv'
  BY DEF IInv, NotesInv, ResultInv, MergeableIsAnswered, PathsOf, babysitter, github, notes
<1>4. CASE Babysits
  <2>1. NotesInv'
    <3>1. CASE ToolCall
      BY <3>1, ToolNotes
    <3>2. CASE ~ToolCall
      BY <1>4, <3>2 DEF Babysits, StartSession, SessionNext, Nudged, OutOfTurns, IInv, NotesInv,
         PathsOf, github, notes
    <3> QED
      BY <3>1, <3>2
  <2> QED
    BY <1>1, <1>2, <1>4, <2>1, SessionResult, SessionPush DEF Babysits, IInv
<1>5. CASE GithubMoves
  <2>1. UNCHANGED <<repliesOn, reportOn, phase, notes, triageGreen, result, shown, triaged, untested,
                    branch, work>>
    BY <1>5 DEF GithubMoves, GithubNext, ReviewerComments, CheckMoves, Commits, PersonCommits,
       babysitter, github, repo
  <2>2. NotesInv' /\ ResultInv' /\ PushInv'
    BY <2>1 DEF IInv, NotesInv, ResultInv, PushInv, MergeableIsAnswered, PathsOf, notes
  <2> QED
    BY <1>1, <1>2, <1>5, <2>2 DEF GithubMoves, IInv
<1>6. CASE BranchesOff
  <2>1. PushInv'
    BY <1>6 DEF BranchesOff, BabysitterRuns, IInv, PushInv, babysitter, notes
  <2> QED
    BY <1>1, <1>2, <1>3, <1>6, <2>1 DEF BranchesOff, CreateGitBranch, IInv
<1>7. CASE Prepares
  <2>1. PushInv'
    BY <1>7 DEF Prepares, IInv, PushInv, babysitter, notes
  <2> QED
    BY <1>1, <1>3, <1>7, <2>1, JanitorFiles DEF Prepares, IInv
<1>8. CASE UNCHANGED vars
  <2>1. PushInv'
    BY <1>8 DEF vars, repo, IInv, PushInv, babysitter, notes
  <2> QED
    BY <1>1, <1>2, <1>3, <1>8, <2>1 DEF vars, IInv
<1> QED
  BY <1>4, <1>5, <1>6, <1>7, <1>8 DEF Next

-----------------------------------------------------------------------------
(* For every pull request and however GitHub moves under the session: one  *)
(* that is called mergeable has its report and a reply to each comment the *)
(* session was shown, each file was skipped by name or triaged to the end, *)
(* and no check that could be read is red (check_finalize_allowed,         *)
(* dispatch_tool).                                                         *)
THEOREM MergeableWasAnswered == Spec => []MergeableIsAnswered
<1>1. IInv => MergeableIsAnswered
  BY DEF IInv, ResultInv
<1> QED
  BY InitIInv, StepIInv, <1>1, PTL DEF Spec

(* A push follows a triage that passed after the last edit, on the branch  *)
(* of the pull request, if no branch is created meanwhile                  *)
(* (git_push_changes).                                                     *)
THEOREM PushesFollowAPass == ~Overlap => (Spec => PushFollowsPass)
<1> SUFFICES ASSUME ~Overlap PROVE Spec => PushFollowsPass
  OBVIOUS
<1>1. ASSUME IInv, [Next]_vars
      PROVE  [Pushes => ~untested /\ branch = PrHead]_<<repo, babysitter>>
  <2>1. SUFFICES ASSUME Pushes PROVE ~untested /\ branch = PrHead
    OBVIOUS
  <2>2. Babysits /\ GitPushChanges
    BY <1>1, <2>1 DEF Pushes, Next, Babysits, GithubMoves, BranchesOff, Prepares, vars, babysitter,
       StartSession, SessionNext, Nudged, OutOfTurns, ToolCall, GetPrState, RunLogAnalyzer,
       PostFinalReport, InvokeChildTriage, ReplyReviewComment, FinalizeSession, Calls,
       GithubNext, ReviewerComments, CheckMoves, Commits
  <2>3. phase = "running" /\ triageGreen
    BY <2>1, <2>2 DEF GitPushChanges, Calls, Goes, Fails, Pushes
  <2> QED
    BY <1>1, <2>3 DEF IInv, PushInv
<1> QED
  BY <1>1, InitIInv, StepIInv, PTL DEF Spec, PushFollowsPass

(* On the branch that the gate suggests the same request may commit        *)
(* (evaluate_branch_gate, suggest_branch_name).                            *)
THEOREM SuggestionsSettle == Spec => []SuggestionSettles
<1>1. ASSUME NEW i \in Inputs, TicketsAgree(i), NEW b \in Branches
      PROVE  BranchGate(BranchGate(b, i).suggested_branch_name, i).commit_allowed
  <2> DEFINE wanted == WantedTicket(i)
             ticket == FirstTicket(ContextTicket(i), i.expected_ticket, b.ticket)
  <2>1. /\ i.feature_context \in JiraTickets /\ i.expected_ticket \in JiraTickets
        /\ i.user_instructions \in JiraTickets
    BY <1>1 DEF Inputs, TicketsAgree
  <2>2. \A t \in JiraTickets : FindJiraTicket(t) = t
    BY DEF JiraTickets, Spelled, FindJiraTicket, NoTicket
  <2>3. wanted # NoTicket => FindJiraTicket(ticket) = ticket /\ SameTicket(ticket, wanted)
    BY <1>1, <2>1, <2>2 DEF WantedTicket, ContextTicket, FirstTicket, TicketsAgree, SameTicket
  <2>4. BranchGate(b, i).suggested_branch_name = [ticket |-> FindJiraTicket(ticket), default |-> FALSE]
    BY DEF BranchGate, SuggestBranchName
  <2>5. BranchStatus([ticket |-> FindJiraTicket(ticket), default |-> FALSE], i) = "ok"
    BY <2>3 DEF BranchStatus
  <2> QED
    BY <2>4, <2>5 DEF BranchGate
<1>2. IInv => SuggestionSettles
  BY <1>1 DEF IInv, TypeOK, JanitorTypeOK, GateInv, SuggestionSettles
<1> QED
  BY InitIInv, StepIInv, <1>2, PTL DEF Spec

(* The next commit-copy job starts from the conventions that an earlier    *)
(* one wrote (update_git_conventions, load_conventions).                   *)
THEOREM WrittenConventionsAreLoaded == Spec => PersistedIsLoaded
<1>1. ASSUME IInv, [Next]_vars
      PROVE  [copyPhase # "running" /\ copyPhase' = "running" /\ lastWritten # NoFile
                => conventions' = lastWritten]_<<repo, janitor>>
  <2>1. SUFFICES ASSUME copyPhase # "running", copyPhase' = "running", lastWritten # NoFile
                 PROVE  conventions' = lastWritten
    OBVIOUS
  <2>2. \E i \in Requests, persist \in BOOLEAN : ScoutAndStart(i, persist)
    BY <1>1, <2>1 DEF Next, Babysits, GithubMoves, BranchesOff, Prepares, JanitorNext, CopyNext,
       CopyNudged, EmitGitCopy, CopyOutOfTurns, CopyFails, ProposeConventionsPatch,
       UpdateGitConventions, CopyTurn, CreateGitBranch, EditToml, vars, janitor, session
  <2>3. toml = lastWritten /\ toml \in Conventions
    BY <1>1, <2>1 DEF IInv, FilesInv, TypeOK, JanitorTypeOK
  <2> QED
    BY <2>2, <2>3 DEF ScoutAndStart, LoadConventions
<1> QED
  BY <1>1, InitIInv, StepIInv, PTL DEF Spec, PersistedIsLoaded
===============================================================================
