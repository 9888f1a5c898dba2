------------------------------ MODULE GitJanitor ------------------------------
(***************************************************************************)
(* prepare_git_copy and create_git_branch (src/src/agent/git_janitor/ and  *)
(* their handlers in mcp/handlers/mod.rs): the conventions are loaded, the *)
(* branch is judged, and an agent of four turns may patch the conventions, *)
(* write them to .adjutant.toml where that is allowed, and emit the copy.  *)
(***************************************************************************)
EXTENDS GitWorkspace

CONSTANTS
  Keys,        \* what tells tickets apart, apart from case
  Fields,      \* settings of the conventions
  Requests,    \* bound: the requests made
  JanitorTurns \* GIT_JANITOR_MAX_ITERATIONS

(* A ticket as typed: "PROJ-1" is what find_jira_ticket finds in a text,   *)
(* any other spelling is not found.                                        *)
Spelled(forms) == [key : Keys, form : forms]
NoTicket == [key |-> "none", form |-> "none"]
JiraTickets == Spelled({"PROJ-1"}) \cup {NoTicket}
ExpectedTickets == JiraTickets \cup Spelled({"proj-1"})
FindJiraTicket(t) == IF t.form = "PROJ-1" THEN t ELSE NoTicket
SameTicket(s, t) == s.key = t.key

(* Conventions: a value for every setting; a file may also be unreadable.  *)
Conventions == [Fields -> {"default", "house", "team"}]
Defaults == [f \in Fields |-> "default"]
NoFile == [f \in Fields |-> "nothing"]
Patches == UNION {[fs -> {"house", "team"}] : fs \in SUBSET Fields}
Inputs == [feature_context : JiraTickets, expected_ticket : ExpectedTickets,
           user_instructions : JiraTickets]

ASSUME JanitorAssumption == Requests \subseteq Inputs /\ JanitorTurns \in Nat \ {0}

VARIABLES
  toml, json,            \* .adjutant.toml and .gitjanitor.json
  copyPhase, copyTurn, copyCall,
  inputs, persistAllowed,
  gate, conventions, suggestedToml, persisted,
  lastWritten            \* bookkeeping: what the agent last wrote to disk

files == <<toml, json>>
session == <<copyPhase, copyTurn, copyCall>>
draft == <<conventions, suggestedToml, persisted>>
janitor == <<files, session, inputs, persistAllowed, gate, draft, lastWritten>>

-----------------------------------------------------------------------------
(* evaluate_branch_gate.  ContextTicket: the first that is there of the    *)
(* feature context, the expected ticket and the instructions.              *)
FirstTicket(a, b, c) == IF a # NoTicket THEN a ELSE IF b # NoTicket THEN b ELSE c
\* Mutant: the instructions come before the expected ticket.
InstructionsFirst(i) ==
  FirstTicket(FindJiraTicket(i.feature_context), FindJiraTicket(i.user_instructions),
              i.expected_ticket)

ContextTicket(i) ==
  FirstTicket(FindJiraTicket(i.feature_context), i.expected_ticket,
              FindJiraTicket(i.user_instructions))

WantedTicket(i) == FirstTicket(i.expected_ticket, ContextTicket(i), NoTicket)

BranchStatus(b, i) ==
  IF b.default THEN "on_default"
  ELSE IF WantedTicket(i) = NoTicket \/ SameTicket(b.ticket, WantedTicket(i)) THEN "ok"
  ELSE IF i.expected_ticket # NoTicket /\ b.ticket # NoTicket THEN "stale_feature"
  ELSE "ticket_mismatch"

(* The suggested name carries the ticket; a later scan of the name finds   *)
(* it only if it is spelled like one.                                      *)
SuggestBranchName(t) == [ticket |-> FindJiraTicket(t), default |-> FALSE]

BranchGate(b, i) ==
  LET ticket == FirstTicket(ContextTicket(i), i.expected_ticket, b.ticket)
  IN  [branch_status |-> BranchStatus(b, i),
       commit_allowed |-> BranchStatus(b, i) = "ok",
       ticket_id |-> ticket,
       suggested_branch_name |-> SuggestBranchName(ticket)]

NoGate == [branch_status |-> "none"]

\* Mutant: the old file wins.
LoadJsonFirst == IF json \in Conventions THEN json
                 ELSE IF toml \in Conventions THEN toml ELSE Defaults

(* load_conventions: a file that does not parse is skipped.                *)
LoadConventions == IF toml \in Conventions THEN toml
                   ELSE IF json \in Conventions THEN json ELSE Defaults

\* Mutant: the patch takes the place of the conventions.
PatchReplaces(base, patch) == patch

(* merge_conventions_patch: what the patch names.                          *)
MergeConventionsPatch(base, patch) ==
  [f \in Fields |-> IF f \in DOMAIN patch THEN patch[f] ELSE base[f]]

-----------------------------------------------------------------------------
JanitorInit ==
  /\ toml \in {NoFile} \cup {Defaults} /\ json \in {NoFile, Defaults}
  /\ copyPhase = "idle" /\ copyTurn = 0 /\ copyCall = "none"
  /\ inputs = [feature_context |-> NoTicket, expected_ticket |-> NoTicket,
               user_instructions |-> NoTicket]
  /\ persistAllowed = FALSE /\ gate = NoGate
  /\ conventions = Defaults /\ suggestedToml = Defaults /\ persisted = FALSE
  /\ lastWritten = NoFile

(* prepare_git_copy and the scout: branch, conventions and diff are read   *)
(* once; a git call that fails leaves its part empty.                      *)
ScoutAndStart(i, persist) ==
  /\ copyPhase # "running"
  /\ copyPhase' = "running" /\ copyTurn' = 0 /\ copyCall' = "none"
  /\ inputs' = i /\ persistAllowed' = persist
  /\ gate' = BranchGate(branch, i)
  /\ conventions' = LoadConventions /\ suggestedToml' = LoadConventions
  /\ persisted' = FALSE
  /\ UNCHANGED <<repo, files, lastWritten>>

\* Mutant: the turn is not counted.
TurnUncounted ==
  /\ copyPhase = "running" /\ copyTurn < JanitorTurns
  /\ copyTurn' = copyTurn

CopyTurn ==
  /\ copyPhase = "running" /\ copyTurn < JanitorTurns
  /\ copyTurn' = copyTurn + 1

(* No tool, or the call of the turn before again.                          *)
CopyNudged ==
  /\ CopyTurn
  /\ UNCHANGED <<repo, files, copyPhase, copyCall, inputs, persistAllowed, gate, draft,
                 lastWritten>>

(* A call that is refused or whose arguments do not parse ends the job.    *)
CopyFails(tool) ==
  /\ CopyTurn /\ copyCall' = tool /\ copyPhase' = "failed"
  /\ UNCHANGED <<repo, files, inputs, persistAllowed, gate, draft, lastWritten>>

ApplyPatch(patch) ==
  /\ conventions' = MergeConventionsPatch(conventions, patch)
  /\ suggestedToml' = conventions'

ProposeConventionsPatch(patch) ==
  /\ CopyTurn /\ copyCall' = "propose_conventions_patch"
  /\ ApplyPatch(patch)
  /\ UNCHANGED <<repo, files, copyPhase, inputs, persistAllowed, gate, persisted,
                 lastWritten>>

(* In memory first, then to the file; a write that fails ends the job and  *)
(* may leave the file empty.                                               *)
UpdateGitConventions(patch) ==
  /\ CopyTurn /\ copyCall' = "update_git_conventions"
  /\ persistAllowed
  /\ ApplyPatch(patch)
  /\ \/ /\ toml' = conventions' /\ persisted' = TRUE
        /\ lastWritten' = conventions'
        /\ UNCHANGED copyPhase
     \/ /\ toml' \in {toml, NoFile} /\ lastWritten' = NoFile
        /\ copyPhase' = "failed" /\ UNCHANGED persisted
  /\ UNCHANGED <<repo, json, inputs, persistAllowed, gate>>

(* The answer is the gate of the scout, the conventions and the toml.      *)
EmitGitCopy ==
  /\ CopyTurn /\ copyCall' = "emit_git_copy"
  /\ copyPhase' = "ended"
  /\ UNCHANGED <<repo, files, inputs, persistAllowed, gate, draft, lastWritten>>

(* Out of turns: the log is the answer, as a report.                       *)
CopyOutOfTurns ==
  /\ copyPhase = "running" /\ copyTurn = JanitorTurns
  /\ copyPhase' = "reported"
  /\ UNCHANGED <<repo, files, copyTurn, copyCall, inputs, persistAllowed, gate, draft,
                 lastWritten>>

(* create_git_branch: one call of its own, no agent.                       *)
CreateGitBranch(name) ==
  /\ copyPhase # "running"
  /\ CheckoutNew(name)
  /\ UNCHANGED janitor

(* Somebody edits the file by hand.                                        *)
EditToml(c) ==
  /\ copyPhase # "running"
  /\ toml' = c /\ lastWritten' = NoFile
  /\ UNCHANGED <<repo, json, session, inputs, persistAllowed, gate, draft>>

CopyNext ==
  \/ CopyNudged \/ EmitGitCopy \/ CopyOutOfTurns
  \/ \E tool \in {"propose_conventions_patch", "update_git_conventions",
                  "emit_git_copy"} : CopyFails(tool)
  \/ \E p \in Patches : ProposeConventionsPatch(p) \/ UpdateGitConventions(p)
JanitorNext ==
  \/ CopyNext
  \/ \E i \in Requests, persist \in BOOLEAN : ScoutAndStart(i, persist)
  \/ \E name \in Branches : CreateGitBranch(name)
  \/ EditToml(NoFile)

-----------------------------------------------------------------------------
JanitorTypeOK ==
  /\ toml \in Conventions \cup {NoFile} /\ json \in Conventions \cup {NoFile}
  /\ copyPhase \in {"idle", "running", "ended", "reported", "failed"}
  /\ copyTurn \in 0 .. JanitorTurns
  /\ inputs \in Inputs /\ persistAllowed \in BOOLEAN
  /\ conventions \in Conventions /\ suggestedToml \in Conventions
  /\ persisted \in BOOLEAN /\ lastWritten \in Conventions \cup {NoFile}

(* The way out of the gate: on the branch it suggests the same request may *)
(* commit.  Holds if the expected ticket is spelled like a ticket and the  *)
(* feature context, if it names one, names the same.                       *)
TicketsAgree(i) ==
  /\ i.expected_ticket \in JiraTickets
  /\ \/ i.expected_ticket = NoTicket \/ i.feature_context = NoTicket
     \/ SameTicket(i.expected_ticket, i.feature_context)
SuggestionSettles ==
  gate # NoGate /\ TicketsAgree(inputs) =>
    BranchGate(gate.suggested_branch_name, inputs).commit_allowed

(* What update_git_conventions wrote is what the next job starts from.     *)
PersistedIsLoaded ==
  [][copyPhase # "running" /\ copyPhase' = "running" /\ lastWritten # NoFile
       => conventions' = lastWritten]_<<repo, janitor>>
===============================================================================
