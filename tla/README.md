# mcp-adjutant: a verification project

mcp-adjutant is an MCP server: a premium model calls its tools over stdio, and
the server does the work with cheaper model calls, compilers, git and the web.
This directory holds TLA+ models of its control logic, TLC configurations that
check them, and proofs that TLAPS checks. Source paths below are relative to
the crate (`jobs.rs` is what `PROJECT.json` calls `src/src/jobs.rs`).

## Contents

1. The system: its parts, what they keep and how they meet
2. Jobs: `JobRegistry`, `MutationJournal`, `JobRunner`, `FileTransactions`
3. Build jobs: `TriageAgent`, `BuilderJob`
4. The caches: `InsightCache`, `WebReportCache`
5. Git jobs: `GitWorkspace`, `Babysitter`, `GitJanitor`, `GitJobs`
6. Agent jobs: `AgentLoop`, `LlmClient`, `Blueprint`, `Planner`, `Codemod`, `Transformer`, `Transpiler`, `AgentJobs`
7. Services: `ConfigStore`, `MetricsStore`, `Evaluator`, `ServerLoop`, `Services`
8. The runs, their bounds and what they show
9. Fairness
10. Where the code and its documentation disagree
11. What is proved, and how
12. What is only model-checked
13. What is not modelled
14. The plan

How to repeat it: `tlc -config MCJobRunner_isolated.cfg MCJobRunner` and so on for
every run in the table of chapter 8; `tlapm JobRunner_proofs.tla` and so on for
the eight modules whose name ends in `_proofs`. `PROJECT.json` maps every
definition to the lines it models and lists the hazards with the properties
that guard against them.

## 1. The system

One process serves one host. Its main task reads JSON-RPC requests from stdin,
one at a time. A light tool is answered at once; a heavy one becomes a *job*
that the main task waits for only so long. A job runs one or several *agents*: a
loop that sends a prompt to a cheap model and executes the tool calls it
returns, until a tool ends the loop or the turn limit does. Agents start other
agents (the builder runs triage and scout loops, the babysitter runs triage).
A web UI and its server run beside all this and write the configuration.

### The parts

| part | state | operations | what makes it correct |
| --- | --- | --- | --- |
| job registry (`jobs.rs`) | a record per uuid | register (evicts), set running, heartbeat, action, complete, fail, cancel, snapshots | the first outcome stays; a record lives while a task works under it; the stall hint speaks of a thread that is really silent |
| mutation journal (`mutation_journal.rs`) | snapshots per uuid, the files | begin, journaled write, end (keep, roll back) | a failed job leaves no trace, a journal reaches no other job's files |
| job runner (`jobs.rs`) | a task, a heartbeat thread and the spawned work per job | start, spawn, join, end journal, report | the journal is settled before the outcome shows; a job whose own calls return ends while one worker thread is left |
| stdio loop (`mcp_server.rs`, `mcp/handlers/mod.rs`) | the request in hand | dispatch, inline wait, time-out, cancel, hang-up | what it answers agrees with later polls; the wait is bounded only while a worker thread is free |
| agent loop (`agent/orchestrator.rs`) | log, turn, finished, the last call | head of a turn, tool turn, soft finalize, cap | it ends; it looks at the cancel flag and at the clock between turns |
| compaction (`agent/pruner.rs`) | the prompt | compact before a turn or after an overflow error | the prompt fits, evidence the agent still needs survives |
| triage (`agent/triage.rs`) | scope, targets, phase | build, RED check, edit, escalate | edits stay in scope; RED is said of code that builds and of a suite that fails |
| test builder (`agent/builder.rs`, `mcp/handlers/builder_job.rs`) | log, blank turns | scout, write a suite, nested triage, accept | success only on the host's word; what it leaves passes |
| blueprints (`agent/planner`, `mcp/handlers/execute_blueprint.rs`) | file steps | validate, apply, triage, build tests | what is planned holds on the disk and can be applied; it is applied as a whole or not at all |
| scout and its cache (`agent/scout`, `cache/manager.rs`) | queries, insights, dependencies, snapshots of files | lookup, invalidate, read, store | a cached report is not older than its files |
| web fetcher and its cache (`agent/web_fetcher`, `cache/manager.rs`) | phrases, reports, pages, hashes | lookup, revalidate, invalidate, store | a report past its time is checked against its pages; a young one stays |
| babysitter (`agent/babysitter`, `tools/github.rs`) | reviews read, comments handled, triage green, replies sent | get state, child triage, push, reply, finalize | nothing untested is pushed, no comment it was shown is left without an answer when it says mergeable |
| git janitor (`agent/git_janitor`) | the conventions found, the branch | read, judge the branch, patch and write the conventions, create a branch | the branch it suggests is one it would then allow a commit on; what it wrote is what it reads |
| transformer (`agent/transformer`) | discovered targets | codemods, one-line edits | all calls found are migrated, nothing else is lost, no change escapes triage |
| transpiler (`agent/transpiler`) | the target, the verdict of the last triage | write the target, child triage, finalize, report | a finalized target is as a triage passed it |
| configuration (`storage.rs`, `config_server.rs`) | config in memory, its file | load (migrates), save, get, put | what was saved loads and means the same, no agent is left without an account |
| LLM clients and preflight (`llm`) | what a provider refused | complete, relax, probe | a provider that would answer is served; what the preflight lets pass serves the jobs |
| evaluator (`agent/evaluator.rs`) | rows of scores, exemplars | judge, store, page | the same text is judged however often it is |
| metrics (`metrics`), runtime log (`runtime_log.rs`) | rows; a ring of 200 entries | append, query; push, pop the oldest | the parts of a day add up, a job is charged once unless a row was lost; the ring keeps the newest |

`PROJECT.json` lists these and the parts with no control of their own (schemas,
report wording, subprocess wrappers) with their files.

### How they meet

* *Calls.* The stdio loop calls the runner through a spawned task; a handler
  calls an agent loop; a tool of an agent calls another loop in the same task.
  Only the spawned tasks and the heartbeat threads run side by side.
* *Worker threads.* The tasks share the worker threads of one tokio runtime, one per
  core. Providers are called with a blocking client without a time-out, not through
  `spawn_blocking`, so a hung call keeps its thread.
* *Shared memory.* The registry (one mutex), the journals (one mutex, held
  across the file operations), the configuration (one lock).
* *Shared disk.* The working tree of the user's project, with no lock of any
  kind: two jobs, the user and the compiler all meet there. `cache.db`, one per
  project, opened by every job anew.
* *Shared text.* What an agent did is read back by its caller from the log of the
  loop, by searching for markers, in a text that also holds what the model said.
* *Callbacks.* A panic of the work arrives as the error of a join handle; the end
  of the process drops every task where it is.

### What is hard to test here

Two jobs on one file; as many hung providers as worker threads; a cancel in the last turn; a time-out of the wait at the
moment the job ends; a heartbeat after the outcome; a uuid used again; the
process ending between two writes; a report judged by a snapshot that another
report refreshed; several connections to one cache; loops in loops with limits of
their own; success told from text; a review that arrives behind the last read; a plan gated by
four hands with rules of their own; edits with line numbers of before; a page that
saves over another. `PROJECT.json` lists each at its line.

## 2. Jobs: `JobRegistry`, `MutationJournal`, `JobRunner`, `FileTransactions`

### What the code does

A `tools/call` for a heavy tool becomes a *job*. `dispatch_async_job` registers
its `request_uuid`, spawns `run_tracked_job` and waits for it, for at most
`job_await_timeout_secs`; if the time runs out the runner goes on detached and
the client polls `query_job_status`. `run_tracked_job` marks the job running,
starts a heartbeat thread, opens a mutation journal when the tool edits files,
spawns the work and joins it, ends the journal (keep on success, roll back on
an error, a panic or a dropped task) and publishes the outcome. The work runs
agent loops, which look at the cancel flag and at the wall clock only at the
head of a turn. The registry and the journals are memory; the disk outlives
the process.

### How the modules correspond

| module | code | state |
| --- | --- | --- |
| `JobRegistry` | `jobs.rs`, `JobRegistry` | `jobs`: a record per uuid: tool, status, outcome, three ages, cancel flag |
| `MutationJournal` | `mutation_journal.rs` | `disk`, `armed` (uuids with a journal), `prior` (its snapshots) |
| `JobRunner` | `run_tracked_job`, `HeartbeatHandle`, `dispatch_async_job`, `run_stdio`, the loop head of `orchestrator.rs` | `runner`, `work`, `verdict`, `thread`, `stopped`, `awaited`, `answer`, `hungUp`, `session` |
| `FileTransactions` | the promise of the journal, with no journal in it | `committed`, `overlay`, `fate` |

Every operation of the registry takes one mutex, so each is one step;
`journaled_write` and `end_job_journal` hold the journal mutex while they touch
the disk, so each of these is one step too. Everything else interleaves: the
runner, the work, the heartbeat thread and the stdio loop of every job take
their steps in any order, and the process may end at any of them.

A job that was polled keeps its worker thread to its end (`HasWorker`): its agents call
providers, compilers and `git` with blocking calls between awaits that never suspend.
So a spawned job starts, and the timer of an inline wait fires, only while fewer than `Workers`
jobs have one (`WorkerFree`); the main thread itself drives no timers. `work[u] = "call"`
is a call under way; it may never return. The heartbeat threads are threads of
the OS and take none.

Time is counted in heartbeat intervals (30 s). An age counts only while
something compares it with a threshold and stops just beyond it.

### Abstract specification

`FileTransactions` says what a caller may rely on: the edits of a job are an
overlay that is committed as a whole or dropped as a whole, except for *fragile*
paths (those a rollback fails to restore; the code only logs that) and for the
end of the process, which commits every overlay. `JobRunner!Transactions` is the
refinement mapping: a committed file is the snapshot of the open journal that
has one, else the disk; an overlay is what the disk holds at the paths of an
open journal. It holds for jobs that do not write the same file
(`Isolated = TRUE`); `MCJobRunner_shared.cfg` shows why that is needed.

Two more things the model shows. A journal whose rollback
failed for a path stays in the map, and a later life of the same uuid finds it:
`begin` replaces it, so it does no harm to a journaled tool, and a tool without a
journal of its own writes under it (`prior` in `JobRunner`, the run `jobs_time`
has a fragile path). A runner whose heartbeat thread the OS refuses after the
inline wait has ended leaves a job that is running for ever; `JobsEnd` excepts it
by name.

## 3. Build jobs: `TriageAgent`, `BuilderJob`

### What the code does

`verify_and_triage` builds a module and lets a model repair it. `execute_blueprint`
applies file steps, triages what they touched, and runs a builder per
`generate_tests` step. `generate_tests_and_scaffolding` runs one builder. The
builder writes a suite through `write_test_suite`, which starts a nested triage:
RED (the suite must fail an assertion), GREEN or REFACTOR (it must build). The
handler then searches the builder's log: the marker `[BUILDER GREEN OK]`, the
last `Launching Triage (green)`, the words `iteration limit after`; and at last runs
the tests of that suite, if the language has such a check.

### How the modules correspond

| definition | code |
| --- | --- |
| `StackKinds`, `MCBuilderJob!AllStacks` | what `env_detector.rs` finds for a module: which suites its build and test commands can see |
| `Retarget`, `MayEdit` | `TriageAgent::retarget`, `assert_edit_allowed` |
| `TriageSucceeds`, `TriageEdits`, `TriageIdles`, `TriageEscalates`, `TriageFindsNoTarget` | one turn of `TriageAgent` each, by how it ends |
| `RedOutcomes`, `RedScope` | `try_finish_tdd_red`, `is_assertion_test_failure`, `scope_test_command_for_paths` |
| `TriageCapped` | `apply_iteration_cap`, which writes the limit into the log |
| `OpenTriage`, `ApplyFileSteps`, `StartBuilder`, `PipelineDone`, `TriageReported` | the handlers of the three tools |
| `ToolTurn`, `BlankTurn`, `CallRejected`, `CallScout`, `CallWrite`, `CallTriaged` | `BuilderAgent::process_and_evaluate`: a turn and, one by one, its calls |
| `Accepted`, `HardStopped`, `TestPasses` | `run_builder_green`, `verify_test_passes` |
| `Abort` | every `?` between: cancel, wall clock, provider |

The contents of a file are what the commands can tell apart: missing, does not
compile, fails an assertion, passes. A log is the three facts the handler reads
from it. The log is one text: with `Echoes`, every entry may quote any of the lines the
handler will look for - the marker, the words of a limit, a launch line with another
path (`Quotable`). The runs that pass have `Echoes = TRUE`.

`is_assertion_test_failure` is a search in the output of a failed command: words of an
assertion, none of a list of set-up errors, and, unless the command was scoped to a suite,
the file's name anywhere. A compile error that quotes an assertion passes for one; an
assertion next to a set-up error does not. `RedOutcomes` therefore lets the search say
either of any failed command, and no of one that succeeds. What is left of RED is
`ScopedRedFails`: the module builds, and a suite to which the command was scoped fails,
for whatever reason. `RedMeansRed` ("tests compile and fail assertions", `builder.rs:427`)
does not follow and is a sentence of chapter 10.

A builder's suite may be the source file itself, which is where unit tests of a Rust
module live: `write_test_suite` then writes into the code under test, and the nested triage
may edit all of it. `NestedScope` says just that: a repair under the builder reaches no other
file than the one it was started for.

What the model shows and no run states: a RED repair may replace the assertion itself,
since only the new line is looked at (`triage.rs:541`); a builder that got its GREEN in
the very last turn is refused when a nested loop ran into its own limit before, or when the log
quotes such a limit, because the limit is told by words in the log (`HardStopped`).

## 4. The caches: `InsightCache`, `WebReportCache`

### What the code does

`scout_context` looks for a stored query whose embedding is similar enough, loads
its report and the files it depends on, compares each with its snapshot and
answers the report if all are clean; otherwise it drops it and runs a scout, which
stores a new one with snapshots taken at that moment. `web_fetch` does the same
for web reports: one within its time to live is answered at once, an older one
after all its pages were fetched again and found to have the same hash.

### How the modules correspond

| `InsightCache` | `WebReportCache` | code in `cache/manager.rs` |
| --- | --- | --- |
| `queries`, `stored`, `insight`, `links`, `node` | `queries`, `stored`, `report`, `links`, `sources`, `hash` | the tables |
| `Match`, `BestMatches` | the same | `best_embedding_match` |
| `LoadContent`, `LoadDependencies` | `LoadReport`, `LoadSources` | the statements of `try_get_valid_insight`, `lookup_web_report_cache` |
| `CheckFile`, `CheckCitation` | `CheckSource`, `Revalidated` | `is_code_node_dirty`; `web_sources_still_valid` |
| `DropInsight`, `DropQuery` | `DropReport`, `DropQuery`, `DropOrphans` | `invalidate_insight`, `invalidate_web_report` |
| `Touch`, `StoreInsight`, `AnswerUnstored` | `Fetch`, `StoreReport`, `AnswerUnstored` | the agent, `store_insight`, `store_web_report` |
| `Change` | `PageChanges`, `PageFlips`, `Tick` | the user, the web, the clock |

The cache object has a mutex, but every job opens its own connection, so it orders
nothing between jobs: every statement outside a transaction is a step, and so are
`JobFails` between any two of them. `basis` in a report is bookkeeping: which
version of each file or page it was written from.

### When a hit may be trusted

Two levels. What the code does keep, whatever jobs, files and pages do meanwhile, is
proved without conditions (chapter 11): a scout report is answered only if each linked file
was, no earlier than the start of the lookup, as *the snapshot the lookup read* has it
(`HitMatchesSnapshots`); a web report only if it was young, or each of its pages was as *the row
the lookup read* has it (`HitMatchesSources`); and a report goes only for a reason that is
still one (`DroppedForAReason`).

What a caller wants is more: that the report was written from what is there now
(`HitIsCurrent`, `HitIsYoungOrUnchanged`). That holds under conditions the code does
nothing to ensure. The runs check it for jobs one after the other on files of their own;
the constants `Overlap`, `EditsWhileScouting`, `Scope` and `Found` switch the conditions off,
and TLC then finds a behaviour of about a dozen steps:

| condition dropped | what happens |
| --- | --- |
| two phrases share a file (`Scope`) | storing the second refreshes the one snapshot of the file; the first, written before the change, is answered |
| `EditsWhileScouting = TRUE` | the snapshot is taken when the report is stored: an edit after the file was read is never noticed |
| `Overlap = TRUE`, scout | a store between `LoadContent` and `LoadDependencies` pairs the old report with new snapshots; one between the check and `DropInsight` loses the new report |
| two phrases share a page (`Found`) | as for files, with the hash of `web_sources` |
| `Overlap = TRUE`, web | the same two races; revalidation fetches pages meanwhile, which makes the second wide |

`MCInsightCache_shared.cfg` and `MCWebReportCache_shared.cfg` drop them all: TLC finds the
first violation of `HitIsCurrent` and of `HitIsYoungOrUnchanged` there (chapter 10). Ordinary use
drops them too, so the hazards of shared snapshots and of the snapshot at store time are
listed in `PROJECT.json` without a property.

Further remarks: a page whose address merely contains `localhost` makes its
report go at every lookup; `created_at` stays after a successful revalidation, so
an old report is fetched again at every lookup from then on; the design document
(`docs/superpowers/specs`) wants only expired sources fetched again, the code
fetches all; `clear_web_cache` has no caller.

## 5. Git jobs: `GitWorkspace`, `Babysitter`, `GitJanitor`, `GitJobs`

### What the code does

`babysit_pr` runs a session of up to twenty turns on a pull request. The model
chooses a tool each turn: read the state of the pull request, analyse a log, have
files triaged, push, reply to a review comment, post the report, finalize. The
harness keeps notes of what was read and done, and `check_finalize_allowed`
answers "mergeable" from them alone. `prepare_git_copy` reads the branch and the
conventions once, judges the branch against the ticket asked for, and lets an
agent patch the conventions and write the copy; `create_git_branch` is a call of
its own. All of them work on one repository, through `git` and `gh`.

### How the modules correspond

| definition | code |
| --- | --- |
| `PushOriginHead`, `OnPrHeadBranch`, `CheckoutNew` | `github.rs`, `git_janitor/branch.rs` |
| `ReadChecks`, `ReadComments` | `gh_pr_state`: a call that fails reads as empty |
| `CheckIsBlocking`, `CheckStatusLabel` | the gate's rule for a check and the answer's, which are two |
| `Calls`, `Nudged`, `OutOfTurns` | the loop: a turn, a repeat that is blocked, the limit |
| `GetPrState`, `InvokeChildTriage`, `GitPushChanges`, `ReplyReviewComment`, `PostFinalReport`, `FinalizeSession` | the tools of `babysitter/mod.rs`, each with the failures its `?` lets through |
| `FinalizeAllowed` | `check_finalize_allowed` |
| `BranchGate` and what it is made of | `evaluate_branch_gate`, `suggest_branch_name` |
| `LoadConventions`, `MergeConventionsPatch` | `load_conventions`, `merge_conventions_patch` |
| `ScoutAndStart`, `ProposeConventionsPatch`, `UpdateGitConventions`, `EmitGitCopy`, `CopyOutOfTurns` | the job and its tools |
| `CreateGitBranch`, `EditToml` | the other job; a hand on the file |

The contents of the tree are a version number. A ticket is a key and a spelling:
what `find_jira_ticket` would find in a text, or something that only looks like
it to a person. The child triage is its verdict and its edits; what a triage does
inside is chapter 3. `shown` (the comments the session was shown), `triaged` (the paths whose
triage ran to its end, passed or not), `untested` (edits since a triage passed) and `lastWritten` (what the agent last wrote to disk) are
bookkeeping and guard nothing.

`GitJobs` puts a session and the janitor's jobs on the same repository. `work` says
which of the two a behaviour is about; what one can do to the other is change the
branch, so `BranchesOff` is the one step they share, and `Overlap` allows it while a
session runs.

`MergeableIsAnswered` says what "mergeable" stands for, and it is less than the word: the report
is posted; every root comment the session was *shown* has a reply, and its file is skipped by
name or was given to a triage that *ran to its end*; no check *that could be read* is red or
pending, but for CodeRabbit's. It does not say that a triage passed (the code counts a path as
handled when its triage is started, `babysitter/mod.rs:326`, and asks no more), that nobody
commented after the last `github_get_pr_state` (`finalize_session` reads the checks again, but
not the reviews), nor that the checks are green: a `gh` call that fails reads as no
checks at all (`github.rs:191`). The skill promises green, which is `MergeableMeansGreen` of
chapter 10.

What the model shows besides: an expected ticket in another spelling than a ticket's leads
to a suggested branch that the gate then refuses (`TicketsAgree`); with
`Overlap` a branch created meanwhile takes the push.

## 6. Agent jobs: `AgentLoop`, `LlmClient`, `Blueprint`, `Planner`, `Codemod`, `Transformer`, `Transpiler`, `AgentJobs`

### What the code does

*The loop* (`agent/orchestrator.rs`) sends the context, and takes the first tool
call of the answer, or the prose. A call equal to the last one is blocked; a tool
that is terminal ends the loop and replaces the log by its output. Before a
request, and after a provider complains of the length, the log may be compacted.
Out of turns, the log becomes a report that quotes its tail.

*The client* (`llm/openai_compatible.rs`) relaxes a request that a provider
refuses: first `tool_choice`, then the temperature, then `tool_choice` once more.
*The preflight* asks a phase's model three questions before any job may use it.

*The planner* scouts, then emits: `emit_blueprint` validates the plan and, if it
holds, ends the loop; a gate behind it wants every changed file to have been read.
An exhausted emit loop is resumed for a fix round, with its context. The handler
then takes whatever the braces of the final log span and gates it again, so a plan may also
come from prose or from a report. `execute_blueprint` validates once more and
applies the file steps, hunk by hunk.

*The transformer* finds the calls of a method, migrates the fields of each range
with the codemod of the language (or has a model rewrite it), edit after edit with
line numbers taken at the start, renames the fields of log types, has the touched
files triaged and verifies them.

*The transpiler* rewrites one file of types. Its model may write the target, and no
other file; have files of its choice triaged, to which the target is added; finalize, if the last
triage passed and nothing was written since; or report an error, which is an answer like
any other. A call that is refused ends the job, unlike in the other agents.
`verify_command` is run before a triage and after one that did not pass, to be quoted;
it decides nothing.

### How the modules correspond

| definition | code |
| --- | --- |
| `Thinks`, `BlockedCall`, `ObservedCall`, `FinalCall` | the ends of `run_single_tool_turn` |
| `Compacted`, `Capped`, `Resumed` | `AutoCompactGuard`, `apply_iteration_cap`, the fix round's reset |
| `OverProactiveThreshold`, `DensifyTarget`, `PrunerInput`, `Reduced` | the arithmetic of `pruner.rs` |
| `NextAttempt`, `Answered`, `Refused` | `complete`, attempt by attempt |
| `ListModels` ... `PlainAnswered` | the stages of `preflight_phase` |
| `ValidBlueprint` and its parts | `validate.rs`, rule by rule |
| `Fits`, `PlanKindGates` | `args.rs`, `constraints.rs` |
| `ApplyHunks`, `ApplyStep`, `ApplyFileSteps` | `apply.rs` |
| `TurnOfProse`, `TurnBlocked`, `TurnOfRead`, `TurnOfSearch`, `TurnOfEmit` | a turn of the planner's two agents, by what it is |
| `ScoutEnds`, `EmitEnds`, `GatePasses` | `run_planner_hybrid`, `final_blueprint_or_report` |
| `ExecuteBlueprint` | `execute_blueprint.rs` |
| `FoundRanges`, `DropSubsetRanges`, `RefactorRanges` | `tools/discovery.rs`, `tools/ast.rs` |
| `MigrateLine`, `Migrated`, `TypeMigrated` | the six `*_codemod.rs` and the log types |
| `TagsStripped` | `strip_inline_tags_assign`: inline tags go as far as the next comma; tags that end their line without one stay |
| `VerifyFieldMigration` | `codemod_report.rs` |
| `GatherAndApply`, `ApplyCodemod`, `EditRange`, `EditLine`, `EditsEnd`, `Triage` | `transformer.rs` |
| `MayWrite`, `WriteTargetFile`, `InvokeSyncTriage`, `FinalizeSync`, `ReportSyncError` | the four tools of `transpiler/mod.rs`, a refusal being part of each |
| `SyncNudged`, `SyncOutOfTurns`, `SyncFails` | a turn without a call or with a repeated one, the turn limit, every `?` |

A file is a sequence of lines; in `Codemod` a line is the sequence of its tokens
(braces, field names, the name of the method). Of a log only what lies between its
braces is kept: nothing, one plan, or a mixture that does not parse. A provider is
what it takes and what it complains of first; a *fickle* one routes each request
to a backend of its own and promises nothing.

`reads` and `ran` (what the job read and last ran), `refused` (the client was
told), `atApply` and `atTriage` (the files when the edits began, when they were last
a target), `changed` and `untriaged` (what a sync wrote, and wrote since a triage of it
passed) are bookkeeping. `verifies` is what `verify_command` would say of the tree.

The four parts share no state: what a turn sees of the client is whether it
answered, and the planner, a refactoring and a sync are jobs of their own. `part` names the
one that moves, so a run is the sum of four instances, not their product.

### Pure algorithms

The hunks of a plan, the ranges of a scan and the codemods are operators. What
they promise is checked where they are used: planning accepts nothing that the
execution refuses (`GatesAgree`, whose part `AnsweredPlanApplies` is about plans that change
a file at one place with an anchor found once), the execution changes nothing that planning
has not read (`ExecutionChangesWhatWasRead`), a migration keeps the order of all other fields
(`MigrationKeepsFields`, against `KeptFields`) and leaves no old field behind
(`MigrationReachesAll`). The two of the migration hold under premises, and these are real:

* `Plain`, of the first, keeps inline `.meta = {` lines with a correlation out: C++ and
  Zig put the source field amid such a line, and a second range that meets the line
  takes all of it for a source field (`cpp_codemod.rs:41`), so its fields are lost. With
  `FieldAlone` instead, the property is false (`FieldsSurviveAnyRanges`, chapter 10).
* `Regular`, of the second: the outermost ranges that the scan finds have lines of their own,
  each becomes a text of the same length, and legacy fields stand where the
  language's codemod looks for them. A codemod that drops a `tags` line moves every
  range below it, and the edits that follow miss it by a line (`Shifting` in `MCAgentJobs`):
  the hazard of a shift is shown by the model, and excluded from the property; two ranges that end and begin in the same line are both found, and edited twice.

## 7. Services: `ConfigStore`, `MetricsStore`, `Evaluator`, `ServerLoop`, `Services`

| module | code | what it keeps |
| --- | --- | --- |
| `ConfigStore` | `domain.rs`, `storage.rs`, `config_server.rs`, `ui/` | the file, the copy in memory, what each browser page shows |
| `MetricsStore` | `metrics/store.rs`, `metrics/query.rs` | the four tables, the event counters, the clock |
| `Evaluator` | `agent/evaluator.rs`, `metrics/evaluations.rs` | the results of jobs, the rows of their judgements |
| `ServerLoop` | `mcp_server.rs`, `runtime_log.rs` | what is on stdin, the answers, the ring of warnings |

*Configuration.* `Migrated` is `migrate_config_value` with its four parts in their
order, `Merged` is `merge_missing_from_defaults`, `Json` is what serialization
leaves out. `Parses` is what serde takes of a migrated value: no phase in the legacy form, and
of each profile a provider that serde knows by that name or its alias - which are
`deep_seek`, `deepseek`, `open_router`, `open_a_i` (the snake case of `OpenAI`) and `custom`.
A body that does not parse is answered 400 and changes nothing. Memory is changed before the
file, so `PutConfig` has three more outcomes: saved; reported as failed, with the change in
memory and the file whole or torn; and a crash that may leave half a file.
A page is a value somebody edits for as long as he likes; two pages save over each other. A
file to start from is any that some version of the server, or a person who kept to its format,
may have written (`ConfigAssumption`): each phase has one of the two forms, and a bound one names
a profile there is; any string may stand for a provider.

`LegacyMeansTheSame` says of a legacy file whose providers the server knows that it loads, and that each
of its phases keeps its provider, key and model. A flat phase's context window is not among
them: the migration drops it, and the default takes its place (`storage.rs:159`). A legacy
file that says `open_ai` does not load at all: the server starts with the built-in configuration,
and the first save writes it over the file.

*Metrics.* An event's id is the time and the counter of its server; two servers
may meet in one, and the second row is not inserted. An insert may also fail for any reason of
the database's, and be skipped, with no number used, behind a poisoned lock: `fate` of an
event is `inserted`, `failed` or `skipped`. The rows of a job's end are written in order and
the first that fails ends them. `lost` is the set of jobs for which a row is missing. The
queries are sums over the tables.

*Evaluations.* A text is a sequence of pieces; the appendix with which the host
returns a judgement must not be in what the next judge reads.

*Stdin and the log.* A message has a form (line, headers, blank, headers without
a length), an id and a method; a message in the log is the sequence of the widths of
its characters, so that cutting it at a boundary is a real question. One that was cut gets a
suffix that says so, behind the bytes that are kept: an entry may be longer than
`MaxBytes`, and by no more than the suffix (`TruncateMessage`, `WholeOrCut`).

What the model shows and no run states: a Brave key is never written to the file, so
a restart forgets it (`SavedIsLoaded` excepts it); a save that fails leaves a
configuration in memory that the next start does not have (`agreed`); a line that is empty
ends the server like the end of the input.

## 8. The runs

A run that passes explores its instance exhaustively; a run that is expected to
find a violation states one sentence of the documentation (chapter 10).

| run | instance | states | what it shows |
| --- | --- | --- | --- |
| `jobs_isolated` | 2 journaled jobs, 2 files, 2 starts of the process, 2 work steps each, every cancel, panic, partial write, detached runner | 251 thousand | `FailedLeavesNoTrace`, `FilesRestAfterOutcome`: when a poll says failed the edits are gone, and nothing moves a file after an outcome; `JobsAreTransactions`: the whole implements `FileTransactions` |
| `jobs_time` | 1 uuid registered twice, journaled or not, 1 fragile path, the clock with four thresholds in the order of the code's | 737 thousand | `TaskKeepsRecord`, `OutcomeIsFinal`: eviction and reuse reach no live job; `AnswerAgrees`: what the inline wait said is what polls say; `HintMeansNoHeartbeat` |
| `jobs_live` | 3 jobs on 2 worker threads, calls that may hang | 121 thousand | `JobsEnd`: while hung calls do not hold every worker for good, a job whose own calls return ends |
| `build_all` | 3 tools, 6 stacks, 2 suites and a source, 3 builder turns of up to 2 calls, 2 triage turns, and a log that quotes whatever the host looks for | 774 thousand | `SuccessLeavesGreen`, `ScopedRedFails`, `JobEnds` |
| `insight_serial` | 3 calls, 2 similar phrases, 3 files changing once | 1.3 million | `HitIsCurrent`, `UsefulInsightsStay` |
| `web_serial` | 3 calls, 2 similar phrases, 3 pages changing once, one of them local, the time to live crossed | 3.5 million | `HitIsYoungOrUnchanged`, `YoungReportsStay` |
| `git_jobs` | a session of 6 turns on 2 comments on 2 files, one round of edits, 3 states of the checks, a branch made before it; or commit-copy jobs of 2 turns, 2 tickets, 6 requests, 3 values of a setting | 195 thousand | `MergeableIsAnswered`, `PushFollowsPass`, `SuggestionSettles`, `PersistedIsLoaded`, `JobsEnd` |
| `agent_jobs` | all 216 kinds of provider, 2 calls of a job's client; or 7 plans, 4 requests, 5 paths, 2 scout turns, 2 emit turns and a fix round of one, one change by others; or 11 repositories, 2 rules, 2 target lists, 2 turns with 2 calls; or a sync of 4 turns on 3 files, with its target preserved or outside its workspace, or neither | 214 thousand | `ClientServes`, `ExecutionChangesWhatWasRead`, `GatesAgree`, `NoCallRunsTwice`, `MigrationKeepsFields`, `MigrationReachesAll`, `AnswersAreTriaged`, `JobsReturn` |
| `services` | 2 pages, 2 edits, 2 providers to choose, 15 files to start from; 2 servers, 2 jobs over an hour's and a day's turn, inserts that fail or are skipped; 2 results, 3 judgements; 3 messages of 10 kinds; 3 events in a ring of 2, cut at 4 bytes with a suffix of 2 | 468 thousand | `EveryPhaseResolves`, `ConfigSurvives`, `MetricsAddUp`, `JudgedAlike`, `ExemplarNeverWorse`, `PagesShowAll`, `AnswersInOrder` |
| `build_red_left`, `git_push`, `agent_test_goal` | small | - | chapter 10 |

`TypeOK` of the job runner, the builder and the two caches, `TerminalIsSettled`,
`NestedTriageStaysInScope`, and of the caches `HitMatchesSnapshots`, `HitMatchesSources` and
`DroppedForAReason` are proved (chapter 11) and no longer checked by these runs; the latter
three hold in the `_shared.cfg` instances too, where TLC evaluates them.

### Why the bounds are enough

* *Two jobs.* The registry and the journals are maps by uuid; what one job can do to
  another, it does through one file or through the end of the process. A third
  adds no new pair. A uuid needs two lives to meet what its first left.
* *Two work steps.* One write and one loop head, two writes, or a write and a
  provider call: a snapshot that is there already, a cancel before or after.
  `jobs_time` has three.
* *The thresholds* 3, 4, 5 of `jobs_time` keep the order of the code (stall hint 90 s,
  wall clock 30 minutes, retention an hour) and leave an interval between any two; ages stop
  one beyond the last comparison, so a longer clock reaches no new state.
* *Three builder turns, two calls each, two triage turns.* RED, GREEN and one turn
  that ruins or limits; one call behind the one that finished. Two blank turns in a
  row stand for the code's three (`BlankLimit`); the third suite or turn repeats the
  second.
* *Three jobs, two workers.* One hung call leaves a worker, two leave none: the two sides of
  the premise of `JobsEnd`. More workers would move both by one.
* *Six session turns* are what it takes to be called mergeable with two comments on two
  files: one to read, one to have both triaged, two to reply, one to report, one to finalize. A session that
  skips one of them has room for a push, a second read or a repeat. One round of edits tells a tested tree from
  another one.
* *The plans* differ in one thing each: right; an anchor found twice; lines of an anchor
  scattered; a new module with its declaration; a goal that cites the test only; a
  sketch; a plan for the transpiler. A fix round of one turn is resumed once.
* *The repositories* differ in how calls lie: sharing a line, nested, with the
  metadata inline, with tags that no comma follows, moved by the edit above, with log types, outside the scope; each language has
  one, its codemod being another.
* *Four turns of a sync* are a write, a triage, another write or triage that undoes the
  verdict, and the end.
* *All kinds of provider* are all that `ServerKinds` tells apart, so this part is
  exhaustive; the second call of a client is the first that knows something.
* *Two pages, two edits*: one edit in each is a lost update, two in one is a profile added and used.
  The files to start from are eleven legacy ones (one with a provider that serde does not know, most with
  a context window of a phase's own), two of today's shape, none and half a one. One of the two providers
  a page offers is a name that serde knows.
* *A suffix of two bytes and a cut at four* make an entry longer than the cut, as 14 bytes and 4,096
  do; characters of one to three bytes put a boundary before, at and behind the cut.
* *Three cache calls* store, store over or beside it, and look up. One change of a
  file or page distinguishes old from new.

The theorems of chapter 11 drop all of these bounds for the properties they cover.
The parts of `agent_jobs`, `services` and `git_jobs` share no state but what chapters 5 to 7 name,
so a behaviour is one of them at work and a product of them would add nothing. Deadlock is not checked in these runs: every one of them ends (the process is
down for good, the job is over, the calls are used up). The two uuids and paths of
`jobs_isolated` and the two pages of `services` are symmetric; no run with liveness uses symmetry.

## 9. Fairness

`JobRunner!FairSpec` assumes what the tokio runtime and the OS give. A job that has its worker
thread goes on for as long as its calls return (weak fairness of `Runner` and `WorkStep`; a
call's return is not among the steps). A spawned job waits in a queue for a worker that
other jobs may take first: `RunnerStarts` has strong fairness, as the queue is first in, first
out, and it is enabled only while a worker is free. The inline wait ends when the work is
joined, or by its timer while a worker is free (`AnswerJoined`, `AnswerTimeout`). Nothing is
assumed of the client, of cancels, of the end of the process, and nothing of the
provider: an HTTP call has no time-out (`llm/openai_compatible.rs:280`).

So `JobsEnd` has two premises: the job's own calls return, and hung calls do not hold every
worker for good. With a worker to spare, a provider that never answers holds up no other job.
Without one everything stops, the timer of the inline wait included: `LoopComesBack`, which the
schema at `jobs.rs:320` promises, is not a property of any run but a sentence of chapter 10
(`MCJobRunner_hung.cfg`: two workers, two hung calls, and the stdio loop waits for ever).

`BuilderJob!FairSpec` is weak fairness of the whole next-state relation: the job's
task is polled to its end, and every await in it (the provider, the compiler)
returns. Which step is taken stays open, so `JobEnds` rests on the turn limits
alone and not on a model that is nice to the loop.

`GitJobs!FairSpec` is weak fairness of the steps of a session and of a commit-copy job: the
loop goes on by itself. Reviewers, checks, the person who commits, the next job
and the branch made beforehand are under none. `AgentJobs!FairSpec` is the
same for the planner's turns, for those of a sync and for a request under way (`Sends`): that a request
returns is assumed here, where the question is whether *relaxing* it ends. What the model
says and which tool it calls is open everywhere, so `JobsEnd` and `JobsReturn` rest on the
turn limits.

The caches and the services have no liveness property: a lookup is a bounded list of
statements, and nothing in the services waits.

## 10. Where the code and its documentation disagree

| run | the documentation | the code |
| --- | --- | --- |
| `build_red_left` | "do not leave intentional RED tests in the workspace" (`handlers/mod.rs:474`) | only the suite of the last GREEN launch is checked |
| `git_push` | "Pushes the green local workspace state back to GitHub" (`.cursor/skills/adjutant-babysitter/SKILL.md:42`) | `git push origin HEAD` sends commits, and nothing commits what the triage has edited (`github.rs:345`) |
| `agent_test_goal` | "goal must cite tests/foo.rs:1" (`planner/mod.rs:79`) | a plan with such goals is valid, is applied and triaged, and is then refused for want of a source path (`execute_blueprint.rs:103`) |

Each is a run that TLC must find violated; its trace is the history. More instances show the
same way what a theorem's assumption is for, or a sentence that the code does not keep. They
are run by hand; where the table names a property with a configuration of chapter 8, put it in
place of the configuration's own:

| instance | the sentence or assumption | the code |
| --- | --- | --- |
| `MCJobRunner_isolated.cfg`, `INVARIANT CancelRollsBack` | "checked between agent turns; mutating jobs roll back" (`jobs.rs:340`) | nobody looks at the flag after the last loop head: a cancel accepted in the last turn is ignored and the edits stay |
| `MCJobRunner_shared.cfg` | "Job-scoped path snapshot / rollback" (`mutation_journal.rs:1`) | the rollback of one job removes what another wrote to the same file afterwards |
| `MCJobRunner_hung.cfg` (`LoopComesBack`) | "If the job exceeds the await timeout, it falls back to async mode" (`jobs.rs:320`) | the timer is one of the runtime's: hung provider calls on all of its workers stop it, and with it the stdio loop |
| `MCBuilderJob_untested.cfg` (`RedMeansRed`) | "[RED OK]: tests compile and fail assertions" (`builder.rs:427`) | what a test command failed of is told by a search in its output (`triage.rs:648`): a suite that does not compile passes for one that fails an assertion |
| `MCBuilderJob_untested.cfg` (`GreenMeansTestsPass`) | "NOT done until GREEN triage passes (all tests pass)"; "only the host marks `[BUILDER GREEN OK]`" (`builder.rs:34`) | the marker and the launch line are looked for in the whole log, the model's text included; where the language has no check afterwards, a job is accepted with no suite that passes |
| `MCInsightCache_shared.cfg` | "every linked source file is up to date" (`cache/manager.rs:56`) | the snapshot of a file is shared by all insights and refreshed by any |
| `MCWebReportCache_shared.cfg` | an old report is answered when its pages are unchanged (`HitIsYoungOrUnchanged`) | the hash of a page is shared by all reports and replaced by any |
| `MCServices_all.cfg`, `INVARIANT OfferedIsTaken` | the page's providers are `'deep_seek' \| 'open_router' \| 'open_ai' \| 'custom'` (`frontend/src/modules/config-ui/types.ts:1`, and the design document of 2026-07-20 at `:25`) | serde's name is `open_a_i` (`domain.rs:26`): a page with such a profile cannot be saved, and a legacy file with it does not load |
| `MCGitJobs_push.cfg`, `PROPERTY MergeableMeansGreen` | "Requires ... green CI (no failing/pending checks)" (`.cursor/skills/adjutant-babysitter/SKILL.md:45`) | checks that cannot be read are no checks (`github.rs:191`), and CodeRabbit's never block |
| `MCAgentJobs_scope.cfg` | "only files under this path are gathered, codemodded, verified, and triaged" (`schemas.rs:100`) | the scope filters what is gathered; targets the model sends are taken as they are (`transformer.rs:551`) |
| `MCAgentJobs_scope.cfg` | a field migration renames fields (`field_migration.rs:5`) | a line that the codemod itself gave an inline source field is taken for that field alone by the next range that meets it, and its other fields go (`cpp_codemod.rs:41`, after `:51`-`65`) |
| `MCAgentJobs_scope.cfg` | "Agent cannot write any path except `target_path` (allowlist enforced in harness)" (`.cursor/skills/adjutant-transpiler/SKILL.md:40`) | the allowlist is that of `write_target_file`; the child triage edits every file the model names as its target (`transpiler/mod.rs:219`), preserved ones too |
| `MCAgentJobs_scope.cfg` | "Ends the transpiler session after verification passes" (`transpiler/tools.rs:74`) | the gate asks for a passed triage, which builds what it finds; `verify_command` is run to be quoted (`transpiler/mod.rs:124`) |

`MCAgentJobs_scope.cfg` lists four properties, `MCBuilderJob_untested.cfg` two: run them with `-continue -workers 1`.

## 11. What is proved, and how

All proofs are for every value of the constants, under the named assumptions of
the modules (`RegistryAssumption`, `RunnerAssumption`, `TriageAssumption`,
`BuilderAssumption`, `CacheAssumption`, `WebCacheAssumption`, `RepoAssumption`,
`BabysitterAssumption`, `JanitorAssumption`, `LoopAssumption`, `BlueprintAssumption`,
`PlannerAssumption`, `LlmAssumption`, `TransformerAssumption`, `TranspilerAssumption`,
`ConfigAssumption`, `MetricsAssumption`, `EvaluatorAssumption`, `ServerLoopAssumption`), which say little more
than that bounds are numbers, that inputs have the shape the code parses them into and that model values differ.

| module | theorem | property |
| --- | --- | --- |
| `JobRunner_proofs` | `TypeCorrect`, `TerminalSettled`, `TasksKeepRecords`, `FirstOutcomeIsFinal` | `TypeOK`, `TerminalIsSettled`, `TaskKeepsRecord`, `OutcomeIsFinal` |
| `JobRunner_proofs` | `AnswersAgree`, `HintsMeanNoHeartbeat`, `FilesRest` | `AnswerAgrees`, `HintMeansNoHeartbeat`, `FilesRestAfterOutcome` |
| `JobTransactions_proofs` | `FailedJobsLeaveNoTrace`, `JobsImplementTransactions` | `FailedLeavesNoTrace`, `JobsAreTransactions` (if `Isolated`) |
| `BuilderJob_proofs` | `TypeCorrect`, `SuccessIsGreen`, `ScopedRedOfAFailure`, `NestedScope` | `TypeOK`, `SuccessLeavesGreen`, `ScopedRedFails`, `NestedTriageStaysInScope` |
| `InsightCache_proofs` | `TypeCorrect`, `HitsMatchSnapshots`, `DropsHaveAReason` | `TypeOK`, `HitMatchesSnapshots`, `DroppedForAReason` |
| `WebReportCache_proofs` | `TypeCorrect`, `HitsMatchSources`, `DropsHaveAReason` | `TypeOK`, `HitMatchesSources`, `DroppedForAReason` |
| `GitJobs_proofs` | `TypeCorrect`, `MergeableWasAnswered`, `PushesFollowAPass`, `SuggestionsSettle`, `WrittenConventionsAreLoaded` | `TypeOK`, `MergeableIsAnswered`, `PushFollowsPass` (if `~Overlap`), `SuggestionSettles`, `PersistedIsLoaded` |
| `AgentJobs_proofs` | `TheClientServes`, `CompactionMakesRoom` | `ClientServes`, `MakesRoom` |
| `AgentJobs_proofs` | `ExecutionsChangeWhatWasRead`, `CompletedPlansAreAnswered`, `CallsRunOnce` | `ExecutionChangesWhatWasRead`, `CompletedPlanIsAnswered`, `NoCallRunsTwice` |
| `AgentJobs_proofs` | `AnsweredJobsAreTriaged` | `AnswersAreTriaged` |
| `AgentJobs_proofs` | `AgentJobsTypeCorrect`, `GatesOfAPlanAgree` | `TypeOK`, `GatesAgree` |
| `AgentJobs_proofs` | `MigrationsKeepFields`, `MigrationsReachAll` | `MigrationKeepsFields`, `MigrationReachesAll` |
| `Services_proofs` | `ServicesTypeCorrect`, `EveryPhaseHasAnAccount`, `ConfigurationSurvives` | `TypeOK`, `EveryPhaseResolves`, `ConfigSurvives` |
| `Services_proofs` | `UsageAddsUp`, `AnswersComeInOrder` | `MetricsAddUp`, `AnswersInOrder` |
| `Services_proofs` | `SameTextIsJudged`, `ExemplarsNeverGetWorse`, `PagesAreComplete` | `JudgedAlike`, `ExemplarNeverWorse`, `PagesShowAll` |

**JobRunner.** The invariant is the types and, per uuid, `JobInv`: how record, runner,
work, heartbeat thread and journal go together. `RecordInv`: a runner that has not
reported has an active record, which is why no eviction and no second `register`
can reach it. `ThreadInv`: a thread that outlives the report of its runner has its
stop flag set and a record whose retention has not begun to count, which is why
a late heartbeat finds a terminal record and does nothing. `JournalInv`: an open
journal is armed, and one that is left over holds fragile paths only.
`WorkInv` and `LifeInv` say when there is a verdict and a life. `TerminalIsSettled`
alone is not inductive: nothing in it keeps an armed journal from belonging to a
runner that has not yet settled. The effects of every operation of the registry are lemmas
(`HeartbeatEffect`, `CompleteEffect`, `RegisterEffect`, ...), and a frame lemma per kind of step
carries `JobInv` of the other jobs, so that a case of the step lemma speaks of its own
job only. `PollInv` is a layer of its own on top: what the client was told against
the record, and the age of the last beat of a job whose thread runs.
`FilesRest` needs no more than the structure: the only steps that touch the disk are
those of a runner that works, whose record is active.

**JobTransactions.** `FailedLeavesNoTrace` fails when two open jobs write one file (chapter 10),
so it is proved under `Isolated`. The bytes of a job can come back in one way only:
some other journal has taken them for what the file held before. `TraceInv` follows
the bytes of the present life of a uuid: none before its journal opens (`Fresh`), on the disk
only where its own journal has an entry and in no open journal while it works
(`Accounted`), on fragile paths at most once it is failing (`NoTrace`). Two parts hold
it up: `DisjointInv`, two open journals have no path in common, and `PastInv`, nothing
holds bytes of a life still to come, without which a new life could begin with a trace.

The refinement rests on `DisjointInv` too: it makes the `CHOOSE` of
`committedFiles` a function of the path (`Committed`). Then one lemma per step that
a transaction knows: `SpawnMaps` (`Open`), `WriteMaps` (`Edit`, `DirectEdit`), `EndMaps`
(`Commit`, `Abort`, both through `ClosesAs`), `JoinMaps` (`Abort` of a job whose runner
died), `RestartMaps` (`Crash`); `CallMaps` and `RefusalMaps` are `Forget` of the evicted.
`ForgetsAtMost` carries all the others: a step that moves no file and no open
journal forgets the empty set.

**BuilderJob.** `IInv` adds to the types `NestedInv` (a triage under the builder may
edit its targets and nothing else), `BlankInv` (a running loop has not used up
its blank turns) and `GreenInv` (a handler that is past a builder leaves what the last check
saw). `GreenInv` is needed because `SuccessLeavesGreen` speaks of the end only, and between the
check and the end nothing writes. No part of it speaks of the marker, so the theorems hold
whatever the log quotes. `RedInv`, for `ScopedRedFails`, adds that a triage in RED mode has
exactly one target: the suite it looked at is the suite it was asked about. `RedVerdict` uses
nothing of what the search in the output says but that the build went through and a
command failed.

**The caches.** The theorems assume nothing of jobs, files or pages: any number of jobs
overlap, share files and pages, and all of them change at any time. That is why they speak of
the snapshots a lookup *read*, and not of what a report was written from: `HitIsCurrent` and
`HitIsYoungOrUnchanged` need the conditions of chapter 4 and stay with TLC. `PastInv`: no
snapshot and no lookup is ahead of the files (the pages, the clock). `JobInv`: what a lookup has checked
was as its snapshot says at a moment not before its start; what it is about to drop it drops
for a reason. The reason lasts, which is what the step that drops the row needs: a file that has
left its snapshot never returns to it, and a report past its time never gets young again.

**GitJobs.** `NotesInv`: what the session has noted is what GitHub was seen to have,
the half of `MergeableIsAnswered` that a gate on notes does not give by itself (a call
that fails may have reached GitHub, a note must not run ahead of it), and a path noted as handled
was triaged to the end, unless the session has failed: the note is made before the triage
runs, and only the end of the session keeps that from being wrong. `ResultInv`: a
result is the end. `PushInv`: while the session runs, `triageGreen` implies that nothing
was edited since, and no other job moves the branch. `GateInv`: the gate of a job is that of its request
on some branch, from which `SuggestionSettles` follows by cases over who named the
ticket. `FilesInv`: what the last job wrote is in the file.

**AgentJobs, the client.** `ClientServes` has three parts and none is inductive. `RequestInv`
says what each attempt sends, so that the attempt after `cooled` is known to have no
temperature; `ServedInv` that no attempt at a willing provider is the last one that fails;
`DislikedInv` that a provider which objects in words unknown to the client never gets
past the tool call of the preflight; `JobsInv` that what gets past it is willing.

**AgentJobs, the planner.** `CtxInv`: the context notes only files the job has read,
through compaction, cap and fix round. `CallInv`: the last call noted is the last one that ran,
which is all that `NoCallRunsTwice` needs and what a reset of the context between the rounds
would break. `CompletedInv`: a loop is completed only by a plan that the gate behind it
lets pass too, as long as no file changes. `AnswerInv` says what an answer is: gated on a disk
there was, with every file it changes read. `ExecutionsChangeWhatWasRead` carries that across
the changes others make meanwhile, to the execution: the steps fold over a disk on which they may fail, and
what they change when they do not, they change at their targets - or where nothing was, if
a step creates. Up to the answer the proof opens none of the rules of `ValidBlueprint`: it
holds for any rules that look only at the plan and the disk.

`ExecInv` is for `GatesOfAPlanAgree` and the types: what became of an answer follows from the
answer and the disk it met, so an execution that ends as `unapplied` met a disk on which
`ApplyFileSteps` fails. `StepsApply` then shows that it does not: a plan that is valid on
a disk has all its files and anchors there, and if it is plain, each step meets its file
as the plan found it (no two steps have a file in common), so `StepApplies` goes through for
one step after another. The steps fold over the plan in `ApplyFileSteps`; the lemma
`Recursion` says that such a recursive function is what its equations say it is.

**AgentJobs, the transformer.** `TriagedInv`: between two calls every file is as its
last triage left it, and during one only touched files are not. It holds for any
codemod, so it leaves `Migrated` closed. `CompactionMakesRoom` is arithmetic alone.

`KeepInv` is for `MigrationsKeepFields`: while a migration edits, each file that was plain when its
edits began is plain and has the same `KeptFields`. Plainness is the part that has to be
added: an edit is made with line numbers that the edits before it have made stale, so the
proof must not ask where a range lies. It does not: `MigratedKeeps` says that the codemod of any
plain snippet keeps its fields and leaves it plain (line by line in `MigrateLineKeeps`: a tag
line goes, a source field is added above, below or amid, the rest is renamed in its place),
`SpliceKeeps` that putting it back keeps those of the file, `TypeMigratedKeeps` the same
of the log types. That the fields come in the same order is `JoinedConcat`: what is kept of
two parts is what is kept of the first, then what is kept of the second.
`RefactorInv` types the job with its edits: from a line of a file there is to one not before it.

`ReachInv` is for `MigrationsReachAll`. While a migration edits what a scan found, each regular file
aimed at is within reach of the edits left (`Reaching`): it is as long as it was, those edits
are of outermost ranges, apart from one another, whose lines are as they were, and a line
that still has a legacy field lies in one of them. With no edit left there is no such line.
It begins so (`ScanReaches`): the scan finds no range twice and each file once, so any two edits
of a file are of different outermost ranges, which a regular file has apart (`RegularEdits`), and each
range found lies within an outermost one (`OutermostCovers`), so dropping the inner ones
loses no line. It stays so (`EditReaches`): an edit of another file changes nothing here, and one
of this file meets lines that no edit has touched, puts as many in their place
(`SpliceLines`), and all of them are clean (`MigratedCleans`, from `MigrateLineCleans` line by
line); an edit that is skipped had nothing to do. The log types, renamed at the end, gain no
legacy field (`TypeMigratedClean`). That the order of a repository
names a file once is a part of `TransformerAssumption`: the scan keeps its targets in a map by
file (`discovery.rs:14`). A file that came twice would be edited twice, the second time with
ranges that are no longer where the scan saw them.

**AgentJobs, the transpiler.** `SyncInv`: while a sync goes on, its flag implies that the target is as
a triage passed it. It says nothing of a job that failed, where the flag may be that of
an earlier triage: a triage that ends in an error edits and leaves the flag, and only
the end of the job makes that harmless.

**Services.** `OneServiceMoves` says that a step is a step of one of the five parts and stutters
in the others, so each has an invariant of its own and `ServicesInv` is their conjunction.

`ConfigInv` has two shapes of a configuration. `Good`: a binding for every agent, each in today's
form and to a profile the configuration has; that is what a page holds, whatever is edited in
it, providers that serde does not know included. `Based`: `Good`, the built-in profile is among the
profiles, and each provider is one that serde reads as it is written (`Known`); that is what
`Merged` makes of a good one that parses, so the server's memory and every file it wrote are `Based`.
`ReadGood` takes a page to it: what parses is read with its providers by serde's names (`ReadKeeps`).
A based value goes through migration, deserialization and merge unchanged (`LoadedFile`), which is
`SavedIsLoaded`, itself a part of the invariant. For a legacy file whose providers are known,
`FirstUses` and `ProfilesDiffer` show that `ProfileOf` numbers the accounts without a gap and gives
no two the same profile, from which `LegacyKept` follows phase by phase, with the default
window. `EveryPhaseResolves` alone is not inductive: a page may be older than the memory it is
saved over.

`MetricsInv` says that jobs have at most one row of the bridge, none while they run and one
once they have reported with no row lost. The two sums follow from the tables alone:
`SumOfGroups` (the sum over the parts of a partition is the sum of the whole) gives
`SummaryAddsUp`, and `RunningSum` (the recursive total of the hours up to one is the sum of the
rows up to it) gives `TimelineEndsAtDaily`.

`EvalInv` ties a row to the text its job wrote: what is stored is that text stripped, and
what a host or a coordinator hands in is that text, or that text with one appendix behind it.
`BeforeHasNone` and `BeforeAppend` say of the strip that it leaves none of what it looks
for, and that an appendix behind the text changes nothing. `PageShows` is arithmetic: place
`n` of page `p` is place `(p - 1) * PageSize + n` of the order, so an evaluation is on one page
once (`NewestOrders`: `Newest` is a bijection). `ExemplarStep`: rows are only added, and the
best of more rows is not worse.

`LoopInv` with `AnswersInOrder` is inductive as it is: a message read goes behind the wanted
ones before it (`WantedGrows`). `LogInv` counts: the entry at place `k` has `k - 1`
recorded events above it, which for a ring of the right length is the half of `LogKeepsNewest` about
places; the other half is `WholeOrCut` of what `TruncateMessage` gives.

*Induction.* The library's induction theorems take an operator as their parameter, which the
provers cannot instantiate. These proofs take a set and its smallest counterexample instead:
`LeastNat` for numbers, `UpToInduction` for those up to a bound, `SeqInduction` for sequences
(a set that has the empty one and is closed under `Append` has them all), `SubsetInduction`
and `SizeInduction` for finite sets. With them `FoldExists` and `SumIs` say what the folds of the
community modules compute, which choose their elements in any order, and `FlattenIs` what
`FlattenSeq` does, on which all of `Codemod` rests. `SelectSeq`, `SortSeq`, `Permutations`
and the functions of `TLC` stay opaque: `Services` and `Codemod` were written without the ones
their theorems speak of.

## 12. What is only model-checked

* The liveness properties `JobsEnd` (of `JobRunner` and of `GitJobs`), `JobEnds` and
  `JobsReturn`: liveness under fairness and `ENABLED` are out of the prover's reach.
* `HitIsCurrent`, `UsefulInsightsStay`, `HitIsYoungOrUnchanged` and `YoungReportsStay`, which hold
  of jobs one after the other on files and pages of their own.
* The runs and instances of chapter 10.

There are no RECURSIVE operators: folds and recursive functions throughout.

## 13. What is not modelled

* Text: prompts, reports, log wording, the copy of a commit, except the markers that
  code looks for. With it what is pure text: the log analyzer and crash logs,
  the rubrics of the evaluator, the schemas and the tool list.
* Bytes: an anchor that starts or ends inside a line, a cut in the middle of a
  character (but for the runtime log, where it is modelled).
* Pure input and output: HTTP to the provider (a call returns or fails), subprocesses
  (what a compiler says is nondeterministic), redirects and HTML conversion of
  fetched pages, JSON (de)serialization of messages.
* Embeddings: a constant similarity between phrases.
* Grammars: the syntax tree of a file is its braces; what six grammars parse is not
  modelled, what is done with the ranges they give is.
* The own call of the pruner and of the scouts under other agents: what they answer is text.

`PROJECT.json` has the status and the reason for each part, and with each hazard
that no property covers the reason why: a cut of bytes (`builder.rs:207`), a cancel in
the last turn, a scope that is only a filter, a verification that asks for a spelling some
languages do not have, a reply that reached GitHub and whose call failed, of which nothing
in the code knows, two open jobs on one file, a snapshot taken when a report is stored, a comment
made after the last read, checks that cannot be read. Most of them do go wrong, as the instances
of chapter 10 show; no property denies what the code does. In part only are covered: requests
of other threads between two of one client (`ClientServes` is about one at a time), calls that
the migration itself makes longer or shorter (`Regular` excludes them).

## 14. The plan

Done, in this order: jobs and their journal, build jobs, the caches (chapters 2 to 4); git jobs,
agent jobs, services (5 to 7); the theorems of chapter 11.

What would come next:

1. The reply that is posted twice: a session and its retry with GitHub's state between
   them, which needs the coordinator as an actor.
2. `GitJobs` with `Overlap`, once the code keeps a session on its branch.

Runs are kept to one per question; an instance that only shows what an assumption is
for is a `.cfg` without a run.
