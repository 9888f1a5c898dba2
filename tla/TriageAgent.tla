----------------------------- MODULE TriageAgent -----------------------------
(***************************************************************************)
(* The compile-and-repair agent (src/src/agent/triage.rs) under the agent  *)
(* loop (orchestrator.rs): build the module; while the build fails let the *)
(* model replace one line, escalate or think; stop at the turn limit.  In  *)
(* the RED mode of the test builder the aim is the opposite: the code must *)
(* compile and the test must fail an assertion.                            *)
(***************************************************************************)
EXTENDS Naturals, FiniteSets

CONSTANTS
  Tests, Sources,  \* the files of the module: test suites, production code
  Infra,           \* shared test infrastructure, which no edit may touch
  Stacks,          \* the kinds of module a job may meet
  TriageTurns      \* TRIAGE_MAX_ITERATIONS, BUILDER_TRIAGE_MAX_ITERATIONS

Files == Tests \cup Sources

\* What a file is worth: a test suite is missing, does not compile, fails or
\* passes; production code is wrecked (does not compile) or does.
Contents == {"none", "broken", "red", "pass", "wrecked"}

\* A stack is what its commands can see: whether there is a build command at
\* all, which test contents make it fail (`cargo check` none, a type check or
\* compileall those that do not compile, a user's override any), which suites
\* the test command runs ("own": the file's, where `cargo test --test` can name
\* it; "all": every one; "build": it is the build command again), and what the
\* check after the builder runs: "crate" for Rust, "own" for TypeScript, "none"
\* for every other language.
StackKinds ==
  [target : BOOLEAN, build : SUBSET {"broken", "red"},
   test : {"own", "all", "build"}, verify : {"own", "crate", "none"}]

ASSUME TriageAssumption ==
  /\ Tests \cap Sources = {}
  /\ Infra \subseteq Files
  /\ Stacks \subseteq StackKinds
  /\ TriageTurns \in Nat \ {0}

VARIABLES
  stack,    \* the module's stack
  content,  \* content[f]: what f is worth now
  tri       \* the triage under way, or idle

\* The unit tests of Rust are a block of the source file itself; its files
\* under tests/ are the suites of their own.
Inline == stack.verify = "crate"

ContentsOf(f) ==
  IF f \in Tests THEN Contents \ {"wrecked"}
  ELSE IF Inline THEN Contents \ {"none"} ELSE {"wrecked", "pass"}

Modes == {"idle", "red", "green", "refactor", "verify"}

Triages ==
  [mode : Modes, targets : SUBSET Files, editable : SUBSET Files,
   turn : 0 .. TriageTurns, ends : {"running", "passed", "red", "stuck"}]

Idle == [mode |-> "idle", targets |-> {}, editable |-> {}, turn |-> 0, ends |-> "running"]

\* `retarget` narrows the edits, a stand-alone triage leaves them open ({}).
Started(mode, targets, editable) ==
  [mode |-> mode, targets |-> targets, editable |-> editable, turn |-> 0, ends |-> "running"]

Retarget(mode, f) == Started(mode, {f}, {f})

BuildPasses(c) ==
  \A f \in Files : c[f] \notin stack.build \cup {"wrecked"}

\* Mutant: the test command is never scoped.
RedScopeAll == Files

\* The files whose tests the test command of the RED check runs: `cargo test`
\* is scoped to a suite under tests/ only, and to one.
Scoped == stack.test = "own" /\ tri.targets \subseteq Tests
RedScope == IF Scoped THEN tri.targets ELSE Files

\* is_assertion_test_failure is a search in the text of a failed test command:
\* words of an assertion, none of a list of set-up errors and, unless the
\* command was scoped, the file's name anywhere.  A compile error that quotes
\* an assertion passes for one, an assertion next to a set-up error does not:
\* of a failed command the search may say either, of one that succeeds no.
RedOutcomes(c) ==
  IF \/ ~BuildPasses(c)
     \/ \A f \in RedScope : c[f] \notin {"broken", "red"}
     \/ stack.test = "build"
  THEN {FALSE}
  ELSE BOOLEAN

\* How a round of commands over contents c may end the triage.
Verdicts(c) ==
  IF tri.mode = "red"
  THEN {IF r THEN "red" ELSE "running" : r \in RedOutcomes(c)}
  ELSE {IF BuildPasses(c) THEN "passed" ELSE "running"}

MayEdit(f) == f \notin Infra /\ (tri.editable = {} \/ f \in tri.editable)

Triaging == tri.mode # "idle" /\ tri.ends = "running" /\ tri.turn < TriageTurns
TriageOver == tri.mode # "idle" /\ (tri.ends # "running" \/ tri.turn = TriageTurns)
\* apply_iteration_cap finishes the loop too, and says so in the log.
TriageCapped == TriageOver /\ tri.ends = "running"

NextTurn(verdict) == tri' = [tri EXCEPT !.turn = @ + 1, !.ends = verdict]

TriageInit ==
  /\ stack \in Stacks
  /\ content \in {c \in [Files -> {"none", "pass"}] : \A f \in Sources : c[f] = "pass"}
  /\ tri = Idle

\* No manifest and no discovered command: finished, but not passed.
TriageFindsNoTarget ==
  /\ Triaging /\ ~stack.target
  /\ NextTurn("stuck")
  /\ UNCHANGED content

\* The commands already say what the phase wants.
TriageSucceeds ==
  /\ Triaging /\ stack.target
  /\ \E v \in Verdicts(content) \ {"running"} : NextTurn(v)
  /\ UNCHANGED content

\* The model replaces a line and the commands run again.  RED refuses a new
\* line that begins an assertion; nothing looks at the line it replaces.
TriageEdits(f) ==
  /\ Triaging /\ stack.target /\ "running" \in Verdicts(content)
  /\ MayEdit(f) /\ content[f] # "none"
  /\ \E c \in ContentsOf(f) \ {"none"} :
       /\ content' = [content EXCEPT ![f] = c]
       /\ \E v \in Verdicts(content') : NextTurn(v)

\* No tool call, or an edit outside the scope: the turn is spent.
TriageIdles ==
  /\ Triaging /\ stack.target /\ "running" \in Verdicts(content)
  /\ NextTurn("running")
  /\ UNCHANGED content

\* report_architectural_error.
TriageEscalates ==
  /\ Triaging /\ stack.target /\ "running" \in Verdicts(content)
  /\ NextTurn("stuck")
  /\ UNCHANGED content

TriageStep ==
  /\ \/ TriageFindsNoTarget
     \/ TriageSucceeds
     \/ \E f \in Files : TriageEdits(f)
     \/ TriageIdles
     \/ TriageEscalates
  /\ UNCHANGED stack

TriageTypeOK ==
  /\ stack \in Stacks
  /\ content \in [Files -> Contents]
  /\ \A f \in Files : content[f] \in ContentsOf(f)
  /\ tri \in Triages
==============================================================================
