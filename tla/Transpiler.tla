------------------------------ MODULE Transpiler ------------------------------
(***************************************************************************)
(* transpile_types: the agent that rewrites one file of types until a      *)
(* child triage passes (src/src/agent/transpiler/mod.rs and                *)
(* mcp/handlers/transpile_types.rs).  What a triage does inside is module  *)
(* TriageAgent: here it may edit each file it is given, and has a verdict. *)
(***************************************************************************)
EXTENDS Naturals

CONSTANTS
  SyncFiles,    \* of the workspace
  SyncTarget,   \* target_path
  PreserveLists, Workspaces,  \* what a coordinator may give, as sets of files
  SyncTurns     \* TRANSPILER_MAX_ITERATIONS

ASSUME TranspilerAssumption ==
  /\ SyncTarget \in SyncFiles
  /\ PreserveLists \cup Workspaces \subseteq SUBSET SyncFiles
  /\ SyncTurns \in Nat \ {0}

VARIABLES
  preserved,  \* preserve_paths
  workspace,  \* the files under verify_workspace
  sync,       \* the job: triage_green is its green
  verifies,   \* what verify_command would say of the tree as it is
  changed, untriaged  \* bookkeeping: files the job wrote, and those it wrote
                      \* since a triage of them last passed

transpiler == <<preserved, workspace, sync, verifies, changed, untriaged>>

TranspilerInit ==
  /\ preserved \in PreserveLists /\ workspace \in Workspaces
  /\ sync = [at |-> "turn", turn |-> 0, green |-> FALSE]
  /\ verifies \in BOOLEAN /\ changed = {} /\ untriaged = {}

-----------------------------------------------------------------------------
(* A turn makes one call, and what a call refuses ends the job.            *)
SyncTurn(at, green) ==
  /\ sync.at = "turn" /\ sync.turn < SyncTurns
  /\ sync' = [at |-> at, turn |-> sync.turn + 1, green |-> green]
  /\ UNCHANGED <<preserved, workspace>>
TreeStays == UNCHANGED <<verifies, changed, untriaged>>
Writes(files) ==
  /\ changed' = changed \cup files
  /\ files = {} => UNCHANGED verifies
  /\ verifies' \in BOOLEAN

(* No call, or that of the turn before.                                    *)
SyncNudged == SyncTurn("turn", sync.green) /\ TreeStays

MayWrite(p) == p = SyncTarget /\ p \notin preserved /\ p \in workspace

\* Mutant: a write keeps the verdict of the triage before it.
GreenAfterWrite == sync.green

GreenOnceWritten == FALSE

WriteTargetFile(p) ==
  \/ /\ MayWrite(p) /\ SyncTurn("turn", GreenOnceWritten)
     /\ Writes({p}) /\ untriaged' = untriaged \cup {p}
  \/ SyncTurn("failed", sync.green) /\ TreeStays  \* refused, or not written

(* The target is always among the files of the triage, which may edit any  *)
(* of them.  verify_command goes into its prompt: it has no say in the     *)
(* verdict.  A triage that ends in an error ends the job.                  *)
InvokeSyncTriage(paths) ==
  \E edited \in SUBSET (paths \cup {SyncTarget}), passed \in BOOLEAN :
    /\ Writes(edited)
    /\ untriaged' = IF passed THEN untriaged \ (paths \cup {SyncTarget})
                    ELSE untriaged \cup edited
    /\ \/ SyncTurn("turn", passed)
       \/ ~passed /\ SyncTurn("failed", sync.green)

FinalizeSync ==
  /\ SyncTurn(IF sync.green THEN "answered" ELSE "failed", sync.green)
  /\ TreeStays

(* A report is an answer too: the job keeps what it wrote.                 *)
ReportSyncError == SyncTurn("reported", sync.green) /\ TreeStays

SyncOutOfTurns ==
  /\ sync.at = "turn" /\ sync.turn = SyncTurns
  /\ sync' = [sync EXCEPT !.at = "reported"]
  /\ UNCHANGED <<preserved, workspace>> /\ TreeStays

(* A cancel, the wall clock, a provider, arguments that do not parse.      *)
SyncFails == SyncTurn("failed", sync.green) /\ TreeStays

TranspilerNext ==
  \/ SyncNudged \/ FinalizeSync \/ ReportSyncError \/ SyncOutOfTurns \/ SyncFails
  \/ \E p \in SyncFiles : WriteTargetFile(p)
  \/ \E paths \in SUBSET SyncFiles \ {{}} : InvokeSyncTriage(paths)

-----------------------------------------------------------------------------
(* Type correctness of the job.                                            *)
TranspilerTypeOK ==
  /\ sync \in [at : {"turn", "answered", "reported", "failed"},
               turn : 0 .. SyncTurns, green : BOOLEAN]
  /\ preserved \subseteq SyncFiles /\ workspace \subseteq SyncFiles
  /\ changed \subseteq SyncFiles /\ untriaged \subseteq changed /\ verifies \in BOOLEAN

(* A sync that is finalized has its target as a triage passed it: neither  *)
(* a write nor a failed repair came after, whichever files the triages in  *)
(* between were about (write_target_file, run_child_triage, finalize_sync).*)
SyncIsTriaged == sync.at = "answered" => SyncTarget \notin untriaged

(* "Agent cannot write any path except `target_path` (allowlist enforced   *)
(* in harness)" (adjutant-transpiler/SKILL.md:40).                         *)
OnlyTargetWritten == sync.at = "answered" => changed \subseteq {SyncTarget} \ preserved

(* "Ends the transpiler session after verification passes (terminal)"      *)
(* (finalize_sync, transpiler/tools.rs:74).                                *)
FinalizedVerifies == sync.at = "answered" => verifies
===============================================================================
