-------------------------- MODULE BuilderJob_proofs --------------------------
(***************************************************************************)
(* What holds of the build jobs for every module, every number of files    *)
(* and every limit: the types, the scope of nested repairs, what RED and   *)
(* GREEN are said of, and what a success leaves behind.                    *)
(***************************************************************************)
EXTENDS BuilderJob, TLAPS

\* The agent works only where the job waits for it; a nested triage belongs
\* to a pending write and to the suite just written.
NestedInv ==
  /\ stage \notin {"verify", "build"} => tri.mode = "idle"
  /\ stage = "build" /\ tri.mode # "idle" =>
       /\ builder.calls > 0
       /\ tri.targets # {} /\ tri.editable = tri.targets

\* The blank turns a live builder has left.
BlankInv == ~builder.finished => builder.blanks < BlankLimit

\* Before the first builder there is no green path; behind the last check
\* nothing moves.
GreenInv ==
  /\ stage \in {"open", "apply", "verify"} => builder.path = NoPath
  /\ stage \in {"next", "ok"} /\ builder.path # NoPath => TestPasses(builder.path)

IInv == TypeOK /\ NestedInv /\ BlankInv /\ GreenInv

-----------------------------------------------------------------------------
LEMMA StartedType ==
  ASSUME NEW mode \in Modes, NEW targets \in SUBSET Files, NEW editable \in SUBSET Files
  PROVE  Started(mode, targets, editable) \in Triages
  BY TriageAssumption, SMT DEF Started, Triages

LEMMA IdleType == Idle \in Triages
  BY TriageAssumption, SMT DEF Idle, Triages, Modes

LEMMA NewBuilderType == \A source \in Sources : NewBuilder(source) \in Builders
  BY BuilderAssumption, SMT DEF NewBuilder, Builders

\* A quotation changes nothing but what the log says.
LEMMA QuotingKeeps ==
  ASSUME NEW b \in Builders, NEW q \in Quoting(b)
  PROVE  /\ q \in Builders
         /\ q.turn = b.turn /\ q.blanks = b.blanks /\ q.calls = b.calls
         /\ q.finished = b.finished
<1>1. PICK m \in {FALSE, Echoes}, c \in {FALSE, Echoes},
           path \in Files \cup {NoPath, Elsewhere} :
        q = [b EXCEPT !.marker = @ \/ m, !.capped = @ \/ c, !.path = path]
  <2>1. PICK r \in Quotable : q = Quote(b, r)
    BY DEF Quoting
  <2>2. r.marker \in {FALSE, Echoes} /\ r.capped \in {FALSE, Echoes}
    BY DEF Quotable
  <2>3. (IF r.path = NoPath THEN b.path ELSE r.path) \in Files \cup {NoPath, Elsewhere}
    BY DEF Quotable, Builders
  <2> QED
    BY <2>1, <2>2, <2>3 DEF Quote
<1>2. q = [source |-> b.source, turn |-> b.turn, blanks |-> b.blanks, calls |-> b.calls,
           finished |-> b.finished, marker |-> b.marker \/ m,
           capped |-> b.capped \/ c, path |-> path]
  BY <1>1 DEF Builders
<1> QED
  BY <1>2 DEF Builders

LEMMA NextTurnType ==
  ASSUME tri \in Triages, Triaging,
         NEW v \in {"running", "passed", "red", "stuck"}, NextTurn(v)
  PROVE  /\ tri' \in Triages
         /\ tri'.mode = tri.mode
         /\ tri'.targets = tri.targets /\ tri'.editable = tri.editable
<1>1. /\ tri.turn + 1 \in 0 .. TriageTurns
      /\ tri.mode \in Modes
      /\ tri.targets \in SUBSET Files /\ tri.editable \in SUBSET Files
  BY TriageAssumption DEF Triages, Triaging
<1>2. tri' = [mode |-> tri.mode, targets |-> tri.targets, editable |-> tri.editable,
              turn |-> tri.turn + 1, ends |-> v]
  BY DEF NextTurn, Triages
<1> QED
  BY <1>1, <1>2 DEF Triages

LEMMA VerdictType ==
  ASSUME NEW c PROVE Verdicts(c) \subseteq {"running", "passed", "red"}
  BY SMT DEF Verdicts

LEMMA InitIInv == Init => IInv
<1> SUFFICES ASSUME Init PROVE IInv
  OBVIOUS
<1>1. tri \in Triages /\ builder \in Builders
  BY IdleType, NewBuilderType DEF Init, TriageInit
<1>2. TriageTypeOK
  BY <1>1, TriageAssumption DEF Init, TriageInit, TriageTypeOK, Contents, ContentsOf, Inline, Files
<1>3. left \in 0 .. (MaxSuites + 1)
  BY BuilderAssumption DEF Init
<1>4. TypeOK
  BY <1>1, <1>2, <1>3 DEF Init, TypeOK
<1>5. NestedInv /\ BlankInv /\ GreenInv
  BY BuilderAssumption DEF Init, TriageInit, Idle, NewBuilder, NestedInv, BlankInv, GreenInv
<1> QED
  BY <1>4, <1>5 DEF IInv

\* A turn of the triage agent keeps the types and the scope it works under.
LEMMA TriageStepKeeps ==
  ASSUME TriageTypeOK, TriageStep
  PROVE  /\ TriageTypeOK'
         /\ tri.mode # "idle"
         /\ tri'.mode = tri.mode
         /\ tri'.targets = tri.targets /\ tri'.editable = tri.editable
         /\ tri.editable # {} =>
              \A f \in Files \ tri.editable : content'[f] = content[f]
<1> USE DEF TriageTypeOK, ContentsOf, Inline
<1>1. CASE TriageFindsNoTarget \/ TriageIdles \/ TriageEscalates
  BY <1>1, NextTurnType
  DEF TriageStep, TriageFindsNoTarget, TriageIdles, TriageEscalates, Triaging, ContentsOf, Inline
<1>2. CASE TriageSucceeds
  BY <1>2, NextTurnType, VerdictType DEF TriageStep, TriageSucceeds, Triaging
<1>3. ASSUME NEW f \in Files, TriageEdits(f)
      PROVE  /\ TriageTypeOK'
             /\ tri.mode # "idle"
             /\ tri'.mode = tri.mode
             /\ tri'.targets = tri.targets /\ tri'.editable = tri.editable
             /\ tri.editable # {} =>
                  \A g \in Files \ tri.editable : content'[g] = content[g]
  <2>1. PICK c \in ContentsOf(f) \ {"none"} :
          /\ content' = [content EXCEPT ![f] = c]
          /\ \E v \in Verdicts(content') : NextTurn(v)
    BY <1>3 DEF TriageEdits
  <2>2. /\ tri' \in Triages
        /\ tri'.mode = tri.mode
        /\ tri'.targets = tri.targets /\ tri'.editable = tri.editable
    BY <1>3, <2>1, NextTurnType, VerdictType DEF TriageEdits
  <2>3. /\ content' \in [Files -> Contents]
        /\ \A g \in Files : content'[g] \in ContentsOf(g)
    BY <2>1 DEF Contents, ContentsOf
  <2>5. tri.editable # {} => \A g \in Files \ tri.editable : content'[g] = content[g]
    BY <1>3, <2>1 DEF TriageEdits, MayEdit
  <2> QED
    BY <1>3, <2>2, <2>3, <2>5 DEF TriageEdits, Triaging, TriageStep
<1> QED
  BY <1>1, <1>2, <1>3 DEF TriageStep

LEMMA StepIInv == IInv /\ [Next]_vars => IInv'
<1> SUFFICES ASSUME IInv, [Next]_vars PROVE IInv'
  OBVIOUS
<1> USE DEF IInv, TypeOK
<1>1. CASE OpenTriage
  <2>1. tri' \in Triages /\ tri'.mode = "verify"
    BY <1>1, StartedType DEF OpenTriage, Started, Modes
  <2>2. TypeOK'
    BY <1>1, <2>1 DEF OpenTriage, jobVars, TriageTypeOK, ContentsOf, Inline
  <2> QED
    BY <1>1, <2>2 DEF OpenTriage, jobVars, NestedInv, BlankInv, GreenInv
<1>2. CASE ApplyFileSteps
  <2>1. PICK touched \in SUBSET Sources :
          /\ content' \in {c \in [Files -> Contents] :
                             \A f \in Files : IF f \in touched THEN c[f] \in ContentsOf(f)
                                                               ELSE c[f] = content[f]}
          /\ \/ stage' = "next" /\ tri' = tri
             \/ stage' = "verify" /\ tri' = Started("verify", touched, {})
    BY <1>2 DEF ApplyFileSteps
  <2>2. /\ content' \in [Files -> Contents]
        /\ \A f \in Files : content'[f] \in ContentsOf(f)
    BY <2>1 DEF TriageTypeOK, ContentsOf, Inline
  <2>3. tri' \in Triages /\ stage' \in {"next", "verify"}
    BY <2>1, StartedType DEF Modes, Files, TriageTypeOK, ContentsOf, Inline
  <2>4. TypeOK'
    BY <1>2, <2>2, <2>3 DEF ApplyFileSteps, jobVars, TriageTypeOK, ContentsOf, Inline
  <2> QED
    BY <1>2, <2>3, <2>4 DEF ApplyFileSteps, jobVars, NestedInv, BlankInv, GreenInv
<1>3. CASE TriageReported
  <2>1. stage' \in {"ok", "next", "failed"} /\ tri' = Idle
    BY <1>3 DEF TriageReported
  <2>2. TypeOK'
    BY <1>3, <2>1, IdleType DEF TriageReported, jobVars, TriageTypeOK, ContentsOf, Inline, Ends
  <2> QED
    BY <1>3, <2>1, <2>2 DEF TriageReported, Idle, jobVars, NestedInv, BlankInv, GreenInv
<1>4. CASE StartBuilder
  <2>0. left' \in 0 .. (MaxSuites + 1)
    BY <1>4, BuilderAssumption DEF StartBuilder
  <2>1. TypeOK'
    BY <1>4, <2>0, NewBuilderType DEF StartBuilder, TriageTypeOK, ContentsOf, Inline
  <2>2. BlankInv' /\ GreenInv'
    BY <1>4, BuilderAssumption DEF StartBuilder, NewBuilder, BlankInv, GreenInv
  <2>3. NestedInv'
    BY <1>4 DEF StartBuilder, NestedInv
  <2> QED
    BY <2>1, <2>2, <2>3
<1>5. CASE PipelineDone
  BY <1>5 DEF PipelineDone, jobVars, TriageTypeOK, ContentsOf, Inline, Ends, NestedInv, BlankInv, GreenInv, TestPasses
<1>6. CASE Abort
  BY <1>6, IdleType DEF Abort, jobVars, TriageTypeOK, ContentsOf, Inline, Ends, NestedInv, BlankInv, GreenInv, Idle
<1>7. CASE BlankTurn
  <2>0. PICK b : b = [builder EXCEPT !.turn = @ + 1, !.blanks = @ + 1,
                                     !.finished = builder.blanks + 1 >= BlankLimit]
    OBVIOUS
  <2>1. builder.turn + 1 \in 0 .. BuilderTurns /\ builder.blanks + 1 \in 0 .. BlankLimit
    BY <1>7, BuilderAssumption DEF BlankTurn, LoopHead, Building, Builders, BlankInv
  <2>2. b = [source |-> builder.source, turn |-> builder.turn + 1, blanks |-> builder.blanks + 1,
             calls |-> builder.calls, finished |-> builder.blanks + 1 >= BlankLimit,
             marker |-> builder.marker, capped |-> builder.capped, path |-> builder.path]
    BY <2>0 DEF Builders
  <2>3. b \in Builders
    BY <2>1, <2>2, BuilderAssumption DEF Builders
  <2>4. b.blanks = builder.blanks + 1 /\ b.calls = builder.calls
        /\ (b.finished <=> builder.blanks + 1 >= BlankLimit)
    BY <2>2
  <2>5. builder' \in Quoting(b)
    BY <1>7, <2>0 DEF BlankTurn
  <2>6. builder' \in Builders /\ builder'.blanks = b.blanks /\ builder'.calls = b.calls
        /\ builder'.finished = b.finished
    BY <2>3, <2>5, QuotingKeeps
  <2>7. TypeOK'
    BY <1>7, <2>6 DEF BlankTurn, jobVars, TriageTypeOK, ContentsOf, Inline
  <2>8. BlankInv'
    BY <2>1, <2>4, <2>6, BuilderAssumption DEF BlankInv
  <2>9. NestedInv' /\ GreenInv'
    BY <1>7 DEF BlankTurn, LoopHead, Building, jobVars, NestedInv, GreenInv
  <2> QED
    BY <2>7, <2>8, <2>9
<1>8. CASE ToolTurn
  <2>1. PICK n \in 1 .. MaxCalls :
          builder' \in Quoting([builder EXCEPT !.turn = @ + 1, !.blanks = 0, !.calls = n])
    BY <1>8 DEF ToolTurn
  <2>b. PICK b : b = [builder EXCEPT !.turn = @ + 1, !.blanks = 0, !.calls = n]
    OBVIOUS
  <2>2. builder.turn + 1 \in 0 .. BuilderTurns /\ n \in 0 .. MaxCalls /\ 0 \in 0 .. BlankLimit
    BY <1>8, BuilderAssumption DEF ToolTurn, LoopHead, Building, Builders
  <2>3. b = [source |-> builder.source, turn |-> builder.turn + 1, blanks |-> 0, calls |-> n,
             finished |-> builder.finished, marker |-> builder.marker,
             capped |-> builder.capped, path |-> builder.path]
    BY <2>b DEF Builders
  <2>4. b \in Builders /\ b.blanks = 0
    BY <2>2, <2>3, BuilderAssumption DEF Builders
  <2>5. builder' \in Builders /\ builder'.blanks = 0
    BY <2>1, <2>b, <2>4, QuotingKeeps
  <2>6. TypeOK'
    BY <1>8, <2>5 DEF ToolTurn, jobVars, TriageTypeOK, ContentsOf, Inline
  <2>7. BlankInv'
    BY <2>5, BuilderAssumption DEF BlankInv
  <2>8. NestedInv' /\ GreenInv'
    BY <1>8 DEF ToolTurn, LoopHead, Building, jobVars, NestedInv, GreenInv
  <2> QED
    BY <2>6, <2>7, <2>8
<1>9. CASE CallRejected
  <2>1. builder' = [source |-> builder.source, turn |-> builder.turn, blanks |-> builder.blanks, calls |-> 0,
                    finished |-> builder.finished, marker |-> builder.marker,
                    capped |-> builder.capped, path |-> builder.path]
    BY <1>9 DEF CallRejected, Builders
  <2>2. builder' \in Builders
    BY <2>1, BuilderAssumption DEF Builders
  <2>3. TypeOK'
    BY <1>9, <2>2 DEF CallRejected, jobVars, TriageTypeOK, ContentsOf, Inline
  <2> QED
    BY <1>9, <2>1, <2>3 DEF CallRejected, CallPending, Building, jobVars, NestedInv, BlankInv, GreenInv
<1>10. CASE CallScout
  <2>1. PICK hitLimit \in BOOLEAN :
          builder' \in Quoting([builder EXCEPT !.calls = @ - 1, !.capped = @ \/ hitLimit])
    BY <1>10 DEF CallScout
  <2>b. PICK b : b = [builder EXCEPT !.calls = @ - 1, !.capped = @ \/ hitLimit]
    OBVIOUS
  <2>2. builder.calls - 1 \in 0 .. MaxCalls
    BY <1>10, BuilderAssumption DEF CallScout, CallPending, Builders
  <2>3. b = [source |-> builder.source, turn |-> builder.turn, blanks |-> builder.blanks,
             calls |-> builder.calls - 1, finished |-> builder.finished,
             marker |-> builder.marker, capped |-> builder.capped \/ hitLimit,
             path |-> builder.path]
    BY <2>b DEF Builders
  <2>4. b \in Builders /\ b.blanks = builder.blanks /\ b.finished = builder.finished
    BY <2>2, <2>3 DEF Builders
  <2>5. builder' \in Builders /\ builder'.blanks = builder.blanks
        /\ builder'.finished = builder.finished
    BY <2>1, <2>b, <2>4, QuotingKeeps
  <2>6. TypeOK'
    BY <1>10, <2>5 DEF CallScout, jobVars, TriageTypeOK, ContentsOf, Inline
  <2> QED
    BY <1>10, <2>5, <2>6
    DEF CallScout, CallPending, Building, jobVars, NestedInv, BlankInv, GreenInv
<1>11. CASE CallTriaged
  <2> DEFINE green == TriageSuccess /\ tri.mode # "red"
  <2>b. PICK b : b = [builder EXCEPT !.calls = @ - 1, !.capped = @ \/ TriageCapped,
                                     !.finished = @ \/ green, !.marker = @ \/ green]
    OBVIOUS
  <2>1. builder' \in Quoting(b) /\ stage = "build" /\ tri.mode # "idle"
    BY <1>11, <2>b DEF CallTriaged, TriageOver
  <2>2. builder.calls - 1 \in 0 .. MaxCalls
    BY <2>1, BuilderAssumption DEF NestedInv, Builders
  <2>3. green \in BOOLEAN /\ TriageCapped \in BOOLEAN
    BY DEF TriageSuccess, TriageCapped, TriageOver
  <2> HIDE DEF green
  <2>4. b = [source |-> builder.source, turn |-> builder.turn, blanks |-> builder.blanks,
             calls |-> builder.calls - 1, finished |-> builder.finished \/ green,
             marker |-> builder.marker \/ green, capped |-> builder.capped \/ TriageCapped,
             path |-> builder.path]
    BY <2>b DEF Builders
  <2>5. b \in Builders /\ b.blanks = builder.blanks /\ (~b.finished => ~builder.finished)
    BY <2>2, <2>3, <2>4 DEF Builders
  <2>6. builder' \in Builders /\ builder'.blanks = builder.blanks
        /\ (~builder'.finished => ~builder.finished)
    BY <2>1, <2>5, QuotingKeeps
  <2>7. TypeOK'
    BY <1>11, <2>6, IdleType DEF CallTriaged, jobVars, TriageTypeOK, ContentsOf, Inline
  <2>8. NestedInv' /\ BlankInv' /\ GreenInv'
    BY <1>11, <2>6 DEF CallTriaged, jobVars, NestedInv, BlankInv, GreenInv, Idle
  <2> QED
    BY <2>7, <2>8
<1>12. ASSUME NEW f \in Files, NEW phase \in {"red", "green", "refactor"}, CallWrite(f, phase)
       PROVE  IInv'
  <2>1. PICK c \in ContentsOf(f) \ {"none"} : content' = [content EXCEPT ![f] = c]
    BY <1>12 DEF CallWrite
  <2>2. /\ content' \in [Files -> Contents]
        /\ \A g \in Files : content'[g] \in ContentsOf(g)
    BY <1>12, <2>1 DEF CallWrite, TriageTypeOK, Contents, ContentsOf
  <2>4. tri' \in Triages /\ tri'.targets = {f} /\ tri'.editable = {f}
    <3>1. tri' = Started(phase, {f}, {f})
      BY <1>12 DEF CallWrite, Retarget
    <3>2. phase \in Modes
      BY DEF Modes
    <3> QED
      BY <3>1, <3>2, StartedType DEF Started
  <2>5. builder' = [source |-> builder.source, turn |-> builder.turn, blanks |-> builder.blanks, calls |-> builder.calls,
                    finished |-> builder.finished, marker |-> builder.marker,
                    capped |-> builder.capped,
                    path |-> IF phase = "green" THEN f ELSE builder.path]
    BY <1>12 DEF CallWrite, Builders
  <2>6. builder' \in Builders
    BY <2>5 DEF Builders
  <2>7. TypeOK'
    BY <1>12, <2>2, <2>4, <2>6 DEF CallWrite, jobVars, TriageTypeOK, ContentsOf, Inline
  <2>8. stage' = "build" /\ builder'.calls > 0
    BY <1>12, <2>5 DEF CallWrite, CallPending, Building
  <2> QED
    BY <1>12, <2>4, <2>5, <2>7, <2>8
    DEF CallWrite, NestedInv, BlankInv, GreenInv
<1>13. CASE FinishBuilder
  <2>1. stage = "build" /\ tri.mode = "idle" /\ stage' \in {"next", "failed"}
        /\ (stage' = "next" => builder.path # NoPath /\ TestPasses(builder.path))
    BY <1>13 DEF FinishBuilder, BuilderOver, Building, Accepted
  <2>2. TypeOK'
    BY <1>13, <2>1 DEF FinishBuilder, jobVars, TriageTypeOK, ContentsOf, Inline, Ends
  <2> QED
    BY <1>13, <2>1, <2>2
    DEF FinishBuilder, jobVars, NestedInv, BlankInv, GreenInv, TestPasses
<1>14. CASE TriageStep /\ UNCHANGED <<tool, stage, left, builder>>
  <2>1. TypeOK'
    BY <1>14, TriageStepKeeps
  <2>2. stage \in {"verify", "build"}
    BY <1>14, TriageStepKeeps DEF NestedInv
  <2> QED
    BY <1>14, <2>1, <2>2, TriageStepKeeps DEF NestedInv, BlankInv, GreenInv
<1>15. CASE UNCHANGED vars
  BY <1>15 DEF vars, TriageTypeOK, ContentsOf, Inline, NestedInv, BlankInv, GreenInv, TestPasses
<1> QED
  BY <1>1, <1>2, <1>3, <1>4, <1>5, <1>6, <1>7, <1>8, <1>9, <1>10, <1>11, <1>12, <1>13, <1>14, <1>15
  DEF Next, Step

-----------------------------------------------------------------------------
THEOREM Invariance == Spec => []IInv
<1>1. Init => IInv
  BY InitIInv
<1>2. IInv /\ [Next]_vars => IInv'
  BY StepIInv
<1> QED
  BY <1>1, <1>2, PTL DEF Spec

\* The jobs and both agents keep to their types, and so to their turn limits,
\* whatever the limits are (run_loop, BuilderAgent, TriageAgent).
THEOREM TypeCorrect == Spec => []TypeOK
<1>1. IInv => TypeOK
  BY DEF IInv
<1> QED
  BY <1>1, Invariance, PTL

\* What the host ran last is what a successful job leaves, for every kind of
\* module, however many suites and whatever the log quotes (verify_test_passes).
THEOREM SuccessIsGreen == Spec => []SuccessLeavesGreen
<1>1. IInv => SuccessLeavesGreen
  <2>1. IInv => stack.verify \in {"own", "crate", "none"}
    BY TriageAssumption DEF IInv, TypeOK, TriageTypeOK, StackKinds
  <2> QED
    BY <2>1, BuilderAssumption DEF IInv, GreenInv, SuccessLeavesGreen, TestPasses, Files
<1> QED
  BY <1>1, Invariance, PTL

\* No repair under the builder reaches a file but the one of its last write,
\* for a Rust unit suite the source it is a block of (TriageAgent::retarget, assert_edit_allowed).
THEOREM NestedScope == Spec => NestedTriageStaysInScope
<1> DEFINE StaysInScope ==
      stage = "build" /\ tri.mode # "idle" =>
        \A f \in Files \ tri.targets : content'[f] = content[f]
<1>1. IInv /\ [Next]_vars => [StaysInScope]_vars
  <2> SUFFICES ASSUME IInv, Next, stage = "build", tri.mode # "idle",
                      NEW f \in Files \ tri.targets
               PROVE  content'[f] = content[f]
    BY DEF vars
  <2>1. CASE TriageStep
    BY <2>1, TriageStepKeeps DEF IInv, TypeOK, NestedInv
  <2>2. CASE ~TriageStep
    BY <2>2 DEF Next, Step, OpenTriage, ApplyFileSteps, TriageReported, StartBuilder, PipelineDone,
      Abort, BlankTurn, ToolTurn, CallRejected, CallScout, CallTriaged, CallWrite, FinishBuilder,
      LoopHead, CallPending, BuilderOver, Building
  <2> QED
    BY <2>1, <2>2
<1> QED
  BY <1>1, Invariance, PTL DEF Spec, NestedTriageStaysInScope

-----------------------------------------------------------------------------
\* A RED triage has the suite just written as its one target.
RedInv == (tri.mode = "red" => \E f \in Files : tri.targets = {f}) /\ ScopedRedFails

\* What RED is said of: code that builds and, where the run is scoped, a suite
\* of the targets that fails.
RedSeen(c) ==
  /\ BuildPasses(c)
  /\ Scoped => \E t \in tri.targets : c[t] \in {"broken", "red"}

LEMMA RedVerdict ==
  ASSUME NEW c, tri.mode = "red", "red" \in Verdicts(c)
  PROVE  RedSeen(c)
<1>1. TRUE \in RedOutcomes(c)
  BY DEF Verdicts
<1> QED
  BY <1>1 DEF RedOutcomes, RedScope, RedSeen

\* A turn of triage says RED only of what its commands have just run.
LEMMA RedTurn ==
  ASSUME IInv, RedInv, TriageStep, tri'.mode = "red", tri'.ends = "red"
  PROVE  RedSeen(content')
<1>1. tri.mode = "red" /\ tri \in Triages
  BY TriageStepKeeps DEF IInv, TypeOK, TriageTypeOK, ContentsOf, Inline
<1>2. \A v : NextTurn(v) => tri'.ends = v
  BY <1>1 DEF NextTurn, Triages
<1>3. CASE TriageFindsNoTarget \/ TriageIdles \/ TriageEscalates
  BY <1>2, <1>3 DEF TriageFindsNoTarget, TriageIdles, TriageEscalates
<1>4. CASE TriageSucceeds
  BY <1>1, <1>2, <1>4, RedVerdict DEF TriageSucceeds
<1>5. CASE \E f \in Files : TriageEdits(f)
  <2>1. "red" \in Verdicts(content')
    BY <1>2, <1>5 DEF TriageEdits
  <2> QED
    BY <1>1, <2>1, RedVerdict
<1> QED
  BY <1>3, <1>4, <1>5 DEF TriageStep

LEMMA RedStep == IInv /\ RedInv /\ [Next]_vars => RedInv'
<1> SUFFICES ASSUME IInv, RedInv, [Next]_vars PROVE RedInv'
  OBVIOUS
<1>1. CASE TriageStep /\ UNCHANGED <<tool, stage, left, builder>>
  <2>1. tri'.mode = tri.mode /\ tri'.targets = tri.targets /\ stack' = stack
    BY <1>1, TriageStepKeeps DEF IInv, TypeOK, TriageStep
  <2>2. ScopedRedFails'
    <3>1. SUFFICES ASSUME tri'.mode = "red", tri'.ends = "red"
                   PROVE  /\ BuildPasses(content)'
                          /\ Scoped' => \A t \in tri'.targets : content'[t] \in {"broken", "red"}
      BY DEF ScopedRedFails
    <3>2. RedSeen(content')
      BY <1>1, <3>1, RedTurn
    <3>3. BuildPasses(content)' /\ (Scoped' <=> Scoped)
      BY <2>1, <3>2 DEF RedSeen, BuildPasses, Scoped
    <3>4. \E f \in Files : tri.targets = {f}
      BY <2>1, <3>1 DEF RedInv
    <3> QED
      BY <2>1, <3>2, <3>3, <3>4 DEF RedSeen
  <2> QED
    BY <2>1, <2>2 DEF RedInv
<1>2. ASSUME NEW f \in Files, NEW phase \in {"red", "green", "refactor"}, CallWrite(f, phase)
      PROVE  RedInv'
  BY <1>2 DEF CallWrite, Retarget, Started, RedInv, ScopedRedFails
<1>3. CASE OpenTriage \/ ApplyFileSteps \/ TriageReported \/ CallTriaged \/ Abort
  <2>1. tri'.mode # "red"
    BY <1>3 DEF OpenTriage, ApplyFileSteps, TriageReported, CallTriaged, Abort, Idle, Started,
       IInv, NestedInv
  <2> QED
    BY <2>1 DEF RedInv, ScopedRedFails
<1>4. CASE \/ StartBuilder \/ PipelineDone \/ BlankTurn \/ ToolTurn \/ CallRejected \/ CallScout
           \/ FinishBuilder \/ UNCHANGED vars
  <2>1. UNCHANGED <<stack, content, tri>>
    BY <1>4 DEF StartBuilder, PipelineDone, BlankTurn, ToolTurn, CallRejected, CallScout,
       FinishBuilder, vars, jobVars
  <2> QED
    BY <2>1 DEF RedInv, ScopedRedFails, BuildPasses, Scoped
<1> QED
  BY <1>1, <1>2, <1>3, <1>4 DEF Next, Step

\* RED is said only of code that builds and, where the run is scoped, only of
\* a suite that fails, whatever the search in the failure's text answers
\* (try_finish_tdd_red).
THEOREM ScopedRedOfAFailure == Spec => []ScopedRedFails
<1>1. Init => RedInv
  BY DEF Init, TriageInit, Idle, RedInv, ScopedRedFails
<1>2. RedInv => ScopedRedFails
  BY DEF RedInv
<1> QED
  BY <1>1, <1>2, RedStep, InitIInv, StepIInv, PTL DEF Spec
==============================================================================
