------------------------------- MODULE AgentLoop -------------------------------
(***************************************************************************)
(* The loop every agent runs in (src/src/agent/orchestrator.rs, traits.rs) *)
(* and the compaction of its context (agent/pruner.rs), as operators on a  *)
(* context; an agent's module makes its actions of them.  Of the           *)
(* observation log only the JSON in it is kept: what lies between its      *)
(* first brace and its last one.                                           *)
(***************************************************************************)
EXTENDS Naturals

CONSTANTS NoCall, NoJson, MixedJson

ASSUME LoopAssumption == NoJson # MixedJson

\* AgentContext; json: what the log's braces span, tail: what its last span.
Context(prompted, max) ==
  [turns |-> 0, max |-> max, finished |-> FALSE, completed |-> FALSE,
   touched |-> prompted.touched, last |-> NoCall, json |-> prompted.json,
   tail |-> prompted.tail]
EmptyLog == [touched |-> {}, json |-> NoJson, tail |-> NoJson]

Loops(c) == ~c.finished /\ c.turns < c.max

-----------------------------------------------------------------------------
(* One turn: an entry is appended, with what it has in braces.             *)
Append1(c, x) ==
  [c EXCEPT !.json = IF x = NoJson THEN @ ELSE IF @ = NoJson THEN x ELSE MixedJson,
            !.tail = IF x = NoJson THEN @ ELSE x]
\* Mutant: a turn is not counted.
TurnUncounted(c) == c

TakesTurn(c) == [c EXCEPT !.turns = @ + 1]

(* A turn without a tool call leaves the last call as it is.               *)
Thinks(c, x) == Append1(TakesTurn(c), x)

\* Mutant: the last call is what the last turn did.
RepeatsAfterThought(c, call) == c.last = call /\ c.json # NoJson

Repeats(c, call) == c.last = call

BlockedCall(c) == Append1(TakesTurn(c), MixedJson)
ObservedCall(c, call) == [Append1(TakesTurn(c), MixedJson) EXCEPT !.last = call]
FinalCall(c, call, output) ==
  [TakesTurn(c) EXCEPT !.last = call, !.json = output, !.tail = output,
                       !.finished = TRUE, !.completed = TRUE]

(* Compaction, before the request or after an overflow: the prompt is the  *)
(* pruner's text and the log empty, all else stays.  A pruner that         *)
(* overflows leaves the context as it is.                                  *)
Compacted(c) == [c EXCEPT !.json = NoJson, !.tail = NoJson]
AsSent(c) == {c, Compacted(c)}

-----------------------------------------------------------------------------
(* Out of turns: the log becomes a report that quotes its last 2 KiB.      *)
Capped(c) ==
  IF c.finished THEN {c}
  ELSE {[c EXCEPT !.finished = TRUE, !.json = x, !.tail = x] :
          x \in IF c.json = NoJson THEN {NoJson}
                ELSE {c.json, c.tail, NoJson, MixedJson}}

\* Mutant: the extra turns are counted from the start of the job.
ResumedFromStart(c, extra) == [c EXCEPT !.finished = FALSE, !.max = extra]

Resumed(c, extra) == [c EXCEPT !.finished = FALSE, !.max = c.turns + extra]

-----------------------------------------------------------------------------
(* The arithmetic of AutoCompactGuard and compact_text, in tokens.         *)
MinTarget == 512
SmallerOf(a, b) == IF a < b THEN a ELSE b
LargerOf(a, b) == IF a > b THEN a ELSE b

OverProactiveThreshold(window, estimate) ==
  window # 0 /\ estimate >= (window * 80) \div 100

DensifyTarget(window, pruner) ==
  LargerOf(SmallerOf((window * 50) \div 100, (pruner * 50) \div 100), MinTarget)

PrunerInput(pruner) == 4 * LargerOf((pruner * 70) \div 100, MinTarget)

EstimateTokens(chars) == (chars + 3) \div 4

(* What is left of the pruner's answer under mode "reduce".                *)
Reduced(chars, target) ==
  IF EstimateTokens(chars) > target THEN SmallerOf(4 * target, chars) ELSE chars

(* A compaction makes room: what the pruner may answer, under a system     *)
(* prompt, stays below the threshold that would compact again at once, in  *)
(* any window of 1,280 tokens or more (AutoCompactGuard, compact_text).    *)
MakesRoom(window, pruner, chars) ==
  window >= 1280 =>
    /\ ~OverProactiveThreshold(window, EstimateTokens(Reduced(chars, DensifyTarget(window, pruner)))
                                         + window \div 4)
    /\ EstimateTokens(PrunerInput(pruner)) <= LargerOf(pruner, MinTarget)
===============================================================================
