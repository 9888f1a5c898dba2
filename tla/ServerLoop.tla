------------------------------ MODULE ServerLoop ------------------------------
(***************************************************************************)
(* The process itself: the loop that reads the coordinator's messages from *)
(* stdin and answers on stdout, one at a time (mcp_server.rs), and the     *)
(* ring of warnings that its threads fill and the Logs page shows          *)
(* (runtime_log.rs).  A message is a line of JSON or headers and a body.   *)
(***************************************************************************)
EXTENDS Integers, Sequences, FiniteSets, FiniteSetsExt, SequencesExt

CONSTANTS
  Inputs,      \* what may come on stdin: sequences of messages
  Capacity,    \* of the ring
  MaxEvents,   \* events logged
  MaxBytes,    \* of a logged message before it is cut
  SuffixBytes  \* of what is put behind a message that was cut

Methods == {"initialize", "list", "ping", "call", "other"}
Messages == [form : {"line", "headers", "blank", "unsized"}, id : STRING, method : Methods]

ASSUME ServerLoopAssumption ==
  /\ Inputs \subseteq Seq(Messages)
  /\ Capacity \in Nat \ {0} /\ MaxBytes \in Nat /\ SuffixBytes \in Nat

(* What read_message makes of the next bytes: an empty line ends the input *)
(* like its end does, headers without a length are an error.               *)
Reads(message) ==
  CASE message.form = "blank" -> "end"
    [] message.form = "unsized" -> "error"
    [] OTHER -> "message"

VARIABLES
  stdin,    \* messages to come
  framing,  \* that of the first message
  answers,  \* on stdout: [id, frame, kind]
  loop,     \* "reading", "calling", "ended"
  received  \* messages read so far

VARIABLES
  ring,     \* newest first
  logged    \* every event so far

stdio == <<stdin, framing, answers, loop, received>>
runtimeLog == <<ring, logged>>

StdioInit ==
  /\ stdin \in Inputs
  /\ framing = "none" /\ answers = <<>> /\ loop = "reading" /\ received = <<>>

Answer(id, kind) ==
  answers' = Append(answers, [id |-> id, kind |-> kind, frame |-> framing'])

\* Mutant: a message that does not parse is skipped.
RunStdioSkipping ==
  /\ loop = "reading"
  /\ IF stdin = <<>> \/ Reads(Head(stdin)) # "message"
       THEN loop' = "ended" /\ UNCHANGED <<stdin, framing, answers, received>>
       ELSE LET message == Head(stdin)
            IN /\ stdin' = Tail(stdin)
               /\ received' = Append(received, message)
               /\ framing' = IF framing = "none" THEN message.form ELSE framing
               /\ IF message.id \in {"garbled", "none"} THEN UNCHANGED <<answers, loop>>
                  ELSE Answer(message.id, "result") /\ loop' = loop

(* A notification has no id and gets no answer.                            *)
RunStdio ==
  /\ loop = "reading"
  /\ IF stdin = <<>> \/ Reads(Head(stdin)) # "message"
       THEN loop' = "ended" /\ UNCHANGED <<stdin, framing, answers, received>>
       ELSE LET message == Head(stdin)
            IN /\ stdin' = Tail(stdin)
               /\ received' = Append(received, message)
               /\ framing' = IF framing = "none" THEN message.form ELSE framing
               /\ CASE message.id = "garbled" -> Answer("null", "error") /\ loop' = loop
                    [] message.id = "none" -> UNCHANGED <<answers, loop>>
                    [] OTHER ->
                         IF message.method = "call"
                           THEN loop' = "calling" /\ UNCHANGED answers
                           ELSE /\ Answer(message.id, IF message.method = "other" THEN "error" ELSE "result")
                                /\ loop' = loop

(* The loop waits for the tool: its answer, or that its job still runs, or *)
(* why it could not start, always as a result.                             *)
HandleToolCall ==
  /\ loop = "calling"
  /\ framing' = framing
  /\ \E kind \in {"result", "failed"} : Answer(Last(received).id, kind)
  /\ loop' = "reading"
  /\ UNCHANGED <<stdin, received>>

StdioNext == RunStdio \/ HandleToolCall

(* The messages that want an answer, the place of each among them, and the *)
(* id that its answer has.                                                 *)
Wanted == {i \in DOMAIN received : received[i].id # "none"}
Place(i) == Cardinality({j \in Wanted : j <= i})
IdOf(message) == IF message.id = "garbled" THEN "null" ELSE message.id
-----------------------------------------------------------------------------
(* Bytes of the longest prefix of whole characters that fits; a character  *)
(* is its width in bytes.                                                  *)
Bytes(chars) == FoldLeft(LAMBDA sum, w : sum + w, 0, chars)
Boundaries(chars) == {Bytes(SubSeq(chars, 1, n)) : n \in 0..Len(chars)}
TruncatedAt(chars) == Max({b \in Boundaries(chars) : b <= MaxBytes})

(* A logged message: what is kept of the event's, and its length in bytes, *)
(* with the suffix that says so when it was cut.                           *)
TruncateMessage(chars) ==
  IF Bytes(chars) <= MaxBytes
    THEN [kept |-> Bytes(chars), len |-> Bytes(chars)]
    ELSE [kept |-> TruncatedAt(chars), len |-> TruncatedAt(chars) + SuffixBytes]

Levels == {"error", "warn", "info", "panic"}
(* Warnings and errors of the threads, failed jobs, and panics.            *)
Recorded(level) == level # "info"

LogInit == ring = <<>> /\ logged = <<>>

\* Mutant: the full ring gives up its newest entry.
PushedOverNewest(entries, entry) ==
  <<entry>> \o (IF Len(entries) >= Capacity THEN Tail(entries) ELSE entries)
Pushed(entries, entry) ==
  <<entry>> \o (IF Len(entries) >= Capacity THEN SubSeq(entries, 1, Len(entries) - 1) ELSE entries)

OnEvent(level, chars) ==
  /\ Len(logged) < MaxEvents
  /\ LET entry == [n |-> Len(logged) + 1, level |-> level, message |-> TruncateMessage(chars)]
     IN /\ ring' = IF Recorded(level) THEN Pushed(ring, entry) ELSE ring
        /\ logged' = Append(logged, [level |-> level, chars |-> chars])

LogNext == \E level \in Levels, chars \in {<<1>>, <<2, 3>>, <<3, 2, 1>>} : OnEvent(level, chars)

LoopTypeOK ==
  /\ loop \in {"reading", "calling", "ended"} /\ framing \in {"none", "line", "headers"}
  /\ Len(ring) <= Capacity

(* Every message that wants an answer gets one, in the order they came,    *)
(* and in the framing of the first; at most the tool call at work still    *)
(* owes its own (run_stdio, handle_tool_call).                             *)
AnswersInOrder ==
  /\ Cardinality(Wanted) = Len(answers) + (IF loop = "calling" THEN 1 ELSE 0)
  /\ \A i \in Wanted : Place(i) \in DOMAIN answers =>
       answers[Place(i)].id = IdOf(received[i]) /\ answers[Place(i)].frame = received[1].form

(* A logged message is its event's whole, or cut between two characters and*)
(* only then with the suffix, which alone takes it beyond what is kept.    *)
WholeOrCut(message, chars) ==
  /\ message.kept <= MaxBytes /\ message.kept \in Boundaries(chars)
  /\ message.len = message.kept + (IF message.kept = Bytes(chars) THEN 0 ELSE SuffixBytes)

(* The Logs page has the newest warnings and nothing else, newest first,   *)
(* each with what an entry may hold of its message (RuntimeLog::push,      *)
(* RuntimeLogLayer::on_event, truncate_message).                           *)
LogKeepsNewest ==
  LET recorded == {i \in DOMAIN logged : Recorded(logged[i].level)}
      newest == {i \in recorded : Cardinality({j \in recorded : j > i}) < Capacity}
  IN /\ {ring[k].n : k \in DOMAIN ring} = newest
     /\ \A k \in DOMAIN ring :
          /\ k > 1 => ring[k].n < ring[k - 1].n
          /\ WholeOrCut(ring[k].message, logged[ring[k].n].chars)
===============================================================================
