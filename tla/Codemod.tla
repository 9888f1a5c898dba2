-------------------------------- MODULE Codemod --------------------------------
(***************************************************************************)
(* The edits of execute_global_refactor: where the calls of a method are   *)
(* (src/src/agent/transformer/tools/discovery.rs, tools/ast.rs), what the  *)
(* field migration makes of a range of lines (transformer/..._codemod.rs), *)
(* and the check of the files it touched (codemod_report.rs).  A line is   *)
(* the sequence of what is on it: braces, fields of a log call, a name.    *)
(***************************************************************************)
EXTENDS Integers, SequencesExt

Languages == {"rs", "ts", "py", "java", "cpp", "zig"}
CallFields == {"headline", "message", "tags", "meta", "corr", "subject", "summary", "source"}
\* The declarations of those fields in a ...Log type of Java or Kotlin.
TypeFields == {"a headline", "a message", "a tags", "a subject", "a summary", "a source"}
\* A comma is told only where a line ends with it.
Tokens == CallFields \cup TypeFields
            \cup {"open", "close", "comma", "name", "definition", "code"}

HasField(line, f) == Contains(line, f)
StartsWith(line, f) == line # <<>> /\ Head(line) = f
SomeLine(body, f) == \E i \in DOMAIN body : HasField(body[i], f)

(* The elements at some of the positions, in their order.                  *)
Picked(s, positions) ==
  FlattenSeq([i \in DOMAIN s |-> IF i \in positions THEN <<s[i]>> ELSE <<>>])

-----------------------------------------------------------------------------
(* Discovery.                                                              *)
Balance(ts) == Len(SelectSeq(ts, LAMBDA t : t = "open"))
                 - Len(SelectSeq(ts, LAMBDA t : t = "close"))

\* From token k of line i to token l of line j.
Span(body, i, k, j, l) ==
  IF i = j THEN SubSeq(body[i], k, l)
  ELSE SubSeq(body[i], k, Len(body[i])) \o FlattenSeq(SubSeq(body, i + 1, j - 1))
         \o SubSeq(body[j], 1, l)

(* The node of a call or of a literal: to the brace that closes it.        *)
AstRange(body, i) ==
  LET k == SelectInSeq(body[i], LAMBDA t : t = "name")
      ends == {j \in i .. Len(body) :
                 \E l \in DOMAIN body[j] :
                   body[j][l] = "close" /\ Balance(Span(body, i, k, j, l)) = 0}
  IN IF HasField(SubSeq(body[i], k, Len(body[i])), "open") /\ ends # {}
     THEN <<i, Min(ends)>> ELSE <<i, i>>

(* Without a grammar the braces of whole lines are counted.                *)
ExpandBraceRange(body, i) ==
  LET ends == {j \in i .. Len(body) : Balance(Span(body, i, 1, j, Len(body[j]))) <= 0}
  IN IF ~HasField(body[i], "open") THEN <<i, i>>
     ELSE IF ends = {} THEN <<i, Len(body)>> ELSE <<i, Min(ends)>>

(* Python's constructions are found as lines, its calls as ranges too.     *)
FoundRanges(lang, body) ==
  LET named == Picked([i \in DOMAIN body |-> i], {i \in DOMAIN body : HasField(body[i], "name")})
      lines == [n \in DOMAIN named |-> <<named[n], named[n]>>]
      calls == [n \in DOMAIN named |-> AstRange(body, named[n])]
  IN CASE lang = "zig" -> [n \in DOMAIN named |-> ExpandBraceRange(body, named[n])]
       [] lang = "py"  -> lines \o Picked(calls, {n \in DOMAIN calls : ~Contains(lines, calls[n])})
       [] OTHER        -> calls

Within(small, big) == big[1] <= small[1] /\ big[2] >= small[2]

\* Mutant: the narrower of two ranges is kept.
DropSupersetRanges(ranges) ==
  Picked(ranges, {n \in DOMAIN ranges :
    ~\E small \in ToSet(ranges) : small # ranges[n] /\ Within(small, ranges[n])})

DropSubsetRanges(ranges) ==
  Picked(ranges, {n \in DOMAIN ranges :
    ~\E big \in ToSet(ranges) : big # ranges[n] /\ Within(ranges[n], big)})

(* A file of production code that calls what another one defines.          *)
RefactorRanges(lang, body) ==
  IF SomeLine(body, "definition") THEN <<>> ELSE DropSubsetRanges(FoundRanges(lang, body))

-----------------------------------------------------------------------------
(* The migration of a snippet, line by line.                               *)
NewName(f) == IF f = "headline" THEN "subject" ELSE IF f = "message" THEN "summary" ELSE f

\* C, C++ and Zig look for the fields anywhere in the line.
Anywhere(lang) == lang \in {"cpp", "zig"}
\* Mutant: every language does.
HasSourceAnywhere(lang, line) == HasField(line, "source")

HasSource(lang, line) ==
  IF Anywhere(lang) THEN HasField(line, "source") ELSE StartsWith(line, "source")

(* strip_inline_tags_assign: to the next comma, a brace before it included;*)
(* without a comma the line stays.  A field after a value has one before   *)
(* it.                                                                     *)
TagsStripped(line) ==
  LET first == SelectInSeq(line, LAMBDA f : f = "tags")
      commas == {i \in first + 1 .. Len(line) :
                   line[i] = "comma" \/ (line[i] \in CallFields /\ line[i - 1] # "open")}
      kept(i) == i < first \/ i > Min(commas) \/ (i = Min(commas) /\ line[i] # "comma")
  IN IF ~HasField(line, "tags") \/ commas = {} THEN line
     ELSE Picked(line, {i \in DOMAIN line : kept(i)})

Rewritten(lang, line) ==
  IF HasSource(lang, line) THEN <<"source">>
  ELSE IF Anywhere(lang)
       THEN [i \in DOMAIN TagsStripped(line) |-> NewName(TagsStripped(line)[i])]
  ELSE IF line = <<>> THEN line ELSE [line EXCEPT ![1] = NewName(@)]

(* Where a source field is added: below a meta line that opens, amid one   *)
(* that has the correlation on it, above the correlation.                  *)
InsertsBelow(lang, line) ==
  lang \in {"ts", "py"} /\ StartsWith(line, "meta") /\ HasField(line, "open")
InsertsAmid(lang, line) ==
  Anywhere(lang) /\ StartsWith(line, "meta") /\ HasField(line, "corr")
InsertsAbove(line) == StartsWith(line, "corr")

(* has: whether the source field is there; Rust looks at the snippet once. *)
MigrateLine(lang, s, line) ==
  LET new == Rewritten(lang, line)
      has == s.has \/ (lang # "rs" /\ HasSource(lang, line))
      adds == ~has /\ (InsertsBelow(lang, line) \/ InsertsAmid(lang, new) \/ InsertsAbove(line))
      with == IF InsertsBelow(lang, line) THEN <<line, <<"source">>>>
              ELSE IF InsertsAbove(line) THEN <<<<"source">>, new>>
              ELSE <<InsertAt(new, SelectInSeq(new, LAMBDA f : f = "corr"), "source")>>
  IN IF StartsWith(line, "tags") THEN [s EXCEPT !.changed = TRUE]
     ELSE [out |-> s.out \o IF adds THEN with ELSE <<new>>,
           has |-> has \/ (adds /\ lang # "rs"),
           changed |-> s.changed \/ adds \/ new # line \/ HasSource(lang, line)
                        \/ (Anywhere(lang) /\ HasField(line, "tags"))]

(* infer_source_module: Java and TypeScript need their source trees.       *)
NamesModule(lang, inTree) == lang \in {"java", "ts"} => inTree

(* What try_..._codemod returns: nothing or one text.                      *)
Migrated(lang, inTree, snippet) ==
  LET after[n \in 0 .. Len(snippet)] ==
        IF n = 0 THEN [out |-> <<>>, has |-> SomeLine(snippet, "source"), changed |-> FALSE]
        ELSE MigrateLine(lang, after[n - 1], snippet[n])
  IN {s.out : s \in {t \in {after[Len(snippet)]} :
                      NamesModule(lang, inTree) /\ t.changed /\ (lang = "py" => t.has)}}

(* The declarations in a log type: an old one is renamed, or goes if the   *)
(* new one exists.                                                         *)
NewDeclaration(f) ==
  CASE f = "a headline" -> "a subject" [] f = "a message" -> "a summary"
    [] f = "a tags" -> "a source" [] OTHER -> f
Superseded(body, line) ==
  \E i \in DOMAIN line :
    NewDeclaration(line[i]) # line[i] /\ SomeLine(body, NewDeclaration(line[i]))
TypeMigrated(body) ==
  Picked([i \in DOMAIN body |-> [j \in DOMAIN body[i] |-> NewDeclaration(body[i][j])]],
         {i \in DOMAIN body : ~Superseded(body, body[i])})

-----------------------------------------------------------------------------
(* Verification: each field that the instruction mentions is there in every*)
(* touched file, and tags in none.  The source field has the spelling of   *)
(* Java if all files are Java or Kotlin, else that of Rust, Python and C.  *)
Mentions == {"subject", "summary", "source", "tags"}
IsFieldMigration(rule) == rule # {}

UsesJavaStyle(langOf, paths) == \A p \in paths : langOf[p] = "java"

Shows(lang, javaStyle, body, f) ==
  SomeLine(body, f) /\ (f = "source" => (lang = "java" <=> javaStyle) /\ lang # "ts")

VerifyFieldMigration(langOf, bodyOf, rule, paths) ==
  \A f \in rule, p \in paths :
    Shows(langOf[p], UsesJavaStyle(langOf, paths), bodyOf[p], f) <=> f # "tags"

-----------------------------------------------------------------------------
(* What a migration must leave as it is: every field but tags and source,  *)
(* in its order, under its old name or its new one.                        *)
KeptToken(f) == IF f \in {"tags", "source"} \cup TypeFields THEN <<>> ELSE <<NewName(f)>>
KeptOf(line) == FlattenSeq([i \in DOMAIN line |-> KeptToken(line[i])])
KeptFields(body) == FlattenSeq([i \in DOMAIN body |-> KeptOf(body[i])])

\* As formatters write them: a line that starts with tags or source, or in C
\* holds one, holds nothing else.
FieldAlone(lang, line) ==
  \A f \in {"tags", "source"} :
    StartsWith(line, f) \/ (Anywhere(lang) /\ HasField(line, f)) => line = <<f>>
FieldsAlone(lang, body) == \A i \in DOMAIN body : FieldAlone(lang, body[i])

\* And a declaration is a line of its own; no line is one that a source field
\* is put amid: C would take the whole line for that field the next time.
PlainLine(lang, line) ==
  /\ FieldAlone(lang, line) /\ ~InsertsAmid(lang, line)
  /\ \A f \in TypeFields : HasField(line, f) => line = <<f>>
Plain(lang, body) == \A i \in DOMAIN body : PlainLine(lang, body[i])

Legacy(body) == {f \in {"headline", "message", "tags"} : SomeLine(body, f)}
===============================================================================
