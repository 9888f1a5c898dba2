---------------------------- MODULE MetricsStore ----------------------------
(***************************************************************************)
(* What the agents' work costs: the tables of metrics.db, which every      *)
(* server on the machine writes, and the queries of the usage pages        *)
(* (metrics/store.rs, metrics/query.rs).  Prompt and completion tokens are *)
(* one number, and so are the premium tokens in and out.                   *)
(***************************************************************************)
EXTENDS Integers, Sequences, FiniteSets, FiniteSetsExt, Functions

CONSTANTS
  Jobs, ServerOf,  \* job -> the server it runs on
  JobTools,        \* the tools a job may call
  MaxCalls,        \* calls and cache hits of a job
  HourTicks, DayTicks,  \* seconds in an hour, in a day
  LastTick         \* the clock stops here

ASSUME MetricsAssumption ==
  /\ HourTicks \in Nat \ {0} /\ DayTicks \in Nat \ {0}
  /\ LastTick \in Nat /\ MaxCalls \in Nat

Servers == {ServerOf[j] : j \in Jobs}

Phases == {"builder", "scout", "triage"}

(* The phases a tool's run is counted under; some tools have none.         *)
PhasesOf(tool) ==
  CASE tool = "scout_context" -> <<"scout">>
    [] tool = "verify_and_triage" -> <<"triage">>
    [] tool = "execute_blueprint" -> <<"triage", "builder">>
    [] OTHER -> <<>>

(* A character in four, rounded up.                                        *)
EstimateTokens(chars) == (chars + 3) \div 4

VARIABLES
  now,       \* the clock, in seconds
  counter,   \* server -> events it has numbered
  llmCalls, cacheHits, agentRuns, premiumBridge,  \* the tables
  jobs,      \* job -> [tool, calls, end]
  lost       \* jobs with an event that has no row

metrics == <<now, counter, llmCalls, cacheHits, agentRuns, premiumBridge, jobs, lost>>

UtcDate == now \div DayTicks

(* An event's id is the time and the server's own counter: another server  *)
(* may have used it.  A row whose id is taken is not inserted, and any     *)
(* insert may fail, its number used; behind a poisoned lock none is tried. *)
(* The caller warns of the one and is silent of the other.                 *)
Fates == {"inserted", "failed", "skipped"}
EventId(job, n) == <<now, counter[ServerOf[job]] + n>>
Row(job, n, phase, tokens) ==
  [id |-> EventId(job, n), uuid |-> job, phase |-> phase, tokens |-> tokens,
   hour |-> now \div HourTicks, date |-> UtcDate]
Taken(table, row) == \E r \in table : r.id = row.id
Misses(table, row, fate) == fate # "inserted" \/ Taken(table, row)
Inserted(table, row, fate) == IF Misses(table, row, fate) THEN table ELSE table \cup {row}
Numbered(job, n) == counter' = [counter EXCEPT ![ServerOf[job]] = @ + n]

MetricsInit ==
  /\ now = 0
  /\ counter = [s \in Servers |-> 0]
  /\ llmCalls = {} /\ cacheHits = {} /\ agentRuns = {} /\ premiumBridge = {}
  /\ jobs \in [Jobs -> [tool : JobTools, calls : {0}, end : {"running"}]]
  /\ lost = {}

Counts(job, fate) ==
  /\ jobs[job].end = "running" /\ jobs[job].calls < MaxCalls
  /\ jobs' = [jobs EXCEPT ![job].calls = @ + 1]
  /\ Numbered(job, IF fate = "skipped" THEN 0 ELSE 1)
  /\ UNCHANGED <<now, agentRuns, premiumBridge>>

(* A job's agents, and the agents they call, each under its own phase.     *)
RecordLlmCall(job, phase, tokens, fate) ==
  /\ Counts(job, fate)
  /\ LET row == Row(job, 0, phase, tokens)
     IN /\ llmCalls' = Inserted(llmCalls, row, fate)
        /\ lost' = IF Misses(llmCalls, row, fate) THEN lost \cup {job} ELSE lost
  /\ UNCHANGED cacheHits

RecordCacheHit(job, fate) ==
  /\ Counts(job, fate)
  /\ LET row == Row(job, 0, "scout", 0)
     IN /\ cacheHits' = Inserted(cacheHits, row, fate)
        /\ lost' = IF Misses(cacheHits, row, fate) THEN lost \cup {job} ELSE lost
  /\ UNCHANGED llmCalls

Metered(job, phase) == \E r \in llmCalls \cup cacheHits : r.uuid = job /\ r.phase = phase

(* The runs of a job that ends: its tool's phases that used the model or   *)
(* hit the cache.  A taken id ends the loop, and so does a query or an     *)
(* insert that fails at a phase, which may have used a number.             *)
RunRows(job, from, fails, used) ==
  LET phases == PhasesOf(jobs[job].tool)
      metered == {i \in DOMAIN phases : Metered(job, phases[i])}
      row(i) == Row(job, from + Cardinality({j \in metered : j < i}), phases[i], 0)
      clashes(i) == i < fails /\ Taken(agentRuns, row(i))
      free == {i \in metered : i < fails /\ \A j \in metered : j <= i => ~clashes(j)}
  IN [rows |-> {row(i) : i \in free}, lost |-> free # metered,
      numbered |-> Cardinality(free) +
        (IF free = metered THEN 0 ELSE IF \E i \in metered : clashes(i) THEN 1 ELSE used)]

\* Mutant: a row for each of the tool's phases.
PremiumRowsPerPhase(job, tokens) ==
  {Row(job, i - 1, PhasesOf(jobs[job].tool)[i], tokens) : i \in DOMAIN PhasesOf(jobs[job].tool)}

(* The job's request and its result or error, on the first phase only.     *)
PremiumRows(job, tokens) ==
  IF tokens = 0 \/ PhasesOf(jobs[job].tool) = <<>> THEN {}
  ELSE {Row(job, 0, PhasesOf(jobs[job].tool)[1], tokens)}

RecordJobEnd(job, chars, fate, fails, used) ==
  LET premium == PremiumRows(job, EstimateTokens(chars))
      tried == IF fate = "skipped" THEN 0 ELSE Cardinality(premium)
      runs == RunRows(job, tried, fails, used)
      missed == {r \in premium : Misses(premiumBridge, r, fate)}
  IN /\ jobs[job].end = "running"
     /\ fate = "skipped" => fails = 1 /\ used = 0
     /\ jobs' = [jobs EXCEPT ![job].end = "recorded"]
     /\ premiumBridge' = premiumBridge \cup (premium \ missed)
     /\ agentRuns' = agentRuns \cup runs.rows
     /\ Numbered(job, tried + runs.numbered)
     /\ lost' = IF runs.lost \/ missed # {} THEN lost \cup {job} ELSE lost
     /\ UNCHANGED <<now, llmCalls, cacheHits>>

(* A job that panics or is cancelled leaves no record.                     *)
JobBreaks(job) ==
  /\ jobs[job].end = "running"
  /\ jobs' = [jobs EXCEPT ![job].end = "broken"]
  /\ UNCHANGED <<now, counter, llmCalls, cacheHits, agentRuns, premiumBridge, lost>>

Tick ==
  /\ now < LastTick
  /\ now' = now + 1
  /\ UNCHANGED <<counter, llmCalls, cacheHits, agentRuns, premiumBridge, jobs, lost>>

MetricsNext ==
  \/ Tick
  \/ \E j \in Jobs, fate \in Fates :
       \/ \E p \in Phases, tokens \in {3} : RecordLlmCall(j, p, tokens, fate)
       \/ RecordCacheHit(j, fate) \/ JobBreaks(j)
       \/ \E chars \in {5}, fails \in 1..3, used \in 0..1 : RecordJobEnd(j, chars, fate, fails, used)
-----------------------------------------------------------------------------
Tokens(rows) == SumFunction([r \in rows |-> r.tokens])
Of(table, date, phase) == {r \in table : r.date = date /\ r.phase = phase}

ActivePhases(date) ==
  {r.phase : r \in {s \in llmCalls \cup cacheHits \cup agentRuns \cup premiumBridge : s.date = date}}

(* Runs that ended, or while none has, the jobs that called the model.     *)
JobRuns(date, phase) ==
  LET ended == Cardinality(Of(agentRuns, date, phase))
  IN IF ended > 0 THEN ended ELSE Cardinality({r.uuid : r \in Of(llmCalls, date, phase)})

DailyRow(date, phase) ==
  [tokens |-> Tokens(Of(llmCalls, date, phase)), premium |-> Tokens(Of(premiumBridge, date, phase)),
   hits |-> Cardinality(Of(cacheHits, date, phase)), runs |-> JobRuns(date, phase)]
QueryDaily(date) == [p \in ActivePhases(date) |-> DailyRow(date, p)]

QuerySummary ==
  [tokens |-> Tokens({r \in llmCalls : r.date = UtcDate}),
   premium |-> Tokens({r \in premiumBridge : r.date = UtcDate}),
   scoutHits |-> Cardinality(Of(cacheHits, UtcDate, "scout")),
   byPhase |-> QueryDaily(UtcDate)]

(* A phase's hours of a day, each with the tokens so far.                  *)
QueryTimeline(date, phase) ==
  LET rows == Of(llmCalls, date, phase)
      hours == {r.hour : r \in rows}
      spent == [h \in hours |-> Tokens({r \in rows : r.hour = h})]
      cumulative[h \in hours] ==
        LET earlier == {k \in hours : k < h}
        IN spent[h] + (IF earlier = {} THEN 0 ELSE cumulative[Max(earlier)])
  IN [h \in hours |-> [tokens |-> spent[h], cumulative |-> cumulative[h]]]

MetricsTypeOK ==
  /\ now \in 0..LastTick /\ lost \subseteq Jobs
  /\ \A r \in llmCalls \cup cacheHits \cup agentRuns \cup premiumBridge : r.phase \in Phases

(* The parts of the day's summary add up to its totals: no phase that only *)
(* one of the four tables knows is missing from the rows (query_summary).  *)
SummaryAddsUp ==
  LET byPhase == QuerySummary.byPhase
      total(field) == SumFunction([p \in DOMAIN byPhase |-> byPhase[p][field]])
  IN /\ total("tokens") = QuerySummary.tokens
     /\ total("premium") = QuerySummary.premium
     /\ total("hits") = QuerySummary.scoutHits

(* A phase's timeline ends at what its daily row says it used.             *)
TimelineEndsAtDaily ==
  \A date \in 0..UtcDate : \A p \in ActivePhases(date) :
    LET buckets == QueryTimeline(date, p)
    IN QueryDaily(date)[p].tokens = IF DOMAIN buckets = {} THEN 0 ELSE buckets[Max(DOMAIN buckets)].cumulative

(* A job that reported is charged once for what crossed the bridge, however*)
(* many phases its tool has and however jobs interleave; only a row that   *)
(* was lost makes it less (record_premium_bridge).                         *)
PremiumChargedOnce ==
  \A j \in Jobs :
    LET rows == {r \in premiumBridge : r.uuid = j}
    IN /\ Cardinality(rows) <= 1
       /\ jobs[j].end = "recorded" /\ PhasesOf(jobs[j].tool) # <<>> /\ j \notin lost => rows # {}

===============================================================================
