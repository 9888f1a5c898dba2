------------------------------- MODULE Services -------------------------------
(***************************************************************************)
(* What every job stands on: the configuration, the metrics, the judge,    *)
(* the loop on stdin and the log.  They share no state but the process, so *)
(* each behaviour is one of them at work.                                  *)
(***************************************************************************)
EXTENDS ConfigStore, MetricsStore, Evaluator, ServerLoop

VARIABLE service
vars == <<config, metrics, evaluating, stdio, runtimeLog, service>>

Init ==
  /\ service \in {"config", "metrics", "evaluator", "stdio", "log"}
  /\ ConfigInit /\ MetricsInit /\ EvaluatorInit /\ StdioInit /\ LogInit
  /\ service # "config" => file = Missing
  /\ service # "metrics" => jobs = [j \in Jobs |-> [tool |-> CHOOSE t \in JobTools : TRUE, calls |-> 0, end |-> "running"]]
  /\ service # "stdio" => stdin = <<>>

ConfigMoves ==
  service = "config" /\ ConfigNext /\ UNCHANGED <<metrics, evaluating, stdio, runtimeLog, service>>
MetricsMoves ==
  service = "metrics" /\ MetricsNext /\ UNCHANGED <<config, evaluating, stdio, runtimeLog, service>>
EvaluatorMoves ==
  service = "evaluator" /\ EvaluatorNext /\ UNCHANGED <<config, metrics, stdio, runtimeLog, service>>
StdioMoves ==
  service = "stdio" /\ StdioNext /\ UNCHANGED <<config, metrics, evaluating, runtimeLog, service>>
LogMoves ==
  service = "log" /\ LogNext /\ UNCHANGED <<config, metrics, evaluating, stdio, service>>

Next == ConfigMoves \/ MetricsMoves \/ EvaluatorMoves \/ StdioMoves \/ LogMoves

Spec == Init /\ [][Next]_vars

TypeOK == ConfigTypeOK /\ MetricsTypeOK /\ EvaluatorTypeOK /\ LoopTypeOK

(* A configuration keeps its meaning over a save and the next start, and   *)
(* its accounts and models over the migration of a legacy file             *)
(* (save_to_file, load_from_file).                                         *)
ConfigSurvives == SavedIsLoaded /\ LegacyMeansTheSame

(* What the Usage page shows of a day adds up, by phase, by hour and by    *)
(* job, whatever jobs interleave and whenever the hour turns (store.rs).   *)
MetricsAddUp == SummaryAddsUp /\ TimelineEndsAtDaily /\ PremiumChargedOnce

(* The pages of the UI show what there is: every evaluation once, and the  *)
(* newest warnings (list_evaluations_page, get_logs).                      *)
PagesShowAll == PagesShowEachOnce /\ LogKeepsNewest
===============================================================================
