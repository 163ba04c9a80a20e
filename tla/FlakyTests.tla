------------------------------ MODULE FlakyTests ------------------------------
(* The junior agent's FlakyTestDetectionTool                                 *)
(* (agents/junior/junior_qa.py): which tests of a history fail now and then, *)
(* what is done about them and how often they are tried again. The history   *)
(* is the caller's and grows between two analyses.                           *)
(*                                                                           *)
(* Data abstracted: an error is the class of messages it is similar to, none *)
(* one without a word; a time is a part of the day and of the week.          *)
EXTENDS Integers, Sequences, FiniteSets

CONSTANTS Executions,     \* what an execution may leave in the history
          MaxExecutions, MaxAnalyses    \* bounds

VARIABLES executions,     \* of the test, oldest first
          last, before,   \* the last two analyses
          quarantined,    \* history: how often the test was quarantined
          record          \* junior:{session}:flaky_analysis, and ...:result

flakyVars == <<executions, last, before, quarantined, record>>

NoStamp == [part |-> "none", week |-> "none"]
DayParts == {"morning", "afternoon", "evening"}
Weeks   == {"weekday", "weekend"}

NotAnalyzed == [verdict |-> "none", runs |-> 0, failures |-> 0, retries |-> 0, strategy |-> "none",
                bucket |-> "none", action |-> "none", n |-> 0]
Init ==
  /\ executions = <<>> /\ last = NotAnalyzed /\ before = NotAnalyzed /\ quarantined = 0
  /\ record = [mark |-> "none", result |-> "none"]

Execute(e) ==
  /\ Len(executions) < MaxExecutions /\ executions' = Append(executions, e)
  /\ UNCHANGED <<last, before, quarantined, record>>

-----------------------------------------------------------------------------
(* The analysis of one test, of five executions at least                    *)

MinExecutions == 5
Failures == SelectSeq(executions, LAMBDA e : e.failed)
Runs     == Len(executions)

\* A message without a word is similar to none, itself included.
ErrorVariety ==
  Cardinality({Failures[i].error : i \in DOMAIN Failures} \ {"none"})
  + Cardinality({i \in DOMAIN Failures : Failures[i].error = "none"})
DiverseErrors == ErrorVariety > 2

\* The times that there are close up, so that the one an execution is counted
\* with may be another's.
Timestamps == SelectSeq([i \in DOMAIN executions |-> executions[i].stamp], LAMBDA s : s # NoStamp)
FailuresAt(Is(_)) ==
  Cardinality({i \in DOMAIN executions : executions[i].failed /\ i <= Len(Timestamps)
               /\ Is(Timestamps[i])})
Crowded(Is(_)) == 10 * FailuresAt(Is) > 6 * Len(Failures)
Timed == Len(Timestamps) >= 3
TimeBased ==
  Timed /\ ((\E p \in DayParts : Crowded(LAMBDA s : s.part = p))
            \/ (\E w \in Weeks : Crowded(LAMBDA s : s.week = w)))
\* The share of the failures at a time is of all of them, of which there may be none.
DividesByZero == Timed /\ Failures = <<>>

IsFlaky == 10 * Len(Failures) >= 3 * Runs \/ DiverseErrors \/ TimeBased

ConsecutiveFailures ==
  Runs - CHOOSE n \in 0 .. Runs : (\A i \in n + 1 .. Runs : executions[i].failed)
    /\ (n > 0 => ~executions[n].failed)
RetryStrategy ==
  CASE DiverseErrors -> "exponential_backoff_with_jitter"
    [] ~DiverseErrors /\ TimeBased -> "time_based_retry"
    [] ~DiverseErrors /\ ~TimeBased /\ ConsecutiveFailures > 3 -> "linear_backoff"
    [] OTHER -> "simple_retry"
RetryLimit ==
  IF 10 * Len(Failures) > 7 * Runs THEN 5 ELSE IF 2 * Len(Failures) > Runs THEN 3 ELSE 2

\* The distribution of the metrics, by the rate alone.
StabilityBucket ==
  CASE 10 * Len(Failures) < Runs -> "highly_stable"
    [] Runs <= 10 * Len(Failures) /\ 10 * Len(Failures) < 3 * Runs -> "stable"
    [] 3 * Runs <= 10 * Len(Failures) /\ 2 * Len(Failures) < Runs -> "somewhat_flaky"
    [] OTHER -> "highly_flaky"

\* What is known of the quarantine is that the test is not in it, always.
IsQuarantined == FALSE
QuarantineAction(days, stable) ==
  CASE ~IsQuarantined -> "add_to_quarantine"
    [] IsQuarantined /\ days < 7 -> "maintain_quarantine"
    [] IsQuarantined /\ days >= 7 /\ stable -> "lift_quarantine"
    [] OTHER -> "extend_quarantine"

Told(verdict) ==
  [verdict |-> verdict, runs |-> Runs, failures |-> Len(Failures), bucket |-> StabilityBucket,
   retries |-> IF verdict = "flaky" THEN RetryLimit ELSE 0,
   strategy |-> IF verdict = "flaky" THEN RetryStrategy ELSE "none",
   action |-> IF verdict = "flaky" THEN QuarantineAction(0, ConsecutiveFailures = 0)
     ELSE "none", n |-> last.n + 1]

Answer(a) == last.n < MaxAnalyses /\ last' = a /\ before' = last /\ UNCHANGED <<executions, record>>

AnalyzeTooFew ==
  /\ Runs \in 1 .. MinExecutions - 1 /\ Answer([NotAnalyzed EXCEPT !.n = last.n + 1])
  /\ UNCHANGED quarantined
AnalyzeRaises ==
  /\ Runs >= MinExecutions /\ DividesByZero
  /\ Answer([NotAnalyzed EXCEPT !.verdict = "raised", !.runs = Runs, !.n = last.n + 1])
  /\ UNCHANGED quarantined
AnalyzeFlaky ==
  /\ Runs >= MinExecutions /\ ~DividesByZero /\ IsFlaky
  /\ Answer(Told("flaky")) /\ quarantined' = quarantined + 1
AnalyzeStable ==
  /\ Runs >= MinExecutions /\ ~DividesByZero /\ ~IsFlaky
  /\ Answer(Told("stable")) /\ UNCHANGED quarantined

-----------------------------------------------------------------------------
(* analyze_flaky_tests, the agent's own method, which nothing calls yet:    *)
(* it makes a history of one execution of each of twenty tests, too few to  *)
(* judge any.                                                               *)

FetchedRuns == 1
\* The actions it applies are the names of the answer's fields, whose test_id
\* it asks for: it raises after the mark and before the result.
AppliesActions == FALSE

AnalyzeForSession ==
  /\ record.mark = "none" /\ FetchedRuns < MinExecutions
  /\ record' = [mark |-> "in_progress", result |-> IF AppliesActions THEN "completed" ELSE "none"]
  /\ UNCHANGED <<executions, last, before, quarantined>>

Next ==
  \/ \E e \in Executions : Execute(e)
  \/ AnalyzeForSession
  \/ AnalyzeTooFew \/ AnalyzeRaises \/ AnalyzeFlaky \/ AnalyzeStable
FlakySpec == Init /\ [][Next]_flakyVars

-----------------------------------------------------------------------------
(* Properties *)

\* The tool's two classifications agree: a test that the metrics count as flaky
\* is among the flaky tests, whatever its errors and their times
\* (_analyze_flaky_patterns, _calculate_flakiness_metrics).
CountedIsListed == last.bucket \in {"somewhat_flaky", "highly_flaky"} => last.verdict = "flaky"

\* A test that failed more often of as many more runs is tried again no less
\* often than at the analysis before (_calculate_max_retries).
RetriesFollowRate ==
  before.verdict = "flaky" /\ last.verdict = "flaky"
    /\ last.failures * before.runs >= before.failures * last.runs
    => last.retries >= before.retries
=============================================================================
