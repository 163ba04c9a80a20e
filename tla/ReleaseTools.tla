----------------------------- MODULE ReleaseTools -----------------------------
(* The tools by which the Python port's analyst judges a release            *)
(* (agents/analyst/qa_analyst.py): performance, traceability, defect        *)
(* prediction, quality trend, risk and readiness. Each answers from what it *)
(* is given, and is asked again when that has changed: the state is what    *)
(* one tool was given the last two times.                                   *)
(*                                                                          *)
(* Data abstracted: scores are integers, in the unit named with each; where *)
(* the code's sum of floats comes to a threshold the model takes it to be   *)
(* there. A requirement is linked to the set of tests it names.             *)
EXTENDS Integers, Sequences, FiniteSets

CONSTANTS Replies,        \* latency and failure of a request to an endpoint
          Requirements,   \* lists of requirements
          TestCases, Components, RateHistories, Features

VARIABLES tool,           \* the tool that is asked
          given, earlier, \* what it was given last and before
          asked

toolVars == <<tool, given, earlier, asked>>

Init == tool = "none" /\ given = <<>> /\ earlier = <<>> /\ asked = 0

Ask(t, x) ==
  /\ tool \in {"none", t} /\ asked < 2 /\ asked' = asked + 1
  /\ tool' = t /\ earlier' = given /\ given' = x

TotalOf(s) == LET sum[n \in 0 .. Len(s)] == IF n = 0 THEN 0 ELSE sum[n - 1] + s[n] IN sum[Len(s)]
AtMost(n, m) == IF n < m THEN n ELSE m
AtLeast(n, m) == IF n > m THEN n ELSE m

-----------------------------------------------------------------------------
(* PerformanceProfilingTool: endpoints, each with its replies. A request    *)
(* that gets none counts 30000 ms; one that is answered with an error       *)
(* counts the time of the answer.                                           *)

Latency(r) == IF r.failed = "unanswered" THEN 30000 ELSE r.ms
Latencies(replies) == [i \in DOMAIN replies |-> Latency(replies[i])]
ErrorCount(replies) == Len(SelectSeq(replies, LAMBDA r : r.failed # "no"))
AllReplies(es) == LET from[n \in 0 .. Len(es)] == IF n = 0 THEN <<>> ELSE from[n - 1] \o es[n]
  IN from[Len(es)]

Sorted(s) ==
  [n \in DOMAIN s |->
     s[CHOOSE i \in DOMAIN s : Cardinality({j \in DOMAIN s : s[j] < s[i]
                                            \/ (s[j] = s[i] /\ j < i)}) = n - 1]]
\* numpy's percentile lies between two of the values; in hundredths of ms.
Percentile(q, s) ==
  LET at == q * (Len(s) - 1)  k == at \div 100 + 1  v == Sorted(s) IN
  IF k = Len(s) THEN 100 * v[k] ELSE 100 * v[k] + (v[k + 1] - v[k]) * (at % 100)
Mean(s) == (100 * TotalOf(s)) \div Len(s)

Grade(avg, p95) ==
  CASE p95 < 20000 /\ avg < 10000 -> 5
    [] p95 < 50000 /\ avg < 30000 /\ ~(p95 < 20000 /\ avg < 10000) -> 4
    [] p95 < 100000 /\ avg < 60000 /\ ~(p95 < 50000 /\ avg < 30000) -> 3
    [] p95 < 300000 /\ ~(p95 < 100000 /\ avg < 60000) -> 2
    [] OTHER -> 1
PerformanceGrade(es) == LET s == Latencies(AllReplies(es)) IN Grade(Mean(s), Percentile(95, s))

Bottlenecks(es) ==
  LET avg(e) == Mean(Latencies(es[e]))
      all    == TotalOf([e \in DOMAIN es |-> avg(e)])
  IN {e \in DOMAIN es : (avg(e) * Len(es) > 2 * all /\ avg(e) > 50000) \/ ErrorCount(es[e]) > 0}
\* Of a metric against its baseline.
BaselineChange(now, base) ==
  CASE base = 0 -> "none"
    [] base # 0 /\ 100 * (now - base) < -5 * base -> "improved"
    [] base # 0 /\ 100 * (now - base) > 10 * base -> "degraded"
    [] OTHER -> "unchanged"
RegressionDetected(es, base) ==
  LET s == Latencies(AllReplies(es)) IN
  "degraded" \in {BaselineChange(Mean(s), base.avg), BaselineChange(Percentile(95, s), base.p95)}
\* When the model's analysis fails the requests are made again, and this judges
\* what they gave; what the model says of the first ones is not modelled.
AskProfile == \E es \in [1 .. 2 -> [1 .. 2 -> Replies]] : Ask("profile", es)

-----------------------------------------------------------------------------
(* TestTraceabilityTool. The empty text is in every other: a requirement    *)
(* without an id is linked to every test.                                   *)

Linked(req) == IF req.id THEN req.named \cap TestCases ELSE TestCases
Covered(req) == Linked(req) # {}
PriorityScore == [critical |-> 4, high |-> 3, medium |-> 2, low |-> 1]
Uncovered(reqs) == SelectSeq(reqs, LAMBDA r : ~Covered(r))
ThinlyCovered(reqs) == SelectSeq(reqs, LAMBDA r : Cardinality(Linked(r)) = 1)

\* (A mutant: the gaps as they were found.)
CoverageGapsUnsorted(reqs) == Uncovered(reqs) \o ThinlyCovered(reqs)

\* sort() keeps the order of gaps of one priority.
CoverageGaps(reqs) ==
  LET gaps == Uncovered(reqs) \o ThinlyCovered(reqs)
      Before(i, j) == \/ PriorityScore[gaps[i].priority] > PriorityScore[gaps[j].priority]
                      \/ PriorityScore[gaps[i].priority] = PriorityScore[gaps[j].priority] /\ i < j
  IN [n \in DOMAIN gaps |->
        gaps[CHOOSE i \in DOMAIN gaps : Cardinality({j \in DOMAIN gaps : Before(j, i)}) = n - 1]]
CoveredCount(reqs) == Len(reqs) - Len(Uncovered(reqs))
MeetsThreshold(reqs) == reqs # <<>> /\ 10 * CoveredCount(reqs) >= 8 * Len(reqs)
ByPriority(reqs, p) == LET of == SelectSeq(reqs, LAMBDA r : r.priority = p)
  IN [total |-> Len(of), covered |-> CoveredCount(of)]
HighPriorityGaps(reqs) ==
  Len(SelectSeq(CoverageGaps(reqs), LAMBDA r : r.priority \in {"critical", "high"}))
\* A defect is linked to the tests that share a word of four letters with it.
DefectCovered(defect) == defect.words \cap TestCases # {}
TraceAdvice(reqs, defects) ==
  (IF MeetsThreshold(reqs) THEN {} ELSE {"coverage"})
  \cup (IF HighPriorityGaps(reqs) > 0 THEN {"gaps"} ELSE {})
  \cup (IF \E d \in defects : ~DefectCovered(d) THEN {"defects"} ELSE {})
  \cup {p \in DOMAIN PriorityScore : LET c == ByPriority(reqs, p)
        IN c.total > 0 /\ 2 * c.covered < c.total}
AskTrace == \E reqs \in Requirements : Ask("trace", reqs)

-----------------------------------------------------------------------------
(* DefectPredictionTool: six factors in hundredths, weighed, of a component *)
(* with its changes and what is known of its past.                          *)

CodeChurn(c) ==
  CASE c.changes > 10 -> 90 [] c.changes \in 6 .. 10 -> 70 [] c.changes \in 3 .. 5 -> 50
    [] OTHER -> 30
FileAge(c) == CASE c.days > 180 -> 80 [] c.days \in 91 .. 180 -> 60
  [] c.days \in 31 .. 90 -> 40 [] OTHER -> 20
Complexity(c) == (AtMost(100, c.cyclomatic * 5) + AtMost(100, c.lines \div 10)) \div 2
\* Changes by experienced authors over authors, which may be more than one.
AuthorExperience(c) == IF c.changes = 0 THEN 50 ELSE 100 - (100 * c.byExperienced) \div c.authors
TestCoverage(c) == 100 - c.coverage
HistoricalBugs(c) ==
  LET hundreds == AtLeast(100, c.lines) IN
  CASE 100 * c.bugs > 5 * hundreds -> 90
    [] 100 * c.bugs > 2 * hundreds /\ 100 * c.bugs <= 5 * hundreds -> 70
    [] 100 * c.bugs > hundreds /\ 100 * c.bugs <= 2 * hundreds -> 50
    [] OTHER -> 30
\* In ten thousandths.
ComponentRisk(c) ==
  AtMost(10000, AtLeast(0, 25 * CodeChurn(c) + 15 * FileAge(c) + 20 * Complexity(c) + 15 * AuthorExperience(c)
                           + 15 * TestCoverage(c) + 10 * HistoricalBugs(c)))
HighRisk(c) == ComponentRisk(c) > 7000
PredictedDefects(c) == IF HighRisk(c) THEN AtLeast(1, ComponentRisk(c) \div 2000) ELSE 0
DistributionBucket(c) ==
  CASE ComponentRisk(c) > 8000 -> 4 [] ComponentRisk(c) \in 6001 .. 8000 -> 3
    [] ComponentRisk(c) \in 4001 .. 6000 -> 2 [] OTHER -> 1
RiskReasons(c) ==
  (IF c.changes > 5 THEN {"churn"} ELSE {}) \cup (IF c.days > 90 THEN {"age"} ELSE {})
  \cup (IF c.cyclomatic > 15 THEN {"complexity"} ELSE {})
    \cup (IF c.coverage < 60 THEN {"coverage"} ELSE {})
  \cup (IF c.bugs > 3 THEN {"bugs"} ELSE {})
AskPrediction == \E c \in Components : Ask("prediction", c)

-----------------------------------------------------------------------------
(* QualityTrendAnalysisTool, of the pass rates, oldest first. The slope is  *)
(* that of the least squares: SlopeBy parts of its denominator.             *)

Xs(h) == [i \in DOMAIN h |-> i - 1]
SlopeBy(h) == Len(h) * TotalOf([i \in DOMAIN h |-> Xs(h)[i] * Xs(h)[i]]) - TotalOf(Xs(h)) * TotalOf(Xs(h))
SlopeParts(h) ==
  IF Len(h) < 2 THEN 0
    ELSE Len(h) * TotalOf([i \in DOMAIN h |-> Xs(h)[i] * h[i]]) - TotalOf(Xs(h)) * TotalOf(h)
Over(h, tenths) == 10 * SlopeParts(h) > tenths * SlopeBy(h)
Under(h, tenths) == 10 * SlopeParts(h) < -tenths * SlopeBy(h)
TrendDirection(h) ==
  CASE Len(h) >= 2 /\ Over(h, 1) -> "improving" [] Len(h) >= 2 /\ Under(h, 1) -> "declining"
    [] OTHER -> "stable"

\* The mean of the last seven against that of the first seven, of which they may
\* be some; whether more is better depends on the metric, and is not asked.
MetricTrend(h) ==
  LET w == AtMost(7, Len(h))
      recent == TotalOf(SubSeq(h, Len(h) - w + 1, Len(h)))  older == TotalOf(SubSeq(h, 1, w))
  IN CASE Len(h) < 2 -> "unknown"
       [] Len(h) >= 2 /\ 100 * (recent - older) > 5 * older /\ older # 0 -> "improving"
       [] Len(h) >= 2 /\ 100 * (recent - older) < -5 * older /\ older # 0 -> "declining"
       [] OTHER -> "stable"
\* In parts of a percent as the slope: the last rate, seven steps on, in bounds.
PredictedParts(h) ==
  LET by == IF Len(h) < 2 THEN 1 ELSE SlopeBy(h) IN
  AtLeast(0, AtMost(100 * by, h[Len(h)] * by + 7 * SlopeParts(h)))
TrendAdvice(h, density) ==
  (IF TrendDirection(h) = "declining" THEN {"quality"} ELSE {})
  \cup (IF MetricTrend(h) = "declining" THEN {"pass rate"} ELSE {})
  \cup (IF MetricTrend(density) = "increasing" THEN {"defects"} ELSE {})
  \cup (IF PredictedParts(h) < 80 * (IF Len(h) < 2 THEN 1 ELSE SlopeBy(h)) THEN {"delay"} ELSE {})
AskTrend == \E h \in RateHistories : Ask("trend", h)

-----------------------------------------------------------------------------
(* RiskScoringTool: five dimensions in thousandths, and what they weigh in  *)
(* hundredths.                                                              *)

ComplexityOf  == [low |-> 200, medium |-> 500, high |-> 800, critical |-> 1000]
CriticalityOf == [low |-> 200, medium |-> 400, high |-> 700, critical |-> 1000]
Dependencies(f) == AtMost(1000, 100 * f.dependencies)
DimensionScores(f) ==
  [technical  |-> (4 * ComplexityOf[f.complexity] + 30 * (100 - f.coverage) + 3 * Dependencies(f)) \div 10,
   business   |-> CriticalityOf[f.criticality],
   schedule   |-> 300 + (7 * ComplexityOf[f.complexity]) \div 10,
   resource   |-> 300 + (7 * Dependencies(f)) \div 10,
   compliance |-> 300]
FeatureRisk(f) ==
  LET d == DimensionScores(f) IN
  30 * d.technical + 25 * d.business + 20 * d.schedule + 15 * d.resource + 10 * d.compliance
FeatureLevel(f) ==
  LET r == FeatureRisk(f) IN IF r >= 80000 THEN 4 ELSE IF r >= 60000 THEN 3
    ELSE IF r >= 40000 THEN 2 ELSE 1
RiskFactors(f) ==
  (IF f.complexity \in {"high", "critical"} THEN {"complexity"} ELSE {})
    \cup (IF f.coverage < 70 THEN {"coverage"} ELSE {})
  \cup (IF f.dependencies > 5 THEN {"dependencies"} ELSE {})
    \cup (IF f.criticality = "critical" THEN {"business"} ELSE {})
Mitigations(f) ==
  (IF f.coverage < 80 THEN {"coverage"} ELSE {}) \cup (RiskFactors(f) \ {"coverage"})
  \cup (IF FeatureRisk(f) > 70000 THEN {"defer"} ELSE {})
AskRisk == \E f \in Features : Ask("risk", f)

-----------------------------------------------------------------------------
(* ReleaseReadinessTool, in thousandths. The quality is read from a key     *)
(* that nothing in the program writes; the rest is fixed.                   *)

QualityScore == 825
FixedScores  == [testing |-> 880, security |-> 900, performance |-> 850, business |-> 800]
ReadinessScore(quality) ==
  (35 * quality + 25 * FixedScores.testing + 20 * FixedScores.security
   + 10 * FixedScores.performance + 10 * FixedScores.business) \div 100
ReadinessLevel(score) ==
  CASE score >= 950 -> "excellent" [] score \in 850 .. 949 -> "ready"
    [] score \in 700 .. 849 -> "conditional"
    [] score \in 500 .. 699 -> "not_ready" [] OTHER -> "blocked"
ReadyForRelease(quality) == ReadinessScore(quality) >= 800
ReadinessBlockers(quality) ==
  (IF quality < 500 THEN {"quality"} ELSE {}) \cup {d \in DOMAIN FixedScores : FixedScores[d] < 500}
AskReadiness == Ask("readiness", QualityScore)     \* the same, whatever the session's tests did

Next == AskProfile \/ AskTrace \/ AskPrediction \/ AskTrend \/ AskRisk \/ AskReadiness
ToolSpec == Init /\ [][Next]_toolVars

-----------------------------------------------------------------------------
(* Properties *)

Twice(t) == tool = t /\ asked = 2

\* Where no reply came earlier than that of the profile before, the grade is no
\* better, by the mean and the tail, and the profile before shows no regression
\* from it; of two endpoints only one that fails is a bottleneck
\* (_calculate_grade, _compare_baseline, _detect_bottlenecks).
SlowerNotBetter ==
  Twice("profile") =>
    /\ (\A e, i \in 1 .. 2 : Latency(given[e][i]) >= Latency(earlier[e][i])) =>
         /\ PerformanceGrade(given) <= PerformanceGrade(earlier)
         /\ LET s == Latencies(AllReplies(given)) IN
            ~RegressionDetected(earlier, [avg |-> Mean(s), p95 |-> Percentile(95, s)])
    /\ Bottlenecks(given) = {e \in 1 .. 2 : ErrorCount(given[e]) > 0}

\* Each requirement with fewer than two tests is one gap, those of the higher
\* priority first, and nothing else is; where there is no advice each defect and
\* four fifths of the requirements have a test (_identify_coverage_gaps).
GapsComplete ==
  tool = "trace" =>
    LET gaps == CoverageGaps(given) IN
    /\ \A r \in {given[i] : i \in DOMAIN given} :
         Cardinality({i \in DOMAIN gaps : gaps[i] = r})
           = IF Cardinality(Linked(r)) < 2
             THEN Cardinality({i \in DOMAIN given : given[i] = r}) ELSE 0
    /\ \A i, j \in DOMAIN gaps : i < j
         => PriorityScore[gaps[i].priority] >= PriorityScore[gaps[j].priority]
    /\ \A w \in TestCases \cup {0} : TraceAdvice(given, {[words |-> {w}]}) = {}
         => w # 0 /\ 5 * CoveredCount(given) >= 4 * Len(given)

\* A component that is older, more complex, less covered and has more bugs than
\* at the prediction before is not predicted fewer defects, nor is a feature that
\* is worse in everything of a lower risk (_calculate_component_risk,
\* _calculate_feature_risk).
WorseNotSafer ==
  /\ Twice("prediction") /\ given.days >= earlier.days /\ given.cyclomatic >= earlier.cyclomatic
     /\ given.coverage <= earlier.coverage /\ given.bugs >= earlier.bugs
     /\ given.lines = earlier.lines
     /\ given.changes = earlier.changes /\ given.authors = earlier.authors
     /\ given.byExperienced = earlier.byExperienced
       => PredictedDefects(given) >= PredictedDefects(earlier)
          /\ DistributionBucket(given) >= DistributionBucket(earlier)
          /\ RiskReasons(earlier) \subseteq RiskReasons(given)
  /\ Twice("risk") /\ ComplexityOf[given.complexity] >= ComplexityOf[earlier.complexity]
     /\ CriticalityOf[given.criticality] >= CriticalityOf[earlier.criticality]
     /\ given.coverage <= earlier.coverage /\ given.dependencies >= earlier.dependencies
       => FeatureLevel(given) >= FeatureLevel(earlier)
         /\ Mitigations(earlier) \subseteq Mitigations(given)

\* The forecast goes where the trend is said to go: it is below the last rate of
\* an improving history at its bound alone (_predict_future_quality).
ForecastAgrees ==
  tool = "trend" /\ given # <<>> =>
    LET by == IF Len(given) < 2 THEN 1 ELSE SlopeBy(given)  now == given[Len(given)] * by IN
    /\ TrendDirection(given) = "improving" => PredictedParts(given) >= now
    /\ TrendDirection(given) = "declining" => PredictedParts(given) <= now
         /\ "quality" \in TrendAdvice(given, given)

\* Whatever the quality that is read were, a release with a blocker would not be
\* called ready (_run, _identify_blockers).
BlockedNotReady ==
  tool = "readiness" =>
    \A q \in 0 .. 1000 : ReadinessBlockers(q) # {}
      => ~ReadyForRelease(q) /\ ReadinessLevel(ReadinessScore(q)) # "ready"
=============================================================================
