------------------------------ MODULE TestRounds ------------------------------
(* A session's tests in the Python port: the junior agent builds a suite,   *)
(* orders it by risk and runs it (agents/junior/junior_qa.py), and the      *)
(* analyst gathers what is stored of the session and counts it              *)
(* (agents/analyst/qa_analyst.py, DataOrganizationReportingTool). Reports   *)
(* may be made at the same time, and the crews' models call the runner with *)
(* suites of their own.                                                     *)
(*                                                                          *)
(* Data abstracted: a test is its type, its priority and whether its name   *)
(* has "auth" in it; an error is the categories its words fall in. What the *)
(* agent marks and announces around a run is in AgentWorker.                *)
EXTENDS Integers, Sequences, FiniteSets

CONSTANTS Scenarios,      \* scenarios of the session that may be delegated
          CrewSuites,     \* suites that crews give the runner
          Errors,         \* sets of categories that an error message falls in
          SeniorResults, RawResults,    \* what else a report may be given
          Reporters,
          MaxRuns, MaxReports, MaxTwice    \* bounds

VARIABLES run,        \* the run of the regression tool that is under way
          stored,     \* results in Redis, by key
          reporter,   \* per reporter: what it does and has
          runs, told, \* history: runs that ended; reports
          begun, twice

roundVars == <<run, stored, reporter, runs, told, begun, twice>>

-----------------------------------------------------------------------------
(* The suite                                                                *)

Case(type, priority, auth) == [type |-> type, priority |-> priority, auth |-> auth]

BuildTestSuite(scenario) ==
  CASE scenario = "authentication" ->
         <<Case("functional", "high", FALSE), Case("functional", "high", FALSE),
           Case("integration", "medium", FALSE), Case("security", "high", FALSE)>>
    [] scenario = "checkout" ->
         <<Case("functional", "critical", FALSE), Case("integration", "high", FALSE),
           Case("performance", "medium", FALSE), Case("functional", "high", FALSE)>>
    [] OTHER ->
         <<Case("functional", "high", FALSE), Case("integration", "medium", FALSE),
           Case("performance", "low", FALSE)>>

\* In hundredths. The changes it is told of name no area that these tests have.
BaseRiskScore(t) ==
  (CASE t.type = "security" -> 90 [] t.type = "performance" -> 70 [] t.type = "integration" -> 60
     [] t.type = "ui" -> 30 [] OTHER -> 40)
  + (CASE t.priority = "critical" -> 30 [] t.priority = "high" -> 20 [] t.priority = "low" -> 0
     [] OTHER -> 10)
RiskScore(t) == IF BaseRiskScore(t) >= 99 THEN 100 ELSE BaseRiskScore(t) + 1

\* sorted() keeps the order of tests of one risk.
Optimized(tests) ==
  LET Before(i, j) == RiskScore(tests[i]) > RiskScore(tests[j])
                      \/ (RiskScore(tests[i]) = RiskScore(tests[j]) /\ i < j)
  IN [n \in DOMAIN tests |->
        tests[CHOOSE i \in DOMAIN tests : Cardinality({j \in DOMAIN tests : Before(j, i)}) = n - 1]]

-----------------------------------------------------------------------------
(* RegressionTestingTool: three groups of types, one after the other. A     *)
(* test of another type is counted and not run.                             *)

Ui   == {"ui", "e2e", "frontend"}
Api  == {"api", "integration", "backend"}
Unit == {"unit", "component"}
OfTypes(tests, types) ==
  LET of[n \in 0 .. Len(tests)] ==
        IF n = 0 THEN <<>>
        ELSE IF tests[n].type \in types THEN Append(of[n - 1], tests[n]) ELSE of[n - 1]
  IN of[Len(tests)]
ToRun(tests) == OfTypes(tests, Ui) \o OfTypes(tests, Api) \o OfTypes(tests, Unit)

NoRun == [on |-> FALSE, by |-> "nobody", tests |-> <<>>, left |-> <<>>, passed |-> 0,
          failed |-> <<>>]
Started(by, tests) ==
  [on |-> TRUE, by |-> by, tests |-> tests, left |-> ToRun(tests), passed |-> 0, failed |-> <<>>]

Key(scenario) == <<"junior", scenario>>
Idle == [pc |-> "idle", must |-> {}, took |-> <<>>, keys |-> {}, raw |-> <<>>,
         from |-> 0]     \* runs before it began

Init ==
  /\ run = NoRun /\ stored = <<>>
  /\ reporter = [p \in Reporters |-> Idle]
  /\ runs = <<>> /\ told = <<>> /\ begun = 0 /\ twice = 0

aside == <<reporter, told, begun, twice>>

\* execute_regression_test, up to the runner.
ExecuteRegression(scenario) ==
  /\ ~run.on /\ Len(runs) < MaxRuns
  /\ run' = Started(scenario, Optimized(BuildTestSuite(scenario)))
  /\ UNCHANGED <<stored, runs, aside>>
CrewRuns(tests) ==
  /\ ~run.on /\ Len(runs) < MaxRuns /\ run' = Started("crew", tests)
  /\ UNCHANGED <<stored, runs, aside>>

\* Each test passes, or fails with an error that the tool keeps.
RunPasses ==
  /\ run.on /\ run.left # <<>> /\ run' = [run EXCEPT !.left = Tail(@), !.passed = @ + 1]
  /\ UNCHANGED <<stored, runs, aside>>
RunFails(error) ==
  /\ run.on /\ run.left # <<>>
  /\ run' = [run EXCEPT !.left = Tail(@), !.failed = Append(@, [test |-> Head(run.left), error |-> error])]
  /\ UNCHANGED <<stored, runs, aside>>

\* The categories in the order of the tool's table, the first of the largest.
Categories == <<"authentication", "api_integration", "ui_elements", "data_validation">>
InCategory(failed, c) == Cardinality({i \in DOMAIN failed : c \in failed[i].error})
MostCommonCause(failed) ==
  LET largest == {i \in DOMAIN Categories : InCategory(failed, Categories[i]) > 0
                    /\ \A j \in DOMAIN Categories :
                         InCategory(failed, Categories[j]) <= InCategory(failed, Categories[i])}
  IN IF largest = {} THEN "none" ELSE Categories[CHOOSE i \in largest : \A j \in largest : i <= j]
DetectRegression(failed, tests) ==
  IF tests # <<>> THEN 5 * Len(failed) > Len(tests) ELSE Len(failed) > 3

Result ==
  [total |-> Len(run.tests), passed |-> run.passed, failed |-> run.failed,
   cause |-> MostCommonCause(run.failed), regression |-> DetectRegression(run.failed, run.tests)]

EndRun(stores) ==
  /\ run.on /\ run' = NoRun
  /\ runs' = Append(runs, [by |-> run.by, tests |-> run.tests, result |-> Result,
                           finished |-> run.left = <<>>, stored |-> stores])
  /\ UNCHANGED aside
Put(key, doc) == stored' = [k \in DOMAIN stored \cup {key} |-> IF k = key THEN doc ELSE stored[k]]

CrewTold == run.by = "crew" /\ run.left = <<>> /\ EndRun(FALSE) /\ UNCHANGED stored

\* The agent asks the root cause for its most common one, also where nothing
\* failed and there is none: it then raises, and stores nothing.
Recommendable == run.failed # <<>>
StoreResult ==
  /\ run.by # "crew" /\ run.left = <<>> /\ Recommendable
  /\ Put(Key(run.by), [junior |-> Result]) /\ EndRun(TRUE)
RecommendationsRaise ==
  /\ run.by # "crew" /\ run.left = <<>> /\ ~Recommendable
  /\ EndRun(FALSE) /\ UNCHANGED stored

\* The browser does not start, or has no page for the first test: this raises.
BrowserRaises ==
  /\ run.left # <<>> /\ Head(run.left).type \in Ui /\ run.passed + Len(run.failed) = 0
  /\ EndRun(FALSE) /\ UNCHANGED stored

\* The senior agent's result of a scenario is in Redis.
SeniorStores(scenario, doc) ==
  /\ <<"senior", scenario>> \notin DOMAIN stored /\ Put(<<"senior", scenario>>, [senior |-> doc])
  /\ UNCHANGED <<run, runs, aside>>

-----------------------------------------------------------------------------
(* A report. No agent writes the list of results that it looks for first:   *)
(* it scans the senior's keys and then the junior's. A scan may name a key  *)
(* twice, and need not name one that was added since.                       *)

SetReporter(p, r) == reporter' = [reporter EXCEPT ![p] = r]

Report(p, raw) ==
  /\ reporter[p].pc = "idle" /\ begun < MaxReports /\ begun' = begun + 1
  /\ SetReporter(p, [Idle EXCEPT !.pc = "scan", !.must = DOMAIN stored, !.raw = raw,
                     !.from = Len(runs)])
  /\ UNCHANGED <<run, stored, runs, told, twice>>

CollectAgentResults(p, key) ==
  /\ reporter[p].pc = "scan" /\ key \in DOMAIN stored
  /\ IF key[1] = "senior" THEN \A k \in reporter[p].keys : k[1] = "senior"
     ELSE \A k \in reporter[p].must \ reporter[p].keys : k[1] = "junior"
  /\ IF key \in reporter[p].keys THEN twice < MaxTwice /\ twice' = twice + 1 ELSE UNCHANGED twice
  /\ SetReporter(p, [reporter[p] EXCEPT !.took = Append(@, stored[key]), !.keys = @ \cup {key}])
  /\ UNCHANGED <<run, stored, runs, told, begun>>

\* (A mutant: the first page of the scan is taken for all of it.)
ScannedOnePage(p) == TRUE
Scanned(p) == reporter[p].must \subseteq reporter[p].keys

\* What is known of a result that the junior agent stored, or a caller gave.
Total(r)  == IF "junior" \in DOMAIN r THEN r.junior.total
  ELSE IF "raw" \in DOMAIN r THEN r.raw.total ELSE 0
Passed(r) == IF "junior" \in DOMAIN r THEN r.junior.passed
  ELSE IF "raw" \in DOMAIN r THEN r.raw.passed ELSE 0
Failed(r) == IF "junior" \in DOMAIN r THEN Len(r.junior.failed)
  ELSE IF "raw" \in DOMAIN r THEN r.raw.failed ELSE 0

AllResults(p) == reporter[p].took \o reporter[p].raw
SumOf(ns) == LET sum[n \in 0 .. Len(ns)] == IF n = 0 THEN 0 ELSE sum[n - 1] + ns[n] IN sum[Len(ns)]
CalculateMetrics(rs) ==
  [total |-> SumOf([n \in DOMAIN rs |-> Total(rs[n])]),
   passed |-> SumOf([n \in DOMAIN rs |-> Passed(rs[n])]),
   failed |-> SumOf([n \in DOMAIN rs |-> Failed(rs[n])])]

\* Findings by severity, as their numbers: areas of edge cases are critical, a
\* healing with little confidence and a failed test of "auth" high.
FailedAuth(r) ==
  IF "junior" \notin DOMAIN r THEN 0
  ELSE Cardinality({i \in DOMAIN r.junior.failed : r.junior.failed[i].test.auth})
Critical(r) == IF "senior" \in DOMAIN r THEN r.senior.areas ELSE 0
High(r)     == FailedAuth(r) + (IF "senior" \in DOMAIN r /\ r.senior.confidence < 70 THEN 1 ELSE 0)
Medium(r)   == (IF "junior" \in DOMAIN r THEN Len(r.junior.failed) - FailedAuth(r) ELSE 0)
               + (IF "senior" \in DOMAIN r /\ r.senior.complex THEN 1 ELSE 0)
CategorizeFindings(rs) ==
  [critical |-> SumOf([n \in DOMAIN rs |-> Critical(rs[n])]),
   high |-> SumOf([n \in DOMAIN rs |-> High(rs[n])]),
   medium |-> SumOf([n \in DOMAIN rs |-> Medium(rs[n])])]
\* Of the medium ones, the first five.
BuildActionItems(f) == [senior |-> f.critical + f.high, junior |-> IF f.medium > 5 THEN 5
                        ELSE f.medium]

\* The metrics of the report before are looked up by text in a hash whose keys
\* come back as bytes: none is found, and the trend told is always that of a
\* first session. So what a report leaves there is not kept here.
ReadPrevious(p) ==
  /\ reporter[p].pc = "scan" /\ Scanned(p)
  /\ SetReporter(p, [reporter[p] EXCEPT !.pc = "compare"])
  /\ UNCHANGED <<run, stored, runs, told, begun, twice>>

StoreMetrics(p) ==
  /\ reporter[p].pc = "compare"
  /\ LET f == CategorizeFindings(AllResults(p)) IN
     told' = Append(told, [metrics |-> CalculateMetrics(AllResults(p)), findings |-> f,
                           items |-> BuildActionItems(f), raw |-> reporter[p].raw,
                           from |-> reporter[p].from, to |-> Len(runs)])
  /\ SetReporter(p, Idle)
  /\ UNCHANGED <<run, stored, runs, begun, twice>>

Next ==
  \/ \E s \in Scenarios : ExecuteRegression(s) \/ (\E doc \in SeniorResults : SeniorStores(s, doc))
  \/ \E tests \in CrewSuites : CrewRuns(tests)
  \/ \E error \in Errors : RunFails(error)
  \/ RunPasses \/ CrewTold \/ StoreResult \/ RecommendationsRaise \/ BrowserRaises
  \/ \E p \in Reporters :
       \/ \E raw \in RawResults : Report(p, raw)
       \/ \E key \in DOMAIN stored : CollectAgentResults(p, key)
       \/ ReadPrevious(p) \/ StoreMetrics(p)
RoundSpec == Init /\ [][Next]_roundVars

-----------------------------------------------------------------------------
(* Properties *)

\* A run that came to its end has run each of its tests once, but those of the
\* types that no group has, and no category has more of its failures than the
\* cause it names (RegressionTestingTool._run).
RunAccounted ==
  \A i \in DOMAIN runs : runs[i].finished =>
    LET r == runs[i].result IN
    /\ r.passed + Len(r.failed) = Cardinality({n \in DOMAIN runs[i].tests :
                                               runs[i].tests[n].type \in Ui \cup Api \cup Unit})
    /\ \A c \in {Categories[n] : n \in DOMAIN Categories} :
         InCategory(r.failed, c) > 0 => InCategory(r.failed, c) <= InCategory(r.failed, r.cause)

\* The runs whose results were in Redis when n runs had ended.
LastStored(n) ==
  {i \in 1 .. n : runs[i].stored /\ \A j \in i + 1 .. n :
   ~(runs[j].stored /\ runs[j].by = runs[i].by)}

\* A report counts the failures that were stored when it began and were not
\* replaced before it ended, and counts them once where nothing was stored
\* meanwhile and the scan named no key twice (_collect_agent_results).
FailuresReported ==
  \A n \in DOMAIN told :
    LET t == told[n]
        FailedIn(is) ==
          SumOf([i \in DOMAIN runs |-> IF i \in is THEN Len(runs[i].result.failed) ELSE 0])
          + SumOf([i \in DOMAIN t.raw |-> Failed(t.raw[i])])
    IN /\ t.metrics.failed >= FailedIn(LastStored(t.from) \cap LastStored(t.to))
       /\ t.from = t.to /\ twice = 0 => t.metrics.failed = FailedIn(LastStored(t.from))
=============================================================================
