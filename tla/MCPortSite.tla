----------------------------- MODULE MCPortSite -----------------------------
(* The rest of the Python port: models and definitions of agents, sessions, *)
(* API keys, events, the dashboard, registrations elsewhere, the agents'    *)
(* tasks and their tools. None shares state with another but what its       *)
(* module gives it as input, so each is checked by itself: part names the   *)
(* one that runs. Test runs are checked twice: two runs and one report, and *)
(* two reporters whose reports overlap.                                     *)
EXTENDS Integers, Sequences, FiniteSets, TLC

CONSTANT Parts
CONSTANTS Callers, Threshold, MaxFaults  \* LlmCall
CONSTANTS Names, ModelRoles  \* ModelManager
CONSTANTS DefKeys, PresetKeys, Contents, Saved, MaxVersions, CacheTTL, CacheMax,
          LastNow, MaxWrites, MaxReads, MaxRestarts  \* PortDefinitions
CONSTANTS Requests, AccessTime, RefreshTime, BlackTime,
          MaxAttempts, MaxTokens, MaxLosses  \* PortTokens
CONSTANTS Keys, MaxDropped  \* PortAccounts
CONSTANTS Conns, MaxEvents, ReplayLimit  \* Realtime
CONSTANTS Watchers, Tasks, Sessions, CacheTime, MaxRead, MaxChanges  \* Monitor
CONSTANTS AgentKeys, StaticKeys, Admins, MaxIds, MaxAsked, MaxMishaps  \* AgentRegistration
CONSTANTS Roles, Children, Kinds, MaxTasks, MaxCrashes  \* AgentWorker
CONSTANTS Scenarios, CrewSuites, Errors, SeniorResults, RawResults, Reporters,
          MaxRuns, MaxReports, MaxTwice  \* TestRounds
CONSTANTS Executions, MaxExecutions, MaxAnalyses  \* FlakyTests
CONSTANTS Replies, Requirements, TestCases, Components, RateHistories, Features  \* ReleaseTools

\* The times and limits of the code: an access token does not outlive its blacklist key,
\* and somebody may log in.
ASSUME SiteTimes ==
  /\ AccessTime \in Nat /\ RefreshTime \in Nat /\ BlackTime \in Nat /\ AccessTime <= BlackTime
  /\ MaxAttempts \in Nat \ {0} /\ MaxTokens \in Nat

\* Some failures open a breaker, and calls are finitely many at once.
ASSUME SiteCalls == Threshold \in Nat \ {0} /\ IsFiniteSet(Callers)

\* No provider bears the name of a completion's outcome.
ASSUME SiteNames == {"failed", "none"} \cap Names = {}

\* The client's connections come one after another, and a replay sends something.
ASSUME SiteConns == Conns \subseteq Int /\ ReplayLimit \in Nat \ {0}

\* Sessions and tasks in Redis are finitely many, and times are numbers.
ASSUME SiteCache ==
  IsFiniteSet(Sessions) /\ IsFiniteSet(Tasks) /\ CacheTime \in Nat /\ MaxRead \in Nat

\* There is something to define, none of it half a file; what there is at first is finite;
\* and the cache's time is some.
ASSUME SiteDefinitions ==
  /\ Contents # {} /\ "half" \notin Contents /\ CacheTTL \in Nat \ {0}
  /\ Saved \subseteq Nat
  /\ IsFiniteSet(Saved) /\ IsFiniteSet(DefKeys) /\ IsFiniteSet(PresetKeys)

\* Suites and results are lists, and what a result counts are numbers.
ASSUME SiteRounds ==
  /\ CrewSuites \subseteq Seq([type : STRING, priority : STRING, auth : BOOLEAN])
  /\ RawResults \subseteq Seq([raw : [total : Nat, passed : Nat, failed : Nat]])

\* The server is no administrator, and has the agents with heartbeats among its agents.
ASSUME SiteAgents == "server" \notin Admins /\ StaticKeys \subseteq AgentKeys

VARIABLE part
VARIABLES service, budget, at, reservation, reserved, orphans, spent, answer,
          model, faults
VARIABLES providers, primary, fallbacks, special, gateway, request
VARIABLES disk, job, listing, scan, shown, factory, registry, export, package,
          clock, writes, reads, restarts, since, owed, pruned, cut
VARIABLES tokAt, token, handedOut, life, black, refresh, attempts, expiring, let,
          out, closed, ended, made, losses
VARIABLES byHash, byId, index, making, revoking, keysTold, revoked, idsListing,
          listed, due, dropped
VARIABLES link, sockets, subs, handler, toReplay, pubsub, stream, published,
          unbuffered, sending, received, lastSeen, firstSeen, broken
VARIABLES status, task, cache, watch, lastTrue, session, sessionScan, pass,
          metrics, changes
VARIABLES server, op, calls, registered, advertised, methods, mcp, daimon,
          elsewhere, heartbeat, beat, lastId, excused, refusedBeat, requested,
          mishaps
VARIABLES role, proc, holder, signalled, stop, channel, broker, child, inLoop,
          value, notified, answered, sent, tasks, crashes, assessed, verdicts
VARIABLES run, resultKeys, reporter, rounds, reportsTold, begun, twice
VARIABLES executions, last, before, quarantined, record
VARIABLES tool, given, earlier, asked

llmVars == <<service, budget, at, reservation, reserved, orphans, spent, answer,
             model, faults>>
modelsVars == <<providers, primary, fallbacks, special, gateway, request>>
definitionsVars == <<disk, job, listing, scan, shown, factory, registry, export,
                     package, clock, writes, reads, restarts, since, owed, pruned,
                     cut>>
tokensVars == <<tokAt, token, handedOut, life, black, refresh, attempts, expiring,
                let, out, closed, ended, made, losses>>
accountsVars == <<byHash, byId, index, making, revoking, keysTold, revoked,
                  idsListing, listed, due, dropped>>
realtimeVars == <<link, sockets, subs, handler, toReplay, pubsub, stream,
                  published, unbuffered, sending, received, lastSeen, firstSeen,
                  broken>>
monitorVars == <<status, task, cache, watch, lastTrue, session, sessionScan,
                 pass, metrics, changes>>
registrationVars == <<server, op, calls, registered, advertised, methods, mcp,
                      daimon, elsewhere, heartbeat, beat, lastId, excused,
                      refusedBeat, requested, mishaps>>
workerVars == <<role, proc, holder, signalled, stop, channel, broker, child,
                inLoop, value, notified, answered, sent, tasks, crashes, assessed,
                verdicts>>
roundsVars == <<run, resultKeys, reporter, rounds, reportsTold, begun, twice>>
flakyVars == <<executions, last, before, quarantined, record>>
releaseVars == <<tool, given, earlier, asked>>

Llm         == INSTANCE LlmCall
Models      == INSTANCE ModelManager WITH Roles <- ModelRoles
Defs        == INSTANCE PortDefinitions
Tokens      == INSTANCE PortTokens WITH at <- tokAt, given <- handedOut
Accounts    == INSTANCE PortAccounts WITH listing <- idsListing, told <- keysTold
Events      == INSTANCE Realtime WITH
                 since <- firstSeen, cut <- broken, got <- received, last <- lastSeen
Dash        == INSTANCE Monitor WITH scan <- sessionScan
Registry    == INSTANCE AgentRegistration WITH listed <- elsewhere, asked <- requested
Worker      == INSTANCE AgentWorker
\* Test runs and reports of some reporters, up to so many.
Rounds(who, cap) ==
  INSTANCE TestRounds WITH
    told <- reportsTold, stored <- resultKeys, runs <- rounds, Reporters <- who,
    MaxRuns <- cap.runs, MaxReports <- cap.reports, MaxTwice <- cap.twice
Limits   == [runs |-> MaxRuns, reports |-> MaxReports, twice |-> MaxTwice]
Pair    == {"p", "q"}
Overlap == [runs |-> 1, reports |-> 2, twice |-> 0]
Flaky       == INSTANCE FlakyTests
Release     == INSTANCE ReleaseTools

----------------------------------------------------------------------------
(* Inputs the components are given *)

Test(t, a) == [type |-> t, priority |-> "high", auth |-> a]
MCSuites  == {<<Test("ui", TRUE), Test("e2e", FALSE)>>}
MCErrors  == {{}, {"authentication", "ui_elements"}}
MCSeniors == {[areas |-> 1, confidence |-> 60, complex |-> TRUE]}
MCRaws    == {<<>>, <<[raw |-> [total |-> 2, passed |-> 2, failed |-> 0]]>>}

Execution(f, e, p, w) ==
  [failed |-> f, error |-> e, stamp |-> [part |-> p, week |-> w]]
MCExecutions ==
  {Execution(FALSE, "none", "none", "none"), Execution(FALSE, "none", "morning", "weekday"),
   Execution(TRUE, "timeout", "morning", "weekend"), Execution(TRUE, "element", "none", "weekend"),
   Execution(TRUE, "none", "evening", "weekday")}

Reply(ms, f) == [ms |-> ms, failed |-> f]
MCReplies == {Reply(90, "no"), Reply(400, "no"), Reply(150, "answered"), Reply(1, "unanswered")}
Requirement(i, p, n) == [id |-> i, priority |-> p, named |-> n]
MCRequirements == UNION {[1 .. n ->
  {Requirement(TRUE, "critical", {1}), Requirement(TRUE, "medium", {}),
   Requirement(TRUE, "high", {1, 2}),
   Requirement(FALSE, "high", {}), Requirement(TRUE, "high", {2})}] : n \in 1 .. 2}
MCComponents == [changes : {0, 6}, days : {30, 181}, cyclomatic : {5, 20}, lines : {100, 1000},
                 authors : {1}, byExperienced : {0, 2}, coverage : {20, 90}, bugs : {1, 6}]
MCRates    == UNION {[1 .. n -> {0, 80, 90}] : n \in 1 .. 3} \cup {<<5, 5, 5, 5, 5, 5, 5, 9>>}
MCFeatures == [complexity : {"low", "high", "critical"}, coverage : {50, 90}, dependencies : {2, 9},
               criticality : {"low", "critical"}]

----------------------------------------------------------------------------
Init ==
  /\ part \in Parts
  /\ Llm!Init /\ Models!Init /\ Defs!Init /\ Tokens!Init
  /\ Accounts!Init /\ Events!Init /\ Dash!Init /\ Registry!Init
  /\ Worker!Init /\ Flaky!Init /\ Release!Init
  /\ IF part = "reporting" THEN Rounds(Pair, Overlap)!Init ELSE Rounds(Reporters, Limits)!Init

Only(p) ==
  /\ part = p /\ UNCHANGED part
  /\ IF p = "llm" THEN TRUE ELSE UNCHANGED llmVars
  /\ IF p = "models" THEN TRUE ELSE UNCHANGED modelsVars
  /\ IF p = "definitions" THEN TRUE ELSE UNCHANGED definitionsVars
  /\ IF p = "tokens" THEN TRUE ELSE UNCHANGED tokensVars
  /\ IF p = "accounts" THEN TRUE ELSE UNCHANGED accountsVars
  /\ IF p = "realtime" THEN TRUE ELSE UNCHANGED realtimeVars
  /\ IF p = "monitor" THEN TRUE ELSE UNCHANGED monitorVars
  /\ IF p = "registration" THEN TRUE ELSE UNCHANGED registrationVars
  /\ IF p = "worker" THEN TRUE ELSE UNCHANGED workerVars
  /\ IF p \in {"rounds", "reporting"} THEN TRUE ELSE UNCHANGED roundsVars
  /\ IF p = "flaky" THEN TRUE ELSE UNCHANGED flakyVars
  /\ IF p = "release" THEN TRUE ELSE UNCHANGED releaseVars

Next ==
  \/ Only("llm") /\ Llm!Next
  \/ Only("models") /\ Models!Next
  \/ Only("definitions") /\ Defs!Next
  \/ Only("tokens") /\ Tokens!Next
  \/ Only("accounts") /\ Accounts!Next
  \/ Only("realtime") /\ Events!Next
  \/ Only("monitor") /\ Dash!Next
  \/ Only("registration") /\ Registry!Next
  \/ Only("worker") /\ Worker!Next
  \/ Only("rounds") /\ Rounds(Reporters, Limits)!Next
  \/ Only("reporting") /\ Rounds(Pair, Overlap)!Next
  \/ Only("flaky") /\ Flaky!Next
  \/ Only("release") /\ Release!Next

vars == <<part, llmVars, modelsVars, definitionsVars, tokensVars, accountsVars, realtimeVars,
          monitorVars, registrationVars, workerVars, roundsVars, flakyVars, releaseVars>>

Spec == Init /\ [][Next]_vars

----------------------------------------------------------------------------

\* What a property asks where its component runs; elsewhere the component rests.
In(p, P) == part = p => P

\* A call to a model settles the tokens it reserved, its breakers count true, and it
\* fails only after every provider was asked (llm_integration.py, model_manager.py).
CallsSettled ==
  /\ In("llm", Llm!ReservationsSettled /\ Llm!TrippedByFailures)
  /\ In("models", Models!EveryFallbackAsked /\ Models!GatewayFirst)
\* A listing of definitions is not older than its cache's time, a rollback keeps what it
\* replaces, and half a file is left by a stop alone (webgui/routes/definitions.py).
DefinitionsKept ==
  In("definitions", Defs!ListingFresh /\ Defs!ReplacedKept
     /\ Defs!HalfOnlyByStop)
\* An access token that was logged out is not taken again and no refresh token of before a
\* logout is exchanged after it, a session that nobody ended survives refreshes that
\* overlap, and the attempts of a window are bounded (webgui/auth/token_manager.py).
SessionsKept ==
  In("tokens", Tokens!LoggedOutForGood /\ Tokens!SessionSurvives /\ Tokens!AttemptsBounded)
\* A key that is held and works is listed and can be revoked, though writes fail in
\* between and requests overlap (webgui/auth/api_keys.py).
AccountsKept == In("accounts", Accounts!KeysRevocable)
\* A client that comes back gets what it missed, and nothing is left of one that is
\* gone (webgui/realtime.py).
EventsReach == In("realtime", Events!NothingMissed /\ Events!GoneClean)
\* The dashboard shows what was true within its cache's time and lists what was there
\* throughout, and what the port calls registered elsewhere is (webgui/agent_monitor.py,
\* dashboard.py, config/agnos_agent_registration.py).
DashboardTrue ==
  /\ In("monitor", Dash!ShownRecently /\ Dash!ListedThroughout)
  /\ In("registration", /\ Registry!RegistrationAgreed
                        /\ Registry!StoppedCleanly /\ Registry!HeartbeatsKnown)
\* No task is lost, no result announced before it is stored, and no release let go by a
\* report over a high risk that was stored before it read the assessment (agents/base.py,
\* the agents' tasks).
WorkKept == In("worker", Worker!TasksKept /\ Worker!NotifiedStored /\ Worker!HighRiskStops)
\* The test tools' answers agree with each other, and change no better for the worse
\* (agents/junior/junior_qa.py, agents/analyst/qa_analyst.py).
ToolsAgree ==
  /\ In("flaky", Flaky!CountedIsListed /\ Flaky!RetriesFollowRate)
  /\ In("release", /\ Release!SlowerNotBetter /\ Release!GapsComplete /\ Release!WorseNotSafer
                   /\ Release!ForecastAgrees /\ Release!BlockedNotReady)
Counted(who, cap) ==
  /\ Rounds(who, cap)!RunAccounted
  /\ Rounds(who, cap)!FailuresReported
\* A test run accounts for its tests, and a report for the runs that were stored
\* (agents/junior/junior_qa.py, agents/analyst/qa_analyst.py).
RoundsCounted ==
  /\ In("reporting", Counted(Pair, Overlap))
  /\ In("rounds", Counted(Reporters, Limits))
\* Pruning deletes the oldest versions (agents/versioning.py:90).
OldestPruned == Defs!OldestPruned
=============================================================================
