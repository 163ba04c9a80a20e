---------------------------- MODULE MCPortCrews ----------------------------
(* The crews of the Python port and what comes of them: the fleet's crews   *)
(* and nodes, placement, GPUs, the runs of a server of its own, the alerts, *)
(* the reports and the audit of a site that agents make.  Each is checked   *)
(* by itself: part names the one that runs, and the others rest.            *)
(* Fleet crews are checked with two agents, and with one that checkpoints;  *)
(* runs with two crews of one agent, and with one crew of two agents whose  *)
(* commands to Redis may fail: each pair is two uses of one instance.       *)
EXTENDS Integers, Sequences, FiniteSets, TLC

CONSTANT Parts
CONSTANTS n1, n2, a1, a2, NoDoc, NoRecord
CONSTANTS Nodes, Agents, First, MaxCheckpoints            \* FleetCrew
CONSTANTS RegNodes, NodeTTL, MaxNow                       \* FleetRegistry
CONSTANTS FleetNodes, NodeKinds, PlacedAgents, Penalty    \* FleetPlacement
CONSTANTS GpuCrews, GpuDevices, GpuTeam, MaxMem, Nominal  \* GpuSchedule
CONSTANTS Crews, Team, Devices, Hidden, Unset, MaxFailures \* PortCrewRun
CONSTANTS Watched, Ways, Cooldown, EvictAge, EvictEvery, MaxEntries, MaxTries,
          MaxHappenings                                   \* Alerts
CONSTANTS ReportSessions, AgentWrites, Types, Channels, MaxRetries, MaxSecond,
          MaxCustom, MaxJobs, MaxAsked                    \* PortReports
CONSTANTS Sites, MaxOutages                               \* SecurityAudit

\* A node may miss a heartbeat before it counts as dead; a team runs from its first agent
\* on; what stands for nothing in Redis is no value there.
ASSUME NodeTimes   == NodeTTL \in Nat /\ NodeTTL > 1
ASSUME NodeRecords == NoRecord \notin Nat \cup [beat : Nat, expires : Nat]
ASSUME CrewPlaced  == First \in Nodes
ASSUME RunTeams    == Team \subseteq Nat \ {0} /\ \A k \in Team : 1..k \subseteq Team
ASSUME RunCrews    == IsFiniteSet(Crews)

\* Nodes are listed in some order, agents are placed in theirs and are some (a crew without
\* agents has failed before, webgui/routes/crews.py:596).
ASSUME FleetPlaces ==
  /\ FleetNodes \subseteq Nat \ {0} /\ IsFiniteSet(FleetNodes) /\ Penalty \in Int
  /\ NodeKinds \subseteq [group : STRING, ready : BOOLEAN, gpus : Nat, cores : Nat, free : Int,
                          agents : Nat]
  /\ IsFiniteSet(PlacedAgents) /\ PlacedAgents # {}
  /\ PlacedAgents = 1 .. Cardinality(PlacedAgents)

\* Agents are given devices in their order; a unit of memory is some megabytes.
ASSUME GpuHost ==
  /\ GpuDevices \subseteq Nat /\ IsFiniteSet(GpuDevices) /\ MaxMem \in Nat /\ Nominal \in Nat \ {0}
  /\ IsFiniteSet(GpuTeam) /\ GpuTeam = 1 .. Cardinality(GpuTeam)

\* A key is kept no less than the cooldown.
ASSUME SiteAlerts ==
  /\ Cooldown \in Nat /\ EvictAge \in Nat /\ Cooldown <= EvictAge /\ MaxEntries \in Nat

\* Channels are told one after the other, and each is tried.
ASSUME SiteReports ==
  /\ MaxRetries \in Nat \ {0} /\ Channels \in Seq(STRING)
  /\ \A i \in DOMAIN Channels : Channels[i] # "idle"
  /\ \A i, j \in DOMAIN Channels : Channels[i] = Channels[j] => i = j

\* A site's headers are among those that are looked for, two of them name the server.
ASSUME SiteAnswers ==
  Sites \subseteq [hsts : BOOLEAN, headers : 0 .. 6, tls : STRING, cors : BOOLEAN,
                   named : 0 .. 2, xss : BOOLEAN, listing : BOOLEAN]

VARIABLE part
VARIABLES doc, hash, sub, inbox, counter, seen, pc, copy, expected, results, verdict,
          checking, asking, hpc, hmsg, hcopy, offered, work, up, late
VARIABLES now, record, nodeSet, groupSet, proc, beat, todo, excused, left,
          epc, ids, found, cut, started
VARIABLES fleet, call, placement
VARIABLES probed, known, plan, owner, held
VARIABLES crewRec, taskRec, runPc, want, back, unwritten, outcomes, device, next, env,
          saved, slots, active, unplaced, lost, failures, told, cpc
VARIABLES world, monitor, compared, fired, heard, polled, accounted, happened
VARIABLES kept, gathering, second, files, onDisk, reportsMade, custom, jobAt, result, tries,
          deliveries, taken, refused, jobRuns
VARIABLES site, siteUp, auditStep, vulnerabilities, report, consulted, deaf, outages

crewVars  == <<doc, hash, sub, inbox, counter, seen, pc, copy, expected, results, verdict,
               checking, asking, hpc, hmsg, hcopy, offered, work, up, late>>
regVars   == <<now, record, nodeSet, groupSet, proc, beat, todo, excused, left,
               epc, ids, found, cut, started>>
placeVars == <<fleet, call, placement>>
gpuVars   == <<probed, known, plan, owner, held>>
runVars   == <<crewRec, taskRec, runPc, want, back, unwritten, outcomes, device, next, env,
               saved, slots, active, unplaced, lost, failures, told, cpc>>
alertsVars == <<world, monitor, compared, fired, heard, polled, accounted, happened>>
reportsVars == <<kept, gathering, second, files, onDisk, reportsMade, custom, jobAt,
                 result, tries, deliveries, taken, refused, jobRuns>>
auditVars == <<site, siteUp, auditStep, vulnerabilities, report, consulted, deaf, outages>>

Home      == (a1 :> n1) @@ (a2 :> n2)

Crew(team, marks) == INSTANCE FleetCrew WITH Agents <- team, MaxCheckpoints <- marks
Registry    == INSTANCE FleetRegistry WITH Nodes <- RegNodes
Placement   == INSTANCE FleetPlacement
Gpus        == INSTANCE GpuSchedule
Runs(crews, team, devices, faults) ==
  INSTANCE PortCrewRun WITH pc <- runPc, owed <- unwritten, results <- outcomes,
    Crews <- crews, Team <- team, Devices <- devices, MaxFailures <- faults

Alerting    == INSTANCE Alerts WITH Agents <- Watched, before <- compared
Reports     == INSTANCE PortReports WITH
                 told <- deliveries, stored <- onDisk, answered <- reportsMade, runs <- jobRuns,
                 MaxRuns <- MaxJobs
Audit       == INSTANCE SecurityAudit WITH
                 up <- siteUp, step <- auditStep, got <- vulnerabilities

\* One agent of a fleet's crew, and one crew of a server's.
LoneTeam == {a2}
OneCrew  == {"c1"}
TwoInIt  == {1, 2}
TwoGpus  == {"g0", "g1"}

ASSUME CrewDocuments ==
  \A team \in {Agents, LoneTeam} :
    NoDoc \notin [status : {"pending", "running", "completed", "partial"},
                 placed : [team -> {"pending", "completed", "failed"}]]

\* A session has a name, and a result lists severities, one after the other.
ASSUME SiteResults ==
  "" \notin ReportSessions /\ \A k \in DOMAIN AgentWrites : AgentWrites[k] \subseteq Seq(STRING)

----------------------------------------------------------------------------
(* Inputs the components are given *)

\* The analyst's assessment lists what its own checks find; its mark, and a model's answer,
\* list nothing, and the other agents keep what they find deeper.
MCWrites ==
  (<<"analyst", "security">> :> {<<>>, <<"high", "medium">>})
  @@ (<<"performance", "resilience">> :> {<<>>})

MCNodeKinds ==
  [group : {"a"}, ready : {TRUE}, gpus : {0}, cores : {1, 2}, free : {0}, agents : {0, 2}]
    \cup {[group |-> "b", ready |-> TRUE, gpus |-> u, cores |-> 1, free |-> 3 - u, agents |-> l] :
            u \in {1, 2}, l \in {0, 1}}
    \cup {[group |-> "a", ready |-> FALSE, gpus |-> 2, cores |-> 2, free |-> 2, agents |-> 0]}

MCChannels == <<"webhook", "slack">>
MCWays     == <<"webhook">>

MCSites == {s \in [hsts : BOOLEAN, headers : {0, 6}, tls : {"none", "good"}, cors : BOOLEAN,
                   named : {0, 2}, xss : BOOLEAN, listing : {TRUE}] :
              s.cors = s.xss /\ (s.named = 2 <=> s.xss) /\ (s.headers = 6 <=> s.hsts)
                /\ (s.hsts => s.tls = "good")}

----------------------------------------------------------------------------
Init ==
  /\ part \in Parts
  /\ IF part = "checkpoint" THEN Crew(LoneTeam, 1)!Init ELSE Crew(Agents, MaxCheckpoints)!Init
  /\ Registry!Init /\ Placement!Init /\ Gpus!Init
  /\ Alerting!Init /\ Reports!Init /\ Audit!Init
  /\ IF part = "alone" THEN Runs(OneCrew, TwoInIt, TwoGpus, 2)!Init
     ELSE Runs(Crews, Team, Devices, MaxFailures)!Init

Only(p) ==
  /\ part = p /\ UNCHANGED part
  /\ IF p \in {"crew", "checkpoint"} THEN TRUE ELSE UNCHANGED crewVars
  /\ IF p = "registry" THEN TRUE ELSE UNCHANGED regVars
  /\ IF p = "placement" THEN TRUE ELSE UNCHANGED placeVars
  /\ IF p = "gpus" THEN TRUE ELSE UNCHANGED gpuVars
  /\ IF p \in {"runs", "alone"} THEN TRUE ELSE UNCHANGED runVars
  /\ IF p = "alerts" THEN TRUE ELSE UNCHANGED alertsVars
  /\ IF p = "reports" THEN TRUE ELSE UNCHANGED reportsVars
  /\ IF p = "audit" THEN TRUE ELSE UNCHANGED auditVars

Next ==
  \/ Only("crew") /\ Crew(Agents, MaxCheckpoints)!Next
  \/ Only("checkpoint") /\ Crew(LoneTeam, 1)!Next
  \/ Only("registry") /\ Registry!Next
  \/ Only("placement") /\ Placement!Next
  \/ Only("gpus") /\ Gpus!Next
  \/ Only("runs") /\ Runs(Crews, Team, Devices, MaxFailures)!Next
  \/ Only("alone") /\ Runs(OneCrew, TwoInIt, TwoGpus, 2)!Next
  \/ Only("alerts") /\ Alerting!Next
  \/ Only("reports") /\ Reports!Next
  \/ Only("audit") /\ Audit!Next

vars == <<part, crewVars, regVars, placeVars, gpuVars, runVars, alertsVars, reportsVars,
          auditVars>>

Spec == Init /\ [][Next]_vars

----------------------------------------------------------------------------

\* A fleet's crew is completed only when each of its agents was, its document says no
\* more than the hash of its agents does, and the results handed to the caller cover
\* every agent (config/fleet/coordinator.py, state.py).
CrewHonestIn(team, marks) ==
  /\ Crew(team, marks)!CompletedTrue /\ Crew(team, marks)!HashAhead
  /\ Crew(team, marks)!EveryAgentAnswered
CrewHonest ==
  IF part = "checkpoint" THEN CrewHonestIn(LoneTeam, 1) ELSE CrewHonestIn(Agents, MaxCheckpoints)
\* A stopped node counts as alive no longer than its time to live, and a punctual one
\* stays in both listings (config/fleet/registry.py).
NodesListed == Registry!GoneInTime /\ Registry!PunctualListed
\* A placement or a GPU plan is possible and keeps its policy, or says that it is not
\* (config/fleet/placement.py, config/gpu_scheduler.py).
PlacementSound ==
  Placement!PlacedOrTold /\ Placement!PolicyKept /\ Gpus!PlanFits /\ Gpus!StrictFirst
\* A crew's run ends with a true record, its callback told the end, its GPU slots given
\* back and the gauge right (webgui/routes/crews.py).
RunsSettledIn(crews, team, devices, faults) ==
  /\ Runs(crews, team, devices, faults)!CompletedHonest
  /\ Runs(crews, team, devices, faults)!EndedSettled
  /\ Runs(crews, team, devices, faults)!WebhookTellsEnd
  /\ Runs(crews, team, devices, faults)!SlotsReleased
  /\ Runs(crews, team, devices, faults)!GaugeCovers
RunsSettled ==
  IF part = "alone" THEN RunsSettledIn(OneCrew, TwoInIt, TwoGpus, 2)
  ELSE RunsSettledIn(Crews, Team, Devices, MaxFailures)
\* What a property asks where its component runs; elsewhere the component rests.
In(p, P) == part = p => P
\* Operators are told of what changes but not twice within a cooldown, what is told of a
\* delivery happened, and a summary asks for action on what is severe in what it read, or
\* says that it failed (shared/alerts.py, webgui/scheduled_reports.py, exports.py).
ReportsTrue ==
  /\ In("alerts", Alerting!ChangesTold /\ Alerting!CooldownKept)
  /\ In("reports", Reports!DeliveryTold /\ Reports!SevereMentioned)
\* Two agents that assess a site which answers agree, silence counts against a site as far
\* as the checks count it, and what to mend is ranked (agents/analyst/qa_analyst.py,
\* qa_security_compliance.py).
AuditAgrees == In("audit", Audit!ScoresAgree /\ Audit!SilenceCounted /\ Audit!RemediesRanked)
=============================================================================
