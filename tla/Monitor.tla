------------------------------ MODULE Monitor ------------------------------
(* What the web GUI of the Python port shows of agents and sessions: the    *)
(* agent monitor (webgui/agent_monitor.py) with its cached status, and the  *)
(* dashboard (webgui/dashboard.py) that scans Redis key by key. Both read   *)
(* while agents write.                                                      *)
(*                                                                          *)
(* Data abstracted: an agent's status and a session's status are all that   *)
(* is kept of their records; a task is its status. Times count in ticks;    *)
(* MaxRead bounds how long one reading of an agent takes.                   *)
EXTENDS Integers, FiniteSets

CONSTANTS Watchers,    \* requests that read an agent's status at once
          Tasks,       \* tasks of the agent
          Sessions,    \* sessions in Redis
          CacheTime,   \* ticks a status stays cached (cache_timeout)
          MaxRead,     \* bound: ticks between reading a status and caching it
          MaxChanges   \* bound: changes agents and sessions make

VARIABLES status,      \* agent:{name}:status, or "absent"
          task,        \* status of task:{name}:{id}, or "absent"
          cache,       \* agent_status:{name}: value and ticks it has left
          watch,       \* where each request is, what it has read and how long it has taken
          lastTrue,    \* ticks since the key last had each value
          session,     \* status of session:{id}:info, or "absent"
          scan,        \* the dashboard's pass: phase, how often a key is left to read, list
          pass,        \* history: sessions there, and busy, since it began; those there at
                       \* some time; whether no command failed; whether SCAN named a key twice
          metrics,     \* the counts of get_resource_metrics
          changes

monitorVars == <<status, task, cache, watch, lastTrue, session, scan, pass, metrics, changes>>
agentSide   == <<status, task, cache, watch, lastTrue>>
sessionSide == <<session, scan, pass, metrics>>

AgentStates   == {"absent", "idle", "busy"}
Shown         == {"offline", "idle", "busy"}
TaskStates    == {"absent", "pending", "in_progress", "completed", "failed"}
SessionStates == {"absent", "created", "testing", "completed"}
NoCache == [value |-> "none", ticks |-> 0]
Idle    == [step |-> "idle", value |-> "none", errors |-> 0, taken |-> 0]
Window  == CacheTime + MaxRead

NoScan  == [phase |-> "idle", left |-> [s \in Sessions |-> 0], list |-> {}]
NoPass  == [stayed |-> {}, busy |-> {}, seen |-> {}, whole |-> FALSE, twice |-> FALSE]
NoCount == [total |-> 0, active |-> 0]

Init ==
  /\ status = "absent" /\ task = [t \in Tasks |-> "absent"]
  /\ cache = NoCache /\ watch = [w \in Watchers |-> Idle]
  /\ lastTrue = [v \in Shown |-> IF v = "offline" THEN 0 ELSE Window + 1]
  /\ session = [s \in Sessions |-> "absent"]
  /\ scan = NoScan /\ pass = NoPass /\ metrics = NoCount /\ changes = 0

Change == changes < MaxChanges /\ changes' = changes + 1

------------------------------------------------------------------------------
(* The agents and the manager, which write the records (agents/base.py).    *)

Display(s) == IF s = "absent" THEN "offline" ELSE s

Report(s) ==
  /\ Change /\ s # status /\ status' = s
  /\ lastTrue' = [lastTrue EXCEPT ![Display(s)] = 0]
  /\ UNCHANGED <<task, cache, watch, sessionSide>>

Work(t, s) ==
  /\ Change /\ task' = [task EXCEPT ![t] = s]
  /\ UNCHANGED <<status, cache, watch, lastTrue, sessionSide>>

Active   == {"planning", "testing", "analysis"}
There(f) == {s \in Sessions : f[s] # "absent"}
Busy(f)  == {s \in Sessions : f[s] \in Active}

UpdateSession(s, v) ==
  /\ Change /\ session' = [session EXCEPT ![s] = v]
  /\ pass' = [pass EXCEPT !.stayed = @ \cap There(session'), !.busy = @ \cap Busy(session'),
                          !.seen = @ \cup There(session')]
  /\ UNCHANGED <<agentSide, scan, metrics>>

\* Time passes, but no further while a reading has taken as long as it may, and
\* not between having an answer and returning it, where the code does not await.
Tick ==
  /\ \A w \in Watchers : watch[w].step # "answer"
  /\ \A w \in Watchers : watch[w].step # "idle" => watch[w].taken < MaxRead
  /\ lastTrue' = [v \in Shown |-> IF v = Display(status) THEN 0
                                  ELSE IF lastTrue[v] > Window THEN Window + 1 ELSE lastTrue[v] + 1]
  /\ cache' = IF cache.ticks <= 1 THEN NoCache ELSE [cache EXCEPT !.ticks = @ - 1]
  /\ watch' = [w \in Watchers |-> IF watch[w].step \in {"count", "keep"}
                                  THEN [watch[w] EXCEPT !.taken = @ + 1] ELSE watch[w]]
  /\ lastTrue' # lastTrue \/ cache' # cache
  /\ UNCHANGED <<status, task, sessionSide, changes>>

------------------------------------------------------------------------------
(* AgentMonitor._get_agent_status *)

Read(w, step, v) == watch' = [watch EXCEPT ![w] = [@ EXCEPT !.step = step, !.value = v]]

\* (A mutant: an answer from the cache is cached again.)
GetCachedRenewed(w) ==
  /\ watch[w].step = "idle" /\ cache # NoCache /\ Read(w, "answer", cache.value)
  /\ cache' = [cache EXCEPT !.ticks = CacheTime]
  /\ UNCHANGED <<status, task, lastTrue, sessionSide, changes>>

\* The cached answer if there is one; otherwise the key, and offline, which is
\* not cached, if there is none.
GetCached(w) ==
  /\ watch[w].step = "idle" /\ cache # NoCache /\ Read(w, "answer", cache.value)
  /\ UNCHANGED <<status, task, cache, lastTrue, sessionSide, changes>>

GetStatus(w) ==
  /\ watch[w].step = "status"
  /\ IF status = "absent" THEN Read(w, "answer", "offline") ELSE Read(w, "count", status)
  /\ UNCHANGED <<status, task, cache, lastTrue, sessionSide, changes>>

MissCache(w) ==
  /\ watch[w].step = "idle" /\ cache = NoCache /\ Read(w, "status", "none")
  /\ UNCHANGED <<status, task, cache, lastTrue, sessionSide, changes>>

\* _count_tasks_by_status: the tasks are read an await later.
With(S)   == {t \in Tasks : task[t] \in S}
Terminal  == With({"completed", "failed"})
ErrorRate == IF Terminal = {} THEN 0
             ELSE (100 * Cardinality(With({"failed"}))) \div Cardinality(Terminal)

CountTasks(w) ==
  /\ watch[w].step = "count"
  /\ watch' = [watch EXCEPT ![w].step = "keep", ![w].errors = ErrorRate]
  /\ UNCHANGED <<status, task, cache, lastTrue, sessionSide, changes>>

KeepCached(w) ==
  /\ watch[w].step = "keep" /\ Read(w, "answer", watch[w].value)
  /\ cache' = [value |-> watch[w].value, ticks |-> CacheTime]
  /\ UNCHANGED <<status, task, lastTrue, sessionSide, changes>>

Answered(w) ==
  /\ watch[w].step = "answer" /\ watch' = [watch EXCEPT ![w] = Idle]
  /\ UNCHANGED <<status, task, cache, lastTrue, sessionSide, changes>>

------------------------------------------------------------------------------
(* DashboardManager.get_active_sessions: the keys SCAN names, then each of  *)
(* them. get_resource_metrics counts what one more such pass lists. A       *)
(* record that does not parse is left out here.                             *)

Begin ==
  /\ scan.phase = "idle" /\ scan' = [scan EXCEPT !.phase = "scan"]
  /\ pass' = [stayed |-> There(session), busy |-> Busy(session), seen |-> There(session),
              whole |-> TRUE, twice |-> FALSE]
  /\ UNCHANGED <<agentSide, session, metrics, changes>>

\* SCAN names every key that is there throughout, may name others that were
\* there for a time, and may name a key twice; nothing sorts those out.
Scan == \E named \in [Sessions -> 0 .. 2] :
  /\ scan.phase = "scan"
  /\ \A s \in pass.stayed : named[s] > 0
  /\ \A s \in Sessions \ pass.seen : named[s] = 0
  /\ scan' = [scan EXCEPT !.phase = "get", !.left = named]
  /\ pass' = [pass EXCEPT !.twice = \E s \in Sessions : named[s] = 2]
  /\ UNCHANGED <<agentSide, session, metrics, changes>>

\* A key that is gone by then is passed over. An entry of the list is numbered
\* by the times its key is left to be read.
Get(s) ==
  /\ scan.phase = "get" /\ scan.left[s] > 0
  /\ scan' = [scan EXCEPT !.left[s] = @ - 1,
                !.list = IF session[s] = "absent" THEN @
                  ELSE @ \cup {[id |-> s, nth |-> scan.left[s], status |-> session[s]]}]
  /\ UNCHANGED <<agentSide, session, pass, metrics, changes>>

\* A command fails: what is listed by then is the answer, and it is counted.
ListFails ==
  /\ \/ scan.phase = "scan"
     \/ scan.phase = "get" /\ \E s \in Sessions : scan.left[s] > 0
  /\ scan' = [scan EXCEPT !.phase = "get", !.left = NoScan.left]
  /\ pass' = [pass EXCEPT !.whole = FALSE]
  /\ UNCHANGED <<agentSide, session, metrics, changes>>

\* The counts are those of the list, not of what is there by now; and zeros
\* when INFO fails, before the pass.
Count ==
  /\ scan.phase = "get" /\ \A s \in Sessions : scan.left[s] = 0
  /\ metrics' = [total  |-> Cardinality(scan.list),
                 active |-> Cardinality({e \in scan.list : e.status \in Active})]
  /\ scan' = [scan EXCEPT !.phase = "listed"]
  /\ UNCHANGED <<agentSide, session, pass, changes>>

InfoFails ==
  /\ scan.phase = "idle" /\ scan' = [scan EXCEPT !.phase = "listed"]
  /\ UNCHANGED <<agentSide, session, pass, metrics, changes>>

Return ==
  /\ scan.phase = "listed" /\ scan' = NoScan /\ pass' = NoPass /\ metrics' = NoCount
  /\ UNCHANGED <<agentSide, session, changes>>

Next ==
  \/ Tick \/ Begin \/ Scan \/ ListFails \/ Count \/ InfoFails \/ Return
  \/ \E s \in AgentStates : Report(s)
  \/ \E t \in Tasks, s \in TaskStates : Work(t, s)
  \/ \E s \in Sessions : Get(s) \/ \E v \in SessionStates : UpdateSession(s, v)
  \/ \E w \in Watchers : GetCached(w) \/ MissCache(w) \/ GetStatus(w) \/ CountTasks(w)
                         \/ KeepCached(w) \/ Answered(w)

------------------------------------------------------------------------------
(* Properties *)

\* A status that is shown was true no longer ago than it may be cached and one
\* reading may take, though readings overlap and each caches what it has read,
\* the older over the newer (_get_agent_status).
ShownRecently ==
  \A w \in Watchers : watch[w].step = "answer" => lastTrue[watch[w].value] <= Window

\* A session that is there while the dashboard reads is listed, and counted, as
\* busy if it was busy throughout, whatever comes and goes between the scan and
\* the reads, unless a command failed; none is listed that was not there at some
\* time of the pass; and no more are counted than there were, unless SCAN named
\* a key twice (get_active_sessions, get_resource_metrics).
ListedThroughout ==
  scan.phase = "listed" =>
    /\ pass.whole =>
         /\ pass.stayed \subseteq {e.id : e \in scan.list}
         /\ Cardinality(pass.stayed) <= metrics.total
         /\ Cardinality(pass.busy) <= metrics.active
    /\ {e.id : e \in scan.list} \subseteq pass.seen
    /\ ~pass.twice => metrics.total <= Cardinality(pass.seen)
=============================================================================
