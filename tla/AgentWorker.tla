----------------------------- MODULE AgentWorker -----------------------------
(* The process of one QA agent of the Python port (agents/*/): its event    *)
(* loop with the listener on the agent's channel in Redis and the wait for  *)
(* a signal, the Celery workers of its queue, and the handlers both run.    *)
(*                                                                          *)
(* Data abstracted: one session; a task is its number, its kind and its     *)
(* scenario's id; what a model or a tool makes of it is a choice. A key of  *)
(* Redis is named by what follows {agent}:{session}.                        *)
EXTENDS Integers, FiniteSets

CONSTANTS Roles,        \* agents the process may be
          Children,     \* Celery's worker processes
          Kinds,        \* kinds of the tasks that are given
          MaxTasks, MaxCrashes    \* bounds

VARIABLES role,         \* the agent it is
          proc,         \* off, starting, running, stopped
          holder,       \* who has the event loop: main, listen, handler
          signalled,    \* a signal has come; stop: its callback has run
          stop,
          channel,      \* tasks that were published and wait in the subscription
          broker,       \* tasks in the Celery queue
          child, inLoop,\* what each worker process, and the listener, runs: task and step
          value,        \* Redis: key -> what it holds
          notified,     \* keys of the results that were published to the manager
          answered,     \* tasks Celery has a result of
          sent, tasks, crashes,   \* history: tasks given to Celery; all; crashes
          assessed,     \* history: the risk the last security assessment found
          verdicts      \* history: comprehensive reports, and what was so when they read
                        \* the assessment

workerVars == <<role, proc, holder, signalled, stop, channel, broker, child, inLoop, value,
                notified, answered, sent, tasks, crashes, assessed, verdicts>>
records == <<value, notified, assessed, verdicts>>
control == <<role, proc, holder, signalled, stop>>
history == <<sent, tasks, crashes>>

-----------------------------------------------------------------------------
(* What the handlers of each agent do. marks: the key is set to in_progress *)
(* first; yields: the handler awaits something that lets the loop run. The  *)
(* others block it: crew.kickoff() and the tools are plain calls.           *)

\* redis_task_listener: what a kind that is not known is taken for.
KindOf(r, kind) ==
  CASE r = "analyst" -> IF kind \in {"security", "performance", "comprehensive_report"}
    THEN kind ELSE "report"
    [] r = "junior" /\ kind = "data_generation" -> kind
    [] OTHER -> "suite"

Key(name) == <<name, "">>

\* The analyst keeps a result under its kind, the others under {id}:result.
\* JuniorQAAgent has no generate_test_data, so that the call raises.
Handler(r, kind, id) ==
  [marks  |-> r # "performance" /\ kind \notin {"comprehensive_report", "data_generation"},
   mark   |-> Key(id),
   stores |-> IF r = "analyst" THEN Key(kind) ELSE <<id, "result">>,
   yields |-> r \in {"junior", "performance"} \/ kind \in {"security", "performance"},
   raises |-> kind = "data_generation"]

Results(kind) ==
  CASE kind = "security" -> [risk : {"low", "high"}]
    [] kind = "report"   -> [failing : {0, 50}, critical : BOOLEAN]   \* percent of the tests
    [] kind = "performance" -> [grade : {"A", "F"}, regression : BOOLEAN]
    [] OTHER -> {[done |-> TRUE]}

None == [none |-> TRUE]
InProgress == [status |-> "in_progress"]
Has(v, f) == f \in DOMAIN v

\* generate_comprehensive_report: what it reads, one GET after another, and the run's next
\* step; the model is asked for a synthesis between the last GET and the SET.
GetNext == [report |-> "security", security |-> "performance", performance |-> "work"]
NothingRead == [report |-> None, security |-> None, performance |-> None, assessed |-> "none"]

\* _assess_release_readiness. A missing field is taken for a good one, which an
\* in_progress record has none of; failure_rate is a fraction of 1. No agent writes the
\* record of the resilience, so what it says (fragile) is anybody's.
Blockers(read) ==
  (IF Has(read.report, "failing") /\ read.report.failing > 10 * 100
   THEN {"failure rate"} ELSE {})
    \cup (IF Has(read.report, "critical") /\ read.report.critical
          THEN {"critical findings"} ELSE {})
    \cup (IF Has(read.security, "risk") /\ read.security.risk \in {"critical", "high"}
          THEN {"security risk"} ELSE {})
ReadinessWarnings(read, fragile) ==
  (IF fragile THEN {"resilience"} ELSE {})
    \cup (IF Has(read.performance, "grade") /\ read.performance.grade \in {"D", "F"}
          THEN {"grade"} ELSE {})
    \cup (IF Has(read.performance, "regression") /\ read.performance.regression
          THEN {"regression"} ELSE {})
Verdict(read, fragile) == IF Blockers(read) # {} THEN "NO_GO"
  ELSE IF ReadinessWarnings(read, fragile) # {} THEN "GO_WITH_WARNINGS" ELSE "GO"

Ids  == {"own", "security"}     \* a scenario's id, or the kind when it has none
ResultKeys == (Ids \cup {"report", "performance", "comprehensive_report"}) \X {""}
  \cup Ids \X {"result"}
NoRun == [task |-> 0, kind |-> "none", id |-> "none", step |-> "idle", read |-> NothingRead]

Init ==
  /\ role = "none" /\ proc = "off" /\ holder = "main" /\ signalled = FALSE /\ stop = FALSE
  /\ channel = {} /\ broker = {} /\ child = [c \in Children |-> NoRun] /\ inLoop = NoRun
  /\ value = [k \in ResultKeys |-> None] /\ notified = {} /\ answered = {}
  /\ sent = {} /\ tasks = 0 /\ crashes = 0 /\ assessed = "none" /\ verdicts = {}

-----------------------------------------------------------------------------
(* The callers: a task is published to whoever listens by then, or put on   *)
(* the queue.                                                               *)

Task(kind, id) == [task |-> tasks + 1, kind |-> kind, id |-> id]

Publish(kind, id) ==
  /\ tasks < MaxTasks /\ tasks' = tasks + 1
  /\ channel' = IF proc = "running" /\ holder # "main" THEN channel \cup {Task(kind, id)}
       ELSE channel
  /\ UNCHANGED <<control, broker, child, inLoop, records, answered, sent, crashes>>

Send(kind, id) ==
  /\ role # "none" /\ tasks < MaxTasks /\ tasks' = tasks + 1
  /\ broker' = broker \cup {Task(kind, id)} /\ sent' = sent \cup {tasks + 1}
  /\ UNCHANGED <<control, channel, child, inLoop, records, answered, crashes>>

-----------------------------------------------------------------------------
(* main: the workers' thread is started, the listener made a task of the    *)
(* loop and run at the first sleep.                                         *)

Start(r) ==
  /\ proc = "off" /\ role \in {"none", r} /\ role' = r
  /\ proc' = "running" /\ holder' = "main"
  /\ UNCHANGED <<signalled, stop, channel, broker, child, inLoop, records, answered, history>>

\* The signal's callback waits for the loop, and so does the look at should_stop.
Signal ==
  /\ proc = "running" /\ ~signalled /\ signalled' = TRUE
  /\ UNCHANGED <<role, proc, holder, stop, channel, broker, child, inLoop, records, answered,
                 history>>
LoopFree == holder = "main" \/ (holder = "handler" /\ inLoop.step = "waiting")
SignalHandler ==
  /\ proc = "running" /\ signalled /\ ~stop /\ LoopFree /\ stop' = TRUE
  /\ UNCHANGED <<role, proc, holder, signalled, channel, broker, child, inLoop, records,
                 answered, history>>

\* pubsub.listen() waits in the thread of the loop and never lets go of it.
Listen ==
  /\ proc = "running" /\ holder = "main" /\ ~stop /\ holder' = "listen"
  /\ UNCHANGED <<role, proc, signalled, stop, channel, broker, child, inLoop, records, answered,
                 history>>

\* The end of the process: what it listened to is gone, what its workers had not
\* acknowledged goes back to the queue (task_acks_late).
Running == {child[c] : c \in Children} \ {NoRun}
\* (A mutant: a task is acknowledged when it is taken.)
HandBackNothing == broker' = broker
HandBack == broker' = broker \cup {[task |-> t.task, kind |-> t.kind, id |-> t.id] : t \in Running}
Ended(p) ==
  /\ proc' = p /\ holder' = "main" /\ HandBack
  /\ child' = [c \in Children |-> NoRun] /\ inLoop' = NoRun /\ channel' = {}
  /\ UNCHANGED <<role, records, answered, sent, tasks>>
Stop ==
  /\ proc = "running" /\ stop /\ LoopFree
  /\ Ended("stopped") /\ UNCHANGED <<signalled, stop, crashes>>
Crash ==
  /\ proc = "running" /\ crashes < MaxCrashes /\ crashes' = crashes + 1
  /\ Ended("off") /\ signalled' = FALSE /\ stop' = FALSE

-----------------------------------------------------------------------------
(* A handler, run by the listener or by a worker: mark, work, store, notify *)

Begin(t) ==
  [task |-> t.task, kind |-> KindOf(role, t.kind), id |-> t.id, step |-> "mark",
   read |-> NothingRead]

Take(t) ==
  /\ proc = "running" /\ holder = "listen" /\ t \in channel
  /\ channel' = channel \ {t} /\ inLoop' = Begin(t) /\ holder' = "handler"
  /\ UNCHANGED <<role, proc, signalled, stop, broker, child, records, answered, history>>

Consume(c, t) ==
  /\ proc = "running" /\ child[c] = NoRun /\ t \in broker
  /\ broker' = broker \ {t} /\ child' = [child EXCEPT ![c] = Begin(t)]
  /\ UNCHANGED <<control, channel, inLoop, records, answered, history>>

\* What a run r does at each step, and the step after it.
Mark(r, next) ==
  LET h == Handler(role, r.kind, r.id) IN
  /\ r.step = "mark" /\ ~h.raises
  /\ next = IF r.kind = "comprehensive_report" THEN "report"
       ELSE IF h.yields THEN "waiting" ELSE "work"
  /\ value' = IF h.marks THEN [value EXCEPT ![h.mark] = InProgress] ELSE value
  /\ UNCHANGED <<notified, assessed, verdicts>>
Waited(r, next) == r.step = "waiting" /\ next = "work" /\ UNCHANGED records
\* _get_redis_json: what it reads, the run has from then on.
Get(r, next) == r.step \in DOMAIN GetNext /\ next = GetNext[r.step] /\ UNCHANGED records
Moved(r, next) ==
  [r EXCEPT !.step = next,
            !.read = IF r.step \notin DOMAIN GetNext THEN @
              ELSE IF r.step = "security"
              THEN [@ EXCEPT !.security = value[Key("security")], !.assessed = assessed]
              ELSE [@ EXCEPT ![r.step] = value[Key(r.step)]]]
StoreVerdict(r) == \E fragile \in BOOLEAN :
  LET v == Verdict(r.read, fragile) IN
  /\ value' = [value EXCEPT ![Key("comprehensive_report")] = [verdict |-> v]]
  /\ verdicts' = verdicts \cup {[verdict |-> v, security |-> r.read.security,
                                 assessed |-> r.read.assessed]}
  /\ UNCHANGED assessed
StoreResult(r) == \E v \in Results(r.kind) :
  /\ value' = [value EXCEPT ![Handler(role, r.kind, r.id).stores] = v]
  /\ assessed' = IF Has(v, "risk") THEN v.risk ELSE assessed
  /\ UNCHANGED verdicts
Store(r, next) ==
  /\ r.step = "work" /\ next = "notify" /\ UNCHANGED notified
  /\ IF r.kind = "comprehensive_report" THEN StoreVerdict(r) ELSE StoreResult(r)
Notify(r, next) ==
  /\ r.step = "notify" /\ next = "done"
  /\ notified' = notified \cup {Handler(role, r.kind, r.id).stores}
  /\ UNCHANGED <<value, assessed, verdicts>>
\* An exception is logged, or is the task's answer; what was set stays.
Raises(r, next) ==
  /\ r.step \in {"mark", "waiting", "work", "notify"} \cup DOMAIN GetNext /\ next = "error"
  /\ UNCHANGED records

Step(r, next) == Mark(r, next) \/ Waited(r, next) \/ Get(r, next) \/ Store(r, next)
  \/ Notify(r, next) \/ Raises(r, next)
Nexts == {"waiting", "work", "notify", "done", "error"} \cup DOMAIN GetNext

\* While the handler waits the loop is main's as well.
ListenerStep(next) ==
  /\ holder = "handler" /\ Step(inLoop, next)
  /\ IF next \in {"done", "error"} THEN inLoop' = NoRun /\ holder' = "listen"
     ELSE inLoop' = Moved(inLoop, next) /\ UNCHANGED holder
  /\ UNCHANGED <<role, proc, signalled, stop, channel, broker, child, answered, history>>

ChildStep(c, next) ==
  /\ child[c] # NoRun /\ Step(child[c], next)
  /\ IF next \in {"done", "error"}
     THEN child' = [child EXCEPT ![c] = NoRun] /\ answered' = answered \cup {child[c].task}
     ELSE child' = [child EXCEPT ![c] = Moved(@, next)] /\ UNCHANGED answered
  /\ UNCHANGED <<control, channel, broker, inLoop, history>>

Next ==
  \/ \E r \in Roles : Start(r)
  \/ \E kind \in Kinds, id \in Ids : Publish(kind, id) \/ Send(kind, id)
  \/ Signal \/ SignalHandler \/ Listen \/ Stop \/ Crash
  \/ \E t \in channel : Take(t)
  \/ \E c \in Children : (\E t \in broker : Consume(c, t))
       \/ (\E next \in Nexts : ChildStep(c, next))
  \/ \E next \in Nexts : ListenerStep(next)

Spec == Init /\ [][Next]_workerVars

-----------------------------------------------------------------------------
(* Properties *)

\* A task Celery took is queued, run or answered, whatever crashes and however
\* often it is run again (task_acks_late, task_reject_on_worker_lost).
TasksKept ==
  sent \subseteq answered \cup {t.task : t \in broker} \cup {child[c].task : c \in Children}

\* The manager is told of no result it could not then read, though another run
\* may have begun to replace it (the handlers, _notify_manager).
NotifiedStored == \A k \in notified : value[k] # None

\* A comprehensive report lets no release go where the last security assessment that was
\* stored before it read one found a high risk, whatever ran in between, unless the
\* assessment was begun again under the key of its result, which its mark replaced by
\* then. An assessment that is stored by another worker while the report is written comes
\* too late for it: a GO may then stand beside a high risk.
HighRiskStops == \A v \in verdicts :
  v.verdict # "NO_GO" => v.assessed # "high" \/ v.security = InProgress
=============================================================================
