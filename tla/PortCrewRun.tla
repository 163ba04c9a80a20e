----------------------------- MODULE PortCrewRun -----------------------------
(* Crew runs in the earlier implementation (src/python-port):               *)
(* webgui/routes/crews.py with the task endpoints of webgui/routes/tasks.py *)
(* and the backends of agents/backend.                                      *)
(*                                                                          *)
(* One process serves every request on one event loop, so an action is the  *)
(* code between two awaits.  A crew has a record and its task has another,  *)
(* both in Redis; a background task runs the crew and writes both, and so   *)
(* do the endpoints that cancel it.  The process's environment, the GPU     *)
(* slots and the gauge of active crews are shared by all runs.              *)
EXTENDS Integers, FiniteSets

CONSTANTS
  Crews,        \* crews that may be submitted
  Team,         \* 1 .. n: the agents of a crew, in the order they run
  Devices,      \* the host's GPU devices
  Hidden,       \* CUDA_VISIBLE_DEVICES set to nothing
  Unset,        \* CUDA_VISIBLE_DEVICES not set
  MaxFailures   \* bound: commands to Redis that fail

Ended    == {"completed", "partial", "failed", "cancelled"}
Outcomes == {"completed", "failed"}

VARIABLES
  crewRec, taskRec,  \* the status in the crew's record and in its task's
  pc,         \* where the background task of each crew is
  want, back, \* the status _update_status is to write, and where it returns to
  owed,       \* the records it still has to write
  results,    \* what each agent of the crew came to: agent_results
  device,     \* the placement plan: what each agent is to see
  next,       \* the agent that runs, or is to run next
  env, saved, \* CUDA_VISIBLE_DEVICES, and what each run is to put back
  slots,      \* crews with reservations in gpu_slot_tracker
  active,     \* the gauge ACTIVE_CREW_TASKS
  unplaced,   \* history: crews whose plan or backend gave no result at all
  lost,       \* history: runs whose last word, that they failed, was not written
  failures,   \* history: commands to Redis that have failed
  told,       \* the status the webhook was given
  cpc         \* the endpoint that is cancelling the crew or its task

runVars == <<crewRec, taskRec, pc, want, back, owed, results, device, next, env,
             saved, slots, active, unplaced, lost, failures, told, cpc>>
records == <<crewRec, taskRec>>
update  == <<want, back, owed>>
agentry == <<results, device, next, env, saved, slots>>
history == <<active, unplaced, lost, failures>>

Init ==
  /\ crewRec = [c \in Crews |-> "absent"] /\ taskRec = [c \in Crews |-> "absent"]
  /\ pc = [c \in Crews |-> "none"] /\ want = [c \in Crews |-> "absent"]
  /\ back = [c \in Crews |-> "none"] /\ owed = [c \in Crews |-> {}]
  /\ results = [c \in Crews |-> [k \in Team |-> "none"]]
  /\ device = [c \in Crews |-> [k \in Team |-> Hidden]]
  /\ next = [c \in Crews |-> 0]
  /\ env = Unset /\ saved = [c \in Crews |-> Unset]
  /\ slots = {} /\ active = 0 /\ unplaced = {} /\ lost = {} /\ failures = 0
  /\ told = [c \in Crews |-> "none"] /\ cpc = [c \in Crews |-> "idle"]

Goto(c, p) == pc' = [pc EXCEPT ![c] = p]

-----------------------------------------------------------------------------
(* POST /crews, and the endpoints of tasks.py that lead to it: submit_task   *)
(* and its variants, retry_task, which submits a new crew for a task that    *)
(* failed or was cancelled, and the delegation of a2a messages.             *)

RunCrew(c) ==
  /\ pc[c] = "none"
  /\ crewRec' = [crewRec EXCEPT ![c] = "pending"]
  /\ Goto(c, "stored")
  /\ UNCHANGED <<taskRec, update, agentry, history, told, cpc>>

StoreTask(c) ==
  /\ pc[c] = "stored"
  /\ taskRec' = [taskRec EXCEPT ![c] = "pending"]
  /\ Goto(c, "start")
  /\ UNCHANGED <<crewRec, update, agentry, history, told, cpc>>

RetryTask(c, d) ==
  /\ taskRec[c] \in {"failed", "cancelled"}
  /\ RunCrew(d)

-----------------------------------------------------------------------------
(* _update_status: both records are read and, an await later, both written   *)
(* in one gather.  The status that was read decides nothing.                *)

Update(c, status, then) ==
  /\ want' = [want EXCEPT ![c] = status]
  /\ back' = [back EXCEPT ![c] = then]
  /\ owed' = [owed EXCEPT ![c] = {"crew", "task"}]
  /\ Goto(c, "update")

WriteCrew(c) ==
  /\ pc[c] = "update" /\ "crew" \in owed[c]
  /\ crewRec' = [crewRec EXCEPT ![c] = want[c]]
  /\ owed' = [owed EXCEPT ![c] = @ \ {"crew"}]
  /\ UNCHANGED <<taskRec, pc, want, back, agentry, history, told, cpc>>

WriteTask(c) ==
  /\ pc[c] = "update" /\ "task" \in owed[c]
  /\ taskRec' = [taskRec EXCEPT ![c] = want[c]]
  /\ owed' = [owed EXCEPT ![c] = @ \ {"task"}]
  /\ UNCHANGED <<crewRec, pc, want, back, agentry, history, told, cpc>>

Updated(c) ==
  /\ pc[c] = "update" /\ owed[c] = {}
  /\ Goto(c, back[c])
  /\ want' = [want EXCEPT ![c] = "absent"] /\ back' = [back EXCEPT ![c] = "none"]
  /\ UNCHANGED <<records, owed, agentry, history, told, cpc>>

\* The handler of every exception in the run: the gauge is lowered, the slots
\* are released, and the crew is written down as failed; should that fail too,
\* it is logged and the run goes on to the webhook.
Fail(c) ==
  /\ active' = active - 1
  /\ slots' = slots \ {c}
  /\ Update(c, "failed", "webhook")

UpdateFails(c) ==
  /\ pc[c] = "update" /\ owed[c] # {} /\ failures < MaxFailures
  /\ failures' = failures + 1
  /\ IF want[c] = "failed" /\ back[c] = "webhook"
     THEN /\ Goto(c, "webhook")
          /\ owed' = [owed EXCEPT ![c] = {}]
          /\ lost' = lost \cup {c}
          /\ UNCHANGED <<want, back, active, slots>>
     ELSE Fail(c) /\ UNCHANGED lost
  /\ UNCHANGED <<records, results, device, next, env, saved, unplaced, told, cpc>>

-----------------------------------------------------------------------------
(* _run_crew_async *)

Start(c) ==
  /\ pc[c] = "start"
  /\ active' = active + 1
  /\ Update(c, "running", "build")
  /\ UNCHANGED <<records, agentry, unplaced, lost, failures, told, cpc>>

\* A run that returns from inside the try block: the gauge is not lowered and
\* no webhook is fired.
ReturnEarly(c) == Update(c, "failed", "ended")

NoAgents(c) ==
  /\ pc[c] = "build"
  /\ ReturnEarly(c)
  /\ UNCHANGED <<records, agentry, history, told, cpc>>

BuildAgents(c) ==
  /\ pc[c] = "build"
  /\ Goto(c, "execute")
  /\ UNCHANGED <<records, update, agentry, history, told, cpc>>

Raise(c) ==
  /\ pc[c] \in {"build", "execute"}
  /\ Fail(c)
  /\ UNCHANGED <<records, results, device, next, env, saved, unplaced, lost,
                 failures, told, cpc>>

\* What a remote execution gives back: the fleet's results, or those AgnosAI
\* lists; AgnosAI may list none, whatever its own status says.
Remote(c) ==
  /\ pc[c] = "execute"
  /\ \/ \E out \in [Team -> Outcomes] :
          results' = [results EXCEPT ![c] = out] /\ UNCHANGED unplaced
     \/ unplaced' = unplaced \cup {c} /\ UNCHANGED results
  /\ Goto(c, "aggregate")
  /\ UNCHANGED <<records, update, device, next, env, saved, slots, active, lost,
                 failures, told, cpc>>

\* AgnosAI refused the crew or could not be reached.
BackendError(c) ==
  /\ pc[c] = "execute"
  /\ ReturnEarly(c)
  /\ UNCHANGED <<records, agentry, history, told, cpc>>

\* The fleet's placement or the GPU plan has errors: the crew is written down
\* as failed, and the run goes on to aggregate no results.
PlanRefused(c) ==
  /\ pc[c] = "execute"
  /\ unplaced' = unplaced \cup {c}
  /\ Update(c, "failed", "aggregate")
  /\ UNCHANGED <<records, agentry, active, lost, failures, told, cpc>>

\* _run_local: every agent gets a device or has them hidden, and the crew
\* reserves what it was given.
ScheduleLocal(c) ==
  /\ pc[c] = "execute"
  /\ \E plan \in [Team -> Devices \cup {Hidden}] :
       /\ device' = [device EXCEPT ![c] = plan]
       /\ slots' = IF \E k \in Team : plan[k] # Hidden THEN slots \cup {c} ELSE slots
  /\ next' = [next EXCEPT ![c] = 1]
  /\ Goto(c, "agents")
  /\ UNCHANGED <<records, update, results, env, saved, history, told, cpc>>

\* _execute_agents: the environment is saved and set, and the agent awaited.
SetEnvironment(c) ==
  /\ pc[c] = "agents" /\ next[c] \in Team
  /\ saved' = [saved EXCEPT ![c] = env]
  /\ env' = device[c][next[c]]
  /\ Goto(c, "handling")
  /\ UNCHANGED <<records, update, results, device, next, slots, history, told, cpc>>

\* The agent has answered or raised; what was saved is put back.
AgentDone(c) ==
  /\ pc[c] = "handling"
  /\ \E out \in Outcomes : results' = [results EXCEPT ![c][next[c]] = out]
  /\ env' = saved[c] /\ saved' = [saved EXCEPT ![c] = Unset]
  /\ next' = [next EXCEPT ![c] = @ + 1]
  /\ Goto(c, "agents")
  /\ UNCHANGED <<records, update, device, slots, history, told, cpc>>

\* (A mutant: the slots are left to the handler of exceptions.)
LocalDoneHolding(c) ==
  /\ pc[c] = "agents" /\ next[c] \notin Team
  /\ device' = [device EXCEPT ![c] = [k \in Team |-> Hidden]]
  /\ next' = [next EXCEPT ![c] = 0]
  /\ Goto(c, "aggregate")
  /\ UNCHANGED <<records, update, results, env, saved, slots, history, told, cpc>>

LocalDone(c) ==
  /\ pc[c] = "agents" /\ next[c] \notin Team
  /\ slots' = slots \ {c}
  /\ device' = [device EXCEPT ![c] = [k \in Team |-> Hidden]]
  /\ next' = [next EXCEPT ![c] = 0]
  /\ Goto(c, "aggregate")
  /\ UNCHANGED <<records, update, results, env, saved, history, told, cpc>>

\* _aggregate_and_finalize: all of no results are completed.
FinalStatus(c) ==
  IF \A k \in Team : results[c][k] \in {"completed", "none"}
  THEN "completed" ELSE "partial"

Aggregate(c) ==
  /\ pc[c] = "aggregate"
  /\ active' = active - 1
  /\ Update(c, FinalStatus(c), "webhook")
  /\ UNCHANGED <<records, agentry, unplaced, lost, failures, told, cpc>>

\* _finalize_crew tells the callback what the crew's record then says.
FinalizeCrew(c) ==
  /\ pc[c] = "webhook"
  /\ told' = [told EXCEPT ![c] = crewRec[c]]
  /\ Goto(c, "ended")
  /\ UNCHANGED <<records, update, agentry, history, cpc>>

-----------------------------------------------------------------------------
(* cancel_crew: the crew's record is read and, awaits later, overwritten;    *)
(* then the task's.  cancel_task: only the task's.                          *)

CancelCrew(c) ==
  /\ cpc[c] = "idle" /\ crewRec[c] \in {"running", "pending"}
  /\ cpc' = [cpc EXCEPT ![c] = "crew_write"]
  /\ UNCHANGED <<records, pc, update, agentry, history, told>>

CancelWriteCrew(c) ==
  /\ cpc[c] = "crew_write"
  /\ crewRec' = [crewRec EXCEPT ![c] = "cancelled"]
  /\ cpc' = [cpc EXCEPT ![c] = "task_read"]
  /\ UNCHANGED <<taskRec, pc, update, agentry, history, told>>

CancelReadTask(c) ==
  /\ cpc[c] = "task_read"
  /\ cpc' = [cpc EXCEPT ![c] = IF taskRec[c] = "absent" THEN "idle" ELSE "task_write"]
  /\ UNCHANGED <<records, pc, update, agentry, history, told>>

CancelTask(c) ==
  /\ cpc[c] = "idle"
  /\ taskRec[c] \notin {"absent", "completed", "failed", "cancelled"}
  /\ cpc' = [cpc EXCEPT ![c] = "task_only"]
  /\ UNCHANGED <<records, pc, update, agentry, history, told>>

CancelWriteTask(c) ==
  /\ cpc[c] \in {"task_write", "task_only"}
  /\ taskRec' = [taskRec EXCEPT ![c] = "cancelled"]
  /\ cpc' = [cpc EXCEPT ![c] = "idle"]
  /\ UNCHANGED <<crewRec, pc, update, agentry, history, told>>

-----------------------------------------------------------------------------
Background(c) ==
  \/ Start(c) \/ WriteCrew(c) \/ WriteTask(c) \/ Updated(c)
  \/ NoAgents(c) \/ BuildAgents(c) \/ Raise(c)
  \/ Remote(c) \/ BackendError(c) \/ PlanRefused(c) \/ ScheduleLocal(c)
  \/ SetEnvironment(c) \/ AgentDone(c) \/ LocalDone(c)
  \/ Aggregate(c) \/ FinalizeCrew(c)

Cancelling(c) ==
  \/ CancelCrew(c) \/ CancelWriteCrew(c) \/ CancelReadTask(c)
  \/ CancelTask(c) \/ CancelWriteTask(c)

Next ==
  \E c \in Crews :
    \/ RunCrew(c) \/ StoreTask(c) \/ Background(c) \/ UpdateFails(c) \/ Cancelling(c)
    \/ \E d \in Crews : RetryTask(d, c)

Spec == Init /\ [][Next]_runVars

-----------------------------------------------------------------------------
(* Properties *)

Idle(c) == pc[c] = "ended" /\ cpc[c] = "idle"

\* A crew's record says completed only when each of its agents was, or when
\* there was no result at all to look at: no cancellation, no failing command
\* and no second run in between makes a failed agent's crew completed
\* (_aggregate_and_finalize, _update_status).
CompletedHonest ==
  \A c \in Crews : crewRec[c] = "completed" =>
     c \in unplaced \/ \A k \in Team : results[c][k] = "completed"

\* A crew whose run has ended, with nobody cancelling it, does not stay
\* pending or running in its record, though commands to Redis failed, as long
\* as the handler of that failure could write (_run_crew_async).
EndedSettled ==
  \A c \in Crews : Idle(c) /\ c \notin lost => crewRec[c] \in Ended

\* A GPU slot is held by no crew whose run is past its agents, however the run
\* got there (_run_local, and the release in the handler of exceptions).
SlotsReleased ==
  \A c \in Crews : pc[c] \in {"aggregate", "webhook", "ended"} => c \notin slots

\* The gauge of active crews never falls below the runs under way, unless an
\* update failed after it had been lowered: whatever runs returned early.
GaugeCovers ==
  failures = 0 =>
    active >= Cardinality({c \in Crews : pc[c] \in {"build", "execute",
                 "agents", "handling", "aggregate"}})

\* A callback is told how the crew ended, not a state on the way
\* (_finalize_crew reads the record again after the last update).
WebhookTellsEnd ==
  \A c \in Crews : told[c] # "none" /\ c \notin lost => told[c] \in Ended
=============================================================================
