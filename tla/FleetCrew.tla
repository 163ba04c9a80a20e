------------------------------ MODULE FleetCrew ------------------------------
(* A crew distributed over the nodes of a fleet, in the earlier             *)
(* implementation (src/python-port): the coordinator of                     *)
(* config/fleet/coordinator.py, the relay of config/fleet/relay.py and the  *)
(* shared crew state of config/fleet/state.py.                              *)
(*                                                                          *)
(* Each node is one process with one event loop, so an action is the code   *)
(* between two awaits.  A node runs one coordinator task and, once it has   *)
(* subscribed, one listener task.  Redis is shared: the state document, the *)
(* hash of agents, and a channel that gives every subscriber each message   *)
(* once, in order, and keeps nothing for who subscribes later; the name of  *)
(* the coordinator, which it stores and no code reads, is left out.  The    *)
(* worker that runs an agent on another node is outside the source and is   *)
(* modelled by the interface it is given: it may publish its progress, and  *)
(* answers a handoff by publish_result.                                     *)
EXTENDS Integers, Sequences, FiniteSets

CONSTANTS
  Nodes,        \* the fleet's nodes
  Agents,       \* the agents of the crew
  Home,         \* Home[a]: the node the placement plan gives agent a
  First,        \* the node that received the request
  MaxCheckpoints, \* bound: progress messages a worker publishes
  NoDoc         \* no document in Redis

Statuses == {"pending", "completed", "failed"}

VARIABLES
  doc,       \* fleet:crew:{id}:state, or NoDoc
  hash,      \* fleet:crew:{id}:agents: the status of each agent, or "absent"
  sub,       \* the nodes subscribed to the crew's channel
  inbox,     \* what the channel still has to give each subscriber
  counter,   \* _seq_counter of each process
  seen,      \* _seen_seqs of each process
  pc, copy,  \* where the coordinator task is, and the document it has read
  expected,  \* _expected_agents
  results,   \* _results: a status, or "none"
  verdict,   \* the status collect_results has decided on
  checking, asking,  \* agents the health check has left, the one it asks about
  hpc, hmsg, hcopy,  \* the listener: where it is, its message, what it read
  offered,   \* agents handed to the worker of their node
  work,      \* what became of each agent's own work
  up,        \* the nodes whose process runs
  late       \* the deadline of collect_results has passed

crewVars == <<doc, hash, sub, inbox, counter, seen, pc, copy, expected,
              results, verdict, checking, asking, hpc, hmsg, hcopy, offered, work, up, late>>
redis    == <<doc, hash>>
relay    == <<sub, inbox, counter, seen>>
listener == <<hpc, hmsg, hcopy>>
memory   == <<copy, expected, results, verdict, checking, asking>>
task     == <<pc, memory>>
world    == <<offered, work, up, late>>

Init ==
  /\ doc = NoDoc /\ hash = [a \in Agents |-> "absent"]
  /\ sub = {} /\ inbox = [n \in Nodes |-> <<>>]
  /\ counter = [n \in Nodes |-> 0] /\ seen = [n \in Nodes |-> {}]
  /\ pc = [n \in Nodes |-> "idle"] /\ copy = [n \in Nodes |-> NoDoc]
  /\ expected = [n \in Nodes |-> {}]
  /\ results = [n \in Nodes |-> [a \in Agents |-> "none"]]
  /\ verdict = [n \in Nodes |-> "none"]
  /\ checking = [n \in Nodes |-> {}] /\ asking = [n \in Nodes |-> {}]
  /\ hpc = [n \in Nodes |-> "wait"] /\ hmsg = [n \in Nodes |-> <<>>]
  /\ hcopy = [n \in Nodes |-> NoDoc]
  /\ offered = {} /\ work = [a \in Agents |-> "none"]
  /\ up = Nodes /\ late = FALSE

Goto(n, p) == pc' = [pc EXCEPT ![n] = p]
At(n, p)   == n \in up /\ pc[n] = p

-----------------------------------------------------------------------------
(* Relay *)

\* What a publication does: every subscriber of the channel is given it.
Delivered(m) ==
  inbox' = [n \in Nodes |-> IF n \in sub THEN Append(inbox[n], m) ELSE inbox[n]]

NextSeq(n) == counter[n] + 1

PublishTaskHandoff(n, a) ==
  /\ counter' = [counter EXCEPT ![n] = NextSeq(n)]
  /\ Delivered([agent |-> a, seq |-> NextSeq(n), kind |-> "task_handoff",
                status |-> "pending"])
  /\ offered' = offered \cup {a}

\* The worker on another node has run the agent and publishes what came of it.
PublishResult(n, a) ==
  /\ n \in up /\ Home[a] = n /\ a \in offered /\ work[a] = "none"
  /\ \E s \in {"completed", "failed"} :
       /\ work' = [work EXCEPT ![a] = s]
       /\ Delivered([agent |-> a, seq |-> NextSeq(n), kind |-> "agent_result",
                     status |-> s])
  /\ counter' = [counter EXCEPT ![n] = NextSeq(n)]
  /\ UNCHANGED <<redis, sub, seen, task, listener, offered, up, late>>

\* A worker may publish progress before its result: publish numbers it too.
PublishCheckpoint(n, a) ==
  /\ n \in up /\ Home[a] = n /\ a \in offered /\ work[a] = "none"
  /\ counter[n] < MaxCheckpoints
  /\ Delivered([agent |-> a, seq |-> NextSeq(n), kind |-> "checkpoint",
                status |-> "pending"])
  /\ counter' = [counter EXCEPT ![n] = NextSeq(n)]
  /\ UNCHANGED <<redis, sub, seen, task, listener, world>>

IsDuplicate(n, m) == m.seq \in seen[n]

\* The listener takes the next message: a sequence number this process has
\* seen for the crew, from whichever node, is dropped; a result is recorded
\* before the handler's first await.
Receive(n) ==
  /\ n \in up /\ n \in sub /\ hpc[n] = "wait" /\ inbox[n] # <<>>
  /\ LET m == Head(inbox[n]) IN
     /\ inbox' = [inbox EXCEPT ![n] = Tail(@)]
     /\ seen' = [seen EXCEPT ![n] = @ \cup {m.seq}]
     /\ IF m.kind = "agent_result" /\ ~IsDuplicate(n, m)
        THEN /\ results' = [results EXCEPT ![n][m.agent] = m.status]
             /\ hpc' = [hpc EXCEPT ![n] = "hash"]
             /\ hmsg' = [hmsg EXCEPT ![n] = <<m>>]
        ELSE UNCHANGED <<results, hpc, hmsg>>
  /\ UNCHANGED <<redis, sub, counter, pc, copy, expected, verdict, checking, asking,
                 hcopy, world>>

-----------------------------------------------------------------------------
(* update_agent_status, called by the listener: the agent's hash field, then *)
(* the whole document read and, an await later, written back.               *)

UpdateHash(n) ==
  /\ n \in up /\ hpc[n] = "hash"
  /\ LET m == hmsg[n][1] IN
     hash' = [hash EXCEPT ![m.agent] = IF @ = "absent" THEN @ ELSE m.status]
  /\ hpc' = [hpc EXCEPT ![n] = "read"]
  /\ UNCHANGED <<doc, relay, task, hmsg, hcopy, world>>

UpdateRead(n) ==
  /\ n \in up /\ hpc[n] = "read"
  /\ hcopy' = [hcopy EXCEPT ![n] = doc]
  /\ hpc' = [hpc EXCEPT ![n] = IF doc = NoDoc THEN "wait" ELSE "write"]
  /\ UNCHANGED <<redis, relay, task, hmsg, world>>

UpdateWrite(n) ==
  /\ n \in up /\ hpc[n] = "write"
  /\ LET m == hmsg[n][1] IN doc' = [hcopy[n] EXCEPT !.placed[m.agent] = m.status]
  /\ hpc' = [hpc EXCEPT ![n] = "wait"] /\ hmsg' = [hmsg EXCEPT ![n] = <<>>]
  /\ hcopy' = [hcopy EXCEPT ![n] = NoDoc]
  /\ UNCHANGED <<hash, relay, task, world>>

-----------------------------------------------------------------------------
(* plan_and_distribute on the node that received the request *)

CreateState ==
  /\ At(First, "idle")
  /\ doc' = [status |-> "pending", placed |-> [a \in Agents |-> "pending"]]
  /\ Goto(First, "hash")
  /\ UNCHANGED <<hash, relay, memory, listener, world>>

CreateAgents ==
  /\ At(First, "hash")
  /\ hash' = [a \in Agents |-> "pending"]
  /\ expected' = [expected EXCEPT ![First] = Agents]
  /\ Goto(First, "subscribe")
  /\ UNCHANGED <<doc, relay, copy, results, verdict, checking, asking,
                 listener, world>>

Subscribe ==
  /\ At(First, "subscribe")
  /\ sub' = sub \cup {First}
  /\ Goto(First, "handoff")
  /\ UNCHANGED <<redis, inbox, counter, seen, memory, listener, world>>

Remote(n) == {a \in Agents : Home[a] # n}

Handoff ==
  /\ At(First, "handoff")
  /\ \E a \in Remote(First) \ offered : PublishTaskHandoff(First, a)
  /\ UNCHANGED <<redis, sub, seen, task, listener, work, up, late>>

Distributed ==
  /\ At(First, "handoff") /\ Remote(First) \subseteq offered
  /\ Goto(First, "run_read")
  /\ UNCHANGED <<redis, relay, memory, listener, world>>

\* set_status: the document is read, and written back an await later.
SetStatusRead(n) ==
  /\ n \in up /\ pc[n] \in {"run_read", "final_read"}
  /\ copy' = [copy EXCEPT ![n] = doc]
  /\ Goto(n, IF pc[n] = "run_read" THEN "run_write" ELSE "final_write")
  /\ UNCHANGED <<redis, relay, expected, results, verdict, checking, asking,
                 listener, world>>

\* The status collect_results decides on, before it awaits the write: all of
\* nothing counts as completed.
FinalStatus(res) ==
  IF \A a \in Agents : res[a] # "failed" THEN "completed" ELSE "partial"

SetStatusWrite(n, at, status, then) ==
  /\ At(n, at)
  /\ doc' = IF copy[n] = NoDoc THEN doc ELSE [copy[n] EXCEPT !.status = status]
  /\ copy' = [copy EXCEPT ![n] = NoDoc]
  /\ Goto(n, then)
  /\ UNCHANGED <<hash, relay, expected, results, verdict, checking,
                 asking, listener, world>>

\* The agents placed on this node run here, and their results are submitted.
RunLocal ==
  /\ At(First, "local")
  /\ \E out \in [Agents -> {"completed", "failed"}] :
       LET mine == Agents \ Remote(First) IN
       /\ work' = [a \in Agents |-> IF a \in mine THEN out[a] ELSE work[a]]
       /\ results' = [results EXCEPT ![First] =
                        [a \in Agents |-> IF a \in mine THEN out[a] ELSE @[a]]]
  /\ Goto(First, "collect")
  /\ UNCHANGED <<redis, relay, copy, expected, verdict, checking, asking, listener,
                 offered, up, late>>

-----------------------------------------------------------------------------
(* collect_results *)

Missing(n) == {a \in expected[n] : results[n][a] = "none"}

Finalize(n, res) ==
  /\ results' = [results EXCEPT ![n] = res]
  /\ verdict' = [verdict EXCEPT ![n] = FinalStatus(res)]
  /\ Goto(n, "final_read")
  /\ UNCHANGED <<redis, relay, copy, expected, checking, asking, listener, world>>

AllCollected(n) ==
  /\ At(n, "collect") /\ Missing(n) = {}
  /\ Finalize(n, results[n])

\* (A mutant: at the deadline the agents without a result are left out.)
TimeOutKeeps(n) ==
  /\ At(n, "collect") /\ Missing(n) # {} /\ late
  /\ Finalize(n, results[n])

TimeOut(n) ==
  /\ At(n, "collect") /\ Missing(n) # {} /\ late
  /\ Finalize(n, [a \in Agents |->
                   IF a \in Missing(n) THEN "failed" ELSE results[n][a]])

\* Five seconds without a result: the document is read for the placements.
CheckNodeHealth(n) ==
  /\ At(n, "collect") /\ Missing(n) # {} /\ ~late
  /\ checking' = [checking EXCEPT ![n] = IF doc = NoDoc THEN {} ELSE Agents]
  /\ Goto(n, "health")
  /\ UNCHANGED <<redis, relay, copy, expected, results, verdict, asking, listener,
                 world>>

\* An agent with a result is passed over; for another the registry is asked.
HealthAsk(n) ==
  /\ At(n, "health")
  /\ LET left == {a \in checking[n] : results[n][a] = "none"} IN
     IF left = {}
     THEN /\ checking' = [checking EXCEPT ![n] = {}]
          /\ Goto(n, "collect") /\ UNCHANGED asking
     ELSE \E a \in left :
            /\ checking' = [checking EXCEPT ![n] = @ \ {a}]
            /\ asking' = [asking EXCEPT ![n] = {a}]
            /\ Goto(n, "health_get")
  /\ UNCHANGED <<redis, relay, copy, expected, results, verdict, listener, world>>

\* The registry's answer is right or behind the times: a node that has died is
\* alive until its heartbeat is too old, one that lives may have missed some.
\* The agent of a node that counts as dead is marked as failed, over whatever
\* arrived for it while the registry was asked.
HealthAnswer(n) ==
  /\ At(n, "health_get")
  /\ \E isAlive \in BOOLEAN, a \in asking[n] :
       results' = IF isAlive THEN results ELSE [results EXCEPT ![n][a] = "failed"]
  /\ asking' = [asking EXCEPT ![n] = {}]
  /\ Goto(n, "health")
  /\ UNCHANGED <<redis, relay, copy, expected, verdict, checking, listener, world>>

\* What a process no longer holds of the crew.
Forget(n) ==
  /\ sub' = sub \ {n} /\ inbox' = [inbox EXCEPT ![n] = <<>>]
  /\ counter' = [counter EXCEPT ![n] = 0] /\ seen' = [seen EXCEPT ![n] = {}]
  /\ results' = [results EXCEPT ![n] = [a \in Agents |-> "none"]]
  /\ expected' = [expected EXCEPT ![n] = {}]
  /\ verdict' = [verdict EXCEPT ![n] = "none"]
  /\ copy' = [copy EXCEPT ![n] = NoDoc] /\ hcopy' = [hcopy EXCEPT ![n] = NoDoc]
  /\ checking' = [checking EXCEPT ![n] = {}] /\ asking' = [asking EXCEPT ![n] = {}]
  /\ hpc' = [hpc EXCEPT ![n] = "wait"] /\ hmsg' = [hmsg EXCEPT ![n] = <<>>]

\* cleanup: the listener is cancelled where it stands, the relay forgets the
\* crew, and the results, which have gone to the caller, are dropped.
Cleanup(n) ==
  /\ At(n, "cleanup")
  /\ Goto(n, "done")
  /\ Forget(n)
  /\ UNCHANGED <<redis, world>>

-----------------------------------------------------------------------------
(* promote_coordinator on another node *)

\* set_coordinator first: nothing in the source reads the name it stores, but
\* it too reads the whole document and writes it back an await later.
Promote(n) ==
  /\ At(n, "idle") /\ n # First /\ pc[First] # "idle"
  /\ Goto(n, "promote_read")
  /\ UNCHANGED <<redis, relay, memory, listener, world>>

PromoteRead(n) ==
  /\ At(n, "promote_read")
  /\ copy' = [copy EXCEPT ![n] = doc]
  /\ Goto(n, "promote_write")
  /\ UNCHANGED <<redis, relay, expected, results, verdict, checking, asking,
                 listener, world>>

PromoteWrite(n) ==
  /\ At(n, "promote_write")
  /\ doc' = IF copy[n] = NoDoc THEN doc ELSE copy[n]
  /\ copy' = [copy EXCEPT ![n] = NoDoc]
  /\ Goto(n, "promote_load")
  /\ UNCHANGED <<hash, relay, expected, results, verdict, checking,
                 asking, listener, world>>

\* The agents to expect, and the results already known, come from the document.
PromoteLoad(n) ==
  /\ At(n, "promote_load")
  /\ IF doc = NoDoc THEN UNCHANGED <<expected, results>>
     ELSE /\ expected' = [expected EXCEPT ![n] = Agents]
          /\ results' = [results EXCEPT ![n] = [a \in Agents |->
               IF doc.placed[a] \in {"completed", "failed"} THEN doc.placed[a]
               ELSE "none"]]
  /\ Goto(n, "promote_sub")
  /\ UNCHANGED <<redis, relay, copy, verdict, checking, asking, listener, world>>

PromoteSubscribe(n) ==
  /\ At(n, "promote_sub")
  /\ sub' = sub \cup {n}
  /\ Goto(n, "collect")
  /\ UNCHANGED <<redis, inbox, counter, seen, memory, listener, world>>

-----------------------------------------------------------------------------
(* The world: processes stop, time passes.                                  *)

\* A process ends and its memory with it; it is not started again.  Only the
\* first coordinator's end is modelled: a worker that has died is one that
\* takes no further step.
Crash(n) ==
  /\ n \in up
  /\ up' = up \ {n}
  /\ Goto(n, "dead")
  /\ Forget(n)
  /\ UNCHANGED <<redis, offered, work, late>>

DeadlinePasses ==
  /\ ~late /\ late' = TRUE
  /\ UNCHANGED <<redis, relay, task, listener, offered, work, up>>

-----------------------------------------------------------------------------
Coordinate(n) ==
  \/ SetStatusRead(n)
  \/ SetStatusWrite(n, "run_write", "running", "local")
  \/ SetStatusWrite(n, "final_write", verdict[n], "cleanup")
  \/ AllCollected(n) \/ TimeOut(n) \/ CheckNodeHealth(n) \/ HealthAsk(n)
  \/ HealthAnswer(n) \/ Cleanup(n)
  \/ PromoteRead(n) \/ PromoteWrite(n) \/ PromoteLoad(n) \/ PromoteSubscribe(n)

Plan == CreateState \/ CreateAgents \/ Subscribe \/ Handoff \/ Distributed \/ RunLocal

Listen(n) == Receive(n) \/ UpdateHash(n) \/ UpdateRead(n) \/ UpdateWrite(n)

Next ==
  \/ Plan \/ DeadlinePasses \/ Crash(First)
  \/ \E n \in Nodes : \/ Coordinate(n) \/ Listen(n) \/ Promote(n)
                      \/ \E a \in Agents : PublishResult(n, a) \/ PublishCheckpoint(n, a)

Spec == Init /\ [][Next]_crewVars

-----------------------------------------------------------------------------
(* Properties *)

\* A crew is called completed only when the work of every one of its agents
\* was: no race of coordinators, listeners and health checks, and no document
\* written back stale, turns a failed or unfinished agent into a completed
\* crew (collect_results, update_agent_status, promote_coordinator).
CompletedTrue ==
  doc # NoDoc => (doc.status = "completed" => \A a \in Agents : work[a] = "completed")

\* The hash of agents is written before the document, so while no listener has
\* died between the two the document never says more of an agent than the
\* hash does, whichever of several writers wrote it last (update_agent_status).
HashAhead ==
  \A a \in Agents : (doc # NoDoc /\ hash[a] # "absent" /\ doc.placed[a] # "pending")
                       => doc.placed[a] = hash[a]

\* Results handed to the caller cover every agent the plan placed, also when
\* the deadline passed or nodes died (collect_results).
EveryAgentAnswered ==
  \A n \in Nodes : pc[n] \in {"final_read", "final_write", "cleanup"} =>
     \A a \in expected[n] : results[n][a] # "none"
=============================================================================
