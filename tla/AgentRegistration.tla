------------------------- MODULE AgentRegistration -------------------------
(* What the Python port says of itself to others: its agents, its           *)
(* capabilities and the agents' RPC methods to daimon                       *)
(* (config/agnos_agent_registration.py, shared/agnos_rpc_client.py), and    *)
(* itself as an MCP server to SecureYeoman and daimon                       *)
(* (shared/yeoman_mcp_server.py).  The web GUI does both as it starts, an   *)
(* administrator may do the first again at any time, and what is undone is  *)
(* undone as it stops (webgui/app.py, routes/agents.py).                    *)
(*                                                                          *)
(* daimon and SecureYeoman are external.  daimon is taken to keep one       *)
(* registration of each agent_id, and to give its id again to whoever       *)
(* registers the same agent: the request carries the agent_id for that.     *)
(* The circuit breaker is modelled with the calls to models (LlmCall); here *)
(* it may refuse once a call failed.                                        *)
EXTENDS Integers, FiniteSets

CONSTANTS AgentKeys,    \* get_all_agents
          StaticKeys,   \* AGNOSTIC_AGENTS among them, which have a heartbeat and RPC methods
          Admins,       \* requests of administrators at once
          MaxIds,       \* bound: ids that are given
          MaxAsked,     \* bound: requests of administrators
          MaxMishaps    \* bound: calls lost, answers lost or unreadable, restarts of daimon

VARIABLES server,       \* "off", "starting", "serving", "stopping", "stopped"
          op,           \* what the server and each administrator is doing, and its phase
          calls,        \* calls to daimon and SecureYeoman in flight
          registered,   \* _registered_agents
          advertised,   \* _capabilities_advertised
          methods,      \* _registered_methods, by id
          mcp,          \* _server_id of each of the two servers
          daimon,       \* what daimon holds: agents, capabilities and methods
          listed,       \* MCP servers that SecureYeoman and daimon list
          heartbeat,    \* whether the loop runs
          beat,         \* the heartbeat in flight
          lastId,       \* ids given so far
          excused,      \* history: what may make the two sides differ has happened
          refusedBeat,  \* history: a heartbeat of an agent that nobody was deregistering was refused
          asked, mishaps

regVars == <<server, op, calls, registered, advertised, methods, mcp, daimon, listed, heartbeat,
             beat, lastId,
             excused, refusedBeat, asked, mishaps>>
local  == <<registered, advertised, methods, mcp>>
remote == <<daimon, listed, lastId>>
beats  == <<heartbeat, beat, refusedBeat>>
bounds == <<asked, mishaps>>

None    == 0
NoOp    == [kind |-> "none", phase |-> "none"]
NoBeat  == [key |-> "none", id |-> None]
Actors  == Admins \cup {"server"}
Servers == {"yeoman", "daimon"}
Holds   == [agent |-> [k \in AgentKeys |-> None], capabilities |-> FALSE, methods |-> {}]

Init ==
  /\ server = "off" /\ op = [a \in Actors |-> NoOp] /\ calls = {}
  /\ registered = [k \in AgentKeys |-> None] /\ advertised = FALSE /\ methods = {}
  /\ mcp = [s \in Servers |-> None] /\ daimon = Holds /\ listed = [s \in Servers |-> {}]
  /\ heartbeat = FALSE /\ beat = NoBeat /\ lastId = 0 /\ excused = FALSE /\ refusedBeat = FALSE
  /\ asked = 0 /\ mishaps = 0

Mishap == mishaps < MaxMishaps /\ mishaps' = mishaps + 1 /\ UNCHANGED asked

----------------------------------------------------------------------------
(* Calls.  One is sent, takes effect and is answered.                       *)

Call(a, what, k, id) == [by |-> a, what |-> what, key |-> k, id |-> id, at |-> "sent"]
Mine(a) == {c \in calls : c.by = a}

\* Crossed: a registration and a deregistration of agents in flight at once.
Crossed(ops) == \E a, b \in Actors : ops[a].kind = "register"
  /\ ops[b].kind \in {"deregister", "stop"}

Send(a, kind, phase, cs) ==
  /\ op' = [op EXCEPT ![a] = [kind |-> kind, phase |-> phase]]
  /\ calls' = calls \cup cs /\ excused' = (excused \/ Crossed(op'))

RegisterCalls(a)   == {Call(a, "register", k, None) : k \in AgentKeys}
DeleteCalls(a)     ==
  {Call(a, "delete", k, registered[k]) : k \in {k \in AgentKeys : registered[k] # None}}
MethodCalls(a)     ==
  {Call(a, "methods", k, registered[k]) : k \in {k \in StaticKeys : registered[k] # None}}

\* What a call does there, and the id it is answered with (None: refused).
Known(id) == \E k \in AgentKeys : daimon.agent[k] = id
NewId(c)  == c.what = "mcpRegister" \/ (c.what = "register" /\ daimon.agent[c.key] = None)
Effect(c) ==
  CASE c.what = "register"   -> [daimon EXCEPT !.agent[c.key] = IF @ = None THEN lastId + 1 ELSE @]
    [] c.what = "delete"     -> [daimon EXCEPT !.agent[c.key] = IF @ = c.id THEN None
                                 ELSE @, !.methods = @ \ {c.id}]
    [] c.what = "advertise"  -> [daimon EXCEPT !.capabilities = TRUE]
    [] c.what = "withdraw"   -> [daimon EXCEPT !.capabilities = FALSE]
    [] c.what = "methods"    -> [daimon EXCEPT !.methods = IF Known(c.id) THEN @ \cup {c.id} ELSE @]
    [] OTHER                 -> daimon
AnswerTo(c) ==
  CASE c.what = "register"             -> Effect(c).agent[c.key]
    [] c.what = "mcpRegister"          -> lastId + 1
    [] c.what \in {"delete", "methods"} -> IF Known(c.id) THEN c.id ELSE None
    [] OTHER                           -> 1

Arrive(c) ==
  /\ c.at = "sent" /\ (NewId(c) => lastId < MaxIds)
  /\ calls' = (calls \ {c}) \cup {[c EXCEPT !.at = "answer", !.id = AnswerTo(c)]}
  /\ daimon' = Effect(c) /\ lastId' = IF NewId(c) THEN lastId + 1 ELSE lastId
  /\ listed' = CASE c.what = "mcpRegister"   -> [listed EXCEPT ![c.key] = @ \cup {lastId + 1}]
                 [] c.what = "mcpDeregister" -> [listed EXCEPT ![c.key] = @ \ {c.id}]
                 [] OTHER                    -> listed
  /\ UNCHANGED <<server, op, local, beats, excused, bounds>>

\* What an answer does here; one that refuses leaves everything as it was.
Answered(c) ==
  /\ c.at = "answer" /\ calls' = calls \ {c}
  /\ registered' = CASE c.what = "register"                  -> [registered EXCEPT ![c.key] = c.id]
                     [] c.what = "delete" /\ c.id # None      -> [registered EXCEPT ![c.key] = None]
                     [] OTHER                                -> registered
  /\ advertised' = CASE c.what = "advertise" -> TRUE [] c.what = "withdraw" -> FALSE
       [] OTHER -> advertised
  /\ methods' = IF c.what = "methods" /\ c.id # None THEN methods \cup {c.id} ELSE methods
  /\ mcp' = CASE c.what = "mcpRegister" -> [mcp EXCEPT ![c.key] = c.id]
              [] c.what = "mcpDeregister" -> [mcp EXCEPT ![c.key] = None] [] OTHER -> mcp
  /\ UNCHANGED <<server, op, remote, beats, excused, bounds>>

\* A call that never arrives, or whose answer never does, is an error to the
\* caller, which goes on as if nothing had happened.
Fails(c) ==
  /\ Mishap /\ calls' = calls \ {c} /\ excused' = (excused \/ c.at = "answer")
  /\ UNCHANGED <<server, op, local, remote, beats>>

\* An answer to a registration that is no JSON is no httpx.HTTPError: it ends
\* the whole operation, whose other calls go on.
Unreadable(c) ==
  /\ c.at = "answer" /\ c.what = "register" /\ Mishap
  /\ calls' = calls \ {c} /\ excused' = TRUE
  /\ op' = [op EXCEPT ![c.by] = IF @.kind = "start" THEN [@ EXCEPT !.phase = "raised"] ELSE NoOp]
  /\ UNCHANGED <<server, local, remote, beats>>

DaimonRestarts ==
  /\ Mishap /\ daimon' = Holds /\ excused' = TRUE
  /\ UNCHANGED <<server, op, calls, local, listed, lastId, beats>>

----------------------------------------------------------------------------
(* register_all_agents and deregister_all_agents, of an administrator, as   *)
(* the server starts and as it stops                                        *)

Ready(a, kinds, phase) == op[a].kind \in kinds /\ op[a].phase = phase /\ Mine(a) = {}

RegisterAll(a) ==
  /\ server = "serving" /\ op[a] = NoOp /\ Mine(a) = {} /\ asked < MaxAsked /\ asked' = asked + 1
  /\ Send(a, "register", "agents", RegisterCalls(a))
  /\ UNCHANGED <<server, local, remote, beats, mishaps>>

Advertise(a) ==
  /\ Ready(a, {"register", "start"}, "agents")
  /\ Send(a, op[a].kind, "advertise", {Call(a, "advertise", "all", None)})
  /\ UNCHANGED <<server, local, remote, beats, bounds>>

\* The agents that have an id by now, unless the breaker is open.
RegisterMethods(a) ==
  /\ Ready(a, {"register", "start"}, "advertise")
  /\ \/ Send(a, op[a].kind, "methods", MethodCalls(a))
     \/ mishaps > 0 /\ Send(a, op[a].kind, "methods", {})
  /\ UNCHANGED <<server, local, remote, beats, bounds>>

\* The methods are forgotten here alone; the agents are those registered after
\* the capabilities are withdrawn.
DeregisterAll(a) ==
  /\ server = "serving" /\ op[a] = NoOp /\ Mine(a) = {} /\ asked < MaxAsked /\ asked' = asked + 1
  /\ methods' = {}
  /\ Send(a, "deregister", "withdraw", IF advertised THEN {Call(a, "withdraw", "all", None)}
          ELSE {})
  /\ UNCHANGED <<server, registered, advertised, mcp, remote, beats, mishaps>>

DeleteAgents(a) ==
  /\ Ready(a, {"deregister", "stop"}, "withdraw")
  /\ Send(a, op[a].kind, "delete", DeleteCalls(a))
  /\ UNCHANGED <<server, local, remote, beats, bounds>>

Done(a) ==
  /\ Ready(a, {"register"}, "methods") \/ Ready(a, {"deregister"}, "delete")
  /\ op' = [op EXCEPT ![a] = NoOp]
  /\ UNCHANGED <<server, calls, local, remote, beats, excused, bounds>>

----------------------------------------------------------------------------
(* The server                                                               *)

StartServer ==
  /\ server = "off" /\ server' = "starting"
  /\ Send("server", "start", "agents", RegisterCalls("server"))
  /\ UNCHANGED <<local, remote, beats, bounds>>

\* Without a heartbeat if registering raised, and there is no second try.
StartMcp(s) ==
  /\ \/ s = "yeoman" /\ (Ready("server", {"start"}, "methods")
                         \/ op["server"] = [kind |-> "start", phase |-> "raised"])
     \/ s = "daimon" /\ op["server"] = [kind |-> "start", phase |-> "yeoman"]
          /\ {c \in Mine("server") : c.key = "yeoman"} = {}
  /\ heartbeat' = IF s = "yeoman" THEN op["server"].phase = "methods" ELSE heartbeat
  /\ Send("server", "start", s, {Call("server", "mcpRegister", s, None)})
  /\ UNCHANGED <<server, local, remote, beat, refusedBeat, bounds>>

Serve ==
  /\ Ready("server", {"start"}, "daimon") /\ server' = "serving"
  /\ op' = [op EXCEPT !["server"] = NoOp]
  /\ UNCHANGED <<calls, local, remote, beats, excused, bounds>>

\* Requests have ended by then.  Of the two MCP servers daimon's is closed alone.
StopServer ==
  /\ server = "serving" /\ \A a \in Admins : op[a] = NoOp /\ Mine(a) = {}
  /\ server' = "stopping" /\ heartbeat' = FALSE /\ beat' = NoBeat
  /\ Send("server", "stop", "mcp",
          IF mcp["yeoman"] = None THEN {}
            ELSE {Call("server", "mcpDeregister", "yeoman", mcp["yeoman"])})
  /\ UNCHANGED <<local, remote, refusedBeat, bounds>>

StopAgents ==
  /\ Ready("server", {"stop"}, "mcp") /\ methods' = {}
  /\ Send("server", "stop", "withdraw", IF advertised
          THEN {Call("server", "withdraw", "all", None)} ELSE {})
  /\ UNCHANGED <<server, registered, advertised, mcp, remote, beats, bounds>>

Stopped ==
  /\ Ready("server", {"stop"}, "delete") /\ server' = "stopped"
  /\ op' = [op EXCEPT !["server"] = NoOp]
  /\ UNCHANGED <<calls, local, remote, beats, excused, bounds>>

\* _agent_heartbeat_loop, over the static agents; a refusal changes nothing.
SendHeartbeat(k) ==
  /\ heartbeat /\ beat = NoBeat /\ registered[k] # None /\ beat' = [key |-> k, id |-> registered[k]]
  /\ UNCHANGED <<server, op, calls, local, remote, heartbeat, refusedBeat, excused, bounds>>

Deregistering == \E c \in calls : c.what = "delete" /\ c.key = beat.key
HeartbeatAnswered ==
  /\ beat # NoBeat /\ beat' = NoBeat
  /\ refusedBeat' = (refusedBeat \/ (~Known(beat.id) /\ registered[beat.key] = beat.id
                                     /\ ~Deregistering))
  /\ UNCHANGED <<server, op, calls, local, remote, heartbeat, excused, bounds>>

Next ==
  \/ StartServer \/ Serve \/ StopServer \/ StopAgents \/ Stopped \/ DaimonRestarts
       \/ HeartbeatAnswered
  \/ \E s \in Servers : StartMcp(s)
  \/ \E k \in StaticKeys : SendHeartbeat(k)
  \/ \E c \in calls : Arrive(c) \/ Answered(c) \/ Fails(c) \/ Unreadable(c)
  \/ \E a \in Admins : RegisterAll(a) \/ DeregisterAll(a)
  \/ \E a \in Actors : Advertise(a) \/ RegisterMethods(a) \/ DeleteAgents(a) \/ Done(a)

----------------------------------------------------------------------------
(* Properties *)

Quiet == calls = {} /\ \A a \in Actors : op[a] = NoOp

\* When nothing is in flight the port and daimon agree on the agents, and what
\* the port calls registered of methods and capabilities daimon has, although
\* operations overlapped and calls were lost; unless a registration crossed a
\* deregistration, an answer was lost or unreadable, or daimon restarted
\* (register_all_agents, deregister_all_agents).
RegistrationAgreed ==
  Quiet /\ ~excused => registered = daimon.agent /\ advertised = daimon.capabilities
    /\ methods \subseteq daimon.methods

\* A server that stopped leaves nothing of itself in the lists, unless a call
\* failed, but for its entry as an MCP server of daimon's (lifespan).
StoppedCleanly ==
  server = "stopped" /\ mishaps = 0 /\ ~excused => daimon = Holds /\ listed["yeoman"] = {}

\* daimon refuses the heartbeat of no agent but one that is being deregistered
\* (_agent_heartbeat_loop, send_heartbeat).
HeartbeatsKnown == refusedBeat => excused
============================================================================
