------------------------------- MODULE Alerts -------------------------------
(* Alerts of the Python port: the health answer of the web GUI               *)
(* (webgui/app.py, health_check), the monitor that polls it and tells of     *)
(* what changed since its poll before, and the manager that delivers what it *)
(* tells to each channel, at most once per cooldown (shared/alerts.py).      *)
(*                                                                           *)
(* Data abstracted: an alert is its type and context, which are its cooldown *)
(* key; its words, and the stream that keeps the last ones, are left out.    *)
(* A time is its age in ticks and, within a tick, the alerts with a later    *)
(* one.  Agents are compared in any order.  RabbitMQ is configured and so is *)
(* the database.                                                             *)
EXTENDS Integers, Sequences, FiniteSets

CONSTANTS Agents,                        \* whose heartbeats are in Redis
          Ways,                          \* the channels, in order
          Cooldown, EvictAge,            \* ticks between equal alerts, and a key is kept (no fewer)
          EvictEvery, MaxEntries,        \* keys between evictions, and kept at most
          MaxTries,                      \* of one delivery
          MaxHappenings                  \* bound: changes, failures and stops

VARIABLES world,       \* Redis, RabbitMQ, the database and the agents' heartbeats
          monitor,     \* the poll: step, health seen, alerts left, channel, tries
          before,      \* _previous_status and _previous_agents
          fired,       \* _last_fired: alert -> its time
          heard,       \* history: every alert begun, its time and what was before it
          polled,      \* history: what the last two polls answered saw
          accounted,   \* history: alerts of this poll told, or told within the cooldown
          happened

alertVars == <<world, monitor, before, fired, heard, polled, accounted, happened>>
manager   == <<fired, heard, accounted>>

Services == {"redis", "rabbitmq", "database"}
NoHealth == [status |-> "none", redis |-> "none", rabbitmq |-> "none", agents |-> <<>>]
Asleep   == [step |-> "sleep", ping |-> TRUE, seen |-> NoHealth, left |-> {}, way |-> 0,
             tries |-> 0]
Off      == [Asleep EXCEPT !.step = "off"]
Old      == EvictAge + 1

Init ==
  /\ world = [up |-> [s \in Services |-> TRUE], agent |-> [a \in Agents |-> "alive"]]
  /\ monitor = Off /\ before = NoHealth /\ fired = <<>> /\ heard = <<>>
  /\ polled = <<NoHealth, NoHealth>>
  /\ accounted = {} /\ happened = 0

Happens == happened < MaxHappenings /\ happened' = happened + 1

Change(w) == Happens /\ w # world /\ world' = w /\ UNCHANGED <<monitor, before, polled, manager>>
ChangeService == \E s \in Services : Change([world EXCEPT !.up[s] = ~@])
ChangeAgent   == \E a \in Agents, h \in {"alive", "stale", "offline"} :
  Change([world EXCEPT !.agent[a] = h])

Older(s) == [a \in DOMAIN s |-> [s[a] EXCEPT !.age = IF @ = Old THEN @ ELSE @ + 1]]
Tick ==
  /\ fired' = Older(fired) /\ heard' = Older(heard) /\ <<fired', heard'>> # <<fired, heard>>
  /\ UNCHANGED <<world, monitor, before, polled, accounted, happened>>

\* The server starts with ALERTS_ENABLED, and stops wherever the poll is: what
\* it knew is gone.
Start == monitor.step = "off" /\ monitor' = Asleep
  /\ UNCHANGED <<world, before, polled, manager, happened>>
Stop ==
  /\ monitor.step # "off" /\ Happens /\ monitor' = Off /\ before' = NoHealth
  /\ fired' = <<>> /\ heard' = <<>> /\ polled' = <<NoHealth, NoHealth>> /\ accounted' = {}
  /\ UNCHANGED world

-----------------------------------------------------------------------------
(* health_check: Redis is pinged first and read after the socket to RabbitMQ *)

Ping ==
  /\ monitor.step = "sleep"
  /\ monitor' = [Asleep EXCEPT !.step = "asked", !.ping = world.up["redis"]]
  /\ UNCHANGED <<world, before, polled, manager, happened>>

AgentsSeen == IF world.up["redis"] THEN world.agent ELSE [a \in Agents |-> "offline"]
Overall(ping, agents) ==
  CASE ~ping \/ ~world.up["database"] -> "unhealthy"
    [] ping /\ world.up["database"] /\ (~world.up["rabbitmq"]
                                        \/ \A a \in Agents : agents[a] # "alive") -> "degraded"
    [] OTHER -> "healthy"
Word(up) == IF up THEN "ok" ELSE "error"
Health == [status |-> Overall(monitor.ping, AgentsSeen), redis |-> Word(monitor.ping),
           rabbitmq |-> Word(world.up["rabbitmq"]), agents |-> AgentsSeen]

-----------------------------------------------------------------------------
(* HealthMonitor._check_health *)

Alert(type, context) == [type |-> type, context |-> context]

OverallAlert(was, seen) ==
  IF was.status \in {"none", seen.status} THEN {}
  ELSE {CASE seen.status = "unhealthy" -> Alert("unhealthy",
                                                [redis |-> seen.redis, rabbitmq |-> seen.rabbitmq])
          [] seen.status = "degraded"  -> Alert("degraded", seen.agents)
          [] seen.status = "healthy"   -> Alert("recovered", <<>>)}

AgentAlert(a, was, is) ==
  CASE is = "offline" /\ was # "offline" -> {Alert("offline", [agent |-> a, previous |-> was])}
    [] is = "stale" /\ was = "alive"     -> {Alert("stale", [agent |-> a])}
    [] OTHER                             -> {}
AgentAlerts(was, seen) ==
  IF was.status = "none" THEN {}
  ELSE UNION {AgentAlert(a, was.agents[a], seen.agents[a]) : a \in Agents}

Transitions(was, seen) == OverallAlert(was, seen) \cup AgentAlerts(was, seen)

Answered ==
  /\ monitor.step = "asked"
  /\ monitor' = [monitor EXCEPT !.step = "fire", !.seen = Health,
                 !.left = Transitions(before, Health)]
  /\ polled' = <<polled[2], Health>> /\ UNCHANGED <<world, before, manager, happened>>
Unanswered ==
  /\ monitor.step = "asked" /\ Happens /\ monitor' = Asleep
  /\ UNCHANGED <<world, before, polled, manager>>

\* Only when every alert is out is what was seen what the next poll compares to.
EndPoll ==
  /\ monitor.step = "fire" /\ monitor.left = {}
  /\ before' = monitor.seen /\ monitor' = Asleep /\ accounted' = {}
  /\ UNCHANGED <<world, fired, heard, polled, happened>>

-----------------------------------------------------------------------------
(* AlertManager.fire *)

AgeOf(a, s)   == IF a \in DOMAIN s THEN s[a].age ELSE Old
Since(a, s)   == IF a \in DOMAIN s THEN Cardinality(s[a].later) ELSE 0
With(a, s, e) == [b \in DOMAIN s \cup {a} |-> IF b = a THEN e ELSE [s[b] EXCEPT !.later = @ \cup {a}]]
Only(s, keys) == [b \in keys |-> [s[b] EXCEPT !.later = @ \cap keys]]

\* Of more keys than there is room for the oldest go.
EvictStale(s) == Only(s, {b \in DOMAIN s : s[b].age <= EvictAge})
Capped(s)     == Only(s, {b \in DOMAIN s : Cardinality(s[b].later) < MaxEntries})
Evicted(s)    == LET n == Cardinality(DOMAIN s) IN
                 IF n % EvictEvery = 0 \/ n > MaxEntries THEN Capped(EvictStale(s)) ELSE s

\* The overall status is compared before the agents are.
IsNext(a) ==
  /\ monitor.step = "fire" /\ a \in monitor.left
  /\ a.type \in {"offline", "stale"} => \A b \in monitor.left : b.type \in {"offline", "stale"}

Suppress(a) ==
  /\ IsNext(a) /\ AgeOf(a, fired) < Cooldown
  /\ monitor' = [monitor EXCEPT !.left = @ \ {a}]
  /\ accounted' = IF AgeOf(a, heard) < Cooldown THEN accounted \cup {a} ELSE accounted
  /\ UNCHANGED <<world, before, fired, heard, polled, happened>>

\* The cooldown starts before the delivery does.
Fire(a) ==
  /\ IsNext(a) /\ AgeOf(a, fired) >= Cooldown
  /\ fired' = Evicted(With(a, fired, [age |-> 0, later |-> {}]))
  /\ heard' = With(a, heard, [age |-> 0, later |-> {}, gap |-> AgeOf(a, heard),
                              since |-> Since(a, heard)])
  /\ accounted' = accounted \cup {a}
  /\ monitor' = [monitor EXCEPT !.step = "deliver", !.left = @ \ {a}, !.way = 1, !.tries = 0]
  /\ UNCHANGED <<world, before, polled, happened>>

\* One channel after the other, each until it answers well or MaxTries failed.
NextWay(m) == [m EXCEPT !.way = @ + 1, !.tries = 0]
Deliver ==
  /\ monitor.step = "deliver" /\ monitor.way <= Len(Ways) /\ monitor' = NextWay(monitor)
  /\ UNCHANGED <<world, before, polled, manager, happened>>
DeliveryFails ==
  /\ monitor.step = "deliver" /\ monitor.way <= Len(Ways) /\ Happens
  /\ monitor' = IF monitor.tries + 1 < MaxTries THEN [monitor EXCEPT !.tries = @ + 1]
       ELSE NextWay(monitor)
  /\ UNCHANGED <<world, before, polled, manager>>

\* Redis is told last, and that it cannot be told of its own failure is no error.
Publish ==
  /\ monitor.step = "deliver" /\ monitor.way > Len(Ways)
  /\ monitor' = [monitor EXCEPT !.step = "fire"]
  /\ UNCHANGED <<world, before, polled, manager, happened>>

Next ==
  \/ ChangeService \/ ChangeAgent \/ Tick \/ Start \/ Stop
  \/ Ping \/ Answered \/ Unanswered \/ EndPoll
  \/ \E a \in monitor.left : Suppress(a) \/ Fire(a)
  \/ Deliver \/ DeliveryFails \/ Publish

-----------------------------------------------------------------------------
(* Properties *)

\* Of every change between two polls the operators are told in the second, though
\* deliveries fail and take their time, unless they were told the same within
\* the cooldown, which runs from what they were told and not from what it
\* held back (_check_health, fire).
ChangesTold ==
  monitor.step = "fire" /\ monitor.left = {}
    => Transitions(polled[1], polled[2]) \subseteq accounted

\* The same alert does not come twice within the cooldown, though keys are
\* evicted, unless as many alerts as there is room for came in between (fire).
CooldownKept == \A a \in DOMAIN heard : heard[a].gap >= Cooldown \/ heard[a].since >= MaxEntries
=============================================================================
