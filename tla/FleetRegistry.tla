---------------------------- MODULE FleetRegistry ----------------------------
(* The fleet's inventory in the earlier implementation                      *)
(* (src/python-port/config/fleet/registry.py and node.py): every node       *)
(* writes a record with its last heartbeat to Redis and enters its name in  *)
(* the set of nodes and the set of its group; an administrator evicts the   *)
(* nodes whose heartbeat is too old.                                        *)
(*                                                                          *)
(* An action is the code between two awaits; the commands of one gather     *)
(* reach Redis in any order.  Time is counted in heartbeat intervals.       *)
EXTENDS Integers, FiniteSets

CONSTANTS
  Nodes,
  NodeTTL,      \* HEARTBEAT_TTL in heartbeat intervals; a record's key lives
                \* three times as long
  MaxNow,       \* bound: how long the clock runs
  NoRecord

VARIABLES
  now,
  record,    \* fleet:node:{id}: the heartbeat in it and when the key expires
  nodeSet,   \* fleet:nodes
  groupSet,  \* fleet:group:{group}, of the one group the nodes are in
  proc,      \* what each node's process is doing
  beat,      \* _local_node.last_heartbeat of each process
  todo,      \* the commands of its gather still to run
  excused,   \* history: nodes that, since they registered, went an interval without
             \* a heartbeat, or whose registration met an eviction
  left,      \* history: since when each node has not been running
  epc, ids, found, cut, started  \* the eviction: where it is, names to get, the
                \* heartbeats it has read, the commands it still has to run, its start

regVars == <<now, record, nodeSet, groupSet, proc, beat, todo, excused, left,
             epc, ids, found, cut, started>>
evictor == <<epc, ids, found, cut, started>>
keys    == <<record, nodeSet, groupSet>>

Commands == {"key", "nodes", "group"}

Init ==
  /\ now = 0 /\ record = [n \in Nodes |-> NoRecord]
  /\ nodeSet = {} /\ groupSet = {}
  /\ proc = [n \in Nodes |-> "off"] /\ beat = [n \in Nodes |-> 0]
  /\ todo = [n \in Nodes |-> {}] /\ excused = {} /\ left = [n \in Nodes |-> 0]
  /\ epc = "idle" /\ ids = {} /\ found = [n \in Nodes |-> NoRecord]
  /\ cut = {} /\ started = 0

\* (A mutant: one moment longer.)
IsAliveLate(b) == now - b <= NodeTTL
IsAlive(b) == now - b < NodeTTL

\* setex: the record with a fresh time to live.
Written(n) == [record EXCEPT ![n] = [beat |-> beat[n], expires |-> now + 3 * NodeTTL]]

-----------------------------------------------------------------------------
(* A node: register, heartbeat, deregister, crash *)

Register(n) ==
  /\ proc[n] = "off"
  /\ proc' = [proc EXCEPT ![n] = "writing"]
  /\ beat' = [beat EXCEPT ![n] = now]
  /\ excused' = IF epc = "idle" THEN excused \ {n} ELSE excused \cup {n}
  /\ UNCHANGED <<now, keys, todo, left, evictor>>

WriteNode(n) ==
  /\ proc[n] = "writing"
  /\ record' = Written(n)
  /\ proc' = [proc EXCEPT ![n] = "joining"]
  /\ todo' = [todo EXCEPT ![n] = {"nodes", "group"}]
  /\ UNCHANGED <<now, nodeSet, groupSet, beat, excused, left, evictor>>

Join(n) ==
  /\ proc[n] = "joining"
  /\ \E c \in todo[n] :
       /\ todo' = [todo EXCEPT ![n] = @ \ {c}]
       /\ nodeSet'  = IF c = "nodes" THEN nodeSet \cup {n} ELSE nodeSet
       /\ groupSet' = IF c = "group" THEN groupSet \cup {n} ELSE groupSet
       /\ proc' = [proc EXCEPT ![n] = IF todo[n] = {c} THEN "on" ELSE @]
  /\ UNCHANGED <<now, record, beat, excused, left, evictor>>

\* The loop wakes: the heartbeat is taken, and written an await later.  Only
\* the record is written: the names in the sets are never renewed.
HeartbeatTaken(n) ==
  /\ proc[n] = "on" /\ beat[n] < now
  /\ beat' = [beat EXCEPT ![n] = now]
  /\ proc' = [proc EXCEPT ![n] = "beating"]
  /\ UNCHANGED <<now, keys, todo, excused, left, evictor>>

\* A failed write is logged and the loop goes on.
HeartbeatWritten(n) ==
  /\ proc[n] = "beating"
  /\ \/ record' = Written(n) /\ UNCHANGED excused
     \/ record' = record /\ excused' = excused \cup {n}
  /\ proc' = [proc EXCEPT ![n] = "on"]
  /\ UNCHANGED <<now, nodeSet, groupSet, beat, todo, left, evictor>>

\* deregister cancels the loop; a write the loop has sent is still carried out
\* before the commands that follow.
Deregister(n) ==
  /\ proc[n] \in {"on", "beating"}
  /\ record' = IF proc[n] = "beating" THEN Written(n) ELSE record
  /\ proc' = [proc EXCEPT ![n] = "leaving"]
  /\ todo' = [todo EXCEPT ![n] = Commands]
  /\ left' = [left EXCEPT ![n] = now]
  /\ UNCHANGED <<now, nodeSet, groupSet, beat, excused, evictor>>

\* One of the three commands that take a node out of the inventory.
Removed(n, c) ==
  /\ record'   = IF c = "key" THEN [record EXCEPT ![n] = NoRecord] ELSE record
  /\ nodeSet'  = IF c = "nodes" THEN nodeSet \ {n} ELSE nodeSet
  /\ groupSet' = IF c = "group" THEN groupSet \ {n} ELSE groupSet

Leave(n) ==
  /\ proc[n] = "leaving"
  /\ \E c \in todo[n] :
       /\ todo' = [todo EXCEPT ![n] = @ \ {c}]
       /\ Removed(n, c)
       /\ proc' = [proc EXCEPT ![n] = IF todo[n] = {c} THEN "off" ELSE @]
  /\ UNCHANGED <<now, beat, excused, left, evictor>>

Crash(n) ==
  /\ proc[n] # "off"
  /\ proc' = [proc EXCEPT ![n] = "off"]
  /\ todo' = [todo EXCEPT ![n] = {}]
  /\ left' = [left EXCEPT ![n] = IF proc[n] = "leaving" THEN @ ELSE now]
  /\ UNCHANGED <<now, keys, beat, excused, evictor>>

-----------------------------------------------------------------------------
(* evict_dead_nodes *)

\* get_all_nodes: the names first, then the records one by one.
EvictNames ==
  /\ epc = "idle"
  /\ epc' = "get" /\ ids' = nodeSet /\ started' = now
  /\ excused' = excused \cup {n \in Nodes : proc[n] = "writing"}
  /\ UNCHANGED <<now, keys, proc, beat, todo, left, found, cut>>

EvictGet ==
  /\ epc = "get"
  /\ \E n \in ids :
       /\ ids' = ids \ {n}
       /\ found' = [found EXCEPT ![n] = IF record[n] = NoRecord THEN NoRecord
                                        ELSE record[n].beat]
  /\ UNCHANGED <<now, keys, proc, beat, todo, excused, left, epc, cut, started>>

EvictRead ==
  /\ epc = "get" /\ ids = {}
  /\ epc' = "judge"
  /\ UNCHANGED <<now, keys, proc, beat, todo, excused, left, ids, found, cut, started>>

\* A node whose heartbeat, as it was read, is too old by now.
EvictJudge ==
  /\ epc = "judge" /\ cut = {}
  /\ \E n \in Nodes :
       /\ found[n] # NoRecord
       /\ cut' = IF IsAlive(found[n]) THEN {} ELSE Commands \X {n}
       /\ found' = [found EXCEPT ![n] = NoRecord]
  /\ UNCHANGED <<now, keys, proc, beat, todo, excused, left, epc, ids, started>>

EvictRemove ==
  /\ epc = "judge"
  /\ \E r \in cut : cut' = cut \ {r} /\ Removed(r[2], r[1])
  /\ UNCHANGED <<now, proc, beat, todo, excused, left, epc, ids, found, started>>

EvictDone ==
  /\ epc = "judge" /\ cut = {} /\ \A n \in Nodes : found[n] = NoRecord
  /\ epc' = "idle" /\ started' = 0
  /\ UNCHANGED <<now, keys, proc, beat, todo, excused, left, ids, found, cut>>

-----------------------------------------------------------------------------
(* Time.  An eviction is a handful of commands: it is over before the slack *)
(* between the interval and the time to live has passed.  A registration    *)
(* is over within the interval.                                             *)

Tick ==
  /\ now < MaxNow
  /\ epc # "idle" => now + 1 - started < NodeTTL - 1
  /\ \A n \in Nodes : proc[n] \in {"writing", "joining"} => now = beat[n]
  /\ now' = now + 1
  /\ record' = [n \in Nodes |-> IF record[n] # NoRecord
                                   /\ record[n].expires <= now'
                                THEN NoRecord ELSE record[n]]
  /\ excused' = excused \cup {n \in Nodes : /\ proc[n] \notin {"off", "leaving"}
                                      /\ now' - beat[n] > 1}
              \cup {n \in Nodes : proc[n] = "beating"}
  /\ UNCHANGED <<nodeSet, groupSet, proc, beat, todo, left, evictor>>

Evict == EvictNames \/ EvictGet \/ EvictRead \/ EvictJudge \/ EvictRemove \/ EvictDone

Next ==
  \/ Evict \/ Tick
  \/ \E n \in Nodes : \/ Register(n) \/ WriteNode(n) \/ Join(n) \/ HeartbeatTaken(n)
                      \/ HeartbeatWritten(n) \/ Deregister(n) \/ Leave(n) \/ Crash(n)

Spec == Init /\ [][Next]_regVars

-----------------------------------------------------------------------------
(* get_node, get_alive_nodes and get_group_nodes, each read at one moment *)

NodeAlive(n)  == record[n] # NoRecord /\ IsAlive(record[n].beat)
AliveNodes    == {n \in nodeSet : NodeAlive(n)}
GroupNodes    == {n \in groupSet : NodeAlive(n)}

-----------------------------------------------------------------------------
(* Properties *)

\* A node that has stopped, however it stopped and whatever of its leaving or
\* of its last heartbeat was cut short, counts as alive for no longer than the
\* time to live (get_node, which the crews' health check asks; deregister).
GoneInTime ==
  \A n \in Nodes : proc[n] = "off" /\ NodeAlive(n) => now - left[n] < NodeTTL

\* A node that has kept to its heartbeat interval since it registered is in
\* both listings: no eviction, though it judges records it read earlier,
\* takes it out, unless it met the node's registration half done
\* (evict_dead_nodes, _heartbeat_loop).
PunctualListed ==
  \A n \in Nodes : proc[n] \in {"on", "beating"} /\ n \notin excused =>
     n \in AliveNodes /\ n \in GroupNodes
=============================================================================
