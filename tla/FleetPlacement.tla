--------------------------- MODULE FleetPlacement --------------------------
(* The placement of a crew's agents on the nodes of a fleet                 *)
(* (config/fleet/placement.py), one placement at a time.                    *)
(*                                                                          *)
(* Data abstracted: a node is its group, whether it can take agents (online *)
(* and heard of), its GPUs, cores, free memory and the agents it runs, drawn*)
(* from NodeKinds; an agent is whether it needs a GPU. The order in which   *)
(* the registry lists the nodes, which breaks every tie, is their number.   *)
EXTENDS Integers, FiniteSets

CONSTANTS FleetNodes,    \* nodes the registry lists, 1 .. n
          NodeKinds,     \* what a node may be
          PlacedAgents,  \* agents to place, 1 .. n
          Penalty        \* free memory that one running agent weighs (100)

VARIABLES fleet,     \* the nodes as read from the registry
          call,      \* the call being made: policy, group, agents' needs
          placement  \* the plan it returns

placeVars == <<fleet, call, placement>>

Policies == {"gpu-affinity", "data-locality", "balanced", "cost-aware", "lockstep-strict"}
Calls    == [policy : Policies, group : {"any"} \cup {k.group : k \in NodeKinds},
             needs : [PlacedAgents -> BOOLEAN]]

Unplaced   == 0
Nobody(done, error) ==
  [done |-> done, error |-> error, at |-> [a \in PlacedAgents |-> Unplaced], warned |-> {}]
NoneYet    == Nobody(FALSE, FALSE)

HasGpu(n)  == fleet[n].gpus > 0
Offered    == {n \in FleetNodes : call.group = "any" \/ fleet[n].group = call.group}
Available  == {n \in Offered : fleet[n].ready}

\* min() and sorted() take the first of equals in the list's order.
Least(N, key) == CHOOSE n \in N : \A m \in N : key[n] < key[m] \/ (key[n] = key[m] /\ n <= m)

Here(p, n)       == Cardinality({a \in PlacedAgents : p.at[a] = n})
Load(p, n)       == Here(p, n) + fleet[n].agents
LeastLoaded(p, N) == Least(N, [n \in N |-> Load(p, n)])

\* gpu-affinity scores a GPU node by what it had free when it was listed: the
\* agents just placed on it do not count.
Score(n)   == fleet[n].free - fleet[n].agents * Penalty
BestGpu(N) == Least(N, [n \in N |-> -Score(n)])

Capacity(n, m) == \/ fleet[n].gpus > fleet[m].gpus
                  \/ fleet[n].gpus = fleet[m].gpus /\ fleet[n].cores > fleet[m].cores
Strongest(N)   == CHOOSE n \in N : \A m \in N : Capacity(n, m) \/ (~Capacity(m, n) /\ n <= m)

GpuNodes == {n \in Available : HasGpu(n)}
CpuNodes == Available \ GpuNodes

Put(p, a, n)   == [p EXCEPT !.at[a] = n]
Warned(p, a)   == [p EXCEPT !.warned = @ \cup {a}]

GpuAffinity(p, a) ==
  IF call.needs[a] /\ GpuNodes # {} THEN Put(p, a, BestGpu(GpuNodes))
  ELSE Put(IF call.needs[a] THEN Warned(p, a) ELSE p, a, LeastLoaded(p, Available))

Balanced(p, a) == Put(p, a, LeastLoaded(p, Available))

CostAware(p, a) ==
  Put(p, a, LeastLoaded(p, IF call.needs[a] /\ GpuNodes # {} THEN GpuNodes
                           ELSE IF CpuNodes # {} THEN CpuNodes ELSE Available))

\* The strongest node has a GPU if any has, so the GPU agents' node is it.
LockstepStrict(p, a) ==
  IF call.needs[a] /\ GpuNodes # {} THEN Put(p, a, Strongest(GpuNodes))
  ELSE Put(IF call.needs[a] THEN Warned(p, a) ELSE p, a, Strongest(Available))

PlaceOne(p, a) ==
  CASE call.policy = "lockstep-strict" -> LockstepStrict(p, a)
    [] call.policy = "balanced"        -> Balanced(p, a)
    [] call.policy = "cost-aware"      -> CostAware(p, a)
    [] OTHER                           -> GpuAffinity(p, a)

\* The plan when the first k agents have their places.
Placed[k \in 0 .. Cardinality(PlacedAgents)] ==
  IF k = 0 THEN Nobody(TRUE, FALSE) ELSE PlaceOne(Placed[k - 1], k)

\* place_agents: no node at all, none of the group and none that can take
\* agents are errors; a plan with an error places nobody.
PlaceAgents ==
  IF Available = {} THEN Nobody(TRUE, TRUE)
  ELSE Placed[Cardinality(PlacedAgents)]

------------------------------------------------------------------------------
NoCall   == [policy |-> "none"]
SomeNode == CHOOSE k \in NodeKinds : TRUE

Init == fleet = [n \in FleetNodes |-> SomeNode] /\ call = NoCall /\ placement = NoneYet

\* The coordinator reads the nodes of the registry and asks for a plan.
Ask ==
  /\ call = NoCall
  /\ fleet' \in [FleetNodes -> NodeKinds] /\ call' \in Calls
  /\ UNCHANGED placement

Place ==
  /\ call # NoCall /\ ~placement.done
  /\ placement' = PlaceAgents
  /\ UNCHANGED <<fleet, call>>

Done == placement.done /\ call' = NoCall /\ placement' = NoneYet
        /\ fleet' = [n \in FleetNodes |-> SomeNode]

Next == Ask \/ Place \/ Done

------------------------------------------------------------------------------
(* Properties *)

\* Every agent has one node, one the call allows, or the plan is an error and
\* the error is true: nobody could have been placed (place_agents).
PlacedOrTold ==
  placement.done =>
    IF placement.error
    THEN /\ \A n \in FleetNodes :
              ~(fleet[n].ready /\ call.group \in {"any", fleet[n].group})
         /\ \A a \in PlacedAgents : placement.at[a] = Unplaced
    ELSE \A a \in PlacedAgents :
           /\ placement.at[a] \in FleetNodes
           /\ fleet[placement.at[a]].ready
           /\ call.group \in {"any", fleet[placement.at[a]].group}

Used == {placement.at[a] : a \in PlacedAgents}

\* What each policy is named for, however its nodes were loaded before: an
\* agent that needs a GPU gets one if a node it may use has one; balanced
\* leaves no node two agents behind another it added to; cost-aware spends no
\* GPU node on an agent that can run elsewhere; lockstep shares one node.
PolicyKept ==
  placement.done /\ ~placement.error =>
    /\ call.policy # "balanced" /\ GpuNodes # {} =>
         \A a \in PlacedAgents : call.needs[a] => HasGpu(placement.at[a])
    /\ call.policy = "balanced" =>
         \A n \in Used, m \in Available : Load(placement, n) <= Load(placement, m) + 1
    /\ call.policy = "cost-aware" /\ CpuNodes # {} =>
         \A a \in PlacedAgents : ~call.needs[a] => ~HasGpu(placement.at[a])
    /\ call.policy = "lockstep-strict" => Cardinality(Used) = 1
    /\ \A a \in PlacedAgents : a \in placement.warned =>
         call.needs[a] /\ ~HasGpu(placement.at[a])
=============================================================================
