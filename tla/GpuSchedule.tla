---------------------------- MODULE GpuSchedule ----------------------------
(* The GPUs of one host (config/gpu.py, config/gpu_scheduler.py): a cached  *)
(* probe, the plan made from it for a crew, and the tracker of what the     *)
(* crews under way have reserved.                                           *)
(*                                                                          *)
(* Data abstracted: a device is its free memory in units of which MaxMem is *)
(* the most; names, drivers and temperatures are left out. An agent's place *)
(* in the definitions is its number. Memory 0 is a request that declares    *)
(* none: the scheduler reserves a nominal megabyte for it, less than a unit,*)
(* so the nominal megabytes are counted beside the units (see Mem).         *)
EXTENDS Integers, FiniteSets, FiniteSetsExt

CONSTANTS GpuCrews,     \* crews that run on the host
          GpuDevices,   \* device indices, a set of naturals
          GpuTeam,      \* agents of a crew, 1 .. n
          MaxMem,       \* units of memory of a device, at most
          Nominal       \* nominal reservations that make up a unit

VARIABLES probed,    \* the cached status: free megabytes of each device
          known,     \* a status is cached and younger than the interval
          plan,      \* the plan of the crew that starts: its request, what it saw, its result
          owner,     \* the crew it is for, until the crew has reserved
          held      \* GPUSlotTracker._reservations

gpuVars == <<probed, known, plan, owner, held>>

CPU     == -1
Nobody  == "nobody"
Kinds   == {"strict", "required", "preferred", "none"}
Request == [kind : Kinds, mem : 0 .. MaxMem]
Budgets == 0 .. MaxMem + 1     \* 0: no budget

\* Megabytes: a unit is Nominal of them, more than the agents of a crew can
\* reserve one at a time.
Mem(u)  == u * Nominal

\* The units that the agents of S declare.
Units(req, S) ==
  LET upTo[n \in 0 .. Cardinality(GpuTeam)] ==
        IF n = 0 THEN 0 ELSE upTo[n - 1] + (IF n \in S THEN req[n].mem ELSE 0)
  IN  upTo[Cardinality(GpuTeam)]

WantsGpu(r) == r.kind # "none"
Reserve(r)  == IF r.mem > 0 THEN Mem(r.mem) ELSE 1

------------------------------------------------------------------------------
(* schedule_crew_gpus, one agent after another in the order of its priority *)

Priority(r) == CASE r.kind = "strict" -> 0 [] r.kind = "required" -> 1
                 [] r.kind = "preferred" -> 2 [] OTHER -> 3

\* (A mutant: agents in the order they are named.)
BeforeInTurn(req, i, j) == i < j

\* Python's sort is stable: agents of one priority keep their order.
Before(req, i, j) == \/ Priority(req[i]) < Priority(req[j])
                     \/ Priority(req[i]) = Priority(req[j]) /\ i < j
InOrder(req) == [k \in 1 .. Cardinality(GpuTeam) |->
  CHOOSE a \in GpuTeam : Cardinality({e \in GpuTeam : Before(req, e, a)}) = k - 1]

Declared(req)       == Mem(Units(req, {a \in GpuTeam : WantsGpu(req[a])}))
OverBudget(req, b)  == b > 0 /\ Declared(req) > Mem(b)

Fits(free, r)  == {d \in DOMAIN free : free[d] >= Mem(r.mem)}
Roomiest(free, D) ==     \* max() takes the first of equals
  CHOOSE d \in D : \A e \in D : free[d] > free[e] \/ (free[d] = free[e] /\ d <= e)

\* The budget that is left, -1 for none; an agent without one is never refused.
Affords(s, r) == s.left = -1 \/ Reserve(r) <= s.left

\* What is said of an agent that wanted a device and gets none.
Refused(s, r, a) == IF r.kind = "strict" THEN [s EXCEPT !.errors = @ \cup {a}]
                                         ELSE [s EXCEPT !.warnings = @ \cup {a}]

Assign(s, r, a) ==
  IF ~WantsGpu(r) THEN s
  ELSE IF Fits(s.free, r) = {} \/ ~Affords(s, r) THEN Refused(s, r, a)
  ELSE LET d == Roomiest(s.free, Fits(s.free, r))
       IN  [s EXCEPT !.free[d] = @ - Reserve(r), !.at[a] = d,
                     !.left = IF @ = -1 THEN @ ELSE @ - Reserve(r)]

Fresh(free, b) == [free |-> free, at |-> [a \in GpuTeam |-> CPU], errors |-> {}, warnings |-> {},
                   left |-> IF b > 0 THEN Mem(b) ELSE -1]

Schedule(req, free, b) ==
  IF OverBudget(req, b) THEN [Fresh(free, b) EXCEPT !.errors = GpuTeam]
  ELSE LET turn == InOrder(req)
           served[k \in 0 .. Cardinality(GpuTeam)] ==
             IF k = 0 THEN Fresh(free, b) ELSE Assign(served[k - 1], req[turn[k]], turn[k])
       IN  served[Cardinality(GpuTeam)]

------------------------------------------------------------------------------
Statuses == UNION {[D -> {Mem(u) : u \in 0 .. MaxMem}] : D \in SUBSET GpuDevices}
NoPlan   == [req |-> [a \in GpuTeam |-> [kind |-> "none", mem |-> 0]], seen |-> <<>>,
             budget |-> 0, others |-> <<>>, out |-> Fresh(<<>>, 0)]

Init ==
  /\ probed = <<>> /\ known = FALSE
  /\ plan = NoPlan /\ owner = Nobody
  /\ held = [c \in GpuCrews |-> {}]

\* detect_gpus: the cache answers within the interval; otherwise the probe
\* file, or nvidia-smi, says what is free now. A host without devices has a
\* status too, and a probe that failed is not kept (its probed_at is 0).
Status(seen) == IF known THEN seen = probed ELSE seen \in Statuses

Taken(d, C) == LET mem(slot) == slot.mem
                   of(c)     == MapThenSumSet(mem, {s \in held[c] : s.device = d})
               IN  MapThenSumSet(of, C)

\* _run_crew_async plans its agents on the device memory it sees.
MakePlan(c) ==
  \E seen \in Statuses, req \in [GpuTeam -> Request], b \in Budgets :
    /\ held[c] = {} /\ owner = Nobody /\ Status(seen)
    /\ probed' = seen /\ known' = (DOMAIN seen # {})
    /\ plan' = [req |-> req, seen |-> seen, budget |-> b,
                others |-> [d \in DOMAIN seen |-> Taken(d, GpuCrews)],
                out |-> Schedule(req, seen, b)]
    /\ owner' = c
    /\ UNCHANGED held

\* A plan with errors ends the crew; the slots of any other are reserved.
Occupy(c) ==
  /\ owner = c /\ owner' = Nobody
  /\ held' = [held EXCEPT ![c] =
       IF plan.out.errors # {} THEN {}
       ELSE {[agent |-> a, device |-> plan.out.at[a], mem |-> Reserve(plan.req[a])] :
                a \in {x \in GpuTeam : plan.out.at[x] # CPU}}]
  /\ plan' = NoPlan
  /\ UNCHANGED <<probed, known>>

\* GPUSlotTracker.release, at the crew's end.
Release(c) ==
  /\ held[c] # {} /\ held' = [held EXCEPT ![c] = {}]
  /\ UNCHANGED <<probed, known, plan, owner>>

\* The interval passes, or check_memory_usage or reset_cache has the next
\* caller probe again.
Expire == known /\ known' = FALSE /\ UNCHANGED <<probed, plan, owner, held>>

Next == Expire \/ \E c \in GpuCrews : MakePlan(c) \/ Occupy(c) \/ Release(c)

------------------------------------------------------------------------------
(* Properties *)

OnDevice(d) == {a \in GpuTeam : plan.out.at[a] = d}

\* What the agents of a plan declare fits the device they share and the
\* crew's budget, in whatever order they were served (schedule_crew_gpus).
PlanFits ==
  /\ \A d \in DOMAIN plan.seen : Mem(Units(plan.req, OnDevice(d))) <= plan.seen[d]
  /\ plan.budget > 0 =>
       Mem(Units(plan.req, {a \in GpuTeam : plan.out.at[a] # CPU})) <= Mem(plan.budget)

\* An agent that must have a GPU loses it to nobody who needed it less and
\* asked for as much: and it is never put on the CPU in silence.
StrictFirst ==
  \A a \in GpuTeam : plan.req[a].kind = "strict" /\ plan.out.at[a] = CPU =>
    /\ a \in plan.out.errors
    /\ \A e \in GpuTeam : plan.out.at[e] # CPU /\ plan.req[e].kind # "strict" =>
         plan.req[e].mem < plan.req[a].mem
=============================================================================
