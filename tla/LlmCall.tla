------------------------------ MODULE LlmCall ------------------------------
(* A language-model call of the Python port (config/llm_integration.py):    *)
(* the circuit breaker in front of the service (shared/resilience.py), the  *)
(* token budget it reserves from and settles with                           *)
(* (config/agnos_token_budget.py, with a breaker of its own), and the route *)
(* to a local model (config/local_inference.py). An action is the code      *)
(* between two awaits; a call can be cancelled at every await.              *)
(*                                                                          *)
(* Data abstracted: prompts, prices and durations. A breaker's time since   *)
(* its last failure is whether the recovery timeout has passed (cool).      *)
EXTENDS Integers, FiniteSets

CONSTANTS Callers,     \* calls that may be under way at once
          Threshold,   \* failure_threshold
          MaxFaults    \* bound: answers lost and calls cancelled

VARIABLES service, budget,   \* _llm_circuit, _budget_circuit
          at,                \* where each call is
          reservation,       \* reservation_id: the call knows of one
          reserved,          \* calls whose reservation the budget service holds
          orphans,           \* reservations it holds for calls that are over
          spent,             \* answered calls whose tokens were not reported
          answer,            \* what the last call of the caller returned
          model,             \* where the request went: "cloud" or "local"
          faults             \* answers lost and calls cancelled so far

llmVars == <<service, budget, at, reservation, reserved, orphans, spent, answer, model, faults>>
circuits == <<service, budget>>
account  == <<reservation, reserved, orphans, spent>>

------------------------------------------------------------------------------
(* CircuitBreaker. Reading its state is what moves it from open to half     *)
(* open; a success closes it from any state, a failure at the threshold     *)
(* opens it from any state, and half open lets every caller through.        *)

Closed == [state |-> "closed", failures |-> 0, cool |-> FALSE]

State(b)      == IF b.state = "open" /\ b.cool THEN [b EXCEPT !.state = "half_open"] ELSE b
CanExecute(b) == State(b).state # "open"
Success(b)    == Closed
Least(n)      == IF n < Threshold THEN n ELSE Threshold
Failure(b)    ==
  LET n == Least(b.failures + 1)
  IN  [state |-> IF n = Threshold THEN "open" ELSE b.state, failures |-> n, cool |-> FALSE]

\* The recovery timeout passes.
Cools(b) == b.state = "open" /\ ~b.cool
Elapse ==
  \/ Cools(service) /\ service' = [service EXCEPT !.cool = TRUE]
       /\ UNCHANGED <<budget, at, account, answer, model, faults>>
  \/ Cools(budget) /\ budget' = [budget EXCEPT !.cool = TRUE]
       /\ UNCHANGED <<service, at, account, answer, model, faults>>

------------------------------------------------------------------------------
(* route_inference: a listed model of a size the host is meant for goes to  *)
(* the local server while the GPU has room, and any error means the cloud.  *)

Models == [listed : BOOLEAN, small : BOOLEAN]
RouteInference(m, enabled, headroom) ==
  IF enabled /\ m.listed /\ m.small /\ headroom THEN "local" ELSE "cloud"

------------------------------------------------------------------------------
Init ==
  /\ service = Closed /\ budget = Closed
  /\ at = [c \in Callers |-> "idle"]
  /\ reservation = {} /\ reserved = {} /\ orphans = 0 /\ spent = 0
  /\ answer = [c \in Callers |-> "none"] /\ model = [c \in Callers |-> "cloud"]
  /\ faults = 0

Goto(c, s) == at' = [at EXCEPT ![c] = s]
Answer(c, a) == answer' = [answer EXCEPT ![c] = a]
Fault == faults < MaxFaults /\ faults' = faults + 1

\* The call ends: what the budget service still holds for it is orphaned.
End(c, a) ==
  /\ Goto(c, "idle") /\ Answer(c, a)
  /\ reservation' = reservation \ {c}

\* The request leaves: no await lies between the reservation and this.
Request(c) ==
  /\ Goto(c, "calling")
  /\ \E m \in Models, enabled, headroom \in BOOLEAN :
       model' = [model EXCEPT ![c] = RouteInference(m, enabled, headroom)]
  /\ UNCHANGED answer

\* _llm_call: no key, or a breaker that is open, is answered by the fallback.
Begin(c) ==
  /\ at[c] = "idle" /\ service' = State(service)
  /\ \/ ~CanExecute(service) /\ Answer(c, "fallback") /\ UNCHANGED <<at, model>>
     \/ CanExecute(service) /\ Goto(c, "check") /\ UNCHANGED <<answer, model>>
     \/ CanExecute(service) /\ Request(c)        \* the budget is not enabled
  /\ UNCHANGED <<budget, account, faults>>

\* check_budget: it fails open, and a refusal is answered by the fallback.
CheckBudget(c) ==
  /\ at[c] = "check"
  /\ \/ ~CanExecute(budget) /\ budget' = State(budget) /\ Goto(c, "reserve")
        /\ UNCHANGED <<answer, faults>>
     \/ CanExecute(budget) /\ budget' = Success(budget) /\ Goto(c, "reserve")
        /\ UNCHANGED <<answer, faults>>
     \/ CanExecute(budget) /\ budget' = Success(budget) /\ Goto(c, "idle")
        /\ Answer(c, "fallback") /\ UNCHANGED faults
     \/ CanExecute(budget) /\ Fault /\ budget' = Failure(State(budget)) /\ Goto(c, "reserve")
        /\ UNCHANGED answer
  /\ UNCHANGED <<service, account, model>>

\* reserve_tokens: an answer that is lost may leave a reservation nobody knows.
ReserveTokens(c) ==
  /\ at[c] = "reserve" /\ Request(c)
  /\ \/ /\ ~CanExecute(budget) /\ budget' = State(budget)
        /\ UNCHANGED <<reservation, reserved, orphans, faults>>
     \/ /\ CanExecute(budget) /\ budget' = Success(budget)
        /\ reservation' = reservation \cup {c} /\ reserved' = reserved \cup {c}
        /\ UNCHANGED <<orphans, faults>>
     \/ /\ CanExecute(budget) /\ Fault /\ budget' = Failure(State(budget))
        /\ orphans' \in {orphans, orphans + 1}
        /\ UNCHANGED <<reservation, reserved>>
  /\ UNCHANGED <<service, spent>>

\* The service answers. What is no JSON is a failure of the service too; what
\* is JSON of another type than asked for is not, and the fallback is used.
Answered(c) ==
  /\ at[c] = "calling" /\ service' = Success(service)
  /\ \E a \in {"parsed", "fallback"} :
       IF c \in reservation
       THEN Goto(c, "report") /\ Answer(c, a) /\ UNCHANGED reservation
       ELSE End(c, a)
  /\ spent' = IF c \in reservation THEN spent + 1 ELSE spent
  /\ UNCHANGED <<budget, reserved, orphans, model, faults>>

\* (A mutant: a call that fails is answered and its reservation forgotten.)
FailedUnreleased(c) ==
  /\ at[c] = "calling" /\ service' = Failure(service)
  /\ End(c, "fallback")
  /\ UNCHANGED <<budget, reserved, orphans, spent, model, faults>>

\* It fails, or the total timeout of a stream passes.
Failed(c) ==
  /\ at[c] = "calling" /\ service' = Failure(service)
  /\ IF c \in reservation
     THEN Goto(c, "release") /\ Answer(c, "fallback") /\ UNCHANGED reservation
     ELSE End(c, "fallback")
  /\ UNCHANGED <<budget, reserved, orphans, spent, model, faults>>

\* report_usage and release_reservation settle the reservation; neither raises,
\* neither is tried again, and with the breaker open neither is tried at all.
Settle(c) ==
  /\ at[c] \in {"report", "release"} /\ End(c, answer[c])
  /\ reserved' = reserved \ {c}
  /\ \/ /\ ~CanExecute(budget) /\ budget' = State(budget)
        /\ orphans' = orphans + 1 /\ UNCHANGED <<spent, faults>>
     \/ /\ CanExecute(budget) /\ budget' = Success(budget) /\ UNCHANGED <<orphans, faults>>
        /\ spent' = IF at[c] = "report" THEN spent - 1 ELSE spent
     \/ /\ CanExecute(budget) /\ Fault /\ budget' = Failure(State(budget))
        /\ orphans' = orphans + 1 /\ UNCHANGED spent
  /\ UNCHANGED <<service, model>>

\* The task is cancelled at an await: CancelledError is no Exception, so no
\* handler runs, nothing is released and no breaker hears of it.
Cancel(c) ==
  /\ at[c] # "idle" /\ Fault /\ End(c, "cancelled")
  /\ orphans' \in {orphans + 1} \cup (IF c \in reserved THEN {} ELSE {orphans})
  /\ (orphans' > orphans => c \in reserved \/ at[c] = "reserve")
  /\ reserved' = reserved \ {c}
  /\ UNCHANGED <<circuits, spent, model>>

Next ==
  \/ Elapse
  \/ \E c \in Callers : \/ Begin(c) \/ CheckBudget(c) \/ ReserveTokens(c) \/ Answered(c)
                        \/ Failed(c) \/ Settle(c) \/ Cancel(c)

------------------------------------------------------------------------------
(* Properties *)

\* Tokens stay reserved for a call that is over only after the budget service
\* lost an answer or the call was cancelled: whatever the model service does,
\* each call gives back what it reserved, and reports what it used
\* (_llm_call's three ends). A breaker of the budget that has opened is worth as
\* many lost settlements as there are calls, and stays open at least that long.
ReservationsSettled ==
  /\ reserved = reservation
  /\ \A c \in reservation : at[c] \in {"calling", "report", "release"}
  /\ faults = 0 => orphans = 0 /\ spent = Cardinality({c \in Callers : at[c] = "report"})
  /\ orphans > faults => faults >= Threshold

\* A breaker is closed exactly while fewer failures than the threshold came
\* since the last success, in whatever order the answers of calls that overlap
\* arrive (CircuitBreaker).
TrippedByFailures ==
  \A b \in {service, budget} : (b.state = "closed") = (b.failures < Threshold)
=============================================================================
