----------------------------- MODULE CrewPromise -----------------------------
(***************************************************************************)
(* What the database promises about a crew, whatever process reads it:     *)
(* an accepted crew has one outcome in the end, the outcome never changes  *)
(* but for a cancelled crew's late results, and a crew cut short by a      *)
(* restart reports exactly the answers that were kept while it ran         *)
(* (engine/crewstore.cyr's header, ADR 0012, 0013 and 0019).               *)
(***************************************************************************)
CONSTANTS Crews, Tasks

VARIABLES
  promise, \* "none", "accepted", or the crew's outcome
  kept     \* the answers kept for a crew that is accepted

promiseVars == <<promise, kept>>

Ended       == {"COMPLETED", "FAILED", "CANCELLED"}
Outcomes    == [st : Ended \cup {"INTERRUPTED"}, res : SUBSET Tasks]
NotPromised == [st |-> "none", res |-> {}]
Promised    == [st |-> "accepted", res |-> {}]

Init ==
  /\ promise = [c \in Crews |-> NotPromised]
  /\ kept = [c \in Crews |-> {}]

Accept(c) ==
  /\ promise[c] = NotPromised
  /\ promise' = [promise EXCEPT ![c] = Promised]
  /\ UNCHANGED kept

Keep(c) ==
  /\ promise[c] = Promised
  /\ \E k \in Tasks : kept' = [kept EXCEPT ![c] = @ \cup {k}]
  /\ UNCHANGED promise

\* A crew can end before its acceptance was written down.
Finish(c) ==
  /\ promise[c] \in {NotPromised, Promised}
  /\ \E o \in Outcomes :
       /\ o.st \in Ended
       /\ promise' = [promise EXCEPT ![c] = o]
  /\ kept' = [kept EXCEPT ![c] = {}]

Interrupt(c) ==
  /\ promise[c] = Promised
  /\ promise' = [promise EXCEPT ![c] = [st |-> "INTERRUPTED", res |-> kept[c]]]
  /\ kept' = [kept EXCEPT ![c] = {}]

LateResults(c) ==
  /\ promise[c] = [st |-> "CANCELLED", res |-> {}]
  /\ \E r \in SUBSET Tasks : promise' = [promise EXCEPT ![c].res = r]
  /\ UNCHANGED kept

Next == \E c \in Crews :
  Accept(c) \/ Keep(c) \/ Finish(c) \/ Interrupt(c) \/ LateResults(c)

Spec == Init /\ [][Next]_promiseVars
=============================================================================
