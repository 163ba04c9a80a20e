----------------------------- MODULE CrewStore -----------------------------
(***************************************************************************)
(* The durable half of a crew (engine/crewstore.cyr): four tables, written *)
(* one statement at a time under the store's lock, and the sweep that      *)
(* turns what a stopped process left in flight into outcomes before the    *)
(* next one serves (engine/crew.cyr, agnostic_crews_interrupt_inflight).   *)
(* A statement is durable when it returns, a sequence of them is not a     *)
(* transaction, and the process may stop between any two.                  *)
(***************************************************************************)
EXTENDS Naturals, FiniteSets

CONSTANTS
  Crews,       \* crew ids the engine can mint
  Tasks,       \* the tasks of a crew
  CanFail,     \* a statement may fail
  MaxCrashes   \* how often the process stops

ASSUME StoreOptions == CanFail \in BOOLEAN /\ MaxCrashes \in Nat

VARIABLES
  \* On disk: agnostic_crews, agnostic_crew_index, agnostic_crew_inflight,
  \* agnostic_crew_partial.
  outcome, listed, inflight, partials,
  \* In memory: what the process knows of each crew and has yet to write.
  life, answers, results, owed, toKeep,
  up,       \* "mount" while the sweep runs, then "serving"
  todo,     \* in-flight rows the sweep has yet to look at
  call,     \* who holds the store's lock and the statement it comes to
  crashes,
  \* History: crews whose in-flight row was written, answers the store was offered.
  marked, offered

diskVars   == <<outcome, listed, inflight, partials>>
memoryVars == <<life, answers, results, owed, toKeep>>
history    == <<marked, offered>>
vars == <<diskVars, memoryVars, up, todo, call, crashes, history>>

Ended == {"COMPLETED", "FAILED", "CANCELLED"}
NoDoc == [st |-> "none", res |-> {}]
Docs  == [st : Ended \cup {"INTERRUPTED"}, res : SUBSET Tasks]
Idle  == [at |-> "idle"]
Steps == {"outcome", "update", "index", "repair", "inflight", "partials"}

Stored(c)   == outcome[c] # NoDoc
Marked(c)   == c \in inflight
StoreFree   == call = Idle
Serving     == up = "serving" /\ StoreFree

\* The statement at which the store's lock is, and where it goes next.
Executing(step) == call.at = step
Then(step) == call' = [call EXCEPT !.at = step]
Done == call' = Idle

\* The three durable writes a crew's memory may still owe.
Owes(c, w) == w \in owed[c]

----------------------------------------------------------------------------
(* The process: what the ledger and the engine ask of the store             *)

Accept(c) ==
  /\ up = "serving" /\ life[c] = "new"
  /\ life' = [life EXCEPT ![c] = "running"]
  /\ owed' = [owed EXCEPT ![c] = {"MARK"}]
  /\ UNCHANGED <<diskVars, answers, results, toKeep, up, todo, call, crashes, history>>

\* A drain takes a finished task's answer off the bus; _agnostic_crew_keep_finals
\* offers it to the store once the ledger's lock is released.
Answer(c, k) ==
  /\ life[c] \in {"running", "CANCELLED"} /\ k \notin answers[c]
  /\ answers' = [answers EXCEPT ![c] = @ \cup {k}]
  /\ toKeep' = [toKeep EXCEPT ![c] = @ \cup {k}]
  /\ UNCHANGED <<diskVars, life, results, owed, up, todo, call, crashes, history>>

\* The latch of a terminal status; a success has results, a timeout drops them.
End(c) ==
  /\ life[c] = "running"
  /\ \E s \in Ended, r \in {{}, answers[c]} :
       /\ s = "COMPLETED" => r # {}
       /\ s = "CANCELLED" => r = {}
       /\ life' = [life EXCEPT ![c] = s]
       /\ results' = [results EXCEPT ![c] = r]
  /\ owed' = [owed EXCEPT ![c] = @ \cup {"OUTCOME"}]
  /\ UNCHANGED <<diskVars, answers, toKeep, up, todo, call, crashes, history>>

\* A cancelled crew takes what its running tasks brought, once.
LateResults(c) ==
  /\ life[c] = "CANCELLED" /\ results[c] = {} /\ answers[c] # {}
  /\ results' = [results EXCEPT ![c] = answers[c]]
  /\ owed' = [owed EXCEPT ![c] = @ \cup {"RESULTS"}]
  /\ UNCHANGED <<diskVars, life, answers, toKeep, up, todo, call, crashes, history>>

\* The in-flight row, unless the crew has its outcome.
Mark(c) ==
  /\ Serving /\ Owes(c, "MARK")
  /\ \/ IF Stored(c)
        THEN UNCHANGED <<inflight, marked>>
        ELSE inflight' = inflight \cup {c} /\ marked' = marked \cup {c}
     \/ CanFail /\ UNCHANGED <<inflight, marked>>
  /\ owed' = [owed EXCEPT ![c] = @ \ {"MARK"}]
  /\ UNCHANGED <<outcome, listed, partials, life, answers, results, toKeep, up, todo,
                 call, crashes, offered>>

\* An answer is kept for a crew in flight only; the mistake is not to look.
KeepableAlways(c) == TRUE
Keepable(c) == ~Stored(c) /\ Marked(c)

SavePartial(c, k) ==
  /\ Serving /\ k \in toKeep[c]
  /\ \/ partials' = IF Keepable(c) THEN [partials EXCEPT ![c] = @ \cup {k}] ELSE partials
     \/ (CanFail /\ UNCHANGED partials)
  /\ toKeep' = [toKeep EXCEPT ![c] = @ \ {k}]
  /\ offered' = [offered EXCEPT ![c] = @ \cup {k}]
  /\ UNCHANGED <<outcome, listed, inflight, life, answers, results, owed, up, todo,
                 call, crashes, marked>>

\* agnostic_ledger_flush_a reaches the store: the outcome, or a cancelled crew's
\* outcome again.
Flush(c) ==
  /\ Serving /\ owed[c] \cap {"OUTCOME", "RESULTS"} # {}
  /\ owed' = [owed EXCEPT ![c] = @ \ {"OUTCOME", "RESULTS"}]
  /\ call' = [at |-> IF Owes(c, "OUTCOME") \/ ~Stored(c) THEN "outcome" ELSE "update",
              c |-> c, doc |-> [st |-> life[c], res |-> results[c]]]
  /\ UNCHANGED <<diskVars, life, answers, results, toKeep, up, todo, crashes, history>>

----------------------------------------------------------------------------
(* The statements of _agnostic_crews_save_row_locked and its two relatives   *)

offDisk == <<memoryVars, up, todo, crashes, history>>

\* The mistake of ending the in-flight row before the listing row is there.
InsertOutcomeAndDrop ==
  /\ Executing("outcome")
  /\ \/ /\ ~Stored(call.c)
        /\ outcome' = [outcome EXCEPT ![call.c] = call.doc] /\ Then("index")
        /\ inflight' = inflight \ {call.c}
     \/ (Stored(call.c) \/ CanFail) /\ Done /\ UNCHANGED <<outcome, inflight>>
  /\ UNCHANGED <<listed, partials, offDisk>>

\* Never a second outcome: refused, nothing else of the sequence is done.
InsertOutcome ==
  /\ Executing("outcome")
  /\ \/ /\ ~Stored(call.c)
        /\ outcome' = [outcome EXCEPT ![call.c] = call.doc] /\ Then("index")
     \/ (Stored(call.c) \/ CanFail) /\ Done /\ UNCHANGED outcome
  /\ UNCHANGED <<listed, inflight, partials, offDisk>>

\* The second write of a cancelled crew's document, and its listing row's totals.
UpdateOutcome ==
  /\ Executing("update")
  /\ \/ outcome' = [outcome EXCEPT ![call.c] = call.doc]
     \/ (CanFail /\ UNCHANGED outcome)
  /\ Done
  /\ UNCHANGED <<listed, inflight, partials, offDisk>>

\* Without its listing row a crew stays in flight, for the next start to repair.
InsertIndex ==
  /\ Executing("index")
  /\ \/ listed' = listed \cup {call.c} /\ Then("inflight")
     \/ CanFail /\ Done /\ UNCHANGED listed
  /\ UNCHANGED <<outcome, inflight, partials, offDisk>>

DropInflight ==
  /\ Executing("inflight")
  /\ inflight' = inflight \ {call.c} \/ (CanFail /\ UNCHANGED inflight)
  /\ Then("partials")
  /\ UNCHANGED <<outcome, listed, partials, offDisk>>

DropPartials ==
  /\ Executing("partials")
  /\ partials' = [partials EXCEPT ![call.c] = {}] \/ (CanFail /\ UNCHANGED partials)
  /\ Done
  /\ UNCHANGED <<outcome, listed, inflight, offDisk>>

\* The sweep finds the outcome of a crew whose listing row may never have landed.
Repair ==
  /\ Executing("repair")
  /\ listed' = listed \cup {call.c} \/ (CanFail /\ UNCHANGED listed)
  /\ Then("inflight")
  /\ UNCHANGED <<outcome, inflight, partials, offDisk>>

Statement == InsertOutcome \/ UpdateOutcome \/ InsertIndex \/ DropInflight
               \/ DropPartials \/ Repair

----------------------------------------------------------------------------
(* Stopping and starting                                                    *)

\* Everything in memory is gone; the next process reads the in-flight rows.
Crash ==
  /\ crashes < MaxCrashes /\ crashes' = crashes + 1
  /\ life' = [c \in Crews |-> IF life[c] = "new" THEN "new" ELSE "dead"]
  /\ results' = [c \in Crews |-> {}]
  /\ owed' = [c \in Crews |-> {}]
  /\ toKeep' = [c \in Crews |-> {}]
  /\ up' = "mount" /\ todo' = inflight /\ call' = Idle
  /\ UNCHANGED <<diskVars, answers, history>>

Interrupted(c) == [st |-> "INTERRUPTED", res |-> partials[c]]

Sweep(c) ==
  /\ todo' = todo \ {c}
  /\ call' = [at |-> IF Stored(c) THEN "repair" ELSE "outcome", c |-> c, doc |-> Interrupted(c)]
  /\ UNCHANGED <<diskVars, memoryVars, up, crashes, history>>

SweepRowAnytime(c) ==
  /\ StoreFree /\ c \in inflight
  /\ Sweep(c)

\* One in-flight row: an outcome of what its finished tasks answered, or the end of
\* a write the last process had begun.
SweepRow(c) ==
  /\ up = "mount" /\ StoreFree /\ c \in todo
  /\ Sweep(c)

ServeUnswept ==
  /\ up = "mount" /\ StoreFree
  /\ up' = "serving"
  /\ UNCHANGED <<diskVars, memoryVars, todo, call, crashes, history>>

\* The server listens once the sweep has been through every row.
Serve ==
  /\ up = "mount" /\ StoreFree /\ todo = {}
  /\ up' = "serving"
  /\ UNCHANGED <<diskVars, memoryVars, todo, call, crashes, history>>

----------------------------------------------------------------------------

Init ==
  /\ outcome = [c \in Crews |-> NoDoc] /\ listed = {} /\ inflight = {}
  /\ partials = [c \in Crews |-> {}]
  /\ life = [c \in Crews |-> "new"] /\ answers = [c \in Crews |-> {}]
  /\ results = [c \in Crews |-> {}] /\ owed = [c \in Crews |-> {}]
  /\ toKeep = [c \in Crews |-> {}]
  /\ up = "mount" /\ todo = {} /\ call = Idle /\ crashes = 0
  /\ marked = {} /\ offered = [c \in Crews |-> {}]

Next ==
  \/ Statement \/ Crash \/ Serve
  \/ \E c \in Crews :
       \/ Accept(c) \/ End(c) \/ LateResults(c) \/ Mark(c) \/ Flush(c) \/ SweepRow(c)
       \/ \E k \in Tasks : Answer(c, k) \/ SavePartial(c, k)

Spec == Init /\ [][Next]_vars

\* The store's lock is given back, the sweep goes on, crews end and the collector
\* comes round to every write that is owed.
Fairness ==
  /\ WF_vars(Statement) /\ WF_vars(Serve)
  /\ \A c \in Crews : WF_vars(SweepRow(c)) /\ WF_vars(End(c)) /\ SF_vars(Flush(c))

FairSpec == Spec /\ Fairness

----------------------------------------------------------------------------

\* Types.
TypeOK ==
  /\ outcome \in [Crews -> Docs \cup {NoDoc}]
  /\ listed \subseteq Crews /\ inflight \subseteq Crews /\ marked \subseteq Crews
  /\ partials \in [Crews -> SUBSET Tasks]
  /\ life \in [Crews -> Ended \cup {"new", "running", "dead"}]
  /\ answers \in [Crews -> SUBSET Tasks] /\ results \in [Crews -> SUBSET Tasks]
  /\ toKeep \in [Crews -> SUBSET Tasks] /\ offered \in [Crews -> SUBSET Tasks]
  /\ owed \in [Crews -> SUBSET {"MARK", "OUTCOME", "RESULTS"}]
  /\ up \in {"mount", "serving"} /\ todo \subseteq Crews
  /\ call \in [at : Steps, c : Crews, doc : Docs] \cup {Idle}
  /\ crashes \in 0 .. MaxCrashes

\* What the tables promise, read as CrewPromise says it: an outcome, else the
\* in-flight row with the answers kept beside it.
Promise == INSTANCE CrewPromise WITH
  promise <- [c \in Crews |-> IF Stored(c) THEN outcome[c]
                              ELSE IF Marked(c) THEN [st |-> "accepted", res |-> {}]
                              ELSE NoDoc],
  kept    <- [c \in Crews |-> IF Stored(c) \/ ~Marked(c) THEN {} ELSE partials[c]]

\* However the process stops and whichever statements fail, the tables move only as
\* the promise allows: no outcome is lost or replaced, nothing is taken back, and an
\* interrupted crew reports exactly what was kept.
PromiseKept == Promise!Spec

\* The sweep never reaches a crew of the process that runs it.
InterruptedHonest ==
  \A c \in Crews : outcome[c].st = "INTERRUPTED" => life[c] = "dead"

\* A crew that is on disk and not in the listing is still in flight, unless the
\* store is at it now: the next start lists it.
Unlisted(c) == Stored(c) /\ c \notin listed /\ (StoreFree \/ call.c # c)

ListingRepairable == \A c \in marked : Unlisted(c) => c \in inflight

\* Every crew written down as in flight gets its outcome in the end.
InflightEnds == \A c \in Crews : c \in inflight ~> Stored(c)
=============================================================================
