----------------------------- MODULE CrewLedger -----------------------------
(***************************************************************************)
(* The life of one crew between its acceptance and its stored outcome: its *)
(* ledger entry (engine/ledger.cyr), everything that brings the entry up   *)
(* to date (engine/crew.cyr), and the engine that runs the crew (external, *)
(* modelled from how it is used).  The submitter, any number of pollers    *)
(* and cancellers, and the collector all work on the entry at once; each   *)
(* lock section and each call into the engine or the store is one step.    *)
(***************************************************************************)
EXTENDS Naturals, FiniteSets

CONSTANTS
  Submitter,     \* the request thread that submits the crew
  Pollers,       \* request threads that read or cancel it
  Collector,     \* the collector's thread
  NoThread,
  CanFail,       \* a durable write may fail
  CanEvict,      \* later submissions may evict the entry
  EngineEvicts,  \* the engine's registry may drop a finished crew
  EngineErrs     \* the runner may end on the arm that records no final state

Threads == {Submitter, Collector} \cup Pollers

ASSUME LedgerThreads ==
  /\ Submitter \notin Pollers /\ Collector \notin Pollers /\ Submitter # Collector
  /\ NoThread \notin Threads

ASSUME LedgerOptions ==
  /\ CanFail \in BOOLEAN /\ CanEvict \in BOOLEAN
  /\ EngineEvicts \in BOOLEAN /\ EngineErrs \in BOOLEAN

VARIABLES
  \* The engine: its registry's state of the crew, its cancel flag, its runner.
  reg, regResults, flag, runner,
  \* The crew's event channel: whether it holds events nobody took, and its close.
  waiting, closed,
  \* The entry.  `results` says whether AGNOSTIC_LE_RESULTS holds any.
  inLedger, status, results, started, sub, pending, retired, admitted,
  returned,        \* how often agnostic_tenant_crew_ended gave the place back
  outcome, inflight, \* the crew's stored outcome and its in-flight row
  failed,            \* history: a durable write of the crew failed
  \* The threads: `lock` holds whoever is inside drain_a's critical section.
  lock, pc, then, last, obs, shut, work, doc, answer

engineVars == <<reg, regResults, flag, runner, waiting, closed>>
entryVars  == <<inLedger, status, results, started, sub, pending, retired,
                admitted, returned>>
storeVars  == <<outcome, inflight, failed>>
localVars  == <<then, last, obs, shut, work, doc, answer>>
vars == <<engineVars, entryVars, storeVars, lock, pc, localVars>>

Terminal == {"COMPLETED", "FAILED", "CANCELLED"}
Statuses == {"PENDING", "RUNNING", "UNKNOWN"} \cup Terminal

\* A crew the registry was asked to forget, and one it dropped by itself.
Gone == {"forgotten", "evicted"}

Owed == {"OUTCOME", "RESULTS"}

\* What an observation of the engine, a document and an answer hold.
Readings  == [st : Statuses \cup {"ABSENT"}, res : BOOLEAN]
Absent    == [st |-> "ABSENT", res |-> FALSE]
NoAnswer  == "ABSENT"

At(t, p) == pc[t] = p
Goto(t, p) == pc' = [pc EXCEPT ![t] = p]

LedgerFree == lock = NoThread

\* Settled: nothing will come to change it, terminal or not.
Settled == status \in Terminal \cup {"UNKNOWN"}

Live == ~Settled \/ sub \/ pending # {}

Evictable == status \in Terminal /\ ~sub /\ pending = {}

\* What the engine's state says once normalised: a success with nothing to show
\* for it is a failure.
Observed(s, r) == [st |-> IF s = "COMPLETED" /\ ~r THEN "FAILED" ELSE s, res |-> r]

----------------------------------------------------------------------------
(* The latch, the admission and the store's writes                          *)

\* A stored CANCELLED without results takes the results of a terminal observation.
TakesResultsNever(s, r) == FALSE
TakesResults(s, r) == status = "CANCELLED" /\ s \in Terminal /\ ~results /\ r

\* A recorded start makes PENDING read RUNNING, whoever latches it.
UpgradedNot(s) == s
Upgraded(s) == IF s = "PENDING" /\ started THEN "RUNNING" ELSE s

LatchUnguarded(s, r) ==
  /\ status' = Upgraded(s)
  /\ results' = (results \/ r)
  /\ pending' = IF s \in Terminal THEN pending \cup {"OUTCOME"} ELSE pending
  /\ returned' = IF s \in Terminal /\ admitted THEN returned + 1 ELSE returned

LatchUnwritten(s, r) ==
  IF status \in Terminal
  THEN /\ results' = (results \/ TakesResults(s, r))
       /\ pending' = IF TakesResults(s, r) THEN pending \cup {"RESULTS"} ELSE pending
       /\ UNCHANGED <<status, returned>>
  ELSE /\ status' = Upgraded(s)
       /\ results' = (results \/ r)
       /\ pending' = IF s \in Terminal THEN pending \cup {"OUTCOME"} ELSE pending
       /\ returned' = IF s \in Terminal /\ admitted THEN returned + 1 ELSE returned

latched == <<status, results, pending, returned>>

\* A write that fails is logged and not tried again. A bound: one write of the crew
\* fails, or the engine drops the crew, in one behaviour.
WriteFails == CanFail /\ ~failed /\ reg # "evicted" /\ failed' = TRUE

\* The outcome, its listing row and the end of the in-flight row, in one critical
\* section of the store; never a second outcome.  CrewStore has the statements.
SaveRow(d) ==
  IF outcome = Absent
  THEN outcome' = d /\ inflight' = FALSE /\ UNCHANGED failed
  ELSE UNCHANGED storeVars

\* Only a cancelled crew's outcome is written again.
ResaveRow(d) ==
  IF d.st = "CANCELLED" /\ outcome # Absent
  THEN outcome' = d /\ UNCHANGED <<inflight, failed>>
  ELSE IF d.st = "CANCELLED" THEN SaveRow(d) ELSE UNCHANGED storeVars

----------------------------------------------------------------------------
(* The submission                                                           *)

\* The engine registers the crew and starts its thread, or lets go of it again.
EngineSubmit ==
  /\ At(Submitter, "submit")
  /\ reg' = "PENDING"
  /\ \/ flag' = "clear" /\ runner' = "ready" /\ closed' = closed
     \/ flag' = "none" /\ runner' = "none" /\ closed' = TRUE
  /\ Goto(Submitter, "record")
  /\ UNCHANGED <<regResults, waiting, entryVars, storeVars, lock, localVars>>

Record ==
  /\ At(Submitter, "record") /\ LedgerFree
  /\ inLedger' = TRUE /\ status' = "PENDING" /\ sub' = TRUE
  /\ Goto(Submitter, IF runner = "none" THEN "startFailed" ELSE "mark")
  /\ UNCHANGED <<engineVars, results, started, pending, retired, admitted,
                 returned, storeVars, lock, localVars>>

\* agnostic_ledger_latch of a crew whose thread was not created, then its write.
StartFailed ==
  /\ At(Submitter, "startFailed") /\ LedgerFree
  /\ LatchUnwritten("FAILED", FALSE)
  /\ then' = [then EXCEPT ![Submitter] = "hold"]
  /\ Goto(Submitter, IF status \in Terminal THEN "hold" ELSE "flush")
  /\ UNCHANGED <<engineVars, inLedger, started, sub, retired, admitted,
                 storeVars, lock, last, obs, shut, work, doc, answer>>

\* (A mutant: no look at the outcome.)
MarkInflightBlindly ==
  /\ At(Submitter, "mark")
  /\ inflight' = TRUE
  /\ Goto(Submitter, "hold")
  /\ UNCHANGED <<engineVars, entryVars, outcome, failed, lock, localVars>>

\* The in-flight row, unless the crew has an outcome by now.
MarkInflight ==
  /\ At(Submitter, "mark")
  /\ \/ inflight' = (outcome = Absent) /\ UNCHANGED failed
     \/ WriteFails /\ UNCHANGED inflight
  /\ Goto(Submitter, "hold")
  /\ UNCHANGED <<engineVars, entryVars, outcome, lock, localVars>>

HoldAdmissionBlindly ==
  /\ At(Submitter, "hold") /\ LedgerFree
  /\ admitted' = TRUE
  /\ Goto(Submitter, "done")
  /\ UNCHANGED <<engineVars, inLedger, status, results, started, sub, pending,
                 retired, returned, storeVars, lock, localVars>>

\* The entry holds its tenant's place from now on; a crew that has ended by now
\* gives it back here.
HoldAdmission ==
  /\ At(Submitter, "hold") /\ LedgerFree
  /\ IF status \in Terminal
     THEN returned' = returned + 1 /\ UNCHANGED admitted
     ELSE admitted' = TRUE /\ UNCHANGED returned
  /\ Goto(Submitter, "done")
  /\ UNCHANGED <<engineVars, inLedger, status, results, started, sub, pending,
                 retired, storeVars, lock, localVars>>

----------------------------------------------------------------------------
(* A refresh: agnostic_crew_collect_a, then agnostic_ledger_flush_a          *)

\* Whoever looks the crew up and what for: its events, or to cancel it.
Lookup(t, next) ==
  /\ At(t, "idle") /\ inLedger /\ LedgerFree
  /\ then' = [then EXCEPT ![t] = next]
  /\ Goto(t, "drain")
  /\ UNCHANGED <<engineVars, entryVars, storeVars, lock, last, obs, shut, work, doc,
                 answer>>

Poll(t)   == Lookup(t, "snap")
Cancel(t) == Lookup(t, "decide")
Sweep     == Live /\ Lookup(Collector, "idle")

\* A drain reads whether the channel has closed before it takes what is there.
\* `here` is the first or the second drain of one refresh.
DrainBegin(t, here, inside, next) ==
  /\ At(t, here) /\ LedgerFree
  /\ IF sub
     THEN lock' = t /\ shut' = [shut EXCEPT ![t] = closed] /\ Goto(t, inside)
     ELSE UNCHANGED <<lock, shut>> /\ Goto(t, next)
  /\ UNCHANGED <<engineVars, entryVars, storeVars, then, last, obs, work, doc, answer>>

\* The mistake of reading the close after the loop: one step here takes the events,
\* and what the engine publishes before the close is read is never taken.
DrainEndLate(t, inside, next) ==
  /\ At(t, inside)
  /\ waiting' \in {FALSE, waiting}
  /\ sub' = ~closed
  /\ lock' = NoThread /\ shut' = [shut EXCEPT ![t] = FALSE]
  /\ Goto(t, next)
  /\ UNCHANGED <<reg, regResults, flag, runner, closed, inLedger, status, results, started, pending, retired,
                 admitted, returned, storeVars, then, last, obs, work, doc, answer>>

DrainEnd(t, inside, next) ==
  /\ At(t, inside)
  /\ waiting' = FALSE
  /\ sub' = ~shut[t]
  /\ lock' = NoThread /\ shut' = [shut EXCEPT ![t] = FALSE]
  /\ Goto(t, next)
  /\ UNCHANGED <<reg, regResults, flag, runner, closed, inLedger, status, results, started, pending, retired,
                 admitted, returned, storeVars, then, last, obs, work, doc, answer>>

\* What the engine's registry says, read outside the ledger's lock.
ReadEngine(t) ==
  /\ At(t, "read")
  /\ obs' = [obs EXCEPT ![t] = IF reg \in Gone THEN Absent ELSE Observed(reg, regResults)]
  /\ Goto(t, "note")
  /\ UNCHANGED <<engineVars, entryVars, storeVars, lock, then, last, shut, work, doc,
                 answer>>

\* agnostic_crew_observed_status: a RUNNING records the start; a PENDING of a crew
\* whose start is recorded reads RUNNING; a crew the engine does not have is
\* UNKNOWN, unless the ledger knows how it ended.
Note(t) ==
  /\ At(t, "note") /\ LedgerFree
  /\ started' = (started \/ (obs[t].st = "RUNNING" /\ status \notin Terminal))
  /\ obs' = [obs EXCEPT ![t].st =
               CASE @ = "PENDING" /\ started -> "RUNNING"
                 [] @ = "ABSENT" /\ status \notin Terminal -> "UNKNOWN"
                 [] OTHER -> @]
  /\ Goto(t, "latch")
  /\ UNCHANGED <<engineVars, inLedger, status, results, sub, pending, retired,
                 admitted, returned, storeVars, lock, then, last, shut, work, doc, answer>>

AfterLatch(t) == IF last[t] THEN "forget" ELSE "check"

Latch(t) ==
  /\ At(t, "latch") /\ LedgerFree
  /\ IF obs[t] = Absent THEN UNCHANGED latched ELSE LatchUnwritten(obs[t].st, obs[t].res)
  /\ obs' = [obs EXCEPT ![t] = Absent]
  /\ Goto(t, AfterLatch(t))
  /\ UNCHANGED <<engineVars, inLedger, started, sub, retired, admitted, storeVars,
                 lock, then, last, shut, work, doc, answer>>

\* A crew that has ended is drained once more.
Check(t) ==
  /\ At(t, "check") /\ LedgerFree
  /\ Goto(t, IF status \in Terminal THEN "redrain" ELSE "claim")
  /\ UNCHANGED <<engineVars, entryVars, storeVars, lock, localVars>>

\* agnostic_ledger_retire_claim: one thread takes the crew out of the engine's
\* registry, after one last look at it.
RetireClaim(t) ==
  /\ At(t, "claim") /\ LedgerFree
  /\ IF status \in Terminal /\ ~sub /\ ~retired
     THEN /\ retired' = TRUE
          /\ last' = [last EXCEPT ![t] = TRUE]
          /\ Goto(t, "read")
     ELSE UNCHANGED <<retired, last>> /\ Goto(t, "flush")
  /\ UNCHANGED <<engineVars, inLedger, status, results, started, sub, pending,
                 admitted, returned, storeVars, lock, then, obs, shut, work, doc, answer>>

\* The engine refuses to forget a crew whose runner still holds its flag.
Forget(t) ==
  /\ At(t, "forget")
  /\ reg' = IF flag = "none" /\ reg # "evicted" THEN "forgotten" ELSE reg
  /\ last' = [last EXCEPT ![t] = FALSE]
  /\ Goto(t, "flush")
  /\ UNCHANGED <<regResults, flag, runner, waiting, closed, entryVars, storeVars, lock,
                 then, obs, shut, work, doc, answer>>

----------------------------------------------------------------------------
(* agnostic_ledger_flush_a                                                  *)

FlushBegin(t) ==
  /\ At(t, "flush") /\ LedgerFree
  /\ IF pending \cap Owed # {} /\ "WRITING" \notin pending
     THEN /\ pending' = pending \cup {"WRITING"}
          /\ work' = [work EXCEPT ![t] = pending \cap Owed]
          /\ Goto(t, "build")
     ELSE UNCHANGED <<pending, work>> /\ Goto(t, then[t])
  /\ UNCHANGED <<engineVars, inLedger, status, results, started, sub, retired,
                 admitted, returned, storeVars, lock, then, last, obs, shut, doc, answer>>

\* The collector's sweep stops writing when its 150 ms are used up.
FlushSkip ==
  /\ At(Collector, "flush")
  /\ Goto(Collector, "idle")
  /\ UNCHANGED <<engineVars, entryVars, storeVars, lock, localVars>>

Build(t) ==
  /\ At(t, "build") /\ LedgerFree
  /\ doc' = [doc EXCEPT ![t] = [st |-> status, res |-> results]]
  /\ Goto(t, "save")
  /\ UNCHANGED <<engineVars, entryVars, storeVars, lock, then, last, obs, shut, work,
                 answer>>

Save(t) ==
  /\ At(t, "save")
  /\ \/ "OUTCOME" \in work[t] /\ SaveRow(doc[t])
     \/ "OUTCOME" \notin work[t] /\ ResaveRow(doc[t])
     \/ WriteFails /\ UNCHANGED <<outcome, inflight>>
  /\ doc' = [doc EXCEPT ![t] = Absent]
  /\ Goto(t, "clear")
  /\ UNCHANGED <<engineVars, entryVars, lock, then, last, obs, shut, work, answer>>

\* Only what this write wrote is no longer owed.
FlushEndAll(t) ==
  /\ At(t, "clear") /\ LedgerFree
  /\ pending' = {}
  /\ work' = [work EXCEPT ![t] = {}]
  /\ Goto(t, then[t])
  /\ UNCHANGED <<engineVars, inLedger, status, results, started, sub, retired,
                 admitted, returned, storeVars, lock, then, last, obs, shut, doc, answer>>

FlushEnd(t) ==
  /\ At(t, "clear") /\ LedgerFree
  /\ pending' = pending \ (work[t] \cup {"WRITING"})
  /\ work' = [work EXCEPT ![t] = {}]
  /\ Goto(t, then[t])
  /\ UNCHANGED <<engineVars, inLedger, status, results, started, sub, retired,
                 admitted, returned, storeVars, lock, then, last, obs, shut, doc, answer>>

----------------------------------------------------------------------------
(* What a request answers                                                   *)

\* GET /crews/{id}/events: the events first, the status after.
Snapshot(t) ==
  /\ At(t, "snap") /\ LedgerFree
  /\ Goto(t, "status")
  /\ UNCHANGED <<engineVars, entryVars, storeVars, lock, localVars>>

ReadStatus(t) ==
  /\ At(t, "status") /\ LedgerFree
  /\ answer' = [answer EXCEPT ![t] = status]
  /\ Goto(t, "answered")
  /\ UNCHANGED <<engineVars, entryVars, storeVars, lock, then, last, obs, shut, work, doc>>

\* POST /crews/{id}/cancel, after its first refresh: the engine is asked unless the
\* crew has ended.  A crew it has but that has finished is refused.
CancelAnswers == {"ok", "alreadyTerminal", "engineUnknown"}

Reply(t, a) ==
  /\ answer' = [answer EXCEPT ![t] = a]
  /\ Goto(t, "answered")

Decide(t) ==
  /\ At(t, "decide") /\ LedgerFree
  /\ IF status \in Terminal
     THEN Reply(t, "alreadyTerminal")
     ELSE Goto(t, "engineCancel") /\ UNCHANGED answer
  /\ UNCHANGED <<engineVars, entryVars, storeVars, lock, then, last, obs, shut, work, doc>>

EngineCancel(t) ==
  /\ At(t, "engineCancel")
  /\ IF reg \in Terminal \cup Gone
     THEN /\ then' = [then EXCEPT ![t] = "decideAgain"]
          /\ Goto(t, "drain")
          /\ UNCHANGED engineVars
     ELSE /\ reg' = "CANCELLED"
          /\ flag' = IF flag = "none" THEN "none" ELSE "set"
          /\ then' = [then EXCEPT ![t] = "confirm"]
          /\ Goto(t, "cancelLatch")
          /\ UNCHANGED <<regResults, runner, waiting, closed>>
  /\ UNCHANGED <<entryVars, storeVars, lock, last, obs, shut, work, doc, answer>>

DecideAgain(t) ==
  /\ At(t, "decideAgain") /\ LedgerFree
  /\ Reply(t, IF status \in Terminal THEN "alreadyTerminal" ELSE "engineUnknown")
  /\ UNCHANGED <<engineVars, entryVars, storeVars, lock, then, last, obs, shut, work, doc>>

\* agnostic_ledger_latch_a: its write only when the latch took something.
CancelLatch(t) ==
  /\ At(t, "cancelLatch") /\ LedgerFree
  /\ LatchUnwritten("CANCELLED", FALSE)
  /\ Goto(t, IF status \in Terminal THEN "confirm" ELSE "flush")
  /\ UNCHANGED <<engineVars, inLedger, started, sub, retired, admitted, storeVars,
                 lock, localVars>>

\* A cancel that changed nothing must not report that it did.
ConfirmBlindly(t) ==
  /\ At(t, "confirm")
  /\ Reply(t, "ok")
  /\ UNCHANGED <<engineVars, entryVars, storeVars, lock, then, last, obs, shut, work, doc>>

Confirm(t) ==
  /\ At(t, "confirm") /\ LedgerFree
  /\ Reply(t, IF status = "CANCELLED" THEN "ok" ELSE "alreadyTerminal")
  /\ UNCHANGED <<engineVars, entryVars, storeVars, lock, then, last, obs, shut, work, doc>>

Return(t) ==
  /\ At(t, "answered")
  /\ answer' = [answer EXCEPT ![t] = NoAnswer]
  /\ then' = [then EXCEPT ![t] = "idle"]
  /\ Goto(t, "idle")
  /\ UNCHANGED <<engineVars, entryVars, storeVars, lock, last, obs, shut, work, doc>>

----------------------------------------------------------------------------
(* The engine and the rest of the server                                    *)

notEngine == <<entryVars, storeVars, lock, pc, localVars>>

\* Only a crew that still waits starts to run; a cancel that came first stands.
EngineStart ==
  /\ runner = "ready" /\ runner' = "running"
  /\ reg' = IF reg = "PENDING" THEN "RUNNING" ELSE reg
  /\ UNCHANGED <<regResults, flag, waiting, closed, notEngine>>

\* Any number of events; one more adds nothing to those that wait.
EnginePublish ==
  /\ runner = "running" /\ ~waiting
  /\ waiting' = TRUE
  /\ UNCHANGED <<reg, regResults, flag, runner, closed, notEngine>>

\* crew_completed is published before the final state is recorded.
EngineComplete ==
  /\ runner = "running"
  /\ runner' = "completed" /\ waiting' = TRUE
  /\ UNCHANGED <<reg, regResults, flag, closed, notEngine>>

\* A runner that saw its flag says CANCELLED; one that finished first does not.
EngineRecord ==
  /\ runner = "completed" /\ runner' = "recorded"
  /\ reg' \in {"COMPLETED", "FAILED"} \cup (IF flag = "set" THEN {"CANCELLED"} ELSE {})
  /\ regResults' \in BOOLEAN
  /\ flag' = "none"
  /\ UNCHANGED <<waiting, closed, notEngine>>

EngineClose ==
  /\ runner = "recorded" /\ runner' = "finished"
  /\ closed' = TRUE
  /\ UNCHANGED <<reg, regResults, flag, waiting, notEngine>>

\* The arm of a run that could not be ordered: nothing is recorded, the channel
\* stays open, and a RUNNING goes back to PENDING.
EngineError ==
  /\ EngineErrs
  /\ runner = "running" /\ runner' = "erred"
  /\ reg' = IF reg = "RUNNING" THEN "PENDING" ELSE reg
  /\ flag' = "none"
  /\ UNCHANGED <<regResults, waiting, closed, notEngine>>

\* The registry at its own cap drops a crew that has ended.
EngineEvict ==
  /\ EngineEvicts /\ ~failed
  /\ reg \in Terminal /\ flag = "none"
  /\ reg' = "evicted"
  /\ UNCHANGED <<regResults, flag, runner, waiting, closed, notEngine>>

Engine == EngineStart \/ EnginePublish \/ EngineComplete \/ EngineRecord
            \/ EngineClose \/ EngineError \/ EngineEvict

\* Some other crew's submission finds the ledger full and this entry among the oldest.
Evict ==
  /\ CanEvict /\ LedgerFree
  /\ inLedger /\ Evictable
  /\ inLedger' = FALSE
  /\ UNCHANGED <<engineVars, status, results, started, sub, pending, retired,
                 admitted, returned, storeVars, lock, pc, localVars>>

----------------------------------------------------------------------------

Init ==
  /\ reg = "none" /\ regResults = FALSE /\ flag = "none" /\ runner = "none"
  /\ waiting = FALSE /\ closed = FALSE
  /\ inLedger = FALSE /\ status = "PENDING" /\ results = FALSE /\ started = FALSE
  /\ sub = FALSE /\ pending = {} /\ retired = FALSE /\ admitted = FALSE
  /\ returned = 0
  /\ outcome = Absent /\ inflight = FALSE /\ failed = FALSE
  /\ lock = NoThread
  /\ pc = [t \in Threads |-> IF t = Submitter THEN "submit" ELSE "idle"]
  /\ then = [t \in Threads |-> "idle"]
  /\ last = [t \in Threads |-> FALSE]
  /\ obs = [t \in Threads |-> Absent]
  /\ shut = [t \in Threads |-> FALSE]
  /\ work = [t \in Threads |-> {}]
  /\ doc = [t \in Threads |-> Absent]
  /\ answer = [t \in Threads |-> NoAnswer]

Submit == EngineSubmit \/ Record \/ StartFailed \/ MarkInflight \/ HoldAdmission

FirstDrainBegin(t)  == DrainBegin(t, "drain", "draining", "read")
FirstDrainEnd(t)    == DrainEnd(t, "draining", "read")
SecondDrainBegin(t) == DrainBegin(t, "redrain", "redraining", "claim")
SecondDrainEnd(t)   == DrainEnd(t, "redraining", "claim")

Collect(t) == \/ FirstDrainBegin(t) \/ FirstDrainEnd(t)
              \/ ReadEngine(t) \/ Note(t) \/ Latch(t) \/ Check(t)
              \/ SecondDrainBegin(t) \/ SecondDrainEnd(t)
              \/ RetireClaim(t) \/ Forget(t)

Flush(t) == FlushBegin(t) \/ Build(t) \/ Save(t) \/ FlushEnd(t)

Request(t) == \/ Snapshot(t) \/ ReadStatus(t)
              \/ Decide(t) \/ EngineCancel(t) \/ DecideAgain(t)
              \/ CancelLatch(t) \/ Confirm(t) \/ Return(t)

Next ==
  \/ Submit \/ Engine \/ Evict
  \/ Sweep \/ FlushSkip
  \/ \E t \in Pollers : Poll(t) \/ Cancel(t) \/ Request(t)
  \/ \E t \in Threads : Collect(t) \/ Flush(t)

Spec == Init /\ [][Next]_vars

\* The kernel runs every thread, the engine ends every crew it starts, and the
\* collector sweeps for ever.  A sweep writes at least the first entry it owes a
\* write to, whatever its budget, so an entry's turn comes again and again.
Fairness ==
  /\ WF_vars(Engine)
  /\ WF_vars(Submit \/ Collect(Submitter) \/ Flush(Submitter))
  /\ \A t \in Pollers : WF_vars(Collect(t) \/ Flush(t) \/ Request(t))
  /\ WF_vars(Sweep \/ Collect(Collector) \/ Flush(Collector))
  /\ SF_vars(FlushBegin(Collector))

FairSpec == Spec /\ Fairness

----------------------------------------------------------------------------

PCs == {"idle", "submit", "record", "startFailed", "mark", "hold", "done",
        "drain", "draining", "read", "note", "latch", "check", "redrain", "redraining",
        "claim", "forget", "flush", "build", "save", "clear",
        "snap", "status", "decide", "engineCancel", "decideAgain", "cancelLatch",
        "confirm", "answered"}

\* Types, and the counters' bounds.
TypeOK ==
  /\ reg \in Statuses \cup Gone \cup {"none"} /\ regResults \in BOOLEAN
  /\ flag \in {"none", "clear", "set"}
  /\ runner \in {"none", "ready", "running", "completed", "recorded", "finished", "erred"}
  /\ waiting \in BOOLEAN /\ closed \in BOOLEAN
  /\ inLedger \in BOOLEAN /\ status \in Statuses /\ results \in BOOLEAN
  /\ started \in BOOLEAN /\ sub \in BOOLEAN
  /\ pending \subseteq Owed \cup {"WRITING"} /\ retired \in BOOLEAN
  /\ admitted \in BOOLEAN /\ returned \in 0 .. 1
  /\ outcome \in Readings /\ inflight \in BOOLEAN /\ failed \in BOOLEAN
  /\ lock \in Threads \cup {NoThread}
  /\ pc \in [Threads -> PCs] /\ then \in [Threads -> PCs]
  /\ last \in [Threads -> BOOLEAN] /\ shut \in [Threads -> BOOLEAN]
  /\ obs \in [Threads -> Readings] /\ doc \in [Threads -> Readings]
  /\ work \in [Threads -> SUBSET Owed]
  /\ answer \in [Threads -> Statuses \cup {NoAnswer} \cup CancelAnswers]

Accepted == inLedger \/ pc[Submitter] \notin {"submit", "record"}

\* Whatever stale readings of the engine a poll and the collector latch over each
\* other: a crew never reads `pending` again once its start is recorded, one that has
\* ended keeps its status, and its results change once at most, when a cancelled crew
\* takes those of the tasks that were still running.
NeverBack ==
  [][ /\ status' = "PENDING" /\ status # "PENDING" => ~started
      /\ status \in Terminal => status' = status
      /\ results' # results => results' /\ status' \in Terminal
      /\ status \in Terminal /\ results' # results => status = "CANCELLED" ]_vars

\* A tenant's place comes back exactly once, when the crew has ended and the
\* submission has said that the crew holds one, in either order.
PlaceBackOnce ==
  returned = IF status \in Terminal /\ pc[Submitter] = "done" THEN 1 ELSE 0

\* A released subscription has been read to its end: no event published before
\* the close is lost, whoever drained it.
FeedWhole == Accepted /\ ~sub => ~waiting /\ closed

\* A crew is in one durable place: its outcome, once stored, is what the entry
\* says (but for results not yet written, or whose write failed), and it is not in
\* flight any more.
StoredTrue ==
  outcome # Absent =>
    /\ ~inflight
    /\ outcome.st = status
    /\ outcome.res # results => "RESULTS" \in pending \/ failed

\* A crew answered 202 can always be told after a restart: its outcome is stored or
\* its in-flight row is, unless a write failed.  (One whose thread was not created
\* was answered 503.)
AcceptedDurable ==
  pc[Submitter] = "done" /\ runner # "none" => outcome # Absent \/ inflight \/ failed

\* What may leave the ledger is on disk, results and all, unless a write failed.
EvictableStored == Evictable /\ ~failed => outcome = [st |-> status, res |-> results]

\* The engine's registry is asked to forget a crew only when the entry has all
\* the crew ended with.
ForgottenKept ==
  reg = "forgotten" => status \in Terminal /\ (regResults => results)

\* A cancel that answers 200 cancelled the crew, one that answers 409 found it
\* ended, and none answers that the engine does not know a crew it still holds.
CancelTruthful ==
  \A t \in Pollers : At(t, "answered") =>
    /\ answer[t] = "ok" => status = "CANCELLED"
    /\ answer[t] = "alreadyTerminal" => status \in Terminal
    /\ answer[t] = "engineUnknown" => reg = "evicted"

\* A crew the engine has finished ends up stored with its results, its place given
\* back and the engine's registry rid of it.
FinishedStored ==
  runner = "finished" ~>
    /\ outcome = [st |-> status, res |-> results] /\ status \in Terminal
    /\ regResults => outcome.res
    /\ reg = "forgotten" /\ returned = 1

\* A crew the engine has lost has nothing on disk to answer from, so the ledger
\* keeps it, and its in-flight row, if it was written, names it at the next start.
LostHeld ==
  Accepted /\ status = "UNKNOWN" =>
    /\ inLedger /\ outcome = Absent
    /\ pc[Submitter] = "done" => inflight \/ failed

\* What the store has of a crew is true, and it has something of every crew that was
\* accepted (the writes of agnostic_ledger_flush_a).
DurableTrue == StoredTrue /\ AcceptedDurable

\* A crew leaves the ledger, or the engine's registry, only when what it ended with is
\* held elsewhere (_agnostic_ledger_evictable_locked, _agnostic_crew_retire_a).
NothingForgotten == EvictableStored /\ ForgottenKept /\ LostHeld
=============================================================================
