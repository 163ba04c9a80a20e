-------------------------- MODULE CrewLedgerProofs --------------------------
(***************************************************************************)
(* Proofs about the life of a crew's ledger entry, for every number of     *)
(* pollers and cancellers and whichever of the engine, the store and the   *)
(* ledger's cap interfere: the entry, the store and the answers agree, and *)
(* nothing the crew ended with is lost or counted twice.                   *)
(*                                                                         *)
(* None of the properties is inductive.  A latch takes a reading that was  *)
(* made some steps before, so the invariant says what a reading in hand    *)
(* still tells of the engine; a write takes a document that was built some *)
(* steps before, so it says who writes, what he claimed, and what of it    *)
(* the entry has changed since.                                            *)
(***************************************************************************)
EXTENDS CrewLedger, TLAPS

\* Where a thread is in a drain's critical section, in a write it has claimed, in or
\* before a write, with a reading in hand; where the submitter is before the entry exists.
Draining == {"draining", "redraining"}
Writing  == {"build", "save", "clear"}
Written  == {"flush"} \cup Writing
Holding  == {"note", "latch"}
Untouched == {"submit", "record"}

\* drain_a's critical section is the lock's, and what it drains is subscribed.
LockInv ==
  \A t \in Threads :
    /\ pc[t] \in Draining <=> lock = t
    /\ pc[t] \in Draining => sub

\* What each role does, and where a flush leads it back.
RoleInv ==
  /\ pc[Submitter] \in Untouched \cup {"startFailed", "mark", "hold", "done"} \cup Written
  /\ pc[Submitter] \in Written => then[Submitter] = "hold"
  /\ pc[Submitter] \in Written \cup {"startFailed"} => runner = "none"
  /\ pc[Submitter] = "mark" => runner # "none"
  /\ \A t \in Threads \ {Submitter} :
       /\ pc[t] \notin Untouched \cup {"startFailed", "mark", "hold", "done"}
       /\ then[t] \in {"idle", "snap", "decide", "decideAgain", "confirm"}

\* Nobody has heard of the crew before its entry is there.
BeforeInv ==
  pc[Submitter] \in Untouched =>
    /\ ~inLedger /\ status = "PENDING" /\ ~retired /\ ~results
    /\ \A t \in Threads \ {Submitter} : pc[t] = "idle" /\ then[t] = "idle"

\* The engine records a final state before it closes the channel and has results only
\* then; a crew it has let go of, or never started, runs no more.
EngineInv ==
  /\ reg # "UNKNOWN" /\ (reg = "none" => pc[Submitter] = "submit")
  /\ pc[Submitter] = "submit" => runner = "none" /\ ~closed /\ ~waiting
  /\ regResults => runner \in {"recorded", "finished"}
  /\ runner \in {"recorded", "finished"} => reg \in Terminal \cup Gone
  /\ reg \in {"COMPLETED", "FAILED"} => runner \in {"recorded", "finished"}
  /\ closed => runner \in {"none", "finished"}
  /\ flag = "none" <=> runner \in {"none", "recorded", "finished", "erred"}
  /\ reg \in Gone => flag = "none"
  /\ runner = "none" /\ pc[Submitter] \notin Untouched \cup {"startFailed"} =>
       status \in Terminal

\* A drain that read the close read it after the last event was published.
FeedInv ==
  /\ \A t \in Threads : shut[t] => closed
  /\ pc[Submitter] \notin Untouched /\ ~sub => ~waiting /\ closed

\* The submission holds the place for as long as the crew has not ended.
PlaceInv ==
  /\ admitted => pc[Submitter] = "done"
  /\ pc[Submitter] = "done" /\ status \notin Terminal => admitted
  /\ PlaceBackOnce

\* What a thread has read of the engine and not yet latched: results are those of a
\* crew that has ended, a success or a failure is the recorded one, a crew that was not
\* found has been dropped or its end is known here, and the claimer's last look saw all.
ReadingInv ==
  \A t \in Threads : pc[t] \in Holding =>
    /\ obs[t].res => obs[t].st \in Terminal /\ regResults
    /\ obs[t].st \in {"COMPLETED", "FAILED"} =>
         runner \in {"recorded", "finished"} /\ obs[t].res = regResults
    /\ obs[t].st \in {"ABSENT", "UNKNOWN"} => reg = "evicted" \/ status \in Terminal
    /\ last[t] /\ regResults /\ reg # "evicted" => obs[t].res

\* A success or a failure is what the engine ended with, results and all.
EndedInv ==
  status \in {"COMPLETED", "FAILED"} =>
    /\ runner \in {"none", "recorded", "finished"}
    /\ regResults => results

\* One thread at most claims the retirement, of a crew that has ended and is drained, and
\* the registry forgets only what the entry has by then.
ClaimInv ==
  /\ retired => status \in Terminal /\ ~sub
  /\ reg = "forgotten" => retired /\ (regResults => results)
  /\ \A t \in Threads :
       /\ last[t] => /\ retired /\ reg # "forgotten"
                     /\ pc[t] \in {"read", "note", "latch", "forget"}
       /\ pc[t] = "forget" => last[t] /\ (reg = "evicted" \/ (regResults => results))
  /\ \A t, u \in Threads : last[t] /\ last[u] => t = u

\* WRITING has exactly one holder, who has claimed all that is owed of the outcome; an
\* outcome is owed of a crew that has ended, results of a cancelled one.
WriterInv ==
  /\ \A t \in Threads : pc[t] \in Writing =>
       /\ "WRITING" \in pending /\ work[t] # {} /\ work[t] \subseteq pending
       /\ "OUTCOME" \in pending => "OUTCOME" \in work[t]
       /\ \A u \in Threads : pc[u] \in Writing => u = t
  /\ "WRITING" \in pending => \E t \in Threads : pc[t] \in Writing
  /\ "OUTCOME" \in pending => status \in Terminal
  /\ "RESULTS" \in pending => status = "CANCELLED" /\ results

\* A document says what the entry does, but for results taken since, which are owed.
DocInv ==
  \A t \in Threads :
    /\ pc[t] = "save" =>
         /\ doc[t].st = status
         /\ doc[t].res # results => results /\ "RESULTS" \in pending \ work[t]
    /\ pc[t] = "clear" =>
         /\ outcome # Absent \/ failed
         /\ "RESULTS" \in work[t] => outcome.res = results \/ failed

\* A crew that has ended has its outcome stored, owed or failed, one that was accepted
\* has at least its in-flight row, and an outcome both stored and owed is just written.
OutcomeInv ==
  /\ status \in Terminal => "OUTCOME" \in pending \/ outcome # Absent \/ failed
  /\ "OUTCOME" \in pending /\ outcome # Absent =>
       \E t \in Threads : pc[t] = "clear" /\ "OUTCOME" \in work[t]
  /\ outcome # Absent => outcome.st \in Terminal
  /\ pc[Submitter] \in {"hold", "done"} /\ runner # "none" =>
       outcome # Absent \/ inflight \/ failed

\* Only a crew that has ended may have left the ledger.
InLedgerInv == Accepted /\ status \notin Terminal => inLedger

\* A canceller that is about to confirm has latched an end; one that was refused finds
\* the end of the crew in its second refresh, unless the engine has dropped it.
CancelInv ==
  \A t \in Pollers :
    /\ then[t] = "confirm" => pc[t] \in Written \cup {"cancelLatch", "confirm", "answered"}
    /\ pc[t] \in Written /\ then[t] = "confirm" => status \in Terminal
    /\ pc[t] = "confirm" => status \in Terminal
    /\ then[t] = "decideAgain" => reg \in Terminal \cup Gone
    /\ pc[t] = "decideAgain" => then[t] = "decideAgain"
    /\ then[t] = "decideAgain" /\ pc[t] \in Holding =>
         obs[t].st \in Terminal \/ status \in Terminal \/ reg = "evicted"
    /\ then[t] = "decideAgain" /\ pc[t] \in Written \cup
         {"check", "redrain", "redraining", "claim", "forget", "decideAgain"} =>
         status \in Terminal \/ reg = "evicted"

\* TypeOK in two parts: what is true or false, and the rest.
FlagTypes ==
  /\ regResults \in BOOLEAN /\ waiting \in BOOLEAN /\ closed \in BOOLEAN
  /\ inLedger \in BOOLEAN /\ results \in BOOLEAN /\ started \in BOOLEAN
  /\ sub \in BOOLEAN /\ retired \in BOOLEAN /\ admitted \in BOOLEAN
  /\ inflight \in BOOLEAN /\ failed \in BOOLEAN
  /\ last \in [Threads -> BOOLEAN] /\ shut \in [Threads -> BOOLEAN]

DataTypes ==
  /\ reg \in Statuses \cup Gone \cup {"none"}
  /\ flag \in {"none", "clear", "set"}
  /\ runner \in {"none", "ready", "running", "completed", "recorded", "finished", "erred"}
  /\ status \in Statuses /\ pending \subseteq Owed \cup {"WRITING"}
  /\ returned \in 0 .. 1 /\ outcome \in Readings
  /\ lock \in Threads \cup {NoThread}
  /\ pc \in [Threads -> PCs] /\ then \in [Threads -> PCs]
  /\ obs \in [Threads -> Readings] /\ doc \in [Threads -> Readings]
  /\ work \in [Threads -> SUBSET Owed]
  /\ answer \in [Threads -> Statuses \cup {NoAnswer} \cup CancelAnswers]

LedgerInv ==
  /\ FlagTypes /\ DataTypes
  /\ LockInv /\ RoleInv /\ BeforeInv /\ EngineInv /\ FeedInv /\ PlaceInv
  /\ ReadingInv /\ EndedInv /\ ClaimInv /\ WriterInv /\ DocInv /\ OutcomeInv
  /\ InLedgerInv /\ CancelInv /\ StoredTrue /\ CancelTruthful

\* The vocabulary of the module, wherever a step is taken apart.
USE LedgerThreads DEF Threads, At, Goto, LedgerFree, Terminal, Statuses, Gone, Owed, Readings,
  Absent, NoAnswer, CancelAnswers, PCs, engineVars, entryVars, storeVars, localVars, notEngine,
  Draining, Writing, Written, Holding, Untouched, PlaceBackOnce, Accepted

----------------------------------------------------------------------------

\* The inductive invariant holds at the start.
LEMMA LedgerInvInit == Init => LedgerInv
<1> SUFFICES ASSUME Init PROVE LedgerInv
  OBVIOUS
<1>1. FlagTypes
  BY Zenon DEF Init, FlagTypes
<1>2. DataTypes
  BY DEF Init, DataTypes
<1>3. LockInv /\ RoleInv /\ BeforeInv /\ EngineInv /\ FeedInv /\ PlaceInv
  BY DEF Init, LockInv, RoleInv, BeforeInv, EngineInv, FeedInv, PlaceInv
<1>4. ReadingInv /\ EndedInv /\ ClaimInv
  BY DEF Init, ReadingInv, EndedInv, ClaimInv
<1>5. WriterInv /\ DocInv /\ OutcomeInv /\ StoredTrue
  BY DEF Init, WriterInv, DocInv, OutcomeInv, StoredTrue
<1>6. InLedgerInv /\ CancelInv /\ CancelTruthful
  BY DEF Init, InLedgerInv, CancelInv, CancelTruthful
<1>7. QED
  BY <1>1, <1>2, <1>3, <1>4, <1>5, <1>6 DEF LedgerInv

\* A latch of any observation keeps the types of what it changes.
LEMMA LatchTypes ==
  ASSUME FlagTypes, DataTypes, PlaceInv, NEW s \in Statuses, NEW r \in BOOLEAN,
         LatchUnwritten(s, r)
  PROVE  /\ status' \in Statuses /\ returned' \in 0 .. 1
         /\ pending' \subseteq Owed \cup {"WRITING"}
<1>1. Upgraded(s) \in Statuses
  BY DEF Upgraded
<1>2. status' \in Statuses
  BY <1>1 DEF LatchUnwritten, DataTypes
<1>3. pending' \subseteq Owed \cup {"WRITING"}
  <2>1. pending' \in {pending, pending \cup {"OUTCOME"}, pending \cup {"RESULTS"}}
    BY DEF LatchUnwritten
  <2>2. QED
    BY <2>1 DEF DataTypes
<1>4. returned' \in 0 .. 1
  BY DEF LatchUnwritten, DataTypes, PlaceInv
<1>5. QED
  BY <1>2, <1>3, <1>4

\* The engine registers the crew or lets go of it again.
LEMMA EngineSubmitKeeps == ASSUME LedgerInv, EngineSubmit PROVE LedgerInv'
<1> USE DEF LedgerInv, EngineSubmit
<1>1. FlagTypes'
  BY Zenon DEF FlagTypes
<1>2. DataTypes'
  BY DEF DataTypes
<1>3. LockInv' /\ RoleInv' /\ BeforeInv' /\ FeedInv' /\ PlaceInv' /\ WriterInv' /\ DocInv'
      /\ OutcomeInv' /\ InLedgerInv' /\ StoredTrue'
  BY DEF LockInv, RoleInv, BeforeInv, FeedInv, PlaceInv, WriterInv, DocInv, OutcomeInv,
       InLedgerInv, StoredTrue
<1>4. EngineInv'
  BY DEF EngineInv, FlagTypes, DataTypes
<1>5. ReadingInv' /\ EndedInv' /\ ClaimInv' /\ CancelInv' /\ CancelTruthful'
  BY DEF ReadingInv, EndedInv, ClaimInv, CancelInv, CancelTruthful, BeforeInv
<1>6. QED
  BY <1>1, <1>2, <1>3, <1>4, <1>5

\* The entry appears, subscribed, before anybody can look it up.
LEMMA RecordKeeps == ASSUME LedgerInv, Record PROVE LedgerInv'
<1> USE DEF LedgerInv, Record
<1>1. FlagTypes'
  BY Zenon DEF FlagTypes
<1>2. DataTypes'
  BY DEF DataTypes
<1>3. LockInv' /\ RoleInv' /\ EngineInv' /\ FeedInv' /\ PlaceInv' /\ EndedInv' /\
      OutcomeInv' /\ InLedgerInv'
  BY DEF LockInv, RoleInv, EngineInv, FeedInv, PlaceInv, EndedInv, OutcomeInv,
       InLedgerInv
<1>4. BeforeInv'
  BY DEF BeforeInv, FlagTypes, DataTypes
<1>5. ReadingInv' /\ ClaimInv' /\ WriterInv' /\ DocInv' /\ CancelInv' /\ StoredTrue' /\
      CancelTruthful'
  BY DEF ReadingInv, ClaimInv, WriterInv, DocInv, CancelInv, StoredTrue, CancelTruthful,
       BeforeInv
<1>6. QED
  BY <1>1, <1>2, <1>3, <1>4, <1>5

\* The latch of a failed start keeps the types.
LEMMA StartFailedTypes == ASSUME LedgerInv, StartFailed PROVE DataTypes'
<1>1. LatchUnwritten("FAILED", FALSE)
  BY DEF StartFailed
<1>2. status' \in Statuses /\ pending' \subseteq Owed \cup {"WRITING"} /\ returned' \in 0 .. 1
  BY <1>1, LatchTypes DEF LedgerInv
<1>3. QED
  BY <1>2 DEF LedgerInv, DataTypes, StartFailed

\* A crew whose thread was not created is latched FAILED.
LEMMA StartFailedKeeps == ASSUME LedgerInv, StartFailed PROVE LedgerInv'
<1> USE DEF LedgerInv, StartFailed, LatchUnwritten, TakesResults, Upgraded
<1>1. FlagTypes'
  BY Zenon DEF FlagTypes
<1>2. LockInv' /\ BeforeInv' /\ EngineInv' /\ FeedInv' /\ PlaceInv' /\ ReadingInv' /\
      InLedgerInv' /\ CancelInv' /\ CancelTruthful'
  BY DEF LockInv, BeforeInv, EngineInv, FeedInv, PlaceInv, ReadingInv, InLedgerInv,
       CancelInv, CancelTruthful
<1>3. RoleInv' /\ ClaimInv' /\ WriterInv'
  BY DEF RoleInv, ClaimInv, WriterInv, FlagTypes, DataTypes
<1>4. EndedInv'
  BY DEF EndedInv, EngineInv, RoleInv
<1>5. DocInv'
  BY DEF DocInv, EndedInv, FlagTypes, DataTypes, WriterInv
<1>6. OutcomeInv'
  BY DEF OutcomeInv, RoleInv, StoredTrue
<1>7. StoredTrue'
  BY DEF StoredTrue, OutcomeInv, FlagTypes, DataTypes
<1>8. DataTypes'
  BY StartFailedTypes
<1>9. QED
  BY <1>1, <1>2, <1>3, <1>4, <1>5, <1>6, <1>7, <1>8

\* The in-flight row, written only while there is no outcome.
LEMMA MarkInflightKeeps == ASSUME LedgerInv, MarkInflight PROVE LedgerInv'
<1> USE DEF LedgerInv, MarkInflight, WriteFails
<1>1. FlagTypes'
  BY Zenon DEF FlagTypes
<1>2. DataTypes'
  BY DEF DataTypes
<1>3. LockInv' /\ RoleInv' /\ BeforeInv' /\ EngineInv' /\ FeedInv' /\ PlaceInv' /\
      ReadingInv' /\ EndedInv' /\ ClaimInv' /\ WriterInv' /\ DocInv' /\ InLedgerInv' /\
      CancelInv' /\ CancelTruthful'
  BY DEF LockInv, RoleInv, BeforeInv, EngineInv, FeedInv, PlaceInv, ReadingInv,
       EndedInv, ClaimInv, WriterInv, DocInv, InLedgerInv, CancelInv, CancelTruthful
<1>4. OutcomeInv'
  BY DEF OutcomeInv, FeedInv, FlagTypes, DataTypes
<1>5. StoredTrue'
  BY DEF StoredTrue, FlagTypes, DataTypes
<1>6. QED
  BY <1>1, <1>2, <1>3, <1>4, <1>5

\* The submission says that the crew holds a place, or gives it back.
LEMMA HoldAdmissionKeeps == ASSUME LedgerInv, HoldAdmission PROVE LedgerInv'
<1> USE DEF LedgerInv, HoldAdmission
<1>1. FlagTypes'
  BY Zenon DEF FlagTypes
<1>2. DataTypes'
  BY DEF DataTypes, PlaceInv
<1>3. LockInv' /\ RoleInv' /\ BeforeInv' /\ EngineInv' /\ FeedInv' /\ ReadingInv' /\
      EndedInv' /\ ClaimInv' /\ WriterInv' /\ DocInv' /\ OutcomeInv' /\ InLedgerInv' /\
      CancelInv' /\ StoredTrue' /\ CancelTruthful'
  BY DEF LockInv, RoleInv, BeforeInv, EngineInv, FeedInv, ReadingInv, EndedInv,
       ClaimInv, WriterInv, DocInv, OutcomeInv, InLedgerInv, CancelInv, StoredTrue,
       CancelTruthful
<1>4. PlaceInv'
  BY DEF PlaceInv, FlagTypes, DataTypes
<1>5. QED
  BY <1>1, <1>2, <1>3, <1>4

\* A reader looks the crew up.
LEMMA PollKeeps == ASSUME LedgerInv, NEW t \in Pollers, Poll(t) PROVE LedgerInv'
<1> USE DEF LedgerInv, Poll, Lookup
<1>1. FlagTypes'
  BY Zenon DEF FlagTypes
<1>2. DataTypes'
  BY DEF DataTypes
<1>3. LockInv' /\ RoleInv' /\ BeforeInv' /\ EngineInv' /\ FeedInv' /\ PlaceInv' /\
      ReadingInv' /\ EndedInv' /\ ClaimInv' /\ WriterInv' /\ DocInv' /\ OutcomeInv' /\
      InLedgerInv' /\ CancelInv' /\ StoredTrue' /\ CancelTruthful'
  BY DEF LockInv, RoleInv, BeforeInv, EngineInv, FeedInv, PlaceInv, ReadingInv,
       EndedInv, ClaimInv, WriterInv, DocInv, OutcomeInv, InLedgerInv, CancelInv,
       StoredTrue, CancelTruthful
<1>4. QED
  BY <1>1, <1>2, <1>3

\* A canceller looks the crew up.
LEMMA CancelKeeps == ASSUME LedgerInv, NEW t \in Pollers, Cancel(t) PROVE LedgerInv'
<1> USE DEF LedgerInv, Cancel, Lookup
<1>1. FlagTypes'
  BY Zenon DEF FlagTypes
<1>2. DataTypes'
  BY DEF DataTypes
<1>3. LockInv' /\ RoleInv' /\ BeforeInv' /\ EngineInv' /\ FeedInv' /\ PlaceInv' /\
      ReadingInv' /\ EndedInv' /\ ClaimInv' /\ WriterInv' /\ DocInv' /\ OutcomeInv' /\
      InLedgerInv' /\ CancelInv' /\ StoredTrue' /\ CancelTruthful'
  BY DEF LockInv, RoleInv, BeforeInv, EngineInv, FeedInv, PlaceInv, ReadingInv,
       EndedInv, ClaimInv, WriterInv, DocInv, OutcomeInv, InLedgerInv, CancelInv,
       StoredTrue, CancelTruthful
<1>4. QED
  BY <1>1, <1>2, <1>3

\* The collector looks the crew up.
LEMMA SweepKeeps == ASSUME LedgerInv, Sweep PROVE LedgerInv'
<1> USE DEF LedgerInv, Sweep, Live, Lookup, Settled
<1>1. FlagTypes'
  BY Zenon DEF FlagTypes
<1>2. DataTypes'
  BY DEF DataTypes
<1>3. LockInv' /\ RoleInv' /\ BeforeInv' /\ EngineInv' /\ FeedInv' /\ PlaceInv' /\
      ReadingInv' /\ EndedInv' /\ ClaimInv' /\ WriterInv' /\ DocInv' /\ OutcomeInv' /\
      InLedgerInv' /\ CancelInv' /\ StoredTrue' /\ CancelTruthful'
  BY DEF LockInv, RoleInv, BeforeInv, EngineInv, FeedInv, PlaceInv, ReadingInv,
       EndedInv, ClaimInv, WriterInv, DocInv, OutcomeInv, InLedgerInv, CancelInv,
       StoredTrue, CancelTruthful
<1>4. QED
  BY <1>1, <1>2, <1>3

\* A drain takes the lock and reads whether the channel has closed.
LEMMA FirstDrainBeginKeeps == ASSUME LedgerInv, NEW t \in Threads, FirstDrainBegin(t) PROVE LedgerInv'
<1> USE DEF LedgerInv, FirstDrainBegin, DrainBegin
<1>1. FlagTypes'
  BY Zenon DEF FlagTypes
<1>2. DataTypes'
  BY DEF DataTypes
<1>3. LockInv' /\ RoleInv' /\ BeforeInv' /\ EngineInv' /\ FeedInv' /\ PlaceInv' /\
      ReadingInv' /\ ClaimInv' /\ WriterInv' /\ DocInv' /\ OutcomeInv' /\ InLedgerInv' /\
      CancelInv' /\ CancelTruthful'
  BY DEF LockInv, RoleInv, BeforeInv, EngineInv, FeedInv, PlaceInv, ReadingInv,
       ClaimInv, WriterInv, DocInv, OutcomeInv, InLedgerInv, CancelInv, CancelTruthful,
       FlagTypes, DataTypes
<1>4. EndedInv' /\ StoredTrue'
  BY DEF EndedInv, StoredTrue
<1>5. QED
  BY <1>1, <1>2, <1>3, <1>4

\* It takes the events and lets go of a subscription whose close it read.
LEMMA FirstDrainEndKeeps == ASSUME LedgerInv, NEW t \in Threads, FirstDrainEnd(t) PROVE LedgerInv'
<1> USE DEF LedgerInv, FirstDrainEnd, DrainEnd
<1>1. FlagTypes'
  BY Zenon DEF FlagTypes
<1>2. DataTypes'
  BY DEF DataTypes
<1>3. LockInv' /\ FeedInv'
  BY DEF LockInv, FeedInv, FlagTypes, DataTypes
<1>4. RoleInv' /\ BeforeInv' /\ EngineInv' /\ PlaceInv' /\ ReadingInv' /\ EndedInv' /\
      WriterInv' /\ DocInv' /\ OutcomeInv' /\ InLedgerInv' /\ CancelInv' /\ StoredTrue' /\
      CancelTruthful'
  BY DEF RoleInv, BeforeInv, EngineInv, PlaceInv, ReadingInv, EndedInv, WriterInv,
       DocInv, OutcomeInv, InLedgerInv, CancelInv, StoredTrue, CancelTruthful
<1>5. ClaimInv'
  BY DEF ClaimInv, LockInv
<1>6. QED
  BY <1>1, <1>2, <1>3, <1>4, <1>5

\* What a thread reads of the engine says what the engine was when it was read.
LEMMA ReadEngineReads ==
  ASSUME LedgerInv, NEW t \in Threads, ReadEngine(t) PROVE DataTypes' /\ ReadingInv'
<1> DEFINE o == IF reg \in Gone THEN Absent ELSE Observed(reg, regResults)
<1>0. t # Submitter /\ pc[Submitter] \notin Untouched
  BY DEF LedgerInv, RoleInv, BeforeInv, ReadEngine
<1>1. reg \in Gone \/ reg \in Statuses
  BY <1>0 DEF LedgerInv, DataTypes, EngineInv, ReadEngine
<1>2. o \in Readings
  BY <1>1 DEF Observed, LedgerInv, FlagTypes
<1>3. obs' = [obs EXCEPT ![t] = o]
  BY DEF ReadEngine
<1>4. DataTypes'
  <2>1. obs' \in [Threads -> Readings]
    BY <1>2, <1>3 DEF LedgerInv, DataTypes
  <2>2. QED
    BY <2>1 DEF ReadEngine, LedgerInv, DataTypes
<1>5. /\ o.res => o.st \in Terminal /\ regResults
      /\ o.st \in {"COMPLETED", "FAILED"} =>
           runner \in {"recorded", "finished"} /\ o.res = regResults
      /\ o.st \in {"ABSENT", "UNKNOWN"} => reg = "evicted" \/ status \in Terminal
      /\ last[t] /\ regResults /\ reg # "evicted" => o.res
  <2>1. CASE reg \in Gone
    BY <2>1 DEF LedgerInv, ClaimInv
  <2>2. CASE reg \notin Gone
    <3>1. /\ o.st = (IF reg = "COMPLETED" /\ ~regResults THEN "FAILED" ELSE reg)
          /\ o.res = regResults
      BY <2>2 DEF Observed
    <3>2. QED
      BY <1>1, <2>2, <3>1 DEF LedgerInv, EngineInv, FlagTypes
  <2>3. QED
    BY <2>1, <2>2
<1>6. ASSUME NEW u \in Threads, pc'[u] \in Holding
      PROVE  /\ obs'[u].res => obs'[u].st \in Terminal /\ regResults
             /\ obs'[u].st \in {"COMPLETED", "FAILED"} =>
                  runner \in {"recorded", "finished"} /\ obs'[u].res = regResults
             /\ obs'[u].st \in {"ABSENT", "UNKNOWN"} => reg = "evicted" \/ status \in Terminal
             /\ last[u] /\ regResults /\ reg # "evicted" => obs'[u].res
  <2>1. CASE u = t
    BY <1>3, <1>5, <2>1 DEF LedgerInv, DataTypes
  <2>2. CASE u # t
    BY <1>3, <1>6, <2>2 DEF LedgerInv, DataTypes, ReadingInv, ReadEngine
  <2>3. QED
    BY <2>1, <2>2
<1>7. ReadingInv'
  BY <1>6 DEF ReadingInv, ReadEngine
<1>8. QED
  BY <1>4, <1>7

\* What the registry says is read outside the ledger's lock.
LEMMA ReadEngineKeeps == ASSUME LedgerInv, NEW t \in Threads, ReadEngine(t) PROVE LedgerInv'
<1> USE DEF LedgerInv, ReadEngine, Observed
<1>1. FlagTypes'
  BY Zenon DEF FlagTypes
<1>2. LockInv' /\ RoleInv' /\ BeforeInv' /\ EngineInv' /\ FeedInv' /\ PlaceInv' /\
      EndedInv' /\ ClaimInv' /\ WriterInv' /\ DocInv' /\ OutcomeInv' /\ InLedgerInv' /\
      StoredTrue' /\ CancelTruthful'
  BY DEF LockInv, RoleInv, BeforeInv, EngineInv, FeedInv, PlaceInv, EndedInv, ClaimInv,
       WriterInv, DocInv, OutcomeInv, InLedgerInv, StoredTrue, CancelTruthful
<1>3. CancelInv'
  BY DEF CancelInv, ClaimInv, FlagTypes, DataTypes
<1>4. DataTypes' /\ ReadingInv'
  BY ReadEngineReads
<1>5. QED
  BY <1>1, <1>2, <1>3, <1>4

\* A reading becomes an observed status.
LEMMA NoteKeeps == ASSUME LedgerInv, NEW t \in Threads, Note(t) PROVE LedgerInv'
<1> USE DEF LedgerInv, Note
<1>1. FlagTypes'
  BY Zenon DEF FlagTypes
<1>2. DataTypes'
  BY DEF DataTypes
<1>3. LockInv' /\ RoleInv' /\ BeforeInv' /\ EngineInv' /\ FeedInv' /\ PlaceInv' /\
      ReadingInv' /\ EndedInv' /\ ClaimInv' /\ WriterInv' /\ DocInv' /\ OutcomeInv' /\
      InLedgerInv' /\ CancelInv' /\ StoredTrue' /\ CancelTruthful'
  BY DEF LockInv, RoleInv, BeforeInv, EngineInv, FeedInv, PlaceInv, ReadingInv,
       EndedInv, ClaimInv, WriterInv, DocInv, OutcomeInv, InLedgerInv, CancelInv,
       StoredTrue, CancelTruthful
<1>4. QED
  BY <1>1, <1>2, <1>3

\* The latch of a reading keeps the types: only a crew the engine does not have reads ABSENT.
LEMMA LatchStepTypes == ASSUME LedgerInv, NEW t \in Threads, Latch(t) PROVE DataTypes'
<1>1. obs[t].st \in Statuses \cup {"ABSENT"} /\ obs[t].res \in BOOLEAN
  BY DEF LedgerInv, DataTypes
<1>2. obs[t] # Absent => obs[t].st # "ABSENT"
  <2>1. obs[t].st = "ABSENT" => obs[t].res = FALSE
    BY <1>1 DEF Latch, LedgerInv, ReadingInv
  <2>2. obs[t] = [st |-> obs[t].st, res |-> obs[t].res]
    BY DEF LedgerInv, DataTypes
  <2>3. QED
    BY <2>1, <2>2
<1>3. status' \in Statuses /\ pending' \subseteq Owed \cup {"WRITING"} /\ returned' \in 0 .. 1
  <2>1. CASE obs[t] = Absent
    BY <2>1 DEF Latch, latched, LedgerInv, DataTypes
  <2>2. CASE obs[t] # Absent
    BY <1>1, <1>2, <2>2, LatchTypes DEF Latch, LedgerInv
  <2>3. QED
    BY <2>1, <2>2
<1>4. QED
  BY <1>3 DEF LedgerInv, DataTypes, Latch, AfterLatch

\* One thread's latch leaves what the others have read as true as it was.
LEMMA LatchLeavesReadings == ASSUME LedgerInv, NEW t \in Threads, Latch(t) PROVE ReadingInv'
<1>1. status \in Terminal => status' = status
  BY DEF Latch, LatchUnwritten, latched
<1>2. ASSUME NEW u \in Threads, pc'[u] \in Holding
      PROVE  /\ u # t /\ pc[u] \in Holding /\ obs'[u] = obs[u]
  BY <1>2 DEF Latch, AfterLatch, LedgerInv, DataTypes
<1>3. QED
  BY <1>1, <1>2 DEF ReadingInv, LedgerInv, Latch

\* The observed status is latched, whatever happened since it was read.
LEMMA LatchKeeps == ASSUME LedgerInv, NEW t \in Threads, Latch(t) PROVE LedgerInv'
<1> USE DEF LedgerInv, Latch, AfterLatch, LatchUnwritten, TakesResults, Upgraded, latched
<1>1. FlagTypes'
  BY Zenon DEF FlagTypes
<1>2. LockInv' /\ RoleInv' /\ BeforeInv' /\ EngineInv' /\ FeedInv' /\ PlaceInv' /\
      InLedgerInv' /\ CancelInv' /\ CancelTruthful'
  BY DEF LockInv, RoleInv, BeforeInv, EngineInv, FeedInv, PlaceInv, InLedgerInv,
       CancelInv, CancelTruthful
<1>3. EndedInv'
  BY DEF EndedInv, ReadingInv, FlagTypes, DataTypes
<1>4. ClaimInv'
  BY DEF ClaimInv, EndedInv, ReadingInv, FlagTypes, DataTypes
<1>5. WriterInv'
  BY DEF WriterInv, FlagTypes, DataTypes
<1>6. DocInv'
  BY DEF DocInv, FlagTypes, DataTypes, WriterInv
<1>7. OutcomeInv'
  BY DEF OutcomeInv, StoredTrue
<1>8. StoredTrue'
  BY DEF StoredTrue, OutcomeInv, FlagTypes, DataTypes
<1>9. DataTypes'
  BY LatchStepTypes
<1>10. ReadingInv'
  BY LatchLeavesReadings
<1>11. QED
  BY <1>1, <1>2, <1>3, <1>4, <1>5, <1>6, <1>7, <1>8, <1>9, <1>10

\* A crew that has ended is drained once more.
LEMMA CheckKeeps == ASSUME LedgerInv, NEW t \in Threads, Check(t) PROVE LedgerInv'
<1> USE DEF LedgerInv, Check
<1>1. FlagTypes'
  BY Zenon DEF FlagTypes
<1>2. DataTypes'
  BY DEF DataTypes
<1>3. LockInv' /\ RoleInv' /\ BeforeInv' /\ EngineInv' /\ FeedInv' /\ PlaceInv' /\
      ReadingInv' /\ EndedInv' /\ ClaimInv' /\ WriterInv' /\ DocInv' /\ OutcomeInv' /\
      InLedgerInv' /\ CancelInv' /\ StoredTrue' /\ CancelTruthful'
  BY DEF LockInv, RoleInv, BeforeInv, EngineInv, FeedInv, PlaceInv, ReadingInv,
       EndedInv, ClaimInv, WriterInv, DocInv, OutcomeInv, InLedgerInv, CancelInv,
       StoredTrue, CancelTruthful
<1>4. QED
  BY <1>1, <1>2, <1>3

\* The drain after the end does the same.
LEMMA SecondDrainBeginKeeps == ASSUME LedgerInv, NEW t \in Threads, SecondDrainBegin(t) PROVE LedgerInv'
<1> USE DEF LedgerInv, SecondDrainBegin, DrainBegin
<1>1. FlagTypes'
  BY Zenon DEF FlagTypes
<1>2. DataTypes'
  BY DEF DataTypes
<1>3. LockInv' /\ RoleInv' /\ BeforeInv' /\ EngineInv' /\ FeedInv' /\ PlaceInv' /\
      ReadingInv' /\ ClaimInv' /\ WriterInv' /\ DocInv' /\ OutcomeInv' /\ InLedgerInv' /\
      CancelInv' /\ CancelTruthful'
  BY DEF LockInv, RoleInv, BeforeInv, EngineInv, FeedInv, PlaceInv, ReadingInv,
       ClaimInv, WriterInv, DocInv, OutcomeInv, InLedgerInv, CancelInv, CancelTruthful,
       FlagTypes, DataTypes
<1>4. EndedInv' /\ StoredTrue'
  BY DEF EndedInv, StoredTrue
<1>5. QED
  BY <1>1, <1>2, <1>3, <1>4

\* So does its end.
LEMMA SecondDrainEndKeeps == ASSUME LedgerInv, NEW t \in Threads, SecondDrainEnd(t) PROVE LedgerInv'
<1> USE DEF LedgerInv, SecondDrainEnd, DrainEnd
<1>1. FlagTypes'
  BY Zenon DEF FlagTypes
<1>2. DataTypes'
  BY DEF DataTypes
<1>3. LockInv' /\ FeedInv'
  BY DEF LockInv, FeedInv, FlagTypes, DataTypes
<1>4. RoleInv' /\ BeforeInv' /\ EngineInv' /\ PlaceInv' /\ ReadingInv' /\ EndedInv' /\
      WriterInv' /\ DocInv' /\ OutcomeInv' /\ InLedgerInv' /\ CancelInv' /\ StoredTrue' /\
      CancelTruthful'
  BY DEF RoleInv, BeforeInv, EngineInv, PlaceInv, ReadingInv, EndedInv, WriterInv,
       DocInv, OutcomeInv, InLedgerInv, CancelInv, StoredTrue, CancelTruthful
<1>5. ClaimInv'
  BY DEF ClaimInv, LockInv
<1>6. QED
  BY <1>1, <1>2, <1>3, <1>4, <1>5

\* One thread claims the retirement of the crew.
LEMMA RetireClaimKeeps == ASSUME LedgerInv, NEW t \in Threads, RetireClaim(t) PROVE LedgerInv'
<1> USE DEF LedgerInv, RetireClaim
<1>1. FlagTypes'
  BY Zenon DEF FlagTypes
<1>2. DataTypes'
  BY DEF DataTypes
<1>3. LockInv' /\ RoleInv' /\ BeforeInv' /\ EngineInv' /\ FeedInv' /\ PlaceInv' /\
      ReadingInv' /\ ClaimInv' /\ WriterInv' /\ DocInv' /\ OutcomeInv' /\ InLedgerInv' /\
      CancelInv' /\ CancelTruthful'
  BY DEF LockInv, RoleInv, BeforeInv, EngineInv, FeedInv, PlaceInv, ReadingInv,
       ClaimInv, WriterInv, DocInv, OutcomeInv, InLedgerInv, CancelInv, CancelTruthful,
       FlagTypes, DataTypes
<1>4. EndedInv' /\ StoredTrue'
  BY DEF EndedInv, StoredTrue
<1>5. QED
  BY <1>1, <1>2, <1>3, <1>4

\* The claimer asks the registry to forget the crew.
LEMMA ForgetKeeps == ASSUME LedgerInv, NEW t \in Threads, Forget(t) PROVE LedgerInv'
<1> USE DEF LedgerInv, Forget
<1>1. FlagTypes'
  BY Zenon DEF FlagTypes
<1>2. DataTypes'
  BY DEF DataTypes
<1>3. LockInv' /\ RoleInv' /\ BeforeInv' /\ EngineInv' /\ FeedInv' /\ PlaceInv' /\
      ReadingInv' /\ EndedInv' /\ WriterInv' /\ DocInv' /\ OutcomeInv' /\ InLedgerInv' /\
      CancelInv' /\ StoredTrue' /\ CancelTruthful'
  BY DEF LockInv, RoleInv, BeforeInv, EngineInv, FeedInv, PlaceInv, ReadingInv,
       EndedInv, WriterInv, DocInv, OutcomeInv, InLedgerInv, CancelInv, StoredTrue,
       CancelTruthful
<1>4. ClaimInv'
  BY DEF ClaimInv, FlagTypes, DataTypes
<1>5. QED
  BY <1>1, <1>2, <1>3, <1>4

\* What a writer claims is what the entry owes.
LEMMA FlushBeginTypes == ASSUME LedgerInv, NEW t \in Threads, FlushBegin(t) PROVE DataTypes'
<1>1. pending' \subseteq Owed \cup {"WRITING"}
  BY DEF LedgerInv, DataTypes, FlushBegin
<1>2. pending \cap Owed \in SUBSET Owed
  OBVIOUS
<1>3. work' \in [Threads -> SUBSET Owed]
  <2>1. work \in [Threads -> SUBSET Owed]
    BY DEF LedgerInv, DataTypes
  <2>2. work' = work \/ work' = [work EXCEPT ![t] = pending \cap Owed]
    BY DEF FlushBegin
  <2>3. QED
    BY <1>2, <2>1, <2>2, Zenon
<1>4. pc' \in [Threads -> PCs]
  BY DEF LedgerInv, DataTypes, FlushBegin
<1>5. QED
  BY <1>1, <1>3, <1>4 DEF LedgerInv, DataTypes, FlushBegin

\* A writer claims what the entry owes.
LEMMA FlushBeginKeeps == ASSUME LedgerInv, NEW t \in Threads, FlushBegin(t) PROVE LedgerInv'
<1> USE DEF LedgerInv, FlushBegin
<1>1. FlagTypes'
  BY Zenon DEF FlagTypes
<1>2. LockInv' /\ BeforeInv' /\ EngineInv' /\ PlaceInv' /\ ReadingInv' /\ ClaimInv' /\
      WriterInv' /\ DocInv' /\ OutcomeInv' /\ CancelTruthful'
  BY DEF LockInv, BeforeInv, EngineInv, PlaceInv, ReadingInv, ClaimInv, WriterInv,
       DocInv, OutcomeInv, CancelTruthful, RoleInv, FlagTypes, DataTypes
<1>3. RoleInv' /\ FeedInv' /\ InLedgerInv' /\ CancelInv'
  BY DEF RoleInv, FeedInv, InLedgerInv, CancelInv, FlagTypes, DataTypes
<1>4. EndedInv' /\ StoredTrue'
  BY DEF EndedInv, StoredTrue
<1>5. DataTypes'
  BY FlushBeginTypes
<1>6. QED
  BY <1>1, <1>2, <1>3, <1>4, <1>5

\* The sweep's budget is used up.
LEMMA FlushSkipKeeps == ASSUME LedgerInv, FlushSkip PROVE LedgerInv'
<1> USE DEF LedgerInv, FlushSkip
<1>1. FlagTypes'
  BY Zenon DEF FlagTypes
<1>2. DataTypes'
  BY DEF DataTypes
<1>3. LockInv' /\ RoleInv' /\ BeforeInv' /\ EngineInv' /\ FeedInv' /\ PlaceInv' /\
      ReadingInv' /\ EndedInv' /\ ClaimInv' /\ WriterInv' /\ DocInv' /\ OutcomeInv' /\
      InLedgerInv' /\ CancelInv' /\ StoredTrue' /\ CancelTruthful'
  BY DEF LockInv, RoleInv, BeforeInv, EngineInv, FeedInv, PlaceInv, ReadingInv,
       EndedInv, ClaimInv, WriterInv, DocInv, OutcomeInv, InLedgerInv, CancelInv,
       StoredTrue, CancelTruthful
<1>4. QED
  BY <1>1, <1>2, <1>3

\* The writer builds the document from the entry.
LEMMA BuildKeeps == ASSUME LedgerInv, NEW t \in Threads, Build(t) PROVE LedgerInv'
<1> USE DEF LedgerInv, Build
<1>1. FlagTypes'
  BY Zenon DEF FlagTypes
<1>2. DataTypes'
  BY DEF DataTypes, FlagTypes
<1>3. LockInv' /\ RoleInv' /\ BeforeInv' /\ EngineInv' /\ FeedInv' /\ PlaceInv' /\
      ReadingInv' /\ EndedInv' /\ ClaimInv' /\ WriterInv' /\ OutcomeInv' /\ InLedgerInv'
      /\ CancelInv' /\ StoredTrue' /\ CancelTruthful'
  BY DEF LockInv, RoleInv, BeforeInv, EngineInv, FeedInv, PlaceInv, ReadingInv,
       EndedInv, ClaimInv, WriterInv, OutcomeInv, InLedgerInv, CancelInv, StoredTrue,
       CancelTruthful
<1>4. DocInv'
  BY DEF DocInv, FlagTypes, DataTypes
<1>5. QED
  BY <1>1, <1>2, <1>3, <1>4

\* What the store holds after a write is what the document said, and an owed outcome is
\* stored or its write has failed.
LEMMA SaveWrites == ASSUME LedgerInv, NEW t \in Threads, Save(t) PROVE DocInv' /\ OutcomeInv'
<1> USE DEF LedgerInv
<1>1. pc[t] = "save" /\ pc' = [pc EXCEPT ![t] = "clear"] /\ doc' = [doc EXCEPT ![t] = Absent]
      /\ UNCHANGED <<engineVars, entryVars, work>>
  BY DEF Save
<1>2. /\ doc[t].st = status
      /\ doc[t].res # results => results /\ "RESULTS" \in pending \ work[t]
  BY <1>1 DEF DocInv
<1>3. status \in Terminal /\ doc[t] \in Readings /\ doc[t] # Absent
  BY <1>1, <1>2 DEF WriterInv, DataTypes
<1>4. \A u \in Threads : u # t => pc[u] \notin Writing
  BY <1>1 DEF WriterInv
<1>5. /\ outcome' # Absent \/ failed'
      /\ "RESULTS" \in work[t] => outcome'.res = results \/ failed'
      /\ outcome' # Absent => outcome'.st \in Terminal
      /\ failed => failed'
      /\ outcome # Absent => outcome' # Absent
      /\ inflight => inflight' \/ outcome' # Absent
  <2>1. CASE "OUTCOME" \in work[t] /\ SaveRow(doc[t])
    BY <1>1, <1>2, <1>3, <2>1 DEF SaveRow, OutcomeInv, WriterInv, DocInv
  <2>2. CASE "OUTCOME" \notin work[t] /\ ResaveRow(doc[t])
    BY <1>1, <1>2, <1>3, <2>2 DEF ResaveRow, SaveRow, OutcomeInv, WriterInv, DataTypes, storeVars
  <2>3. CASE WriteFails /\ UNCHANGED <<outcome, inflight>>
    BY <2>3 DEF WriteFails, OutcomeInv
  <2>4. QED
    BY <2>1, <2>2, <2>3 DEF Save
<1>6. DocInv'
  BY <1>1, <1>4, <1>5 DEF DocInv, DataTypes
<1>7. OutcomeInv'
  BY <1>1, <1>4, <1>5 DEF OutcomeInv, DataTypes, WriterInv
<1>8. QED
  BY <1>6, <1>7

\* The store takes it, or the write fails.
LEMMA SaveKeeps == ASSUME LedgerInv, NEW t \in Threads, Save(t) PROVE LedgerInv'
<1> USE DEF LedgerInv, Save, ResaveRow, SaveRow, WriteFails
<1>1. FlagTypes'
  BY Zenon DEF FlagTypes
<1>2. DataTypes'
  BY DEF DataTypes
<1>3. LockInv' /\ RoleInv' /\ BeforeInv' /\ EngineInv' /\ FeedInv' /\ PlaceInv' /\
      ReadingInv' /\ EndedInv' /\ ClaimInv' /\ WriterInv' /\ InLedgerInv' /\ CancelInv' /\
      CancelTruthful'
  BY DEF LockInv, RoleInv, BeforeInv, EngineInv, FeedInv, PlaceInv, ReadingInv,
       EndedInv, ClaimInv, WriterInv, InLedgerInv, CancelInv, CancelTruthful
<1>4. StoredTrue'
  BY DEF StoredTrue, DocInv
<1>5. DocInv' /\ OutcomeInv'
  BY SaveWrites
<1>6. QED
  BY <1>1, <1>2, <1>3, <1>4, <1>5

\* What it wrote is taken out of what is owed.
LEMMA FlushEndTypes == ASSUME LedgerInv, NEW t \in Threads, FlushEnd(t) PROVE DataTypes'
<1>1. pending' \subseteq Owed \cup {"WRITING"} /\ work' \in [Threads -> SUBSET Owed]
  <2>1. pending \ (work[t] \cup {"WRITING"}) \subseteq Owed \cup {"WRITING"}
    BY DEF LedgerInv, DataTypes
  <2>2. QED
    BY <2>1 DEF LedgerInv, DataTypes, FlushEnd
<1>2. QED
  BY <1>1 DEF LedgerInv, DataTypes, FlushEnd

\* Only what this write wrote is no longer owed.
LEMMA FlushEndKeeps == ASSUME LedgerInv, NEW t \in Threads, FlushEnd(t) PROVE LedgerInv'
<1> USE DEF LedgerInv, FlushEnd
<1>1. FlagTypes'
  BY Zenon DEF FlagTypes
<1>2. LockInv' /\ BeforeInv' /\ EngineInv' /\ PlaceInv' /\ ReadingInv' /\ ClaimInv' /\
      CancelTruthful'
  BY DEF LockInv, BeforeInv, EngineInv, PlaceInv, ReadingInv, ClaimInv, CancelTruthful,
       RoleInv
<1>3. RoleInv' /\ FeedInv' /\ EndedInv' /\ InLedgerInv' /\ CancelInv'
  BY DEF RoleInv, FeedInv, EndedInv, InLedgerInv, CancelInv
<1>4. WriterInv'
  BY DEF WriterInv, RoleInv, FlagTypes, DataTypes
<1>5. DocInv'
  BY DEF DocInv, RoleInv, WriterInv
<1>6. OutcomeInv' /\ StoredTrue'
  BY DEF OutcomeInv, StoredTrue, DocInv
<1>7. DataTypes'
  BY FlushEndTypes
<1>8. QED
  BY <1>1, <1>2, <1>3, <1>4, <1>5, <1>6, <1>7

\* The events of the answer.
LEMMA SnapshotKeeps == ASSUME LedgerInv, NEW t \in Pollers, Snapshot(t) PROVE LedgerInv'
<1> USE DEF LedgerInv, Snapshot
<1>1. FlagTypes'
  BY Zenon DEF FlagTypes
<1>2. DataTypes'
  BY DEF DataTypes
<1>3. LockInv' /\ RoleInv' /\ BeforeInv' /\ EngineInv' /\ FeedInv' /\ PlaceInv' /\
      ReadingInv' /\ EndedInv' /\ ClaimInv' /\ WriterInv' /\ DocInv' /\ OutcomeInv' /\
      InLedgerInv' /\ CancelInv' /\ StoredTrue' /\ CancelTruthful'
  BY DEF LockInv, RoleInv, BeforeInv, EngineInv, FeedInv, PlaceInv, ReadingInv,
       EndedInv, ClaimInv, WriterInv, DocInv, OutcomeInv, InLedgerInv, CancelInv,
       StoredTrue, CancelTruthful
<1>4. QED
  BY <1>1, <1>2, <1>3

\* Its status.
LEMMA ReadStatusKeeps == ASSUME LedgerInv, NEW t \in Pollers, ReadStatus(t) PROVE LedgerInv'
<1> USE DEF LedgerInv, ReadStatus
<1>1. FlagTypes'
  BY Zenon DEF FlagTypes
<1>2. DataTypes'
  BY DEF DataTypes
<1>3. LockInv' /\ RoleInv' /\ BeforeInv' /\ EngineInv' /\ FeedInv' /\ PlaceInv' /\
      ReadingInv' /\ EndedInv' /\ ClaimInv' /\ WriterInv' /\ DocInv' /\ OutcomeInv' /\
      InLedgerInv' /\ CancelInv' /\ StoredTrue'
  BY DEF LockInv, RoleInv, BeforeInv, EngineInv, FeedInv, PlaceInv, ReadingInv,
       EndedInv, ClaimInv, WriterInv, DocInv, OutcomeInv, InLedgerInv, CancelInv,
       StoredTrue
<1>4. CancelTruthful'
  BY DEF CancelTruthful, FlagTypes, DataTypes
<1>5. QED
  BY <1>1, <1>2, <1>3, <1>4

\* A cancel sees whether the crew has ended.
LEMMA DecideKeeps == ASSUME LedgerInv, NEW t \in Pollers, Decide(t) PROVE LedgerInv'
<1> USE DEF LedgerInv, Decide, Reply
<1>1. FlagTypes'
  BY Zenon DEF FlagTypes
<1>2. DataTypes'
  BY DEF DataTypes
<1>3. LockInv' /\ RoleInv' /\ BeforeInv' /\ EngineInv' /\ FeedInv' /\ PlaceInv' /\
      ReadingInv' /\ ClaimInv' /\ WriterInv' /\ DocInv' /\ OutcomeInv' /\ InLedgerInv' /\
      CancelInv' /\ CancelTruthful'
  BY DEF LockInv, RoleInv, BeforeInv, EngineInv, FeedInv, PlaceInv, ReadingInv,
       ClaimInv, WriterInv, DocInv, OutcomeInv, InLedgerInv, CancelInv, CancelTruthful,
       FlagTypes, DataTypes
<1>4. EndedInv' /\ StoredTrue'
  BY DEF EndedInv, StoredTrue
<1>5. QED
  BY <1>1, <1>2, <1>3, <1>4

\* The engine takes the cancel or refuses it.
LEMMA EngineCancelKeeps == ASSUME LedgerInv, NEW t \in Pollers, EngineCancel(t) PROVE LedgerInv'
<1> USE DEF LedgerInv, EngineCancel
<1>1. FlagTypes'
  BY Zenon DEF FlagTypes
<1>2. DataTypes'
  BY DEF DataTypes
<1>3. LockInv' /\ RoleInv' /\ BeforeInv' /\ EngineInv' /\ FeedInv' /\ PlaceInv' /\
      ReadingInv' /\ ClaimInv' /\ WriterInv' /\ DocInv' /\ OutcomeInv' /\ InLedgerInv' /\
      CancelInv' /\ CancelTruthful'
  BY DEF LockInv, RoleInv, BeforeInv, EngineInv, FeedInv, PlaceInv, ReadingInv,
       ClaimInv, WriterInv, DocInv, OutcomeInv, InLedgerInv, CancelInv, CancelTruthful,
       FlagTypes, DataTypes
<1>4. EndedInv' /\ StoredTrue'
  BY DEF EndedInv, StoredTrue
<1>5. QED
  BY <1>1, <1>2, <1>3, <1>4

\* It sees again after the engine refused it.
LEMMA DecideAgainKeeps == ASSUME LedgerInv, NEW t \in Pollers, DecideAgain(t) PROVE LedgerInv'
<1> USE DEF LedgerInv, DecideAgain, Reply
<1>1. FlagTypes'
  BY Zenon DEF FlagTypes
<1>2. DataTypes'
  BY DEF DataTypes
<1>3. LockInv' /\ RoleInv' /\ BeforeInv' /\ EngineInv' /\ FeedInv' /\ PlaceInv' /\
      ReadingInv' /\ EndedInv' /\ ClaimInv' /\ WriterInv' /\ DocInv' /\ OutcomeInv' /\
      InLedgerInv' /\ CancelInv' /\ StoredTrue'
  BY DEF LockInv, RoleInv, BeforeInv, EngineInv, FeedInv, PlaceInv, ReadingInv,
       EndedInv, ClaimInv, WriterInv, DocInv, OutcomeInv, InLedgerInv, CancelInv,
       StoredTrue
<1>4. CancelTruthful'
  BY DEF CancelTruthful, CancelInv, FlagTypes, DataTypes
<1>5. QED
  BY <1>1, <1>2, <1>3, <1>4

\* The latch of a cancel keeps the types.
LEMMA CancelLatchTypes == ASSUME LedgerInv, NEW t \in Pollers, CancelLatch(t) PROVE DataTypes'
<1>1. LatchUnwritten("CANCELLED", FALSE)
  BY DEF CancelLatch
<1>2. status' \in Statuses /\ pending' \subseteq Owed \cup {"WRITING"} /\ returned' \in 0 .. 1
  BY <1>1, LatchTypes DEF LedgerInv
<1>3. QED
  BY <1>2 DEF LedgerInv, DataTypes, CancelLatch

\* A cancel the engine took is latched.
LEMMA CancelLatchKeeps == ASSUME LedgerInv, NEW t \in Pollers, CancelLatch(t) PROVE LedgerInv'
<1> USE DEF LedgerInv, CancelLatch, LatchUnwritten, TakesResults, Upgraded
<1>1. FlagTypes'
  BY Zenon DEF FlagTypes
<1>2. LockInv' /\ RoleInv' /\ BeforeInv' /\ EngineInv' /\ FeedInv' /\ PlaceInv' /\
      ReadingInv' /\ InLedgerInv' /\ CancelInv' /\ CancelTruthful'
  BY DEF LockInv, RoleInv, BeforeInv, EngineInv, FeedInv, PlaceInv, ReadingInv,
       InLedgerInv, CancelInv, CancelTruthful
<1>3. EndedInv' /\ ClaimInv' /\ WriterInv'
  BY DEF EndedInv, ClaimInv, WriterInv, FlagTypes, DataTypes
<1>4. DocInv'
  BY DEF DocInv, FlagTypes, DataTypes, WriterInv
<1>5. OutcomeInv'
  BY DEF OutcomeInv, StoredTrue
<1>6. StoredTrue'
  BY DEF StoredTrue, OutcomeInv, FlagTypes, DataTypes
<1>7. DataTypes'
  BY CancelLatchTypes
<1>8. QED
  BY <1>1, <1>2, <1>3, <1>4, <1>5, <1>6, <1>7

\* It reports what the entry says.
LEMMA ConfirmKeeps == ASSUME LedgerInv, NEW t \in Pollers, Confirm(t) PROVE LedgerInv'
<1> USE DEF LedgerInv, Confirm, Reply
<1>1. FlagTypes'
  BY Zenon DEF FlagTypes
<1>2. DataTypes'
  BY DEF DataTypes
<1>3. LockInv' /\ RoleInv' /\ BeforeInv' /\ EngineInv' /\ FeedInv' /\ PlaceInv' /\
      ReadingInv' /\ EndedInv' /\ ClaimInv' /\ WriterInv' /\ DocInv' /\ OutcomeInv' /\
      InLedgerInv' /\ CancelInv' /\ StoredTrue'
  BY DEF LockInv, RoleInv, BeforeInv, EngineInv, FeedInv, PlaceInv, ReadingInv,
       EndedInv, ClaimInv, WriterInv, DocInv, OutcomeInv, InLedgerInv, CancelInv,
       StoredTrue
<1>4. CancelTruthful'
  BY DEF CancelTruthful, CancelInv, FlagTypes, DataTypes
<1>5. QED
  BY <1>1, <1>2, <1>3, <1>4

\* The request ends.
LEMMA ReturnKeeps == ASSUME LedgerInv, NEW t \in Pollers, Return(t) PROVE LedgerInv'
<1> USE DEF LedgerInv, Return
<1>1. FlagTypes'
  BY Zenon DEF FlagTypes
<1>2. DataTypes'
  BY DEF DataTypes
<1>3. LockInv' /\ RoleInv' /\ BeforeInv' /\ EngineInv' /\ FeedInv' /\ PlaceInv' /\
      ReadingInv' /\ EndedInv' /\ ClaimInv' /\ WriterInv' /\ DocInv' /\ OutcomeInv' /\
      InLedgerInv' /\ StoredTrue' /\ CancelTruthful'
  BY DEF LockInv, RoleInv, BeforeInv, EngineInv, FeedInv, PlaceInv, ReadingInv,
       EndedInv, ClaimInv, WriterInv, DocInv, OutcomeInv, InLedgerInv, StoredTrue,
       CancelTruthful
<1>4. CancelInv'
  BY DEF CancelInv, FlagTypes, DataTypes
<1>5. QED
  BY <1>1, <1>2, <1>3, <1>4

\* The runner starts.
LEMMA EngineStartKeeps == ASSUME LedgerInv, EngineStart PROVE LedgerInv'
<1> USE DEF LedgerInv, EngineStart
<1>1. FlagTypes'
  BY Zenon DEF FlagTypes
<1>2. DataTypes'
  BY DEF DataTypes
<1>3. LockInv' /\ RoleInv' /\ BeforeInv' /\ EngineInv' /\ FeedInv' /\ PlaceInv' /\
      ReadingInv' /\ EndedInv' /\ ClaimInv' /\ WriterInv' /\ DocInv' /\ OutcomeInv' /\
      InLedgerInv' /\ CancelInv' /\ StoredTrue' /\ CancelTruthful'
  BY DEF LockInv, RoleInv, BeforeInv, EngineInv, FeedInv, PlaceInv, ReadingInv,
       EndedInv, ClaimInv, WriterInv, DocInv, OutcomeInv, InLedgerInv, CancelInv,
       StoredTrue, CancelTruthful
<1>4. QED
  BY <1>1, <1>2, <1>3

\* It publishes an event.
LEMMA EnginePublishKeeps == ASSUME LedgerInv, EnginePublish PROVE LedgerInv'
<1> USE DEF LedgerInv, EnginePublish
<1>1. FlagTypes'
  BY Zenon DEF FlagTypes
<1>2. DataTypes'
  BY DEF DataTypes
<1>3. LockInv' /\ RoleInv' /\ BeforeInv' /\ EngineInv' /\ PlaceInv' /\ ReadingInv' /\
      EndedInv' /\ ClaimInv' /\ WriterInv' /\ DocInv' /\ OutcomeInv' /\ InLedgerInv' /\
      CancelInv' /\ StoredTrue' /\ CancelTruthful'
  BY DEF LockInv, RoleInv, BeforeInv, EngineInv, PlaceInv, ReadingInv, EndedInv,
       ClaimInv, WriterInv, DocInv, OutcomeInv, InLedgerInv, CancelInv, StoredTrue,
       CancelTruthful
<1>4. FeedInv'
  BY DEF FeedInv, EngineInv
<1>5. QED
  BY <1>1, <1>2, <1>3, <1>4

\* It publishes crew_completed.
LEMMA EngineCompleteKeeps == ASSUME LedgerInv, EngineComplete PROVE LedgerInv'
<1> USE DEF LedgerInv, EngineComplete
<1>1. FlagTypes'
  BY Zenon DEF FlagTypes
<1>2. DataTypes'
  BY DEF DataTypes
<1>3. LockInv' /\ RoleInv' /\ BeforeInv' /\ EngineInv' /\ PlaceInv' /\ ReadingInv' /\
      EndedInv' /\ ClaimInv' /\ WriterInv' /\ DocInv' /\ OutcomeInv' /\ InLedgerInv' /\
      CancelInv' /\ StoredTrue' /\ CancelTruthful'
  BY DEF LockInv, RoleInv, BeforeInv, EngineInv, PlaceInv, ReadingInv, EndedInv,
       ClaimInv, WriterInv, DocInv, OutcomeInv, InLedgerInv, CancelInv, StoredTrue,
       CancelTruthful
<1>4. FeedInv'
  BY DEF FeedInv, EngineInv
<1>5. QED
  BY <1>1, <1>2, <1>3, <1>4

\* It records the final state.
LEMMA EngineRecordKeeps == ASSUME LedgerInv, EngineRecord PROVE LedgerInv'
<1> USE DEF LedgerInv, EngineRecord
<1>1. FlagTypes'
  BY Zenon DEF FlagTypes
<1>2. DataTypes'
  BY DEF DataTypes
<1>3. LockInv' /\ RoleInv' /\ BeforeInv' /\ EngineInv' /\ FeedInv' /\ PlaceInv' /\
      EndedInv' /\ WriterInv' /\ DocInv' /\ OutcomeInv' /\ InLedgerInv' /\ StoredTrue'
  BY DEF LockInv, RoleInv, BeforeInv, EngineInv, FeedInv, PlaceInv, EndedInv, WriterInv,
       DocInv, OutcomeInv, InLedgerInv, StoredTrue
<1>4. ReadingInv'
  BY DEF ReadingInv, BeforeInv, ClaimInv, EngineInv, FeedInv
<1>5. ClaimInv'
  BY DEF ClaimInv, BeforeInv, EngineInv, FeedInv
<1>6. CancelInv' /\ CancelTruthful'
  BY DEF CancelInv, CancelTruthful, EngineInv
<1>7. QED
  BY <1>1, <1>2, <1>3, <1>4, <1>5, <1>6

\* It closes the channel.
LEMMA EngineCloseKeeps == ASSUME LedgerInv, EngineClose PROVE LedgerInv'
<1> USE DEF LedgerInv, EngineClose
<1>1. FlagTypes'
  BY Zenon DEF FlagTypes
<1>2. DataTypes'
  BY DEF DataTypes
<1>3. LockInv' /\ RoleInv' /\ BeforeInv' /\ EngineInv' /\ FeedInv' /\ PlaceInv' /\
      ReadingInv' /\ EndedInv' /\ ClaimInv' /\ WriterInv' /\ DocInv' /\ OutcomeInv' /\
      InLedgerInv' /\ CancelInv' /\ StoredTrue' /\ CancelTruthful'
  BY DEF LockInv, RoleInv, BeforeInv, EngineInv, FeedInv, PlaceInv, ReadingInv,
       EndedInv, ClaimInv, WriterInv, DocInv, OutcomeInv, InLedgerInv, CancelInv,
       StoredTrue, CancelTruthful
<1>4. QED
  BY <1>1, <1>2, <1>3

\* It ends on the arm that records nothing.
LEMMA EngineErrorKeeps == ASSUME LedgerInv, EngineError PROVE LedgerInv'
<1> USE DEF LedgerInv, EngineError
<1>1. FlagTypes'
  BY Zenon DEF FlagTypes
<1>2. DataTypes'
  BY DEF DataTypes
<1>3. LockInv' /\ RoleInv' /\ BeforeInv' /\ EngineInv' /\ FeedInv' /\ PlaceInv' /\
      ReadingInv' /\ EndedInv' /\ ClaimInv' /\ WriterInv' /\ DocInv' /\ OutcomeInv' /\
      InLedgerInv' /\ CancelInv' /\ StoredTrue' /\ CancelTruthful'
  BY DEF LockInv, RoleInv, BeforeInv, EngineInv, FeedInv, PlaceInv, ReadingInv,
       EndedInv, ClaimInv, WriterInv, DocInv, OutcomeInv, InLedgerInv, CancelInv,
       StoredTrue, CancelTruthful
<1>4. QED
  BY <1>1, <1>2, <1>3

\* The registry drops a crew that has ended.
LEMMA EngineEvictKeeps == ASSUME LedgerInv, EngineEvict PROVE LedgerInv'
<1> USE DEF LedgerInv, EngineEvict
<1>1. FlagTypes'
  BY Zenon DEF FlagTypes
<1>2. DataTypes'
  BY DEF DataTypes
<1>3. LockInv' /\ RoleInv' /\ BeforeInv' /\ EngineInv' /\ FeedInv' /\ PlaceInv' /\
      ReadingInv' /\ EndedInv' /\ ClaimInv' /\ WriterInv' /\ DocInv' /\ OutcomeInv' /\
      InLedgerInv' /\ CancelInv' /\ StoredTrue' /\ CancelTruthful'
  BY DEF LockInv, RoleInv, BeforeInv, EngineInv, FeedInv, PlaceInv, ReadingInv,
       EndedInv, ClaimInv, WriterInv, DocInv, OutcomeInv, InLedgerInv, CancelInv,
       StoredTrue, CancelTruthful
<1>4. QED
  BY <1>1, <1>2, <1>3

\* The ledger makes room.
LEMMA EvictKeeps == ASSUME LedgerInv, Evict PROVE LedgerInv'
<1> USE DEF LedgerInv, Evict, Evictable
<1>1. FlagTypes'
  BY Zenon DEF FlagTypes
<1>2. DataTypes'
  BY DEF DataTypes
<1>3. LockInv' /\ RoleInv' /\ BeforeInv' /\ EngineInv' /\ FeedInv' /\ PlaceInv' /\
      ReadingInv' /\ EndedInv' /\ ClaimInv' /\ WriterInv' /\ DocInv' /\ OutcomeInv' /\
      InLedgerInv' /\ CancelInv' /\ StoredTrue' /\ CancelTruthful'
  BY DEF LockInv, RoleInv, BeforeInv, EngineInv, FeedInv, PlaceInv, ReadingInv,
       EndedInv, ClaimInv, WriterInv, DocInv, OutcomeInv, InLedgerInv, CancelInv,
       StoredTrue, CancelTruthful
<1>4. QED
  BY <1>1, <1>2, <1>3

\* A step that changes nothing keeps it.
LEMMA StutterKeeps == LedgerInv /\ UNCHANGED vars => LedgerInv'
<1> SUFFICES ASSUME LedgerInv, UNCHANGED vars PROVE LedgerInv'
  OBVIOUS
<1> USE DEF LedgerInv, vars
<1>1. FlagTypes'
  BY Zenon DEF FlagTypes
<1>2. DataTypes'
  BY DEF DataTypes
<1>3. LockInv' /\ RoleInv' /\ BeforeInv' /\ EngineInv' /\ FeedInv' /\ PlaceInv'
  BY DEF LockInv, RoleInv, BeforeInv, EngineInv, FeedInv, PlaceInv
<1>4. ReadingInv' /\ EndedInv' /\ ClaimInv'
  BY DEF ReadingInv, EndedInv, ClaimInv
<1>5. WriterInv' /\ DocInv' /\ OutcomeInv' /\ StoredTrue'
  BY DEF WriterInv, DocInv, OutcomeInv, StoredTrue
<1>6. InLedgerInv' /\ CancelInv' /\ CancelTruthful'
  BY DEF InLedgerInv, CancelInv, CancelTruthful
<1>7. QED
  BY <1>1, <1>2, <1>3, <1>4, <1>5, <1>6

\* What a thread's step of a refresh and of a request is made of.
LEMMA CollectKeeps == ASSUME LedgerInv, NEW t \in Threads, Collect(t) PROVE LedgerInv'
  BY FirstDrainBeginKeeps, FirstDrainEndKeeps, ReadEngineKeeps, NoteKeeps, LatchKeeps,
     CheckKeeps, SecondDrainBeginKeeps, SecondDrainEndKeeps, RetireClaimKeeps, ForgetKeeps
  DEF Collect

LEMMA FlushKeeps == ASSUME LedgerInv, NEW t \in Threads, Flush(t) PROVE LedgerInv'
  BY FlushBeginKeeps, BuildKeeps, SaveKeeps, FlushEndKeeps DEF Flush

LEMMA RequestKeeps == ASSUME LedgerInv, NEW t \in Pollers, Request(t) PROVE LedgerInv'
  BY SnapshotKeeps, ReadStatusKeeps, DecideKeeps, EngineCancelKeeps, DecideAgainKeeps,
     CancelLatchKeeps, ConfirmKeeps, ReturnKeeps
  DEF Request

\* Every step keeps the inductive invariant.
LEMMA LedgerInvStep == LedgerInv /\ [Next]_vars => LedgerInv'
<1> SUFFICES ASSUME LedgerInv, [Next]_vars PROVE LedgerInv'
  OBVIOUS
<1>1. CASE Submit
  BY <1>1, EngineSubmitKeeps, RecordKeeps, StartFailedKeeps, MarkInflightKeeps,
     HoldAdmissionKeeps
  DEF Submit
<1>2. CASE Engine
  BY <1>2, EngineStartKeeps, EnginePublishKeeps, EngineCompleteKeeps, EngineRecordKeeps,
     EngineCloseKeeps, EngineErrorKeeps, EngineEvictKeeps
  DEF Engine
<1>3. CASE Evict \/ Sweep \/ FlushSkip
  BY <1>3, EvictKeeps, SweepKeeps, FlushSkipKeeps
<1>4. ASSUME NEW t \in Pollers, Poll(t) \/ Cancel(t) \/ Request(t) PROVE LedgerInv'
  BY <1>4, PollKeeps, CancelKeeps, RequestKeeps
<1>5. ASSUME NEW t \in Threads, Collect(t) \/ Flush(t) PROVE LedgerInv'
  BY <1>5, CollectKeeps, FlushKeeps
<1>6. CASE UNCHANGED vars
  BY <1>6, StutterKeeps
<1>7. QED
  BY <1>1, <1>2, <1>3, <1>4, <1>5, <1>6 DEF Next

LEMMA LedgerInvHolds == Spec => []LedgerInv
  BY LedgerInvInit, LedgerInvStep, PTL DEF Spec

----------------------------------------------------------------------------
(* What follows from the invariant                                          *)

\* Every variable keeps its type, and the place is given back once at most.
THEOREM LedgerTypes == Spec => []TypeOK
<1>1. LedgerInv => TypeOK
  <2> SUFFICES ASSUME FlagTypes, DataTypes PROVE TypeOK
    BY DEF LedgerInv
  <2>1. QED
    BY Zenon DEF FlagTypes, DataTypes, TypeOK
<1>2. QED
  BY <1>1, LedgerInvHolds, PTL

\* The tenant's place comes back exactly once, whatever latches the end of the crew and
\* whenever the submission says that the crew holds it (agnostic_tenant_crew_ended).
THEOREM PlaceComesBackOnce == Spec => []PlaceBackOnce
<1>1. LedgerInv => PlaceBackOnce
  BY DEF LedgerInv, PlaceInv
<1>2. QED
  BY <1>1, LedgerInvHolds, PTL

\* No event published before the close is lost, whoever drained it (drain_a).
THEOREM FeedReadToItsEnd == Spec => []FeedWhole
<1>1. LedgerInv => FeedWhole
  BY DEF LedgerInv, FeedInv, BeforeInv, FeedWhole
<1>2. QED
  BY <1>1, LedgerInvHolds, PTL

\* What the store has of the crew is true, and it has something of it once the crew is
\* accepted, unless a write failed (agnostic_ledger_flush_a, agnostic_ledger_mark_inflight).
THEOREM StoreTrue == Spec => []DurableTrue
<1>1. LedgerInv => DurableTrue
  BY DEF LedgerInv, OutcomeInv, DurableTrue, AcceptedDurable
<1>2. QED
  BY <1>1, LedgerInvHolds, PTL

\* A crew leaves the ledger or the engine's registry only when what it ended with is held
\* elsewhere, and one the engine has lost stays (_agnostic_ledger_evictable_locked,
\* _agnostic_crew_retire_a).
THEOREM NothingIsForgotten == Spec => []NothingForgotten
<1>1. LedgerInv => NothingForgotten
  <2> SUFFICES ASSUME LedgerInv PROVE NothingForgotten
    OBVIOUS
  <2> USE DEF LedgerInv
  <2>1. EvictableStored
    <3> SUFFICES ASSUME Evictable, ~failed PROVE outcome = [st |-> status, res |-> results]
      BY DEF EvictableStored
    <3>1. outcome # Absent
      BY DEF Evictable, OutcomeInv
    <3>2. outcome.st = status /\ outcome.res = results
      BY <3>1 DEF StoredTrue, Evictable
    <3>3. outcome = [st |-> outcome.st, res |-> outcome.res]
      BY DEF DataTypes
    <3>4. QED
      BY <3>2, <3>3
  <2>2. ForgottenKept
    BY DEF ForgottenKept, ClaimInv
  <2>3. LostHeld
    BY DEF LostHeld, InLedgerInv, BeforeInv, StoredTrue, OutcomeInv, EngineInv
  <2>4. QED
    BY <2>1, <2>2, <2>3 DEF NothingForgotten
<1>2. QED
  BY <1>1, LedgerInvHolds, PTL

\* A cancel answers what it did, and none says that the engine does not know a crew it
\* still holds (agnostic_route_crew_cancel).
THEOREM CancelTellsTruth == Spec => []CancelTruthful
<1>1. LedgerInv => CancelTruthful
  BY DEF LedgerInv
<1>2. QED
  BY <1>1, LedgerInvHolds, PTL

\* Only the steps that record, latch or start the crew touch what the entry says.
LEMMA SaysTheSame ==
  ASSUME [Next]_vars, ~Record, ~StartFailed,
         \A t \in Threads : ~Latch(t), \A t \in Pollers : ~CancelLatch(t)
  PROVE  UNCHANGED <<status, results>>
<1>1. CASE Submit
  BY <1>1 DEF Submit, EngineSubmit, MarkInflight, HoldAdmission
<1>2. CASE Engine
  BY <1>2 DEF Engine, EngineStart, EnginePublish, EngineComplete, EngineRecord, EngineClose,
              EngineError, EngineEvict
<1>3. CASE Evict \/ Sweep \/ FlushSkip
  BY <1>3 DEF Evict, Sweep, Lookup, FlushSkip
<1>4. ASSUME NEW t \in Pollers, Poll(t) \/ Cancel(t) \/ Request(t)
      PROVE  UNCHANGED <<status, results>>
  BY <1>4 DEF Poll, Cancel, Lookup, Request, Snapshot, ReadStatus, Decide, EngineCancel,
              DecideAgain, Confirm, Return
<1>5. ASSUME NEW t \in Threads, Collect(t) PROVE UNCHANGED <<status, results>>
  BY <1>5 DEF Collect, FirstDrainBegin, FirstDrainEnd, SecondDrainBegin, SecondDrainEnd,
              DrainBegin, DrainEnd, ReadEngine, Note, Check, RetireClaim, Forget
<1>6. ASSUME NEW t \in Threads, Flush(t) PROVE UNCHANGED <<status, results>>
  BY <1>6 DEF Flush, FlushBegin, Build, Save, FlushEnd
<1>7. CASE UNCHANGED vars
  BY <1>7 DEF vars
<1>8. QED
  BY <1>1, <1>2, <1>3, <1>4, <1>5, <1>6, <1>7 DEF Next

\* Whatever stale readings a poll, a cancel and the collector latch over each other, a
\* crew never goes back, keeps the status it ended with, and changes its results once at
\* most (_agnostic_ledger_latch_locked).
THEOREM NothingGoesBack == Spec => NeverBack
<1> DEFINE Forward == /\ status' = "PENDING" /\ status # "PENDING" => ~started
                      /\ status \in Terminal => status' = status
                      /\ results' # results => results' /\ status' \in Terminal
                      /\ status \in Terminal /\ results' # results => status = "CANCELLED"
<1>1. LedgerInv /\ [Next]_vars => Forward
  <2> SUFFICES ASSUME LedgerInv, [Next]_vars PROVE Forward
    OBVIOUS
  <2> USE DEF LedgerInv
  <2>1. CASE Record
    BY <2>1 DEF Record, BeforeInv
  <2>2. CASE StartFailed
    BY <2>2 DEF StartFailed, LatchUnwritten, TakesResults, Upgraded, FlagTypes, DataTypes
  <2>3. ASSUME NEW t \in Threads, Latch(t) PROVE Forward
    BY <2>3 DEF Latch, LatchUnwritten, latched, TakesResults, Upgraded, ReadingInv, FlagTypes,
                DataTypes
  <2>4. ASSUME NEW t \in Pollers, CancelLatch(t) PROVE Forward
    BY <2>4 DEF CancelLatch, LatchUnwritten, TakesResults, Upgraded, FlagTypes, DataTypes
  <2>5. CASE UNCHANGED <<status, results>>
    BY <2>5
  <2>6. QED
    BY <2>1, <2>2, <2>3, <2>4, <2>5, SaysTheSame
<1>2. QED
  BY <1>1, LedgerInvHolds, PTL DEF Spec, NeverBack
=============================================================================
