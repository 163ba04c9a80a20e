-------------------------- MODULE CrewStoreProofs --------------------------
(***************************************************************************)
(* The four tables of engine/crewstore.cyr implement CrewPromise, for any  *)
(* number of crews, tasks and stops, and whichever statements fail.        *)
(*                                                                         *)
(* Each statement must be an action of the promise or a stutter.  Two of   *)
(* them need to know what happened earlier: an interruption writes what    *)
(* the sweep read from the partials before its statement, and a second     *)
(* write of an outcome must meet a cancelled crew without results.  The    *)
(* invariant ties the statement in hand to the crew's life in memory       *)
(* (CallInv), and says that results which are not on disk yet find there   *)
(* an outcome without any (LateInv).                                       *)
(***************************************************************************)
EXTENDS CrewStore, TLAPS

CancelledEmpty == [st |-> "CANCELLED", res |-> {}]

\* A crew the store has heard nothing of has no outcome; what is owed says which life.
LifeInv ==
  \A c \in Crews :
    /\ life[c] \in {"new", "running"} => ~Stored(c)
    /\ life[c] = "new" => c \notin inflight
    /\ owed[c] # {} => life[c] \in Ended \cup {"running"}
    /\ "OUTCOME" \in owed[c] => life[c] \in Ended
    /\ "RESULTS" \in owed[c] => life[c] = "CANCELLED" /\ results[c] # {}

\* Before it serves, a process has no crew of its own, and the rows still to be swept
\* are rows.
MountInv ==
  up = "mount" =>
    /\ \A c \in Crews : life[c] \in {"new", "dead"}
    /\ todo \subseteq inflight
    /\ call # Idle => call.c \notin todo

\* The statement in hand is about a crew that ended, here or with the last process.
CallInv ==
  call # Idle =>
    /\ life[call.c] \in Ended \cup {"dead"}
    /\ up = "serving" => life[call.c] \in Ended
    /\ call.at = "outcome" =>
         \/ up = "mount" /\ call.doc = Interrupted(call.c) /\ call.c \in inflight
         \/ up = "serving" /\ call.doc.st = life[call.c]
    /\ call.at = "update" => outcome[call.c] = CancelledEmpty /\ call.doc.st = "CANCELLED"
    /\ call.at \in {"index", "repair", "inflight", "partials"} => Stored(call.c)

\* While a cancelled crew's results are still to come or to be written, its outcome, on
\* disk or in hand, has none.
LateInv ==
  \A c \in Crews :
    life[c] = "CANCELLED" /\ (results[c] = {} \/ "RESULTS" \in owed[c]) =>
      /\ Stored(c) => outcome[c] = CancelledEmpty
      /\ call # Idle /\ call.c = c =>
           call.at # "update" /\ (call.at = "outcome" => call.doc = CancelledEmpty)

\* No answer is kept beside a row that is not there.
PartialsInv == \A c \in Crews : ~Stored(c) /\ c \notin inflight => partials[c] = {}

StoreInv ==
  TypeOK /\ LifeInv /\ MountInv /\ CallInv /\ LateInv /\ PartialsInv /\ InterruptedHonest

----------------------------------------------------------------------------

LEMMA StoreInvInit == Init => StoreInv
<1> SUFFICES ASSUME Init PROVE StoreInv
  OBVIOUS
<1>1. TypeOK
  BY StoreOptions DEF Init, TypeOK
<1>2. \A c \in Crews : ~Stored(c) /\ outcome[c] = NoDoc
  BY DEF Init, Stored
<1>3. LifeInv /\ MountInv /\ CallInv
  BY <1>2 DEF Init, LifeInv, MountInv, CallInv
<1>4. LateInv /\ PartialsInv /\ InterruptedHonest
  BY <1>2 DEF Init, LateInv, PartialsInv, InterruptedHonest, NoDoc
<1> QED
  BY <1>1, <1>3, <1>4 DEF StoreInv

\* A statement in hand names its step, its crew and its document.
LEMMA CallFields ==
  ASSUME TypeOK
  PROVE  /\ call = Idle <=> call.at = "idle"
         /\ call # Idle => call \in [at : Steps, c : Crews, doc : Docs]
BY DEF TypeOK, Idle, Steps

LEMMA AcceptKeeps == ASSUME StoreInv, NEW c \in Crews, Accept(c) PROVE StoreInv'
<1> USE DEF StoreInv
<1>1. TypeOK'
  BY DEF TypeOK, Accept, diskVars, history, Ended
<1>2. /\ outcome' = outcome /\ inflight' = inflight /\ partials' = partials
      /\ results' = results /\ call' = call /\ up' = up /\ todo' = todo
      /\ up = "serving" /\ life[c] = "new"
      /\ life' = [life EXCEPT ![c] = "running"] /\ owed' = [owed EXCEPT ![c] = {"MARK"}]
      /\ life \in [Crews -> Ended \cup {"new", "running", "dead"}]
      /\ owed \in [Crews -> SUBSET {"MARK", "OUTCOME", "RESULTS"}]
  BY DEF Accept, diskVars, TypeOK
<1>3. LifeInv'
  BY <1>2 DEF LifeInv, Stored
<1>4. MountInv' /\ PartialsInv' /\ InterruptedHonest'
  BY <1>2 DEF MountInv, PartialsInv, InterruptedHonest, Stored, LifeInv, NoDoc
<1>5. CallInv'
  BY <1>2 DEF CallInv, Stored, Interrupted, Ended
<1>6. LateInv'
  BY <1>2 DEF LateInv, Stored
<1> QED
  BY <1>1, <1>3, <1>4, <1>5, <1>6

\* A drained answer waits to be kept; nothing of it is on disk.
LEMMA AnswerKeeps ==
  ASSUME StoreInv, NEW c \in Crews, NEW k \in Tasks, Answer(c, k) PROVE StoreInv'
<1> USE DEF StoreInv
<1>1. TypeOK'
  BY DEF TypeOK, Answer, diskVars, history
<1>2. UNCHANGED <<diskVars, life, results, owed, call, up, todo>>
  BY DEF Answer
<1> QED
  BY <1>1, <1>2 DEF diskVars, LifeInv, MountInv, CallInv, LateInv, PartialsInv,
                    InterruptedHonest, Stored, Interrupted

\* A running crew ends; it has nothing on disk but its row.
LEMMA EndKeeps == ASSUME StoreInv, NEW c \in Crews, End(c) PROVE StoreInv'
<1> USE DEF StoreInv
<1>1. PICK s \in Ended, r \in {{}, answers[c]} :
        /\ life' = [life EXCEPT ![c] = s] /\ results' = [results EXCEPT ![c] = r]
        /\ s = "CANCELLED" => r = {}
  BY DEF End
<1>2. /\ UNCHANGED <<outcome, listed, inflight, partials, answers, toKeep, up, todo, call,
                     crashes, marked, offered>>
      /\ life[c] = "running" /\ owed' = [owed EXCEPT ![c] = @ \cup {"OUTCOME"}]
      /\ life \in [Crews -> Ended \cup {"new", "running", "dead"}]
      /\ results \in [Crews -> SUBSET Tasks] /\ answers \in [Crews -> SUBSET Tasks]
      /\ owed \in [Crews -> SUBSET {"MARK", "OUTCOME", "RESULTS"}]
  BY DEF End, diskVars, history, TypeOK
<1>3. TypeOK'
  BY <1>1, <1>2 DEF TypeOK
<1>4. ~Stored(c) /\ (call # Idle => call.c # c) /\ "RESULTS" \notin owed[c]
  BY <1>2 DEF LifeInv, CallInv, Ended
<1>5. LifeInv'
  BY <1>1, <1>2, <1>4 DEF LifeInv, Stored, Ended
<1>6. MountInv' /\ PartialsInv' /\ InterruptedHonest'
  BY <1>1, <1>2, <1>4 DEF MountInv, PartialsInv, InterruptedHonest, Stored, NoDoc
<1>7. CallInv'
  BY <1>1, <1>2, <1>4 DEF CallInv, Stored, Interrupted
<1>8. LateInv'
  BY <1>1, <1>2, <1>4 DEF LateInv, Stored
<1> QED
  BY <1>3, <1>5, <1>6, <1>7, <1>8

\* A cancelled crew takes its results, which are owed from here.
LEMMA LateResultsKeeps == ASSUME StoreInv, NEW c \in Crews, LateResults(c) PROVE StoreInv'
<1> USE DEF StoreInv
<1>1. /\ UNCHANGED <<outcome, listed, inflight, partials, life, answers, toKeep, up, todo,
                     call, crashes, marked, offered>>
      /\ life[c] = "CANCELLED" /\ results[c] = {} /\ answers[c] # {}
      /\ results' = [results EXCEPT ![c] = answers[c]]
      /\ owed' = [owed EXCEPT ![c] = @ \cup {"RESULTS"}]
      /\ results \in [Crews -> SUBSET Tasks] /\ answers \in [Crews -> SUBSET Tasks]
      /\ owed \in [Crews -> SUBSET {"MARK", "OUTCOME", "RESULTS"}]
  BY DEF LateResults, diskVars, history, TypeOK
<1>2. TypeOK'
  BY <1>1 DEF TypeOK
<1>3. LifeInv'
  BY <1>1 DEF LifeInv, Stored, Ended
<1>4. MountInv' /\ PartialsInv' /\ InterruptedHonest' /\ CallInv'
  BY <1>1 DEF MountInv, PartialsInv, InterruptedHonest, CallInv, Stored, Interrupted
<1>5. LateInv'
  BY <1>1 DEF LateInv, Stored
<1> QED
  BY <1>2, <1>3, <1>4, <1>5

\* The in-flight row, for a crew that has no outcome.
LEMMA MarkKeeps == ASSUME StoreInv, NEW c \in Crews, Mark(c) PROVE StoreInv'
<1> USE DEF StoreInv
<1>1. /\ UNCHANGED <<outcome, listed, partials, life, answers, results, toKeep, up, todo,
                     call, crashes, offered>>
      /\ up = "serving" /\ call = Idle /\ "MARK" \in owed[c]
      /\ inflight' = inflight \/ inflight' = inflight \cup {c}
      /\ marked' = marked \/ marked' = marked \cup {c}
      /\ owed' = [owed EXCEPT ![c] = @ \ {"MARK"}]
      /\ owed \in [Crews -> SUBSET {"MARK", "OUTCOME", "RESULTS"}]
  BY DEF Mark, Serving, StoreFree, Owes, TypeOK
<1>2. TypeOK'
  BY <1>1 DEF TypeOK
<1>3. LifeInv'
  BY <1>1 DEF LifeInv, Stored, Ended
<1>4. MountInv' /\ InterruptedHonest' /\ CallInv'
  BY <1>1 DEF MountInv, InterruptedHonest, CallInv
<1>5. PartialsInv' /\ LateInv'
  BY <1>1 DEF PartialsInv, LateInv, Stored
<1> QED
  BY <1>2, <1>3, <1>4, <1>5

\* An answer is kept beside a row that is there.
LEMMA SavePartialKeeps ==
  ASSUME StoreInv, NEW c \in Crews, NEW k \in Tasks, SavePartial(c, k) PROVE StoreInv'
<1> USE DEF StoreInv
<1>1. /\ UNCHANGED <<outcome, listed, inflight, life, answers, results, owed, up, todo,
                     call, crashes, marked>>
      /\ call = Idle
      /\ \/ partials' = partials
         \/ partials' = [partials EXCEPT ![c] = @ \cup {k}] /\ ~Stored(c) /\ c \in inflight
      /\ partials \in [Crews -> SUBSET Tasks]
  BY DEF SavePartial, Serving, StoreFree, Keepable, Marked, TypeOK
<1>2. TypeOK'
  BY <1>1 DEF TypeOK, SavePartial
<1>3. LifeInv' /\ MountInv' /\ InterruptedHonest' /\ CallInv'
  BY <1>1 DEF LifeInv, MountInv, InterruptedHonest, CallInv, Stored
<1>4. PartialsInv' /\ LateInv'
  BY <1>1 DEF PartialsInv, LateInv, Stored
<1> QED
  BY <1>2, <1>3, <1>4

\* A flush takes what is owed and goes to its first statement.
LEMMA FlushKeeps == ASSUME StoreInv, NEW c \in Crews, Flush(c) PROVE StoreInv'
<1> USE DEF StoreInv
<1> DEFINE step == IF Owes(c, "OUTCOME") \/ ~Stored(c) THEN "outcome" ELSE "update"
           doc  == [st |-> life[c], res |-> results[c]]
<1>1. /\ UNCHANGED <<outcome, listed, inflight, partials, life, answers, results, toKeep, up,
                     todo, crashes, marked, offered>>
      /\ up = "serving" /\ call = Idle /\ owed[c] \cap {"OUTCOME", "RESULTS"} # {}
      /\ owed' = [owed EXCEPT ![c] = @ \ {"OUTCOME", "RESULTS"}]
      /\ call' = [at |-> step, c |-> c, doc |-> doc]
      /\ life \in [Crews -> Ended \cup {"new", "running", "dead"}]
      /\ results \in [Crews -> SUBSET Tasks]
      /\ owed \in [Crews -> SUBSET {"MARK", "OUTCOME", "RESULTS"}]
  BY DEF Flush, Serving, StoreFree, diskVars, history, TypeOK
<1>2. life[c] \in Ended
  BY <1>1 DEF LifeInv, Ended
<1>3. doc \in Docs /\ doc.st = life[c] /\ doc.res = results[c]
  BY <1>1, <1>2 DEF Docs
<1>4. step \in Steps /\ (step = "outcome" \/ step = "update")
  BY DEF Steps
<1> HIDE DEF doc
<1>5. call' # Idle /\ call'.at = step /\ call'.c = c /\ call'.doc = doc
  <2>1. step # "idle"
    BY DEF Idle
  <2> HIDE DEF step
  <2> QED
    BY <1>1, <2>1 DEF Idle
<1>6. step = "update" => "RESULTS" \in owed[c] /\ Stored(c)
  BY <1>1 DEF Owes
<1>7. "RESULTS" \in owed[c] => life[c] = "CANCELLED" /\ results[c] # {}
  BY DEF LifeInv
<1> HIDE DEF step
<1>8. TypeOK'
  BY <1>1, <1>3, <1>4 DEF TypeOK
<1>9. LifeInv'
  BY <1>1 DEF LifeInv, Stored
<1>10. MountInv' /\ InterruptedHonest' /\ PartialsInv'
  BY <1>1 DEF MountInv, InterruptedHonest, PartialsInv, Stored
<1>11. CallInv'
  <2>1. step = "update" => outcome[c] = CancelledEmpty /\ doc.st = "CANCELLED"
    BY <1>3, <1>6, <1>7 DEF LateInv
  <2> QED
    BY <1>1, <1>2, <1>3, <1>4, <1>5, <2>1 DEF CallInv
<1>12. LateInv'
  <2>1. ASSUME NEW b \in Crews, life[b] = "CANCELLED",
               results[b] = {} \/ "RESULTS" \in owed'[b]
        PROVE  /\ Stored(b) => outcome[b] = CancelledEmpty
               /\ b = c => step # "update" /\ doc = CancelledEmpty
    <3>1. results[b] = {} \/ "RESULTS" \in owed[b]
      BY <1>1, <2>1
    <3>2. b = c => results[c] = {}
      BY <1>1, <2>1
    <3>3. b = c => doc = CancelledEmpty
      BY <2>1, <3>2 DEF doc, CancelledEmpty
    <3> QED
      BY <1>6, <1>7, <2>1, <3>1, <3>2, <3>3 DEF LateInv
  <2> QED
    BY <1>1, <1>5, <2>1 DEF LateInv, Stored
<1> QED
  BY <1>8, <1>9, <1>10, <1>11, <1>12

----------------------------------------------------------------------------
(* The statements                                                           *)

\* What a step of the sequence does to the statement in hand.
LEMMA GoesOn ==
  ASSUME TypeOK, call # Idle, NEW step \in Steps, call' = [call EXCEPT !.at = step]
  PROVE  /\ call' \in [at : Steps, c : Crews, doc : Docs] /\ call' # Idle
         /\ call'.at = step /\ call'.c = call.c /\ call'.doc = call.doc
<1>1. call \in [at : Steps, c : Crews, doc : Docs]
  BY CallFields
<1>2. call' \in [at : Steps, c : Crews, doc : Docs]
  BY <1>1
<1>3. call'.at = step /\ call'.c = call.c /\ call'.doc = call.doc
  BY <1>1
<1>4. call'.at # "idle"
  BY <1>3 DEF Steps
<1> QED
  BY <1>2, <1>3, <1>4 DEF Idle

\* Only a crew without an outcome is given one.
LEMMA InsertOutcomeKeeps == ASSUME StoreInv, InsertOutcome PROVE StoreInv'
<1> USE DEF StoreInv
<1>1. /\ UNCHANGED <<listed, inflight, partials, life, answers, results, owed, toKeep, up,
                     todo, crashes, marked, offered>>
      /\ call.at = "outcome" /\ outcome \in [Crews -> Docs \cup {NoDoc}]
  BY DEF InsertOutcome, Executing, offDisk, memoryVars, history, TypeOK
<1>2. call # Idle /\ call.c \in Crews /\ call.doc \in Docs
  <2>1. call # Idle
    BY <1>1 DEF Idle
  <2> QED
    BY <2>1, CallFields
<1>3. CASE /\ ~Stored(call.c) /\ Then("index")
           /\ outcome' = [outcome EXCEPT ![call.c] = call.doc]
  <2>1. /\ call' \in [at : Steps, c : Crews, doc : Docs] /\ call' # Idle
        /\ call'.at = "index" /\ call'.c = call.c /\ call'.doc = call.doc
    BY <1>2, <1>3, GoesOn DEF Then, Steps
  <2>2. outcome'[call.c] = call.doc /\ \A c \in Crews \ {call.c} : outcome'[c] = outcome[c]
    BY <1>1, <1>2, <1>3
  <2>3. call.doc # NoDoc
    BY <1>2 DEF Docs, NoDoc, Ended
  <2>4. TypeOK'
    BY <1>1, <1>2, <1>3, <2>1 DEF TypeOK
  <2>5. LifeInv'
    BY <1>1, <1>2, <2>2 DEF LifeInv, CallInv, Stored, Ended
  <2>6. MountInv' /\ PartialsInv'
    BY <1>1, <1>2, <2>1, <2>2, <2>3 DEF MountInv, PartialsInv, Stored
  <2>7. CallInv'
    BY <1>1, <1>2, <2>1, <2>2, <2>3 DEF CallInv, Stored
  <2>8. LateInv'
    BY <1>1, <1>2, <2>1, <2>2 DEF LateInv, Stored
  <2>9. InterruptedHonest'
    <3>1. call.doc.st = "INTERRUPTED" => life[call.c] = "dead"
      BY <1>1, <1>2 DEF CallInv, MountInv, Ended
    <3> QED
      BY <1>1, <2>2, <3>1 DEF InterruptedHonest
  <2> QED
    BY <2>4, <2>5, <2>6, <2>7, <2>8, <2>9
<1>4. CASE Done /\ outcome' = outcome
  BY <1>1, <1>4 DEF Done, TypeOK, LifeInv, MountInv, CallInv, LateInv, PartialsInv,
                    InterruptedHonest, Stored
<1> QED
  BY <1>3, <1>4 DEF InsertOutcome

\* A cancelled crew's outcome gets its results.
LEMMA UpdateOutcomeKeeps == ASSUME StoreInv, UpdateOutcome PROVE StoreInv'
<1> USE DEF StoreInv
<1>1. /\ UNCHANGED <<listed, inflight, partials, life, answers, results, owed, toKeep, up,
                     todo, crashes, marked, offered>>
      /\ call.at = "update" /\ outcome \in [Crews -> Docs \cup {NoDoc}]
      /\ call' = Idle
      /\ outcome' = outcome \/ outcome' = [outcome EXCEPT ![call.c] = call.doc]
  BY DEF UpdateOutcome, Executing, Done, offDisk, memoryVars, history, TypeOK
<1>2. call # Idle /\ call.c \in Crews /\ call.doc \in Docs
  <2>1. call # Idle
    BY <1>1 DEF Idle
  <2> QED
    BY <2>1, CallFields
<1>3. outcome[call.c] = CancelledEmpty /\ call.doc.st = "CANCELLED"
  BY <1>1, <1>2 DEF CallInv
<1>4. \A c \in Crews :
        /\ outcome'[c] # NoDoc <=> outcome[c] # NoDoc
        /\ outcome'[c].st = "INTERRUPTED" => outcome[c].st = "INTERRUPTED"
        /\ c # call.c => outcome'[c] = outcome[c]
  BY <1>1, <1>2, <1>3 DEF NoDoc, CancelledEmpty
<1>5. TypeOK'
  BY <1>1, <1>2 DEF TypeOK
<1>6. LifeInv' /\ MountInv' /\ CallInv' /\ PartialsInv' /\ InterruptedHonest'
  BY <1>1, <1>4 DEF LifeInv, MountInv, CallInv, PartialsInv, InterruptedHonest, Stored
<1>7. LateInv'
  BY <1>1, <1>2, <1>4 DEF LateInv, Stored
<1> QED
  BY <1>5, <1>6, <1>7

\* The listing row, written or repaired.
LEMMA ListingKeeps == ASSUME StoreInv, InsertIndex \/ Repair PROVE StoreInv'
<1> USE DEF StoreInv
<1>1. /\ UNCHANGED <<outcome, inflight, partials, life, answers, results, owed, toKeep, up,
                     todo, crashes, marked, offered>>
      /\ call.at = "index" \/ call.at = "repair"
      /\ call' = Idle \/ Then("inflight")
      /\ listed' = listed \/ listed' = listed \cup {call.c}
  BY DEF InsertIndex, Repair, Executing, Done, offDisk, memoryVars, history
<1>2. call # Idle /\ call.c \in Crews
  <2>1. call # Idle
    BY <1>1 DEF Idle
  <2> QED
    BY <2>1, CallFields
<1>3. CASE call' = Idle
  BY <1>1, <1>2, <1>3 DEF TypeOK, LifeInv, MountInv, CallInv, LateInv, PartialsInv,
                    InterruptedHonest, Stored
<1>4. CASE Then("inflight")
  <2>1. /\ call' \in [at : Steps, c : Crews, doc : Docs] /\ call' # Idle
        /\ call'.at = "inflight" /\ call'.c = call.c
    BY <1>2, <1>4, GoesOn DEF Then, Steps
  <2>2. TypeOK'
    BY <1>1, <1>2, <2>1 DEF TypeOK
  <2> QED
    BY <1>1, <1>2, <2>1, <2>2 DEF LifeInv, MountInv, CallInv, LateInv, PartialsInv,
                                  InterruptedHonest, Stored
<1> QED
  BY <1>1, <1>3, <1>4

\* The in-flight row ends: the crew has its outcome.
LEMMA DropInflightKeeps == ASSUME StoreInv, DropInflight PROVE StoreInv'
<1> USE DEF StoreInv
<1>1. /\ UNCHANGED <<outcome, listed, partials, life, answers, results, owed, toKeep, up,
                     todo, crashes, marked, offered>>
      /\ call.at = "inflight" /\ Then("partials")
      /\ inflight' = inflight \/ inflight' = inflight \ {call.c}
  BY DEF DropInflight, Executing, offDisk, memoryVars, history
<1>2. call # Idle /\ call.c \in Crews
  <2>1. call # Idle
    BY <1>1 DEF Idle
  <2> QED
    BY <2>1, CallFields
<1>3. /\ call' \in [at : Steps, c : Crews, doc : Docs] /\ call' # Idle
      /\ call'.at = "partials" /\ call'.c = call.c
  BY <1>1, <1>2, GoesOn DEF Then, Steps
<1>4. Stored(call.c)
  BY <1>1, <1>2 DEF CallInv
<1>5. TypeOK'
  BY <1>1, <1>2, <1>3 DEF TypeOK
<1>6. LifeInv' /\ MountInv'
  BY <1>1, <1>2, <1>3 DEF LifeInv, MountInv, Stored
<1>7. CallInv'
  BY <1>1, <1>2, <1>3, <1>4 DEF CallInv, Stored
<1>8. LateInv' /\ PartialsInv' /\ InterruptedHonest'
  BY <1>1, <1>2, <1>3, <1>4 DEF LateInv, PartialsInv, InterruptedHonest, Stored
<1> QED
  BY <1>5, <1>6, <1>7, <1>8

\* So do the answers kept beside it.
LEMMA DropPartialsKeeps == ASSUME StoreInv, DropPartials PROVE StoreInv'
<1> USE DEF StoreInv
<1>1. /\ UNCHANGED <<outcome, listed, inflight, life, answers, results, owed, toKeep, up,
                     todo, crashes, marked, offered>>
      /\ call.at = "partials" /\ call' = Idle
      /\ partials' = partials \/ partials' = [partials EXCEPT ![call.c] = {}]
      /\ partials \in [Crews -> SUBSET Tasks]
  BY DEF DropPartials, Executing, Done, offDisk, memoryVars, history, TypeOK
<1>2. call.c \in Crews
  BY <1>1, CallFields DEF Idle
<1>3. TypeOK'
  BY <1>1, <1>2 DEF TypeOK
<1>4. LifeInv' /\ MountInv' /\ CallInv' /\ LateInv' /\ InterruptedHonest'
  BY <1>1 DEF LifeInv, MountInv, CallInv, LateInv, InterruptedHonest, Stored
<1>5. PartialsInv'
  BY <1>1, <1>2 DEF PartialsInv, Stored
<1> QED
  BY <1>3, <1>4, <1>5

----------------------------------------------------------------------------
(* Stopping and starting                                                    *)

LEMMA CrashKeeps == ASSUME StoreInv, Crash PROVE StoreInv'
<1> USE DEF StoreInv
<1>1. /\ UNCHANGED <<outcome, listed, inflight, partials, answers, marked, offered>>
      /\ life' = [c \in Crews |-> IF life[c] = "new" THEN "new" ELSE "dead"]
      /\ results' = [c \in Crews |-> {}] /\ owed' = [c \in Crews |-> {}]
      /\ toKeep' = [c \in Crews |-> {}]
      /\ up' = "mount" /\ todo' = inflight /\ call' = Idle
      /\ crashes < MaxCrashes /\ crashes' = crashes + 1
  BY DEF Crash, diskVars, history
<1>2. TypeOK'
  BY <1>1, StoreOptions DEF TypeOK
<1>3. LifeInv' /\ MountInv' /\ CallInv'
  BY <1>1 DEF LifeInv, MountInv, CallInv, Stored
<1>4. LateInv' /\ PartialsInv'
  BY <1>1 DEF LateInv, PartialsInv, Stored
<1>5. InterruptedHonest'
  BY <1>1 DEF InterruptedHonest
<1> QED
  BY <1>2, <1>3, <1>4, <1>5

\* The sweep reads what was kept of a crew, or finds its outcome there.
LEMMA SweepRowKeeps == ASSUME StoreInv, NEW c \in Crews, SweepRow(c) PROVE StoreInv'
<1> USE DEF StoreInv
<1> DEFINE step == IF Stored(c) THEN "repair" ELSE "outcome"
<1>1. /\ UNCHANGED <<outcome, listed, inflight, partials, life, answers, results, owed, toKeep,
                     up, crashes, marked, offered>>
      /\ up = "mount" /\ call = Idle /\ c \in todo /\ todo' = todo \ {c}
      /\ call' = [at |-> step, c |-> c, doc |-> Interrupted(c)]
  BY DEF SweepRow, Sweep, StoreFree, diskVars, memoryVars, history
<1>2. life[c] = "dead" /\ c \in inflight
  BY <1>1 DEF MountInv, LifeInv
<1>3. Interrupted(c) \in Docs
  BY DEF Interrupted, Docs, TypeOK
<1>4. step \in Steps /\ step \in {"repair", "outcome"} /\ (step = "repair" => Stored(c))
  BY DEF Steps
<1> HIDE DEF step
<1>5. call' # Idle /\ call'.at = step /\ call'.c = c /\ call'.doc = Interrupted(c)
  <2>1. step # "idle"
    BY <1>4
  <2> QED
    BY <1>1, <2>1 DEF Idle
<1>6. TypeOK'
  BY <1>1, <1>3, <1>4 DEF TypeOK
<1>7. LifeInv' /\ MountInv' /\ PartialsInv' /\ InterruptedHonest'
  BY <1>1, <1>5 DEF LifeInv, MountInv, PartialsInv, InterruptedHonest, Stored
<1>8. CallInv'
  BY <1>1, <1>2, <1>4, <1>5 DEF CallInv, Stored, Interrupted
<1>9. LateInv'
  BY <1>1, <1>2, <1>5 DEF LateInv, Stored
<1> QED
  BY <1>6, <1>7, <1>8, <1>9

LEMMA ServeKeeps == ASSUME StoreInv, Serve PROVE StoreInv'
<1> USE DEF StoreInv
<1>1. /\ UNCHANGED <<outcome, listed, inflight, partials, life, answers, results, owed, toKeep,
                     todo, call, crashes, marked, offered>>
      /\ up' = "serving" /\ call = Idle
  BY DEF Serve, StoreFree, diskVars, memoryVars, history
<1>2. TypeOK'
  BY <1>1 DEF TypeOK
<1> QED
  BY <1>1, <1>2 DEF LifeInv, MountInv, CallInv, LateInv, PartialsInv, InterruptedHonest, Stored

LEMMA StoreInvStep == StoreInv /\ [Next]_vars => StoreInv'
<1> SUFFICES ASSUME StoreInv, [Next]_vars PROVE StoreInv'
  OBVIOUS
<1>1. CASE Statement
  BY <1>1, InsertOutcomeKeeps, UpdateOutcomeKeeps, ListingKeeps, DropInflightKeeps,
     DropPartialsKeeps DEF Statement
<1>2. CASE Crash \/ Serve
  BY <1>2, CrashKeeps, ServeKeeps
<1>3. ASSUME NEW c \in Crews,
             \/ Accept(c) \/ End(c) \/ LateResults(c) \/ Mark(c) \/ Flush(c) \/ SweepRow(c)
             \/ \E k \in Tasks : Answer(c, k) \/ SavePartial(c, k)
      PROVE  StoreInv'
  BY <1>3, AcceptKeeps, EndKeeps, LateResultsKeeps, MarkKeeps, FlushKeeps, SweepRowKeeps,
     AnswerKeeps, SavePartialKeeps
<1>4. CASE UNCHANGED vars
  BY <1>4 DEF vars, diskVars, memoryVars, history, StoreInv, TypeOK, LifeInv, MountInv,
              CallInv, LateInv, PartialsInv, InterruptedHonest, Stored, Interrupted
<1> QED
  BY <1>1, <1>2, <1>3, <1>4 DEF Next

LEMMA StoreInvHolds == Spec => []StoreInv
BY StoreInvInit, StoreInvStep, PTL DEF Spec

----------------------------------------------------------------------------
(* The refinement                                                           *)

\* The promise as the tables hold it, and the answers kept beside it.
Told(c) == IF Stored(c) THEN outcome[c]
           ELSE IF Marked(c) THEN [st |-> "accepted", res |-> {}] ELSE NoDoc
Beside(c) == IF Stored(c) \/ ~Marked(c) THEN {} ELSE partials[c]

ToldAll == [c \in Crews |-> Told(c)]
BesideAll == [c \in Crews |-> Beside(c)]

\* A step that leaves the outcomes, the rows and what is kept beside them alone is a
\* stutter of the promise.
LEMMA SameTold ==
  ASSUME \A c \in Crews : Told(c)' = Told(c) /\ Beside(c)' = Beside(c)
  PROVE  ToldAll' = ToldAll /\ BesideAll' = BesideAll
BY DEF ToldAll, BesideAll

LEMMA AbstractInit == Init => Promise!Init
<1> SUFFICES ASSUME Init PROVE Promise!Init
  OBVIOUS
<1>1. \A c \in Crews : ~Stored(c) /\ ~Marked(c)
  BY DEF Init, Stored, Marked
<1> QED
  BY <1>1 DEF Promise!Init, Promise!NotPromised, NoDoc

AbstractStep == [Promise!Next]_(Promise!promiseVars)

\* The promise's variables under the mapping, so that a step is shown on them and unfolded
\* once.
LEMMA MappedStep ==
  ASSUME NEW c \in Crews,
         \/ ToldAll' = ToldAll /\ BesideAll' = BesideAll
         \/ /\ ToldAll[c] = NoDoc /\ ToldAll' = [ToldAll EXCEPT ![c] = Promise!Promised]
            /\ BesideAll' = BesideAll
         \/ /\ ToldAll[c] = Promise!Promised /\ ToldAll' = ToldAll
            /\ \E k \in Tasks : BesideAll' = [BesideAll EXCEPT ![c] = @ \cup {k}]
         \/ /\ ToldAll[c] \in {NoDoc, Promise!Promised}
            /\ \E o \in Docs : o.st \in Ended /\ ToldAll' = [ToldAll EXCEPT ![c] = o]
            /\ BesideAll' = [BesideAll EXCEPT ![c] = {}]
         \/ /\ ToldAll[c] = Promise!Promised
            /\ ToldAll' = [ToldAll EXCEPT ![c] = [st |-> "INTERRUPTED", res |-> BesideAll[c]]]
            /\ BesideAll' = [BesideAll EXCEPT ![c] = {}]
         \/ /\ ToldAll[c] = CancelledEmpty
            /\ \E r \in SUBSET Tasks : ToldAll' = [ToldAll EXCEPT ![c].res = r]
            /\ BesideAll' = BesideAll
  PROVE  AbstractStep
<1> USE DEF ToldAll, BesideAll, Told, Beside, AbstractStep
<1>1. CASE ToldAll' = ToldAll /\ BesideAll' = BesideAll
  BY <1>1 DEF Promise!promiseVars
<1>2. CASE /\ ToldAll[c] = NoDoc /\ ToldAll' = [ToldAll EXCEPT ![c] = Promise!Promised]
           /\ BesideAll' = BesideAll
  <2>1. Promise!Accept(c)
    BY <1>2 DEF Promise!Accept, Promise!NotPromised, NoDoc
  <2> QED
    BY <2>1 DEF Promise!Next
<1>3. CASE /\ ToldAll[c] = Promise!Promised /\ ToldAll' = ToldAll
           /\ \E k \in Tasks : BesideAll' = [BesideAll EXCEPT ![c] = @ \cup {k}]
  <2>1. Promise!Keep(c)
    BY <1>3 DEF Promise!Keep
  <2> QED
    BY <2>1 DEF Promise!Next
<1>4. CASE /\ ToldAll[c] \in {NoDoc, Promise!Promised}
           /\ \E o \in Docs : o.st \in Ended /\ ToldAll' = [ToldAll EXCEPT ![c] = o]
           /\ BesideAll' = [BesideAll EXCEPT ![c] = {}]
  <2>1. Docs = Promise!Outcomes /\ Ended = Promise!Ended
    BY DEF Docs, Ended, Promise!Outcomes, Promise!Ended
  <2>2. Promise!Finish(c)
    BY <1>4, <2>1 DEF Promise!Finish, Promise!NotPromised, NoDoc
  <2> QED
    BY <2>2 DEF Promise!Next
<1>5. CASE /\ ToldAll[c] = Promise!Promised
           /\ ToldAll' = [ToldAll EXCEPT ![c] = [st |-> "INTERRUPTED", res |-> BesideAll[c]]]
           /\ BesideAll' = [BesideAll EXCEPT ![c] = {}]
  <2>1. Promise!Interrupt(c)
    BY <1>5 DEF Promise!Interrupt
  <2> QED
    BY <2>1 DEF Promise!Next
<1>6. CASE /\ ToldAll[c] = CancelledEmpty
           /\ \E r \in SUBSET Tasks : ToldAll' = [ToldAll EXCEPT ![c].res = r]
           /\ BesideAll' = BesideAll
  <2>1. Promise!LateResults(c)
    BY <1>6 DEF Promise!LateResults, CancelledEmpty
  <2> QED
    BY <2>1 DEF Promise!Next
<1> QED
  BY <1>1, <1>2, <1>3, <1>4, <1>5, <1>6

\* A step that does not touch the tables, or touches only the listing.
LEMMA UntouchedMaps == UNCHANGED <<outcome, inflight, partials>> => AbstractStep
<1> SUFFICES ASSUME UNCHANGED <<outcome, inflight, partials>> PROVE AbstractStep
  OBVIOUS
<1>1. \A c \in Crews : Told(c)' = Told(c) /\ Beside(c)' = Beside(c)
  BY DEF Told, Beside, Stored, Marked
<1> QED
  BY <1>1, SameTold DEF AbstractStep, ToldAll, BesideAll, Told, Beside, Promise!promiseVars

\* The in-flight row is the acceptance, and finds nothing kept beside it.
LEMMA MarkMaps == ASSUME StoreInv, NEW c \in Crews, Mark(c) PROVE AbstractStep
<1>1. UNCHANGED <<outcome, partials>>
  BY DEF Mark
<1>2. CASE inflight' = inflight
  BY <1>1, <1>2, UntouchedMaps
<1>3. CASE ~Stored(c) /\ c \notin inflight /\ inflight' = inflight \cup {c}
  <2>1. partials[c] = {}
    BY <1>3 DEF StoreInv, PartialsInv
  <2>2. /\ Told(c) = NoDoc /\ Told(c)' = Promise!Promised
        /\ Beside(c) = {} /\ Beside(c)' = {}
    BY <1>1, <1>3, <2>1 DEF Told, Beside, Stored, Marked, Promise!Promised
  <2>3. \A b \in Crews \ {c} : Told(b)' = Told(b) /\ Beside(b)' = Beside(b)
    BY <1>1, <1>3 DEF Told, Beside, Stored, Marked
  <2>4. /\ ToldAll[c] = NoDoc /\ ToldAll' = [ToldAll EXCEPT ![c] = Promise!Promised]
        /\ BesideAll' = BesideAll
    BY <2>2, <2>3 DEF ToldAll, BesideAll
  <2> QED
    BY <2>4, MappedStep
<1> QED
  BY <1>2, <1>3 DEF Mark

\* An answer is kept beside a row whose crew has no outcome.
LEMMA SavePartialMaps ==
  ASSUME StoreInv, NEW c \in Crews, NEW k \in Tasks, SavePartial(c, k) PROVE AbstractStep
<1>1. UNCHANGED <<outcome, inflight>> /\ partials \in [Crews -> SUBSET Tasks]
  BY DEF SavePartial, StoreInv, TypeOK
<1>2. CASE partials' = partials
  BY <1>1, <1>2, UntouchedMaps
<1>3. CASE Keepable(c) /\ partials' = [partials EXCEPT ![c] = @ \cup {k}]
  <2>1. /\ Told(c) = Promise!Promised /\ Beside(c)' = Beside(c) \cup {k}
        /\ \A b \in Crews : Told(b)' = Told(b)
    BY <1>1, <1>3 DEF Keepable, Told, Beside, Stored, Marked, Promise!Promised
  <2>2. \A b \in Crews \ {c} : Beside(b)' = Beside(b)
    BY <1>1, <1>3 DEF Beside, Stored, Marked
  <2>3. /\ ToldAll[c] = Promise!Promised /\ ToldAll' = ToldAll
        /\ BesideAll' = [BesideAll EXCEPT ![c] = @ \cup {k}]
    BY <2>1, <2>2 DEF ToldAll, BesideAll
  <2> QED
    BY <2>3, MappedStep
<1> QED
  BY <1>2, <1>3 DEF SavePartial

\* The first outcome: a crew's own end, or the interruption of one that has its row.
LEMMA InsertOutcomeMaps == ASSUME StoreInv, InsertOutcome PROVE AbstractStep
<1>1. /\ UNCHANGED <<inflight, partials>> /\ call.at = "outcome"
      /\ outcome \in [Crews -> Docs \cup {NoDoc}]
  BY DEF InsertOutcome, Executing, StoreInv, TypeOK
<1>2. call # Idle /\ call.c \in Crews /\ call.doc \in Docs
  <2>1. call # Idle
    BY <1>1 DEF Idle
  <2> QED
    BY <2>1, CallFields DEF StoreInv
<1>3. PICK c \in Crews : c = call.c
  BY <1>2
<1>4. CASE outcome' = outcome
  BY <1>1, <1>4, UntouchedMaps
<1>5. CASE ~Stored(c) /\ outcome' = [outcome EXCEPT ![c] = call.doc]
  <2>1. call.doc # NoDoc
    BY <1>2 DEF Docs, NoDoc, Ended
  <2>2. /\ Told(c) = IF c \in inflight THEN Promise!Promised ELSE NoDoc
        /\ Beside(c) = IF c \in inflight THEN partials[c] ELSE {}
        /\ Told(c)' = call.doc /\ Beside(c)' = {}
    BY <1>3, <1>1, <1>2, <1>5, <2>1 DEF Told, Beside, Stored, Marked, Promise!Promised
  <2>3. \A b \in Crews \ {c} : Told(b)' = Told(b) /\ Beside(b)' = Beside(b)
    BY <1>3, <1>1, <1>2, <1>5 DEF Told, Beside, Stored, Marked
  <2>4. /\ ToldAll[c] = Told(c) /\ BesideAll[c] = Beside(c)
        /\ ToldAll' = [ToldAll EXCEPT ![c] = call.doc]
        /\ BesideAll' = [BesideAll EXCEPT ![c] = {}]
    BY <1>3, <1>2, <2>2, <2>3 DEF ToldAll, BesideAll
  <2>5. CASE call.doc = Interrupted(c) /\ c \in inflight
    <3>1. ToldAll[c] = Promise!Promised
      BY <2>2, <2>4, <2>5
    <3>2. call.doc = [st |-> "INTERRUPTED", res |-> BesideAll[c]]
      BY <2>2, <2>4, <2>5 DEF Interrupted
    <3> QED
      BY <1>3, <1>2, <2>4, <3>1, <3>2, MappedStep
  <2>6. CASE call.doc.st \in Ended
    <3>1. ToldAll[c] \in {NoDoc, Promise!Promised}
      BY <2>2, <2>4
    <3> QED
      BY <1>3, <1>2, <2>4, <2>6, <3>1, MappedStep
  <2> QED
    BY <1>3, <1>1, <1>2, <2>5, <2>6 DEF StoreInv, CallInv
<1> QED
  BY <1>4, <1>5, <1>3 DEF InsertOutcome

\* The second write of an outcome brings a cancelled crew's results.
LEMMA UpdateOutcomeMaps == ASSUME StoreInv, UpdateOutcome PROVE AbstractStep
<1>1. /\ UNCHANGED <<inflight, partials>> /\ call.at = "update"
      /\ outcome \in [Crews -> Docs \cup {NoDoc}]
  BY DEF UpdateOutcome, Executing, StoreInv, TypeOK
<1>2. call # Idle /\ call.c \in Crews /\ call.doc \in Docs
  <2>1. call # Idle
    BY <1>1 DEF Idle
  <2> QED
    BY <2>1, CallFields DEF StoreInv
<1>3. PICK c \in Crews : c = call.c
  BY <1>2
<1>4. CASE outcome' = outcome
  BY <1>1, <1>4, UntouchedMaps
<1>5. CASE outcome' = [outcome EXCEPT ![c] = call.doc]
  <2>1. outcome[c] = CancelledEmpty /\ call.doc.st = "CANCELLED"
    BY <1>3, <1>1, <1>2 DEF StoreInv, CallInv
  <2>2. PICK r \in SUBSET Tasks : call.doc = [CancelledEmpty EXCEPT !.res = r]
    <3>1. call.doc.res \in SUBSET Tasks
      BY <1>2 DEF Docs
    <3>2. call.doc = [CancelledEmpty EXCEPT !.res = call.doc.res]
      BY <1>3, <1>2, <2>1 DEF Docs, CancelledEmpty
    <3> QED
      BY <3>1, <3>2
  <2>3. call.doc # NoDoc /\ CancelledEmpty # NoDoc
    BY <1>2 DEF Docs, NoDoc, Ended, CancelledEmpty
  <2>4. /\ Told(c) = CancelledEmpty /\ Told(c)' = [CancelledEmpty EXCEPT !.res = r]
        /\ Beside(c) = {} /\ Beside(c)' = {}
    BY <1>3, <1>1, <1>2, <1>5, <2>1, <2>2, <2>3 DEF Told, Beside, Stored
  <2>5. \A b \in Crews \ {c} : Told(b)' = Told(b) /\ Beside(b)' = Beside(b)
    BY <1>3, <1>1, <1>2, <1>5 DEF Told, Beside, Stored, Marked
  <2>6. /\ ToldAll[c] = CancelledEmpty
        /\ ToldAll' = [ToldAll EXCEPT ![c].res = r] /\ BesideAll' = BesideAll
    BY <1>3, <1>2, <2>4, <2>5 DEF ToldAll, BesideAll
  <2> QED
    BY <1>3, <1>2, <2>6, MappedStep
<1> QED
  BY <1>4, <1>5, <1>3 DEF UpdateOutcome

\* Ending the row and what was kept beside it shows nothing: the crew has its outcome.
LEMMA DropsMap == ASSUME StoreInv, DropInflight \/ DropPartials PROVE AbstractStep
<1>1. /\ outcome' = outcome
      /\ inflight' = inflight \/ inflight' = inflight \ {call.c}
      /\ partials' = partials \/ partials' = [partials EXCEPT ![call.c] = {}]
      /\ call.at \in {"inflight", "partials"} /\ partials \in [Crews -> SUBSET Tasks]
  BY DEF DropInflight, DropPartials, Executing, StoreInv, TypeOK
<1>2. call.c \in Crews /\ Stored(call.c)
  <2>1. call # Idle
    BY <1>1 DEF Idle
  <2> QED
    BY <1>1, <2>1, CallFields DEF StoreInv, CallInv
<1>3. \A b \in Crews : Told(b)' = Told(b) /\ Beside(b)' = Beside(b)
  BY <1>1, <1>2 DEF Told, Beside, Stored, Marked
<1>4. ToldAll' = ToldAll /\ BesideAll' = BesideAll
  BY <1>3, SameTold
<1> QED
  BY <1>2, <1>4, MappedStep

LEMMA AbstractNext == StoreInv /\ [Next]_vars => AbstractStep
<1> SUFFICES ASSUME StoreInv, [Next]_vars PROVE AbstractStep
  OBVIOUS
<1>1. CASE Statement
  <2>1. CASE InsertIndex \/ Repair
    BY <2>1, UntouchedMaps DEF InsertIndex, Repair
  <2> QED
    BY <1>1, <2>1, InsertOutcomeMaps, UpdateOutcomeMaps, DropsMap DEF Statement
<1>2. CASE Crash \/ Serve
  BY <1>2, UntouchedMaps DEF Crash, Serve, diskVars
<1>3. ASSUME NEW c \in Crews,
             \/ Accept(c) \/ End(c) \/ LateResults(c) \/ Flush(c) \/ SweepRow(c)
             \/ \E k \in Tasks : Answer(c, k)
      PROVE  AbstractStep
  <2>1. UNCHANGED diskVars
    BY <1>3 DEF Accept, End, LateResults, Flush, SweepRow, Sweep, Answer
  <2> QED
    BY <2>1, UntouchedMaps DEF diskVars
<1>4. ASSUME NEW c \in Crews, Mark(c) \/ \E k \in Tasks : SavePartial(c, k)
      PROVE  AbstractStep
  BY <1>4, MarkMaps, SavePartialMaps
<1>5. CASE UNCHANGED vars
  BY <1>5, UntouchedMaps DEF vars, diskVars
<1> QED
  BY <1>1, <1>2, <1>3, <1>4, <1>5 DEF Next

----------------------------------------------------------------------------
(* The listing                                                              *)

\* A crew that was written down as in flight keeps its row until it is in the listing,
\* which comes before the row's end in every sequence of statements.
ListInv ==
  /\ \A c \in marked : c \notin listed => c \in inflight
  /\ call.at = "inflight" => call.c \in listed

\* A step at no statement that ends a row.
LEMMA ListUntouched ==
  ASSUME ListInv, marked' = marked, listed' = listed, inflight' = inflight,
         call' = call \/ call'.at # "inflight"
  PROVE  ListInv'
BY DEF ListInv

LEMMA MarkLists == ASSUME ListInv, NEW c \in Crews, Mark(c) PROVE ListInv'
<1>1. /\ listed' = listed /\ call' = call
      /\ \/ inflight' = inflight /\ marked' = marked
         \/ inflight' = inflight \cup {c} /\ marked' = marked \cup {c}
  BY DEF Mark
<1> QED
  BY <1>1 DEF ListInv

\* The statements, when none of them fails: the listing row is there before the row ends.
LEMMA StatementLists ==
  ASSUME ~CanFail, StoreInv, ListInv, Statement
  PROVE  ListInv'
<1>1. TypeOK
  BY DEF StoreInv
<1>2. Statement => call # Idle
  BY DEF Statement, InsertOutcome, UpdateOutcome, InsertIndex, DropInflight, DropPartials,
         Repair, Executing, Idle
<1>3. ASSUME NEW step \in Steps, Then(step) PROVE call'.at = step /\ call'.c = call.c
  BY <1>1, <1>2, <1>3, GoesOn DEF Then
<1>4. ASSUME InsertOutcome \/ UpdateOutcome \/ DropPartials PROVE ListInv'
  <2>1. marked' = marked /\ listed' = listed /\ inflight' = inflight
    BY <1>4 DEF InsertOutcome, UpdateOutcome, DropPartials, offDisk, history
  <2>2. Then("index") \/ Done
    BY <1>4 DEF InsertOutcome, UpdateOutcome, DropPartials
  <2>3. call'.at # "inflight"
    BY <1>3, <2>2 DEF Done, Idle, Steps
  <2> QED
    BY <2>1, <2>3, ListUntouched
<1>5. ASSUME InsertIndex \/ Repair PROVE ListInv'
  <2>1. /\ marked' = marked /\ listed' = listed \cup {call.c} /\ inflight' = inflight
        /\ Then("inflight")
    BY <1>5 DEF InsertIndex, Repair, offDisk, history
  <2>2. call'.c = call.c
    BY <1>3, <2>1 DEF Steps
  <2> QED
    BY <2>1, <2>2 DEF ListInv
<1>6. ASSUME DropInflight PROVE ListInv'
  <2>1. /\ marked' = marked /\ listed' = listed /\ inflight' = inflight \ {call.c}
        /\ Then("partials") /\ call.at = "inflight"
    BY <1>6 DEF DropInflight, Executing, offDisk, history
  <2>2. call'.at = "partials"
    BY <1>3, <2>1 DEF Steps
  <2> QED
    BY <2>1, <2>2 DEF ListInv
<1> QED
  BY <1>4, <1>5, <1>6 DEF Statement

LEMMA ListInvStep ==
  ASSUME ~CanFail, StoreInv, ListInv, [Next]_vars
  PROVE  ListInv'
<1>1. CASE Statement
  BY <1>1, StatementLists
<1>2. CASE Crash \/ Serve
  <2>1. /\ marked' = marked /\ listed' = listed /\ inflight' = inflight
        /\ call' = Idle \/ call' = call
    BY <1>2 DEF Crash, Serve, diskVars, history
  <2> QED
    BY <2>1, ListUntouched DEF Idle
<1>3. ASSUME NEW c \in Crews, Flush(c) \/ SweepRow(c) PROVE ListInv'
  <2>1. marked' = marked /\ listed' = listed /\ inflight' = inflight
    BY <1>3 DEF Flush, SweepRow, Sweep, diskVars, history
  <2>2. call'.at \in {"outcome", "update", "repair"}
    BY <1>3 DEF Flush, SweepRow, Sweep
  <2> QED
    BY <2>1, <2>2, ListUntouched
<1>4. ASSUME NEW c \in Crews,
             \/ Accept(c) \/ End(c) \/ LateResults(c)
             \/ \E k \in Tasks : Answer(c, k) \/ SavePartial(c, k)
      PROVE  ListInv'
  <2>1. marked' = marked /\ listed' = listed /\ inflight' = inflight /\ call' = call
    BY <1>4 DEF Accept, End, LateResults, Answer, SavePartial, diskVars, history
  <2> QED
    BY <2>1, ListUntouched
<1>5. ASSUME NEW c \in Crews, Mark(c) PROVE ListInv'
  BY <1>5, MarkLists
<1>6. CASE UNCHANGED vars
  BY <1>6, ListUntouched DEF vars, diskVars, history
<1> QED
  BY <1>1, <1>2, <1>3, <1>4, <1>5, <1>6 DEF Next

----------------------------------------------------------------------------
(* The theorems                                                             *)

\* Every variable keeps its type through every statement, failure and stop.
THEOREM StoreTypes == Spec => []TypeOK
<1>1. StoreInv => TypeOK
  BY DEF StoreInv
<1> QED
  BY <1>1, StoreInvHolds, PTL

\* The sweep never reaches a crew of the process that runs it.
THEOREM SweepHonest == Spec => []InterruptedHonest
<1>1. StoreInv => InterruptedHonest
  BY DEF StoreInv
<1> QED
  BY <1>1, StoreInvHolds, PTL

\* The tables implement the promise: no outcome is lost or replaced, nothing is taken
\* back, and an interrupted crew reports exactly what was kept of it.
THEOREM PromiseRefined == Spec => PromiseKept
<1>1. StoreInv /\ [Next]_vars => AbstractStep
  BY AbstractNext
<1> QED
  BY <1>1, StoreInvHolds, AbstractInit, PTL DEF Spec, PromiseKept, Promise!Spec, AbstractStep

\* A crew that was written down and is on disk without its listing row is still in flight,
\* so that the next start lists it, wherever the process stops.  This is of a database whose
\* statements succeed: a repair that fails ends the row all the same, and the crew stays
\* unlisted.
THEOREM ListingMended == ~CanFail => (Spec => []ListingRepairable)
<1> SUFFICES ASSUME ~CanFail PROVE Spec => []ListingRepairable
  OBVIOUS
<1>1. Init => ListInv
  BY DEF Init, ListInv, Idle
<1>2. StoreInv /\ ListInv /\ [Next]_vars => ListInv'
  BY ListInvStep
<1>3. ListInv => ListingRepairable
  BY DEF ListInv, ListingRepairable, Unlisted
<1> QED
  BY <1>1, <1>2, <1>3, StoreInvHolds, PTL DEF Spec

=============================================================================
