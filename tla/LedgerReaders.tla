--------------------------- MODULE LedgerReaders ---------------------------
(***************************************************************************)
(* How a finished crew's memory leaves the ledger (engine/ledger.cyr,      *)
(* ADR 0034).  A crew lives in an arena.  Eviction takes the crew out of   *)
(* the ledger's map, the crew waits in limbo while a request or a sweep    *)
(* that may have looked it up is still running, and its arena is then      *)
(* given back and reused.  A request or a sweep is one bracket, counted in *)
(* one of two generations.                                                 *)
(*                                                                         *)
(* A crew is named by the arena it lives in, so a crew that is given back  *)
(* and a later crew in the same arena are the same model value: a thread   *)
(* that still holds such a value holds another crew's memory.              *)
(***************************************************************************)
EXTENDS Integers, FiniteSets

CONSTANTS
  Workers,    \* the pooled request threads
  Collector,  \* the collector's thread
  Crews,      \* the arenas crews live in
  Rings,      \* the event rings that can ever be allocated
  MaxSize,    \* AGNOSTIC_LEDGER_MAX
  LowWater,   \* AGNOSTIC_LEDGER_LOW_WATER
  EvictMax,   \* AGNOSTIC_LEDGER_EVICT_MAX
  NoRing,     \* the null ring
  NoThread    \* nobody carries the crew

Threads == Workers \cup {Collector}

\* The eviction takes the ledger down, never up, and looks at one entry at least.
ASSUME LedgerBounds ==
  /\ MaxSize \in Nat /\ LowWater \in Nat /\ EvictMax \in Nat \ {0}
  /\ LowWater < MaxSize

\* The threads and arenas of one process are finitely many; a null is no value.
ASSUME LedgerActors ==
  /\ IsFiniteSet(Workers) /\ IsFiniteSet(Crews)
  /\ NoRing \notin Rings
  /\ NoThread \notin Threads

NoBracket == -1

VARIABLES
  place,      \* where each crew is on its way through the ledger
  carrier,    \* the thread that has the crew on its stack: building or giving back
  older,      \* older[c]: the crews with a smaller T0 than c
  stored,     \* crews whose entry is evictable: terminal, closed, nothing unwritten
  ring,       \* AGNOSTIC_LE_RING of each entry
  freeRings,  \* _agnostic_ledger_free_rings
  made,       \* the rings allocated since the start
  readers,    \* _agnostic_ledger_readers: open brackets of each generation
  generation, \* _agnostic_ledger_generation
  bracket,    \* what read_begin answered each thread, or NoBracket
  held        \* the crews whose entry a thread has a pointer to

vars == <<place, carrier, older, stored, ring, freeRings, made,
          readers, generation, bracket, held>>

ringVars    == <<ring, freeRings, made>>
bracketVars == <<readers, bracket>>

\* "free": no crew in the arena; "built": its entry is filled in and not yet
\* published; "ledger": in the map; "evicted": on the chain evict_locked answered;
\* "limboNew", "limboOld": on one of limbo's two lists; "done": on the chain
\* limbo_pass answered, which give_back is working through.
Places == {"free", "built", "ledger", "evicted", "limboNew", "limboOld", "done"}

Generations == {0, 1}

----------------------------------------------------------------------------

InPlace(p) == {c \in Crews : place[c] = p}

Carried(t, p) == {c \in InPlace(p) : carrier[c] = t}

\* A thread inside record_in does nothing else until that call returns.
Busy(t) == \E c \in Crews : carrier[c] = t

\* Crews with an entry that carries a T0: what the eviction's order ranges over.
Aged == InPlace("built") \cup InPlace("ledger")

Behind == 1 - generation

\* Nobody is left in the generation behind: limbo's lists may move on.  (The mutant
\* does not look.)
TurnUnchecked == TRUE
Turn == readers[Behind] = 0

Evictable == InPlace("ledger") \cap stored

Want == LET over == Cardinality(InPlace("ledger")) - LowWater
        IN  IF over > EvictMax THEN EvictMax ELSE over

\* What _agnostic_ledger_evict_locked may take: nothing below the cap, else the
\* `Want` oldest evictable entries (entries of one millisecond in any order).
Evictions ==
  IF Cardinality(InPlace("ledger")) < MaxSize
  THEN {{}}
  ELSE {S \in SUBSET Evictable :
          /\ Cardinality(S) = IF Cardinality(Evictable) < Want
                              THEN Cardinality(Evictable) ELSE Want
          /\ \A d \in Evictable \ S : \A c \in S : d \notin older[c]}

\* The clock, in milliseconds: a new entry is younger than every other one, or as
\* young as the youngest.
NewAges ==
  {Aged} \cup {older[d] : d \in {y \in Aged : \A e \in Aged : y \notin older[e]}}

----------------------------------------------------------------------------

Init ==
  /\ place = [c \in Crews |-> "free"]
  /\ carrier = [c \in Crews |-> NoThread]
  /\ older = [c \in Crews |-> {}]
  /\ stored = {}
  /\ ring = [c \in Crews |-> NoRing]
  /\ freeRings = {}
  /\ made = {}
  /\ readers = [g \in Generations |-> 0]
  /\ generation = 0
  /\ bracket = [t \in Threads |-> NoBracket]
  /\ held = [t \in Threads |-> {}]

\* A request or a sweep starts.
ReadBegin(t) ==
  /\ bracket[t] = NoBracket
  /\ bracket' = [bracket EXCEPT ![t] = generation]
  /\ readers' = [readers EXCEPT ![generation] = @ + 1]
  /\ UNCHANGED <<place, carrier, older, stored, ringVars, generation, held>>

\* It ends: after the response is encoded, or after the sweep.
ReadEnd(t) ==
  /\ bracket[t] # NoBracket
  /\ ~Busy(t)
  /\ readers' = [readers EXCEPT ![bracket[t]] = @ - 1]
  /\ bracket' = [bracket EXCEPT ![t] = NoBracket]
  /\ held' = [held EXCEPT ![t] = {}]
  /\ UNCHANGED <<place, carrier, older, stored, ringVars, generation>>

\* A lookup in the map, under the ledger's lock; the pointer outlives the lock.
Find(t, c) ==
  /\ bracket[t] # NoBracket
  /\ ~Busy(t)
  /\ place[c] = "ledger"
  /\ held' = [held EXCEPT ![t] = @ \cup {c}]
  /\ UNCHANGED <<place, carrier, older, stored, ringVars, generation, bracketVars>>

\* A holder writes the crew's outcome: the entry has nothing left to collect or write.
Settle(t, c) ==
  /\ ~Busy(t)
  /\ c \in held[t] \ stored
  /\ stored' = stored \cup {c}
  /\ UNCHANGED <<place, carrier, older, ringVars, generation, bracketVars, held>>

\* A cancelled crew takes its results late: there is something to write again.
Reopen(t, c) ==
  /\ ~Busy(t)
  /\ c \in held[t] \cap stored
  /\ stored' = stored \ {c}
  /\ UNCHANGED <<place, carrier, older, ringVars, generation, bracketVars, held>>

\* (A mutant: the ring that was taken stays on the free list.)
RingTakeShared(c) ==
  \E r \in IF freeRings # {} THEN freeRings ELSE Rings \ made :
    /\ ring' = [ring EXCEPT ![c] = r]
    /\ freeRings' = freeRings
    /\ made' = made \cup {r}

\* _agnostic_ledger_ring_take, under the ledger's lock: a free ring before a new one.
RingTake(c) ==
  \E r \in IF freeRings # {} THEN freeRings ELSE Rings \ made :
    /\ ring' = [ring EXCEPT ![c] = r]
    /\ freeRings' = freeRings \ {r}
    /\ made' = made \cup {r}

\* record_in up to its lock: an arena, a ring, the entry's fields and its T0.  A request
\* records one crew at most, and one that does has looked no other crew up.
Build(t, c) ==
  /\ t \in Workers
  /\ bracket[t] # NoBracket
  /\ ~Busy(t)
  /\ held[t] = {}
  /\ place[c] = "free"
  /\ RingTake(c)
  /\ \E age \in NewAges : older' = [older EXCEPT ![c] = age]
  /\ place' = [place EXCEPT ![c] = "built"]
  /\ carrier' = [carrier EXCEPT ![c] = t]
  /\ UNCHANGED <<stored, generation, bracketVars, held>>

\* record_in under the ledger's lock: evict, then publish the new entry.  The evicted
\* entries give their rings back here, and the caller keeps a pointer to its own entry.
Publish(t, c) ==
  /\ place[c] = "built" /\ carrier[c] = t
  /\ \E S \in Evictions :
       /\ place' = [d \in Crews |-> IF d \in S THEN "evicted"
                                    ELSE IF d = c THEN "ledger" ELSE place[d]]
       /\ carrier' = [d \in Crews |-> IF d \in S THEN t
                                      ELSE IF d = c THEN NoThread ELSE carrier[d]]
       /\ ring' = [d \in Crews |-> IF d \in S THEN NoRing ELSE ring[d]]
       /\ freeRings' = freeRings \cup ({ring[d] : d \in S} \ {NoRing})
       /\ older' = [d \in Crews |-> IF d \in S THEN {} ELSE older[d] \ S]
  /\ held' = [held EXCEPT ![t] = @ \cup {c}]
  /\ UNCHANGED <<stored, made, generation, bracketVars>>

\* (A mutant: a turn moves the chain it was given on and not who waited before.)
LimboPassChain(t) ==
  LET chain  == Carried(t, "evicted")
      joined == chain
  IN
  /\ chain # {}
  /\ place' = [c \in Crews |->
                 CASE Turn /\ place[c] = "limboOld" -> "done"
                   [] Turn /\ c \in joined          -> "limboOld"
                   [] ~Turn /\ c \in chain          -> "limboNew"
                   [] OTHER                         -> place[c]]
  /\ carrier' = [c \in Crews |->
                 CASE Turn /\ place[c] = "limboOld" -> t
                   [] c \in chain                   -> NoThread
                   [] OTHER                         -> carrier[c]]
  /\ generation' = IF Turn /\ joined # {} THEN Behind ELSE generation
  /\ UNCHANGED <<older, stored, ringVars, bracketVars, held>>

\* _agnostic_ledger_limbo_pass, under the readers' lock.
LimboPass(t) ==
  LET chain  == Carried(t, "evicted")
      joined == InPlace("limboNew") \cup chain
  IN
  /\ chain # {}
  /\ place' = [c \in Crews |->
                 CASE Turn /\ place[c] = "limboOld" -> "done"
                   [] Turn /\ c \in joined          -> "limboOld"
                   [] ~Turn /\ c \in chain          -> "limboNew"
                   [] OTHER                         -> place[c]]
  /\ carrier' = [c \in Crews |->
                 CASE Turn /\ place[c] = "limboOld" -> t
                   [] c \in chain                   -> NoThread
                   [] OTHER                         -> carrier[c]]
  /\ generation' = IF Turn /\ joined # {} THEN Behind ELSE generation
  /\ UNCHANGED <<older, stored, ringVars, bracketVars, held>>

\* _agnostic_ledger_give_back, one crew of the chain: no lock is held.
GiveBack(t, c) ==
  /\ place[c] = "done" /\ carrier[c] = t
  /\ place' = [place EXCEPT ![c] = "free"]
  /\ carrier' = [carrier EXCEPT ![c] = NoThread]
  /\ stored' = stored \ {c}
  /\ UNCHANGED <<older, ringVars, generation, bracketVars, held>>

Next ==
  \/ \E t \in Threads : ReadBegin(t) \/ ReadEnd(t) \/ LimboPass(t)
  \/ \E t \in Threads, c \in Crews :
       \/ Find(t, c) \/ Settle(t, c) \/ Reopen(t, c)
       \/ Build(t, c) \/ Publish(t, c) \/ GiveBack(t, c)

Spec == Init /\ [][Next]_vars

\* Every request and every sweep ends: none of these steps waits for another thread
\* but on a lock held for a few instructions.
Fairness ==
  /\ \A t \in Threads : WF_vars(ReadEnd(t)) /\ WF_vars(LimboPass(t))
  /\ \A t \in Threads, c \in Crews : WF_vars(Publish(t, c)) /\ WF_vars(GiveBack(t, c))

FairSpec == Spec /\ Fairness

----------------------------------------------------------------------------

StateTypes ==
  /\ place \in [Crews -> Places]
  /\ carrier \in [Crews -> Threads \cup {NoThread}]
  /\ older \in [Crews -> SUBSET Crews]
  /\ stored \subseteq Crews
  /\ ring \in [Crews -> Rings \cup {NoRing}]
  /\ freeRings \subseteq Rings
  /\ made \subseteq Rings
  /\ readers \in [Generations -> Int]
  /\ generation \in Generations
  /\ bracket \in [Threads -> Generations \cup {NoBracket}]
  /\ held \in [Threads -> SUBSET Crews]

\* The types, and no generation counts fewer brackets than none: every read_end
\* answers one read_begin.
TypeOK == StateTypes /\ \A g \in Generations : readers[g] >= 0

\* Nothing a request or a sweep holds is given back, or on the chain being given
\* back: a poll never reads a scrubbed crew or, once the arena is reused, another
\* tenant's crew (the brackets, limbo_pass and give_back of engine/ledger.cyr).
NoUseAfterRelease ==
  \A t \in Threads : \A c \in held[t] : place[c] \notin {"free", "done"}

\* A ring serves one crew at a time and none is lost: every ring ever made is either
\* on the free list or the ring of exactly one entry that is built or in the ledger,
\* so an entry that left never shows another crew's events (ring_take and ring_give).
RingOwnership ==
  LET owned == {c \in Crews : ring[c] # NoRing}
  IN  /\ owned = Aged
      /\ \A c, d \in owned : ring[c] = ring[d] => c = d
      /\ freeRings \cap {ring[c] : c \in owned} = {}
      /\ made = freeRings \cup {ring[c] : c \in owned}

\* As long as evictions keep happening, every crew an eviction took out is given
\* back: no bracket that has closed and no run of overlapping brackets keeps a crew
\* in limbo for ever (ledger.cyr's account of the two generations).
EvictedGivenBack ==
  []<><<\E t \in Threads : LimboPass(t)>>_vars
    => \A c \in Crews : place[c] \in {"evicted", "limboNew", "limboOld", "done"}
                          ~> place[c] = "free"

=============================================================================
