------------------------ MODULE LedgerReadersProofs ------------------------
(***************************************************************************)
(* Proof that nothing a bracket holds is given back, for every number of   *)
(* threads, arenas and rings and every capacity of the ledger.             *)
(*                                                                         *)
(* NoUseAfterRelease is not inductive: a crew becomes "done" when the      *)
(* generation behind has no reader left, so the invariant has to say that  *)
(* a holder of a crew on the old list is in that generation, and that the  *)
(* two counters count the open brackets.                                   *)
(***************************************************************************)
EXTENDS LedgerReaders, FiniteSetTheorems, TLAPS

\* The counters are the numbers of open brackets of each generation.
CountInv ==
  \A g \in Generations : readers[g] = Cardinality({t \in Threads : bracket[t] = g})

\* A crew on a thread's stack is being built, just evicted or being given back, and
\* that thread is in a bracket.
CarrierInv ==
  \A c \in Crews :
    /\ carrier[c] # NoThread => bracket[carrier[c]] # NoBracket
    /\ place[c] \in {"built", "evicted", "done"} => carrier[c] # NoThread

\* A holder is in a bracket, holds nothing that is free, being built or being given
\* back, and holds a crew of the old list only from the generation behind.
HoldInv ==
  \A t \in Threads : \A c \in held[t] :
    /\ bracket[t] # NoBracket
    /\ place[c] \notin {"free", "built", "done"}
    /\ place[c] = "limboOld" => bracket[t] = 1 - generation

ReadersInv == StateTypes /\ CountInv /\ CarrierInv /\ HoldInv

----------------------------------------------------------------------------

\* Every variable keeps its type (all operations of engine/ledger.cyr in this model).
LEMMA StateTypesCorrect == Spec => []StateTypes
<1>1. Init => StateTypes
  BY LedgerActors DEF Init, StateTypes, Places, Generations, NoBracket
<1>2. StateTypes /\ [Next]_vars => StateTypes'
  <2> SUFFICES ASSUME StateTypes, [Next]_vars PROVE StateTypes'
    OBVIOUS
  <2> USE DEF StateTypes, Places, Generations
  <2>1. ASSUME NEW t \in Threads, ReadBegin(t) PROVE StateTypes'
    BY <2>1 DEF ReadBegin, ringVars
  <2>2. ASSUME NEW t \in Threads, ReadEnd(t) PROVE StateTypes'
    BY <2>2 DEF ReadEnd, ringVars, NoBracket
  <2>3. ASSUME NEW t \in Threads, LimboPass(t) PROVE StateTypes'
    BY <2>3 DEF LimboPass, Behind, ringVars, bracketVars
  <2>4. ASSUME NEW t \in Threads, NEW c \in Crews, Find(t, c) PROVE StateTypes'
    BY <2>4 DEF Find, ringVars, bracketVars
  <2>5. ASSUME NEW t \in Threads, NEW c \in Crews, Settle(t, c) PROVE StateTypes'
    BY <2>5 DEF Settle, ringVars, bracketVars
  <2>6. ASSUME NEW t \in Threads, NEW c \in Crews, Reopen(t, c) PROVE StateTypes'
    BY <2>6 DEF Reopen, ringVars, bracketVars
  <2>7. ASSUME NEW t \in Threads, NEW c \in Crews, Build(t, c) PROVE StateTypes'
    <3>1. NewAges \subseteq SUBSET Crews
      BY DEF NewAges, Aged, InPlace
    <3>2. PICK r \in Rings : /\ ring' = [ring EXCEPT ![c] = r]
                             /\ freeRings' = freeRings \ {r}
                             /\ made' = made \cup {r}
      BY <2>7 DEF Build, RingTake
    <3>3. QED
      BY <2>7, <3>1, <3>2 DEF Build, bracketVars
  <2>8. ASSUME NEW t \in Threads, NEW c \in Crews, Publish(t, c) PROVE StateTypes'
    <3>1. PICK S \in Evictions :
            /\ place' = [d \in Crews |-> IF d \in S THEN "evicted"
                                         ELSE IF d = c THEN "ledger" ELSE place[d]]
            /\ carrier' = [d \in Crews |-> IF d \in S THEN t
                                           ELSE IF d = c THEN NoThread ELSE carrier[d]]
            /\ ring' = [d \in Crews |-> IF d \in S THEN NoRing ELSE ring[d]]
            /\ freeRings' = freeRings \cup ({ring[d] : d \in S} \ {NoRing})
            /\ older' = [d \in Crews |-> IF d \in S THEN {} ELSE older[d] \ S]
      BY <2>8 DEF Publish
    <3>2. S \subseteq Crews
      BY DEF Evictions, Evictable, InPlace
    <3>3. QED
      BY <2>8, <3>1, <3>2 DEF Publish, bracketVars
  <2>9. ASSUME NEW t \in Threads, NEW c \in Crews, GiveBack(t, c) PROVE StateTypes'
    BY <2>9 DEF GiveBack, ringVars, bracketVars
  <2>10. CASE UNCHANGED vars
    BY <2>10 DEF vars, ringVars, bracketVars
  <2>11. QED
    BY <2>1, <2>2, <2>3, <2>4, <2>5, <2>6, <2>7, <2>8, <2>9, <2>10 DEF Next
<1>3. QED
  BY <1>1, <1>2, PTL DEF Spec

----------------------------------------------------------------------------

\* Threads and every set of them have a cardinality.
LEMMA ThreadsFinite ==
  \A S \in SUBSET Threads : IsFiniteSet(S) /\ Cardinality(S) \in Nat
<1>1. IsFiniteSet(Threads)
  BY LedgerActors, FS_AddElement DEF Threads
<1>2. QED
  BY <1>1, FS_Subset, FS_CardinalityType

\* Opening a bracket in a generation adds one to the number open there.
LEMMA BeginCounts ==
  ASSUME StateTypes, CountInv, NEW t \in Threads, ReadBegin(t)
  PROVE  CountInv'
<1> DEFINE In(g) == {u \in Threads : bracket[u] = g}
<1> SUFFICES ASSUME NEW g \in Generations
             PROVE  readers'[g] = Cardinality({u \in Threads : bracket'[u] = g})
  BY DEF CountInv
<1>1. readers[g] = Cardinality(In(g)) /\ IsFiniteSet(In(g)) /\ Cardinality(In(g)) \in Nat
  BY ThreadsFinite DEF CountInv
<1>2. t \notin In(g)
  BY DEF ReadBegin, NoBracket, Generations
<1>3. CASE g = generation
  <2>1. {u \in Threads : bracket'[u] = g} = In(g) \cup {t}
    BY <1>3 DEF ReadBegin, StateTypes
  <2>2. readers'[g] = readers[g] + 1
    BY <1>3 DEF ReadBegin, StateTypes
  <2>3. QED
    BY <1>1, <1>2, <2>1, <2>2, FS_AddElement
<1>4. CASE g # generation
  <2>1. {u \in Threads : bracket'[u] = g} = In(g)
    BY <1>2, <1>4 DEF ReadBegin, StateTypes
  <2>2. readers'[g] = readers[g]
    BY <1>4 DEF ReadBegin, StateTypes
  <2>3. QED
    BY <1>1, <2>1, <2>2
<1>5. QED
  BY <1>3, <1>4

\* Closing a bracket takes one from the generation it joined.
LEMMA EndCounts ==
  ASSUME StateTypes, CountInv, NEW t \in Threads, ReadEnd(t)
  PROVE  CountInv'
<1> DEFINE In(g) == {u \in Threads : bracket[u] = g}
<1> SUFFICES ASSUME NEW g \in Generations
             PROVE  readers'[g] = Cardinality({u \in Threads : bracket'[u] = g})
  BY DEF CountInv
<1>1. readers[g] = Cardinality(In(g)) /\ IsFiniteSet(In(g)) /\ Cardinality(In(g)) \in Nat
  BY ThreadsFinite DEF CountInv
<1>2. g # NoBracket
  BY DEF NoBracket, Generations
<1>3. CASE g = bracket[t]
  <2>1. {u \in Threads : bracket'[u] = g} = In(g) \ {t}
    BY <1>2, <1>3 DEF ReadEnd, StateTypes
  <2>2. readers'[g] = readers[g] - 1
    BY <1>3 DEF ReadEnd, StateTypes
  <2>3. t \in In(g)
    BY <1>3
  <2>4. Cardinality(In(g) \ {t}) = Cardinality(In(g)) - 1
    BY <1>1, <2>3, FS_RemoveElement
  <2>5. QED
    BY <1>1, <2>1, <2>2, <2>4
<1>4. CASE g # bracket[t]
  <2>1. {u \in Threads : bracket'[u] = g} = In(g)
    BY <1>2, <1>4 DEF ReadEnd, StateTypes
  <2>2. readers'[g] = readers[g]
    BY <1>4 DEF ReadEnd, StateTypes
  <2>3. QED
    BY <1>1, <2>1, <2>2
<1>5. QED
  BY <1>3, <1>4

\* When the generation behind counts no reader, no thread is in it.
LEMMA NobodyBehind ==
  ASSUME StateTypes, CountInv, NEW g \in Generations, readers[g] = 0
  PROVE  \A t \in Threads : bracket[t] # g
<1>1. Cardinality({t \in Threads : bracket[t] = g}) = 0
  BY DEF CountInv
<1>2. {t \in Threads : bracket[t] = g} = {}
  BY <1>1, ThreadsFinite, FS_EmptySet
<1>3. QED
  BY <1>2

----------------------------------------------------------------------------

\* The inductive invariant holds at the start.
LEMMA ReadersInvInit == Init => ReadersInv
<1> SUFFICES ASSUME Init PROVE ReadersInv
  OBVIOUS
<1>1. StateTypes
  BY LedgerActors DEF Init, StateTypes, Places, Generations, NoBracket
<1>2. CountInv
  <2> SUFFICES ASSUME NEW g \in Generations
               PROVE  readers[g] = Cardinality({t \in Threads : bracket[t] = g})
    BY DEF CountInv
  <2>1. {t \in Threads : bracket[t] = g} = {}
    BY DEF Init, Generations, NoBracket
  <2>2. QED
    BY <2>1, FS_EmptySet DEF Init
<1>3. CarrierInv /\ HoldInv
  BY DEF Init, CarrierInv, HoldInv
<1>4. QED
  BY <1>1, <1>2, <1>3 DEF ReadersInv

\* Every step keeps it.
LEMMA ReadersInvNext == ReadersInv /\ StateTypes' /\ [Next]_vars => ReadersInv'
<1> SUFFICES ASSUME ReadersInv, StateTypes', [Next]_vars PROVE CountInv' /\ CarrierInv' /\ HoldInv'
  BY DEF ReadersInv
<1> USE DEF ReadersInv
<1>1. ASSUME NEW t \in Threads, ReadBegin(t) PROVE CountInv' /\ CarrierInv' /\ HoldInv'
  <2>1. CountInv'
    BY <1>1, BeginCounts
  <2>2. CarrierInv'
    BY <1>1, LedgerActors DEF CarrierInv, ReadBegin, StateTypes, Generations, NoBracket
  <2>3. HoldInv'
    <3>1. held[t] = {}
      BY <1>1 DEF HoldInv, ReadBegin, StateTypes
    <3>2. QED
      BY <1>1, <3>1 DEF HoldInv, ReadBegin, StateTypes
  <2>4. QED
    BY <2>1, <2>2, <2>3
<1>2. ASSUME NEW t \in Threads, ReadEnd(t) PROVE CountInv' /\ CarrierInv' /\ HoldInv'
  <2>1. CountInv'
    BY <1>2, EndCounts
  <2>2. CarrierInv'
    BY <1>2 DEF CarrierInv, ReadEnd, Busy, StateTypes
  <2>3. HoldInv'
    BY <1>2 DEF HoldInv, ReadEnd, StateTypes
  <2>4. QED
    BY <2>1, <2>2, <2>3
<1>3. ASSUME NEW t \in Threads, LimboPass(t) PROVE CountInv' /\ CarrierInv' /\ HoldInv'
  <2>1. CountInv'
    BY <1>3 DEF CountInv, LimboPass, bracketVars
  <2>2. PICK s \in Crews : carrier[s] = t
    BY <1>3 DEF LimboPass, Carried, InPlace
  <2>3. bracket[t] # NoBracket /\ t # NoThread
    BY <2>2, LedgerActors DEF CarrierInv
  <2>4. CASE Turn
    <3>1. \A u \in Threads : bracket[u] # 1 - generation
      BY <2>4, NobodyBehind DEF Turn, Behind, StateTypes, Generations
    <3>2. \A c \in Crews :
            /\ place[c] = "limboOld" => place'[c] = "done" /\ carrier'[c] = t
            /\ place[c] \notin {"limboOld", "done"} => place'[c] # "done"
            /\ place[c] \notin {"free", "built"} => place'[c] \notin {"free", "built"}
      BY <1>3, <2>4 DEF LimboPass, Carried, InPlace
    <3>3. ASSUME NEW c \in Crews
          PROVE  /\ carrier'[c] # NoThread => bracket[carrier'[c]] # NoBracket
                 /\ place'[c] \in {"built", "evicted", "done"} => carrier'[c] # NoThread
      <4>1. CASE place[c] = "limboOld"
        BY <2>3, <3>2, <4>1
      <4>2. CASE place[c] = "evicted" /\ carrier[c] = t
        BY <1>3, <2>4, <4>2 DEF LimboPass, Carried, InPlace
      <4>3. CASE place[c] # "limboOld" /\ ~(place[c] = "evicted" /\ carrier[c] = t)
        <5>1. carrier'[c] = carrier[c]
          BY <1>3, <2>4, <4>3 DEF LimboPass, Carried, InPlace
        <5>2. place'[c] \in {place[c], "limboOld"}
          BY <1>3, <2>4, <4>3 DEF LimboPass, Carried, InPlace
        <5>3. QED
          BY <5>1, <5>2 DEF CarrierInv
      <4>4. QED
        BY <4>1, <4>2, <4>3
    <3>4. CarrierInv'
      BY <1>3, <3>3 DEF CarrierInv, LimboPass, bracketVars
    <3>5. generation' = 1 - generation
      BY <1>3, <2>4 DEF LimboPass, Behind
    <3>6. ASSUME NEW u \in Threads, NEW c \in held'[u]
          PROVE  /\ bracket'[u] # NoBracket
                 /\ place'[c] \notin {"free", "built", "done"}
                 /\ place'[c] = "limboOld" => bracket'[u] = 1 - generation'
      <4>1. c \in Crews /\ c \in held[u] /\ bracket'[u] = bracket[u]
        BY <1>3, <3>6 DEF LimboPass, bracketVars, StateTypes
      <4>2. place[c] \notin {"free", "built", "done", "limboOld"} /\ bracket[u] # NoBracket
        BY <3>1, <4>1 DEF HoldInv
      <4>3. place'[c] \notin {"free", "built", "done"}
        BY <3>2, <4>1, <4>2
      <4>4. bracket[u] = generation
        BY <3>1, <4>2 DEF StateTypes, Generations
      <4>5. QED
        BY <3>5, <4>1, <4>2, <4>3, <4>4 DEF StateTypes, Generations
    <3>7. HoldInv'
      BY <3>6 DEF HoldInv
    <3>8. QED
      BY <2>1, <3>4, <3>7
  <2>5. CASE ~Turn
    <3>1. \A c \in Crews : /\ place[c] = "evicted" /\ carrier[c] = t
                              => place'[c] = "limboNew" /\ carrier'[c] = NoThread
                           /\ ~(place[c] = "evicted" /\ carrier[c] = t)
                              => place'[c] = place[c] /\ carrier'[c] = carrier[c]
      BY <1>3, <2>5 DEF LimboPass, Carried, InPlace, StateTypes
    <3>2. CarrierInv'
      BY <1>3, <3>1 DEF CarrierInv, LimboPass, bracketVars
    <3>3. HoldInv'
      BY <1>3, <2>5, <3>1 DEF HoldInv, LimboPass, bracketVars, StateTypes
    <3>4. QED
      BY <2>1, <3>2, <3>3
  <2>6. QED
    BY <2>1, <2>4, <2>5
<1>4. ASSUME NEW t \in Threads, NEW c \in Crews, Find(t, c) PROVE CountInv' /\ CarrierInv' /\ HoldInv'
  BY <1>4 DEF CountInv, CarrierInv, HoldInv, Find, bracketVars, StateTypes
<1>5. ASSUME NEW t \in Threads, NEW c \in Crews, Settle(t, c) PROVE CountInv' /\ CarrierInv' /\ HoldInv'
  BY <1>5 DEF CountInv, CarrierInv, HoldInv, Settle, bracketVars
<1>6. ASSUME NEW t \in Threads, NEW c \in Crews, Reopen(t, c) PROVE CountInv' /\ CarrierInv' /\ HoldInv'
  BY <1>6 DEF CountInv, CarrierInv, HoldInv, Reopen, bracketVars
<1>7. ASSUME NEW t \in Threads, NEW c \in Crews, Build(t, c) PROVE CountInv' /\ CarrierInv' /\ HoldInv'
  <2>1. CountInv'
    BY <1>7 DEF CountInv, Build, bracketVars
  <2>2. CarrierInv'
    BY <1>7, LedgerActors DEF CarrierInv, Build, bracketVars, StateTypes
  <2>3. HoldInv'
    BY <1>7 DEF HoldInv, Build, bracketVars, StateTypes
  <2>4. QED
    BY <2>1, <2>2, <2>3
<1>8. ASSUME NEW t \in Threads, NEW c \in Crews, Publish(t, c) PROVE CountInv' /\ CarrierInv' /\ HoldInv'
  <2>1. PICK S \in Evictions :
          /\ place' = [d \in Crews |-> IF d \in S THEN "evicted"
                                       ELSE IF d = c THEN "ledger" ELSE place[d]]
          /\ carrier' = [d \in Crews |-> IF d \in S THEN t
                                         ELSE IF d = c THEN NoThread ELSE carrier[d]]
    BY <1>8 DEF Publish
  <2>2. \A d \in S : d \in Crews /\ place[d] = "ledger"
    BY DEF Evictions, Evictable, InPlace
  <2>3. bracket[t] # NoBracket /\ t # NoThread
    BY <1>8, LedgerActors DEF CarrierInv, Publish
  <2>4. CountInv'
    BY <1>8 DEF CountInv, Publish, bracketVars
  <2>5. CarrierInv'
    BY <1>8, <2>1, <2>3 DEF CarrierInv, Publish, bracketVars
  <2>6. HoldInv'
    BY <1>8, <2>1, <2>2, <2>3 DEF HoldInv, Publish, bracketVars, StateTypes
  <2>7. QED
    BY <2>4, <2>5, <2>6
<1>9. ASSUME NEW t \in Threads, NEW c \in Crews, GiveBack(t, c) PROVE CountInv' /\ CarrierInv' /\ HoldInv'
  <2>1. CountInv'
    BY <1>9 DEF CountInv, GiveBack, bracketVars
  <2>2. CarrierInv'
    BY <1>9 DEF CarrierInv, GiveBack, bracketVars, StateTypes
  <2>3. HoldInv'
    BY <1>9 DEF HoldInv, GiveBack, bracketVars, StateTypes
  <2>4. QED
    BY <2>1, <2>2, <2>3
<1>10. CASE UNCHANGED vars
  BY <1>10 DEF vars, ringVars, bracketVars, CountInv, CarrierInv, HoldInv
<1>11. QED
  BY <1>1, <1>2, <1>3, <1>4, <1>5, <1>6, <1>7, <1>8, <1>9, <1>10 DEF Next

\* Every variable keeps its type, and no counter of readers goes below zero.
THEOREM TypeCorrect == Spec => []TypeOK
<1>1. Spec => []ReadersInv
  BY ReadersInvInit, ReadersInvNext, StateTypesCorrect, PTL DEF Spec
<1>2. ReadersInv => TypeOK
  <2> SUFFICES ASSUME ReadersInv, NEW g \in Generations PROVE StateTypes /\ readers[g] >= 0
    BY DEF TypeOK, ReadersInv
  <2>1. Cardinality({t \in Threads : bracket[t] = g}) \in Nat
    BY ThreadsFinite
  <2>2. QED
    BY <2>1 DEF ReadersInv, CountInv
<1>3. QED
  BY <1>1, <1>2, PTL

\* Nothing a bracket holds is given back (limbo_pass and give_back of engine/ledger.cyr,
\* ADR 0034): a poll never reads a scrubbed crew or another tenant's.
THEOREM ReadersSafe == Spec => []NoUseAfterRelease
<1>1. Spec => []ReadersInv
  BY ReadersInvInit, ReadersInvNext, StateTypesCorrect, PTL DEF Spec
<1>2. ReadersInv => NoUseAfterRelease
  BY DEF ReadersInv, HoldInv, NoUseAfterRelease
<1>3. QED
  BY <1>1, <1>2, PTL

----------------------------------------------------------------------------

\* RingOwnership with its conjuncts apart, one per crew or pair of crews.
RingInv ==
  /\ \A c \in Crews : ring[c] # NoRing <=> place[c] \in {"built", "ledger"}
  /\ \A c, d \in Crews : ring[c] # NoRing /\ ring[c] = ring[d] => c = d
  /\ \A c \in Crews : ring[c] \notin freeRings
  /\ freeRings \subseteq made
  /\ \A c \in Crews : ring[c] # NoRing => ring[c] \in made
  /\ \A r \in made : r \in freeRings \/ \E c \in Crews : ring[c] = r

\* The steps that move no ring and no crew into or out of the ledger keep RingInv.
LEMMA RingInvFrame ==
  ASSUME RingInv, UNCHANGED ringVars,
         \A c \in Crews : place'[c] \in {"built", "ledger"} <=> place[c] \in {"built", "ledger"}
  PROVE  RingInv'
BY DEF RingInv, ringVars

\* Each ring serves one crew and none is lost (ring_take and ring_give of
\* engine/ledger.cyr): no crew's events are ever read through another's entry.
THEOREM RingsExclusive == Spec => []RingOwnership
<1>1. Init => RingInv
  BY LedgerActors DEF Init, RingInv
<1>2. StateTypes /\ RingInv /\ [Next]_vars => RingInv'
  <2> SUFFICES ASSUME StateTypes, RingInv, [Next]_vars PROVE RingInv'
    OBVIOUS
  <2>1. ASSUME NEW t \in Threads, ReadBegin(t) \/ ReadEnd(t) PROVE RingInv'
    BY <2>1, RingInvFrame DEF ReadBegin, ReadEnd
  <2>2. ASSUME NEW t \in Threads, LimboPass(t) PROVE RingInv'
    <3>1. \A c \in Crews : place'[c] \in {"built", "ledger"} <=> place[c] \in {"built", "ledger"}
      BY <2>2 DEF LimboPass, Carried, InPlace, StateTypes
    <3>2. QED
      BY <2>2, <3>1, RingInvFrame DEF LimboPass
  <2>3. ASSUME NEW t \in Threads, NEW c \in Crews,
               Find(t, c) \/ Settle(t, c) \/ Reopen(t, c) \/ GiveBack(t, c)
        PROVE  RingInv'
    BY <2>3, RingInvFrame DEF Find, Settle, Reopen, GiveBack, StateTypes
  <2>4. ASSUME NEW t \in Threads, NEW c \in Crews, Build(t, c) PROVE RingInv'
    <3>1. PICK r \in (IF freeRings # {} THEN freeRings ELSE Rings \ made) :
            /\ ring' = [ring EXCEPT ![c] = r]
            /\ freeRings' = freeRings \ {r}
            /\ made' = made \cup {r}
      BY <2>4 DEF Build, RingTake
    <3>2. r \in Rings /\ r # NoRing /\ \A d \in Crews : ring[d] # r
      BY <3>1, LedgerActors DEF RingInv, StateTypes
    <3>3. ring[c] = NoRing
      BY <2>4 DEF Build, RingInv
    <3>4. /\ ring'[c] = r /\ place'[c] = "built"
          /\ \A d \in Crews \ {c} : ring'[d] = ring[d] /\ place'[d] = place[d]
      BY <2>4, <3>1 DEF Build, StateTypes
    <3>5. r \notin freeRings' /\ r \in made'
      BY <3>1
    <3>6. /\ \A q \in made : q \in made'
          /\ \A q \in freeRings : q = r \/ q \in freeRings'
          /\ \A q \in freeRings' : q \in freeRings
          /\ \A q \in made' : q = r \/ q \in made
      BY <3>1
    <3>7. \A d \in Crews : ring'[d] # NoRing <=> place'[d] \in {"built", "ledger"}
      BY <3>2, <3>4 DEF RingInv
    <3>8. \A d, e \in Crews : ring'[d] # NoRing /\ ring'[d] = ring'[e] => d = e
      BY <3>2, <3>4 DEF RingInv
    <3>9. \A d \in Crews : ring'[d] \notin freeRings'
      BY <3>4, <3>5, <3>6 DEF RingInv
    <3>10. freeRings' \subseteq made' /\ \A d \in Crews : ring'[d] # NoRing => ring'[d] \in made'
      BY <3>4, <3>5, <3>6 DEF RingInv
    <3>11. \A q \in made' : q \in freeRings' \/ \E d \in Crews : ring'[d] = q
      <4>1. TAKE q \in made'
      <4>2. CASE q = r
        BY <3>4, <4>2
      <4>3. CASE q # r
        <5>1. q \in freeRings \/ \E d \in Crews : ring[d] = q
          BY <3>6, <4>3 DEF RingInv
        <5>2. q # NoRing
          BY <3>6, <4>3, LedgerActors DEF StateTypes
        <5>3. QED
          BY <3>3, <3>4, <3>6, <4>3, <5>1, <5>2
      <4>4. QED
        BY <4>2, <4>3
    <3>12. QED
      BY <3>7, <3>8, <3>9, <3>10, <3>11 DEF RingInv
  <2>5. ASSUME NEW t \in Threads, NEW c \in Crews, Publish(t, c) PROVE RingInv'
    <3>1. PICK S \in Evictions :
            /\ place' = [d \in Crews |-> IF d \in S THEN "evicted"
                                         ELSE IF d = c THEN "ledger" ELSE place[d]]
            /\ ring' = [d \in Crews |-> IF d \in S THEN NoRing ELSE ring[d]]
            /\ freeRings' = freeRings \cup ({ring[d] : d \in S} \ {NoRing})
      BY <2>5 DEF Publish
    <3>2. \A d \in S : d \in Crews /\ place[d] = "ledger"
      BY DEF Evictions, Evictable, InPlace
    <3>3. place[c] = "built" /\ made' = made
      BY <2>5 DEF Publish
    <3>4. /\ \A d \in S : ring'[d] = NoRing /\ place'[d] = "evicted"
          /\ \A d \in Crews \ S : ring'[d] = ring[d]
          /\ \A d \in Crews \ S : place'[d] = IF d = c THEN "ledger" ELSE place[d]
      BY <3>1, <3>2
    <3>5. /\ \A d \in S : ring[d] # NoRing /\ ring[d] \in freeRings'
          /\ \A q \in freeRings : q \in freeRings'
          /\ \A q \in freeRings' : q \in freeRings \/ \E d \in S : ring[d] = q
      BY <3>1, <3>2 DEF RingInv
    <3>6. \A d \in Crews : ring'[d] # NoRing <=> place'[d] \in {"built", "ledger"}
      BY <3>2, <3>3, <3>4 DEF RingInv
    <3>7. \A d, e \in Crews : ring'[d] # NoRing /\ ring'[d] = ring'[e] => d = e
      BY <3>4 DEF RingInv
    <3>8. \A d \in Crews : ring'[d] \notin freeRings'
      <4>1. NoRing \notin freeRings'
        BY <3>1, LedgerActors DEF StateTypes
      <4>2. QED
        BY <3>2, <3>4, <3>5, <4>1 DEF RingInv
    <3>9. freeRings' \subseteq made' /\ \A d \in Crews : ring'[d] # NoRing => ring'[d] \in made'
      BY <3>2, <3>3, <3>4, <3>5 DEF RingInv
    <3>10. \A q \in made' : q \in freeRings' \/ \E d \in Crews : ring'[d] = q
      BY <3>3, <3>4, <3>5 DEF RingInv
    <3>11. QED
      BY <3>6, <3>7, <3>8, <3>9, <3>10 DEF RingInv
  <2>6. CASE UNCHANGED vars
    BY <2>6, RingInvFrame DEF vars, ringVars
  <2>7. QED
    BY <2>1, <2>2, <2>3, <2>4, <2>5, <2>6 DEF Next
<1>3. StateTypes /\ RingInv => RingOwnership
  <2> SUFFICES ASSUME StateTypes, RingInv PROVE RingOwnership
    OBVIOUS
  <2> DEFINE owned == {c \in Crews : ring[c] # NoRing}
  <2>1. owned = Aged
    BY DEF RingInv, Aged, InPlace
  <2>2. /\ \A c, d \in owned : ring[c] = ring[d] => c = d
        /\ freeRings \cap {ring[c] : c \in owned} = {}
    BY DEF RingInv
  <2>3. made = freeRings \cup {ring[c] : c \in owned}
    <3>1. \A r \in made : r \in freeRings \/ \E c \in owned : ring[c] = r
      BY LedgerActors DEF RingInv, StateTypes
    <3>2. \A c \in owned : ring[c] \in made
      BY DEF RingInv
    <3>3. QED
      BY <3>1, <3>2 DEF RingInv
  <2>4. QED
    BY <2>1, <2>2, <2>3 DEF RingOwnership
<1>4. QED
  BY <1>1, <1>2, <1>3, StateTypesCorrect, PTL DEF Spec
=============================================================================
