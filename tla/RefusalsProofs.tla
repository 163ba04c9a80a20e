--------------------------- MODULE RefusalsProofs ---------------------------
(***************************************************************************)
(* Proofs about refused requests, for every number of workers and kinds,   *)
(* every budget and every window: the trail is told of each refusal, and   *)
(* the workers overrun a budget by at most one budget each.                *)
(*                                                                         *)
(* FactKept is a sum over everybody's hands, so each step needs how it     *)
(* changes a count of pairs and of workers.  BudgetShared needs what it is *)
(* that a stale reading buys: a worker whose reading is older than the     *)
(* window's start may open a budget of its own, once.                      *)
(***************************************************************************)
EXTENDS Refusals, FiniteSetTheorems, TLAPS

\* Whose hands are empty when: the collector's while it sweeps, the stopper's until it
\* flushes; after the flush nothing is held and no worker has a refusal in hand.
HandsInv ==
  /\ sweeping => summary[Collector] = None
  /\ phase \in {"serving", "draining", "stopped"} => summary[Main] = None
  /\ phase \in {"flushed", "stopped"} => held = None /\ \A w \in Workers : Idle(w)

\* The workers whose reading is older than the window.
Late == {w \in Workers : reading[w] # Unread /\ reading[w] < since}

\* While the clock is never set back, nothing is dated after it, and the entries since a
\* window ran its length fit into a budget for each worker, less one for each that may still
\* open a window with an old reading, and less what is left of this window's.
BudgetInv ==
  backs = 0 =>
    /\ since <= clock /\ \A w \in Workers : reading[w] <= clock
    /\ \/ fresh + Burst * Cardinality(Late) <= Burst * (Cardinality(Workers) - 1) + spent
       \/ fresh = 0 /\ spent = 0
       \/ phase \in {"flushed", "stopped"} /\ fresh <= Burst * Cardinality(Workers)

RefusalInv == TypeOK /\ HandsInv /\ FactKept

----------------------------------------------------------------------------
(* Counting what is in hand                                                 *)

Pairs(f) == UNION {{a} \X (1 .. f[a]) : a \in Actors}

LEMMA ActorsFinite == IsFiniteSet(Actors)
<1>1. IsFiniteSet(Workers \cup {Collector})
  BY RefusalActors, FS_AddElement
<1>2. IsFiniteSet((Workers \cup {Collector}) \cup {Main})
  BY <1>1, FS_AddElement
<1>3. Actors = (Workers \cup {Collector}) \cup {Main}
  BY DEF Actors
<1>4. QED
  BY <1>2, <1>3

\* One actor's share of the pairs is as many as its summary counts.
LEMMA ShareCounts ==
  ASSUME NEW a, NEW n \in Nat
  PROVE  IsFiniteSet({a} \X (1 .. n)) /\ Cardinality({a} \X (1 .. n)) = n
<1>1. IsFiniteSet(1 .. n) /\ Cardinality(1 .. n) = n
  BY FS_Interval
<1>2. IsFiniteSet({a}) /\ Cardinality({a}) = 1
  BY FS_Singleton
<1>3. /\ IsFiniteSet({a} \X (1 .. n))
      /\ Cardinality({a} \X (1 .. n)) = Cardinality({a}) * Cardinality(1 .. n)
  BY <1>1, <1>2, FS_Product
<1>4. QED
  BY <1>1, <1>2, <1>3

\* The shares of any actors are finitely many pairs.
LEMMA SharesFinite ==
  ASSUME NEW f \in [Actors -> Nat], NEW A \in SUBSET Actors
  PROVE  IsFiniteSet(UNION {{a} \X (1 .. f[a]) : a \in A})
<1> DEFINE share == [a \in A |-> {a} \X (1 .. f[a])]
           shares == {{a} \X (1 .. f[a]) : a \in A}
<1>1. IsFiniteSet(A)
  BY ActorsFinite, FS_Subset
<1>2. share \in Surjection(A, shares)
  BY DEF Surjection
<1>3. IsFiniteSet(shares)
  BY <1>1, <1>2, FS_Surjection
<1>4. \A S \in shares : IsFiniteSet(S)
  BY ShareCounts
<1>5. QED
  BY <1>3, <1>4, FS_UNION

\* The pairs change by what one actor's count changes by.
LEMMA PairsChange ==
  ASSUME NEW f \in [Actors -> Nat], NEW g \in [Actors -> Nat], NEW a \in Actors,
         \A b \in Actors \ {a} : g[b] = f[b]
  PROVE  /\ Cardinality(Pairs(f)) \in Nat /\ Cardinality(Pairs(g)) \in Nat
         /\ Cardinality(Pairs(g)) + f[a] = Cardinality(Pairs(f)) + g[a]
<1> DEFINE rest == UNION {{b} \X (1 .. f[b]) : b \in Actors \ {a}}
<1>1. IsFiniteSet(rest) /\ Cardinality(rest) \in Nat
  BY SharesFinite, FS_CardinalityType
<1>2. ASSUME NEW h \in [Actors -> Nat], \A b \in Actors \ {a} : h[b] = f[b]
      PROVE  Cardinality(Pairs(h)) = Cardinality(rest) + h[a]
  <2> DEFINE mine == {a} \X (1 .. h[a])
  <2>1. Pairs(h) = rest \cup mine
    BY <1>2 DEF Pairs
  <2>2. rest \cap mine = {}
    OBVIOUS
  <2>3. IsFiniteSet(mine) /\ Cardinality(mine) = h[a]
    BY ShareCounts
  <2> HIDE DEF rest, mine
  <2>4. Cardinality(rest \cup mine) = Cardinality(rest) + Cardinality(mine) - Cardinality({})
    BY <1>1, <2>2, <2>3, FS_Union
  <2>5. QED
    BY <1>1, <2>1, <2>3, <2>4, FS_EmptySet
<1> HIDE DEF rest
<1>3. Cardinality(Pairs(f)) = Cardinality(rest) + f[a]
  BY <1>2
<1>4. Cardinality(Pairs(g)) = Cardinality(rest) + g[a]
  BY <1>2
<1>5. f[a] \in Nat /\ g[a] \in Nat
  OBVIOUS
<1>6. QED
  BY <1>1, <1>3, <1>4, <1>5

\* The summaries' counts of one kind.
CountsOf(k) == [a \in Actors |-> summary[a][k]]

LEMMA TakenPairs == ASSUME NEW k PROVE Taken(k) = Pairs(CountsOf(k))
  BY DEF Taken, Pairs, CountsOf

\* A summary taken or written by `a` changes what is taken by what it counts.
LEMMA TakenChange ==
  ASSUME TypeOK, TypeOK', NEW k \in Kinds, NEW a \in Actors,
         \A b \in Actors \ {a} : summary'[b] = summary[b]
  PROVE  /\ Cardinality(Taken(k)) \in Nat /\ Cardinality(Taken(k)') \in Nat
         /\ Cardinality(Taken(k)') + summary[a][k] = Cardinality(Taken(k)) + summary'[a][k]
<1> DEFINE f == CountsOf(k)
           g == [b \in Actors |-> summary'[b][k]]
<1>1. f \in [Actors -> Nat] /\ g \in [Actors -> Nat]
  BY DEF TypeOK, CountsOf
<1>2. \A b \in Actors \ {a} : g[b] = f[b]
  BY DEF CountsOf
<1>3. f[a] = summary[a][k] /\ g[a] = summary'[a][k]
  BY DEF CountsOf
<1>4. Taken(k)' = Pairs(g)
  BY DEF Taken, Pairs
<1>5. Taken(k) = Pairs(f)
  BY TakenPairs
<1> HIDE DEF f, g
<1>6. QED
  BY <1>1, <1>2, <1>3, <1>4, <1>5, PairsChange

\* When one actor alone has anything in hand, that is all that is taken.
LEMMA TakenByOne ==
  ASSUME TypeOK, NEW k \in Kinds, NEW a \in Actors,
         \A b \in Actors \ {a} : summary[b] = None
  PROVE  Cardinality(Taken(k)) = summary[a][k]
<1> DEFINE f == CountsOf(k)
           z == [b \in Actors |-> 0]
<1>1. f \in [Actors -> Nat] /\ z \in [Actors -> Nat]
  BY DEF TypeOK, CountsOf
<1>2. \A b \in Actors \ {a} : z[b] = f[b]
  BY DEF CountsOf, None
<1>3. f[a] = summary[a][k] /\ z[a] = 0 /\ f[a] \in Nat
  BY <1>1 DEF CountsOf
<1>4. Pairs(z) = {}
  BY DEF Pairs
<1>5. Taken(k) = Pairs(f)
  BY TakenPairs
<1> HIDE DEF f, z
<1>6. Cardinality(Pairs(z)) + f[a] = Cardinality(Pairs(f)) + z[a] /\ Cardinality(Pairs(f)) \in Nat
  BY <1>1, <1>2, PairsChange
<1>7. QED
  BY <1>3, <1>4, <1>5, <1>6, FS_EmptySet

\* The workers a function of theirs sends to `k`.
Holders(f, k) == {v \in Workers : f[v] = k}

\* How many they are when one worker's value changes.
LEMMA HoldersChange ==
  ASSUME NEW f, NEW g, NEW w \in Workers, NEW k,
         \A v \in Workers \ {w} : g[v] = f[v]
  PROVE  Cardinality(Holders(g, k)) + (IF f[w] = k THEN 1 ELSE 0)
           = Cardinality(Holders(f, k)) + (IF g[w] = k THEN 1 ELSE 0)
<1> DEFINE R == {v \in Workers \ {w} : f[v] = k}
<1>1. IsFiniteSet(R) /\ Cardinality(R) \in Nat /\ w \notin R
  BY RefusalActors, FS_Subset, FS_CardinalityType
<1>2. Cardinality(R \cup {w}) = Cardinality(R) + 1
  BY <1>1, FS_AddElement
<1>3. Holders(f, k) = IF f[w] = k THEN R \cup {w} ELSE R
  BY DEF Holders
<1>4. Holders(g, k) = IF g[w] = k THEN R \cup {w} ELSE R
  BY DEF Holders
<1> HIDE DEF R
<1>5. QED
  BY <1>1, <1>2, <1>3, <1>4

----------------------------------------------------------------------------
(* Types, and whose hands are empty                                         *)

USE RefusalBounds, RefusalActors

LEMMA NoneTyped == None \in [Kinds -> Nat] /\ \A k \in Kinds : None[k] = 0
  BY DEF None

LEMMA OneTyped ==
  ASSUME NEW k \in Kinds
  PROVE  One(k) \in [Kinds -> Nat] /\ \A j \in Kinds : One(k)[j] = IF j = k THEN 1 ELSE 0
  BY DEF One, None

LEMMA PlusTyped ==
  ASSUME NEW f \in [Kinds -> Nat], NEW g \in [Kinds -> Nat]
  PROVE  Plus(f, g) \in [Kinds -> Nat] /\ \A k \in Kinds : Plus(f, g)[k] = f[k] + g[k]
  BY DEF Plus

LEMMA TypesInit == Init => TypeOK /\ HandsInv
<1> SUFFICES ASSUME Init PROVE TypeOK /\ HandsInv
  OBVIOUS
<1>1. TypeOK
  <2>1. sweeping \in BOOLEAN
    BY Zenon DEF Init
  <2>2. QED
    BY <2>1, NoneTyped DEF Init, TypeOK, Unread
<1>2. HandsInv
  BY DEF Init, HandsInv, Actors
<1>3. QED
  BY <1>1, <1>2

TypeHands == TypeOK /\ HandsInv

\* A request is refused.
LEMMA RefuseTyped ==
  ASSUME TypeHands, NEW w \in Workers, NEW k \in Kinds, Refuse(w, k) PROVE TypeHands'
<1> USE DEF TypeHands
<1>1. TypeOK'
  BY DEF TypeOK, Refuse, Idle, Unread, window, trail, history
<1>2. HandsInv'
  BY DEF HandsInv, Refuse, Idle, window, trail, history
<1>3. QED
  BY <1>1, <1>2

\* A worker notes its refusal, and rolls the window if it is over.
LEMMA NoteTyped == ASSUME TypeHands, NEW w \in Workers, Note(w) PROVE TypeHands'
<1> USE DEF TypeHands
<1>1. noting[w] \in Kinds /\ reading[w] \in 0 .. MaxClock /\ own[w] = NoKind /\ summary[w] = None
  BY DEF Note, TypeOK
<1>2. One(noting[w]) \in [Kinds -> Nat] /\ None \in [Kinds -> Nat]
  BY <1>1, OneTyped, NoneTyped
<1>3. held' \in [Kinds -> Nat]
  <2>1. HeldAfter(reading[w], FALSE) \in [Kinds -> Nat]
    BY <1>2 DEF HeldAfter, TypeOK
  <2>2. QED
    BY <1>2, <2>1, PlusTyped DEF Note
<1>4. summary' \in [Actors -> [Kinds -> Nat]]
  BY <1>2 DEF Note, Roll, Take, TypeOK
<1>5. spent' \in 0 .. Burst /\ since' \in 0 .. MaxClock /\ fresh' \in Nat
  BY <1>1 DEF Note, Roll, SpentAfter, Within, TypeOK
<1>6. TypeOK'
  BY <1>1, <1>3, <1>4, <1>5 DEF TypeOK, Note, Roll, trail, Actors
<1>7. HandsInv'
  BY <1>1 DEF HandsInv, Note, Roll, Idle, trail, TypeOK, Actors
<1>8. QED
  BY <1>6, <1>7

\* What a flush does to the types, whoever makes it.
LEMMA FlushTyped ==
  ASSUME TypeOK, NEW a \in {Collector, Main}, NEW force \in BOOLEAN, Flush(a, force),
         phase' \in {"serving", "draining", "flushed", "stopped"}, sweeping' \in BOOLEAN
  PROVE  TypeOK'
<1>1. None \in [Kinds -> Nat]
  BY NoneTyped
<1>2. held' \in [Kinds -> Nat]
  BY <1>1 DEF Flush, HeldAfter, TypeOK
<1>3. summary' \in [Actors -> [Kinds -> Nat]] /\ \A w \in Workers : summary'[w] = summary[w]
  BY <1>1 DEF Flush, Roll, Take, TypeOK, Actors
<1>4. spent' \in 0 .. Burst /\ since' \in 0 .. MaxClock /\ fresh' \in Nat
  BY DEF Flush, Roll, SpentAfter, TypeOK
<1>5. QED
  BY <1>2, <1>3, <1>4 DEF TypeOK, Flush, Roll, trail, work

LEMMA CollectorFlushTyped == ASSUME TypeHands, CollectorFlush PROVE TypeHands'
<1> USE DEF TypeHands
<1>1. TypeOK'
  BY FlushTyped DEF CollectorFlush, TypeOK
<1>2. HandsInv'
  BY DEF HandsInv, CollectorFlush, Flush, Roll, HeldAfter, Idle, work, TypeOK, Actors
<1>3. QED
  BY <1>1, <1>2

LEMMA StopFlushTyped == ASSUME TypeHands, StopFlush PROVE TypeHands'
<1> USE DEF TypeHands
<1>1. TypeOK'
  BY FlushTyped DEF StopFlush, Forced, TypeOK
<1>2. HandsInv'
  BY DEF HandsInv, StopFlush, Forced, Flush, Roll, HeldAfter, Idle, work, TypeOK, Actors
<1>3. QED
  BY <1>1, <1>2

\* The trail takes a summary or an entry, or its write fails.
LEMMA WriteHeldTyped == ASSUME TypeHands, NEW a \in Actors, WriteHeld(a) PROVE TypeHands'
<1> USE DEF TypeHands
<1>1. summary[a] \in [Kinds -> Nat] /\ None \in [Kinds -> Nat]
  BY NoneTyped DEF TypeOK
<1>2. told' \in [Kinds -> Nat] /\ lost' \in [Kinds -> Nat]
  BY <1>1, PlusTyped DEF WriteHeld, TypeOK
<1>3. summary' \in [Actors -> [Kinds -> Nat]]
  BY <1>1 DEF WriteHeld, TypeOK
<1>4. TypeOK'
  BY <1>2, <1>3 DEF TypeOK, WriteHeld, window, work, history, Actors
<1>5. HandsInv'
  BY DEF HandsInv, WriteHeld, Idle, window, work, history, TypeOK, Actors
<1>6. QED
  BY <1>4, <1>5

LEMMA WriteOwnTyped == ASSUME TypeHands, NEW w \in Workers, WriteOwn(w) PROVE TypeHands'
<1> USE DEF TypeHands
<1>1. One(own[w]) \in [Kinds -> Nat]
  BY OneTyped DEF WriteOwn, TypeOK
<1>2. told' \in [Kinds -> Nat] /\ lost' \in [Kinds -> Nat]
  BY <1>1, PlusTyped DEF WriteOwn, TypeOK
<1>3. TypeOK'
  BY <1>2 DEF TypeOK, WriteOwn, window, history
<1>4. HandsInv'
  BY DEF HandsInv, WriteOwn, Idle, window, history, TypeOK
<1>5. QED
  BY <1>3, <1>4

\* The steps that neither count, hold nor write anything.
Aside == Sweep \/ Stop \/ Exit \/ Tick \/ SetBack \/ UNCHANGED vars

LEMMA AsideTyped == ASSUME TypeHands, Aside PROVE TypeHands'
<1> USE DEF TypeHands
<1>1. UNCHANGED <<counts, since, spent, held, reading, noting, summary, own, told, lost, fresh>>
  BY DEF Aside, Sweep, Stop, Exit, Tick, SetBack, vars, window, work, trail, history
<1>2. /\ clock' \in 0 .. MaxClock /\ backs' \in 0 .. MaxBack
      /\ phase' \in {"serving", "draining", "flushed", "stopped"} /\ sweeping' \in BOOLEAN
  <2>1. clock' \in 0 .. MaxClock /\ backs' \in 0 .. MaxBack
    BY DEF Aside, Sweep, Stop, Exit, Tick, SetBack, vars, trail, history, TypeOK
  <2>2. phase' \in {"serving", "draining", "flushed", "stopped"}
    BY DEF Aside, Sweep, Stop, Exit, Tick, SetBack, vars, TypeOK
  <2>3. sweeping' \in BOOLEAN
    BY Zenon DEF Aside, Sweep, Stop, Exit, Tick, SetBack, vars, TypeOK
  <2>4. QED
    BY <2>1, <2>2, <2>3
<1>3. TypeOK'
  BY <1>1, <1>2 DEF TypeOK
<1>4. HandsInv'
  BY <1>1 DEF HandsInv, Idle, Aside, Sweep, Stop, Exit, Tick, SetBack, vars
<1>5. QED
  BY <1>3, <1>4

LEMMA TypesStep == TypeHands /\ [Next]_vars => TypeHands'
<1> SUFFICES ASSUME TypeHands, [Next]_vars PROVE TypeHands'
  OBVIOUS
<1>1. CASE Aside
  BY <1>1, AsideTyped
<1>2. CASE ~Aside
  BY <1>2, RefuseTyped, NoteTyped, CollectorFlushTyped, StopFlushTyped, WriteHeldTyped,
     WriteOwnTyped
  DEF Next, Aside
<1>3. QED
  BY <1>1, <1>2

\* Every variable keeps its type (agnostic_refusal_note_a and its callers).
THEOREM RefusalTypes == Spec => []TypeOK
<1>1. TypeHands => TypeOK
  BY DEF TypeHands
<1>2. QED
  BY <1>1, TypesInit, TypesStep, PTL DEF Spec, TypeHands

----------------------------------------------------------------------------
(* Every refusal is somewhere                                               *)

\* The workers that owe an entry of kind `k`, and those that are noting one.
Owing(k) == Holders(own, k)
Noting(k) == Holders(noting, k)

InTypes(k) ==
  /\ counts[k] \in Nat /\ told[k] \in Nat /\ lost[k] \in Nat /\ held[k] \in Nat
  /\ Cardinality(Taken(k)) \in Nat /\ Cardinality(Owing(k)) \in Nat
  /\ Cardinality(Noting(k)) \in Nat

LEMMA CountsTyped == ASSUME TypeOK, TypeOK', NEW k \in Kinds PROVE InTypes(k) /\ InTypes(k)'
<1>1. \A S \in SUBSET Workers : Cardinality(S) \in Nat
  BY FS_Subset, FS_CardinalityType
<1>2. Owing(k) \in SUBSET Workers /\ Noting(k) \in SUBSET Workers
  BY DEF Owing, Noting, Holders
<1>3. Owing(k)' \in SUBSET Workers /\ Noting(k)' \in SUBSET Workers
  BY DEF Owing, Noting, Holders
<1>4. ASSUME NEW f \in [Actors -> Nat] PROVE Cardinality(Pairs(f)) \in Nat
  BY PairsChange, Zenon DEF Actors
<1>5. Cardinality(Taken(k)) \in Nat
  <2>1. CountsOf(k) \in [Actors -> Nat]
    BY DEF TypeOK, CountsOf
  <2>2. QED
    BY <1>4, <2>1, TakenPairs
<1>6. Cardinality(Taken(k)') \in Nat
  <2>1. Taken(k)' = Pairs([a \in Actors |-> summary'[a][k]])
    BY DEF Taken, Pairs
  <2>2. QED
    BY <1>4, <2>1 DEF TypeOK
<1>7. QED
  BY <1>1, <1>2, <1>3, <1>5, <1>6 DEF InTypes, TypeOK

\* The fact about one kind, with the three counts named.
Kept(k) == counts[k] = told[k] + lost[k] + held[k]
             + (Cardinality(Taken(k)) + Cardinality(Owing(k)) + Cardinality(Noting(k)))

LEMMA KeptIsFact == FactKept <=> \A k \in Kinds : Kept(k)
  BY DEF FactKept, Kept, InHand, Owing, Noting, Holders

LEMMA KeptIsFactNext == FactKept' <=> \A k \in Kinds : Kept(k)'
  BY DEF FactKept, Kept, InHand, Owing, Noting, Holders

\* How a step changes who owes and who is noting.
LEMMA OwingChange ==
  ASSUME NEW w \in Workers, NEW k \in Kinds, \A v \in Workers \ {w} : own'[v] = own[v]
  PROVE  Cardinality(Owing(k)') + (IF own[w] = k THEN 1 ELSE 0)
           = Cardinality(Owing(k)) + (IF own'[w] = k THEN 1 ELSE 0)
<1>1. Owing(k)' = Holders(own', k)
  BY DEF Owing, Holders
<1>2. QED
  BY <1>1, HoldersChange DEF Owing

LEMMA NotingChange ==
  ASSUME NEW w \in Workers, NEW k \in Kinds, \A v \in Workers \ {w} : noting'[v] = noting[v]
  PROVE  Cardinality(Noting(k)') + (IF noting[w] = k THEN 1 ELSE 0)
           = Cardinality(Noting(k)) + (IF noting'[w] = k THEN 1 ELSE 0)
<1>1. Noting(k)' = Holders(noting', k)
  BY DEF Noting, Holders
<1>2. QED
  BY <1>1, HoldersChange DEF Noting

\* A refusal that is counted is being noted.
LEMMA RefuseKeepsFact ==
  ASSUME TypeHands, TypeHands', FactKept, NEW w \in Workers, NEW j \in Kinds, Refuse(w, j)
  PROVE  FactKept'
<1> SUFFICES ASSUME NEW k \in Kinds PROVE Kept(k)'
  BY KeptIsFactNext
<1> USE DEF TypeHands
<1>1. InTypes(k) /\ InTypes(k)' /\ Kept(k)
  BY CountsTyped, KeptIsFact
<1>2. Taken(k)' = Taken(k) /\ Owing(k)' = Owing(k)
  BY DEF Refuse, Taken, Owing, Holders
<1>3. noting[w] = NoKind /\ noting'[w] = j /\ \A v \in Workers \ {w} : noting'[v] = noting[v]
  BY DEF Refuse, Idle, TypeOK
<1>4. Cardinality(Noting(k)') = Cardinality(Noting(k)) + (IF j = k THEN 1 ELSE 0)
  BY <1>1, <1>3, NotingChange DEF InTypes
<1>5. counts'[k] = counts[k] + (IF j = k THEN 1 ELSE 0)
  BY DEF Refuse, TypeOK
<1>6. UNCHANGED <<told, lost, held>>
  BY DEF Refuse, trail, window
<1>7. QED
  BY <1>1, <1>2, <1>4, <1>5, <1>6 DEF Kept, InTypes

\* A roll by `a`, who has nothing in hand, moves what is held into its hand.
LEMMA RollMoves ==
  ASSUME TypeOK, TypeOK', NEW a \in Actors, summary[a] = None, NEW now, NEW force,
         Roll(a, now, force), NEW k \in Kinds
  PROVE  /\ HeldAfter(now, force)[k] \in Nat
         /\ HeldAfter(now, force)[k] + Cardinality(Taken(k)') = held[k] + Cardinality(Taken(k))
<1>1. \A b \in Actors \ {a} : summary'[b] = summary[b]
  BY DEF Roll, TypeOK
<1>2. summary[a][k] = 0 /\ held[k] \in Nat
  BY NoneTyped DEF TypeOK
<1>3. /\ Cardinality(Taken(k)) \in Nat /\ Cardinality(Taken(k)') \in Nat
      /\ Cardinality(Taken(k)') + summary[a][k] = Cardinality(Taken(k)) + summary'[a][k]
  BY <1>1, TakenChange
<1>4. HeldAfter(now, force)[k] \in Nat /\ HeldAfter(now, force)[k] + summary'[a][k] = held[k]
  BY <1>2, NoneTyped DEF Roll, Take, HeldAfter, TypeOK
<1>5. summary'[a][k] \in Nat
  BY DEF TypeOK
<1>6. QED
  BY <1>2, <1>3, <1>4, <1>5

\* A refusal that is noted is owed as an entry of its own or held.
LEMMA NoteKeepsFact ==
  ASSUME TypeHands, TypeHands', FactKept, NEW w \in Workers, Note(w)
  PROVE  FactKept'
<1> SUFFICES ASSUME NEW k \in Kinds PROVE Kept(k)'
  BY KeptIsFactNext
<1> USE DEF TypeHands
<1> DEFINE now == reading[w]
           one == IF noting[w] = k THEN 1 ELSE 0
           after == HeldAfter(now, FALSE)[k]
<1>1. InTypes(k) /\ InTypes(k)' /\ Kept(k)
  BY CountsTyped, KeptIsFact
<1>2. noting[w] \in Kinds /\ own[w] = NoKind /\ summary[w] = None /\ Roll(w, now, FALSE)
  BY DEF Note, TypeOK
<1>3. /\ after \in Nat
      /\ after + Cardinality(Taken(k)') = held[k] + Cardinality(Taken(k))
  BY <1>2, RollMoves DEF Actors
<1>4. Cardinality(Noting(k)') + one = Cardinality(Noting(k))
  <2>1. noting'[w] = NoKind /\ \A v \in Workers \ {w} : noting'[v] = noting[v]
    BY DEF Note, TypeOK
  <2>2. QED
    BY <1>1, <2>1, NotingChange DEF InTypes
<1>5. \/ /\ held'[k] = after
         /\ Cardinality(Owing(k)') = Cardinality(Owing(k)) + one
      \/ /\ held'[k] = after + one
         /\ Cardinality(Owing(k)') = Cardinality(Owing(k))
  <2>1. CASE Within(SpentAfter(now, FALSE))
    <3>1. held' = HeldAfter(now, FALSE)
      BY <2>1 DEF Note
    <3>2. own'[w] = noting[w] /\ \A v \in Workers \ {w} : own'[v] = own[v]
      BY <1>2, <2>1 DEF Note, TypeOK
    <3>3. Cardinality(Owing(k)') = Cardinality(Owing(k)) + one
      BY <1>1, <1>2, <3>2, OwingChange DEF InTypes
    <3>4. QED
      BY <3>1, <3>3
  <2>2. CASE ~Within(SpentAfter(now, FALSE))
    <3>1. held' = Plus(HeldAfter(now, FALSE), One(noting[w])) /\ own' = own
      BY <2>2 DEF Note
    <3>2. held'[k] = after + one
      BY <1>2, <3>1, OneTyped DEF Plus
    <3>3. QED
      BY <3>1, <3>2 DEF Owing, Holders
  <2>3. QED
    BY <2>1, <2>2
<1>6. UNCHANGED <<counts, told, lost>>
  BY DEF Note, Roll, trail
<1>7. one \in Nat
  OBVIOUS
<1> HIDE DEF now, one, after
<1>8. held'[k] + Cardinality(Owing(k)')
        = after + Cardinality(Owing(k)) + one
  BY <1>1, <1>3, <1>5, <1>7 DEF InTypes
<1>9. held'[k] + Cardinality(Owing(k)') + Cardinality(Taken(k)') + Cardinality(Noting(k)')
        = held[k] + Cardinality(Owing(k)) + Cardinality(Taken(k)) + Cardinality(Noting(k))
  <2>1. held'[k] + Cardinality(Owing(k)') + Cardinality(Taken(k)')
          = held[k] + Cardinality(Owing(k)) + Cardinality(Taken(k)) + one
    BY <1>1, <1>3, <1>7, <1>8 DEF InTypes
  <2>2. QED
    BY <1>1, <1>4, <1>7, <2>1 DEF InTypes
<1>10. QED
  BY <1>1, <1>6, <1>9 DEF Kept, InTypes

\* A flush takes what is held into an empty hand.
LEMMA FlushKeepsFact ==
  ASSUME TypeOK, TypeOK', FactKept, NEW a \in {Collector, Main}, NEW force,
         summary[a] = None, Flush(a, force)
  PROVE  FactKept'
<1> SUFFICES ASSUME NEW k \in Kinds PROVE Kept(k)'
  BY KeptIsFactNext
<1>1. InTypes(k) /\ InTypes(k)' /\ Kept(k)
  BY CountsTyped, KeptIsFact
<1>2. held'[k] + Cardinality(Taken(k)') = held[k] + Cardinality(Taken(k))
  <2>1. Roll(a, clock, force) /\ held' = HeldAfter(clock, force) /\ a \in Actors
    BY DEF Flush, Actors
  <2>2. QED
    BY <2>1, RollMoves
<1>3. UNCHANGED <<counts, told, lost>> /\ Owing(k)' = Owing(k) /\ Noting(k)' = Noting(k)
  BY DEF Flush, Roll, trail, work, Owing, Noting
<1>4. QED
  BY <1>1, <1>2, <1>3 DEF Kept, InTypes

\* What is written leaves the hand for the trail, or is lost with a failed write.
LEMMA WriteHeldKeepsFact ==
  ASSUME TypeHands, TypeHands', FactKept, NEW a \in Actors, WriteHeld(a)
  PROVE  FactKept'
<1> SUFFICES ASSUME NEW k \in Kinds PROVE Kept(k)'
  BY KeptIsFactNext
<1> USE DEF TypeHands
<1>1. InTypes(k) /\ InTypes(k)' /\ Kept(k)
  BY CountsTyped, KeptIsFact
<1>2. summary'[a] = None /\ \A b \in Actors \ {a} : summary'[b] = summary[b]
  BY DEF WriteHeld, TypeOK
<1>3. Cardinality(Taken(k)') + summary[a][k] = Cardinality(Taken(k))
  BY <1>1, <1>2, TakenChange, NoneTyped DEF InTypes
<1>4. summary[a][k] \in Nat
  BY DEF TypeOK
<1>5. told'[k] + lost'[k] = told[k] + lost[k] + summary[a][k]
  BY <1>1, <1>4 DEF WriteHeld, Plus, InTypes
<1>6. UNCHANGED <<counts, held>> /\ Owing(k)' = Owing(k) /\ Noting(k)' = Noting(k)
  BY DEF WriteHeld, window, work, Owing, Noting
<1>7. QED
  BY <1>1, <1>3, <1>4, <1>5, <1>6 DEF Kept, InTypes

LEMMA WriteOwnKeepsFact ==
  ASSUME TypeHands, TypeHands', FactKept, NEW w \in Workers, WriteOwn(w)
  PROVE  FactKept'
<1> SUFFICES ASSUME NEW k \in Kinds PROVE Kept(k)'
  BY KeptIsFactNext
<1> USE DEF TypeHands
<1> DEFINE one == IF own[w] = k THEN 1 ELSE 0
<1>1. InTypes(k) /\ InTypes(k)' /\ Kept(k)
  BY CountsTyped, KeptIsFact
<1>2. own[w] \in Kinds /\ own'[w] = NoKind /\ \A v \in Workers \ {w} : own'[v] = own[v]
  BY DEF WriteOwn, TypeOK
<1>3. Cardinality(Owing(k)') + one = Cardinality(Owing(k))
  BY <1>1, <1>2, OwingChange DEF InTypes
<1>4. told'[k] + lost'[k] = told[k] + lost[k] + one
  <2>1. One(own[w])[k] = one
    BY <1>2, OneTyped
  <2>2. QED
    BY <1>1, <2>1 DEF WriteOwn, Plus, InTypes
<1>5. UNCHANGED <<counts, held>> /\ Taken(k)' = Taken(k) /\ Noting(k)' = Noting(k)
  BY DEF WriteOwn, window, Taken, Noting, Holders
<1>6. QED
  BY <1>1, <1>3, <1>4, <1>5 DEF Kept, InTypes

LEMMA AsideKeepsFact == ASSUME FactKept, Aside PROVE FactKept'
<1>1. UNCHANGED <<counts, held, noting, summary, own, told, lost>>
  BY DEF Aside, Sweep, Stop, Exit, Tick, SetBack, vars, window, work, trail
<1>2. QED
  BY <1>1 DEF FactKept, InHand, Taken

----------------------------------------------------------------------------

LEMMA RefusalInvInit == Init => RefusalInv
<1> SUFFICES ASSUME Init PROVE RefusalInv
  OBVIOUS
<1>1. TypeOK /\ HandsInv
  BY TypesInit
<1>2. ASSUME NEW k \in Kinds PROVE Kept(k)
  <2>1. Taken(k) = {}
    BY DEF Init, Taken, None
  <2>2. Owing(k) = {} /\ Noting(k) = {}
    BY DEF Init, Owing, Noting, Holders
  <2>3. QED
    BY <2>1, <2>2, FS_EmptySet, NoneTyped DEF Init, Kept
<1>3. QED
  BY <1>1, <1>2, KeptIsFact DEF RefusalInv

LEMMA RefusalInvStep == RefusalInv /\ [Next]_vars => RefusalInv'
<1> SUFFICES ASSUME RefusalInv, [Next]_vars PROVE RefusalInv'
  OBVIOUS
<1>1. TypeHands /\ TypeHands' /\ FactKept
  BY TypesStep DEF RefusalInv, TypeHands
<1>2. FactKept'
  <2>1. CASE Aside
    BY <1>1, <2>1, AsideKeepsFact
  <2>2. ASSUME NEW w \in Workers, NEW k \in Kinds, Refuse(w, k) PROVE FactKept'
    BY <1>1, <2>2, RefuseKeepsFact
  <2>3. ASSUME NEW w \in Workers, Note(w) \/ WriteOwn(w) PROVE FactKept'
    BY <1>1, <2>3, NoteKeepsFact, WriteOwnKeepsFact
  <2>4. ASSUME NEW a \in Actors, WriteHeld(a) PROVE FactKept'
    BY <1>1, <2>4, WriteHeldKeepsFact
  <2>5. CASE CollectorFlush
    BY <1>1, <2>5, FlushKeepsFact DEF CollectorFlush, TypeHands, HandsInv
  <2>6. CASE StopFlush
    BY <1>1, <2>6, FlushKeepsFact DEF StopFlush, TypeHands, HandsInv
  <2>7. QED
    BY <2>1, <2>2, <2>3, <2>4, <2>5, <2>6 DEF Next, Aside
<1>3. QED
  BY <1>1, <1>2 DEF RefusalInv, TypeHands

\* What is withheld from the trail is the detail and never the fact, and a graceful stop
\* tells, or fails to write, all but a summary the collector still had in its hand
\* (agnostic_refusal_note_a, agnostic_refusals_flush_a, agnostic_serve).
THEOREM RefusalsAllTold == Spec => []RefusalsTold
<1>1. RefusalInv => RefusalsTold
  <2> SUFFICES ASSUME RefusalInv, phase = "stopped", NEW k \in Kinds
               PROVE  counts[k] = told[k] + lost[k] + summary[Collector][k]
    BY DEF RefusalInv, RefusalsTold, StopTold
  <2> USE DEF RefusalInv
  <2>1. \A b \in Actors \ {Collector} : summary[b] = None
    BY DEF HandsInv, Idle, Actors
  <2>2. Cardinality(Taken(k)) = summary[Collector][k]
    BY <2>1, TakenByOne DEF Actors
  <2>3. Owing(k) = {} /\ Noting(k) = {}
    BY DEF HandsInv, Idle, TypeOK, Owing, Noting, Holders
  <2>4. held[k] = 0
    BY NoneTyped DEF HandsInv
  <2>5. counts[k] = told[k] + lost[k] + held[k] + (Cardinality(Taken(k)) + 0 + 0)
    BY <2>3, KeptIsFact, FS_EmptySet DEF Kept
  <2>6. told[k] \in Nat /\ lost[k] \in Nat /\ summary[Collector][k] \in Nat
    BY DEF TypeOK, Actors
  <2>7. QED
    BY <2>2, <2>4, <2>5, <2>6
<1>2. QED
  BY <1>1, RefusalInvInit, RefusalInvStep, PTL DEF Spec

----------------------------------------------------------------------------
(* What the workers overrun a budget by                                     *)

SharesInv == TypeHands /\ BudgetInv

LEMMA LateCounted ==
  ASSUME NEW S \in SUBSET Workers
  PROVE  /\ IsFiniteSet(S) /\ Cardinality(S) \in Nat /\ Cardinality(S) <= Cardinality(Workers)
         /\ Cardinality(Workers) \in Nat
         /\ \A w \in Workers \ S : Cardinality(S) <= Cardinality(Workers) - 1
<1>1. IsFiniteSet(S) /\ Cardinality(S) \in Nat /\ Cardinality(S) <= Cardinality(Workers)
      /\ Cardinality(Workers) \in Nat
  BY FS_Subset, FS_CardinalityType
<1>2. ASSUME NEW w \in Workers \ S PROVE Cardinality(S) <= Cardinality(Workers) - 1
  <2>1. S \in SUBSET (Workers \ {w})
    BY <1>2
  <2>2. IsFiniteSet(Workers \ {w}) /\ Cardinality(Workers \ {w}) = Cardinality(Workers) - 1
    BY FS_RemoveElement
  <2>3. QED
    BY <2>1, <2>2, FS_Subset
<1>3. QED
  BY <1>1, <1>2

\* A budget for each of fewer workers is less.
LEMMA Budgets ==
  ASSUME NEW m \in Int, NEW n \in Int
  PROVE  /\ Burst * m \in Int /\ Burst * n \in Int
         /\ m <= n => Burst * m <= Burst * n
         /\ Burst * (m - 1) = Burst * m - Burst
  OBVIOUS

\* What a note does to the window and to the entries of their own, in its three cases.
LEMMA NoteCases ==
  ASSUME TypeOK, NEW w \in Workers, Note(w), backs = 0,
         since <= clock, \A v \in Workers : reading[v] <= clock
  PROVE  \/ /\ RanOut(reading[w])
            /\ since' = reading[w] /\ spent' = 1 /\ fresh' = 1
         \/ /\ reading[w] < since
            /\ since' = reading[w] /\ spent' = 1 /\ fresh' = fresh + 1
         \/ /\ reading[w] >= since /\ since' = since
            /\ spent' - spent = fresh' - fresh /\ spent' >= spent
<1> USE DEF Note, Roll, RanOut, Over, SpentAfter, Within, TypeOK
<1>1. reading[w] \in 0 .. MaxClock /\ since \in 0 .. MaxClock /\ spent \in 0 .. Burst /\ fresh \in Nat
  BY DEF Unread
<1>2. CASE RanOut(reading[w])
  BY <1>1, <1>2
<1>3. CASE reading[w] < since
  BY <1>1, <1>3
<1>4. CASE ~RanOut(reading[w]) /\ reading[w] >= since
  BY <1>1, <1>4
<1>5. QED
  BY <1>1, <1>2, <1>3, <1>4

\* The entries since a window ran its length, as BudgetInv bounds them.
Fits == fresh + Burst * Cardinality(Late) <= Burst * (Cardinality(Workers) - 1) + spent

LEMMA NoteKeepsBudget ==
  ASSUME TypeHands, TypeHands', BudgetInv, NEW w \in Workers, Note(w), backs' = 0
  PROVE  BudgetInv'
<1> USE DEF TypeHands
<1> DEFINE n == Cardinality(Workers)
           l == Cardinality(Late)
           m == Cardinality(Late')
<1>1. backs = 0 /\ clock' = clock /\ phase' = phase
  BY DEF Note, Roll
<1>2. /\ since <= clock /\ \A v \in Workers : reading[v] <= clock
      /\ Fits \/ (fresh = 0 /\ spent = 0)
  BY <1>1 DEF BudgetInv, HandsInv, Idle, Note, TypeOK, Fits
<1>3. reading' = [reading EXCEPT ![w] = Unread] /\ reading[w] \in 0 .. MaxClock
  BY DEF Note, TypeOK
<1>4. /\ clock \in Nat /\ since \in Nat /\ spent \in 0 .. Burst /\ fresh \in Nat
      /\ \A v \in Workers : reading[v] \in Int
  BY DEF TypeOK, Unread
<1>5. since' <= clock' /\ \A v \in Workers : reading'[v] <= clock'
  BY <1>1, <1>2, <1>3, <1>4 DEF Note, Roll, TypeOK, Unread
<1>6. /\ l \in Nat /\ m \in Nat /\ n \in Nat /\ m <= n - 1
      /\ Late \in SUBSET Workers /\ Late' \in SUBSET Workers /\ IsFiniteSet(Late)
  <2>1. Late \in SUBSET Workers /\ Late' \in SUBSET Workers /\ w \notin Late'
    BY <1>3 DEF Late, TypeOK
  <2>2. QED
    BY <2>1, LateCounted
<1>7. CASE since' = reading[w] /\ spent' = 1 /\ fresh' = 1
  <2>1. Burst * m <= Burst * (n - 1)
    BY <1>6, Budgets
  <2>2. fresh' + Burst * m <= Burst * (n - 1) + spent'
    BY <1>6, <1>7, <2>1, Budgets
  <2>3. QED
    BY <1>5, <2>2 DEF BudgetInv
<1>8. CASE reading[w] < since /\ since' = reading[w] /\ spent' = 1 /\ fresh' = fresh + 1
  <2>1. CASE fresh = 0 /\ spent = 0
    BY <1>7, <1>8, <2>1
  <2>2. CASE Fits
    <3>1. w \in Late /\ Late' \in SUBSET (Late \ {w})
      BY <1>3, <1>4, <1>8 DEF Late, TypeOK, Unread
    <3>2. m <= l - 1
      <4>1. IsFiniteSet(Late \ {w}) /\ Cardinality(Late \ {w}) = l - 1
        BY <1>6, <3>1, FS_RemoveElement
      <4>2. QED
        BY <3>1, <4>1, FS_Subset
    <3>3. Burst * m <= Burst * l - Burst
      BY <1>6, <3>2, Budgets
    <3>4. fresh + Burst * l <= Burst * (n - 1) + spent
      BY <2>2 DEF Fits
    <3>5. Burst * m \in Int /\ Burst * l \in Int /\ Burst * (n - 1) \in Int
      BY <1>6, Budgets
    <3> HIDE DEF n, l, m
    <3>6. fresh' + Burst * m <= Burst * (n - 1) + spent'
      BY <1>4, <1>8, <3>3, <3>4, <3>5
    <3>7. QED
      BY <1>5, <3>6 DEF BudgetInv, n, m
  <2>3. QED
    BY <1>2, <2>1, <2>2
<1>9. CASE reading[w] >= since /\ since' = since
           /\ spent' - spent = fresh' - fresh /\ spent' >= spent
  <2>1. Late' = Late
    BY <1>3, <1>4, <1>9 DEF Late, TypeOK, Unread
  <2>2. spent' \in Nat /\ fresh' \in Nat
    BY DEF TypeOK
  <2>3. Burst * m <= Burst * (n - 1) /\ Burst * m \in Int /\ Burst * (n - 1) \in Int
    BY <1>6, Budgets
  <2>4. fresh' + Burst * m <= Burst * (n - 1) + spent'
    <3>1. CASE fresh = 0 /\ spent = 0
      BY <1>9, <2>2, <2>3, <3>1
    <3>2. CASE Fits
      <4>1. fresh + Burst * m <= Burst * (n - 1) + spent
        BY <2>1, <3>2 DEF Fits
      <4> HIDE DEF n, m
      <4>2. QED
        BY <1>4, <1>9, <2>2, <2>3, <4>1
    <3>3. QED
      BY <1>2, <3>1, <3>2
  <2>5. QED
    BY <1>5, <2>4 DEF BudgetInv
<1>10. QED
  BY <1>1, <1>2, <1>7, <1>8, <1>9, NoteCases

\* A flush by the collector ends the window only when it has run its length.
LEMMA CollectorFlushKeepsBudget ==
  ASSUME TypeHands, BudgetInv, CollectorFlush, backs' = 0
  PROVE  BudgetInv'
<1> USE DEF TypeHands
<1>1. backs = 0 /\ clock' = clock /\ phase' = phase /\ reading' = reading
  BY DEF CollectorFlush, Flush, Roll, work
<1>2. since <= clock /\ \A v \in Workers : reading[v] <= clock
  BY <1>1 DEF BudgetInv
<1>3. clock \in Nat /\ since \in Nat
  BY DEF TypeOK
<1>4. CASE RanOut(clock)
  <2>1. fresh' = 0 /\ spent' = 0 /\ since' = clock
    BY <1>4 DEF CollectorFlush, Flush, Roll, SpentAfter, Over
  <2>2. QED
    BY <1>1, <1>2, <1>3, <2>1 DEF BudgetInv
<1>5. CASE ~RanOut(clock)
  <2>1. ~Over(clock)
    BY <1>2, <1>3, <1>5 DEF Over
  <2>2. UNCHANGED <<fresh, spent, since>>
    BY <1>5, <2>1 DEF CollectorFlush, Flush, Roll, SpentAfter
  <2>3. QED
    BY <1>1, <2>2 DEF BudgetInv, Late
<1>6. QED
  BY <1>4, <1>5

\* A stop's flush opens the last window, into which nobody writes any more.
LEMMA StopFlushKeepsBudget ==
  ASSUME TypeHands, BudgetInv, StopFlush, backs' = 0
  PROVE  BudgetInv'
<1> USE DEF TypeHands
<1> DEFINE n == Cardinality(Workers)
           l == Cardinality(Late)
<1>1. backs = 0 /\ clock' = clock /\ phase = "draining" /\ phase' = "flushed"
      /\ reading' = reading /\ since' = clock /\ fresh' \in {0, fresh}
  BY DEF StopFlush, Flush, Roll, work, Forced
<1>2. since <= clock /\ \A v \in Workers : reading[v] <= clock
  BY <1>1 DEF BudgetInv
<1>3. clock \in Nat /\ fresh \in Nat /\ spent \in 0 .. Burst
  BY DEF TypeOK
<1>4. l \in Nat /\ n \in Nat
  <2>1. Late \in SUBSET Workers
    BY DEF Late
  <2>2. QED
    BY <2>1, LateCounted
<1>5. Burst * 0 <= Burst * l /\ Burst * 0 <= Burst * n /\ Burst * (n - 1) = Burst * n - Burst
      /\ Burst * l \in Int /\ Burst * n \in Int
  BY <1>4, Budgets
<1>6. fresh <= Burst * n
  <2>1. CASE fresh = 0
    BY <1>5, <2>1
  <2>2. CASE fresh + Burst * l <= Burst * (n - 1) + spent
    <3> HIDE DEF n, l
    <3>1. QED
      BY <1>3, <1>5, <2>2
  <2>3. QED
    BY <1>1, <2>1, <2>2 DEF BudgetInv
<1>7. fresh' <= Burst * n
  BY <1>1, <1>5, <1>6
<1>8. QED
  BY <1>1, <1>2, <1>3, <1>7 DEF BudgetInv

LEMMA SharesInvInit == Init => SharesInv
  BY TypesInit DEF Init, SharesInv, TypeHands, BudgetInv, Unread

LEMMA SharesInvStep == SharesInv /\ [Next]_vars => SharesInv'
<1> SUFFICES ASSUME SharesInv, [Next]_vars, backs' = 0 PROVE BudgetInv'
  BY TypesStep DEF SharesInv, BudgetInv
<1>1. TypeHands /\ TypeHands' /\ BudgetInv
  BY TypesStep DEF SharesInv
<1>2. ASSUME NEW w \in Workers, NEW k \in Kinds, Refuse(w, k) PROVE BudgetInv'
  <2>1. /\ UNCHANGED <<clock, since, spent, phase, fresh, backs>>
        /\ reading' = [reading EXCEPT ![w] = clock]
    BY <1>2 DEF Refuse, window, history
  <2>2. backs = 0 /\ since <= clock /\ reading \in [Workers -> Int] /\ clock \in Nat
    BY <1>1, <2>1 DEF BudgetInv, TypeHands, TypeOK, Unread
  <2>3. since \in Nat /\ reading[w] = Unread
    BY <1>1, <1>2 DEF Refuse, Idle, TypeHands, TypeOK
  <2>4. Late' = Late
    BY <2>1, <2>2, <2>3 DEF Late
  <2>5. QED
    BY <1>1, <2>1, <2>2, <2>4 DEF BudgetInv
<1>3. ASSUME NEW w \in Workers, Note(w) PROVE BudgetInv'
  BY <1>1, <1>3, NoteKeepsBudget
<1>4. ASSUME NEW w \in Workers, WriteOwn(w) PROVE BudgetInv'
  BY <1>1, <1>4 DEF WriteOwn, window, history, BudgetInv, Late
<1>5. ASSUME NEW a \in Actors, WriteHeld(a) PROVE BudgetInv'
  BY <1>1, <1>5 DEF WriteHeld, window, work, history, BudgetInv, Late
<1>6. CASE CollectorFlush \/ StopFlush
  BY <1>1, <1>6, CollectorFlushKeepsBudget, StopFlushKeepsBudget
<1>7. CASE Tick
  BY <1>1, <1>7 DEF Tick, window, work, history, BudgetInv, Late, TypeHands, TypeOK, Unread
<1>8. CASE SetBack
  BY <1>1, <1>8 DEF SetBack, TypeHands, TypeOK
<1>9. CASE Sweep \/ Stop \/ Exit \/ UNCHANGED vars
  BY <1>1, <1>9 DEF Sweep, Stop, Exit, vars, window, work, history, BudgetInv, Late
<1>10. QED
  BY <1>2, <1>3, <1>4, <1>5, <1>6, <1>7, <1>8, <1>9 DEF Next

\* A window that ran out is followed by at most a budget for each worker before the next has
\* run its length, while the clock is never set back (_agnostic_refusal_roll_locked_a).
THEOREM BudgetOverrunBounded == Spec => []BudgetShared
<1>1. SharesInv => BudgetShared
  <2> SUFFICES ASSUME SharesInv, backs = 0 PROVE fresh <= Burst * Cardinality(Workers)
    BY DEF BudgetShared
  <2> DEFINE n == Cardinality(Workers)
             l == Cardinality(Late)
  <2>1. l \in Nat /\ n \in Nat /\ fresh \in Nat /\ spent \in 0 .. Burst
    <3>1. Late \in SUBSET Workers
      BY DEF Late
    <3>2. QED
      BY <3>1, LateCounted DEF SharesInv, TypeHands, TypeOK
  <2>2. /\ Burst * 0 <= Burst * l /\ Burst * 0 <= Burst * n
        /\ Burst * (n - 1) = Burst * n - Burst /\ Burst * l \in Int /\ Burst * n \in Int
    BY <2>1, Budgets
  <2>3. \/ fresh + Burst * l <= Burst * (n - 1) + spent
        \/ fresh = 0
        \/ fresh <= Burst * n
    BY DEF SharesInv, BudgetInv
  <2> HIDE DEF n, l
  <2>4. fresh <= Burst * n
    BY <2>1, <2>2, <2>3
  <2>5. QED
    BY <2>4 DEF n
<1>2. QED
  BY <1>1, SharesInvInit, SharesInvStep, PTL DEF Spec
=============================================================================
