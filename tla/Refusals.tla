------------------------------ MODULE Refusals ------------------------------
(***************************************************************************)
(* What a refused request leaves behind (engine/refusal.cyr).  Every       *)
(* refusal counts; the first Burst of a window are written to the audit    *)
(* trail as entries of their own, and the rest are held as counts that the *)
(* window's end writes as one summary.  A worker reads the clock before it *)
(* takes the lock and writes after it has let go of it.                    *)
(***************************************************************************)
EXTENDS Integers, FiniteSets, Functions

CONSTANTS
  Workers,      \* threads that refuse requests
  Collector,    \* the collector thread
  Main,         \* the thread that stops the server
  Kinds,        \* AgnosticRefusalKind
  NoKind,
  Burst,        \* AGNOSTIC_REFUSAL_BURST
  Window,       \* AGNOSTIC_REFUSAL_WINDOW_MS
  MaxClock,     \* bound: the clock
  MaxRefusals,  \* bound: requests refused
  MaxBack       \* bound: times the clock is set back

ASSUME RefusalBounds ==
  /\ Burst \in Nat \ {0} /\ Window \in Nat \ {0}
  /\ MaxClock \in Nat /\ MaxRefusals \in Nat /\ MaxBack \in Nat
  /\ NoKind \notin Kinds

ASSUME RefusalActors ==
  /\ IsFiniteSet(Workers)
  /\ Collector \notin Workers /\ Main \notin Workers /\ Collector # Main

Actors == Workers \cup {Collector, Main}
None == [k \in Kinds |-> 0]
Unread == -1

VARIABLES
  clock, counts, since, spent, held,
  reading,   \* what each worker read off the clock for the refusal it is noting
  noting,    \* and that refusal's kind
  summary,   \* the held counts an actor took and has not written
  own,       \* the entry of its own a worker owes
  phase, sweeping,
  \* The audit trail's contents by kind, and what its failed writes lost.
  told, lost,
  \* History: entries of their own since a window last ran its whole length, and times the
  \* clock was set back.
  fresh, backs

window  == <<since, spent, held>>
work    == <<reading, noting, own>>
trail   == <<told, lost>>
history == <<fresh, backs>>
vars == <<clock, counts, window, work, summary, phase, sweeping, trail, history>>

Plus(f, g) == [k \in Kinds |-> f[k] + g[k]]
One(k) == [None EXCEPT ![k] = 1]

Init ==
  /\ clock = 0 /\ since = 0 /\ spent = 0 /\ counts = None /\ held = None
  /\ reading = [w \in Workers |-> Unread] /\ noting = [w \in Workers |-> NoKind]
  /\ own = [w \in Workers |-> NoKind] /\ summary = [a \in Actors |-> None]
  /\ phase = "serving" /\ sweeping = FALSE
  /\ told = None /\ lost = None
  /\ fresh = 0 /\ backs = 0

Idle(w) == reading[w] = Unread /\ own[w] = NoKind /\ summary[w] = None

\* agnostic_refusal_note_a up to the lock.  Bound: the clock leaves a window's room.
Refuse(w, k) ==
  /\ phase \in {"serving", "draining"} /\ Idle(w)
  /\ SumFunction(counts) < MaxRefusals /\ clock + Window <= MaxClock
  /\ counts' = [counts EXCEPT ![k] = @ + 1]
  /\ reading' = [reading EXCEPT ![w] = clock]
  /\ noting' = [noting EXCEPT ![w] = k]
  /\ UNCHANGED <<clock, window, own, summary, phase, sweeping, trail, history>>

RanOut(now) == now - since >= Window

\* A window is over when it has run out, or when the reading is older than its start: the
\* code takes the clock to have moved back.
Over(now) == RanOut(now) \/ now < since

\* (A mutant: the end of the window forgets what it held.)
TakeNothing == None
Take == held

\* _agnostic_refusal_roll_locked_a, by actor `a`: the window's fields after it.
Roll(a, now, force) ==
  LET closes == force \/ Over(now)
  IN  /\ since' = IF closes THEN now ELSE since
      /\ summary' = [summary EXCEPT ![a] = IF closes THEN Take ELSE None]
      /\ UNCHANGED <<clock, counts, trail, backs>>

\* The refusals still held and the entries still spent once the window has been rolled.
HeldAfter(now, force) == IF force \/ Over(now) THEN None ELSE held
SpentAfter(now, force) == IF force \/ Over(now) THEN 0 ELSE spent

\* (A mutant: one entry more than the budget.)
WithinAndOne(n) == n <= Burst
Within(n) == n < Burst

\* The rest of agnostic_refusal_note_a's locked part.
Note(w) ==
  LET now == reading[w]
      n == SpentAfter(now, FALSE)
      mine == Within(n)
  IN  /\ reading[w] # Unread
      /\ Roll(w, now, FALSE)
      /\ spent' = IF mine THEN n + 1 ELSE n
      /\ held' = IF mine THEN HeldAfter(now, FALSE)
                         ELSE Plus(HeldAfter(now, FALSE), One(noting[w]))
      /\ own' = IF mine THEN [own EXCEPT ![w] = noting[w]] ELSE own
      /\ fresh' = (IF RanOut(now) THEN 0 ELSE fresh) + (IF mine THEN 1 ELSE 0)
      /\ reading' = [reading EXCEPT ![w] = Unread]
      /\ noting' = [noting EXCEPT ![w] = NoKind]
      /\ UNCHANGED <<phase, sweeping>>

\* agnostic_refusals_flush_a's locked part: the clock is read under the lock.
Flush(a, force) ==
  /\ Roll(a, clock, force)
  /\ spent' = SpentAfter(clock, force)
  /\ held' = HeldAfter(clock, force)
  /\ fresh' = IF RanOut(clock) THEN 0 ELSE fresh
  /\ UNCHANGED work

\* The audit trail takes the summary, or its write fails.
WriteHeld(a) ==
  /\ summary[a] # None
  /\ \/ told' = Plus(told, summary[a]) /\ UNCHANGED lost
     \/ lost' = Plus(lost, summary[a]) /\ UNCHANGED told
  /\ summary' = [summary EXCEPT ![a] = None]
  /\ UNCHANGED <<clock, counts, window, work, phase, sweeping, history>>

WriteOwn(w) ==
  /\ own[w] # NoKind /\ summary[w] = None
  /\ \/ told' = Plus(told, One(own[w])) /\ UNCHANGED lost
     \/ lost' = Plus(lost, One(own[w])) /\ UNCHANGED told
  /\ own' = [own EXCEPT ![w] = NoKind]
  /\ UNCHANGED <<clock, counts, window, reading, noting, summary, phase, sweeping, history>>

\* The collector's loop looks at the stop word, sweeps, and flushes what has run out.
Sweep ==
  /\ phase = "serving" /\ ~sweeping /\ summary[Collector] = None
  /\ sweeping' = TRUE
  /\ UNCHANGED <<clock, counts, window, work, summary, phase, trail, history>>

\* (The mutant only sweeps.)
CollectorSkips ==
  /\ phase # "stopped" /\ sweeping
  /\ sweeping' = FALSE
  /\ UNCHANGED <<clock, counts, window, work, summary, phase, trail, history>>
CollectorFlush ==
  /\ phase # "stopped" /\ sweeping
  /\ Flush(Collector, FALSE)
  /\ sweeping' = FALSE
  /\ UNCHANGED phase

\* agnostic_serve: the signal, the pool drained, a forced flush, and out.  Nobody waits
\* for the collector.
Stop ==
  /\ phase = "serving" /\ phase' = "draining"
  /\ UNCHANGED <<clock, counts, window, work, summary, sweeping, trail, history>>

Forced == TRUE

StopFlush ==
  /\ phase = "draining" /\ \A w \in Workers : Idle(w)
  /\ Flush(Main, Forced)
  /\ phase' = "flushed"
  /\ UNCHANGED sweeping

Exit ==
  /\ phase = "flushed" /\ summary[Main] = None
  /\ phase' = "stopped"
  /\ UNCHANGED <<clock, counts, window, work, summary, sweeping, trail, history>>

Tick ==
  /\ clock < MaxClock /\ clock' = clock + 1
  /\ UNCHANGED <<counts, window, work, summary, phase, sweeping, trail, history>>

\* The wall clock is set back.
SetBack ==
  /\ backs < MaxBack /\ clock > 0
  /\ backs' = backs + 1
  /\ clock' \in 0..(clock - 1)
  /\ UNCHANGED <<counts, window, work, summary, phase, sweeping, trail, fresh>>

Next ==
  \/ \E w \in Workers, k \in Kinds : Refuse(w, k)
  \/ \E w \in Workers : Note(w) \/ WriteOwn(w)
  \/ \E a \in Actors : WriteHeld(a) /\ (a = Collector => phase # "stopped")
  \/ Sweep \/ CollectorFlush \/ Stop \/ StopFlush \/ Exit
  \/ Tick \/ SetBack

Spec == Init /\ [][Next]_vars

\* Every thread is scheduled, time passes, and the collector sweeps until the stop.
FairSpec ==
  /\ Spec
  /\ \A w \in Workers : WF_vars(Note(w)) /\ WF_vars(WriteOwn(w))
  /\ \A a \in Actors : WF_vars(WriteHeld(a) /\ (a = Collector => phase # "stopped"))
  /\ WF_vars(Sweep) /\ WF_vars(CollectorFlush) /\ WF_vars(StopFlush) /\ WF_vars(Tick)

----------------------------------------------------------------------------

\* Types; a worker owes writes only between two refusals of its own.
TypeOK ==
  /\ clock \in 0..MaxClock /\ since \in 0..MaxClock /\ spent \in 0..Burst
  /\ {counts, held, told, lost} \subseteq [Kinds -> Nat]
  /\ summary \in [Actors -> [Kinds -> Nat]]
  /\ reading \in [Workers -> {Unread} \cup 0..MaxClock]
  /\ noting \in [Workers -> Kinds \cup {NoKind}] /\ own \in [Workers -> Kinds \cup {NoKind}]
  /\ \A w \in Workers :
       /\ reading[w] # Unread <=> noting[w] # NoKind
       /\ reading[w] # Unread => own[w] = NoKind /\ summary[w] = None
  /\ phase \in {"serving", "draining", "flushed", "stopped"} /\ sweeping \in BOOLEAN
  /\ fresh \in Nat /\ backs \in 0..MaxBack

\* The refusals of kind `k` in the summaries taken and not written: each is told apart by
\* whose summary counts it and its number there.
Taken(k) == UNION {{a} \X (1 .. summary[a][k]) : a \in Actors}

\* How many refusals of kind `k` are still to reach the trail from an actor's hands.
InHand(k) ==
  Cardinality(Taken(k))
    + Cardinality({w \in Workers : own[w] = k}) + Cardinality({w \in Workers : noting[w] = k})

\* What is withheld is the detail and never the fact: every refusal counted is in the trail,
\* held for the next summary, on its way there, or in a write the trail refused.
FactKept == \A k \in Kinds : counts[k] = told[k] + lost[k] + held[k] + InHand(k)

\* A graceful stop leaves nothing held: the trail has, or has failed to take, every refusal
\* but those in a summary the collector still had in its hand.
StopTold ==
  phase = "stopped" => \A k \in Kinds : counts[k] = told[k] + lost[k] + summary[Collector][k]

\* Every refusal is told, now or by a graceful stop (agnostic_refusal_note_a,
\* agnostic_refusals_flush_a).
RefusalsTold == FactKept /\ StopTold

\* However the threads interleave, a window that ran out is followed by at most a budget
\* for each worker before the next one has run its length.
BudgetShared == backs = 0 => fresh <= Burst * Cardinality(Workers)

\* A burst's summary is not left waiting for the next caller.
HeldTold == \A k \in Kinds : held[k] > 0 ~> held[k] = 0
=============================================================================
