---------------------------- MODULE TenantLimit ----------------------------
(***************************************************************************)
(* How much of the server one tenant may take (auth/tenantlimit.cyr): a    *)
(* fixed table of slots, each a token bucket and a count of places, behind *)
(* one lock.  A submission takes a place before its crew is built; the     *)
(* place goes back when the build fails or when the crew ends.             *)
(*                                                                         *)
(* Time is counted in units of which a minute has `Minute`, and a token in *)
(* `Unit` parts, so that the divisions truncate as the code's do.          *)
(***************************************************************************)
EXTENDS Integers, Sequences, FiniteSets

CONSTANTS
  Tenants,   \* the scopes that submit, the one with no tenant among them
  SlotCount, \* AGNOSTIC_TL_SLOTS
  RateOf,    \* RateOf[t]: the tenant's crews a minute, 0 for no limit
  CrewsOf,   \* CrewsOf[t]: its unfinished crews, 0 for no limit
  Minute,    \* AGNOSTIC_TL_MINUTE_MS
  Second,    \* how much of it one second of Retry-After is
  Unit,      \* parts of a token: thousandths in the code
  NoTenant,  \* the key of a free slot
  MaxNow,    \* bound: how long the run lasts
  MaxLag,    \* bound: how long a thread waits for the lock with the clock's reading in hand
  MaxHeld,   \* bound: a tenant's crews being built or running
  MaxSpent   \* bound: tokens one tenant takes while its slot lasts

Slots == 1..SlotCount

ASSUME TenantLimits ==
  /\ RateOf \in [Tenants -> Nat] /\ CrewsOf \in [Tenants -> Nat]
  /\ NoTenant \notin Tenants
  /\ SlotCount \in Nat

ASSUME TenantClock ==
  /\ Minute \in Nat \ {0} /\ Second \in Nat \ {0} /\ Unit \in Nat \ {0}
  /\ Minute % Second = 0
  /\ MaxNow \in Nat /\ MaxLag \in Nat /\ MaxHeld \in [Tenants -> Nat] /\ MaxSpent \in Nat

VARIABLES
  now,
  table,     \* the slots, in the order they are searched
  building,  \* admitted submissions of each tenant whose crew is not there yet
  running,   \* its crews that were started and have not ended
  \* What the properties remember: the tenants admitted without a slot, the times a
  \* tenant's bucket gave and got back a token, by how much its clock was set back in all,
  \* when the first refusal since the last token said one would be there, and whether the
  \* tenant asked again before that.
  uncounted, spent, refunded, setBack, due, pressed

vars == <<now, table, building, running, uncounted, spent, refunded, setBack, due, pressed>>
history == <<uncounted, spent, refunded, setBack, due, pressed>>

----------------------------------------------------------------------------

Never == -1

Fresh(t) == [key |-> t, tokens |-> -1, seen |-> 0, places |-> 0]

Lesser(m, n) == IF m < n THEN m ELSE n
Greater(m, n) == IF m > n THEN m ELSE n

\* The clock is read before the lock is taken: a reading may be older than the last one.
Readings == {at \in 0..now : now - at <= MaxLag}

Cap(t) == RateOf[t] * Unit

SlotsOf(t) == {i \in Slots : table[i].key = t}

\* The slots a newcomer may be given: the first free one, else the one idle longest.
Free == {i \in Slots : table[i].key = NoTenant}
\* (The mutant takes a slot with crews running too.)
IdleAny == {i \in Slots : table[i].key # NoTenant}
Idle == {i \in Slots : table[i].key # NoTenant /\ table[i].places = 0}

Reusable ==
  IF Free # {}
  THEN {i \in Free : \A j \in Free : i <= j}
  ELSE {i \in Idle : \A j \in Idle :
          table[i].seen < table[j].seen \/ (table[i].seen = table[j].seen /\ i <= j)}

\* _agnostic_tl_slot_locked(key, 1): the slot an admission works on; none when every
\* slot has crews running.
SlotFor(t) == IF SlotsOf(t) # {} THEN SlotsOf(t) ELSE Reusable

Entry(t, i) == IF table[i].key = t THEN table[i] ELSE Fresh(t)

Elapsed(e, at) == Lesser(Greater(0, at - e.seen), Minute)

\* The tokens of an entry with what came back since it was last looked at.
Refilled(t, e, at) ==
  IF e.tokens < 0
  THEN Cap(t)
  ELSE Lesser(Cap(t), e.tokens + (Elapsed(e, at) * Cap(t)) \div Minute)

AtCap(t, e) == CrewsOf[t] > 0 /\ e.places >= CrewsOf[t]

OverRate(t, e, at) == RateOf[t] > 0 /\ Refilled(t, e, at) < Unit

\* Retry-After, rounded up to a second; the mutant rounds it down.
Missing(t, e, at) == (Unit - Refilled(t, e, at)) * (Minute \div Second)
RetryDown(t, e, at) == (Missing(t, e, at) \div Cap(t)) * Second
Retry(t, e, at) == ((Missing(t, e, at) + Cap(t) - 1) \div Cap(t)) * Second

\* How far an entry's clock goes back when it is written with this reading.
Back(t, e, at) == IF RateOf[t] > 0 /\ e.tokens >= 0 THEN Greater(0, e.seen - at) ELSE 0

\* A tenant whose slot is taken over starts its next minute with a full bucket.
Forgotten(i, t) == {table[i].key} \ {t}

----------------------------------------------------------------------------

Init ==
  /\ now = 0
  /\ table = [i \in Slots |-> [key |-> NoTenant, tokens |-> 0, seen |-> 0, places |-> 0]]
  /\ building = [t \in Tenants |-> 0]
  /\ running = [t \in Tenants |-> 0]
  /\ uncounted = {}
  /\ spent = [t \in Tenants |-> <<>>]
  /\ refunded = [t \in Tenants |-> <<>>]
  /\ setBack = [t \in Tenants |-> 0]
  /\ due = [t \in Tenants |-> Never]
  /\ pressed = {}

Room(t) == building[t] + running[t] < MaxHeld[t] /\ Len(spent[t]) < MaxSpent

Pressed(t, at) == IF due[t] # Never /\ at < due[t] THEN pressed \cup {t} ELSE pressed

\* The entry an admission leaves behind.  (The mutant takes a token and no place.)
PlacedLate(t, e, at) ==
  [e EXCEPT !.tokens = IF RateOf[t] > 0 THEN Refilled(t, e, at) - Unit ELSE -1,
            !.seen = at]
Placed(t, e, at) ==
  [e EXCEPT !.tokens = IF RateOf[t] > 0 THEN Refilled(t, e, at) - Unit ELSE -1,
            !.seen = at,
            !.places = @ + 1]

Admit(t, at) ==
  /\ Room(t)
  /\ \E i \in SlotFor(t) :
       LET e == Entry(t, i)
           gone == Forgotten(i, t)
           back == setBack[t] + Back(t, e, at)
       IN
       /\ ~AtCap(t, e) /\ ~OverRate(t, e, at)
       /\ table' = [table EXCEPT ![i] = Placed(t, e, at)]
       /\ spent' = [u \in Tenants |->
                      IF u \in gone THEN <<>>
                      ELSE IF u = t /\ RateOf[t] > 0
                           THEN Append(spent[u], [at |-> now, back |-> back])
                      ELSE spent[u]]
       /\ refunded' = [u \in Tenants |-> IF u \in gone THEN <<>> ELSE refunded[u]]
       /\ setBack' = [u \in Tenants |->
                        IF u \in gone THEN 0 ELSE IF u = t THEN back ELSE setBack[u]]
  /\ building' = [building EXCEPT ![t] = @ + 1]
  /\ due' = [due EXCEPT ![t] = Never]
  /\ pressed' = pressed \ {t}
  /\ UNCHANGED <<now, running, uncounted>>

\* "With every slot running, a further tenant is admitted uncounted."
AdmitUncounted(t) ==
  /\ Room(t)
  /\ SlotFor(t) = {}
  /\ building' = [building EXCEPT ![t] = @ + 1]
  /\ uncounted' = uncounted \cup {t}
  /\ due' = [due EXCEPT ![t] = Never]
  /\ pressed' = pressed \ {t}
  /\ UNCHANGED <<now, table, running, spent, refunded, setBack>>

\* 429 at max_crews: asked first, and nothing is stored.
RefuseCrews(t) ==
  /\ \E i \in SlotFor(t) : AtCap(t, Entry(t, i))
  /\ UNCHANGED vars

\* 429 at rate_limit: what was refilled is kept, and the clock of the bucket moves.
RefuseRate(t, at) ==
  /\ \E i \in SlotFor(t) :
       LET e == Entry(t, i) IN
       /\ ~AtCap(t, e) /\ OverRate(t, e, at)
       /\ table' = [table EXCEPT ![i] = [e EXCEPT !.tokens = Refilled(t, e, at), !.seen = at]]
       /\ setBack' = [setBack EXCEPT ![t] = @ + Back(t, e, at)]
       /\ due' = [due EXCEPT ![t] = IF @ = Never THEN now + Retry(t, e, at) ELSE @]
  /\ pressed' = Pressed(t, at)
  /\ UNCHANGED <<now, building, running, uncounted, spent, refunded>>

\* _agnostic_tl_give_back_locked.  (The mutant hands back the token of a crew that ran.)
GiveBackToken(e) ==
  [e EXCEPT !.places = IF @ > 0 THEN @ - 1 ELSE @,
            !.tokens = IF @ >= 0 THEN @ + Unit ELSE @]
GiveBack(e) == [e EXCEPT !.places = IF @ > 0 THEN @ - 1 ELSE @]

\* agnostic_tenant_unadmit: the body failed, or there is no engine.
HandBack(e) == [GiveBack(e) EXCEPT !.tokens = IF @ >= 0 THEN @ + Unit ELSE @]

Unadmit(t) ==
  /\ building[t] > 0
  /\ building' = [building EXCEPT ![t] = @ - 1]
  /\ table' = [i \in Slots |-> IF table[i].key = t THEN HandBack(table[i]) ELSE table[i]]
  /\ refunded' = [refunded EXCEPT ![t] =
                    IF SlotsOf(t) # {} /\ RateOf[t] > 0 THEN Append(@, now) ELSE @]
  /\ UNCHANGED <<now, running, uncounted, spent, setBack, due, pressed>>

\* The crew is in the ledger and holds its place from here.
Hold(t) ==
  /\ building[t] > 0
  /\ building' = [building EXCEPT ![t] = @ - 1]
  /\ running' = [running EXCEPT ![t] = @ + 1]
  /\ UNCHANGED <<now, table, history>>

\* agnostic_tenant_crew_ended: the crew became terminal.
CrewEnded(t) ==
  /\ running[t] > 0
  /\ running' = [running EXCEPT ![t] = @ - 1]
  /\ table' = [i \in Slots |-> IF table[i].key = t THEN GiveBack(table[i]) ELSE table[i]]
  /\ UNCHANGED <<now, building, history>>

Tick ==
  /\ now < MaxNow
  /\ now' = now + 1
  /\ UNCHANGED <<table, building, running, history>>

Next ==
  \/ Tick
  \/ \E t \in Tenants :
       \/ \E at \in Readings : Admit(t, at) \/ RefuseRate(t, at)
       \/ AdmitUncounted(t) \/ RefuseCrews(t)
       \/ Unadmit(t) \/ Hold(t) \/ CrewEnded(t)

Spec == Init /\ [][Next]_vars

----------------------------------------------------------------------------

Held(t) == building[t] + running[t]

\* Types.
TypeOK ==
  /\ now \in Nat
  /\ table \in [Slots -> [key : Tenants \cup {NoTenant}, tokens : Int, seen : Nat, places : Nat]]
  /\ building \in [Tenants -> Nat] /\ running \in [Tenants -> Nat]
  /\ uncounted \subseteq Tenants
  /\ spent \in [Tenants -> Seq([at : Nat, back : Nat])]
  /\ refunded \in [Tenants -> Seq(Nat)] /\ setBack \in [Tenants -> Nat]
  /\ due \in [Tenants -> Int] /\ pressed \subseteq Tenants

\* The places counted against a tenant are its crews being built and running, no more
\* and no fewer, whichever slots came and went meanwhile: a cap that counts a crew that
\* is gone shuts the tenant out, one that forgets a crew that runs is no cap.  A tenant
\* admitted while the table had no slot for it may be counted too few, never too many.
PlacesExact ==
  \A t \in Tenants :
    /\ \A i, j \in SlotsOf(t) : i = j
    /\ \A i \in SlotsOf(t) : table[i].places <= Held(t)
    /\ t \notin uncounted =>
         /\ SlotsOf(t) = {} => Held(t) = 0
         /\ \A i \in SlotsOf(t) : table[i].places = Held(t)

\* "16 workers each read 9 of 10 and each submit, so a cap of 10 admits 25": no
\* interleaving of submissions, failures and endings admits a crew above the cap.
CapHeld ==
  \A t \in Tenants \ uncounted : CrewsOf[t] > 0 => Held(t) <= CrewsOf[t]

Within(times, a, b) == Cardinality({n \in DOMAIN times : a <= times[n] /\ times[n] <= b})

\* In any stretch of time a tenant gets its burst and what came back during the stretch,
\* however its submissions, their failures and its refused ones are interleaved.  A thread
\* that waited for the lock sets the bucket's clock back to its own reading, and only what
\* it was set back by comes back twice.
RateHeld ==
  \A t \in Tenants : \A m \in DOMAIN spent[t] : \A n \in m..Len(spent[t]) :
    LET from == spent[t][m]
        to   == spent[t][n]
    IN  (n - m + 1 - Within(refunded[t], from.at, to.at) - RateOf[t]) * Minute
          <= (to.at + MaxLag - from.at + to.back - from.back) * RateOf[t]

\* "Rounded up, so that a client honouring it finds the token there": a tenant that
\* waits out its Retry-After is not refused for its rate.
RetryFinds ==
  [][\A t \in Tenants \ pressed : \A at \in Readings :
       RefuseRate(t, at) => due[t] = Never \/ at < due[t]]_vars

\* Tokens come in thousandths "so that a refill shorter than one whole token still
\* accrues" (auth/ratelimit.cyr, which tenantlimit.cyr follows): asking sooner costs no
\* token, so the promise holds whoever else of the tenant asked in between.
RefillAccrues ==
  [][\A t \in Tenants : \A at \in Readings :
       RefuseRate(t, at) => due[t] = Never \/ at < due[t]]_vars

=============================================================================
