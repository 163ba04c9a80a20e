------------------------- MODULE TenantLimitProofs -------------------------
(************************************************************************** *)
(* A tenant's places are counted exactly, its cap and its rate hold and     *)
(* its Retry-After is honoured, for any number of tenants, slots and crews  *)
(* and any limits.                                                          *)
(*                                                                          *)
(* A slot may be taken over while its tenant's submissions come and go, so  *)
(* what is kept is that only a slot with no place taken is handed over:     *)
(* then a tenant without a slot has nothing running (PlacesExact), a        *)
(* tenant's first place in a new slot is its first crew, and the cap,       *)
(* which is asked of the slot, is a cap on the crews (CapHeld).  A tenant   *)
(* that was once admitted while the table was full is counted too few.      *)
(*                                                                          *)
(* RateHeld speaks of every two times of the past; a step knows only the    *)
(* bucket.  So each spending of the past is said to be covered by what the  *)
(* bucket lacks of its cap now and by how far its clock went (Covered): a   *)
(* refill keeps that, a spending takes it for the stretch that ends now.    *)
(************************************************************************** *)
EXTENDS TenantLimit, FiniteSetTheorems, TLAPS

SlotStates == [key : Tenants \cup {NoTenant}, tokens : Int, seen : Nat, places : Nat]

TenantInv == TypeOK /\ PlacesExact /\ CapHeld

----------------------------------------------------------------------------
(* The operators                                                            *)

\* A bucket holds at least one token's worth whenever the tenant has a rate.
LEMMA CapNat ==
  ASSUME NEW t \in Tenants
  PROVE  Cap(t) \in Nat /\ (RateOf[t] > 0 => Cap(t) > 0)
BY TenantLimits, TenantClock DEF Cap

\* The refill of _agnostic_tl_bucket_locked is a whole number of parts.
LEMMA RefilledInt ==
  ASSUME NEW t \in Tenants, NEW e \in SlotStates, NEW at \in Nat
  PROVE  Refilled(t, e, at) \in Int
<1>1. Cap(t) \in Nat
  BY CapNat
<1>2. Elapsed(e, at) \in Nat
  BY TenantClock DEF Elapsed, Lesser, Greater, SlotStates
<1>3. e.tokens \in Int
  BY DEF SlotStates
<1>4. Elapsed(e, at) * Cap(t) \in Int
  BY <1>1, <1>2
<1>5. (Elapsed(e, at) * Cap(t)) \div Minute \in Int
  BY <1>4, TenantClock
<1> HIDE DEF Elapsed, Cap
<1> QED
  BY <1>1, <1>3, <1>5 DEF Refilled, Lesser

\* Retry-After is a whole number of clock units.
LEMMA RetryInt ==
  ASSUME NEW t \in Tenants, NEW e \in SlotStates, NEW at \in Nat, RateOf[t] > 0
  PROVE  Retry(t, e, at) \in Int
<1>1. Cap(t) \in Nat /\ Cap(t) > 0
  BY CapNat
<1>2. Refilled(t, e, at) \in Int
  BY RefilledInt
<1>3. Minute \div Second \in Int
  BY TenantClock
<1>4. Missing(t, e, at) \in Int
  BY <1>2, <1>3, TenantClock DEF Missing
<1>5. (Missing(t, e, at) + Cap(t) - 1) \div Cap(t) \in Int
  BY <1>1, <1>4
<1> QED
  BY <1>5, TenantClock DEF Retry

\* What a bucket's clock is set back by.
LEMMA BackNat ==
  ASSUME NEW t \in Tenants, NEW e \in SlotStates, NEW at \in Nat
  PROVE  Back(t, e, at) \in Nat
BY DEF Back, Greater, SlotStates

\* _agnostic_tl_slot_locked answers the tenant's own slot, or one with no place taken.
LEMMA SlotForOwnOrIdle ==
  ASSUME TypeOK, NEW t \in Tenants, NEW i \in SlotFor(t)
  PROVE  /\ i \in Slots
         /\ \/ table[i].key = t
            \/ /\ SlotsOf(t) = {}
               /\ table[i].key = NoTenant \/ table[i].places = 0
BY DEF SlotFor, SlotsOf, Reusable, Free, Idle

\* The entry an admission or a refusal works on belongs to the tenant.
LEMMA EntryOfTenant ==
  ASSUME TypeOK, NEW t \in Tenants, NEW i \in Slots
  PROVE  Entry(t, i) \in SlotStates /\ Entry(t, i).key = t
<1>1. table[i] \in SlotStates
  BY DEF TypeOK, SlotStates
<1>2. Fresh(t) \in SlotStates /\ Fresh(t).key = t
  BY DEF Fresh, SlotStates
<1> QED
  BY <1>1, <1>2 DEF Entry

\* A place taken.
LEMMA PlacedOne ==
  ASSUME NEW t \in Tenants, NEW e \in SlotStates, NEW at \in Nat
  PROVE  /\ Placed(t, e, at) \in SlotStates
         /\ Placed(t, e, at).key = e.key
         /\ Placed(t, e, at).places = e.places + 1
<1> DEFINE left == IF RateOf[t] > 0 THEN Refilled(t, e, at) - Unit ELSE -1
<1>1. left \in Int
  BY RefilledInt, TenantClock
<1>2. Placed(t, e, at) = [e EXCEPT !.tokens = left, !.seen = at, !.places = e.places + 1]
  BY DEF Placed, SlotStates
<1>3. e.places + 1 \in Nat
  BY DEF SlotStates
<1> HIDE DEF left
<1>4. Placed(t, e, at) =
        [key |-> e.key, tokens |-> left, seen |-> at, places |-> e.places + 1]
  BY <1>2 DEF SlotStates
<1> HIDE DEF Placed
<1> QED
  BY <1>1, <1>3, <1>4 DEF SlotStates

\* A bucket that only moves.
LEMMA MovedNone ==
  ASSUME NEW e \in SlotStates, NEW n \in Int, NEW at \in Nat
  PROVE  LET f == [e EXCEPT !.tokens = n, !.seen = at] IN
         f \in SlotStates /\ f.key = e.key /\ f.places = e.places
BY DEF SlotStates

\* A place given back, by a failed body or by a crew's end, and never below none.
LEMMA GivenBackOne ==
  ASSUME NEW e \in SlotStates
  PROVE  /\ GiveBack(e) \in SlotStates /\ HandBack(e) \in SlotStates
         /\ GiveBack(e).key = e.key /\ HandBack(e).key = e.key
         /\ GiveBack(e).places = IF e.places > 0 THEN e.places - 1 ELSE e.places
         /\ HandBack(e).places = GiveBack(e).places
<1>1. /\ GiveBack(e) \in SlotStates /\ GiveBack(e).key = e.key
      /\ GiveBack(e).places = IF e.places > 0 THEN e.places - 1 ELSE e.places
  BY DEF GiveBack, SlotStates
<1> HIDE DEF GiveBack
<1> QED
  BY <1>1, TenantClock DEF HandBack, SlotStates

----------------------------------------------------------------------------
(* The steps                                                                *)

\* The empty table.
LEMMA TenantInvInit == Init => TenantInv
<1> SUFFICES ASSUME Init PROVE TenantInv
  OBVIOUS
<1>1. table \in [Slots -> SlotStates]
  BY DEF Init, SlotStates
<1>2. /\ spent \in [Tenants -> Seq([at : Nat, back : Nat])]
      /\ refunded \in [Tenants -> Seq(Nat)]
  BY DEF Init
<1>3. TypeOK
  BY <1>1, <1>2 DEF Init, TypeOK, SlotStates, Never
<1>4. \A t \in Tenants : SlotsOf(t) = {} /\ Held(t) = 0
  BY TenantLimits DEF Init, SlotsOf, Held
<1>5. PlacesExact /\ CapHeld
  BY <1>4, TenantLimits DEF PlacesExact, CapHeld
<1> QED
  BY <1>3, <1>5 DEF TenantInv

\* What an admission or a refusal does to the slot it works on keeps the count and the
\* cap: `d` places more for a tenant with `d` crews more.
LEMMA WorkedOnKeeps ==
  ASSUME TenantInv, NEW t \in Tenants, NEW i \in SlotFor(t), NEW r \in SlotStates,
         NEW d \in 0..1,
         r.key = t, r.places = Entry(t, i).places + d,
         d = 0 \/ ~AtCap(t, Entry(t, i)),
         table' = [table EXCEPT ![i] = r], uncounted' = uncounted,
         Held(t)' = Held(t) + d, \A u \in Tenants \ {t} : Held(u)' = Held(u)
  PROVE  PlacesExact' /\ CapHeld'
<1> USE DEF TenantInv
<1> DEFINE e == Entry(t, i)
<1>1. i \in Slots /\ e \in SlotStates
  BY SlotForOwnOrIdle, EntryOfTenant
<1>2. \A u \in Tenants : Held(u) \in Nat
  BY DEF Held, TypeOK
<1>3. table'[i] = r /\ \A j \in Slots \ {i} : table'[j] = table[j]
  BY <1>1 DEF TypeOK
<1>4. ASSUME NEW u \in Tenants \ {t}
      PROVE  /\ SlotsOf(u)' = SlotsOf(u) \ {i}
             /\ i \in SlotsOf(u) => table[i].places = 0
  <2>1. SlotsOf(u)' = SlotsOf(u) \ {i}
    BY <1>3 DEF SlotsOf
  <2>2. i \in SlotsOf(u) => table[i].key # t /\ table[i].key # NoTenant
    BY TenantLimits DEF SlotsOf
  <2> QED
    BY <2>1, <2>2, SlotForOwnOrIdle
<1>5. /\ SlotsOf(t)' = {i}
      /\ table[i].key = t => e = table[i] /\ i \in SlotsOf(t)
      /\ table[i].key # t => e.places = 0 /\ SlotsOf(t) = {}
  <2>1. SlotsOf(t)' = SlotsOf(t) \cup {i}
    BY <1>1, <1>3 DEF SlotsOf
  <2>2. i \in SlotsOf(t) <=> table[i].key = t
    BY <1>1 DEF SlotsOf
  <2>3. table[i].key # t => SlotsOf(t) = {}
    BY SlotForOwnOrIdle
  <2>4. /\ table[i].key = t => e = table[i]
        /\ table[i].key # t => e.places = 0
    BY DEF Entry, Fresh
  <2> HIDE DEF e
  <2> QED
    BY <2>1, <2>2, <2>3, <2>4 DEF PlacesExact
<1> HIDE DEF e
<1>6. e.places <= Held(t) /\ (t \notin uncounted => e.places = Held(t))
  BY <1>1, <1>2, <1>5 DEF PlacesExact
<1>7. r.places <= Held(t)' /\ (t \notin uncounted => r.places = Held(t)')
  BY <1>1, <1>2, <1>6 DEF SlotStates, e
<1>8. PlacesExact'
  <2>1. ASSUME NEW u \in Tenants
        PROVE  /\ \A j, k \in SlotsOf(u)' : j = k
               /\ \A j \in SlotsOf(u)' : table'[j].places <= Held(u)'
               /\ u \notin uncounted' =>
                    /\ SlotsOf(u)' = {} => Held(u)' = 0
                    /\ \A j \in SlotsOf(u)' : table'[j].places = Held(u)'
    <3>1. CASE u = t
      BY <1>3, <1>5, <1>7, <3>1
    <3>2. CASE u # t
      <4>1. /\ SlotsOf(u)' = SlotsOf(u) \ {i} /\ Held(u)' = Held(u)
            /\ i \in SlotsOf(u) => table[i].places = 0
        BY <1>4, <3>2
      <4>2. \A j \in SlotsOf(u)' : table'[j] = table[j]
        BY <1>3, <4>1 DEF SlotsOf
      <4>3. /\ \A j, k \in SlotsOf(u) : j = k
            /\ \A j \in SlotsOf(u) : table[j].places <= Held(u)
            /\ u \notin uncounted =>
                 /\ SlotsOf(u) = {} => Held(u) = 0
                 /\ \A j \in SlotsOf(u) : table[j].places = Held(u)
        BY DEF PlacesExact
      <4>4. u \notin uncounted /\ SlotsOf(u)' = {} => Held(u) = 0
        <5>1. SlotsOf(u)' = {} => SlotsOf(u) = {} \/ i \in SlotsOf(u)
          BY <4>1
        <5> QED
          BY <4>1, <4>3, <5>1
      <4> QED
        BY <4>1, <4>2, <4>3, <4>4
    <3> QED
      BY <3>1, <3>2
  <2> QED
    BY <2>1 DEF PlacesExact
<1>9. CapHeld'
  <2>1. t \notin uncounted /\ CrewsOf[t] > 0 => Held(t)' <= CrewsOf[t]
    <3>1. CASE d = 0
      BY <1>2, <3>1 DEF CapHeld
    <3>2. CASE d = 1
      <4>1. CrewsOf[t] > 0 => ~(e.places >= CrewsOf[t])
        BY <3>2 DEF AtCap, e
      <4> QED
        BY <1>2, <1>6, <3>2, <4>1, TenantLimits
    <3> QED
      BY <3>1, <3>2
  <2> QED
    BY <2>1 DEF CapHeld
<1> QED
  BY <1>8, <1>9

\* A submission is admitted: its slot counts it.
LEMMA AdmitKeeps ==
  ASSUME TenantInv, NEW t \in Tenants, NEW at \in Readings, Admit(t, at)
  PROVE  TenantInv'
<1> USE DEF TenantInv
<1>1. PICK i \in SlotFor(t) :
        LET e == Entry(t, i)
            gone == Forgotten(i, t)
            back == setBack[t] + Back(t, e, at)
        IN
        /\ ~AtCap(t, e) /\ ~OverRate(t, e, at)
        /\ table' = [table EXCEPT ![i] = Placed(t, e, at)]
        /\ spent' = [u \in Tenants |->
                       IF u \in gone THEN <<>>
                       ELSE IF u = t /\ RateOf[t] > 0
                            THEN Append(spent[u], [at |-> now, back |-> back])
                       ELSE spent[u]]
        /\ refunded' = [u \in Tenants |-> IF u \in gone THEN <<>> ELSE refunded[u]]
        /\ setBack' = [u \in Tenants |->
                         IF u \in gone THEN 0 ELSE IF u = t THEN back ELSE setBack[u]]
  BY DEF Admit
<1> DEFINE e == Entry(t, i)
           back == setBack[t] + Back(t, e, at)
<1>2. at \in Nat
  BY DEF Readings, TypeOK
<1>3. i \in Slots /\ e \in SlotStates /\ e.key = t
  BY SlotForOwnOrIdle, EntryOfTenant
<1> HIDE DEF e
<1>4. /\ Placed(t, e, at) \in SlotStates /\ Placed(t, e, at).key = t
      /\ Placed(t, e, at).places = e.places + 1
  BY <1>2, <1>3, PlacedOne
<1>5. back \in Nat
  <2>1. Back(t, e, at) \in Nat
    BY <1>2, <1>3, BackNat
  <2>2. setBack[t] \in Nat
    BY DEF TypeOK
  <2> QED
    BY <2>1, <2>2
<1> HIDE DEF back
<1>6. /\ table' = [table EXCEPT ![i] = Placed(t, e, at)]
      /\ table' \in [Slots -> SlotStates]
  BY <1>1, <1>3, <1>4 DEF TypeOK, SlotStates, e
<1>7. /\ building' = [building EXCEPT ![t] = @ + 1] /\ running' = running
      /\ uncounted' = uncounted /\ now' = now
      /\ due' = [due EXCEPT ![t] = Never] /\ pressed' = pressed \ {t}
  BY DEF Admit
<1>8. Held(t)' = Held(t) + 1 /\ \A u \in Tenants \ {t} : Held(u)' = Held(u)
  <2>1. building \in [Tenants -> Nat] /\ running \in [Tenants -> Nat]
    BY DEF TypeOK
  <2> QED
    BY <1>7, <2>1 DEF Held
<1>9. TypeOK'
  <2>1. spent' \in [Tenants -> Seq([at : Nat, back : Nat])]
    <3>1. spent \in [Tenants -> Seq([at : Nat, back : Nat])] /\ now \in Nat
      BY DEF TypeOK
    <3>2. [at |-> now, back |-> back] \in [at : Nat, back : Nat]
      BY <1>5, <3>1
    <3>3. Append(spent[t], [at |-> now, back |-> back]) \in Seq([at : Nat, back : Nat])
      BY <3>1, <3>2
    <3>4. ASSUME NEW u \in Tenants
          PROVE  spent'[u] \in Seq([at : Nat, back : Nat])
      <4>1. \/ spent'[u] = <<>> \/ spent'[u] = spent[u]
            \/ spent'[u] = Append(spent[t], [at |-> now, back |-> back])
        BY <1>1 DEF back, e
      <4>2. <<>> \in Seq([at : Nat, back : Nat])
        OBVIOUS
      <4> QED
        BY <3>1, <3>3, <4>1, <4>2
    <3>5. spent' = [u \in Tenants |-> spent'[u]]
      BY <1>1
    <3> QED
      BY <3>4, <3>5
  <2>2. refunded' \in [Tenants -> Seq(Nat)]
    BY <1>1 DEF TypeOK
  <2>3. setBack' \in [Tenants -> Nat]
    BY <1>1, <1>5 DEF TypeOK, back, e
  <2>4. /\ building' \in [Tenants -> Nat] /\ due' \in [Tenants -> Int]
        /\ pressed' \subseteq Tenants
    BY <1>7 DEF TypeOK, Never
  <2>5. now' \in Nat /\ running' \in [Tenants -> Nat] /\ uncounted' \subseteq Tenants
    BY <1>7 DEF TypeOK
  <2> QED
    BY <1>6, <2>1, <2>2, <2>3, <2>4, <2>5 DEF TypeOK, SlotStates
<1>10. PlacesExact' /\ CapHeld'
  <2>1. /\ Placed(t, e, at).places = Entry(t, i).places + 1
        /\ ~AtCap(t, Entry(t, i)) /\ 1 \in 0..1
    BY <1>1, <1>4 DEF e
  <2> HIDE DEF Placed
  <2> QED
    BY <1>4, <1>6, <1>7, <1>8, <2>1, WorkedOnKeeps
<1> QED
  BY <1>9, <1>10

\* With every slot taken a tenant is admitted uncounted: from here it may have too few.
LEMMA AdmitUncountedKeeps ==
  ASSUME TenantInv, NEW t \in Tenants, AdmitUncounted(t)
  PROVE  TenantInv'
<1> USE DEF TenantInv
<1>0. /\ table' = table /\ uncounted' = uncounted \cup {t} /\ running' = running
      /\ building' = [building EXCEPT ![t] = @ + 1]
      /\ building \in [Tenants -> Nat] /\ running \in [Tenants -> Nat]
  BY DEF AdmitUncounted, TypeOK
<1>1. /\ Held(t)' = Held(t) + 1
      /\ \A u \in Tenants \ {t} : Held(u)' = Held(u)
      /\ \A u \in Tenants : Held(u) \in Nat /\ SlotsOf(u)' = SlotsOf(u)
  BY <1>0 DEF Held, SlotsOf
<1>2. SlotsOf(t) = {}
  BY DEF AdmitUncounted, SlotFor
<1>3. TypeOK'
  BY DEF TypeOK, AdmitUncounted, Never
<1>4. PlacesExact'
  BY <1>0, <1>1, <1>2 DEF PlacesExact
<1>5. CapHeld'
  BY <1>0, <1>1 DEF CapHeld
<1> QED
  BY <1>3, <1>4, <1>5

\* A refusal for the rate moves the bucket; the slot must already be the tenant's, or it
\* is one with no place taken that the tenant gets with none.
LEMMA RefuseRateKeeps ==
  ASSUME TenantInv, NEW t \in Tenants, NEW at \in Readings, RefuseRate(t, at)
  PROVE  TenantInv'
<1> USE DEF TenantInv
<1>1. PICK i \in SlotFor(t) :
        LET e == Entry(t, i) IN
        /\ ~AtCap(t, e) /\ OverRate(t, e, at)
        /\ table' = [table EXCEPT ![i] = [e EXCEPT !.tokens = Refilled(t, e, at), !.seen = at]]
        /\ setBack' = [setBack EXCEPT ![t] = @ + Back(t, e, at)]
        /\ due' = [due EXCEPT ![t] = IF @ = Never THEN now + Retry(t, e, at) ELSE @]
  BY DEF RefuseRate
<1> DEFINE e == Entry(t, i)
           f == [e EXCEPT !.tokens = Refilled(t, e, at), !.seen = at]
<1>2. at \in Nat
  BY DEF Readings, TypeOK
<1>3. i \in Slots /\ e \in SlotStates /\ e.key = t
  BY SlotForOwnOrIdle, EntryOfTenant
<1> HIDE DEF e
<1>4. f \in SlotStates /\ f.key = t /\ f.places = e.places + 0
  <2>1. Refilled(t, e, at) \in Int
    BY <1>2, <1>3, RefilledInt
  <2>2. f \in SlotStates /\ f.key = e.key /\ f.places = e.places
    BY <1>2, <1>3, <2>1, MovedNone
  <2>3. e.places + 0 = e.places
    BY <1>3 DEF SlotStates
  <2> HIDE DEF f
  <2> QED
    BY <1>3, <2>2, <2>3
<1>5. RateOf[t] > 0 /\ Back(t, e, at) \in Nat /\ Retry(t, e, at) \in Int
  <2>1. RateOf[t] > 0
    BY <1>1 DEF OverRate, e
  <2> QED
    BY <1>2, <1>3, <2>1, BackNat, RetryInt
<1>6. table' = [table EXCEPT ![i] = f] /\ table' \in [Slots -> SlotStates]
  <2>1. table' = [table EXCEPT ![i] = f]
    BY <1>1 DEF e
  <2> HIDE DEF f
  <2> QED
    BY <1>3, <1>4, <2>1 DEF TypeOK, SlotStates
<1>7. /\ building' = building /\ running' = running /\ uncounted' = uncounted /\ now' = now
      /\ spent' = spent /\ refunded' = refunded /\ pressed' = Pressed(t, at)
  BY DEF RefuseRate
<1>8. Held(t)' = Held(t) + 0 /\ \A u \in Tenants \ {t} : Held(u)' = Held(u)
  BY <1>7 DEF Held, TypeOK
<1>9. TypeOK'
  <2>1. setBack' \in [Tenants -> Nat]
    <3>1. setBack \in [Tenants -> Nat] /\ setBack[t] + Back(t, e, at) \in Nat
      BY <1>5 DEF TypeOK
    <3> QED
      BY <1>1, <3>1 DEF e
  <2>2. due' \in [Tenants -> Int]
    <3>1. due \in [Tenants -> Int] /\ now + Retry(t, e, at) \in Int
      BY <1>5 DEF TypeOK
    <3> QED
      BY <1>1, <3>1 DEF e
  <2>3. pressed' \subseteq Tenants
    BY <1>7 DEF TypeOK, Pressed
  <2> QED
    BY <1>6, <1>7, <2>1, <2>2, <2>3 DEF TypeOK, SlotStates
<1>10. PlacesExact' /\ CapHeld'
  <2>1. f.places = Entry(t, i).places + 0 /\ 0 \in 0..1
    BY <1>4 DEF e
  <2> HIDE DEF f
  <2> QED
    BY <1>4, <1>6, <1>7, <1>8, <2>1, WorkedOnKeeps
<1> QED
  BY <1>9, <1>10

\* A place given back, whatever step of the tenant's gave it back.
LEMMA GivenBackKeeps ==
  ASSUME TenantInv, NEW t \in Tenants, Held(t) > 0,
         Held(t)' = Held(t) - 1, \A u \in Tenants \ {t} : Held(u)' = Held(u),
         uncounted' = uncounted, table' \in [Slots -> SlotStates],
         \A j \in Slots :
           /\ table'[j].key = table[j].key
           /\ table[j].key # t => table'[j] = table[j]
           /\ table[j].key = t =>
                table'[j].places = IF table[j].places > 0 THEN table[j].places - 1
                                                          ELSE table[j].places
  PROVE  PlacesExact' /\ CapHeld'
<1> USE DEF TenantInv
<1>1. \A u \in Tenants : Held(u) \in Nat /\ SlotsOf(u)' = SlotsOf(u)
  BY DEF Held, TypeOK, SlotsOf
<1>2. \A j \in Slots : table[j].places \in Nat
  BY DEF TypeOK
<1>3. ASSUME NEW u \in Tenants
      PROVE  /\ \A j, k \in SlotsOf(u)' : j = k
             /\ \A j \in SlotsOf(u)' : table'[j].places <= Held(u)'
             /\ u \notin uncounted' =>
                  /\ SlotsOf(u)' = {} => Held(u)' = 0
                  /\ \A j \in SlotsOf(u)' : table'[j].places = Held(u)'
  <2>1. CASE u = t
    BY <1>1, <1>2, <2>1 DEF PlacesExact, SlotsOf
  <2>2. CASE u # t
    BY <1>1, <1>2, <2>2 DEF PlacesExact, SlotsOf
  <2> QED
    BY <2>1, <2>2
<1>4. PlacesExact'
  BY <1>3 DEF PlacesExact
<1>5. CapHeld'
  BY <1>1, TenantLimits DEF CapHeld
<1> QED
  BY <1>4, <1>5

\* agnostic_tenant_unadmit: the place and the token go back.
LEMMA UnadmitKeeps ==
  ASSUME TenantInv, NEW t \in Tenants, Unadmit(t)
  PROVE  TenantInv'
<1> USE DEF TenantInv
<1>1. /\ building[t] > 0 /\ building' = [building EXCEPT ![t] = @ - 1] /\ running' = running
      /\ building \in [Tenants -> Nat] /\ running \in [Tenants -> Nat]
      /\ table' = [i \in Slots |-> IF table[i].key = t THEN HandBack(table[i]) ELSE table[i]]
      /\ uncounted' = uncounted
  BY DEF Unadmit, TypeOK
<1>2. Held(t) > 0 /\ Held(t)' = Held(t) - 1 /\ \A u \in Tenants \ {t} : Held(u)' = Held(u)
  BY <1>1 DEF Held
<1>3. \A i \in Slots : table[i] \in SlotStates
  BY DEF TypeOK, SlotStates
<1>4. \A i \in Slots :
        /\ table'[i] \in SlotStates /\ table'[i].key = table[i].key
        /\ table[i].key # t => table'[i] = table[i]
        /\ table[i].key = t =>
             table'[i].places = IF table[i].places > 0 THEN table[i].places - 1
                                                       ELSE table[i].places
  BY <1>1, <1>3, GivenBackOne
<1>5. table' \in [Slots -> SlotStates]
  BY <1>1, <1>4
<1>6. TypeOK'
  <2>1. refunded' \in [Tenants -> Seq(Nat)]
    BY DEF Unadmit, TypeOK
  <2> QED
    BY <1>1, <1>5, <2>1 DEF Unadmit, TypeOK, SlotStates
<1>7. PlacesExact' /\ CapHeld'
  BY <1>1, <1>2, <1>4, <1>5, GivenBackKeeps
<1> QED
  BY <1>6, <1>7

\* agnostic_tenant_crew_ended: the place goes back.
LEMMA CrewEndedKeeps ==
  ASSUME TenantInv, NEW t \in Tenants, CrewEnded(t)
  PROVE  TenantInv'
<1> USE DEF TenantInv
<1>1. /\ running[t] > 0 /\ running' = [running EXCEPT ![t] = @ - 1] /\ building' = building
      /\ building \in [Tenants -> Nat] /\ running \in [Tenants -> Nat]
      /\ table' = [i \in Slots |-> IF table[i].key = t THEN GiveBack(table[i]) ELSE table[i]]
      /\ uncounted' = uncounted
  BY DEF CrewEnded, TypeOK, history
<1>2. Held(t) > 0 /\ Held(t)' = Held(t) - 1 /\ \A u \in Tenants \ {t} : Held(u)' = Held(u)
  BY <1>1 DEF Held
<1>3. \A i \in Slots : table[i] \in SlotStates
  BY DEF TypeOK, SlotStates
<1>4. \A i \in Slots :
        /\ table'[i] \in SlotStates /\ table'[i].key = table[i].key
        /\ table[i].key # t => table'[i] = table[i]
        /\ table[i].key = t =>
             table'[i].places = IF table[i].places > 0 THEN table[i].places - 1
                                                       ELSE table[i].places
  BY <1>1, <1>3, GivenBackOne
<1>5. table' \in [Slots -> SlotStates]
  BY <1>1, <1>4
<1>6. TypeOK'
  BY <1>1, <1>5 DEF CrewEnded, TypeOK, SlotStates, history
<1>7. PlacesExact' /\ CapHeld'
  BY <1>1, <1>2, <1>4, <1>5, GivenBackKeeps
<1> QED
  BY <1>6, <1>7

\* A crew that is there holds the place its submission took.
LEMMA HoldKeeps ==
  ASSUME TenantInv, NEW t \in Tenants, Hold(t)
  PROVE  TenantInv'
<1> USE DEF TenantInv
<1>1. /\ building[t] > 0 /\ building' = [building EXCEPT ![t] = @ - 1]
      /\ running' = [running EXCEPT ![t] = @ + 1]
      /\ building \in [Tenants -> Nat] /\ running \in [Tenants -> Nat]
      /\ table' = table /\ uncounted' = uncounted
  BY DEF Hold, TypeOK, history
<1>2. \A u \in Tenants : Held(u)' = Held(u)
  BY <1>1 DEF Held
<1>3. \A u \in Tenants : SlotsOf(u)' = SlotsOf(u)
  BY <1>1 DEF SlotsOf
<1>4. TypeOK'
  BY <1>1 DEF Hold, TypeOK, history
<1>5. PlacesExact' /\ CapHeld'
  BY <1>1, <1>2, <1>3 DEF PlacesExact, CapHeld
<1> QED
  BY <1>4, <1>5

\* Neither the clock nor a refusal for the crews touches a slot.
LEMMA UntouchedKeeps ==
  ASSUME TenantInv, Tick \/ UNCHANGED vars
  PROVE  TenantInv'
<1> USE DEF TenantInv
<1>1. table' = table /\ building' = building /\ running' = running /\ uncounted' = uncounted
  BY DEF Tick, vars, history
<1>2. \A u \in Tenants : Held(u)' = Held(u) /\ SlotsOf(u)' = SlotsOf(u)
  BY <1>1 DEF Held, SlotsOf
<1>3. TypeOK'
  <2>1. CASE Tick
    BY <2>1 DEF Tick, TypeOK, history
  <2>2. CASE UNCHANGED vars
    BY <2>2 DEF vars, TypeOK
  <2> QED
    BY <2>1, <2>2
<1>4. PlacesExact' /\ CapHeld'
  BY <1>1, <1>2 DEF PlacesExact, CapHeld
<1> QED
  BY <1>3, <1>4

\* One step per operation of auth/tenantlimit.cyr.
LEMMA TenantInvStep == TenantInv /\ [Next]_vars => TenantInv'
<1> SUFFICES ASSUME TenantInv, [Next]_vars PROVE TenantInv'
  OBVIOUS
<1>1. CASE Tick \/ UNCHANGED vars
  BY <1>1, UntouchedKeeps
<1>2. ASSUME NEW t \in Tenants, NEW at \in Readings, Admit(t, at) \/ RefuseRate(t, at)
      PROVE  TenantInv'
  BY <1>2, AdmitKeeps, RefuseRateKeeps
<1>3. ASSUME NEW t \in Tenants, AdmitUncounted(t) PROVE TenantInv'
  BY <1>3, AdmitUncountedKeeps
<1>4. ASSUME NEW t \in Tenants, RefuseCrews(t) PROVE TenantInv'
  BY <1>4, UntouchedKeeps DEF RefuseCrews
<1>5. ASSUME NEW t \in Tenants, Unadmit(t) \/ Hold(t) \/ CrewEnded(t) PROVE TenantInv'
  BY <1>5, UnadmitKeeps, HoldKeeps, CrewEndedKeeps
<1> QED
  BY <1>1, <1>2, <1>3, <1>4, <1>5 DEF Next

\* The invariant of the places in every state.
LEMMA TenantInvHolds == Spec => []TenantInv
BY TenantInvInit, TenantInvStep, PTL DEF Spec

----------------------------------------------------------------------------
(* The rate                                                                 *)
(*                                                                          *)
(* The bucket is the bound: the tokens it holds, and those taken since any  *)
(* one that was taken less those handed back, are at most a burst and what  *)
(* came back since; the clock that measures what came back is the bucket's  *)
(* own, with what it was set back by.                                       *)

\* The times from `a` on.
Since(times, a) == {n \in DOMAIN times : a <= times[n]}

\* The tokens tenant `t` took from its m-th on, less those it was handed back since.
Taken(t, m) == Len(spent[t]) - m + 1 - Cardinality(Since(refunded[t], spent[t][m].at))

\* How far the clock of its bucket `e` went since.
Gone(t, e, m) == e.seen + setBack[t] + MaxLag - spent[t][m].at - spent[t][m].back

Covered(t, e, m) ==
  (e.tokens + Taken(t, m) * Unit - Cap(t)) * Minute <= Gone(t, e, m) * Cap(t)

RateFor(t) ==
  \A m \in DOMAIN spent[t] : \A n \in m..Len(spent[t]) :
    LET from == spent[t][m]
        to   == spent[t][n]
    IN  (n - m + 1 - Within(refunded[t], from.at, to.at) - RateOf[t]) * Minute
          <= (to.at + MaxLag - from.at + to.back - from.back) * RateOf[t]

Spenders(t) == RateOf[t] = 0 \/ SlotsOf(t) = {} => spent[t] = <<>>

Filled(t) == RateOf[t] > 0 => \A i \in SlotsOf(t) : table[i].tokens >= 0

TimesPast(t) ==
  /\ \A m \in DOMAIN spent[t] : spent[t][m].at <= now
  /\ \A n \in DOMAIN refunded[t] : refunded[t][n] <= now

SpentCovered(t) == \A i \in SlotsOf(t) : \A m \in DOMAIN spent[t] : Covered(t, table[i], m)

BucketOk(t) == Spenders(t) /\ Filled(t) /\ TimesPast(t) /\ SpentCovered(t) /\ RateFor(t)

\* A tenant that has waited since its first refusal finds the token when it is due.
DueOk(t) ==
  t \notin pressed /\ due[t] # Never =>
    /\ RateOf[t] > 0
    /\ \A i \in SlotsOf(t) :
         (Unit - table[i].tokens) * Minute <= (due[t] - table[i].seen) * Cap(t)

RateInv == \A t \in Tenants : BucketOk(t) /\ DueOk(t)

----------------------------------------------------------------------------
(* Arithmetic                                                               *)

\* Products of sums.
LEMMA Distributes ==
  ASSUME NEW a \in Int, NEW b \in Int, NEW c \in Int
  PROVE  (a + b) * c = a * c + b * c /\ (a - b) * c = a * c - b * c
OBVIOUS

\* A product keeps the order of its factors.
LEMMA OrderKept ==
  ASSUME NEW a \in Int, NEW b \in Int, NEW c \in Nat, a <= b
  PROVE  a * c <= b * c
OBVIOUS

\* A positive factor can be taken off both sides.
LEMMA OrderCancels ==
  ASSUME NEW a \in Int, NEW b \in Int, NEW c \in Nat, c > 0, a * c <= b * c
  PROVE  a <= b
OBVIOUS

\* Two bounds in the same parts add up.
LEMMA BoundsAdd ==
  ASSUME NEW a \in Int, NEW b \in Int, NEW y \in Int, NEW z \in Int,
         NEW m \in Int, NEW c \in Int,
         a * m <= y * c, b * m <= z * c
  PROVE  (a + b) * m <= (y + z) * c
<1> DEFINE am == a * m
           bm == b * m
           yc == y * c
           zc == z * c
<1>1. (a + b) * m = am + bm /\ (y + z) * c = yc + zc
  BY Distributes
<1>2. am \in Int /\ bm \in Int /\ yc \in Int /\ zc \in Int /\ am <= yc /\ bm <= zc
  OBVIOUS
<1> HIDE DEF am, bm, yc, zc
<1> QED
  BY <1>1, <1>2

\* The sums the coverage is stated with.
LEMMA Sums ==
  ASSUME NEW k \in Nat, NEW m \in Nat, NEW card \in Nat,
         NEW at \in Nat, NEW back \in Nat, NEW a \in Nat, NEW b \in Nat, NEW n \in Nat
  PROVE  /\ k + 1 - m + 1 - card \in Int
         /\ at + back + MaxLag - a - b \in Int
         /\ n + MaxLag - a + back - b \in Int
         /\ at <= n => at + back + MaxLag - a - b <= n + MaxLag - a + back - b
BY TenantClock

\* What the code's truncating division gives.
LEMMA Divides ==
  ASSUME NEW a \in Int, NEW b \in Nat \ {0}
  PROVE  a \div b \in Int /\ (a \div b) * b <= a /\ a < (a \div b) * b + b
OBVIOUS

\* What is back at a bucket when it is looked at: no more than its clock went.
LEMMA RefillPaid ==
  ASSUME NEW t \in Tenants, NEW e \in SlotStates, NEW at \in Nat,
         RateOf[t] > 0, e.tokens >= 0
  PROVE  /\ Refilled(t, e, at) >= 0
         /\ (Refilled(t, e, at) - e.tokens) * Minute
              <= (at + Back(t, e, at) - e.seen) * Cap(t)
<1>1. Cap(t) \in Nat /\ e.tokens \in Nat /\ e.seen \in Nat /\ Minute \in Nat \ {0}
  BY CapNat, TenantClock DEF SlotStates
<1>2. /\ Elapsed(e, at) \in Nat /\ Elapsed(e, at) <= at + Back(t, e, at) - e.seen
      /\ at + Back(t, e, at) - e.seen \in Int
  BY <1>1 DEF Elapsed, Lesser, Greater, Back
<1> DEFINE el == Elapsed(e, at)
           gone == at + Back(t, e, at) - e.seen
           came == el * Cap(t)
           back == came \div Minute
           ref  == Refilled(t, e, at)
<1>3. came \in Nat /\ came <= gone * Cap(t)
  BY <1>1, <1>2, OrderKept
<1> HIDE DEF el, gone, came
<1>4. back \in Int /\ back * Minute <= came /\ came < back * Minute + Minute
  BY <1>1, <1>3, Divides
<1>5. back >= 0
  <2> HIDE DEF back
  <2> QED
    BY <1>1, <1>3, <1>4
<1>6. ref = Lesser(Cap(t), e.tokens + back)
  BY <1>1 DEF Refilled, el, came
<1> HIDE DEF back, ref
<1>7. ref \in Int /\ ref >= 0 /\ ref - e.tokens <= back
  <2> HIDE DEF Cap
  <2> QED
    BY <1>1, <1>4, <1>5, <1>6 DEF Lesser
<1>8. (ref - e.tokens) * Minute <= back * Minute
  BY <1>1, <1>4, <1>7, OrderKept
<1>9. (ref - e.tokens) * Minute <= gone * Cap(t)
  <2> DEFINE p == (ref - e.tokens) * Minute
             q == back * Minute
             r == gone * Cap(t)
  <2>1. p \in Int /\ q \in Int /\ r \in Int
    BY <1>1, <1>2, <1>4, <1>7 DEF gone
  <2>2. p <= q /\ q <= came /\ came <= r
    BY <1>3, <1>4, <1>8
  <2> HIDE DEF p, q, r
  <2>3. p <= r
    BY <1>3, <2>1, <2>2
  <2> QED
    BY <2>3 DEF p, r
<1> QED
  BY <1>7, <1>9 DEF ref, gone

\* A full burst for a tenant the table has no bucket of: it is never refused for its rate.
LEMMA FreshFull ==
  ASSUME NEW t \in Tenants, NEW at \in Nat, RateOf[t] > 0
  PROVE  /\ Refilled(t, Fresh(t), at) = Cap(t) /\ Cap(t) >= Unit
         /\ ~OverRate(t, Fresh(t), at) /\ Back(t, Fresh(t), at) = 0
<1>1. Fresh(t).tokens = -1
  BY DEF Fresh
<1>2. Refilled(t, Fresh(t), at) = Cap(t) /\ Back(t, Fresh(t), at) = 0
  BY <1>1 DEF Refilled, Back
<1>3. Cap(t) >= Unit
  <2>1. 1 * Unit <= RateOf[t] * Unit
    BY OrderKept, TenantLimits, TenantClock
  <2> QED
    BY <2>1, TenantClock DEF Cap
<1>4. Cap(t) \in Nat /\ Unit \in Nat
  BY CapNat, TenantClock
<1> QED
  BY <1>2, <1>3, <1>4 DEF OverRate

----------------------------------------------------------------------------
(* Times                                                                    *)

\* The times from one on are finitely many; up to a time none is after, they are all.
LEMMA SinceFinite ==
  ASSUME NEW times \in Seq(Nat), NEW a \in Nat, NEW b \in Nat
  PROVE  /\ IsFiniteSet(Since(times, a)) /\ Cardinality(Since(times, a)) \in Nat
         /\ Within(times, a, b) \in Nat
         /\ (\A n \in DOMAIN times : times[n] <= b) =>
              Within(times, a, b) = Cardinality(Since(times, a))
<1> DEFINE W == {n \in DOMAIN times : a <= times[n] /\ times[n] <= b}
<1>1. IsFiniteSet(DOMAIN times)
  <2>1. DOMAIN times = 1 .. Len(times) /\ Len(times) \in Int
    OBVIOUS
  <2>2. IsFiniteSet(1 .. Len(times))
    BY <2>1, FS_Interval
  <2> QED
    BY <2>1, <2>2
<1>2. /\ IsFiniteSet(Since(times, a)) /\ Cardinality(Since(times, a)) \in Nat
      /\ IsFiniteSet(W) /\ Cardinality(W) \in Nat
  <2>1. Since(times, a) \in SUBSET DOMAIN times /\ W \in SUBSET DOMAIN times
    BY DEF Since
  <2>2. IsFiniteSet(Since(times, a)) /\ IsFiniteSet(W)
    BY <1>1, <2>1, FS_Subset
  <2> QED
    BY <2>2, FS_CardinalityType
<1>3. Within(times, a, b) = Cardinality(W)
  BY DEF Within
<1>4. (\A n \in DOMAIN times : times[n] <= b) => W = Since(times, a)
  BY DEF Since
<1> HIDE DEF W
<1> QED
  BY <1>2, <1>3, <1>4

\* One token more handed back, now.
LEMMA SinceAppend ==
  ASSUME NEW times \in Seq(Nat), NEW a \in Nat, NEW b \in Nat, NEW r \in Nat
  PROVE  /\ a <= r => Cardinality(Since(Append(times, r), a))
                        = Cardinality(Since(times, a)) + 1
         /\ Within(Append(times, r), a, b) >= Within(times, a, b)
<1> DEFINE more == Append(times, r)
           k == Len(times) + 1
           W == {n \in DOMAIN times : a <= times[n] /\ times[n] <= b}
           V == {n \in DOMAIN more : a <= more[n] /\ more[n] <= b}
<1>1. /\ more \in Seq(Nat) /\ DOMAIN more = DOMAIN times \cup {k} /\ k \notin DOMAIN times
      /\ \A n \in DOMAIN times : more[n] = times[n]
      /\ more[k] = r
  OBVIOUS
<1> HIDE DEF more, k
<1>2. a <= r => Since(more, a) = Since(times, a) \cup {k} /\ k \notin Since(times, a)
  BY <1>1 DEF Since
<1>3. IsFiniteSet(Since(times, a)) /\ Cardinality(Since(times, a)) \in Nat
  BY SinceFinite
<1>4. a <= r => Cardinality(Since(more, a)) = Cardinality(Since(times, a)) + 1
  BY <1>2, <1>3, FS_AddElement
<1>5. Within(more, a, b) >= Within(times, a, b)
  <2>1. W \in SUBSET V
    BY <1>1
  <2>2. IsFiniteSet(V)
    <3>1. IsFiniteSet(Since(more, a)) /\ V \in SUBSET Since(more, a)
      BY <1>1, SinceFinite DEF Since
    <3> QED
      BY <3>1, FS_Subset
  <2>3. Cardinality(W) <= Cardinality(V)
    BY <2>1, <2>2, FS_Subset
  <2>4. Within(more, a, b) = Cardinality(V) /\ Within(times, a, b) = Cardinality(W)
    BY DEF Within
  <2>5. Within(more, a, b) \in Nat /\ Within(times, a, b) \in Nat
    BY <1>1, SinceFinite
  <2> QED
    BY <2>3, <2>4, <2>5
<1> QED
  BY <1>4, <1>5 DEF more

----------------------------------------------------------------------------
(* The steps                                                                *)

\* The entries of what a tenant took.
LEMMA SpentTyped ==
  ASSUME TypeOK, NEW t \in Tenants, NEW m \in DOMAIN spent[t]
  PROVE  /\ m \in Nat \ {0} /\ Len(spent[t]) \in Nat /\ m <= Len(spent[t])
         /\ spent[t][m].at \in Nat /\ spent[t][m].back \in Nat
<1> DEFINE E == [at : Nat, back : Nat]
<1>1. spent[t] \in Seq(E)
  BY DEF TypeOK
<1>2. \A x \in E : x.at \in Nat /\ x.back \in Nat
  OBVIOUS
<1> HIDE DEF E
<1>3. spent[t][m] \in E /\ m \in Nat \ {0} /\ Len(spent[t]) \in Nat /\ m <= Len(spent[t])
  BY <1>1
<1> QED
  BY <1>2, <1>3

\* A step that leaves a tenant's bucket as it was and what it took from it.
LEMMA BucketUntouched ==
  ASSUME TypeOK, NEW t \in Tenants, BucketOk(t), now' \in Nat, now <= now',
         spent'[t] = spent[t], refunded'[t] = refunded[t], setBack'[t] = setBack[t],
         SlotsOf(t)' = SlotsOf(t),
         \A i \in SlotsOf(t) :
           table'[i].tokens = table[i].tokens /\ table'[i].seen = table[i].seen
  PROVE  BucketOk(t)'
<1>1. Spenders(t)'
  BY DEF BucketOk, Spenders
<1>2. Filled(t)'
  BY DEF BucketOk, Filled
<1>3. TimesPast(t)'
  <2>1. \A m \in DOMAIN spent[t] : spent[t][m].at \in Nat
    BY SpentTyped
  <2>2. \A n \in DOMAIN refunded[t] : refunded[t][n] \in Nat
    BY DEF TypeOK
  <2>3. now \in Nat
    BY DEF TypeOK
  <2> QED
    BY <2>1, <2>2, <2>3 DEF BucketOk, TimesPast
<1>4. SpentCovered(t)'
  BY DEF BucketOk, SpentCovered, Covered, Taken, Gone
<1>5. RateFor(t)'
  BY DEF BucketOk, RateFor
<1> QED
  BY <1>1, <1>2, <1>3, <1>4, <1>5 DEF BucketOk

\* A tenant whose bucket was taken over is owed nothing.
LEMMA BucketLost ==
  ASSUME NEW t \in Tenants, spent'[t] = <<>>, refunded'[t] = <<>>, SlotsOf(t)' = {}
  PROVE  BucketOk(t)'
BY DEF BucketOk, Spenders, Filled, TimesPast, SpentCovered, RateFor

\* What a tenant took and its clock are whole numbers.
LEMMA TakenInt ==
  ASSUME TypeOK, NEW t \in Tenants, NEW m \in DOMAIN spent[t]
  PROVE  /\ Taken(t, m) \in Int
         /\ \A e \in SlotStates : Gone(t, e, m) \in Int
         /\ spent[t][m].at \in Nat /\ spent[t][m].back \in Nat
<1>1. refunded[t] \in Seq(Nat) /\ setBack[t] \in Nat
  BY DEF TypeOK
<1>2. /\ m \in Nat /\ Len(spent[t]) \in Nat
      /\ spent[t][m].at \in Nat /\ spent[t][m].back \in Nat
  BY SpentTyped
<1>3. Cardinality(Since(refunded[t], spent[t][m].at)) \in Nat
  BY <1>1, <1>2, SinceFinite
<1>4. Taken(t, m) \in Int
  BY <1>2, <1>3 DEF Taken
<1>5. ASSUME NEW e \in SlotStates PROVE Gone(t, e, m) \in Int
  <2>1. e.seen \in Nat
    BY DEF SlotStates
  <2> DEFINE a == spent[t][m].at
             b == spent[t][m].back
             c == setBack[t]
             d == e.seen
  <2>2. a \in Nat /\ b \in Nat /\ c \in Nat /\ d \in Nat /\ MaxLag \in Nat
    BY <1>1, <1>2, <2>1, TenantClock
  <2>3. Gone(t, e, m) = d + c + MaxLag - a - b
    BY DEF Gone
  <2> HIDE DEF a, b, c, d
  <2> QED
    BY <2>2, <2>3
<1> QED
  BY <1>2, <1>4, <1>5

\* What a tenant took and its bucket covers is within its rate: nothing is left to take
\* when the bucket is empty.
LEMMA CoveredWithin ==
  ASSUME NEW c \in Nat, NEW k \in Int, NEW left \in Nat, NEW w \in Int,
         (left + k * Unit - c * Unit) * Minute <= w * (c * Unit)
  PROVE  (k - c) * Minute <= w * c
<1>1. Unit \in Nat /\ Unit > 0 /\ Minute \in Nat
  BY TenantClock
<1>2. k * Unit - c * Unit = (k - c) * Unit
  BY <1>1, Distributes
<1> DEFINE ku == k * Unit
           cu == c * Unit
<1>3. (ku - cu) * Minute <= (left + ku - cu) * Minute
  <2>1. ku \in Int /\ cu \in Int
    BY <1>1
  <2> HIDE DEF ku, cu
  <2> QED
    BY <1>1, <2>1, OrderKept
<1>4. ((k - c) * Unit) * Minute = ((k - c) * Minute) * Unit
  BY <1>1
<1>5. w * (c * Unit) = (w * c) * Unit
  BY <1>1
<1>6. ((k - c) * Minute) * Unit <= (w * c) * Unit
  <2> DEFINE a == (ku - cu) * Minute
             b == (left + ku - cu) * Minute
             d == w * cu
  <2>1. a \in Int /\ b \in Int /\ d \in Int /\ a <= b /\ b <= d
    BY <1>1, <1>3
  <2>2. a = ((k - c) * Minute) * Unit /\ d = (w * c) * Unit
    BY <1>2, <1>4, <1>5
  <2> HIDE DEF a, b, d
  <2> QED
    BY <2>1, <2>2
<1>7. (k - c) * Minute \in Int /\ w * c \in Int
  BY <1>1
<1> HIDE DEF ku, cu
<1> QED
  BY <1>1, <1>6, <1>7, OrderCancels

\* A bucket that is looked at: what came back since is what its clock went.
LEMMA CoveredMoves ==
  ASSUME TypeOK, NEW t \in Tenants, BucketOk(t), RateOf[t] > 0, NEW i \in SlotsOf(t),
         NEW at \in Nat, NEW m \in DOMAIN spent[t]
  PROVE  (Refilled(t, table[i], at) + Taken(t, m) * Unit - Cap(t)) * Minute
           <= (at + Back(t, table[i], at) + setBack[t] + MaxLag
                 - spent[t][m].at - spent[t][m].back) * Cap(t)
<1> DEFINE e == table[i]
           ref == Refilled(t, e, at)
           back == Back(t, e, at)
           tu == Taken(t, m) * Unit
           cap == Cap(t)
<1>1. e \in SlotStates /\ e.tokens \in Nat /\ e.seen \in Nat
  BY DEF SlotsOf, TypeOK, SlotStates, BucketOk, Filled
<1>2. /\ ref \in Int /\ back \in Nat /\ cap \in Nat /\ tu \in Int /\ Minute \in Nat
      /\ spent[t][m].at \in Nat /\ spent[t][m].back \in Nat /\ setBack[t] \in Nat
      /\ MaxLag \in Nat
  <2>1. ref \in Int /\ back \in Nat /\ cap \in Nat
    BY <1>1, RefilledInt, BackNat, CapNat
  <2>2. Taken(t, m) \in Int /\ spent[t][m].at \in Nat /\ spent[t][m].back \in Nat
    BY TakenInt
  <2> QED
    BY <2>1, <2>2, TenantClock DEF TypeOK
<1>3. (ref - e.tokens) * Minute <= (at + back - e.seen) * cap
  BY <1>1, RefillPaid
<1>4. (e.tokens + tu - cap) * Minute
        <= (e.seen + setBack[t] + MaxLag - spent[t][m].at - spent[t][m].back) * cap
  BY DEF BucketOk, SpentCovered, Covered, Gone
<1> DEFINE a == e.tokens + tu - cap
           b == ref - e.tokens
           y == e.seen + setBack[t] + MaxLag - spent[t][m].at - spent[t][m].back
           z == at + back - e.seen
<1> HIDE DEF e, ref, back, tu, cap
<1>5. a \in Int /\ b \in Int /\ y \in Int /\ z \in Int
  BY <1>1, <1>2
<1>6. /\ a + b = ref + tu - cap
      /\ y + z = at + back + setBack[t] + MaxLag - spent[t][m].at - spent[t][m].back
  BY <1>1, <1>2
<1>7. a * Minute <= y * cap /\ b * Minute <= z * cap
  BY <1>3, <1>4
<1> HIDE DEF a, b, y, z
<1>8. (a + b) * Minute <= (y + z) * cap
  BY <1>2, <1>5, <1>7, BoundsAdd
<1> QED
  BY <1>6, <1>8 DEF e, ref, back, tu, cap

\* The slot a step of `t` works on: nobody else's bucket but the one it takes over.
LEMMA OthersBuckets ==
  ASSUME TypeOK, \A v \in Tenants : BucketOk(v), NEW t \in Tenants, NEW u \in Tenants \ {t},
         NEW i \in SlotFor(t), NEW r \in SlotStates, r.key = t,
         table' = [table EXCEPT ![i] = r], now' = now,
         spent'[u] = (IF u \in Forgotten(i, t) THEN <<>> ELSE spent[u]),
         refunded'[u] = (IF u \in Forgotten(i, t) THEN <<>> ELSE refunded[u]),
         u \notin Forgotten(i, t) => setBack'[u] = setBack[u],
         \A v \in Tenants : \A j, k \in SlotsOf(v) : j = k
  PROVE  BucketOk(u)'
<1>1. /\ i \in Slots /\ table'[i] = r /\ \A j \in Slots \ {i} : table'[j] = table[j]
  <2>1. i \in Slots
    BY SlotForOwnOrIdle
  <2> QED
    BY <2>1 DEF TypeOK
<1>2. SlotsOf(u)' = SlotsOf(u) \ {i}
  BY <1>1 DEF SlotsOf
<1>3. u \in Forgotten(i, t) <=> i \in SlotsOf(u)
  BY <1>1 DEF SlotsOf, Forgotten
<1>4. CASE u \in Forgotten(i, t)
  <2>1. SlotsOf(u)' = {}
    BY <1>2, <1>3, <1>4
  <2> QED
    BY <1>4, <2>1, BucketLost
<1>5. CASE u \notin Forgotten(i, t)
  <2>1. SlotsOf(u)' = SlotsOf(u)
    BY <1>2, <1>3, <1>5
  <2>2. \A j \in SlotsOf(u) : table'[j] = table[j]
    BY <1>1, <1>3, <1>5 DEF SlotsOf
  <2>3. now \in Nat
    BY DEF TypeOK
  <2> QED
    BY <1>5, <2>1, <2>2, <2>3, BucketUntouched
<1> QED
  BY <1>4, <1>5

\* A refusal for the rate: the bucket moves, and nothing is taken from it.
LEMMA RefuseRateCovers ==
  ASSUME TenantInv, \A v \in Tenants : BucketOk(v),
         NEW t \in Tenants, NEW at \in Readings, RefuseRate(t, at)
  PROVE  \A u \in Tenants : BucketOk(u)'
<1> USE DEF TenantInv
<1>1. PICK i \in SlotFor(t) :
        LET e == Entry(t, i) IN
        /\ ~AtCap(t, e) /\ OverRate(t, e, at)
        /\ table' = [table EXCEPT ![i] = [e EXCEPT !.tokens = Refilled(t, e, at), !.seen = at]]
        /\ setBack' = [setBack EXCEPT ![t] = @ + Back(t, e, at)]
        /\ due' = [due EXCEPT ![t] = IF @ = Never THEN now + Retry(t, e, at) ELSE @]
  BY DEF RefuseRate
<1>2. at \in Nat /\ RateOf[t] > 0
  BY <1>1 DEF Readings, OverRate
<1>3. i \in SlotsOf(t) /\ table[i] \in SlotStates /\ i \in Slots
  <2>1. i \in Slots
    BY SlotForOwnOrIdle
  <2>2. table[i].key = t
    BY <1>1, <1>2, FreshFull DEF Entry
  <2> QED
    BY <2>1, <2>2 DEF SlotsOf, TypeOK, SlotStates
<1> DEFINE e == table[i]
           ref == Refilled(t, e, at)
           back == Back(t, e, at)
           f == [e EXCEPT !.tokens = ref, !.seen = at]
<1>4. /\ table' = [table EXCEPT ![i] = f]
      /\ setBack' = [setBack EXCEPT ![t] = @ + back]
      /\ spent' = spent /\ refunded' = refunded /\ now' = now
  <2>1. Entry(t, i) = e
    BY <1>3 DEF Entry, SlotsOf
  <2> QED
    BY <1>1, <2>1 DEF RefuseRate
<1>5. ref \in Int /\ back \in Nat /\ e.tokens >= 0 /\ ref >= 0
  <2>1. e.tokens >= 0
    BY <1>2, <1>3 DEF BucketOk, Filled
  <2> QED
    BY <1>2, <1>3, <2>1, RefilledInt, BackNat, RefillPaid
<1>6. /\ f \in SlotStates /\ f.key = t /\ f.tokens = ref /\ f.seen = at
  BY <1>2, <1>3, <1>5 DEF SlotStates, SlotsOf
<1> HIDE DEF f
<1>7. ASSUME NEW u \in Tenants \ {t} PROVE BucketOk(u)'
  <2>1. Forgotten(i, t) = {}
    BY <1>3 DEF Forgotten, SlotsOf
  <2>2. setBack'[u] = setBack[u]
    BY <1>4 DEF TypeOK
  <2> QED
    BY <1>4, <1>6, <2>1, <2>2, OthersBuckets DEF PlacesExact
<1>8. SlotsOf(t)' = {i} /\ table'[i] = f
  <2>1. table'[i] = f /\ \A j \in Slots \ {i} : table'[j] = table[j]
    BY <1>3, <1>4 DEF TypeOK
  <2>2. SlotsOf(t) = {i}
    BY <1>3 DEF PlacesExact
  <2> QED
    BY <1>3, <1>6, <2>1, <2>2 DEF SlotsOf
<1>9. BucketOk(t)'
  <2>1. Spenders(t)' /\ TimesPast(t)' /\ RateFor(t)'
    BY <1>2, <1>4, <1>8 DEF BucketOk, Spenders, TimesPast, RateFor
  <2>2. Filled(t)'
    BY <1>5, <1>6, <1>8 DEF Filled
  <2>3. ASSUME NEW m \in DOMAIN spent[t]
        PROVE  Covered(t, table[i], m)'
    <3>1. (ref + Taken(t, m) * Unit - Cap(t)) * Minute
            <= (at + back + setBack[t] + MaxLag - spent[t][m].at - spent[t][m].back) * Cap(t)
      BY <1>2, <1>3, CoveredMoves
    <3>2. Taken(t, m)' = Taken(t, m)
      BY <1>4 DEF Taken
    <3>3. Gone(t, table[i], m)'
            = at + back + setBack[t] + MaxLag - spent[t][m].at - spent[t][m].back
      <4>1. setBack'[t] = setBack[t] + back
        BY <1>4 DEF TypeOK
      <4>2. Gone(t, table[i], m)'
              = f.seen + setBack'[t] + MaxLag - spent[t][m].at - spent[t][m].back
        BY <1>4, <1>8 DEF Gone
      <4>3. setBack[t] \in Nat
        BY DEF TypeOK
      <4> HIDE DEF back
      <4> QED
        BY <1>2, <1>5, <1>6, <4>1, <4>2, <4>3
    <3> HIDE DEF ref, back
    <3> QED
      BY <1>6, <1>8, <3>1, <3>2, <3>3 DEF Covered
  <2>4. SpentCovered(t)'
    BY <1>4, <1>8, <2>3 DEF SpentCovered
  <2> QED
    BY <2>1, <2>2, <2>4 DEF BucketOk
<1> QED
  BY <1>7, <1>9

\* The bucket holds `ref` when its clock, with what it was set back by, stands at `clock`.
CoveredAt(t, ref, clock) ==
  \A m \in DOMAIN spent[t] :
    (ref + Taken(t, m) * Unit - Cap(t)) * Minute
      <= (clock + MaxLag - spent[t][m].at - spent[t][m].back) * Cap(t)

\* The step takes a token of a bucket with `ref`, and its clock goes to `at`.
TakesToken(t, i, at, back, ref) ==
  /\ SlotsOf(t)' = {i} /\ table'[i].tokens = ref - Unit /\ table'[i].seen = at
  /\ spent'[t] = Append(spent[t], [at |-> now, back |-> back])
  /\ refunded'[t] = refunded[t] /\ setBack'[t] = back /\ now' = now

\* A token taken from a bucket that covered what was taken before.
LEMMA TokenTaken ==
  ASSUME TypeOK, NEW t \in Tenants, RateOf[t] > 0, BucketOk(t),
         NEW i \in Slots, NEW at \in Readings, NEW back \in Nat, NEW ref \in Int,
         Unit <= ref, ref <= Cap(t),
         TakesToken(t, i, at, back, ref), CoveredAt(t, ref, at + back)
  PROVE  BucketOk(t)'
<1> DEFINE E == [at : Nat, back : Nat]
           x == [at |-> now, back |-> back]
           old == spent[t]
           new == spent'[t]
           L == Len(old)
           times == refunded[t]
<1>1. /\ now \in Nat /\ at \in Nat /\ at <= now /\ now - at <= MaxLag /\ MaxLag \in Nat
      /\ Unit \in Nat /\ Minute \in Nat /\ RateOf[t] \in Nat
  BY TenantLimits, TenantClock DEF TypeOK, Readings
<1>2. Cap(t) \in Nat
  BY CapNat
<1>3. /\ L \in Nat /\ DOMAIN old = 1 .. L /\ DOMAIN new = 1 .. L + 1
      /\ Len(new) = L + 1 /\ new[L + 1] = x
      /\ \A m \in 1 .. L : new[m] = old[m]
  <2>1. old \in Seq(E) /\ x \in E
    BY <1>1 DEF TypeOK
  <2> HIDE DEF E, x
  <2>2. new = Append(old, x)
    BY DEF x, TakesToken
  <2> HIDE DEF old, new
  <2> QED
    BY <2>1, <2>2
<1>4. \A n \in DOMAIN times : times[n] <= now
  BY DEF BucketOk, TimesPast
<1>5. \A m \in 1 .. L : /\ old[m].at \in Nat /\ old[m].back \in Nat /\ old[m].at <= now
                        /\ Taken(t, m) \in Int
  <2>1. ASSUME NEW m \in DOMAIN spent[t]
        PROVE  /\ old[m].at \in Nat /\ old[m].back \in Nat /\ old[m].at <= now
               /\ Taken(t, m) \in Int
    BY TakenInt DEF BucketOk, TimesPast
  <2> QED
    BY <1>3, <2>1
<1>6. x.at = now /\ x.back = back
  OBVIOUS
<1> HIDE DEF E, x, old, new, L, times
<1>a. L \in Nat /\ times \in Seq(Nat)
  BY <1>3 DEF TypeOK, times
<1>b. \A m \in 1 .. L + 1 : m \in Nat
  BY <1>a
<1>7. ASSUME NEW m \in 1 .. L + 1
      PROVE  /\ new[m].at \in Nat /\ new[m].back \in Nat /\ new[m].at <= now
             /\ Cardinality(Since(times, new[m].at)) \in Nat
             /\ Taken(t, m)' = L + 1 - m + 1 - Cardinality(Since(times, new[m].at))
             /\ Gone(t, table[i], m)' = at + back + MaxLag - new[m].at - new[m].back
  <2>1. new[m].at \in Nat /\ new[m].back \in Nat /\ new[m].at <= now
    <3>1. CASE m = L + 1
      BY <1>1, <1>3, <1>6, <3>1
    <3>2. CASE m \in 1 .. L
      BY <1>3, <1>5, <3>2
    <3> QED
      BY <1>3, <3>1, <3>2
  <2>2. Cardinality(Since(times, new[m].at)) \in Nat
    BY <1>1, <1>a, <2>1, SinceFinite
  <2>3. Taken(t, m)' = L + 1 - m + 1 - Cardinality(Since(times, new[m].at))
    BY <1>3 DEF Taken, new, times, TakesToken
  <2>4. Gone(t, table[i], m)' = at + back + MaxLag - new[m].at - new[m].back
    BY DEF Gone, new, TakesToken
  <2> QED
    BY <2>1, <2>2, <2>3, <2>4
<1>8. ASSUME NEW m \in 1 .. L + 1
      PROVE  Covered(t, table[i], m)'
  <2> DEFINE card == Cardinality(Since(times, new[m].at))
             k == L + 1 - m + 1 - card
             w == at + back + MaxLag - new[m].at - new[m].back
  <2> DEFINE a == new[m].at
             b == new[m].back
  <2>0. card \in Nat /\ a \in Nat /\ b \in Nat /\ m \in Nat
    <3>1. card \in Nat
      BY <1>7
    <3>2. a \in Nat /\ b \in Nat
      BY <1>7
    <3> QED
      BY <1>b, <3>1, <3>2
  <2>1. card \in Nat /\ k \in Int /\ w \in Int
    <3> HIDE DEF card, a, b
    <3> QED
      <4>1. k \in Int
        BY <1>a, <2>0, <1>1, Sums
      <4>2. w \in Int
        <5>1. w = at + back + MaxLag - a - b
          BY <2>0, <1>1 DEF a, b
        <5> HIDE DEF w
        <5> QED
          BY <1>a, <2>0, <1>1, <5>1, Sums
      <4> QED
        BY <2>0, <4>1, <4>2
  <2>2. Covered(t, table[i], m)'
          <=> (ref - Unit + k * Unit - Cap(t)) * Minute <= w * Cap(t)
    BY <1>7 DEF Covered, TakesToken
  <2> HIDE DEF w, k, a, b
  <2>3. CASE m = L + 1
    <3>1. k = 1 - card /\ w >= 0
      <4>1. a = now /\ b = back
        BY <1>3, <1>6, <2>3 DEF a, b
      <4>2. w = at + back + MaxLag - a - b
        BY DEF w, a, b
      <4> HIDE DEF card
      <4>3. k = L + 1 - m + 1 - card
        BY DEF k
      <4> QED
        BY <1>1, <1>3, <2>0, <2>3, <4>1, <4>2, <4>3
    <3>2. k * Unit = Unit - card * Unit /\ card * Unit \in Nat
      <4> HIDE DEF card
      <4>1. (1 - card) * Unit = 1 * Unit - card * Unit
        BY <1>1, <2>1, Distributes
      <4> QED
        BY <1>1, <2>1, <3>1, <4>1
    <3> DEFINE cu == card * Unit
    <3>3. ref - Unit + k * Unit - Cap(t) = ref - cu - Cap(t) /\ ref - cu - Cap(t) <= 0
      <4> DEFINE ku == k * Unit
      <4>1. ku = Unit - cu /\ cu \in Nat
        BY <3>2
      <4> HIDE DEF ku, cu
      <4>2. ref - Unit + ku - Cap(t) = ref - cu - Cap(t) /\ ref - cu - Cap(t) <= 0
        <5> HIDE DEF Cap
        <5> QED
          BY <1>1, <1>2, <4>1
      <4> QED
        BY <4>2 DEF ku
    <3> DEFINE z == ref - cu - Cap(t)
    <3>4. z \in Int /\ z <= 0
      BY <1>1, <1>2, <3>2, <3>3
    <3> HIDE DEF z, cu
    <3>5. z * Minute <= 0 * Minute /\ 0 * Cap(t) <= w * Cap(t)
      <4>1. z * Minute <= 0 * Minute
        BY <1>1, <3>4, OrderKept
      <4>2. 0 * Cap(t) <= w * Cap(t)
        BY <1>2, <2>1, <3>1, OrderKept
      <4> QED
        BY <4>1, <4>2
    <3>6. 0 * Minute = 0 /\ 0 * Cap(t) = 0 /\ z * Minute \in Int /\ w * Cap(t) \in Int
      BY <1>1, <1>2, <2>1, <3>4
    <3>7. z * Minute <= w * Cap(t)
      <4> DEFINE p == z * Minute
                 q == w * Cap(t)
      <4>1. p \in Int /\ q \in Int /\ p <= 0 /\ 0 <= q
        BY <3>5, <3>6
      <4> HIDE DEF p, q
      <4>2. p <= q
        BY <4>1
      <4> QED
        BY <4>2 DEF p, q
    <3> QED
      BY <2>2, <3>3, <3>7 DEF z
  <2>4. CASE m \in 1 .. L
    <3>1. /\ new[m] = old[m] /\ Taken(t, m) = k - 1 /\ k - 1 \in Int
          /\ w = at + back + MaxLag - old[m].at - old[m].back
      <4>1. new[m] = old[m]
        BY <1>3, <2>4
      <4>2. Taken(t, m) = L - m + 1 - card
        BY <4>1 DEF Taken, L, old, times
      <4> HIDE DEF card
      <4> QED
        BY <1>3, <2>1, <2>4, <4>1, <4>2 DEF k, w
    <3>2. (ref + (k - 1) * Unit - Cap(t)) * Minute <= w * Cap(t)
      BY <1>3, <2>4, <3>1 DEF old, CoveredAt
    <3>3. ref - Unit + k * Unit - Cap(t) = ref + (k - 1) * Unit - Cap(t)
      <4> DEFINE ku == k * Unit
      <4>1. ku \in Int /\ (k - 1) * Unit = ku - Unit
        BY <1>1, <2>1, Distributes
      <4> HIDE DEF ku
      <4>2. ref - Unit + ku - Cap(t) = ref + (k - 1) * Unit - Cap(t)
        BY <1>1, <1>2, <4>1
      <4> QED
        BY <4>2 DEF ku
    <3> QED
      BY <2>2, <3>2, <3>3
  <2> QED
    BY <1>3, <2>3, <2>4
<1>9. ASSUME NEW m \in 1 .. L + 1
      PROVE  (L + 1 - m + 1 - Within(times, new[m].at, now) - RateOf[t]) * Minute
               <= (now + MaxLag - new[m].at + back - new[m].back) * RateOf[t]
  <2> DEFINE card == Within(times, new[m].at, now)
             k == L + 1 - m + 1 - card
             a == new[m].at
             b == new[m].back
             w == at + back + MaxLag - a - b
             v == now + MaxLag - a + back - b
  <2>0. card = Cardinality(Since(times, new[m].at))
    <3>1. new[m].at \in Nat
      BY <1>7
    <3> QED
      BY <1>1, <1>a, <1>4, <3>1, SinceFinite
  <2>1. k \in Int /\ w \in Int /\ v \in Int /\ w <= v
    <3>1. card \in Nat /\ a \in Nat /\ b \in Nat /\ m \in Nat
      BY <1>3, <1>7, <2>0
    <3> HIDE DEF card, a, b
    <3> QED
      BY <1>1, <1>a, <3>1, Sums
  <2>2. Taken(t, m)' = k /\ Gone(t, table[i], m)' = w
    BY <1>7, <2>0
  <2> HIDE DEF card, k, w, v
  <2>3. (ref - Unit + k * Unit - RateOf[t] * Unit) * Minute <= w * (RateOf[t] * Unit)
    <3>1. Cap(t) = RateOf[t] * Unit
      BY DEF Cap
    <3> HIDE DEF Cap
    <3>2. (ref - Unit + k * Unit - Cap(t)) * Minute <= w * Cap(t)
      BY <1>8, <2>2 DEF Covered, TakesToken
    <3> QED
      BY <3>1, <3>2
  <2>4. (k - RateOf[t]) * Minute <= w * RateOf[t]
    <3>1. ref - Unit \in Nat
      BY <1>1
    <3> QED
      BY <1>1, <2>1, <2>3, <3>1, CoveredWithin
  <2>5. w * RateOf[t] <= v * RateOf[t]
    BY <1>1, <2>1, OrderKept
  <2>6. (k - RateOf[t]) * Minute <= v * RateOf[t]
    <3> DEFINE p == (k - RateOf[t]) * Minute
               q == w * RateOf[t]
               s == v * RateOf[t]
    <3>1. p <= q /\ q <= s
      BY <2>4, <2>5
    <3>a. p \in Int /\ q \in Int /\ s \in Int
      BY <1>1, <2>1
    <3> HIDE DEF p, q, s
    <3>2. p <= s
      BY <3>1, <3>a
    <3> QED
      BY <3>2 DEF p, s
  <2>7. /\ k - RateOf[t] = L + 1 - m + 1 - Within(times, new[m].at, now) - RateOf[t]
        /\ v = now + MaxLag - new[m].at + back - new[m].back
    BY <1>1, <1>7, <1>a, <1>b, <2>0 DEF k, v, card
  <2> QED
    BY <2>6, <2>7
<1>10. Spenders(t)'
  BY <1>3 DEF Spenders, TakesToken, new
<1>11. Filled(t)'
  BY <1>1 DEF Filled, TakesToken
<1>12. TimesPast(t)'
  <2>1. \A m \in DOMAIN spent'[t] : spent'[t][m].at <= now
    BY <1>3, <1>7 DEF new
  <2>2. \A n \in DOMAIN refunded'[t] : refunded'[t][n] <= now
    BY <1>4 DEF times, TakesToken
  <2> QED
    BY <2>1, <2>2 DEF TimesPast, TakesToken
<1>13. SpentCovered(t)'
  BY <1>3, <1>8 DEF SpentCovered, new, TakesToken
<1>14. RateFor(t)'
  <2> SUFFICES ASSUME NEW m \in DOMAIN new, NEW n \in m .. Len(new)
               PROVE  (n - m + 1 - Within(times, new[m].at, new[n].at) - RateOf[t]) * Minute
                        <= (new[n].at + MaxLag - new[m].at + new[n].back - new[m].back)
                             * RateOf[t]
    BY DEF RateFor, new, times, TakesToken
  <2>1. CASE n = L + 1
    <3>1. new[n].at = now /\ new[n].back = back /\ m \in 1 .. L + 1
      BY <1>3, <1>6, <2>1
    <3>2. (L + 1 - m + 1 - Within(times, new[m].at, now) - RateOf[t]) * Minute
            <= (now + MaxLag - new[m].at + back - new[m].back) * RateOf[t]
      BY <1>9, <3>1
    <3> HIDE DEF L, new, times
    <3>3. /\ n - m + 1 - Within(times, new[m].at, new[n].at) - RateOf[t]
               = L + 1 - m + 1 - Within(times, new[m].at, now) - RateOf[t]
          /\ new[n].at + MaxLag - new[m].at + new[n].back - new[m].back
               = now + MaxLag - new[m].at + back - new[m].back
      BY <1>1, <1>7, <1>a, <1>b, <2>1, <3>1
    <3> QED
      BY <3>2, <3>3
  <2>2. CASE n # L + 1
    <3>1. /\ m \in DOMAIN old /\ n \in m .. Len(old) /\ n \in 1 .. L /\ m \in 1 .. L
          /\ new[m] = old[m] /\ new[n] = old[n]
      <4>1. m \in 1 .. L /\ n \in m .. L /\ n \in 1 .. L
        BY <1>3, <2>2
      <4>2. L = Len(old)
        BY DEF L
      <4> QED
        BY <1>3, <4>1, <4>2
    <3>2. (n - m + 1 - Within(times, old[m].at, old[n].at) - RateOf[t]) * Minute
            <= (old[n].at + MaxLag - old[m].at + old[n].back - old[m].back) * RateOf[t]
      BY <3>1 DEF BucketOk, RateFor, old, times
    <3> QED
      BY <3>1, <3>2
  <2> QED
    BY <2>1, <2>2
<1> QED
  BY <1>10, <1>11, <1>12, <1>13, <1>14 DEF BucketOk

\* A bucket never holds more than a burst when it is looked at.
LEMMA RefilledWithinBurst ==
  ASSUME NEW t \in Tenants, NEW e \in SlotStates, NEW at \in Nat
  PROVE  Refilled(t, e, at) <= Cap(t)
<1> DEFINE came == (Elapsed(e, at) * Cap(t)) \div Minute
<1>1. Cap(t) \in Nat /\ e.tokens \in Int
  BY CapNat DEF SlotStates
<1>2. came \in Int
  <2>1. Elapsed(e, at) \in Nat
    BY TenantClock DEF Elapsed, Lesser, Greater, SlotStates
  <2>2. Elapsed(e, at) * Cap(t) \in Int
    BY <1>1, <2>1
  <2> HIDE DEF Elapsed, Cap
  <2> QED
    BY <2>2, TenantClock, Divides
<1>3. Refilled(t, e, at) = IF e.tokens < 0 THEN Cap(t) ELSE Lesser(Cap(t), e.tokens + came)
  BY DEF Refilled
<1> HIDE DEF came, Cap
<1> QED
  BY <1>1, <1>2, <1>3 DEF Lesser

\* A submission is admitted: a token of its bucket, or of a fresh one, is taken.
LEMMA AdmitCovers ==
  ASSUME TenantInv, \A v \in Tenants : BucketOk(v),
         NEW t \in Tenants, NEW at \in Readings, Admit(t, at)
  PROVE  \A u \in Tenants : BucketOk(u)'
<1> USE DEF TenantInv
<1>1. PICK i \in SlotFor(t) :
        LET e == Entry(t, i)
            gone == Forgotten(i, t)
            back == setBack[t] + Back(t, e, at)
        IN
        /\ ~AtCap(t, e) /\ ~OverRate(t, e, at)
        /\ table' = [table EXCEPT ![i] = Placed(t, e, at)]
        /\ spent' = [u \in Tenants |->
                       IF u \in gone THEN <<>>
                       ELSE IF u = t /\ RateOf[t] > 0
                            THEN Append(spent[u], [at |-> now, back |-> back])
                       ELSE spent[u]]
        /\ refunded' = [u \in Tenants |-> IF u \in gone THEN <<>> ELSE refunded[u]]
        /\ setBack' = [u \in Tenants |->
                         IF u \in gone THEN 0 ELSE IF u = t THEN back ELSE setBack[u]]
  BY DEF Admit
<1> DEFINE e == Entry(t, i)
           back == setBack[t] + Back(t, e, at)
           ref == Refilled(t, e, at)
           r == Placed(t, e, at)
<1>2. at \in Nat /\ now' = now
  BY DEF Readings, Admit
<1>3. i \in Slots /\ e \in SlotStates /\ e.key = t
  BY SlotForOwnOrIdle, EntryOfTenant
<1>4. /\ table' = [table EXCEPT ![i] = r]
      /\ \A u \in Tenants \ {t} :
           /\ spent'[u] = (IF u \in Forgotten(i, t) THEN <<>> ELSE spent[u])
           /\ refunded'[u] = (IF u \in Forgotten(i, t) THEN <<>> ELSE refunded[u])
           /\ u \notin Forgotten(i, t) => setBack'[u] = setBack[u]
      /\ refunded'[t] = refunded[t] /\ setBack'[t] = back
      /\ RateOf[t] > 0 => spent'[t] = Append(spent[t], [at |-> now, back |-> back])
      /\ ~(RateOf[t] > 0) => spent'[t] = spent[t]
      /\ ~OverRate(t, e, at)
  BY <1>1 DEF Forgotten
<1> HIDE DEF e
<1>5. /\ r \in SlotStates /\ r.key = t /\ r.seen = at
      /\ RateOf[t] > 0 => r.tokens = ref - Unit
  <2>1. r \in SlotStates /\ r.key = t
    BY <1>2, <1>3, PlacedOne
  <2>2. r.seen = at /\ (RateOf[t] > 0 => r.tokens = ref - Unit)
    BY <1>3 DEF Placed, SlotStates
  <2> QED
    BY <2>1, <2>2
<1>6. ASSUME NEW u \in Tenants \ {t} PROVE BucketOk(u)'
  <2> HIDE DEF r
  <2> QED
    BY <1>2, <1>4, <1>5, OthersBuckets DEF PlacesExact
<1>7. SlotsOf(t)' = {i} /\ table'[i] = r
  <2> HIDE DEF r
  <2>1. table'[i] = r /\ \A j \in Slots \ {i} : table'[j] = table[j]
    BY <1>3, <1>4 DEF TypeOK
  <2>2. SlotsOf(t)' = SlotsOf(t) \cup {i}
    BY <1>3, <1>5, <2>1 DEF SlotsOf
  <2>3. SlotsOf(t) \subseteq {i}
    BY <1>3, SlotForOwnOrIdle DEF PlacesExact, SlotsOf
  <2> QED
    BY <2>1, <2>2, <2>3
<1>8. BucketOk(t)'
  <2>1. CASE RateOf[t] > 0
    <3>1. ref \in Int /\ ref <= Cap(t)
      BY <1>2, <1>3, RefilledInt, RefilledWithinBurst
    <3>2. Unit <= ref
      BY <1>4, <2>1, <3>1, TenantClock DEF OverRate
    <3>3. back \in Nat
      <4>1. Back(t, e, at) \in Nat /\ setBack[t] \in Nat
        BY <1>2, <1>3, BackNat DEF TypeOK
      <4> QED
        BY <4>1
    <3>4. CoveredAt(t, ref, at + back)
      <4> SUFFICES ASSUME NEW m \in DOMAIN spent[t]
                   PROVE  (ref + Taken(t, m) * Unit - Cap(t)) * Minute
                            <= (at + back + MaxLag - spent[t][m].at - spent[t][m].back)
                                 * Cap(t)
        BY DEF CoveredAt
      <4>1. i \in SlotsOf(t)
        <5>1. SlotsOf(t) # {}
          BY DEF BucketOk, Spenders
        <5> QED
          BY <1>3, <5>1, SlotForOwnOrIdle DEF SlotsOf
      <4>2. e = table[i]
        BY <4>1 DEF SlotsOf, Entry, e
      <4>3. (ref + Taken(t, m) * Unit - Cap(t)) * Minute
              <= (at + Back(t, e, at) + setBack[t] + MaxLag
                    - spent[t][m].at - spent[t][m].back) * Cap(t)
        BY <1>2, <2>1, <4>1, <4>2, CoveredMoves
      <4>4. at + Back(t, e, at) + setBack[t] = at + back
        <5>1. Back(t, e, at) \in Nat /\ setBack[t] \in Nat
          BY <1>2, <1>3, BackNat DEF TypeOK
        <5> QED
          BY <1>2, <5>1
      <4> HIDE DEF ref, back
      <4> QED
        BY <4>3, <4>4
    <3>5. TakesToken(t, i, at, back, ref)
      BY <1>2, <1>4, <1>5, <1>7, <2>1 DEF TakesToken
    <3> HIDE DEF ref, back
    <3> QED
      BY <1>3, <2>1, <3>1, <3>2, <3>3, <3>4, <3>5, TokenTaken
  <2>2. CASE ~(RateOf[t] > 0)
    <3>1. RateOf[t] = 0
      BY <2>2, TenantLimits
    <3>2. spent'[t] = <<>> /\ refunded'[t] = refunded[t]
      BY <1>4, <2>2, <3>1 DEF BucketOk, Spenders
    <3>3. Spenders(t)' /\ Filled(t)' /\ SpentCovered(t)' /\ RateFor(t)'
      BY <2>2, <3>2 DEF Spenders, Filled, SpentCovered, RateFor
    <3>4. TimesPast(t)'
      BY <1>2, <3>2 DEF BucketOk, TimesPast
    <3> QED
      BY <3>3, <3>4 DEF BucketOk
  <2> QED
    BY <2>1, <2>2
<1> QED
  BY <1>6, <1>8

\* Handing a place back, with its token or without, leaves the slot its owner.
LEMMA HandedBack ==
  ASSUME NEW e \in SlotStates
  PROVE  /\ GiveBack(e).tokens = e.tokens /\ GiveBack(e).seen = e.seen
         /\ HandBack(e).seen = e.seen
         /\ HandBack(e).tokens = IF e.tokens >= 0 THEN e.tokens + Unit ELSE e.tokens
<1>1. GiveBack(e) \in SlotStates /\ GiveBack(e).tokens = e.tokens /\ GiveBack(e).seen = e.seen
  BY GivenBackOne DEF GiveBack, SlotStates
<1> HIDE DEF GiveBack
<1> QED
  BY <1>1 DEF HandBack, SlotStates

\* A token handed back is one less taken.
LEMMA TokenBack ==
  ASSUME TypeOK, NEW t \in Tenants, BucketOk(t), RateOf[t] > 0, now' = now,
         SlotsOf(t)' = SlotsOf(t), spent'[t] = spent[t], setBack'[t] = setBack[t],
         refunded'[t] = Append(refunded[t], now),
         \A i \in SlotsOf(t) :
           table'[i].tokens = table[i].tokens + Unit /\ table'[i].seen = table[i].seen
  PROVE  BucketOk(t)'
<1> DEFINE times == refunded[t]
<1>1. /\ now \in Nat /\ times \in Seq(Nat) /\ Unit \in Nat
      /\ \A i \in SlotsOf(t) : table[i].tokens \in Int
  BY TenantClock DEF TypeOK, SlotsOf
<1>2. Spenders(t)'
  BY DEF BucketOk, Spenders
<1>3. Filled(t)'
  BY <1>1 DEF BucketOk, Filled
<1>4. TimesPast(t)'
  <2>1. \A n \in DOMAIN Append(times, now) : Append(times, now)[n] <= now
    <3>1. \A n \in DOMAIN times : times[n] <= now
      BY DEF BucketOk, TimesPast
    <3> HIDE DEF times
    <3> QED
      BY <1>1, <3>1
  <2> QED
    BY <2>1 DEF BucketOk, TimesPast
<1>5. ASSUME NEW i \in SlotsOf(t), NEW m \in DOMAIN spent[t]
      PROVE  Covered(t, table[i], m)'
  <2> DEFINE a == spent[t][m].at
             tok == table[i].tokens
             k == Taken(t, m)
             ku == k * Unit
  <2>1. a \in Nat /\ k \in Int /\ a <= now
    BY TakenInt DEF BucketOk, TimesPast
  <2>2. /\ Cardinality(Since(times, a)) \in Nat
        /\ Cardinality(Since(Append(times, now), a)) = Cardinality(Since(times, a)) + 1
    <3>1. Cardinality(Since(times, a)) \in Nat
      BY <1>1, <2>1, SinceFinite
    <3>2. Cardinality(Since(Append(times, now), a)) = Cardinality(Since(times, a)) + 1
      BY <1>1, <2>1, SinceAppend
    <3> QED
      BY <3>1, <3>2
  <2>3. Taken(t, m)' = k - 1
    <3>1. /\ Taken(t, m)'
                = Len(spent[t]) - m + 1 - Cardinality(Since(Append(times, now), a))
          /\ k = Len(spent[t]) - m + 1 - Cardinality(Since(times, a))
      BY DEF Taken
    <3>2. Len(spent[t]) \in Nat /\ m \in Nat
      BY SpentTyped
    <3> DEFINE c == Cardinality(Since(times, a))
               d == Cardinality(Since(Append(times, now), a))
               L == Len(spent[t])
    <3>3. Taken(t, m)' = L - m + 1 - d /\ k = L - m + 1 - c
      BY <3>1
    <3>4. c \in Nat /\ d = c + 1 /\ L \in Nat /\ m \in Nat
      BY <2>2, <3>2
    <3> HIDE DEF k, c, d, L
    <3> QED
      BY <3>3, <3>4
  <2>4. Gone(t, table[i], m)' = Gone(t, table[i], m)
    BY DEF Gone
  <2>5. (k - 1) * Unit = ku - Unit /\ ku \in Int
    BY <1>1, <2>1, Distributes
  <2>6. tok + Unit + (k - 1) * Unit - Cap(t) = tok + ku - Cap(t)
    <3>1. tok \in Int /\ Cap(t) \in Nat
      BY <1>1, CapNat
    <3> HIDE DEF tok, ku, k, Cap
    <3> QED
      BY <1>1, <2>5, <3>1
  <2>7. table'[i].tokens + Taken(t, m)' * Unit - Cap(t) = tok + ku - Cap(t)
    <3> HIDE DEF tok, k, ku
    <3>1. table'[i].tokens = tok + Unit
      BY DEF tok
    <3> QED
      BY <2>3, <2>6, <3>1
  <2>8. (tok + ku - Cap(t)) * Minute <= Gone(t, table[i], m) * Cap(t)
    BY DEF BucketOk, SpentCovered, Covered
  <2> HIDE DEF tok, ku
  <2> QED
    BY <2>4, <2>7, <2>8 DEF Covered
<1>6. SpentCovered(t)'
  BY <1>5 DEF SpentCovered
<1>7. RateFor(t)'
  <2> SUFFICES ASSUME NEW m \in DOMAIN spent[t], NEW n \in m .. Len(spent[t])
               PROVE  (n - m + 1 - Within(Append(times, now), spent[t][m].at, spent[t][n].at)
                         - RateOf[t]) * Minute
                        <= (spent[t][n].at + MaxLag - spent[t][m].at
                              + spent[t][n].back - spent[t][m].back) * RateOf[t]
    BY DEF RateFor
  <2> DEFINE w == Within(times, spent[t][m].at, spent[t][n].at)
             v == Within(Append(times, now), spent[t][m].at, spent[t][n].at)
             y == (spent[t][n].at + MaxLag - spent[t][m].at
                     + spent[t][n].back - spent[t][m].back) * RateOf[t]
  <2>1. n \in DOMAIN spent[t]
    BY SpentTyped
  <2>2. /\ spent[t][m].at \in Nat /\ spent[t][n].at \in Nat /\ m \in Nat /\ n \in Nat
        /\ spent[t][m].back \in Nat /\ spent[t][n].back \in Nat
    BY <2>1, SpentTyped
  <2>3. /\ w \in Nat /\ v \in Nat /\ w <= v
    <3>1. Append(times, now) \in Seq(Nat)
      BY <1>1
    <3> QED
      BY <1>1, <2>2, <3>1, SinceFinite, SinceAppend
  <2>4. (n - m + 1 - w - RateOf[t]) * Minute <= y
    BY DEF BucketOk, RateFor
  <2>5. y \in Int
    <3> DEFINE a == spent[t][m].at
               b == spent[t][m].back
               c == spent[t][n].at
               d == spent[t][n].back
               g == c + MaxLag - a + d - b
    <3>1. a \in Nat /\ b \in Nat /\ c \in Nat /\ d \in Nat /\ MaxLag \in Nat
      BY <2>2, TenantClock
    <3>2. y = g * RateOf[t] /\ RateOf[t] \in Int
      BY TenantLimits
    <3> HIDE DEF a, b, c, d, y
    <3>3. g \in Int
      BY <3>1
    <3> HIDE DEF g
    <3> QED
      BY <3>2, <3>3
  <2> HIDE DEF w, v, y
  <2> DEFINE p == n - m + 1 - v - RateOf[t]
             q == n - m + 1 - w - RateOf[t]
  <2>6. p \in Int /\ q \in Int /\ p <= q /\ Minute \in Nat
    BY <2>2, <2>3, TenantLimits, TenantClock
  <2> HIDE DEF p, q
  <2>7. p * Minute <= q * Minute /\ p * Minute \in Int /\ q * Minute \in Int
    BY <2>6, OrderKept
  <2>8. p * Minute <= y
    <3> DEFINE a == p * Minute
               b == q * Minute
    <3>1. a <= b /\ b <= y /\ a \in Int /\ b \in Int
      BY <2>4, <2>7 DEF q
    <3> HIDE DEF a, b
    <3>2. a <= y
      BY <2>5, <3>1
    <3> QED
      BY <3>2 DEF a
  <2> QED
    BY <2>8 DEF p, v, y
<1> QED
  BY <1>2, <1>3, <1>4, <1>6, <1>7 DEF BucketOk

\* agnostic_tenant_unadmit: the token of a submission whose crew was never built.
LEMMA UnadmitCovers ==
  ASSUME TenantInv, \A v \in Tenants : BucketOk(v), NEW t \in Tenants, Unadmit(t)
  PROVE  \A u \in Tenants : BucketOk(u)'
<1> USE DEF TenantInv
<1>1. /\ table' = [i \in Slots |-> IF table[i].key = t THEN HandBack(table[i]) ELSE table[i]]
      /\ refunded' = [refunded EXCEPT ![t] =
                        IF SlotsOf(t) # {} /\ RateOf[t] > 0 THEN Append(@, now) ELSE @]
      /\ spent' = spent /\ setBack' = setBack /\ now' = now /\ now \in Nat
      /\ refunded \in [Tenants -> Seq(Nat)]
  BY DEF Unadmit, TypeOK
<1>2. \A i \in Slots : table[i] \in SlotStates
  BY DEF TypeOK, SlotStates
<1>3. \A i \in Slots : /\ table'[i].key = table[i].key
                       /\ table[i].key # t => table'[i] = table[i]
  BY <1>1, <1>2, GivenBackOne
<1>4. ASSUME NEW u \in Tenants PROVE SlotsOf(u)' = SlotsOf(u)
  <2>1. \A i \in Slots : table'[i].key = table[i].key
    BY <1>3
  <2> QED
    BY <2>1 DEF SlotsOf
<1>5. ASSUME NEW u \in Tenants \ {t} PROVE BucketOk(u)'
  <2>1. refunded'[u] = refunded[u]
    BY <1>1
  <2>2. \A i \in SlotsOf(u) : i \in Slots /\ table[i].key # t
    BY DEF SlotsOf
  <2>3. \A i \in SlotsOf(u) : table'[i] = table[i]
    BY <1>3, <2>2
  <2> QED
    <3>1. /\ now' \in Nat /\ now <= now'
          /\ spent'[u] = spent[u] /\ setBack'[u] = setBack[u]
      BY <1>1
    <3>2. \A i \in SlotsOf(u) :
            table'[i].tokens = table[i].tokens /\ table'[i].seen = table[i].seen
      BY <2>3
    <3> QED
      BY <1>4, <2>1, <3>1, <3>2, BucketUntouched
<1>6. BucketOk(t)'
  <2>1. CASE SlotsOf(t) # {} /\ RateOf[t] > 0
    <3>1. refunded'[t] = Append(refunded[t], now)
      BY <1>1, <2>1
    <3>2. \A i \in SlotsOf(t) :
            table'[i].tokens = table[i].tokens + Unit /\ table'[i].seen = table[i].seen
      <4>1. \A i \in SlotsOf(t) : i \in Slots /\ table'[i] = HandBack(table[i])
        BY <1>1 DEF SlotsOf
      <4>2. \A i \in SlotsOf(t) : table[i].tokens >= 0
        BY <2>1 DEF BucketOk, Filled
      <4> QED
        BY <1>2, <4>1, <4>2, HandedBack
    <3> QED
      BY <1>1, <1>4, <2>1, <3>1, <3>2, TokenBack
  <2>2. CASE SlotsOf(t) = {}
    <3>1. refunded'[t] = refunded[t]
      BY <1>1, <2>2
    <3> QED
      BY <1>1, <1>4, <2>2, <3>1, BucketUntouched
  <2>3. CASE ~(RateOf[t] > 0)
    <3>0. RateOf[t] = 0
      BY <2>3, TenantLimits
    <3>1. refunded'[t] = refunded[t] /\ RateOf[t] = 0
      BY <1>1, <2>3, <3>0
    <3>2. spent'[t] = <<>>
      BY <1>1, <3>1 DEF BucketOk, Spenders
    <3>3. Spenders(t)' /\ Filled(t)' /\ SpentCovered(t)' /\ RateFor(t)'
      BY <2>3, <3>2 DEF Spenders, Filled, SpentCovered, RateFor
    <3>4. TimesPast(t)'
      BY <1>1, <3>1, <3>2 DEF BucketOk, TimesPast
    <3> QED
      BY <3>3, <3>4 DEF BucketOk
  <2> QED
    BY <2>1, <2>2, <2>3
<1> QED
  BY <1>5, <1>6

\* The end of a crew, a place that is held on to, an uncounted submission and the clock
\* leave every bucket as it was.
LEMMA OtherStepsCover ==
  ASSUME TenantInv, \A v \in Tenants : BucketOk(v), NEW t \in Tenants,
         CrewEnded(t) \/ Hold(t) \/ AdmitUncounted(t) \/ Tick \/ UNCHANGED vars
  PROVE  \A u \in Tenants : BucketOk(u)'
<1> USE DEF TenantInv
<1>1. /\ now \in Nat /\ now' \in Nat /\ now <= now'
      /\ spent' = spent /\ refunded' = refunded /\ setBack' = setBack
  BY DEF TypeOK, CrewEnded, Hold, AdmitUncounted, Tick, vars, history
<1>2. \A i \in Slots : table[i] \in SlotStates
  BY DEF TypeOK, SlotStates
<1>3. \A i \in Slots : /\ table'[i].key = table[i].key /\ table'[i].tokens = table[i].tokens
                       /\ table'[i].seen = table[i].seen
  <2>1. CASE CrewEnded(t)
    <3>1. table' = [i \in Slots |-> IF table[i].key = t THEN GiveBack(table[i]) ELSE table[i]]
      BY <2>1 DEF CrewEnded
    <3> QED
      BY <1>2, <3>1, GivenBackOne, HandedBack
  <2>2. CASE Hold(t) \/ AdmitUncounted(t) \/ Tick \/ UNCHANGED vars
    BY <2>2 DEF Hold, AdmitUncounted, Tick, vars
  <2> QED
    BY <2>1, <2>2
<1> SUFFICES ASSUME NEW u \in Tenants PROVE BucketOk(u)'
  OBVIOUS
<1>4. SlotsOf(u)' = SlotsOf(u) /\ \A i \in SlotsOf(u) : i \in Slots
  BY <1>3 DEF SlotsOf
<1> QED
  BY <1>1, <1>3, <1>4, BucketUntouched

----------------------------------------------------------------------------
(* Retry-After                                                              *)

\* Waiting out the Retry-After of a bucket brings what it misses.
LEMMA RetryEnough ==
  ASSUME NEW t \in Tenants, RateOf[t] > 0, NEW e \in SlotStates, NEW at \in Nat
  PROVE  /\ Retry(t, e, at) \in Int
         /\ (Unit - Refilled(t, e, at)) * Minute <= Retry(t, e, at) * Cap(t)
<1> DEFINE lack == Unit - Refilled(t, e, at)
           cap == Cap(t)
           step == Minute \div Second
           miss == lack * step
           q == (miss + cap - 1) \div cap
<1>1. cap \in Nat \ {0} /\ lack \in Int /\ Second \in Nat \ {0} /\ Minute \in Nat \ {0}
  BY CapNat, RefilledInt, TenantClock
<1>2. step \in Int /\ step * Second = Minute
  <2>1. Minute % Second = 0
    BY TenantClock
  <2> QED
    BY <1>1, <2>1
<1>3. miss \in Int
  BY <1>1, <1>2
<1>4. Missing(t, e, at) = miss /\ Retry(t, e, at) = q * Second
  BY DEF Missing, Retry
<1> HIDE DEF lack, cap, step
<1>5. q \in Int /\ miss <= q * cap
  <2> HIDE DEF miss
  <2>1. q \in Int /\ miss + cap - 1 < q * cap + cap
    BY <1>1, <1>3, Divides
  <2> DEFINE qc == q * cap
  <2>2. qc \in Int /\ miss + cap - 1 < qc + cap
    BY <1>1, <2>1
  <2> HIDE DEF qc, q
  <2>3. miss <= qc
    BY <1>1, <1>3, <2>2
  <2> QED
    BY <2>1, <2>3 DEF qc
<1> HIDE DEF q
<1>6. miss * Second <= (q * cap) * Second
  <2> DEFINE qc == q * cap
  <2>1. qc \in Int /\ miss <= qc
    BY <1>1, <1>5
  <2> HIDE DEF qc, miss
  <2>2. miss * Second <= qc * Second
    BY <1>1, <1>3, <2>1, OrderKept
  <2> QED
    BY <2>2 DEF qc
<1>7. miss * Second = lack * Minute
  <2>1. (lack * step) * Second = lack * (step * Second)
    BY <1>1, <1>2
  <2> QED
    BY <1>2, <2>1
<1>8. (q * cap) * Second = (q * Second) * cap /\ q * Second \in Int
  BY <1>1, <1>5
<1> HIDE DEF miss
<1> QED
  BY <1>4, <1>6, <1>7, <1>8 DEF lack, cap

\* A tenant that waited since the refusal that told it so finds the token there.
LEMMA DueFinds ==
  ASSUME TypeOK, NEW t \in Tenants \ pressed, BucketOk(t), DueOk(t), due[t] # Never,
         NEW at \in Readings, RefuseRate(t, at)
  PROVE  at < due[t]
<1>1. PICK i \in SlotFor(t) : OverRate(t, Entry(t, i), at)
  BY DEF RefuseRate
<1>2. at \in Nat /\ RateOf[t] > 0 /\ i \in Slots /\ due[t] \in Int
  <2>1. now \in Nat /\ at \in 0..now
    BY DEF TypeOK, Readings
  <2>2. at \in Nat
    BY <2>1
  <2>3. RateOf[t] > 0
    BY <1>1 DEF OverRate
  <2>4. i \in Slots
    BY <1>1, SlotForOwnOrIdle
  <2>5. due[t] \in Int
    BY DEF TypeOK
  <2> QED
    BY <2>2, <2>3, <2>4, <2>5
<1>3. table[i].key = t /\ i \in SlotsOf(t) /\ table[i] \in SlotStates
  <2>1. table[i].key = t
    BY <1>1, <1>2, FreshFull DEF Entry
  <2> QED
    BY <1>2, <2>1 DEF SlotsOf, TypeOK, SlotStates
<1> DEFINE e == table[i]
           tok == e.tokens
           cap == Cap(t)
           el == Elapsed(e, at)
           came == el * cap
           back == came \div Minute
           ref == Refilled(t, e, at)
<1>4. /\ tok \in Nat /\ e.seen \in Nat /\ cap \in Nat /\ Unit <= cap
      /\ Unit \in Nat /\ Minute \in Nat \ {0}
  <2>1. tok \in Nat /\ e.seen \in Nat
    BY <1>2, <1>3 DEF BucketOk, Filled, SlotStates
  <2>2. cap \in Nat /\ Unit <= cap
    BY <1>2, CapNat, FreshFull
  <2> QED
    BY <2>1, <2>2, TenantClock
<1>5. ref < Unit
  BY <1>1, <1>3 DEF OverRate, Entry
<1>6. ref = Lesser(cap, tok + back)
  BY <1>4 DEF Refilled
<1>7. el \in Nat /\ el <= Minute /\ (el = Minute \/ el >= at - e.seen)
  BY <1>2, <1>4 DEF Elapsed, Lesser, Greater
<1>8. (Unit - tok) * Minute <= (due[t] - e.seen) * cap
  BY <1>3 DEF DueOk
<1> HIDE DEF e, tok, cap, el, ref
<1>9. came \in Nat
  BY <1>4, <1>7
<1>10. back \in Int /\ back * Minute <= came /\ came < back * Minute + Minute
  <2> HIDE DEF came
  <2> QED
    BY <1>4, <1>9, Divides
<1> SUFFICES ASSUME due[t] <= at PROVE FALSE
  BY <1>2
<1>11. (Unit - tok) * Minute <= came
  <2>1. CASE el = Minute
    <3>1. (Unit - tok) * Minute <= cap * Minute
      BY <1>4, OrderKept
    <3>2. came = cap * Minute
      BY <1>4, <2>1
    <3> QED
      BY <3>1, <3>2
  <2>2. CASE el >= at - e.seen
    <3>1. due[t] - e.seen <= el /\ due[t] - e.seen \in Int
      BY <1>2, <1>4, <1>7, <2>2
    <3>2. (due[t] - e.seen) * cap <= el * cap
      BY <1>4, <1>7, <3>1, OrderKept
    <3> DEFINE a == (Unit - tok) * Minute
               b == (due[t] - e.seen) * cap
    <3>3. a \in Int /\ b \in Int /\ a <= b /\ b <= came
      BY <1>4, <1>8, <3>1, <3>2
    <3> HIDE DEF a, b, came
    <3>4. a <= came
      BY <1>9, <3>3
    <3> QED
      BY <3>4 DEF a
  <2> QED
    BY <1>7, <2>1, <2>2
<1>12. Unit - tok <= back
  <2> HIDE DEF came, back
  <2>1. (Unit - tok) * Minute < (back + 1) * Minute
    <3>1. (back + 1) * Minute = back * Minute + Minute
      BY <1>4, <1>10
    <3> DEFINE a == (Unit - tok) * Minute
               b == (back + 1) * Minute
    <3>2. a \in Int /\ b \in Int /\ a <= came /\ came < b
      BY <1>4, <1>10, <1>11, <3>1
    <3> HIDE DEF a, b
    <3>3. a < b
      BY <1>9, <3>2
    <3> QED
      BY <3>3 DEF a, b
  <2>2. ~(back + 1 <= Unit - tok)
    <3> SUFFICES ASSUME back + 1 <= Unit - tok PROVE FALSE
      OBVIOUS
    <3>1. (back + 1) * Minute <= (Unit - tok) * Minute
      BY <1>4, <1>10, OrderKept
    <3> DEFINE a == (Unit - tok) * Minute
               b == (back + 1) * Minute
    <3>2. a \in Int /\ b \in Int /\ a < b /\ b <= a
      BY <1>4, <1>10, <2>1, <3>1
    <3> HIDE DEF a, b
    <3> QED
      BY <3>2
  <2> QED
    BY <1>4, <1>10, <2>2
<1> HIDE DEF came, back
<1> QED
  BY <1>4, <1>5, <1>6, <1>10, <1>12 DEF Lesser

\* A step that takes nothing from a tenant's bucket leaves what it waits for due.
LEMMA DueUntouched ==
  ASSUME TypeOK, NEW t \in Tenants, DueOk(t), due'[t] = due[t],
         t \in pressed => t \in pressed', SlotsOf(t)' \subseteq SlotsOf(t),
         \A i \in SlotsOf(t)' :
           /\ table'[i].tokens \in Int /\ table[i].tokens <= table'[i].tokens
           /\ table'[i].seen = table[i].seen
  PROVE  DueOk(t)'
<1> SUFFICES ASSUME t \notin pressed, due[t] # Never, NEW i \in SlotsOf(t)'
             PROVE  (Unit - table'[i].tokens) * Minute <= (due[t] - table[i].seen) * Cap(t)
  BY DEF DueOk
<1> DEFINE a == table[i].tokens
           b == table'[i].tokens
           c == (due[t] - table[i].seen) * Cap(t)
<1>1. i \in SlotsOf(t)
  OBVIOUS
<1>2. /\ a \in Int /\ b \in Int /\ a <= b /\ Unit \in Int /\ Minute \in Nat
      /\ table[i].seen \in Nat /\ due[t] \in Int /\ Cap(t) \in Nat
  BY <1>1, TenantClock, CapNat DEF TypeOK, SlotsOf
<1>3. c \in Int
  BY <1>2
<1>4. (Unit - a) * Minute <= c
  BY <1>1 DEF DueOk
<1> HIDE DEF a, b, c
<1>5. (Unit - b) * Minute <= (Unit - a) * Minute
  <2>1. Unit - b <= Unit - a /\ Unit - b \in Int /\ Unit - a \in Int
    BY <1>2
  <2> QED
    BY <1>2, <2>1, OrderKept
<1>6. (Unit - b) * Minute \in Int /\ (Unit - a) * Minute \in Int
  BY <1>2
<1>7. (Unit - b) * Minute <= c
  <2> DEFINE p == (Unit - b) * Minute
             q == (Unit - a) * Minute
  <2>1. p \in Int /\ q \in Int /\ p <= q /\ q <= c
    BY <1>4, <1>5, <1>6
  <2> HIDE DEF p, q
  <2>2. p <= c
    BY <1>3, <2>1
  <2> QED
    BY <2>2 DEF p
<1> QED
  BY <1>7 DEF b, c

\* The slots of a tenant that a step of `t` on slot `i` does not touch.
LEMMA OthersDue ==
  ASSUME TypeOK, NEW t \in Tenants, NEW u \in Tenants \ {t}, DueOk(u),
         NEW i \in Slots, NEW r \in SlotStates, r.key = t,
         table' = [table EXCEPT ![i] = r], due'[u] = due[u], u \in pressed => u \in pressed'
  PROVE  DueOk(u)'
<1>1. table'[i] = r /\ \A j \in Slots \ {i} : table'[j] = table[j]
  BY DEF TypeOK
<1>2. SlotsOf(u)' \subseteq SlotsOf(u) \ {i}
  BY <1>1 DEF SlotsOf
<1>3. ASSUME NEW j \in SlotsOf(u)'
      PROVE  /\ table'[j].tokens \in Int /\ table[j].tokens <= table'[j].tokens
             /\ table'[j].seen = table[j].seen
  <2>1. j \in Slots \ {i} /\ table'[j] = table[j]
    BY <1>1, <1>2 DEF SlotsOf
  <2>2. table[j].tokens \in Int
    BY <2>1 DEF TypeOK
  <2> QED
    BY <2>1, <2>2
<1> QED
  BY <1>2, <1>3, DueUntouched

\* An admission: nothing is due to the tenant any more.
LEMMA AdmitDue ==
  ASSUME TypeOK, \A v \in Tenants : DueOk(v),
         NEW t \in Tenants, NEW at \in Readings, Admit(t, at)
  PROVE  \A u \in Tenants : DueOk(u)'
<1>1. PICK i \in SlotFor(t) : table' = [table EXCEPT ![i] = Placed(t, Entry(t, i), at)]
  BY DEF Admit
<1> DEFINE r == Placed(t, Entry(t, i), at)
<1>2. i \in Slots /\ Entry(t, i) \in SlotStates /\ Entry(t, i).key = t
  BY SlotForOwnOrIdle, EntryOfTenant
<1>3. r \in SlotStates /\ r.key = t
  <2>1. at \in Nat
    BY DEF Readings
  <2> QED
    BY <1>2, <2>1, PlacedOne
<1>4. due' = [due EXCEPT ![t] = Never] /\ pressed' = pressed \ {t} /\ due \in [Tenants -> Int]
  BY DEF Admit, TypeOK
<1>5. DueOk(t)'
  BY <1>4 DEF DueOk
<1> HIDE DEF r
<1>6. ASSUME NEW u \in Tenants \ {t} PROVE DueOk(u)'
  <2>1. due'[u] = due[u] /\ (u \in pressed => u \in pressed')
    BY <1>4
  <2>2. table' = [table EXCEPT ![i] = r]
    BY <1>1 DEF r
  <2> QED
    BY <1>2, <1>3, <2>1, <2>2, OthersDue
<1> QED
  BY <1>5, <1>6

\* A refusal for the rate: what the first one says is kept, and whoever asks sooner than
\* that has pressed.
LEMMA RefuseRateDue ==
  ASSUME TypeOK, PlacesExact, \A v \in Tenants : BucketOk(v) /\ DueOk(v),
         NEW t \in Tenants, NEW at \in Readings, RefuseRate(t, at)
  PROVE  \A u \in Tenants : DueOk(u)'
<1>1. PICK i \in SlotFor(t) :
        LET e == Entry(t, i) IN
        /\ ~AtCap(t, e) /\ OverRate(t, e, at)
        /\ table' = [table EXCEPT ![i] = [e EXCEPT !.tokens = Refilled(t, e, at), !.seen = at]]
        /\ setBack' = [setBack EXCEPT ![t] = @ + Back(t, e, at)]
        /\ due' = [due EXCEPT ![t] = IF @ = Never THEN now + Retry(t, e, at) ELSE @]
  BY DEF RefuseRate
<1> DEFINE e == Entry(t, i)
           ref == Refilled(t, e, at)
           ret == Retry(t, e, at)
           f == [e EXCEPT !.tokens = ref, !.seen = at]
<1>2. i \in Slots /\ e \in SlotStates /\ e.key = t /\ at \in Nat /\ at <= now /\ now \in Nat
  <2>1. i \in Slots
    BY SlotForOwnOrIdle
  <2>2. at \in Nat /\ at <= now /\ now \in Nat
    BY DEF Readings, TypeOK
  <2> QED
    BY <2>1, <2>2, EntryOfTenant
<1>3. /\ table' = [table EXCEPT ![i] = f]
      /\ due' = [due EXCEPT ![t] = IF @ = Never THEN now + ret ELSE @]
      /\ pressed' = Pressed(t, at) /\ due \in [Tenants -> Int] /\ RateOf[t] > 0
  BY <1>1 DEF RefuseRate, TypeOK, OverRate
<1> HIDE DEF e
<1>4. ref \in Int /\ ret \in Int /\ (Unit - ref) * Minute <= ret * Cap(t)
  BY <1>2, <1>3, RefilledInt, RetryEnough
<1>5. f \in SlotStates /\ f.key = t /\ f.tokens = ref /\ f.seen = at
  BY <1>2, <1>4 DEF SlotStates
<1> HIDE DEF f, ref, ret
<1>6. ASSUME NEW u \in Tenants \ {t} PROVE DueOk(u)'
  <2>1. due'[u] = due[u] /\ (u \in pressed => u \in pressed')
    BY <1>3 DEF Pressed
  <2> QED
    BY <1>2, <1>3, <1>5, <2>1, OthersDue
<1>7. ASSUME t \in pressed PROVE DueOk(t)'
  <2>1. t \in pressed'
    BY <1>3, <1>7 DEF Pressed
  <2> QED
    BY <2>1 DEF DueOk
<1>8. ASSUME t \notin pressed, due[t] # Never PROVE DueOk(t)'
  <2>1. at < due[t]
    BY <1>8, DueFinds
  <2>2. t \in pressed'
    BY <1>3, <1>8, <2>1 DEF Pressed
  <2> QED
    BY <2>2 DEF DueOk
<1>9. ASSUME t \notin pressed, due[t] = Never PROVE DueOk(t)'
  <2>1. due'[t] = now + ret
    BY <1>3, <1>9
  <2>2. \A j \in SlotsOf(t)' : table'[j] = f
    <3>1. table'[i] = f /\ \A j \in Slots \ {i} : table'[j] = table[j]
      BY <1>2, <1>3 DEF TypeOK
    <3>2. SlotsOf(t) \subseteq {i}
      BY SlotForOwnOrIdle DEF PlacesExact, SlotsOf
    <3>3. SlotsOf(t)' \subseteq SlotsOf(t) \cup {i}
      BY <1>2, <3>1 DEF SlotsOf
    <3> QED
      BY <3>1, <3>2, <3>3
  <2>3. (Unit - ref) * Minute <= (now + ret - at) * Cap(t)
    <3>1. ret <= now + ret - at /\ now + ret - at \in Int /\ Cap(t) \in Nat
      BY <1>2, <1>4, CapNat
    <3>2. ret * Cap(t) <= (now + ret - at) * Cap(t)
      BY <1>4, <3>1, OrderKept
    <3> DEFINE p == (Unit - ref) * Minute
               q == ret * Cap(t)
               s == (now + ret - at) * Cap(t)
    <3>3. p \in Int /\ q \in Int /\ s \in Int
      BY <1>4, <3>1, TenantClock
    <3>4. p <= q /\ q <= s
      BY <1>4, <3>2
    <3> HIDE DEF p, q, s
    <3>5. p <= s
      BY <3>3, <3>4
    <3> QED
      BY <3>5 DEF p, s
  <2> SUFFICES ASSUME NEW j \in SlotsOf(t)'
               PROVE  (Unit - table'[j].tokens) * Minute
                        <= (due'[t] - table'[j].seen) * Cap(t)
    BY <1>3 DEF DueOk
  <2>4. table'[j].tokens = ref /\ table'[j].seen = at
    BY <1>5, <2>2
  <2>5. /\ Unit - table'[j].tokens = Unit - ref
        /\ due'[t] - table'[j].seen = now + ret - at
    BY <1>2, <1>4, <2>1, <2>4, TenantClock
  <2> QED
    BY <2>3, <2>5
<1> QED
  BY <1>6, <1>7, <1>8, <1>9

\* The steps that leave every bucket alone or add to it.
LEMMA OtherStepsDue ==
  ASSUME TypeOK, \A v \in Tenants : DueOk(v), NEW t \in Tenants,
         \/ Unadmit(t) \/ CrewEnded(t) \/ Hold(t) \/ AdmitUncounted(t)
         \/ Tick \/ UNCHANGED vars
  PROVE  \A u \in Tenants : DueOk(u)'
<1>1. \A j \in Slots : table[j] \in SlotStates
  BY DEF TypeOK, SlotStates
<1>2. \A j \in Slots :
        /\ table'[j].key = table[j].key /\ table'[j].seen = table[j].seen
        /\ table'[j].tokens \in Int /\ table[j].tokens <= table'[j].tokens
  <2>1. CASE Unadmit(t)
    <3>1. table' = [j \in Slots |-> IF table[j].key = t THEN HandBack(table[j]) ELSE table[j]]
      BY <2>1 DEF Unadmit
    <3>2. ASSUME NEW j \in Slots
          PROVE  /\ HandBack(table[j]).key = table[j].key
                 /\ HandBack(table[j]).seen = table[j].seen
                 /\ HandBack(table[j]).tokens \in Int
                 /\ table[j].tokens <= HandBack(table[j]).tokens
                 /\ table[j].tokens \in Int
      <4>1. table[j] \in SlotStates /\ table[j].tokens \in Int
        BY <1>1 DEF SlotStates
      <4>2. /\ HandBack(table[j]).key = table[j].key
            /\ HandBack(table[j]).seen = table[j].seen
            /\ HandBack(table[j]).tokens = IF table[j].tokens >= 0 THEN table[j].tokens + Unit
                                                                 ELSE table[j].tokens
        BY <4>1, GivenBackOne, HandedBack
      <4> QED
        BY <4>1, <4>2, TenantClock
    <3> QED
      BY <3>1, <3>2
  <2>2. CASE CrewEnded(t)
    <3>1. table' = [j \in Slots |-> IF table[j].key = t THEN GiveBack(table[j]) ELSE table[j]]
      BY <2>2 DEF CrewEnded
    <3>2. ASSUME NEW j \in Slots
          PROVE  /\ GiveBack(table[j]).key = table[j].key
                 /\ GiveBack(table[j]).seen = table[j].seen
                 /\ GiveBack(table[j]).tokens = table[j].tokens
                 /\ table[j].tokens \in Int
      BY <1>1, GivenBackOne, HandedBack DEF SlotStates
    <3> QED
      BY <3>1, <3>2
  <2>3. CASE Hold(t) \/ AdmitUncounted(t) \/ Tick \/ UNCHANGED vars
    <3>1. table' = table
      BY <2>3 DEF Hold, AdmitUncounted, Tick, vars
    <3> QED
      BY <1>1, <3>1 DEF SlotStates
  <2> QED
    BY <2>1, <2>2, <2>3
<1>3. ASSUME NEW u \in Tenants PROVE DueOk(u)'
  <2>1. CASE due'[u] = due[u] /\ (u \in pressed => u \in pressed')
    <3>1. SlotsOf(u)' \subseteq SlotsOf(u) /\ SlotsOf(u)' \subseteq Slots
      BY <1>2 DEF SlotsOf
    <3> QED
      BY <1>2, <2>1, <3>1, DueUntouched
  <2>2. CASE due'[u] = Never
    BY <2>2 DEF DueOk
  <2>3. CASE AdmitUncounted(t)
    <3>1. /\ due' = [due EXCEPT ![t] = Never] /\ pressed' = pressed \ {t}
          /\ due \in [Tenants -> Int]
      BY <2>3 DEF AdmitUncounted, TypeOK
    <3> QED
      BY <2>1, <2>2, <3>1
  <2>4. CASE Unadmit(t) \/ CrewEnded(t) \/ Hold(t) \/ Tick \/ UNCHANGED vars
    <3>1. due' = due /\ pressed' = pressed
      BY <2>4 DEF Unadmit, CrewEnded, Hold, Tick, vars, history
    <3> QED
      BY <2>1, <3>1
  <2> QED
    BY <2>3, <2>4
<1> QED
  BY <1>3

----------------------------------------------------------------------------

\* Before the first submission nothing is taken and nothing is due.
LEMMA RateInvInit == Init => RateInv
<1> SUFFICES ASSUME Init, NEW t \in Tenants PROVE BucketOk(t) /\ DueOk(t)
  BY DEF RateInv
<1>1. spent[t] = <<>> /\ refunded[t] = <<>> /\ due[t] = Never /\ SlotsOf(t) = {}
  BY TenantLimits DEF Init, SlotsOf
<1>2. BucketOk(t)
  BY <1>1 DEF BucketOk, Spenders, Filled, TimesPast, SpentCovered, RateFor
<1>3. DueOk(t)
  BY <1>1 DEF DueOk
<1> QED
  BY <1>2, <1>3

\* Every step keeps both, whoever takes it.
LEMMA RateInvStep == TenantInv /\ RateInv /\ [Next]_vars => RateInv'
<1> SUFFICES ASSUME TenantInv, RateInv, [Next]_vars, NEW u \in Tenants
             PROVE  BucketOk(u)' /\ DueOk(u)'
  BY DEF RateInv
<1>1. TypeOK /\ PlacesExact /\ \A v \in Tenants : BucketOk(v) /\ DueOk(v)
  BY DEF TenantInv, RateInv
<1>2. ASSUME NEW t \in Tenants, NEW at \in Readings, Admit(t, at)
      PROVE  BucketOk(u)' /\ DueOk(u)'
  BY <1>1, <1>2, AdmitCovers, AdmitDue
<1>3. ASSUME NEW t \in Tenants, NEW at \in Readings, RefuseRate(t, at)
      PROVE  BucketOk(u)' /\ DueOk(u)'
  BY <1>1, <1>3, RefuseRateCovers, RefuseRateDue
<1>4. ASSUME NEW t \in Tenants, Unadmit(t)
      PROVE  BucketOk(u)' /\ DueOk(u)'
  BY <1>1, <1>4, UnadmitCovers, OtherStepsDue
<1>5. ASSUME NEW t \in Tenants,
             CrewEnded(t) \/ Hold(t) \/ AdmitUncounted(t) \/ Tick \/ UNCHANGED vars
      PROVE  BucketOk(u)' /\ DueOk(u)'
  BY <1>1, <1>5, OtherStepsCover, OtherStepsDue
<1>6. CASE Tick \/ UNCHANGED vars
  BY <1>5, <1>6
<1>7. ASSUME NEW t \in Tenants, RefuseCrews(t)
      PROVE  BucketOk(u)' /\ DueOk(u)'
  BY <1>6, <1>7 DEF RefuseCrews
<1> QED
  BY <1>2, <1>3, <1>4, <1>5, <1>6, <1>7 DEF Next

\* They hold throughout, beside the counts.
LEMMA RateInvHolds == Spec => [](TenantInv /\ RateInv)
<1>1. Init => TenantInv /\ RateInv
  BY TenantInvInit, RateInvInit
<1>2. (TenantInv /\ RateInv) /\ [Next]_vars => (TenantInv /\ RateInv)'
  BY TenantInvStep, RateInvStep
<1> QED
  BY <1>1, <1>2, PTL DEF Spec

----------------------------------------------------------------------------
(* The theorems                                                             *)

\* Every step of auth/tenantlimit.cyr keeps the types, its divisions included.
THEOREM TenantTypes == Spec => []TypeOK
<1>1. TenantInv => TypeOK
  BY DEF TenantInv
<1> QED
  BY <1>1, TenantInvHolds, PTL

\* The places counted against a tenant are its crews being built and running, whichever
\* slots were taken over meanwhile.
THEOREM PlacesCounted == Spec => []PlacesExact
<1>1. TenantInv => PlacesExact
  BY DEF TenantInv
<1> QED
  BY <1>1, TenantInvHolds, PTL

\* No interleaving of submissions, failures and endings takes a tenant above its cap.
THEOREM CapRespected == Spec => []CapHeld
<1>1. TenantInv => CapHeld
  BY DEF TenantInv
<1> QED
  BY <1>1, TenantInvHolds, PTL

\* In any stretch of time a tenant gets its burst and what came back during the stretch,
\* whichever slots, threads and refusals its submissions met.
THEOREM RateRespected == Spec => []RateHeld
<1>1. RateInv => RateHeld
  BY DEF RateInv, BucketOk, RateFor, RateHeld
<1> QED
  BY <1>1, RateInvHolds, PTL

\* A tenant that waits out the Retry-After of its first refusal is not refused again.
THEOREM RetryHonoured == Spec => RetryFinds
<1>1. TenantInv /\ RateInv /\ [Next]_vars =>
        [\A t \in Tenants \ pressed : \A at \in Readings :
           RefuseRate(t, at) => due[t] = Never \/ at < due[t]]_vars
  BY DueFinds DEF TenantInv, RateInv
<1> QED
  BY <1>1, RateInvHolds, PTL DEF Spec, RetryFinds

=============================================================================
