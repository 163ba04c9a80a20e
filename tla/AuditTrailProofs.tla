-------------------------- MODULE AuditTrailProofs --------------------------
(************************************************************************** *)
(* What holds of the audit trail for any number of threads, entries,        *)
(* starts and alterations.                                                  *)
(*                                                                          *)
(* HonestTrail: a trail nobody altered is never reported as altered, nor    *)
(* as restarted while every start could read it.  The verdict is formed     *)
(* from the file alone, by a start or a re-verify that knows nothing of     *)
(* the process that wrote it.  So the invariant is about the file           *)
(* (ChainInv): every entry names the one before it, or nothing if some      *)
(* start could not read the trail.  An append keeps that because of the     *)
(* head (HeadInv): what the next entry will name is the last stored hash,   *)
(* also after a write that failed half way.                                 *)
(*                                                                          *)
(* AlterationFound: the other direction, that an alteration is seen, from   *)
(* the hashes being given out once (HashesInv) and an intact trail being a  *)
(* chain without a break (LeftInv).                                         *)
(*                                                                          *)
(* RingTrue: the ring holds the store's newest entries, each at its place   *)
(* modulo the ring's size (RingInv).                                        *)
(************************************************************************** *)
EXTENDS AuditTrail, TLAPS, SequenceTheorems, WellFoundedInduction

LastHash(s) == IF s = <<>> THEN Genesis ELSE s[Len(s)].hash

\* What the next entry of the store names, or the one in hand does.
Predecessor == IF lock = NoThread THEN head ELSE inHand[lock].prev

\* The entry at i follows the one before it, or begins again where that is allowed.
Follows(s, i, again) ==
  /\ s[i].whole
  /\ i = 1 => s[i].prev = Genesis
  /\ i > 1 => s[i].prev = s[i - 1].hash \/ (again /\ s[i].prev = Genesis)

HandsType ==
  /\ stored \in Seq(Entries)
  /\ head \in 0..MaxHashes /\ minted \in 0..MaxHashes
  /\ open \in BOOLEAN /\ broken \in BOOLEAN /\ unread \in BOOLEAN
  /\ lock \in Threads \cup {NoThread}
  /\ inHand \in [Threads -> Entries \cup {NoEntry}]

\* Only the lock's holder, in a process that runs, has an entry in hand; the head is on
\* it, and its content is what was hashed.
HandInv ==
  /\ \A t \in Threads : inHand[t] # NoEntry <=> lock = t
  /\ lock # NoThread => open
  /\ \A t \in Threads : lock = t => inHand[t].whole /\ head = inHand[t].hash

HeadInv ==
  open => Predecessor = LastHash(stored) \/ (unread /\ Predecessor = Genesis)

ChainInv ==
  ~broken => \A i \in 1..Len(stored) : Follows(stored, i, unread)

TrailInv == HandsType /\ HandInv /\ HeadInv /\ ChainInv /\ HonestTrail

----------------------------------------------------------------------------
(* What the judgement says of a chain that holds                            *)

\* _agnostic_audit_judge_locked never says ALTERED of a chain whose entries follow one
\* another, and RESTARTS only of one that was allowed to begin again.
LEMMA JudgedHonest ==
  ASSUME NEW s \in Seq(Entries), NEW again \in BOOLEAN, NEW read \in BOOLEAN,
         \A i \in 1..Len(s) : Follows(s, i, again)
  PROVE  /\ Judged(s, read) # "ALTERED"
         /\ Judged(s, read) = "RESTARTS" => again
<1>1. \A i \in DOMAIN s : ~Alteration(s, i)
  BY DEF Follows, Alteration, Entries, Genesis
<1>2. (\E i \in DOMAIN s : Restart(s, i)) => again
  <2>1. SUFFICES ASSUME NEW i \in DOMAIN s, Restart(s, i), ~again PROVE FALSE
    OBVIOUS
  <2>2. i \in 1..Len(s) /\ i > 1 /\ s[i].prev = Genesis
    BY <2>1 DEF Restart
  <2>3. s[i - 1] \in Entries
    BY <2>2
  <2>4. s[i].prev = s[i - 1].hash
    BY <2>1, <2>2 DEF Follows
  <2> QED
    BY <2>2, <2>3, <2>4 DEF Entries, Genesis
<1>3. CASE ~read
  BY <1>3 DEF Judged
<1>4. CASE read
  BY <1>1, <1>2, <1>4 DEF Judged
<1> QED
  BY <1>3, <1>4

\* The same of the state: whatever judges the stored trail now tells the truth.
LEMMA VerdictHonest ==
  ASSUME HandsType, ChainInv, NEW read \in BOOLEAN, ~broken
  PROVE  /\ Judged(stored, read) # "ALTERED"
         /\ Judged(stored, read) = "RESTARTS" => unread
BY JudgedHonest DEF HandsType, ChainInv

\* chain_append and the insert: an entry that names the last stored hash, or nothing
\* where a start could not read the trail, leaves a chain that holds.
LEMMA AppendFollows ==
  ASSUME NEW s \in Seq(Entries), NEW e \in Entries, NEW again \in BOOLEAN,
         \A i \in 1..Len(s) : Follows(s, i, again),
         e.whole,
         e.prev = LastHash(s) \/ (again /\ e.prev = Genesis)
  PROVE  \A i \in 1..Len(Append(s, e)) : Follows(Append(s, e), i, again)
<1>1. TAKE i \in 1..Len(Append(s, e))
<1>2. Len(Append(s, e)) = Len(s) + 1 /\ Append(s, e)[Len(s) + 1] = e
  OBVIOUS
<1>3. \A j \in 1..Len(s) : Append(s, e)[j] = s[j]
  OBVIOUS
<1>4. CASE i \in 1..Len(s)
  BY <1>3, <1>4 DEF Follows
<1>5. CASE i = Len(s) + 1 /\ s = <<>>
  BY <1>2, <1>5 DEF Follows, LastHash
<1>6. CASE i = Len(s) + 1 /\ s # <<>>
  <2>1. Len(s) > 0 /\ i > 1 /\ i - 1 = Len(s)
    BY <1>6
  <2>2. Append(s, e)[i - 1] = s[Len(s)] /\ Append(s, e)[i] = e
    <3>1. Len(s) \in 1..Len(s)
      BY <2>1
    <3>2. Append(s, e)[Len(s)] = s[Len(s)]
      BY <1>3, <3>1
    <3> QED
      BY <1>2, <1>6, <2>1, <3>2
  <2>3. e.prev = s[Len(s)].hash \/ (again /\ e.prev = Genesis)
    BY <1>6 DEF LastHash
  <2>4. i # 1 /\ i > 1
    BY <2>1
  <2> HIDE DEF Genesis
  <2> QED
    BY <2>2, <2>3, <2>4, Zenon DEF Follows
<1> QED
  BY <1>1, <1>2, <1>4, <1>5, <1>6

\* Only its end can be cut off a chain without a break.
LEMMA CutFollows ==
  ASSUME NEW s \in Seq(Entries), NEW again \in BOOLEAN, Len(s) > 0,
         \A i \in 1..Len(s) : Follows(s, i, again)
  PROVE  /\ RemoveAt(s, Len(s)) \in Seq(Entries)
         /\ \A i \in 1..Len(RemoveAt(s, Len(s))) : Follows(RemoveAt(s, Len(s)), i, again)
<1> DEFINE r == RemoveAt(s, Len(s))
<1>1. SubSeq(s, Len(s) + 1, Len(s)) = <<>>
  OBVIOUS
<1>2. SubSeq(s, 1, Len(s) - 1) \in Seq(Entries)
  OBVIOUS
<1>3. r = SubSeq(s, 1, Len(s) - 1)
  BY <1>1, <1>2 DEF RemoveAt
<1>4. Len(r) = Len(s) - 1 /\ \A i \in 1..Len(r) : r[i] = s[i]
  <2>1. Len(s) \in Nat /\ Len(s) > 0
    OBVIOUS
  <2>2. Len(SubSeq(s, 1, Len(s) - 1)) = Len(s) - 1
    <3>1. PICK n \in Nat : Len(s) = n + 1
      <4>1. Len(s) - 1 \in Nat /\ Len(s) = (Len(s) - 1) + 1
        BY <2>1
      <4> QED
        BY <4>1, Zenon
    <3>2. Len(s) - 1 = n /\ \A i \in 1..n : s[i] \in Entries
      BY <3>1
    <3>3. Len(SubSeq(s, 1, n)) = IF 1 <= n THEN n - 1 + 1 ELSE 0
      BY <3>2, SubSeqProperties
    <3> QED
      BY <3>2, <3>3
  <2>3. \A i \in 1..(Len(s) - 1) : SubSeq(s, 1, Len(s) - 1)[i] = s[i]
    BY <2>1
  <2> QED
    BY <1>3, <2>2, <2>3
<1> QED
  BY <1>2, <1>3, <1>4 DEF Follows

----------------------------------------------------------------------------

LEMMA TrailInvInit == Init => TrailInv
<1> SUFFICES ASSUME Init PROVE TrailInv
  OBVIOUS
<1>1. HandsType
  <2>1. 0 \in 0..MaxHashes
    BY AuditBounds
  <2>2. stored \in Seq(Entries)
    BY DEF Init
  <2>3. inHand \in [Threads -> Entries \cup {NoEntry}]
    BY DEF Init
  <2> QED
    BY <2>1, <2>2, <2>3 DEF Init, HandsType, Genesis
<1>2. HandInv
  BY AuditBounds DEF Init, HandInv
<1>3. HeadInv
  BY DEF Init, HeadInv
<1>4. ChainInv
  BY DEF Init, ChainInv
<1>5. HonestTrail
  BY DEF Init, HonestTrail
<1> QED
  BY <1>1, <1>2, <1>3, <1>4, <1>5 DEF TrailInv

\* A start: the head is the last stored hash, or nothing when the trail is not read.
LEMMA OpenKeeps ==
  ASSUME TrailInv, NEW read \in BOOLEAN, Open(read)
  PROVE  TrailInv'
<1> USE DEF TrailInv
<1>1. lock = NoThread /\ lock' = lock /\ inHand' = inHand /\ stored' = stored
      /\ broken' = broken /\ unread' = (unread \/ ~read) /\ minted' = minted
  BY DEF Open, HandInv
<1>2. head' = IF read /\ stored # <<>> THEN stored[Len(stored)].hash ELSE Genesis
  BY DEF Open
<1>3. HandsType'
  <2>1. stored # <<>> => stored[Len(stored)] \in Entries
    BY DEF HandsType
  <2>2. head' \in 0..MaxHashes
    BY <1>2, <2>1, AuditBounds DEF Entries, Genesis
  <2> QED
    BY <1>1, <2>2 DEF HandsType, Open
<1>4. HandInv'
  BY <1>1, AuditBounds DEF HandInv
<1>5. HeadInv'
  BY <1>1, <1>2 DEF HeadInv, Predecessor, LastHash
<1>6. ChainInv'
  BY <1>1 DEF ChainInv, Follows
<1>7. HonestTrail'
  <2>1. SUFFICES ASSUME ~broken
                 PROVE  /\ Judged(stored, read) # "ALTERED"
                        /\ Judged(stored, read) = "RESTARTS" => unread'
    BY <1>1 DEF HonestTrail, Open
  <2>2. \A i \in 1..Len(stored) : Follows(stored, i, unread')
    BY <1>1, <2>1 DEF ChainInv, Follows
  <2> QED
    BY <1>3, <2>2, JudgedHonest DEF HandsType
<1> QED
  BY <1>3, <1>4, <1>5, <1>6, <1>7

\* An entry is linked: the head moves to it, and what it names is what the head was.
LEMMA LinkKeeps ==
  ASSUME TrailInv, NEW t \in Threads, Link(t)
  PROVE  TrailInv'
<1> USE DEF TrailInv
<1> DEFINE e == [hash |-> minted + 1, prev |-> head, whole |-> TRUE]
<1>1. /\ lock = NoThread /\ lock' = t /\ open /\ minted < MaxHashes
      /\ minted' = minted + 1 /\ head' = minted + 1
      /\ inHand' = [inHand EXCEPT ![t] = e]
      /\ stored' = stored /\ open' = open /\ broken' = broken /\ unread' = unread
      /\ verdict' = verdict
  BY DEF Link, history, counters
<1>2. e \in Entries /\ e # NoEntry /\ minted + 1 \in 0..MaxHashes
  <2>1. minted + 1 \in 1..MaxHashes /\ minted + 1 \in 0..MaxHashes /\ minted + 1 # 0
    BY <1>1, AuditBounds DEF HandsType
  <2>2. e \in Entries
    BY <2>1 DEF HandsType, Entries
  <2>3. e.hash # NoEntry.hash
    BY <2>1 DEF NoEntry
  <2> QED
    BY <2>1, <2>2, <2>3
<1>3. inHand'[t] = e /\ \A u \in Threads \ {t} : inHand'[u] = inHand[u]
  BY <1>1 DEF HandsType
<1>4. HandsType'
  BY <1>1, <1>2 DEF HandsType
<1>5. HandInv'
  BY <1>1, <1>2, <1>3, AuditBounds DEF HandInv
<1>6. HeadInv'
  BY <1>1, <1>3, AuditBounds DEF HeadInv, Predecessor, LastHash
<1>7. ChainInv' /\ HonestTrail'
  BY <1>1 DEF ChainInv, Follows, HonestTrail
<1> QED
  BY <1>4, <1>5, <1>6, <1>7

\* The entry is written: the chain grows by one that follows.
LEMMA PersistKeeps ==
  ASSUME TrailInv, NEW t \in Threads, Persist(t)
  PROVE  TrailInv'
<1> USE DEF TrailInv
<1>1. /\ lock = t /\ open /\ inHand[t] \in Entries /\ inHand[t].whole
      /\ head = inHand[t].hash
  BY AuditBounds DEF Persist, HandInv, HandsType
<1>2. /\ stored' = Append(stored, inHand[t])
      /\ inHand' = [inHand EXCEPT ![t] = NoEntry] /\ lock' = NoThread
      /\ open' = open /\ head' = head /\ minted' = minted /\ verdict' = verdict
      /\ broken' = broken /\ unread' = unread
  BY DEF Persist, history
<1>3. inHand[t].prev = LastHash(stored) \/ (unread /\ inHand[t].prev = Genesis)
  BY <1>1, AuditBounds DEF HeadInv, Predecessor
<1>4. HandsType'
  BY <1>1, <1>2 DEF HandsType
<1>5. HandInv'
  BY <1>1, <1>2, AuditBounds DEF HandInv, HandsType
<1>6. HeadInv'
  <2>1. stored' # <<>> /\ stored'[Len(stored')] = inHand[t]
    BY <1>1, <1>2 DEF HandsType
  <2> QED
    BY <1>1, <1>2, <2>1 DEF HeadInv, Predecessor, LastHash
<1>7. ChainInv'
  <2>1. SUFFICES ASSUME ~broken
                 PROVE  \A i \in 1..Len(stored') : Follows(stored, i, unread)'
    BY <1>2 DEF ChainInv
  <2>2. \A i \in 1..Len(Append(stored, inHand[t])) :
          Follows(Append(stored, inHand[t]), i, unread)
    BY <1>1, <1>3, <2>1, AppendFollows DEF HandsType, ChainInv
  <2> QED
    BY <1>2, <2>2 DEF Follows
<1>8. HonestTrail'
  BY <1>2 DEF HonestTrail
<1> QED
  BY <1>4, <1>5, <1>6, <1>7, <1>8

\* The write is refused: the head goes back to the last stored hash.
LEMMA PersistFailsKeeps ==
  ASSUME TrailInv, NEW t \in Threads, PersistFails(t)
  PROVE  TrailInv'
<1> USE DEF TrailInv
<1>1. lock = t /\ open /\ inHand[t] \in Entries
  BY AuditBounds DEF PersistFails, HandInv, HandsType
<1>2. /\ head' = inHand[t].prev /\ lock' = NoThread
      /\ inHand' = [inHand EXCEPT ![t] = NoEntry]
      /\ stored' = stored /\ open' = open /\ minted' = minted /\ verdict' = verdict
      /\ broken' = broken /\ unread' = unread
  BY DEF PersistFails, HeadBack, history
<1>3. HandsType'
  BY <1>1, <1>2 DEF HandsType, Entries
<1>4. HandInv'
  BY <1>1, <1>2, AuditBounds DEF HandInv, HandsType
<1>5. HeadInv'
  BY <1>1, <1>2, AuditBounds DEF HeadInv, Predecessor, LastHash
<1>6. ChainInv' /\ HonestTrail'
  BY <1>2 DEF ChainInv, Follows, HonestTrail
<1> QED
  BY <1>3, <1>4, <1>5, <1>6

\* The process stops, or dies with an entry in hand: the file is what it was.
LEMMA StopKeeps == TrailInv /\ Stop => TrailInv'
<1> SUFFICES ASSUME TrailInv, Stop PROVE TrailInv'
  OBVIOUS
<1> USE DEF TrailInv
<1>1. /\ open' = FALSE /\ lock' = NoThread /\ inHand' = [t \in Threads |-> NoEntry]
      /\ stored' = stored /\ head' = head /\ minted' = minted /\ verdict' = verdict
      /\ broken' = broken /\ unread' = unread
  BY DEF Stop, counters
<1>2. HandsType' /\ HeadInv'
  BY <1>1 DEF HandsType, HeadInv
<1>3. HandInv'
  BY <1>1, AuditBounds DEF HandInv
<1>4. ChainInv' /\ HonestTrail'
  BY <1>1 DEF ChainInv, Follows, HonestTrail
<1> QED
  BY <1>2, <1>3, <1>4

\* Somebody else writes the file: unless the chain is broken, its end was cut off.
LEMMA AlterKeeps == TrailInv /\ Alter => TrailInv'
<1> SUFFICES ASSUME TrailInv, Alter PROVE TrailInv'
  OBVIOUS
<1> USE DEF TrailInv
<1>1. /\ ~open /\ open' = open /\ lock' = lock /\ inHand' = inHand /\ head' = head
      /\ minted' = minted /\ verdict' = verdict /\ unread' = unread
  BY DEF Alter, counters
<1>2. HandInv' /\ HeadInv'
  BY <1>1 DEF HandInv, HeadInv
<1>3. PICK i \in DOMAIN stored :
        \/ stored' = [stored EXCEPT ![i].whole = FALSE] /\ broken' = TRUE
        \/ stored' = RemoveAt(stored, i) /\ broken' = (broken \/ i < Len(stored))
        \/ /\ i < Len(stored) /\ broken' = TRUE
           /\ stored' = [stored EXCEPT ![i] = stored[i + 1], ![i + 1] = stored[i]]
  BY DEF Alter
<1>4. Len(stored) \in Nat /\ i \in 1..Len(stored)
  BY DEF HandsType
<1>5. stored' \in Seq(Entries)
  <2>1. CASE stored' = [stored EXCEPT ![i].whole = FALSE]
    <3>1. [stored[i] EXCEPT !.whole = FALSE] \in Entries
      <4>1. stored[i] \in Entries
        BY <1>4 DEF HandsType
      <4> QED
        BY <4>1 DEF Entries
    <3> QED
      BY <1>4, <2>1, <3>1 DEF HandsType
  <2>2. CASE stored' = RemoveAt(stored, i)
    <3>1. SubSeq(stored, 1, i - 1) \in Seq(Entries)
      BY <1>4 DEF HandsType
    <3>2. SubSeq(stored, i + 1, Len(stored)) \in Seq(Entries)
      BY <1>4 DEF HandsType
    <3> QED
      BY <2>2, <3>1, <3>2, SMT DEF RemoveAt
  <2>3. CASE /\ i < Len(stored)
             /\ stored' = [stored EXCEPT ![i] = stored[i + 1], ![i + 1] = stored[i]]
    BY <1>4, <2>3 DEF HandsType
  <2> QED
    BY <1>3, <2>1, <2>2, <2>3
<1>6. HandsType'
  BY <1>1, <1>3, <1>5 DEF HandsType
<1>7. ChainInv'
  <2>1. SUFFICES ASSUME ~broken' PROVE ChainInv'
    BY DEF ChainInv
  <2>2. ~broken /\ i = Len(stored) /\ stored' = RemoveAt(stored, i)
    <3>1. stored' = RemoveAt(stored, i) /\ broken' = (broken \/ i < Len(stored))
      BY <1>3, <2>1
    <3>2. ~broken /\ ~(i < Len(stored))
      BY <2>1, <3>1, Zenon
    <3> QED
      BY <1>4, <3>1, <3>2
  <2>3. \A j \in 1..Len(RemoveAt(stored, Len(stored))) :
          Follows(RemoveAt(stored, Len(stored)), j, unread)
    BY <1>4, <2>2, CutFollows DEF HandsType, ChainInv
  <2> QED
    BY <1>1, <2>2, <2>3 DEF ChainInv, Follows
<1>8. HonestTrail'
  BY <1>1, <1>3 DEF HonestTrail
<1> QED
  BY <1>2, <1>6, <1>7, <1>8

\* A re-verify judges what the store holds now; the trail itself is not touched.
LEMMA ReverifyKeeps ==
  ASSUME TrailInv, NEW read \in BOOLEAN, Reverify(read)
  PROVE  TrailInv'
<1> USE DEF TrailInv
<1>1. /\ stored' = stored /\ head' = head /\ minted' = minted /\ lock' = lock
      /\ inHand' = inHand /\ open' = open /\ broken' = broken /\ unread' = unread
      /\ verdict' = Judged(stored, read)
  BY DEF Reverify, chainVars, history
<1>2. HandsType' /\ HandInv' /\ HeadInv' /\ ChainInv'
  BY <1>1 DEF HandsType, HandInv, HeadInv, Predecessor, LastHash, ChainInv, Follows
<1>3. HonestTrail'
  BY <1>1, VerdictHonest DEF HonestTrail
<1> QED
  BY <1>2, <1>3

LEMMA TrailInvStep == TrailInv /\ [Next]_vars => TrailInv'
<1> SUFFICES ASSUME TrailInv, [Next]_vars PROVE TrailInv'
  OBVIOUS
<1>1. CASE \E read \in BOOLEAN : Open(read) \/ Reverify(read)
  BY <1>1, OpenKeeps, ReverifyKeeps
<1>2. ASSUME NEW t \in Threads, LinkFails(t) PROVE TrailInv'
  BY <1>2 DEF LinkFails, chainVars, history, TrailInv, HandsType, HandInv, HeadInv,
              Predecessor, LastHash, ChainInv, Follows, HonestTrail
<1>3. CASE \E t \in Threads : Link(t) \/ LinkFails(t) \/ Persist(t) \/ PersistFails(t)
  BY <1>2, <1>3, LinkKeeps, PersistKeeps, PersistFailsKeeps
<1>4. CASE Stop \/ Alter
  BY <1>4, StopKeeps, AlterKeeps
<1>5. CASE UNCHANGED vars
  BY <1>5 DEF vars, chainVars, history, counters, TrailInv, HandsType, HandInv, HeadInv,
              Predecessor, LastHash, ChainInv, Follows, HonestTrail
<1> QED
  BY <1>1, <1>3, <1>4, <1>5 DEF Next

----------------------------------------------------------------------------

\* A trail nobody altered is never reported as altered, and as restarted only after a
\* start that could not read it, whatever writes failed and wherever processes died.
THEOREM TrailHonest == Spec => []HonestTrail
<1>1. TrailInv => HonestTrail
  BY DEF TrailInv
<1> QED
  BY <1>1, TrailInvInit, TrailInvStep, PTL DEF Spec

----------------------------------------------------------------------------
(* An altered trail                                                         *)
(*                                                                          *)
(* The judgement sees only the file that is there.  What makes it find an   *)
(* alteration is that a hash is given out once (HashesInv): an entry of     *)
(* the old trail can be followed only by the entry that followed it there,  *)
(* and the first one can only be the first.  So a file whose entries are    *)
(* all of the old trail (LeftInv) and whose chain holds is a beginning of   *)
(* it, by induction over its length.                                        *)

Chain(s) ==
  \A i \in 1..Len(s) :
    /\ s[i].whole
    /\ i = 1 => s[i].prev = Genesis
    /\ i > 1 => s[i].prev = s[i - 1].hash

\* No two entries have one hash.
HashedOnce(s) == \A i, j \in 1..Len(s) : s[i].hash = s[j].hash => i = j

HashesInv ==
  /\ HashedOnce(stored)
  /\ \A i \in 1..Len(stored) : stored[i].hash <= minted
  /\ \A t \in Threads : lock = t =>
       /\ inHand[t].hash <= minted
       /\ \A i \in 1..Len(stored) : stored[i].hash # inHand[t].hash

\* The entries of `s` that match their hash are entries of `l`.
Among(s, l) ==
  \A i \in 1..Len(s) : s[i].whole => \E j \in 1..Len(l) : l[j] = s[i]

LeftInv ==
  ~unread /\ verdict = "INTACT" =>
    /\ open => Chain(stored)
    /\ ~open => Chain(left) /\ HashedOnce(left) /\ Among(stored, left)

LeftType == left \in Seq(Entries)

\* Every non-empty set of numbers has a least one.
LEMMA Least ==
  ASSUME NEW S \in SUBSET Nat, S # {}
  PROVE  \E m \in S : \A n \in S : m <= n
<1> DEFINE R == OpToRel(<, Nat)
<1>1. IsWellFoundedOn(R, Nat)
  BY NatLessThanWellFounded
<1>2. \A x, y \in Nat : x < y => <<x, y>> \in R
  BY DEF OpToRel
<1> HIDE DEF R
<1>3. PICK m \in S : \A n \in S : ~ (<<n, m>> \in R)
  BY <1>1, WFMin
<1>4. ASSUME NEW n \in S PROVE m <= n
  <2>1. ~(n < m)
    BY <1>2, <1>3
  <2> QED
    BY <2>1
<1> QED
  BY <1>4

\* What the judgement calls intact is a chain without a break.
LEMMA IntactChain ==
  ASSUME NEW s \in Seq(Entries), NEW read \in BOOLEAN, Judged(s, read) = "INTACT"
  PROVE  read /\ Chain(s)
<1>1. read /\ (\A i \in DOMAIN s : ~Alteration(s, i)) /\ (\A i \in DOMAIN s : ~Restart(s, i))
  BY DEF Judged
<1>2. ASSUME NEW i \in 1..Len(s)
      PROVE  /\ s[i].whole
             /\ i = 1 => s[i].prev = Genesis
             /\ i > 1 => s[i].prev = s[i - 1].hash
  <2>1. i \in DOMAIN s
    OBVIOUS
  <2>2. ~Alteration(s, i) /\ ~Restart(s, i)
    BY <1>1, <2>1
  <2>3. s[i].whole
    BY <2>2 DEF Alteration
  <2>4. i = 1 => s[i].prev = Genesis
    BY <2>2 DEF Alteration
  <2>5. i > 1 => s[i].prev # Genesis /\ s[i].prev \in {s[i - 1].hash, Genesis}
    BY <2>2, <2>3 DEF Alteration, Restart
  <2> QED
    BY <2>3, <2>4, <2>5
<1> QED
  BY <1>1, <1>2 DEF Chain

\* A chain of entries of another is its beginning.
LEMMA ChainBegins ==
  ASSUME NEW s \in Seq(Entries), NEW l \in Seq(Entries),
         Chain(s), Chain(l), HashedOnce(l), Among(s, l)
  PROVE  IsPrefix(s, l)
<1> DEFINE Bad == {i \in 1..Len(s) : ~(i <= Len(l) /\ s[i] = l[i])}
<1>1. Len(s) \in Nat /\ Len(l) \in Nat
  OBVIOUS
<1>2. \A i \in 1..Len(l) : l[i] \in Entries /\ l[i].hash \in 1..MaxHashes
  <2>1. \A e \in Entries : e.hash \in 1..MaxHashes
    BY DEF Entries
  <2>2. \A i \in 1..Len(l) : l[i] \in Entries
    OBVIOUS
  <2> QED
    BY <2>1, <2>2
<1>3. Bad = {}
  <2> SUFFICES ASSUME Bad # {} PROVE FALSE
    OBVIOUS
  <2>1. Bad \in SUBSET Nat
    BY <1>1
  <2>2. PICK b \in Bad : \A n \in Bad : b <= n
    BY <2>1, Least
  <2>3. b \in 1..Len(s) /\ b \in Nat
    BY <2>1, <2>2
  <2>4. s[b].whole
    BY <2>3 DEF Chain
  <2>5. PICK j \in 1..Len(l) : l[j] = s[b]
    BY <2>3, <2>4 DEF Among
  <2>6. j # b
    BY <1>1, <2>2, <2>5
  <2>7. CASE b = 1
    <3>1. s[b].prev = Genesis
      BY <2>3, <2>7 DEF Chain
    <3>2. j > 1
      BY <1>1, <2>6, <2>7
    <3>3. j - 1 \in 1..Len(l) /\ l[j].prev = l[j - 1].hash
      BY <1>1, <3>2 DEF Chain
    <3> QED
      BY <1>2, <2>5, <3>1, <3>3 DEF Genesis
  <2>8. CASE b > 1
    <3>1. b - 1 \in 1..Len(s) /\ b - 1 \notin Bad
      BY <1>1, <2>2, <2>3, <2>8
    <3>2. b - 1 \in 1..Len(l) /\ s[b - 1] = l[b - 1]
      BY <1>1, <3>1
    <3>3. s[b].prev = s[b - 1].hash
      BY <2>3, <2>8 DEF Chain
    <3>4. l[j].prev = l[b - 1].hash
      BY <2>5, <3>2, <3>3
    <3>5. j > 1
      <4>1. l[b - 1].hash # Genesis
        BY <1>2, <3>2 DEF Genesis
      <4>2. j = 1 => l[j].prev = Genesis
        BY DEF Chain
      <4> QED
        BY <1>1, <3>4, <4>1, <4>2
    <3>6. j - 1 \in 1..Len(l) /\ l[j].prev = l[j - 1].hash
      BY <1>1, <3>5 DEF Chain
    <3>7. j - 1 = b - 1
      BY <3>2, <3>4, <3>6 DEF HashedOnce
    <3> QED
      BY <1>1, <2>3, <2>6, <3>7
  <2> QED
    BY <2>3, <2>7, <2>8
<1>4. \A i \in 1..Len(s) : i <= Len(l) /\ s[i] = l[i]
  BY <1>3
<1> HIDE DEF Bad
<1>5. Len(s) <= Len(l)
  <2>1. CASE Len(s) = 0
    BY <1>1, <2>1
  <2>2. CASE Len(s) # 0
    <3>1. Len(s) \in 1..Len(s)
      BY <1>1, <2>2
    <3> QED
      BY <1>4, <3>1
  <2> QED
    BY <2>1, <2>2
<1>6. SubSeq(s, 1, Len(s)) = SubSeq(l, 1, Len(s))
  <2>1. \A i \in 1..Len(s) : s[i] \in Entries /\ l[i] \in Entries
    BY <1>2, <1>4, <1>5, <1>1
  <2> DEFINE n == Len(s)
             x == SubSeq(s, 1, n)
             y == SubSeq(l, 1, n)
  <2>2. /\ x \in Seq(Entries) /\ Len(x) = (IF 1 <= n THEN n - 1 + 1 ELSE 0)
        /\ \A i \in 1 .. n - 1 + 1 : x[i] = s[1 + i - 1]
    BY <1>1, <2>1, SubSeqProperties
  <2>3. /\ y \in Seq(Entries) /\ Len(y) = (IF 1 <= n THEN n - 1 + 1 ELSE 0)
        /\ \A i \in 1 .. n - 1 + 1 : y[i] = l[1 + i - 1]
    BY <1>1, <2>1, SubSeqProperties
  <2> HIDE DEF x, y, n
  <2>4. n \in Nat /\ \A i \in 1..n : s[i] = l[i]
    BY <1>1, <1>4 DEF n
  <2>5. Len(x) = Len(y) /\ Len(x) = n
    BY <2>2, <2>3, <2>4
  <2>6. \A i \in 1..n : x[i] = y[i]
    BY <2>2, <2>3, <2>4
  <2> QED
    BY <2>2, <2>3, <2>5, <2>6, SeqEqual DEF x, y, n
<1> QED
  BY <1>5, <1>6 DEF IsPrefix

----------------------------------------------------------------------------
(* The ring                                                                 *)

\* The newest entries, each at its own place: what the ring holds of the store.
RingInv ==
  /\ ringNext \in Nat /\ ringFloor \in Nat /\ atOpen \in Nat /\ appended \in Nat
  /\ DOMAIN ring = Positions
  /\ open =>
       /\ Len(stored) = atOpen + appended
       /\ ringNext = Len(stored) /\ ringFloor <= ringNext
       /\ \A i \in ringFloor..(ringNext - 1) :
            ringNext - RingSize <= i =>
              ring[i % RingSize] = [index |-> i, hash |-> stored[i + 1].hash]

\* Two entries closer than the ring is long do not share a place.
LEMMA PlacesApart ==
  ASSUME NEW i \in Nat, NEW j \in Nat, i % RingSize = j % RingSize,
         i - j < RingSize, j - i < RingSize
  PROVE  i = j
<1> DEFINE p == i \div RingSize
           q == j \div RingSize
           r == i % RingSize
<1>1. RingSize \in Nat \ {0}
  BY AuditBounds
<1>2. p \in Int /\ q \in Int /\ r \in Int /\ i = RingSize * p + r /\ j = RingSize * q + r
  BY <1>1
<1> HIDE DEF p, q, r
<1>3. i - j = RingSize * (p - q)
  BY <1>1, <1>2
<1>4. p - q = 0
  <2>1. ~(p - q >= 1)
    <3> SUFFICES ASSUME p - q >= 1 PROVE FALSE
      OBVIOUS
    <3>1. RingSize * (p - q) >= RingSize
      BY <1>1, <1>2
    <3> QED
      BY <1>1, <1>3, <3>1
  <2>2. ~(q - p >= 1)
    <3> SUFFICES ASSUME q - p >= 1 PROVE FALSE
      OBVIOUS
    <3>1. RingSize * (q - p) >= RingSize
      BY <1>1, <1>2
    <3>2. j - i = RingSize * (q - p)
      BY <1>1, <1>2
    <3> QED
      BY <1>1, <3>1, <3>2
  <2> QED
    BY <1>2, <2>1, <2>2
<1> QED
  BY <1>2, <1>4

LEMMA InPositions ==
  ASSUME NEW i \in Nat
  PROVE  i % RingSize \in Positions
BY AuditBounds DEF Positions

\* _agnostic_audit_ring_seed_locked: the newest entries, each at its place.
LEMMA SeededTrue ==
  ASSUME NEW s \in Seq(Entries), NEW start \in Nat, Len(s) - start <= RingSize,
         NEW i \in start..(Len(s) - 1)
  PROVE  RingOf(s, start)[i % RingSize] = [index |-> i, hash |-> s[i + 1].hash]
<1> DEFINE p == i % RingSize
           idx == {j \in start..(Len(s) - 1) : j % RingSize = p}
<1>1. p \in Positions /\ i \in Nat /\ Len(s) \in Nat
  BY InPositions
<1>2. \A j \in idx : j = i
  <2> SUFFICES ASSUME NEW j \in idx PROVE j = i
    OBVIOUS
  <2>1. j \in Nat /\ j % RingSize = i % RingSize /\ i - j < RingSize /\ j - i < RingSize
    BY <1>1, AuditBounds
  <2> QED
    BY <1>1, <2>1, PlacesApart
<1>3. idx = {i}
  BY <1>2
<1>4. RingOf(s, start)[p] =
        (IF idx = {} THEN [index |-> -1, hash |-> 0]
         ELSE LET k == CHOOSE k \in idx : \A j \in idx : j <= k
              IN  [index |-> k, hash |-> s[k + 1].hash])
  BY <1>1 DEF RingOf
<1> HIDE DEF idx, p
<1>5. (CHOOSE k \in idx : \A j \in idx : j <= k) = i
  <2>1. \E k \in idx : \A j \in idx : j <= k
    BY <1>1, <1>3
  <2> QED
    BY <1>3, <2>1
<1> QED
  BY <1>3, <1>4, <1>5 DEF p

----------------------------------------------------------------------------
(* The steps                                                                *)

FoundInv == LeftType /\ HashesInv /\ LeftInv

LEMMA FoundInvInit == Init => FoundInv /\ RingInv
<1> SUFFICES ASSUME Init PROVE FoundInv /\ RingInv
  OBVIOUS
<1>1. Len(stored) = 0 /\ left = <<>> /\ ~open /\ lock = NoThread /\ stored = <<>>
  BY DEF Init
<1>2. LeftType
  BY <1>1 DEF LeftType
<1>3. HashesInv
  BY <1>1, AuditBounds DEF HashesInv, HashedOnce
<1>4. LeftInv
  BY <1>1 DEF LeftInv, Chain, HashedOnce, Among
<1>5. RingInv
  BY <1>1 DEF Init, RingInv, RingOf
<1> QED
  BY <1>2, <1>3, <1>4, <1>5 DEF FoundInv

\* A step that neither writes the file nor judges it nor touches who holds what.
LEMMA FoundUntouched ==
  ASSUME FoundInv, stored' = stored, left' = left, minted' = minted, open' = open,
         verdict' = verdict, unread' = unread,
         \A t \in Threads : lock' = t => lock = t /\ inHand'[t] = inHand[t]
  PROVE  FoundInv'
<1>1. LeftType'
  BY DEF FoundInv, LeftType
<1>2. HashesInv'
  BY DEF FoundInv, HashesInv, HashedOnce
<1>3. LeftInv'
  BY DEF FoundInv, LeftInv, Chain, HashedOnce, Among
<1> QED
  BY <1>1, <1>2, <1>3 DEF FoundInv

\* A start: a trail it finds intact is a chain without a break.
LEMMA OpenFinds ==
  ASSUME TrailInv, FoundInv, NEW read \in BOOLEAN, Open(read)
  PROVE  FoundInv'
<1>1. /\ stored' = stored /\ left' = left /\ minted' = minted /\ lock' = lock
      /\ inHand' = inHand /\ open' = TRUE /\ verdict' = Judged(stored, read)
      /\ stored \in Seq(Entries)
  BY DEF Open, TrailInv, HandsType
<1>2. LeftType' /\ HashesInv'
  BY <1>1 DEF FoundInv, LeftType, HashesInv, HashedOnce
<1>3. LeftInv'
  BY <1>1, IntactChain DEF LeftInv, Chain
<1> QED
  BY <1>2, <1>3 DEF FoundInv

LEMMA ReverifyFinds ==
  ASSUME TrailInv, FoundInv, NEW read \in BOOLEAN, Reverify(read)
  PROVE  FoundInv'
<1>1. /\ stored' = stored /\ left' = left /\ minted' = minted /\ lock' = lock
      /\ inHand' = inHand /\ open /\ open' = open /\ verdict' = Judged(stored, read)
      /\ stored \in Seq(Entries)
  BY DEF Reverify, chainVars, history, TrailInv, HandsType
<1>2. LeftType' /\ HashesInv'
  BY <1>1 DEF FoundInv, LeftType, HashesInv, HashedOnce
<1>3. LeftInv'
  BY <1>1, IntactChain DEF LeftInv, Chain
<1> QED
  BY <1>2, <1>3 DEF FoundInv

\* The hash of the entry that is linked is one no stored entry has.
LEMMA LinkFinds ==
  ASSUME TrailInv, FoundInv, NEW t \in Threads, Link(t)
  PROVE  FoundInv'
<1>1. /\ lock' = t /\ minted' = minted + 1 /\ inHand'[t].hash = minted + 1 /\ minted \in Nat
      /\ stored' = stored /\ left' = left /\ open' = open /\ verdict' = verdict
      /\ unread' = unread /\ stored \in Seq(Entries)
  BY AuditBounds DEF Link, history, counters, TrailInv, HandsType
<1>2. \A i \in 1..Len(stored) : stored[i].hash \in Int /\ stored[i].hash <= minted
  <2>1. \A e \in Entries : e.hash \in Int
    BY DEF Entries
  <2>2. \A i \in 1..Len(stored) : stored[i] \in Entries
    BY <1>1
  <2> QED
    BY <2>1, <2>2 DEF FoundInv, HashesInv
<1>3. HashesInv'
  <2>1. HashedOnce(stored)'
    BY <1>1 DEF FoundInv, HashesInv, HashedOnce
  <2>2. \A i \in 1..Len(stored) : stored[i].hash <= minted + 1 /\ stored[i].hash # minted + 1
    BY <1>1, <1>2
  <2> QED
    BY <1>1, <2>1, <2>2 DEF HashesInv
<1>4. LeftType' /\ LeftInv'
  BY <1>1 DEF FoundInv, LeftType, LeftInv, Chain, HashedOnce, Among
<1> QED
  BY <1>3, <1>4 DEF FoundInv

\* What is appended has a hash of its own and names the entry before it.
LEMMA PersistFinds ==
  ASSUME TrailInv, FoundInv, NEW t \in Threads, Persist(t)
  PROVE  FoundInv'
<1> DEFINE e == inHand[t]
           n == Len(stored)
<1>1. /\ lock = t /\ open /\ e \in Entries /\ e.whole
      /\ stored \in Seq(Entries) /\ minted \in Nat
  BY AuditBounds DEF Persist, TrailInv, HandInv, HandsType
<1>2. /\ stored' = Append(stored, e) /\ left' = left /\ minted' = minted
      /\ lock' = NoThread /\ open' = open /\ verdict' = verdict /\ unread' = unread
  BY DEF Persist, history
<1>3. ~unread => e.prev = LastHash(stored)
  BY <1>1, AuditBounds DEF TrailInv, HeadInv, Predecessor
<1>4. /\ e.hash <= minted /\ (\A i \in 1..n : stored[i].hash # e.hash)
      /\ (\A i \in 1..n : stored[i].hash <= minted) /\ HashedOnce(stored)
  BY <1>1 DEF FoundInv, HashesInv
<1> HIDE DEF e, n
<1>5. /\ n \in Nat /\ Len(stored') = n + 1 /\ stored'[n + 1] = e
      /\ \A i \in 1..n : stored'[i] = stored[i]
  BY <1>1, <1>2 DEF n
<1>6. HashesInv'
  <2>1. \A i \in 1..Len(stored') : stored'[i].hash <= minted'
    BY <1>2, <1>4, <1>5
  <2>2. HashedOnce(stored)'
    <3> SUFFICES ASSUME NEW i \in 1..(n + 1), NEW j \in 1..(n + 1),
                        stored'[i].hash = stored'[j].hash
                 PROVE  i = j
      BY <1>5 DEF HashedOnce
    <3>1. CASE i \in 1..n /\ j \in 1..n
      BY <1>4, <1>5, <3>1 DEF HashedOnce, n
    <3>2. CASE i \in 1..n /\ j = n + 1
      BY <1>4, <1>5, <3>2
    <3>3. CASE i = n + 1 /\ j \in 1..n
      BY <1>4, <1>5, <3>3
    <3> QED
      BY <1>5, <3>1, <3>2, <3>3
  <2>3. \A u \in Threads : lock' # u
    BY <1>2, AuditBounds
  <2> QED
    BY <2>1, <2>2, <2>3 DEF HashesInv
<1>7. LeftInv'
  <2> SUFFICES ASSUME ~unread, verdict = "INTACT" PROVE Chain(stored)'
    BY <1>1, <1>2 DEF LeftInv
  <2>1. Chain(stored)
    BY <1>1 DEF FoundInv, LeftInv
  <2>2. ASSUME NEW i \in 1..(n + 1)
        PROVE  /\ stored'[i].whole
               /\ i = 1 => stored'[i].prev = Genesis
               /\ i > 1 => stored'[i].prev = stored'[i - 1].hash
    <3>1. CASE i \in 1..n
      <4>1. stored'[i] = stored[i]
        BY <1>5, <3>1
      <4>2. i > 1 => stored'[i - 1] = stored[i - 1]
        BY <1>5, <3>1
      <4> QED
        BY <2>1, <3>1, <4>1, <4>2 DEF Chain, n
    <3>2. CASE i = n + 1 /\ n = 0
      <4>1. stored = <<>>
        BY <1>1, <3>2 DEF n
      <4> QED
        BY <1>1, <1>3, <1>5, <3>2, <4>1 DEF LastHash
    <3>3. CASE i = n + 1 /\ n # 0
      <4>1. stored # <<>> /\ stored'[n] = stored[n]
        BY <1>5, <3>3 DEF n
      <4>2. e.prev = stored[n].hash
        BY <1>3, <4>1 DEF LastHash, n
      <4>3. i # 1 /\ i - 1 = n /\ stored'[i] = e
        BY <1>5, <3>3
      <4> QED
        BY <1>1, <4>1, <4>2, <4>3
    <3> QED
      BY <1>5, <3>1, <3>2, <3>3
  <2> QED
    BY <1>5, <2>2 DEF Chain
<1>8. LeftType'
  BY <1>2 DEF FoundInv, LeftType
<1> QED
  BY <1>6, <1>7, <1>8 DEF FoundInv

\* A process leaves the chain it kept.
LEMMA StopFinds == ASSUME TrailInv, FoundInv, Stop PROVE FoundInv'
<1>1. /\ stored' = stored /\ left' = stored /\ minted' = minted /\ lock' = NoThread
      /\ open /\ open' = FALSE /\ verdict' = verdict /\ unread' = unread
      /\ stored \in Seq(Entries)
  BY DEF Stop, counters, TrailInv, HandsType
<1>2. LeftType'
  BY <1>1 DEF LeftType
<1>3. HashesInv'
  BY <1>1, AuditBounds DEF FoundInv, HashesInv, HashedOnce
<1>4. LeftInv'
  BY <1>1 DEF FoundInv, LeftInv, HashesInv, HashedOnce, Chain, Among
<1> QED
  BY <1>2, <1>3, <1>4 DEF FoundInv

\* Entries edited, removed or put the other way round: what still matches its hash is an
\* entry the trail had, and no two of them have one hash.
LEMMA AlterFinds == ASSUME TrailInv, FoundInv, Alter PROVE FoundInv'
<1> DEFINE n == Len(stored)
<1>1. /\ ~open /\ open' = open /\ lock' = lock /\ inHand' = inHand /\ left' = left
      /\ minted' = minted /\ verdict' = verdict /\ unread' = unread
      /\ stored \in Seq(Entries) /\ lock = NoThread /\ minted \in Nat
  BY AuditBounds DEF Alter, counters, TrailInv, HandInv, HandsType
<1>2. PICK k \in DOMAIN stored :
        \/ stored' = [stored EXCEPT ![k].whole = FALSE]
        \/ stored' = RemoveAt(stored, k)
        \/ /\ k < Len(stored)
           /\ stored' = [stored EXCEPT ![k] = stored[k + 1], ![k + 1] = stored[k]]
  BY DEF Alter
<1>3. n \in Nat /\ k \in 1..n /\ \A i \in 1..n : stored[i] \in Entries
  BY <1>1
\* Where each entry of the altered file stood.
<1>4. \E m \in Nat : \E f \in [1..m -> 1..n] :
        /\ Len(stored') = m
        /\ \A i, j \in 1..m : f[i] = f[j] => i = j
        /\ \A i \in 1..m : /\ stored'[i].hash = stored[f[i]].hash
                           /\ stored'[i].whole => stored'[i] = stored[f[i]]
  <2>1. CASE stored' = [stored EXCEPT ![k].whole = FALSE]
    <3> DEFINE f == [i \in 1..n |-> i]
               x == [stored[k] EXCEPT !.whole = FALSE]
    <3>1. x \in Entries /\ x.hash = stored[k].hash /\ ~x.whole
      BY <1>3 DEF Entries
    <3>2. stored' = [stored EXCEPT ![k] = x]
      BY <2>1
    <3> HIDE DEF x
    <3>3. Len(stored') = n /\ \A i \in 1..n : stored'[i] = IF i = k THEN x ELSE stored[i]
      BY <1>1, <1>3, <3>1, <3>2, ExceptSeq
    <3>4. f \in [1..n -> 1..n] /\ \A i \in 1..n : f[i] = i
      OBVIOUS
    <3> HIDE DEF f
    <3>5. \A i \in 1..n : /\ stored'[i].hash = stored[f[i]].hash
                          /\ stored'[i].whole => stored'[i] = stored[f[i]]
      BY <3>1, <3>3, <3>4
    <3> QED
      BY <1>3, <3>3, <3>4, <3>5
  <2>2. CASE stored' = RemoveAt(stored, k)
    <3> DEFINE a == SubSeq(stored, 1, k - 1)
               b == SubSeq(stored, k + 1, n)
               f == [i \in 1..(n - 1) |-> IF i < k THEN i ELSE i + 1]
    <3>1. /\ a \in Seq(Entries) /\ Len(a) = k - 1
          /\ \A i \in 1..(k - 1) : a[i] = stored[i]
      <4>1. /\ a \in Seq(Entries) /\ Len(a) = (IF 1 <= k - 1 THEN k - 1 - 1 + 1 ELSE 0)
            /\ \A i \in 1 .. k - 1 - 1 + 1 : a[i] = stored[1 + i - 1]
        BY <1>3, SubSeqProperties
      <4> HIDE DEF a
      <4> QED
        BY <1>3, <4>1
    <3>2. /\ b \in Seq(Entries) /\ Len(b) = n - k
          /\ \A i \in 1..(n - k) : b[i] = stored[k + i]
      <4>1. /\ b \in Seq(Entries)
            /\ Len(b) = (IF k + 1 <= n THEN n - (k + 1) + 1 ELSE 0)
            /\ \A i \in 1 .. n - (k + 1) + 1 : b[i] = stored[k + 1 + i - 1]
        BY <1>3, SubSeqProperties
      <4> HIDE DEF b
      <4> QED
        BY <1>3, <4>1
    <3>3. stored' = a \o b
      BY <2>2 DEF RemoveAt
    <3> HIDE DEF a, b
    <3>4. /\ Len(stored') = n - 1
          /\ \A i \in 1..(n - 1) : stored'[i] = IF i <= k - 1 THEN a[i] ELSE b[i - (k - 1)]
      BY <1>3, <3>1, <3>2, <3>3, ConcatProperties
    <3>5. f \in [1..(n - 1) -> 1..n] /\ \A i, j \in 1..(n - 1) : f[i] = f[j] => i = j
      BY <1>3
    <3>6. ASSUME NEW i \in 1..(n - 1) PROVE stored'[i] = stored[f[i]]
      <4>1. CASE i <= k - 1
        BY <1>3, <3>1, <3>4, <4>1
      <4>2. CASE ~(i <= k - 1)
        <5>1. i - (k - 1) \in 1..(n - k) /\ k + (i - (k - 1)) = i + 1 /\ f[i] = i + 1
          BY <1>3, <4>2
        <5> QED
          BY <3>2, <3>4, <4>2, <5>1
      <4> QED
        BY <4>1, <4>2
    <3> HIDE DEF f
    <3>7. n - 1 \in Nat
      BY <1>3
    <3> QED
      BY <3>4, <3>5, <3>6, <3>7
  <2>3. CASE /\ k < Len(stored)
             /\ stored' = [stored EXCEPT ![k] = stored[k + 1], ![k + 1] = stored[k]]
    <3> DEFINE f == [i \in 1..n |-> IF i = k THEN k + 1 ELSE IF i = k + 1 THEN k ELSE i]
    <3>1. k + 1 \in 1..n
      BY <1>3, <2>3
    <3>2. f \in [1..n -> 1..n] /\ \A i, j \in 1..n : f[i] = f[j] => i = j
      BY <1>3, <3>1
    <3>3. Len(stored') = n /\ \A i \in 1..n : stored'[i] = stored[f[i]]
      BY <1>1, <1>3, <2>3, <3>1
    <3> HIDE DEF f
    <3>4. \A i \in 1..n : /\ stored'[i].hash = stored[f[i]].hash
                          /\ stored'[i].whole => stored'[i] = stored[f[i]]
      BY <3>3
    <3> QED
      BY <1>3, <3>2, <3>3, <3>4
  <2> QED
    BY <1>2, <2>1, <2>2, <2>3
<1>a. PICK m \in Nat : \E f \in [1..m -> 1..n] :
        /\ Len(stored') = m
        /\ \A i, j \in 1..m : f[i] = f[j] => i = j
        /\ \A i \in 1..m : /\ stored'[i].hash = stored[f[i]].hash
                           /\ stored'[i].whole => stored'[i] = stored[f[i]]
  BY <1>4
<1>5. PICK f \in [1..m -> 1..n] :
        /\ Len(stored') = m
        /\ \A i, j \in 1..m : f[i] = f[j] => i = j
        /\ \A i \in 1..m : /\ stored'[i].hash = stored[f[i]].hash
                           /\ stored'[i].whole => stored'[i] = stored[f[i]]
  BY <1>a
<1>6. HashesInv'
  <2>1. /\ HashedOnce(stored) /\ \A i \in 1..n : stored[i].hash <= minted
    BY DEF FoundInv, HashesInv
  <2>2. HashedOnce(stored)'
    BY <1>5, <2>1 DEF HashedOnce
  <2>3. \A i \in 1..m : stored'[i].hash <= minted
    BY <1>5, <2>1
  <2>4. \A t \in Threads : lock' # t
    BY <1>1, AuditBounds
  <2> QED
    BY <1>1, <1>5, <2>2, <2>3, <2>4 DEF HashesInv
<1>7. LeftInv'
  <2> SUFFICES ASSUME ~unread, verdict = "INTACT"
               PROVE  Chain(left) /\ HashedOnce(left) /\ Among(stored, left)'
    BY <1>1 DEF LeftInv, Chain, HashedOnce
  <2>1. Chain(left) /\ HashedOnce(left) /\ Among(stored, left)
    BY <1>1 DEF FoundInv, LeftInv
  <2>2. ASSUME NEW i \in 1..m, stored'[i].whole
        PROVE  \E j \in 1..Len(left) : left[j] = stored'[i]
    <3>1. f[i] \in 1..n /\ stored'[i] = stored[f[i]] /\ stored[f[i]].whole
      BY <1>5, <2>2
    <3> QED
      BY <2>1, <3>1 DEF Among
  <2> QED
    BY <1>1, <1>5, <2>1, <2>2 DEF Among
<1>8. LeftType'
  BY <1>1 DEF FoundInv, LeftType
<1> QED
  BY <1>6, <1>7, <1>8 DEF FoundInv

----------------------------------------------------------------------------

\* A step that leaves the ring, the counts and, while a process runs, the store.
LEMMA RingUntouched ==
  ASSUME RingInv, ring' = ring, ringNext' = ringNext, ringFloor' = ringFloor,
         atOpen' = atOpen, appended' = appended,
         open' => open /\ stored' = stored
  PROVE  RingInv'
BY DEF RingInv

\* A start seeds the ring with the newest entries, or with none if it could not read them.
LEMMA OpenSeeds ==
  ASSUME TrailInv, RingInv, NEW read \in BOOLEAN, Open(read)
  PROVE  RingInv'
<1> DEFINE n == Len(stored)
           start == IF read THEN Larger(0, n - RingSize) ELSE n
<1>1. /\ stored' = stored /\ atOpen' = n /\ appended' = 0
      /\ ring' = RingOf(stored, start) /\ ringFloor' = start /\ ringNext' = n
      /\ stored \in Seq(Entries) /\ n \in Nat
  BY DEF Open, RingSeed, TrailInv, HandsType
<1>2. start \in Nat /\ start <= n /\ n - start <= RingSize
  BY <1>1, AuditBounds DEF Larger
<1>3. DOMAIN ring' = Positions
  BY <1>1 DEF RingOf
<1> HIDE DEF start
<1>4. \A i \in start..(n - 1) :
        RingOf(stored, start)[i % RingSize] = [index |-> i, hash |-> stored[i + 1].hash]
  BY <1>1, <1>2, SeededTrue
<1> HIDE DEF n
<1>5. \A i \in ringFloor'..(ringNext' - 1) :
        ring'[i % RingSize] = [index |-> i, hash |-> stored'[i + 1].hash]
  BY <1>1, <1>4
<1>6. Len(stored') = n
  BY <1>1 DEF n
<1> QED
  BY <1>1, <1>2, <1>3, <1>5, <1>6 DEF RingInv

\* _agnostic_audit_ring_put: the newest takes the place of the one RingSize before it.
LEMMA PersistPuts ==
  ASSUME TrailInv, RingInv, NEW t \in Threads, Persist(t)
  PROVE  RingInv'
<1> DEFINE e == inHand[t]
           n == Len(stored)
           r == [index |-> ringNext, hash |-> e.hash]
<1>1. /\ open /\ open' = open /\ stored' = Append(stored, e) /\ appended' = appended + 1
      /\ atOpen' = atOpen /\ ringNext' = ringNext + 1 /\ ringFloor' = ringFloor
      /\ ring' = [ring EXCEPT ![ringNext % RingSize] = r]
      /\ stored \in Seq(Entries) /\ n \in Nat
  BY AuditBounds DEF Persist, RingPut, TrailInv, HandInv, HandsType
<1>2. /\ n = atOpen + appended /\ ringNext = n /\ ringFloor <= n
      /\ atOpen \in Nat /\ appended \in Nat /\ ringFloor \in Nat /\ DOMAIN ring = Positions
  BY <1>1 DEF RingInv
<1>3. \A i \in ringFloor..(n - 1) :
        n - RingSize <= i => ring[i % RingSize] = [index |-> i, hash |-> stored[i + 1].hash]
  BY <1>1, <1>2 DEF RingInv
<1> HIDE DEF e, n, r
<1>4. /\ Len(stored') = n + 1 /\ stored'[n + 1] = e
      /\ \A i \in 1..n : stored'[i] = stored[i]
  BY <1>1 DEF n
<1>5. ASSUME NEW i \in ringFloor..n, ringNext' - RingSize <= i
      PROVE  ring'[i % RingSize] = [index |-> i, hash |-> stored'[i + 1].hash]
  <2>0. i \in Nat /\ n \in Nat /\ RingSize \in Nat
    BY <1>1, <1>2, AuditBounds
  <2>1. i % RingSize \in Positions /\ i \in Nat /\ n \in Nat /\ RingSize \in Nat
    BY <2>0, InPositions
  <2>4. n + 1 - RingSize <= i
    <3>1. ringNext' = n + 1
      BY <1>1, <1>2
    <3> QED
      BY <1>5, <2>0, <3>1
  <2>2. CASE i = n
    <3>1. ring'[i % RingSize] = r
      BY <1>1, <1>2, <2>1, <2>2
    <3> QED
      BY <1>2, <1>4, <2>2, <3>1 DEF r
  <2>3. CASE i # n
    <3>1. i \in ringFloor..(n - 1) /\ n - RingSize <= i /\ i + 1 \in 1..n
      BY <1>2, <2>1, <2>3, <2>4
    <3>2. i % RingSize # n % RingSize
      <4>1. i - n < RingSize /\ n - i < RingSize
        BY <2>1, <2>4, <3>1
      <4> QED
        BY <2>1, <2>3, <4>1, PlacesApart
    <3>3. ring'[i % RingSize] = ring[i % RingSize]
      BY <1>1, <1>2, <2>1, <3>2
    <3> QED
      BY <1>3, <1>4, <3>1, <3>3
  <2> QED
    BY <2>2, <2>3
<1>6. DOMAIN ring' = Positions
  BY <1>1, <1>2
<1>7. /\ Len(stored') = atOpen' + appended' /\ ringNext' = Len(stored')
      /\ ringFloor' <= ringNext'
      /\ ringNext' \in Nat /\ ringFloor' \in Nat /\ atOpen' \in Nat /\ appended' \in Nat
  BY <1>1, <1>2, <1>4
<1>8. \A i \in ringFloor'..(ringNext' - 1) :
        ringNext' - RingSize <= i =>
          ring'[i % RingSize] = [index |-> i, hash |-> stored'[i + 1].hash]
  <2>1. ringFloor' = ringFloor /\ ringNext' = n + 1 /\ n + 1 - 1 = n
    BY <1>1, <1>2
  <2>2. ringFloor'..(ringNext' - 1) = ringFloor..n
    BY <1>1, <1>2, <2>1
  <2> QED
    BY <1>5, <2>2
<1> QED
  BY <1>6, <1>7, <1>8 DEF RingInv

\* Every other step leaves what each of the two invariants speaks of.
LEMMA LinkRings ==
  ASSUME TrailInv, RingInv, NEW t \in Threads, Link(t) PROVE RingInv'
<1>1. /\ ring' = ring /\ ringNext' = ringNext /\ ringFloor' = ringFloor
      /\ atOpen' = atOpen /\ appended' = appended /\ open' = open /\ stored' = stored
  BY DEF Link, ringVars, counters
<1> QED
  BY <1>1, RingUntouched

LEMMA LinkFailsTrue ==
  ASSUME TrailInv, FoundInv, RingInv, NEW t \in Threads, LinkFails(t)
  PROVE  FoundInv' /\ RingInv'
<1>1. /\ ring' = ring /\ ringNext' = ringNext /\ ringFloor' = ringFloor
      /\ atOpen' = atOpen /\ appended' = appended /\ open' = open /\ stored' = stored
      /\ left' = left /\ minted' = minted /\ verdict' = verdict /\ unread' = unread
      /\ lock' = lock /\ inHand' = inHand
  BY DEF LinkFails, ringVars, chainVars, history
<1> QED
  BY <1>1, RingUntouched, FoundUntouched

LEMMA PersistFailsTrue ==
  ASSUME TrailInv, FoundInv, RingInv, NEW t \in Threads, PersistFails(t)
  PROVE  FoundInv' /\ RingInv'
<1>1. /\ ring' = ring /\ ringNext' = ringNext /\ ringFloor' = ringFloor
      /\ atOpen' = atOpen /\ appended' = appended /\ open' = open /\ stored' = stored
      /\ left' = left /\ minted' = minted /\ verdict' = verdict /\ unread' = unread
      /\ lock' = NoThread
  BY DEF PersistFails, ringVars, history
<1>2. \A u \in Threads : lock' # u
  BY <1>1, AuditBounds
<1> QED
  BY <1>1, <1>2, RingUntouched, FoundUntouched

LEMMA ReverifyRings ==
  ASSUME RingInv, NEW read \in BOOLEAN, Reverify(read) PROVE RingInv'
<1>1. /\ ring' = ring /\ ringNext' = ringNext /\ ringFloor' = ringFloor
      /\ atOpen' = atOpen /\ appended' = appended /\ open' = open /\ stored' = stored
  BY DEF Reverify, ringVars, chainVars
<1> QED
  BY <1>1, RingUntouched

LEMMA StopRings == ASSUME RingInv, Stop PROVE RingInv'
<1>1. /\ ring' = ring /\ ringNext' = ringNext /\ ringFloor' = ringFloor
      /\ atOpen' = atOpen /\ appended' = appended /\ ~open'
  BY DEF Stop, ringVars, counters
<1> QED
  BY <1>1, RingUntouched

LEMMA AlterRings == ASSUME RingInv, Alter PROVE RingInv'
<1>1. /\ ring' = ring /\ ringNext' = ringNext /\ ringFloor' = ringFloor
      /\ atOpen' = atOpen /\ appended' = appended /\ ~open'
  BY DEF Alter, ringVars, counters
<1> QED
  BY <1>1, RingUntouched

AllInv == TrailInv /\ FoundInv /\ RingInv

LEMMA AllInvStep == AllInv /\ [Next]_vars => AllInv'
<1> SUFFICES ASSUME AllInv, [Next]_vars PROVE AllInv'
  OBVIOUS
<1>1. TrailInv'
  BY TrailInvStep DEF AllInv
<1>2. TrailInv /\ FoundInv /\ RingInv
  BY DEF AllInv
<1> HIDE DEF AllInv
<1>3. ASSUME NEW read \in BOOLEAN, Open(read) PROVE FoundInv' /\ RingInv'
  BY <1>2, <1>3, OpenFinds, OpenSeeds
<1>4. ASSUME NEW read \in BOOLEAN, Reverify(read) PROVE FoundInv' /\ RingInv'
  BY <1>2, <1>4, ReverifyFinds, ReverifyRings
<1>5. ASSUME NEW t \in Threads, Link(t) PROVE FoundInv' /\ RingInv'
  BY <1>2, <1>5, LinkFinds, LinkRings
<1>6. ASSUME NEW t \in Threads, LinkFails(t) PROVE FoundInv' /\ RingInv'
  BY <1>2, <1>6, LinkFailsTrue
<1>7. ASSUME NEW t \in Threads, Persist(t) PROVE FoundInv' /\ RingInv'
  BY <1>2, <1>7, PersistFinds, PersistPuts
<1>8. ASSUME NEW t \in Threads, PersistFails(t) PROVE FoundInv' /\ RingInv'
  BY <1>2, <1>8, PersistFailsTrue
<1>9. ASSUME Stop PROVE FoundInv' /\ RingInv'
  BY <1>2, <1>9, StopFinds, StopRings
<1>10. ASSUME Alter PROVE FoundInv' /\ RingInv'
  BY <1>2, <1>10, AlterFinds, AlterRings
<1>11. ASSUME UNCHANGED vars PROVE FoundInv' /\ RingInv'
  <2>1. /\ ring' = ring /\ ringNext' = ringNext /\ ringFloor' = ringFloor
        /\ atOpen' = atOpen /\ appended' = appended /\ open' = open /\ stored' = stored
        /\ left' = left /\ minted' = minted /\ verdict' = verdict /\ unread' = unread
        /\ lock' = lock /\ inHand' = inHand
    BY <1>11 DEF vars, ringVars, chainVars, counters, history
  <2> QED
    BY <1>2, <2>1, RingUntouched, FoundUntouched
<1>12. FoundInv' /\ RingInv'
  BY <1>3, <1>4, <1>5, <1>6, <1>7, <1>8, <1>9, <1>10, <1>11, Zenon DEF Next
<1> QED
  BY <1>1, <1>12 DEF AllInv

----------------------------------------------------------------------------

\* The entries the trail's route serves are the store's newest, each under its position,
\* and the counts add up: an index a reader pages by never comes to mean another entry.
THEOREM NewestServed == Spec => []RingTrue
<1>1. Init => AllInv
  BY TrailInvInit, FoundInvInit DEF AllInv
<1>2. AllInv => RingTrue
  <2> SUFFICES ASSUME AllInv, open PROVE
        /\ Len(stored) = atOpen + appended
        /\ ringNext = Len(stored)
        /\ \A i \in OldestHeld..(ringNext - 1) :
             ring[i % RingSize] = [index |-> i, hash |-> stored[i + 1].hash]
    BY DEF RingTrue
  <2>1. RingInv
    BY DEF AllInv
  <2>2. ringNext \in Nat /\ ringFloor \in Nat /\ RingSize \in Nat
    BY <2>1, AuditBounds DEF RingInv
  <2>3. \A i \in OldestHeld..(ringNext - 1) :
          i \in ringFloor..(ringNext - 1) /\ ringNext - RingSize <= i
    BY <2>2 DEF OldestHeld, Larger
  <2> QED
    BY <2>1, <2>3 DEF RingInv
<1> QED
  BY <1>1, <1>2, AllInvStep, PTL DEF Spec

\* A trail found intact, and found intact again by the next start, holds in between only
\* what the last process left, from its first entry on: nothing was edited, removed from
\* its middle or put in another order.
THEOREM AlterationsFound == Spec => AlterationFound
<1>1. Init => AllInv
  BY TrailInvInit, FoundInvInit DEF AllInv
<1>2. ASSUME AllInv, [Next]_vars
      PROVE  [~open /\ open' /\ ~unread /\ verdict = "INTACT" /\ verdict' = "INTACT"
                => IsPrefix(stored, left)]_vars
  <2> SUFFICES ASSUME ~open, open', ~unread, verdict = "INTACT", verdict' = "INTACT"
               PROVE  IsPrefix(stored, left)
    OBVIOUS
  <2>1. TrailInv /\ FoundInv
    BY <1>2 DEF AllInv
  <2>2. lock = NoThread /\ \A t \in Threads : inHand[t] = NoEntry
    BY <2>1, AuditBounds DEF TrailInv, HandInv, HandsType
  <2>3. PICK read \in BOOLEAN : Open(read)
    BY <1>2, <2>2 DEF Next, Reverify, Link, LinkFails, Persist, PersistFails, Stop, Alter,
                      vars
  <2>4. Judged(stored, read) = "INTACT"
    BY <2>3 DEF Open
  <2>5. stored \in Seq(Entries) /\ left \in Seq(Entries)
    BY <2>1 DEF TrailInv, HandsType, FoundInv, LeftType
  <2>6. Chain(stored)
    BY <2>4, <2>5, IntactChain
  <2>7. Chain(left) /\ HashedOnce(left) /\ Among(stored, left)
    BY <2>1 DEF FoundInv, LeftInv
  <2> QED
    BY <2>5, <2>6, <2>7, ChainBegins
<1> QED
  BY <1>1, <1>2, AllInvStep, PTL DEF Spec, AlterationFound

=============================================================================
