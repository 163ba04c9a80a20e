----------------------------- MODULE AuditTrail -----------------------------
(***************************************************************************)
(* The audit trail (engine/audit.cyr): entries chained by hash, appended   *)
(* under one lock, judged when the trail is opened, and the newest of them *)
(* kept in a ring for reading.                                             *)
(*                                                                         *)
(* An entry is its hash, the hash it names as its predecessor's, and       *)
(* whether its content still matches its hash.  Hashes are numbers, given  *)
(* out once, and Genesis is the empty hash.                                *)
(***************************************************************************)
EXTENDS Integers, Sequences, FiniteSets, SequencesExt

CONSTANTS
  Threads,      \* the threads that record
  RingSize,     \* AGNOSTIC_AUDIT_RING
  NoThread,     \* the audit lock is free
  MaxHashes,    \* bound: entries ever linked
  MaxOpens,     \* bound: starts of a process
  MaxAltered    \* bound: alterations of the file, all while no process has it open

ASSUME AuditBounds ==
  /\ RingSize \in Nat \ {0}
  /\ MaxHashes \in Nat /\ MaxOpens \in Nat /\ MaxAltered \in Nat
  /\ NoThread \notin Threads

Genesis == 0

Entries == [hash : 1..MaxHashes, prev : 0..MaxHashes, whole : BOOLEAN]
NoEntry == [hash |-> 0, prev |-> 0, whole |-> FALSE]

VARIABLES
  stored,    \* the table audit_entries, in order
  open,      \* a process has the trail open
  head,      \* the streaming chain's head
  minted,    \* the last hash given out
  lock, inHand, \* the audit lock, and the entry each thread has linked and not written
  verdict, atOpen, appended, dropped,
  ring, ringNext, ringFloor,
  \* History: starts, alterations, whether one broke the chain, whether a start could
  \* not read the trail, and what the file held when the last process stopped.
  opens, alterations, broken, unread, left

chainVars == <<stored, head, minted, lock, inHand>>
ringVars  == <<ring, ringNext, ringFloor>>
counters  == <<verdict, atOpen, appended, dropped>>
history   == <<opens, alterations, broken, unread, left>>
vars == <<chainVars, open, counters, ringVars, history>>

----------------------------------------------------------------------------
(* Judging a trail                                                          *)

Verdicts == {"INTACT", "RESTARTS", "ALTERED", "UNVERIFIED"}

\* (A mutant: the first entry's predecessor is not looked at.)
AlterationUnlessFirst(s, i) ==
  \/ ~s[i].whole
  \/ i > 1 /\ s[i].prev \notin {s[i - 1].hash, Genesis}

\* An entry that does not hash, a first one that names a predecessor, or a link to
\* anything but the entry before it.
Alteration(s, i) ==
  \/ ~s[i].whole
  \/ i = 1 /\ s[i].prev # Genesis
  \/ i > 1 /\ s[i].prev \notin {s[i - 1].hash, Genesis}

\* A chain that began again.
Restart(s, i) == s[i].whole /\ i > 1 /\ s[i].prev = Genesis

\* _agnostic_audit_judge_locked walks the whole trail; a failed read judges nothing.
Judged(s, read) ==
  CASE ~read -> "UNVERIFIED"
    [] read /\ \E i \in DOMAIN s : Alteration(s, i) -> "ALTERED"
    [] OTHER -> IF \E i \in DOMAIN s : Restart(s, i) THEN "RESTARTS" ELSE "INTACT"

----------------------------------------------------------------------------
(* The ring of the newest entries                                           *)

Positions == 0..(RingSize - 1)

Larger(m, n) == IF m > n THEN m ELSE n

\* The slots after the entries of `s` from index `start` were put in, oldest first.
RingOf(s, start) ==
  [p \in Positions |->
     LET idx == {i \in start..(Len(s) - 1) : i % RingSize = p}
     IN  IF idx = {} THEN [index |-> -1, hash |-> 0]
         ELSE LET i == CHOOSE i \in idx : \A j \in idx : j <= i
              IN  [index |-> i, hash |-> s[i + 1].hash]]

\* (A mutant: a trail that could not be read is taken for an empty one.)
RingSeedEmpty(read) ==
  LET start == IF read THEN Larger(0, Len(stored) - RingSize) ELSE 0
      s     == IF read THEN stored ELSE <<>>
  IN  /\ ring' = RingOf(s, start)
      /\ ringFloor' = start
      /\ ringNext' = Len(s)

\* _agnostic_audit_ring_seed_locked: indexes stay positions in the store, read or not.
RingSeed(read) ==
  LET start == IF read THEN Larger(0, Len(stored) - RingSize) ELSE Len(stored)
  IN  /\ ring' = RingOf(stored, start)
      /\ ringFloor' = start
      /\ ringNext' = Len(stored)

RingPut(e) ==
  /\ ring' = [ring EXCEPT ![ringNext % RingSize] = [index |-> ringNext, hash |-> e.hash]]
  /\ ringNext' = ringNext + 1
  /\ UNCHANGED ringFloor

OldestHeld == Larger(ringFloor, ringNext - RingSize)

----------------------------------------------------------------------------

Init ==
  /\ stored = <<>> /\ open = FALSE
  /\ head = Genesis /\ minted = 0
  /\ lock = NoThread /\ inHand = [t \in Threads |-> NoEntry]
  /\ verdict = "INTACT" /\ atOpen = 0 /\ appended = 0 /\ dropped = 0
  /\ ring = RingOf(<<>>, 0) /\ ringNext = 0 /\ ringFloor = 0
  /\ opens = 0 /\ alterations = 0 /\ broken = FALSE /\ unread = FALSE /\ left = <<>>

\* agnostic_audit_open, by the server or by the command that resets a password: both
\* have claimed the database.  The trail may be unreadable; the count is not.
Open(read) ==
  /\ ~open /\ opens < MaxOpens
  /\ open' = TRUE /\ opens' = opens + 1
  /\ atOpen' = Len(stored) /\ appended' = 0 /\ dropped' = 0
  /\ verdict' = Judged(stored, read)
  /\ RingSeed(read)
  /\ head' = IF read /\ stored # <<>> THEN stored[Len(stored)].hash ELSE Genesis
  /\ unread' = (unread \/ ~read)
  /\ UNCHANGED <<stored, minted, lock, inHand, alterations, broken, left>>

\* chain_append: the head moves to the new entry.
Link(t) ==
  /\ open /\ lock = NoThread /\ minted < MaxHashes
  /\ minted' = minted + 1
  /\ inHand' = [inHand EXCEPT ![t] = [hash |-> minted + 1, prev |-> head, whole |-> TRUE]]
  /\ head' = minted + 1
  /\ lock' = t
  /\ UNCHANGED <<stored, open, counters, ringVars, history>>

\* The entry could not be made: the head stays.
LinkFails(t) ==
  /\ open /\ lock = NoThread /\ dropped < MaxHashes
  /\ dropped' = dropped + 1
  /\ UNCHANGED <<chainVars, open, verdict, atOpen, appended, ringVars, history>>

Persist(t) ==
  /\ inHand[t] # NoEntry
  /\ stored' = Append(stored, inHand[t])
  /\ appended' = appended + 1
  /\ RingPut(inHand[t])
  /\ inHand' = [inHand EXCEPT ![t] = NoEntry]
  /\ lock' = NoThread
  /\ UNCHANGED <<open, head, minted, verdict, atOpen, dropped, history>>

\* A refused write puts the head back on the last stored entry.  (The mutant leaves it.)
HeadKept(e) == head
HeadBack(e) == e.prev

PersistFails(t) ==
  /\ inHand[t] # NoEntry
  /\ head' = HeadBack(inHand[t])
  /\ dropped' = dropped + 1
  /\ inHand' = [inHand EXCEPT ![t] = NoEntry]
  /\ lock' = NoThread
  /\ UNCHANGED <<stored, open, minted, verdict, atOpen, appended, ringVars, history>>

\* agnostic_audit_reverify: a new verdict on what the store holds now.
Reverify(read) ==
  /\ open /\ lock = NoThread
  /\ verdict' = Judged(stored, read)
  /\ UNCHANGED <<chainVars, open, atOpen, appended, dropped, ringVars, history>>

\* agnostic_audit_close, or the process dies with an entry in hand.
Stop ==
  /\ open
  /\ open' = FALSE
  /\ inHand' = [t \in Threads |-> NoEntry] /\ lock' = NoThread
  /\ left' = stored
  /\ UNCHANGED <<stored, head, minted, counters, ringVars, opens, alterations, broken,
                 unread>>

\* Somebody else writes the file: an entry edited, removed, or two put the other way
\* round.  Cutting the end off leaves a chain.
Alter ==
  /\ ~open /\ alterations < MaxAltered
  /\ alterations' = alterations + 1
  /\ \E i \in DOMAIN stored :
       \/ /\ stored' = [stored EXCEPT ![i].whole = FALSE]
          /\ broken' = TRUE
       \/ /\ stored' = RemoveAt(stored, i)
          /\ broken' = (broken \/ i < Len(stored))
       \/ /\ i < Len(stored)
          /\ stored' = [stored EXCEPT ![i] = stored[i + 1], ![i + 1] = stored[i]]
          /\ broken' = TRUE
  /\ UNCHANGED <<head, minted, lock, inHand, open, counters, ringVars, opens, unread, left>>

Next ==
  \/ \E read \in BOOLEAN : Open(read) \/ Reverify(read)
  \/ \E t \in Threads : Link(t) \/ LinkFails(t) \/ Persist(t) \/ PersistFails(t)
  \/ Stop \/ Alter

Spec == Init /\ [][Next]_vars

----------------------------------------------------------------------------

\* Types; the entry in hand is the lock holder's.
TypeOK ==
  /\ stored \in Seq(Entries) /\ left \in Seq(Entries)
  /\ open \in BOOLEAN /\ broken \in BOOLEAN /\ unread \in BOOLEAN
  /\ head \in 0..MaxHashes /\ minted \in 0..MaxHashes
  /\ lock \in Threads \cup {NoThread}
  /\ inHand \in [Threads -> Entries \cup {NoEntry}]
  /\ \A t \in Threads : inHand[t] # NoEntry <=> lock = t
  /\ verdict \in Verdicts
  /\ atOpen \in Nat /\ appended \in Nat /\ dropped \in Nat
  /\ ring \in [Positions -> [index : Int, hash : 0..MaxHashes]]
  /\ ringNext \in Nat /\ ringFloor \in Nat
  /\ opens \in 0..MaxOpens /\ alterations \in 0..MaxAltered

\* A trail nobody altered is never reported as altered, whatever writes failed, reads
\* failed and processes died half way through an append; and it is reported to have
\* restarted only after a start that could not read it.
HonestTrail ==
  ~broken => /\ verdict # "ALTERED"
             /\ verdict = "RESTARTS" => unread

\* An intact trail that the next start finds intact holds nothing but entries it had when
\* the last process stopped, in their order and none missing in between: only its end can
\* have been cut off unseen.  Once a start could not read the trail this is gone for good:
\* what came before the break it leaves can be deleted, and the break with it.
AlterationFound ==
  [][~open /\ open' /\ ~unread /\ verdict = "INTACT" /\ verdict' = "INTACT"
       => IsPrefix(stored, left)]_vars

\* The entries the trail's route serves are the store's newest, each under its position,
\* and the counts add up: an index a reader pages by never comes to mean another entry.
RingTrue ==
  open =>
    /\ Len(stored) = atOpen + appended
    /\ ringNext = Len(stored)
    /\ \A i \in OldestHeld..(ringNext - 1) :
         ring[i % RingSize] = [index |-> i, hash |-> stored[i + 1].hash]

=============================================================================
