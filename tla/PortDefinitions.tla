--------------------------- MODULE PortDefinitions ---------------------------
(* The agent definitions of the Python port, which are files: the routes    *)
(* that write them (webgui/routes/definitions.py), their versions           *)
(* (agents/versioning.py), packages (agents/packaging.py), and the three    *)
(* memories over them: the listing's cache, the factory's and the registry. *)
(* A handler has the event loop until it returns; a listing's scan and an   *)
(* export read the files in a thread meanwhile.                             *)
(*                                                                          *)
(* Data abstracted: what a file says is a member of Contents; agents and    *)
(* presets are keys; a version's number has at most two digits.             *)
EXTENDS Integers, Sequences, FiniteSets

CONSTANTS DefKeys, PresetKeys, Contents,
          Saved,        \* numbers of the versions there are at first
          MaxVersions,  \* AGNOSTIC_MAX_VERSIONS
          CacheTTL,     \* _DEFINITIONS_CACHE_TTL, in ticks
          CacheMax,     \* AgentFactory._CACHE_MAX_SIZE
          LastNow, MaxWrites, MaxReads, MaxRestarts    \* bounds

VARIABLES disk,         \* file -> what it holds
          job,          \* what the handler that has the loop still has to do
          listing,      \* _definitions_cache and its time
          scan,         \* the scan of the listing that is under way
          shown,        \* what the last listing from the cache answered
          factory,      \* AgentFactory._definition_cache, oldest first
          registry,     \* agent_registry._presets
          export, package,   \* the export under way, and the last that was made
          clock, writes, reads, restarts,
          since,        \* history: when each definition's file last changed
          owed,         \* history: what a rollback replaced
          pruned,       \* history: versions that were pruned
          cut           \* history: files that were being written at a stop

defVars == <<disk, job, listing, scan, shown, factory, registry, export, package,
             clock, writes, reads, restarts, since, owed, pruned, cut>>
readers == <<listing, scan, shown, factory, registry, export, package>>
defHistory == <<since, owed, pruned, cut>>

-----------------------------------------------------------------------------
(* Files. open() for writing empties a file, and json.dump fills it.        *)

Active(k)     == [dir |-> "definitions", key |-> k, n |-> 0]
Version(k, n) == [dir |-> "versions", key |-> k, n |-> n]
Preset(p)     == [dir |-> "presets", key |-> p, n |-> 0]
Half    == "half"       \* what cannot be decoded
Exists(f) == f \in DOMAIN disk
Without(fs) == [f \in DOMAIN disk \ fs |-> disk[f]]
Put(f, doc) == [g \in DOMAIN disk \cup {f} |-> IF g = f THEN doc ELSE disk[g]]

Open(f)      == [op |-> "open", at |-> f, doc |-> Half]
Dump(f, doc) == [op |-> "dump", at |-> f, doc |-> doc]
Write(f, doc) == <<Open(f), Dump(f, doc)>>
Prune(k)   == [op |-> "prune", at |-> Active(k), doc |-> Half]
Invalidate == [op |-> "invalidate", at |-> Active(""), doc |-> Half]

NoListing == [at |-> -CacheTTL - 1, items |-> <<>>]
NoScan    == [on |-> FALSE, at |-> 0, left |-> {}, items |-> <<>>]

\* An installation with its definitions and presets, and what was saved of them.
Shipped == CHOOSE c \in Contents : TRUE
Older   == CHOOSE c \in Contents : c # Shipped \/ Contents = {Shipped}
Init ==
  /\ disk = [f \in {Preset(p) : p \in PresetKeys} \cup {Active(k) : k \in DefKeys}
                   \cup {Version(k, n) : k \in DefKeys, n \in Saved}
             |-> IF f.dir = "versions" THEN Older ELSE Shipped]
  /\ job = <<>> /\ listing = NoListing /\ scan = NoScan /\ shown = <<>>
  /\ factory = <<>> /\ registry = [p \in PresetKeys |-> Shipped]
  /\ export = NoScan /\ package = <<>> /\ clock = 0 /\ writes = 0 /\ restarts = 0 /\ reads = 0
  /\ since = [k \in DefKeys |-> 0] /\ owed = {} /\ pruned = {} /\ cut = {}

Handle(steps) ==
  /\ job = <<>> /\ writes < MaxWrites /\ writes' = writes + 1 /\ job' = steps
  /\ UNCHANGED <<disk, readers, clock, reads, restarts, defHistory>>

-----------------------------------------------------------------------------
(* The routes that write. Where a file that is read cannot be decoded the   *)
(* handler raises before it has written anything.                           *)

Create(k, doc) == ~Exists(Active(k)) /\ Handle(Write(Active(k), doc) \o <<Invalidate>>)
Update(k, doc) == Exists(Active(k)) /\ Handle(Write(Active(k), doc) \o <<Invalidate>>)
CreatePreset(p, doc) == ~Exists(Preset(p)) /\ Handle(Write(Preset(p), doc))

Numbers(k)     == {f.n : f \in {g \in DOMAIN disk : g.dir = "versions" /\ g.key = k}}
NextVersion(k) == IF Numbers(k) = {} THEN 1 ELSE 1 + CHOOSE n \in Numbers(k) :
  \A m \in Numbers(k) : m <= n

SaveVersion(k) == Write(Version(k, NextVersion(k)), disk[Active(k)]) \o <<Prune(k)>>
Readable(f) == Exists(f) /\ disk[f] # Half
Save(k) == Readable(Active(k)) /\ Handle(SaveVersion(k))

\* The current definition is saved before it is replaced.
RollbackSteps(k, n) ==
  (IF Exists(Active(k)) THEN SaveVersion(k) ELSE <<>>) \o Write(Active(k), disk[Version(k, n)])
Rollback(k, n) ==
  /\ Readable(Version(k, n)) /\ disk[Active(k)] # Half
  /\ Handle(RollbackSteps(k, n))

\* An entry that does not decode is reported; one that is there is skipped
\* unless it may be overwritten.
Installs(f, overwrite) == package[f] # Half /\ (overwrite \/ ~Exists(f))
Install(fs) ==
  LET entry == CHOOSE e \in [1 .. Cardinality(fs) -> fs] : \A f \in fs : \E i \in DOMAIN e : e[i] = f
      At(i) == entry[(i + 1) \div 2]
  IN [i \in 1 .. 2 * Cardinality(fs) |->
        IF i % 2 = 1 THEN Open(At(i)) ELSE Dump(At(i), package[At(i)])]
Import(overwrite) ==
  /\ package # <<>>
  /\ Handle(Install({f \in DOMAIN package : Installs(f, overwrite)}) \o <<Invalidate>>)

Delete(f) ==
  /\ job = <<>> /\ Exists(f) /\ writes < MaxWrites /\ writes' = writes + 1
  /\ disk' = Without({f})
  /\ IF f.dir = "definitions"
     THEN listing' = NoListing /\ since' = [since EXCEPT ![f.key] = clock]
     ELSE UNCHANGED <<listing, since>>
  /\ UNCHANGED <<job, scan, shown, factory, registry, export, package, clock, reads, restarts,
                 owed, pruned, cut>>

-----------------------------------------------------------------------------
(* A step of the handler's writing                                          *)

\* sorted() of the paths compares the names: v10.json is before v2.json.
Digits(n) == IF n < 10 THEN <<n>> ELSE <<n \div 10, n % 10>>
NameBefore(m, n) ==
  LET x == Digits(m)  y == Digits(n) IN
  \/ x[1] < y[1]
  \/ x[1] = y[1] /\ (Len(x) < Len(y) \/ (Len(x) = 2 /\ Len(y) = 2 /\ x[2] < y[2]))
PruneOldVersions(k) ==
  {n \in Numbers(k) : Cardinality({m \in Numbers(k) :
                                   NameBefore(m, n)}) < Cardinality(Numbers(k)) - MaxVersions}

Changed(f) == since' = IF f.dir = "definitions" THEN [since EXCEPT ![f.key] = clock] ELSE since

OpenFile ==
  /\ Head(job).op = "open" /\ LET f == Head(job).at IN
     /\ disk' = Put(f, Half) /\ Changed(f)
     /\ owed' = IF f.dir = "definitions" /\ Len(job) = 2 /\ Readable(f)     \* the last step of a rollback
                THEN owed \cup {[key |-> f.key, doc |-> disk[f]]} ELSE owed
  /\ UNCHANGED <<listing, pruned, cut>>
DumpFile ==
  /\ Head(job).op = "dump"
  /\ disk' = Put(Head(job).at, Head(job).doc) /\ Changed(Head(job).at)
  /\ cut' = cut \ {Head(job).at}
  /\ UNCHANGED <<listing, owed, pruned>>
PruneFiles ==
  /\ Head(job).op = "prune" /\ LET k == Head(job).at.key IN
     /\ disk' = Without({Version(k, n) : n \in PruneOldVersions(k)})
     /\ pruned' = pruned \cup {Version(k, n) : n \in PruneOldVersions(k)}
  /\ UNCHANGED <<listing, since, owed, cut>>
InvalidateCache ==
  /\ Head(job).op = "invalidate" /\ listing' = NoListing
  /\ UNCHANGED <<disk, since, owed, pruned, cut>>

Work ==
  /\ job # <<>> /\ job' = Tail(job)
  /\ OpenFile \/ DumpFile \/ PruneFiles \/ InvalidateCache
  /\ UNCHANGED <<scan, shown, factory, registry, export, package, clock, writes, reads, restarts>>

-----------------------------------------------------------------------------
(* GET /definitions. The time is read before the scan, and given to what it *)
(* found; a file that is gone or does not decode is passed over.            *)

Files(dir) == {f \in DOMAIN disk : f.dir = dir}
ReadOne(s, f) ==
  [s EXCEPT !.left = @ \ {f},
            !.items = IF Exists(f) THEN [g \in DOMAIN @ \cup {f} |-> IF g = f THEN disk[f]
                                         ELSE @[g]] ELSE @]

Fresh == clock - listing.at < CacheTTL
ListCached ==
  /\ job = <<>> /\ Fresh /\ shown' = [items |-> listing.items, at |-> clock]
  /\ UNCHANGED <<disk, job, listing, scan, factory, registry, export, package, clock, writes,
                 reads, restarts, defHistory>>
ListBegin ==
  /\ job = <<>> /\ ~Fresh /\ ~scan.on /\ reads < MaxReads /\ reads' = reads + 1
  /\ scan' = [on |-> TRUE, at |-> clock, left |-> Files("definitions"), items |-> <<>>]
  /\ UNCHANGED <<disk, job, listing, shown, factory, registry, export, package, clock, writes,
                 restarts, defHistory>>
ScanOne(f) ==
  /\ scan.on /\ f \in scan.left /\ scan' = ReadOne(scan, f)
  /\ UNCHANGED <<disk, job, listing, shown, factory, registry, export, package, clock, writes,
                 reads, restarts, defHistory>>
Decoded(items) == [f \in {g \in DOMAIN items : items[g] # Half} |-> items[f]]
\* (A mutant: the listing is as old as the end of its scan.)
ListEndNow ==
  /\ job = <<>> /\ scan.on /\ scan.left = {}
  /\ listing' = [at |-> clock, items |-> Decoded(scan.items)] /\ scan' = NoScan
  /\ UNCHANGED <<disk, job, shown, factory, registry, export, package, clock, writes, reads,
                 restarts, defHistory>>
ListEnd ==
  /\ job = <<>> /\ scan.on /\ scan.left = {}
  /\ listing' = [at |-> scan.at, items |-> Decoded(scan.items)] /\ scan' = NoScan
  /\ UNCHANGED <<disk, job, shown, factory, registry, export, package, clock, writes, reads,
                 restarts, defHistory>>

-----------------------------------------------------------------------------
(* POST /packages/export copies the files as they are.                      *)

Export ==
  /\ job = <<>> /\ ~export.on /\ reads < MaxReads /\ reads' = reads + 1
  /\ export' = [on |-> TRUE, at |-> clock, left |-> Files("definitions")
                \cup Files("presets"), items |-> <<>>]
  /\ UNCHANGED <<disk, job, listing, scan, shown, factory, registry, package, clock, writes,
                 restarts, defHistory>>
ExportOne(f) ==
  /\ export.on /\ f \in export.left
  /\ LET e == ReadOne(export, f) IN
     IF e.left = {} THEN export' = NoScan /\ package' = e.items
       ELSE export' = e /\ UNCHANGED package
  /\ UNCHANGED <<disk, job, listing, scan, shown, factory, registry, clock, writes, reads,
                 restarts, defHistory>>

-----------------------------------------------------------------------------
(* Building a crew's agents by their keys; a definition that was built once *)
(* is taken from the cache, the oldest of which makes room.                 *)

CachedKeys == {factory[i].key : i \in DOMAIN factory}
FromFile(k) ==
  /\ job = <<>> /\ Readable(Active(k)) /\ k \notin CachedKeys
  /\ factory' = Append(IF Len(factory) >= CacheMax THEN Tail(factory) ELSE factory,
                       [key |-> k, doc |-> disk[Active(k)]])
  /\ UNCHANGED <<disk, job, listing, scan, shown, registry, export, package, clock, writes,
                 reads, restarts, defHistory>>

-----------------------------------------------------------------------------
(* The process stops anywhere and is started again: the registry reads the  *)
(* presets, once.                                                           *)

Restart ==
  /\ restarts < MaxRestarts /\ restarts' = restarts + 1
  /\ job' = <<>> /\ listing' = NoListing /\ scan' = NoScan /\ shown' = <<>> /\ factory' = <<>>
  /\ export' = NoScan
  /\ registry' = [p \in {q \in PresetKeys : Readable(Preset(q))} |-> disk[Preset(p)]]
  /\ cut' = IF job # <<>> /\ Head(job).op = "dump" THEN cut \cup {Head(job).at} ELSE cut
  /\ UNCHANGED <<disk, package, clock, writes, reads, since, owed, pruned>>

Tick ==
  /\ clock < LastNow /\ clock' = clock + 1
  /\ UNCHANGED <<disk, job, readers, writes, reads, restarts, defHistory>>

Next ==
  \/ \E k \in DefKeys, doc \in Contents : Create(k, doc) \/ Update(k, doc)
  \/ \E p \in PresetKeys, doc \in Contents : CreatePreset(p, doc)
  \/ \E k \in DefKeys : Save(k) \/ FromFile(k)
       \/ (\E n \in Numbers(k) : Exists(Active(k)) /\ Rollback(k, n))
  \/ \E overwrite \in BOOLEAN : Import(overwrite)
  \/ \E f \in Files("definitions") \cup Files("presets") : Delete(f)
  \/ Work \/ ListCached \/ ListBegin \/ ListEnd \/ Export \/ Restart \/ Tick
  \/ \E f \in scan.left : ScanOne(f)
  \/ \E f \in export.left : ExportOne(f)
DefSpec == Init /\ [][Next]_defVars

-----------------------------------------------------------------------------
(* Properties *)

\* A listing from the cache shows a definition that has been replaced for less
\* than the cache's time, whatever was written while the files were being read
\* and though a rollback leaves the cache alone (list_definitions).
ListingFresh ==
  shown # <<>> =>
    \A f \in DOMAIN shown.items :
      Exists(f) /\ shown.items[f] # disk[f] /\ shown.at >= since[f.key]
        => shown.at - since[f.key] < CacheTTL

\* What a rollback replaced is among the versions by the time its file is
\* emptied, also when the process stops there, and stays until it is pruned
\* (rollback).
ReplacedKept ==
  \A o \in owed : \E n \in Numbers(o.key) \cup {f.n : f \in pruned} :
    LET v == Version(o.key, n) IN v \in pruned \/ (Exists(v) /\ disk[v] = o.doc)

\* A file that does not decode is one that is being written or was at a stop:
\* an export that reads a definition in the middle of an update puts half of it
\* into the package, and no import brings that back (import_package).
HalfOnlyByStop ==
  \A f \in DOMAIN disk : disk[f] = Half => f \in cut
    \/ (job # <<>> /\ Head(job) = Dump(f, Head(job).doc))

\* Pruning deletes the oldest versions (agents/versioning.py:90).
OldestPruned ==
  \A f \in pruned, n \in UNION {Numbers(k) : k \in DefKeys} : f.n < n
=============================================================================
