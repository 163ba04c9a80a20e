# Agnostic: the verification project

TLA+ models of the server in `src/src` (the `agnostic` QA-crew server, written in
Cyrius) and of the implementation it was ported from, `src/python-port` (a FastAPI
server, its fleet of nodes and its agents' processes), model-checked with TLC on small
instances, and theorems about both proved with TLAPS. The code is the reference:
every definition is a translation of the lines that `PROJECT.json` names under `map`,
the engine's included (`src/lib/agnosai.cyr`), and what is not modelled from source (the
database `patra`, the audit chain `libro`, the HTTP server `sandhi`; Redis, Celery, model
services, the daemons of AGNOS) is modelled from how the code uses it.

## 1. The system

### The server

A client posts a crew (agents and tasks); the server answers 202 with an id and the
engine runs the crew on a thread of its own. Clients poll the crew, read its events and
may cancel it. A collector thread visits every crew five times a second. What must
survive the process is in a database; every refusal and every administrative act leaves
an audit entry.

| Component | State | Operations | Meets |
| --- | --- | --- | --- |
| Ledger (`engine/ledger.cyr`) | map of entries, limbo's two lists, two reader counters, free event rings | record, find, evict, read_begin/read_end, limbo_pass, give_back | every request, the collector |
| Crew entry (`ledger.cyr`, `crew.cyr`, `outcome.cyr`) | status, results, started, subscription, pending writes, retired, admission | latch, drain, collect, retire, flush, cancel, mark_inflight, hold_admission | engine, store, tenant limits |
| Collector (`engine/collector.cyr`) | none of its own | sweep, flush within 150 ms, refusals' flush; finish at a stop | ledger, refusals |
| Crew store (`engine/crewstore.cyr`) | tables `agnostic_crews`, `_crew_index`, `_crew_inflight`, `_crew_partial` | save_row, resave_row, mark_inflight, save_partial, interrupt_row, paged reads | ledger, start-up sweep |
| Tenant limits (`auth/tenantlimit.cyr`) | 64 slots: key, tokens, last seen, places | admit, unadmit, crew_ended | submission, latch |
| Audit trail (`engine/audit.cyr`) | `audit_entries`, chain head, verdict, ring of 1024, counters | open, record, reverify, close, page reads | everything that records |
| Refusals (`engine/refusal.cyr`) | counts, held counts, window start, spent | note, flush | router, login, submission, collector, stop |
| Store lock and claim (`engine/store.cyr`, `rlock.cyr`) | owner, depth; owner file | enter, exit, claim, release | all tables |
| Submission (`routes/crews.cyr`) | idempotency mutex; key and fingerprint on the entry | submit, keyed submit, get, cancel, events, list | ledger, limits, engine |
| Definitions, plugin data, settings | rows, versions, decode cache | create, replace(-if), rollback, remove(-if); put(-if), delete(-if) | store lock |
| Users, keys, tenants | rows | create, set role, set password, delete, issue, revoke, delete_empty | store lock |
| Login | 64 bucket slots, Argon2 pool | allow, acquire, release | router |
| Requests, HTTP, presets, tools, web pages | none that outlives a request | decode, validate, route, render | - |

Interactions: requests and the collector call into the ledger under its lock, but talk
to the engine and the store *outside* it, so everything read before is stale by then.
The store has one re-entrant lock; its statements are durable one at a time and there
are no transactions. The tenant table, the refusals' window and the audit trail each
have a lock, none held while another is taken.

What is hard: several threads refresh one crew at once; a crew ends while it is being
submitted, cancelled, evicted or written; memory is reused while requests still look at
it; the process stops between two statements; a write or a read fails; clocks are read
before the lock that orders their readers. `PROJECT.json` lists each hazard at its line
with the properties that cover it and what they leave open.

What makes each part correct: no crew memory is reused under a reader, and all of it is
eventually reused (ledger); one end per crew, never taken back, its place returned once,
its results stored before anything forgets them (entry); whatever stops, each accepted
crew has one outcome, listed, and interrupted crews report what they had answered
(store); no tenant above its cap or rate, none below what it is due (limits); no false
alarm and no unseen alteration (audit); every refusal told, within a budget (refusals).

### The Python port

One process serves every request on one event loop, so whatever happens between two
`await`s is one step and any other handler may come in at one. Several such processes
make a fleet. Each kind of agent has a process of its own with Celery workers. They
share Redis, which has no transaction the code uses but for single commands, and files.

| Component (`src/python-port/...`) | State | Operations | Meets |
| --- | --- | --- | --- |
| Fleet crews (`config/fleet/coordinator.py`, `relay.py`, `state.py`) | crew document, hash of agents, barrier, message counters | run, hand off, publish_result, checkpoint, set_status | other nodes over pub/sub |
| Fleet registry (`registry.py`, `node.py`) | node records, the set of nodes, a set for each group | register, heartbeat, deregister, list, evict | placement |
| Placement (`placement.py`), GPUs (`config/gpu*.py`) | none; a cached probe, held slots | four policies; plan, reserve, release | crew runs |
| Crew runs (`webgui/routes/crews.py`, `tasks.py`, `agents/backend`) | crew and task records, environment, gauge | run, update, finalize, call back, cancel, retry | backend, GPUs, Redis |
| Model calls (`config/llm_integration.py`, `agnos_token_budget.py`, `model_manager.py`) | breakers, reservations, providers | call, reserve, settle, fall back | providers |
| Definitions (`webgui/routes/definitions.py`, `agents/versioning.py`, `packaging.py`, `factory.py`) | files, versions, listing's cache, factory's cache | create, update, delete, roll back, prune, export, import, list | crew runs |
| Sessions (`webgui/auth/token_manager.py`, `routes/auth.py`) | refresh token, blacklist, attempts | login, refresh, logout, verify | every route |
| API keys (`webgui/auth/api_keys.py`) | three entries of a key: by hash, by id, the index | create, list, revoke | every route |
| Events (`webgui/realtime.py`) | sockets, subscriptions, stream | connect, subscribe, publish, replay, prune | crew runs, agents |
| Dashboard (`webgui/agent_monitor.py`, `dashboard.py`) | cached statuses | read status, list sessions | Redis |
| Alerts (`shared/alerts.py`, health in `webgui/app.py`) | last health, cooldowns, recent alerts | poll, compare, fire, evict | webhooks, mail |
| Registration (`config/agnos_agent_registration.py`, `shared/agnos_rpc_client.py`, `yeoman_mcp_server.py`) | what is registered elsewhere | register, deregister, heartbeat, at start, stop and request | the daemon |
| Reports (`webgui/exports.py`, `scheduled_reports.py`) | files, jobs | gather, summarise, write, schedule, deliver | sessions' results |
| Agents at work (`agents/*/`, `shared/resilience.py`) | the loop, workers, keys of results | take a task, mark, store, notify, stop | Celery, Redis |
| Audit of a site (`qa_analyst.py`, `qa_security_compliance.py`) | findings | six checks, two scores, remedies, level | a site |
| Test rounds (`junior_qa.py`, `qa_analyst.py`) | suites, stored results | build, run, store, collect, count | Redis |
| Test tools (the same files) | executions, quarantine | detect flaky tests, profile, find gaps, predict, judge readiness | each other's results |

What is hard there: a read, an `await` and a write without a lock (documents, records,
tokens, registrations); a process that stops between two writes that belong together;
Redis, a provider or a site that fails in the middle; caches filled while what they copy
changes; messages published to nobody; a SCAN that meets keys coming and going; tools
whose thresholds must agree since one reads what another said.

What makes each part correct: completed means that every agent was (crews), and a record
that is final stays true (runs); what is alive is listed (registry); plans fit or say so
(placement); reservations come back (calls); a cache is no older than it says
(definitions, dashboard); an access token that was logged out
stays so (sessions); a key that somebody holds can be revoked (keys);
nobody misses an event he can still be given (events); a change is told (alerts); both
sides agree on what is registered; no task is lost, nothing announced before it is
there (agents); a site's silence costs it (audits); counts are of what happened (rounds);
worse is not judged better (tools).

## 2. The modules

| Module | Models | Composed with |
| --- | --- | --- |
| `LedgerReaders` | how a finished crew's arena leaves the ledger and is reused | proofs in `LedgerReadersProofs` |
| `CrewLedger` | one crew from submission to stored outcome, with the engine, submitter, pollers and collector | store writes as single steps, refined by `CrewStore`; proofs in `CrewLedgerProofs` |
| `CrewStore` | the four tables statement by statement, stops and the start's sweep | implements `CrewPromise`; proofs in `CrewStoreProofs` |
| `CrewPromise` | the abstract promise about a crew on disk | - |
| `TenantLimit` | the slot table: buckets, places, Retry-After | proofs in `TenantLimitProofs` |
| `AuditTrail` | the chain, the verdict, the ring, starts, crashes and alterations | proofs in `AuditTrailProofs` |
| `Refusals` | the window, its budget and its summaries, up to a graceful stop | proofs in `RefusalsProofs` |
| `FleetCrew` | a crew over several nodes: coordinators, relay, shared document, crashes | `MCPortCrews`; proofs in `PortCrewsProofs` |
| `FleetRegistry` | nodes that register, beat, stop and are evicted | `MCPortCrews`; proofs in `PortCrewsProofs` |
| `FleetPlacement`, `GpuSchedule` | the four policies; the probe, the plan and the held slots | `MCPortCrews`; proofs in `PortCrewsProofs` |
| `PortCrewRun` | runs of crews, their records, GPUs, callbacks, cancels, retries, Redis failing | `MCPortCrews`; proofs in `PortCrewsProofs` |
| `LlmCall`, `ModelManager` | reservations and breakers; providers and their fallbacks | `MCPortSite`; proofs in `PortSiteProofs` |
| `PortDefinitions` | definitions as files, versions, packages, three caches, a stop in mid write | `MCPortSite`; proofs in `PortSiteProofs` |
| `PortTokens`, `PortAccounts` | tokens and login; API keys | `MCPortSite`; proofs in `PortSiteProofs` |
| `Realtime` | events to clients | `MCPortSite`; proofs in `PortSiteProofs` |
| `Monitor`, `AgentRegistration` | the cached status and the listings; what is registered elsewhere | `MCPortSite`; proofs in `PortSiteProofs` |
| `Alerts` | what operators are told | `MCPortCrews`; proofs in `PortCrewsProofs` |
| `PortReports` | what a summary gathers and says, and how reports are delivered | `MCPortCrews`; proofs in `PortCrewsProofs` |
| `AgentWorker` | an agent's process: loop, workers, tasks, crashes | `MCPortSite`; proofs in `PortSiteProofs` |
| `SecurityAudit` | two agents' audits of one site | `MCPortCrews`; proofs in `PortCrewsProofs` |
| `TestRounds` | suites, runs and their reports | `MCPortSite`; proofs in `PortSiteProofs` |
| `FlakyTests`, `ReleaseTools` | the test tools as functions of what they read | `MCPortSite` |
| `MC...` | the instances | extend the first seven, instance the others |

How state and actions correspond:

* **LedgerReaders.** A crew is named by its arena, so "given back and reused" is the
  same value turning up again. `place` is where the crew is (map, evicted chain, limbo
  new or old, chain being given back). `Publish` is `record_in`'s locked part with the
  eviction in it; `LimboPass` is `_agnostic_ledger_limbo_pass` under the readers' lock;
  `ReadBegin`/`ReadEnd` count a bracket in its generation; `held` is what a thread has
  looked up.
* **CrewLedger.** One program counter per thread; every lock section and every call into
  the engine or the store is one step, so any other thread may come in between.
  `LatchUnwritten`, `DrainBegin/DrainEnd`, `RetireClaim`, `FlushBegin .. FlushEnd`,
  `MarkInflight` and `HoldAdmission` are the functions of those names. The engine is
  `reg` (its registry), `runner`, `flag` (cancel) and the channel `waiting`/`closed`.
* **CrewStore.** `call` is the holder of the store's lock and the statement it is at;
  `Crash` may come between any two and clears the memory; `Sweep` is
  `agnostic_crews_interrupt_inflight`, one row at a time, before `Serve`.
* **TenantLimit.** `Admit`, `AdmitUncounted`, `RefuseCrews`, `RefuseRate` are the four
  outcomes of `agnostic_tenant_admit`, which reads the clock before it takes the lock:
  `at \in Readings` is that reading. Divisions truncate as the code's do.
* **AuditTrail.** `Link` is `chain_append`, `Persist`/`PersistFails` the store write, in
  one lock section; a `Stop` may take the process between them. `Judged` is the walk of
  `_agnostic_audit_judge_locked`. `Alter` is anybody else writing the file.
* **Modules of the port.** Variables are the fields of a process and the keys of Redis or
  the files; a program counter per task, handler or node says which `await` it is at, and
  an action is the code up to the next one, so reads and writes of one handler are
  separate steps exactly where the code awaits between them. Handlers without an `await`
  are one action. Commands of one `gather` come in any order. A command that fails goes to
  the handler's `except`. Scores, rates and thresholds are integers in the unit the
  module's header names; a result of a model, a browser or a site is a choice. Where a
  tool is a pure function (placement, plans, scores, gaps), it is an operator, and the
  behaviours apply it to every input of a small set, twice where two answers are compared.
* **AgentWorker.** A run, of the listener or of one of several worker processes, is a
  record with the step it is at. Each GET of `_run_comprehensive_report` is a step
  (`Get`), and what it answered stays with the run (`Moved`) while the crew's kickoff goes
  on, until the SET (`StoreVerdict`); so another worker's assessment may be stored in
  between.
* **PortReports.** `Collect` is one command of `_collect_session_data`, in its order;
  `CollectFails` is its `except`, which swallows the error; `Answer` makes the summary of
  what was read and writes the file. What an agent keeps deeper than where the exporter
  looks is not among the results that `AgentWrites` lists.
* **Monitor.** `Scan` names each key that stayed once or twice and others perhaps, `Get`
  adds an entry for each time a key was named, `ListFails` answers what was read so far,
  and `InfoFails` zeros; `Count` counts the entries of the list.
* **PortTokens.** Both kinds of token are bearers: `Verified` is `verify_token` and
  `get_current_user`, which ask for no type. `Logout` takes any bearer, `Blacklist` writes
  its key, `Forget` deletes the stored refresh token, each a command that may be lost.
* **PortAccounts.** `CreateHash`, `CreateId`, `CreateIndex` and the three `Revoke...` are
  the commands of `create_api_key` and `revoke_api_key`; each may fail, with or without
  effect.
* **Realtime.** `BufferFails` and `HandleUnbuffered` are an `xadd` that fails at the
  publisher and at the listener, an empty replay in `SubscribeToSession` an `xrange` that
  does.
* **SecurityAudit.** A check is one step of one agent; `deaf` names those during which the
  site was away. `Check` is every tool's, with what its `except` makes of silence.
* **TestRounds.** A run's steps are its tests, `StoreResult` and `CollectAgentResults` are
  single commands, and a SCAN may name a key twice. Metrics of an earlier report are never
  found (section 5), so there is no trend to model.
* **Refusals.** `Refuse` counts and reads the clock, `Note` is the locked part,
  `WriteHeld` and `WriteOwn` the audit writes after it. `StopFlush` and `Exit` are the
  end of `agnostic_serve`.

## 3. What TLC checks

| Run | Bounds | Shows |
| --- | --- | --- |
| `ledger_readers` | 1 worker, collector, 4 arenas, 2 rings, cap 1 | `NoUseAfterRelease`, `RingOwnership`, `EvictedGivenBack` |
| `crew_ledger` | submitter, 1 poller, collector; eviction, the engine's error arm, and a failed write or an eviction by the engine allowed | `TypeOK`, `PlaceBackOnce`, `FeedWhole`, `DurableTrue`, `NothingForgotten`, `CancelTruthful`, `NeverBack` |
| `crew_ledger_live` | 1 poller, no eviction, no failure | `FinishedStored` |
| `crew_store` | 2 crews of 1 task, 2 stops, any statement may fail | `PromiseKept`: `CrewStore` implements `CrewPromise`; `InterruptedHonest` |
| `crew_store_clean` | the same, statements succeed | `ListingRepairable`, `InflightEnds` |
| `tenant_limit` | 2 tenants on 1 slot, rate 2, cap 2, minute of 3 units, readings 1 unit late | `PlacesExact`, `CapHeld`, `RateHeld`, `RetryFinds` |
| `tenant_limit_pressed` | minute of 6 units | finding: `RefillAccrues` fails |
| `audit_trail` | 2 threads, ring of 2, 5 entries, 3 starts, 2 alterations | `HonestTrail`, `AlterationFound`, `RingTrue` |
| `refusals` | 2 workers, collector, stop; budget 1, window 2, 5 refusals, 1 clock set-back | `RefusalsTold`, `BudgetShared`, `HeldTold` |
| `port_crews` | fleet crews: 2 nodes, 2 agents, and 1 agent that checkpoints; registry: 1 node, 6 intervals; placement: 3 agents on 3 nodes of 9 kinds; GPUs: 2 devices, 2 agents; runs: 2 crews of 1 agent, and 1 of 2 agents with 2 failing commands; alerts, reports and audits as below | `CrewHonest`, `NodesListed`, `PlacementSound`, `RunsSettled`, `ReportsTrue`, `AuditAgrees` |
| `port_site` | the other 12 modules of the port, as below | `CallsSettled`, `DefinitionsKept`, `SessionsKept`, `AccountsKept`, `EventsReach`, `DashboardTrue`, `WorkKept`, `ToolsAgree`, `RoundsCounted` |
| `port_definitions_pruned` | versions 8 and 9 saved, room for 2 | finding: `OldestPruned` fails |

For every property there is a plausible bug (a definition named `...Blindly`, `...Early`,
`...Late` and the like, beside the one it would replace) under which it fails.
`DurableTrue`, `NothingForgotten` and `RefusalsTold`, and each property of the port's runs,
are conjunctions of named parts; the parts are stated and commented in their modules.

Why the bounds are enough for what they ask. *ledger_readers*: use after release needs
one reader across a generation turn, so two threads, and limbo's two lists plus a crew
in the map and one in the making, so four arenas; a cap of one makes every submission
evict. *crew_ledger*: every lock section of every role interleaves; the protocol of one
entry never looks at another entry, so one crew is enough, and two refreshers (poller
and collector) beside the submitter are the least that can pass stale readings to each
other; one failed write is enough to lose what can be lost of one crew, and the
properties that speak of the disk say what they promise when none failed. The liveness
run has writes that succeed: a failed write that is never tried again ends it.
*crew_store*: crews share no row; two of them show the sweep taking a mixture; two stops
show a stop during the sweep that the first stop caused. *tenant_limit*: a second tenant
on one slot forces reuse; three held crews exceed a cap of two; the bucket's whole range
fits in the run. *audit_trail*: an alteration at the front, in the middle and at the end,
one after another, with a restart break beside it. *refusals*: one refusal over the
budget and one stale reader in the same window.

*port_crews* and *port_site* check components that share no state, one in each behaviour:
`part` names it and the rest stand still, so a run is the sum of its parts and not their
product. Fleet crews need two nodes for messages that cross and two agents for one that
ends while the other is handed off; one agent that checkpoints is separate since the two
together add no interference with each other's keys. A registry's node is listed or not by
itself, so one node with an evictor that reads it, twice its time to live long, is enough.
Placement's nodes cover each group, readiness, tie and GPU count. Two runs are the least
that share an environment variable, a GPU and the gauge. In both runs, races between
handlers have two of each (callers, requests, watchers, administrators, connections,
Celery's workers); one fault of each kind may come at any step (a provider that fails, a
lost command, a restart in mid write, a crash of a worker, an outage of the site, a lost
answer of the daemon; two for the keys, where the undoing of the first may fail as well,
and any number of buffered events and of reads of a report), since a second adds to what
is lost but nothing to what may be left half done; times are the cache's or the cooldown's
length in units and one or two more. Reports: one session, the analyst's assessment with a
severe finding and without, the one result that may list any where a report looks, one
request, two jobs, two channels and two attempts on each; of the two names of types in the
run one is a type of `exports.py`, the other only of the request's model. Definitions: one
definition and one preset, two contents, two writes and a read. Alerts: one agent, three
happenings, a table of two cooldowns, so that it must evict. Audits: sites with each
finding and without, the whole of what a score adds up; tools: inputs on both sides of
each threshold they share.

State constraints are all in guards and named: `MaxEvents`, `MaxCrashes`, `MaxNow`,
`MaxLag`, `MaxHeld`, `MaxSpent`, `MaxHashes`, `MaxOpens`, `MaxAltered`, `MaxClock`,
`MaxRefusals`, `MaxBack`; in the port's modules the constants `Max...` and `LastNow`
that their headers describe. Deadlock checking is off where the run ends in a state the
system really stops in (the last stop, the last crew) or where those bounds are reached.

### Fairness

`FairSpec` assumes what the scheduler and the loops give. A thread inside a request or a
sweep goes on (weak fairness of its steps: no step waits on anything but a lock held for
a few instructions). The engine runs each crew to its end. The collector's loop does not
end before the server stops; `FlushBegin` has strong fairness because a sweep writes at
least the first entry it owes, so an entry's turn comes again and again. The start's
sweep goes through its rows. Time passes (`Tick`). Nothing is assumed of clients: no
poll, cancel or submission is fair, and `EvictedGivenBack` says "as long as evictions
keep happening" because only an eviction looks at limbo.

The properties of the port are invariants: its handlers wait for services without a
bound the code sets, so nothing makes a run end but a service that answers, and what a
liveness property would say of one is that assumption again. Where "in the end" matters
(`NothingMissed`, `RegistrationAgreed`, `SessionSurvives`) the invariant speaks of the
states in which nothing is under way any more.

## 4. What is proved

`LedgerReadersProofs`, for every number of workers, arenas and rings, and every
capacity, from `LedgerBounds` and `LedgerActors` (finitely many threads and arenas; null
values are not values):

* `TypeCorrect`: `Spec => []TypeOK`, with no reader counter ever below zero.
* `ReadersSafe`: `Spec => []NoUseAfterRelease`. The invariant is not inductive: whether
  a crew may be given back depends on counters, and the crew's holders on brackets.
  `ReadersInv` adds that each counter is the number of open brackets of its generation
  (`CountInv`), that a crew on a thread's stack belongs to a thread in a bracket
  (`CarrierInv`), and that whoever holds a crew of the *old* list is in the generation
  behind (`HoldInv`). A turn happens when nobody is behind; by `CountInv` nobody then
  holds anything old, so what is given back is held by no one, and what becomes old is
  held only by brackets of the generation that has just become the one behind.
* `RingsExclusive`: `Spec => []RingOwnership`, inductive together with the types.

`CrewStoreProofs`, for every set of crews and tasks, any number of stops and any failing
statements (`StoreOptions`):

* `PromiseRefined`: `Spec => PromiseKept`, the tables implement `CrewPromise`. Each
  statement is mapped to an action of the promise or a stutter: the outcome's insert is
  `Finish` or, from the sweep, `Interrupt`; the in-flight row's is `Accept`; a partial
  answer's is `Keep`; the second write of a cancelled crew is `LateResults`; the listing,
  the drops and a stop are stutters. Two of these need the past, so `StoreInv` adds to the
  types: what is owed in memory says how the crew ended (`LifeInv`), a process that has
  not served has no crew of its own (`MountInv`), the statement in hand belongs to a crew
  that ended and carries the document its first step read (`CallInv`), results not yet on
  disk find an outcome without any (`LateInv`), and no answer is kept beside a row that is
  not there (`PartialsInv`).
* `StoreTypes`, `SweepHonest`: `TypeOK` and `InterruptedHonest`, conjuncts of `StoreInv`.
* `ListingMended`: `~CanFail => (Spec => []ListingRepairable)`, as the run checks it,
  because a crew's row ends only at a statement that comes after the listing's
  (`ListInv`). The hypothesis is needed: where a statement may fail, a repair that fails
  ends the row all the same (section 5).

`CrewLedgerProofs`, for every set of pollers, with or without failing writes, evictions and
an engine that errs or forgets (`LedgerThreads`, `LedgerOptions`): all seven properties the
run `crew_ledger` checks (`LedgerTypes`, `PlaceComesBackOnce`, `FeedReadToItsEnd`,
`StoreTrue`, `NothingIsForgotten`, `CancelTellsTruth`, and the action property
`NothingGoesBack`). None is inductive, and they need one another: what the store has is true
because the document was, the document because the status latched was, and the status
because the reading was. `LedgerInv` follows that chain: what a reading in hand still tells
of an engine that has gone on meanwhile (`ReadingInv`), what a success or failure in the
entry says of the engine's results (`EndedInv`), that one thread at most retires the crew
and the registry forgets only what the entry has (`ClaimInv`), that `WRITING` has one holder
who claimed all that is owed (`WriterInv`), how far a document may be behind its entry
(`DocInv`), and that an ended crew has its outcome stored, owed or failed (`OutcomeInv`).
`CancelInv` says what a canceller knows at each of its steps, `FeedInv` that a drain which
read the close came after the last event.

`TenantLimitProofs`, for every number of tenants and slots and any rates, caps and clock
(`TenantLimits`, `TenantClock`):

* `PlacesCounted`, `CapRespected`, `TenantTypes`: `PlacesExact`, `CapHeld` and `TypeOK`
  are inductive together. A slot is handed over only when it has no place taken, so by
  `PlacesExact` a tenant without one has nothing running and its first place in a new
  slot is its first crew; the cap, which the code asks of the slot, is then one on crews.
  A tenant once admitted while the table was full is outside both: the code does not
  count it, which its comment says.
* `RateRespected`: `Spec => []RateHeld`, a bound for every stretch of the past. The bucket
  knows nothing of the past, so `SpentCovered` says it for each spending: the tokens taken
  since, less what was refunded, are covered by what the bucket lacks of its cap and by the
  refill of the time its clock went, rounding, set-back clock and lag included. A refill
  adds to both sides, a taking makes `RateFor` of the stretch that ends with it, a refund or
  a new slot is bounded by the cap. The arithmetic is in lemmas over named products.
* `RetryHonoured`: `Spec => RetryFinds`, an action property, from `DueOk`: what the bucket
  lacks of a token comes back by the time the first refusal named.

`AuditTrailProofs`, for any number of threads, entries, starts and alterations and any size
of the ring (`AuditBounds`):

* `TrailHonest`: `Spec => []HonestTrail`. The verdict is formed from the file alone, so
  `TrailInv` says what the file is: each entry names the one before it, or nothing where a
  start could not read the trail (`ChainInv`); and what the next entry will name is the
  last stored hash (`HeadInv`), also while a thread has an entry in hand (`HandInv`) and
  after a write that failed. What `Judged` finds in such a file is a lemma.
* `AlterationsFound`: `Spec => AlterationFound`, an action property. A hash is given out
  once (`HashesInv`), what is in an altered file and still matches its hash was in the file
  before (`Among`), and an intact verdict means a chain without a break (`LeftInv`). That
  such a file is a beginning of the one before (`ChainBegins`) is an induction over its
  length, done as a proof that there is no first entry that differs: that every non-empty
  set of numbers has a least one (`Least`) follows from the library's
  `NatLessThanWellFounded`, with no theorem that takes an operator.
* `NewestServed`: `Spec => []RingTrue`. `RingInv` is the property for the indexes the ring
  may hold; two indexes less than a ring apart never share a place (`PlacesApart`).

`RefusalsProofs`, for every finite set of workers, every budget and window (`RefusalBounds`,
`RefusalActors`):

* `RefusalsAllTold`: `Spec => []RefusalsTold`. `FactKept` is a sum over everybody's hands,
  so what is in hand is counted as the size of a set of pairs and the lemmas say how each
  step changes it; `HandsInv` says whose hands are empty when a stop has flushed.
* `BudgetOverrunBounded`: `Spec => []BudgetShared`. A stale reading buys a worker one
  window of its own, once. `BudgetInv` counts those who still have one (`Late`): the
  entries since a window ran its length fit into a budget for each worker, less one for
  each of them, less what is left of the window that is open.
* `RefusalTypes`: `Spec => []TypeOK`.

`PortCrewsProofs`, about `MCPortCrews`. What one instance does is stated for whichever
team or set of crews it is given, so that each lemma serves both uses of it; `PartsApart`
says that a step of one part leaves the others' variables alone.

* `CrewStaysHonest`: `Spec => []CrewHonest`, for any nodes and agents, one of the nodes
  first (`CrewPlaced`). Nobody locks the document, so it may be behind, and be written
  back older than it was. What holds is about every *copy* of it, in whichever hands: it
  says nothing of an agent that is not so, nor anything the hash denies, and none says
  completed before all agents are (`DocTrue`). `NodeSound` adds where such a copy may come
  from: what a listener is about to report is done, what a coordinator collected was, and
  it expects every agent; `Begun` that nobody works before the first coordinator has
  handed out.
* `NodesStayListed`: `Spec => []NodesListed`, for any nodes and every time to live above
  one interval (`NodeTimes`; `HEARTBEAT_INTERVAL` is 10 and `HEARTBEAT_TTL` 30,
  `node.py:38`). The evictor reads the names, then each record, then judges, then removes,
  and the node may beat in between. `InventoryInv` bounds how old a record of a punctual
  node may be at each of its steps (`Fresh`), and says that an eviction under way has read
  no heartbeat of it that will be too old, and has nothing of it to remove (`Spared`).
* `RunsSettle`: `Spec => []RunsSettled`, for every finite set of crews, any number of
  failing commands and every team whose agents run in order (`RunTeams`, `RunCrews`).
  `RunInv` says for each step of a run what its record may say and what it is about to
  write (`WantKnown`, `CompletedSound`, `EndWritten`), which agents have an outcome
  (`AgentsInOrder`), and that the gauge covers the runs between their start and the step
  that lowers it (`GaugeInv`).
* `PlacementHolds`: `Spec => []PlacementSound`, for every finite fleet, any team, and
  every host, crew, request and budget (`FleetPlaces`, `GpuHost`). Placement and the GPUs'
  plan go through the agents in order, each choice reading what those before have left, so
  `FleetInv` and `GpusInv` speak of the answer and the lemmas of what holds after k
  agents: `PlacedWell`, and `BalanceKept` for the policy that balances; `ServedWell` that
  what the agents declare is no more than was taken of each device and of the budget, and
  that whoever was turned away still would be (`StillDenied`), so that nobody who needs a
  GPU less gets one later by asking for as much (`GivenLess`). `TurnsTaken` says that
  every agent has one turn, in the order of need. Such a pass is a recursive function:
  `StepsTaken` says that its values exist, and what holds after k steps is shown by there
  being no first k after which it does not (`CountedUp`, from `NatLessThanWellFounded`).
* `ReportsHold`: `Spec => []ReportsTrue`, for any cooldown no longer than a key is kept,
  any table, channels and attempts, and whatever the agents left of a session
  (`SiteAlerts`, `SiteReports`, `SiteResults`). `PollInv` says that what a poll has to
  tell is told or left to tell, and that the next is compared to it; `CooldownInv` that a
  key which is gone is older than the cooldown or was pushed out; `DeliveryInv` that the
  channels are told one after the other, with as many refusals as attempts. `GatherInv` is
  about a request that reads while agents write: what has been severe under its key since
  the request began is read as such at every place already passed, and what was read as
  severe was so at some time; `FilesInv` is what then stands in a file (`Tells`).
* `AuditHolds`: `Spec => []AuditAgrees`, for any sites (`SiteAnswers`). `FoundInv`: as
  long as there was no outage, what an agent has found deducts what the site owes to the
  checks it has made, so that two agents with other checks in another order come to sums
  that differ by the headers; a first request of the compliance agent that failed owes as
  much as every header, and a connection that failed a tenth, of either agent.
  `JudgedInv`: what a tool judged is about what was found.

`PortSiteProofs`, about ten of the parts of `MCPortSite` (`SiteTimes`, `SiteCalls`,
`SiteNames`, `SiteConns`, `SiteCache`, `SiteDefinitions`, `SiteRounds`, `SiteAgents`: a
blacklist key outlives its token, some failures open a breaker, no provider is called
"failed", sessions and tasks are finitely many, there is something to define, none of it
half a file, suites and results are lists and what a result counts are numbers, the server
is no administrator), each with an invariant of its own:

* `SessionsHold`: `Spec => []SessionsKept`. Whoever has deleted the stored token is about
  to store one (`SessionInv`); a request that logs out holds the bearer it blacklists, and
  the key of an access token outlives it from that command on (`LogoutInv`; of a refresh
  token it does not, and the theorem says nothing of those as bearers); a request that
  created the count of attempts and has not let its caller through yet is counted with
  those let through (`AttemptInv`).
* `AccountsHold`: `Spec => []AccountsKept`. A key's three entries are written before
  anybody has it and deleted in an order that ends its use first, so that one which works
  and is held, or was listed, still has the entry a revocation looks for, whichever
  commands failed (`KeySound`).
* `EventsArrive`: `Spec => []EventsReach`. `Reached` says where an event is that the
  client has yet to receive: queued, in the listener's hand, among the entries to replay;
  or, while no connection is subscribed, at an index the next one asks for. That the
  client reads ids in order is needed for the latter: while a replay is under way the
  listener's entry is younger than all of it (`ListenerSound`).
* `CallsSettle`: `Spec => []CallsSettled`. `CallInv` counts the calls that have a
  settlement to make, and the budget's breaker, which turns settlements away, fails only
  where an answer was lost. `Served` says that a completion asked the first provider and
  those of its list before the place it has come to, nobody twice.
* `WorkHolds`: `Spec => []WorkKept`. Whoever is about to notify has stored (`RunInv`),
  what an assessment found stays under its key but for the next one's mark (`RecordInv`),
  and so a report under way has in hand, of the moment it read, a high risk that was
  stored or that mark (`Readable`).
* `DashboardHolds`: `Spec => []DashboardTrue`, for any sessions, agents, administrators,
  cache times and numbers of calls that fail. `DashInv` bounds how long ago a status in a
  reader's hand or in the cache was true, by the time the reading took and the time the
  entry has left, and says which sessions a listing under way has still to come to
  (`PassInv`), which naming of its key an entry is of (`EntryInv`), and what the counts
  count (`CountInv`). `RegistrationInv` is about the calls in flight: each is one its
  sender is at (`OrderInv`); an id is held under one agent alone (`IdsInv`), so that a
  deletion meets no other's; the two sides differ only by what an answer under way tells
  (`AgentAgreed`, `RestAgreed`), unless registering crossed deregistering, an answer was
  lost or unreadable, or daimon restarted, as the property excuses; and of what the server
  has to undo as it stops, whatever is still there has a call on its way (`StopInv`,
  `YeomanInv`).
* `DefinitionsHold`: `Spec => []DefinitionsKept`, for any definitions, presets, contents
  and versions there are at first. A handler's writes are a list of steps: each file that
  it opens it fills next, and a version goes first, to a file that was not there
  (`JobInv`), so that half a file has its other half under way unless a stop cut it off
  (`HalfInv`), and what is about to be replaced is saved or will be (`RollbackInv`).
  `ListingInv` bounds when an item in the hand of a reader or in the cache was last as on
  disk; that the version a save picks is a new one is that there is a last one.
* `RoundsHold`: `Spec => []RoundsCounted`, for any suites, results and reporters, and any
  number of runs and reports. The tests a run has passed, failed and left are those of its
  types (`TestRunInv`), and its result says so once it ended (`EndedInv`); Redis has, of
  each scenario, the last results stored (`Latest`, `StoredInv`); what a reporter has
  gathered counts, of each run that was the last of its scenario when the report began and
  still is, every failure once its key was named, and no more than those where nothing was
  stored and no key named twice (`Gathered`); and what a report said has such a gathering
  behind it (`SaidInv`). The sums are recursive functions, and two of them are compared
  element by element (`TotalStep`). The theorem is about `Rounds(who, cap)`, so that the
  lemmas serve both uses of `TestRounds`.

Only model-checked, of the invariants: `ToolsAgree`, about what the test tools make of
their input by selections and thresholds; the parts of it that are no induction over data
are left for later (section 6). Liveness (`EvictedGivenBack`, `FinishedStored`,
`InflightEnds`, `HeldTold`) is out of the prover's reach, as is whatever else speaks of
`ENABLED`.

## 5. What was found

Two disagreements of the code with its own words are runs TLC refutes (`PROJECT.json`,
`findings`):

* `tenant_limit_pressed`: a tenant that asks more often than its bucket credits a
  thousandth of a token never gets one, and neither do the clients that wait as told.
* `port_definitions_pruned`: versions are sorted as text to be pruned, so v10 goes before
  v8 and v9, and the next save takes its number again.

The others were met while the models were written and checked, and are what the
properties state as exceptions. In the server:

* a cancelled crew can be evicted between its closed channel and its last results, which
  are then written to an entry nobody finds (`ledger.cyr`: "The bits stay set until the
  write ends, so the entry stays held");
* a crew that ends before its in-flight row is written, and a stop before its listing
  row: stored, never listed, never repaired (`crewstore.cyr`: "the in-flight row stays,
  which is what the next start repairs the listing from");
* a refusal that waited for the lock reads as a clock that moved back, closes the window
  that has just begun and starts its budget again (`refusal.cyr`: "a refusal costs at most
  BURST + 1 writes a minute"); `BudgetShared` bounds it: one budget for each worker;
* an entry becomes evictable after a *failed* durable write; the newest 768 entries do
  not all stay when the oldest are still running; a poll that reads events and then the
  status can miss the closing events; answers of a crew can be left in
  `agnostic_crew_partial` with nothing that refers to them; answers drained before the
  in-flight row is there are not kept; the trail's start takes an entry count that may
  fail by itself; nobody waits for the collector at a stop; a failed allocation after the
  engine has started a crew leaks its tenant's place.

In the port:

* *Fleet.* `state.py` speaks of optimistic locking; the document is read and written
  without it. A node that beats after its eviction is alive and in no listing. Messages
  are told apart by their number alone, though each node has its own counter.
* *Runs.* The environment that names one agent's GPU is seen by another crew's agents; a
  crew that could not be placed may be recorded completed over its failure; the backend is
  asked to cancel an id it does not know; retry asks for parameters nobody stored.
* *Model calls.* A call that is cancelled keeps its reservation; half open, the breaker
  lets every caller through; a models file that cannot be read is replaced by defaults.
* *Definitions.* A rollback leaves the listing's cache alone; the factory's is never
  emptied; a stop in mid write leaves half a file; an export may read one.
* *Sessions and accounts.* Two refreshes of one token both pass; one that races a logout
  leaves a token; a stop between the count of attempts and its expiry blocks an address
  for good. No type of token is asked for where one is verified (`token_manager.py:72-80`,
  `dependencies.py:214`), so the refresh token passes as a bearer for its seven days, also
  after the logout of its session, and once blacklisted itself again an hour later; YEOMAN's
  bearers never meet the blacklist (`dependencies.py:196-209`). `LoggedOutForGood` is about
  access tokens and the exchange of refresh tokens only. A new user cannot be saved: the
  record's permissions are a set, which `json.dumps` refuses before any command
  (`oauth_provider.py:344-352`, `models.py:50`). A key's creation that fails at its second
  write leaves a hash that works and that no list and no revocation finds; nobody was given
  the key.
* *Events.* Each event is buffered twice; a limited replay leaves a gap, a replay that Redis
  refuses is an empty one, and an event the listener cannot buffer is sent without an id and
  never replayed.
* *Dashboard.* A key that SCAN names twice is listed and counted twice
  (`dashboard.py:121-126, 270-271`); a command that fails leaves the sessions read so far as
  the whole list, or zeros.
* *Alerts.* A change within the cooldown is never told later, so "recovered" may be the
  last word of what is down; a failed database is told with Redis and RabbitMQ as well;
  the alert that Redis is down cannot reach the list, which is in Redis.
* *Registration.* A register that crosses a deregister leaves both sides apart; an answer
  that is not JSON ends the start-up task, and with it the heartbeats; preset agents have
  none; a restart of the daemon is never noticed; the MCP server's entry stays.
* *Reports.* The metadata is never saved, so no report can be downloaded
  (`docs/api/webgui.md`); the standing jobs' types are refused, and of those a request may
  name only the executive summary is one. The audit is kept under `security_assessment`
  (`qa_security_compliance.py:1633-1647`), where no report looks for vulnerabilities
  (`exports.py:297-313, 483-504`), so that what only it found is told by none; nobody
  writes the verification and the test plan that a summary looks for, nor a score above 1
  where it asks for 80, so that it always finds significant issues, limited coverage and,
  where there was an assessment, security concerns. A read of Redis that fails is logged,
  and the summary made without its metrics fails in its turn, which `SevereMentioned` asks
  it to say.
* *Agents.* `in_progress` stays after a failure; the analyst's mark is the key of its
  result; tasks published while nobody listens are gone; a handler that blocks the loop
  keeps it from a signal; a fraction is compared with 10 and 20. An assessment that
  another worker stores after a comprehensive report read its key comes too late for it: a
  GO may then stand beside a high risk (`qa_analyst.py:2362-2420`); `HighRiskStops` is
  about what was stored before.
* *Audits.* Of a site that does not answer, the analyst's checks find but the failed
  connection and report 90 and a low risk (`qa_analyst.py:380-458`), where the compliance
  agent finds a high one at least; `SilenceCounted` says what each makes of it.
* *Tools.* The audit's total adds 60 whatever was found; one finding is compliant in one
  part and a violation in another; the readiness reads a quality nobody writes; a passing
  regression run raises before it is stored; a rising density of defects is an
  improvement; a test that never failed makes the flaky-test tool raise. The metrics of
  the report before are looked up by text among the bytes that Redis answers
  (`environment.py:97-107`, `qa_analyst.py:236-242`), so that the trend is always that of
  a first session; and a result whose key SCAN names twice is counted twice. The coverage
  summary lists as gaps of high priority those called high (`qa_analyst.py:955-957`), the
  gap analysis those called critical as well (1160-1162); only the latter is modelled.

## 6. What is left out

Not modelled, with the reasons, in `PROJECT.json` under `components`. Of the server:
stateless parsing, validation and rendering; read-only tables; definitions, plugin data,
settings, users, keys and tenants, each of whose operations is whole under the store's
lock, so that no interleaving is left to check; the idempotency keys of a submission,
whose mutex makes a keyed submission one step; vendored libraries but for what they
answer. Of the port: the routes that dispatch to operations modelled here, pages, listings
and searches, clients that send one request and log its failure, generated test data, and
the tools of the senior and the performance agent, whose answers are choices; users who
sign in elsewhere, none of whom is ever kept (section 5), tenants' keys and YEOMAN's
bearers; the trend, which compares nothing; and the content of the reports that cannot be
asked for of a session. Within the models: allocation failure, texts and their cuts,
logging, the HTTP layer, and in the port the text of prompts, pages and reports.

In the order of their worth, what would come next:

1. `Submission`: idempotency key, place and entry of one submission of the server through
   every failure arm, an allocation that fails among them; the sum of a tenant's places.
2. The store's re-entrant lock and the claim of the file, implementing an abstract lock;
   users with the last super administrator, above it.
3. The listing's pages (a cursor over a listing that grows) and the event ring's cursor.
4. Proofs of what remains: the test tools' thresholds.
