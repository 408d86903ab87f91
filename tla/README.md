# Project0: a TLA+ verification of the game's services and tools

Project0 is a Godot 4 multiplayer game. One dedicated, single-threaded server
process owns the world; it keeps what must survive in SQLite and answers
clients over an unreliable, reordering, disconnecting network. Around it are
small Python services (an operator control plane, enrollment, a dashboard) and
tools that run it in containers, package it and validate it. This directory
models the parts whose state is shared between several callers, threads or
processes, survives restarts or has to tolerate repeated and late requests,
checks the models with TLC and proves theorems about them with TLAPS.

Paths below are relative to `src/`. A definition keeps the name of the code it
stands for (`_commit_mutation` is `CommitMutation`, a table is a variable).
A definition named `X_Fault` (`Prepare_FailsOpen`, `RetiredRow_Deleted`)
is `X` with one plausible bug. Nothing uses it: `PROJECT.json` lists it as the
mutant under which a property fails, so each property is known to notice
something.

## 1. Inventory

State is "memory" when it is lost with the process, "SQLite" or "files" when it
survives.

| Part | State | Operations | Talks to |
| --- | --- | --- | --- |
| SQLite store seam (`server/sqlite_store.gd`) | connection, `_in_transaction`, `_transaction_query_failed`, pending and reported Canon write counters (memory) | `transaction`, `query_with_bindings`, `canon_write_counters` | every repository, SQLite |
| Item ledger (`server/item_ledger_repository.gd`) | definitions, profiles, instances, creation properties, owner and location revisions, operation receipts (SQLite) | register a definition or profile, create, create authored, retire | store seam |
| Claim and permit authority (`server/claim_permit_authority.gd`) | claims, permits, memberships, receipts (SQLite); interaction handles (memory) | register, set permit, replace memberships, transfer, begin / commit / cancel an interaction | store seam; the caller's action body runs inside its transaction |
| Canon sectors and mutation log (`server/canon_repository.gd`, `canon_mutation_repository.gd`, `canon_mutation_service.gd`, `environmental_interaction_service.gd`, `canon_sector_integrity.gd`, `shared/canon_sector_resolver.gd`) | immutable sectors, append-only mutations (SQLite); open gates (memory) | canonicalise, mutate, unlock and open a gate, resolve, inspect | store seam, clients, boot |
| Canon boot migration (`server/server_main.gd:415-441`) | none of its own | copy a combined database into the split one, canonicalise the hub | both databases |
| Generation pipeline and frontier (`server/server_main.gd:859-1447`, `provisional_sector_generator.gd`, `canon_generation_coordinator.gd`, `sector_boundary_detector.gd`, `sector_detail_generation.gd`, `jit_presentation_ack_tracker.gd`) | requests in flight, pinned places, who waits, presented versions, tokens, readiness, quarantine (memory) | request, generate, finalize, present, acknowledge, move, mutate, quarantine | a language model over HTTP, Canon and its log, clients |
| Journeys (`server/journey_registry.gd`, `journey_repository.gd`) | journeys by character (memory and SQLite) | enter or reclaim, mark disconnected, checkpoint, clean up, restore | world entry, disconnects, the physics frame |
| Sessions, login and admission (`session_registry.gd`, `login_gateway.gd`, `world_entry_ticket_service.gd`, `nakama_gameplay_bridge.gd`, `nakama_gameplay_relay.gd`, `auth_service.gd`) | sessions by peer, epochs, single-use tickets, bindings (memory) | bind from an assertion, bind after a Nakama validation, select, enter, clear; register, log in, issue an assertion | journeys, players, Nakama over HTTP and a socket; off-thread password hashing |
| Accounts, characters, houses | rows (SQLite); `ServerPlayerState` nodes (memory) | create, list, soft-delete, select, bind and authorize a player, assign and release a house | login, world entry |
| Interior anchors | anchors (SQLite) | commit, resolve an entry | Canon |
| Player simulation, monsters, NPCs | positions, timers, health (memory) | inputs, strikes, ticks | clients |
| Client prediction | predicted inputs, last acknowledged (memory) | predict, reconcile | server |
| World directives, telemetry, health | bounded queues, rate windows (memory) | order, ingest, flush | generation, HTTP |
| Operator service (`infra/operator`) | audit rows (SQLite, one connection for all threads), units on the host | run an allowed action, record it, forward a control action | the host, the game server's control endpoint |
| Enrollment service (`infra/enrollment`) | failures and locks per key (memory, no lock) | register, log in, list characters | the login process over HTTP |
| Dashboard feed cache (`dashboard/github_cache.py`, `app.py`) | a snapshot (memory and a file), refresh and scheduler threads; the script of the open page | read, request a refresh, fetch pages, poll | GitHub, browsers |
| Dashboard views (`dashboard/app.py`) | none: functions of the feed | goals, backlog, story map, roadmap, Bands, Hybrid | the feed |
| Paired server (`scripts/paired_server.py`) | run, control and report files, a container and a network | start, supervise, finish, abort | docker, the game server's files |
| Load run (`scripts/run_m4_baseline.py`, `m4_baseline_report.py`) | a container, peers, private files, a report | admit, run, observe, clean up, report | docker, load peers |
| CI validation routing (`scripts/ci_validation_routing.py`) | a plan and sealed results (files) | plan, check out, seal, aggregate | GitHub, other machines |
| macOS client tooling (`scripts/macos`) | temporary trees, an output directory, a report | fetch, assemble, audit, publish, try out | HTTP, tools, other processes |
| Project preparation (`scripts/prepare_godot_project.py`) | a staged copy, its configuration, a report | copy, import twice, inspect, restore | the Godot engine, whoever edits the source |
| Windows launcher updater (`native/windows_launcher`) | staged and installed builds (files) | download, verify, swap, roll back | HTTP, file system |
| Shared value contracts, presentation, delivery tooling | none that is shared | validation; scenes; deployment scripts | everyone |

What makes them correct, and what makes that hard:

- **Store seam.** A call leaves all of its writes or none, and its answer tells
  which. Hard: SQLite may fail any statement, may roll a transaction back *by
  itself*, and may fail COMMIT; the process may end between any two statements.
- **Item ledger.** Items cannot be duplicated: one live item per address, one
  serial history per owner and address, one receipt per operation, retired
  items stay retired. Hard: callers read revisions, compose a command, and send
  it when others have moved on; they also retry commands whose answer was lost.
- **Claims and permits.** Nobody can act on a plot beyond what the owner gave,
  also not through stewards, groups and transfers; a handle does not outlive
  the rights it was issued for. Hard: authority is recomputed from tables that
  change between `begin_interaction` and `commit_interaction`.
- **Canon log.** The world only wears: a sector's base never changes, a
  mutation is applied once, history stays replayable; what is answered
  "accepted" is durable. Hard: two services append to one log with revisions
  read earlier, clients retransmit, and the open posture of gates is in memory
  and vanishes at a restart.
- **Frontier.** A sector is generated once, players walk only on the revision
  their own client has acknowledged, and whoever keeps pushing gets in. Hard:
  every step awaits something (a model, a disk, a client) while players come,
  go, change character and mutate the sector.
- **Journeys, sessions.** One active peer per character; a character that
  disconnected is kept for a bounded time, also over a restart; credentials are
  single-use. Hard: awaits between check and use, restart, reordered
  disconnects.
- **Services and tools.** What they report is true, what is not theirs stays,
  and what was begun is reported on. Hard: threads without locks, commands that
  take effect after their timeout, clean-up under a failing docker, files that
  others edit, kills.
- **Dashboard.** No reader sees an older feed or loses an issue, the refresh
  button does not stick, and views of one plan do not contradict each other.

`PROJECT.json` lists every component with its status, and every hazard at the
line where it bites with the properties that would notice it.

## 2. The modules

```
SqliteStore --EXTENDS-- StoreCallers            any caller of the seam
     |                       `--- StoreProofs (with CanonLog)
     `------EXTENDS---- ItemLedgerSteps --INSTANCE-- ItemLedger    one command as one step
                         one statement as one step        `--- ItemLedgerProofs
                               `--- ItemLedgerStepsProofs
ClaimPermits --- ClaimPermitsProofs             one transaction as one step
CanonLog --- StoreProofs                        one INSERT as one step
JourneyRegistry --EXTENDS-- Journeys            its callers, one character at a time
     |                          |--- JourneysProofs
     `----------EXTENDS---- WorldEntry          connections, sessions, entry, the relay
Frontier --- FrontierProofs                     one sector and its players

FeedCache --EXTENDS-- FeedPage                  the cache, and an open page before it
FeedFetch                                       one fetch after another
GoalViews                                       the Goal cards of a feed
FeedPage, FeedFetch, GoalViews --INSTANCE-- MCFeeds --EXTENDS-- MCDashboard
                                               `--- FeedsProofs
TbpViews --EXTENDS-- MilestoneViews --EXTENDS-- Views --INSTANCE-- MCDashboard
                                                the other pages (feeds of MCViews)
Operator, Enrollment, PairedServer, LoadRun, MacClient, ValidationRoute,
PrepareProject --INSTANCE-- MCTools --- ProgramsProofs
Programs --EXTENDS-- MCFeeds, MCTools           the variables of both unions
MC*                                             small instances for TLC
```

`JourneysProofs` extends `Journeys` and `WorldEntry` together, so that what is proved
of the registry is proved once; the actions and the specification of `Journeys` are
called `StayInit`, `StayNext`, `StaySpec` for that reason. `StoreProofs` likewise extends
`StoreCallers` (`InitCallers`, `NextCallers`, `SpecCallers`) and `CanonLog`, what is
promised of the tables and of the log in them. The inductive invariants of
the feeds and tools stand at the end of their own modules, those of the other components in the
modules that prove them.

`MCFeeds` and `MCTools` are unions (`FeedsSpec`, `ToolsSpec`): the programs in
them share nothing, so a behaviour is a behaviour of one of them (`program` says which,
and what the shared variables `v1` to `v12` of `Programs` stand for). What one run shows
of a union it shows of each program. Their properties join properties that the modules of the
programs state and comment. `MCDashboard` adds `Views` to the union of `MCFeeds`
(`DashboardSpec`): its recursion keeps it out of a module that theorems are about. The
properties of `MCFeeds` speak of the other programs only, whose behaviours are the same
under both specifications.

### SqliteStore and StoreCallers

`SqliteStore` is `sqlite_store.gd` without rows: the database is one value, a
statement turns it into another. `durable` is what a restarted process finds,
`view` what the connection reads; they differ while `native` (SQLite has a
transaction open). `inTransaction`, `queryFailed`, `pending` and `counts` are
the class's fields. A statement ends `"done"`, `"error"`, or `"abort"` (SQLite
rolls back by itself, as `tests/integration/test_canon_write_accounting.gd`
provokes). SQLite is external: that a failed COMMIT either leaves the
transaction open or rolls it back, and that ROLLBACK fails only when nothing is
open, is assumed. Left out: the schema version check of `open()` and the
statement observer, which neither read nor change this state.

`StoreCallers` puts every possible caller on top: single statements in
autocommit, and bodies of up to `MaxStatements` statements that return true or
false. `StopsAtError` says whether a body returns at its first failed statement;
all bodies in `server/` do.

### ItemLedger, ItemLedgerSteps

`ItemLedger` has one variable per table and one step per command, the
granularity callers see. `Verdict` is the whole decision of a command in the
order of the code: the retained receipt and its fingerprint (replay,
`operation_conflict`, `corrupt_record`), the pinned definition or profile, the
identity, both expected revisions, overflow, occupancy. `Commit` is what a
successful transaction writes. Commands carry any expected revisions; a stale,
repeated or reordered request is just another command, so no network is needed.
Digests are abstracted to the record they digest (equal iff the fields are),
vital numbers of an item to the `Contents` that decide which addresses it fits.

`ItemLedgerSteps` executes the same commands over `SqliteStore`, BEGIN,
decision, each INSERT or UPDATE and the end of the transaction being steps of
their own, any of which may fail and between any of which the process may end.
It instantiates `ItemLedger` twice, once on what the connection reads (to reuse
`Verdict`) and once on `durable` (the refinement mapping): `ImplementsLedger`
says that what a restart finds and what callers are told is a behaviour of
`ItemLedger`. So every property of `ItemLedger` holds under statement failures
and crashes. A failed SELECT does not always end a body at once: `_check_revisions`
reads the second revision all the same, and the retry of a crafted item
(`RereadsCreation`) goes on to its properties and answers `corrupt_record`, as for a
creation that does not match; the SELECTs that follow are `Reread`.

### ClaimPermits

One variable per table, one action per method that changes state. A refused
operation writes nothing and is not an action. `interactions` is the in-memory
table of handles, dropped by `Restart`. `CommitInteraction` includes the body
that the caller supplies, as one write per handle. Two history variables watch:
`writes` (how often a handle committed) and `interrupted` (handles whose actor
lacked the rights at some moment since `begin_interaction`).

### CanonLog

`canon` and `log` are the two tables; `openGates` is
`EnvironmentalInteractionService._open_gates`. Both services write the log
through `_commit_mutation`; their event ids differ by a prefix, as in the code
(`"mut"`, `"gate"`). Blueprint text is abstracted to the targets it contains;
the three gate verbs to `Verbs`; reach and line of sight only refuse.
`Effective` is `CanonSectorResolver`: what players see; `InspectsClean` is
`CanonSectorIntegrity`, run at boot. `RevisionReadFails` lets the SELECT of
`_current_revision` fail; that of `_committed_unlock_revision` always may. `accepted` is
history: every answer "accepted", what it was about and the revision it tells. A
mutation is answered with the revision of its own row; whoever finds a gate unlocked
already, or opens it, with the revision of the gate's first unlock, whoever made it and
with whatever verb.

### JourneyRegistry, Journeys, WorldEntry

`JourneyRegistry` is the registry and its table, as operators and actions that
the two other modules call. `journeys` and `journeyOf` are its dictionaries,
`rows` the table; ids are drawn at random in the code and counted here. Time is
the wall clock, read anew by each call; it does not go back. Every write may
fail and, as in the code, nobody looks: `Write` takes the table after success
and the others, and counts in `failures` the calls that had a failed write (at
most `MaxFailures`). `Enter` contains the cleanup that `enter()` begins
with, which makes its own `journey_expired` branch (journey_registry.gd:86-89)
unreachable; it has no counterpart.

`Journeys` lets peers enter, be checkpointed, leave and find the server
restarted, and keeps as history what a player may rely on: who was let in
(`holder`), how a character left (`left`), when its journey was last saved
(`seen`).

`WorldEntry` is the way from a connection to a player that can act. A session
(`sessions`) has an epoch, an account, a selection and perhaps a signed
snapshot; it is bound by `PresentAssertion` or by a Nakama validation, which is
two actions (`StartNakama`, `NakamaAccepted` or `NakamaRefused`) because the
RPC handler awaits an HTTP answer in between while everything else goes on.
`player` is what a `ServerPlayerState` was bound to. `EnterWorldDirect` and
`EnterWorldRelayed` are one handler, split by whether the relay is up; the
second issues and consumes a ticket, which binds the session anew, and fills
`bindings`. `Authorized` is `_gameplay_authorized()`. Peer ids are drawn at
random, so a peer that left does not come back under its id. Inputs of the bridge
end in `_gameplay_authorized()` like any other and are not modelled. Assertions
are valid ones; an assertion secret is configured. Deleting the selected character
only makes an entry fail and is left out.

### Frontier

One sector nobody has seen and the players around it. All tables of the code are
keyed by sector, so that one is enough; sectors meet only where a table of a peer
is full, which `Evict` lets happen at any time. `canon` and `revision` are what
the two repositories of `CanonLog` hold of the sector; a blueprint is abstracted
to the sides from which its connected detail can be entered
(`SectorDetailPlacement.contains_world`). The in-memory tables keep their names'
meaning: `generator` and `proposal` (`_sector_state`), `pinned`
(`_sector_detail_requests`), `waiting` (`_sector_ingress_positions`), `version`
(`_frontier_versions`, with `_frontier_details`, which is written and erased with
it), `quarantined`, `bound` (`_frontier_bindings`), `attempted`
(`_frontier_prepared_at_by_peer`) and `tracker` (the three tables of
`JitPresentationAckTracker`). `underway` holds what was presented and not yet
acknowledged, wherever it is: on its way, being assembled by the client, or
coming back as telemetry; such messages arrive in any order or not at all
(`Lose`).

The operators are nested as the calls are. `Pushes` is a step of
`_resolve_frontier_movement` that is refused and prepares the sector it leads to;
`Prepare` asks `_boundary_has_canon` and goes on to `Request` or `Reload`;
`Request` joins, starts, or finalizes a result that is there; `Finalize` makes it
Canon and presents it to all who wait; `PresentTo` reads the history, sets the
version, keeps a pending token or issues another, and sends. `EnterWorld` and
`Push` are therefore one step each from RPC or physics frame to the last message,
and `GeneratorAnswers` is the continuation after the `await` in `_run_request`.
Whatever may fail at once fails in the step in which the code tries it: the lookup,
the history, the commit. `Fault` counts failures, losses, evictions, damage and
restarts; `Budgets` says how many a behaviour has, and how often a connection
enters again or pushes past the sector, which is what issues further tokens.

Generated sectors have the wilderness profile and no gates; a mutation destroys an
entity and leaves the tiles. The hub, which is there from the boot, is
presented without a request and without these steps; it is not the modelled sector.
Not in the model: the journey of a binding (it does not change under a player,
`HolderKeepsJourney`), that a refusal is told once, and a placement that can not be
selected. A player does not stop heading somewhere: it turns, or leaves.

### FeedCache, FeedPage, FeedFetch

`FeedCache` is `GitHubFeedCache` with its two threads: the scheduler
(`Check`, `PlanDelay`, `Awake`, `ClearWake`, as many steps as other threads can
come between) and the refresh thread (`Fetch`, `WriteTemporary`, `Replace`,
`Publish` or `Fail`, `Cleanup`, `Finish`). A feed is its version. The process may
be killed (`Die`, also `restart_if_source_changed`) and booted at any step.
`FeedPage` puts the handlers of `app.py` before it and the script of one open page
behind them: its timers, its button, its requests, answered or lost in any order.
`FeedFetch` is `fetch_github_feed`, page after page with the ETags of the last
fetch, while GitHub adds items in front; GitHub's listing is external. The list that
the code extends page by page and sorts at last is a bag: how often each number is in it.

### GoalViews, TbpViews, MilestoneViews, Views

What the pages compute of a feed, as operators: the coverage of a Goal's
capability items (`WglCoverage`), the states of the delivery backlog
(`classify_tbp_state` and the roll-ups above it), the groups that a milestone's
description defines and their counts in Bands and Hybrid. An issue is a record of
what the code extracts from labels and body; text is "missing", "unfinished" or
"there". Pages keep nothing: a step of `GoalViews` or `Views` is an edit that
somebody makes on GitHub, to one of the records an issue or milestone may have. TLC
checks every feed of small sets: the Goals of `SmallGoals` (`MCFeeds`), and two shapes
of feed in `MCViews`, one for the backlog and one for the milestone pages.

### Operator, Enrollment

`Operator` handles requests on threads: the scope check, the command on the host,
which may take effect after its timeout (`LateEffect`), the INSERT and the COMMIT
on the connection that all threads share, the forwarded control action, and a
crash at any step. `Enrollment` is one key of the limiter, which takes no lock, so every
read and every write of its two tables is a step of the thread that makes it: the lock is
read (`Look`), an ended one is taken away (`Unlock`) and the events with it (`Discard`),
recent events are read (`ReadEvents`) and written back as a new list (`Keep` at the end
of `allowed()`, `Trim` before an attempt is counted), the attempt is appended in place
(`AppendEvent`, visible at once if the list is still the entry: `holder`), stored
(`Store`), and a full list locks (`Lock`). Between any two of them other threads and the
clock may move; a thread keeps the time it has read at first. Reading a list is one step,
although another thread may append while the comprehension goes through it. A call
takes at most `Slack` ticks. The login process answers yes, no, or too late. Three
histories serve the property: `counted`, the attempts of the window; `stale`, that
another thread has stored since this one looked; `raced`, that a stale thread has
written, or a lock was made shorter.

### PairedServer, LoadRun

`PairedServer` is four processes that share files: the commands (`Start`,
`WriteControl`, `ReadReport`), the supervisor (`Supervise`, one step per docker
command or file), the container, and the game in it. Deadlines are latches that
may pass at any time. `LoadRun` is one run of the baseline script, step by step,
with the environment that may answer late, die, or start another run.

### MacClient, ValidationRoute, PrepareProject

Sequential programs among files that others change. `MacClient` runs one of the
three tools, with its scopes closed on the way out; `Change` and `Occupy` are
everybody else. `ValidationRoute` is the plan, the jobs on other machines and the
aggregation, while the pull request moves; a digest is what it digests.
`PrepareProject` is the copy, the two imports and the restoration, with edits of
source, copy and configuration at any time.

## 3. The runs

TLC explores every behaviour of each instance; every run finishes within four
minutes with two workers. Only `claim_permits` cuts the state graph with a
CONSTRAINT (`Explored`: at most five receipts, and behaviours with a handle with
one character, right and revision less).

| Run | Instance | Shows |
| --- | --- | --- |
| `item_ledger` | two items, two addresses, one owner, four operation keys, revisions to 3, one item also crafted from a profile with two candidate contents, two ticks | one live item per address; histories serial, within range and alternating; rows agree with receipts; retries replay, also at another tick and after a retirement; nothing is rewritten |
| `item_ledger_steps` | one item, one address, three keys; every statement failing in every way, crashes anywhere | the stepwise ledger implements the ledger of whole commands (refinement), and "ok" is only answered for a durable receipt |
| `store_callers` | three calls of three statements | all or nothing, counters balance, an idle connection reads what is durable |
| `claim_permits` | one plot, three characters, a group, revisions to 4, a handle | receipts are a serial audit that replays to the tables, rights trace to an owner, only owners transfer, a commit was never without its rights since it began and is never doubled |
| `canon_log` | two entities, three event ids, a restart | histories inspect clean, accepted intents are logged as asked and whoever is told that a gate is unlocked or open is told the revision of an unlock of that gate, open gates are unlocked, the world only wears |
| `journeys` | two characters, two peers, a window of one second, restarts at any time, one call whose writes fail | a connected player keeps its journey, whoever is late gets another one; as long as no write failed, whoever comes back in time gets the same journey and place, also from a new process |
| `world_entry` | an account with two characters and one with none, two peers, both ways to a session, the relay coming up at any time | one actor per character, of the right account, only after an entry with the present session, and whoever was let in without the relay can act (`WelcomeDecides`) |
| `frontier` | two sides (the template of one has no way in), two peers with one presentation each and one fault, or one peer with two and two faults; one mutation | nobody is admitted to an old revision or a quarantined sector, and what is Canon is not generated again (`CanonStands`); readiness comes only from an acknowledgement of the present sector by the present character (`ReadinessIsEarned`); whoever keeps heading in is admitted or the sector is shut there (`FrontierOpens`, liveness) |
| `dashboard` | a page with two requests under way and feeds of two versions; fetches of pages of two items; two Goals with two Features and two Slices under every edit; a backlog of six issues; two milestones with three issues | `ReadersLoseNothing`: no older feed is served, also after kills, and no fetch drops an issue; `NoStuckButton`: a disabled button waits for something; `RefreshesHappen` (liveness): a due refresh starts and every refresh ends; `ProgressIsProof`: ticking a box moves no Goal's percent, closing work never lowers it; `ViewsAgree`: roadmap badges speak for their trees, groups that count as done share no issue, proposed work is open, Bands and Hybrid agree, quotations say nothing |
| `tooling` | two operator requests at one service; two threads at one key of a limiter of two attempts; one run, tool or plan each | `AuditIsComplete`: what ran and was answered is recorded, and only what is allowed ran; `AttemptsAreBounded`: as long as no thread undoes what another has stored since it looked, and locks outlast the window, attempts stay within the limit plus two per further thread; `PassesAreEarned`: no verdict "passed" or "accepted" without its evidence, for the five tools that give one; `FailuresAreSaid`: a failed report owns up to what it leaves; `OthersStay`: clean-ups touch nothing of others; `RunsAreReported` (liveness): an accepted paired run ends in a report unless its supervisor is killed |
| `relayed_can_act`, `journeys_crash` | | disagreements, section 5 |

Why the bounds are enough. Races for an address need two items, one address and
three commands (create, create, retire); the instance has one more of each, so
that a history can pass through full, empty and full again and so that
revisions reach their maximum, where `revision_overflow` is decided. Chains of
permissions need an owner, a steward and a third party, and one more operation
than the longest chain that creates a right (register, grant administer, grant
build, transfer, revoke). A handle that loses its rights by one operation and
regains them by another is within the five receipts for permits; losing and
regaining them through memberships would need a third operation id and is
covered by the theorem only. Event ids of the log need three: two that race for a
revision and one that is replayed. Calls of the store need two (one that leaves
flags behind, one that meets them) and bodies two statements (one before and
one after a failure); the run has three of each. A late return needs a window and
one second more, hence `MaxTime = 3`; `WorldEntry` lets journeys expire after one
second (`Window = 0`), because the window itself is checked by `journeys`. A
takeover needs two peers, a stale session two epochs.

The frontier needs two sides and two peers for a request that joins another one
from a side that was not pinned; a late acknowledgement needs one peer with two
traces. Both budgets are in one run. `FrontierOpens` follows one peer (`Followed`);
peers are interchangeable. The page needs two requests, because a poll can be under
way when a post is sent; feeds need a second version to be older than. Pages of two
items over up to four push an item across a boundary. The limiter needs two
threads, one of which stops anywhere while the other counts, is locked out and comes back
after the lock: a window of 1, a lockout of 2, calls of 1 (`Slack`) and three ticks of the
clock (`MaxTime`) give room for that. The bound is met: one less is violated. The
audit needs two requests that share a commit.

Symmetry is used where a run has no liveness property and the symmetric values are
only compared for equality (operation ids, handles, characters, peers). Type
invariants are stated in each module; those of `ItemLedger`, `Frontier`, `Journeys` and
`WorldEntry` are proved, the others were checked with the runs and are kept for readers, as an
invariant that lists ranges is implied by what the runs do check.

Deadlock is not checked in `frontier`, `dashboard` and `tooling`: their programs
end, or stop at a bound.

### Fairness

Item ledger, permits, log, journeys and world entry are passive: they answer when
called and promise no progress. Liveness is claimed of three parts:

- `Frontier`: the generator answers (`request_timeout_sec` bounds the HTTP
  request, and every outcome ends in `provisional_sector_ready`); the physics frame
  moves a player that keeps heading somewhere (`Push`); the retry interval passes
  (`RetryDue`); a client assembles what it receives and acknowledges it
  (`AckArrives`). All weak, per peer. No fairness is given to faults or to other
  players, and a push that fails is just a step that happened: that repetition
  helps is what the property shows.
- `FeedPage`: the refresh thread ends each of its steps (a `gh` request has 20
  seconds), the scheduler runs when it may, time passes. Nothing is assumed of
  GitHub, the page or its user.
- `PairedServer`: the supervisor is scheduled; `timeout(1)` ends the container.

## 4. The proofs

Eight modules of proofs. Each theorem is about every value of the constants that
satisfies the named ASSUMEs of its modules: bounds are natural numbers, `None` is no
row, journey, session or command, functions of constants have their types. The runs
evaluate these. No theorem assumes how operations interleave.

**`ItemLedgerProofs`** (any actors, items, addresses, definitions, commands,
maximal revision)

| Theorem | Property | Argument |
| --- | --- | --- |
| `TypeCorrect` | `TypeOK` | by cases on the actions; the overflow check comes before the increment, so a revision stays in range |
| `LedgerSerialHolds` | `LedgerSerial` | inductive with `TypeOK`: a commit adds the receipt with the revision after the current one, a refusal or replay adds nothing |
| `OneItemPerAddressHolds`, `AddressAlternatesHolds` | same names | from `AddressInv` |
| `LedgerAppendOnlyHolds` | `LedgerAppendOnly` | from `TypeOK`, action by action |
| `RowsMatchReceiptsHolds` | `RowsMatchReceipts` | from `RowsInv`: an item has at most one creating and one retiring receipt, and its row is what they say |
| `RetriesReplayHolds` | `RetriesReplay` | from `ReplayInv`: whatever is committed, the rows it pins (`Kept`) still carry what its fingerprint is made of, so the same command finds the same fingerprint |

`OneItemPerAddress` is not inductive: a retirement must empty the address it
claims to empty. The code does not look at the address when it retires; it
compares the revision of the address. `AddressInv` therefore adds `LiveIsLatest`:
the receipt that created a live item carries the current revision of its
address. So a retirement of the current occupant names the latest revision,
and a creation checked for occupancy cannot meet a stale one.

**`StoreProofs`**: of `StoreCallers` (any number of calls, statements and tables)

- `IdleViewIsDurableHolds`: inductive as it stands, for all callers, also those
  that go on after a failure.
- `NoPartialRecordHolds`, under `StopsAtError`: `RecordInv` adds whose writes are
  where (`Books`) and `BodyView`: while no statement of a body has failed, the
  connection reads what is durable and all of the body's writes. This is what an
  automatic rollback inside a body breaks, and why the body must stop.
- `CountersBalanceHolds`, under `StopsAtError`: `CountInv` adds that in such a body
  `pending` counts exactly what it wrote.

and of `CanonLog` (any sectors, blueprints, targets, intents)

- `OpenGatesAreUnlockedHolds`, `AcceptedIsLoggedHolds`, `WorldOnlyWearsHolds` from
  `IdsUnique` (an event id names one row) and `log \subseteq log'`. An answer about a
  gate that is unlocked already takes its revision from a row that the step reads, and
  appends none (`Tells`).
- `HistoriesInspectCleanHolds`, under `~RevisionReadFails`: `HistoryInv` counts, the
  applied revisions of a sector are 1 to the number of its rows.

**`ClaimPermitsProofs`** (any plots, characters, groups, rights, operations)

- `RevisionsAreSerialHolds`: the receipts of each plot, and of each membership,
  number its revisions.
- `OnlyOwnersTransferHolds`, `RightsTraceToOwnerHolds`, `AuditIsSerialHolds` from
  `AuditInv`: the owner in the table is the one of the latest claim or transfer
  (`OwnerIsLatest`), a permit is its latest receipt (`PermitsAreLatest`), and its
  bits are within what owners gave at their time (`RightsAreGiven`). Without the
  latter, a steward's grant could not be traced past a transfer.
- `CommitsAreUninterruptedHolds` from `HandleInv`: a live handle whose two recorded
  revisions are the present ones has had its rights all along, because whatever
  takes rights away moves a revision (`RightsMoveRevisions`).

**`ItemLedgerStepsProofs`** (as `ItemLedgerProofs`, and any registrations)

- `ImplementsLedgerHolds`: the ledger of statements refines the ledger of commands
  under the mapping `durable`. The initial states map to initial states; a commit of a
  whole command maps to `Commit`, an answer without one to a refusal, a replay or a
  failure of `ItemLedger` (which of its `Failures` a failed SELECT is answered with
  depends on the command), every other statement, failure and crash to a stutter. So the seven
  theorems of `ItemLedgerProofs` are true of what a restart finds, whichever statements
  failed and wherever the process ended.
- `AcknowledgedIsDurableHolds` from the same invariant.

`StepInv` says what the connection reads in the middle of a command: the durable tables
and exactly those of the command's tables whose statement is no longer to come
(`Partly`), while what the check granted is still what a restart would grant
(`Granted`); and when the body has returned, that its answer is the one the abstract
ledger would give (`Returned`). Without `Granted` a commit could be shown to write the
whole command, but not that the abstract ledger would have committed it. That a
transaction which an automatic rollback ended is never committed is in it as
`todo # <<>> => native /\ ~queryFailed`.

**`JourneysProofs`** (any accounts, characters, peers, places, window, failing writes)

`RegInv` is the invariant of the registry alone, kept by each of its operations under
any caller: the two dictionaries agree (`Registry`), the table has one row per character
under an id that was drawn (`GoodTable`), a row that was not deleted speaks of the
character of its journey (`Agree`), and the table is the dictionary as long as no write
failed (`Mirror`). The table matters because a restart rebuilds the dictionaries from
it, and a save after a failed delete is refused by the UNIQUE column. Every operation
moreover takes no journey from a character that is connected (`Holds`).

- `JourneyTypes`, `TableMirrorsMemoryHolds`: from `RegInv`.
- `HolderKeepsJourneyHolds`, `ReturnsWithinWindowHolds`, `LateReturnsStartAnewHolds`
  from `StayInv`: a holder's journey is active and its own (`Keeps`); a journey or row
  that was left carries no time after the leaving, even where a delete failed (`Gone`);
  and without failures it is there, with its place and time, as long as the window lasts
  (`Timely`). `Gone` speaks of the rows too, or a boot could bring back a journey that
  seems to have been left later than it was. `LateReturnsStartAnewHolds` needs no
  assumption about failures: a late return may lose a journey, but never revives one.
- `WorldTypesHold`, `OneActorPerCharacterHolds`, `AuthorityIsOwnedHolds`,
  `WelcomeDecidesHolds` from `WorldInv`: who acts holds its character's journey, and a
  journey has one holder; selections and snapshots belong to the account of their session
  (`Owned`), also after an assertion or a validation replaced it; epochs only grow, so a
  new session is never the session of an old player (`EpochsGrow`); a player that was
  let in keeps session and epoch until they are replaced (`Welcomed`). None of these
  mentions a validation under way: that `NakamaAccepted` may come at any moment, also
  for a peer that is gone, disturbs none of them.

**`FrontierProofs`** (any peers, characters, sides, templates, budgets)

- `FrontierTypeCorrect`, `CanonStandsHolds`, `ReadinessIsEarnedHolds` from `Inv`:
  what is presented is the present revision of a sector that is Canon and open
  (`Standing`); who does not play has no entry in the tracker, and who is ready is
  so for the character that plays and what is presented (`Owned`); a trace names
  one presentation (`Traced`); only who plays waits (`Waits`). `Traced` is what makes
  a late acknowledgement harmless: its trace is older than the pending one, or it
  is the pending one's, and then what the client saw is what the token is bound to.
  Every action but one makes nobody ready (`NobodyNewlyReady`), and `AckArrives`
  only the sender of an acknowledgement of the present sector.

**`ProgramsProofs`** (the programs of `MCTools`: any requests, services, Linux jobs and
number of acknowledged inputs)

`ToolsInv` is the invariant of the program that runs. A step is one of that program or
of none (`ToolsSteps`), so each is proved by itself, action by action, and each property
is a consequence of its program's invariant. The limiter has no theorem:

| Program | Invariant | What it adds to the property, and why |
| --- | --- | --- |
| `Operator` | `OperatorInv` | a row is what its request has come to (`RowInv`), a request has one row in the open transaction and the log together, and who is between INSERT and COMMIT has it: threads commit each other's rows on the shared connection, so the row may be in either |
| `PairedServer` | `PairedInv` | what the supervisor owns at each step, and what is gone by then unless something failed (`ClearInv`); that a fresh acknowledgement which was read proves the observation, also from a file that the game has overwritten since |
| `LoadRun` | `LoadInv` | what the world can be like after each step (`WorldInv`), what is cleared (`ClearedInv`), and which trouble is an error by then (`VerdictInv`): the verdict is computed from errors noted up to six steps earlier |
| `MacClient` | `MacInv` | where each tool can be (`StepInv`), which temporary tree still exists (`TempInv`), what an output stands for until a failure (`OutputInv`) and an admission until a change (`AdmittedInv`): a failure closes two scopes, each of which may fail |
| `ValidationRoute` | `RouteInv` | the plan is one that some state of the pull request allowed (`Planned`), whatever the request has become; an accepted report saw every job sealed and intact |
| `PrepareProject` | `PrepareInv` | which configuration an import was tried with (`TrialInv`), and that what the report calls restored was so when it was compared (`RestoredInv`) |

- `AuditIsCompleteHolds` (operator), `PassesAreEarnedHolds` (paired server, load run,
  macOS tools, routing, preparation), `FailuresAreSaidHolds` (macOS tools, preparation):
  from `ToolsInv`.
- `OthersStayHolds`: an action property, by cases on the actions. The network and the
  audit need their program's invariant: the supervisor removes only what it owns, and
  what it owns is not foreign; a crash drops open rows only.

**`FeedsProofs`** (the programs of `MCFeeds`: any interval, page size, pull requests, and
any number of versions, requests and items; any Goals, Features and Slices)

`FeedsInv` puts the invariants of the three programs together, as `ToolsInv` does:

- `NoStuckButtonHolds`, and for the page `ReadersLoseNothingHolds`, from `PageInv`: its
  parts `FlagHasThread` and `NoStuckButton` are inductive once records have their types;
  for what readers see it takes the whole order of versions (`VersionsInv`): what was
  served is in memory, what is in memory is on disk, and what a refresh brings is newer and
  on disk before it is published. Neither file nor memory alone would do, because a kill
  leaves the file and a failed write the memory.
- For the fetch `ReadersLoseNothingHolds`, from `FetchInv`: in the middle of a fetch the
  bag holds every wanted item whose place in GitHub's list is before the page that comes
  next (`SoFarNothingIsLost`): items are only added in front, so an item moves to a later
  page, never to an earlier one. And every cached page holds what its ETag
  stands for, and says rightly whether another one follows (`IsPage`): with an ETag that
  still holds (304), it is the page GitHub would have sent.
- `ProgressIsProofHolds`: `GoalsInv` says that issues have the records that were assumed
  (`GoalAssumption`: finite sets of issues and claims, boxes in lists). An edit of boxes or
  of a state leaves the issues akin (`Kin`: links, claims and numbers of boxes), so the
  same Features are asked. More of them resolved claim more items (a finite set with more
  members), and `Percent`, halves to even included, is monotone (`PercentGrows`, by
  division with remainder).

Only model-checked, and why:

- `ViewsAgree`: states and badges of the backlog are computed by recursion over parent
  links, which tlapm cannot reason about; TLC checks every feed of the small sets.
- `FrontierOpens`, `RefreshesHappen`, `RunsAreReported`: the prover handles neither
  liveness under fairness nor ENABLED.
- `AttemptsAreBounded`: with every line of the limiter a step, an inductive invariant has
  to say of each line a thread can stop at what its list and the table can still become of
  each other. That is not written. The run takes two threads through every interleaving.

## 5. Where code and documents disagree

Each of these has a run in which TLC shows the disagreement:

- `relayed_can_act` (code bug): a world entry with the relay binds the player to
  the epoch of the session and then consumes a ticket, which gives the session
  the next epoch. The player is not authorized from then on.
- `journeys_crash` (code bug): a reclaim leaves `last_disconnected_at` as it was,
  and the boot prefers it to the newer checkpoint. A player that returned once
  and whose server ends later is expired by the first cleanup.

These are stated in the modules and refuted by TLC too, but have no run here; the
formula is given as the only INVARIANT of the named instance:

- `ActiveJourneysHavePeers` (`MCWorldEntry`): a connection that enters as one
  character and then as another leaves the first one's journey active for ever:
  its disconnect releases only the second.
- `EntersAsSelected` (`MCWorldEntry`): a signed snapshot goes before a later
  selection. World entry then makes the player the old character, and the
  authorization, which compares the selection, refuses it. After an entry with
  the relay every session has a snapshot. `WelcomeDecides` is therefore stated
  for players whose selection is their character.
- `SessionsAreOfLivePeers` (`MCWorldEntry`): a validation answered after its peer
  disconnected binds a session that nothing clears.
- `RetransmissionIsIdempotent` (`MCCanonLog`): `_same_content` compares the
  server tick and the service stamps each resolution with the present tick, so a
  retransmitted intent resolved at a later tick is a `conflict`, not
  `idempotent` as `docs/slices/096-canon-mutation-intent-service.md:59-60` says.
  It still does not apply twice.
- `HistoriesInspectClean` (`MCCanonLog` with `RevisionReadFails = TRUE`):
  `_current_revision` answers 0 when its SELECT fails. A command with expected
  revision 0 then passes the optimistic check of a sector that has a history;
  the doubled revision makes the next boot quarantine the sector. The header
  (canon_mutation_repository.gd:87-89) promises to fail closed.
- `NoPartialRecord` (`MCStoreCallers` with `StopsAtError = FALSE`): the helper
  promises (sqlite_store.gd:200-202) that any failure leaves no partial record,
  but a body that goes on after an automatic rollback writes in autocommit. No
  body in `server/` goes on.
- `EveryIssueIsShown` (`Views`): the docstring of the backlog page
  (dashboard/app.py:2386-2396) lists broken links as unlinked; an issue whose parent
  link names another issue of the wrong level is on no list.
- `GatesAreNotCounted` (`Views`): `dashboard/README.md` keeps acceptance gates out of
  the counts; Hybrid counts them.

Seen while reading, not modelled or not a property of their own:

- Bridge: `NakamaGameplayBridge._send` subtracts two from `_pending` for each
  accepted message it adds one for (nakama_gameplay_bridge.gd:128-130), so its
  limit is never reached.
- Frontier: the side of the first request is pinned for as long as the process runs
  (server_main.gd:864-868). A result that can not be admitted there, the template
  included, is cached as ready, so the sector stays shut for everybody until a
  restart; `Shut` says so, and
  tests/unit/test_server_main_jit_orchestration.gd:921 accepts it. A step across
  several sectors prepares only the last one (`PushPast`), and presenting that one
  again takes back its readiness.
- Dashboard: a Goal's percent ignores the goal number of an `Advances` line and may
  pass 100; Hybrid ignores issues listed twice; a closed milestone is "Done" with open
  members; fences inside fences end a quotation early in `_milestone_slice_plan`;
  parent links in a cycle keep `_roadmap_ancestors` going for ever (app.py:888-898).
  `Thread.start()` that raises after `_refreshing = True` leaves the flag up; a killed
  refresh leaves its temporary file; an issue added between two pages of a fetch
  appears twice.
- Operator: a crash or a failed INSERT between the command and its row leaves an
  action that ran and is in no log; a control action may be applied although the
  answer was lost; readers of the shared connection see rows that are not committed.
- Enrollment: nothing keeps a thread from writing what it decided before another one
  stored. Paused between two lines of rate_limit.py, it takes away a newer lock or newer
  events (40-42), writes an older list over a newer one (28-32, 49, 63) or sets an earlier
  lock over a later one (51, 65), and the limit is lost: with the defaults and two threads
  ten attempts of a window can be counted, not seven. `AttemptsAreBounded` speaks of the
  behaviours without that (`raced`) only. With a lockout that is not longer than the window
  by what a call may take, which the limiter accepts, a window sees the attempts of several
  locks (`LocksOutlastWindows`); a registration that timed out may have happened.
- Paired server: a docker command that timed out may create its container after the
  clean-up; an acknowledgement from before the finish satisfies it if nothing new was
  played. An abort after the verdict is not seen.
- Load run: the clean-up looks at no exit status of docker (run_m4_baseline.py:350-358), so
  it may leave a container and record no error; that a failed report says so, and that
  nothing is taken from what still runs, rests on the inventory that follows. A harness that
  is killed leaves its container, and an error in the
  `finally` leaves no report; an interrupt during the observation passes for its
  end (run_m4_baseline.py:343), as in macos/admission.py:243.
- macOS tools: a failed build leaves partial output; a report that can not be written
  after the publication is lost; a file exchanged and put back between two
  fingerprints is not seen.
- Validation routing: labels, pull request and main branch may move after planning;
  the candidate is validated as planned.
- Project preparation: an edit between the last check and `write_bytes` of the
  original configuration is overwritten; an error of git inside the `finally` ends
  the program without a report.

## 6. What remains of the plan

In the order of what it would add: `CanonBoot`, the migration interrupted at every
record; `Login`, registrations and logins that await a hash off the thread;
`InteriorAnchors` on top of `CanonLog`; two sectors of `Frontier` at once, with a
bridge between their tables; the inputs of the Nakama bridge, once a player that
entered with the relay may act; the Windows updater with a crash at every file
operation.

## 7. Not modelled, and why

- **Canon boot migration**: runs alone, before anything else, and writes through the
  log that `CanonLog` models.
- **Login process**: its concurrency is one await of a password hash; `Enrollment` has
  it from the outside, as an authority that may answer late. Of accounts, characters and
  houses only what world entry decides is modelled; caps, soft deletion and house
  allocation are single transactions.
- **Frontier**: the request to the model and its validation (stateless), residency of
  meshes on the client, several sectors at once, entries and stays that are only
  recorded.
- **Interior anchors**: rows written once.
- **Player simulation, monsters and NPCs, client prediction**: positions and physics;
  a finite instance would leave out what decides.
- **World directives, telemetry, health**: ordering and rate limits of what may be
  dropped.
- **Windows updater**: Go code for one platform with its own crash tests; left for
  later.
- **Value contracts**: stateless validation, one condition per field.
- **Presentation**: scenes, cameras, vendored addons; no protocol state.
- **Delivery tooling**: straight sequences of commands without shared state.
- **Dashboard views**: HTML, sorting and pages that only list.
