# Story Forecaster: a TLA+ verification project

TLA+ models of the parts of Story Forecaster in which several actors, failures
or long sequences of calls decide whether the program is right, the TLC runs
that check them on small instances, and TLAPS proofs of the properties that
matter for every instance. All paths below are relative to the repository;
`SF/` stands for `backend/src/story_forecaster/`.

1. [The system](#1-the-system)
2. [Modules and how they correspond to the code](#2-modules-and-how-they-correspond-to-the-code)
3. [Runs, bounds and fairness](#3-runs-bounds-and-fairness)
4. [What is proved](#4-what-is-proved)
5. [What the code does against its documentation](#5-what-the-code-does-against-its-documentation)
6. [Other behaviour met while modelling](#6-other-behaviour-met-while-modelling)
7. [Not modelled, and the plan](#7-not-modelled-and-the-plan)

## 1. The system

The repository holds two bodies of code that share nothing at run time.

**The product** (Python, `SF/`) imports a serial novel, keeps its versions in
SQLite, forecasts continuations from what was published up to a boundary,
and writes fan fiction branches. FastAPI runs each synchronous handler in a
thread pool with a SQLAlchemy session of its own (`get_db`, autoflush and
autocommit off); the CLI runs the same services in another process. pysqlite
opens a transaction before the first INSERT, UPDATE or DELETE only, so every
SELECT before that sees whatever is committed at its moment and nothing is held
between a read and the write decided on it. That is the source of almost every
interleaving in this half.

| Component | State | Operations | Interacts with | What is hard | What makes it right |
|---|---|---|---|---|---|
| Task queue `tasks/queue.py` | `async_tasks` rows | enqueue, cancel_task, update_progress, execute_worker_cycle | API threads | several workers or a cancellation on one row, budget read before it is charged, crash in RUNNING | exact ledger, budget, prompt cancellation, no task left RUNNING |
| Branches and memory `writing/branch_service.py` | `branch_scenes` rows with state deltas | draft, accept, reject, revise, rollback_injury, get_branch_snapshot | validator, synthesizer, memory baseline | stale reads between validation and commit, revision numbers, replay order | one numbering, append-only history, replay is the last accepted word |
| Target work `ingestion/importer.py`, `ingestion/updater.py` | works, versions, chapters, scenes | import_target_work, update_chapter | retrieval cache, resolver | overlapping updates, in-place or cloned, idempotent import, renumbering | no committed edit is lost, a work is imported once |
| Scope resolver `domain/resolver.py` | none | resolve_scope | versions | boundary of an empty or missing chapter | nothing later than the boundary is inside it |
| Retrieval `retrieval/engine.py` | process-wide index cache | search, clear_cache | forecast, search API, updater | fill races invalidation, other process | an index is the version's scenes up to its cutoff |
| Forecast `forecast/*` | `runs`, `candidates` | run_forecast, build_context, verify_citations | resolver, retrieval, provider | provider failure, commit failure, edits meanwhile | nothing later is shown, a passed candidate cites what was shown |
| Memory reducer `memory/*` | static evidence, per snapshot | reduce | forecast, branches | order of evidence under a cutoff | later evidence wins, none beyond the cutoff |
| Canon and author `canon/*`, `author/*` | static tables, text indexes | overlays, precedents | forecast | cutoff filters | filtered by scope |
| Arc planner `planning/arc_manager.py` | `arcs` rows | create, update, track, review | API | plan revisions (no endpoint updates a plan yet) | revisions never reused |
| Evaluation `evaluation/*` | none | matching, ablation | CLI | greedy one-to-one matching | no gold event matched twice |
| Providers `providers/*` | none | generate, retry | network | retries, malformed answers | a failure is an exception |
| Rate limiter `api/security.py` | timestamps per client | check | API threads | unlocked read and write | at most the limit per window |
| Parsers, spans, BM25, voices, schemas, config | none | pure functions | all | text handling | - |
| API, CLI, front end | none | call the above | - | - | - |

**The development tooling** (JavaScript, `.agents/`, "ContextOS") installs skills
(directories with instructions for coding agents), compiles them into a registry,
resolves which of them a request needs and exports them into the files that each
agent reads. Its commands are node processes that start, run and exit; the watch
daemon is a long-running one. They meet on files only.

| Component | State | Operations | Interacts with | What is hard | What makes it right |
|---|---|---|---|---|---|
| Journaled transaction `filesystem/journaled-transaction.js`, `ctx.js recover` | files, backups, journal | stage, prepare, commit, rollback, listPending, recover | everything that writes | crash or failing call anywhere, user edits | all or nothing, originals survive |
| Project lock `filesystem/project-lock.js` | lock file | acquire, release, reap, forceUnlock | profiles, plugins, export, daemon, doctor | reaping races, crash between create and write | one holder, a dead one is reaped |
| Watch daemon `watch.js` | pending reasons, debounce timer, queue loop | trigger, processQueue, executeSync, close | project lock, export | a busy lock, events and signals while the loop spins | a change is rendered or diagnosed, a signal is heeded |
| Profiles `profiles.js` | `profile.json` | load, apply, remove, package overrides | project lock, resolver, export | read before the lock, two schema versions, precedence of overrides | no override is lost, both forms agree, scopes stand alone |
| Plugins `plugins.js`, supply chain `plugin-supply-chain-bundle.js` | plugin trees, `plugins.json`, grants | add, remove, grant, revoke, swap, entry check | project lock, journal | read before the lock, awaited fetches, rewriting in place, crash in the swap | local edits survive, list and trees agree, one tree is always left |
| Manifest compiler `compiler/manifest-compiler.js`, rules `rules/rule-catalog.js` | `registry.v2.json` | discover, compile, write, check, register rules | validate, resolver | duplicate ids and aliases, cycle search, freshness by hashes | nothing lost silently, acyclic, stale is seen |
| Workspace graph `workspace/workspace-graph.js` | none | find root, walk, nearest package | resolver, profiles | links, limits, order of readdir | no directory twice, a limit is reported |
| Canonical resolver `resolver/canonical-resolver.js` | none | resolve | registry, graph, profile | dependencies against exclusions, conflicts and limits | what is loaded is closed and fits |
| Adapter export `adapters/*`, lockfile `filesystem/lockfile-v2.js`, drift `filesystem/drift-detector.js` | agents' files, managed-file records | render, apply, prune, check | project lock, journal | five pruning rules, two skills trees, user files | records match disk, user files survive |
| Lease lock `transaction-core/ipc-lock.js` | lease file | acquire, heartbeat, release, assertValid | - (used by nothing yet) | takeovers between two calls of the owner | one instance trusts its lease |
| Event store `transaction-core/event-store.js` | event and snapshot files | append, replay, snapshot | - | two appends of one revision, damaged files | replay restores the state |
| Idempotency `transaction-core/idempotency.js` | record per key | execute | - | crash or failure after the job started | one job per key |
| Doctor, validate, stats, safe-path | none | checks; doctor's repairs | lock, lockfile | - | - |

### The hazards

`PROJECT.json` lists them at their lines with the properties that would notice
them. They are of four kinds: a decision on something read earlier (sessions of
the product; files read before the lock; heartbeats), a sequence of calls that may
die or fail anywhere (journal, lock creation, directory swap, rewriting a JSON file
in place), two records of one fact (cost and steps, list and trees, records and
files, two forms of a profile, hashes and sources), and limits with exceptions
(budgets, package limits, token limits).

## 2. Modules and how they correspond to the code

| Module | Models | Extends / instantiates |
|---|---|---|
| `TaskQueue` | `SF/tasks/queue.py` over `async_tasks` | - |
| `BranchScenes` | `SF/writing/branch_service.py`, `validator.py` over `branch_scenes` | - |
| `Corpus` | importer, updater, resolver over `work_versions`, `chapters`, `scenes` | - |
| `Forecast` | `forecast/*`, `retrieval/engine.py` cache, search and forecast endpoints, over a changing `Corpus` | extends `Corpus` |
| `AtomicUpdate` | what the header of journaled-transaction.js promises, without journal or steps | - |
| `JournaledTransaction` | `.agents/filesystem/journaled-transaction.js`, `ctx.js recover` | instantiates `AtomicUpdate` |
| `ProjectLock` | `.agents/filesystem/project-lock.js`, call by call | - |
| `LockCallers` | profile commands, export and watch daemon at that lock | extends `ProjectLock` |
| `LeaseLock` | `.agents/transaction-core/ipc-lock.js`, call by call, with a clock | - |
| `EventStore` | `.agents/transaction-core/event-store.js`, one stream | - |
| `Idempotency` | `.agents/transaction-core/idempotency.js`, one key | - |
| `Plugins` | `skill add`, `skill remove` of `.agents/plugins.js` | - |
| `PluginBundle` | grants, swap and entry check of `plugin-supply-chain-bundle.js` | - |
| `ManifestCompiler` | `.agents/compiler/manifest-compiler.js`, the check of `validate.js`, `rules/rule-catalog.js` | - |
| `WorkspaceGraph` | `.agents/workspace/workspace-graph.js` | - |
| `Profiles` | `.agents/profiles.js`: documents, validation, commands, scopes | - |
| `SkillResolver` | `.agents/resolver/canonical-resolver.js` | - |
| `AdapterExport` | `.agents/adapters/*`, `lockfile-v2.js`, `drift-detector.js` | - |
| `MC*` | constants, symmetry and scenarios for TLC; `MCLocks` and `MCContextOS` put several modules into one run | extend the modules they run |
| `TaskQueueProofs`, `BranchScenesProofs`, `ForecastProofs`, `JournaledTransactionProofs` | theorems | each extends the module of that name; those about `Corpus` come first in `ForecastProofs`, whose module extends it |
| `LockProofs` | theorems about the project lock, its callers and the lease | extends `LockCallers`, `LeaseLock` |
| `StoreProofs` | theorems about the stores: plugins, bundle, event stream, idempotency key | extends the four modules |
| `LibraryProofs` | theorems about the skill library: profiles, export, compiler, workspace graph | extends the four modules |
| `ResolverProofs` | theorems about the choice of skills | extends `SkillResolver` |

A definition whose comment begins with "Mutant" (or "slip") is a plausible mistake
in the definition that follows it. No specification uses one; they document
which change to the code each property would notice.

### TaskQueue

One action per read or commit of a session. `row` is the committed row; `seen`
the copy in the session's identity map; a commit (`Flushed`) writes only the
columns that differ from the copy, as SQLAlchemy does, and leaves the others as
another session committed them. `BeginCycle` is the read of
`execute_worker_cycle` with its early returns, `Claim`/`Refuse` its first
commit, `StopOnCancel`/`CheckBudget` the refresh at the loop head,
`RunStep` the step and `UpdateProgress` the commit that charges for it,
`Reload`/`Complete` the end, `ReadForCancel`/`Cancel` cancel_task, `Die` the end of a
process. What raises inside the try is either no commit (`Raise`; the except branch
then commits FAILED, `FailOnError`) or a commit (`CommitFails`; the except branch then
commits a session that nobody has rolled back, SQLAlchemy refuses, and the row stays
RUNNING). `Serves` says which tasks a worker may be asked to run. The history
variables are `spent`, what was really spent; `unpaid`, the part of it that nobody will
charge any more; `stranded`, that a worker gave up a claimed task; and `stop`: whether
a cancellation was answered with CANCELLED, the steps executed since, whatever the row
says by then, and whether a worker that had read QUEUED before it claimed the task
after it (`missed`). Costs are whole units; result_json
and messages are left out.

### BranchScenes

`scene[o][r]` is revision `r` of scene ordinal `o`; `job[s]` what the request of
session `s` has read and will commit. Each endpoint is a `ReadFor...` action (all
reads, the validation and the provider's text) and a commit. A text stands for
the prose, the plan and the delta of a scene: the facts it sets and clears, the
secrets it acts on, whether the checks that do not read the memory pass
(`sound`) and whether its quotes are found (`cited`). A text that rollback_injury writes
is a text like the others, and nothing validates it: a short one may well fail the
beat check. `snapshot` is the memory a request validated its text on. `Memory[o]` is
get_branch_snapshot: the accepted deltas replayed in ordinal order, the highest
accepted revision of each. `Collide` is the unique key refusing an INSERT.

### Corpus

`versions` are the committed versions with a text per chapter. An editor is one
call of the importer or of `update_chapter`: reads, then the clock (`created_at`
is computed by SQLAlchemy before the INSERT is sent), then the INSERT or DELETE
that takes SQLite's write lock (`writer`), the cache invalidation and the commit.
`DiscourseSeq` is the numbering of `_resequence_version_scenes`, `Cutoff` the
boundary of resolve_scope. A text is known by its number of scenes, none for an
empty chapter. `manuscript` (history) is every committed edit applied in turn;
`overlapped` (history) says that two calls have been in flight together. The
state begins at the first committed import; creating the first project and work
is left out.

### Forecast

Extends `Corpus` with the process-wide index cache and requests over it. A
request resolves a scope, reads the recent scenes, runs one query per active
thread and a last one, commits a RUNNING run, asks the provider, verifies and
stores. `SearchMiss` and `PutIndex` are separate: between them another thread
may clear the cache. `DropIndexes` is clear_cache in the same process,
`DropElsewhere` the `update` command, whose process has a cache of its own. The
ranking is any choice of at most `TopK` indexed scenes; the provider any answer
or failure. `drifted` and `outdated` (history) name the requests and versions
that an in-place edit has changed in the ways the code cannot notice: the
clearing precedes the commit (updater.py:208 against 218).

### JournaledTransaction and AtomicUpdate

Every file system call that can fail, or that a crash or a user's edit can
separate from the next, is a step: `TakeBackup`, `Effect`, `Revert`, the journal
saves. `ops` is the plan, `trail` (history) the disk after each operation.
`Recover...` is ctx.js recover, which rebuilds the operations from the journal
without their `resolvedPath`. `AtomicUpdate` knows files, a plan and an outcome.
The refinement maps its files to the disk as the apply loop found it until
the outcome is declared, and its outcome to the journal's state; it promises
nothing once a user has edited during the apply or recover has been run
(`void`).

### ProjectLock and LockCallers

`file` is the lock file, with `written` for the gap between `openSync('wx')` and
the write of the payload; `lockPc` is where a process is between the calls of
`acquire` and `release`. `Reap` is the unlink of `forceUnlock`, which removes
whatever is there by then: `raced` (history) says that this was not the lock it
had read. A process may die between any two calls (`Crash`).

A command is one process with one job: `Ask` is everything it reads before it asks
for the lock (`applyProfile` and the removal of an override read profile.json
there), `CommitProfile` and `CommitExport` the transaction under it. The daemon is
one node process: its queue loop awaits a function that awaits nothing, so in the
model no event, timer or signal of the daemon is handled while `processing`. A
busy lock sends the daemon back to `inspect` (it re-queues its reasons and takes
them again at once). `commits`, `base` and `exports` are history.

### LeaseLock, EventStore, Idempotency

`LeaseLock`: `lease` is the file, `seen[i]` what instance `i` last read, `own[i]`
what it believes it holds. `tryAcquire` is read, rename of a temporary file,
verify; the heartbeat is read, truncate, rewrite of the same file (`writeFileSync`
in place; a reader in between finds no record). `mixed` (history): a call changed
a lease other than the one it had read.

`EventStore`: appending is a listing (`List`) and a rename into place (`Put`), which never
collides because of the random id; so two files of one revision are possible. A replay
reads a listing (the files in order of revision) in a loop, a recursive function over it.
`Damage` hits any file and only the next replay notices. `Idempotency`: `Execute`
looks the key up, `FactoryReturns` starts a job, `Store` writes the record, and a
process may die between any two of them.

### Plugins and PluginBundle

`Plugins` reads `plugins.json` and the tree (with its digest) before the lock,
awaits the fetches (`AddChecks`, `RemoveChecks`), and then installs in one step under
the lock (`Installs`); `RecordsDigest` is the later rewrite of plugins.json in place,
whose interruption leaves a file that counts as empty. Users edit installed files
between commands.

`PluginBundle` has three independent parts: grants of two managers over one file,
the four calls of `applyUpdate` with a failure or death at each, and archive
entries as sequences of names, normalised by a recursive function over their segments.

### ManifestCompiler, WorkspaceGraph, Profiles, SkillResolver, AdapterExport

`ManifestCompiler` reads directories one by one (`ScanDirectory`), validates
references, searches cycles depth first on an explicit stack (`SearchFrom`,
`NextDependency`, `LeaveSkill`), writes, and is checked again after edits. Front matter
that does not parse is a diagnostic in a directory with a manifest, and ends the whole
compilation with an exception in one without (`ThrowAtDirectory`). A directory is
a record of what its manifest may say; a call takes the dependencies of its skill in
any order, as manifests may list them in any. The loops of `loadFromRegistry` are
recursive functions.

`WorkspaceGraph` walks directories in any order readdir may give, with the depth
and package limits tested where the code tests them. The guard against links out of the
repository compares strings, so a link to a directory beside the root whose name begins
as the root's does is followed (`Inside`, `Begins`). `Profiles` keeps both
schema forms of a document, and profile.json with overrides in insertion order.

`SkillResolver` has one action per stage of `resolve`, and one per turn of the loops
that change more than a list: `ScoreCandidates` (evidence, suppression, synergy,
enforcement, scores), `CloseOverDependencies`, `SettleConflict` (one conflict of one
skill, with `NextSkill` and `EndConflicts`), `AdmitMandatory` and `AdmitOptional` (one
cluster at a time, the second within the limits, with `EndMandatory` and
`EndOptional`) and `AddBase`. Dependencies and conflicts are lists, in the order of the
manifests; `turn` is where the two loops over conflicts are, since a skill that has
been removed is passed over, but one removed by its own conflict goes on to the next of
them. `closure` keeps the order of the map, `remaining` what no conflict has deleted.
What a regular expression finds is the evidence of the request; scores are the code's
numbers.

`AdapterExport`: a file's content is which skills and which versions it shows, with
its header and its line ends; one export is one step, since it runs under the lock
and commits one journaled transaction. The five pruning rules, the records of lockfile
v2 (`.agents/lockfile.v2.json`) and the drift check are the code's. A user's own file
may have any name, that of an output included, carry the phrase by which two rules
know a generated file (`Phrased`), and be called managed by the old lockfile
`contextos.lock.json` (`Managed`, `v1`).

### How the modules fit together

`Forecast` is composed with `Corpus` (proved to implement it), `LockCallers` with
`ProjectLock`, `JournaledTransaction` with `AtomicUpdate`. The rest of ContextOS
meets at two interfaces that have modules of their own: a transaction is one step
in `LockCallers`, `Plugins` and `AdapterExport` because `JournaledTransaction`
implements `AtomicUpdate`, and the work under the lock is one step in `Plugins` and
`AdapterExport` as long as `ExclusionUnlessRaced` gives exclusion.

## 3. Runs, bounds and fairness

| Run | Instance | Shows |
|---|---|---|
| `task_queue` | either tasks of one worker (one affordable and one without a handler, or one of three steps with room for two), or one of two steps and two workers; a canceller, one death or failing commit, two call limits | the ledger of a task with one worker is exact but for one step whose charge was lost for good, with two it never overstates; after an acknowledged cancellation a lone worker executes at most one step, unless it claims the task over the cancellation; a RUNNING task settles, unless its worker died or lost a commit |
| `task_queue_hijack` | two workers on one task | violated: both execute it |
| `branch_memory` | two scenes, two revisions each; either one request at a time over all texts, forced or not, or two that overlap on scenes that act on a secret and cancel it, where only the second scene has several revisions and none is forced on a failed validation | replay is the last word; why an accepted scene can come to stand on a memory its text fails |
| `branch_shared` | two concurrent requests, one scene, three revisions | numbering, the way in for an unsound text, effect of revisions |
| `branch_two_accepted` | one request at a time, three revisions | violated: two accepted revisions |
| `branch_rejected` | one revision | violated: a rejected scene accepted |
| `journal` | two files (one in a directory) and the directory, three operations, two failing calls, one edit, one crash, one recovery | refinement of AtomicUpdate; originals, pending transactions, directory |
| `journal_recover` | two operations, crash, recovery | violated: ROLLED_BACK with changed files |
| `forecast` | three calls of the importer and the updater, over two chapters of one or two scenes and two manifests, in every overlap; any one of them beside one forecast and one search with two boundaries | edits kept, edits of one version compose, index freshness, no later scene shown, stored candidates verified |
| `forecast_bleeds` | one edit, cloning, chapters that may be empty | violated: an empty chapter's boundary |
| `locks` | either two commands (overrides of one scope or two, a removal, another profile, two exports) and the daemon, one change, one death at any call; or two lease holders, three tokens, a clock of two time to lives | who can hold at once, what overlapping commands undo, and that a change, an interrupt and a lost lease are noticed |
| `context_os` | one stage per behaviour: export (two skills, two halves of the six adapters, two edits), resolver (five skills, 8 200 requests), compiler (three skills, any requirements and conflicts, pairs of odd directories), workspace (eight directories and three outside them, six links or none, three starts), profiles (documents in both forms, three scopes), plugins (two processes, two plugins, three commands, one edit), grants, swap, archive entries, event stream (two writers, three events, two damaged files), idempotency key (two requests, two payloads) | what section 1 calls right of each of them |

**One run, several loads.** `MCTaskQueue`, `MCLocks` and `MCContextOS` choose in
the initial state which load or which part a behaviour is about, and the rest stands
still. The parts share no state, so a run of several of them checks exactly what
separate runs would. `forecast` bounds what meets: `OneEditNextToRequests` lets a
request start only as long as one edit at most has been begun, and the other way
round; without a request three edits overlap freely.

**Why the bounds are enough to be interesting.** Two sessions are the fewest that
race, and each race in the code is between two. Two steps with a call's limit above the
task's own let a worker lose an update and still reach the budget check again. Three
operations on one file, its neighbour in a directory and the directory include
the same path staged twice and a directory recreated and deleted; two faults let
the rollback itself fail after the failure that caused it. Three editors allow
two that overlap and one that follows, or an import between two edits. In
`forecast` one scene of context, one query and one result each can still come
from a different index, and the edit can land between any two of their steps.
Two commands and the daemon give a dead holder, a fast and a slow reaper, which is
what the reaping race needs. A lease of one tick and a clock of two let it
expire, be taken over and expire again. Three skills contain every cycle up to
three and every diamond's half; seven package directories under two levels with a
limit of three packages pass it on the way in and out. Three plugin commands are
install, change and remove; the second process overlaps any of them.

**State constraint.** `journal` uses `CONSTRAINT Undisturbed`: TLC does not expand
states after a user's edit during the apply or after a recovery, of which the
properties of the run promise nothing. `journal_recover` has no constraint.

**Symmetry.** Sessions, editors and file contents are interchangeable where a run
declares it; none of those runs checks liveness.

**Deadlock.** Branch requests never end, so deadlock is checked there. Elsewhere
requests, calls, commands and tasks are finite and the system may stop, as the real
one does when it is idle: those configurations say `CHECK_DEADLOCK FALSE`.

**Fairness.** Four properties need it.

- `RunningSettles` (`TaskQueue!Fairness`): each worker's next step and each
  canceller's commit are weakly fair. A handler that has entered the cycle runs
  on a thread of its own to its end. A request that is not made, an exception, a failing
  commit and a death are never forced; the last two are excused (`stranded`), since
  no code takes up the task that such a worker leaves RUNNING.
- `ChangeIsAnswered`, `InterruptIsHeeded` (`CallersFairness`): a process that runs,
  runs on (weak fairness of its next step inside `acquire`, the work and `release`), and
  node's loop handles the file event, the timer and the signal once it is free. Nobody is
  forced to start a command. Both properties end at a lock file whose creator died
  before it wrote its payload (`Orphaned`): nothing in the code removes that file.
- `LoserLearns` (`LeaseFairness`): the heartbeat interval fires as long as the
  instance believes it holds the lease, and a call that was begun returns.

## 4. What is proved

`tlapm` checks every proof below to its leaves, from the named assumptions in
the modules only (types of the constants, `NoTask` not a task, bounds that are
numbers, that a healing text clears its fact and nothing else, a finite set of
processes with the daemon among them, that no skill has the name of an output's
index, that a repository's links lead to directories of it or to its root, that the
skills the resolver's code names are among its skills).

| Theorem | Statement | Argument |
|---|---|---|
| `TaskQueueProofs!TypeCorrect`, `NeverOverstates`, `WithinBudget` | for any tasks, workers, cancellers | copies never overstate either; between the check and the charge the copy the worker charges has room for the step |
| `SoloLedgerExact`, `SoloSpendWithinBudget`, `SoloCancelStopsWork`, `SoloCompletedIsWhole` | of every task that only one worker may be asked to run, whatever the other tasks share and whoever dies or loses a commit | `SoloInv`, task by task: only the serving worker changes the cost, its copy of the cost is the row's; what was spent is what was charged, the charge in flight and what was given up; once a cancellation was answered, the worker is in one step at most or has claimed the task over it |
| `BranchScenesProofs!TypeCorrect`, `NumberingContiguous`, `HistoryOnlyGrows`, `RevisionIsReplayed`, `NeverUnsoundUnforced` | for any number of concurrent requests; the last if no request forces | `IInv`: revisions have no gap and a job in flight names at most the next number after those stored, so the unique key turns a race into a refused INSERT; without forcing, whoever is about to accept has found its text sound, and no text changes |
| `BranchScenesProofs!SupportLostOnlyByCause` | `SupportLost`, for any number of concurrent requests, forced or not | a text in flight to be accepted stands on the snapshot it was validated on, or its request forces; when the memory before a scene and the snapshot are both the same as before, so does the scene |
| `BranchScenesProofs!SnapshotIsLastWord` | `ReplayIsLastWord`, for any scenes | the recursive function `Memory` unfolds at every ordinal; the least ordinal at which a fact would not be the last word contradicts its own step |
| `JournaledTransactionProofs!TypeCorrect`, `NothingIsLost`, `FolderRestored`, `HalfDoneReported`, `PreconditionsHeld`, `ImplementsAtomicUpdate` | for any files, contents and bounds | `Inv` relates disk and backups to `trail` at each point of apply and rollback: after k operations the disk is `trail[k+1]`, and reverting k restores `trail[k]` |
| `ForecastProofs!CorpusTypes`, `EditsAreKept`, `ImportsAreIdempotent`, `OverlappingEditsCompose` | for any number of calls | `CInv`: dates of versions and drafts are distinct and below the clock, a draft under the lock differs from its base at its chapter only, and while no two calls have overlapped the only call in flight is based on the latest version |
| `ForecastRefinesCorpus` | every behaviour of Forecast is one of Corpus | each step is an editor's step or leaves the corpus alone |
| `ForecastTypes`, `IndexesAreFresh`, `NoFutureIsShown`, `CandidatesAreVerified` | for any requests, searches and edits | `FInv`: sources, prompt and indexes in hand lie within the cutoff of the version as long as neither drifted nor outdated; an index in the cache is fresh, or its version is about to be cleared, or outdated |
| `LockProofs!LockTypes`, `LockIsExclusive` | for any number of commands beside the daemon and any number of deaths | `Guarded`: whoever goes to reap has read a dead process's payload, and until another lock is reaped the file is that of the live process past the creation, so there is one; `Counted`: a process about to write the lockfile has read the revision before its own |
| `LockProofs!OverridesAreKept` | the same, also after exclusion was lost | `Overlapping`: whatever a command's copy of profile.json lacks had been undone when it read the file; no fact about the lock is needed, which is why it cannot help there |
| `LockProofs!LeaseTypes`, `LeaseIsExclusive` | for any number of instances, any time to live | until `mixed`, an instance that trusts its lease is the one the file names, with the expiry it believes in; tokens belong to who generated them |
| `StoreProofs!RegistryTypes`, `KeyStartsOneJob` | for any number of requests and payloads | until something excuses it at most one request is busy, and only while there is no record |
| `StoreProofs!PluginInvariance`, `RegistryMatchesDisk`, `EditsKept` | for any plugins, commands and edits | `PluginInv`: a digest is of content that was made, every covered edit differs from the digest that each command in flight compares with, and until commands overlap or one dies in its last write a command works on the registry it has read |
| `StoreProofs!NormalPathIsRight`, `BundleInvariance`, `BundleSound` | for any managers, grants, contents, and paths of any length | `Normal` after n segments is as many `..` as the path has left its directory, followed by names; `Kept`: where the old and the new tree are at each step of the swap |
| `StoreProofs!EventInvariance`, `ReplayRestored` | for any number of appends, snapshots and damaged files | `EventInv`: without overlap the files are in the order of the appends, a snapshot holds a prefix of them; the replay loop keeps the order by induction over the listing |
| `LibraryProofs!StoredInvariance`, `StoredProfileIsConsistent`, `ProfileInvariance`, `EveryScopeStandsAlone` | for any library of profiles, scopes, places and overrides | an override per scope, so that adding or removing one keeps the order of the others (`SameOrder`), hence the first that matches any other place |
| `LibraryProofs!ExportInvariance`, `ExportedRecordsMatchDisk`, `ExportSparesUserFiles` | for any adapters, skills, profiles and edits | `ExportInv`: each record has a registered generator and its file what was recorded, unless touched or swept; an export settles its own adapters and leaves the others' records; `Placed`: each record is of an output of a registered adapter, so no rule prunes a user's file that is none (`Claimed` says which are) |
| `LibraryProofs!CompilerInvariance`, `GraphSoundness`, `StalenessDetection` | for any directories, dependencies in any order | `Search`: the stack is a chain of requirements, what is visited is closed and starts no cycle; a chain that would loop back is shortened at the least place at which it leaves the visited |
| `LibraryProofs!FilingInvariance`, `RegistryComplete` | the same, and the catalogue | `FilingInv`: each directory scanned is filed or reported; the rule table names the last skill in lexical order, and the loop of `loadFromRegistry` registers that rule when it comes to that skill and never again (two inductions, over skills and over the rules of one) |
| `LibraryProofs!WalkInvariance`, `LimitReported`, `NearestPackageFound` | for any repository, links, limits and order of readdir | `WalkInv`: what was seen has its package, a directory whose parent was seen was seen or is still on some open call's list, packages are of different directories, and after the limit each open call adds one at most |
| `ResolverProofs!ResolverInvariance`, `LoadedClosed`, `LimitsKept` | for any skills, graph of dependencies (cycles included), conflicts, evidence and limits | `ResolverInv`: before the base skills are added, what is admitted is closed under the dependencies the profile leaves, without repetition, and costs what was counted; what was asked for is in the closure or was reported as losing a conflict; an optional skill is admitted within both limits or as a requirement of a mandatory one (`Forced`). It rests on `DepsAre`: the breadth-first search of `getTransitiveDeps` ends with a closed set, since every step after the first takes a skill of its own from finitely many |

`NoFutureIsShown` rests on `NoLaterChapter`: a scene numbered at most the number
of a chapter's last scene is in that chapter or an earlier one, for every version.
The inductive invariants were first checked as invariants of a run.

**Induction.** The library's induction theorems take an operator as a parameter and
cannot be used. What is about loops and recursive functions over numbers is proved
by a least counterexample instead: `LeastOf` (of LibraryProofs and ResolverProofs;
StoreProofs and BranchScenesProofs do the same) says that a set of natural numbers that is not empty
has a least element. The recursive functions are shown to exist the same way, which is
what lets their definitions unfold. Loops over sequences in the modules with
theorems are therefore recursive functions, not folds.

**What the proofs changed in the models.** Some attempts failed for a reason in the
model. The cycle search took dependencies in lexical order and takes them in any
order now, as the code does in the order of the manifest; `RealDir` followed one link and
follows links inside linked directories; an edit is covered by `UpdatesKeepEdits` only
with the plugin's source marker on disk (section 6). The resolver settled all conflicts in one
step, in lexical order; it takes them one by one now, in the order of the manifests,
and `LimitsHold` says that the counted tokens are those of the list that was returned,
in which no skill occurs twice. It says of both limits that only what the mandatory
skills require may pass them, and of the budget that passing it is warned of, and only
then; passing `maxSkills` warns of nothing.

The type invariants, `SpendWithinBudget`, `CompletedIsWhole`, `LedgerWithinBudget`,
`HistoryKept`, `VerifiedBeforeTouching` and `ImportedOnce` are stated in the modules
and proved; no run repeats them.

Only model-checked: liveness (`RunningSettles`, `ChangeIsAnswered`,
`InterruptIsHeeded`, `LoserLearns`), which needs ENABLED. Every invariant and every
action property of a passing run is the statement of a theorem. The five properties
that the code violates have no theorem, of course.

## 5. What the code does against its documentation

| Run | Code | Document |
|---|---|---|
| `task_queue_hijack` | queue.py:111 reads, 137 commits: two requests that read QUEUED both run the task | queue.py:112 "do not allow second worker to hijack running task" |
| `branch_two_accepted` | branch_service.py:256 supersedes only the revised scene, if accepted | :138 "Atomically supersedes any previous ACCEPTED revision for the same scene_ordinal." |
| `branch_rejected` | accept_scene ignores the status | :208 a rejected delta "will NEVER alter branch memory" |
| `journal_recover` | ctx.js:797 passes operations without resolvedPath and, after a crash in the apply loop, none as applied | journaled-transaction.js:11 "atomicity or complete rollback", ctx.js:805 "rolled back cleanly" |
| `forecast_bleeds` | resolver.py:101 uses a chapter's ordinal as a scene number when it has no scene | README.md:54 "Future events ... cannot bleed into prospective runs." |

Further disagreements, seen in the models but without a run of their own:

- ipc-lock.js:241 "Stale owner can NEVER delete a new lock" and the "monotonic
  fencing tokens": the token is compared, then the file is unlinked, and a heartbeat
  may rewrite the record of a takeover; `LeaseExclusive` holds up to such a step
  (`mixed`). watch.js:7 "guarantee single-writer safety" holds up to the reaping race.
- rule-catalog.js:95 says that front matter which does not match fails closed; the
  mismatch can never be reported, because the title has been added as an alias before
  it is compared.
- plugins.js:760 says that removal keeps modified files; a second removal deletes the
  SKILL.md that the first one kept. plugins.js:5 says that npm packages can be
  installed; the pinning check refuses every reference that the npm branch would take.

## 6. Other behaviour met while modelling

The models contain most of this; no property forbids it, since nothing in the
repository promises otherwise or the behaviour is part of what a property excludes.

- Task queue: a cancellation between the read and the claim, or after the last
  check, is overwritten by RUNNING or COMPLETED, and in the first case every step is
  executed (`CancelStopsWork` names that case, `missed`); a task whose worker died
  stays RUNNING, and so does one whose worker's commit failed inside the try, since the
  except branch commits without a rollback (queue.py:180-183); two workers together can spend past the budget while the ledger
  does not show it.
- Branches: an accepted scene stays accepted when an earlier scene changes under
  it, and one validated on a memory that has changed by its commit is accepted
  (`SupportLost`); rollback_injury accepts a text that its own validator may refuse; revise_scene validates without the citation check of accept_scene and leaves
  an old draft a draft; revising a revision that is not the latest fails on the
  unique key; two concurrent acceptances leave two accepted revisions; the
  ordinal chosen by rollback_injury can be taken meanwhile. A reject that read the
  row before a forced acceptance overwrites the delta (and the mark of the override)
  of a scene that stays ACCEPTED; an acceptance of a row that was ACCEPTED when it was
  read writes no status, so a concurrent supersession or rejection wins.
- Journal: `recover --continue` fails, or commits a plan of deletions without
  deleting; recover takes no lock and works on a live writer's journal; after
  RECOVERY_REQUIRED it never succeeds while a backup exists; a torn journal makes
  it throw (ctx.js:795); no caller passes expectedBeforeHash; a rollback leaves
  directories that were created.
- Corpus: two overlapping updates that clone the same version keep one of the two
  edits in the latest version; an unchanged manifest returns its old version though
  a later one exists; two concurrent first imports make two works.
- Forecast: an in-place edit shifts discourse_seq under a resolved cutoff and under
  persisted ones; the cache is tested and read in two steps (engine.py:137, 138), so
  a clear in between raises KeyError; a failed commit leaves its run RUNNING because
  the FAILED commit is attempted without a rollback (engine.py:289-297); a synthetic
  candidate's citation violation is overwritten by not_checked (245-247).
- Project lock: a process that dies between creating and writing the lock file blocks
  every later command; `process.exit(1)` in a catch skips the finally that releases
  the lock; `doctor --fix` unlinks a stale lock without a token.
- Event store and registry: replay skips the second of two events of one revision; a
  record that cannot be written is swallowed, so the job is started again.
- Plugins: two overlapping commands can put back the entry of a plugin that was
  removed, without its source marker; if the user has edited the SKILL.md that the
  removal kept, the next removal deletes it by its name. TLC's contents are too few
  to show it, the proof of `EditsKept` did, and `UpdatesKeepEdits` therefore
  covers an edit only as long as the plugin is on record with its marker.
  CONFLICT_LOCAL_MODIFICATIONS.md keeps the digest different, so updates
  stay blocked until --force; removing and adding overwrites an edit that the removal
  had kept; applyUpdate throws although the new tree is in place when deleting the
  backup fails.
- Export: `export cursor` alone sweeps the generated skill files of other adapters
  (pure-compiler.js:378-402) while their records stay; the drift check of one adapter
  reports the others' records as ORPHAN; the lockfile's profile and source graph hash
  are never updated after it is created, which gives a PROFILE_MISMATCH;
  LockfileV2Manager.write is called by nothing.
- Export also writes over a user's file at the path of an output, and prunes one in the
  generated skills directories, or with the phrase of a generated file in `.cursor/rules`
  or `.zed/prompts`: `UserFilesSurvive` is about all the others.
- Resolver: a skill that lost a conflict can come back as a dependency, and is then
  both selected and excluded; enforcement looks at the explicit phase or 'Build',
  not at the derived one; base skills ignore maxSkills; the token total counts base
  skills with other estimates.
- Compiler: front matter that does not parse, in one directory without a manifest, makes
  `compile` throw instead of report (manifest-compiler.js:699); a front-matter title can take another skill's id as an alias; a directory
  without skill.yaml is not validated, silently replaces a skill of the same id, and
  is hashed by its parent directory, so that its edits leave the registry fresh; the
  registry and its .sha256 are written separately, and nobody reads the latter.
- Workspace graph: a link to a sibling of the root whose name begins as the root's does
  passes the escape guard (workspace-graph.js:240); declared workspaces have no effect; truncation by depth is not
  reported as partial; the package limit is passed by one per open level; files are
  taken relative to the repository root even when the build started below it; a
  directory with setup.py only is no package; `require (` in go.mod adds a dependency
  named "("; the fingerprint ignores roots and configs.
- Profiles: validation and `explain` read the v2 lists, while resolver, exports and
  doctor read the v1 lists; the first matching override in insertion order wins, not
  the most specific; the third step of the lookup uses a field that does not exist, so
  only the '.' override is found that way.
- `skill diff` (ctx.js:658) always prints "No diff": it
  reads `hasDiff`, and diff() returns `isDifferent`.

## 7. Not modelled, and the plan

Pure text work (parsers, normalisation, BM25 scores, prose checks), floating-point
scores, configuration, presentation (API, CLI, front end), provider SDKs and
signatures are out of reach or have no behaviour a model would add to. Character
offsets, prompts' layout and the memory, canon and precedents inside a prompt are
abstracted away. Doctor, statistics and path checks are stateless but for doctor's
repairs. In the modelled parts the following is left out: pid reuse and a failing
write of the lock's payload; the Windows branch of tryAcquire; the patterns of the
content scan, sizes and ratios of archive entries; the YAML subset, deprecated ids,
the package map and SARIF output; domain, phase, role and lenses of a resolution;
manifest parsers, languages and the fingerprint of a workspace; stack detection;
colliding output paths and file modes; creation of the first project and work.

Two hazards have no property: an edit between the journal's precondition check and
its use, and `recover` on a live writer's journal (modelled, but promised nowhere).
That of the rate limiter waits for its module.

Plan:

1. `Memory`: evidence reducer, canon overlays and precedents under a cutoff, then
   composed into Forecast's prompt so that "nothing later is shown" covers it.
2. `RateLimiter` and provider retries; `Evaluation`: greedy matching against the
   maximum one; `ArcPlan` once an endpoint updates a plan.
3. Doctor's repairs as another caller of the project lock; plugin commands composed
   with `LockCallers`.

Proofs to come: those of the modules of the plan; and that `Forecast`'s lemma on
chapters extends to what memory shows.
