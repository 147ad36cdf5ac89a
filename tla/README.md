# NextNowX in TLA+

NextNowX (`nnx`) keeps projects, features, tasks, their dependencies, documents and pull
requests in one SQLite database. Command-line processes and a long-lived server (`nnx serve`)
work on the same files; browser tabs talk to the server through ConnectRPC and are told when the
data changes; pull requests are refreshed from GitHub now and then by whoever happens to run; on
macOS launchd keeps the server alive. Nearly every hard question of the program comes from *many
processes, a few files, no coordinator*. The modules here model that, and this page says what was
checked, what was proved and what is left.

Paths are relative to `src/`. `PROJECT.json` names, for every definition, the lines of the code it
models (`map`), for every hazard of the code the properties about it (`hazards`), and for every
property a slip that makes it fail (`mutants`).

## 1. Inventory

| Component | State it keeps | Operations | What makes it hard | Modules |
|---|---|---|---|---|
| **Store** `internal/store/repository.go`, `internal/db` | tables, `id_sequences` | some thirty operations of several SQL statements | cascades against `ON DELETE RESTRICT`, failures between statements, IDs that must never come back | Store, StoreHistory, Transactions |
| **Opening** `internal/store/store.go`, `internal/datadir` | directories, files with a WAL, `schema_migrations` | move, rename, repair, migrate | every command does it by itself, several at once, and may die in between | Opening |
| **Graph, status** `internal/domain/graph.go`, `status.go` | none | `CyclePath`, `TopologicalOrder`, `Derive` | pure, but fed with seven queries that no transaction holds together | TaskGraph, Derivation, Snapshot |
| **Service** `internal/app/service.go`, `archive.go`, `project.go`; handlers and commands | none of its own | some thirty requests | guards are read outside the transaction they guard; updates write whole rows read earlier | Requests, Service |
| **Revision notification** `internal/revision`, `internal/rpc/revision.go`, `web/src/hooks.ts` | baseline, revision, channels of capacity one; a tab's cache | poll, publish, send, reconnect, refetch | lost, merged and repeated messages, restarts, a counter that wraps, own writes | Revision |
| **Sharing** `web/src/revision-share.ts`, `refresh-gate.ts` | lock, channel, counter of streams | elect, relay, close, hold back | tabs that close at any moment | Sharing |
| **Automatic refresh** `internal/app/github_auto_sync.go` | the row `github_sync_state` | acquire, start, finish | several processes find the interval over at once; late results; dead holders | AutoSync, AutoSyncHistory |
| **Pull request refresh** `internal/app/github_sync.go` | rows of `pull_requests`, `repository_auth_cache` | snapshot, fetch, persist | seconds of network between read and write, overlapping runs, partial failures | PullRequestSync, Credentials |
| **GitHub provider** `internal/github` | none | GraphQL with pages and chunks, REST | two routes to the same facts, answers in parts | PullRequestFacts, Credentials |
| **Run state** `internal/runstate` | `serve.json`: flock and content | `Acquire`, `Write`, `Release`, `Read` | a momentary reader against a starting server; crashes that leave a record | RunState |
| **serve, daemon, open, setup, launchd** `internal/cli`, `internal/daemon`, `internal/launchd` | the LaunchAgent | start, stop, restart, install, wait | launchd restarts only what failed; stop races start | RunState |
| **Update check, self-update** `internal/app/update.go`, `internal/update` | one row, the binary | check, skip, install | overlapping checks, a binary replaced under its server | Update |
| **Configuration** `internal/config` | one file, one lock | some twenty updates | writers that die, hand edits, defaults that must not be written out | Config, ConfigFile, ConfigAtomic |
| **Prompts** `internal/app/prompt.go`, `internal/prompt` | overrides | the two requests for a prompt | five reads at five moments | Prompts, Snapshot |
| **Task labels** `internal/domain/task_labels.go` | overrides in three scopes | update, show, read back | a word may come to mean two states | Labels |
| **Diagnostics** `internal/app/debug.go`, `internal/domain/debug.go` | none | one report | problems that hide each other, read while they change | Diagnosis |
| Demo data, domain types, pickers, generated code, build | none | | | none, see section 7 |

How they interact. A command or an RPC handler makes one **Service** request, which reads through
and commits to the **Store**. A commit of another connection changes `PRAGMA data_version`, which the
server's **Watcher** polls; one tab of a browser holds the stream and **shares** what it hears; tabs then
refetch a **Snapshot**. Commands, page loads and manual refreshes ask **Automatic refresh** for leave and
then run a **Pull request refresh**, which picks **Credentials** by the **Configuration** and writes through
the Store. `serve` takes the **Run state** lock before it opens the database; `daemon`, `open` and `setup`
read the run state and ask **launchd** to act. An **Update** replaces the binary under the server.

## 2. Modules

Modules build on each other where components interact: `Store` is extended by `StoreHistory` (a history
variable), by `Transactions` (the same operations, statement by statement), by `Requests` and `Service`
(the layer above, which calls the store's actions) and by `Snapshot` (who reads it). `Config` is extended
by `ConfigFile` and `ConfigAtomic`. The other components share no variable that a property of two of them
would need; their modules take the rest of the program by what it can do to their state.

**TaskGraph, Store, StoreHistory.** A table is a function from IDs to rows; columns that no property tells
apart are one column `body`. One operation is one action, and one that SQLite refuses is a disabled action.
`DeleteFeatureContents` deletes dependencies by their blocker only, as the SQL does. `TaskGraph` states
`CyclePath` and `TopologicalOrder` by what they compute. `StoreHistory` adds the IDs ever issued.

**Transactions.** The operations as the Go code runs them: `Begin` looks up its IDs and takes `BEGIN
IMMEDIATE` where the code does, `Execute` runs one SQL statement on tables that nobody else sees, `Iterate`
is the next turn of the loop over a project's features (in any order: the code's is by their last change, which the
tables here leave out), `Commits` publishes them, `WriteAlone` is a statement outside a transaction after lookups that may be old,
`Fail` an error, a cancelled context or a dead process between any two. The property
`TransactionsAreAtomic` is the **refinement of Store**: each step is a `StoreNext` step or a stutter. It is
what entitles all the other modules to one action per operation.

**Requests, Service.** `Requests` says which messages the handlers make and which commands the CLI makes,
with the columns each names. In `Service` a process runs a request through the guard queries, one step
each, and `Commit`; between any two the other process may run. `Keep` records the row an update has read;
`Apply` hands it to the store, whole where the code writes whole rows (features, projects, tasks), by named
column where the SQL uses `COALESCE` (documents). `overtaken` is a history variable: the processes whose
request was in flight when an archived flag was set.

**Derivation, Snapshot.** `Derive` and its kin as operators on a snapshot. `Snapshot` reads it in seven
queries with commits in between, for a tab that refetches and for `GetBatchPrompt`. `lasting` collects
what was true at every moment of the reading: the unfinished tasks, and the dependencies they wait for. A feature's
status may be set by hand, and is then shown as it is.

**Revision, Sharing.** The database is the number of commits; `DataVersion` wraps at `Width`. A stream is a
channel of capacity one (`slot`), the revision its handler took and one message on the `wire`. In `Sharing`
the stream reports every change (that is what `Revision` shows), and the question is who holds it: the
lock, the channel, tabs that join, close, crash or hold a refetch back, and the server's counter of streams.

**AutoSync, AutoSyncHistory.** The row relative to the present: `age` of the last attempt, `owner` of the
run_id. A call reads the clock, may wait for the database up to `MaxWait`, and its statement then uses the
clock it read. Owners that no longer run are `NoRun`.

**PullRequestSync.** A refresh takes the rows (`Take`), fetches a group at a time (`Fetch`) and writes
answers one by one (`Persist`); `Attach`, `Detach`, `DeleteTask` and `Stop` come in between. An answer is
whole, partial or none.

**Credentials.** How that answer comes about: the order of the methods, the cached one first, batches by host,
chunks of GraphQL, the fall-back to REST, classes of errors that make the next method worth trying. A `world`
is what GitHub and the environment say (external).

**PullRequestFacts.** What one fetch makes of one pull request by either route, in requests and pages
between which the pull request changes or which fail, and what `status.go` shows of the stored fields. A review keeps
its place in GitHub's list, the time it was submitted at. `Nullable` are the fields that GraphQL may leave out.

**RunState.** `serve.json` is an inode with a flock and a content. A server tries the lock (`Locks`,
`TriesAgain`, `Refused`), truncates, opens everything else, records itself, serves, and on its way out empties
the record, unlocks (`Unlocks`) and exits (`Quits`). One that gets SIGTERM while it starts may fail by it (`Interrupted`).
`Crashes` frees the lock and leaves the record. A managed server that fails waits
ten seconds first. launchd is `job` and `wanted`. A command probes the lock shared, reads the content when
the lock is held, and then acts; `Installs` is `nnx daemon install` and the end of `nnx setup`, which boots
the old job out and a new one in, and `SetsUp` and `Skips` are setup's choice. `met` says that a reader a
server met is out of the way before the server's next attempt 20 ms later. A process id is reused only when
nothing remembers it.

**Config, ConfigFile, ConfigAtomic, Prompts.** `Config` has every update of the configuration as a set of
results (empty when refused), normalisation, and what is left out of the file. `ConfigFile` is the lock, the
read, the temporary file and the rename, with processes that die and people who edit without the lock.
`ConfigAtomic` is what that promises: an update is one step. `UpdatesAreAtomic` is the **refinement**
(`Abstract == INSTANCE ConfigAtomic WITH ...`). `Prompts` follows the reads of a request for a prompt,
during which the task, its feature, or a project with all it has may be deleted.

**Opening.** Every command moves the directory of the old prx, renames the database and its WAL, repairs
schemas whose version numbers another branch used, and migrates. `Places` and `Databases` are what the first
new build may find.

**Update.** Tabs ask for a check (row, request, record), installers replace the binary, the server's watcher
notices, launchd restarts it if it runs it. `server.agent` is the plist on the disk, `server.managed` who runs the server;
the LaunchAgent is neither installed nor removed during an update.

**Labels, Diagnosis.** Overrides by scope and what a typed word resolves to; the sections of the report in
the order they are read, each of which fails by itself (`Unreadable`, `Reachable`).

Definitions described as *slips* are variants of the definition below them. No action uses them; putting one
in place of its neighbour makes the property that is about it fail.

## 3. Runs

| Run (module, cfg) | What it asks | Distinct states | Time |
|---|---|---|---|
| MCCommits | `TransactionsAreAtomic`, `ValidateClean`, `CascadesSucceed`, `IdsNeverReused`; of Revision `NothingPublishedIsLost`, `ChangesArrive`, `StallReported` | 176,909 | 1 min |
| MCService | `ArchiveWall`, `DocumentColumnsIndependent`; of Sharing `TabsSettle` | 383,062 | 1½ min |
| MCRefresh | of AutoSync `NoOvertakenResult`, `GrantsSpaced`, `HolderRecords`, `GrantsResume`; of Credentials `EveryOutcome`, `CacheWorks`; of PullRequestSync `ErrorsNeedAttention`, `Converges` | 1,079,007 | 3 min |
| MCSettings | of ConfigFile `UpdatesAreAtomic`, `ImplicitStaysOff`, `DefaultsFollowLanguage`, `RequestsEnd`; of Prompts `PromptsAreWhatStood` | 133,535 | 1 min |
| MCOpening | `AppliedOnce`, `WorkIsKept`, `Opens`; of RunState `OneServer`, `RecordIsTheHolders`, `StopMeansGone`, `ServerReturns` | 625,709 | 3½ min |
| Update | `OneCheckAtATime`, `ReportsAreTrue`, `UpdateArrives` | 556,460 | 2 min |
| MCShown | of Snapshot `ShownWasSo`, `BatchesAreClosed`, `TabsConverge`; of PullRequestFacts `RoutesAgree`, `ChangeRequestsStand`; `LabelsMeanWhatTheyShow`; `ReportTellsTheTruth` | 535,743 | 2 min |
| MCFacts | *violated:* `WhatFailsIsKept` | | |
| ServiceArchiveFlag (MCService) | *violated:* `ArchivedOnlyByRequest` | | |
| PullRequestIntent (PullRequestSync) | *violated:* `RefreshKeepsIntent` | | |
| UpdateRestart (Update) | *violated:* `OthersAreTold` | | |
| DiagnosisNever (Diagnosis) | *violated:* `NeverMeansNever` | | |

`tlc -config MCCommits.cfg MCCommits`, and so on.

**Parts.** The MC modules but MCFacts put modules together that share no state. A variable `part`, chosen at first
and never changed, says whose steps a behaviour takes, so the state spaces add up and are not multiplied. Safety
properties lose nothing by it: each speaks of one part's variables, the others stand still, and TLC checks every step.
A liveness property needs more: a part that stands still must not break its own fairness, or every behaviour would be
left out. So the part that moves with a liveness property stands beside modules without fairness (MCCommits, MCSettings,
MCShown), or beside a state in which none of their fair actions can be taken: no tab yet, no row of a pull request, a
server that serves, and processes whose step (`"away"`) no action begins from (MCService, MCRefresh, MCOpening).

**What the properties say.**
- *Commits*: an operation of several statements is one step of the store or none, whatever else commits and
  wherever it dies; foreign keys hold and the graph has no cycle; a cascade is never refused half-way; no ID is
  given twice. A commit reaches every open tab; a tab whose channel and wire are empty has seen the current
  revision; a stall is reported.
- *Service*: nothing below an archived flag is written by a request that the flag did not overtake; columns of
  a document that a request does not name are left alone.
- *Refresh*: a run that a later one overtook does not write its result; grants lie an interval apart; whoever
  was not overtaken records; grants never stop for good. Every pull request ends with an answer or a reason, and
  without network faults with an answer whenever some method can read it.
- *PullRequestSync*: no pull request has two tasks; errors stand on stale, unfinished rows only; once
  GitHub and the users are quiet, rows come to show GitHub.
- *RunState*: one server; a record read under a held lock names its holder; the target of a stop that says so
  is gone or has nothing left but to exit; launchd's server comes back when it is left alone.
- *Sharing*: all tabs come to show all changes, and those that share the stream say that it is up.
- *Settings*: updates are atomic; implicit credentials stay off once any are listed; built-in templates
  follow the language; every request ends; a prompt is the nearest template of those that stood meanwhile.
- *Opening*: nobody's work is lost, no migration runs on a schema that has it, everyone who goes on trying opens.
- *Update*: one check at a time and no list lost; what is reported as done has replaced the binary, and a server
  left behind by an installation whose report says nothing of it runs where a LaunchAgent is installed (that it need not
  be launchd's is finding 4); a release reaches who looks.
- *Shown*: what a torn snapshot shows was not wrong all the while it was read, a batch has all its lasting blockers,
  and torn snapshots do not last; both routes to GitHub show the same (under `ReadAlike`, see 4); a standing
  request for changes is not taken back; a label is the one last asked for in the nearest scope, and typing it
  does not set another state; what was wrong throughout is in the report, or its section says that it could not be
  read, whichever of the reads fail; and of a machine that stands still nothing that is in order is named but what could
  not be read (a server whose run state, and refreshes whose state, the report says it cannot read).

### Bounds, and why they are enough
- **MCCommits**: three operations on two connections over two projects, two features (one of the second
  project), three tasks, a pull request and documents on each level: every operation meets every other in the
  middle, once before and once after a third. `Width` 3 with three changes returns `data_version` to 0 while a
  baseline is held; fewer than `Width` commits fall between two polls (2^32 in a second in SQLite); two failures
  allow a restart during a fault.
- **MCService**: three requests of two processes: the longest story that a guard can get wrong needs a request,
  the archiving that overtakes it, and one that changes what it had read.
- **MCRefresh**: two callers, intervals 2 and 3 (processes read the configuration separately and may disagree),
  waiting up to 1; `age` is capped at `Lapsed`, above which nothing compares differently. Two methods, three pull
  requests in two repositories, chunks of 2, one fault: a batch that breaks off in its first or second chunk.
- **PullRequestSync** (in MCRefresh): two tasks, two pull requests, two refreshers and three events; refreshes are unbounded.
- **RunState** (in MCOpening): three process ids, one client, one server from a user, two commands, one failure; `Attempts` is 3
  where the code has 5: what matters is that it exceeds the number of times one reader can be met.
- **Sharing** (in MCService): three sessions of which two live, two streams, one change, one drag, one mishap.
- **MCSettings**: a server and a command of different locales, two requests, one hand edit, one crash; two edits
  during one prompt.
- **MCOpening**: two processes, one of them setup, one crash, one run of an older build, six places and four old
  schemas; the versions that the code names. The proofs are for any number.
- **Update**: two tabs, one installer, three releases of which one is kept, one failure, one installation.
- **MCShown**: one feature, three tasks in a fan-in, two commits while one reader reads; features are completed by hand or by their tasks; two
  reviewers on pages of one, three events, two fetches, checks and review requests that GraphQL leaves out; two hosts, one with credentials and one with pull requests, and three changes, a read that fails among them;
  three states with two words, two updates.
  `OneReads` (a CONSTRAINT) lets one of the two readers of the snapshot read at a time: they share what they read
  and neither writes it. No liveness property depends on the reader it holds back.

Deadlock is checked in `Update`, where a server can always start and a tab always ask. Elsewhere bounded requests,
events or commands run out and a final state is legitimate.

### Fairness, and why the code justifies it
- Store, Transactions, Service, PullRequestFacts, Labels, Diagnosis, Prompts: none; only safety is claimed.
- **Revision**: weak for the ticker, `Heartbeat`, `Receive`, `Refetch`; strong for `Connect` (a tab retries for
  ever with a capped backoff while `data_version` is unreadable from time to time) and for `Send` (a Go `select`
  with a revision and a heartbeat both ready does not choose the heartbeat for ever).
- **Sharing**: weak for a tab's own progress and for a handler noticing that its tab has gone.
- **Snapshot**: weak for hearing of a change, the tab's queries and showing their result.
- **AutoSync**: time passes, statements are answered within `busy_timeout`, a refresh ends at its deadline, and
  callers keep asking, as every command does before it runs (`internal/cli/root.go`).
- **Credentials**: weak for its next step, which is always a bounded request or a loop's next turn.
- **PullRequestSync**: a call in progress goes on; a refresh is started infinitely often by *some* caller (strong).
- **RunState**: launchd does what it was asked to; each server and each command makes progress.
- **ConfigFile**: weak for every step of a request, strong for getting the lock (flock wakes its waiters).
- **Opening**: weak for a command's steps, and for someone starting and ending commands.
- **Update**: weak for the interval, the watcher, the server's start, tabs that ask and installers that run.

Crashes, failures, users, commits and repairs are never fair.

Exemptions are conjuncts of the properties and not of the models: `ServerReturns` speaks of runs in which launchd
is left alone; `ChangesArrive` exempts a tab inside the window of a write of its own, as `docs/design/webui.md` does;
`Converges` exempts completed features; `ArchiveWall` exempts requests that an archived flag overtook
(`docs/design/archive.md:14`); `TabsSettle` exempts tabs that were denied the lock; `ReportTellsTheTruth` exempts
problems whose section says that it could not be read (`Unknown`, `TakenFor`), and nothing else; `AppliedOnce` and `Opens` speak of
databases without another branch's records.

## 4. Where the code and its documents disagree

Five runs end in a short trace of a disagreement (`findings` quotes the sentences).

1. **ServiceArchiveFlag**, `internal/app/service.go:177`. `UpdateFeature` writes the whole row it read. An edit of a
   body that overlaps an archive request writes the old flag back, so a feature that was archived is open again.
2. **PullRequestIntent**, `internal/app/github_sync.go:180`. A refresh writes back whole rows that it read before
   fetching: a pull request detached meanwhile is attached again.
3. **MCFacts**, `internal/github/graphql.go:310`. A GraphQL answer whose check rollup was refused is stored as
   "no checks", although `docs/design/github-sync.md:50` keeps the last successful state; the REST route keeps it.
4. **UpdateRestart**, `internal/domain/update.go:136`. Whether a restart is reported depends on whether the plist of the
   LaunchAgent is on the disk, not on whether launchd runs the server. A `nnx serve` of the user that holds the run state
   while the LaunchAgent is installed goes on with the old version, and nobody is told, although
   `docs/design/updates.md:89` promises it and the comment above the line says so.
5. **DiagnosisNever**, `internal/domain/debug.go:734`. A state of the refreshes that cannot be read is left zero, and the
   report says "no completed run" of refreshes that did complete. The section has the error; the problem, which
   `docs/design/diagnostics.md:4` wants to come with the value that caused it, does not look at it.

The following definitions state sentences of the documents that TLC refutes when they are added to the cfg of
their run. They stay in the modules, described as such, and no run lists them.

| Definition (run to add it to) | Sentence | What happens |
|---|---|---|
| `EverythingArrives` (MCCommits) | `webui.md:92`: nothing can be missed, because every connection refetches | a commit between the only tab's refetch and the next tick becomes part of the new baseline and is never published |
| `EndedStateKept` (MCRefresh) | `github-sync.md:48`: a merge once known is kept when a refresh fails | a failing refresh writes the state it read at its start over a merge that another recorded meanwhile |
| `RefusedOnlyByAServer` (MCOpening) | `daemon.md:65`: a refused `serve` is no failure, since a server runs | a failed server holds the lock for ten more seconds |
| `AlreadyStoppedIsTrue` (MCOpening) | `daemon.md:78`: without a target, stop reports that it is stopped | a starting server has no record yet; stop says "stopped" and the server goes on |
| `OnlyEditedAreStored` (MCSettings) | `agent-prompts.md`: templates nobody customised are not written | the page saves all the templates it loaded, also those of a language that was switched meanwhile |
| `SwitchOnlyForAccess` (MCRefresh) | `github-credentials.md`: rate limits and failed connections do not switch credentials | pull requests behind one that fell back are asked for again with the next method, whatever their error |
| `NeverReapplied` (MCOpening) | `persistence.md`: no migration is applied twice | with another branch's records, a slow process deletes a record that another has just made true, and migrates again |
| `FailuresAreRecorded` (Update) | `updates.md`: a failed check is recorded | when the tab has left, the list to keep cannot be read with its cancelled context |
| `TaskColumnsIndependent` (MCService) | none | an edit of a task's title writes back the status it read |

Smaller things met while modelling. `GraphQLRefused` discards what earlier chunks had fetched (`graphql.go:105`). A tab
that was denied the lock shows "disconnected" when the leader of the others closes although its own stream is up. A
prompt may combine five reads that stood at no single moment. A commit between `ListFeatures` and `ListTasks` yields
a task without a feature in a healthy database, and `Validate` may report an unknown blocker that way.
`RoutesAgree` needs `ReadAlike`: a comment after an opinion, a dismissal after another opinion, and a failing check past
the hundred that REST reads are shown differently by the two routes. When the field `reviews` may be refused too,
`ChangeRequestsStand` fails, since GraphQL then stores what the first page said. Of the diagnosis: a run state
that cannot be read is reported with its error and as "not running", which hides that the server's binary is outdated; a snapshot that
fails leaves no pull requests, and with them go the stale ones, the hosts without credentials and the overdue refresh, of
which only the error of the section remains; pull requests of other hosts are not missed when no credential is listed at all; an unreadable configuration is also reported as
a failed refresh; and hosts and credentials are read at different times, so while both change the report may miss that some
host lacks credentials though at each moment one did: what it cannot miss is one and the same host throughout.

## 5. Proofs

Eight modules hold theorems. They speak of **every** value of the constants that satisfies the assumption of the
module they are about, and TLC evaluates these assumptions in the runs: bounds are naturals, a name for "none" is
nobody's name, and
- AutoSync: one of the intervals is the longest;
- PullRequestSync: there are enough pull requests to attach a different one to every task;
- ConfigFile: a built-in text is not blank, files hold configurations (a broken file is allowed), and requests ask
  for languages there are;
- Transactions: the arguments of operations are of the columns' types; the IDs that they name may be of no row;
- Service: requests are messages of `Requests` or plan commands, on targets of the right kind that need not exist;
  a server's process is no CLI's;
- Credentials: the pull requests of a group, at least one, are of its repository, the groups have all of them, the cache
  and the configuration name methods;
- Labels: there are finitely many labels, and those that a task can be set to are among them;
- Update: at least one release is published, and at least one is kept;
- Opening: the versions that the code names are among the migrations, public IDs are not a mere rebuild, and an old
  database lacks no record but those that other builds lose (3 and 5, and 3 only past 11).

Check with `tlapm StoreProofs.tla` and so on; each takes a few minutes at most.

**StoreProofs.** `StoreInvariant` is `StoreInv`: `StoreTypeOK`; `SequencesAhead` (without it `CreateTask` might
overwrite a row); `ForeignKeys`; `DependenciesWithinOneFeature` (without it `DeleteFeatureContents`, which deletes by
the blocker, would leave an edge to a row that is gone, and `ClosesCycle`, which sees one feature's edges, could miss
a cycle); `Acyclic`, stated by the sets a path would have to stay in, so that no induction over its length is
needed. From it `StoreTypes`, `AlwaysValid` (`ValidateClean`), `DependenciesStay`, `CascadeSucceeds`. For
`IdsStayUnique` (`IdsNeverReused`), `IssuedBelow` adds to `SequencesAhead` every ID ever issued, and
`TransactionsCount` says that no transaction moves a counter back or adds a row with another ID.

**CommitsProofs.** `TransactionsRefine`: the operations statement by statement implement `StoreHistory`, with the identity
as the mapping of the committed tables; hence `TransactionsStayAtomic` (`TransactionsAreAtomic`), and what is proved of the
store of single steps holds of the statements (`CommittedStaysValid`, `CommittedIdsStayUnique`). The inductive invariant
`CommitsInv` has `StoreInv` and the unique indexes of the committed tables, at most one transaction, and, for an operation
under way, `Progress`: how far its script has come, and which rows are gone from the tables it holds, *in terms of the
committed tables*, which cannot change before it commits. For a cascade over a project, `Progress` names the features
that are gone, the one that is going with the statements left of it, and those that remain (`FeatureGoing`, `AllGone`);
each statement takes it one step on (`FeatureGoesOn`) and is accepted by the foreign keys, which is
`CascadesAlwaysSucceed`. An operation of one statement outside a transaction is in the invariant with its arguments only:
its lookups may be old, and the proof shows that what the statement and the schema require at that moment is enough for the
step of the store (`WriteAlone`).
Of Revision, `NothingIsLost` from `StreamInv`: a closed stream holds nothing, and of an open one either the channel
holds the current revision, or it is on its way, or the tab has seen it.

**ShownProofs.** Of Update: `UpdateTypes`; `ChecksNeverOverlap` from `CheckTakesInterval` (who goes to GitHub has taken the
interval, and it is over again only when the check is); `ReportsStayTrue` from `FilesGrow` and `ResultsAtEnd`. That the
newest of some releases is one of them (`LatestExists`) needs a least number of a set, which the library's theorem on
well-founded relations gives. Of Prompts: `PromptsStood` (`PromptsAreWhatStood`) from `PromptInv`: what stands is among what
has stood since the request began (`HadGrows`), what the request has read by each of its steps is too (`RequestHolds`),
and the overrides, unlike the file, are valid (`OverridesStayValid`), so that the template resolved from the nearest
scopes is. Of Labels: `LabelsAlwaysMean` from `StoredIsWanted`: a scope stores, part by part, what was last asked for, though an
entry with neither part is not stored. Of Diagnosis: `ReportsTellTheTruth` (`ReportTellsTheTruth`), for any hosts and any
number of changes, from `DiagnosisInv`: what endures is wrong now (so a section that is read now says it), each section
already read says it or that it could not be read (`EnduringTold`), and while nothing has changed since the report was begun
what it has read is what is there, or is marked as unread (`ReportCurrent`). `WrongMeans` and `ReportedMeans` take the two
sets of problems apart, code by code; `StorageMeans`, `RecordsMean` and `SyncMeans` the sections that may fail.
Of PullRequestFacts: `FactsInvariant` is `FactsInv`, with `Timed` (no two reviews are submitted at once, without which the
last of a reviewer is not unique), `FetchFresh` (while nothing happens, what a refresh has read is so) and `HeldSoFar`: what
it has read of the requests for changes is nothing yet, or no older than any that has stood since, or those of its first
page. From it `RoutesAlwaysAgree` (`RoutesAgree`): REST folds the last opinions and GraphQL the last reviews, and under
`ReadAlike` the newest of the one is the newest of the other; and `ChangeRequestsAlwaysStand` (`ChangeRequestsStand`), if
`"reviews"` is not in `Nullable`: a reviewer whose request for changes has stood since before the refresh keeps it as
their last review, so it is on the page that holds them, whichever page is read when.
Of Snapshot: from any database whose pull requests belong to tasks and whose statuses are known (`StoreAsUsual`),
`SnapshotInvariant` is `SnapshotInv`: while a reader reads, what has lasted is so now (`StillSo`), hence so in the table that
the next query reads, hence so in each answer by itself (`AnswersTell`), however the answers mix several databases. A full
set of answers therefore derives none of it away (`ReadTells`), and what is shown as ready or completed, and what a batch
needs, follows: `MixedSnapshotsMisleadNobody` (`ShownWasSo`) and `PromptsHoldTheirBlockers` (`BatchesAreClosed`).

**ServiceProofs.** For every store in order at first (the empty one is: `EmptyStoreInOrder`), `ServiceInvariant` is
`ServiceInv`: `StoreInv`, the rows' columns are what the requests merge (`Shaped`), every process has a request and the row it
needs (`WellFormed`), and, unless a set flag overtook it, `Guarded`: *what is frozen above the target lies at or beyond the
container looked at next* (`Ahead`), so that nothing is once the guard is through (`Clear`); a feature that moves lands in an
open project (`Landing`); a request of the flag alone writes back what is there, if that is read-only (`Unchanged`).
The difficulty is what the others do between two reads of a request, `GuardedStays`: a step is `Calm` (nothing becomes
read-only by it, and what is read-only keeps its columns), or it sets a flag, or it is the write of a request that was itself
overtaken; the last two overtake everybody in flight. `CalmCommit` needs the wall itself (`WallStep`), so the wall
is proved within the induction and not after it. A deleted target stays deleted, since IDs are not reused
(`Grows`, `Known`). Each request changes only what is above its target (`Confined`, by tables in `ConfinedChange`).
From it `RequestsKeepTheStore`, `ArchiveWallStands` (`ArchiveWall`) and `ColumnsIndependent` (`DocumentColumnsIndependent`).

**RefreshProofs.** Of AutoSync: `HistoryInvariant`: an overtaken run does not own the row (hence `OvertakenNeverRecorded`),
and `age` exceeds the time since the last grant by `MaxWait` at most, because a grant writes the clock its call read before
it waited (hence `GrantsAreSpaced`, with any mixture of intervals). `HolderAlwaysRecords` needs the types only.
Of Credentials: `EveryOutcomeAlways` (`EveryOutcome`) from `CredentialsInv`: where the loops stand in their lists (`Placed`);
nothing is forgotten, every pull request is fetched, failed or in `Pending`, which is what the groups and the work at hand
still hold (`Covered`); a batch that is through has an answer to all of the work (`BatchCovers`); the tokens tried are those
of the methods opened (`Remembers`); and without faults what is marked and answered is the case (`Truthful`). Its hard part
is `AllTried`: a method that was passed over could not read what is left, *or* its token was opened by a method that is
still to come. The second case is real: a method behind the cached one may be refused because the cached one has tried the
same token, and the pull request is fetched all the same when the loop comes to the cached method again.
`CacheAlwaysWorks` (`CacheWorks`) adds `CacheInv`: without faults an entry works or is still to be tried (`Unvisited`), and
what a batch brought its method can read (`FetchedTrue`), so an entry is confirmed, replaced or forgotten on the way.

**PullRequestSyncProofs.** `SyncInvariant`: types, `OneTaskEach`, and `AllSound` of the rows *and* of what every refresh
carries (`Carried`), since a refresh writes rows it read long ago. From it `OneTaskAlways`, `ErrorsAlwaysNeedAttention`.

**ConfigFileProofs.** `ConfigFileInvariant` is `ConfigFileInv`: the shape of the processes, `Locks` (a writer is alone),
`Processing` (behind the lock, what a process read is what the file holds, unless somebody edited it by hand; what it
computed is a result of its update of that), and configurations in the file and on the page. `UpdatesOneStep` is the
refinement `UpdatesAreAtomic`: the initial states are those of `ConfigAtomic`; the rename is its `Update`, a hand edit its
`EditByHand`, an end without a rename its `Forget`, and every other step a stutter. The operators of the instance equal
those of `Config` by the same definitions (`SameDecode`, `SameApply`, `SameFile`). `ImplicitNeverReturns` and
`DefaultsAlwaysFollow` follow from lemmas about the operators: what each update does to credentials and templates
(`OthersKeep`), and what is left out of the file (`LeftOut`).

**DataDirectoryProofs.** Of Opening: `MigrationsApplyOnce` (`AppliedOnce`) rests on `SchemaInv`: in a database without another branch's
records, everything applied is recorded but for 3 and 5, and what a process has read of the schema stays so, since versions
are only ever added; so the version it goes on to apply is missing at that moment, in the transaction that also reads the
records again. `UsersKeepTheirWork` (`WorkIsKept`) rests on `FilesInv`, which names the three stages of a moved
database: the database and its WAL under the old names, the WAL alone renamed, both renamed; and what the processes between
them have seen, so that nobody's rename undoes another's.
Of RunState: `RunStateInvariant` is `RunStateInv`: `RunStateTypeOK`; `OneFile` (the file is never unlinked);
`HoldersLock` (a server is between `Locks` and `Unlocks` exactly if the flock is its own: `OneServer` alone is not
inductive); `RecordIsTheHolders`; `ReadersShare`; `Remembered`, `StopHasTarget` (a process id in a record or a command is
given to no new process). From it `OneServerAlways`, `RecordAlwaysTheHolders`, and `StopsMeanGone`: the answer "not
running" needs the shared lock, so nobody holds it, so no server is in a holding phase, and the target is not a newborn.

**Only model-checked.** Liveness (`ChangesArrive`, `StallReported`, `GrantsResume`, `Converges`, `ServerReturns`,
`TabsSettle`, `RequestsEnd`, `Opens`, `UpdateArrives`, `TabsConverge`), which is beyond the prover. Every safety property
of a passing run is stated by a theorem; of `ChangeRequestsStand` the theorem excludes that GraphQL leaves out the
reviews of a pull request, which the run does as well (see 4 for what happens to fields that are left out).

## 6. Coverage

The map covers 30.7 % of the 37,384 lines of implementation. 13,095 of those are generated message types and
transport, and about 4,000 more the texts of templates, queries, tables and dialogues; of the rest, the code
that decides something, the map covers about half.

## 7. What is not modelled, and why

- *Generated code* (`gen/`, row types of `internal/db`): nothing in it decides anything.
- *Texts and layout*: tables and JSON of the commands, the wording of prompts and of setup's dialogue, most of the views,
  the shortening of the report. Where a text decides something (labels that are read back, placeholders of templates,
  classes of errors) the decision is modelled.
- *Operating-system and network I/O*: HTTP, YAML, the terminal, pickers, the browser, the contents of the plist and of
  the installer. Their outcomes appear where a modelled component depends on them.
- *Bodies of the migrations*: whether they can run and can run twice is modelled, what they do to the rows is not.
- *`nnx daemon uninstall` and `logs`, `nnx demo`*: the first removes what `RunState` takes as given, the others write or
  print through operations that are modelled.
- *A command that dies between bootout and bootstrap* leaves launchd without the job until the next start; it is not an
  action of `RunState`, whose liveness speaks of a launchd that has its job.
- *Steps and details that no property tells apart*: in `Opening` the two reads about public IDs (whether the tables have
  them, whether that is recorded) are one step, and the shared memory of the database, which SQLite rebuilds, is not renamed;
  `PullRequestFacts` asks REST for reviews and reviewers in one step, and its check states are those that both routes can
  express.
- *Refused updates of overrides*: overrides of an archived scope are refused and nothing happens, which `Prompts` leaves out.
- *The choice of the server's address*: a server that finds no port fails, which `RunState` has.
