# BentoClick in TLA+

BentoClick is two programs around ClickHouse:

* **anond** (`anon/`, Go): reads a source cluster, invents tokens for every
  identifier, materializes a masked sample of the source tables in a *sandbox*
  database on a destination cluster that other people use too, and writes
  profile tables, a schema guide and a manifest for language models to read.
  `cleanup` removes what it made.
* **the dashboard application** (`runtime/`, `schema/`, `scripts/`, JavaScript
  and SQL): dashboards stored as rows, rendered by a runtime in an iframe that
  asks its parent page to run the queries.

## Inventory

| Part | State | Operations | What is hard | What makes it correct | Module |
|---|---|---|---|---|---|
| anond run and cleanup (`cmd/anond/main.go`, `discover/run.go`, `sandbox.go`, `verify.go`, `store/store.go`) | sandbox database and tables, registry, profile rows, manifest, trusted tables | `run`, `cleanup`, one SQL statement at a time | crashes between statements, replays, foreign users, two runs at once | never touch a foreign object; cleanup finds everything; a complete run describes its tables and appears as a whole | `Sandbox`, `RunStore` |
| tokenizing run (`run.go`, `catalog.go`, `mining.go`, `demote.go`) | names found, identifier map, published words | the phases of `Execute` | names that one phase maps and no phase registered, scans that fail and later succeed | what is published is tokens or public words; texts stay decodable | `Catalog`, `Tokenize`, `Execute` |
| schema-preserving run (`preserve.go`) | the same sandbox and registry, no manifest | materialize, mint, register guide | other order of writes, failures only noted, a source and a sandbox that others change, guide rows and registered names of earlier runs | masked values reversible, guide rows that fit their tables, no foreign table dropped under a new name | `Preserve`, `Execute` |
| identifier map and tokens (`idmap.go`, `token.go`) | observed names, token map | observe, build, lookup | short-token collisions, reserved words, lookup of the unobserved | tokens injective over all kinds and from run to run, fail closed | `IdMap` |
| SQL lexer and rewriter (`sqllex.go`) | none | identifiers of a text, rewrite | which kind a bare word is, stray quotes, comments | nothing real is left, every token decodes to its word | `Rewriter` |
| masking classes, attribute-key roles (`classify.go`, `classify/preserve.go`, `run.go`) | cache of scans | classify, mask, scan | order of the rules, failed scan cached or not | a real value only where a scan found no PII | `Masking`, `Tokenize` |
| ClickHouse client (`chclient.go`) | child processes and their pipes | statement, stream out, stream in | replay of statements that took effect, half-read streams, full pipes | one replay, streams never replayed, a truncated sample is an error, nothing is left running | `Transport`, `SampleInsert`, `Sandbox` |
| dashboard runtime (`runtime/v1/dash.js`) | panel epochs, rows, load deferreds, parameters, ledger | boot, set parameter, commit, rerun | answers out of order, reruns of sources under waiting consumers, failures | newest parameters win, everything settles | `SpecRuntime`, `PanelFreshness` |
| iframe bridge (`runtime/v1/spa.js`) | pending promises by id, the parent's queries | query, answer, time out | late answers, a reload between question and answer | every query settles | `Session` |
| login and tokens (`spa.js`, `oauth-callback.html`) | session storage per tab, local storage of all tabs | login, callback, expiry, sign-out | several tabs, back button, stale 401 | a code is sent once with its own verifier, tabs come to rest | `Session` |
| dashboard store (`schema/*.sql`) | raw table, materialized view, replacing table | save, read, delete | stamps of one second, background merges | the last save is read | - |
| scripts (`scripts/*.sh`) | schema and assets on the cluster | install, update, uninstall | partial failure | re-runnable | - |

anond and the dashboards meet in the database `bentoclick`: anond inserts into
`schema_guide_data` there, the operator creates that table
(`08-schema-guide-registry.sql`), and by default anond's own registry, profile
and manifest live in the same database.

How the modules build on each other:

```
IdMap <- Catalog  <- Tokenize <- Execute <- ExecuteProofs <- RegisteredProofs
IdMap <- Rewriter <- Tokenize                             <- PreserveProofs
         Masking  <- Tokenize, Preserve
         Catalog  <- Preserve <- Execute
RunStore <- Sandbox <- SandboxProofs <- SandboxProfileProofs
PanelFreshness <- SpecRuntime <- SpecRuntimeProofs
SampleInsert <- Transport <- TransportProofs
Session <- SessionProofs
```

## Modules

### Sandbox

`Sandbox.tla` is the run protocol of the tokenizing model and of `cleanup`.
A process is one invocation of anond; an action is one SQL statement, so that a
crash (`Exit`), a foreign user (`Others`) or another process can come between
any two. The correspondence:

| Variables | Code |
|---|---|
| `dbOwner`, `tbl` | `system.databases` and `system.tables` of the destination: who created each object, its rows, the run that created it (ghosts that no action of anond reads, except whether the object exists and how many rows it has) |
| `metaUp`, `registry`, `profile`, `complete`, `latest` | the meta database: `generated_objects`, `profile_catalog.sandbox_rows`, `manifest`, the answer of `LatestCompleteRun` |
| `guideUp`, `guide` | `schema_guide_data`: it exists, whose rows it shows |
| `trusted` | `masking_plan` and `identifier_map` on the source |
| `pc`, `run`, `cur`, `seen`, `counted`, `todo`, `dropMeta` | locals of `Execute`, `sandbox` and `cmdCleanup`: next statement, `RunID`, loop index, `exists`, `SandboxRows`, the list `RegisteredObjects` returned, the flag |
| `tries` | the attempt of `chclient.Client.run` |

A statement has up to three outcomes: it takes effect and the reply arrives
(`Advance`), it takes effect and the reply is lost, so it is sent once more
(`Replay`), or it is refused before it takes effect and sent once more
(`Refused`). A second failure, or an error that is not transient, ends the
process (`Exit`), which may also strike anywhere. What it did stays done.

Abstracted: discovery (reads; a failure is `Exit`), column lists, masking
expressions and note texts. The inserts of the profile tables are one action,
since their rows are keyed by a run nobody reads before its manifest. Run ids
are distinct numbers; `DROP TABLE` of cleanup comes in any order of names, as
the names are tokens.

`RunStore.tla` is the abstract specification, what readers of a run rely on: secrets
are stored table by table (`Store`), the guide shows a run whose secrets are all
there (`Show`), a run's profile appears as a whole and never changes (`Publish`),
and only `cleanup --include-meta` takes everything published away (`Forget`).
`Sandbox` implements it with `published` taken for the profile rows of the complete
runs (`PublishesAtomically`): readers find a run by its manifest row
(`LatestCompleteRun`), which is its last write.

`SandboxProofs.tla` and `SandboxProfileProofs.tla` hold the theorems,
`MCSandbox.tla` the instances.

### Execute: one run, either model

`Execute.tla` is `Run.Execute` of one process, from the accepted configuration to
the end: the phases both models share (`Catalog`), then those of the tokenizing
model (`Tokenize`) or of the schema-preserving one (`Preserve`). It asks what
goes where: names, tokens, attribute values, classes. `Sandbox` asks what the
statements on the sandbox do under crashes, replays and other processes; the two
views of a tokenizing run are separate specifications.

| Module | Code | How |
|---|---|---|
| `IdMap` | `idmap.go`, `token.go` | `ObserveAll`, `KeepVerbatim`, `Built` are `Observe`, `KeepVerbatim`, `Build` on functions from kinds to names. A token is its kind and its hex digits in groups of eight; the HMAC is an arbitrary function, so names may collide in eight or in sixteen digits, and a real name may look like a token |
| `Rewriter` | `sqllex.go` | a text is a sequence of lexemes; `IdentifierWords` is the second observe wave, `RewriteLexeme` the probe order, the vocabulary and `mustSQL` |
| `Masking` | `classify.go`, `classify/preserve.go` | both classifications over groups of types, what a class leaves visible, the roles of attribute keys from the three thresholds a scan may reach |
| `Catalog` | `catalog.go`, `NewRun` | configuration checks, the roster and its refusals, the columns of tables that may vanish meanwhile |
| `Tokenize` | `run.go`, `sandbox.go`, `mining.go`, `demote.go`, `verify.go` | an action per phase; a text that is written somewhere is kept as the set of words it shows |
| `Preserve` | `preserve.go` | an action per writing statement |

| Variables | Code |
|---|---|
| `cfg`, `pc`, `why` | `Config`, the next phase or statement of `Execute`, the error it returned |
| `tables`, `columns`, `rels`, `hot`, `qlog` | `Run.Tables` and their columns, `Run.Relations`, `Run.Hot`, whether the query log could be read |
| `keep`, `values`, `fwd` | `idmap.Map`: kept names, observed names, the tokens after `Build` |
| `scans`, `notes` | `attrCache`, the names in `Run.Notes` |
| `built`, `secret`, `profile`, `guide`, `manifest` | the keys of `SandboxRows`, the rows of `identifier_map`, the words in `profile_*`, the rows of `schema_guide_data`, the words of the manifest row |
| `source`, `gone`, `changes` | values in the source's identifier columns now, those deleted (history), a bound |
| `db`, `dest`, `registry` | the destination: who made the sandbox database and its tables (an earlier run, this run, others), what the tables hold, `generated_objects` |
| `before`, `astray` | history: the names registered when the run began; the tables that others changed, or earlier runs left in disorder, and this run has not replaced since |
| `dbReady`, `todo`, `cur`, `done`, `exists` | locals of `executePreserve`'s loop and of `materializePreserve` |
| `toMint`, `unminted`, `minted` | its mint loop: columns left, columns whose query failed, pairs found |
| `identifiers`, `shown` | `identifier_map` and `schema_guide_data`, rows of all runs: a row of the guide replaces the one of an earlier run for the same column |
| `maskingPlan` | `masking_plan`, the rows of this run |

Environment: the catalog may lose a table between two queries, the query log and
`system.dictionaries` may be unreadable, a scan may fail in one phase and succeed
in the next, and any statement may fail for good (`Stop`, `StatementFails`). While a
schema-preserving run works, others add or delete source rows (`ChangeSource`), drop
a table of the sandbox or put their own in its place (`ChangeTable`), drop or create
the sandbox database (`ChangeDatabase`).

A schema-preserving run begins with what earlier runs and others have left
(`Leftover`): tables, guide rows, registered names and identifier rows, none of
which the code ever deletes but the tables it remakes. `LeftBehind` says which such
states there are: what an earlier run made is registered, while a registered name
may be free or taken by somebody else; and a table on which the guide and the
identifier map do not agree (its run died, or others changed it) is `astray`. A run
leaves such a state again: `MadeIsRegistered`, `GuideDescribesSandbox` and
`GuideIsReversible`, taken for the end of a run, are the clauses of `LeftBehind` for the
next one, where the tables they except are astray.

Abstracted: archetypes, demotion reasons, counts and form ratios, whose output
holds no identifier; the dictionary relation's layout only as words; the scan's
fractions only as thresholds reached; the text of masking expressions;
combinator suffixes and the strict mode of the rewriter, which no run uses. Names
are single words: names with dots, blanks or colons are outside the model (see
the last section).

### Transport

`Transport.tla` is one call of `populate` (`sandbox.go:276`) across clusters: anond's
main thread, the goroutine of `cmd.Run` that copies, the source's and the
destination's client processes, and two pipes of bounded size.

| Variables | Code |
|---|---|
| `rows`, `sent`, `stored`, `taken` | rows of the masked SELECT, written by the source, in the table, read by the destination's client |
| `source`, `dest` | the two processes and how they ended (`empty` is NO_DATA_TO_INSERT) |
| `pipe`, `pipeOpen`, `stdin`, `held` | the source's stdout and its read end, the destination's stdin, the goroutine's buffer |
| `main`, `pump` | where the two threads are |
| `waited`, `waitErr`, `copyErr`, `insErr`, `result` | `procReader`'s once-only wait and its error, the copy's error, what `InsertStream` and `populate` return |

A pipe is a number of rows. On one cluster `populate` is one statement, which is
`Sandbox`'s; `Sandbox` takes the whole stream as one step and `Transport` looks
inside it. Between the two stands `SampleInsert.tla`, what `populate` promises its
caller: at most one insert, before it returns, and after success all rows or
none. `Transport` implements it (`InsertsOnce`), and `Sandbox`'s `Populate` and
`PopulateFails` across clusters are its `Insert` and `Return` in one step.

### Session

`Session.tla` is the life of the signed-in pages: tabs of one browser that show the
list of dashboards or one dashboard, log in with an authorization code, query
with the token in `localStorage`, and answer the queries of their frame.

| Variables | Code |
|---|---|
| `tok`, `client`, `meta` | `localStorage`: the token, the client id, the server's metadata (shared by all tabs) |
| `state`, `verifier` | `sessionStorage` `pkce_state` and `pkce_v` (one per tab) |
| `url`, `proof` | the code in a callback page's address, the verifier it has read |
| `page` | what the tab shows and which await its script is at |
| `carried` | the token of the page's own query |
| `frame`, `call` | per query of the frame: its promise (`CH_FETCH`), the parent's handler and the token it uses |
| `minted`, `live`, `attempts`, `codes`, `spent` | the authorization server and ClickHouse: tokens issued and accepted, login attempts, codes, codes received |
| `clicks`, `forgotten`, `wandered` | a bound; ghosts: the client was dropped, users who went back |

Several tabs interleave at every await. Users may sign in, sign out, log in
again, reload, and go back in the tab's history to an authorization page or a
callback page (`GoBack`). Tokens expire; every request may fail or be answered
late.

Abstracted: a reload takes its page away at once; a promise's rejection is
handled in the step that rejects it; ClickHouse checks a token when it answers;
"refused" stands for the status codes and texts that `chQuery` takes for an
expired token. A fresh token is accepted. Left out: storage that is not
available, an issuer that changes (`discoverAS`), where the callback returns to,
the tweaks messages, the bytes of the runtime.

### SpecRuntime

`SpecRuntime.tla` is class `SpecRuntime` of `runtime/v1/dash.js`, which loads the
panels of a dashboard at boot and again after every parameter change.
JavaScript runs one task at a time; the tasks are user events (`SetParam`) and
answers to queries (`Answer`). What a task resumes (a consumer that awaited its
source, `Consume`, or the boot loop, `BootNext`) runs before the next task, which
is the guard `Idle` of the tasks. `Start` is `_runPanel` up to its first await.

| Variables | Code |
|---|---|
| `value`, `bad`, `reruns` | `this.params`, whether the interpolator rejects it; a bound |
| `epoch`, `rows` | `state._epoch`, `state.rows` |
| `failed` | panels on which `_showError` was called |
| `gen`, `settled` | the promise in `state._loaded`, the promises resolved so far (a replaced one stays unresolved) |
| `queries`, `waits` | runs suspended at `await this._ctx.fetch` and at `await src._loaded` |
| `ledger` | status in the query log |
| `concurrent`, `bootAt`, `awaited` | `spec.concurrent` and where `boot` is |

Abstracted: one parameter stands for all; its values are numbered in the order
they are set, and rows are the value they were queried with. `failed` only grows,
because `_showError` replaces the nodes that the renderer writes to, so later
rows are stored but not seen. `Uses` (the interpolator finds the parameter) and
`Noticed` (`_rerun` finds it by `indexOf`) are separate constants, since the two
searches accept different spellings; the instances check panels whose spelling
both accept. `setParam` rejects an invalid value and the toolbar does not, so
the model lets any value be invalid. "Auth expired" reloads the page and is left
out.

`PanelFreshness.tla` is the abstract specification: the parameter advances, and a
panel may at any time show rows for any value between what it shows and a limit,
the current value or, for a panel that reads from another, what that one shows.
`SpecRuntime` implements it with `shown <- rows` (`ShowsFreshRows`).

`LoadedIsCurrent` says when a panel has caught up: when the latest runs of the
panel and of all it reads from, directly or not (`Upstream`), have ended without an
error (`Loaded`), its rows are those of the current value (`Current`; a panel below
a static one has none).

`SpecRuntimeProofs.tla` holds the proof, `MCSpecRuntime.tla` the instances.

## Runs

| Run | Instance | Question |
|---|---|---|
| `solo` | 1 process, 2 tables, 2 runs, cross-cluster, 1 foreign object, cleanup with and without `--include-meta` | the invariants, foreign objects, and that every command ends |
| `duo` | 2 processes, 1 table, 2 runs, same cluster (replayed inserts), 1 foreign object, no `--include-meta` | registry, reversibility, foreign objects under concurrency, runs that appear as a whole; 1,461,502 states |
| `foreign` | 1 process, 1 table | violated: a foreign database that appears after the check is adopted and dropped later |
| `sample` | 1 process, same cluster | violated: a replayed insert doubles the sample |
| `crash` | 1 process, 2 runs | violated: a crash in a refresh takes the latest complete run's table away |
| `concurrent` | 2 processes, 2 runs | violated: a complete run's row count differs from its table |
| `models` | both models, 67 initial states: 4 tables, 3 HMAC keys, 2 scan outcomes, 8 sandboxes left behind, 1 change by others; 425,046 states | what may be published and decoded; what the guide, the identifier map and the registry say of the sandbox, which foreign tables stay; and that a run ends |
| `notes` | the same instance | violated: the manifest holds a real table and column name when a scan failed |
| `stream` | 5 rows, pipes of 2; 3,143 states | a populate reports success for a whole sample only, leaves nothing running, inserts once and returns |
| `loads` | 6 panels (a query, a consumer, a consumer of the consumer, a static one, a consumer of it declared too early and another), both boot modes, 2 new values, 3 events; 157,334 states | freshness as a refinement, currency of loaded panels, and that every run ends |
| `boot` | 3 panels, sequential boot, 2 events | violated: the boot loop waits for a promise that a rerun replaced |
| `tabs` | the list and a dashboard in two tabs, 1 query of the frame, 1 expiring token, 2 clicks; 367,708 states | codes and verifiers, why a token goes away, that tabs come to rest and queries settle |

### Bounds

For `Sandbox` the bounds are the smallest that contain the cases: two tables so that the loop
repeats and a failed table is followed by another; two runs so that one
refreshes what the other built; one foreign object because each property is
about one; `SampleRows = 1` so that an empty, a full and an overfull table
differ; a fallback for one table only. Processes are interchangeable, hence the
symmetry of `duo`, which checks no liveness. Deadlock is not checked: the system
rests when no command is invoked.

For `models` (`MCExecute`) the source database has a fact table with an attribute
column, a Distributed test sibling that may be dropped while the run works, a
materialized view over it and a dictionary, and their texts mention each other,
names of other databases, an aliased column, a stray quote and a comment. One
key gives two columns the same eight digits, another all sixteen, a touched
column of the workload and a source database look like tokens, a column is named
like a type, and the sandbox database may have the source's name or a table's.
Key and name clashes are met one at a time (`Instance`); each of the two scan
outcomes may come early, late or never. For the schema-preserving model the fact
table may have been left finished, by a run that died before its identifiers were
written, with guide rows and no table, or replaced by somebody else's under a free
or a registered name; its sibling finished or somebody else's; in a database of
an earlier run, of somebody else (registered or not) or none. They are combined
one at a time, since a run deals with one table at a time. One change by others,
of the fact table, its source or the database, suffices to come between any two
statements, and across clusters the source lacks a value the destination has.
The schema-preserving model never asks for the query log, hence the constraint
`QueryLogMatters`. Dropping any one exception from `GuideDescribesSandbox`,
`GuideIsReversible` or `ForeignKept` makes TLC find it violated in this instance.
Deadlock is not checked: a run ends.

For `stream` five rows overfill both pipes and the goroutine's buffer (2 + 1 + 2 = 5),
so that every one of them can be full when a process dies.

For `loads` and `boot`, two new values and three events suffice for an answer to be
overtaken twice and for a consumer to wait on a replaced promise while a newer
run of it is under way; the chain of three makes the closure in `_rerun` take two
sweeps, and a consumer of the static panel has loaded without rows. Deadlock is not
checked: a loaded dashboard rests.

For `tabs` two tabs suffice for one to delete what the other has stored and for
one to log in while the other waits with an older token; two clicks let a user
log in twice in one tab and go back to the first attempt. A login that ends in a
refused token starts another, but only expiry refuses tokens, so the bound of
eight login attempts is never reached: raising it changes nothing. Deadlock is
not checked: pages rest.

### Fairness

`solo` assumes weak fairness of `Step(p)`, everything a started command does: a
statement returns or fails (clickhouse-client has its own timeouts and a killed
process is `Exit`), and Go goes on to the next one. Starting commands and other
users have no fairness. `models` assumes the same of `Run`, for one process.
`stream` assumes weak fairness of anond's two threads and of each client process
that its pipes let go on; failures need not happen. `loads` and `boot` assume weak
fairness of resumptions (the JavaScript engine drains its jobs) and of answers:
`CH_FETCH` rejects what the parent has not answered after 30 seconds
(`spa.js:436`). User events have no fairness. `LatestRunEnds` holds and
`BootFinishes` fails on the same specification: the latest run of a panel always
ends, but boot waits for an earlier one.

`tabs` assumes weak fairness of each tab's page steps: a request a page waits for
ends, by `withTimeout` or by the callback page's timer; where no timer reaches (a
body being read, the callback's `config.json`) it is the browser that ends it.
And of each timer of the frame. The parent's side of the bridge, the
authorization server and the users have none, so `EveryQuerySettles` holds even
if the parent never answers.

`CompleteRunDescribesTables` and `AtMostSampleRows` are checked in `solo` and
refuted in `concurrent` and `sample`: they hold for one run at a time and for
two clusters, which is how far the code keeps them.

## Proofs

`SandboxProofs` proves, for any numbers of processes, tables, runs, rows and
foreign objects:

* `TypeCorrect`: `TypeOK`, which also says that no table outlives its database.
* `RegistryComplete`: `CreatedIsRegistered`. Alone it is not inductive. A process
  about to create relies on a registry row it wrote earlier (`Claimed`), so
  nothing may shrink the registry in between; only `cleanup --include-meta` does.
  The theorem therefore assumes `SafeMeta`: with that flag in use there is one
  process. That process must have dropped everything before it drops the
  registry, which is `TodoCovers`: what anond owns is still on its list.
  `TodoRegistered` bounds the list from the other side.
* `ForeignSafe`: `ForeignUntouched`, an action property, from the same
  invariant: the names a run drops, creates and fills are registered
  (`Claimed`), the names a cleanup drops are too (`TodoRegistered`), and a name
  is registered only by a process that saw it free.
* `Reversible`: `PublishedIsReversible`. `Secured` says, statement by statement,
  what the trusted tables already hold for the run a process carries; no step
  takes rows out of them, so no assumption on concurrency is needed.
* `AtomicStore`: `PublishesAtomically`, that `Sandbox` implements `RunStore`, for any
  number of processes. `RunsApart` says that runs under way have ids of their own
  and that a run is complete only when its process is past the manifest, so no
  step writes profile rows of a run that readers know; with `Secured` a run is
  published and shown only when its secrets are stored (`VisibleStep`).

`SandboxProfileProofs` proves, for one process (`Solo`):

* `ProfileTruthful`: `CompleteRunDescribesTables`. The invariant `RunInv` relates
  what a process has counted to the tables it has built so far, and the profile
  rows to the count; it is not true of two processes, as `concurrent` shows.
* `SampleBounded`: `AtMostSampleRows`, for two clusters, from `RowsInv`: a table
  is filled only while it is empty; `sample` shows why one cluster is excluded.

`SpecRuntimeProofs` proves, for any panels, sources, values and number of events:

* `TypeCorrect`: `TypeOK`.
* `Freshness`: `ShowsFreshRows`, that `SpecRuntime` implements `PanelFreshness`. The
  invariant says of every query that is out that its value lies between the
  panel's rows and the current value if it belongs to the panel's latest run
  (`NewerThanShown`), that no consumer is ahead of its source (`NotAhead`), and
  that a run has one query (`OneQueryPerRun`).
* `LoadedCurrent`: `LoadedIsCurrent`, if `_rerun` notices every panel whose text the
  parameter is put into (`NoticesUses`). The property speaks of finished runs; its
  invariant says of unfinished ones what they will bring: a query that is wanted
  asks for the current value (`AsksForCurrent`), a consumer that is wanted waits for
  its source's current promise (`AwaitsCurrent`), a run that is over has resolved
  its panel's promise (`OverIsSettled`), and a panel whose promise is resolved, with
  no failure above it, has the current rows (`SettledIsCurrent`). Induction along
  the sources is not needed, as each step's argument looks one source up.

`ExecuteProofs` proves, for every schema, workload, HMAC function, text, outcome of
scans and choice of names:

* `TokensNeverRemap`, about `IdMap` alone: two runs with one key never give one token
  to two names, whatever their schemas, as long as names that share eight digits
  were once built together (`SeenTogether`). `TokenReused` shows that the proviso is
  needed and `TokensStable` when a name keeps its token from run to run.
* `BuiltInjective`, the case of one run: a build that reports no error gives tokens
  that are injective over all kinds at once, also for names that share eight
  digits or look like tokens, as long as no kept name looks like a token.
* `TokensInjective`: `MapInjective`, from `MapInv`, which says that the map is empty or
  the one `Build` made, and that the roster has refused a source database whose
  name looks like a token. Without that the kept source name could equal a token.
* `OnlyTokensPublished`: `NothingRealPublished`. `PublishedInv` says that whatever a later
  phase maps was mappable when the plan was written; the rest is that every word
  of a rewritten text is a token, a keyword, vocabulary or redacted.

`RegisteredProofs` adds `RegisteredInv`: what a phase will map (`NamesInv`) and the
identifiers of every text (`WordsInv`) are registered before the build, the map
is the build of these names (`BuiltInv`), scans hold outcomes of scans (`ScanInv`).

* `NamesRegistered`: `UnmappedOnlyFields`, that no phase fails for an unregistered name,
  but for attribute keys of a column whose first scan failed.
* `LeaksAreNames`: `LeakIsRealName`.
* `ValuesGated`: `AttrValuesGated`, through the cache of scans.
* `RewrittenDecodes`: `TextsDecode`, from `BuiltInjective` and `WordsInv`.

`PreserveProofs` proves the other model's properties, for every state earlier runs and
others may have left and every interleaving with others, from `PreserveInv`:

* `MadeAreRegistered`: `MadeIsRegistered`. `DestInv` says that every object of this or an
  earlier run has its name in the registry, which only grows, and `LoopInv` that the
  name at the loop is registered once `materializePreserve` is past its registration.
* `ForeignTablesKept`: `ForeignKept`. By `LoopInv` the names registered by the run itself
  are those of tables the loop has passed, so a table that the check found, and
  only such a table is dropped, has a name from before (`before`). The other writing
  statement, CREATE, meets no table.
* `GuideDescribes`: `GuideDescribesSandbox`. Rows of earlier runs fit their tables as long
  as these are there and not astray (`EarlierInv`); tables of this run have the
  classes it will write (`DestInv`), which a complete run has written (`GuideInv`).
* `GuideReversible`: `GuideIsReversible`. In tables of earlier runs by `EarlierInv`, as the
  identifier map only grows. What tables of this run show on one cluster came
  from the source or was deleted there (`ValuesInv`), and columns that are minted
  have pairs for what is still there (`MintedInv`).
* `TypeCorrect`: `TypeOK` of the whole of `Execute`.

`TransportProofs` proves, for any number of rows and any size of the pipes:
`TypeCorrect` (no pipe overflows), `SuccessIsComplete`, `ErrorHasCause`, `CleanReturn`, and
`OneInsert`: `InsertsOnce`, for which the table is empty as long as the destination's
client runs (`NotYetStored`).
Its invariant counts the rows (while the destination reads, what was sent is in
a pipe, in the buffer or taken) and ties each thread's place to the state of the processes.

`SessionProofs` proves, for any number of tabs, queries, clicks and tokens:

* `TypeCorrect`: `TypeOK`.
* `CodesSentOnce`: `CodeSentOnce`. `AttemptInv` says that the attempt in a tab's session
  storage is its own and was never completed, and that the verifier beside it is
  of the same attempt; a page that waits for `config.json` has used both up.
* `CallbackCauses`: `CallbackFailsForCause`, from `ReadyInv`: a tab that waits for the
  provider, and whose user never went back, holds the state of its last attempt
  and that attempt's verifier.
* `StaleRefusalsOnly`: `OnlyStaleRefusalsSignOut`, from `TokenInv`: the stored token is the
  last one issued and no query carries a later one, so a refused token other
  than the stored one is an earlier one.

Every theorem rests only on the named assumptions of the modules
(`ConstantsAssumption`, `HmacAssumption`, `CatalogAssumption`, `TextAssumption`,
`NameAssumption`, `PreserveAssumption`, `TransportAssumption`, `SessionAssumption`),
which the runs evaluate. They say what the constants are: that the HMAC is a function of key,
kind and name, that columns of a table differ in name, that identifiers of texts
have names, that the registry keeps names of databases and tables apart.

Some theorems assume more, as said there: `RegistryComplete` and `ForeignSafe` need
`SafeMeta`, `ProfileTruthful` and `SampleBounded` need `Solo` (the latter two clusters
too), `LoadedCurrent` needs `NoticesUses`. The passing runs of these properties
satisfy them.

Model-checked only: the liveness properties `CommandsFinish`, `LatestRunEnds`,
`RunEnds`, `PopulateReturns`, `Settles` and `EveryQuerySettles`, since the proof
system does not handle fairness. All other properties of the passing runs are proved.

## Where code and text part, without a run

Met while modelling. Some show as an exception written into a property, the
others lie outside the models.

anond, tokenizing model:

* A scan of an attribute column that fails when names are observed and succeeds
  when the plan is made brings keys nobody registered and the run aborts, although
  `run.go:119-122` says that both see the same keys and `sandbox.go:75-77` that a
  failed scan masks the column (the exception of `UnmappedOnlyFields`).
* `verify` takes a table named like the sandbox database, or a column named like a
  type, for a leak and refuses a sound run (the cases of `LeakIsRealName`).
* A sandbox table keeps the field names of Tuples and the labels of Enums
  verbatim (`classify.go:218-219`), which the profile redacts, against the comment at
  `verify.go:49-51`.
* A vocabulary key of an attribute map shows values that appear after the scan.
* Type and status words of a dictionary are never observed, so the profile shows
  them redacted.
* The guide lists eligible tables whose populate failed.
* Notes with the raw text of a server error (`sandbox.go:323` and `334`) may hold real
  names too; `notes` shows it for failed scans.
* Names with dots, blanks or colons: `splitFull` cuts at the first dot, so such a
  name is unmapped and the run aborts; review flags are parsed by `shadowFlagRe`,
  which a blank or colon in a name defeats.

* `01-token-dict.sql:11-19` says that "HMAC determinism guarantees one `original` per
  `token` forever" and "a known token never remaps". Names are widened only against
  the names of the same build, while the table keeps the rows of all runs and the
  dictionary takes `any(original)` of a token: a name that is gone and a later one
  with the same eight digits share a token (`TokenReused`). Likewise a name's token
  is "stable under schema drift" (`token.go:5-6`) only while no name with the same
  digits comes or goes (`TokensStable`).

anond, both models and commands:

* `populate` returns no error for a source that fails before its first row:
  `sandbox.go:298` says that Close surfaces failures of the source, but
  NO_DATA_TO_INSERT of the destination wins and becomes nil at `sandbox.go:304-306`
  (the exception of `OkMeansAllRows`).
* `cleanup --include-meta` drops the meta database with the schema_guide tables in
  it (`main.go:454`), and later runs fail at `run.go:382`; `anon/README.md:34` says that
  cleanup drops the tool's own objects "and nothing else".
* `cmdVerify` reads `identifier_map` from the meta database though it lives in the
  secret one; the help of `run` gives `<source-db>_anon` as default of `--dest-db`,
  `NewRun` takes the source's name.

anond, schema-preserving model:

* CREATE TABLE AS SELECT runs on the destination only, so across clusters it reads
  whatever table of that name is there, against the comment at `preserve.go:213-214`.
* The registry only grows (`store.go:184`), and three statements lie between the check
  and the DROP: a table somebody else makes under a name registered earlier is
  dropped at `preserve.go:227` (the exception of `ForeignKept`), although
  `sandbox.go:199` says "never touch foreign objects". It is the disagreement that the
  run `foreign` shows for the tokenizing model.
* Guide rows are never deleted (`preserve.go:193`). Those of a column that a later run
  no longer keeps, or of a table whose DROP succeeded and whose CREATE failed
  (`preserve.go:227` and `244`), go on describing what is not there; a run that dies
  after CREATE leaves the classes of an earlier one in the guide (the exceptions of
  `GuideDescribesSandbox`).
* A run that dies between CREATE (`preserve.go:244`) and the insert into `identifier_map`
  (`preserve.go:182`) leaves tokens without a pair under the guide rows of an earlier
  run; so do values deleted between materialization and mint (the exceptions of
  `GuideIsReversible`).
* A failed table or mint is only noted; a token kind the tool does not mint is
  masked though the guide calls it reversible; a failed CREATE may leave a
  registered table that no guide row lists.

Dashboards:

* The interpolator accepts spellings of a placeholder, such as two blanks inside
  the braces, that `_rerun` does not look for (`dash.js:459-460`): such a panel keeps
  the rows of the old value (the assumption of `LoadedCurrent`).
* A consumer whose source failed renders the source's earlier rows; the ledger is
  written before the epoch check, so it can say Failed of a panel with fresh rows.
* A 401 seen with an old token deletes a newer one (`spa.js:241`, the exception of
  `OnlyStaleRefusalsSignOut`), and a sign-out in one tab is undone by a login under
  way in another.
* A 403 for missing grants is taken for an expired token (`spa.js:273`): with a
  provider that signs in silently the page goes round for ever. `Settles` holds
  because the model accepts fresh tokens.
* `withTimeout` covers a response's headers, not its body, and the callback page's
  request for `config.json` has no timer.
* Query ids start over when the frame alone is reloaded (`spa.js:423`), so a late
  answer may settle another query.
* The callback page's guard `/^\/oauth\/callback/` on where to return ignores the
  `/b` prefix under which the pages are served.

## Not modelled

* `anond verify` and the print commands: they read what a run wrote.
* The character level of the SQL lexer and the TSV encoding: pure functions over
  characters, which the unit tests enumerate.
* Panel renderers, themes, the tweaks panel: presentation.
* The dashboard store: a raw table, a materialized view and a replacing table;
  their protocol is ClickHouse's merges. Two saves within a second are told apart
  by nothing.
* Install, update and uninstall scripts: SQL files in a fixed order, run by hand.
* Views, dictionaries and grants around `schema_guide_data`; `Sandbox` and `Execute`
  take the table as environment.
* Two runs that share a run id (ids have a grain of one second): it would need
  the profile tables of both row by row.

## What is left

* Composition: the words of `Tokenize` on the objects of `Sandbox`; `SpecRuntime` on the
  bridge of `Session`.
* A specification of what the identifier table means to its readers over several
  runs, for which `TokensNeverRemap` is the main step.
