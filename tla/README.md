# DataFlow: models, checks and proofs

This directory holds TLA+ models of the control logic of DataFlow, the TLC
configurations that check them and the proofs TLAPS checks. The code is the
reference: every definition stands for the source lines `PROJECT.json` gives for it
under `map`. Source paths below are relative to `src/`; `wf/` stands for
`src/apps/workflow-go/internal/`.

## 1. The system

DataFlow runs data pipelines. A tenant draws a pipeline (a directed graph of source,
transform, merge, fork and sink nodes) in the web application; the Go API stores it
in PostgreSQL and starts Temporal workflows, which call activities on worker
processes. Redis carries events, an object store carries payloads.

| Component | State it keeps | Operations | What makes it correct |
|---|---|---|---|
| DAG workflow, `wf/workflows/dynamic_dag.go` | plan, results, paused and cancelled flags, signal channels, coroutines of nodes | plan, drain signals, run a batch, collect results, decide, commit, mark | dependency order, bounded parallelism, no commit without full success, truthful phase, cancel is final, termination |
| Activities, `wf/activities/activities.go` | `executions`, `connector_state`, `dedupe_keys`, `node_runs`, `usage_counters` | prepare a cron firing, fetch a page, dispatch, merge, evaluate a condition, commit, mark | each is retried up to five times, so each must bear repetition |
| Execution start, `wf/api/temporal.go` | quota counter, `executions` row, workflow | consume quota, start, insert the row, compensate | a run has a row, a failed start gives its quota back |
| Backfills, `wf/api/backfills.go`, `db/016_backfills.sql` | job and partition statuses | create, claim, fire, mark, cancel, retry | concurrency limit, exclusive claims, recovery after a crash, a job that ends |
| Pipeline lifecycle, `wf/api/routes_pipelines.go` | version rows, status, environment, schedules | create, activate, run, stage, promote | one active version per pipeline and environment |
| Triggers, `wf/api/routes_triggers.go` | Redis stream, done and lock keys | webhook, subscribe, deliver, acknowledge | no lost and no duplicated execution of an event |
| Outbox dispatchers, `wf/dispatchers/dispatchers.go` | three outbox tables | publish events, send alerts, send lineage | at least once, bounded retries |
| Alerts, `wf/api/routes_core.go` | `pipeline_alerts` | acknowledge, resolve, retry a notification | one active alert per fingerprint |
| Billing, `wf/api/routes_billing.go` | orders, extra quota | order, payment webhook | a payment is credited once |
| Authentication, `wf/api/routes_auth.go`, `auth.go` | users, refresh tokens, invitations | register, log in, refresh, log out, invite | a refresh token is used once |
| Retention, `wf/api/server.go`, `db/025_retention_function.sql` | all history tables | periodic sweep | what is in use stays |
| Enterprise engines, `src/apps/workflow-go/ee/` | jobs of Spark and Flink | submit, poll, cancel, resume | a job is cancelled or finished, never lost |
| Connectors, transforms, payload storage, AI authoring, analytics queries | none that others rely on | input, output, pure functions | see section 14 |
| Web session, `web/context/AuthContext.tsx`, `web/api.ts` | user, access token and timer of a tab, the cookie of the browser | bootstrap, refresh, repeat a refused call, log in, log out | a session ends only for a cause, a logout is final but for a named exception, every call settles |
| Canvas editor, `web/pages/PipelineCanvasPage.tsx` | pipeline key, row, stage, fingerprint of what is stored, hydration flags | open, edit, save, activate, promote, run | what is called saved is stored, the badge is true, a load is not forgotten |
| Canvas graph, `web/pages/canvas/`, `web/utils/`, `shared/catalog.ts`, `shared/mermaid.ts` | nodes, edges, an open menu, features | palette, menu, inspector, Mermaid, AI proposals | both validators agree, Mermaid is a faithful view, what is offered is paid for |
| Design-time lineage, `wf/api/routes_pipelines.go`, `shared/lineage.ts` (filters), `web/pages/ArchitectureLineage.tsx`, `RuntimeLineage.tsx`, `lineageFlow.tsx` | versions of the pipelines; filters, focus, selection | build the workspace graph, filter, focus, lay out, gate of a promotion | closed views, exact focus and impact, data flows right, a promotion keeps what is published |
| Data pages, the rest of `web/pages/`, pickers and modals | rows on screen, spinner, error, cursor, timers | load, load more, poll, change | the screen shows the query that is selected, spinners stop, own changes show, watchers settle |

`web/` stands for `src/apps/web/src/`, `shared/` for `src/packages/shared/src/`.

How they meet: the API calls `fireExecution`, which starts a workflow and only then
inserts its row; the workflow reports through activities that write to the same
tables; the backfill dispatcher is a loop inside every API process and shares the
database with the other processes, with users' requests and with the workflows'
marks. The hard behaviour is in these meetings: a workflow racing the insertion of
its own row, two dispatchers racing for a slot, statements deciding on a snapshot
older than what they change, activities that took effect although their answer was
lost, crashes between a claim and its completion, signals drained in a fixed order.
In the browser it is in the answers: every request is answered by a continuation that
runs in whatever state the page has by then, several are under way at once, and few
pages keep them apart.
`PROJECT.json` lists these hazards with their lines.

## 2. Plan

Done:

1. `DynamicDag` with `RunContract`: the executor and its abstract contract, proved.
2. `Backfill`: claims, starts, marks, cancel, retry, crashes; its safety properties
   proved.
3. `Ingestion`: runs of one pipeline sharing a Kafka cursor and dedupe keys, proved.
4. `WebSession`: the session of a browser and the rotation of refresh tokens; its
   safety properties proved.
5. `CanvasEditor`: the canvas page and the versions it stores, proved; `PipelineGraph`
   and `CanvasGraph`: what is on the canvas, its Mermaid view and paid features proved;
   `CanvasValidation`: the two validators on it, proved to agree.
6. `LineageGraph` and `WorkspaceLineage`: lineage, its views and the gate of a promotion;
   the properties of the views proved.
7. `DataPages`: every page that shows what the API answers; its invariants proved.

Left, in this order:

8. `EventDelivery` with an abstract at-least-once queue: outbox, stream, done and lock
   keys, crashes; notifications and lineage with attempts and back-off.
9. `Quota`, the value cursors of databases and files, billing webhooks, retention,
   Spark and Flink jobs; `planBackfill` against a reference definition.

## 3. `DynamicDag`: one execution

State and code: `def` and `trigger` are the workflow's input; `pc` is the position in
`DynamicDAGWorkflow`; `depth`, `levels`, `queue` are `buildPlan`'s variables (`depth`
gives each node its level, 0 while it has none); `pending` and `batch` are the part
of the level that has not started and the futures still to be collected; `run[n]` is
where the coroutine of node n waits, or its status; `results` is `state.Results`;
`pauseCh`, `resumeCh`, `cancelCh` count the undelivered signals; `row`, `cursor`,
`dedupeKeys` are what the run leaves in the database. `sent` is history.

Steps: workflow code between two blocking calls is one step (Temporal runs one
coroutine at a time, deterministically); every activity is one step that ends with the
answer the workflow sees after up to five attempts. An activity that is reported as
failed may have taken effect. Signals and the insertion of the row interleave with
everything. Records are reduced to whether a node has an output reference; a source's
checkpoint is the number of its page. An edge condition, a handler, a page and a merge
each give any answer the code admits. The order of nodes inside a level comes from the
definition and is left open, so a batch is any subset of the right size.

`RunContract` says what a run promises without plan, batches, coroutines and signals:
results settle once and along the edges, commits happen only when every node is clean,
the phase is reported once and truthfully. `ImplementsContract` maps results, the
union of cursors and keys, and the terminal phase of the row.

Run `dag` (MCDynamicDag.cfg): four node identifiers and six definitions: conditional
branches into a merge, two sources into a deduplicating task, a level wider than a
batch with a fork and a payload, a conditional fork with an edge that skips a level, a
cycle behind a root, an edge from an unknown node; two pages, batches of two, two
signals. Two pages reach the page limit, the concatenation and the single page; two
signals give every ordered pair of pause, resume and cancel. Fairness: weak fairness
of the workflow's steps, of each node's activity (start-to-close timeouts and five
attempts make every activity end) and of collecting its future. None for signals or
for the insertion of the row: users owe nothing and an API process may die. A
terminated or finished run has no further step, hence `CHECK_DEADLOCK FALSE`.

`dag_record` is a violation: a fast workflow marks a row that is not there yet, and the
row then stays `running`. A pause that waits at a boundary together with an earlier
resume is lost (`Boundary` drains resume after pause), which no property forbids.

## 4. `Backfill`: one job

State and code: `job` and `part` are the status columns; `overdue` is `starting` with
a start time more than five minutes ago. `step[d]` is where the dispatcher of process d
is between two database or Temporal calls; `candidates[d]` is what the snapshot of its
claim statement offers, `stale[d]` the expired claims its first statement reset and
keeps locked. `wf`, `verdict`, `tries` follow each workflow to its mark, `phase` is the
executions row. `reissued` is history.

The claim function is two steps, because that is where the code is exposed: under READ
COMMITTED the second statement takes a snapshot (`ClaimBegin`), and the rows are locked
later (`ClaimPartition`); PostgreSQL then checks a changed row again, but evaluates the
counting subquery on the old snapshot. `SKIP LOCKED` lets a claim come back empty while
another one holds the job's row (`ClaimNothing`). All other statements and transactions
are one step each; `MarkPartition` decides about the job on the partitions as they were
before it, since all parts of a statement with data-modifying CTEs see one snapshot.
An error after a commit, an ignored error, a repeated activity and a crash between any
two steps are all possible. One job is enough: jobs share only the dispatchers' order
of service. The executor's inside is left out; a workflow reports any of `Outcomes`.

Run `backfill_steady`: one API process (the deployed replica count), two partitions,
limit 1, two workflows, two attempts of the mark and a crash at any point. Run
`backfill_rollout`: two processes, as during a rolling update, three partitions, limit
1, a failed partition and a retry, symmetric in the processes. Three partitions are
needed for two overruns at limit 1. Fairness (steady): the ticker drives each
dispatcher, claims expire as time passes, workflows end; users and crashes owe nothing.
`MaxExecutions` bounds the workflows; a dispatcher whose bound is used up takes the
error path, which the code has too. The job may come to rest, hence
`CHECK_DEADLOCK FALSE`.

`backfill_job` is a violation: no job ever becomes `completed` with its last partition.
With two processes the limit itself is exceeded, because the count of active partitions
is taken on a snapshot older than the locks; `SlotOverrunBounded` says by how much.

## 5. `Ingestion`: the runs of one pipeline

State and code: `log[p]` counts the records of a partition of the topic, `dedupe` says
whether the pipeline has a dedupe node. `pc[r]` is where run r is: fetching pages,
filtering, at its sink, or between the statements of its commits. `pages`, `cp`, `got`
are `runSource`'s page number, checkpoint and concatenated records; `fresh` is what the
dedupe node lets through. `stored` and `saved` are the row of `connector_state`,
`found` and `existing` what the committing transaction of a run read of it, `keys` is
`dedupe_keys`, `sink` the records in the sink with the run that wrote them. `met` is
history: which runs were active together.

An offsets map holds only partitions of which a record was read, so position 0 stands
for an absent partition. A poll returns any prefix of what has arrived, also nothing
(it ends with a timeout). Once a map is saved, only its partitions are assigned
(`Assigned`). Only a run that finds no cursor looks at `startPosition`, on its first page
(`SeeksEnd`): with `latest` it begins where each partition ends when the client asks, so
these ends are any positions from those at the start of the run on (`Begins`); `from[r]`
keeps them (`Began`). The checkpoint of a page holds the partitions of that page and replaces
the one before (`NextCursor`). `CommitSourceCursors` is two steps because its
`SELECT ... FOR UPDATE` locks a row only where there is one; the upsert of a transaction
that found none waits for a lock but then overwrites. Repeating a fetch has no effect of
its own; repeating a commit reads the row again. What the executor decides about a run
is in `DynamicDag`: here a run fails at any node, before or after a part of the sink's
writes, or goes on to its commits.

Run `ingestion`: two runs, two partitions of up to two records, pages of two records
and two pages at most. Two runs give every order of two commits, two partitions a page
that covers one and leaves the other, pages of two a full page followed by an empty
one and the page limit. Both values of `startPosition` are initial states. The run is symmetric in
runs and partitions. Nothing has to
happen, so no fairness is assumed; when all runs have ended and the topic is full
there is no further step, hence `CHECK_DEADLOCK FALSE`. `NothingSkipped` excepts what
`latest` leaves out by design (`LeftOut`): records before the end at which a run began,
once the record after that end was delivered. Any other record behind the cursor must be in
the sink under either setting.

`ingestion_replay` is a violation: a single run that reads a full page and then an empty
one completes and commits no offsets, so the next run delivers its records again,
although the design document reserves replay for failed executions.

## 6. `WebSession`: the tabs of a browser

State and code: `jar` is the `refresh_token` cookie, which all tabs share; `tokens` are
the rows of `refresh_tokens` that are not revoked, `aged` those of them past their 30
days; `page[t]` is what `AuthProvider` of a tab keeps; `refresh[t][o]` is a call of
`/api/auth/refresh` with its owner (bootstrap, timer, or the call whose 401 asked for
it), `call` and `signout` are the other calls, a sign-in among them. The Go handlers
`Server.refresh`, `Server.logout` and `Server.loginPassword` are the other half of the
module. The first is two steps, `CheckToken` and `RotateToken`, since its SELECT locks
nothing; everything the browser does in one continuation is one step. `excused`, `lost`,
`signedOut`, `kept` (the logout left the cookie) and `tried` (a refused sign-in sent a
refresh with a cookie) are history.

A sign-in is a call like any other (`SubmitLogin`): the 401 of a wrong password
(`PasswordRefused`) is taken by `request()` for an expired access token, so it is
answered by a refresh with whatever cookie is there and by a second attempt, which fails
like the first (`LoginFails`). A session also ends when nothing refreshed it for 30 days
(`TokenAges`, `CookieAges`) or when another browser of the user presents a revoked token
(`ReuseElsewhere`). Two assumptions about time are made: nothing is under way when 30
days have passed, nor when a password has been typed.

Run `session`: one tab whose bootstrap, timer, `me`, one call of a page and a sign-in
refresh independently, five tokens, one lost answer, failure or reuse elsewhere. A second
tab only adds contention, after which `SessionLossHasCause` promises nothing; the module
admits any number of tabs. A token nobody mentions any more is forgotten and its number
used again, so tokens rotate for ever in a finite model. One fault at any point is enough:
after it the session is either gone or as before. Fairness: `fetch` settles and
continuations run; users, clocks and faults owe nothing.

Both safety properties are stated with the exceptions the code has. Two refreshes under
way, in one tab or in two, make the reuse detection revoke everything; a lost answer, a
logout, an aged token and a reuse elsewhere end a session too (`SessionLossHasCause`). A
user who signed out while the request of the logout was lost still has a good cookie, and
a wrong password on the login page then shows that user again (`StaysSignedOut`); TLC
finds this when `tried` is taken out of the property.

## 7. `CanvasEditor`: the canvas page and the versions it stores

State and code: `canvas` holds `hydrated.current`, `pipelineKey`, the definition,
`savedRowId`, `savedFingerprint`, `cleanAfterHydration.current`, `pipelineStage` and
what the page waits for; `rows` is the table `pipelines`; `req` are requests between the
click and the continuation. `BeginLoad` and `Loaded` are the two halves of the hydration
effect, `Settle` is the effect on `definitionFingerprint`, which React runs after every
change, `Continue` the code after each `await`. `Open` mounts the page anew, `Jump` moves
in the browser's history while it stays mounted, `CatalogLoaded` changes `byType`, on
which the effect depends too. `pipelineCreate`, `pipelineActivate` and
`createProductionVersion` are the Go handlers, one transaction each.

Run `canvas`: a blank body and two valid ones, one stored pipeline with room for two
versions or two pipelines with room for one, two requests at once. Two requests give every order
of two answers; three versions are a stored, a saved and a promoted one. The properties name what they
except, because the code does it: a load that finds its own definition on the canvas
leaves the hydration flag set (`coincided`); a lifecycle request that overlaps another, a
fetch of a row or a change of address, or whose answer is lost, leaves a badge behind
(`disturbed`); going back to the row hydrated before
while another loads leaves an empty canvas (`wait = "back"`). Also seen in the model and
not promised anywhere: a failed load keeps the key of the pipeline before, under which
the next save is then stored; a double click on Save of a new pipeline creates two.

## 8. `PipelineGraph`, `CanvasGraph` and `CanvasValidation`: what is on the canvas

`PipelineGraph` has the pure functions: the catalog with the features its entries and
options ask for, `pipelineFeatures` of the API, and the conversions between flow,
definition and Mermaid text. `CanvasGraph` is the page: nodes and edges, the menu a
dropped connection opens, and the features of the workspace, changed by every handler
that edits the graph. `CanvasValidation` adds `validatePipeline` and
the API's `validatePipelineDefinition`. The depth-first search of the first is a loop on a
state with the colours, the stack of calls and the entries not looked at yet (`dfsStep`),
the sort of the second removes what has no producer left, round after round (`Unsorted`).
Both run for a number of rounds that is proved to be enough. A node's configuration is its option, the
part that decides about features and merge strategies. Entries that only the manifest of
an API build adds to the catalog are left out.

A Mermaid text is its declarations and links, with what the conversions lose. A label is
that of a catalog entry, padded or in quotes, none, or what a conversion makes of it:
`escapeLabel` drops quotes and parentheses and joins blanks. A condition is the set of the
parts that matter: plain text, bars, slashes, an index in brackets, a key in brackets and
quotes, a newline. `EscapeCondition` writes slashes for bars. Reading
(`mermaidToDefinition`) is two passes over the text: brackets anywhere are looked at as
declarations, those of a condition too, and then taken out of the text; links are then
read line by line, so a condition with a newline leaves no link.

Run `graph`: two nodes from the palette beside those of texts and definitions, six
edits, a source and a sink that share their label and their paid feature, a sink with a
paid option, a merge, a node renamed to the label of another entry, to one with
blanks around it, one in quotes, one of blanks only or none, five conditions (empty; with bars; with an index and bars; with a
newline; with a key), a text that closes a cycle, one that links an undeclared node, a stored definition. Two palette
nodes and the menu reach self-loops, duplicate edges, cycles and edges to deleted nodes.
`Remount` returns to an empty canvas, so there is always a step. `Cyclic` is the
reference the depth-first search is compared with.

`MermaidKeepsGraph` says what a round trip keeps and names what it does not:

* a node that is `Misnamed`: `mermaidToDefinition` looks an activity that is not offered up
  by its label, so a Kafka source renamed "Merge", after the workspace lost the feature
  that offers Kafka, comes back from its own unchanged text as a merge;
* a label that is `Blank` once escaped, for which that of the entry is taken;
* a condition with a key (`Keyed`), whose brackets and quotes declare a node of that name;
* an edge whose condition has a newline is lost, whatever else is on the canvas;
* every other condition loses its brackets and has slashes for bars, every label its
  quotes, parentheses and blanks (`Restored`, `Labelled`).

TLC finds each of the first three when its conjunct is taken out of the property.

## 9. `LineageGraph` and `WorkspaceLineage`: lineage

`LineageGraph` has the functions. The graph is the one the API builds
(`buildWorkspaceLineage` of `wf/api/routes_pipelines.go`): of each definition it follows
one chain, from the first node without incoming edges along the last edge out of each node
(`Chain`); the connectors on it touch assets (`Touches`), contracts and maps on it say which
fields a sink writes and where they come from (`FieldsAfter`), and the touches of all
pipelines make nodes, edges, columns and shared assets. The gate of a promotion is
`extractContracts` and `compareContracts` of the same file, which look for contracts
upwards over all edges. The filters are `filterWorkspaceLineage` of `shared/lineage.ts`,
applied by the browser, the health filter and "active only" those of the pages: they drop
nodes and edges and leave columns and statistics as they were (`Only`), so a listed column
may name an asset the health filter hides. Impact walks, ranks of the layout and the order
of the steps of a run complete the module. `shared/lineage.ts` also has a builder, a version
diff and a contract comparison; only its tests call these and they are left out.

`WorkspaceLineage` saves drafts (`Publish`), promotes them through the gate (`Promote`) or
around it (`Override`: an owner allows the break, or an archived version is activated) and
sets filters. Asset names are bucket and key; specifications of contracts and maps are what
reading them yields. The loops of the code are one round of the loop (`VisitNext`,
`spreadStep`, `growStep`, `walkStep`, `KahnStep`), repeated by `Iterate`. An edge keeps the
number under which it was added when others are filtered out, since the order of edges
decides what the health filter matches and in which order Kahn's algorithm fills its queue.
Drafts have what validation lets through (`IsPublished`): nodes with different ids, edges
among them, no cycle.

Run `lineage`: orders in production and as a draft, and a report on them. The versions of
orders have a contract as an object or as text, with a field that may be missing, a changed
type or a removed field, or two branches of which the chain takes the one without the
contract; the report renames fields, writes back to where the orders came from (a cycle of
pipelines), or copies between systems that have no bucket. References: `Within` for the
focus, `ReachedFrom` for the impact, `Settled` and the longest path for the layout, and for
the gate what the lineage shows a sink to write (`Written`). Nothing need happen, and a user
can always change a filter, so no fairness is assumed and there is always a step.

The model shows what the code does without promising it:

* what is not configured is read as the text `<nil>`, so connectors without bucket and key,
  of whatever system, share one asset and link pipelines that have nothing in common;
* of a pipeline that branches, or has two sources, one chain is in the graph;
* the gate counts only contracts stored as objects, whereas the canvas saves text, and
  compares neither nullability nor assets, although `docs/MEDALLION_ARCHITECTURE.md:49-52`
  describes such a check. `PromotionKeepsPublished` is therefore about pipelines that are
  `Straight`: one chain with one contract, an object, and no map.

The list of changes of the lineage page (`lineageChanges`) sends zero as its number of
breaking changes whatever a version removed; it is a constant and not modelled.

## 10. `DataPages`: pages that show data

All pages, drawers, pickers and modals that load data are one state machine under a
policy: which answers are ignored, what sending and failing reset, when controls are
enabled, how it polls, how a change reaches the screen, and whether the failure of a part
of a load is replaced by an empty part. Each policy is read off one
component, and the constant `Pages` lists those a run checks. `ui` is the component's
state, `pending` its requests in the order they were sent, `server` the data (a set of
changes). A request is served and answered in separate steps and in any order; `late` and
`excuse` are history. `LosePart` is the failure that four pages swallow: the incidents and
the log of `MonitoringPage`, the invitations of `TeamPage`, the health in
`ArchitectureLineage` and the live status of `RunDetailPage` come back empty, with no error.
A custom window of `RuntimeLineage` loads when it is applied, not when it is typed
(`Typing`).

Run `pages`: all components, two filters, two changes, two pages of rows, two requests at
once, one failure. Two requests are what an overtaking needs; two pages of rows give a
load more after which there is none. Fairness: timers fire and requests are answered;
users owe nothing. Some pages come to rest, hence `CHECK_DEADLOCK FALSE`.

`excuse` is set by an answer and lasts until the next load: the load `failed`, it lost a
part (`partial`), it was applied after a newer answer or had left the server before a change
(`late`), its rows were appended to rows of other filters (`mixed`, a `loadMore` of
`RuntimeLineage`), or it answers a form that has changed since (`moved`, the plan of a
backfill). Each is what the code does. `ShownMatchesQuery` and `OwnChangeIsShown` promise
what holds otherwise; pages all of whose requests are under a guard get no excuse for late
answers in the first. `OwnChangeIsShown` would not hold without the excuse `late`: few pages
keep a read that was sent before a change apart from one sent after it, so what was
resolved or disconnected can come back until the next load. Also seen and promised nowhere:
`AddWidgetModal` can add a widget before the columns of its dataset have arrived.

## 11. Properties

Each is stated above its definition; in short:

| Property | Says |
|---|---|
| PlanIsLayering | an accepted plan is a layering of the graph, a cyclic graph has none |
| DependencyOrder | a coroutine starts only when all upstream results are in |
| ResourceBounds | parallelism and pages stay within their limits |
| WorkNeedsSuccessfulUpstream | no work behind failed or skipped nodes only |
| CommitOnlyAfterFullSuccess | durable state moves only after a clean, uncancelled run, and only to pages that reached the results |
| RecordedPhaseIsTrue | completed, failed and cancelled rows mean what they say, with everything durable for completed |
| CancelStopsWork | nothing starts or is recorded after an honoured cancel |
| Termination | a run ends or waits, paused, for a signal |
| ImplementsContract | refinement of `RunContract` |
| ConcurrencyLimit | active partitions within `max_concurrency` (holds for one process, violated for two) |
| SlotOverrunBounded | overrun of at most one per further process |
| ClaimExclusive | two processes never start the same partition, except after expiry or retry |
| CompletedMeansLoaded | completed partitions and jobs were loaded by a recorded, completed execution |
| NoClaimAfterCancel | no claim for a cancelled job, even from an older snapshot |
| AbandonedClaimRecovered | a claim left behind by a crash does not hold its slot for ever |
| NothingSkipped | a record behind the saved cursor or with a stored key is in the sink, but for those before the end at which a run with `latest` began |
| DuplicateHasCause | with a dedupe node a record is in the sink twice only after a failed or an overlapping run |
| OffsetsMoveForward | a saved offset moves back only when a commit found no row to lock |
| CompletedRunIsBehindCursor | what a completed run delivered is behind the cursor (violated) |
| SessionLossHasCause | a user is signed out only after contention, a lost answer, a logout, 30 days or a reuse elsewhere |
| StaysSignedOut | after a settled logout nobody is shown until a sign-in, unless a refused one meets a cookie that a lost logout or another tab left |
| RequestsSettle | every call ends, after at most one refresh and one repetition |
| ShownIsStored | what Activate, Promote and Run act on is what the canvas shows |
| BadgeIsTrue | the stage shown is the stage of the row |
| LoadingIsUnderWay | a page that says it is loading has its row under way |
| SaveIsAccepted | the canvas finds every cycle, and what it calls ready the API accepts |
| MermaidKeepsGraph | the generated text, applied, gives the same graph, up to what escapes lose and the cases of section 8 |
| OfferedIsEntitled | nodes a user can draw ask only for features the workspace had |
| ViewIsClosed | no edge of a view leaves it, no listed column leaves what the filters keep, and a filter that hides nothing changes nothing |
| FocusIsBall | focus and impact are exactly the nodes within reach |
| DataFlowsRight | columns are longest paths, steps are in order of production |
| PromotionKeepsPublished | a promotion the gate lets through takes no field or type from what the lineage shows a sink of a straight pipeline to write |
| ShownMatchesQuery | a settled page shows the rows of its query, without a gap, unless its last answer has an excuse |
| SpinnerHasRequest | a turning spinner has a request whose answer stops it |
| OwnChangeIsShown | what the user changed is on the screen once the page settles, unless its last answer has an excuse |
| WatchSettles | pages that poll come to show the last state |

Every property of a passing run has a mutant in `PROJECT.json`: a plausible slip in a
mapped definition under which the same run reports the property violated.

## 12. Proofs

`DynamicDagProofs` proves, for every set of nodes, every set of definitions and every
bound, from the named assumptions of `DynamicDag` only (the definitions are
well-formed records, the node identifiers are finitely many, the limits are positive):
type correctness, all invariants of run `dag`, the action property `CancelStopsWork`,
and the refinement of `RunContract`.

None of the invariants is inductive by itself. The inductive invariant has layers,
each proved from those before it:

* `TypeOK`;
* `PlanInv`: nodes with a level are nodes of the definition and have their upstream on
  earlier levels; the queue is exactly what the placed nodes release; after planning
  everything is placed;
* `LoopInv`: levels below the current one have results, the current level is split into
  pending, batch and collected, later levels are untouched;
* `NodeInv`: what the status, page, checkpoint and upstream of a coroutine imply for
  each other, and that a collected result is the coroutine's status;
* `VerdictInv`: from the verdict on, the phase agrees with results and flags, and durable
  state with the position in the commit sequence.

The named properties follow from these layers. `CancelStopsWork` needs `LoopInv` (no
coroutine is active at a boundary). The refinement maps `CollectFuture` to `Settle`,
the first commit that takes effect to `Commit`, `MarkExecution` to `Report`, and every
other step to a stutter.

`IngestionProofs` proves, for every number of runs, partitions, records and pages, all
properties of run `ingestion`. Besides `TypeOK` with `PagesInv` (a run that may fetch
is below the page limit) the invariant has three independent parts:

* `DeliveryInv`: a checkpoint covers only records that are in the sink or were read by
  its own run, or that `latest` left out (`Passed`), and what a run has read is in the
  sink, or was there before, once its sink node is done. Without it `NothingSkipped` says nothing about the cursor that is
  about to be committed.
* `LockInv`: at most one transaction holds the row, and what it read of the row is still
  the row. `OffsetsMoveForward` follows, as the merge takes the larger offset.
* `KeyInv`: of two runs that did not fail, either they were active together or one ended
  before the other started; then its keys are stored and the other lets none of its
  records through.

`WebSessionProofs` proves, for every set of tabs and calls and every number of tokens
and faults, the type invariant, `SessionLossHasCause` and `StaysSignedOut`:

* `SignedOutInv`: a tab whose logout settled has nothing under way but a sign-in, whose
  refresh carries no cookie unless `tried` says so, so nothing is left that could bring a
  user back; `TypeOK` adds that it has no timer.
* `CauseInv`: until something excuses a loss there is one tab and no aged token; it has
  one refresh at most, which carries the cookie; a cookie, a user or a call means that a good token is
  in the jar or on its way. So a refresh is refused only when there is no cookie, and
  then there is no user to lose. `SessionLossHasCause` alone is not inductive: it says
  nothing of the token that the next refresh will send.

`BackfillProofs` proves, for every finite set of dispatchers and every number of
partitions, executions, attempts, crashes and retries, all safety properties of the two
passing backfill runs, and `ConcurrencyLimit` for a single dispatcher. `TypeOK` is
joined by `StepInv` (a dispatcher that is firing holds a partition, an execution that
was not started has left no trace). On these rest

* `LockInv`: rows that a claim has reset stay expired until it commits, and one claim at
  a time has such rows;
* `LimitInv`, a count: the partitions that occupy a slot or are in the hands of a
  dispatcher, and one for every claim that may still take one, are at most the limit and
  one for each further dispatcher. It has two halves, since a claim that reset expired
  rows may commit or be rolled back, and the slots it freed exist only in the first case.
  `SlotOverrunBounded` alone is not inductive: it does not see the claims under way.
  With one dispatcher the bound is the limit, which is `OneDispatcherKeepsLimit`;
  with two it can be exceeded (section 4);
* `ExclusiveInv`: a partition that is pending while a dispatcher fires it was put back.

`CompletedMeansLoaded` is inductive with the types, and `NoClaimAfterCancel` holds step
by step: the recheck of a locked row comes after the snapshot.

`CanvasEditorProofs` proves, for every set of bodies, every initial table and any number
of requests, the four invariants of run `canvas`. All rest on `Core`: the types,
`RoomInv` (the table has room for what was asked for) and `RefInv` (the rows that the
page, the addresses and the requests name are in the table, and the row of an answered
save holds what was sent). Each property adds one part of its own:

* `StoredInv`: the fingerprint of the page is that of its row, and no hydration is
  pending that would overwrite it;
* `LoadInv`: a page that waits for its row has not hydrated it, so that whatever cancels
  the fetch makes the effect send another;
* `BadgeInv`: undisturbed, there is one lifecycle request or one fetch (`Alone`), it is
  for the row of the page and its answer will be true of the table (`OfThePage`), and
  the badge is true unless that answer is on its way (`Shown`).

The lemmas say what creating, activating and promoting keep of a table.

`DataPagesProofs` proves, for each of the 27 components, every set of filters and
changes, and every number of pages, requests and failures, the three invariants of run
`pages`. The proof does not go through the policies one by one: `PolicyFacts` checks that
all of them satisfy `PolicyOK`, and the rest uses only that. So `PolicyOK` lists what a
new page has to respect: a load under the guard that `loadMore` shares resets the cursor
and the other spinner, a spinner shared with `loadMore` has no guard, a page with
`loadMore` neither changes data nor drops rows, and one that swallows failures has no
`loadMore` and takes no change from an answer. The actions enter through `StepCases`,
which gives every step one of twelve forms. On `Base` (types, and that what was asked
for is something the component does) rest

* `SpinnerInv`: while a guarded page loads it offers no further page and every load more
  is outdated, so no request can discard the answer that stops the spinner;
* `OwnInv`: what is acknowledged has been applied; every answer that is not late knows of
  it; so does the screen, unless a load that will be applied is on its way;
* `ShowInv`: a load that counts asks for the query applied last or a newer one does
  (`LoadsInv`); rows arrive in order (`RowsInv`); under a guard only the newest request
  is current (`GuardInv`); a load more that counts continues exactly what is shown
  (`MoreInv`); the screen matches, or a load is on its way, or the window is incomplete
  (`ScreenInv`). It needs `SpinnerInv`, without which a load more could discard the load
  that repairs the screen.

TLC checked these invariants, with two and with three requests at once, before they were
proved.

`CanvasGraphProofs` proves `OfferedIsEntitled`, `MermaidKeepsGraph` and `SaveIsAccepted`
for every palette, every set of options, labels, conditions, texts and feature sets, and
any number of nodes and edits. It assumes that the palette is the catalog or a part of it closed under equal
labels (`PaletteAssumption`), and that what is typed or loaded has the shape of the
program's types, stored nodes having the type of their activity (`InputAssumption`). For
`SaveIsAccepted` it also assumes that texts and definitions are finite and that stored
definitions were accepted by the API. The invariant says more than the first two
properties:

* `WellFormed`: a node has the type `defaultNodeType` reads off its activity, which
  `CatalogIsTyped` shows to be that of the catalog, so a text gives it back whether or not
  the entry is still offered;
* `Brings(graph)`, the features its nodes ask for under their own activity or under any
  other, is within `granted`: a text may change the activity of a node, which keeps its
  option. `Needs(graph)` alone is not inductive for that reason.

`LabelledAlike` (two entries with one label ask for the same feature) is what keeps a
label from leading to another entry when that of the node is no longer offered.
TLC checked the invariant on run `graph` before it was proved.

`SaveIsAccepted` is about two algorithms on an arbitrary finite graph. The library's
induction theorems cannot be used, as they take the predicate as an operator; but every
set of naturals has a least element (`LeastElement`, from `WFMin`), which gives induction
on a set (`SetInduction`) and that every loop has a run (`LoopRuns`). Then

* the depth-first search keeps `Searching`: the gray nodes are the stack, a path without
  repetition; black nodes lead to black nodes only and no set of them runs in circles.
  Its measure `Todo` falls with every step, so `dfsBound` steps finish it
  (`DfsFinishes`). A gray node met closes a cycle along the stack; none met leaves
  everything black (`DfsFindsCycles`);
* the API's sort gets stuck only on nodes that all have a producer among them, and these
  hold a cycle along the edges too (`BackwardsInCircles`), which the canvas had reported.

`WorkspaceLineageProofs` proves the three properties of the views for every number of
pipelines and environments and every set of drafts, healths, layers, domains and
queries. It assumes `LineageAssumption`: the drafts are what validation lets through.
The invariant of the page is small (`PageInv`: versions are published drafts, only the
architecture tab has a focus and only the runtime tab hides idle pipelines); the work is
in what the algorithms compute. `LoopInvariant` carries an invariant along the rounds of
a loop, and each loop has one:

* `ViewIsClosed`: the visits of a chain are `Traced` (a field that is known comes from a
  source visited before), so what a row touches is `IsTouches` (columns end in assets the
  same pipeline touches) and the graph built is `IsGraph` (edges join nodes, columns belong
  to assets among them). Filters with a query of their own keep that; `shared` recomputed on
  all nodes is `shared` as built; the filters of the pages keep that edges join nodes;
* `FocusIsBall`: `Spreading` says that the queue is sorted by distance, spans one step, and
  that each node was queued under the round of the ball it is first in; `Walking` says that
  what was taken from the queue has its successors found, and each node is queued once, so
  as many rounds as there are nodes empty it;
* `DataFlowsRight`: `Sorting` joins five parts: an indegree counts the edges not used yet,
  the edges of what was passed are used, a queued node has its producers before it, its
  column is the longest path over used edges, and every round takes an edge or a node.
  At the end a node never queued has a producer never queued, so it is not `Settled`; in
  the steps of a run, whose definition has no cycle, there is none.

## 13. Only model-checked

`Termination`, `AbandonedClaimRecovered`, `RequestsSettle` and `WatchSettles`: liveness
under fairness is out of the prover's reach. `PromotionKeepsPublished` relates two walks
over an arbitrary definition, one of them recursive, and is only model-checked. Every
other property that a passing run checks, invariant, action property or refinement, is
also proved.

## 14. Not modelled

Connectors other than Kafka, payload encoding, encryption and object storage are input
and output without shared control state: what they may answer is the nondeterminism of
`FetchSourcePage`, `DispatchNode` and `MergeRefs`. AI authoring, analytics and lineage
queries of the API only read. Of the web application, layout and drawing (charts, flow
nodes, shell, theme, date picker), form fields, the editing of a dashboard, and the
billing, profile and settings pages, which send one request per button, are left out, as
is the hook `useApiResource`, which nothing uses. Registration, e-mail verification and
sign-in by Google or OIDC end in the same session as a password and are left out, as are
`buildWorkspaceLineage`, `diffPipelineLineage` and `comparePublishedContracts` of
`shared/lineage.ts`, which only tests call. The parts listed in section 2 under
steps 8 and 9 are planned and not yet modelled.
