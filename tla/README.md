# Verification of kcl-packages

TLA+ models of the programs in this repository, TLC configurations that check
them on small instances, and proofs about them that TLAPS checks.  Paths below
are relative to `src/`.

## The system

The repository packages KCL programs for Crossplane and Kubernetes, and holds
the programs that render, apply, publish and describe them.

| part | code | state it keeps | operations |
|---|---|---|---|
| KclModule controller | `rust/crates/kcl-operator/src/{controller,error}.rs` | none of its own: the cached modules, `status` on the API server | reconcile: add the finalizer, render, apply, prune, write status; cleanup; requeue |
| applier | `.../apply.rs` | cache of discovered kinds | resolve, apply, delete |
| planning rules | `.../plan.rs`, `.../crd.rs` | none | plan, scope, reference, stale, parse_interval, set_condition |
| module service, REST API | `.../service.rs`, `.../api.rs` | none | list, get, apply, delete, preview, validate |
| render engine | `rust/crates/kcl-render/src/engine.rs` | memos `pulled` (url@tag to directory) and `deps` (directory to resolution) | render: entry, dependencies, exec |
| package resolver | `.../deps.rs` | the cache directory, shared by threads and processes | fetch, walk, vendor, rewrite registries |
| render sources | `.../source.rs` | a directory of inline programs | parse, materialise |
| desired-state composition | `.../compose.rs` | none | match items to composed resources, patch, mark ready |
| composition function | `rust/crates/kclx/src/function.rs` | none between calls | RunFunction, required resources |
| kclx | `rust/crates/kclx/src/{main,render,cluster}.rs` | none | render, module, serve |
| KCL agent | `rust/crates/kcl-agent/src` | the conversation of one run | model turn, tool calls, write gate, step limit |
| render executor | `tools/nx-kcl/src/render` | function containers on the docker host, shared by name | inspect, remove, run, wait, render, clean up |
| releases | `tools/nx-kcl/src/release`, `.github/workflows/release.yml` | main, its tags, the images in the registry | version, pin, push, publish, retry |
| nx project graph | `tools/nx-kcl/src/create-{nodes,dependencies}.ts` | none | which projects exist, depend, are releasable |
| catalog | `tools/catalog/src` | two committed artefacts; a session's scan | scan, findings, render, check; MCP requests |
| benchmarks | `tools/bench/src` | containers, the cells measured | one run over runtimes, scenarios and phases; the gate |
| pricing | `tools/pricing/src/refresh-rates.ts` | `rates.k` | refresh, check |
| install graph | `tools/graph/src` | none | draws a diagram |
| package-registry function, xup | `python/` | none | one request, one response; scaffolding |
| entitlement gate | `packages/platform/entitlement/lib.k`, used by `packages/cloud/{forge,repository}/forgejo` | none: the tenant's record is in the cluster | request the record, resolve the gate |
| KCL packages | `packages/` | none | declarative schemas |

How they interact.  A user writes a KclModule (kubectl, `kclx module`, REST).
The watch feeds the controller's cache; a reconcile calls the engine, the
engine calls the resolver, the resolver pulls from the registry into the cache
directory; the rendered objects go through the planning rules to the applier,
and what was applied goes into `status.inventory`, which is the only input of
the next prune and of the cleanup before the finalizer is dropped.  The
composition function and the CLI call the same engine; function, operator and
CLI may share a cache directory.  Crossplane calls the function once per step of a
pipeline, with the desired state of the steps before, and again while the step
asks for other resources than in its last answer; the gated packages use that to
fetch the tenant's record before they compose anything.

Developers commit to main; a commit wakes the release workflow, which bumps, pins,
tags, pushes and then publishes what changed.  A composition on main names a
published image by registry and version, so what a cluster pulls rests on the
order of those pushes.  The catalog tools read the same tree, into artefacts that
are committed beside it and into the answers of an MCP session.  Render tasks and
benchmarks drive functions in docker containers that outlive them.

What is hard.

* A reconcile works from the module as *cached* when it began, over many
  awaits: the user edits, another module's reconcile runs, the controller's own
  earlier write is still on its way to the cache, a call fails, the process dies.
* The status is written with a merge patch whose serialisation drops empty
  fields, and every write wakes the controller again.
* The cache directory is written by several threads and processes at once and
  is wiped under long-lived processes; two memos in front of it have to notice.
* Package tags move.
* Desired state is a full intent: what a response leaves out is deleted.  A gated
  package answers its first call with nothing but a request.
* A release is two pushes to two places, either of which may be refused, while
  main moves; its bumps, tags, pins and images must still agree.
* Containers are found by name: another checkout's, a killed task's, a half
  created one.
* Vendors cut answers into pages and change their lists between two of them; the
  file that is rewritten from them has other writers.

`PROJECT.json` lists the components with their status and the hazards line by
line, each with the properties that would catch it.

## Modules

| module | models | state |
|---|---|---|
| `KclOperator` | controller.rs, apply.rs, and what they use of plan.rs and crd.rs, with the API server, the watch and the users | `feed` (versions of a module, cached .. stored), `cluster`, `terminating`, scheduler (`due`, `armed`), the running reconcile (`pc`, `seen`, `todo`, `done`, `pruned`, `outcome`) |
| `RenderCache` | engine.rs and deps.rs with the registry, the file system and `rm -rf` of the cache | `registry`, `cache`, `doomed`, memos `pulled` and `deps`, the running renders |
| `AgentLoop` | agent.rs, tools.rs and llm.rs of kcl-agent with the model and the cluster around them | one run: `messages`, `calls` still to run, `steps`, `writes`, `turn`, `nudged`; the `cluster` |
| `Composition` | compose.rs, function.rs and the entitlement gate, with Crossplane's pipeline, the users and billing | one XR: `spec`, `record`, `live`; the reconcile (`pc`, `at`, `seen`, `desired`, `asked`, `fetched`, `fetches`) |
| `DockerHost` | the docker daemon, as the tools use it | `containers` by name |
| `RenderTask` | render-executor.ts over `DockerHost` | per task: where it stands, its options, whether it started the container, what answered |
| `Bench` | main.ts, docker.ts, client.ts, request.ts, normalize.ts, scenarios.ts of bench, over `DockerHost` | `pc`, the arguments, the position in the matrix, the last `answer`, `observed`, `cells` |
| `PriceRefresh` | refresh-rates.ts, its vendors, the people who edit `rates.k` | per run its place, query, page and what was found; `listing`, `file`, `day` |
| `RateCard` | the abstract promise of the committed rates | `rates`, `asOf`, `quotes` |
| `Estate` | scan.ts, findings.ts and catalog.ts, as operators on a tree | none |
| `Release` | version-actions.ts, publish-executor.ts, the project graph and release.yml, over `Estate` | `main`, the waiting and the running workflow run, `tags`, `oci`, `docs` |
| `CatalogServer` | one session of mcp.ts, composed with `Release` | `sent`, `queue`, `handling`, `cached`, `out` |
| `MCKclOperator`, `MCRenderCache`, `MCAgentLoop`, `MCComposition`, `MCRenderTask`, `MCBench`, `MCPriceRefresh`, `MCEstate` | instances for TLC | |
| `KclOperatorProofs`, `RenderCacheProofs`, `AgentLoopProofs`, `CompositionProofs`, `RenderTaskProofs`, `BenchProofs`, `PriceRefreshProofs`, `CatalogServerProofs` | theorems about those modules | |

`CatalogServer` EXTENDS `Release`, which EXTENDS `Estate`: one state machine, in which
developers, the workflow and an MCP session act on one tree.  `RenderTask` and `Bench`
each EXTEND `DockerHost`.  `PriceRefresh` instantiates `RateCard`.

### KclOperator

`feed[m]` is the history of module `m` that the controller has yet to see: its
last element is what the API server stores, its first what the reflector
caches.  `Deliver` moves the cache one event on and makes the module `due`.
`Start` is the call of `reconcile` by kube-runtime, which runs one reconcile per
module at a time; `seen[m]` is the `Arc<KclModule>` it is given.  From there each
await that leaves the process is one action: `AddFinalizer`, `Render`,
`ApplyOne` per object, `StartPrune`, `DeleteOne` per object, `WriteStatus`,
`RemoveFinalizer`.  `finalizer()` of kube-runtime dispatches (`Dispatch`).
`RenderFails`, `ApplyFails`, `PruneFails`, `CleanupFails`, `PatchFails` and
`Crash` are the failures; a failed apply or delete may have taken effect.

A delete is a request (apply.rs:126-127): `DeleteOne` puts the object among the
`terminating` ones, from which it goes (`Vanish`) at any later time or never, as its
finalizers and grace period have it.  Nothing in the code waits for that, so the
finalizer of the module may be dropped while objects of it are still on their way out.

Abstractions.  A rendered object is the reference that identifies it, so two
elements of `Objects` are never one object of the cluster.  A source stands for
its digest and for what it renders (`Items`), and its `Verdict` says whether
render, plan and resolve accept it.  The `Ready` message is kept as far as two
reconciles can differ in it (the number pruned).  `now()` is any value of
`Clock`.  A module name is created once.  A delete whose kind has vanished from
discovery, which the applier skips, is not told apart from an object that is
already gone.  `released` and `lagged` are history variables: the objects a module gave up by
applying with `prune: false`, and the modules of which some reconcile was started
without the controller's own last write to them (status or finalizer) in its cache.

### RenderCache

A render of thread `t` takes the path `Engine::entry` (`Begin`), `fetch`
(`FetchManifest`, `Probe`, `Unpack` per file, `Publish`, `Confirm`),
`Engine::dependencies` (`Dependencies`), the walk (`ReadManifest`, `FetchNext`
and `fetch` again, `Resolved`) and `exec_program` (`Exec`).  A wipe removes files one
at a time and in any order, so a directory can exist without its `kcl.mod`.

Abstractions.  A layer is the directory it is unpacked to.  Staging directories
are private to a thread: their names hold the process id and a counter.  A
file is whole or absent.  The removal of the last file of a directory and of the
directory is one step.  `fresh` is a history variable: what each reference has
named since the render began.  OCI sources only, without vendoring.  A
dependency's name is that of its package, `NameOf`, whatever its tag.

### AgentLoop

A run asks the model (`Answers`, `IsSilent`, `CallsTools`), runs the calls of the
reply one by one (`RunTool`) and asks again, until the model answers in prose or
`MaxSteps` turns are gone (`StepLimit`).  `ModelFails` is every error of the
model's endpoint, `Disconnect` the HTTP client that goes away, `Others` the rest
of the world at work on the cluster.

Abstractions.  One run: runs share nothing but the cluster, so a second one is
part of `Others`.  The six reading tools and the two dry runs are one tool,
`read`.  An object is there or not; a delete that waits for finalizers counts as
done.  A blank task, refused before the loop, is left out.  Each reply of the model has
up to `MaxCalls` calls, in every turn.  `effects` is a
history variable: the calls that did change the cluster, answered or not.

### Composition

The function keeps nothing between calls, so `Call` is a whole RunFunction: what
the package renders (`Rendered`), what compose.rs accepts of it (`Accepts`) and
makes of it (`Resources`, `Composite`), and how Crossplane takes the response: a
fatal result ends the reconcile, requirements other than the last ones lead to a
`Fetch` and the call of the same step again, else the step is done.
`ApplyDesired` is what Crossplane does with the last step's desired state.  The
code folds the items one by one; here they are taken together, which is the
same, since names are unique in a step (`Named` tells apart by position, so an item
listed twice is a duplicate too), a patch step adds no name, and one item
that is rejected rejects all.  Patches of one resource are still folded in order,
`PatchNamed` taking the items that are about it.

Abstractions.  A document has two levels, sections and fields, enough for a
shallow and a deep merge to differ; apiVersion and kind are one field.  The name,
readiness and request of an item are given with it, not dug out of annotations.
What a package renders is a function of the spec (and of the record, if gated);
observed composed resources, context and connection details are left out, and so
are `spec.credentials` and the other inputs that are rejected whatever happens.
The fetched record is missing, denies or grants.  Crossplane's own writes are
atomic, and it does not sleep between reconciles.  `granted` is a history
variable.

### RenderTask

A task takes the path of `kclRenderExecutor`: everything a project can lack is found
first, then `inspectContainer`, `rm`, `run`, the wait for the port, the render by
crossplane and, if the task is not to keep the container, its removal, whoever
started it (render-executor.ts:316); a removal that fails fails the task, and an
inspect that fails is taken for a name that is free.  Containers of other tasks and of earlier ones are there under any name
and in any state (`created` is what a failed port binding leaves behind).

Abstractions.  What is rendered is the tree that the answering container mounts.
`disturbed` is a history variable: tasks whose container or port somebody touched
since they looked at it.  The properties speak of the others, because the code
says itself (render-executor.ts:250-252) that tasks share one container.

### Bench

One run after another: `main` takes the arguments, `--only` and `--scenario` among
them, and throws when either matches nothing; then each runtime that was asked
for is started (`ClearName`, `startFunction`, `waitForReady`), measured in each of its
scenarios in two phases, and stopped; `Compare` and `Gate` end the run.  A cell is a
first call, which must not be fatal (`FirstCall`, `Fatal`), and the warm-up and the loop
behind it (`measure`): only the last answer is kept, and only that one is carried into the
second phase (`Record`).  `removeContainer` swallows every failure of `docker rm -f`, as
docker.ts:212-218 does; `swallowed` is a history variable that remembers one until the
next `docker run`.

Abstractions.  The answers between a cell's first and last are left out.  A desired state is
its content and whether it carries empty metadata
maps, which is what normalisation tells apart.  A run whose selection lacks the
reference compares nothing and passes; that is what the code does.

### PriceRefresh and RateCard

A run reads its arguments and credentials, reads `rates.k`, then sends the queries
of each cloud's builder in their order, page by page, takes a meter's price only
if exactly one SKU matches over all pages (`Only`), splices the block, and writes
the file once at its end, or compares if it is a check.  Vendors change their lists
between any two pages; people edit the file; days pass; a run may be killed.

`RateCard` is what the committed file promises: each rate of a dated block was quoted on
that day or after.  `ImplementsCard` maps `rates`, `asOf` and the quotes of
`PriceRefresh` onto it; nothing is promised about whose edit survives, since two
runs, or a run and a person, may overwrite each other with an older text.

Abstractions.  A price is one meter's; arithmetic, units, request bodies and the
text of a block are left out.  The one write is atomic: `writeFileSync`
(refresh-rates.ts:735) truncates first, and a run killed in the middle of it leaves half a file,
which the next run or build refuses.  A machine type, a disk tier and a database class are one
rung each.  `quotes` and `steady` are history variables.

### Estate, Release and CatalogServer

`Estate` reads a tree as the catalog does: packages, XRDs, compositions, examples, usage,
all findings, and the entities and the graph document made of them.  `Release` has the
developers (`Commit`, past a hook that looks at some files only), and the workflow:
`VersionAndTag` (checkout, affected packages, bumps, pins, local tags), `PushMain`
(atomic, refused when main has moved), `kclPublishExecutor` per package, `Finish`,
`Cancel`, `RetryPublish` and `Dispatch`, the run that is started by hand.  A push of an
image that fails may have left the image.  A retry runs from the tagged commit in the same
environment.  `CatalogServer` adds the lines of a client, the chain of handlers
(`Serve`, one at a time, `RemoteAnswers` for the tools that wait), the scan kept from
first use, and the end of input.  Of the tools that wait, those of GitHub take the
repository's name from the scan and Jira's does not.  A notification is dispatched like a
request and never answered; a line that is no JSON is answered; a line that is `null` kills
the server (mcp.ts:327 reads its id outside the try).

A commit passes `just mod-check` (`ModCheck`): path dependencies are packages and a
Composition's source is its own package.  lefthook runs it whenever a kcl.mod or a YAML file is
staged, the only files that can break it.  A package is not taken out again.  `ReleaseAssumption` asks of the
tree the model starts from what the repository's own has: it passes `ModCheck`, a kcl.mod
names a dependency once (TOML allows no more), and a pinned Composition pins the version of
its package at the registry of `nx.json` (`Released0`), as the last release left it.

Abstractions.  A version is a number, a package is named after its directory, and a file
is what the scan and the release read from it.  `cut`, and the artifact remembered with a
tag, are history.  Titles, links, row order and the filters of the MCP tools are
left out.

## What is checked

| run | instance | states | question |
|---|---|---|---|
| `operator_ledger` | two modules, three objects, four sources, 3 user actions, no failure, caches up to 1 event behind | 0.8 M | nothing owned is forgotten, nothing is left behind, inventory and hash are of one apply |
| `operator_live` | one module, sources that render two objects, none, or are rejected, caches 1 event behind, 3 user actions, 1 failure, two clock values, fairness | 1.5 M | what the status claims is true of one apply; failures shrink nothing; deletes rest on an inventory; everything settles and the controller stops writing |
| `operator_stale_delete` | one module, lag 2 | violation | a cleanup with an old inventory orphans an object |
| `cache` | two threads of one process, one republish, two tags of one library, one failure or crash, one wipe between renders, fairness | 0.6 M | whole packages, harmless races, fresh pulls, recovery |
| `agent` | one run, one object, 2 turns, up to 2 calls per reply, 2 failures, 1 move of others | 122 k | the conversation is well formed, the report is true, the gate holds, no run exceeds its budget |
| `composition` | one XR, five steps (one per target; one gated; one patch nulls a name), three specs of which one fails, 3 changes, 2 failures, fairness | 6.7 k | the gate fails closed, steps keep what others desire, nothing wanted is deleted, identities survive other patches, requirements settle |
| `price` | two runs, each a refresh of azure and aws, of gcp, of nothing known, or a check; two prices, two pages; one change by a vendor or a person, one midnight | 0.5 M | the card stays honest (`RateCard`), checks pass only what they saw, pages hide no ambiguity, a run writes all or nothing |
| `render` | two tasks that differ in at most one option, any leftover under the default name, 1 failure | 58 k | an undisturbed render is its own tree's; leftovers stop nobody |
| `bench` | two runs, four selections of runtimes and three of scenarios, answers of three shapes, 1 failure, swallowed or not | 2.1 M | the gate, the matrix that was asked for, leftovers |
| `estate` | four packages, three moves among commits, runs by hand, failed pushes, a cancelled run and lines of a client, one of them `null` | 0.9 M | tags, images and pins agree; nothing is forgotten; a session is in order and of one tree |
| `publish_not_self_contained` | the same | violation | a path dependency of a path dependency is not in the image |
| `portal_stale` | the same | violation | the committed catalog describes an older tree |

The violations are findings: each contradicts a sentence of the repository,
which `PROJECT.json` quotes, and the trace is short enough to replay by hand.

These divergences are described here and are not among the runs.  Where a property
would be violated it names the exception in its own statement, so that what is left is
checked and proved.

* An apply whose answer is lost, or that fails after others have succeeded, leaves
  objects in the cluster that are in no inventory until a retry
  (`InventoryListsApplied` with one failure), although "`status.inventory` lists every
  applied object" (rust/README.md:180).  `LedgerComplete` speaks of undisturbed modules.
* An emptied inventory is not serialised and the merge patch keeps the old one, so
  after a render that has become empty the inventory is not what "the last successful
  apply owns" (crd.rs:132-134).  `InventoryIsLastApply` allows the old one of an earlier apply
  there, and nothing else.
* The same render makes every reconcile send a patch: the status it computes, with an empty
  inventory, never equals the one it came from.  A patch that changes nothing on the
  server wakes nobody, but `lastAppliedTime` is copied from the cached status;
  with a cache that stays one event behind, two of its values take turns and the controller
  keeps waking itself.  `NoHotLoop` excepts these modules (`Emptied`).
* `write_status` computes the whole status from the module as cached when the reconcile began
  (controller.rs:262): a status written since, a newer inventory with it, is overwritten.
  `FailureKeepsInventory` excepts a write whose status has been replaced meanwhile;
  `InventoryIsLastApply` and `ReadyDescribesSpec` hold all the same.
* The finalizer is "removed only once the inventory is gone from the cluster" (crd.rs:24), but
  apply.rs:126-127 asks for a background deletion and waits for none, so an object with
  finalizers of its own may outlive the module's.  `LeavesNothing` counts an object on its
  way out as gone.
* A cache that is removed between a pull and the walk of its `kcl.mod` leaves a resolution
  without dependencies in the memo, which passes every later check of its paths
  (engine.rs:284-290; `RendersResume` with `Resting = FALSE`): no later render of that
  process succeeds.  The run has a wipe between renders only.
* A pull that the engine remembers (engine.rs:239) answers for a tag that has moved
  since, as long as the process lives: `FreshPull` speaks of pulls only.
* A patch that sets `metadata.name`, or all of `metadata`, to null removes it: an identity field
  is restored only into a slot that is still there (compose.rs:110-128).  `IdentitySurvives`
  excepts such a patch, and only it; the pipeline of the run has one.
* A line that is JSON `null` kills the MCP server: `req.id` (mcp.ts:327) throws outside the try,
  nothing catches the rejection of the chain (341-357), and what is queued stays unanswered.
  `AnswersInOrder` asks for the answers before it.
* The MCP server's scan "cannot change while the process lives" (mcp.ts:52-57), but
  main moves, and the answers grow stale together (`OneSnapshot` says that they agree).
* An empty `KCL_REGISTRY` is replaced by the one of `nx.json` when a pin is written and refused when
  the package is pushed, although "both steps always target the same registry"
  (publish-executor.ts:18-20).  The publish throws and the run reports it: `PinsResolve`
  allows a pin whose publish was lost.
* A failed `docker rm -f` is taken for a name that was free (docker.ts:212-218), and the
  `docker run` behind it then fails.  `LeftoversNeverBlock` of `Bench` excepts that one start.
* A refresh of the rate card overwrites what a person wrote into another block while it
  ran.

Bounds.  `MaxEdits`, `MaxFaults`, `MaxLag`, `MaxMoves`, `MaxCalls`, `MaxWipes`, `MaxRuns`,
`MaxDay`, `MaxRequests` and `Budget` cap the environment, never the program;
`MaxCalls` is the most calls of one reply, `RenderErrors` the reasons that a failing render may
give (error.rs; one in the runs, since they are reported alike), and
`MaxSteps` is a parameter of the request.  Three user actions create a
module, edit its source and delete it, or create two modules that share an object
and change one; a fourth is given where a violation needs it.  One failure at every
call, and each later retry, covers the error paths, since a reconcile keeps nothing
between two calls but what the status records.  `MaxLag` is how many events a
cache may be behind when a reconcile starts: with one, reconciles miss a user's edit or the
controller's own last write, and with two a cleanup starts from a status older than that.
Two objects make an apply that is half done and a prune that is.  Two
layers under one tag and one library make a republish and a walk; a second package, which pins
an older tag of the library, makes two references of one name; two
files make a package that is partly there; two threads race every step.
Two turns of up to two calls make a reply with several calls, one that follows a
failed call, the demand for prose between two replies, and the step limit after
each.  Calls are bounded per reply, so it is the program's count of turns that ends a run.

`MaxFetches` is Crossplane's five reruns.  The five steps make every pair of
interactions: a resource overlaid, patched and labelled by later steps, a base
patched, the composite patched under both targets; a spec that fails late in the
pipeline; three changes are a grant, a revocation and an edit, at any moment.

`Budget` is shared: each commit, run by hand, line a client sends, failed push
of a package or cancelled run takes one of three.  Three are a commit during a
release that is itself cut short, two commits that race the push, or two requests
with a commit between them; a release that follows any of them is free.  The four
packages are the least with a chain of two path dependencies, a generated
package, a composition with a pin, and two versions of one registry dependency.

Two pages and two prices put a second match on a later page, with the same price or
another; one vendor's change falls between any two pages of any run, and one
midnight between its first query and its write.  `Price.cfg` gives runs
credentials for AWS only, so that GCP's queries end where the key is missing; what
is proved of them holds for every set of credentials.

Two render tasks are a task and whoever is in its way; the second benchmark run
meets what the first left.

Deadlock is not checked, except in `composition`: when the environment's bounds are
used up and every module is settled, every task and run has ended and the server has
exited, there is nothing left to do, which is how these systems rest.
In `RenderCache` the cfgs leave it off for uniformity with those; a render can
always begin there, except while a wipe runs in the resting run.

Fairness.  `KclOperator`: weak fairness of delivery, timers, the start of a due
reconcile and of the steps of a running one.  The watch delivers what was
written, tokio polls ready tasks, `Action::requeue` is a timer.  Users and
failures are under no fairness.  `RenderCache`: weak fairness of each thread, of
the next render (reconcile interval, Crossplane's polling) and of a started
`rm -rf`.  `Composition`: weak fairness of Crossplane's loop, which polls every XR.
The agent and the tools run once and promise nothing about when, so `AgentLoop`, `RenderTask`,
`Bench`, `PriceRefresh` and `CatalogServer` have no fairness.  That an agent's run ends is a matter of
counting: `WithinBudget` bounds its turns, and each has finitely many calls.

The safety properties of two modules that render one object say what a module
leaves behind, not that its objects survive the other module: forced applies
take over, and the code promises nothing else.

## What is proved

Every safety invariant and every action property that a passing run checks is also a theorem, for all
values of the constants that the assumption of the module allows (`OperatorAssumption`,
`CompositionAssumption`, ...).  Where a theorem has a hypothesis of its own it is given, with what
happens without it.

`KclOperatorProofs`, for every fleet, all sources and specs, and all bounds:

* `TypeCorrect`: `Spec => []TypeOK`.
* `InventoryComplete`, `DeletionIsClean`: `Spec => []LedgerComplete` and
  `Spec => []CleanDeletion`.
* `RejectionsWriteNothing`: `Spec => []RejectedRenderWritesNothing`.
* `DeletesAreStale`: `Spec => DeletesOnlyStale`.
* `InventoryMatchesHash`: `Spec => []InventoryIsLastApply`.
* `ReadyIsAboutSpec`: `Spec => []ReadyDescribesSpec`.
* `FailuresKeepInventory`: `Spec => FailureKeepsInventory`.

All of these hold for any lag.  `LedgerComplete` and `CleanDeletion` speak of a module that is
`Undisturbed`: no call has failed, and none of its reconciles was started without the
controller's own last write to it in the cache (`lagged`).  It may have missed a user's edits, and other
modules may lag.

`LedgerComplete` is not inductive.  `Ledger` adds, of undisturbed modules, that
a running reconcile's snapshot has the stored status (`SnapshotCurrent`: it had it
at the start, since then only this reconcile writes the status, and
the user's actions leave it alone); that a module which is being worked on holds
its finalizer (`FinalizerHolds`); that a module which has not got that far owns
nothing (`NothingApplied`); and that each object owned is accounted for by the
place the reconcile stands at (`Accounted`: still to be pruned, just applied,
recorded or released).  `StepKeepsLedger` has one lemma per group of actions.

`RejectedRenderWritesNothing` and `DeletesOnlyStale` need what each loop has in hand at
each place of a reconcile (`InHand`): an apply loop holds an accepted render, a prune loop
what the snapshot records beyond it.  The two statements about the stored status
hold however stale the reconcile's own snapshot is, so their invariants speak of a module's
whole history, the versions the cache still has to go through and the one a running
reconcile saw (`Known`): hash and inventory agree in each (`HistorySound`), and none
is ahead of the server's generation or has another spec under the same one (`Dated`).
`Moves` lists the four ways in which the server's version changes, so that each
invariant is proved against those and not against every action.

Both parts of `Undisturbed` are needed: `operator_stale_delete` is the counterexample for a
module that lags, and the half-done apply described above the one after a failure.
`HistorySound` and `StatusSound` carry the exception for an empty render.  That a failure
keeps the inventory needs no invariant of its own: a status that a failure is written
to is the one the write was computed from, or has been replaced.

`RenderCacheProofs`, for any processes, threads and packages, and whether or not
the cache rests while something renders:

* `CacheIsTyped`: `Spec => []TypeOK`.
* `DirectoriesAreWhole`: `Spec => []PublishedComplete`.
* `PullsAreFresh`: `Spec => FreshPull`.
* `RacesAreHarmless`: `Spec => []RaceIsHarmless`.

`Typed` is `TypeOK` with what the program counter implies (`Named`: a fetch has a
reference, from the probe on it has a layer, and what is walked has a root).
`Whole` says more than `PublishedComplete`: a directory that no removal is working on is
absent or whole, so the rename is what publishes.  `Recent` carries a pull from
the moment the manifest is read: what every tag names now was seen since each running
render began, and so was the layer in hand.

`RaceIsHarmless` is about the end of a render; its invariant is about everything that a render
relies on while nothing fails and nothing is wiped (`Undisturbed`): directories are absent or
whole and stay (`Surrounded`), memos point at whole ones and complete resolutions
(`Remembered`), and each walk still owes exactly the references it has neither found
nor queued (`OnItsWay`), whatever the other threads publish meanwhile.

`AgentLoopProofs`, for every step limit and every set of objects:

* `RunIsTyped`: `Spec => [](TypeOK /\ Working)`, where `Working` says that calls run
  only while there are some, and within the budget.
* `AlwaysAnswered`: `Spec => []TranscriptAnswered`.
* `ProposeWritesNothing`: `Spec => ProposeChangesNothing`.
* `ReportsAreFaithful`: `Spec => []ReportIsFaithful`.
* `BudgetBindsTheModel`: `Spec => []WithinBudget`.

`TranscriptAnswered` speaks of the moments at which the model is asked.
`Transcript` adds the moments in between: the calls that are still to run are the
tail of the last reply, and those before them have been answered behind it.
`ReportIsFaithful` pairs the n-th tool reply with the n-th step and the n-th successful
write with the n-th one reported; it counts positions (`Rank`) and selects no
subsequence, which a proof cannot take apart without induction over data.  `Faithful` is inductive.
`Counted` says that the model has been asked as often as turns have been counted, which
`WithinBudget` bounds by the limit.

`CompositionProofs`, for every pipeline, all specs and all bounds:

* `GateHolds`: `Spec => GateFailsClosed`.
* `WantedIsKept`: `Spec => DeletesOnlyOnPurpose`.
* `RequirementsDoSettle`: `MaxFetches >= 2` implies `Spec => []RequirementsSettle`
  (Crossplane's is five).
* `EarlierStepsAreKept`: `Spec => []EarlierStepsKept`.
* `PatchesKeepIdentity`: `Spec => IdentitySurvives`.

The first two follow from `Reconciling`: a call is handed what the call before asked for
(`Answering`), what is paid for is desired only after a grant (`Earned`), and the
desired state has the names of every step gone through (`Kept`).  The heart is
`CallComposes`: a gated step that has no record yet either composes nothing at
all or asks for the record, and then its response is not the last one.

Requirements settle because they depend on the record only through whether it is there
(`RequirementsVary`): `Settling` follows what a step has asked for through two changes, after
which there is no third.

The last two are about a resource through any number of patches, a fold.  `FoldInRounds`
gives the documents between the items, from the recursive function that the fold is
defined by; what each round keeps (`PatchKeeps`, `PatchKeepsField`) is carried to the end by a
least round that would lose it.  `Sections` then says of every step gone through what
`EarlierStepsKept` says.  `PatchesKeepIdentity` asks nothing of the pipeline: the statement itself
excepts what a patch of the step nulls (`Gentle` patches do not), the divergence described above.
The pipeline of the run has a patch that tries to change a gvk, one that nulls a name, and others that
touch neither.

`RenderTaskProofs`, for any tasks and options:

* `RendersAreOwn`: `Spec => []RendersOwnTree`.
* `LeftoversAreHarmless`: `Spec => LeftoversNeverBlock`.

The invariant says, for a task that nobody has disturbed, what must be under
its name at each place of its path (`TaskOK`), and that no two running containers
publish one port (`OnePort`), so that whoever answers is the one that was looked at.

`BenchProofs`, for any desired states, selections and bounds:

* `GateIsSound`: `Spec => []GateIsHonest`.
* `MatrixIsMeasured`: `Spec => []MatrixIsWhole`.
* `LeftoversDoNotBlock`: `Spec => LeftoversNeverBlock`.

A cell's verdict is worth something only if the reference cell it was compared with is
the only one.  `InOrder` says that the cells come in the order of the matrix
(`Rank`) and `Ahead` that they are all before the cell to come; `OneReference` follows,
and `Judged` keeps the verdicts true until the gate.  `Matrix` adds that nothing is left out: at every
moment the cells are those of the runnable places before the cursor (`Filled`), and what a
second reconcile observes is what the cell before it desired (`Chained`, `Poised`).  `Hosted`
says that containers stand only under the runtimes' names, each on its own port, and that the name
is free when a runtime is started, unless its removal failed; the matrix is that of the runtimes and
scenarios asked for.  `BenchAssumption` has the three ports of docker.ts.

`PriceRefreshProofs`, for all requests, credentials, listings and bounds:

* `TypeIsCorrect` and `HonestDates`: `Spec => []TypeOK`, `Spec => []AsOfIsHonest`.
* `KeepsTheCard`: `Spec => ImplementsCard`, the refinement of `RateCard`.
* `ChecksAreHonest`, `RefreshesAreWhole`, `AmbiguityIsRefused`: `Spec => []CheckIsHonest`,
  `Spec => RefreshIsWhole`, `Spec => AmbiguousNeverTaken`.

A run holds a copy of the file and prices that it has found; the invariant says
of both what `RateCard` says of the file: the copy is honest, and each price found was quoted
since the run's `TODAY`.  Splicing then keeps the copy honest, and writing an
old copy cannot make the file dishonest.

`CatalogServerProofs`, for any trees, drafts, environments and budgets:

* `ImagesAreTagged`: `Spec => []PublishedIsTagged`.
* `PinsAreServed`: `Spec => []PinsResolve`.
* `ChangesAreReleased`: `Spec => []NothingForgotten`.
* `PinsDoNotDrift`: `Spec => []NoPinDrift`.
* `ImagesResolve`: `Spec => []VendoredResolves`.
* `AnswersAreInOrder`: `Spec => []AnswersInOrder`.
* `SessionsAreConsistent`: `Spec => []OneSnapshot`.

Pins, tags and changes hang together, so one invariant, `History`, proves three of these.
It says that main's tree is sound, no pin off its package's version and no change dated after
its head (`MainOK`); that what waits was checked out from main as it is, or is overtaken: started by hand before a release that
has tagged all it would (`TriggerOK`); that a run
which may still push holds the release of an earlier main, the latest unless another run waits
(`PushOK`); that a run which has pushed is the one that the pins of its packages come from
(`OursPinned`); that a package whose content no tag holds depends on something touched since the
last release (`Fresh`); and that without a run to come nothing is affected (`Quiet`).
`TagsArePacked` says that what a tag was put on was packed from a sound tree, from which
`VendoredResolves` follows.

`Ordered` says that the queue holds the numbers of the lines that were not taken yet,
that the one being handled is the last taken, and that exactly those before it that want one have their
answer; and that a session ends with nothing left to do or by a line that was null (`Over`).  `Snapshot` says that an answer read from the scan is of the tree that is kept.

Only model-checked: liveness (`Converges`, `NoHotLoop`, `RendersResume`,
`ReachesDesired`), which is out of the prover's reach.  The bounds of those runs are therefore
all that stands behind them.

## Not modelled

* The generators and the remove executor of nx-kcl: sequential text generation, run by hand
  into a tree that nx flushes once at the end.
* The benchmarks' report, statistics and recorded results, the install graph, `kclx`'s
  argument handling and printing: formatting, or wiring of what is modelled.
* Render sources: an inline program is written to a temporary file and renamed onto one
  whose directory is named after its content, so concurrent renders write the same bytes.
* `plan`, `scope`, `parse_interval`, label values, registry rewriting and parsing of
  `kcl.mod`: functions of their arguments, present as the verdict or the data they yield.
* The package-registry function and `xup`: one request, one response; scaffolding.
* The KCL packages: declarative schemas and templates, mostly generated from CRDs; the
  entitlement gate is the exception and is part of `Composition`.
